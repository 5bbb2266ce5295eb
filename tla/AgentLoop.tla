------------------------------ MODULE AgentLoop ------------------------------
(***************************************************************************)
(* One agent node: a warm pi process driven over its pipes, prompted with  *)
(* the task and then with the output of a gate until the gate is green or  *)
(* the fixes are used up (agent.Task over agent.RPC).                      *)
(*                                                                         *)
(* Four things run side by side: the loop, the goroutine that reads pi's   *)
(* standard output, pi itself, and the deadline of the run.  pi writes     *)
(* into a pipe of bounded size, the reader forwards into a channel of      *)
(* bounded size, and any of them may find the next one stopped.            *)
(***************************************************************************)
EXTENDS Naturals, Sequences, SequencesExt

CONSTANTS MaxFixes,     \* gate evaluations before the final one
          MaxMessages,  \* assistant messages pi produces
          PipeCap,      \* events the pipe of pi's output holds
          ChanCap       \* events the channel holds

ASSUME BoundsAssumption ==
  /\ MaxFixes \in Nat \ {0} /\ MaxMessages \in Nat \ {0}
  /\ PipeCap \in Nat \ {0} /\ ChanCap \in Nat \ {0}

VARIABLES pc,        \* the loop: spawn, prompts, gate, abort, session files
          prompts, gates,
          turn,      \* the turn in progress: usage seen, message_end seen, how it ended
          counted,   \* how often each message is in the reported usage
          seen,      \* seenAgentMsgs
          reader, holds, ch, closed,
          stopped,   \* the done channel is closed, and so is pi's input
          pi, shape, conv, minted, blank, pipe,
          holder,    \* a process pi left behind holds its output open
          ctx,       \* the run's context is done
          cut,       \* history: the last gate evaluation was cut short
          drifted    \* history: pi has compacted its conversation, or sent a
                     \* snapshot that does not parse

loopVars == <<pc, prompts, gates, turn, counted, seen, cut>>
readVars == <<reader, holds, ch, closed>>
piVars == <<pi, shape, conv, minted, blank, pipe, holder, drifted>>
vars == <<loopVars, readVars, piVars, stopped, ctx>>

Message == 1..MaxMessages
\* The messages of a conversation that are not the assistant's: prompts, tool
\* results and the summary a compaction leaves.
Other == 0

NoTurn == [usage |-> FALSE, ended |-> FALSE, by |-> "none"]
Chatter == [kind |-> "other"]
MessageEnd(m) == [kind |-> "message_end", msg |-> m]
AgentEnd(c) == [kind |-> "agent_end", messages |-> c]

IsEvent(e) ==
  \/ e = Chatter
  \/ e.kind = "message_end" /\ e.msg \in Message
  \/ e.kind = "agent_end" /\ Range(e.messages) \subseteq Message \cup {Other}

\* The loop never prompts more than MaxFixes times nor evaluates the gate more
\* than once more, and both buffers keep their bounds.
TypeOK ==
  /\ pc \in {"spawn", "send", "wait", "gate", "abort", "closing", "files", "done"}
  /\ prompts \in 0..MaxFixes /\ gates \in 0..(MaxFixes + 1)
  /\ turn \in [usage : BOOLEAN, ended : BOOLEAN, by : {"none", "agent_end", "closed"}]
  /\ DOMAIN counted = Message /\ \A m \in Message : counted[m] \in Nat
  /\ seen \in Nat
  /\ reader \in {"read", "send", "gone"} /\ IsEvent(holds)
  /\ Len(ch) <= ChanCap /\ Len(pipe) <= PipeCap
  /\ \A e \in Range(ch) \cup Range(pipe) : IsEvent(e)
  /\ pi \in {"idle", "busy", "gone"} /\ shape \in {"boundary", "snapshot"}
  /\ Range(conv) \subseteq Message \cup {Other}
  /\ minted \in 0..MaxMessages /\ blank \subseteq Message
  /\ {closed, stopped, holder, ctx, cut, drifted} \subseteq BOOLEAN

Init ==
  /\ pc = "spawn" /\ prompts = 0 /\ gates = 0
  /\ turn = NoTurn /\ counted = [m \in Message |-> 0] /\ seen = 0
  /\ reader = "gone" /\ holds = Chatter /\ ch = <<>> /\ closed = FALSE
  /\ stopped = FALSE
  /\ pi = "gone" /\ shape \in {"boundary", "snapshot"}
  /\ conv = <<>> /\ minted = 0 /\ blank = {} /\ pipe = <<>>
  /\ holder = FALSE /\ ctx = FALSE /\ cut = FALSE /\ drifted = FALSE

\* Variants used to check that the properties can be violated.
WaitForKill == stopped
CutReadsRed(green, expired) == IF green /\ ~expired THEN "green" ELSE "red"
DeltaOfAll(messages, mark) == messages
KilledNever == FALSE

-----------------------------------------------------------------------------
(* pi (external): what its event stream shows of it.                       *)

Room == Len(pipe) < PipeCap
Emit(e) == pipe' = Append(pipe, e)

\* An assistant message; in the boundary shape its end is an event of its own.
\* A blank one has no text and no tokens (a refused key, a dead upstream).
PiMessage(isBlank) ==
  /\ pi = "busy" /\ minted < MaxMessages /\ Room
  /\ minted' = minted + 1
  /\ conv' = Append(conv, minted + 1)
  /\ blank' = IF isBlank THEN blank \cup {minted + 1} ELSE blank
  /\ IF shape = "boundary" THEN Emit(MessageEnd(minted + 1)) ELSE UNCHANGED pipe
  /\ UNCHANGED <<loopVars, readVars, stopped, pi, shape, holder, ctx, drifted>>

\* The turn ends with a snapshot of the whole conversation.
PiEnds ==
  /\ pi = "busy" /\ Room
  /\ pi' = "idle" /\ Emit(AgentEnd(conv))
  /\ UNCHANGED <<loopVars, readVars, stopped, shape, conv, minted, blank, holder, ctx, drifted>>

\* Events the loop only logs: extensions, retries, answers to commands.
PiChatters ==
  /\ pi # "gone" /\ Room /\ Emit(Chatter)
  /\ UNCHANGED <<loopVars, readVars, stopped, pi, shape, conv, minted, blank, holder, ctx, drifted>>

\* The conversation becomes a summary and a tail of recent messages.
PiCompacts(k) ==
  /\ pi = "busy" /\ ~drifted /\ k < Len(conv)
  /\ conv' = <<Other>> \o SubSeq(conv, k + 1, Len(conv))
  /\ drifted' = TRUE
  /\ UNCHANGED <<loopVars, readVars, stopped, pi, shape, minted, blank, pipe, holder, ctx>>

\* A tool leaves a process behind that inherited pi's output.
PiDetaches ==
  /\ pi = "busy" /\ ~holder /\ holder' = TRUE
  /\ UNCHANGED <<loopVars, readVars, stopped, pi, shape, conv, minted, blank, pipe, ctx, drifted>>

HolderExits ==
  /\ holder /\ holder' = FALSE
  /\ UNCHANGED <<loopVars, readVars, stopped, pi, shape, conv, minted, blank, pipe, ctx, drifted>>

PiGone ==
  /\ pi' = "gone"
  /\ UNCHANGED <<loopVars, readVars, stopped, shape, conv, minted, blank, pipe, holder, ctx, drifted>>

PiCrashes == pi # "gone" /\ PiGone

\* Its input is closed and it is not stuck in a write: pi exits.
PiExits == pi # "gone" /\ stopped /\ Room /\ PiGone

\* exec.CommandContext kills the process, not its descendants.
CtxKills == pi # "gone" /\ ctx /\ PiGone

\* The run's deadline, or its cancellation.
Deadline ==
  /\ ~ctx /\ ctx' = TRUE
  /\ UNCHANGED <<loopVars, readVars, piVars, stopped>>

-----------------------------------------------------------------------------
(* readLoop.                                                               *)

ReadLine ==
  /\ reader = "read" /\ pipe # <<>>
  /\ reader' = "send" /\ holds' = Head(pipe) /\ pipe' = Tail(pipe)
  /\ UNCHANGED <<loopVars, ch, closed, stopped, pi, shape, conv, minted, blank, holder, ctx, drifted>>

Forward ==
  /\ reader = "send" /\ Len(ch) < ChanCap
  /\ ch' = Append(ch, holds) /\ reader' = "read" /\ holds' = Chatter
  /\ UNCHANGED <<loopVars, closed, piVars, stopped, ctx>>

\* Abort: the reader leaves its event and the pipe as they are.
ReaderStops ==
  /\ reader = "send" /\ stopped
  /\ reader' = "gone" /\ holds' = Chatter
  /\ UNCHANGED <<loopVars, ch, closed, piVars, stopped, ctx>>

EndOfStream ==
  /\ reader = "read" /\ pipe = <<>> /\ pi = "gone" /\ ~holder
  /\ reader' = "gone" /\ closed' = TRUE
  /\ UNCHANGED <<loopVars, holds, ch, piVars, stopped, ctx>>

\* The goroutine Abort starts.
Drain ==
  /\ stopped /\ ch # <<>> /\ ch' = Tail(ch)
  /\ UNCHANGED <<loopVars, reader, holds, closed, piVars, stopped, ctx>>

-----------------------------------------------------------------------------
(* Prompt and Task.                                                        *)

\* NewRPC: the process starts, or the run ends with the error.
NewRPC(ok) ==
  /\ pc = "spawn"
  /\ pc' = IF ok THEN "send" ELSE "done"
  /\ pi' = IF ok THEN "idle" ELSE pi
  /\ reader' = IF ok THEN "read" ELSE reader
  /\ UNCHANGED <<prompts, gates, turn, counted, seen, cut, holds, ch, closed, stopped,
                 shape, conv, minted, blank, pipe, holder, ctx, drifted>>

\* The write to a pi that is gone fails, and Task returns the error.
SendPrompt ==
  /\ pc = "send"
  /\ IF pi = "gone"
     THEN /\ pc' = "abort" /\ UNCHANGED <<prompts, turn, pi, conv>>
     ELSE /\ pc' = "wait" /\ prompts' = prompts + 1 /\ turn' = NoTurn
          /\ pi' = "busy" /\ conv' = Append(conv, Other)
  /\ UNCHANGED <<gates, counted, seen, cut, readVars, stopped, shape, minted, blank,
                 pipe, holder, ctx, drifted>>

\* The part of a snapshot that belongs to this turn.  One that is shorter than
\* the watermark is a compacted one and counts from its start.
Delta(messages, mark) ==
  SubSeq(messages, (IF Len(messages) < mark THEN 0 ELSE mark) + 1, Len(messages))

\* Messages of the delta that carry usage.
Charged(messages, mark) == {m \in Range(Delta(messages, mark)) : m # Other /\ m \notin blank}

Count(ms) == [m \in Message |-> counted[m] + IF m \in ms THEN 1 ELSE 0]

\* A turn that produced a message_end, but no text and no tokens (#504).
EmptyCompletion(t) == t.ended /\ ~t.usage

\* What Prompt's caller does with a turn that returned no error.
Judged(t) == IF EmptyCompletion(t) THEN "abort" ELSE "gate"

\* The end of a prompt or of a tool's result is a message_end too: it carries
\* no usage, but nobody looks at its role.
ReceiveOther(isEnd) ==
  /\ pc = "wait" /\ ch # <<>> /\ Head(ch).kind = "other"
  /\ isEnd => shape = "boundary"
  /\ turn' = [turn EXCEPT !.ended = @ \/ isEnd]
  /\ ch' = Tail(ch)
  /\ UNCHANGED <<pc, prompts, gates, counted, seen, cut, reader, holds, closed, piVars, stopped, ctx>>

ReceiveMessageEnd ==
  /\ pc = "wait" /\ ch # <<>> /\ Head(ch).kind = "message_end"
  /\ LET m == Head(ch).msg
     IN  /\ counted' = IF m \in blank THEN counted ELSE Count({m})
         /\ turn' = [turn EXCEPT !.ended = TRUE, !.usage = @ \/ m \notin blank]
  /\ ch' = Tail(ch)
  /\ UNCHANGED <<pc, prompts, gates, seen, cut, reader, holds, closed, piVars, stopped, ctx>>

\* absorbAgentEnd: the snapshot is charged only in a turn without usage, and the
\* watermark moves in any case.
ReceiveAgentEnd ==
  /\ pc = "wait" /\ ch # <<>> /\ Head(ch).kind = "agent_end"
  /\ LET messages == Head(ch).messages
         charged == IF turn.usage THEN {} ELSE Charged(messages, seen)
     IN  /\ counted' = Count(charged)
         /\ turn' = [turn EXCEPT !.usage = @ \/ charged # {}, !.by = "agent_end"]
         /\ seen' = Len(messages)
         /\ pc' = Judged(turn')
  /\ ch' = Tail(ch)
  /\ UNCHANGED <<prompts, gates, cut, reader, holds, closed, piVars, stopped, ctx>>

\* A snapshot that does not parse is logged: nothing is charged, the watermark
\* stays, and the turn has ended all the same.
ReceiveUnparsable ==
  /\ pc = "wait" /\ ch # <<>> /\ Head(ch).kind = "agent_end"
  /\ turn' = [turn EXCEPT !.by = "agent_end"]
  /\ pc' = Judged(turn')
  /\ drifted' = TRUE
  /\ ch' = Tail(ch)
  /\ UNCHANGED <<prompts, gates, counted, seen, cut, reader, holds, closed, stopped,
                 pi, shape, conv, minted, blank, pipe, holder, ctx>>

\* The stream closed before agent_end: no error, the gate decides.
StreamClosed ==
  /\ pc = "wait" /\ ch = <<>> /\ closed
  /\ turn' = [turn EXCEPT !.by = "closed"]
  /\ pc' = Judged(turn)
  /\ UNCHANGED <<prompts, gates, counted, seen, cut, readVars, piVars, stopped, ctx>>

PromptCancelled ==
  /\ pc = "wait" /\ ctx
  /\ pc' = "abort"
  /\ UNCHANGED <<prompts, gates, turn, counted, seen, cut, readVars, piVars, stopped, ctx>>

\* GatePlugin.Run: whatever the command did, a gate whose context is done is an
\* error and not an answer.
GateResult(green, expired) == IF expired THEN "error" ELSE IF green THEN "green" ELSE "red"

\* After a red gate: feedback, or after the last fix the final gate, or the end.
AfterRed(n) == IF n < MaxFixes THEN "send" ELSE IF n = MaxFixes THEN "gate" ELSE "abort"

\* One evaluation; expired is the gate's own timeout or the run's deadline.
EvalGate(green, expired) ==
  /\ pc = "gate" /\ (ctx => expired)
  /\ gates' = gates + 1 /\ cut' = expired
  /\ pc' = IF GateResult(green, expired) = "red" THEN AfterRed(gates + 1) ELSE "abort"
  /\ UNCHANGED <<prompts, turn, counted, seen, readVars, piVars, stopped, ctx>>

\* Abort, on a context without cancellation: stop the reader, close pi's input ...
Abort ==
  /\ pc = "abort"
  /\ stopped' = TRUE /\ pc' = "closing"
  /\ UNCHANGED <<prompts, gates, turn, counted, seen, cut, readVars, piVars, ctx>>

\* ... and wait until pi is gone and nobody holds its output.
Exited == pi = "gone" /\ ~holder

Wait ==
  /\ pc = "closing" /\ Exited
  /\ pc' = "files"
  /\ UNCHANGED <<prompts, gates, turn, counted, seen, cut, readVars, piVars, stopped, ctx>>

\* The session files go to SessionFiles, and Run returns.
ReadSessionFiles ==
  /\ pc = "files" /\ pc' = "done"
  /\ UNCHANGED <<prompts, gates, turn, counted, seen, cut, readVars, piVars, stopped, ctx>>

Loop ==
  \/ \E ok \in BOOLEAN : NewRPC(ok)
  \/ SendPrompt \/ ReceiveMessageEnd \/ ReceiveAgentEnd \/ ReceiveUnparsable
  \/ \E isEnd \in BOOLEAN : ReceiveOther(isEnd)
  \/ StreamClosed \/ PromptCancelled
  \/ \E green, expired \in BOOLEAN : EvalGate(green, expired)
  \/ Abort \/ Wait \/ ReadSessionFiles

Reader == ReadLine \/ Forward \/ ReaderStops \/ EndOfStream \/ Drain

Pi ==
  \/ \E b \in BOOLEAN : PiMessage(b)
  \/ PiEnds \/ PiChatters \/ PiDetaches \/ HolderExits \/ PiCrashes \/ PiExits \/ CtxKills
  \/ \E k \in 0..Len(conv) : PiCompacts(k)

Next == Loop \/ Reader \/ Pi \/ Deadline

Spec == Init /\ [][Next]_vars

\* The goroutines run, a pi whose input is closed exits when it can, the kernel
\* delivers the kill, and the deadline comes.  Nothing makes pi end a turn, nor
\* a process it left behind exit.
Fairness ==
  /\ WF_vars(Loop) /\ WF_vars(PromptCancelled) /\ WF_vars(Reader)
  /\ WF_vars(PiExits) /\ WF_vars(CtxKills) /\ WF_vars(Deadline)

FairSpec == Spec /\ Fairness

-----------------------------------------------------------------------------
(* Properties.                                                             *)

\* Token accounting over a warm session that sends its whole conversation again
\* with every turn: while every snapshot parses and none was compacted, no
\* message is charged twice, whichever of the two event shapes carries it, and
\* after a turn that ended all of it is.
UsageExact ==
  ~drifted =>
    /\ \A m \in Message : counted[m] <= 1
    /\ pc = "gate" /\ turn.by = "agent_end"
         => \A m \in Range(conv) \ (blank \cup {Other}) : counted[m] = 1

\* A killed gate is not feedback: no fix is prompted for by an evaluation that
\* a timeout or the deadline cut short.
KilledGateIsNoFeedback == pc \in {"send", "wait"} => ~cut

\* pi flushes its session when it exits: the files are read after that, also
\* when the run was cancelled.
FlushedBeforeRead == pc \in {"files", "done"} => pi = "gone"

\* A run ends, unless a process pi left behind keeps its output open for ever:
\* neither a reader that stopped, a full channel, a full pipe, a crash in the
\* middle of a turn nor a turn that never ends holds it.
RunEnds == <>[](~holder) => <>(pc = "done")
=============================================================================
