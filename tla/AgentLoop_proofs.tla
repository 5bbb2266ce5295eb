-------------------------- MODULE AgentLoop_proofs --------------------------
(* What holds of an agent node for any number of fixes, messages and buffer *)
(* sizes, whatever pi does: where the loop may be after a gate was cut      *)
(* short, when the session files are read, how often it prompts, and that   *)
(* the usage it reports is what pi used.                                    *)
EXTENDS AgentLoop, SequenceTheorems, TLAPS

(* The two control invariants.  A loop that may still send has not been cut *)
(* off, from the spawn on; pi is gone before it is spawned and after it was *)
(* waited for.                                                              *)
Uncut == pc \in {"spawn", "send", "wait"} => ~cut
Waited == pc \in {"spawn", "files", "done"} => pi = "gone"

LEMMA ControlInit == Init => Uncut /\ Waited
  BY DEF Init, Uncut, Waited

(* A step of pi, of the reader or of the clock leaves the loop where it is, *)
(* and none of them starts pi.                                              *)
LEMMA OthersKeep ==
  ASSUME Uncut, Waited, Reader \/ Pi \/ Deadline
  PROVE  Uncut' /\ Waited'
<1>1. UNCHANGED loopVars
  BY DEF Reader, Pi, Deadline, ReadLine, Forward, ReaderStops, EndOfStream, Drain,
         PiMessage, PiEnds, PiChatters, PiCompacts, PiDetaches, HolderExits, PiGone,
         PiCrashes, PiExits, CtxKills
<1>2. pi = "gone" => pi' = "gone"
  BY DEF Reader, Pi, Deadline, ReadLine, Forward, ReaderStops, EndOfStream, Drain, piVars,
         PiMessage, PiEnds, PiChatters, PiCompacts, PiDetaches, HolderExits, PiGone,
         PiCrashes, PiExits, CtxKills
<1> QED  BY <1>1, <1>2 DEF Uncut, Waited, loopVars

LEMMA LoopKeeps ==
  ASSUME Uncut, Waited, Loop
  PROVE  Uncut' /\ Waited'
<1>1. ASSUME NEW ok \in BOOLEAN, NewRPC(ok) PROVE Uncut' /\ Waited'
  BY <1>1 DEF NewRPC, Uncut, Waited
<1>2. CASE SendPrompt
  BY <1>2 DEF SendPrompt, Uncut, Waited
<1>3. ASSUME NEW isEnd \in BOOLEAN, ReceiveOther(isEnd) PROVE Uncut' /\ Waited'
  BY <1>3 DEF ReceiveOther, piVars, Uncut, Waited
<1>4. CASE ReceiveMessageEnd
  BY <1>4 DEF ReceiveMessageEnd, piVars, Uncut, Waited
<1>5. CASE ReceiveAgentEnd \/ ReceiveUnparsable
  <2>1. pc = "wait" /\ pc' \in {"abort", "gate"} /\ UNCHANGED cut
    BY <1>5 DEF ReceiveAgentEnd, ReceiveUnparsable, Judged
  <2> QED  BY <2>1 DEF Uncut, Waited
<1>6. CASE StreamClosed
  <2>1. pc' \in {"abort", "gate"}
    BY <1>6 DEF StreamClosed, Judged
  <2> QED  BY <2>1 DEF Uncut, Waited
<1>7. CASE PromptCancelled
  BY <1>7 DEF PromptCancelled, Uncut, Waited
<1>8. ASSUME NEW green \in BOOLEAN, NEW expired \in BOOLEAN, EvalGate(green, expired)
      PROVE  Uncut' /\ Waited'
  <2>1. pc' \in {"send", "gate", "abort"} /\ cut' = expired
    BY <1>8 DEF EvalGate, AfterRed
  <2>2. expired => pc' = "abort"
    BY <1>8 DEF EvalGate, GateResult
  <2> QED  BY <2>1, <2>2 DEF Uncut, Waited
<1>9. CASE Abort
  BY <1>9 DEF Abort, Uncut, Waited
<1>10. CASE Wait
  BY <1>10 DEF Wait, Exited, piVars, Uncut, Waited
<1>11. CASE ReadSessionFiles
  BY <1>11 DEF ReadSessionFiles, piVars, Uncut, Waited
<1> QED  BY <1>1, <1>2, <1>3, <1>4, <1>5, <1>6, <1>7, <1>8, <1>9, <1>10, <1>11 DEF Loop

LEMMA ControlStep == Uncut /\ Waited /\ [Next]_vars => Uncut' /\ Waited'
<1>1. SUFFICES ASSUME Uncut, Waited, [Next]_vars PROVE Uncut' /\ Waited'
  OBVIOUS
<1>2. CASE UNCHANGED vars
  BY <1>1, <1>2 DEF vars, loopVars, piVars, Uncut, Waited
<1> QED  BY <1>1, <1>2, LoopKeeps, OthersKeep DEF Next

(* For any number of fixes: no fix is prompted for by a gate evaluation that *)
(* a timeout or the run's deadline cut short (GatePlugin.Run, agent.Task).   *)
THEOREM GateKillsStayOut == Spec => []KilledGateIsNoFeedback
<1>1. Uncut => KilledGateIsNoFeedback
  BY DEF Uncut, KilledGateIsNoFeedback
<1> QED  BY <1>1, ControlInit, ControlStep, PTL DEF Spec

(* Whatever pi, its descendants, the reader and the deadline do, the session *)
(* files are read, and the run returns, after pi has exited (RPC.Abort).     *)
THEOREM FilesAfterExit == Spec => []FlushedBeforeRead
<1>1. Waited => FlushedBeforeRead
  BY DEF Waited, FlushedBeforeRead
<1> QED  BY <1>1, ControlInit, ControlStep, PTL DEF Spec

-----------------------------------------------------------------------------
(* How many prompts and gates there may have been, by where the loop is.  A  *)
(* prompt precedes each gate but the final one.                              *)
Counted ==
  /\ prompts \in Nat /\ gates \in Nat
  /\ pc \in {"spawn", "send"} => prompts = gates /\ gates < MaxFixes
  /\ pc = "wait" => prompts = gates + 1 /\ gates < MaxFixes
  /\ prompts <= MaxFixes /\ gates <= MaxFixes + 1
  /\ pc = "gate" => gates = MaxFixes \/ (prompts = gates + 1 /\ gates < MaxFixes)

LoopBounded == prompts <= MaxFixes /\ gates <= MaxFixes + 1

LEMMA CountedInit == Init => Counted
  BY BoundsAssumption DEF Init, Counted

LEMMA CountedStep == Counted /\ [Next]_vars => Counted'
<1>1. SUFFICES ASSUME Counted, [Next]_vars PROVE Counted'
  OBVIOUS
<1>2. MaxFixes \in Nat \ {0}
  BY BoundsAssumption
<1>3. CASE UNCHANGED <<pc, prompts, gates>>
  BY <1>1, <1>3 DEF Counted
<1>4. CASE Reader \/ Pi \/ Deadline \/ UNCHANGED vars
  <2>1. UNCHANGED loopVars
    BY <1>4 DEF Reader, Pi, Deadline, ReadLine, Forward, ReaderStops, EndOfStream, Drain, vars,
         PiMessage, PiEnds, PiChatters, PiCompacts, PiDetaches, HolderExits, PiGone,
         PiCrashes, PiExits, CtxKills
  <2> QED  BY <1>3, <2>1 DEF loopVars
<1>5. ASSUME NEW ok \in BOOLEAN, NewRPC(ok) PROVE Counted'
  <2>1. pc = "spawn" /\ pc' \in {"send", "done"} /\ prompts' = prompts /\ gates' = gates
    BY <1>5 DEF NewRPC
  <2> QED  BY <1>1, <1>2, <2>1 DEF Counted
<1>6. CASE SendPrompt
  <2>1. /\ pc = "send" /\ gates' = gates
        /\ \/ pc' = "abort" /\ prompts' = prompts
           \/ pc' = "wait" /\ prompts' = prompts + 1
    BY <1>6 DEF SendPrompt
  <2> QED  BY <1>1, <1>2, <2>1 DEF Counted
<1>7. CASE (\E isEnd \in BOOLEAN : ReceiveOther(isEnd)) \/ ReceiveMessageEnd
  BY <1>3, <1>7 DEF ReceiveOther, ReceiveMessageEnd
<1>8. CASE ReceiveAgentEnd \/ ReceiveUnparsable \/ StreamClosed \/ PromptCancelled
  <2>1. pc = "wait" /\ pc' \in {"abort", "gate"} /\ prompts' = prompts /\ gates' = gates
    BY <1>8 DEF ReceiveAgentEnd, ReceiveUnparsable, StreamClosed, PromptCancelled, Judged
  <2> QED  BY <1>1, <1>2, <2>1 DEF Counted
<1>9. ASSUME NEW green \in BOOLEAN, NEW expired \in BOOLEAN, EvalGate(green, expired)
      PROVE  Counted'
  <2>1. /\ pc = "gate" /\ gates' = gates + 1 /\ prompts' = prompts
        /\ pc' = "abort" \/ pc' = AfterRed(gates + 1)
    BY <1>9 DEF EvalGate
  <2> QED  BY <1>1, <1>2, <2>1 DEF Counted, AfterRed
<1>10. CASE Abort \/ Wait \/ ReadSessionFiles
  <2>1. pc' \in {"closing", "files", "done"} /\ prompts' = prompts /\ gates' = gates
    BY <1>10 DEF Abort, Wait, ReadSessionFiles
  <2> QED  BY <1>1, <1>2, <2>1 DEF Counted
<1> QED  BY <1>1, <1>4, <1>5, <1>6, <1>7, <1>8, <1>9, <1>10 DEF Next, Loop

(* For any MaxFixes, Task prompts pi at most MaxFixes times and evaluates    *)
(* the gate at most once more (agent.Task).                                  *)
THEOREM LoopIsBounded == Spec => []LoopBounded
<1>1. Counted => LoopBounded
  BY DEF Counted, LoopBounded
<1> QED  BY <1>1, CountedInit, CountedStep, PTL DEF Spec

-----------------------------------------------------------------------------
(* Token accounting.  Until the loop aborts, what pi has written reaches the *)
(* loop in order and whole: what is in the channel, in the reader's hand and *)
(* in the pipe is one stream.  An assistant message of the turn in progress  *)
(* is in the stream or counted, and one of an earlier turn is counted.       *)

Event ==
  {Chatter} \cup {MessageEnd(m) : m \in Nat} \cup {AgentEnd(c) : c \in Seq(Nat)}

Flow == (ch \o (IF reader = "send" THEN <<holds>> ELSE <<>>)) \o pipe

Live == pc \in {"spawn", "send", "wait", "gate"}

UsageTypes ==
  /\ conv \in Seq(Nat) /\ seen \in Nat /\ minted \in Nat
  /\ counted \in [Message -> Nat]
  /\ ch \in Seq(Event) /\ pipe \in Seq(Event) /\ holds \in Event
  /\ turn \in [usage : BOOLEAN, ended : BOOLEAN, by : {"none", "agent_end", "closed"}]

(* A conversation names each message once, and only messages there have been. *)
Numbered ==
  /\ \A p \in DOMAIN conv : conv[p] <= minted /\ conv[p] \in Message \cup {Other}
  /\ \A p, q \in DOMAIN conv : p # q /\ conv[p] # Other => conv[p] # conv[q]

CountedOnce == \A m \in Message : counted[m] <= 1 /\ (m > minted => counted[m] = 0)

(* The stream: each message_end is of a message not yet counted, and an      *)
(* agent_end has the conversation as it is and is the last that matters.     *)
HasEnd(f, m) == \E i \in DOMAIN f : f[i].kind = "message_end" /\ f[i].msg = m

Streamed ==
  /\ \A i \in DOMAIN Flow : Flow[i].kind = "message_end" =>
       /\ shape = "boundary" /\ Flow[i].msg \in Message /\ Flow[i].msg <= minted
       /\ counted[Flow[i].msg] = 0
  /\ \A i, j \in DOMAIN Flow : i # j /\ Flow[i].kind = "message_end" /\ Flow[j].kind = "message_end"
       => Flow[i].msg # Flow[j].msg
  /\ \A i \in DOMAIN Flow : Flow[i].kind = "agent_end" => pi # "busy" /\ Flow[i].messages = conv
  /\ \A i, j \in DOMAIN Flow : i < j /\ Flow[i].kind = "agent_end" => Flow[j].kind = "other"

(* Between turns nothing is under way, and all of the conversation was seen  *)
(* unless the stream has closed.                                             *)
Rested ==
  pc \in {"spawn", "send", "gate"} =>
    /\ pi # "busy" /\ \A i \in DOMAIN Flow : Flow[i].kind = "other"
    /\ closed \/ seen = Len(conv)
    /\ pc = "gate" /\ turn.by = "agent_end" => seen = Len(conv)

Ledgered ==
  /\ seen <= Len(conv)
  /\ \A p \in DOMAIN conv : p <= seen /\ conv[p] # Other /\ conv[p] \notin blank
       => counted[conv[p]] = 1
  /\ shape = "boundary" => \A p \in DOMAIN conv : p > seen /\ conv[p] # Other /\ conv[p] \notin blank
       => HasEnd(Flow, conv[p]) \/ (counted[conv[p]] = 1 /\ turn.usage)
  /\ shape = "snapshot" =>
       /\ pc = "wait" => ~turn.usage
       /\ \A p \in DOMAIN conv : p > seen /\ conv[p] # Other => counted[conv[p]] = 0

EndsInOrder ==
  /\ closed => reader = "gone" /\ pi = "gone" /\ pipe = <<>> /\ pc # "spawn"
  /\ pc = "spawn" => reader = "gone" /\ pi = "gone"

Plumbing ==
  /\ shape \in {"boundary", "snapshot"}
  /\ EndsInOrder
  /\ stopped => ~Live

UsageInv ==
  /\ UsageTypes /\ Plumbing
  /\ ~drifted => CountedOnce /\ (Live => Numbered /\ Streamed /\ Rested /\ Ledgered)

(* What the events are.                                                      *)
LEMMA Kinds ==
  /\ Chatter \in Event /\ Chatter.kind = "other"
  /\ \A m \in Nat : MessageEnd(m) \in Event /\ MessageEnd(m).kind = "message_end" /\ MessageEnd(m).msg = m
  /\ \A c \in Seq(Nat) : /\ AgentEnd(c) \in Event /\ AgentEnd(c).kind = "agent_end"
                         /\ AgentEnd(c).messages = c
  BY DEF Event, Chatter, MessageEnd, AgentEnd

LEMMA EventKind ==
  ASSUME NEW e \in Event
  PROVE  e.kind \in {"other", "message_end", "agent_end"}
  BY Kinds DEF Event

(* The stream and what the plumbing does to it: reading and forwarding leave *)
(* it as it is, pi appends, the loop takes from the front.                   *)
LEMMA FlowIs ==
  ASSUME UsageTypes
  PROVE  /\ Flow \in Seq(Event)
         /\ reader = "send" => Flow = (ch \o <<holds>>) \o pipe
         /\ reader # "send" => Flow = ch \o pipe
<1>1. ch \in Seq(Event) /\ pipe \in Seq(Event) /\ holds \in Event /\ <<holds>> \in Seq(Event)
  BY DEF UsageTypes
<1>2. CASE reader = "send"
  BY <1>1, <1>2 DEF Flow
<1>3. CASE reader # "send"
  <2>1. Flow = (ch \o <<>>) \o pipe
    BY <1>3 DEF Flow
  <2>2. ch \o <<>> = ch
    BY <1>1, ConcatEmptySeq
  <2>3. Flow = ch \o pipe
    BY <2>1, <2>2
  <2>4. ch \o pipe \in Seq(Event)
    BY <1>1, ConcatProperties
  <2> QED  BY <1>3, <2>3, <2>4
<1> QED  BY <1>2, <1>3

LEMMA SeqRead ==
  ASSUME NEW s \in Seq(Event), NEW t \in Seq(Event), t # <<>>
  PROVE  (s \o <<Head(t)>>) \o Tail(t) = s \o t
<1>1. Head(t) \in Event /\ Tail(t) \in Seq(Event) /\ <<Head(t)>> \in Seq(Event)
  BY HeadTailProperties
<1>2. t = <<Head(t)>> \o Tail(t)
  BY <1>1
<1>3. (s \o <<Head(t)>>) \o Tail(t) = s \o (<<Head(t)>> \o Tail(t))
  BY <1>1, ConcatAssociative
<1> QED  BY <1>2, <1>3

LEMMA SeqEmit ==
  ASSUME NEW s \in Seq(Event), NEW t \in Seq(Event), NEW e \in Event
  PROVE  s \o Append(t, e) = Append(s \o t, e)
<1>1. Append(t, e) = t \o <<e>> /\ <<e>> \in Seq(Event) /\ s \o t \in Seq(Event)
  BY AppendIsConcat, ConcatProperties
<1>2. Append(s \o t, e) = (s \o t) \o <<e>>
  BY <1>1, AppendIsConcat
<1> QED  BY <1>1, <1>2, ConcatAssociative

LEMMA SeqTake ==
  ASSUME NEW s \in Seq(Event), NEW t \in Seq(Event), s # <<>>
  PROVE  s \o t # <<>> /\ Head(s \o t) = Head(s) /\ Tail(s \o t) = Tail(s) \o t
<1>1. s \o t \in Seq(Event) /\ Len(s \o t) = Len(s) + Len(t) /\ Len(s) > 0
      /\ Tail(s) \in Seq(Event) /\ Len(s) \in Nat /\ Len(t) \in Nat
  BY ConcatProperties, HeadTailProperties, EmptySeq
<1>2. s \o t # <<>>
  BY <1>1
<1>3. Head(s \o t) = Head(s)
  BY <1>1
<1>4. Tail(s \o t) = Tail(s) \o t
  <2>1. s = <<Head(s)>> \o Tail(s)
    OBVIOUS
  <2>2. s \o t = <<Head(s)>> \o (Tail(s) \o t)
    <3>1. <<Head(s)>> \in Seq(Event)
      BY HeadTailProperties
    <3> QED  BY <1>1, <2>1, <3>1, ConcatAssociative
  <2>3. Tail(s) \o t \in Seq(Event) /\ Head(s) \in Event
    BY <1>1, ConcatProperties, HeadTailProperties
  <2> DEFINE u == Tail(s) \o t
             h == Head(s)
  <2>4. s \o t = <<h>> \o u /\ u \in Seq(Event) /\ h \in Event
    BY <2>2, <2>3
  <2> HIDE DEF u, h
  <2>5. Tail(<<h>> \o u) = u
    BY <2>4
  <2> QED  BY <2>4, <2>5 DEF u
<1> QED  BY <1>2, <1>3, <1>4

LEMMA FlowRead ==
  ASSUME UsageTypes, UsageTypes', ReadLine PROVE Flow' = Flow
<1>1. /\ reader = "read" /\ reader' = "send" /\ ch' = ch /\ holds' = Head(pipe) /\ pipe' = Tail(pipe)
      /\ pipe # <<>> /\ ch \in Seq(Event) /\ pipe \in Seq(Event)
  BY DEF ReadLine, UsageTypes
<1>2. Flow = ch \o pipe
  BY <1>1, FlowIs
<1>3. Flow' = (ch \o <<Head(pipe)>>) \o Tail(pipe)
  BY <1>1 DEF Flow
<1> QED  BY <1>1, <1>2, <1>3, SeqRead

LEMMA FlowForward ==
  ASSUME UsageTypes, UsageTypes', Forward PROVE Flow' = Flow
<1>1. /\ reader = "send" /\ reader' = "read" /\ ch' = Append(ch, holds) /\ pipe' = pipe
      /\ ch \in Seq(Event) /\ pipe \in Seq(Event) /\ holds \in Event
  BY DEF Forward, piVars, UsageTypes
<1>2. Append(ch, holds) = ch \o <<holds>>
  BY <1>1, AppendIsConcat
<1>3. Flow' = (Append(ch, holds) \o <<>>) \o pipe
  BY <1>1 DEF Flow
<1>4. Append(ch, holds) \in Seq(Event)
  BY <1>1, AppendProperties
<1>5. Append(ch, holds) \o <<>> = Append(ch, holds)
  BY <1>4, ConcatEmptySeq
<1> QED  BY <1>1, <1>2, <1>3, <1>5, FlowIs

LEMMA FlowEmit ==
  ASSUME UsageTypes, NEW e \in Event, Emit(e), UNCHANGED readVars
  PROVE  Flow' = Append(Flow, e)
<1> DEFINE s == ch \o (IF reader = "send" THEN <<holds>> ELSE <<>>)
<1>1. s \in Seq(Event) /\ pipe \in Seq(Event)
  BY DEF UsageTypes
<1>2. Flow = s \o pipe /\ Flow' = s \o Append(pipe, e)
  BY DEF Flow, Emit, readVars
<1> HIDE DEF s
<1> QED  BY <1>1, <1>2, SeqEmit

LEMMA FlowTake ==
  ASSUME UsageTypes, ch # <<>>, ch' = Tail(ch), UNCHANGED <<reader, holds, pipe>>
  PROVE  /\ Flow # <<>> /\ Head(Flow) = Head(ch) /\ Flow' = Tail(Flow)
<1> DEFINE h == IF reader = "send" THEN <<holds>> ELSE <<>>
<1>1. h \in Seq(Event) /\ pipe \in Seq(Event) /\ ch \in Seq(Event)
  BY DEF UsageTypes
<1>2. Flow = (ch \o h) \o pipe /\ Flow' = (Tail(ch) \o h) \o pipe
  BY DEF Flow
<1> HIDE DEF h
<1>3. ch \o h \in Seq(Event) /\ Tail(ch) \in Seq(Event)
  BY <1>1, ConcatProperties, HeadTailProperties
<1>4. ch \o h # <<>> /\ Head(ch \o h) = Head(ch) /\ Tail(ch \o h) = Tail(ch) \o h
  BY <1>1, SeqTake
<1>5. /\ (ch \o h) \o pipe # <<>> /\ Head((ch \o h) \o pipe) = Head(ch \o h)
      /\ Tail((ch \o h) \o pipe) = Tail(ch \o h) \o pipe
  BY <1>1, <1>3, <1>4, SeqTake
<1> QED  BY <1>2, <1>4, <1>5

(* The part of the invariant about one conversation and its count.           *)
Core == ~drifted => CountedOnce /\ (Live => Numbered /\ Streamed /\ Rested /\ Ledgered)

LEMMA InitUsage == Init => UsageInv
<1> SUFFICES ASSUME Init PROVE UsageInv
  OBVIOUS
<1>0. <<>> \in Seq(Event) /\ <<>> \in Seq(Nat) /\ Chatter \in Event /\ 0 \in Nat /\ Len(<<>>) = 0
  BY Kinds, EmptySeq
<1>1. UsageTypes
  BY <1>0 DEF Init, UsageTypes, NoTurn
<1>2. Plumbing
  BY DEF Init, Plumbing, EndsInOrder
<1>3. Flow = <<>>
  BY <1>1, <1>0, FlowIs, ConcatEmptySeq DEF Init
<1>4. DOMAIN Flow = {} /\ DOMAIN conv = {}
  BY <1>3 DEF Init
<1>5. Numbered /\ Streamed
  BY <1>4 DEF Numbered, Streamed
<1>6. Rested
  BY <1>4 DEF Rested, Init
<1>7. seen <= Len(conv)
  BY DEF Init
<1>8. Ledgered
  BY <1>4, <1>7 DEF Ledgered, Init
<1>9. CountedOnce
  BY DEF CountedOnce, Init
<1> QED  BY <1>1, <1>2, <1>5, <1>6, <1>8, <1>9 DEF UsageInv

(* A step after which the loop is not live.                                  *)
LEMMA DeadKeeps ==
  ASSUME Core, UsageTypes, ~Live', UNCHANGED <<counted, drifted>>,
         minted' \in Nat, minted' >= minted
  PROVE  Core'
<1>1. ASSUME ~drifted, CountedOnce PROVE CountedOnce'
  BY <1>1 DEF CountedOnce, UsageTypes, Message
<1> QED  BY <1>1 DEF Core

(* A step that leaves the stream and the conversation alone.                 *)
LEMMA StillKeeps ==
  ASSUME Core, Flow' = Flow, UNCHANGED <<pc, conv, seen, counted, turn, minted, blank, shape>>,
         drifted' = drifted, pi' = pi \/ pi' # "busy", closed => closed'
  PROVE  Core'
<1>1. ASSUME CountedOnce PROVE CountedOnce'
  BY <1>1 DEF CountedOnce
<1>2. ASSUME Numbered PROVE Numbered'
  BY <1>2 DEF Numbered
<1>3. ASSUME Streamed PROVE Streamed'
  BY <1>3 DEF Streamed
<1>4. ASSUME Rested PROVE Rested'
  BY <1>4 DEF Rested
<1>5. ASSUME Ledgered PROVE Ledgered'
  BY <1>5 DEF Ledgered
<1> QED  BY <1>1, <1>2, <1>3, <1>4, <1>5 DEF Core, Live

(* What appending does to a stream, or to the conversation.                  *)
LEMMA Appended ==
  ASSUME NEW S, NEW f \in Seq(S), NEW e \in S, NEW g, g = Append(f, e)
  PROVE  /\ DOMAIN f = 1..Len(f) /\ DOMAIN g = 1..(Len(f) + 1) /\ Len(f) \in Nat
         /\ \A i \in DOMAIN f : i \in DOMAIN g /\ g[i] = f[i] /\ i < Len(f) + 1
         /\ Len(f) + 1 \in DOMAIN g /\ g[Len(f) + 1] = e
         /\ \A i \in DOMAIN g : i \in DOMAIN f \/ i = Len(f) + 1
<1>1. /\ g \in Seq(S) /\ Len(g) = Len(f) + 1 /\ Len(f) \in Nat
      /\ \A i \in 1..Len(f) : g[i] = f[i] /\ g[Len(f) + 1] = e
  BY AppendProperties
<1>2. DOMAIN f = 1..Len(f) /\ DOMAIN g = 1..(Len(f) + 1)
  BY <1>1
<1>3. g[Len(f) + 1] = e
  BY AppendProperties
<1> QED  BY <1>1, <1>2, <1>3

(* What taking the front does.                                               *)
LEMMA FlowTaken ==
  ASSUME NEW f \in Seq(Event), f # <<>>, NEW g, g = Tail(f)
  PROVE  /\ 1 \in DOMAIN f /\ f[1] = Head(f)
         /\ \A i \in DOMAIN g : i \in Nat /\ i + 1 \in DOMAIN f /\ i + 1 > 1 /\ g[i] = f[i + 1]
         /\ \A i \in DOMAIN f : i # 1 => i - 1 \in DOMAIN g /\ g[i - 1] = f[i]
<1>1. /\ g \in Seq(Event) /\ Len(g) = Len(f) - 1 /\ Len(f) \in Nat /\ Len(f) > 0
      /\ \A i \in 1..Len(g) : g[i] = f[i + 1]
  BY HeadTailProperties, EmptySeq
<1>2. DOMAIN f = 1..Len(f) /\ DOMAIN g = 1..(Len(f) - 1)
  BY <1>1
<1>3. 1 \in DOMAIN f /\ f[1] = Head(f)
  BY <1>1, <1>2
<1>4. ASSUME NEW i \in DOMAIN g PROVE i \in Nat /\ i + 1 \in DOMAIN f /\ i + 1 > 1 /\ g[i] = f[i + 1]
  BY <1>1, <1>2
<1>5. ASSUME NEW i \in DOMAIN f, i # 1 PROVE i - 1 \in DOMAIN g /\ g[i - 1] = f[i]
  <2>1. i \in 1..Len(f) /\ i - 1 \in 1..(Len(f) - 1) /\ (i - 1) + 1 = i
    BY <1>1, <1>2, <1>5
  <2> QED  BY <1>1, <1>2, <2>1
<1> QED  BY <1>3, <1>4, <1>5

(* Chatter, and a turn's last word.                                          *)
LEMMA ChatterKeeps ==
  ASSUME Core, UsageTypes, Flow' = Append(Flow, Chatter), drifted' = drifted,
         UNCHANGED <<pc, conv, seen, counted, turn, minted, blank, shape, pi, closed>>
  PROVE  Core'
<1>0. Chatter \in Event /\ Chatter.kind = "other" /\ Flow \in Seq(Event)
  BY Kinds, FlowIs
<1>f. /\ \A i \in DOMAIN Flow : i \in DOMAIN Flow' /\ Flow'[i] = Flow[i]
      /\ \A i \in DOMAIN Flow' : i \in DOMAIN Flow \/ Flow'[i].kind = "other"
  BY <1>0, Appended
<1>1. ASSUME CountedOnce PROVE CountedOnce'
  BY <1>1 DEF CountedOnce
<1>2. ASSUME Numbered PROVE Numbered'
  BY <1>2 DEF Numbered
<1>3. ASSUME Streamed PROVE Streamed'
  <2>1. \A i, j \in DOMAIN Flow' : i < j /\ Flow'[i].kind = "agent_end" => Flow'[j].kind = "other"
    BY <1>3, <1>f DEF Streamed
  <2>2. \A i \in DOMAIN Flow' : Flow'[i].kind \in {"message_end", "agent_end"} => i \in DOMAIN Flow
    BY <1>f
  <2> QED  BY <1>3, <1>f, <2>1, <2>2 DEF Streamed
<1>4. ASSUME Rested PROVE Rested'
  BY <1>4, <1>f DEF Rested
<1>5. ASSUME Ledgered PROVE Ledgered'
  <2>1. \A m : HasEnd(Flow, m) => HasEnd(Flow', m)
    BY <1>f DEF HasEnd
  <2> QED  BY <1>5, <2>1 DEF Ledgered
<1> QED  BY <1>1, <1>2, <1>3, <1>4, <1>5 DEF Core, Live

LEMMA EndKeeps ==
  ASSUME Core, UsageTypes, Flow' = Append(Flow, AgentEnd(conv)), pi = "busy", pi' = "idle",
         drifted' = drifted,
         UNCHANGED <<pc, conv, seen, counted, turn, minted, blank, shape, closed>>
  PROVE  Core'
<1> DEFINE e == AgentEnd(conv)
<1>0. e \in Event /\ e.kind = "agent_end" /\ e.messages = conv /\ Flow \in Seq(Event)
  BY Kinds, FlowIs DEF UsageTypes
<1> HIDE DEF e
<1>f. /\ \A i \in DOMAIN Flow : i \in DOMAIN Flow' /\ Flow'[i] = Flow[i] /\ i < Len(Flow) + 1
      /\ \A i \in DOMAIN Flow' : i \in DOMAIN Flow \/ i = Len(Flow) + 1
      /\ Flow'[Len(Flow) + 1] = e /\ DOMAIN Flow \subseteq Nat /\ Len(Flow) \in Nat
  BY <1>0, Appended DEF e
<1>1. ASSUME CountedOnce PROVE CountedOnce'
  BY <1>1 DEF CountedOnce
<1>2. ASSUME Numbered PROVE Numbered'
  BY <1>2 DEF Numbered
<1>3. ASSUME Streamed PROVE Streamed'
  <2>1. \A i \in DOMAIN Flow : Flow[i].kind # "agent_end"
    BY <1>3 DEF Streamed
  <2>2. ASSUME NEW i \in DOMAIN Flow', NEW j \in DOMAIN Flow', i < j PROVE Flow'[i].kind # "agent_end"
    <3>1. i \in DOMAIN Flow
      BY <1>f, <2>2
    <3> QED  BY <1>f, <2>1, <3>1
  <2>3. \A i \in DOMAIN Flow' : Flow'[i].kind = "message_end" => i \in DOMAIN Flow
    BY <1>0, <1>f
  <2>4. \A i \in DOMAIN Flow' : Flow'[i].kind = "agent_end" => Flow'[i].messages = conv
    BY <1>0, <1>f, <2>1
  <2> QED  BY <1>3, <1>f, <2>2, <2>3, <2>4 DEF Streamed
<1>4. ASSUME Rested PROVE Rested'
  BY <1>4 DEF Rested
<1>5. ASSUME Ledgered PROVE Ledgered'
  <2>1. \A m : HasEnd(Flow, m) => HasEnd(Flow', m)
    BY <1>f DEF HasEnd
  <2> QED  BY <1>5, <2>1 DEF Ledgered
<1> QED  BY <1>1, <1>2, <1>3, <1>4, <1>5 DEF Core, Live

(* Every step keeps the types.                                               *)
LEMMA TypesHold ==
  ASSUME UsageTypes, [Next]_vars
  PROVE  UsageTypes'
<1>0. /\ Chatter \in Event /\ 0 \in Nat
      /\ \A s \in Seq(Event) : s # <<>> => Head(s) \in Event /\ Tail(s) \in Seq(Event)
      /\ \A s \in Seq(Event), e \in Event : Append(s, e) \in Seq(Event)
      /\ \A s \in Seq(Nat), n \in Nat : Append(s, n) \in Seq(Nat)
  BY Kinds, HeadTailProperties, AppendProperties
<1>c. \A ms : Count(ms) \in [Message -> Nat]
  BY DEF Count, UsageTypes
<1>1. CASE UNCHANGED <<conv, seen, minted, counted, turn>>
  <2>1. ch' \in Seq(Event) /\ pipe' \in Seq(Event) /\ holds' \in Event
    <3>1. CASE UNCHANGED <<ch, pipe, holds>>
      BY <3>1 DEF UsageTypes
    <3>2. CASE Reader
      BY <3>2, <1>0 DEF Reader, ReadLine, Forward, ReaderStops, EndOfStream, Drain, UsageTypes, piVars
    <3>3. CASE Pi
      <4>1. pipe' = pipe \/ \E e \in Event : pipe' = Append(pipe, e)
        <5>1. ASSUME NEW b \in BOOLEAN, PiMessage(b) PROVE pipe' = pipe \/ \E e \in Event : pipe' = Append(pipe, e)
          <6>1. pipe' = pipe \/ pipe' = Append(pipe, MessageEnd(minted + 1))
            BY <5>1 DEF PiMessage, Emit
          <6>2. minted + 1 \in Nat
            BY DEF UsageTypes
          <6> QED  BY <6>1, <6>2, Kinds
        <5>2. CASE PiEnds
          <6>1. pipe' = Append(pipe, AgentEnd(conv)) /\ conv \in Seq(Nat)
            BY <5>2 DEF PiEnds, Emit, UsageTypes
          <6> QED  BY <6>1, Kinds
        <5>3. CASE PiChatters
          BY <5>3, <1>0 DEF PiChatters, Emit
        <5>4. CASE PiDetaches \/ HolderExits \/ PiCrashes \/ PiExits \/ CtxKills
          BY <5>4 DEF PiDetaches, HolderExits, PiCrashes, PiExits, CtxKills, PiGone
        <5>5. ASSUME NEW k \in 0..Len(conv), PiCompacts(k) PROVE pipe' = pipe
          BY <5>5 DEF PiCompacts
        <5> QED  BY <3>3, <5>1, <5>2, <5>3, <5>4, <5>5 DEF Pi
      <4>2. UNCHANGED <<ch, holds>>
        BY <3>3 DEF Pi, PiMessage, PiEnds, PiChatters, PiDetaches, HolderExits, PiCrashes, PiExits,
               CtxKills, PiGone, PiCompacts, readVars
      <4> QED  BY <1>0, <4>1, <4>2 DEF UsageTypes
    <3>4. CASE Deadline \/ UNCHANGED vars
      BY <3>1, <3>4 DEF Deadline, vars, readVars, piVars
    <3>5. CASE Loop
      <4>1. UNCHANGED <<pipe, holds>> /\ (ch' = ch \/ (ch # <<>> /\ ch' = Tail(ch)))
        BY <3>5 DEF Loop, NewRPC, SendPrompt, ReceiveOther, ReceiveMessageEnd, ReceiveAgentEnd,
               ReceiveUnparsable, StreamClosed, PromptCancelled, EvalGate, Abort, Wait, ReadSessionFiles,
               readVars, piVars
      <4> QED  BY <1>0, <4>1 DEF UsageTypes
    <3> QED  BY <3>2, <3>3, <3>4, <3>5 DEF Next
  <2> QED  BY <1>1, <2>1 DEF UsageTypes
<1>2. ASSUME NEW b \in BOOLEAN, PiMessage(b) PROVE UsageTypes'
  <2>1. minted + 1 \in Nat /\ minted' = minted + 1 /\ conv' = Append(conv, minted + 1)
    BY <1>2 DEF PiMessage, UsageTypes
  <2>2. pipe' = pipe \/ pipe' = Append(pipe, MessageEnd(minted + 1))
    BY <1>2 DEF PiMessage, Emit
  <2>3. MessageEnd(minted + 1) \in Event
    BY <2>1, Kinds
  <2>4. pipe' \in Seq(Event) /\ conv' \in Seq(Nat) /\ minted' \in Nat
    BY <1>0, <2>1, <2>2, <2>3 DEF UsageTypes
  <2>5. UNCHANGED <<seen, counted, ch, holds, turn>>
    BY <1>2 DEF PiMessage, loopVars, readVars
  <2> QED  BY <2>4, <2>5 DEF UsageTypes
<1>3. ASSUME NEW k \in 0..Len(conv), PiCompacts(k) PROVE UsageTypes'
  <2>1. conv' = <<Other>> \o SubSeq(conv, k + 1, Len(conv)) /\ conv \in Seq(Nat) /\ Len(conv) \in Nat
    BY <1>3 DEF PiCompacts, UsageTypes
  <2>2. <<Other>> \in Seq(Nat)
    BY DEF Other
  <2>3. SubSeq(conv, k + 1, Len(conv)) \in Seq(Nat)
    BY <2>1
  <2>4. conv' \in Seq(Nat)
    BY <2>1, <2>2, <2>3, ConcatProperties
  <2>5. UNCHANGED <<seen, minted, counted, ch, holds, pipe, turn>>
    BY <1>3 DEF PiCompacts, loopVars, readVars
  <2> QED  BY <2>4, <2>5 DEF UsageTypes
<1>4. CASE SendPrompt
  <2>1. conv' \in Seq(Nat)
    BY <1>0, <1>4 DEF SendPrompt, UsageTypes, Other
  <2>2. turn' = turn \/ turn' = NoTurn
    BY <1>4 DEF SendPrompt
  <2>3. UNCHANGED <<seen, minted, counted, ch, holds, pipe>>
    BY <1>4 DEF SendPrompt, readVars
  <2>4. NoTurn \in [usage : BOOLEAN, ended : BOOLEAN, by : {"none", "agent_end", "closed"}]
    BY DEF NoTurn
  <2>5. turn' \in [usage : BOOLEAN, ended : BOOLEAN, by : {"none", "agent_end", "closed"}]
    BY <2>2, <2>4 DEF UsageTypes
  <2> QED  BY <2>1, <2>3, <2>5 DEF UsageTypes
<1>5. CASE ReceiveMessageEnd
  <2>1. counted' \in [Message -> Nat]
    BY <1>c, <1>5 DEF ReceiveMessageEnd, UsageTypes
  <2>2. turn' \in [usage : BOOLEAN, ended : BOOLEAN, by : {"none", "agent_end", "closed"}]
    BY <1>5 DEF ReceiveMessageEnd, UsageTypes
  <2>3. UNCHANGED <<seen, minted, conv, holds, pipe>> /\ ch' \in Seq(Event)
    BY <1>0, <1>5 DEF ReceiveMessageEnd, piVars, UsageTypes
  <2> QED  BY <2>1, <2>2, <2>3 DEF UsageTypes
<1>6. CASE ReceiveAgentEnd
  <2>1. counted' \in [Message -> Nat]
    BY <1>c, <1>6 DEF ReceiveAgentEnd
  <2>2. turn' \in [usage : BOOLEAN, ended : BOOLEAN, by : {"none", "agent_end", "closed"}]
    BY <1>6 DEF ReceiveAgentEnd, UsageTypes
  <2>3. UNCHANGED <<minted, conv, holds, pipe>> /\ ch' \in Seq(Event)
    BY <1>0, <1>6 DEF ReceiveAgentEnd, piVars, UsageTypes
  <2>4. Head(ch) \in Event /\ Head(ch).kind = "agent_end" /\ seen' = Len(Head(ch).messages)
    BY <1>0, <1>6 DEF ReceiveAgentEnd, UsageTypes
  <2>5. Head(ch).messages \in Seq(Nat)
    BY <2>4, Kinds DEF Event
  <2>6. seen' \in Nat
    BY <2>4, <2>5, LenProperties
  <2> QED  BY <2>1, <2>2, <2>3, <2>6 DEF UsageTypes
<1>7. CASE StreamClosed
  <2>1. turn' \in [usage : BOOLEAN, ended : BOOLEAN, by : {"none", "agent_end", "closed"}]
    BY <1>7 DEF StreamClosed, UsageTypes
  <2>2. UNCHANGED <<conv, seen, minted, counted, ch, holds, pipe>>
    BY <1>7 DEF StreamClosed, readVars, piVars
  <2> QED  BY <2>1, <2>2 DEF UsageTypes
<1>o. CASE (\E isEnd \in BOOLEAN : ReceiveOther(isEnd)) \/ ReceiveUnparsable
  <2>1. turn' \in [usage : BOOLEAN, ended : BOOLEAN, by : {"none", "agent_end", "closed"}]
    <3>1. ASSUME NEW isEnd \in BOOLEAN, ReceiveOther(isEnd)
          PROVE  turn' \in [usage : BOOLEAN, ended : BOOLEAN, by : {"none", "agent_end", "closed"}]
      BY <3>1 DEF ReceiveOther, UsageTypes
    <3>2. CASE ReceiveUnparsable
      BY <3>2 DEF ReceiveUnparsable, UsageTypes
    <3> QED  BY <1>o, <3>1, <3>2
  <2>2. UNCHANGED <<conv, seen, minted, counted, holds, pipe>> /\ ch' = Tail(ch) /\ ch # <<>>
    BY <1>o DEF ReceiveOther, ReceiveUnparsable, piVars
  <2>3. ch' \in Seq(Event)
    BY <1>0, <2>2 DEF UsageTypes
  <2> QED  BY <2>1, <2>2, <2>3 DEF UsageTypes
<1>8. UNCHANGED <<conv, seen, minted, counted, turn>>
      \/ (\E isEnd \in BOOLEAN : ReceiveOther(isEnd)) \/ ReceiveUnparsable
      \/ (\E b \in BOOLEAN : PiMessage(b)) \/ (\E k \in 0..Len(conv) : PiCompacts(k))
      \/ SendPrompt \/ ReceiveMessageEnd \/ ReceiveAgentEnd \/ StreamClosed
  <2>1. CASE Loop
    BY <2>1 DEF Loop, NewRPC, PromptCancelled, EvalGate, Abort, Wait, ReadSessionFiles, piVars
  <2>2. CASE Reader \/ Deadline \/ UNCHANGED vars
    BY <2>2 DEF Reader, ReadLine, Forward, ReaderStops, EndOfStream, Drain, Deadline, vars, loopVars, piVars
  <2>3. CASE Pi
    BY <2>3 DEF Pi, PiEnds, PiChatters, PiDetaches, HolderExits, PiCrashes, PiExits, CtxKills,
           PiGone, loopVars
  <2> QED  BY <2>1, <2>2, <2>3 DEF Next
<1> QED  BY <1>1, <1>2, <1>3, <1>4, <1>5, <1>6, <1>7, <1>o, <1>8

(* ... and the order in which the ends of the pipes go.                      *)
LEMMA PlumbingHolds ==
  ASSUME Plumbing, [Next]_vars
  PROVE  Plumbing'
<1>1. shape' = shape /\ (stopped' = stopped \/ (pc = "abort" /\ pc' = "closing"))
  BY DEF Next, Loop, Reader, Pi, Deadline, vars, loopVars, readVars, piVars,
         NewRPC, SendPrompt, ReceiveOther, ReceiveMessageEnd, ReceiveAgentEnd,
         ReceiveUnparsable, StreamClosed, PromptCancelled, EvalGate, Abort, Wait, ReadSessionFiles,
         ReadLine, Forward, ReaderStops, EndOfStream, Drain, PiMessage, PiEnds, PiChatters,
         PiDetaches, HolderExits, PiCrashes, PiExits, CtxKills, PiGone, PiCompacts
<1>2. Live' => Live
  <2>1. CASE Loop
    BY <2>1 DEF Loop, Live, NewRPC, SendPrompt, ReceiveOther, ReceiveMessageEnd, ReceiveAgentEnd,
         ReceiveUnparsable, StreamClosed, PromptCancelled, EvalGate, Abort, Wait, ReadSessionFiles
  <2>2. CASE Reader \/ Pi \/ Deadline \/ UNCHANGED vars
    BY <2>2 DEF Live, Reader, Pi, Deadline, vars, loopVars, ReadLine, Forward, ReaderStops,
         EndOfStream, Drain, PiMessage, PiEnds, PiChatters, PiDetaches, HolderExits, PiCrashes,
         PiExits, CtxKills, PiGone, PiCompacts
  <2> QED  BY <2>1, <2>2 DEF Next
<1>3. stopped' => ~Live'
  BY <1>1, <1>2 DEF Plumbing, Live
<1>4. EndsInOrder'
  <2>1. CASE Loop
    <3>1. ASSUME NEW ok \in BOOLEAN, NewRPC(ok) PROVE EndsInOrder'
      BY <3>1 DEF NewRPC, Plumbing, EndsInOrder
    <3>2. CASE SendPrompt
      BY <3>2 DEF SendPrompt, Plumbing, EndsInOrder, readVars
    <3>3. CASE (\E isEnd \in BOOLEAN : ReceiveOther(isEnd)) \/ ReceiveMessageEnd
      BY <3>3 DEF ReceiveOther, ReceiveMessageEnd, Plumbing, EndsInOrder, piVars
    <3>4. CASE ReceiveAgentEnd \/ ReceiveUnparsable \/ StreamClosed \/ PromptCancelled
      <4>1. pc' \in {"abort", "gate"} /\ UNCHANGED <<reader, closed, pi, pipe>>
        BY <3>4 DEF ReceiveAgentEnd, ReceiveUnparsable, StreamClosed, PromptCancelled, Judged,
               readVars, piVars
      <4> QED  BY <4>1 DEF Plumbing, EndsInOrder
    <3>5. ASSUME NEW g \in BOOLEAN, NEW e \in BOOLEAN, EvalGate(g, e) PROVE EndsInOrder'
      <4>1. pc' \in {"send", "gate", "abort"} /\ UNCHANGED <<reader, closed, pi, pipe>>
        BY <3>5 DEF EvalGate, AfterRed, readVars, piVars
      <4> QED  BY <4>1 DEF Plumbing, EndsInOrder
    <3>6. CASE Abort \/ Wait \/ ReadSessionFiles
      BY <3>6 DEF Abort, Wait, ReadSessionFiles, Plumbing, EndsInOrder, readVars, piVars
    <3> QED  BY <2>1, <3>1, <3>2, <3>3, <3>4, <3>5, <3>6 DEF Loop
  <2>2. CASE Reader
    BY <2>2 DEF Reader, ReadLine, Forward, ReaderStops, EndOfStream, Drain, Plumbing, EndsInOrder, piVars, loopVars
  <2>3. CASE Pi
    BY <2>3 DEF Pi, PiMessage, PiEnds, PiChatters, PiDetaches, HolderExits, PiCrashes,
         PiExits, CtxKills, PiGone, PiCompacts, Plumbing, EndsInOrder, readVars, loopVars
  <2>4. CASE Deadline \/ UNCHANGED vars
    BY <2>4 DEF Deadline, vars, readVars, piVars, loopVars, Plumbing, EndsInOrder
  <2> QED  BY <2>1, <2>2, <2>3, <2>4 DEF Next
<1> QED  BY <1>1, <1>3, <1>4 DEF Plumbing, EndsInOrder

(* A message of pi's: in the boundary shape its end joins the stream, in the *)
(* other the snapshot will have it.                                          *)
LEMMA MessageKeeps ==
  ASSUME Core, UsageTypes, Plumbing, NEW b \in BOOLEAN, PiMessage(b)
  PROVE  Core'
<1> DEFINE n == minted + 1
           e == MessageEnd(n)
<1>0. /\ pi = "busy" /\ minted < MaxMessages /\ minted' = n /\ conv' = Append(conv, n)
      /\ blank \subseteq blank' /\ blank' \subseteq blank \cup {n}
      /\ drifted' = drifted
      /\ UNCHANGED <<pc, seen, counted, turn, shape, pi, closed>>
  BY DEF PiMessage, loopVars, readVars
<1>1. n \in Nat /\ n > minted /\ n \in Message /\ n # Other /\ minted \in Nat
  BY <1>0, BoundsAssumption DEF UsageTypes, Message, Other
<1>2. e \in Event /\ e.kind = "message_end" /\ e.msg = n
  BY <1>1, Kinds
<1>3. /\ shape = "boundary" => Flow' = Append(Flow, e)
      /\ shape = "snapshot" => Flow' = Flow
  <2>1. ASSUME shape = "boundary" PROVE Flow' = Append(Flow, e)
    <3>1. Emit(e) /\ UNCHANGED readVars
      BY <2>1 DEF PiMessage
    <3> QED  BY <1>2, <3>1, FlowEmit
  <2>2. ASSUME shape = "snapshot" PROVE Flow' = Flow
    BY <2>2 DEF PiMessage, readVars, Flow
  <2> QED  BY <2>1, <2>2
<1> HIDE DEF e, n
<1>4. CASE ~Live
  <2>1. ~Live' /\ minted' \in Nat /\ minted' >= minted
    BY <1>0, <1>1, <1>4 DEF Live
  <2> QED  BY <1>0, <2>1, DeadKeeps
<1>5. CASE drifted
  BY <1>0, <1>5 DEF Core
<1>6. CASE Live /\ ~drifted
  <2>0. CountedOnce /\ Numbered /\ Streamed /\ Rested /\ Ledgered /\ pc = "wait"
    BY <1>0, <1>6 DEF Core, Live, Rested
  <2>c. /\ DOMAIN conv \subseteq Nat /\ Len(conv) \in Nat /\ seen \in Nat /\ DOMAIN conv = 1..Len(conv)
        /\ \A p \in DOMAIN conv : conv[p] \in Nat /\ conv'[p] = conv[p] /\ p \in DOMAIN conv' /\ p < Len(conv) + 1
        /\ Len(conv) + 1 \in DOMAIN conv' /\ conv'[Len(conv) + 1] = n
        /\ \A p \in DOMAIN conv' : p \in DOMAIN conv \/ p = Len(conv) + 1
    <3>1. conv \in Seq(Nat) /\ seen \in Nat
      BY DEF UsageTypes
    <3>2. DOMAIN conv = 1..Len(conv) /\ Len(conv) \in Nat /\ \A p \in DOMAIN conv : conv[p] \in Nat
      BY <3>1, LenProperties, ElementOfSeq
    <3> QED  BY <1>0, <1>1, <3>1, <3>2, Appended
  <2>l. Len(conv') = Len(conv) + 1
    BY <1>0, <1>1, AppendProperties DEF UsageTypes
  <2>z. counted[n] = 0 /\ n \notin {conv[p] : p \in DOMAIN conv}
    BY <1>1, <2>0, <2>c DEF CountedOnce, Numbered
  <2>1. CountedOnce'
    <3>1. \A m \in Message : m > n => m > minted
      BY <1>1 DEF Message
    <3> QED  BY <1>0, <2>0, <3>1 DEF CountedOnce
  <2>2. Numbered'
    <3>1. ASSUME NEW p \in DOMAIN conv' PROVE conv'[p] <= minted' /\ conv'[p] \in Message \cup {Other}
      <4>1. CASE p \in DOMAIN conv
        BY <1>0, <1>1, <2>0, <2>c, <4>1 DEF Numbered
      <4>2. CASE p = Len(conv) + 1
        BY <1>0, <1>1, <2>c, <4>2
      <4> QED  BY <2>c, <4>1, <4>2
    <3>2. ASSUME NEW p \in DOMAIN conv', NEW q \in DOMAIN conv', p # q, conv'[p] # Other
          PROVE  conv'[p] # conv'[q]
      <4>1. CASE p \in DOMAIN conv /\ q \in DOMAIN conv
        BY <2>0, <2>c, <3>2, <4>1 DEF Numbered
      <4>2. CASE p \notin DOMAIN conv \/ q \notin DOMAIN conv
        BY <2>c, <2>z, <3>2, <4>2
      <4> QED  BY <4>1, <4>2
    <3> QED  BY <3>1, <3>2 DEF Numbered
  <2>f. /\ Flow \in Seq(Event) /\ DOMAIN Flow \subseteq Nat
        /\ \A i \in DOMAIN Flow : i \in DOMAIN Flow' /\ Flow'[i] = Flow[i]
        /\ \A i \in DOMAIN Flow' : i \in DOMAIN Flow \/ (i = Len(Flow) + 1 /\ Flow'[i] = e /\ shape = "boundary")
        /\ shape = "boundary" => Len(Flow) + 1 \in DOMAIN Flow' /\ Flow'[Len(Flow) + 1] = e
    <3>1. Flow \in Seq(Event) /\ DOMAIN Flow \subseteq Nat
      BY FlowIs, LenProperties
    <3>2. CASE shape = "boundary"
      BY <1>2, <1>3, <3>1, <3>2, Appended
    <3>3. CASE shape = "snapshot"
      BY <1>3, <3>1, <3>3
    <3> QED  BY <3>2, <3>3 DEF Plumbing
  <2>3. Streamed'
    <3>1. \A i \in DOMAIN Flow : Flow[i].kind # "agent_end"
      BY <1>0, <2>0 DEF Streamed
    <3>2. \A i \in DOMAIN Flow' : Flow'[i].kind # "agent_end"
      BY <1>2, <2>f, <3>1
    <3>3. ASSUME NEW i \in DOMAIN Flow', Flow'[i].kind = "message_end"
          PROVE  /\ shape = "boundary" /\ Flow'[i].msg \in Message /\ Flow'[i].msg <= n
                 /\ counted[Flow'[i].msg] = 0
      <4>1. CASE i \in DOMAIN Flow
        <5>1. /\ shape = "boundary" /\ Flow[i].msg \in Message /\ Flow[i].msg <= minted
              /\ counted[Flow[i].msg] = 0 /\ Flow'[i] = Flow[i]
          BY <2>0, <2>f, <3>3, <4>1 DEF Streamed
        <5>2. Flow[i].msg <= n
          BY <1>1, <5>1 DEF Message
        <5> QED  BY <5>1, <5>2
      <4>2. CASE i \notin DOMAIN Flow
        BY <1>1, <1>2, <2>f, <2>z, <4>2
      <4> QED  BY <4>1, <4>2
    <3>4. ASSUME NEW i \in DOMAIN Flow', NEW j \in DOMAIN Flow', i # j,
                 Flow'[i].kind = "message_end", Flow'[j].kind = "message_end"
          PROVE  Flow'[i].msg # Flow'[j].msg
      <4>1. \A k \in DOMAIN Flow : Flow[k].kind = "message_end" => Flow[k].msg # n
        <5>1. \A k \in DOMAIN Flow : Flow[k].kind = "message_end" => Flow[k].msg \in Message /\ Flow[k].msg <= minted
          BY <2>0 DEF Streamed
        <5> QED  BY <5>1, <1>1 DEF Message
      <4>2. CASE i \in DOMAIN Flow /\ j \in DOMAIN Flow
        BY <2>0, <2>f, <3>4, <4>2 DEF Streamed
      <4>3. CASE i \notin DOMAIN Flow \/ j \notin DOMAIN Flow
        BY <1>2, <2>f, <3>4, <4>1, <4>3
      <4> QED  BY <4>2, <4>3
    <3> QED  BY <1>0, <3>2, <3>3, <3>4 DEF Streamed
  <2>4. Rested'
    BY <1>0, <2>0 DEF Rested
  <2>5. Ledgered'
    <3>1. seen <= Len(conv) /\ seen <= Len(conv')
      BY <2>0, <2>c, <2>l DEF Ledgered
    <3>2. ASSUME NEW p \in DOMAIN conv', p <= seen, conv'[p] # Other, conv'[p] \notin blank'
          PROVE  counted[conv'[p]] = 1
      <4>1. p \in DOMAIN conv
        BY <2>c, <3>1, <3>2
      <4> QED  BY <1>0, <2>0, <2>c, <3>2, <4>1 DEF Ledgered
    <3>w. \A m : HasEnd(Flow, m) => HasEnd(Flow', m)
      BY <2>f DEF HasEnd
    <3>3. ASSUME shape = "boundary", NEW p \in DOMAIN conv', p > seen, conv'[p] # Other, conv'[p] \notin blank'
          PROVE  HasEnd(Flow', conv'[p]) \/ (counted[conv'[p]] = 1 /\ turn.usage)
      <4>1. CASE p \in DOMAIN conv
        <5>1. conv'[p] = conv[p] /\ conv[p] \notin blank
          BY <1>0, <2>c, <3>3, <4>1
        <5>2. HasEnd(Flow, conv[p]) \/ (counted[conv[p]] = 1 /\ turn.usage)
          BY <2>0, <3>3, <4>1, <5>1 DEF Ledgered
        <5> QED  BY <5>1, <5>2, <3>w
      <4>2. CASE p = Len(conv) + 1
        <5>1. conv'[p] = n
          BY <2>c, <4>2
        <5>2. \E i \in DOMAIN Flow' : Flow'[i].kind = "message_end" /\ Flow'[i].msg = conv'[p]
          BY <1>2, <2>f, <3>3, <5>1
        <5> QED  BY <5>2 DEF HasEnd
      <4> QED  BY <2>c, <4>1, <4>2
    <3>4. ASSUME shape = "snapshot"
          PROVE  /\ ~turn.usage
                 /\ \A p \in DOMAIN conv' : p > seen /\ conv'[p] # Other => counted[conv'[p]] = 0
      BY <2>0, <2>c, <2>z, <3>4 DEF Ledgered
    <3> QED  BY <1>0, <3>1, <3>2, <3>3, <3>4 DEF Ledgered
  <2> QED  BY <2>1, <2>2, <2>3, <2>4, <2>5 DEF Core
<1> QED  BY <1>4, <1>5, <1>6

(* A prompt starts a turn on a conversation that was seen to its end.        *)
LEMMA PromptKeeps ==
  ASSUME Core, UsageTypes, Plumbing, SendPrompt
  PROVE  Core'
<1>0. /\ drifted' = drifted /\ pc = "send"
      /\ UNCHANGED <<seen, counted, minted, blank, shape, closed>> /\ Flow' = Flow
  BY DEF SendPrompt, readVars, Flow
<1>1. CASE pi = "gone"
  <2>1. ~Live' /\ minted' \in Nat /\ minted' >= minted
    BY <1>0, <1>1 DEF SendPrompt, Live, UsageTypes
  <2> QED  BY <1>0, <2>1, DeadKeeps
<1>2. CASE drifted
  BY <1>0, <1>2 DEF Core
<1>3. CASE pi # "gone" /\ ~drifted
  <2>0. /\ CountedOnce /\ Numbered /\ Streamed /\ Rested /\ Ledgered
        /\ pc' = "wait" /\ turn' = NoTurn /\ conv' = Append(conv, Other) /\ Other \in Nat /\ Other = 0
    BY <1>0, <1>3 DEF Core, Live, SendPrompt, Other
  <2>1. seen = Len(conv) /\ \A i \in DOMAIN Flow : Flow[i].kind = "other"
    BY <1>0, <1>3, <2>0 DEF Rested, Plumbing, EndsInOrder
  <2>c. /\ DOMAIN conv = 1..Len(conv) /\ Len(conv) \in Nat /\ Len(conv') = Len(conv) + 1
        /\ \A p \in DOMAIN conv : conv'[p] = conv[p]
        /\ conv'[Len(conv) + 1] = Other
        /\ \A p \in DOMAIN conv' : p \in DOMAIN conv \/ p = Len(conv) + 1
    <3>1. conv \in Seq(Nat)
      BY DEF UsageTypes
    <3>2. Len(conv') = Len(conv) + 1
      BY <2>0, <3>1, AppendProperties
    <3> QED  BY <2>0, <3>1, <3>2, Appended
  <2>2. CountedOnce'
    BY <1>0, <2>0 DEF CountedOnce
  <2>3. Numbered'
    <3>1. \A p \in DOMAIN conv' : conv'[p] <= minted' /\ conv'[p] \in Message \cup {Other}
      BY <1>0, <2>0, <2>c DEF Numbered, UsageTypes
    <3>2. \A p \in DOMAIN conv' : conv'[p] # Other => p \in DOMAIN conv
      BY <2>c
    <3>3. ASSUME NEW p \in DOMAIN conv', NEW q \in DOMAIN conv', p # q, conv'[p] # Other
          PROVE  conv'[p] # conv'[q]
      BY <2>0, <2>c, <3>2, <3>3 DEF Numbered
    <3> QED  BY <3>1, <3>3 DEF Numbered
  <2>4. Streamed'
    BY <1>0, <2>1 DEF Streamed
  <2>5. Rested'
    BY <2>0 DEF Rested
  <2>6. Ledgered'
    <3>1. seen <= Len(conv') /\ seen \in Nat
      BY <2>1, <2>c
    <3>2. \A p \in DOMAIN conv' : conv'[p] # Other => p \in DOMAIN conv /\ p <= seen /\ ~(p > seen)
      BY <2>1, <2>c
    <3>3. ~turn'.usage
      BY <2>0 DEF NoTurn
    <3> QED  BY <1>0, <2>0, <2>c, <3>1, <3>2, <3>3 DEF Ledgered
  <2> QED  BY <2>2, <2>3, <2>4, <2>5, <2>6 DEF Core
<1> QED  BY <1>1, <1>2, <1>3

(* What the loop takes: the front of the stream.                             *)
LEMMA FrontTaken ==
  ASSUME UsageTypes, ch # <<>>, ch' = Tail(ch), UNCHANGED <<reader, holds, pipe>>
  PROVE  /\ 1 \in DOMAIN Flow /\ Flow[1] = Head(ch) /\ DOMAIN Flow \subseteq Nat \ {0}
         /\ \A i \in DOMAIN Flow' : i \in Nat /\ i + 1 \in DOMAIN Flow /\ i + 1 > 1 /\ Flow'[i] = Flow[i + 1]
         /\ \A i \in DOMAIN Flow : i # 1 => i - 1 \in DOMAIN Flow' /\ Flow'[i - 1] = Flow[i]
<1>1. Flow # <<>> /\ Head(Flow) = Head(ch) /\ Flow' = Tail(Flow)
  BY FlowTake
<1>2. Flow \in Seq(Event)
  BY FlowIs
<1>3. DOMAIN Flow \subseteq Nat \ {0}
  BY <1>2, LenProperties
<1> QED  BY <1>1, <1>2, <1>3, FlowTaken

(* A stream without its first event is still one.                            *)
LEMMA StreamedTail ==
  ASSUME Streamed, 1 \in DOMAIN Flow, DOMAIN Flow \subseteq Nat,
         \A i \in DOMAIN Flow' : i \in Nat /\ i + 1 \in DOMAIN Flow /\ i + 1 > 1 /\ Flow'[i] = Flow[i + 1],
         UNCHANGED <<shape, minted, pi, conv>>,
         \A m \in Message : counted'[m] = counted[m]
           \/ (Flow[1].kind = "message_end" /\ Flow[1].msg = m)
           \/ Flow[1].kind = "agent_end"
  PROVE  Streamed'
<1>1. ASSUME NEW i \in DOMAIN Flow', Flow'[i].kind = "message_end"
      PROVE  /\ shape = "boundary" /\ Flow'[i].msg \in Message /\ Flow'[i].msg <= minted
             /\ counted'[Flow'[i].msg] = 0
  <2>1. i + 1 \in DOMAIN Flow /\ i + 1 # 1 /\ 1 < i + 1 /\ Flow'[i] = Flow[i + 1]
    OBVIOUS
  <2>2. /\ shape = "boundary" /\ Flow'[i].msg \in Message /\ Flow'[i].msg <= minted
        /\ counted[Flow'[i].msg] = 0
    BY <1>1, <2>1 DEF Streamed
  <2>3. ~(Flow[1].kind = "message_end" /\ Flow[1].msg = Flow'[i].msg)
    BY <1>1, <2>1 DEF Streamed
  <2>4. Flow[1].kind # "agent_end"
    BY <1>1, <2>1 DEF Streamed
  <2> QED  BY <2>2, <2>3, <2>4
<1>2. ASSUME NEW i \in DOMAIN Flow', NEW j \in DOMAIN Flow', i # j,
             Flow'[i].kind = "message_end", Flow'[j].kind = "message_end"
      PROVE  Flow'[i].msg # Flow'[j].msg
  <2>1. i + 1 \in DOMAIN Flow /\ j + 1 \in DOMAIN Flow /\ i + 1 # j + 1
        /\ Flow'[i] = Flow[i + 1] /\ Flow'[j] = Flow[j + 1]
    BY <1>2
  <2> QED  BY <1>2, <2>1 DEF Streamed
<1>3. ASSUME NEW i \in DOMAIN Flow', Flow'[i].kind = "agent_end"
      PROVE  pi # "busy" /\ Flow'[i].messages = conv
  BY <1>3 DEF Streamed
<1>4. ASSUME NEW i \in DOMAIN Flow', NEW j \in DOMAIN Flow', i < j, Flow'[i].kind = "agent_end"
      PROVE  Flow'[j].kind = "other"
  <2>1. i + 1 \in DOMAIN Flow /\ j + 1 \in DOMAIN Flow /\ i + 1 < j + 1
        /\ Flow'[i] = Flow[i + 1] /\ Flow'[j] = Flow[j + 1]
    BY <1>4
  <2> QED  BY <1>4, <2>1 DEF Streamed
<1> QED  BY <1>1, <1>2, <1>3, <1>4 DEF Streamed

LEMMA OtherKeeps ==
  ASSUME Core, UsageTypes, Plumbing, NEW isEnd \in BOOLEAN, ReceiveOther(isEnd)
  PROVE  Core'
<1>0. /\ pc = "wait" /\ Head(ch).kind = "other" /\ drifted' = drifted
      /\ UNCHANGED <<pc, conv, seen, counted, minted, blank, shape, pi, closed>>
      /\ ch # <<>> /\ ch' = Tail(ch) /\ UNCHANGED <<reader, holds, pipe>>
  BY DEF ReceiveOther, piVars
<1>t. turn'.usage = turn.usage
  BY DEF ReceiveOther, UsageTypes
<1>1. /\ 1 \in DOMAIN Flow /\ Flow[1].kind = "other" /\ DOMAIN Flow \subseteq Nat
      /\ \A i \in DOMAIN Flow' : i \in Nat /\ i + 1 \in DOMAIN Flow /\ i + 1 > 1 /\ Flow'[i] = Flow[i + 1]
      /\ \A i \in DOMAIN Flow : i # 1 => i - 1 \in DOMAIN Flow' /\ Flow'[i - 1] = Flow[i]
  BY <1>0, FrontTaken
<1>2. ASSUME CountedOnce PROVE CountedOnce'
  BY <1>0, <1>2 DEF CountedOnce
<1>3. ASSUME Numbered PROVE Numbered'
  BY <1>0, <1>3 DEF Numbered
<1>4. ASSUME Streamed PROVE Streamed'
  BY <1>0, <1>1, <1>4, StreamedTail
<1>5. Rested'
  BY <1>0 DEF Rested
<1>6. ASSUME Ledgered PROVE Ledgered'
  <2>1. \A m : HasEnd(Flow, m) => HasEnd(Flow', m)
    BY <1>1 DEF HasEnd
  <2> QED  BY <1>0, <1>t, <1>6, <2>1 DEF Ledgered
<1> QED  BY <1>0, <1>2, <1>3, <1>4, <1>5, <1>6 DEF Core, Live

(* The end of a message: counted for the first time, unless it is blank.     *)
LEMMA MessageEndKeeps ==
  ASSUME Core, UsageTypes, Plumbing, ReceiveMessageEnd
  PROVE  Core'
<1> DEFINE k == Head(ch).msg
<1>0. /\ pc = "wait" /\ Head(ch).kind = "message_end" /\ drifted' = drifted
      /\ UNCHANGED <<pc, conv, seen, minted, blank, shape, pi, closed>>
      /\ ch # <<>> /\ ch' = Tail(ch) /\ UNCHANGED <<reader, holds, pipe>>
      /\ counted' = (IF k \in blank THEN counted ELSE Count({k}))
      /\ turn' = [turn EXCEPT !.ended = TRUE, !.usage = @ \/ k \notin blank]
  BY DEF ReceiveMessageEnd, piVars
<1>1. /\ 1 \in DOMAIN Flow /\ Flow[1].kind = "message_end" /\ Flow[1].msg = k /\ DOMAIN Flow \subseteq Nat
      /\ \A i \in DOMAIN Flow' : i \in Nat /\ i + 1 \in DOMAIN Flow /\ i + 1 > 1 /\ Flow'[i] = Flow[i + 1]
      /\ \A i \in DOMAIN Flow : i # 1 => i - 1 \in DOMAIN Flow' /\ Flow'[i - 1] = Flow[i]
  BY <1>0, FrontTaken
<1> HIDE DEF k
<1>2. CASE drifted
  BY <1>0, <1>2 DEF Core
<1>3. CASE ~drifted
  <2>0. CountedOnce /\ Numbered /\ Streamed /\ Rested /\ Ledgered
    BY <1>0, <1>3 DEF Core, Live
  <2>1. shape = "boundary" /\ k \in Message /\ k <= minted /\ counted[k] = 0
    BY <1>1, <2>0 DEF Streamed
  <2>2. /\ \A m \in Message : m # k => counted'[m] = counted[m]
        /\ counted'[k] = IF k \in blank THEN 0 ELSE 1
    <3>1. \A m \in Message : counted[m] \in Nat
      BY DEF UsageTypes
    <3> QED  BY <1>0, <2>1, <3>1 DEF Count
  <2>3. turn'.usage = (turn.usage \/ k \notin blank)
    BY <1>0 DEF UsageTypes
  <2>4. CountedOnce'
    <3>1. \A m \in Message : m > minted => m # k
      BY <2>1 DEF Message, UsageTypes
    <3>2. ASSUME NEW m \in Message PROVE counted'[m] <= 1 /\ (m > minted => counted'[m] = 0)
      <4>1. CASE m = k
        BY <2>2, <3>1, <4>1
      <4>2. CASE m # k
        BY <2>0, <2>2, <4>2 DEF CountedOnce
      <4> QED  BY <4>1, <4>2
    <3> QED  BY <1>0, <3>2 DEF CountedOnce
  <2>5. Numbered'
    BY <1>0, <2>0 DEF Numbered
  <2>6. Streamed'
    BY <1>0, <1>1, <2>0, <2>2, StreamedTail
  <2>7. Rested'
    BY <1>0 DEF Rested
  <2>8. Ledgered'
    <3>0. \A p \in DOMAIN conv : conv[p] # Other => conv[p] \in Message
      BY <2>0 DEF Numbered
    <3>1. ASSUME NEW p \in DOMAIN conv, p <= seen, conv[p] # Other, conv[p] \notin blank
          PROVE  counted'[conv[p]] = 1
      <4>1. counted[conv[p]] = 1 /\ conv[p] \in Message
        BY <2>0, <3>0, <3>1 DEF Ledgered
      <4> QED  BY <2>1, <2>2, <4>1
    <3>2. ASSUME NEW p \in DOMAIN conv, p > seen, conv[p] # Other, conv[p] \notin blank
          PROVE  HasEnd(Flow', conv[p]) \/ (counted'[conv[p]] = 1 /\ turn'.usage)
      <4>1. HasEnd(Flow, conv[p]) \/ (counted[conv[p]] = 1 /\ turn.usage)
        BY <2>0, <2>1, <3>2 DEF Ledgered
      <4>2. CASE conv[p] = k
        BY <2>2, <2>3, <3>2, <4>2
      <4>3. CASE conv[p] # k
        <5>1. HasEnd(Flow, conv[p]) => HasEnd(Flow', conv[p])
          BY <1>1, <4>3 DEF HasEnd
        <5> QED  BY <2>2, <2>3, <3>0, <3>2, <4>1, <4>3, <5>1
      <4> QED  BY <4>2, <4>3
    <3>3. shape # "snapshot" /\ seen <= Len(conv)
      BY <2>0, <2>1 DEF Ledgered
    <3> QED  BY <1>0, <3>1, <3>2, <3>3 DEF Ledgered
  <2> QED  BY <2>4, <2>5, <2>6, <2>7, <2>8 DEF Core
<1> QED  BY <1>2, <1>3

(* The part of a conversation that was not seen.                             *)
LEMMA DeltaIs ==
  ASSUME UsageTypes, seen <= Len(conv)
  PROVE  Range(Delta(conv, seen)) = {conv[p] : p \in {q \in DOMAIN conv : q > seen}}
<1>1. conv \in Seq(Nat) /\ Len(conv) \in Nat /\ seen \in Nat /\ DOMAIN conv = 1..Len(conv)
  BY LenProperties DEF UsageTypes
<1> DEFINE d == SubSeq(conv, seen + 1, Len(conv))
<1>2. Delta(conv, seen) = d
  BY <1>1 DEF Delta
<1>3. /\ Len(d) = Len(conv) - seen /\ DOMAIN d = 1..(Len(conv) - seen)
      /\ \A i \in DOMAIN d : d[i] = conv[seen + i]
  <2>1. Len(conv) - seen \in Nat /\ seen + 1 \in 1..(Len(conv) + 1)
    BY <1>1
  <2>e. \A i \in (seen + 1)..Len(conv) : conv[i] \in Nat
    BY <1>1, ElementOfSeq
  <2>l. d \in Seq(Nat) /\ Len(d) = IF seen + 1 <= Len(conv) THEN Len(conv) - (seen + 1) + 1 ELSE 0
    BY <1>1, <2>e, SubSeqProperties
  <2>2. \A i \in 1..(Len(conv) - seen) : d[i] = conv[seen + i]
    BY <1>1, <2>1, SubSeqProperties
  <2> HIDE DEF d
  <2>3. Len(d) = Len(conv) - seen /\ d \in Seq(Nat)
    <3>1. \A a, b, n \in Nat : a <= b /\ n = (IF a + 1 <= b THEN b - (a + 1) + 1 ELSE 0) => n = b - a
      OBVIOUS
    <3>2. Len(d) \in Nat
      BY <2>l, LenProperties
    <3> QED  BY <1>1, <2>l, <3>1, <3>2
  <2> QED  BY <2>1, <2>2, <2>3, LenProperties
<1>4. Range(d) = {d[i] : i \in DOMAIN d}
  BY DEF Range
<1> HIDE DEF d
<1>5. ASSUME NEW i \in DOMAIN d PROVE \E p \in {q \in DOMAIN conv : q > seen} : d[i] = conv[p]
  <2>1. seen + i \in DOMAIN conv /\ seen + i > seen /\ d[i] = conv[seen + i]
    BY <1>1, <1>3
  <2> QED  BY <2>1
<1>6. ASSUME NEW p \in DOMAIN conv, p > seen PROVE \E i \in DOMAIN d : d[i] = conv[p]
  <2>1. p - seen \in DOMAIN d /\ seen + (p - seen) = p
    BY <1>1, <1>3, <1>6
  <2>2. d[p - seen] = conv[seen + (p - seen)]
    BY <1>3, <2>1
  <2> QED  BY <2>1, <2>2
<1> QED  BY <1>2, <1>4, <1>5, <1>6

(* The end of a turn: in the boundary shape all of it was counted as it      *)
(* came, in the other it is counted now; nothing of the turn is left.        *)
LEMMA AgentEndKeeps ==
  ASSUME Core, UsageTypes, Plumbing, ReceiveAgentEnd
  PROVE  Core'
<1> DEFINE g == IF turn.usage THEN {} ELSE Charged(Head(ch).messages, seen)
<1>0. /\ pc = "wait" /\ Head(ch).kind = "agent_end" /\ drifted' = drifted
      /\ UNCHANGED <<conv, minted, blank, shape, pi, closed>>
      /\ ch # <<>> /\ ch' = Tail(ch) /\ UNCHANGED <<reader, holds, pipe>>
      /\ counted' = Count(g) /\ seen' = Len(Head(ch).messages)
      /\ pc' \in {"abort", "gate"}
  BY DEF ReceiveAgentEnd, piVars, Judged
<1>1. /\ 1 \in DOMAIN Flow /\ Flow[1] = Head(ch) /\ DOMAIN Flow \subseteq Nat \ {0}
      /\ \A i \in DOMAIN Flow' : i \in Nat /\ i + 1 \in DOMAIN Flow /\ i + 1 > 1 /\ Flow'[i] = Flow[i + 1]
  BY <1>0, FrontTaken
<1>2. CASE drifted
  BY <1>0, <1>2 DEF Core
<1>3. CASE ~drifted
  <2>0. CountedOnce /\ Numbered /\ Streamed /\ Rested /\ Ledgered
    BY <1>0, <1>3 DEF Core, Live
  <2>1. pi # "busy" /\ Head(ch).messages = conv /\ \A i \in DOMAIN Flow : i # 1 => Flow[i].kind = "other"
    <3>1. \A i \in DOMAIN Flow : i # 1 => 1 < i
      BY <1>1
    <3> QED  BY <1>0, <1>1, <2>0, <3>1 DEF Streamed
  <2>2. \A m : ~HasEnd(Flow, m)
    BY <1>0, <1>1, <2>1 DEF HasEnd
  <2>3. \A i \in DOMAIN Flow' : Flow'[i].kind = "other"
    <3>1. \A i \in DOMAIN Flow' : i + 1 \in DOMAIN Flow /\ i + 1 # 1 /\ Flow'[i] = Flow[i + 1]
      BY <1>1
    <3> QED  BY <2>1, <3>1
  <2>4. g = IF turn.usage THEN {} ELSE {m \in {conv[p] : p \in {q \in DOMAIN conv : q > seen}} : m # Other /\ m \notin blank}
    <3>1. seen <= Len(conv)
      BY <2>0 DEF Ledgered
    <3> QED  BY <2>1, <3>1, DeltaIs DEF Charged
  <2> HIDE DEF g
  <2>5. g \subseteq Message /\ \A m \in g : counted[m] = 0 /\ m <= minted
    <3>1. ASSUME NEW m \in g PROVE m \in Message /\ counted[m] = 0 /\ m <= minted
      <4>1. PICK p \in DOMAIN conv : p > seen /\ m = conv[p] /\ m # Other /\ m \notin blank /\ ~turn.usage
        BY <2>4
      <4>2. m \in Message /\ m <= minted
        BY <2>0, <4>1 DEF Numbered
      <4>3. shape = "snapshot"
        BY <2>0, <2>2, <4>1 DEF Ledgered, Plumbing
      <4> QED  BY <2>0, <4>1, <4>2, <4>3 DEF Ledgered
    <3> QED  BY <3>1
  <2>6. \A m \in Message : counted'[m] = IF m \in g THEN 1 ELSE counted[m]
    <3>1. \A m \in Message : counted[m] \in Nat
      BY DEF UsageTypes
    <3> QED  BY <1>0, <2>5, <3>1 DEF Count
  <2>7. CountedOnce'
    <3>1. \A m \in Message : m > minted => m \notin g
      BY <2>5 DEF Message, UsageTypes
    <3> QED  BY <1>0, <2>0, <2>6, <3>1 DEF CountedOnce
  <2>8. Numbered'
    BY <1>0, <2>0 DEF Numbered
  <2>9. Streamed'
    BY <2>3 DEF Streamed
  <2>10. seen' = Len(conv) /\ Len(conv) \in Nat /\ DOMAIN conv = 1..Len(conv) /\ seen \in Nat
    BY <1>0, <2>1, LenProperties DEF UsageTypes
  <2>11. Rested'
    BY <1>0, <2>1, <2>3, <2>10 DEF Rested
  <2>12. ASSUME NEW p \in DOMAIN conv, conv[p] # Other, conv[p] \notin blank
         PROVE  counted'[conv[p]] = 1
    <3>1. conv[p] \in Message
      BY <2>0, <2>12 DEF Numbered
    <3>2. CASE p <= seen
      BY <2>0, <2>6, <2>12, <3>1, <3>2 DEF Ledgered
    <3>3. CASE p > seen
      <4>1. CASE conv[p] \in g
        BY <2>6, <3>1, <4>1
      <4>2. CASE conv[p] \notin g
        <5>1. turn.usage
          BY <2>4, <2>12, <3>3, <4>2
        <5>2. shape = "boundary"
          BY <1>0, <2>0, <5>1 DEF Ledgered, Plumbing
        <5>3. counted[conv[p]] = 1
          BY <2>0, <2>2, <2>12, <3>3, <5>2 DEF Ledgered
        <5> QED  BY <2>6, <3>1, <4>2, <5>3
      <4> QED  BY <4>1, <4>2
    <3> QED  BY <2>10, <3>2, <3>3
  <2>13. Ledgered'
    <3>1. \A p \in DOMAIN conv : ~(p > Len(conv))
      BY <2>10
    <3>2. seen' <= Len(conv') /\ pc' # "wait" /\ conv' = conv /\ blank' = blank
      BY <1>0, <2>10
    <3> QED  BY <2>10, <2>12, <3>1, <3>2 DEF Ledgered
  <2> QED  BY <2>7, <2>8, <2>9, <2>11, <2>13 DEF Core
<1> QED  BY <1>2, <1>3

(* The stream closed: nothing is in it, and the gate decides.                *)
LEMMA ClosedKeeps ==
  ASSUME Core, UsageTypes, Plumbing, StreamClosed
  PROVE  Core'
<1>0. /\ pc = "wait" /\ ch = <<>> /\ closed /\ turn' = [turn EXCEPT !.by = "closed"]
      /\ pc' \in {"abort", "gate"} /\ drifted' = drifted /\ Flow' = Flow
      /\ UNCHANGED <<counted, seen, closed, conv, minted, blank, shape, pi>>
  BY DEF StreamClosed, Judged, readVars, piVars, Flow
<1>1. reader = "gone" /\ pi = "gone" /\ pipe = <<>>
  BY <1>0 DEF Plumbing, EndsInOrder
<1>2. Flow = <<>>
  BY <1>0, <1>1, FlowIs, ConcatEmptySeq DEF UsageTypes
<1>3. DOMAIN Flow = {}
  BY <1>2
<1>4. turn'.usage = turn.usage /\ turn'.by = "closed"
  BY <1>0 DEF UsageTypes
<1>5. ASSUME CountedOnce PROVE CountedOnce'
  BY <1>0, <1>5 DEF CountedOnce
<1>6. ASSUME Numbered PROVE Numbered'
  BY <1>0, <1>6 DEF Numbered
<1>7. Streamed'
  BY <1>0, <1>3 DEF Streamed
<1>8. Rested'
  BY <1>0, <1>1, <1>3, <1>4 DEF Rested
<1>9. ASSUME Ledgered PROVE Ledgered'
  BY <1>0, <1>4, <1>9 DEF Ledgered
<1> QED  BY <1>0, <1>5, <1>6, <1>7, <1>8, <1>9 DEF Core, Live

(* From one turn to the next: only where the loop is changes.                *)
LEMMA BetweenKeeps ==
  ASSUME Core, UsageTypes, Plumbing, Flow' = Flow, drifted' = drifted,
         pc \in {"spawn", "gate"}, pc' \in {"send", "gate"}, pc = "spawn" => pc' = "send",
         pi' # "busy" \/ pi' = pi, UNCHANGED <<conv, seen, counted, turn, minted, blank, shape, closed>>
  PROVE  Core'
<1>1. ASSUME CountedOnce PROVE CountedOnce'
  BY <1>1 DEF CountedOnce
<1>2. ASSUME Numbered PROVE Numbered'
  BY <1>2 DEF Numbered
<1>3. ASSUME Streamed PROVE Streamed'
  BY <1>3 DEF Streamed
<1>4. ASSUME Rested PROVE Rested'
  BY <1>4 DEF Rested
<1>5. ASSUME Ledgered PROVE Ledgered'
  BY <1>5 DEF Ledgered
<1> QED  BY <1>1, <1>2, <1>3, <1>4, <1>5 DEF Core, Live

(* Every step keeps the account.                                             *)
LEMMA LoopKeepsUsage ==
  ASSUME Core, UsageTypes, Plumbing, Loop
  PROVE  Core'
<1>1. ASSUME NEW ok \in BOOLEAN, NewRPC(ok) PROVE Core'
  <2>1. /\ pc = "spawn" /\ reader = "gone" /\ reader' \in {"gone", "read"} /\ UNCHANGED <<ch, pipe, holds>>
        /\ pc' \in {"send", "done"} /\ (pi' = pi \/ pi' = "idle") /\ drifted' = drifted
        /\ UNCHANGED <<conv, seen, counted, turn, minted, blank, shape, closed>>
    BY <1>1 DEF NewRPC, Plumbing, EndsInOrder
  <2>2. Flow' = Flow
    BY <2>1 DEF Flow
  <2>3. CASE pc' = "done"
    <3>1. ~Live' /\ minted' \in Nat /\ minted' >= minted
      BY <2>1, <2>3 DEF Live, UsageTypes
    <3> QED  BY <2>1, <3>1, DeadKeeps
  <2>4. CASE pc' = "send"
    BY <2>1, <2>2, <2>4, BetweenKeeps
  <2> QED  BY <2>1, <2>3, <2>4
<1>2. ASSUME NEW green \in BOOLEAN, NEW expired \in BOOLEAN, EvalGate(green, expired) PROVE Core'
  <2>1. /\ pc = "gate" /\ pc' \in {"send", "gate", "abort"} /\ drifted' = drifted
        /\ UNCHANGED <<conv, seen, counted, turn, minted, blank, shape, closed, pi>>
        /\ UNCHANGED <<ch, pipe, holds, reader>>
    BY <1>2 DEF EvalGate, AfterRed, readVars, piVars
  <2>2. Flow' = Flow
    BY <2>1 DEF Flow
  <2>3. CASE pc' = "abort"
    <3>1. ~Live' /\ minted' \in Nat /\ minted' >= minted
      BY <2>1, <2>3 DEF Live, UsageTypes
    <3> QED  BY <2>1, <3>1, DeadKeeps
  <2>4. CASE pc' # "abort"
    BY <2>1, <2>2, <2>4, BetweenKeeps
  <2> QED  BY <2>3, <2>4
<1>3. CASE PromptCancelled \/ Abort \/ Wait \/ ReadSessionFiles
  <2>1. pc' \in {"abort", "closing", "files", "done"} /\ UNCHANGED <<counted, drifted, minted>>
    BY <1>3 DEF PromptCancelled, Abort, Wait, ReadSessionFiles, piVars
  <2>2. ~Live' /\ minted' \in Nat /\ minted' >= minted
    BY <2>1 DEF Live, UsageTypes
  <2> QED  BY <2>1, <2>2, DeadKeeps
<1>4. CASE ReceiveUnparsable
  BY <1>4 DEF ReceiveUnparsable, Core
<1> QED  BY <1>1, <1>2, <1>3, <1>4, PromptKeeps, OtherKeeps, MessageEndKeeps, AgentEndKeeps, ClosedKeeps DEF Loop

LEMMA ReaderKeepsUsage ==
  ASSUME Core, UsageTypes, UsageTypes', Plumbing, Reader
  PROVE  Core'
<1>1. CASE ReadLine \/ Forward
  <2>1. Flow' = Flow
    BY <1>1, FlowRead, FlowForward
  <2>2. /\ UNCHANGED <<pc, conv, seen, counted, turn, minted, blank, shape>>
        /\ drifted' = drifted /\ pi' = pi /\ closed' = closed
    BY <1>1 DEF ReadLine, Forward, loopVars, piVars
  <2> QED  BY <2>1, <2>2, StillKeeps
<1>2. CASE EndOfStream
  <2>1. /\ UNCHANGED <<pc, conv, seen, counted, turn, minted, blank, shape, ch, holds, pipe>>
        /\ drifted' = drifted /\ pi' = pi /\ closed' /\ reader = "read" /\ reader' = "gone"
    BY <1>2 DEF EndOfStream, loopVars, piVars
  <2>2. Flow' = Flow
    BY <2>1 DEF Flow
  <2> QED  BY <2>1, <2>2, StillKeeps
<1>3. CASE ReaderStops \/ Drain
  <2>1. stopped /\ pc' = pc /\ UNCHANGED <<counted, drifted, minted>>
    BY <1>3 DEF ReaderStops, Drain, loopVars, piVars
  <2>2. ~Live' /\ minted' \in Nat /\ minted' >= minted
    BY <2>1 DEF Live, Plumbing, UsageTypes
  <2> QED  BY <2>1, <2>2, DeadKeeps
<1> QED  BY <1>1, <1>2, <1>3 DEF Reader

LEMMA PiKeepsUsage ==
  ASSUME Core, UsageTypes, Plumbing, Pi
  PROVE  Core'
<1>1. CASE PiEnds
  <2>1. /\ pi = "busy" /\ pi' = "idle" /\ drifted' = drifted /\ Emit(AgentEnd(conv)) /\ UNCHANGED readVars
        /\ UNCHANGED <<pc, conv, seen, counted, turn, minted, blank, shape, closed>>
    BY <1>1 DEF PiEnds, loopVars, readVars
  <2>2. AgentEnd(conv) \in Event
    BY Kinds DEF UsageTypes
  <2>3. Flow' = Append(Flow, AgentEnd(conv))
    BY <2>1, <2>2, FlowEmit
  <2> QED  BY <2>1, <2>3, EndKeeps
<1>2. CASE PiChatters
  <2>1. /\ drifted' = drifted /\ Emit(Chatter) /\ UNCHANGED readVars
        /\ UNCHANGED <<pc, conv, seen, counted, turn, minted, blank, shape, pi, closed>>
    BY <1>2 DEF PiChatters, loopVars, readVars
  <2>2. Flow' = Append(Flow, Chatter)
    BY <2>1, Kinds, FlowEmit
  <2> QED  BY <2>1, <2>2, ChatterKeeps
<1>3. CASE PiDetaches \/ HolderExits \/ PiCrashes \/ PiExits \/ CtxKills
  <2>1. /\ drifted' = drifted /\ (pi' = pi \/ pi' = "gone") /\ UNCHANGED <<ch, reader, holds, pipe>>
        /\ UNCHANGED <<pc, conv, seen, counted, turn, minted, blank, shape, closed>>
    BY <1>3 DEF PiDetaches, HolderExits, PiCrashes, PiExits, CtxKills, PiGone, loopVars, readVars
  <2>2. Flow' = Flow
    BY <2>1 DEF Flow
  <2> QED  BY <2>1, <2>2, StillKeeps
<1>4. ASSUME NEW k \in 0..Len(conv), PiCompacts(k) PROVE Core'
  BY <1>4 DEF PiCompacts, Core
<1> QED  BY <1>1, <1>2, <1>3, <1>4, MessageKeeps DEF Pi

LEMMA StepUsage == UsageInv /\ [Next]_vars => UsageInv'
<1> SUFFICES ASSUME UsageInv, [Next]_vars PROVE UsageInv'
  OBVIOUS
<1>1. UsageTypes /\ Plumbing /\ Core
  BY DEF UsageInv, Core
<1>2. UsageTypes' /\ Plumbing'
  BY <1>1, TypesHold, PlumbingHolds
<1>3. CASE Deadline \/ UNCHANGED vars
  <2>1. /\ drifted' = drifted /\ pi' = pi /\ UNCHANGED <<ch, reader, holds, pipe>>
        /\ UNCHANGED <<pc, conv, seen, counted, turn, minted, blank, shape, closed>>
    BY <1>3 DEF Deadline, vars, loopVars, readVars, piVars
  <2>2. Flow' = Flow
    BY <2>1 DEF Flow
  <2>3. Core'
    BY <1>1, <2>1, <2>2, StillKeeps
  <2> QED  BY <1>2, <2>3 DEF UsageInv, Core
<1>4. CASE Loop \/ Reader \/ Pi
  <2>1. Core'
    BY <1>1, <1>2, <1>4, LoopKeepsUsage, ReaderKeepsUsage, PiKeepsUsage
  <2> QED  BY <1>2, <2>1 DEF UsageInv, Core
<1> QED  BY <1>3, <1>4 DEF Next

(* For any number of turns and messages, any sizes of the pipe and of the    *)
(* channel and any interleaving of the loop, the reader and pi: as long as   *)
(* every snapshot parses and none was compacted, no message is in the usage  *)
(* twice, and after a turn that ended each message that carried tokens is in *)
(* it (RPC.Prompt, absorbAgentEnd).                                          *)
THEOREM UsageIsExact == Spec => []UsageExact
<1>1. UsageInv => UsageExact
  <2>1. SUFFICES ASSUME UsageInv, ~drifted PROVE UsageExact
    BY DEF UsageExact
  <2>2. CountedOnce /\ (Live => Numbered /\ Rested /\ Ledgered) /\ UsageTypes
    BY <2>1 DEF UsageInv
  <2>3. ASSUME pc = "gate", turn.by = "agent_end", NEW m \in Range(conv) \ (blank \cup {Other})
        PROVE  counted[m] = 1
    <3>1. Numbered /\ Rested /\ Ledgered
      BY <2>2, <2>3 DEF Live
    <3>2. seen = Len(conv)
      BY <2>3, <3>1 DEF Rested
    <3>3. conv \in Seq(Nat) /\ Range(conv) = {conv[i] : i \in DOMAIN conv} /\ DOMAIN conv = 1..Len(conv)
          /\ Len(conv) \in Nat
      BY <2>2, LenProperties DEF UsageTypes, Range
    <3>4. PICK p \in DOMAIN conv : m = conv[p]
      BY <2>3, <3>3
    <3>5. p <= seen
      BY <3>2, <3>3
    <3> QED  BY <2>3, <3>1, <3>4, <3>5 DEF Ledgered
  <2> QED  BY <2>2, <2>3 DEF UsageExact, CountedOnce
<1> QED  BY <1>1, InitUsage, StepUsage, PTL DEF Spec
=============================================================================
