------------------------------ MODULE LivePage ------------------------------
(* A live page of the user interface: the run graph or the event timeline of *)
(* one Attempt, or the wall.  It is a server-side loop that renders the page *)
(* again when a lifecycle event of the pipeline arrives, coalesced by a      *)
(* debounce timer, or when a slow ticker fires.  The page reads the Attempt; *)
(* an event only says that there may be something new to read.               *)
(*                                                                           *)
(* The writers are the workers of the Attempt's runs: each records first and *)
(* announces afterwards, except the outcome of the run, which is recorded    *)
(* after the last event.  An event may be lost, delayed or overtaken.        *)
EXTENDS Naturals, Sequences, SequencesExt

CONSTANTS Runs,       \* the runs of the Attempt, which may overlap
          Claimed,    \* the Attempt is a review claim's, and the gate watches it
          LegacyRuns, \* runs of workers that do not name the Attempt in an event
          Buffer,     \* capacity of a subscriber's channel, 64 in the code
          WireMax,    \* events under way at a time
          MaxFaults   \* failed calls and lost workers

ASSUME LivePageAssumption ==
    /\ LegacyRuns \subseteq Runs
    /\ Claimed \in BOOLEAN
    /\ Buffer \in Nat \ {0}
    /\ WireMax \in Nat
    /\ MaxFaults \in Nat

VARIABLES records, \* the Attempt's run records, by their phase
          rev,     \* how many writes the Attempt has seen
          exists,  \* the Attempt has not been deleted
          stage,   \* where each run's worker is
          wire,    \* the events between the workers and the hub
          page,    \* the page's server-side loop, and what the browser shows
          faults

ledger == <<records, rev, exists>>
pageVars == <<records, rev, exists, stage, wire, page, faults>>

This == "this"
Other == "other"
NoAttempt == ""

Pages == {"graph", "wall"}

ClosedPage(kind) ==
    [kind |-> kind, pc |-> "closed", ch |-> 0, debounce |-> "nil", kick |-> FALSE,
     ticker |-> FALSE, terminal |-> FALSE, shown |-> 0, inFlight |-> FALSE,
     announced |-> 0, failed |-> FALSE]

Event == [attempt : {This, Other, NoAttempt}, rev : Nat]

(* announced and failed are history: the newest write that an event queued   *)
(* for this page was published after, and whether the last render failed.    *)
Page ==
    [kind : Pages, pc : {"closed", "subscribed", "open"}, ch : 0..Buffer,
     debounce : {"nil", "armed", "fired"}, kick : BOOLEAN, ticker : BOOLEAN,
     terminal : BOOLEAN, shown : Nat, inFlight : BOOLEAN, announced : Nat,
     failed : BOOLEAN]

PageTypeOK ==
    /\ records \in [Runs -> {"none", "running", "ended"}]
    /\ rev \in Nat
    /\ exists \in BOOLEAN
    /\ stage \in [Runs -> {"idle", "begun", "noded", "done"}]
    /\ wire \in Seq(Event)
    /\ page \in Page
    /\ faults \in 0..MaxFaults

PageInit ==
    /\ records = [r \in Runs |-> "none"]
    /\ rev = 1
    /\ exists = TRUE
    /\ stage = [r \in Runs |-> "idle"]
    /\ wire = << >>
    /\ page \in {ClosedPage(k) : k \in Pages}
    /\ faults = 0

Fault == faults < MaxFaults /\ faults' = faults + 1

-----------------------------------------------------------------------------
(* The workers.                                                              *)

(* A best-effort write of the run's record: done, or logged and given up.    *)
Record(r, phase) ==
    \/ /\ exists
       /\ records' = [records EXCEPT ![r] = phase]
       /\ rev' = rev + 1
       /\ UNCHANGED <<exists, faults>>
    \/ Fault /\ UNCHANGED ledger
    \/ ~exists /\ UNCHANGED <<ledger, faults>>

(* A best-effort publication, which may be lost on the way.                  *)
publishLifecycle(attempt) ==
    wire' \in {wire} \cup (IF Len(wire) < WireMax
                           THEN {Append(wire, [attempt |-> attempt, rev |-> rev])}
                           ELSE {})

AttemptOf(r) == IF r \in LegacyRuns THEN NoAttempt ELSE This

At(r, from, to) == stage[r] = from /\ stage' = [stage EXCEPT ![r] = to]

RunStarts(r) == At(r, "idle", "begun") /\ Record(r, "running") /\ UNCHANGED <<wire, page>>

(* While it walks, the worker publishes pipeline.started, node.started,      *)
(* node.completed or node.failed, and pipeline.completed or .failed.  An     *)
(* event is only a wake and may be lost, so any number of them is allowed,   *)
(* at any point between the first record and the last.                       *)
Announces(r) ==
    /\ stage[r] \in {"begun", "noded"}
    /\ publishLifecycle(AttemptOf(r))
    /\ UNCHANGED <<ledger, stage, page, faults>>

(* A node's envelope is recorded before the event that announces it.         *)
NodeRecorded(r) ==
    /\ At(r, "begun", "noded")
    /\ \/ exists /\ rev' = rev + 1 /\ UNCHANGED faults
       \/ Fault /\ UNCHANGED rev
       \/ ~exists /\ UNCHANGED <<rev, faults>>
    /\ UNCHANGED <<records, exists, wire, page>>

(* The outcome: no event follows it.                                         *)
RunEnds(r) == At(r, "noded", "done") /\ Record(r, "ended") /\ UNCHANGED <<wire, page>>

(* The worker's pod is gone.                                                 *)
WorkerDies(r) ==
    /\ stage[r] \notin {"idle", "done"}
    /\ stage' = [stage EXCEPT ![r] = "done"]
    /\ Fault
    /\ UNCHANGED <<ledger, wire, page>>

finalizeRunningRuns ==
    [r \in Runs |-> IF records[r] = "running" THEN "ended" ELSE records[r]]

(* A run that is over and whose record was left running.                     *)
LeftRunning == \E r \in Runs : stage[r] = "done" /\ records[r] = "running"

(* The gate finds that a dispatch of the claim died, or has cancelled it,    *)
(* and settles every running record, those of other runs too; nobody         *)
(* publishes that.  A consumed or reaped claim settles none, and an Attempt  *)
(* without a claim has nobody to do it: nothing makes this step happen.      *)
RunsSettled ==
    /\ Claimed /\ exists /\ LeftRunning
    /\ records' = finalizeRunningRuns
    /\ rev' = rev + 1
    /\ UNCHANGED <<exists, stage, wire, page, faults>>

(* Another Attempt of the same workflow publishes.                           *)
ForeignEvent ==
    /\ publishLifecycle(Other)
    /\ UNCHANGED <<ledger, stage, page, faults>>

Deleted ==
    /\ exists /\ exists' = FALSE
    /\ rev' = rev + 1
    /\ UNCHANGED <<records, stage, wire, page, faults>>

-----------------------------------------------------------------------------
(* The hub.                                                                  *)

(* Whether an event passes the page's subscription.                          *)
match(kind, ev) == kind = "wall" \/ ev.attempt \in {NoAttempt, This}

Newest(a, b) == IF a < b THEN b ELSE a

(* The page after the hub offered it an event: an event for a full channel   *)
(* is dropped.                                                               *)
Offered(p, ev) ==
    IF p.pc # "closed" /\ match(p.kind, ev)
    THEN [p EXCEPT !.ch = IF @ < Buffer THEN @ + 1 ELSE @,
                   !.announced = Newest(@, ev.rev)]
    ELSE p

(* The sidecar delivers any of the events under way.                         *)
Publish ==
    \E i \in DOMAIN wire :
        /\ page' = Offered(page, wire[i])
        /\ wire' = RemoveAt(wire, i)
        /\ UNCHANGED <<ledger, stage, faults>>

-----------------------------------------------------------------------------
(* The page.                                                                 *)

attemptSettledAny == \E r \in Runs : records[r] # "running"

attemptSettled == \A r \in Runs : records[r] # "running"

(* What a render leaves of the page p: a page of an Attempt that is gone     *)
(* fails and has nothing to wait for; the wall does without it.              *)
Rendered(p) ==
    IF p.kind = "graph" /\ ~exists
    THEN [p EXCEPT !.terminal = TRUE, !.failed = TRUE]
    ELSE [p EXCEPT !.terminal = attemptSettled, !.shown = rev, !.failed = FALSE,
                   !.inFlight = exists /\ \E r \in Runs : records[r] = "running"]

(* send: a render that fails is logged, and the stream stays.                *)
send(p) ==
    \/ page' = Rendered(p) /\ UNCHANGED faults
    \/ page' = [p EXCEPT !.failed = TRUE] /\ Fault

(* The handler finds the Attempt and subscribes before the first paint.      *)
Open ==
    /\ page.pc = "closed"
    /\ page.kind = "wall" \/ exists
    /\ page' = [page EXCEPT !.pc = "subscribed"]
    /\ UNCHANGED <<ledger, stage, wire, faults>>

FirstPaint ==
    /\ page.pc = "subscribed"
    /\ send([page EXCEPT !.pc = "open", !.ticker = TRUE])
    /\ UNCHANGED <<ledger, stage, wire>>

isDone(p) == p.kind = "graph" /\ p.terminal

(* The ticker renders, or stops for good when the last render saw no run.    *)
Tick ==
    /\ page.pc = "open" /\ page.ticker
    /\ IF isDone(page)
       THEN page' = [page EXCEPT !.ticker = FALSE] /\ UNCHANGED faults
       ELSE send(page)
    /\ UNCHANGED <<ledger, stage, wire>>

Kick ==
    /\ page.pc = "open" /\ page.kick
    /\ send([page EXCEPT !.kick = FALSE])
    /\ UNCHANGED <<ledger, stage, wire>>

DebouncedOnce(d) == IF d = "nil" THEN "armed" ELSE d

(* The timer of the debounce: made by the first event, set again by each.    *)
Debounced(d) == "armed"

Receive ==
    /\ page.pc = "open" /\ page.ch > 0
    /\ page' = [page EXCEPT !.ch = @ - 1, !.debounce = Debounced(@)]
    /\ UNCHANGED <<ledger, stage, wire, faults>>

(* The timer's own goroutine only leaves a kick, at most one.                *)
Fire ==
    /\ page.debounce = "armed"
    /\ page' = [page EXCEPT !.debounce = "fired", !.kick = TRUE]
    /\ UNCHANGED <<ledger, stage, wire, faults>>

(* The browser goes away, at any time; it may come back.                     *)
Close ==
    /\ page.pc # "closed"
    /\ page' = ClosedPage(page.kind)
    /\ UNCHANGED <<ledger, stage, wire, faults>>

-----------------------------------------------------------------------------
WorkerStep(r) == RunStarts(r) \/ NodeRecorded(r) \/ RunEnds(r)

PageNext ==
    \/ \E r \in Runs : WorkerStep(r) \/ Announces(r) \/ WorkerDies(r)
    \/ RunsSettled \/ ForeignEvent \/ Deleted \/ Publish
    \/ Open \/ FirstPaint \/ Tick \/ Kick \/ Receive \/ Fire \/ Close

(* A worker that has begun goes on or dies, and the loop of an open page is  *)
(* never starved of its ticker: a select chooses among what is ready at      *)
(* random.                                                                   *)
Fairness ==
    /\ \A r \in Runs : WF_pageVars(stage[r] # "idle" /\ WorkerStep(r))
    /\ WF_pageVars(FirstPaint) /\ SF_pageVars(Tick)

PageSpec == PageInit /\ [][PageNext]_pageVars /\ Fairness

-----------------------------------------------------------------------------
(* What was recorded before an event that reached the hub is on the page, or *)
(* a wake for it is under way, however full the channel, however the events  *)
(* overtook each other and whenever the page was opened: unless the last     *)
(* render failed.                                                            *)
AnnouncedIsShown ==
    page.pc = "open" =>
        \/ page.announced <= page.shown
        \/ page.ch > 0
        \/ page.debounce = "armed"
        \/ page.kick
        \/ page.failed

(* A page that shows a run in flight while its ticker runs does not show it  *)
(* for ever once every run that is over has its outcome recorded, though the *)
(* last event comes before the outcome, any event may be lost, and nobody    *)
(* announces what the gate settles.                                          *)
Converges ==
    (page.pc = "open" /\ page.ticker /\ page.inFlight)
        ~> (page.pc # "open" \/ ~exists \/ ~page.inFlight \/ LeftRunning)
=============================================================================
