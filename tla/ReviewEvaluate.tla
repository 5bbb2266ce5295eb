----------------------------- MODULE ReviewEvaluate -----------------------------
(***************************************************************************)
(* review.Evaluate: one Review-Ready decision about one pull request.      *)
(*                                                                         *)
(* The function reads the forge several times and any read may fail.  What *)
(* it was told is the record f, what it knows of the claim the record c:   *)
(*                                                                         *)
(*   f.failed    the reads that failed, of {"pr", "comments", "ci"};       *)
(*               "comments" includes a conversation longer than the scan   *)
(*               cap, "ci" the merge rules and the context states          *)
(*   f.state, f.head, f.label     the pull request                         *)
(*   f.window    a verdict of any head is in the claim's window            *)
(*   f.standing  a verdict stands at f.head                                *)
(*   f.green     no required context is red, running or missing            *)
(*                                                                         *)
(*   c.sha       the head the claim was armed at, None for a candidate     *)
(*   c.dispatched, c.overdue, c.expired   the claim's clocks               *)
(***************************************************************************)
CONSTANT None

waiting(sha, label) ==
  [decision |-> "waiting", code |-> "", sha |-> sha, label |-> label]

standdown(code, sha, label) ==
  [decision |-> "standdown", code |-> code, sha |-> sha, label |-> label]

proceed(sha, label) ==
  [decision |-> "proceed", code |-> "", sha |-> sha, label |-> label]

\* What a candidate without a claim is evaluated with.
Unclaimed == [sha |-> None, dispatched |-> FALSE, overdue |-> FALSE,
              expired |-> FALSE]

HeadMoved(c, f) == c.sha # None /\ c.sha # f.head

\* A head that moved inherits a fresh horizon.
HorizonExceeded(c, f) == c.expired /\ ~HeadMoved(c, f)

\* The label is gone: only a verdict in the claim's window ends the wait.
LabelAbsent(c, f) ==
  IF "comments" \in f.failed
    THEN waiting(IF c.sha = None THEN f.head ELSE c.sha, FALSE)
  ELSE IF f.window THEN standdown("consumed", None, FALSE)
  ELSE IF HorizonExceeded(c, f) THEN standdown("horizon", None, FALSE)
  ELSE waiting(f.head, FALSE)

\* The review was dispatched: it is never dispatched again from here.
InFlight(c, f) ==
  IF "comments" \in f.failed THEN waiting(f.head, TRUE)
  ELSE IF f.window THEN standdown("consumed", None, TRUE)
  ELSE IF HeadMoved(c, f) THEN standdown("head-moved", None, FALSE)
  ELSE IF c.overdue THEN standdown("dispatch-dead", None, TRUE)
  ELSE waiting(f.head, TRUE)

\* Mutant: a standing verdict is not looked for.
FreshUnread(f) ==
  IF "ci" \notin f.failed /\ f.green THEN proceed(f.head, TRUE)
  ELSE waiting(f.head, TRUE)

\* A head is reviewed once, and only when its CI is green.
Fresh(f) ==
  IF "comments" \in f.failed THEN waiting(f.head, TRUE)
  ELSE IF f.standing THEN standdown("verdict-standing", f.head, TRUE)
  ELSE IF "ci" \notin f.failed /\ f.green THEN proceed(f.head, TRUE)
  ELSE waiting(f.head, TRUE)

Evaluate(c, f, wakeSha) ==
  IF "pr" \in f.failed
    THEN waiting(IF c.sha = None THEN wakeSha ELSE c.sha, FALSE)
  ELSE IF f.state # "open"
    THEN standdown(IF f.state = "closed" THEN "pr-closed" ELSE "standdown",
                   None, f.label)
  ELSE IF ~c.dispatched /\ HeadMoved(c, f)
    THEN standdown("head-moved", None, f.label)
  ELSE IF ~f.label THEN LabelAbsent(c, f)
  ELSE IF HorizonExceeded(c, f) THEN standdown("horizon", None, TRUE)
  ELSE IF c.dispatched THEN InFlight(c, f)
  ELSE Fresh(f)

\* The release reason a standdown is written on the claim with.
classifyRelease(code) ==
  CASE code = "pr-closed"     -> "pr-closed"
    [] code \in {"consumed", "verdict-standing"} -> "consumed"
    [] code = "horizon"       -> "horizon"
    [] code = "head-moved"    -> "superseded"
    [] code = "dispatch-dead" -> "dispatch-timeout"
    [] OTHER                  -> "standdown"
================================================================================
