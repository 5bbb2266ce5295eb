---------------------------- MODULE RunEvidence ----------------------------
(***************************************************************************)
(* What is written about a run and how it is read back: the timeline in    *)
(* the state store, a key per event and no index, the rows the user        *)
(* interface makes of it together with the ledger, and the workflow's      *)
(* research journal.                                                       *)
(*                                                                         *)
(* The store is a set of events [run, seq, kind]. A run's ledger record is *)
(* [listed, started, ended]: it is in the Attempt's list of runs, and has  *)
(* its two instants. The journal is a sequence of runs.                    *)
(***************************************************************************)
EXTENDS Naturals, FiniteSets, SequencesExt

CONSTANTS
    ProbeBatch,     \* keys of one bulk get (64 in the code)
    JournalEntries, \* ResearchJournalEntries
    JournalBytes    \* ResearchJournalMaxBytes, in entries: 0 when not even one fits

ASSUME EvidenceBounds == /\ ProbeBatch \in Nat \ {0}
                         /\ JournalEntries \in Nat \ {0}
                         /\ JournalBytes \in Nat

RunStarted == "run.started"
RunCompleted == "run.completed"

EventsOf(store, run) == {e \in store : e.run = run}

-----------------------------------------------------------------------------
\* The keys base + 1 .. base + ProbeBatch of a probe.
BatchOf(seq) == (seq - 1) \div ProbeBatch

\* The walk stops at the first batch in which nothing is stored.
Reached(store, run, seq) ==
    \A b \in 0..BatchOf(seq) : \E e \in EventsOf(store, run) : BatchOf(e.seq) = b

\* DaprReader.Attempt over the runs the ledger lists.
ReadAttempt(store, runs) == {e \in store : e.run \in runs /\ Reached(store, e.run, e.seq)}

-----------------------------------------------------------------------------
Listed(ledger) == {r \in DOMAIN ledger : ledger[r].listed}

Seen(events, run, kind) == \E e \in events : e.run = run /\ e.kind = kind

\* The ledger's row beside the store's.
FilledAlways(ledger, events, run, kind) ==
    /\ run \in Listed(ledger)
    /\ IF kind = RunStarted THEN ledger[run].started ELSE ledger[run].ended

\* The rows a run's two boundaries get: each event that was read is a row, and
\* the ledger fills a gap.
FilledByLedger(ledger, events, run, kind) ==
    /\ run \in Listed(ledger)
    /\ IF kind = RunStarted THEN ledger[run].started ELSE ledger[run].ended
    /\ ~Seen(events, run, kind)

\* How the page's reads of the store go: a server may have no reader, and one
\* of the two reads may fail.
Reads == {"ok", "failed", "unwired"}

\* The rows of runs on the page. Without the store's events there are none, the
\* ledger's boundaries included: the degraded page has the trigger, the claim
\* and a notice.
buildEventTimeline(ledger, store, read) ==
    LET events == ReadAttempt(store, Listed(ledger)) IN
    IF read # "ok" THEN {}
    ELSE {[source |-> "store", run |-> e.run, kind |-> e.kind, seq |-> e.seq] : e \in events}
         \cup {[source |-> "ledger", run |-> p[1], kind |-> p[2], seq |-> 0] :
                  p \in {q \in Listed(ledger) \X {RunStarted, RunCompleted} :
                            FilledByLedger(ledger, events, q[1], q[2])}}

Rows(ledger, store, read, run, kind) ==
    {row \in buildEventTimeline(ledger, store, read) : row.run = run /\ row.kind = kind}

-----------------------------------------------------------------------------
NewestOf(s, n) == IF Len(s) <= n THEN s ELSE SubSeq(s, Len(s) - n + 1, Len(s))

\* Over its bytes the journal keeps its newest entry alone, and what was there
\* when that one does not fit either. A journal that does not parse is taken
\* for an empty one, as one that could not be read is.
AppendResearchJournal(prev, run) ==
    LET entries == NewestOf(Append(prev, run), JournalEntries)
    IN IF Len(entries) <= JournalBytes THEN entries
       ELSE IF JournalBytes > 0 THEN <<run>> ELSE prev
=============================================================================
