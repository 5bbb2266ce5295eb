----------------------------- MODULE MCReviewClaim -----------------------------
(***************************************************************************)
(* ReviewClaim on small instances: which sweeper runs in which pod, and    *)
(* the interchangeable names.                                              *)
(***************************************************************************)
EXTENDS ReviewClaim, FiniteSets, TLC

CONSTANTS s1, s2, w1, w2

PodOfOne == s1 :> w1
PodOfTwo == (s1 :> w1) @@ (s2 :> w2)

InPlay ==
  {h \in Head : \/ att[h].exists \/ stamped[h] # "none"
                \/ \E s \in Sweeper : h \in {op[s].head, op[s].target}
                \/ \E j \in Job : jobs[j].head = h}

\* Bound of the overlapping run: before the horizon, and with a second and a
\* third head only as long as automatic arms supersede each other's claims.
OneHeadOrArmsOnly ==
  /\ \A h \in Head : att[h].clock # "old"
  /\ \/ Cardinality(InPlay) <= 1
     \/ /\ \A s \in Sweeper : /\ op[s].pc # "dispLock"
                              /\ op[s].reason \in {"", "superseded"}
                              /\ ~op[s].human
        /\ \A j \in Job : jobs[j].st = "none"
        /\ \A h \in Head : /\ att[h].released \/ att[h].reason = ""
                           /\ att[h].reason \in {"", "superseded"}
                           /\ stamped[h] = "none" /\ ~att[h].dispatched

\* Bound of the sequential run: of two pull requests, two heads and a Job, at
\* most two are in play together.
TwoOfThree ==
  \/ \A j \in Job : jobs[j].st = "none"
  \/ \A g, h \in Head : att[g].exists /\ att[h].exists => g = h
  \/ Cardinality(({att[h].pr : h \in Head} \cup {op[s].pr : s \in Sweeper})
                   \ {NoPR}) <= 1

Names == Permutations(PR) \cup Permutations(Job) \cup Permutations(Head)
================================================================================
