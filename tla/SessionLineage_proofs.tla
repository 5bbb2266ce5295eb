------------------------ MODULE SessionLineage_proofs ------------------------
(* For any runs, workflows, pull requests and agent nodes: an agent's        *)
(* lineage holds no transcript but its own, its component is what the run's  *)
(* link left, research is lost only to a janitor, an unmounted path or a walk *)
(* that passes it over, and the trace grows by whole rounds.                 *)
EXTENDS SessionLineage, TLAPS

(* What the steps below take for granted of the records.                     *)
Shape ==
  /\ DOMAIN run = Run /\ DOMAIN lin = Lineage
  /\ \A r \in Run : {"pc", "lineage", "spawns"} \subseteq DOMAIN run[r]
  /\ \A l \in Lineage : "transcripts" \in DOMAIN lin[l]

(* Runs that are under way have a lineage each (the review claim), and the   *)
(* spawns of a run are numbered.                                             *)
Apart ==
  /\ \A r \in Run : run[r].lineage \in Lineage /\ run[r].spawns \in Nat
  /\ \A q, r \in Run : q # r /\ Active(q) /\ Active(r) => run[q].lineage # run[r].lineage

(* Between two agents a lineage is empty, and from a spawn to its upload it  *)
(* holds that spawn's transcript or none.                                    *)
CleanOf(r) ==
  /\ At(r, "spawn") => lin[run[r].lineage].transcripts = {}
  /\ run[r].pc \in {"agent", "publish", "save"}
       => lin[run[r].lineage].transcripts \subseteq {Current(r)}

IInv == Shape /\ Apart /\ \A r \in Run : CleanOf(r)

LEMMA InitIInv == Init => IInv
<1> SUFFICES ASSUME Init PROVE IInv
  OBVIOUS
<1>1. ASSUME NEW r \in Run
      PROVE  /\ {"pc", "lineage", "spawns"} \subseteq DOMAIN run[r]
             /\ run[r].pc = "idle" /\ run[r].lineage \in Lineage /\ run[r].spawns \in Nat
  BY ConstantsAssumption DEF Init, Idle
<1>2. \A l \in Lineage : "transcripts" \in DOMAIN lin[l]
  BY DEF Init, NoDirectory
<1> QED  BY <1>1, <1>2 DEF Init, IInv, Shape, Apart, CleanOf, Active, At

(* A step of one run: the others stay, and no lineage but that of a run      *)
(* under way gains a transcript.                                             *)
LEMMA RunKeeps ==
  ASSUME IInv, NEW r \in Run,
         DOMAIN run' = Run, {"pc", "lineage", "spawns"} \subseteq DOMAIN run'[r],
         \A q \in Run \ {r} : run'[q] = run[q],
         DOMAIN lin' = Lineage, \A l \in Lineage : "transcripts" \in DOMAIN lin'[l],
         run'[r].lineage \in Lineage, run'[r].spawns \in Nat,
         Active(r)' => \A q \in Run \ {r} : Active(q) => run[q].lineage # run'[r].lineage,
         \A l \in Lineage : \/ lin'[l].transcripts \subseteq lin[l].transcripts
                            \/ Active(r) /\ l = run[r].lineage,
         CleanOf(r)'
  PROVE  IInv'
<1>1. Shape'
  BY DEF IInv, Shape
<1>2. Apart'
  BY DEF IInv, Apart, Active
<1>3. ASSUME NEW q \in Run \ {r} PROVE CleanOf(q)'
  <2>1. CASE Active(q)
    <3>1. run[q].lineage \in Lineage /\ ~(Active(r) /\ run[q].lineage = run[r].lineage)
      BY <2>1 DEF IInv, Apart
    <3>2. lin'[run[q].lineage].transcripts \subseteq lin[run[q].lineage].transcripts
      BY <3>1
    <3> QED  BY <3>2 DEF IInv, CleanOf, At, Current
  <2>2. CASE ~Active(q)
    BY <2>2 DEF CleanOf, Active, At
  <2> QED  BY <2>1, <2>2
<1> QED  BY <1>1, <1>2, <1>3 DEF IInv

(* The step of a run that stays in its lineage.                              *)
LEMMA StayKeeps ==
  ASSUME IInv, NEW r \in Run, Active(r),
         DOMAIN run' = Run, {"pc", "lineage", "spawns"} \subseteq DOMAIN run'[r],
         \A q \in Run \ {r} : run'[q] = run[q],
         run'[r].lineage = run[r].lineage, run'[r].spawns \in Nat,
         DOMAIN lin' = Lineage, \A l \in Lineage : "transcripts" \in DOMAIN lin'[l],
         \A l \in Lineage : \/ lin'[l].transcripts \subseteq lin[l].transcripts
                            \/ l = run[r].lineage,
         CleanOf(r)'
  PROVE  IInv'
<1>1. run'[r].lineage \in Lineage
  BY DEF IInv, Apart
<1>2. \A q \in Run \ {r} : Active(q) => run[q].lineage # run'[r].lineage
  BY DEF IInv, Apart
<1> QED  BY <1>1, <1>2, RunKeeps

(* The step of a run that only goes on to the next point, where it has no    *)
(* agent.                                                                    *)
LEMMA GotoKeeps ==
  ASSUME IInv, NEW r \in Run, Active(r), NEW pc, Goto(r, pc),
         DOMAIN lin' = Lineage, \A l \in Lineage : "transcripts" \in DOMAIN lin'[l],
         \A l \in Lineage : lin'[l].transcripts \subseteq lin[l].transcripts,
         pc \in {"spawn", "agent", "publish", "save"} => CleanOf(r)'
  PROVE  IInv'
<1>1. DOMAIN run = Run /\ {"pc", "lineage", "spawns"} \subseteq DOMAIN run[r]
  BY DEF IInv, Shape
<1>2. /\ DOMAIN run' = Run /\ {"pc", "lineage", "spawns"} \subseteq DOMAIN run'[r]
      /\ \A q \in Run \ {r} : run'[q] = run[q]
      /\ run'[r].pc = pc /\ run'[r].lineage = run[r].lineage /\ run'[r].spawns = run[r].spawns
  BY <1>1 DEF Goto
<1>3. CleanOf(r)'
  BY <1>2 DEF CleanOf, At
<1>4. run'[r].spawns \in Nat
  BY <1>2 DEF IInv, Apart
<1> QED  BY <1>2, <1>3, <1>4, StayKeeps

LEMMA LinKept ==
  ASSUME IInv, NEW l, NEW d, "transcripts" \in DOMAIN d, lin' = [lin EXCEPT ![l] = d],
         l \in Lineage => d.transcripts \subseteq lin[l].transcripts
  PROVE  /\ DOMAIN lin' = Lineage /\ \A k \in Lineage : "transcripts" \in DOMAIN lin'[k]
         /\ \A k \in Lineage : lin'[k].transcripts \subseteq lin[k].transcripts
  BY DEF IInv, Shape

(* Another field of a directory changes.                                     *)
LEMMA FieldsOnly ==
  ASSUME IInv, NEW l \in Lineage
  PROVE  /\ \A v : LET d == [lin[l] EXCEPT !.there = v]
                   IN "transcripts" \in DOMAIN d /\ d.transcripts = lin[l].transcripts
         /\ \A v : LET d == [lin[l] EXCEPT !.comp = v]
                   IN "transcripts" \in DOMAIN d /\ d.transcripts = lin[l].transcripts
         /\ \A v : LET d == [lin[l] EXCEPT !.quiet = v]
                   IN "transcripts" \in DOMAIN d /\ d.transcripts = lin[l].transcripts
<1>1. "transcripts" \in DOMAIN lin[l]
  BY DEF IInv, Shape
<1> QED  BY <1>1

LEMMA SameLin ==
  ASSUME IInv, UNCHANGED lin
  PROVE  /\ DOMAIN lin' = Lineage /\ \A k \in Lineage : "transcripts" \in DOMAIN lin'[k]
         /\ \A k \in Lineage : lin'[k].transcripts \subseteq lin[k].transcripts
  BY DEF IInv, Shape

(* The steps of a run before its first agent.                                *)
LEMMA OpeningKeeps ==
  ASSUME IInv, NEW r \in Run
  PROVE  /\ \A l \in Lineage, m \in Mount : Start(r, l, m) => IInv'
         /\ \A p \in PR : JanitorLook(r, p) => IInv'
         /\ JanitorRemove(r) => IInv'
         /\ JanitorDone(r) => IInv'
         /\ ResolveSession(r) => IInv'
<1>0. DOMAIN run = Run /\ {"pc", "lineage", "spawns"} \subseteq DOMAIN run[r]
      /\ run[r].lineage \in Lineage /\ run[r].spawns \in Nat
  BY DEF IInv, Shape, Apart
<1>1. ASSUME NEW l \in Lineage, NEW m \in Mount, Start(r, l, m) PROVE IInv'
  <2>1. /\ DOMAIN run' = Run /\ {"pc", "lineage", "spawns"} \subseteq DOMAIN run'[r]
        /\ \A q \in Run \ {r} : run'[q] = run[q]
        /\ run'[r].pc = "janitor" /\ run'[r].lineage = l /\ run'[r].spawns = 0
    BY <1>0, <1>1 DEF Start, Idle
  <2>2. \A q \in Run : Active(q) => run[q].lineage # l
    BY <1>1 DEF Start
  <2>3. UNCHANGED lin
    BY <1>1 DEF Start
  <2>4. CleanOf(r)'
    BY <2>1 DEF CleanOf, At
  <2>5. run'[r].spawns \in Nat
    BY <2>1
  <2> QED  BY <2>1, <2>2, <2>3, <2>4, <2>5, SameLin, RunKeeps
<1>2. ASSUME NEW p \in PR, JanitorLook(r, p) PROVE IInv'
  <2>1. /\ DOMAIN run' = Run /\ {"pc", "lineage", "spawns"} \subseteq DOMAIN run'[r]
        /\ \A q \in Run \ {r} : run'[q] = run[q]
        /\ run'[r].pc \in {"janitor", "remove"} /\ run'[r].lineage = run[r].lineage
        /\ run'[r].spawns = run[r].spawns
    <3>1. CASE Expired(lin[<<run[r].lineage[1], p>>])
      BY <1>0, <1>2, <3>1 DEF JanitorLook
    <3>2. CASE ~Expired(lin[<<run[r].lineage[1], p>>])
      BY <1>0, <1>2, <3>2 DEF JanitorLook, At
    <3> QED  BY <3>1, <3>2
  <2>2. UNCHANGED lin /\ Active(r)
    BY <1>2 DEF JanitorLook, Active, At
  <2>3. CleanOf(r)'
    BY <2>1 DEF CleanOf, At
  <2> QED  BY <1>0, <2>1, <2>2, <2>3, SameLin, StayKeeps
<1>3. ASSUME JanitorRemove(r) PROVE IInv'
  <2>1. /\ DOMAIN run' = Run /\ {"pc", "lineage", "spawns"} \subseteq DOMAIN run'[r]
        /\ \A q \in Run \ {r} : run'[q] = run[q]
        /\ run'[r].pc = "janitor" /\ run'[r].lineage = run[r].lineage
        /\ run'[r].spawns = run[r].spawns
    BY <1>0, <1>3 DEF JanitorRemove
  <2>2. PICK l : lin' = [lin EXCEPT ![l] = NoDirectory]
    BY <1>3 DEF JanitorRemove
  <2>3. "transcripts" \in DOMAIN NoDirectory /\ NoDirectory.transcripts = {}
    BY DEF NoDirectory
  <2>4. CleanOf(r)' /\ Active(r)
    BY <1>3, <2>1 DEF JanitorRemove, CleanOf, Active, At
  <2>5. /\ DOMAIN lin' = Lineage /\ \A k \in Lineage : "transcripts" \in DOMAIN lin'[k]
        /\ \A k \in Lineage : lin'[k].transcripts \subseteq lin[k].transcripts
    BY <2>2, <2>3, LinKept
  <2> QED  BY <1>0, <2>1, <2>4, <2>5, StayKeeps
<1>4. ASSUME JanitorDone(r) PROVE IInv'
  <2>1. Goto(r, "resolve") /\ UNCHANGED lin /\ Active(r)
    BY <1>4 DEF JanitorDone, Active, At
  <2> QED  BY <2>1, SameLin, GotoKeeps
<1>5. ASSUME ResolveSession(r) PROVE IInv'
  <2>1. Goto(r, "link") /\ Active(r)
    BY <1>5 DEF ResolveSession, Active, At
  <2>2. /\ DOMAIN lin' = Lineage /\ \A k \in Lineage : "transcripts" \in DOMAIN lin'[k]
        /\ \A k \in Lineage : lin'[k].transcripts \subseteq lin[k].transcripts
    BY <1>0, <1>5, FieldsOnly, LinKept DEF ResolveSession
  <2> QED  BY <2>1, <2>2, GotoKeeps
<1> QED  BY <1>1, <1>2, <1>3, <1>4, <1>5

(* The link to the shared store and the carry: no transcript is touched.     *)
LEMMA LinkKeeps ==
  ASSUME IInv, NEW r \in Run
  PROVE  /\ \A stamp \in Stamp : LinkSharedStore(r, stamp) => IInv'
         /\ \A copied, skipped \in SUBSET lin[run[r].lineage].objects :
              MigrateManufactured(r, copied, skipped) => IInv'
         /\ \A stamp \in Stamp : \A made \in {"linked", "unlinked", "unrenamed"} :
              CreateLink(r, made, stamp) => IInv'
         /\ \A ok \in BOOLEAN : Fetch(r, ok) => IInv'
<1> DEFINE l == run[r].lineage
           d == lin[l]
<1>0. /\ DOMAIN run = Run /\ {"pc", "lineage", "spawns"} \subseteq DOMAIN run[r]
      /\ l \in Lineage /\ run[r].spawns \in Nat /\ "transcripts" \in DOMAIN d
      /\ DOMAIN lin = Lineage
  BY DEF IInv, Shape, Apart
<1>1. ASSUME NEW stamp
      PROVE  /\ "transcripts" \in DOMAIN stampFallback(d, stamp)
             /\ stampFallback(d, stamp).transcripts = d.transcripts
  <2>1. CASE d.comp = "link" \/ stamp = "refused"
    BY <1>0, <2>1 DEF stampFallback
  <2>2. CASE ~(d.comp = "link" \/ stamp = "refused")
    <3>1. PICK c, b : stampFallback(d, stamp) = [d EXCEPT !.there = TRUE, !.comp = c, !.quiet = b]
      BY <2>2 DEF stampFallback
    <3> QED  BY <1>0, <3>1
  <2> QED  BY <2>1, <2>2
<1>2. ASSUME NEW stamp \in Stamp, LinkSharedStore(r, stamp) PROVE IInv'
  <2>1. Active(r) /\ (Goto(r, "fetch") \/ Goto(r, "create"))
    BY <1>2 DEF LinkSharedStore, Active, At
  <2>2. \/ UNCHANGED lin
        \/ lin' = [lin EXCEPT ![l].comp = IF @ = "link" THEN "absent" ELSE @]
        \/ lin' = [lin EXCEPT ![l] = stampFallback(d, stamp)]
    BY <1>2 DEF LinkSharedStore
  <2>3. /\ DOMAIN lin' = Lineage /\ \A k \in Lineage : "transcripts" \in DOMAIN lin'[k]
        /\ \A k \in Lineage : lin'[k].transcripts \subseteq lin[k].transcripts
    <3>1. CASE UNCHANGED lin
      BY <3>1, SameLin
    <3>2. CASE lin' = [lin EXCEPT ![l].comp = IF @ = "link" THEN "absent" ELSE @]
      BY <1>0, <3>2, FieldsOnly, LinKept
    <3>3. CASE lin' = [lin EXCEPT ![l] = stampFallback(d, stamp)]
      BY <1>0, <1>1, <3>3, LinKept
    <3> QED  BY <2>2, <3>1, <3>2, <3>3
  <2> QED  BY <2>1, <2>3, GotoKeeps
<1>3. ASSUME NEW copied \in SUBSET d.objects, NEW skipped \in SUBSET d.objects,
             MigrateManufactured(r, copied, skipped)
      PROVE  IInv'
  <2>1. PICK pc \in {"fetch", "create"} :
          Goto(r, pc) \/ run' = [run EXCEPT ![r].pc = pc, ![r].skipped = skipped]
    BY <1>3 DEF MigrateManufactured
  <2>2. /\ DOMAIN run' = Run /\ {"pc", "lineage", "spawns"} \subseteq DOMAIN run'[r]
        /\ \A q \in Run \ {r} : run'[q] = run[q]
        /\ run'[r].pc = pc /\ run'[r].lineage = run[r].lineage
        /\ run'[r].spawns = run[r].spawns
    BY <1>0, <2>1 DEF Goto
  <2>3. \/ UNCHANGED lin
        \/ \E comp, objects : lin' = [lin EXCEPT ![l].comp = comp, ![l].objects = objects]
    BY <1>3 DEF MigrateManufactured
  <2>4. /\ DOMAIN lin' = Lineage /\ \A k \in Lineage : "transcripts" \in DOMAIN lin'[k]
        /\ \A k \in Lineage : lin'[k].transcripts \subseteq lin[k].transcripts
    <3>1. CASE UNCHANGED lin
      BY <3>1, SameLin
    <3>2. ASSUME NEW comp, NEW objects,
                 lin' = [lin EXCEPT ![l].comp = comp, ![l].objects = objects]
          PROVE  /\ DOMAIN lin' = Lineage /\ \A k \in Lineage : "transcripts" \in DOMAIN lin'[k]
                 /\ \A k \in Lineage : lin'[k].transcripts \subseteq lin[k].transcripts
      <4>1. /\ DOMAIN lin' = Lineage
            /\ \A k \in Lineage \ {l} : lin'[k] = lin[k]
            /\ lin'[l] = [[d EXCEPT !.comp = comp] EXCEPT !.objects = objects]
        BY <1>0, <3>2
      <4>2. "transcripts" \in DOMAIN lin'[l] /\ lin'[l].transcripts = d.transcripts
        BY <1>0, <4>1
      <4> QED  BY <4>1, <4>2 DEF IInv, Shape
    <3> QED  BY <2>3, <3>1, <3>2
  <2>5. Active(r) /\ CleanOf(r)'
    BY <1>3, <2>2 DEF MigrateManufactured, Active, At, CleanOf
  <2> QED  BY <1>0, <2>2, <2>4, <2>5, StayKeeps
<1>4. ASSUME NEW stamp \in Stamp, NEW made \in {"linked", "unlinked", "unrenamed"},
             CreateLink(r, made, stamp)
      PROVE  IInv'
  <2>1. Active(r) /\ Goto(r, "fetch")
    BY <1>4 DEF CreateLink, Active, At
  <2>2. \/ UNCHANGED lin
        \/ lin' = [lin EXCEPT ![l].comp = "link"]
        \/ lin' = [lin EXCEPT ![l] = stampFallback(d, stamp)]
        \/ lin' = [lin EXCEPT ![l] = d]
    BY <1>4 DEF CreateLink
  <2>3. /\ DOMAIN lin' = Lineage /\ \A k \in Lineage : "transcripts" \in DOMAIN lin'[k]
        /\ \A k \in Lineage : lin'[k].transcripts \subseteq lin[k].transcripts
    BY <1>0, <1>1, <2>2, FieldsOnly, LinKept, SameLin
  <2> QED  BY <2>1, <2>3, GotoKeeps
<1>5. ASSUME NEW ok \in BOOLEAN, Fetch(r, ok) PROVE IInv'
  <2>1. /\ DOMAIN run' = Run /\ {"pc", "lineage", "spawns"} \subseteq DOMAIN run'[r]
        /\ \A q \in Run \ {r} : run'[q] = run[q]
        /\ run'[r].pc = "reset" /\ run'[r].lineage = run[r].lineage
        /\ run'[r].spawns = run[r].spawns
    BY <1>0, <1>5 DEF Fetch
  <2>2. UNCHANGED lin /\ Active(r)
    BY <1>5 DEF Fetch, Active, At
  <2>3. CleanOf(r)'
    BY <2>1 DEF CleanOf, At
  <2> QED  BY <1>0, <2>1, <2>2, <2>3, SameLin, StayKeeps
<1> QED  BY <1>2, <1>3, <1>4, <1>5

(* The agents of a run: the reset empties its lineage, a spawn adds nothing, *)
(* pi writes under the name of its own spawn, and the upload removes that    *)
(* file, on success and failure.                                             *)
LEMMA AgentKeeps ==
  ASSUME IInv, NEW r \in Run
  PROVE  /\ Reset(r) => IInv'
         /\ Spawn(r) => IInv'
         /\ WriteTranscript(r) => IInv'
         /\ WriteResearch(r) => IInv'
         /\ AgentEnds(r) => IInv'
<1> DEFINE l == run[r].lineage
           d == lin[l]
<1>0. /\ DOMAIN run = Run /\ {"pc", "lineage", "spawns"} \subseteq DOMAIN run[r]
      /\ l \in Lineage /\ run[r].spawns \in Nat /\ "transcripts" \in DOMAIN d
      /\ DOMAIN lin = Lineage /\ CleanOf(r)
  BY DEF IInv, Shape, Apart
<1>1. ASSUME Reset(r) PROVE IInv'
  <2>1. Active(r) /\ Goto(r, "spawn") /\ lin' = [lin EXCEPT ![l] = ResetLineage(d)]
    BY <1>1 DEF Reset, Active, At
  <2>2. "transcripts" \in DOMAIN ResetLineage(d) /\ ResetLineage(d).transcripts = {}
    BY <1>0 DEF ResetLineage
  <2>3. /\ DOMAIN lin' = Lineage /\ \A k \in Lineage : "transcripts" \in DOMAIN lin'[k]
        /\ \A k \in Lineage : lin'[k].transcripts \subseteq lin[k].transcripts
    BY <2>1, <2>2, LinKept
  <2>4. lin'[l].transcripts = {}
    BY <1>0, <2>1, <2>2
  <2>5. run'[r].lineage = l
    BY <1>0, <2>1 DEF Goto
  <2>6. CleanOf(r)'
    BY <2>4, <2>5 DEF CleanOf
  <2> QED  BY <2>1, <2>3, <2>6, GotoKeeps
<1>2. ASSUME Spawn(r) PROVE IInv'
  <2>1. /\ DOMAIN run' = Run /\ {"pc", "lineage", "spawns"} \subseteq DOMAIN run'[r]
        /\ \A q \in Run \ {r} : run'[q] = run[q]
        /\ run'[r].lineage = run[r].lineage /\ run'[r].spawns = run[r].spawns + 1
    BY <1>0, <1>2 DEF Spawn
  <2>2. Active(r) /\ At(r, "spawn") /\ lin' = [lin EXCEPT ![l].there = TRUE]
    BY <1>2 DEF Spawn, Active, At
  <2>3. /\ DOMAIN lin' = Lineage /\ \A k \in Lineage : "transcripts" \in DOMAIN lin'[k]
        /\ \A k \in Lineage : lin'[k].transcripts \subseteq lin[k].transcripts
    BY <1>0, <2>2, FieldsOnly, LinKept
  <2>4. lin'[l].transcripts = {}
    BY <1>0, <2>2, <2>3 DEF CleanOf
  <2>5. CleanOf(r)'
    BY <2>1, <2>4 DEF CleanOf
  <2>6. run'[r].spawns \in Nat
    BY <1>0, <2>1
  <2> QED  BY <2>1, <2>2, <2>3, <2>5, <2>6, StayKeeps
<1>3. ASSUME WriteTranscript(r) PROVE IInv'
  <2>1. Active(r) /\ run[r].pc = "agent" /\ UNCHANGED run
    BY <1>3 DEF WriteTranscript, Active, At
  <2>2. lin' = [lin EXCEPT ![l].transcripts = @ \cup {Current(r)}, ![l].quiet = FALSE]
    BY <1>3 DEF WriteTranscript
  <2>3. /\ DOMAIN lin' = Lineage
        /\ \A k \in Lineage \ {l} : lin'[k] = lin[k]
        /\ lin'[l] = [[d EXCEPT !.transcripts = d.transcripts \cup {Current(r)}] EXCEPT !.quiet = FALSE]
    BY <1>0, <2>2
  <2>4. "transcripts" \in DOMAIN lin'[l] /\ lin'[l].transcripts = d.transcripts \cup {Current(r)}
    BY <1>0, <2>3
  <2>5. CleanOf(r)'
    BY <1>0, <2>1, <2>4 DEF CleanOf, At, Current
  <2>6. /\ \A k \in Lineage : "transcripts" \in DOMAIN lin'[k]
        /\ \A k \in Lineage \ {l} : lin'[k].transcripts \subseteq lin[k].transcripts
    BY <2>3, <2>4 DEF IInv, Shape
  <2> QED  BY <1>0, <2>1, <2>3, <2>5, <2>6, StayKeeps
<1>4. ASSUME WriteResearch(r) PROVE IInv'
  <2>1. Active(r) /\ run[r].pc = "agent" /\ UNCHANGED run
    BY <1>4 DEF WriteResearch, Active, At
  <2>2. \/ UNCHANGED lin
        \/ lin' = [lin EXCEPT ![l] = [d EXCEPT
                     !.there = TRUE, !.objects = @ \cup {Current(r)}, !.quiet = FALSE,
                     !.comp = IF @ \in {"absent", "empty"} THEN "legacy" ELSE @]]
    <3>1. CASE d.comp = "link"
      BY <1>4, <3>1 DEF WriteResearch
    <3>2. CASE d.comp # "link"
      BY <1>4, <3>2, Zenon DEF WriteResearch
    <3> QED  BY <3>1, <3>2
  <2>3. /\ DOMAIN lin' = Lineage /\ \A k \in Lineage : "transcripts" \in DOMAIN lin'[k]
        /\ \A k \in Lineage : lin'[k].transcripts \subseteq lin[k].transcripts
    <3>1. CASE UNCHANGED lin
      BY <3>1, SameLin
    <3>2. CASE lin' = [lin EXCEPT ![l] = [d EXCEPT
                     !.there = TRUE, !.objects = @ \cup {Current(r)}, !.quiet = FALSE,
                     !.comp = IF @ \in {"absent", "empty"} THEN "legacy" ELSE @]]
      <4> DEFINE e == [d EXCEPT
                     !.there = TRUE, !.objects = @ \cup {Current(r)}, !.quiet = FALSE,
                     !.comp = IF @ \in {"absent", "empty"} THEN "legacy" ELSE @]
      <4>1. "transcripts" \in DOMAIN e /\ e.transcripts = d.transcripts
        BY <1>0
      <4> QED  BY <3>2, <4>1, LinKept
    <3> QED  BY <2>2, <3>1, <3>2
  <2>4. CleanOf(r)'
    BY <1>0, <2>1, <2>3 DEF CleanOf, At, Current
  <2> QED  BY <1>0, <2>1, <2>3, <2>4, StayKeeps
<1>5. ASSUME AgentEnds(r) PROVE IInv'
  <2>1. Active(r) /\ run[r].pc = "agent" /\ UNCHANGED lin
    BY <1>5 DEF AgentEnds, Active, At
  <2>2. PICK pc \in {"spawn", "publish"} : Goto(r, pc) /\ (pc = "spawn" => d.transcripts = {})
    <3>1. CASE d.transcripts = {}
      BY <1>5, <3>1 DEF AgentEnds
    <3>2. CASE d.transcripts # {}
      BY <1>5, <3>2 DEF AgentEnds
    <3> QED  BY <3>1, <3>2
  <2>3. run'[r].pc = pc /\ run'[r].lineage = l /\ run'[r].spawns = run[r].spawns
    BY <1>0, <2>2 DEF Goto
  <2>4. CleanOf(r)'
    BY <1>0, <2>1, <2>2, <2>3 DEF CleanOf, At, Current
  <2> QED  BY <2>1, <2>2, <2>4, SameLin, GotoKeeps
<1> QED  BY <1>1, <1>2, <1>3, <1>4, <1>5

LEMMA ClosingKeeps ==
  ASSUME IInv, NEW r \in Run
  PROVE  /\ Publish(r) => IInv'
         /\ PublishFails(r) => IInv'
         /\ \A uploaded \in BOOLEAN : SavePiSession(r, uploaded) => IInv'
         /\ Over(r) => IInv'
<1> DEFINE l == run[r].lineage
           d == lin[l]
<1>0. /\ DOMAIN run = Run /\ {"pc", "lineage", "spawns"} \subseteq DOMAIN run[r]
      /\ l \in Lineage /\ run[r].spawns \in Nat /\ "transcripts" \in DOMAIN d
      /\ DOMAIN lin = Lineage /\ CleanOf(r)
  BY DEF IInv, Shape, Apart
<1>1. ASSUME run[r].pc = "publish", Goto(r, "save"), UNCHANGED lin PROVE IInv'
  <2>1. run'[r].pc = "save" /\ run'[r].lineage = l /\ run'[r].spawns = run[r].spawns
    BY <1>0, <1>1 DEF Goto
  <2>2. CleanOf(r)' /\ Active(r)
    BY <1>0, <1>1, <2>1 DEF CleanOf, At, Current, Active
  <2> QED  BY <1>1, <2>2, SameLin, GotoKeeps
<1>2. ASSUME Publish(r) PROVE IInv'
  BY <1>1, <1>2 DEF Publish, At
<1>3. ASSUME PublishFails(r) PROVE IInv'
  BY <1>1, <1>3 DEF PublishFails, At
<1>4. ASSUME NEW uploaded \in BOOLEAN, SavePiSession(r, uploaded) PROVE IInv'
  <2>1. /\ Active(r) /\ run[r].pc = "save" /\ Goto(r, "spawn")
        /\ lin' = [lin EXCEPT ![l] = Uploaded(d, uploaded)]
    BY <1>4 DEF SavePiSession, Active, At
  <2>2. d.transcripts \subseteq {<<r, run[r].spawns>>}
    BY <1>0, <2>1 DEF CleanOf, Current
  <2>3. \A t, u \in d.transcripts : u[2] <= t[2]
    <3>1. ASSUME NEW t \in d.transcripts, NEW u \in d.transcripts PROVE u[2] <= t[2]
      <4>1. t[2] = run[r].spawns /\ u[2] = run[r].spawns
        BY <2>2
      <4> QED  BY <1>0, <4>1
    <3> QED  BY <3>1
  <2>4. d.transcripts \ FindLineageSession(d) = {}
    BY <2>3 DEF FindLineageSession
  <2>5. "transcripts" \in DOMAIN Uploaded(d, uploaded) /\ Uploaded(d, uploaded).transcripts = {}
    BY <1>0, <2>4 DEF Uploaded
  <2>6. /\ DOMAIN lin' = Lineage /\ \A k \in Lineage : "transcripts" \in DOMAIN lin'[k]
        /\ \A k \in Lineage : lin'[k].transcripts \subseteq lin[k].transcripts
    BY <2>1, <2>5, LinKept
  <2>7. lin'[l].transcripts = {} /\ run'[r].lineage = l
    BY <1>0, <2>1, <2>5 DEF Goto
  <2>8. CleanOf(r)'
    BY <2>7 DEF CleanOf
  <2> QED  BY <2>1, <2>6, <2>8, GotoKeeps
<1>5. ASSUME Over(r) PROVE IInv'
  <2>1. /\ DOMAIN run' = Run /\ {"pc", "lineage", "spawns"} \subseteq DOMAIN run'[r]
        /\ \A q \in Run \ {r} : run'[q] = run[q]
        /\ run'[r].pc = "over" /\ run'[r].lineage \in Lineage /\ run'[r].spawns = 0
    BY <1>0, <1>5, ConstantsAssumption DEF Over, Idle
  <2>2. UNCHANGED lin
    BY <1>5 DEF Over
  <2>3. CleanOf(r)' /\ ~Active(r)'
    BY <2>1 DEF CleanOf, At, Active
  <2>4. run'[r].spawns \in Nat
    BY <2>1
  <2> QED  BY <2>1, <2>2, <2>3, <2>4, SameLin, RunKeeps
<1> QED  BY <1>2, <1>3, <1>4, <1>5

LEMMA QuietKeeps ==
  ASSUME IInv, NEW l \in Lineage, GoesQuiet(l)
  PROVE  IInv'
<1>1. /\ DOMAIN lin' = Lineage /\ \A k \in Lineage : "transcripts" \in DOMAIN lin'[k]
      /\ \A k \in Lineage : lin'[k].transcripts \subseteq lin[k].transcripts
  BY FieldsOnly, LinKept DEF GoesQuiet
<1>2. UNCHANGED run
  BY DEF GoesQuiet
<1>3. ASSUME NEW r \in Run PROVE CleanOf(r)'
  <2>1. CleanOf(r) /\ run[r].lineage \in Lineage
    BY DEF IInv, Apart
  <2> QED  BY <1>1, <1>2, <2>1 DEF CleanOf, At, Current
<1> QED  BY <1>1, <1>2, <1>3 DEF IInv, Shape, Apart, Active

LEMMA StepIInv == IInv /\ [Next]_vars => IInv'
<1> SUFFICES ASSUME IInv, [Next]_vars PROVE IInv'
  OBVIOUS
<1>1. CASE UNCHANGED vars
  BY <1>1 DEF vars, IInv, Shape, Apart, CleanOf, Active, At, Current
<1> QED
  BY <1>1, OpeningKeeps, LinkKeeps, AgentKeeps, ClosingKeeps, QuietKeeps DEF Next

(* For any runs of any workflows on any pull requests, killed wherever they  *)
(* may be and pruned by any janitor: while an agent works its lineage holds   *)
(* no transcript but its own (ResetLineage, SavePiSession).                  *)
THEOREM RoundsStartFresh == Spec => []FreshSession
<1>1. IInv => FreshSession
  BY DEF IInv, CleanOf, FreshSession, At
<1> QED  BY <1>1, InitIInv, StepIInv, PTL DEF Spec

(*****************************************************************************)
(* The shape of directories, runs and actors, for any constants.             *)
(*****************************************************************************)

(* A name a transcript or an object may carry, and an entry of a carry.      *)
Spawned == Run \X Nat
Entry == Spawned \cup {LegacyRound}

DirectoryType == [there : BOOLEAN, transcripts : SUBSET Spawned, comp : Component,
                  objects : SUBSET Spawned, quiet : BOOLEAN]
ActorType == [carry : Seq(Entry), session : BOOLEAN]
RunType == [pc : Pc, lineage : Lineage, mount : Mount \cup {"none"}, left : SUBSET PR,
            doomed : SUBSET PR, prior : Seq(Entry), known : BOOLEAN, spawns : Nat,
            skipped : SUBSET Spawned]

Typed ==
  /\ lin \in [Lineage -> DirectoryType]
  /\ actor \in [PR -> ActorType]
  /\ run \in [Run -> RunType]

(* The newest of two lengths is one of them.                                 *)
LEMMA MinOfTwo ==
  ASSUME NEW a \in Nat, NEW b \in Nat
  PROVE  Min({a, b}) \in Nat /\ Min({a, b}) <= a /\ Min({a, b}) <= b
<1>1. \E x \in {a, b} : \A y \in {a, b} : x <= y
  <2>1. CASE a <= b
    BY <2>1
  <2>2. CASE b <= a
    BY <2>2
  <2> QED  BY <2>1, <2>2
<1> QED  BY <1>1 DEF Min

(* What an extracted carry is made of: the round, then the rest.             *)
LEMMA CarryParts ==
  ASSUME NEW t \in Entry, NEW prior \in Seq(Entry)
  PROVE  LET rest == SubSeq(prior, 1, Min({Len(prior), PriorCap}))
         IN  /\ ExtractCarry(t, prior) = <<t>> \o rest
             /\ rest \in Seq(Entry)
             /\ ExtractCarry(t, prior) \in Seq(Entry)
             /\ ExtractCarry(t, prior)[1] = t
             /\ Tail(ExtractCarry(t, prior)) = rest
<1> DEFINE n == Min({Len(prior), PriorCap})
           rest == SubSeq(prior, 1, n)
<1>1. Len(prior) \in Nat /\ PriorCap \in Nat
  BY ConstantsAssumption
<1>2. n \in Nat /\ n <= Len(prior)
  BY <1>1, MinOfTwo
<1>3. ExtractCarry(t, prior) = <<t>> \o rest
  BY DEF ExtractCarry
<1> HIDE DEF n
<1>4. rest \in Seq(Entry)
  BY <1>1, <1>2
<1> HIDE DEF rest
<1>5. /\ <<t>> \o rest \in Seq(Entry)
      /\ (<<t>> \o rest)[1] = t
      /\ Tail(<<t>> \o rest) = rest
  BY <1>4
<1> QED  BY <1>3, <1>4, <1>5 DEF rest, n

LEMMA PriorType ==
  ASSUME NEW a \in ActorType
  PROVE  PriorCarry(a) \in Seq(Entry)
<1>1. a.carry \in Seq(Entry) /\ <<>> \in Seq(Entry) /\ LegacyRound \in Entry
  BY DEF ActorType, Entry
<1>2. ExtractCarry(LegacyRound, <<>>) \in Seq(Entry)
  BY <1>1, CarryParts
<1> QED  BY <1>1, <1>2 DEF PriorCarry

LEMMA IdleType == Idle \in RunType
<1>1. (CHOOSE l \in Lineage : TRUE) \in Lineage
  BY ConstantsAssumption
<1> DEFINE l0 == CHOOSE l \in Lineage : TRUE
<1>2. Idle = [pc |-> "idle", lineage |-> l0, mount |-> "none", left |-> {},
              doomed |-> {}, prior |-> <<>>, known |-> FALSE, spawns |-> 0, skipped |-> {}]
  BY DEF Idle
<1>3. <<>> \in Seq(Entry) /\ 0 \in Nat /\ "idle" \in Pc
  BY DEF Pc
<1> HIDE DEF l0
<1> QED  BY <1>1, <1>2, <1>3 DEF RunType, l0

LEMMA NoDirectoryType == NoDirectory \in DirectoryType
  BY DEF NoDirectory, DirectoryType, Component

(* One directory is replaced, or one field of it.                            *)
LEMMA DirUpdate ==
  ASSUME NEW d \in DirectoryType
  PROVE  /\ \A b \in BOOLEAN : [d EXCEPT !.there = b] \in DirectoryType
         /\ \A b \in BOOLEAN : [d EXCEPT !.quiet = b] \in DirectoryType
         /\ \A c \in Component : [d EXCEPT !.comp = c] \in DirectoryType
         /\ \A T \in SUBSET Spawned : [d EXCEPT !.transcripts = T] \in DirectoryType
         /\ \A T \in SUBSET Spawned : [d EXCEPT !.objects = T] \in DirectoryType
         /\ \A stamp : stampFallback(d, stamp) \in DirectoryType
<1>1. {"marked", "empty"} \subseteq Component /\ d.comp \in Component /\ d.quiet \in BOOLEAN
  BY DEF Component, DirectoryType
<1>2. ASSUME NEW stamp PROVE stampFallback(d, stamp) \in DirectoryType
  <2> DEFINE c == IF stamp = "done" THEN "marked" ELSE IF d.comp = "absent" THEN "empty" ELSE d.comp
             b == IF stamp = "done" THEN FALSE ELSE d.quiet
  <2>1. c \in Component /\ b \in BOOLEAN
    BY <1>1
  <2>2. stampFallback(d, stamp) = d
          \/ stampFallback(d, stamp) = [d EXCEPT !.there = TRUE, !.comp = c, !.quiet = b]
    BY DEF stampFallback
  <2> HIDE DEF c, b
  <2> QED  BY <2>1, <2>2 DEF DirectoryType
<1> QED  BY <1>1, <1>2 DEF DirectoryType

LEMMA RunUpdate ==
  ASSUME run \in [Run -> RunType], NEW r \in Run
  PROVE  /\ \A pc \in Pc : Goto(r, pc) => run' \in [Run -> RunType]
         /\ \A o \in RunType : run' = [run EXCEPT ![r] = o] => run' \in [Run -> RunType]
<1>1. ASSUME NEW pc \in Pc, Goto(r, pc) PROVE run' \in [Run -> RunType]
  <2>1. run' = [run EXCEPT ![r] = [run[r] EXCEPT !.pc = pc]]
    BY <1>1 DEF Goto
  <2>2. [run[r] EXCEPT !.pc = pc] \in RunType
    BY DEF RunType
  <2> QED  BY <2>1, <2>2
<1> QED  BY <1>1

LEMMA InitTyped == Init => Typed
<1> SUFFICES ASSUME Init PROVE Typed
  OBVIOUS
<1>1. [NoDirectory EXCEPT !.there = TRUE, !.comp = "legacy"] \in DirectoryType
  BY DEF NoDirectory, DirectoryType, Component
<1>2. lin \in [Lineage -> DirectoryType]
  BY <1>1, NoDirectoryType DEF Init
<1>3. NoLineage \in ActorType /\ [NoLineage EXCEPT !.session = TRUE] \in ActorType
  <2>1. <<>> \in Seq(Entry)
    OBVIOUS
  <2>2. NoLineage \in ActorType
    BY <2>1 DEF NoLineage, ActorType
  <2> QED  BY <2>1, <2>2 DEF ActorType
<1>4. actor \in [PR -> ActorType]
  BY <1>3 DEF Init
<1>5. run \in [Run -> RunType]
  BY IdleType DEF Init
<1> QED  BY <1>2, <1>4, <1>5 DEF Typed

(* The steps of a run keep the shape: before its agents ...                  *)
LEMMA OpeningTyped ==
  ASSUME Typed, NEW r \in Run
  PROVE  /\ \A l \in Lineage, m \in Mount : Start(r, l, m) => Typed'
         /\ \A p \in PR : JanitorLook(r, p) => Typed'
         /\ JanitorRemove(r) => Typed'
         /\ JanitorDone(r) => Typed'
         /\ ResolveSession(r) => Typed'
         /\ \A stamp \in Stamp : LinkSharedStore(r, stamp) => Typed'
         /\ \A copied, skipped \in SUBSET lin[run[r].lineage].objects :
              MigrateManufactured(r, copied, skipped) => Typed'
         /\ \A stamp \in Stamp : \A made \in {"linked", "unlinked", "unrenamed"} :
              CreateLink(r, made, stamp) => Typed'
         /\ \A ok \in BOOLEAN : Fetch(r, ok) => Typed'
<1> DEFINE L == run[r].lineage
           d == lin[L]
<1>0. /\ run[r] \in RunType /\ L \in Lineage /\ d \in DirectoryType
      /\ lin \in [Lineage -> DirectoryType] /\ actor \in [PR -> ActorType]
      /\ run \in [Run -> RunType]
  BY DEF Typed, RunType
<1>1. ASSUME NEW l \in Lineage, NEW m \in Mount, Start(r, l, m) PROVE Typed'
  <2> DEFINE left == {p \in PR : <<l[1], p>> \in Lineage /\ lin[<<l[1], p>>].there}
             o == [Idle EXCEPT !.pc = "janitor", !.lineage = l, !.mount = m, !.left = left]
  <2>1. left \in SUBSET PR /\ "janitor" \in Pc
    BY DEF Pc
  <2>2. run' = [run EXCEPT ![r] = o] /\ UNCHANGED <<lin, actor>>
    BY <1>1 DEF Start
  <2> HIDE DEF left
  <2>3. o \in RunType
    BY <2>1, IdleType DEF RunType
  <2> QED  BY <1>0, <2>2, <2>3, RunUpdate DEF Typed
<1>2. ASSUME NEW p \in PR, JanitorLook(r, p) PROVE Typed'
  <2>1. run[r].left \ {p} \in SUBSET PR /\ {p} \in SUBSET PR /\ "remove" \in Pc
    BY <1>0 DEF RunType, Pc
  <2>2. UNCHANGED <<lin, actor>>
    BY <1>2 DEF JanitorLook
  <2>3. \/ run' = [run EXCEPT ![r] = [run[r] EXCEPT !.pc = "remove", !.doomed = {p},
                                                   !.left = run[r].left \ {p}]]
        \/ run' = [run EXCEPT ![r] = [run[r] EXCEPT !.left = run[r].left \ {p}]]
    BY <1>0, <1>2 DEF JanitorLook
  <2>4. /\ [run[r] EXCEPT !.pc = "remove", !.doomed = {p}, !.left = run[r].left \ {p}] \in RunType
        /\ [run[r] EXCEPT !.left = run[r].left \ {p}] \in RunType
    BY <1>0, <2>1 DEF RunType
  <2> QED  BY <1>0, <2>2, <2>3, <2>4, RunUpdate DEF Typed
<1>3. ASSUME JanitorRemove(r) PROVE Typed'
  <2>1. PICK l : lin' = [lin EXCEPT ![l] = NoDirectory]
    BY <1>3 DEF JanitorRemove
  <2>2. run' = [run EXCEPT ![r] = [run[r] EXCEPT !.pc = "janitor", !.doomed = {}]] /\ UNCHANGED actor
    BY <1>0, <1>3 DEF JanitorRemove
  <2>3. [run[r] EXCEPT !.pc = "janitor", !.doomed = {}] \in RunType
    BY <1>0 DEF RunType, Pc
  <2> QED  BY <1>0, <2>1, <2>2, <2>3, NoDirectoryType, RunUpdate DEF Typed
<1>4. ASSUME JanitorDone(r) PROVE Typed'
  <2>1. "resolve" \in Pc
    BY DEF Pc
  <2> QED  BY <1>0, <1>4, <2>1, RunUpdate DEF JanitorDone, Typed
<1>5. ASSUME ResolveSession(r) PROVE Typed'
  <2>1. "link" \in Pc
    BY DEF Pc
  <2>2. lin' = [lin EXCEPT ![L] = [d EXCEPT !.there = TRUE]]
    BY <1>5 DEF ResolveSession
  <2> QED  BY <1>0, <1>5, <2>1, <2>2, RunUpdate, DirUpdate DEF ResolveSession, Typed
<1>c. {"absent", "link", "marked", "legacy", "empty"} \subseteq Component /\ d.comp \in Component
  BY <1>0 DEF Component, DirectoryType
<1>6. ASSUME NEW stamp \in Stamp, LinkSharedStore(r, stamp) PROVE Typed'
  <2>1. (Goto(r, "fetch") \/ Goto(r, "create")) /\ "fetch" \in Pc /\ "create" \in Pc
    BY <1>6 DEF LinkSharedStore, Pc
  <2>2. run' \in [Run -> RunType]
    BY <1>0, <2>1, RunUpdate
  <2>3. \/ UNCHANGED lin
        \/ lin' = [lin EXCEPT ![L].comp = IF @ = "link" THEN "absent" ELSE @]
        \/ lin' = [lin EXCEPT ![L] = stampFallback(d, stamp)]
    BY <1>6 DEF LinkSharedStore
  <2>5. lin' \in [Lineage -> DirectoryType]
    <3>1. CASE lin' = [lin EXCEPT ![L].comp = IF @ = "link" THEN "absent" ELSE @]
      <4> DEFINE c == IF d.comp = "link" THEN "absent" ELSE d.comp
      <4>1. lin' = [lin EXCEPT ![L] = [d EXCEPT !.comp = c]] /\ c \in Component
        BY <1>c, <3>1
      <4> HIDE DEF c
      <4> QED  BY <1>0, <4>1, DirUpdate
    <3>2. CASE lin' = [lin EXCEPT ![L] = stampFallback(d, stamp)]
      BY <1>0, <3>2, DirUpdate
    <3> QED  BY <1>0, <2>3, <3>1, <3>2
  <2> QED  BY <1>0, <1>6, <2>2, <2>5 DEF LinkSharedStore, Typed
<1>m. ASSUME NEW copied \in SUBSET d.objects, NEW skipped \in SUBSET d.objects,
             MigrateManufactured(r, copied, skipped)
      PROVE  Typed'
  <2>1. PICK pc \in {"fetch", "create"} :
          Goto(r, pc) \/ run' = [run EXCEPT ![r].pc = pc, ![r].skipped = skipped]
    BY <1>m DEF MigrateManufactured
  <2>2. d.objects \in SUBSET Spawned /\ skipped \in SUBSET Spawned /\ pc \in Pc
    BY <1>0 DEF DirectoryType, Pc
  <2>3. run' \in [Run -> RunType]
    <3>1. CASE Goto(r, pc)
      BY <1>0, <2>2, <3>1, RunUpdate
    <3>2. CASE run' = [run EXCEPT ![r].pc = pc, ![r].skipped = skipped]
      <4>1. run' = [run EXCEPT ![r] = [run[r] EXCEPT !.pc = pc, !.skipped = skipped]]
        BY <1>0, <3>2
      <4>2. [run[r] EXCEPT !.pc = pc, !.skipped = skipped] \in RunType
        BY <1>0, <2>2 DEF RunType
      <4> QED  BY <1>0, <4>1, <4>2, RunUpdate
    <3> QED  BY <2>1, <3>1, <3>2
  <2>4. \/ UNCHANGED lin
        \/ \E comp \in {"absent", "marked", "legacy", "empty"}, rest \in SUBSET d.objects :
             lin' = [lin EXCEPT ![L].comp = comp, ![L].objects = rest]
    BY <1>m DEF MigrateManufactured
  <2>5. lin' \in [Lineage -> DirectoryType]
    <3>1. ASSUME NEW comp \in {"absent", "marked", "legacy", "empty"}, NEW rest \in SUBSET d.objects,
                 lin' = [lin EXCEPT ![L].comp = comp, ![L].objects = rest]
          PROVE  lin' \in [Lineage -> DirectoryType]
      <4>1. lin' = [lin EXCEPT ![L] = [d EXCEPT !.comp = comp, !.objects = rest]]
        BY <1>0, <3>1
      <4>2. [d EXCEPT !.comp = comp, !.objects = rest] \in DirectoryType
        BY <1>0, <1>c, <2>2 DEF DirectoryType
      <4> QED  BY <1>0, <4>1, <4>2
    <3> QED  BY <1>0, <2>4, <3>1
  <2> QED  BY <1>0, <1>m, <2>3, <2>5 DEF MigrateManufactured, Typed
<1>7. ASSUME NEW stamp \in Stamp, NEW made \in {"linked", "unlinked", "unrenamed"},
             CreateLink(r, made, stamp)
      PROVE  Typed'
  <2>1. /\ Goto(r, "fetch") /\ UNCHANGED actor
        /\ \/ UNCHANGED lin
           \/ lin' = [lin EXCEPT ![L] = [d EXCEPT !.comp = "link"]]
           \/ lin' = [lin EXCEPT ![L] = stampFallback(d, stamp)]
           \/ lin' = [lin EXCEPT ![L] = d]
    BY <1>7 DEF CreateLink
  <2>2. "fetch" \in Pc
    BY DEF Pc
  <2>3. lin' \in [Lineage -> DirectoryType]
    BY <1>0, <1>c, <2>1, DirUpdate
  <2> QED  BY <1>0, <2>1, <2>2, <2>3, RunUpdate DEF Typed
<1>8. ASSUME NEW ok \in BOOLEAN, Fetch(r, ok) PROVE Typed'
  <2> DEFINE a == actor[L[2]]
             prior == IF ok THEN PriorCarry(a) ELSE <<>>
  <2>1. L[2] \in PR
    BY <1>0, ConstantsAssumption
  <2>2. prior \in Seq(Entry)
    BY <1>0, <2>1, PriorType
  <2>3. run' = [run EXCEPT ![r].pc = "reset", ![r].known = ok, ![r].prior = prior, ![r].skipped = {}]
    BY <1>8 DEF Fetch
  <2>4. "reset" \in Pc
    BY DEF Pc
  <2> HIDE DEF prior
  <2>5. run' = [run EXCEPT ![r] = [run[r] EXCEPT !.pc = "reset", !.known = ok, !.prior = prior,
                                        !.skipped = {}]]
    BY <1>0, <2>3
  <2>6. [run[r] EXCEPT !.pc = "reset", !.known = ok, !.prior = prior,
                                        !.skipped = {}] \in RunType
    BY <1>0, <2>2, <2>4 DEF RunType
  <2> QED  BY <1>0, <1>8, <2>5, <2>6, RunUpdate DEF Fetch, Typed
<1> QED  BY <1>1, <1>2, <1>3, <1>4, <1>5, <1>6, <1>m, <1>7, <1>8

(* ... and from the reset on.                                                *)
LEMMA AgentTyped ==
  ASSUME Typed, NEW r \in Run
  PROVE  /\ Reset(r) => Typed'
         /\ Spawn(r) => Typed'
         /\ WriteTranscript(r) => Typed'
         /\ WriteResearch(r) => Typed'
         /\ AgentEnds(r) => Typed'
         /\ Publish(r) => Typed'
         /\ PublishFails(r) => Typed'
         /\ \A uploaded \in BOOLEAN : SavePiSession(r, uploaded) => Typed'
         /\ Over(r) => Typed'
<1> DEFINE L == run[r].lineage
           d == lin[L]
<1>0. /\ run[r] \in RunType /\ L \in Lineage /\ d \in DirectoryType
      /\ lin \in [Lineage -> DirectoryType] /\ actor \in [PR -> ActorType]
      /\ run \in [Run -> RunType] /\ run[r].spawns \in Nat
      /\ d.transcripts \in SUBSET Spawned /\ d.objects \in SUBSET Spawned
      /\ Current(r) \in Spawned
  BY DEF Typed, RunType, DirectoryType, Current, Spawned
<1>00. {"spawn", "agent", "publish", "save", "over"} \subseteq Pc
  BY DEF Pc
<1>1. ASSUME Reset(r) PROVE Typed'
  <2>1. lin' = [lin EXCEPT ![L] = [d EXCEPT !.transcripts = {}]]
    BY <1>1 DEF Reset, ResetLineage
  <2>2. [d EXCEPT !.transcripts = {}] \in DirectoryType
    BY <1>0, DirUpdate
  <2> QED  BY <1>0, <1>00, <1>1, <2>1, <2>2, RunUpdate DEF Reset, Typed
<1>2. ASSUME Spawn(r) PROVE Typed'
  <2>1. lin' = [lin EXCEPT ![L] = [d EXCEPT !.there = TRUE]]
    BY <1>2 DEF Spawn
  <2>2. run' = [run EXCEPT ![r] = [run[r] EXCEPT !.pc = "agent", !.spawns = run[r].spawns + 1]]
    BY <1>0, <1>2 DEF Spawn
  <2> DEFINE n == run[r].spawns + 1
  <2>3. n \in Nat
    BY <1>0
  <2> HIDE DEF n
  <2>4. [run[r] EXCEPT !.pc = "agent", !.spawns = n] \in RunType
    BY <1>0, <1>00, <2>3 DEF RunType
  <2>5. run' \in [Run -> RunType]
    BY <1>0, <2>2, <2>4, RunUpdate DEF n
  <2> QED  BY <1>0, <1>2, <2>1, <2>5, DirUpdate DEF Spawn, Typed
<1>3. ASSUME WriteTranscript(r) PROVE Typed'
  <2>1. lin' = [lin EXCEPT ![L] = [d EXCEPT !.transcripts = d.transcripts \cup {Current(r)},
                                             !.quiet = FALSE]]
    BY <1>0, <1>3 DEF WriteTranscript
  <2>2. [d EXCEPT !.transcripts = d.transcripts \cup {Current(r)}, !.quiet = FALSE] \in DirectoryType
    BY <1>0 DEF DirectoryType
  <2> QED  BY <1>0, <1>3, <2>1, <2>2 DEF WriteTranscript, Typed
<1>4. ASSUME WriteResearch(r) PROVE Typed'
  <2> DEFINE c == IF d.comp \in {"absent", "empty"} THEN "legacy" ELSE d.comp
             O == d.objects \cup {Current(r)}
             e == [d EXCEPT !.there = TRUE, !.objects = O, !.quiet = FALSE, !.comp = c]
  <2>1. UNCHANGED lin \/ lin' = [lin EXCEPT ![L] = e]
    <3>1. CASE d.comp = "link"
      BY <1>4, <3>1 DEF WriteResearch
    <3>2. CASE d.comp # "link"
      BY <1>4, <3>2, Zenon DEF WriteResearch
    <3> QED  BY <3>1, <3>2
  <2>2. c \in Component /\ O \in SUBSET Spawned
    BY <1>0 DEF DirectoryType, Component
  <2> HIDE DEF c, O
  <2>3. e \in DirectoryType
    BY <1>0, <2>2 DEF DirectoryType
  <2> HIDE DEF e
  <2> QED  BY <1>0, <1>4, <2>1, <2>3 DEF WriteResearch, Typed
<1>5. ASSUME AgentEnds(r) PROVE Typed'
  BY <1>0, <1>00, <1>5, RunUpdate DEF AgentEnds, Typed
<1>6. ASSUME Publish(r) PROVE Typed'
  <2>1. PICK t \in FindLineageSession(d) :
          actor' = [actor EXCEPT ![L[2]] = Published(ExtractCarry(t, run[r].prior))]
    BY <1>6 DEF Publish
  <2>2. t \in Entry /\ run[r].prior \in Seq(Entry)
    BY <1>0 DEF FindLineageSession, Entry, RunType
  <2>3. ExtractCarry(t, run[r].prior) \in Seq(Entry)
    BY <2>2, CarryParts
  <2>4. Published(ExtractCarry(t, run[r].prior)) \in ActorType
    BY <2>3 DEF Published, ActorType
  <2>5. actor' \in [PR -> ActorType]
    BY <1>0, <2>1, <2>4
  <2> QED  BY <1>0, <1>00, <1>6, <2>5, RunUpdate DEF Publish, Typed
<1>7. ASSUME PublishFails(r) PROVE Typed'
  BY <1>0, <1>00, <1>7, RunUpdate DEF PublishFails, Typed
<1>8. ASSUME NEW uploaded \in BOOLEAN, SavePiSession(r, uploaded) PROVE Typed'
  <2> DEFINE T == d.transcripts \ FindLineageSession(d)
  <2>1. lin' = [lin EXCEPT ![L] = [d EXCEPT !.transcripts = T]]
    BY <1>8 DEF SavePiSession, Uploaded
  <2>2. T \in SUBSET Spawned
    BY <1>0
  <2> HIDE DEF T
  <2>3. [d EXCEPT !.transcripts = T] \in DirectoryType
    BY <1>0, <2>2, DirUpdate
  <2> QED  BY <1>0, <1>00, <1>8, <2>1, <2>3, RunUpdate DEF SavePiSession, Typed
<1>9. ASSUME Over(r) PROVE Typed'
  <2>1. [Idle EXCEPT !.pc = "over"] \in RunType
    BY <1>00, IdleType DEF RunType
  <2> QED  BY <1>0, <1>9, <2>1, RunUpdate DEF Over, Typed
<1> QED  BY <1>1, <1>2, <1>3, <1>4, <1>5, <1>6, <1>7, <1>8, <1>9

LEMMA StepTyped == Typed /\ [Next]_vars => Typed'
<1> SUFFICES ASSUME Typed, [Next]_vars PROVE Typed'
  OBVIOUS
<1>1. ASSUME NEW l \in Lineage, GoesQuiet(l) PROVE Typed'
  <2>1. lin' = [lin EXCEPT ![l] = [lin[l] EXCEPT !.quiet = TRUE]] /\ UNCHANGED <<actor, run>>
    BY <1>1 DEF GoesQuiet
  <2> QED  BY <2>1, DirUpdate DEF Typed
<1>2. CASE UNCHANGED vars
  BY <1>2 DEF vars, Typed
<1> QED  BY <1>1, <1>2, OpeningTyped, AgentTyped DEF Next

(*****************************************************************************)
(* Link discipline and research.  Between its link and its end a run finds   *)
(* its component as it left it, unless a janitor removed the lineage: no     *)
(* other run under way is in it.                                             *)
(*****************************************************************************)

(* The points of a run after its component was seen to.                      *)
Past == {"fetch", "reset", "spawn", "agent", "publish", "save"}

Declared(r) ==
  run[r].mount # "none" /\ run[r].lineage[1] \notin Reserved /\ r \notin exposed

LinkOf(r) ==
  LET d == lin[run[r].lineage]
  IN  /\ At(r, "create") => d.comp = "absent"
      /\ run[r].pc \in Past /\ Declared(r) => d.comp # "absent"

LinkInv == \A r \in Run : LinkOf(r)

(* A directory keeps what the link is about.                                 *)
SameHouse(d, e) == e.comp = d.comp

(* Every run that had opened lineage l is on record as exposed.              *)
Evicted(l) ==
  \A q \in Run : Active(q) /\ run[q].lineage = l
                   /\ run[q].pc \notin {"janitor", "remove", "resolve"} => q \in exposed'

(* What a step of r must show of its own; the others are kept by Apart.      *)
LEMMA LinkFrame ==
  ASSUME IInv, LinkInv, NEW r \in Run, \A q \in Run \ {r} : run'[q] = run[q],
         exposed \ {r} \subseteq exposed',
         \A l \in Lineage : \/ SameHouse(lin[l], lin'[l])
                            \/ Active(r) /\ l = run[r].lineage
                            \/ lin'[l] = NoDirectory /\ Evicted(l),
         LinkOf(r)'
  PROVE  LinkInv'
<1>2. ASSUME NEW q \in Run \ {r} PROVE LinkOf(q)'
  <2>1. CASE run[q].pc \in Past \cup {"link", "create"}
    <3>1. Active(q) /\ run[q].pc \notin {"janitor", "remove", "resolve"}
      BY <2>1 DEF Active, Past
    <3>2. run[q].lineage \in Lineage /\ ~(Active(r) /\ run[q].lineage = run[r].lineage)
      BY <3>1 DEF IInv, Apart
    <3>3. CASE SameHouse(lin[run[q].lineage], lin'[run[q].lineage])
      BY <3>3 DEF SameHouse, LinkInv, LinkOf, At, Declared
    <3>4. CASE lin'[run[q].lineage] = NoDirectory /\ Evicted(run[q].lineage)
      <4>1. q \in exposed'
        BY <3>1, <3>4 DEF Evicted
      <4>2. NoDirectory.comp = "absent"
        BY DEF NoDirectory
      <4> QED  BY <3>4, <4>1, <4>2 DEF LinkOf, At, Declared
    <3> QED  BY <3>2, <3>3, <3>4
  <2>2. CASE run[q].pc \notin Past \cup {"link", "create"}
    BY <2>2 DEF LinkOf, At
  <2> QED  BY <2>1, <2>2
<1> QED  BY <1>2 DEF LinkInv

(* The step of a run that leaves every component as it is.                   *)
LEMMA LinkGoesOn ==
  ASSUME IInv, LinkInv, NEW r \in Run, \A q \in Run \ {r} : run'[q] = run[q],
         UNCHANGED exposed, \A l \in Lineage : SameHouse(lin[l], lin'[l]),
         run'[r].lineage = run[r].lineage, run'[r].mount = run[r].mount,
         \/ run'[r].pc \in Past /\ run[r].pc \in Past
         \/ run'[r].pc \in {"janitor", "remove", "resolve", "over"}
  PROVE  LinkInv'
<1>1. run[r].lineage \in Lineage /\ LinkOf(r)
  BY DEF IInv, Apart, LinkInv
<1>2. LinkOf(r)'
  BY <1>1 DEF LinkOf, At, Declared, Past, SameHouse
<1> QED  BY <1>2, LinkFrame

(* What a goto leaves alone.                                                 *)
LEMMA GotoFacts ==
  ASSUME Typed, NEW r \in Run, NEW pc, Goto(r, pc)
  PROVE  /\ \A q \in Run \ {r} : run'[q] = run[q]
         /\ run'[r].pc = pc /\ run'[r].lineage = run[r].lineage
         /\ run'[r].mount = run[r].mount /\ run'[r].prior = run[r].prior
         /\ run'[r].known = run[r].known /\ run'[r].spawns = run[r].spawns
  BY DEF Typed, RunType, Goto

(* A run's steps up to the look at its component.                            *)
LEMMA OpeningLinked ==
  ASSUME Typed, IInv, LinkInv, NEW r \in Run
  PROVE  /\ \A l \in Lineage, m \in Mount : Start(r, l, m) => LinkInv'
         /\ \A p \in PR : JanitorLook(r, p) => LinkInv'
         /\ JanitorRemove(r) => LinkInv'
         /\ JanitorDone(r) => LinkInv'
         /\ ResolveSession(r) => LinkInv'
<1> DEFINE L == run[r].lineage
           d == lin[L]
<1>0. /\ run \in [Run -> RunType] /\ run[r] \in RunType
      /\ lin \in [Lineage -> DirectoryType] /\ L \in Lineage /\ d \in DirectoryType
  BY DEF Typed, RunType
<1>1. ASSUME NEW l \in Lineage, NEW m \in Mount, Start(r, l, m) PROVE LinkInv'
  <2>1. (\A q \in Run \ {r} : run'[q] = run[q]) /\ run'[r].pc = "janitor"
    BY <1>0, <1>1 DEF Start, Idle
  <2>2. UNCHANGED <<lin, exposed>>
    BY <1>1 DEF Start
  <2>3. LinkOf(r)'
    BY <2>1 DEF LinkOf, At, Past
  <2> QED  BY <2>1, <2>2, <2>3, LinkFrame DEF SameHouse
<1>2. ASSUME NEW p \in PR, JanitorLook(r, p) PROVE LinkInv'
  <2>1. /\ \A q \in Run \ {r} : run'[q] = run[q]
        /\ run'[r].pc \in {"janitor", "remove"}
        /\ run'[r].lineage = run[r].lineage /\ run'[r].mount = run[r].mount
    BY <1>0, <1>2 DEF JanitorLook, At, RunType
  <2> QED  BY <1>2, <2>1, LinkGoesOn DEF JanitorLook, SameHouse
<1>3. ASSUME JanitorRemove(r) PROVE LinkInv'
  <2>1. (\A q \in Run \ {r} : run'[q] = run[q]) /\ run'[r].pc = "janitor"
    BY <1>0, <1>3 DEF JanitorRemove, RunType
  <2>2. PICK l : /\ lin' = [lin EXCEPT ![l] = NoDirectory]
                 /\ exposed' = exposed \cup {q \in Run : Active(q) /\ run[q].lineage = l
                                             /\ run[q].pc \notin {"janitor", "remove", "resolve"}}
    BY <1>3 DEF JanitorRemove
  <2>3. Evicted(l) /\ exposed \subseteq exposed'
    BY <2>2 DEF Evicted
  <2>4. \A k \in Lineage : lin'[k] = lin[k] \/ (k = l /\ lin'[k] = NoDirectory)
    BY <1>0, <2>2
  <2>6. LinkOf(r)'
    BY <2>1 DEF LinkOf, At, Past
  <2> QED  BY <2>1, <2>3, <2>4, <2>6, LinkFrame DEF SameHouse
<1>4. ASSUME JanitorDone(r) PROVE LinkInv'
  <2>1. Goto(r, "resolve") /\ UNCHANGED <<lin, exposed>>
    BY <1>4 DEF JanitorDone
  <2> QED  BY <2>1, GotoFacts, LinkGoesOn DEF SameHouse
<1>5. ASSUME ResolveSession(r) PROVE LinkInv'
  <2>1. Goto(r, "link") /\ UNCHANGED exposed /\ Active(r)
    BY <1>5 DEF ResolveSession, Active, At
  <2>2. \A k \in Lineage : lin'[k].comp = lin[k].comp
    BY <1>0, <1>5 DEF ResolveSession, DirectoryType
  <2>3. /\ \A q \in Run \ {r} : run'[q] = run[q]
        /\ run'[r].pc = "link" /\ run'[r].lineage = L
    BY <2>1, GotoFacts
  <2>4. LinkOf(r)'
    BY <2>3 DEF LinkOf, At, Past
  <2> QED  BY <2>1, <2>2, <2>3, <2>4, LinkFrame DEF SameHouse
<1> QED  BY <1>1, <1>2, <1>3, <1>4, <1>5

(* The look at the component, the migration and the link.                    *)
LEMMA LinkingLinked ==
  ASSUME Typed, IInv, LinkInv, NEW r \in Run
  PROVE  /\ \A stamp \in Stamp : LinkSharedStore(r, stamp) => LinkInv'
         /\ \A copied, skipped \in SUBSET lin[run[r].lineage].objects :
              MigrateManufactured(r, copied, skipped) => LinkInv'
         /\ \A stamp \in Stamp : \A made \in {"linked", "unlinked", "unrenamed"} :
              CreateLink(r, made, stamp) => LinkInv'
         /\ \A ok \in BOOLEAN : Fetch(r, ok) => LinkInv'
<1> DEFINE L == run[r].lineage
           d == lin[L]
           m == run[r].mount
<1>0. /\ run \in [Run -> RunType] /\ run[r] \in RunType
      /\ lin \in [Lineage -> DirectoryType] /\ L \in Lineage /\ d \in DirectoryType
      /\ LinkOf(r)
  BY DEF Typed, RunType, LinkInv
<1>s. ASSUME NEW stamp \in Stamp, stamp # "refused" PROVE stampFallback(d, stamp).comp # "absent"
  BY <1>0, <1>s DEF stampFallback, DirectoryType, Stamp
<1>f. ASSUME NEW pc \in {"fetch", "create"}, Active(r), exposed \ {r} \subseteq exposed',
             \A q \in Run \ {r} : run'[q] = run[q],
             run'[r].pc = pc, run'[r].lineage = L, run'[r].mount = m,
             \A k \in Lineage \ {L} : lin'[k] = lin[k],
             pc = "create" => lin'[L].comp = "absent",
             pc = "fetch" => \/ L[1] \in Reserved \/ m = "none" \/ r \in exposed'
                             \/ lin'[L].comp # "absent"
      PROVE  LinkInv'
  <2>1. LinkOf(r)'
    BY <1>f DEF LinkOf, At, Past, Declared
  <2> QED  BY <1>f, <2>1, LinkFrame DEF SameHouse
<1>1. ASSUME NEW stamp \in Stamp, LinkSharedStore(r, stamp) PROVE LinkInv'
  <2>0. run[r].pc = "link" /\ Active(r)
    BY <1>1 DEF LinkSharedStore, At, Active
  <2>1. CASE L[1] \in Reserved /\ Goto(r, "fetch") /\ UNCHANGED <<lin, exposed>>
    BY <2>0, <2>1, <1>f, GotoFacts
  <2>2. CASE /\ m = "none" /\ Goto(r, "fetch") /\ UNCHANGED exposed
             /\ lin' \in {lin, [lin EXCEPT ![L].comp = IF @ = "link" THEN "absent" ELSE @]}
    <3>1. \A k \in Lineage \ {L} : lin'[k] = lin[k]
      BY <1>0, <2>2
    <3> QED  BY <2>0, <2>2, <3>1, <1>f, GotoFacts
  <2>3. CASE /\ lin' = [lin EXCEPT ![L] = stampFallback(@, stamp)]
             /\ ExposedIf(stamp = "refused", r) /\ Goto(r, "fetch")
    <3>1. /\ \A k \in Lineage \ {L} : lin'[k] = lin[k]
          /\ lin'[L] = stampFallback(d, stamp)
      BY <1>0, <2>3
    <3>2. exposed \subseteq exposed' /\ (r \in exposed' \/ lin'[L].comp # "absent")
      BY <1>s, <2>3, <3>1 DEF ExposedIf
    <3> QED  BY <2>0, <2>3, <3>1, <3>2, <1>f, GotoFacts
  <2>4. CASE Goto(r, IF d.comp = "absent" THEN "create" ELSE "fetch") /\ UNCHANGED <<lin, exposed>>
    <3>1. CASE d.comp = "absent"
      BY <2>0, <2>4, <3>1, <1>f, GotoFacts
    <3>2. CASE d.comp # "absent"
      BY <2>0, <2>4, <3>2, <1>f, GotoFacts
    <3> QED  BY <3>1, <3>2
  <2> QED  BY <1>1, <2>1, <2>2, <2>3, <2>4 DEF LinkSharedStore
<1>m. ASSUME NEW copied \in SUBSET d.objects, NEW skipped \in SUBSET d.objects,
             MigrateManufactured(r, copied, skipped)
      PROVE  LinkInv'
  <2>0. Active(r) /\ UNCHANGED exposed /\ d.comp = "marked"
    BY <1>m DEF MigrateManufactured, At, Active
  <2>1. CASE Goto(r, "fetch") /\ UNCHANGED lin
    BY <2>0, <2>1, <1>f, GotoFacts
  <2>2. ASSUME NEW pc \in {"fetch", "create"}, NEW comp, NEW rest,
               run' = [run EXCEPT ![r].pc = pc, ![r].skipped = skipped],
               lin' = [lin EXCEPT ![L].comp = comp, ![L].objects = rest],
               comp = "absent" <=> pc = "create"
        PROVE  LinkInv'
    <3>1. /\ \A q \in Run \ {r} : run'[q] = run[q]
          /\ run'[r].pc = pc /\ run'[r].lineage = L /\ run'[r].mount = m
      BY <1>0, <2>2 DEF RunType
    <3>2. (\A k \in Lineage \ {L} : lin'[k] = lin[k]) /\ lin'[L].comp = comp
      BY <1>0, <2>2 DEF DirectoryType
    <3> QED  BY <2>0, <2>2, <3>1, <3>2, <1>f
  <2> QED  BY <1>m, <2>1, <2>2 DEF MigrateManufactured
<1>2. ASSUME NEW stamp \in Stamp, NEW made \in {"linked", "unlinked", "unrenamed"},
             CreateLink(r, made, stamp)
      PROVE  LinkInv'
  <2>0. Active(r) /\ Goto(r, "fetch") /\ d.comp = "absent"
    BY <1>0, <1>2 DEF CreateLink, At, Active, LinkOf
  <2>1. CASE lin' = [lin EXCEPT ![L].comp = "link"] /\ UNCHANGED exposed
    <3>1. (\A k \in Lineage \ {L} : lin'[k] = lin[k]) /\ lin'[L].comp = "link"
      BY <1>0, <2>1 DEF DirectoryType
    <3> QED  BY <2>0, <2>1, <3>1, <1>f, GotoFacts
  <2>2. CASE ExposedIf(TRUE, r) /\ UNCHANGED lin
    <3>1. exposed \subseteq exposed' /\ r \in exposed'
      BY <2>2 DEF ExposedIf
    <3> QED  BY <2>0, <2>2, <3>1, <1>f, GotoFacts
  <2>3. CASE /\ lin' = [lin EXCEPT ![L] = IF d.comp = "absent" THEN stampFallback(@, stamp) ELSE @]
             /\ ExposedIf(stamp = "refused", r)
    <3>1. /\ \A k \in Lineage \ {L} : lin'[k] = lin[k]
          /\ lin'[L] = stampFallback(d, stamp)
      BY <1>0, <2>0, <2>3
    <3>2. exposed \subseteq exposed' /\ (r \in exposed' \/ lin'[L].comp # "absent")
      BY <1>s, <2>3, <3>1 DEF ExposedIf
    <3> QED  BY <2>0, <3>1, <3>2, <1>f, GotoFacts
  <2> QED  BY <1>2, <2>1, <2>2, <2>3 DEF CreateLink
<1>3. ASSUME NEW ok \in BOOLEAN, Fetch(r, ok) PROVE LinkInv'
  <2>1. /\ \A q \in Run \ {r} : run'[q] = run[q]
        /\ run'[r].pc = "reset" /\ run'[r].lineage = run[r].lineage
        /\ run'[r].mount = run[r].mount
    BY <1>0, <1>3 DEF Fetch, RunType
  <2>2. run[r].pc = "fetch" /\ UNCHANGED <<lin, exposed>>
    BY <1>3 DEF Fetch, At
  <2> QED  BY <2>1, <2>2, LinkGoesOn DEF SameHouse, Past
<1> QED  BY <1>1, <1>m, <1>2, <1>3

(* The agents of a run, and its end.                                         *)
LEMMA AgentLinked ==
  ASSUME Typed, IInv, LinkInv, NEW r \in Run
  PROVE  /\ Reset(r) => LinkInv'
         /\ Spawn(r) => LinkInv'
         /\ WriteTranscript(r) => LinkInv'
         /\ WriteResearch(r) => LinkInv'
         /\ AgentEnds(r) => LinkInv'
         /\ Publish(r) => LinkInv'
         /\ PublishFails(r) => LinkInv'
         /\ \A uploaded \in BOOLEAN : SavePiSession(r, uploaded) => LinkInv'
         /\ Over(r) => LinkInv'
<1> DEFINE L == run[r].lineage
           d == lin[L]
<1>0. /\ run \in [Run -> RunType] /\ run[r] \in RunType
      /\ lin \in [Lineage -> DirectoryType] /\ L \in Lineage /\ d \in DirectoryType
      /\ LinkOf(r)
  BY DEF Typed, RunType, LinkInv
<1>1. ASSUME Reset(r) PROVE LinkInv'
  <2>1. Goto(r, "spawn") /\ run[r].pc = "reset" /\ UNCHANGED exposed
    BY <1>1 DEF Reset, At
  <2>2. \A k \in Lineage : SameHouse(lin[k], lin'[k])
    BY <1>0, <1>1 DEF Reset, ResetLineage, SameHouse, DirectoryType
  <2> QED  BY <2>1, <2>2, GotoFacts, LinkGoesOn DEF Past
<1>2. ASSUME Spawn(r) PROVE LinkInv'
  <2>1. /\ \A q \in Run \ {r} : run'[q] = run[q]
        /\ run'[r].pc = "agent" /\ run'[r].lineage = L /\ run'[r].mount = run[r].mount
    BY <1>0, <1>2 DEF Spawn, RunType
  <2>2. run[r].pc = "spawn" /\ UNCHANGED exposed /\ Active(r)
    BY <1>2 DEF Spawn, At, Active
  <2>3. \A k \in Lineage : SameHouse(lin[k], lin'[k])
    BY <1>0, <1>2 DEF Spawn, DirectoryType, SameHouse
  <2> QED  BY <2>1, <2>2, <2>3, LinkGoesOn DEF Past
<1>3. ASSUME WriteTranscript(r) PROVE LinkInv'
  <2>1. UNCHANGED <<run, exposed>> /\ run[r].pc = "agent"
    BY <1>3 DEF WriteTranscript, At
  <2>2. \A k \in Lineage : SameHouse(lin[k], lin'[k])
    BY <1>0, <1>3 DEF WriteTranscript, SameHouse, DirectoryType
  <2> QED  BY <2>1, <2>2, LinkGoesOn DEF Past
<1>4. ASSUME WriteResearch(r) PROVE LinkInv'
  <2>1. UNCHANGED <<run, exposed>> /\ run[r].pc = "agent" /\ Active(r)
    BY <1>4 DEF WriteResearch, At, Active
  <2>2. CASE UNCHANGED lin
    BY <2>1, <2>2, LinkGoesOn DEF Past, SameHouse
  <2>3. CASE d.comp # "link" /\ lin' = [lin EXCEPT ![L] = [d EXCEPT
                          !.there = TRUE, !.objects = @ \cup {Current(r)}, !.quiet = FALSE,
                          !.comp = IF @ \in {"absent", "empty"} THEN "legacy" ELSE @]]
    <3>1. /\ \A k \in Lineage \ {L} : lin'[k] = lin[k]
          /\ lin'[L].comp = IF d.comp \in {"absent", "empty"} THEN "legacy" ELSE d.comp
      BY <1>0, <2>3 DEF DirectoryType
    <3>2. LinkOf(r)'
      BY <2>1, <3>1 DEF LinkOf, At, Past
    <3> QED  BY <2>1, <3>1, <3>2, LinkFrame DEF SameHouse
  <2>4. CASE d.comp = "link"
    BY <1>4, <2>2, <2>4 DEF WriteResearch
  <2>5. CASE d.comp # "link"
    BY <1>4, <2>3, <2>5, Zenon DEF WriteResearch
  <2> QED  BY <2>4, <2>5
<1>5. ASSUME AgentEnds(r) PROVE LinkInv'
  <2>1. /\ Goto(r, "spawn") \/ Goto(r, "publish")
        /\ run[r].pc = "agent" /\ UNCHANGED <<lin, exposed>>
    BY <1>5 DEF AgentEnds, At
  <2> QED  BY <2>1, GotoFacts, LinkGoesOn DEF Past, SameHouse
<1>6. ASSUME Publish(r) PROVE LinkInv'
  <2>1. Goto(r, "save") /\ run[r].pc = "publish" /\ UNCHANGED <<lin, exposed>>
    BY <1>6 DEF Publish, At
  <2> QED  BY <2>1, GotoFacts, LinkGoesOn DEF Past, SameHouse
<1>7. ASSUME PublishFails(r) PROVE LinkInv'
  <2>1. Goto(r, "save") /\ run[r].pc = "publish" /\ UNCHANGED <<lin, exposed>>
    BY <1>7 DEF PublishFails, At
  <2> QED  BY <2>1, GotoFacts, LinkGoesOn DEF Past, SameHouse
<1>8. ASSUME NEW uploaded \in BOOLEAN, SavePiSession(r, uploaded) PROVE LinkInv'
  <2>1. Goto(r, "spawn") /\ run[r].pc = "save" /\ UNCHANGED exposed
    BY <1>8 DEF SavePiSession, At
  <2>2. \A k \in Lineage : SameHouse(lin[k], lin'[k])
    BY <1>0, <1>8 DEF SavePiSession, Uploaded, SameHouse, DirectoryType
  <2> QED  BY <2>1, <2>2, GotoFacts, LinkGoesOn DEF Past
<1>9. ASSUME Over(r) PROVE LinkInv'
  <2>1. (\A q \in Run \ {r} : run'[q] = run[q]) /\ run'[r].pc = "over"
    BY <1>0, <1>9 DEF Over, Idle
  <2>2. UNCHANGED lin /\ exposed \ {r} \subseteq exposed'
    BY <1>9 DEF Over
  <2>3. LinkOf(r)'
    BY <2>1 DEF LinkOf, At, Past
  <2> QED  BY <2>1, <2>2, <2>3, LinkFrame DEF SameHouse
<1> QED  BY <1>1, <1>2, <1>3, <1>4, <1>5, <1>6, <1>7, <1>8, <1>9

LEMMA StepLinked == Typed /\ IInv /\ LinkInv /\ [Next]_vars => LinkInv'
<1> SUFFICES ASSUME Typed, IInv, LinkInv, [Next]_vars PROVE LinkInv'
  OBVIOUS
<1>1. ASSUME NEW l \in Lineage, GoesQuiet(l) PROVE LinkInv'
  <2>1. \A k \in Lineage : SameHouse(lin[k], lin'[k])
    BY <1>1 DEF GoesQuiet, SameHouse, Typed, DirectoryType
  <2>2. UNCHANGED <<run, exposed>>
    BY <1>1 DEF GoesQuiet
  <2>4. ASSUME NEW r \in Run PROVE LinkOf(r)'
    <3>1. LinkOf(r) /\ run[r].lineage \in Lineage
      BY DEF LinkInv, IInv, Apart
    <3> QED  BY <2>1, <2>2, <3>1 DEF LinkOf, At, Declared, SameHouse
  <2> QED  BY <2>4 DEF LinkInv
<1>2. CASE UNCHANGED vars
  BY <1>2 DEF vars, LinkInv, LinkOf, At, Declared
<1> QED  BY <1>1, <1>2, OpeningLinked, LinkingLinked, AgentLinked DEF Next

LEMMA InitLinked == Init => LinkInv
  BY DEF Init, Idle, LinkInv, LinkOf, At, Past

(* For any runs, mounts, janitors and half-done migrations: while a store is *)
(* declared, an agent never finds its component absent unless its lineage    *)
(* was removed under it or the rename or the fallback of its link was        *)
(* refused (LinkSharedStore, migrateManufactured, stampFallback).            *)
THEOREM ComponentIsThere == Spec => []LinkDiscipline
<1>1. LinkInv => LinkDiscipline
  BY DEF LinkInv, LinkOf, LinkDiscipline, At, Past, Declared
<1> QED  BY <1>1, InitTyped, StepTyped, InitIInv, StepIInv, InitLinked, StepLinked, PTL DEF Spec

(* No object leaves the volume or the store.                                 *)
KeepsAll ==
  store \subseteq store' /\ \A l \in Lineage : lin[l].objects \subseteq lin'[l].objects

LEMMA KeptStays ==
  ASSUME KeepsAll, NEW o, Kept(o)
  PROVE  Kept(o)'
  BY DEF KeepsAll, Kept

(* A migration adds to the store what it takes from the component and its    *)
(* walk saw, or takes nothing, or writes where nothing is mounted.           *)
LEMMA MigrationKeeps ==
  ASSUME Typed, NEW r \in Run, NEW copied, NEW skipped, MigrateManufactured(r, copied, skipped),
         NEW o, Kept(o), run[r].mount # "ephemeral", o \notin run'[r].skipped
  PROVE  Kept(o)'
<1> DEFINE L == run[r].lineage
           d == lin[L]
           m == run[r].mount
<1>0. /\ lin \in [Lineage -> DirectoryType] /\ L \in Lineage /\ d \in DirectoryType
      /\ run \in [Run -> RunType] /\ run[r] \in RunType
  BY DEF Typed, RunType
<1>1. store \subseteq store' /\ copied \subseteq store'
  BY DEF MigrateManufactured, LeafMade, LeafWritable
<1>2. CASE UNCHANGED lin
  BY <1>1, <1>2 DEF Kept
<1>3. ASSUME NEW pc, NEW comp, NEW rest, Migrated(d, copied, skipped),
             run' = [run EXCEPT ![r].pc = pc, ![r].skipped = skipped],
             lin' = [lin EXCEPT ![L].comp = comp, ![L].objects = rest]
      PROVE  Kept(o)'
  <2>1. run'[r].skipped = skipped
    BY <1>0, <1>3 DEF RunType
  <2>2. \A l \in Lineage \ {L} : lin'[l] = lin[l]
    BY <1>0, <1>3
  <2>3. o \in d.objects => o \in store'
    BY <1>1, <1>3, <2>1 DEF Migrated
  <2> QED  BY <1>0, <1>1, <2>2, <2>3 DEF Kept
<1> QED  BY <1>2, <1>3 DEF MigrateManufactured

(* Every other step but a janitor's removal keeps the objects.               *)
LEMMA StepsKeepAll ==
  ASSUME Typed, NEW r \in Run
  PROVE  /\ \A l \in Lineage, m \in Mount : Start(r, l, m) => KeepsAll
         /\ \A p \in PR : JanitorLook(r, p) => KeepsAll
         /\ JanitorDone(r) => KeepsAll
         /\ ResolveSession(r) => KeepsAll
         /\ \A stamp \in Stamp : LinkSharedStore(r, stamp) => KeepsAll
         /\ \A stamp \in Stamp : \A made \in {"linked", "unlinked", "unrenamed"} :
              CreateLink(r, made, stamp) => KeepsAll
         /\ \A ok \in BOOLEAN : Fetch(r, ok) => KeepsAll
         /\ Reset(r) => KeepsAll
         /\ Spawn(r) => KeepsAll
         /\ WriteTranscript(r) => KeepsAll
         /\ WriteResearch(r) => KeepsAll
         /\ AgentEnds(r) => KeepsAll
         /\ Publish(r) => KeepsAll
         /\ PublishFails(r) => KeepsAll
         /\ \A uploaded \in BOOLEAN : SavePiSession(r, uploaded) => KeepsAll
         /\ Over(r) => KeepsAll
<1> DEFINE L == run[r].lineage
           d == lin[L]
<1>0. lin \in [Lineage -> DirectoryType] /\ L \in Lineage /\ d \in DirectoryType
  BY DEF Typed, RunType
<1>1. ASSUME UNCHANGED <<lin, store>> PROVE KeepsAll
  BY <1>1 DEF KeepsAll
<1>2. ASSUME ResolveSession(r) \/ Spawn(r) PROVE KeepsAll
  BY <1>0, <1>2 DEF ResolveSession, Spawn, KeepsAll, DirectoryType
<1>s. ASSUME NEW e, e.objects = d.objects, lin' = [lin EXCEPT ![L] = e], UNCHANGED store
      PROVE  KeepsAll
  BY <1>0, <1>s DEF KeepsAll
<1>f. ASSUME NEW stamp PROVE stampFallback(d, stamp).objects = d.objects
  BY <1>0 DEF stampFallback, DirectoryType
<1>3. ASSUME NEW stamp \in Stamp, LinkSharedStore(r, stamp) PROVE KeepsAll
  <2>1. UNCHANGED store
    BY <1>3 DEF LinkSharedStore
  <2>2. \/ UNCHANGED lin
        \/ lin' = [lin EXCEPT ![L].comp = IF @ = "link" THEN "absent" ELSE @]
        \/ lin' = [lin EXCEPT ![L] = stampFallback(d, stamp)]
    BY <1>3 DEF LinkSharedStore
  <2>3. CASE lin' = [lin EXCEPT ![L].comp = IF @ = "link" THEN "absent" ELSE @]
    BY <1>0, <2>1, <2>3 DEF KeepsAll, DirectoryType
  <2> QED  BY <1>1, <1>s, <1>f, <2>1, <2>2, <2>3
<1>c. ASSUME NEW stamp \in Stamp, NEW made \in {"linked", "unlinked", "unrenamed"},
             CreateLink(r, made, stamp)
      PROVE  KeepsAll
  <2>1. /\ UNCHANGED store
        /\ \/ UNCHANGED lin
           \/ lin' = [lin EXCEPT ![L].comp = "link"]
           \/ lin' = [lin EXCEPT ![L] = stampFallback(d, stamp)]
           \/ lin' = [lin EXCEPT ![L] = d]
    BY <1>c DEF CreateLink
  <2>2. CASE lin' = [lin EXCEPT ![L].comp = "link"]
    BY <1>0, <2>1, <2>2 DEF KeepsAll, DirectoryType
  <2> QED  BY <1>1, <1>s, <1>f, <2>1, <2>2
<1>4. ASSUME Reset(r) PROVE KeepsAll
  BY <1>0, <1>4 DEF Reset, ResetLineage, KeepsAll, DirectoryType
<1>5. ASSUME WriteTranscript(r) PROVE KeepsAll
  BY <1>0, <1>5 DEF WriteTranscript, KeepsAll, DirectoryType
<1>6. ASSUME WriteResearch(r) PROVE KeepsAll
  <2>1. CASE d.comp = "link"
    BY <1>6, <2>1 DEF WriteResearch, KeepsAll
  <2>2. CASE d.comp # "link"
    <3>1. lin' = [lin EXCEPT ![L] = [d EXCEPT
                          !.there = TRUE, !.objects = @ \cup {Current(r)}, !.quiet = FALSE,
                          !.comp = IF @ \in {"absent", "empty"} THEN "legacy" ELSE @]] /\ UNCHANGED store
      BY <1>6, <2>2, Zenon DEF WriteResearch
    <3>2. \A l \in Lineage : lin[l].objects \subseteq lin'[l].objects
      BY <1>0, <3>1 DEF DirectoryType
    <3> QED  BY <3>1, <3>2 DEF KeepsAll
  <2> QED  BY <2>1, <2>2
<1>7. ASSUME NEW uploaded \in BOOLEAN, SavePiSession(r, uploaded) PROVE KeepsAll
  BY <1>0, <1>7 DEF SavePiSession, Uploaded, KeepsAll, DirectoryType
<1> QED
  BY <1>1, <1>2, <1>3, <1>c, <1>4, <1>5, <1>6, <1>7
     DEF Start, JanitorLook, JanitorDone, Fetch, AgentEnds, Publish, PublishFails, Over

(* What ResearchKept says of one object.                                     *)
Excused(o) ==
  \E r \in Run : \/ run[r].pc = "remove" /\ run'[r].pc = "janitor"
                 \/ /\ run[r].pc = "link" /\ run'[r].pc # "link"
                    /\ run[r].mount = "ephemeral" \/ o \in run'[r].skipped

LEMMA StepKeepsResearch ==
  ASSUME Typed, [Next]_vars, NEW o, Kept(o), ~Kept(o)'
  PROVE  Excused(o)
<1>1. ~KeepsAll
  BY KeptStays
<1>2. ASSUME NEW r \in Run, JanitorRemove(r) PROVE Excused(o)
  <2>1. run[r].pc = "remove" /\ run'[r].pc = "janitor"
    BY <1>2 DEF JanitorRemove, At, Typed, RunType
  <2> QED  BY <2>1 DEF Excused
<1>3. ASSUME NEW r \in Run, NEW copied, NEW skipped, MigrateManufactured(r, copied, skipped)
      PROVE  Excused(o)
  <2>1. run[r].mount = "ephemeral" \/ o \in run'[r].skipped
    BY <1>3, MigrationKeeps
  <2>2. PICK pc \in {"fetch", "create"} :
          Goto(r, pc) \/ run' = [run EXCEPT ![r].pc = pc, ![r].skipped = skipped]
    BY <1>3 DEF MigrateManufactured
  <2>3. run[r].pc = "link" /\ run'[r].pc # "link"
    BY <1>3, <2>2 DEF MigrateManufactured, At, Typed, RunType, Goto
  <2> QED  BY <2>1, <2>3 DEF Excused
<1>4. ASSUME NEW l \in Lineage, GoesQuiet(l) PROVE KeepsAll
  BY <1>4 DEF GoesQuiet, KeepsAll, Typed, DirectoryType
<1>5. CASE UNCHANGED vars
  BY <1>1, <1>5 DEF vars, KeepsAll
<1> QED  BY <1>1, <1>2, <1>3, <1>4, <1>5, StepsKeepAll DEF Next

(* For any runs, mounts and interleaving: an object that reached the volume  *)
(* or the store is lost only to a janitor, or to a migration: onto a path    *)
(* nothing is mounted at, or whose walk passed over that object.  One whose  *)
(* copy failed is never lost (migrateManufactured's counts and RemoveAll).   *)
THEOREM ResearchSurvives == Spec => ResearchKept
<1> DEFINE Lost == \A o \in Round : Kept(o) /\ ~Kept(o)' => Excused(o)
<1>1. Typed /\ [Next]_vars => Lost
  BY StepKeepsResearch
<1>2. Spec => [][Lost]_vars
  BY <1>1, InitTyped, StepTyped, PTL DEF Spec
<1> QED  BY <1>2 DEF ResearchKept, Excused

(*****************************************************************************)
(* The trace.  From its fetch on, a run whose carry nobody replaced holds    *)
(* what the actor would answer now; so its publish puts its round on top of  *)
(* everything the actor had, as far as that fits.                            *)
(*****************************************************************************)

Fetched == {"reset", "spawn", "agent", "publish", "save"}

CarryOf(r) ==
  run[r].pc \in Fetched /\ run[r].known /\ r \notin stale
    => run[r].prior = PriorCarry(actor[run[r].lineage[2]])

CarryInv == \A r \in Run : CarryOf(r)

(* A step that leaves the actors alone and fetches nothing.                  *)
LEMMA CarryFrame ==
  ASSUME CarryInv, NEW r \in Run, \A q \in Run \ {r} : run'[q] = run[q],
         UNCHANGED actor, stale \ {r} \subseteq stale',
         \/ run'[r].pc \notin Fetched
         \/ /\ run[r].pc \in Fetched /\ UNCHANGED stale
            /\ run'[r].known = run[r].known /\ run'[r].prior = run[r].prior
            /\ run'[r].lineage = run[r].lineage
         \/ CarryOf(r)'
  PROVE  CarryInv'
<1>1. CarryOf(r)'
  BY DEF CarryInv, CarryOf
<1>2. \A q \in Run \ {r} : CarryOf(q)'
  BY DEF CarryInv, CarryOf
<1> QED  BY <1>1, <1>2 DEF CarryInv

LEMMA CarryGoto ==
  ASSUME Typed, CarryInv, NEW r \in Run, NEW pc, Goto(r, pc), UNCHANGED <<actor, stale>>,
         run[r].pc \in Fetched \/ pc \notin Fetched
  PROVE  CarryInv'
  BY GotoFacts, CarryFrame

LEMMA OpeningCarried ==
  ASSUME Typed, CarryInv, NEW r \in Run
  PROVE  /\ \A l \in Lineage, m \in Mount : Start(r, l, m) => CarryInv'
         /\ \A p \in PR : JanitorLook(r, p) => CarryInv'
         /\ JanitorRemove(r) => CarryInv'
         /\ JanitorDone(r) => CarryInv'
         /\ ResolveSession(r) => CarryInv'
         /\ \A stamp \in Stamp : LinkSharedStore(r, stamp) => CarryInv'
         /\ \A copied, skipped \in SUBSET lin[run[r].lineage].objects :
              MigrateManufactured(r, copied, skipped) => CarryInv'
         /\ \A stamp \in Stamp : \A made \in {"linked", "unlinked", "unrenamed"} :
              CreateLink(r, made, stamp) => CarryInv'
         /\ \A ok \in BOOLEAN : Fetch(r, ok) => CarryInv'
<1>0. run \in [Run -> RunType] /\ run[r] \in RunType
  BY DEF Typed
<1>1. ASSUME NEW l \in Lineage, NEW m \in Mount, Start(r, l, m) PROVE CarryInv'
  <2>1. (\A q \in Run \ {r} : run'[q] = run[q]) /\ run'[r].pc = "janitor"
    BY <1>0, <1>1 DEF Start, Idle
  <2> QED  BY <1>1, <2>1, CarryFrame DEF Start, Fetched
<1>2. ASSUME NEW p \in PR, JanitorLook(r, p) PROVE CarryInv'
  <2>1. (\A q \in Run \ {r} : run'[q] = run[q]) /\ run'[r].pc \in {"janitor", "remove"}
    BY <1>0, <1>2 DEF JanitorLook, At, RunType
  <2> QED  BY <1>2, <2>1, CarryFrame DEF JanitorLook, Fetched
<1>3. ASSUME JanitorRemove(r) PROVE CarryInv'
  <2>1. (\A q \in Run \ {r} : run'[q] = run[q]) /\ run'[r].pc = "janitor"
    BY <1>0, <1>3 DEF JanitorRemove, RunType
  <2> QED  BY <1>3, <2>1, CarryFrame DEF JanitorRemove, Fetched
<1>4. ASSUME JanitorDone(r) PROVE CarryInv'
  BY <1>4, CarryGoto DEF JanitorDone, Fetched
<1>5. ASSUME ResolveSession(r) PROVE CarryInv'
  BY <1>5, CarryGoto DEF ResolveSession, Fetched
<1>6. ASSUME NEW stamp \in Stamp, LinkSharedStore(r, stamp) PROVE CarryInv'
  <2>1. (Goto(r, "fetch") \/ Goto(r, "create")) /\ UNCHANGED <<actor, stale>>
    BY <1>6 DEF LinkSharedStore
  <2> QED  BY <2>1, CarryGoto DEF Fetched
<1>m. ASSUME NEW copied, NEW skipped, MigrateManufactured(r, copied, skipped) PROVE CarryInv'
  <2>1. PICK pc \in {"fetch", "create"} :
          Goto(r, pc) \/ run' = [run EXCEPT ![r].pc = pc, ![r].skipped = skipped]
    BY <1>m DEF MigrateManufactured
  <2>2. (\A q \in Run \ {r} : run'[q] = run[q]) /\ run'[r].pc = pc
    BY <1>0, <2>1 DEF Goto, RunType
  <2>3. UNCHANGED <<actor, stale>>
    BY <1>m DEF MigrateManufactured
  <2> QED  BY <2>2, <2>3, CarryFrame DEF Fetched
<1>7. ASSUME NEW stamp \in Stamp, NEW made \in {"linked", "unlinked", "unrenamed"},
             CreateLink(r, made, stamp)
      PROVE  CarryInv'
  BY <1>7, CarryGoto DEF CreateLink, Fetched
<1>8. ASSUME NEW ok \in BOOLEAN, Fetch(r, ok) PROVE CarryInv'
  <2>1. /\ \A q \in Run \ {r} : run'[q] = run[q]
        /\ run'[r].lineage = run[r].lineage /\ run'[r].known = ok
        /\ run'[r].prior = IF ok THEN PriorCarry(actor[run[r].lineage[2]]) ELSE <<>>
    BY <1>0, <1>8 DEF Fetch, RunType
  <2>2. UNCHANGED actor /\ stale \ {r} \subseteq stale'
    BY <1>8 DEF Fetch
  <2>3. CarryOf(r)'
    BY <2>1, <2>2 DEF CarryOf
  <2> QED  BY <2>1, <2>2, <2>3, CarryFrame
<1> QED  BY <1>1, <1>2, <1>3, <1>4, <1>5, <1>6, <1>m, <1>7, <1>8

(* A publish makes every carry fetched from that actor stale, its own too.   *)
LEMMA AgentCarried ==
  ASSUME Typed, CarryInv, NEW r \in Run
  PROVE  /\ Reset(r) => CarryInv'
         /\ Spawn(r) => CarryInv'
         /\ WriteTranscript(r) => CarryInv'
         /\ WriteResearch(r) => CarryInv'
         /\ AgentEnds(r) => CarryInv'
         /\ Publish(r) => CarryInv'
         /\ PublishFails(r) => CarryInv'
         /\ \A uploaded \in BOOLEAN : SavePiSession(r, uploaded) => CarryInv'
         /\ Over(r) => CarryInv'
<1>0. run \in [Run -> RunType] /\ run[r] \in RunType
  BY DEF Typed
<1>1. ASSUME Reset(r) PROVE CarryInv'
  BY <1>1, CarryGoto DEF Reset, At, Fetched
<1>2. ASSUME Spawn(r) PROVE CarryInv'
  <2>1. /\ \A q \in Run \ {r} : run'[q] = run[q]
        /\ run'[r].lineage = run[r].lineage /\ run'[r].known = run[r].known
        /\ run'[r].prior = run[r].prior
    BY <1>0, <1>2 DEF Spawn, RunType
  <2>2. run[r].pc \in Fetched /\ UNCHANGED <<actor, stale>>
    BY <1>2 DEF Spawn, At, Fetched
  <2> QED  BY <2>1, <2>2, CarryFrame
<1>3. ASSUME WriteTranscript(r) \/ WriteResearch(r) PROVE CarryInv'
  <2>1. UNCHANGED <<actor, stale, run>>
    BY <1>3 DEF WriteTranscript, WriteResearch
  <2> QED  BY <2>1 DEF CarryInv, CarryOf
<1>4. ASSUME AgentEnds(r) PROVE CarryInv'
  BY <1>4, CarryGoto DEF AgentEnds, At, Fetched
<1>5. ASSUME Publish(r) PROVE CarryInv'
  <2> DEFINE p == run[r].lineage[2]
  <2>1. /\ Goto(r, "save") /\ run[r].pc = "publish"
        /\ stale' = stale \cup {q \in Run : Active(q) /\ run[q].lineage[2] = p
                       /\ run[q].pc \notin {"janitor", "remove", "resolve", "link", "create", "fetch"}}
    BY <1>5 DEF Publish, At
  <2>2. PICK x : actor' = [actor EXCEPT ![p] = x]
    BY <1>5 DEF Publish
  <2>3. r \in stale'
    BY <2>1 DEF Active
  <2>4. ASSUME NEW q \in Run \ {r} PROVE CarryOf(q)'
    <3>1. run'[q] = run[q] /\ CarryOf(q)
      BY <2>1, GotoFacts DEF CarryInv
    <3>2. CASE run[q].lineage[2] = p
      <4>1. run[q].pc \in Fetched => q \in stale'
        BY <2>1, <3>2 DEF Fetched, Active
      <4> QED  BY <3>1, <4>1 DEF CarryOf
    <3>3. CASE run[q].lineage[2] # p
      <4>1. run[q].lineage[2] \in PR
        BY ConstantsAssumption DEF Typed, RunType
      <4>2. actor'[run[q].lineage[2]] = actor[run[q].lineage[2]]
        BY <2>2, <3>3, <4>1 DEF Typed
      <4>3. q \notin stale' => q \notin stale
        BY <2>1
      <4> QED  BY <3>1, <4>2, <4>3 DEF CarryOf
    <3> QED  BY <3>2, <3>3
  <2> QED  BY <2>3, <2>4 DEF CarryInv, CarryOf
<1>6. ASSUME PublishFails(r) PROVE CarryInv'
  BY <1>6, CarryGoto DEF PublishFails, At, Fetched
<1>7. ASSUME NEW uploaded \in BOOLEAN, SavePiSession(r, uploaded) PROVE CarryInv'
  BY <1>7, CarryGoto DEF SavePiSession, At, Fetched
<1>8. ASSUME Over(r) PROVE CarryInv'
  <2>1. (\A q \in Run \ {r} : run'[q] = run[q]) /\ run'[r].pc = "over"
    BY <1>0, <1>8 DEF Over, Idle
  <2> QED  BY <1>8, <2>1, CarryFrame DEF Over, Fetched
<1> QED  BY <1>1, <1>2, <1>3, <1>4, <1>5, <1>6, <1>7, <1>8

LEMMA StepCarried == Typed /\ CarryInv /\ [Next]_vars => CarryInv'
<1> SUFFICES ASSUME Typed, CarryInv, [Next]_vars PROVE CarryInv'
  OBVIOUS
<1>1. ASSUME NEW l \in Lineage, GoesQuiet(l) PROVE CarryInv'
  BY <1>1 DEF GoesQuiet, CarryInv, CarryOf
<1>2. CASE UNCHANGED vars
  BY <1>2 DEF vars, CarryInv, CarryOf
<1> QED  BY <1>1, <1>2, OpeningCarried, AgentCarried DEF Next

LEMMA InitCarried == Init => CarryInv
  BY DEF Init, Idle, CarryInv, CarryOf, Fetched

(* What RoundsKept says of one run.                                          *)
Grown(r) ==
  run[r].pc = "publish" /\ run'[r].pc = "save" /\ run[r].known /\ r \notin stale =>
    LET p == run[r].lineage[2] IN
      actor'[p] # actor[p] =>
        /\ actor'[p].carry[1] = Current(r)
        /\ Tail(actor'[p].carry)
             = SubSeq(PriorCarry(actor[p]), 1, Min({Len(PriorCarry(actor[p])), PriorCap}))

(* A run goes from its publish to its save by publishing or failing to.      *)
LEMMA OnlyPublish ==
  ASSUME Typed, Next, NEW r \in Run, run[r].pc = "publish", run'[r].pc = "save"
  PROVE  PublishFails(r) \/ Publish(r)
<1>1. ASSUME NEW q \in Run, q # r,
             \/ \E l \in Lineage, m \in Mount : Start(q, l, m)
             \/ \E p \in PR : JanitorLook(q, p)
             \/ JanitorRemove(q) \/ JanitorDone(q) \/ ResolveSession(q)
             \/ \E stamp \in Stamp :
                  \/ LinkSharedStore(q, stamp)
                  \/ \E made \in {"linked", "unlinked", "unrenamed"} : CreateLink(q, made, stamp)
             \/ \E copied, skipped \in SUBSET lin[run[q].lineage].objects :
                  MigrateManufactured(q, copied, skipped)
             \/ \E b \in BOOLEAN : Fetch(q, b) \/ SavePiSession(q, b)
             \/ Reset(q) \/ Spawn(q) \/ WriteTranscript(q) \/ WriteResearch(q) \/ AgentEnds(q)
             \/ Publish(q) \/ PublishFails(q) \/ Over(q)
      PROVE  FALSE
  <2>1. run'[r] = run[r]
    BY <1>1, Zenon DEF Typed
       , Start, JanitorLook, JanitorRemove, JanitorDone, ResolveSession, LinkSharedStore,
         MigrateManufactured, CreateLink, Fetch, Publish, SavePiSession, Reset, Spawn,
         WriteTranscript, WriteResearch, AgentEnds, PublishFails, Over, Goto
  <2> QED  BY <2>1
<1>2. \A l \in Lineage : ~GoesQuiet(l)
  BY DEF GoesQuiet
<1>3. ~Over(r)
  BY DEF Over, Idle, Typed
<1>4. /\ \A l \in Lineage, m \in Mount : ~Start(r, l, m)
      /\ \A p \in PR : ~JanitorLook(r, p)
      /\ ~JanitorRemove(r) /\ ~JanitorDone(r) /\ ~ResolveSession(r)
      /\ \A stamp : ~LinkSharedStore(r, stamp)
      /\ \A copied, skipped : ~MigrateManufactured(r, copied, skipped)
  BY DEF At, Start, JanitorLook, JanitorRemove, JanitorDone, ResolveSession, LinkSharedStore,
         MigrateManufactured
<1>5. /\ \A made, stamp : ~CreateLink(r, made, stamp)
      /\ \A b \in BOOLEAN : ~Fetch(r, b) /\ ~SavePiSession(r, b)
      /\ ~Reset(r) /\ ~Spawn(r) /\ ~WriteTranscript(r) /\ ~WriteResearch(r) /\ ~AgentEnds(r)
  BY DEF At, CreateLink, Fetch, SavePiSession, Reset, Spawn, WriteTranscript, WriteResearch, AgentEnds
<1> QED  BY <1>1, <1>2, <1>3, <1>4, <1>5 DEF Next

LEMMA StepGrows ==
  ASSUME Typed, IInv, CarryInv, [Next]_vars, NEW r \in Run
  PROVE  Grown(r)
<1> DEFINE p == run[r].lineage[2]
           prior == PriorCarry(actor[p])
           rest == SubSeq(prior, 1, Min({Len(prior), PriorCap}))
<1> SUFFICES ASSUME run[r].pc = "publish", run'[r].pc = "save", run[r].known, r \notin stale,
                    actor'[p] # actor[p]
             PROVE  actor'[p].carry[1] = Current(r) /\ Tail(actor'[p].carry) = rest
  BY DEF Grown
<1>1. Next /\ ~PublishFails(r)
  BY DEF vars, PublishFails
<1>2. Publish(r)
  BY <1>1, OnlyPublish
<1>3. PICK t \in FindLineageSession(lin[run[r].lineage]) :
        actor' = [actor EXCEPT ![p] = Published(ExtractCarry(t, run[r].prior))]
  BY <1>2 DEF Publish
<1>4. /\ p \in PR /\ actor[p] \in ActorType /\ run[r].lineage \in Lineage
      /\ Current(r) \in Entry
  BY ConstantsAssumption DEF Typed, RunType, Current, Entry, Spawned
<1>5. t = Current(r)
  BY <1>3 DEF FindLineageSession, IInv, CleanOf
<1>6. run[r].prior = prior
  BY DEF CarryInv, CarryOf, Fetched
<1>7. actor'[p].carry = ExtractCarry(Current(r), prior)
  BY <1>3, <1>4, <1>5, <1>6 DEF Typed, Published
<1>8. prior \in Seq(Entry)
  BY <1>4, PriorType
<1> HIDE DEF prior
<1>9. /\ ExtractCarry(Current(r), prior)[1] = Current(r)
      /\ Tail(ExtractCarry(Current(r), prior)) = rest
  BY <1>4, <1>8, CarryParts
<1> QED  BY <1>7, <1>9

(* For any runs, workflows and interleaving: a publish whose run read the    *)
(* carry, and whose carry nobody replaced since, puts its round on top and   *)
(* keeps every earlier round that fits, newest first (ExtractCarry and the   *)
(* actor's publish).                                                         *)
THEOREM TraceGrows == Spec => RoundsKept
<1>1. Typed /\ IInv /\ CarryInv /\ [Next]_vars => \A r \in Run : Grown(r)
  BY StepGrows
<1>2. Spec => [][\A r \in Run : Grown(r)]_vars
  BY <1>1, InitTyped, StepTyped, InitIInv, StepIInv, InitCarried, StepCarried, PTL DEF Spec
<1> QED  BY <1>2 DEF RoundsKept, Grown
==============================================================================
