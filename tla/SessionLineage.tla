--------------------------- MODULE SessionLineage ---------------------------
(***************************************************************************)
(* What review rounds of one pull request leave to each other: the trace   *)
(* (carry) kept by the PRLineage actor, the pi transcripts in the lineage  *)
(* directory on the workflow's session volume, and the research objects of *)
(* the SoL-Pi extension, which go through the directory's sol-pi component *)
(* into a store shared by the workflows of a repository.                   *)
(*                                                                         *)
(* A run is one worker process: it prunes idle lineages, opens its own,    *)
(* links the shared store, fetches the carry, clears stale transcripts,    *)
(* and then, once for each agent node it walks, spawns pi, publishes the   *)
(* carry and uploads the transcript.  Other runs go on between any two of  *)
(* these steps.  Runs of one workflow on one pull request follow one       *)
(* another (the review claim); runs of two workflows share the actor and   *)
(* overlap freely, as do the runs of a workflow on two pull requests,      *)
(* which share its volume.                                                 *)
(***************************************************************************)
EXTENDS Naturals, Sequences, SequencesExt, FiniteSets

CONSTANTS Run,            \* worker processes
          Workflow, PR,
          Lineage,        \* the workflows' pull requests
          OldDirectory,   \* lineages whose directory is older than the shared store
          OldSession,     \* pull requests whose actor holds a whole transcript
          Reserved,       \* workflows named like a namespace of the store
          Mount,          \* the states a run may find the store's mount in
          AgentNodes,     \* agent nodes a run of each workflow walks
          PriorCap        \* rounds of a prior carry that fit in half a carry

ASSUME ConstantsAssumption ==
  /\ Lineage \subseteq Workflow \X PR /\ Lineage # {}
  /\ OldDirectory \subseteq Lineage /\ OldSession \subseteq PR
  /\ Reserved \subseteq Workflow
  /\ Mount \subseteq {"none", "mounted", "ephemeral", "readonly", "uncreatable"}
  /\ AgentNodes \in [Workflow -> Nat \ {0}] /\ PriorCap \in Nat

\* One spawn of an agent.  Its transcript and its research carry its name.
Round == Run \X UNION {1..AgentNodes[w] : w \in Workflow}
\* The round a legacy transcript, stored before carries were, is folded to.
LegacyRound == <<"legacy", 1>>

VARIABLES lin,     \* lineage directories
          actor,   \* PRLineage actor of each pull request
          store,   \* objects in the shared store
          run,     \* program counter and variables of each run
          stale,   \* history: runs whose fetched carry has been replaced since
          exposed  \* history: runs whose lineage was removed under them, or whose
                   \* rename or fallback the file system refused

vars == <<lin, actor, store, run, stale, exposed>>

\* The sol-pi component of a lineage directory: nothing, a link to the shared
\* store, or a real directory: with the manufactured marker, without it, or
\* without any file.
Component == {"absent", "link", "marked", "legacy", "empty"}

Directory == [there : BOOLEAN, transcripts : SUBSET Round, comp : Component,
              objects : SUBSET Round, quiet : BOOLEAN]
NoDirectory == [there |-> FALSE, transcripts |-> {}, comp |-> "absent",
                objects |-> {}, quiet |-> FALSE]

\* The generation, which no part reads but to show it, is left out.
NoLineage == [carry |-> <<>>, session |-> FALSE]

Pc == {"idle", "janitor", "remove", "resolve", "link", "create", "fetch", "reset",
       "spawn", "agent", "publish", "save", "over"}

Idle == [pc |-> "idle", lineage |-> CHOOSE l \in Lineage : TRUE, mount |-> "none",
         left |-> {}, doomed |-> {}, prior |-> <<>>, known |-> FALSE, spawns |-> 0,
         skipped |-> {}]  \* history: the objects its migration passed over

TypeOK ==
  /\ lin \in [Lineage -> Directory]
  /\ \A l \in Lineage :
       /\ ~lin[l].there => lin[l] = NoDirectory
       /\ lin[l].comp \in {"absent", "link", "empty"} => lin[l].objects = {}
  /\ \A p \in PR : /\ actor[p].session \in BOOLEAN
                   /\ Len(actor[p].carry) <= PriorCap + 1
                   /\ Range(actor[p].carry) \subseteq Round \cup {LegacyRound}
  /\ store \subseteq Round
  /\ \A r \in Run :
       /\ run[r].pc \in Pc /\ run[r].lineage \in Lineage
       /\ run[r].mount \in Mount \cup {"none"} /\ run[r].left \subseteq PR
       /\ run[r].doomed \subseteq PR /\ run[r].skipped \subseteq Round /\ run[r].spawns \in 0..AgentNodes[run[r].lineage[1]]
  /\ stale \subseteq Run /\ exposed \subseteq Run

Active(r) == run[r].pc \notin {"idle", "over"}
ActiveOn(l) == \E r \in Run : Active(r) /\ run[r].lineage = l
           /\ run[r].pc \notin {"janitor", "remove", "resolve"}
Current(r) == <<r, run[r].spawns>>
At(r, pc) == run[r].pc = pc
Goto(r, pc) == run' = [run EXCEPT ![r].pc = pc]

Init ==
  /\ lin = [l \in Lineage |-> IF l \in OldDirectory
                               THEN [NoDirectory EXCEPT !.there = TRUE, !.comp = "legacy"]
                               ELSE NoDirectory]
  /\ actor = [p \in PR |-> IF p \in OldSession
                            THEN [NoLineage EXCEPT !.session = TRUE]
                            ELSE NoLineage]
  /\ store = {}
  /\ run = [r \in Run |-> Idle]
  /\ stale = {} /\ exposed = {}

-----------------------------------------------------------------------------
(* The janitor of a starting run.                                          *)

\* newestFileMtime: links and directories are no files, and a directory
\* without files has the zero time.  A legacy component holds files.
HasFiles(d) == d.transcripts # {} \/ d.comp \in {"marked", "legacy"}
Expired(d) == d.there /\ (HasFiles(d) => d.quiet)

\* A worker starts on a wake for a pull request.
Start(r, l, m) ==
  /\ At(r, "idle")
  /\ \A q \in Run : Active(q) => run[q].lineage # l
  /\ run' = [run EXCEPT ![r] = [Idle EXCEPT !.pc = "janitor", !.lineage = l, !.mount = m,
                                 !.left = {p \in PR : <<l[1], p>> \in Lineage /\ lin[<<l[1], p>>].there}]]
  /\ UNCHANGED <<lin, actor, store, stale, exposed>>

\* JanitorSessions looks at one directory of its root ...
JanitorLook(r, p) ==
  /\ At(r, "janitor") /\ p \in run[r].left
  /\ IF Expired(lin[<<run[r].lineage[1], p>>])
     THEN run' = [run EXCEPT ![r].pc = "remove", ![r].doomed = {p}, ![r].left = @ \ {p}]
     ELSE run' = [run EXCEPT ![r].left = @ \ {p}]
  /\ UNCHANGED <<lin, actor, store, stale, exposed>>

\* ... and removes it, whoever has begun to use it since.
JanitorRemove(r) ==
  /\ At(r, "remove")
  /\ LET l == <<run[r].lineage[1], CHOOSE p \in PR : p \in run[r].doomed>>
     IN  /\ lin' = [lin EXCEPT ![l] = NoDirectory]
         /\ exposed' = exposed \cup {q \in Run : Active(q) /\ run[q].lineage = l
                                     /\ run[q].pc \notin {"janitor", "remove", "resolve"}}
  /\ run' = [run EXCEPT ![r].pc = "janitor", ![r].doomed = {}]
  /\ UNCHANGED <<actor, store, stale>>

JanitorDone(r) ==
  /\ At(r, "janitor") /\ run[r].left = {}
  /\ Goto(r, "resolve")
  /\ UNCHANGED <<lin, actor, store, stale, exposed>>

\* ResolveSession makes the directory.
ResolveSession(r) ==
  /\ At(r, "resolve")
  /\ lin' = [lin EXCEPT ![run[r].lineage].there = TRUE]
  /\ Goto(r, "link")
  /\ UNCHANGED <<actor, store, stale, exposed>>

-----------------------------------------------------------------------------
(* Linking the shared store.                                               *)

\* MkdirAll of the workflow's leaf: root creates any missing directory, on the
\* pod's own layer where nothing is mounted.
LeafMade(m) == m \in {"mounted", "ephemeral", "readonly"}
LeafWritable(m) == m \in {"mounted", "ephemeral"}

\* Variants used to check that the properties can be violated.
MigratedByError(d, copied, skipped) == TRUE
stampNothing(d, stamp) == d
ExtractCarryTail(round, prior) ==
  <<round>> \o SubSeq(prior, Len(prior) - Min({Len(prior), PriorCap}) + 1, Len(prior))
UploadedKeepsFailed(d, uploaded) == IF uploaded THEN [d EXCEPT !.transcripts = {}] ELSE d

\* stampFallback: a dangling link stays as it is; otherwise the component is
\* made a directory if it is none and gets the marker, whoever made it.  The
\* errors of both calls are ignored.
Stamp == {"done", "unmarked", "refused"}

stampFallback(d, stamp) ==
  IF d.comp = "link" \/ stamp = "refused" THEN d
  ELSE [d EXCEPT !.there = TRUE,
                 !.comp  = IF stamp = "done" THEN "marked" ELSE IF @ = "absent" THEN "empty" ELSE @,
                 !.quiet = IF stamp = "done" THEN FALSE ELSE @]

\* The runs whose component the file system may have left absent.
ExposedIf(refused, r) == exposed' = IF refused THEN exposed \cup {r} ELSE exposed

\* What a run finds at its component decides whether it goes on to create the
\* link: a link stays, a directory whose marker is not found is honored.
LinkSharedStore(r, stamp) ==
  LET l == run[r].lineage
      m == run[r].mount
      d == lin[l]
  IN /\ At(r, "link")
     /\ \/ /\ l[1] \in Reserved
           /\ Goto(r, "fetch") /\ UNCHANGED <<lin, exposed>>
        \/ /\ l[1] \notin Reserved /\ m = "none"
           /\ lin' \in {lin, [lin EXCEPT ![l].comp = IF @ = "link" THEN "absent" ELSE @]}
           /\ Goto(r, "fetch") /\ UNCHANGED exposed
        \/ /\ l[1] \notin Reserved /\ m # "none" /\ ~LeafMade(m)
           /\ lin' = [lin EXCEPT ![l] = stampFallback(@, stamp)]
           /\ ExposedIf(stamp = "refused", r)
           /\ Goto(r, "fetch")
        \/ /\ l[1] \notin Reserved /\ LeafMade(m)
           /\ Goto(r, IF d.comp = "absent" THEN "create" ELSE "fetch")
           /\ UNCHANGED <<lin, exposed>>
     /\ UNCHANGED <<actor, store, stale>>

\* moved = total: the files migrateManufactured counted are those it copied.
Migrated(d, copied, skipped) == copied \cup skipped = d.objects

\* A marked directory is copied file by file.  A copy that fails is counted; a
\* file or subtree the walk cannot read is skipped and not counted.  If nothing
\* that was counted failed, the directory is removed; a removal that fails
\* leaves some of it.
MigrateManufactured(r, copied, skipped) ==
  LET l == run[r].lineage
      m == run[r].mount
      d == lin[l]
      Left(comp, objects) == [lin EXCEPT ![l].comp = comp, ![l].objects = objects]
  IN /\ At(r, "link") /\ l[1] \notin Reserved /\ LeafMade(m) /\ d.comp = "marked"
     /\ copied \subseteq d.objects /\ skipped \subseteq d.objects \ copied
     /\ LeafWritable(m) \/ copied = {}
     /\ store' = IF m = "mounted" THEN store \cup copied ELSE store
     /\ \/ /\ ~Migrated(d, copied, skipped)
           /\ Goto(r, "fetch") /\ UNCHANGED lin
        \/ /\ Migrated(d, copied, skipped)
           /\ \/ lin' = Left("absent", {}) /\ run' = [run EXCEPT ![r].pc = "create", ![r].skipped = skipped]
              \/ /\ \E rest \in SUBSET d.objects, comp \in {"marked", "legacy", "empty"} :
                      (comp = "empty" => rest = {}) /\ lin' = Left(comp, rest)
                 /\ run' = [run EXCEPT ![r].pc = "fetch", ![r].skipped = skipped]
     /\ UNCHANGED <<actor, stale, exposed>>

\* The link is made under another name and renamed.  If it cannot be made, and
\* there is nothing, the component is a marked directory; if it cannot be
\* renamed, nothing is done.
CreateLink(r, made, stamp) ==
  LET l == run[r].lineage
      d == lin[l]
  IN /\ At(r, "create")
     /\ \/ /\ made = "linked" /\ d.there
           /\ lin' = [lin EXCEPT ![l].comp = "link"] /\ UNCHANGED exposed
        \/ /\ made = "unrenamed" /\ d.there
           /\ ExposedIf(TRUE, r) /\ UNCHANGED lin
        \/ /\ made = "unlinked"
           /\ lin' = [lin EXCEPT ![l] = IF d.comp = "absent" THEN stampFallback(@, stamp) ELSE @]
           /\ ExposedIf(stamp = "refused", r)
     /\ Goto(r, "fetch")
     /\ UNCHANGED <<actor, store, stale>>

-----------------------------------------------------------------------------
(* The trace.                                                              *)

\* ExtractCarry: this round, then the newest of the prior ones, in rounds that
\* each take the same share.
ExtractCarry(round, prior) == <<round>> \o SubSeq(prior, 1, Min({Len(prior), PriorCap}))

\* What a fetch makes of the actor's state; a legacy transcript is folded.
PriorCarry(a) ==
  IF a.carry = <<>> /\ a.session THEN ExtractCarry(LegacyRound, <<>>) ELSE a.carry

\* Fetch: the call may fail, and the actor answers with an empty lineage when
\* it cannot read its state; the run goes on either way.
Fetch(r, ok) ==
  LET p == run[r].lineage[2]
  IN /\ At(r, "fetch")
     /\ run' = [run EXCEPT ![r].pc = "reset", ![r].known = ok,
                           ![r].prior = IF ok THEN PriorCarry(actor[p]) ELSE <<>>,
                           ![r].skipped = {}]
     /\ stale' = stale \ {r}
     /\ UNCHANGED <<lin, actor, store, exposed>>

\* ResetLineage removes every transcript of the stable id.
ResetLineage(d) == [d EXCEPT !.transcripts = {}]

Reset(r) ==
  /\ At(r, "reset")
  /\ lin' = [lin EXCEPT ![run[r].lineage] = ResetLineage(@)]
  /\ Goto(r, "spawn")
  /\ UNCHANGED <<actor, store, stale, exposed>>

-----------------------------------------------------------------------------
(* The agent nodes of the run.                                             *)

\* NewRPC makes the directory again if it is gone.
Spawn(r) ==
  /\ At(r, "spawn") /\ run[r].spawns < AgentNodes[run[r].lineage[1]]
  /\ lin' = [lin EXCEPT ![run[r].lineage].there = TRUE]
  /\ run' = [run EXCEPT ![r].pc = "agent", ![r].spawns = @ + 1]
  /\ UNCHANGED <<actor, store, stale, exposed>>

\* pi writes its transcript after each turn.  (External.)
WriteTranscript(r) ==
  LET l == run[r].lineage
  IN /\ At(r, "agent") /\ lin[l].there /\ Current(r) \notin lin[l].transcripts
     /\ lin' = [lin EXCEPT ![l].transcripts = @ \cup {Current(r)}, ![l].quiet = FALSE]
     /\ UNCHANGED <<actor, store, run, stale, exposed>>

\* The extension makes the directories it needs and writes an object.  Through
\* a link it goes where the run's mount leads, or nowhere.
WriteResearch(r) ==
  LET l == run[r].lineage
      d == lin[l]
  IN /\ At(r, "agent")
     /\ IF d.comp = "link"
        THEN /\ run[r].mount = "mounted" /\ Current(r) \notin store
             /\ store' = store \cup {Current(r)}
             /\ UNCHANGED lin
        ELSE /\ Current(r) \notin d.objects
             /\ lin' = [lin EXCEPT ![l] = [d EXCEPT
                          !.there = TRUE, !.objects = @ \cup {Current(r)}, !.quiet = FALSE,
                          !.comp = IF @ \in {"absent", "empty"} THEN "legacy" ELSE @]]
             /\ UNCHANGED store
     /\ UNCHANGED <<actor, run, stale, exposed>>

\* pi has exited; without a session file nothing is published or uploaded.
AgentEnds(r) ==
  /\ At(r, "agent")
  /\ Goto(r, IF lin[run[r].lineage].transcripts = {} THEN "spawn" ELSE "publish")
  /\ UNCHANGED <<lin, actor, store, stale, exposed>>

\* FindLineageSession takes the newest file of the id; the run's own is the
\* newest there is.
FindLineageSession(d) == {t \in d.transcripts : \A u \in d.transcripts : u[2] <= t[2]}

\* The actor's turn: what it is given replaces what it holds.
Published(carry) == [carry |-> carry, session |-> FALSE]

\* The publish of a run: the round's trace on top of the carry it fetched.
Publish(r) ==
  LET l == run[r].lineage
      p == l[2]
  IN /\ At(r, "publish")
     /\ \E t \in FindLineageSession(lin[l]) :
          actor' = [actor EXCEPT ![p] = Published(ExtractCarry(t, run[r].prior))]
     /\ stale' = stale \cup {q \in Run : Active(q) /\ run[q].lineage[2] = p
                               /\ run[q].pc \notin {"janitor", "remove", "resolve", "link", "create", "fetch"}}
     /\ Goto(r, "save")
     /\ UNCHANGED <<lin, store, exposed>>

\* The publish fails, or the file is gone: the run goes on without it.
PublishFails(r) ==
  /\ At(r, "publish")
  /\ Goto(r, "save")
  /\ UNCHANGED <<lin, actor, store, stale, exposed>>

\* SavePiSession removes the file it tried to upload, on success and failure.
Uploaded(d, uploaded) == [d EXCEPT !.transcripts = @ \ FindLineageSession(d)]

SavePiSession(r, uploaded) ==
  /\ At(r, "save")
  /\ lin' = [lin EXCEPT ![run[r].lineage] = Uploaded(@, uploaded)]
  /\ Goto(r, "spawn")
  /\ UNCHANGED <<actor, store, stale, exposed>>

\* The run ends after its agent nodes, or its pod is killed anywhere.
Over(r) ==
  /\ Active(r)
  /\ run' = [run EXCEPT ![r] = [Idle EXCEPT !.pc = "over"]]
  /\ stale' = stale \ {r} /\ exposed' = exposed \ {r}
  /\ UNCHANGED <<lin, actor, store>>

\* Nothing is written in a lineage for longer than its time to live.  A run
\* is shorter than that.
GoesQuiet(l) ==
  /\ HasFiles(lin[l]) /\ ~lin[l].quiet /\ ~ActiveOn(l)
  /\ lin' = [lin EXCEPT ![l].quiet = TRUE]
  /\ UNCHANGED <<actor, store, run, stale, exposed>>

Next ==
  \/ \E r \in Run :
       \/ \E l \in Lineage, m \in Mount : Start(r, l, m)
       \/ \E p \in PR : JanitorLook(r, p)
       \/ JanitorRemove(r) \/ JanitorDone(r) \/ ResolveSession(r)
       \/ \E stamp \in Stamp : \/ LinkSharedStore(r, stamp)
                               \/ \E made \in {"linked", "unlinked", "unrenamed"} : CreateLink(r, made, stamp)
       \/ \E copied, skipped \in SUBSET lin[run[r].lineage].objects : MigrateManufactured(r, copied, skipped)
       \/ \E b \in BOOLEAN : Fetch(r, b) \/ SavePiSession(r, b)
       \/ Reset(r) \/ Spawn(r) \/ WriteTranscript(r) \/ WriteResearch(r) \/ AgentEnds(r)
       \/ Publish(r) \/ PublishFails(r) \/ Over(r)
  \/ \E l \in Lineage : GoesQuiet(l)

Spec == Init /\ [][Next]_vars

-----------------------------------------------------------------------------
(* Properties.                                                             *)

\* Rounds start fresh (ADR-0022): while an agent works, its lineage holds no
\* transcript but its own, so the stable session id cannot adopt the
\* conversation of an earlier round, of a killed run or of the same run's
\* earlier agent node, whichever upload failed.
FreshSession ==
  \A r \in Run : At(r, "agent") => lin[run[r].lineage].transcripts \subseteq {Current(r)}

\* Link discipline: while a store is declared, an agent never finds its
\* component absent, where the extension would put an unmarked directory that
\* is honored for ever, whatever the mount and whether the link could be made;
\* unless a janitor removed the lineage under it or the file system refused
\* the rename or the fallback (LinkSharedStore, which ignores both errors).
LinkDiscipline ==
  \A r \in Run :
    At(r, "agent") /\ run[r].mount # "none" /\ run[r].lineage[1] \notin Reserved /\ r \notin exposed
      => lin[run[r].lineage].comp # "absent"

Kept(o) == o \in store \/ \E l \in Lineage : o \in lin[l].objects

\* Paid-for research survives: an object that reached the volume or the shared
\* store is lost only to a janitor, or to a migration: onto a path nothing is
\* mounted at, or whose walk passed over that object without counting it.  An
\* object whose copy failed is never lost, however many others were copied
\* (migrateManufactured's counts and the RemoveAll they allow).
ResearchKept ==
  [][\A o \in Round : Kept(o) /\ ~Kept(o)' =>
       \E r \in Run : \/ run[r].pc = "remove" /\ run'[r].pc = "janitor"
                      \/ /\ run[r].pc = "link" /\ run'[r].pc # "link"
                         /\ run[r].mount = "ephemeral" \/ o \in run'[r].skipped]_vars

\* The trace grows by whole rounds, newest first: a publish whose run read the
\* carry, and whose carry nobody replaced since (another workflow's review, or
\* an earlier agent node of the same run), keeps every round that fits.
RoundsKept ==
  [][\A r \in Run : run[r].pc = "publish" /\ run'[r].pc = "save" /\ run[r].known /\ r \notin stale =>
       LET p == run[r].lineage[2] IN
         actor'[p] # actor[p] =>
           /\ actor'[p].carry[1] = Current(r)
           /\ Tail(actor'[p].carry)
                = SubSeq(PriorCarry(actor[p]), 1, Min({Len(PriorCarry(actor[p])), PriorCap}))]_vars
=============================================================================
