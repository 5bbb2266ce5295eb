----------------------------- MODULE AttemptJob -----------------------------
(***************************************************************************)
(* How the dispatcher turns a Workflow, its template, the AgentProfile and *)
(* the fleet's configuration into one Job: the template merge, the checks  *)
(* that must refuse before anything is recorded, the composition of the    *)
(* extension set, and the Job's environment and mounts.                    *)
(*                                                                         *)
(* Every field of a spec is a sequence, Empty when it is not declared. A   *)
(* pin is [name, pkg, ver, kind, sri]: the package's version is "exact", a *)
(* "range", or a tag that begins with v ("vtag"); sri says that its        *)
(* integrity has the SRI shape. A path is the sequence of its components.  *)
(***************************************************************************)
EXTENDS RunEnv, FiniteSets, SequencesExt

ReservedStoreNames == {"coverage", "_shared"}

-----------------------------------------------------------------------------
\* The Workflow with its template's defaults: the instance wins where it says
\* anything. The instance's config overlays the prepare step's by key: the one
\* key that matters here is repoWiki, a "url" or an "object"; an object without
\* it is "keys", a config that is no object is "opaque".
ApplyTemplateDefaults(spec, tmpl) ==
    LET merged == [f \in DOMAIN spec |->
                      IF spec[f] = Empty /\ f # "config" THEN tmpl[f] ELSE spec[f]]
        survives == spec.config = <<"keys">> /\ merged.prepareConfig # <<"opaque">>
                        /\ merged.prepareConfig # Empty
    IN [merged EXCEPT !.prepareConfig =
            IF spec.config = Empty \/ survives THEN @ ELSE spec.config]

FetchWorkflow(cr) ==
    IF cr.tmpl = Empty THEN cr.own ELSE ApplyTemplateDefaults(cr.own, cr.tmpl[1])

\* The kind of objective an Attempt of the Workflow has. gate is the kind its
\* gate plugin is listed under; a fork source is the instance's alone.
DeriveKind(spec) ==
    IF spec.fork # Empty THEN "fork-sync"
    ELSE IF spec.reviewReady # Empty THEN "pr-review"
    ELSE IF spec.gate # Empty THEN spec.gate[1] ELSE "documentation-sync"

-----------------------------------------------------------------------------
\* A fleet configuration as the chart's environment spells it.
DispatchConfigFromEnv(raw) ==
    [ok |-> /\ raw.image # ""
            /\ raw.aggregate # "junk"
            /\ \A i \in DOMAIN raw.extra : raw.extra[i].cm # "" /\ raw.extra[i].path # Empty,
     plugins |-> SelectSeq(raw.plugins, LAMBDA cm : cm # ""),
     extra |-> raw.extra,
     aggregate |-> raw.aggregate = "true"]

ValidateNPMSpec(pin) == pin.kind \in {"exact", "vtag"}

ValidateExtensionPins(pins) ==
    \A i \in DOMAIN pins : pins[i].name # "" /\ ValidateNPMSpec(pins[i]) /\ pins[i].sri

\* harness is Empty or <<pin>>, its name the runtime.
ValidateHarnessPin(harness) == ValidateExtensionPins(harness)

Names(pins) == {pins[i].name : i \in DOMAIN pins}

\* Universal pins in order, each replaced by the template's last pin of its
\* name; then the template's own names, each by its first pin.
ComposeExtensions(universal, delta) ==
    LET Shadows(n) == {i \in DOMAIN delta : delta[i].name = n}
        Newest(S) == CHOOSE i \in S : \A j \in S : j <= i
        replaced == [i \in DOMAIN universal |->
                        LET n == universal[i].name
                        IN IF Shadows(n) = {} THEN universal[i] ELSE delta[Newest(Shadows(n))]]
        firsts == {i \in DOMAIN delta :
                      /\ delta[i].name \notin Names(universal)
                      /\ \A j \in Shadows(delta[i].name) : i <= j}
    IN replaced \o [k \in 1..Cardinality(firsts) |->
                        delta[CHOOSE i \in firsts :
                                 Cardinality({j \in firsts : j < i}) = k - 1]]

\* profile is Empty or <<[extensions, harness, compatible]>>.
composeRuntime(profile, spec) ==
    LET universal == IF profile = Empty THEN Empty ELSE profile[1].extensions
        harness == IF profile = Empty THEN Empty ELSE profile[1].harness
    IN [ok |-> /\ ValidateExtensionPins(universal)
               /\ ValidateExtensionPins(spec.extensions)
               /\ ValidateHarnessPin(harness),
        pins |-> ComposeExtensions(universal, spec.extensions),
        harness |-> harness]

-----------------------------------------------------------------------------
ReservedAttemptMountPaths ==
    {<<"workspace">>, <<"skills">>, <<"cache">>, <<"sessions">>, <<"runtime">>, <<"plugins">>}

\* filepath.Clean of an absolute path.
Clean(path) ==
    LET done[i \in 0..Len(path)] ==
            IF i = 0 THEN <<>>
            ELSE IF path[i] = "." THEN done[i - 1]
            ELSE IF path[i] # ".." THEN Append(done[i - 1], path[i])
            ELSE IF done[i - 1] = <<>> THEN <<>> ELSE Front(done[i - 1])
    IN done[Len(path)]

MountPath(at) == IF at.path = Empty THEN <<"attachments", at.name>> ELSE at.path

Effective(at) == Clean(MountPath(at))

\* Compares what was declared, not where it lands.
ValidateAttachmentsRaw(atts, workflow) ==
    \A i, j \in DOMAIN atts :
        /\ atts[i].valid
        /\ i # j => atts[i].name # atts[j].name /\ atts[i].path # atts[j].path
        /\ \A r \in ReservedAttemptMountPaths : atts[i].path # r

ValidateAttachments(atts, workflow) ==
    /\ workflow \in ReservedStoreNames =>
           \A i \in DOMAIN atts : atts[i].scope # "repository"
    /\ \A i \in DOMAIN atts :
        /\ atts[i].valid
        /\ Effective(atts[i]) # <<>>
        /\ \A r \in ReservedAttemptMountPaths : ~IsPrefix(r, Effective(atts[i]))
        /\ \A j \in DOMAIN atts \ {i} :
               atts[j].name # atts[i].name /\ Effective(atts[j]) # Effective(atts[i])

\* The only key of the instance's config that the workspace plugin types.
ValidateRepoWikiConfig(spec) == spec.config # <<"object">>

\* What Dispatch checks before it asks the gate or records anything.
ValidSpec(spec, workflow) ==
    ValidateAttachments(spec.attachments, workflow) /\ ValidateRepoWikiConfig(spec)

-----------------------------------------------------------------------------
AttachmentSubPath(scope, workflow, repo, attempt) ==
    IF scope = "repository" THEN repo
    ELSE IF scope = "attempt" THEN <<attempt>> ELSE <<workflow>>

\* The attachments a Job mounts: a repository scope without a repository
\* shares nothing and is left out.
Mounted(p) ==
    {i \in DOMAIN p.spec.attachments :
        AttachmentSubPath(p.spec.attachments[i].scope, p.workflow, p.repo, p.attempt) # Empty}

Materializes(p) == p.pins # Empty \/ p.harness # Empty

Projects(p) == p.fleet.aggregate \/ p.spec.pluginsRef # Empty

\* The mount points that are the builder's own.
OwnMounts(p) ==
    {"workspace", "skills"}
    \cup (IF p.spec.cache = Empty THEN {} ELSE {"cache"})
    \cup (IF p.spec.sessions = Empty THEN {} ELSE {"sessions"})
    \cup (IF Materializes(p) THEN {"runtime"} ELSE {})
    \cup (IF Projects(p) THEN {"plugins"} ELSE {})

\* The mount paths of the run container, by what each mount is for; their
\* order says nothing to the apiserver.
JobMounts(p) ==
    LET mounts == (OwnMounts(p) \X {0})
                  \cup ({"attachment"} \X Mounted(p))
                  \cup ({"extra"} \X DOMAIN p.fleet.extra)
                  \cup ({"plugin"} \X DOMAIN p.fleet.plugins)
    IN [m \in mounts |->
           CASE m[1] = "attachment" -> MountPath(p.spec.attachments[m[2]])
             [] m[1] = "extra"      -> p.fleet.extra[m[2]].path
             [] m[1] = "plugin"     -> <<"plugins", p.fleet.plugins[m[2]]>>
             [] OTHER               -> <<m[1]>>]

SharedStore(p) ==
    LET stores == {at \in {p.spec.attachments[i] : i \in Mounted(p)} :
                      at.name = "sol-pi" /\ at.scope = "repository"}
    IN IF stores = {} THEN NoEnv
       ELSE Set("HARMOSTES_SOL_PI_STORE", MountPath(CHOOSE at \in stores : TRUE))

SessionsEnv(p) ==
    IF p.spec.sessions = Empty THEN NoEnv
    ELSE Appended(Set("HARMOSTES_PI_SESSIONS", <<"sessions">>),
                  Set("HARMOSTES_SESSIONS_TTL", <<"336h">>))

\* The run container's environment: the builder's own entries, the
\* dispatcher's, then what the mounts call for.
JobEnv(p) ==
    Appended(
        Appended(
            Appended(Appended(Set("HARMOSTES_WORKFLOW", <<p.workflow>>),
                              Set("HARMOSTES_DAPR_REQUIRED", <<"true">>)),
                     p.extraEnv),
            SessionsEnv(p)),
        SharedStore(p))

BuildJob(p) ==
    [env |-> JobEnv(p),
     mounts |-> JobMounts(p),
     pins |-> p.pins,
     harness |-> p.harness,
     refs |-> p.spec.pluginsRef,
     aggregate |-> p.fleet.aggregate]

\* A volume is named for its ConfigMap, not for where it is mounted.
VolumeNames(extra) == [i \in DOMAIN extra |-> extra[i].cm]

\* The apiserver refuses a container that mounts one path twice, and a pod
\* with two volumes of one name.
Accepted(mounts, fleet) == IsInjective(mounts) /\ IsInjective(VolumeNames(fleet.extra))

\* A ConfigMap of the fleet is mounted where something else is, or the fleet
\* names a ConfigMap twice.
FleetCollides(mounts, fleet) ==
    \/ \E i, j \in DOMAIN mounts :
          i # j /\ mounts[i] = mounts[j] /\ \E k \in DOMAIN fleet.extra : mounts[i] = fleet.extra[k].path
    \/ ~IsInjective(fleet.plugins)
    \/ ~IsInjective(VolumeNames(fleet.extra))
=============================================================================
