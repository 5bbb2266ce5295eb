-------------------------- MODULE AttemptPod_proofs --------------------------
(* One Attempt, for any number of runs, any Workflow, template, profile, pool *)
(* and trigger: what a run's children may see of its environment, which pull *)
(* request the run is about, what its session loads, and what its evidence   *)
(* shows. The first part is about the environments alone. Then come the      *)
(* shape of the state and, for every action, what it leaves alone, which all *)
(* the rest uses; then one inductive invariant per subject:                  *)
(*   EvidenceInv  an event of a boundary is written once, in its stage;      *)
(*   RuntimeInv   what is unpacked is a prefix of the manifest, and all of   *)
(*                it once the pod has started;                               *)
(*   EnvInv       a process holds the environment its Job was built with;    *)
(*   RefusedInv   a dispatch under way holds a valid specification.          *)
EXTENDS AttemptPod, SequenceTheorems, FiniteSetTheorems, TLAPS

LEMMA FilterDomain ==
  ASSUME NEW env, NEW keys
  PROVE  DOMAIN FilterEnv(env, keys) = DOMAIN env \ keys
  BY DEF FilterEnv

LEMMA ChildDomain ==
  ASSUME NEW env
  PROVE  DOMAIN ChildEnv(env) = DOMAIN env \ {BotTokenEnvKey, BotHostEnvKey}
<1> DEFINE keys == {BotTokenEnvKey, BotHostEnvKey}
<1>1. ChildEnv(env) = FilterEnv(env, keys)
  BY DEF ChildEnv
<1> HIDE DEF keys
<1>2. DOMAIN FilterEnv(env, keys) = DOMAIN env \ keys
  BY FilterDomain
<1> QED  BY <1>1, <1>2 DEF keys

LEMMA AppendedDomain ==
  ASSUME NEW env, NEW more
  PROVE  DOMAIN Appended(env, more) = DOMAIN env \cup DOMAIN more
  BY DEF Appended

LEMMA SetDomain ==
  /\ \A name, value : DOMAIN Set(name, value) = {name}
  /\ \A name, value : DOMAIN NonEmpty(name, value) \subseteq {name}
  /\ DOMAIN NoEnv = {}
  BY DEF Set, NonEmpty, NoEnv

(* The names an attempt's Job gets from the dispatcher besides credentials.  *)
LEMMA DispatchDomain ==
  ASSUME NEW req, NEW attempt, NEW envelope
  PROVE  DOMAIN dispatchEnv(req, attempt, envelope) \subseteq
             {"HARMOSTES_ATTEMPT", "HARMOSTES_DISPATCHED_ATTEMPT", "HARMOSTES_TRIGGER_REPO",
              "HARMOSTES_TRIGGER_PR", "HARMOSTES_TRIGGER_SHA", "HARMOSTES_TRIGGER_REVISION"}
<1>1. DOMAIN EnvelopeEnv(envelope[1]) =
          {"HARMOSTES_TRIGGER_REPO", "HARMOSTES_TRIGGER_PR", "HARMOSTES_TRIGGER_SHA"}
  <2>1. DEFINE a == Set("HARMOSTES_TRIGGER_REPO", <<envelope[1].repo>>)
               b == Set("HARMOSTES_TRIGGER_PR", <<envelope[1].pr>>)
               c == Set("HARMOSTES_TRIGGER_SHA", <<envelope[1].sha>>)
  <2>2. /\ DOMAIN a = {"HARMOSTES_TRIGGER_REPO"} /\ DOMAIN b = {"HARMOSTES_TRIGGER_PR"}
        /\ DOMAIN c = {"HARMOSTES_TRIGGER_SHA"}
    BY SetDomain
  <2>3. EnvelopeEnv(envelope[1]) = Appended(a, Appended(b, c))
    BY DEF EnvelopeEnv
  <2>4. HIDE DEF a, b, c
  <2>5. DOMAIN EnvelopeEnv(envelope[1]) = DOMAIN a \cup (DOMAIN b \cup DOMAIN c)
    BY <2>3 DEF Appended
  <2> QED  BY <2>2, <2>5
<1>2. DEFINE a == Set("HARMOSTES_ATTEMPT", <<attempt>>)
             b == Set("HARMOSTES_DISPATCHED_ATTEMPT", <<attempt>>)
             c == EnvelopeEnv(envelope[1])
             d == NonEmpty("HARMOSTES_TRIGGER_PR", req.pr)
             e == NonEmpty("HARMOSTES_TRIGGER_REVISION", req.revision)
<1>3. /\ DOMAIN a = {"HARMOSTES_ATTEMPT"} /\ DOMAIN b = {"HARMOSTES_DISPATCHED_ATTEMPT"}
      /\ DOMAIN d \subseteq {"HARMOSTES_TRIGGER_PR"}
      /\ DOMAIN e \subseteq {"HARMOSTES_TRIGGER_REVISION"}
  BY SetDomain
<1>4. dispatchEnv(req, attempt, envelope) = Appended(Appended(a, b), c)
        \/ dispatchEnv(req, attempt, envelope) = Appended(Appended(a, b), Appended(d, e))
  BY DEF dispatchEnv
<1>5. DOMAIN c = {"HARMOSTES_TRIGGER_REPO", "HARMOSTES_TRIGGER_PR", "HARMOSTES_TRIGGER_SHA"}
  BY <1>1
<1>6. HIDE DEF a, b, c, d, e
<1>7. /\ DOMAIN Appended(Appended(a, b), c) = DOMAIN a \cup DOMAIN b \cup DOMAIN c
      /\ DOMAIN Appended(Appended(a, b), Appended(d, e))
           = (DOMAIN a \cup DOMAIN b) \cup (DOMAIN d \cup DOMAIN e)
  <2>1. DOMAIN Appended(Appended(a, b), c) = DOMAIN a \cup DOMAIN b \cup DOMAIN c
    BY DEF Appended
  <2>2. DEFINE x == Appended(d, e)
  <2>3. DOMAIN x = DOMAIN d \cup DOMAIN e
    BY AppendedDomain
  <2>4. HIDE DEF x
  <2>5. DOMAIN Appended(Appended(a, b), x) = (DOMAIN a \cup DOMAIN b) \cup DOMAIN x
    BY DEF Appended
  <2> QED  BY <2>1, <2>3, <2>5 DEF x
<1> QED  BY <1>3, <1>4, <1>5, <1>7

(* The names of a Job's credentials: the allowlist's, the budget's and the   *)
(* loop breaker of a review; the posting token only for a review.            *)
LEMMA CredentialDomain ==
  ASSUME NEW pool, NEW budget, NEW isReview \in BOOLEAN
  PROVE  LET names == DOMAIN jobCredentialEnv(pool, budget, isReview) IN
         /\ names \subseteq jobEnvAllowlist \cup {"PI_LOOP_BREAKER"}
         /\ PostToken \in names => isReview
<1>1. DEFINE wanted == (jobEnvAllowlist \ dropFromAllowlist(budget))
                           \ (IF isReview THEN {} ELSE {PostToken})
             forwarded == [n \in {m \in wanted \cap DOMAIN pool : pool[m] # Empty} |-> pool[n]]
             breaker == IF isReview THEN Set("PI_LOOP_BREAKER", <<"1">>) ELSE NoEnv
<1>2. jobCredentialEnv(pool, budget, isReview)
         = Appended(Appended(forwarded, overrides(budget)), breaker)
  BY DEF jobCredentialEnv
<1>3. DOMAIN forwarded \subseteq wanted
  OBVIOUS
<1>4. DOMAIN overrides(budget) \subseteq {"PI_TOOL_BUDGET", "PI_TOOL_BUDGET_NUDGE"}
  <2>1. DEFINE a == Set("PI_TOOL_BUDGET", budget)
               b == Set("PI_TOOL_BUDGET_NUDGE", <<budget[1] \div 2>>)
  <2>2. DOMAIN a = {"PI_TOOL_BUDGET"} /\ DOMAIN b = {"PI_TOOL_BUDGET_NUDGE"}
    BY SetDomain
  <2>3. overrides(budget) = NoEnv \/ overrides(budget) = Appended(a, b)
    BY DEF overrides
  <2>4. HIDE DEF a, b
  <2>5. DOMAIN Appended(a, b) = DOMAIN a \cup DOMAIN b /\ DOMAIN NoEnv = {}
    BY AppendedDomain, SetDomain
  <2> QED  BY <2>2, <2>3, <2>5
<1>5. DOMAIN breaker \subseteq {"PI_LOOP_BREAKER"}
  BY SetDomain
<1>6. /\ wanted \subseteq jobEnvAllowlist
      /\ PostToken \in wanted => isReview
      /\ {"PI_TOOL_BUDGET", "PI_TOOL_BUDGET_NUDGE"} \subseteq jobEnvAllowlist
      /\ PostToken \notin {"PI_TOOL_BUDGET", "PI_TOOL_BUDGET_NUDGE", "PI_LOOP_BREAKER"}
  BY DEF jobEnvAllowlist, budgetTrio, PostToken
<1>7. HIDE DEF wanted, forwarded, breaker
<1>8. DOMAIN jobCredentialEnv(pool, budget, isReview)
         = DOMAIN forwarded \cup DOMAIN overrides(budget) \cup DOMAIN breaker
  BY <1>2, AppendedDomain
<1> QED  BY <1>3, <1>4, <1>5, <1>6, <1>8

(* A spawn adds at most the two variables of the code graph's freshness, and *)
(* drops what sessions are not to have.                                      *)
LEMMA SpawnDomain ==
  ASSUME NEW base, NEW sha, NEW rig
  PROVE  DOMAIN spawnEnv(base, sha, rig) \subseteq
             (DOMAIN base \cup {"RIG_EXPECTED_SHA", "RIG_REQUIRE_SHA"})
                 \ (jobEnvAllowlist \ spawnSafeEnv)
<1>1. DEFINE drop == jobEnvAllowlist \ spawnSafeEnv
             a == Set("RIG_EXPECTED_SHA", sha)
             b == IF graphPresent(rig) THEN Set("RIG_REQUIRE_SHA", <<"1">>) ELSE NoEnv
             more == Appended(base, Appended(a, b))
<1>2. DOMAIN a = {"RIG_EXPECTED_SHA"} /\ DOMAIN b \subseteq {"RIG_REQUIRE_SHA"}
  BY SetDomain
<1>3. \/ spawnEnv(base, sha, rig) = FilterEnv(base, drop)
      \/ spawnEnv(base, sha, rig) = FilterEnv(more, drop)
  BY DEF spawnEnv, dropSessionCredentials
<1>4. DOMAIN more = DOMAIN base \cup (DOMAIN a \cup DOMAIN b)
  <2>1. HIDE DEF a, b
  <2> QED  BY DEF Appended
<1>5. DOMAIN FilterEnv(base, drop) = DOMAIN base \ drop
  BY FilterDomain
<1>6. DOMAIN FilterEnv(more, drop) = DOMAIN more \ drop
  <2>1. HIDE DEF more, drop
  <2> QED  BY FilterDomain
<1>7. HIDE DEF a, b, more, drop
<1>8. DOMAIN spawnEnv(base, sha, rig)
         \subseteq (DOMAIN base \cup {"RIG_EXPECTED_SHA", "RIG_REQUIRE_SHA"}) \ drop
  BY <1>2, <1>3, <1>4, <1>5, <1>6
<1> QED  BY <1>8 DEF drop

(* Whatever the process of a run holds, its pi session has neither the bot's *)
(* token nor its host, and no credential of the allowlist that sessions are  *)
(* not to have; its plugins have no bot token either (ChildEnv, spawnEnv,    *)
(* dropSessionCredentials).                                                  *)
THEOREM SessionHasNoBot ==
  ASSUME NEW env, NEW rig
  PROVE  /\ DOMAIN SessionEnv(env, rig)
                \cap ({BotTokenEnvKey, BotHostEnvKey} \cup (jobEnvAllowlist \ spawnSafeEnv)) = {}
         /\ DOMAIN PluginEnv(env) \cap {BotTokenEnvKey, BotHostEnvKey} = {}
<1>1. DOMAIN ChildEnv(env) = DOMAIN env \ {BotTokenEnvKey, BotHostEnvKey}
  BY ChildDomain
<1>3. ASSUME NEW sha
      PROVE  DOMAIN spawnEnv(ChildEnv(env), sha, rig) \subseteq
                 (DOMAIN ChildEnv(env) \cup {"RIG_EXPECTED_SHA", "RIG_REQUIRE_SHA"})
                     \ (jobEnvAllowlist \ spawnSafeEnv)
  BY SpawnDomain
<1>4. /\ BotTokenEnvKey \notin {"RIG_EXPECTED_SHA", "RIG_REQUIRE_SHA"}
      /\ BotHostEnvKey \notin {"RIG_EXPECTED_SHA", "RIG_REQUIRE_SHA"}
  BY DEF BotTokenEnvKey, BotHostEnvKey
<1>5. DOMAIN SessionEnv(env, rig) \subseteq
          (DOMAIN ChildEnv(env) \cup {"RIG_EXPECTED_SHA", "RIG_REQUIRE_SHA"})
              \ (jobEnvAllowlist \ spawnSafeEnv)
  BY <1>3 DEF SessionEnv
<1> QED  BY <1>1, <1>4, <1>5 DEF PluginEnv

(* Whatever the pool holds and whatever triggered it, the Job of a Workflow  *)
(* without a review gate has no posting token, in its process, its plugins   *)
(* or its session (jobCredentialEnv).                                        *)
THEOREM PostingIsForReviews ==
  ASSUME NEW pool, NEW budget, NEW req, NEW attempt, NEW envelope, NEW rig
  PROVE  LET env == Appended(jobCredentialEnv(pool, budget, FALSE),
                             dispatchEnv(req, attempt, envelope))
         IN  PostToken \notin DOMAIN env \cup DOMAIN PluginEnv(env) \cup DOMAIN SessionEnv(env, rig)
<1>1. DEFINE env == Appended(jobCredentialEnv(pool, budget, FALSE),
                             dispatchEnv(req, attempt, envelope))
<1>2. PostToken \notin DOMAIN jobCredentialEnv(pool, budget, FALSE)
  BY CredentialDomain
<1>3. PostToken \notin DOMAIN dispatchEnv(req, attempt, envelope)
  BY DispatchDomain DEF PostToken
<1>4. PostToken \notin DOMAIN env
  BY <1>2, <1>3, AppendedDomain
<1>5. HIDE DEF env
<1>6. DOMAIN ChildEnv(env) \subseteq DOMAIN env
  BY ChildDomain
<1>7. ASSUME NEW sha
      PROVE  DOMAIN spawnEnv(ChildEnv(env), sha, rig) \subseteq
                 DOMAIN ChildEnv(env) \cup {"RIG_EXPECTED_SHA", "RIG_REQUIRE_SHA"}
  BY SpawnDomain
<1>8. PostToken \notin DOMAIN SessionEnv(env, rig)
  BY <1>4, <1>6, <1>7 DEF SessionEnv, PostToken
<1> QED  BY <1>4, <1>6, <1>8 DEF PluginEnv, env

-----------------------------------------------------------------------------
(* The shape of the state: the fields of a pod and of its Job, and of a      *)
(* run's record.                                                             *)
PodShape(p) ==
  /\ p \in [pc : {p.pc}, job : {p.job}, live : {p.live}, cancelled : {p.cancelled},
            done : {p.done}, disk : {p.disk}, seq : {p.seq}, read : {p.read},
            session : {p.session}]
  /\ p.job \in [env : {p.job.env}, mounts : {p.job.mounts}, pins : {p.job.pins},
                harness : {p.job.harness}, refs : {p.job.refs}, aggregate : {p.job.aggregate}]

Pods == pod = [r \in Runs |-> pod[r]] /\ \A r \in Runs : PodShape(pod[r])

Records == ledger \in [Runs -> [listed : BOOLEAN, started : BOOLEAN, ended : BOOLEAN]]

LEMMA CreateFrame ==
  ASSUME Pods, NEW r \in Runs, Create(r)
  PROVE  /\ Pods' /\ \A q \in Runs : q # r => pod'[q] = pod[q]
         /\ UNCHANGED evidence
         /\ \/ pod'[r] = pod[r]
            \/ /\ pod[r].pc = "none" /\ disp.pc = "create" /\ pod'[r].pc = "init"
               /\ pod'[r].job = BuildJob(JobParams)
               /\ pod'[r].done = 0 /\ pod'[r].disk = {} /\ pod'[r].seq = 0
               /\ pod'[r].read = Empty /\ pod'[r].session = Empty
<1> DEFINE job == BuildJob(JobParams)
<1>1. job \in [env : {job.env}, mounts : {job.mounts}, pins : {job.pins},
               harness : {job.harness}, refs : {job.refs}, aggregate : {job.aggregate}]
  BY DEF BuildJob
<1> HIDE DEF job
<1>2. pod' = pod \/ pod' = [pod EXCEPT ![r] = [NoPod EXCEPT !.pc = "init", !.job = job, !.live = TRUE]]
  BY DEF Create, job
<1>3. pod[r].pc = "none" /\ disp.pc = "create" /\ UNCHANGED evidence
  BY DEF Create
<1>4. CASE pod' = pod
  BY <1>3, <1>4 DEF Pods
<1>5. CASE pod' # pod
  <2>1. pod' = [pod EXCEPT ![r] = [pc |-> "init", job |-> job, live |-> TRUE, cancelled |-> FALSE,
                                   done |-> 0, disk |-> {}, seq |-> 0, read |-> Empty,
                                   session |-> Empty]]
    BY <1>2, <1>5 DEF NoPod
  <2>2. Pods'
    BY <1>1, <2>1 DEF Pods, PodShape
  <2> QED  BY <1>3, <2>1, <2>2 DEF Pods, job
<1> QED  BY <1>4, <1>5

LEMMA ByHandFrame ==
  ASSUME Pods, NEW r \in Runs, RunByHand(r)
  PROVE  /\ Pods' /\ \A q \in Runs : q # r => pod'[q] = pod[q]
         /\ UNCHANGED evidence
         /\ sc.byHand /\ pod[r].pc = "none" /\ pod'[r].pc = "start"
         /\ pod'[r].job.env = sc.pool /\ pod'[r].job.pins = Empty
         /\ pod'[r].done = 0 /\ pod'[r].disk = {} /\ pod'[r].seq = 0
         /\ pod'[r].read = Empty /\ pod'[r].session = Empty
<1>1. /\ PodShape(NoPod) /\ NoPod.job.pins = Empty /\ NoPod.done = 0 /\ NoPod.disk = {} /\ NoPod.seq = 0
      /\ NoPod.read = Empty /\ NoPod.session = Empty
  BY DEF PodShape, NoPod, NoJob
<1>2. pod' = [pod EXCEPT ![r] = [NoPod EXCEPT !.pc = "start", !.live = TRUE, !.job.env = sc.pool]]
  BY DEF RunByHand
<1> DEFINE p == [NoPod EXCEPT !.pc = "start", !.live = TRUE, !.job.env = sc.pool]
<1>3. /\ PodShape(p) /\ p.pc = "start" /\ p.job.env = sc.pool /\ p.job.pins = Empty
      /\ p.done = 0 /\ p.disk = {} /\ p.seq = 0 /\ p.read = Empty /\ p.session = Empty
  BY <1>1 DEF PodShape
<1> HIDE DEF p
<1>4. pod' = [pod EXCEPT ![r] = p]
  BY <1>2 DEF p
<1>5. Pods' /\ pod'[r] = p /\ \A q \in Runs : q # r => pod'[q] = pod[q]
  BY <1>3, <1>4 DEF Pods
<1> QED  BY <1>3, <1>5 DEF RunByHand

LEMMA InitPinFrame ==
  ASSUME Pods, NEW r \in Runs, InitPin(r)
  PROVE  LET pin == pod[r].job.pins[pod[r].done + 1] IN
         /\ Pods' /\ \A q \in Runs : q # r => pod'[q] = pod[q]
         /\ UNCHANGED evidence
         /\ pod[r].pc = "init" /\ pod[r].done < Len(pod[r].job.pins)
         /\ pod'[r].job = pod[r].job /\ pod'[r].session = pod[r].session /\ pod'[r].seq = pod[r].seq
         /\ pod'[r].read = pod[r].read
         /\ \/ /\ pod'[r].pc = "init" /\ pod'[r].done = pod[r].done + 1
               /\ pod'[r].disk = pod[r].disk \cup {<<"extensions", pin.pkg, pin.ver>>}
            \/ pod'[r].pc = "dead"
<1> DEFINE pin == pod[r].job.pins[pod[r].done + 1]
<1>1. \/ pod' = Unpacked(r, pin, pin.ver) \/ pod' = Dead(r)
      \/ pod' = [Dead(r) EXCEPT ![r].disk = @ \cup {<<"extensions", pin.pkg, "torn">>}]
  BY DEF InitPin, InitFailed
<1>2. pod[r].pc = "init" /\ pod[r].done < Len(pod[r].job.pins) /\ UNCHANGED evidence
  BY DEF InitPin
<1> HIDE DEF pin
<1>3. CASE pod' = Unpacked(r, pin, pin.ver)
  BY <1>2, <1>3 DEF Unpacked, Pods, PodShape, pin
<1>4. CASE pod' = Dead(r)
  BY <1>2, <1>4 DEF Dead, Pods, PodShape
<1>5. CASE pod' = [Dead(r) EXCEPT ![r].disk = @ \cup {<<"extensions", pin.pkg, "torn">>}]
  BY <1>2, <1>5 DEF Dead, Pods, PodShape
<1> QED  BY <1>1, <1>3, <1>4, <1>5 DEF pin

LEMMA InitRestFrame ==
  ASSUME Pods, NEW r \in Runs, InitRest(r)
  PROVE  /\ Pods' /\ \A q \in Runs : q # r => pod'[q] = pod[q]
         /\ UNCHANGED evidence
         /\ pod[r].pc = "init" /\ pod[r].done = Len(pod[r].job.pins)
         /\ pod'[r].job = pod[r].job /\ pod'[r].session = pod[r].session /\ pod'[r].seq = pod[r].seq
         /\ pod'[r].read = pod[r].read
         /\ \/ /\ pod'[r].pc = "start"
               /\ \A c : c[1] = "extensions" => (c \in pod'[r].disk <=> c \in pod[r].disk)
            \/ pod'[r].pc = "dead"
<1> DEFINE more == {<<"harness", "pi", h.ver>> : h \in Range(pod[r].job.harness)}
                     \cup {<<"plugins", cm, "scripts">> : cm \in Range(pod[r].job.refs)}
<1>1. \/ pod' = [pod EXCEPT ![r].pc = "start", ![r].disk = @ \cup more]
      \/ pod' = Dead(r)
  BY DEF InitRest
<1>2. pod[r].pc = "init" /\ pod[r].done = Len(pod[r].job.pins) /\ UNCHANGED evidence
  BY DEF InitRest
<1>3. \A c \in more : c[1] # "extensions"
  OBVIOUS
<1> HIDE DEF more
<1>4. CASE pod' = [pod EXCEPT ![r].pc = "start", ![r].disk = @ \cup more]
  BY <1>2, <1>3, <1>4 DEF Pods, PodShape
<1>5. CASE pod' = Dead(r)
  BY <1>2, <1>5 DEF Dead, Pods, PodShape
<1> QED  BY <1>1, <1>4, <1>5

LEMMA StartRecorded ==
  ASSUME Records, NEW r \in Runs, ledger' = [ledger EXCEPT ![r].listed = TRUE, ![r].started = TRUE]
  PROVE  /\ Records' /\ \A q \in Runs : q # r => ledger'[q] = ledger[q]
         /\ ledger'[r].listed /\ ledger'[r].started /\ ledger'[r].ended = ledger[r].ended
<1>1. Records' /\ \A q \in Runs : q # r => ledger'[q] = ledger[q]
  BY DEF Records
<1>2. ledger'[r].listed /\ ledger'[r].started
  BY DEF Records
<1>3. ledger'[r].ended = ledger[r].ended
  BY DEF Records
<1> QED  BY <1>1, <1>2, <1>3

LEMMA EndRecorded ==
  ASSUME Records, NEW r \in Runs, ledger' = [ledger EXCEPT ![r].listed = TRUE, ![r].ended = TRUE]
  PROVE  /\ Records' /\ \A q \in Runs : q # r => ledger'[q] = ledger[q]
         /\ ledger'[r].listed /\ ledger'[r].ended /\ ledger'[r].started = ledger[r].started
<1>1. Records' /\ \A q \in Runs : q # r => ledger'[q] = ledger[q]
  BY DEF Records
<1>2. ledger'[r].listed /\ ledger'[r].ended
  BY DEF Records
<1>3. ledger'[r].started = ledger[r].started
  BY DEF Records
<1> QED  BY <1>1, <1>2, <1>3

(* The gate's envelope for the pull request a run's own process names.       *)
Named(env, e) ==
  IsPointer(wakeFromEnv(env).pr) /\ e.repo = wakeFromEnv(env).pr[1] /\ e.pr = wakeFromEnv(env).pr[2]

LEMMA StartFrame ==
  ASSUME Pods, Records, NEW r \in Runs, Start(r)
  PROVE  /\ Pods' /\ \A q \in Runs : q # r => pod'[q] = pod[q]
         /\ Records' /\ \A q \in Runs : q # r => ledger'[q] = ledger[q]
         /\ UNCHANGED <<store, journal>>
         /\ \/ ledger'[r] = ledger[r]
            \/ ledger'[r].listed /\ ledger'[r].ended /\ ledger'[r].started = ledger[r].started
         /\ pod[r].pc = "start" /\ pod'[r].pc \in {"pin", "skipped", "dead"}
         /\ pod'[r].job.pins = pod[r].job.pins /\ pod'[r].disk = pod[r].disk /\ pod'[r].done = pod[r].done
         /\ pod'[r].session = pod[r].session /\ pod'[r].read = pod[r].read
         /\ \/ pod'[r].job.env = pod[r].job.env
            \/ /\ ~Dispatched(r)
               /\ \E e : Named(pod[r].job.env, e) /\ pod'[r].job.env = Appended(Appended(pod[r].job.env, EnvelopeEnv(e)),
                                                    Set("HARMOSTES_ATTEMPT", <<Attempt>>))
<1>0. pod[r].pc = "start" /\ UNCHANGED <<store, journal>>
  BY DEF Start
<1>1. \/ pod' = [pod EXCEPT ![r].pc = "pin"] /\ ledger' = ledger
      \/ /\ ~Dispatched(r) /\ ledger' = ledger
         /\ \E e : Named(pod[r].job.env, e) /\ pod' = [pod EXCEPT ![r].pc = "pin",
                     ![r].job.env = Appended(Appended(pod[r].job.env, EnvelopeEnv(e)),
                                             Set("HARMOSTES_ATTEMPT", <<Attempt>>))]
      \/ /\ pod' = [pod EXCEPT ![r].pc = "skipped", ![r].live = FALSE]
         /\ ledger' = ledger \/ ledger' = [ledger EXCEPT ![r].listed = TRUE, ![r].ended = TRUE]
      \/ pod' = Dead(r) /\ ledger' = ledger
  BY DEF Start, Named
<1>2. CASE pod' = [pod EXCEPT ![r].pc = "pin"] /\ ledger' = ledger
  BY <1>0, <1>2 DEF Pods, PodShape, Records
<1>3. CASE /\ ~Dispatched(r) /\ ledger' = ledger
           /\ \E e : Named(pod[r].job.env, e) /\ pod' = [pod EXCEPT ![r].pc = "pin",
                       ![r].job.env = Appended(Appended(pod[r].job.env, EnvelopeEnv(e)),
                                               Set("HARMOSTES_ATTEMPT", <<Attempt>>))]
  <2>1. PICK e : Named(pod[r].job.env, e) /\ pod' = [pod EXCEPT ![r].pc = "pin",
                       ![r].job.env = Appended(Appended(pod[r].job.env, EnvelopeEnv(e)),
                                               Set("HARMOSTES_ATTEMPT", <<Attempt>>))]
    BY <1>3
  <2> DEFINE x == Appended(Appended(pod[r].job.env, EnvelopeEnv(e)), Set("HARMOSTES_ATTEMPT", <<Attempt>>))
  <2>2. pod' = [pod EXCEPT ![r].pc = "pin", ![r].job.env = x]
    BY <2>1
  <2> HIDE DEF x
  <2>3. /\ Pods' /\ \A q \in Runs : q # r => pod'[q] = pod[q]
        /\ pod'[r].job.env = x /\ pod'[r].pc = "pin"
        /\ pod'[r].job.pins = pod[r].job.pins /\ pod'[r].disk = pod[r].disk /\ pod'[r].done = pod[r].done
        /\ pod'[r].session = pod[r].session /\ pod'[r].read = pod[r].read
    BY <2>2 DEF Pods, PodShape
  <2> QED  BY <1>0, <1>3, <2>1, <2>3 DEF x, Records
<1>4. CASE /\ pod' = [pod EXCEPT ![r].pc = "skipped", ![r].live = FALSE]
           /\ ledger' = ledger \/ ledger' = [ledger EXCEPT ![r].listed = TRUE, ![r].ended = TRUE]
  <2>1. /\ Records' /\ \A q \in Runs : q # r => ledger'[q] = ledger[q]
        /\ \/ ledger'[r] = ledger[r]
           \/ ledger'[r].listed /\ ledger'[r].ended /\ ledger'[r].started = ledger[r].started
    <3>1. CASE ledger' = ledger
      BY <3>1 DEF Records
    <3>2. CASE ledger' = [ledger EXCEPT ![r].listed = TRUE, ![r].ended = TRUE]
      BY <3>2, StartRecorded, EndRecorded
    <3> QED  BY <1>4, <3>1, <3>2
  <2> QED  BY <1>0, <1>4, <2>1 DEF Pods, PodShape
<1>5. CASE pod' = Dead(r) /\ ledger' = ledger
  BY <1>0, <1>5 DEF Dead, Pods, PodShape, Records
<1> QED  BY <1>1, <1>2, <1>3, <1>4, <1>5

(* The pod of r in a later stage of its run: what it runs on is fixed.       *)
Fixed(r) ==
  /\ pod'[r].job = pod[r].job /\ pod'[r].disk = pod[r].disk /\ pod'[r].done = pod[r].done

LEMMA PinFrame ==
  ASSUME Pods, NEW r \in Runs, Pin(r)
  PROVE  /\ Pods' /\ \A q \in Runs : q # r => pod'[q] = pod[q]
         /\ UNCHANGED evidence /\ Fixed(r)
         /\ pod'[r].session = pod[r].session /\ pod'[r].read = pod[r].read
         /\ pod[r].pc = "pin" /\ (pod'[r].pc = "dead" \/ (pod'[r].pc = "begin" /\ Materialized(r)))
<1>1. pod[r].pc = "pin" /\ UNCHANGED evidence
      /\ (pod' = Dead(r) \/ (pod' = [pod EXCEPT ![r].pc = "begin"] /\ Materialized(r)))
  BY DEF Pin
<1> QED  BY <1>1 DEF Dead, Pods, PodShape, Fixed

LEMMA EmitFrame ==
  ASSUME NEW r \in Runs, NEW p, NEW kind, p = [q \in Runs |-> p[q]], \A q \in Runs : PodShape(p[q]),
         Emitted(r, kind, p)
  PROVE  /\ Pods' /\ \A q \in Runs : q # r => pod'[q] = p[q]
         /\ pod'[r].pc = p[r].pc /\ pod'[r].job = p[r].job /\ pod'[r].disk = p[r].disk
         /\ pod'[r].done = p[r].done /\ pod'[r].session = p[r].session /\ pod'[r].read = p[r].read
         /\ store' = store \/ store' = store \cup {[run |-> r, seq |-> pod[r].seq + 1, kind |-> kind]}
<1>1. pod' = p \/ pod' = [p EXCEPT ![r].seq = @ + 1]
  BY DEF Emitted
<1>2. store' = store \/ store' = store \cup {[run |-> r, seq |-> pod[r].seq + 1, kind |-> kind]}
  BY DEF Emitted
<1> QED  BY <1>1, <1>2 DEF Pods, PodShape

(* The steps that may emit an event: the two boundaries and a node's.        *)
LEMMA EmitStepFrame ==
  ASSUME Pods, NEW r \in Runs, NEW kind, NEW from, NEW to, pod[r].pc = from,
         Emitted(r, kind, [pod EXCEPT ![r].pc = to])
  PROVE  /\ Pods' /\ \A q \in Runs : q # r => pod'[q] = pod[q]
         /\ Fixed(r) /\ pod'[r].session = pod[r].session /\ pod'[r].read = pod[r].read
         /\ pod'[r].pc = to
         /\ store' = store \/ store' = store \cup {[run |-> r, seq |-> pod[r].seq + 1, kind |-> kind]}
<1> DEFINE p == [pod EXCEPT ![r].pc = to]
<1>1. /\ p = [q \in Runs |-> p[q]] /\ \A q \in Runs : PodShape(p[q])
      /\ \A q \in Runs : q # r => p[q] = pod[q]
      /\ p[r].pc = to /\ p[r].job = pod[r].job /\ p[r].disk = pod[r].disk
      /\ p[r].done = pod[r].done /\ p[r].session = pod[r].session /\ p[r].read = pod[r].read
  BY DEF Pods, PodShape
<1> HIDE DEF p
<1>2. Emitted(r, kind, p)
  BY DEF p
<1> QED  BY <1>1, <1>2, EmitFrame DEF Fixed

LEMMA BoundaryFrame ==
  ASSUME Pods, NEW r \in Runs, Begin(r) \/ NodeEvent(r) \/ Complete(r)
  PROVE  /\ Pods' /\ \A q \in Runs : q # r => pod'[q] = pod[q]
         /\ UNCHANGED <<ledger, journal>>
         /\ Fixed(r) /\ pod'[r].session = pod[r].session /\ pod'[r].read = pod[r].read
         /\ \E kind : 
              /\ \/ kind = RunStarted /\ pod[r].pc = "begin" /\ pod'[r].pc = "record"
                 \/ kind = "node" /\ pod[r].pc = "graph" /\ pod'[r].pc = "graph"
                 \/ kind = RunCompleted /\ pod[r].pc = "graph" /\ pod'[r].pc = "journal"
              /\ store' = store \/ store' = store \cup {[run |-> r, seq |-> pod[r].seq + 1, kind |-> kind]}
<1>1. CASE Begin(r)
  <2>1. Emitted(r, RunStarted, [pod EXCEPT ![r].pc = "record"]) /\ pod[r].pc = "begin" /\ UNCHANGED <<ledger, journal>>
    BY <1>1 DEF Begin
  <2> QED  BY <2>1, EmitStepFrame
<1>2. CASE NodeEvent(r)
  <2>1. Emitted(r, "node", pod) /\ pod[r].pc = "graph" /\ UNCHANGED <<ledger, journal>>
    BY <1>2 DEF NodeEvent
  <2>2. [pod EXCEPT ![r].pc = "graph"] = pod
    BY <2>1 DEF Pods, PodShape
  <2>3. Emitted(r, "node", [pod EXCEPT ![r].pc = "graph"])
    BY <2>1, <2>2
  <2> QED  BY <2>1, <2>3, EmitStepFrame
<1>3. CASE Complete(r)
  <2>1. Emitted(r, RunCompleted, [pod EXCEPT ![r].pc = "journal"]) /\ pod[r].pc = "graph" /\ UNCHANGED <<ledger, journal>>
    BY <1>3 DEF Complete
  <2> QED  BY <2>1, EmitStepFrame
<1> QED  BY <1>1, <1>2, <1>3

LEMMA RecordFrame ==
  ASSUME Pods, Records, NEW r \in Runs, RecordStarted(r) \/ Outcome(r)
  PROVE  /\ Pods' /\ \A q \in Runs : q # r => pod'[q] = pod[q]
         /\ Records' /\ \A q \in Runs : q # r => ledger'[q] = ledger[q]
         /\ UNCHANGED <<store, journal>>
         /\ Fixed(r) /\ pod'[r].session = pod[r].session /\ pod'[r].read = pod[r].read
         /\ \/ pod[r].pc = "record" /\ pod'[r].pc = "graph"
            \/ pod[r].pc = "outcome" /\ pod'[r].pc = "done"
         /\ \/ ledger'[r] = ledger[r]
            \/ /\ ledger'[r].listed
               /\ ledger[r].started => ledger'[r].started
               /\ ledger[r].ended => ledger'[r].ended
<1>1. CASE RecordStarted(r)
  <2>1. /\ pod' = [pod EXCEPT ![r].pc = "graph"] /\ pod[r].pc = "record" /\ UNCHANGED <<store, journal>>
        /\ ledger' = ledger \/ ledger' = [ledger EXCEPT ![r].listed = TRUE, ![r].started = TRUE]
    BY <1>1 DEF RecordStarted
  <2>2. /\ Records' /\ \A q \in Runs : q # r => ledger'[q] = ledger[q]
        /\ \/ ledger'[r] = ledger[r]
           \/ /\ ledger'[r].listed
              /\ ledger[r].started => ledger'[r].started
              /\ ledger[r].ended => ledger'[r].ended
    <3>1. CASE ledger' = ledger
      BY <3>1 DEF Records
    <3>2. CASE ledger' = [ledger EXCEPT ![r].listed = TRUE, ![r].started = TRUE]
      BY <3>2, StartRecorded, EndRecorded
    <3> QED  BY <2>1, <3>1, <3>2
  <2> QED  BY <2>1, <2>2 DEF Pods, PodShape, Fixed
<1>2. CASE Outcome(r)
  <2>1. /\ pod' = [pod EXCEPT ![r].pc = "done", ![r].live = FALSE] /\ pod[r].pc = "outcome" /\ UNCHANGED <<store, journal>>
        /\ ledger' = ledger \/ ledger' = [ledger EXCEPT ![r].listed = TRUE, ![r].ended = TRUE]
    BY <1>2 DEF Outcome
  <2>2. /\ Records' /\ \A q \in Runs : q # r => ledger'[q] = ledger[q]
        /\ \/ ledger'[r] = ledger[r]
           \/ /\ ledger'[r].listed
              /\ ledger[r].started => ledger'[r].started
              /\ ledger[r].ended => ledger'[r].ended
    <3>1. CASE ledger' = ledger
      BY <3>1 DEF Records
    <3>2. CASE ledger' = [ledger EXCEPT ![r].listed = TRUE, ![r].ended = TRUE]
      BY <3>2, StartRecorded, EndRecorded
    <3> QED  BY <2>1, <3>1, <3>2
  <2> QED  BY <2>1, <2>2 DEF Pods, PodShape, Fixed
<1> QED  BY <1>1, <1>2

LEMMA SpawnFrame ==
  ASSUME Pods, NEW r \in Runs, Spawn(r)
  PROVE  /\ Pods' /\ \A q \in Runs : q # r => pod'[q] = pod[q]
         /\ UNCHANGED evidence /\ Fixed(r) /\ pod'[r].read = pod[r].read
         /\ pod[r].pc = "graph" /\ pod'[r].pc = "graph"
         /\ pod'[r].session = <<[env |-> SessionEnv(pod[r].job.env, sc.rig),
                                 dirs |-> Names(pod[r].job.pins)]>>
<1> DEFINE x == <<[env |-> SessionEnv(pod[r].job.env, sc.rig), dirs |-> Names(pod[r].job.pins)]>>
<1>1. pod' = [pod EXCEPT ![r].session = x] /\ pod[r].pc = "graph" /\ UNCHANGED evidence
  BY DEF Spawn
<1> HIDE DEF x
<1>2. /\ Pods' /\ \A q \in Runs : q # r => pod'[q] = pod[q]
      /\ Fixed(r) /\ pod'[r].read = pod[r].read /\ pod'[r].pc = pod[r].pc /\ pod'[r].session = x
  BY <1>1 DEF Pods, PodShape, Fixed
<1> QED  BY <1>1, <1>2 DEF x

LEMMA JournalReadFrame ==
  ASSUME Pods, NEW r \in Runs, JournalRead(r)
  PROVE  /\ Pods' /\ \A q \in Runs : q # r => pod'[q] = pod[q]
         /\ UNCHANGED evidence /\ Fixed(r) /\ pod'[r].session = pod[r].session
         /\ pod[r].pc = "journal" /\ pod'[r].pc = "append"
<1>0. pod[r].pc = "journal" /\ UNCHANGED evidence
  BY DEF JournalRead
<1>1. \/ pod' = [pod EXCEPT ![r].pc = "append", ![r].read = journal]
      \/ pod' = [pod EXCEPT ![r].pc = "append", ![r].read = Empty]
  BY DEF JournalRead
<1>2. CASE pod' = [pod EXCEPT ![r].pc = "append", ![r].read = journal]
  BY <1>0, <1>2 DEF Pods, PodShape, Fixed
<1>3. CASE pod' = [pod EXCEPT ![r].pc = "append", ![r].read = Empty]
  BY <1>0, <1>3 DEF Pods, PodShape, Fixed
<1> QED  BY <1>1, <1>2, <1>3

LEMMA JournalWriteFrame ==
  ASSUME Pods, NEW r \in Runs, JournalWrite(r)
  PROVE  /\ Pods' /\ \A q \in Runs : q # r => pod'[q] = pod[q]
         /\ UNCHANGED <<store, ledger>> /\ Fixed(r) /\ pod'[r].session = pod[r].session
         /\ pod[r].pc = "append" /\ pod'[r].pc = "outcome"
<1>1. /\ pod[r].pc = "append" /\ UNCHANGED <<store, ledger>>
      /\ pod' = [pod EXCEPT ![r].pc = "outcome"]
  BY DEF JournalWrite
<1> QED  BY <1>1 DEF Pods, PodShape, Fixed

LEMMA EndFrame ==
  ASSUME Pods, NEW r \in Runs, Cancel(r) \/ Die(r)
  PROVE  /\ Pods' /\ \A q \in Runs : q # r => pod'[q] = pod[q]
         /\ UNCHANGED evidence /\ Fixed(r)
         /\ pod'[r].session = pod[r].session
         /\ pod[r].pc \notin Ended /\ (pod'[r].pc = pod[r].pc \/ pod'[r].pc = "dead")
<1>1. /\ pod[r].pc \notin Ended /\ UNCHANGED evidence
      /\ (pod' = Dead(r) \/ pod' = [pod EXCEPT ![r].cancelled = TRUE, ![r].live = FALSE])
  BY DEF Cancel, Die
<1> QED  BY <1>1 DEF Dead, Pods, PodShape, Fixed

-----------------------------------------------------------------------------
(* The evidence of a run.  Each boundary is written at most once, by the     *)
(* stage it belongs to, and the ledger lists a run with an instant.          *)
Early == {"none", "init", "start", "pin", "begin"}
Unfinished == Early \cup {"record", "graph"}

OneEach ==
  \A e, f \in store : e.run = f.run /\ e.kind = f.kind /\ e.kind \in {RunStarted, RunCompleted} => e = f

InStage ==
  \A e \in store : /\ e.run \in Runs
                   /\ e.kind = RunStarted => pod[e.run].pc \notin Early
                   /\ e.kind = RunCompleted => pod[e.run].pc \notin Unfinished

ListedFirst == \A r \in Runs : ledger[r].started \/ ledger[r].ended => ledger[r].listed

EvidenceInv == Pods /\ Records /\ OneEach /\ InStage /\ ListedFirst

Onward == \A q \in Runs : /\ pod[q].pc \notin Early => pod'[q].pc \notin Early
                          /\ pod[q].pc \notin Unfinished => pod'[q].pc \notin Unfinished

LEMMA EvidenceInit == Init => EvidenceInv
<1> SUFFICES ASSUME Init PROVE EvidenceInv
  OBVIOUS
<1>1. PodShape(NoPod)
  BY DEF PodShape, NoPod, NoJob
<1>2. Pods
  BY <1>1 DEF Init, Pods
<1>3. Records /\ ListedFirst
  BY DEF Init, Records, ListedFirst
<1>4. OneEach /\ InStage
  BY DEF Init, OneEach, InStage
<1> QED  BY <1>2, <1>3, <1>4 DEF EvidenceInv

(* Nothing but the run's own steps takes a run on.                           *)
LEMMA OthersOnward ==
  ASSUME NEW r \in Runs, \A q \in Runs : q # r => pod'[q].pc = pod[q].pc,
         /\ pod[r].pc \notin Early => pod'[r].pc \notin Early
         /\ pod[r].pc \notin Unfinished => pod'[r].pc \notin Unfinished
  PROVE  Onward
  BY DEF Onward

(* A step that adds no event.                                                *)
LEMMA NoEvent ==
  ASSUME OneEach, InStage, Onward, store' \subseteq store
  PROVE  OneEach' /\ InStage'
<1>1. OneEach'
  BY DEF OneEach
<1>2. InStage'
  BY DEF InStage, Onward
<1> QED  BY <1>1, <1>2

(* A boundary of r, or an event that is none.                                *)
LEMMA EventAdded ==
  ASSUME OneEach, InStage, Onward, NEW r \in Runs, NEW e, store' = store \cup {e}, e.run = r,
         \/ e.kind \notin {RunStarted, RunCompleted}
         \/ e.kind = RunStarted /\ pod[r].pc \in Early /\ pod'[r].pc \notin Early
         \/ e.kind = RunCompleted /\ pod[r].pc \in Unfinished /\ pod'[r].pc \notin Unfinished
  PROVE  OneEach' /\ InStage'
<1>0. RunStarted # RunCompleted
  BY DEF RunStarted, RunCompleted
<1>1. \A f \in store : f.run = r /\ f.kind = e.kind => e.kind \notin {RunStarted, RunCompleted}
  BY DEF InStage
<1>2. OneEach'
  <2>1. SUFFICES ASSUME NEW f \in store', NEW g \in store', f.run = g.run, f.kind = g.kind,
                        f.kind \in {RunStarted, RunCompleted}
                 PROVE  f = g
    BY DEF OneEach
  <2>2. CASE f \in store /\ g \in store
    BY <2>1, <2>2 DEF OneEach
  <2>3. CASE f = e \/ g = e
    BY <1>1, <2>1, <2>3
  <2> QED  BY <2>2, <2>3
<1>3. InStage'
  <2>1. SUFFICES ASSUME NEW f \in store'
                 PROVE  /\ f.run \in Runs
                        /\ f.kind = RunStarted => pod'[f.run].pc \notin Early
                        /\ f.kind = RunCompleted => pod'[f.run].pc \notin Unfinished
    BY DEF InStage
  <2>2. CASE f \in store
    BY <2>2 DEF InStage, Onward
  <2>3. CASE f = e
    BY <1>0, <2>3
  <2> QED  BY <2>2, <2>3
<1> QED  BY <1>2, <1>3

LEMMA EvidenceStep ==
  ASSUME EvidenceInv, NEW r \in Runs, Step(r)
  PROVE  EvidenceInv'
<1>0. Pods /\ Records /\ OneEach /\ InStage /\ ListedFirst
  BY DEF EvidenceInv
<1> DEFINE Kept == store' = store /\ ledger' = ledger /\ Pods' /\ Onward
<1>1. ASSUME Kept PROVE EvidenceInv'
  <2>1. OneEach' /\ InStage'
    BY <1>0, <1>1, NoEvent
  <2>2. Records' /\ ListedFirst'
    BY <1>0, <1>1 DEF Records, ListedFirst
  <2> QED  BY <1>1, <2>1, <2>2 DEF EvidenceInv
<1>2. CASE Create(r)
  <2>1. Onward
    BY <1>0, <1>2, CreateFrame, OthersOnward DEF Early, Unfinished
  <2> QED  BY <1>0, <1>1, <1>2, <2>1, CreateFrame DEF evidence
<1>3. CASE RunByHand(r)
  <2>1. Onward
    BY <1>0, <1>3, ByHandFrame, OthersOnward DEF Early, Unfinished
  <2> QED  BY <1>0, <1>1, <1>3, <2>1, ByHandFrame DEF evidence
<1>4. CASE InitPin(r)
  <2>1. Onward
    <3>1. pod[r].pc = "init" /\ \A q \in Runs : q # r => pod'[q] = pod[q]
      BY <1>0, <1>4, InitPinFrame
    <3> QED  BY <3>1, OthersOnward DEF Early, Unfinished
  <2>2. Pods' /\ UNCHANGED evidence
    BY <1>0, <1>4, InitPinFrame
  <2> QED  BY <1>1, <2>1, <2>2 DEF evidence
<1>5. CASE InitRest(r)
  <2>1. Onward
    BY <1>0, <1>5, InitRestFrame, OthersOnward DEF Early, Unfinished
  <2>2. Pods' /\ UNCHANGED evidence
    BY <1>0, <1>5, InitRestFrame
  <2> QED  BY <1>1, <2>1, <2>2 DEF evidence
<1>6. CASE Start(r)
  <2>1. /\ Pods' /\ Records' /\ UNCHANGED store /\ \A q \in Runs : q # r => ledger'[q] = ledger[q] /\ pod'[q] = pod[q]
        /\ pod[r].pc = "start" /\ (ledger'[r] = ledger[r] \/ ledger'[r].listed)
    BY <1>0, <1>6, StartFrame
  <2>2. Onward
    BY <2>1, OthersOnward DEF Early, Unfinished
  <2>3. ListedFirst'
    BY <1>0, <2>1 DEF ListedFirst
  <2> QED  BY <1>0, <2>1, <2>2, <2>3, NoEvent DEF EvidenceInv
<1>7. CASE Pin(r)
  <2>1. Onward
    BY <1>0, <1>7, PinFrame, OthersOnward DEF Early, Unfinished
  <2> QED  BY <1>0, <1>1, <1>7, <2>1, PinFrame DEF evidence
<1>8. CASE Begin(r) \/ NodeEvent(r) \/ Complete(r)
  <2>1. /\ Pods' /\ \A q \in Runs : q # r => pod'[q] = pod[q]
        /\ UNCHANGED ledger
    BY <1>0, <1>8, BoundaryFrame
  <2>2. PICK kind : 
          /\ \/ kind = RunStarted /\ pod[r].pc = "begin" /\ pod'[r].pc = "record"
             \/ kind = "node" /\ pod[r].pc = "graph" /\ pod'[r].pc = "graph"
             \/ kind = RunCompleted /\ pod[r].pc = "graph" /\ pod'[r].pc = "journal"
          /\ store' = store \/ store' = store \cup {[run |-> r, seq |-> pod[r].seq + 1, kind |-> kind]}
    BY <1>0, <1>8, BoundaryFrame
  <2>3. Onward
    BY <2>1, <2>2, OthersOnward DEF Early, Unfinished
  <2>4. CASE store' = store
    BY <1>1, <2>1, <2>3, <2>4
  <2>5. CASE store' = store \cup {[run |-> r, seq |-> pod[r].seq + 1, kind |-> kind]}
    <3> DEFINE e == [run |-> r, seq |-> pod[r].seq + 1, kind |-> kind]
    <3>1. e.run = r /\ e.kind = kind /\ store' = store \cup {e}
      BY <2>5
    <3> HIDE DEF e
    <3>2. \/ e.kind \notin {RunStarted, RunCompleted}
          \/ e.kind = RunStarted /\ pod[r].pc \in Early /\ pod'[r].pc \notin Early
          \/ e.kind = RunCompleted /\ pod[r].pc \in Unfinished /\ pod'[r].pc \notin Unfinished
      BY <2>2, <3>1 DEF Early, Unfinished, RunStarted, RunCompleted
    <3>3. OneEach' /\ InStage'
      BY <1>0, <2>3, <3>1, <3>2, EventAdded
    <3>4. Records' /\ ListedFirst'
      BY <1>0, <2>1 DEF Records, ListedFirst
    <3> QED  BY <2>1, <3>3, <3>4 DEF EvidenceInv
  <2> QED  BY <2>2, <2>4, <2>5
<1>9. CASE RecordStarted(r) \/ Outcome(r)
  <2>1. /\ Pods' /\ Records' /\ UNCHANGED store /\ \A q \in Runs : q # r => ledger'[q] = ledger[q] /\ pod'[q] = pod[q]
        /\ (ledger'[r] = ledger[r] \/ ledger'[r].listed)
        /\ \/ pod[r].pc = "record" /\ pod'[r].pc = "graph"
           \/ pod[r].pc = "outcome" /\ pod'[r].pc = "done"
    BY <1>0, <1>9, RecordFrame
  <2>2. Onward
    BY <2>1, OthersOnward DEF Early, Unfinished
  <2>3. ListedFirst'
    BY <1>0, <2>1 DEF ListedFirst
  <2> QED  BY <1>0, <2>1, <2>2, <2>3, NoEvent DEF EvidenceInv
<1>10. CASE Spawn(r)
  <2>1. Onward
    BY <1>0, <1>10, SpawnFrame, OthersOnward DEF Early, Unfinished
  <2> QED  BY <1>0, <1>1, <1>10, <2>1, SpawnFrame DEF evidence
<1>11. CASE JournalRead(r)
  <2>1. Onward
    BY <1>0, <1>11, JournalReadFrame, OthersOnward DEF Early, Unfinished
  <2> QED  BY <1>0, <1>1, <1>11, <2>1, JournalReadFrame DEF evidence
<1>12. CASE JournalWrite(r)
  <2>1. Onward
    BY <1>0, <1>12, JournalWriteFrame, OthersOnward DEF Early, Unfinished
  <2> QED  BY <1>0, <1>1, <1>12, <2>1, JournalWriteFrame
<1>13. CASE Cancel(r) \/ Die(r)
  <2>1. Onward
    BY <1>0, <1>13, EndFrame, OthersOnward DEF Early, Unfinished
  <2> QED  BY <1>0, <1>1, <1>13, <2>1, EndFrame DEF evidence
<1>14. CASE Expire(r)
  <2>1. store' \subseteq store /\ UNCHANGED <<pod, ledger>>
    BY <1>14 DEF Expire
  <2>2. Onward /\ Pods' /\ Records' /\ ListedFirst'
    BY <1>0, <2>1 DEF Onward, Pods, Records, ListedFirst
  <2> QED  BY <1>0, <2>1, <2>2, NoEvent DEF EvidenceInv
<1> QED  BY <1>2, <1>3, <1>4, <1>5, <1>6, <1>7, <1>8, <1>9, <1>10, <1>11, <1>12, <1>13, <1>14 DEF Step

LEMMA EvidenceNext == EvidenceInv /\ [Next]_vars => EvidenceInv'
<1> SUFFICES ASSUME EvidenceInv, [Next]_vars PROVE EvidenceInv'
  OBVIOUS
<1>1. CASE Edit \/ Dispatch \/ Compose \/ UNCHANGED vars
  <2>1. UNCHANGED <<pod, store, ledger>>
    BY <1>1 DEF Edit, Dispatch, Compose, vars, evidence
  <2> QED  BY <2>1 DEF EvidenceInv, Pods, Records, OneEach, InStage, ListedFirst
<1>2. CASE \E r \in Runs : Step(r)
  BY <1>2, EvidenceStep
<1> QED  BY <1>1, <1>2 DEF Next

(* What the page makes of it: one row at most, and one where the ledger has  *)
(* the instant.                                                              *)
LEMMA OneRow ==
  ASSUME Records, OneEach, ListedFirst, NEW r \in Runs, NEW k \in {RunStarted, RunCompleted}
  PROVE  /\ Cardinality(Rows(ledger, store, "ok", r, k)) <= 1
         /\ (IF k = RunStarted THEN ledger[r].started ELSE ledger[r].ended)
               => Cardinality(Rows(ledger, store, "ok", r, k)) = 1
<1> DEFINE E == ReadAttempt(store, Listed(ledger))
           Row(e) == [source |-> "store", run |-> e.run, kind |-> e.kind, seq |-> e.seq]
           Fill == [source |-> "ledger", run |-> r, kind |-> k, seq |-> 0]
           R == Rows(ledger, store, "ok", r, k)
           has == IF k = RunStarted THEN ledger[r].started ELSE ledger[r].ended
<1>1. E \subseteq store
  BY DEF ReadAttempt
<1>2. R = {Row(e) : e \in {f \in E : f.run = r /\ f.kind = k}}
            \cup {x \in {Fill} : FilledByLedger(ledger, E, r, k)}
  <2>1. ASSUME NEW x \in R
        PROVE  x \in {Row(e) : e \in {f \in E : f.run = r /\ f.kind = k}}
                       \cup {y \in {Fill} : FilledByLedger(ledger, E, r, k)}
    <3>1. x \in buildEventTimeline(ledger, store, "ok") /\ x.run = r /\ x.kind = k
      BY <2>1 DEF Rows
    <3>2. CASE x \in {Row(e) : e \in E}
      BY <3>1, <3>2
    <3>3. CASE \E p \in Listed(ledger) \X {RunStarted, RunCompleted} :
                 /\ FilledByLedger(ledger, E, p[1], p[2])
                 /\ x = [source |-> "ledger", run |-> p[1], kind |-> p[2], seq |-> 0]
      <4>1. PICK p \in Listed(ledger) \X {RunStarted, RunCompleted} :
                 /\ FilledByLedger(ledger, E, p[1], p[2])
                 /\ x = [source |-> "ledger", run |-> p[1], kind |-> p[2], seq |-> 0]
        BY <3>3
      <4>2. p[1] = r /\ p[2] = k
        BY <3>1, <4>1
      <4> QED  BY <4>1, <4>2
    <3> QED  BY <3>1, <3>2, <3>3 DEF buildEventTimeline
  <2>2. ASSUME NEW e \in E, e.run = r, e.kind = k PROVE Row(e) \in R
    BY <2>2 DEF Rows, buildEventTimeline
  <2>3. ASSUME FilledByLedger(ledger, E, r, k) PROVE Fill \in R
    <3>1. r \in Listed(ledger)
      BY <2>3 DEF FilledByLedger
    <3> DEFINE p == <<r, k>>
    <3>2. p \in Listed(ledger) \X {RunStarted, RunCompleted} /\ p[1] = r /\ p[2] = k
      BY <3>1
    <3> HIDE DEF p
    <3>3. [source |-> "ledger", run |-> p[1], kind |-> p[2], seq |-> 0]
            \in buildEventTimeline(ledger, store, "ok")
      BY <2>3, <3>2 DEF buildEventTimeline
    <3> QED  BY <3>2, <3>3 DEF Rows
  <2> QED  BY <2>1, <2>2, <2>3
<1>3. has => r \in Listed(ledger)
  BY DEF Listed, ListedFirst, Records
<1>4. CASE \E e \in E : e.run = r /\ e.kind = k
  <2>1. PICK e \in E : e.run = r /\ e.kind = k
    BY <1>4
  <2>2. {f \in E : f.run = r /\ f.kind = k} = {e}
    BY <1>1, <2>1 DEF OneEach
  <2>3. ~FilledByLedger(ledger, E, r, k)
    BY <2>1 DEF FilledByLedger, Seen
  <2>4. R = {Row(e)}
    BY <1>2, <2>2, <2>3
  <2>5. Cardinality({Row(e)}) = 1
    BY FS_Singleton
  <2> QED  BY <2>4, <2>5
<1>5. CASE ~\E e \in E : e.run = r /\ e.kind = k
  <2>1. R = {x \in {Fill} : FilledByLedger(ledger, E, r, k)}
    BY <1>2, <1>5
  <2>2. Cardinality({Fill}) = 1 /\ Cardinality({}) = 0
    BY FS_Singleton, FS_EmptySet
  <2>3. CASE FilledByLedger(ledger, E, r, k)
    <3>1. R = {Fill}
      BY <2>1, <2>3
    <3> QED  BY <2>2, <3>1
  <2>4. CASE ~FilledByLedger(ledger, E, r, k)
    <3>1. R = {} /\ ~has
      BY <1>3, <1>5, <2>1, <2>4 DEF FilledByLedger, Seen
    <3> QED  BY <2>2, <3>1
  <2> QED  BY <2>3, <2>4
<1> QED  BY <1>4, <1>5

(* Whichever writes were lost, whenever the pod died and however much of the *)
(* timeline has expired: a page that could read the store shows a run's      *)
(* start and its end at most once, and exactly once when the ledger has the  *)
(* instant; a page that could not read it shows none, whatever the ledger    *)
(* has (buildEventTimeline over DaprReader.Attempt).                         *)
THEOREM EachBoundaryOnce == Spec => []BoundaryOnce
<1>1. ASSUME EvidenceInv PROVE BoundaryOnce
  <2> SUFFICES ASSUME NEW r \in Runs, NEW read \in Reads, NEW k \in {RunStarted, RunCompleted}
               PROVE  LET has == IF k = RunStarted THEN ledger[r].started ELSE ledger[r].ended
                          shown == Cardinality(Rows(ledger, store, read, r, k))
                      IN shown <= 1 /\ (has => (shown = 1 <=> read = "ok"))
    BY DEF BoundaryOnce
  <2>1. CASE read = "ok"
    BY <1>1, <2>1, OneRow DEF EvidenceInv
  <2>2. CASE read # "ok"
    <3>1. Rows(ledger, store, read, r, k) = {}
      BY <2>2 DEF Rows, buildEventTimeline
    <3>2. Cardinality(Rows(ledger, store, read, r, k)) = 0
      BY <3>1, FS_EmptySet
    <3> QED  BY <2>2, <3>2
  <2> QED  BY <2>1, <2>2
<1> QED  BY <1>1, EvidenceInit, EvidenceNext, PTL DEF Spec

-----------------------------------------------------------------------------
(* The runtime.  The init container unpacks the manifest in order, and what  *)
(* a run finds there is the whole of it or the run is refused.               *)
ExtDir(r) == {c \in pod[r].disk : c[1] = "extensions"}

Dirs(pins, n) == {<<"extensions", pins[i].pkg, pins[i].ver>> : i \in 1..n}

AllUnpacked(r) == ExtDir(r) = Dirs(pod[r].job.pins, Len(pod[r].job.pins))

Unspawned == {"none", "init", "start", "pin", "begin", "record"}

RuntimeOf(r) ==
  /\ IsList(pod[r].job.pins)
  /\ pod[r].pc = "init" => /\ pod[r].done \in Nat /\ pod[r].done <= Len(pod[r].job.pins)
                           /\ ExtDir(r) = Dirs(pod[r].job.pins, pod[r].done)
  /\ pod[r].pc \in Unspawned => pod[r].session = Empty
  /\ pod[r].pc \notin {"none", "init", "dead"} => AllUnpacked(r)
  /\ pod[r].pc \in {"begin", "record", "graph"} => Materialized(r)
  /\ pod[r].session # Empty =>
       /\ AllUnpacked(r) /\ Materialized(r)
       /\ pod[r].session = <<[env |-> SessionEnv(pod[r].job.env, sc.rig), dirs |-> Names(pod[r].job.pins)]>>

Declarations ==
  /\ sc \in Scenarios /\ cr \in Specs \cup {s.cr : s \in Scenarios}
  /\ profile \in Profiles \cup {s.profile : s \in Scenarios}
  /\ disp \in [pc : {disp.pc}, spec : {disp.spec}, pins : {disp.pins}, harness : {disp.harness}]
  /\ disp.pc = "compose" => IsList(disp.spec.extensions)
  /\ disp.pc = "create" => IsList(disp.pins)

RuntimeInv == Pods /\ Records /\ Declarations /\ \A r \in Runs : RuntimeOf(r)
LEMMA ListOf ==
  ASSUME NEW f, NEW n \in Nat, f = [i \in 1..n |-> f[i]]
  PROVE  IsList(f) /\ Len(f) = n
<1>1. f \in [1..n -> Range(f)]
  BY DEF Range
<1>2. f \in Seq(Range(f))
  BY <1>1
<1> QED  BY <1>1, <1>2, LenProperties DEF IsList

LEMMA ListFacts ==
  ASSUME NEW s, IsList(s)
  PROVE  Len(s) \in Nat /\ DOMAIN s = 1..Len(s) /\ s = [i \in 1..Len(s) |-> s[i]]
<1>1. s \in Seq(Range(s))
  BY DEF IsList
<1>2. s \in [1..Len(s) -> Range(s)] /\ Len(s) \in Nat
  BY <1>1, LenProperties
<1> QED  BY <1>2

LEMMA EmptyIsList == IsList(Empty) /\ Len(Empty) = 0 /\ DOMAIN Empty = {}
<1>1. Empty \in Seq(Range(Empty)) /\ Len(Empty) = 0 /\ DOMAIN Empty = {}
  BY DEF Empty
<1> QED  BY <1>1 DEF IsList

LEMMA Joined ==
  ASSUME NEW s, NEW t, IsList(s), IsList(t)
  PROVE  IsList(s \o t)
<1> DEFINE T == Range(s) \cup Range(t)
<1>1. s \in Seq(T) /\ t \in Seq(T)
  <2>1. s \in Seq(Range(s)) /\ t \in Seq(Range(t)) /\ Range(s) \subseteq T /\ Range(t) \subseteq T
    BY DEF IsList
  <2> HIDE DEF T
  <2> QED  BY <2>1
<1> HIDE DEF T
<1>2. s \o t \in Seq(T)
  BY <1>1, ConcatProperties
<1> DEFINE u == s \o t
<1>3. u \in Seq(T)
  BY <1>2
<1> HIDE DEF u
<1>4. Len(u) \in Nat /\ u \in [1..Len(u) -> T]
  BY <1>3, LenProperties
<1>5. u = [i \in 1..Len(u) |-> u[i]]
  BY <1>4
<1> QED  BY <1>4, <1>5, ListOf DEF u

(* The composed manifest of two lists is a list (ComposeExtensions).         *)
LEMMA ComposedIsList ==
  ASSUME NEW u, NEW d, IsList(u), IsList(d)
  PROVE  IsList(ComposeExtensions(u, d))
<1> DEFINE Shadows(n) == {i \in DOMAIN d : d[i].name = n}
           Newest(S) == CHOOSE i \in S : \A j \in S : j <= i
           replaced == [i \in DOMAIN u |->
                          LET n == u[i].name
                          IN IF Shadows(n) = {} THEN u[i] ELSE d[Newest(Shadows(n))]]
           firsts == {i \in DOMAIN d :
                      /\ d[i].name \notin Names(u)
                      /\ \A j \in Shadows(d[i].name) : i <= j}
           added == [k \in 1..Cardinality(firsts) |->
                        d[CHOOSE i \in firsts : Cardinality({j \in firsts : j < i}) = k - 1]]
<1>1. ComposeExtensions(u, d) = replaced \o added
  BY DEF ComposeExtensions
<1>2. IsList(replaced)
  <2>1. Len(u) \in Nat /\ DOMAIN u = 1..Len(u)
    BY ListFacts
  <2>2. replaced = [i \in 1..Len(u) |-> replaced[i]]
    BY <2>1
  <2> HIDE DEF replaced
  <2> QED  BY <2>1, <2>2, ListOf
<1>3. IsList(added)
  <2>1. firsts \subseteq 1..Len(d) /\ Len(d) \in Nat
    BY ListFacts
  <2>2. IsFiniteSet(1..Len(d))
    BY <2>1, FS_Interval
  <2> DEFINE n == Cardinality(firsts)
  <2>3. n \in Nat
    <3> HIDE DEF firsts
    <3> QED  BY <2>1, <2>2, FS_Subset, FS_CardinalityType
  <2>4. added = [i \in 1..n |-> added[i]]
    OBVIOUS
  <2> HIDE DEF added, n
  <2> QED  BY <2>3, <2>4, ListOf
<1> HIDE DEF replaced, added
<1> QED  BY <1>1, <1>2, <1>3, Joined

(* So is what a Workflow with its template declares.                         *)
LEMMA FetchedIsList ==
  ASSUME NEW c \in Specs \cup {s.cr : s \in Scenarios}
  PROVE  IsList(FetchWorkflow(c).extensions)
<1>1. Pinning(c.own) /\ (c.tmpl # Empty => Pinning(c.tmpl[1]))
  BY ManifestAssumption
<1>2. CASE c.tmpl = Empty
  BY <1>1, <1>2 DEF FetchWorkflow, Pinning
<1>3. CASE c.tmpl # Empty
  <2> DEFINE own == c.own
             t == c.tmpl[1]
             merged == [f \in DOMAIN own |-> IF own[f] = Empty /\ f # "config" THEN t[f] ELSE own[f]]
  <2>1. \E x : FetchWorkflow(c) = [merged EXCEPT !.prepareConfig = x]
    BY <1>3 DEF FetchWorkflow, ApplyTemplateDefaults
  <2>2. PICK x : FetchWorkflow(c) = [merged EXCEPT !.prepareConfig = x]
    BY <2>1
  <2>3. "extensions" \in DOMAIN own /\ IsList(own.extensions) /\ IsList(t.extensions)
    BY <1>1, <1>3 DEF Pinning
  <2>4. FetchWorkflow(c).extensions = merged.extensions
    BY <2>2, <2>3
  <2>5. merged.extensions = t.extensions \/ merged.extensions = own.extensions
    BY <2>3
  <2> QED  BY <2>3, <2>4, <2>5
<1> QED  BY <1>2, <1>3

LEMMA SameScenario == [Next]_vars => sc' = sc
  BY DEF Next, Step, vars, world, Edit, Dispatch, Compose, Create, RunByHand, InitPin, InitRest, Start, Pin, Begin,
         RecordStarted, Spawn, NodeEvent, Complete, JournalRead, JournalWrite, Outcome, Cancel, Die, Expire

LEMMA DeclaredInit == Init => Declarations
<1> SUFFICES ASSUME Init PROVE Declarations
  OBVIOUS
<1>1. sc \in Scenarios /\ cr = sc.cr /\ profile = sc.profile
  BY DEF Init
<1>2. disp = [pc |-> "idle", spec |-> Empty, pins |-> Empty, harness |-> Empty]
  BY DEF Init, Idle
<1> QED  BY <1>1, <1>2 DEF Declarations

(* Every runtime the dispatcher composes is a list of pins.                  *)
LEMMA DeclaredNext ==
  ASSUME Declarations, [Next]_vars
  PROVE  Declarations'
<1>0. sc' = sc /\ sc \in Scenarios
  BY SameScenario DEF Declarations
<1>1. CASE Edit
  BY <1>0, <1>1 DEF Edit, Declarations
<1>2. CASE Dispatch
  <2>1. disp' = [pc |-> "compose", spec |-> FetchWorkflow(cr), pins |-> Empty, harness |-> Empty]
        /\ cr' = cr /\ profile' = profile
    BY <1>2 DEF Dispatch, Idle, world
  <2>2. IsList(FetchWorkflow(cr).extensions)
    BY FetchedIsList DEF Declarations
  <2> DEFINE x == FetchWorkflow(cr)
  <2>3. disp' = [pc |-> "compose", spec |-> x, pins |-> Empty, harness |-> Empty] /\ IsList(x.extensions)
    BY <2>1, <2>2
  <2> HIDE DEF x
  <2> QED  BY <1>0, <2>1, <2>3 DEF Declarations
<1>3. CASE Compose
  <2> DEFINE rt == composeRuntime(ProfileOf(sc.pool), disp.spec)
             pins == rt.pins
             harness == rt.harness
  <2>1. disp.pc = "compose" /\ cr' = cr /\ profile' = profile
        /\ (disp' = [disp EXCEPT !.pc = "create", !.pins = pins, !.harness = harness] \/ disp' = Idle)
    BY <1>3 DEF Compose, world
  <2>2. IsList(pins)
    <3>1. IsList(disp.spec.extensions)
      BY <2>1 DEF Declarations
    <3> DEFINE p == ProfileOf(sc.pool)
               u == IF p = Empty THEN Empty ELSE p[1].extensions
    <3>2. p = Empty \/ p = profile
      BY DEF ProfileOf
    <3>3. profile # Empty => IsList(profile[1].extensions)
      BY ManifestAssumption DEF Declarations
    <3>4. IsList(u)
      BY <3>2, <3>3, EmptyIsList
    <3>5. pins = ComposeExtensions(u, disp.spec.extensions)
      BY DEF composeRuntime
    <3> HIDE DEF p, u, pins
    <3> QED  BY <3>1, <3>4, <3>5, ComposedIsList
  <2> HIDE DEF pins, harness
  <2>3. CASE disp' = [disp EXCEPT !.pc = "create", !.pins = pins, !.harness = harness]
    BY <1>0, <2>1, <2>2, <2>3 DEF Declarations
  <2>4. CASE disp' = Idle
    <3>1. disp' = [pc |-> "idle", spec |-> Empty, pins |-> Empty, harness |-> Empty]
      BY <2>4 DEF Idle
    <3> QED  BY <1>0, <2>1, <3>1 DEF Declarations
  <2> QED  BY <2>1, <2>3, <2>4
<1>4. ASSUME NEW r \in Runs, Step(r) PROVE Declarations'
  <2>1. CASE Create(r)
    <3>1. disp' = [pc |-> "idle", spec |-> Empty, pins |-> Empty, harness |-> Empty]
          /\ cr' = cr /\ profile' = profile
      BY <2>1 DEF Create, Idle, world
    <3> QED  BY <1>0, <3>1 DEF Declarations
  <2>2. CASE ~Create(r)
    <3>1. disp' = disp /\ cr' = cr /\ profile' = profile
      BY <1>4, <2>2 DEF Step, world, RunByHand, InitPin, InitRest, Start, Pin, Begin,
         RecordStarted, Spawn, NodeEvent, Complete, JournalRead, JournalWrite, Outcome, Cancel, Die, Expire
    <3> QED  BY <1>0, <3>1 DEF Declarations
  <2> QED  BY <2>1, <2>2
<1>5. CASE UNCHANGED vars
  BY <1>5 DEF vars, Declarations
<1> QED  BY <1>1, <1>2, <1>3, <1>4, <1>5 DEF Next

(* A pod nothing happened to.                                                *)
LEMMA RuntimeStill ==
  ASSUME NEW q \in Runs, RuntimeOf(q), sc' = sc, pod'[q].pc = pod[q].pc, pod'[q].session = pod[q].session,
         pod'[q].job = pod[q].job, pod'[q].disk = pod[q].disk, pod'[q].done = pod[q].done
  PROVE  RuntimeOf(q)'
  BY DEF RuntimeOf, AllUnpacked, ExtDir, Materialized

(* A pod that goes on to its next stage, or dies.                            *)
LEMMA RuntimeStage ==
  ASSUME NEW r \in Runs, RuntimeOf(r), sc' = sc, Fixed(r), pod'[r].session = pod[r].session,
         pod[r].pc \notin {"none", "init", "dead"}, pod'[r].pc \notin {"none", "init"},
         pod'[r].pc \in {"begin", "record", "graph"} => Materialized(r),
         pod'[r].pc \in Unspawned => pod[r].pc \in Unspawned
  PROVE  RuntimeOf(r)'
<1>1. /\ (Materialized(r) => Materialized(r)') /\ (AllUnpacked(r) => AllUnpacked(r)')
      /\ pod'[r].job.pins = pod[r].job.pins /\ pod'[r].job.env = pod[r].job.env
  BY DEF Fixed, AllUnpacked, ExtDir, Materialized
<1> QED  BY <1>1 DEF RuntimeOf

LEMMA RuntimeInit == Init => RuntimeInv
<1> SUFFICES ASSUME Init PROVE RuntimeInv
  OBVIOUS
<1>1. Pods /\ Records /\ Declarations
  BY EvidenceInit, DeclaredInit DEF EvidenceInv
<1>2. ASSUME NEW r \in Runs PROVE RuntimeOf(r)
  <2>1. pod[r].pc = "none" /\ pod[r].session = Empty /\ pod[r].job.pins = Empty
    BY DEF Init, NoPod, NoJob
  <2> QED  BY <2>1, EmptyIsList DEF RuntimeOf
<1> QED  BY <1>1, <1>2 DEF RuntimeInv

(* The steps before a run starts: a new pod, and its init container.         *)
LEMMA RuntimeNew ==
  ASSUME Pods, Declarations, NEW r \in Runs, RuntimeOf(r), sc' = sc,
         Create(r) \/ RunByHand(r)
  PROVE  RuntimeOf(r)'
<1>1. CASE Create(r)
  <2>1. CASE pod'[r] = pod[r]
    BY <2>1, RuntimeStill
  <2>2. CASE pod'[r] # pod[r]
    <3>1. /\ disp.pc = "create" /\ pod'[r].pc = "init" /\ pod'[r].job = BuildJob(JobParams)
          /\ pod'[r].done = 0 /\ pod'[r].disk = {} /\ pod'[r].session = Empty
      BY <1>1, <2>2, CreateFrame
    <3>2. pod'[r].job.pins = disp.pins
      BY <3>1 DEF BuildJob, JobParams
    <3>3. IsList(disp.pins)
      BY <3>1 DEF Declarations
    <3>4. Len(pod'[r].job.pins) \in Nat
      BY <3>2, <3>3, ListFacts
    <3>5. ExtDir(r)' = Dirs(pod'[r].job.pins, pod'[r].done)
      BY <3>1 DEF ExtDir, Dirs
    <3>6. pod'[r].done \in Nat /\ pod'[r].done <= Len(pod'[r].job.pins)
      BY <3>1, <3>4
    <3> QED  BY <3>1, <3>2, <3>3, <3>5, <3>6 DEF RuntimeOf
  <2> QED  BY <2>1, <2>2
<1>2. CASE RunByHand(r)
  <2>1. pod'[r].pc = "start" /\ pod'[r].job.pins = Empty /\ pod'[r].disk = {} /\ pod'[r].session = Empty
    BY <1>2, ByHandFrame
  <2>2. AllUnpacked(r)'
    BY <2>1, EmptyIsList DEF AllUnpacked, ExtDir, Dirs
  <2> QED  BY <2>1, <2>2, EmptyIsList DEF RuntimeOf
<1> QED  BY <1>1, <1>2

LEMMA DirsGrow ==
  ASSUME NEW pins, NEW n \in Nat
  PROVE  Dirs(pins, n + 1) = Dirs(pins, n) \cup {<<"extensions", pins[n + 1].pkg, pins[n + 1].ver>>}
<1> DEFINE D(i) == <<"extensions", pins[i].pkg, pins[i].ver>>
<1>1. 1..(n + 1) = (1..n) \cup {n + 1}
  OBVIOUS
<1>2. Dirs(pins, n + 1) = {D(i) : i \in 1..(n + 1)} /\ Dirs(pins, n) = {D(i) : i \in 1..n}
  BY DEF Dirs
<1> HIDE DEF D
<1>3. Dirs(pins, n + 1) = Dirs(pins, n) \cup {D(n + 1)}
  BY <1>1, <1>2
<1> QED  BY <1>3 DEF D

LEMMA RuntimeUnpacks ==
  ASSUME Pods, NEW r \in Runs, RuntimeOf(r), sc' = sc, InitPin(r) \/ InitRest(r)
  PROVE  RuntimeOf(r)'
<1>0. pod[r].pc = "init" /\ pod[r].session = Empty /\ pod'[r].job = pod[r].job /\ pod'[r].session = pod[r].session
  <2>1. pod[r].pc = "init" /\ pod'[r].job = pod[r].job /\ pod'[r].session = pod[r].session
    BY InitPinFrame, InitRestFrame
  <2> QED  BY <2>1 DEF RuntimeOf, Unspawned
<1> DEFINE pins == pod[r].job.pins
           n == pod[r].done
<1>1. IsList(pins) /\ n \in Nat /\ n <= Len(pins) /\ ExtDir(r) = Dirs(pins, n) /\ Len(pins) \in Nat
  <2>1. IsList(pins) /\ n \in Nat /\ n <= Len(pins) /\ ExtDir(r) = Dirs(pins, n)
    BY <1>0 DEF RuntimeOf
  <2> QED  BY <2>1, ListFacts
<1>2. CASE pod'[r].pc = "dead"
  BY <1>0, <1>1, <1>2 DEF RuntimeOf
<1>3. CASE InitPin(r) /\ pod'[r].pc # "dead"
  <2>1. /\ n < Len(pins) /\ pod'[r].pc = "init" /\ pod'[r].done = n + 1
        /\ pod'[r].disk = pod[r].disk \cup {<<"extensions", pins[n + 1].pkg, pins[n + 1].ver>>}
    BY <1>3, InitPinFrame
  <2>2. ExtDir(r)' = ExtDir(r) \cup {<<"extensions", pins[n + 1].pkg, pins[n + 1].ver>>}
    <3> DEFINE e == <<"extensions", pins[n + 1].pkg, pins[n + 1].ver>>
    <3>1. e[1] = "extensions"
      OBVIOUS
    <3>2. pod'[r].disk = pod[r].disk \cup {e}
      BY <2>1
    <3> HIDE DEF e
    <3>3. ExtDir(r)' = ExtDir(r) \cup {e}
      BY <3>1, <3>2 DEF ExtDir
    <3> QED  BY <3>3 DEF e
  <2>3. ExtDir(r)' = Dirs(pins, n + 1)
    BY <1>1, <2>2, DirsGrow
  <2>4. n + 1 \in Nat /\ n + 1 <= Len(pins)
    BY <1>1, <2>1
  <2>5. ExtDir(r)' = Dirs(pod'[r].job.pins, pod'[r].done) /\ IsList(pod'[r].job.pins)
        /\ pod'[r].done \in Nat /\ pod'[r].done <= Len(pod'[r].job.pins)
    BY <1>0, <1>1, <2>1, <2>3, <2>4
  <2> QED  BY <1>0, <2>1, <2>5 DEF RuntimeOf
<1>4. CASE InitRest(r) /\ pod'[r].pc # "dead"
  <2>1. /\ n = Len(pins) /\ pod'[r].pc = "start"
        /\ \A c : c[1] = "extensions" => (c \in pod'[r].disk <=> c \in pod[r].disk)
    BY <1>4, InitRestFrame
  <2>2. ExtDir(r)' = ExtDir(r)
    BY <2>1 DEF ExtDir
  <2>3. AllUnpacked(r)' /\ IsList(pod'[r].job.pins)
    BY <1>0, <1>1, <2>1, <2>2 DEF AllUnpacked
  <2> QED  BY <1>0, <2>1, <2>3 DEF RuntimeOf
<1> QED  BY <1>2, <1>3, <1>4

LEMMA RuntimeStarts ==
  ASSUME Pods, Records, NEW r \in Runs, RuntimeOf(r), sc' = sc, Start(r)
  PROVE  RuntimeOf(r)'
<1>1. /\ pod[r].pc = "start" /\ pod'[r].pc \in {"pin", "skipped", "dead"}
      /\ pod'[r].job.pins = pod[r].job.pins /\ pod'[r].disk = pod[r].disk /\ pod'[r].session = pod[r].session
  BY StartFrame
<1>2. pod[r].session = Empty /\ AllUnpacked(r) /\ IsList(pod[r].job.pins)
  BY <1>1 DEF RuntimeOf, Unspawned
<1>3. AllUnpacked(r)'
  BY <1>1, <1>2 DEF AllUnpacked, ExtDir
<1> QED  BY <1>1, <1>2, <1>3 DEF RuntimeOf

LEMMA RuntimeSpawns ==
  ASSUME Pods, NEW r \in Runs, RuntimeOf(r), sc' = sc, Spawn(r)
  PROVE  RuntimeOf(r)'
<1>1. /\ Fixed(r) /\ pod[r].pc = "graph" /\ pod'[r].pc = "graph"
      /\ pod'[r].session = <<[env |-> SessionEnv(pod[r].job.env, sc.rig), dirs |-> Names(pod[r].job.pins)]>>
  BY SpawnFrame
<1>2. IsList(pod[r].job.pins) /\ AllUnpacked(r) /\ Materialized(r)
  BY <1>1 DEF RuntimeOf
<1>3. AllUnpacked(r)' /\ Materialized(r)' /\ IsList(pod'[r].job.pins)
  BY <1>1, <1>2 DEF Fixed, AllUnpacked, ExtDir, Materialized
<1>4. pod'[r].session = <<[env |-> SessionEnv(pod'[r].job.env, sc'.rig), dirs |-> Names(pod'[r].job.pins)]>>
  BY <1>1 DEF Fixed
<1> QED  BY <1>1, <1>3, <1>4 DEF RuntimeOf, Unspawned

LEMMA RuntimeStep ==
  ASSUME Pods, Records, Declarations, \A q \in Runs : RuntimeOf(q), sc' = sc, NEW r \in Runs, Step(r)
  PROVE  Pods' /\ Records' /\ \A q \in Runs : RuntimeOf(q)'
<1>0. RuntimeOf(r)
  OBVIOUS
<1>1. CASE Create(r) \/ RunByHand(r)
  <2>1. Pods' /\ ledger' = ledger /\ \A q \in Runs : q # r => pod'[q] = pod[q]
    BY <1>1, CreateFrame, ByHandFrame DEF evidence
  <2>2. RuntimeOf(r)'
    BY <1>0, <1>1, RuntimeNew
  <2> QED  BY <2>1, <2>2, RuntimeStill DEF Records
<1>2. CASE InitPin(r) \/ InitRest(r)
  <2>1. Pods' /\ ledger' = ledger /\ \A q \in Runs : q # r => pod'[q] = pod[q]
    BY <1>2, InitPinFrame, InitRestFrame DEF evidence
  <2>2. RuntimeOf(r)'
    BY <1>0, <1>2, RuntimeUnpacks
  <2> QED  BY <2>1, <2>2, RuntimeStill DEF Records
<1>3. CASE Start(r)
  <2>1. Pods' /\ Records' /\ \A q \in Runs : q # r => pod'[q] = pod[q]
    BY <1>3, StartFrame
  <2>2. RuntimeOf(r)'
    BY <1>0, <1>3, RuntimeStarts
  <2> QED  BY <2>1, <2>2, RuntimeStill
<1>4. CASE Pin(r)
  <2>1. /\ Pods' /\ ledger' = ledger /\ \A q \in Runs : q # r => pod'[q] = pod[q]
        /\ Fixed(r) /\ pod'[r].session = pod[r].session
        /\ pod[r].pc = "pin" /\ (pod'[r].pc = "dead" \/ (pod'[r].pc = "begin" /\ Materialized(r)))
    BY <1>4, PinFrame DEF evidence
  <2>2. RuntimeOf(r)'
    BY <1>0, <2>1, RuntimeStage DEF Unspawned
  <2> QED  BY <2>1, <2>2, RuntimeStill DEF Records
<1>5. CASE Begin(r) \/ NodeEvent(r) \/ Complete(r)
  <2>1. /\ Pods' /\ ledger' = ledger /\ \A q \in Runs : q # r => pod'[q] = pod[q]
        /\ Fixed(r) /\ pod'[r].session = pod[r].session
        /\ \/ pod[r].pc = "begin" /\ pod'[r].pc = "record"
           \/ pod[r].pc = "graph" /\ pod'[r].pc \in {"graph", "journal"}
    BY <1>5, BoundaryFrame
  <2>2. Materialized(r)
    BY <1>0, <2>1 DEF RuntimeOf
  <2>3. RuntimeOf(r)'
    BY <1>0, <2>1, <2>2, RuntimeStage DEF Unspawned
  <2> QED  BY <2>1, <2>3, RuntimeStill DEF Records
<1>6. CASE RecordStarted(r) \/ Outcome(r)
  <2>1. /\ Pods' /\ Records' /\ \A q \in Runs : q # r => pod'[q] = pod[q]
        /\ Fixed(r) /\ pod'[r].session = pod[r].session
        /\ \/ pod[r].pc = "record" /\ pod'[r].pc = "graph"
           \/ pod[r].pc = "outcome" /\ pod'[r].pc = "done"
    BY <1>6, RecordFrame
  <2>2. pod'[r].pc = "graph" => Materialized(r)
    BY <1>0, <2>1 DEF RuntimeOf
  <2>3. RuntimeOf(r)'
    BY <1>0, <2>1, <2>2, RuntimeStage DEF Unspawned
  <2> QED  BY <2>1, <2>3, RuntimeStill
<1>7. CASE Spawn(r)
  <2>1. Pods' /\ ledger' = ledger /\ \A q \in Runs : q # r => pod'[q] = pod[q]
    BY <1>7, SpawnFrame DEF evidence
  <2>2. RuntimeOf(r)'
    BY <1>0, <1>7, RuntimeSpawns
  <2> QED  BY <2>1, <2>2, RuntimeStill DEF Records
<1>8. CASE JournalRead(r) \/ JournalWrite(r)
  <2>1. /\ Pods' /\ ledger' = ledger /\ \A q \in Runs : q # r => pod'[q] = pod[q]
        /\ Fixed(r) /\ pod'[r].session = pod[r].session
        /\ \/ pod[r].pc = "journal" /\ pod'[r].pc = "append"
           \/ pod[r].pc = "append" /\ pod'[r].pc = "outcome"
    BY <1>8, JournalReadFrame, JournalWriteFrame DEF evidence
  <2>2. RuntimeOf(r)'
    BY <1>0, <2>1, RuntimeStage DEF Unspawned
  <2>3. ASSUME NEW q \in Runs, q # r PROVE RuntimeOf(q)'
    BY <2>1, <2>3, RuntimeStill
  <2> QED  BY <2>1, <2>2, <2>3 DEF Records
<1>9. CASE Cancel(r) \/ Die(r)
  <2>1. /\ Pods' /\ ledger' = ledger /\ \A q \in Runs : q # r => pod'[q] = pod[q]
        /\ Fixed(r) /\ pod'[r].session = pod[r].session
        /\ pod[r].pc \notin Ended /\ (pod'[r].pc = pod[r].pc \/ pod'[r].pc = "dead")
    BY <1>9, EndFrame DEF evidence
  <2>2. CASE pod'[r].pc = pod[r].pc
    <3>1. RuntimeOf(r)'
      BY <1>0, <2>1, <2>2, RuntimeStill DEF Fixed
    <3> QED  BY <2>1, <3>1, RuntimeStill DEF Records
  <2>3. CASE pod'[r].pc = "dead"
    <3>1. CASE pod[r].pc = "init"
      <4>1. pod'[r].session = Empty /\ IsList(pod'[r].job.pins)
        BY <1>0, <2>1, <3>1 DEF RuntimeOf, Unspawned, Fixed
      <4>2. RuntimeOf(r)'
        BY <2>3, <4>1 DEF RuntimeOf, Unspawned
      <4> QED  BY <2>1, <4>2, RuntimeStill DEF Records
    <3>2. CASE pod[r].pc # "init"
      <4>1. RuntimeOf(r)'
        BY <1>0, <2>1, <2>3, <3>2, RuntimeStage DEF Unspawned, Ended
      <4> QED  BY <2>1, <4>1, RuntimeStill DEF Records
    <3> QED  BY <3>1, <3>2
  <2> QED  BY <2>1, <2>2, <2>3
<1>10. CASE Expire(r)
  <2>1. pod' = pod /\ ledger' = ledger
    BY <1>10 DEF Expire
  <2> QED  BY <2>1, RuntimeStill DEF Pods, Records
<1> QED  BY <1>1, <1>2, <1>3, <1>4, <1>5, <1>6, <1>7, <1>8, <1>9, <1>10 DEF Step

LEMMA RuntimeNext ==
  ASSUME RuntimeInv, [Next]_vars
  PROVE  RuntimeInv'
<1>0. Pods /\ Records /\ Declarations /\ (\A q \in Runs : RuntimeOf(q)) /\ sc' = sc /\ Declarations'
  BY SameScenario, DeclaredNext DEF RuntimeInv
<1>1. ASSUME NEW r \in Runs, Step(r) PROVE RuntimeInv'
  BY <1>0, <1>1, RuntimeStep DEF RuntimeInv
<1>2. CASE Edit \/ Dispatch \/ Compose \/ UNCHANGED vars
  <2>1. pod' = pod /\ ledger' = ledger
    BY <1>2 DEF Edit, Dispatch, Compose, vars, evidence
  <2> QED  BY <1>0, <2>1, RuntimeStill DEF RuntimeInv, Pods, Records
<1> QED  BY <1>1, <1>2 DEF Next

(* Distinct names, each found among the directories of the packages, are all *)
(* of those directories.                                                     *)
LEMMA NamesAreDirs ==
  ASSUME NEW pins, IsList(pins), Cardinality(Names(pins)) = Len(pins),
         Names(pins) \subseteq {pins[i].pkg : i \in DOMAIN pins}
  PROVE  \A i \in DOMAIN pins : pins[i].pkg \in Names(pins)
<1> DEFINE n == Len(pins)
           P == {pins[i].pkg : i \in 1..n}
           f == [i \in 1..n |-> pins[i].pkg]
<1>1. n \in Nat /\ DOMAIN pins = 1..n
  BY ListFacts
<1>2. f \in Surjection(1..n, P)
  BY DEF Surjection
<1>3. IsFiniteSet(1..n) /\ Cardinality(1..n) = n
  <2> HIDE DEF n
  <2>1. n \in Int /\ 1 \in Int
    BY <1>1
  <2>2. IsFiniteSet(1..n) /\ Cardinality(1..n) = IF 1 > n THEN 0 ELSE n - 1 + 1
    BY <2>1, FS_Interval
  <2> QED  BY <1>1, <2>2
<1>4. Names(pins) \subseteq P /\ Cardinality(Names(pins)) = n
  BY <1>1
<1> HIDE DEF n, P, f
<1>5. IsFiniteSet(P) /\ Cardinality(P) <= n
  BY <1>2, <1>3, FS_Surjection
<1>6. Cardinality(Names(pins)) <= Cardinality(P) /\ Cardinality(P) \in Nat
  BY <1>4, <1>5, FS_Subset, FS_CardinalityType
<1>7. Cardinality(P) = Cardinality(Names(pins))
  BY <1>1, <1>4, <1>5, <1>6
<1>8. P = Names(pins)
  BY <1>4, <1>5, <1>7, FS_Subset
<1> QED  BY <1>1, <1>8 DEF P

LEMMA LoadedIsDeclared ==
  ASSUME RuntimeInv
  PROVE  DeclaredSetLoaded
<1> SUFFICES ASSUME NEW r \in Runs, pod[r].session # Empty,
                    Cardinality(Names(pod[r].job.pins)) = Len(pod[r].job.pins)
             PROVE  {c[3] : c \in {d \in pod[r].disk : d[1] = "extensions" /\ d[2] \in pod[r].session[1].dirs}}
                      = {pin.ver : pin \in Range(pod[r].job.pins)}
  BY DEF DeclaredSetLoaded
<1> DEFINE pins == pod[r].job.pins
           n == Len(pins)
           disk == pod[r].disk
<1>1. RuntimeOf(r)
  BY DEF RuntimeInv
<1>2. /\ IsList(pins) /\ {c \in disk : c[1] = "extensions"} = Dirs(pins, n)
      /\ \A pin \in Range(pins) : \E c \in disk : c[1] = "extensions" /\ c[2] = pin.name
      /\ pod[r].session = <<[env |-> SessionEnv(pod[r].job.env, sc.rig), dirs |-> Names(pins)]>>
  BY <1>1 DEF RuntimeOf, AllUnpacked, ExtDir, Materialized
<1>3. pod[r].session[1].dirs = Names(pins)
  BY <1>2
<1>4. n \in Nat /\ DOMAIN pins = 1..n /\ Range(pins) = {pins[i] : i \in 1..n}
  BY <1>2, ListFacts DEF Range
<1> HIDE DEF pins, n, disk
<1>5. \A c \in Dirs(pins, n) : \E i \in 1..n : c = <<"extensions", pins[i].pkg, pins[i].ver>>
  BY DEF Dirs
<1>6. \A c \in Dirs(pins, n) : \E i \in 1..n : c[1] = "extensions" /\ c[2] = pins[i].pkg /\ c[3] = pins[i].ver
  BY <1>5
<1>7. Names(pins) \subseteq {pins[i].pkg : i \in DOMAIN pins}
  <2>1. ASSUME NEW i \in 1..n PROVE pins[i].name \in {pins[j].pkg : j \in 1..n}
    <3>1. PICK c \in disk : c[1] = "extensions" /\ c[2] = pins[i].name
      BY <1>2, <1>4
    <3>2. c \in Dirs(pins, n)
      BY <1>2, <3>1
    <3> QED  BY <1>6, <3>1, <3>2
  <2> QED  BY <1>4, <2>1 DEF Names
<1>8. \A i \in 1..n : pins[i].pkg \in Names(pins)
  BY <1>2, <1>4, <1>7, NamesAreDirs DEF pins, n
<1> DEFINE found == {d \in disk : d[1] = "extensions" /\ d[2] \in Names(pins)}
<1>9. ASSUME NEW d \in found PROVE \E i \in 1..n : d[3] = pins[i].ver
  BY <1>2, <1>6
<1>10. ASSUME NEW i \in 1..n PROVE \E d \in found : d[3] = pins[i].ver
  <2> DEFINE d == <<"extensions", pins[i].pkg, pins[i].ver>>
  <2>1. d[1] = "extensions" /\ d[2] = pins[i].pkg /\ d[3] = pins[i].ver /\ d \in Dirs(pins, n)
    BY DEF Dirs
  <2> HIDE DEF d
  <2>2. d \in found
    BY <1>2, <1>8, <2>1
  <2> QED  BY <2>1, <2>2
<1>11. {c[3] : c \in found} = {pins[i].ver : i \in 1..n}
  BY <1>9, <1>10
<1>12. {pin.ver : pin \in Range(pins)} = {pins[i].ver : i \in 1..n}
  BY <1>4
<1> QED  BY <1>3, <1>11, <1>12 DEF pins, disk

(* Whatever the registry did to the init container and whatever was edited   *)
(* since: the directories a session is given hold the versions its Job's     *)
(* manifest pins, each of them and no torn one (initRuntime, composeRuntime, *)
(* consumeMaterializedRuntime).                                              *)
THEOREM DeclaredIsLoaded == Spec => []DeclaredSetLoaded
<1>1. RuntimeInv /\ [Next]_vars => RuntimeInv'
  BY RuntimeNext
<1>2. RuntimeInv => DeclaredSetLoaded
  BY LoadedIsDeclared
<1> QED  BY <1>1, <1>2, RuntimeInit, PTL DEF Spec

-----------------------------------------------------------------------------
(* The environment of a run: what its Job was given reaches its process, and *)
(* what its session may have of it reaches the session.                      *)
LEMMA GetAppended ==
  ASSUME NEW env, NEW more, NEW name
  PROVE  /\ name \in DOMAIN more => Getenv(Appended(env, more), name) = Getenv(more, name)
         /\ name \notin DOMAIN more => Getenv(Appended(env, more), name) = Getenv(env, name)
         /\ name \notin DOMAIN env => Getenv(Appended(env, more), name) = Getenv(more, name)
  BY DEF Getenv, Appended

LEMMA GetFiltered ==
  ASSUME NEW env, NEW keys, NEW name, name \notin keys
  PROVE  Getenv(FilterEnv(env, keys), name) = Getenv(env, name)
  BY DEF Getenv, FilterEnv

LEMMA GetSet ==
  /\ \A name, value : Getenv(Set(name, value), name) = value
  /\ \A name, value : Getenv(NonEmpty(name, value), name) = value
  /\ \A name : Getenv(NoEnv, name) = Empty
<1>1. \A name, value : Getenv(Set(name, value), name) = value
  BY DEF Getenv, Set
<1>2. \A name : Getenv(NoEnv, name) = Empty
  BY DEF Getenv, NoEnv
<1>3. \A name, value : NonEmpty(name, value) = IF value = Empty THEN NoEnv ELSE Set(name, value)
  BY DEF NonEmpty
<1> QED  BY <1>1, <1>2, <1>3

BuilderNames ==
  {"HARMOSTES_WORKFLOW", "HARMOSTES_DAPR_REQUIRED", "HARMOSTES_PI_SESSIONS", "HARMOSTES_SESSIONS_TTL",
   "HARMOSTES_SOL_PI_STORE"}

(* Besides its own five names the builder adds nothing to what the           *)
(* dispatcher gives a Job, and takes nothing away.                           *)
LEMMA BuilderEnv ==
  ASSUME NEW p, NEW name, name \notin BuilderNames
  PROVE  /\ Getenv(JobEnv(p), name) = Getenv(p.extraEnv, name)
         /\ name \in DOMAIN JobEnv(p) <=> name \in DOMAIN p.extraEnv
<1> DEFINE a == Set("HARMOSTES_WORKFLOW", <<p.workflow>>)
           b == Set("HARMOSTES_DAPR_REQUIRED", <<"true">>)
           ab == Appended(a, b)
           x == p.extraEnv
           y == SessionsEnv(p)
           z == SharedStore(p)
<1>1. JobEnv(p) = Appended(Appended(Appended(ab, x), y), z)
  BY DEF JobEnv
<1>2. DOMAIN a = {"HARMOSTES_WORKFLOW"} /\ DOMAIN b = {"HARMOSTES_DAPR_REQUIRED"}
  BY SetDomain
<1>3. DOMAIN y \subseteq {"HARMOSTES_PI_SESSIONS", "HARMOSTES_SESSIONS_TTL"}
  <2> DEFINE c == Set("HARMOSTES_PI_SESSIONS", <<"sessions">>)
             d == Set("HARMOSTES_SESSIONS_TTL", <<"336h">>)
  <2>1. DOMAIN c = {"HARMOSTES_PI_SESSIONS"} /\ DOMAIN d = {"HARMOSTES_SESSIONS_TTL"} /\ DOMAIN NoEnv = {}
    BY SetDomain
  <2>2. y = NoEnv \/ y = Appended(c, d)
    BY DEF SessionsEnv
  <2> HIDE DEF c, d, y
  <2>3. DOMAIN Appended(c, d) = DOMAIN c \cup DOMAIN d
    BY AppendedDomain
  <2> QED  BY <2>1, <2>2, <2>3
<1>4. DOMAIN z \subseteq {"HARMOSTES_SOL_PI_STORE"}
  <2>1. z = NoEnv \/ \E v : z = Set("HARMOSTES_SOL_PI_STORE", v)
    BY DEF SharedStore
  <2> HIDE DEF z
  <2> QED  BY <2>1, SetDomain
<1> HIDE DEF a, b, x, y, z
<1>5. DOMAIN ab = {"HARMOSTES_WORKFLOW", "HARMOSTES_DAPR_REQUIRED"}
  <2>1. DOMAIN ab = DOMAIN a \cup DOMAIN b
    BY AppendedDomain
  <2> QED  BY <1>2, <2>1
<1> HIDE DEF ab
<1>6. name \notin DOMAIN ab /\ name \notin DOMAIN y /\ name \notin DOMAIN z
  BY <1>3, <1>4, <1>5 DEF BuilderNames
<1> DEFINE f == Appended(ab, x)
           g == Appended(f, y)
<1>7. Getenv(f, name) = Getenv(x, name) /\ (name \in DOMAIN f <=> name \in DOMAIN x)
  <2>1. DOMAIN f = DOMAIN ab \cup DOMAIN x
    BY AppendedDomain
  <2>2. Getenv(f, name) = Getenv(x, name)
    BY <1>6, GetAppended
  <2> QED  BY <1>6, <2>1, <2>2
<1> HIDE DEF f
<1>8. Getenv(g, name) = Getenv(f, name) /\ (name \in DOMAIN g <=> name \in DOMAIN f)
  <2>1. DOMAIN g = DOMAIN f \cup DOMAIN y
    BY AppendedDomain
  <2>2. Getenv(g, name) = Getenv(f, name)
    BY <1>6, GetAppended
  <2> QED  BY <1>6, <2>1, <2>2
<1> HIDE DEF g
<1>9. Getenv(Appended(g, z), name) = Getenv(g, name) /\ (name \in DOMAIN Appended(g, z) <=> name \in DOMAIN g)
  <2>1. DOMAIN Appended(g, z) = DOMAIN g \cup DOMAIN z
    BY AppendedDomain
  <2>2. Getenv(Appended(g, z), name) = Getenv(g, name)
    BY <1>6, GetAppended
  <2> QED  BY <1>6, <2>1, <2>2
<1> QED  BY <1>1, <1>7, <1>8, <1>9 DEF f, g, x

(* What a session keeps: neither the bot's, nor dropped, nor the code graph's. *)
LEMMA SessionKeeps ==
  ASSUME NEW env, NEW rig, NEW name, name \notin {BotTokenEnvKey, BotHostEnvKey},
         name \notin jobEnvAllowlist \ spawnSafeEnv, name \notin {"RIG_EXPECTED_SHA", "RIG_REQUIRE_SHA"}
  PROVE  Getenv(SessionEnv(env, rig), name) = Getenv(env, name)
<1> DEFINE base == ChildEnv(env)
           sha == Getenv(env, "HARMOSTES_TRIGGER_SHA")
           drop == jobEnvAllowlist \ spawnSafeEnv
           a == Set("RIG_EXPECTED_SHA", sha)
           b == IF graphPresent(rig) THEN Set("RIG_REQUIRE_SHA", <<"1">>) ELSE NoEnv
           more == Appended(a, b)
           full == Appended(base, more)
<1>1. SessionEnv(env, rig) = FilterEnv(base, drop) \/ SessionEnv(env, rig) = FilterEnv(full, drop)
  BY DEF SessionEnv, spawnEnv, dropSessionCredentials
<1>2. Getenv(base, name) = Getenv(env, name)
  BY GetFiltered DEF ChildEnv
<1>3. DOMAIN a = {"RIG_EXPECTED_SHA"} /\ DOMAIN b \subseteq {"RIG_REQUIRE_SHA"}
  BY SetDomain
<1> HIDE DEF base, sha, drop, a, b
<1>4. name \notin DOMAIN more
  BY <1>3, AppendedDomain
<1> HIDE DEF more
<1>5. Getenv(full, name) = Getenv(base, name)
  BY <1>4, GetAppended
<1> HIDE DEF full
<1>6. name \notin drop
  BY DEF drop
<1>7. Getenv(FilterEnv(base, drop), name) = Getenv(base, name) /\ Getenv(FilterEnv(full, drop), name) = Getenv(full, name)
  BY <1>6, GetFiltered
<1> QED  BY <1>1, <1>2, <1>5, <1>7

Budget(budget, pool) ==
  IF budget = Empty THEN Getenv(pool, "PI_TOOL_BUDGET") ELSE IF budget = <<0>> THEN Empty ELSE budget

(* The credentials of a Job: the loop breaker marks a review, and the tool   *)
(* budget is the declared one or the pool's (jobCredentialEnv).              *)
LEMMA CredentialValues ==
  ASSUME NEW pool, NEW budget, NEW isReview \in BOOLEAN
  PROVE  LET env == jobCredentialEnv(pool, budget, isReview) IN
         /\ Getenv(env, "PI_LOOP_BREAKER") = IF isReview THEN <<"1">> ELSE Empty
         /\ Getenv(env, "PI_TOOL_BUDGET") = Budget(budget, pool)
<1> DEFINE wanted == (jobEnvAllowlist \ dropFromAllowlist(budget))
                           \ (IF isReview THEN {} ELSE {PostToken})
           forwarded == [n \in {m \in wanted \cap DOMAIN pool : pool[m] # Empty} |-> pool[n]]
           breaker == IF isReview THEN Set("PI_LOOP_BREAKER", <<"1">>) ELSE NoEnv
           over == overrides(budget)
           inner == Appended(forwarded, over)
<1>1. jobCredentialEnv(pool, budget, isReview) = Appended(inner, breaker)
  BY DEF jobCredentialEnv
<1>2. DOMAIN forwarded \subseteq wanted
  OBVIOUS
<1>3. ASSUME NEW n \in wanted PROVE Getenv(forwarded, n) = Getenv(pool, n)
  BY DEF Getenv
<1>4. /\ DOMAIN over \subseteq {"PI_TOOL_BUDGET", "PI_TOOL_BUDGET_NUDGE"}
      /\ budget \in {Empty, <<0>>} => over = NoEnv
      /\ budget \notin {Empty, <<0>>} => "PI_TOOL_BUDGET" \in DOMAIN over /\ Getenv(over, "PI_TOOL_BUDGET") = budget
  <2> DEFINE a == Set("PI_TOOL_BUDGET", budget)
             b == Set("PI_TOOL_BUDGET_NUDGE", <<budget[1] \div 2>>)
  <2>1. DOMAIN a = {"PI_TOOL_BUDGET"} /\ DOMAIN b = {"PI_TOOL_BUDGET_NUDGE"} /\ DOMAIN NoEnv = {}
    BY SetDomain
  <2>2. Getenv(a, "PI_TOOL_BUDGET") = budget
    BY GetSet
  <2>3. over = IF budget \in {Empty, <<0>>} THEN NoEnv ELSE Appended(a, b)
    BY DEF overrides
  <2> HIDE DEF a, b, over
  <2>4. DOMAIN Appended(a, b) = {"PI_TOOL_BUDGET", "PI_TOOL_BUDGET_NUDGE"}
    <3>1. DOMAIN Appended(a, b) = DOMAIN a \cup DOMAIN b
      BY AppendedDomain
    <3> QED  BY <2>1, <3>1
  <2>5. "PI_TOOL_BUDGET" \notin DOMAIN b
    BY <2>1
  <2>6. Getenv(Appended(a, b), "PI_TOOL_BUDGET") = budget
    BY <2>2, <2>5, GetAppended
  <2> QED  BY <2>1, <2>3, <2>4, <2>6
<1>5. /\ DOMAIN breaker \subseteq {"PI_LOOP_BREAKER"}
      /\ Getenv(breaker, "PI_LOOP_BREAKER") = IF isReview THEN <<"1">> ELSE Empty
  BY SetDomain, GetSet
<1>6. /\ "PI_LOOP_BREAKER" \notin wanted
      /\ "PI_TOOL_BUDGET" \in wanted <=> budget # <<0>>
  <2>1. /\ "PI_LOOP_BREAKER" \notin jobEnvAllowlist
        /\ "PI_TOOL_BUDGET" \in jobEnvAllowlist /\ "PI_TOOL_BUDGET" \in budgetTrio /\ "PI_TOOL_BUDGET" # PostToken
    BY DEF jobEnvAllowlist, budgetTrio, PostToken
  <2>2. dropFromAllowlist(budget) = IF budget = <<0>> THEN budgetTrio ELSE {}
    BY DEF dropFromAllowlist
  <2> QED  BY <2>1, <2>2
<1> HIDE DEF wanted, forwarded, breaker, over
<1>7. Getenv(Appended(inner, breaker), "PI_LOOP_BREAKER") = Getenv(breaker, "PI_LOOP_BREAKER")
  <2>1. "PI_LOOP_BREAKER" \notin DOMAIN inner
    <3>1. DOMAIN inner = DOMAIN forwarded \cup DOMAIN over
      BY AppendedDomain
    <3> QED  BY <1>2, <1>4, <1>6, <3>1
  <2> HIDE DEF inner
  <2> QED  BY <2>1, GetAppended
<1>8. Getenv(Appended(inner, breaker), "PI_TOOL_BUDGET") = Getenv(inner, "PI_TOOL_BUDGET")
  <2>1. "PI_TOOL_BUDGET" \notin DOMAIN breaker
    BY <1>5
  <2> HIDE DEF inner
  <2> QED  BY <2>1, GetAppended
<1>9. Getenv(inner, "PI_TOOL_BUDGET") = Budget(budget, pool)
  <2>1. CASE budget = Empty
    <3>1. budget # <<0>>
      BY <2>1 DEF Empty
    <3>2. Getenv(forwarded, "PI_TOOL_BUDGET") = Getenv(pool, "PI_TOOL_BUDGET")
      BY <1>3, <1>6, <3>1
    <3>3. "PI_TOOL_BUDGET" \notin DOMAIN over
      BY <1>4, <2>1, SetDomain
    <3> QED  BY <2>1, <3>2, <3>3, GetAppended DEF Budget
  <2>2. CASE budget = <<0>>
    <3>1. budget # Empty
      BY <2>2 DEF Empty
    <3>2. "PI_TOOL_BUDGET" \notin DOMAIN forwarded /\ Getenv(over, "PI_TOOL_BUDGET") = Empty
      BY <1>2, <1>4, <1>6, <2>2, GetSet
    <3> QED  BY <2>2, <3>1, <3>2, GetAppended DEF Budget
  <2>3. CASE budget \notin {Empty, <<0>>}
    BY <1>4, <2>3, GetAppended DEF Budget
  <2> QED  BY <2>1, <2>2, <2>3
<1> QED  BY <1>1, <1>5, <1>7, <1>8, <1>9

LEMMA EnvelopeValues ==
  ASSUME NEW e
  PROVE  /\ DOMAIN EnvelopeEnv(e) = {"HARMOSTES_TRIGGER_REPO", "HARMOSTES_TRIGGER_PR", "HARMOSTES_TRIGGER_SHA"}
         /\ Getenv(EnvelopeEnv(e), "HARMOSTES_TRIGGER_REPO") = <<e.repo>>
         /\ Getenv(EnvelopeEnv(e), "HARMOSTES_TRIGGER_PR") = <<e.pr>>
         /\ Getenv(EnvelopeEnv(e), "HARMOSTES_TRIGGER_SHA") = <<e.sha>>
<1> DEFINE a == Set("HARMOSTES_TRIGGER_REPO", <<e.repo>>)
           b == Set("HARMOSTES_TRIGGER_PR", <<e.pr>>)
           c == Set("HARMOSTES_TRIGGER_SHA", <<e.sha>>)
           bc == Appended(b, c)
<1>1. /\ DOMAIN a = {"HARMOSTES_TRIGGER_REPO"} /\ DOMAIN b = {"HARMOSTES_TRIGGER_PR"}
      /\ DOMAIN c = {"HARMOSTES_TRIGGER_SHA"}
  BY SetDomain
<1>2. /\ Getenv(a, "HARMOSTES_TRIGGER_REPO") = <<e.repo>> /\ Getenv(b, "HARMOSTES_TRIGGER_PR") = <<e.pr>>
      /\ Getenv(c, "HARMOSTES_TRIGGER_SHA") = <<e.sha>>
  BY GetSet
<1>3. EnvelopeEnv(e) = Appended(a, bc)
  BY DEF EnvelopeEnv
<1> HIDE DEF a, b, c
<1>4. DOMAIN bc = DOMAIN b \cup DOMAIN c
  BY AppendedDomain
<1>5. "HARMOSTES_TRIGGER_PR" \notin DOMAIN c /\ "HARMOSTES_TRIGGER_SHA" \in DOMAIN c
  BY <1>1
<1>6. Getenv(bc, "HARMOSTES_TRIGGER_PR") = <<e.pr>> /\ Getenv(bc, "HARMOSTES_TRIGGER_SHA") = <<e.sha>>
  BY <1>2, <1>5, GetAppended
<1> HIDE DEF bc
<1>7. DOMAIN Appended(a, bc) = DOMAIN a \cup DOMAIN bc
  BY AppendedDomain
<1>8. /\ "HARMOSTES_TRIGGER_REPO" \notin DOMAIN bc
      /\ "HARMOSTES_TRIGGER_PR" \in DOMAIN bc /\ "HARMOSTES_TRIGGER_SHA" \in DOMAIN bc
  BY <1>1, <1>4
<1>9. /\ Getenv(Appended(a, bc), "HARMOSTES_TRIGGER_REPO") = <<e.repo>>
      /\ Getenv(Appended(a, bc), "HARMOSTES_TRIGGER_PR") = <<e.pr>>
      /\ Getenv(Appended(a, bc), "HARMOSTES_TRIGGER_SHA") = <<e.sha>>
  BY <1>2, <1>6, <1>8, GetAppended
<1>10. DOMAIN EnvelopeEnv(e) = {"HARMOSTES_TRIGGER_REPO", "HARMOSTES_TRIGGER_PR", "HARMOSTES_TRIGGER_SHA"}
  BY <1>1, <1>3, <1>4, <1>7
<1> QED  BY <1>3, <1>9, <1>10

(* What a dispatched run's process is told about its trigger.                *)
LEMMA DispatchValues ==
  ASSUME NEW req, NEW attempt, NEW envelope
  PROVE  LET env == dispatchEnv(req, attempt, envelope) IN
         /\ envelope # Empty =>
              /\ Getenv(env, "HARMOSTES_TRIGGER_REPO") = <<envelope[1].repo>>
              /\ Getenv(env, "HARMOSTES_TRIGGER_PR") = <<envelope[1].pr>>
              /\ Getenv(env, "HARMOSTES_TRIGGER_SHA") = <<envelope[1].sha>>
         /\ Getenv(env, "HARMOSTES_DISPATCHED_ATTEMPT") = <<attempt>>
         /\ envelope = Empty =>
              /\ Getenv(env, "HARMOSTES_TRIGGER_PR") = req.pr
              /\ Getenv(env, "HARMOSTES_TRIGGER_REVISION") = req.revision
              /\ Getenv(env, "HARMOSTES_TRIGGER_SHA") = Empty
<1> DEFINE a == Set("HARMOSTES_ATTEMPT", <<attempt>>)
           b == Set("HARMOSTES_DISPATCHED_ATTEMPT", <<attempt>>)
           ab == Appended(a, b)
           c == EnvelopeEnv(envelope[1])
           d == NonEmpty("HARMOSTES_TRIGGER_PR", req.pr)
           f == NonEmpty("HARMOSTES_TRIGGER_REVISION", req.revision)
           df == Appended(d, f)
<1>1. dispatchEnv(req, attempt, envelope) = IF envelope # Empty THEN Appended(ab, c) ELSE Appended(ab, df)
  BY DEF dispatchEnv
<1>2. /\ DOMAIN a = {"HARMOSTES_ATTEMPT"} /\ DOMAIN b = {"HARMOSTES_DISPATCHED_ATTEMPT"}
      /\ DOMAIN d \subseteq {"HARMOSTES_TRIGGER_PR"} /\ DOMAIN f \subseteq {"HARMOSTES_TRIGGER_REVISION"}
  BY SetDomain
<1>3. /\ Getenv(c, "HARMOSTES_TRIGGER_REPO") = <<envelope[1].repo>>
      /\ Getenv(c, "HARMOSTES_TRIGGER_PR") = <<envelope[1].pr>>
      /\ Getenv(c, "HARMOSTES_TRIGGER_SHA") = <<envelope[1].sha>>
      /\ DOMAIN c = {"HARMOSTES_TRIGGER_REPO", "HARMOSTES_TRIGGER_PR", "HARMOSTES_TRIGGER_SHA"}
      /\ Getenv(b, "HARMOSTES_DISPATCHED_ATTEMPT") = <<attempt>>
      /\ Getenv(d, "HARMOSTES_TRIGGER_PR") = req.pr /\ Getenv(f, "HARMOSTES_TRIGGER_REVISION") = req.revision
  BY EnvelopeValues, GetSet
<1> HIDE DEF a, b, c, d, f
<1>4. DOMAIN ab = DOMAIN a \cup DOMAIN b /\ DOMAIN df = DOMAIN d \cup DOMAIN f
  BY AppendedDomain
<1>5. /\ "HARMOSTES_TRIGGER_REPO" \notin DOMAIN ab /\ "HARMOSTES_TRIGGER_PR" \notin DOMAIN ab
      /\ "HARMOSTES_TRIGGER_REVISION" \notin DOMAIN ab /\ "HARMOSTES_TRIGGER_SHA" \notin DOMAIN ab
      /\ "HARMOSTES_TRIGGER_PR" \notin DOMAIN f /\ "HARMOSTES_TRIGGER_REVISION" \notin DOMAIN d
      /\ "HARMOSTES_TRIGGER_SHA" \notin DOMAIN df
      /\ "HARMOSTES_DISPATCHED_ATTEMPT" \in DOMAIN b
      /\ "HARMOSTES_DISPATCHED_ATTEMPT" \notin DOMAIN df /\ "HARMOSTES_DISPATCHED_ATTEMPT" \notin DOMAIN c
  BY <1>2, <1>3, <1>4
<1>6. /\ Getenv(df, "HARMOSTES_TRIGGER_PR") = req.pr /\ Getenv(df, "HARMOSTES_TRIGGER_REVISION") = req.revision
  BY <1>3, <1>5, GetAppended
<1>7. Getenv(df, "HARMOSTES_TRIGGER_SHA") = Empty
  BY <1>5 DEF Getenv
<1>10. Getenv(ab, "HARMOSTES_DISPATCHED_ATTEMPT") = <<attempt>>
  BY <1>3, <1>5, GetAppended
<1> HIDE DEF ab, df
<1>8. /\ Getenv(Appended(ab, c), "HARMOSTES_TRIGGER_REPO") = <<envelope[1].repo>>
      /\ Getenv(Appended(ab, c), "HARMOSTES_TRIGGER_PR") = <<envelope[1].pr>>
      /\ Getenv(Appended(ab, c), "HARMOSTES_TRIGGER_SHA") = <<envelope[1].sha>>
      /\ Getenv(Appended(ab, c), "HARMOSTES_DISPATCHED_ATTEMPT") = <<attempt>>
  BY <1>3, <1>5, <1>10, GetAppended
<1>9. /\ Getenv(Appended(ab, df), "HARMOSTES_TRIGGER_PR") = req.pr
      /\ Getenv(Appended(ab, df), "HARMOSTES_TRIGGER_REVISION") = req.revision
      /\ Getenv(Appended(ab, df), "HARMOSTES_TRIGGER_SHA") = Empty
      /\ Getenv(Appended(ab, df), "HARMOSTES_DISPATCHED_ATTEMPT") = <<attempt>>
  BY <1>5, <1>6, <1>7, <1>10, GetAppended
<1> QED  BY <1>1, <1>8, <1>9

(* The pull request an environment names, in either of the two shapes.       *)
Traced(env, pr) == LineageOf(env) = pr /\ subjectFromEnv(env).ref = pr

LEMMA TracedBare ==
  ASSUME NEW env, NEW repo, NEW num, Getenv(env, "HARMOSTES_TRIGGER_REPO") = <<repo>>,
         Getenv(env, "HARMOSTES_TRIGGER_PR") = <<num>>
  PROVE  Traced(env, <<repo, num>>)
<1>1. /\ <<num>> # Empty /\ <<repo>> # Empty /\ ~IsPointer(<<num>>)
      /\ <<repo>> \o <<num>> = <<repo, num>> /\ IsPointer(<<repo, num>>)
  <2>1. <<num>> # Empty /\ <<repo>> # Empty /\ ~IsPointer(<<num>>) /\ IsPointer(<<repo, num>>)
    BY DEF Empty, IsPointer
  <2> DEFINE T == {repo, num}
             a == <<repo>>
             b == <<num>>
             c == <<repo, num>>
  <2>2. /\ a \in Seq(T) /\ b \in Seq(T) /\ c \in Seq(T) /\ Len(a) = 1 /\ Len(b) = 1 /\ Len(c) = 2
        /\ a[1] = repo /\ b[1] = num /\ c[1] = repo /\ c[2] = num
    OBVIOUS
  <2> HIDE DEF T, a, b, c
  <2>3. a \o b \in Seq(T) /\ Len(a \o b) = 2 /\ (a \o b)[1] = repo /\ (a \o b)[2] = num
    BY <2>2, ConcatProperties
  <2>4. \A i \in 1..2 : i = 1 \/ i = 2
    OBVIOUS
  <2>5. a \o b = c
    BY <2>2, <2>3, <2>4, SeqEqual
  <2> QED  BY <2>1, <2>5 DEF a, b, c
<1>2. wakeFromEnv(env).pr = <<repo>> \o <<num>>
  BY <1>1 DEF wakeFromEnv
<1>3. subjectFromEnv(env).ref = <<repo>> \o <<num>>
  BY <1>1 DEF subjectFromEnv
<1> QED  BY <1>1, <1>2, <1>3 DEF Traced, LineageOf

LEMMA TracedWhole ==
  ASSUME NEW env, NEW pr, Getenv(env, "HARMOSTES_TRIGGER_PR") = pr, pr = Empty \/ pr = <<pr[1], pr[2]>>
  PROVE  Traced(env, pr)
<1>1. pr = Empty => ~IsPointer(pr)
  BY DEF Empty, IsPointer
<1>2. pr # Empty => IsPointer(pr)
  BY DEF IsPointer
<1>3. wakeFromEnv(env).pr = pr
  BY <1>1, <1>2 DEF wakeFromEnv
<1>4. subjectFromEnv(env).ref = pr
  BY <1>1, <1>2 DEF subjectFromEnv
<1> QED  BY <1>1, <1>2, <1>3, <1>4 DEF Traced, LineageOf

(* A run by hand: whichever shape its shell uses.                            *)
LEMMA TracedByHand ==
  ASSUME NEW env, NEW pr, pr = wakeFromEnv(env).pr, pr = Empty \/ pr = <<pr[1], pr[2]>>
  PROVE  Traced(env, pr)
<1> DEFINE p == Getenv(env, "HARMOSTES_TRIGGER_PR")
           repo == Getenv(env, "HARMOSTES_TRIGGER_REPO")
<1>1. pr = IF p # Empty /\ ~IsPointer(p) /\ repo # Empty THEN repo \o p ELSE p
  BY DEF wakeFromEnv
<1>2. subjectFromEnv(env).ref = IF p = Empty THEN Empty ELSE IF IsPointer(p) THEN p ELSE repo \o p
  BY DEF subjectFromEnv
<1> HIDE DEF p, repo
<1>3. pr = Empty => ~IsPointer(pr)
  BY DEF Empty, IsPointer
<1>4. pr # Empty => IsPointer(pr)
  BY DEF IsPointer
<1>5. LineageOf(env) = pr
  BY <1>3, <1>4 DEF LineageOf
<1>6. subjectFromEnv(env).ref = pr
  BY <1>1, <1>2, <1>3, <1>4
<1> QED  BY <1>5, <1>6 DEF Traced

-----------------------------------------------------------------------------
(* The pull request of a run with this environment: what the gate accepted   *)
(* for its Job, or without a gate what the trigger named.                    *)
AcceptedFor(env) == IF Getenv(env, "HARMOSTES_TRIGGER_SHA") = Empty THEN Empty ELSE sc.envelope

Subject(env) ==
  IF AcceptedFor(env) # Empty THEN <<AcceptedFor(env)[1].repo, AcceptedFor(env)[1].pr>> ELSE sc.req.pr

IsJob(env) == Getenv(env, "HARMOSTES_DISPATCHED_ATTEMPT") # Empty

Known(env) ==
  /\ Traced(env, Subject(env))
  /\ IsJob(env) /\ AcceptedFor(env) = Empty => subjectFromEnv(env) = triggerSubject(sc.req)
  /\ ~IsJob(env) => sc.envelope = Empty

Credited(env) ==
  /\ PostToken \in DOMAIN env => Getenv(env, "PI_LOOP_BREAKER") # Empty
  /\ edits = 0 => Getenv(env, "PI_TOOL_BUDGET") = Budget(FetchWorkflow(cr).toolBudget, sc.pool)

EnvOf(r) ==
  /\ pod[r].pc # "none" => Known(pod[r].job.env)
  /\ IsJob(pod[r].job.env) => Credited(pod[r].job.env)

Unedited == edits \in Nat /\ (edits = 0 /\ disp.pc # "idle" => disp.spec = FetchWorkflow(cr))

EnvInv == Pods /\ Records /\ Declarations /\ Unedited /\ \A r \in Runs : EnvOf(r)

LEMMA JobValues ==
  LET env == JobEnv(JobParams)
      review == DeriveKind(disp.spec) = "pr-review"
  IN /\ Getenv(env, "PI_LOOP_BREAKER") = IF review THEN <<"1">> ELSE Empty
     /\ Getenv(env, "PI_TOOL_BUDGET") = Budget(disp.spec.toolBudget, sc.pool)
     /\ PostToken \in DOMAIN env => review
     /\ \A t \in {"HARMOSTES_TRIGGER_REPO", "HARMOSTES_TRIGGER_PR", "HARMOSTES_TRIGGER_SHA", "HARMOSTES_TRIGGER_REVISION",
           "HARMOSTES_DISPATCHED_ATTEMPT"} :
           Getenv(env, t) = Getenv(dispatchEnv(sc.req, Attempt, Envelope), t)
<1> DEFINE review == DeriveKind(disp.spec) = "pr-review"
           a == jobCredentialEnv(sc.pool, disp.spec.toolBudget, review)
           b == dispatchEnv(sc.req, Attempt, Envelope)
           p == JobParams
           env == JobEnv(p)
           x == Appended(a, b)
<1>1. p.extraEnv = x
  BY DEF JobParams
<1>2. review \in BOOLEAN
  OBVIOUS
<1>3. /\ Getenv(a, "PI_LOOP_BREAKER") = IF review THEN <<"1">> ELSE Empty
      /\ Getenv(a, "PI_TOOL_BUDGET") = Budget(disp.spec.toolBudget, sc.pool)
      /\ DOMAIN a \subseteq jobEnvAllowlist \cup {"PI_LOOP_BREAKER"}
      /\ PostToken \in DOMAIN a => review
  <2> HIDE DEF review
  <2> QED  BY <1>2, CredentialValues, CredentialDomain
<1>4. DOMAIN b \subseteq
             {"HARMOSTES_ATTEMPT", "HARMOSTES_DISPATCHED_ATTEMPT", "HARMOSTES_TRIGGER_REPO",
              "HARMOSTES_TRIGGER_PR", "HARMOSTES_TRIGGER_SHA", "HARMOSTES_TRIGGER_REVISION"}
  BY DispatchDomain
<1> HIDE DEF a, b, p, review
<1>5. DOMAIN x = DOMAIN a \cup DOMAIN b
  BY AppendedDomain
<1>6. /\ "PI_LOOP_BREAKER" \notin DOMAIN b /\ "PI_TOOL_BUDGET" \notin DOMAIN b /\ PostToken \notin DOMAIN b
  BY <1>4 DEF PostToken
<1>7. \A t \in {"HARMOSTES_TRIGGER_REPO", "HARMOSTES_TRIGGER_PR", "HARMOSTES_TRIGGER_SHA", "HARMOSTES_TRIGGER_REVISION",
           "HARMOSTES_DISPATCHED_ATTEMPT"} :
           t \notin DOMAIN a /\ t \notin BuilderNames
  BY <1>3 DEF jobEnvAllowlist, budgetTrio, PostToken, BuilderNames
<1>8. "PI_LOOP_BREAKER" \notin BuilderNames /\ "PI_TOOL_BUDGET" \notin BuilderNames /\ PostToken \notin BuilderNames
  BY DEF PostToken, BuilderNames
<1>9. ASSUME NEW t, t \notin BuilderNames
      PROVE  Getenv(env, t) = Getenv(x, t) /\ (t \in DOMAIN env <=> t \in DOMAIN x)
  BY <1>1, <1>9, BuilderEnv
<1>10. Getenv(env, "PI_LOOP_BREAKER") = Getenv(a, "PI_LOOP_BREAKER") /\ Getenv(env, "PI_TOOL_BUDGET") = Getenv(a, "PI_TOOL_BUDGET")
  <2>1. Getenv(x, "PI_LOOP_BREAKER") = Getenv(a, "PI_LOOP_BREAKER") /\ Getenv(x, "PI_TOOL_BUDGET") = Getenv(a, "PI_TOOL_BUDGET")
    BY <1>6, GetAppended
  <2> QED  BY <1>8, <1>9, <2>1
<1>11. PostToken \in DOMAIN env => review
  BY <1>3, <1>5, <1>6, <1>8, <1>9
<1>12. ASSUME NEW t \in {"HARMOSTES_TRIGGER_REPO", "HARMOSTES_TRIGGER_PR", "HARMOSTES_TRIGGER_SHA", "HARMOSTES_TRIGGER_REVISION",
                   "HARMOSTES_DISPATCHED_ATTEMPT"}
       PROVE  Getenv(env, t) = Getenv(b, t)
  <2>1. t \notin DOMAIN a /\ t \notin BuilderNames
    BY <1>7
  <2>2. Getenv(x, t) = Getenv(b, t)
    BY <2>1, GetAppended
  <2> QED  BY <1>9, <2>1, <2>2
<1> QED  BY <1>3, <1>10, <1>11, <1>12 DEF b, p, review

(* The environment of a new Job names the pull request it was made for, and  *)
(* holds what its Workflow declared when it was read.                        *)
LEMMA JobIsKnown ==
  ASSUME sc \in Scenarios, disp.pc = "create", Unedited
  PROVE  Known(JobEnv(JobParams)) /\ Credited(JobEnv(JobParams))
<1> DEFINE env == JobEnv(JobParams)
           review == DeriveKind(disp.spec) = "pr-review"
           d == dispatchEnv(sc.req, Attempt, Envelope)
<1>1. /\ Getenv(env, "PI_LOOP_BREAKER") = IF review THEN <<"1">> ELSE Empty
      /\ Getenv(env, "PI_TOOL_BUDGET") = Budget(disp.spec.toolBudget, sc.pool)
      /\ PostToken \in DOMAIN env => review
  BY JobValues
<1>2. /\ Getenv(env, "HARMOSTES_TRIGGER_REPO") = Getenv(d, "HARMOSTES_TRIGGER_REPO")
      /\ Getenv(env, "HARMOSTES_TRIGGER_PR") = Getenv(d, "HARMOSTES_TRIGGER_PR")
      /\ Getenv(env, "HARMOSTES_TRIGGER_SHA") = Getenv(d, "HARMOSTES_TRIGGER_SHA")
      /\ Getenv(env, "HARMOSTES_TRIGGER_REVISION") = Getenv(d, "HARMOSTES_TRIGGER_REVISION")
      /\ Getenv(env, "HARMOSTES_DISPATCHED_ATTEMPT") = Getenv(d, "HARMOSTES_DISPATCHED_ATTEMPT")
  BY JobValues
<1>3. /\ <<"1">> # Empty /\ <<Attempt>> # Empty /\ <<Envelope[1].sha>> # Empty
      /\ Envelope # Empty => Envelope = sc.envelope
  BY DEF Empty, Envelope
<1>4. /\ Getenv(d, "HARMOSTES_DISPATCHED_ATTEMPT") = <<Attempt>>
      /\ Envelope # Empty => Getenv(d, "HARMOSTES_TRIGGER_SHA") = <<Envelope[1].sha>>
      /\ Envelope = Empty => Getenv(d, "HARMOSTES_TRIGGER_SHA") = Empty
  BY DispatchValues
<1> HIDE DEF env, d, review
<1>5. AcceptedFor(env) = Envelope /\ IsJob(env)
  BY <1>2, <1>3, <1>4 DEF AcceptedFor, IsJob
<1>6. Credited(env)
  <2>1. edits = 0 => disp.spec = FetchWorkflow(cr)
    BY DEF Unedited
  <2> QED  BY <1>1, <1>3, <2>1 DEF Credited
<1>7. Known(env)
  <2>1. CASE Envelope # Empty
    <3>1. /\ Getenv(env, "HARMOSTES_TRIGGER_REPO") = <<Envelope[1].repo>>
          /\ Getenv(env, "HARMOSTES_TRIGGER_PR") = <<Envelope[1].pr>>
      BY <1>2, <2>1, DispatchValues DEF d
    <3>2. Traced(env, <<Envelope[1].repo, Envelope[1].pr>>)
      BY <3>1, TracedBare
    <3> QED  BY <1>5, <2>1, <3>2 DEF Known, Subject
  <2>2. CASE Envelope = Empty
    <3>1. /\ Getenv(env, "HARMOSTES_TRIGGER_PR") = sc.req.pr
          /\ Getenv(env, "HARMOSTES_TRIGGER_REVISION") = sc.req.revision
          /\ Getenv(env, "HARMOSTES_TRIGGER_SHA") = Empty
      BY <1>2, <2>2, DispatchValues DEF d
    <3>2. sc.req.pr = Empty \/ sc.req.pr = <<sc.req.pr[1], sc.req.pr[2]>>
      BY TriggerAssumption
    <3>3. Traced(env, sc.req.pr)
      BY <3>1, <3>2, TracedWhole
    <3>4. subjectFromEnv(env) = triggerSubject(sc.req)
      <4>1. sc.req.pr # Empty => IsPointer(sc.req.pr)
        BY <3>2 DEF IsPointer
      <4> QED  BY <3>1, <4>1 DEF subjectFromEnv, triggerSubject
    <3> QED  BY <1>5, <2>2, <3>3, <3>4 DEF Known, Subject
  <2> QED  BY <2>1, <2>2
<1> QED  BY <1>6, <1>7 DEF env

LEMMA EnvInit == Init => EnvInv
<1> SUFFICES ASSUME Init PROVE EnvInv
  OBVIOUS
<1>1. Pods /\ Records
  BY EvidenceInit DEF EvidenceInv
<1>2. Declarations /\ edits = 0 /\ disp.pc = "idle"
  BY DeclaredInit DEF Init, Idle
<1>3. ASSUME NEW r \in Runs PROVE EnvOf(r)
  <2>1. pod[r].pc = "none" /\ pod[r].job.env = NoEnv
    BY DEF Init, NoPod, NoJob
  <2>2. ~IsJob(NoEnv)
    BY GetSet DEF IsJob
  <2> QED  BY <2>1, <2>2 DEF EnvOf
<1> QED  BY <1>1, <1>2, <1>3 DEF EnvInv, Unedited

LEMMA UneditedNext ==
  ASSUME Declarations, Unedited, [Next]_vars
  PROVE  Unedited' /\ (edits' = 0 => edits = 0 /\ cr' = cr)
<1>1. CASE Edit
  <2>1. edits' = edits + 1 /\ edits \in Nat
    BY <1>1 DEF Edit, Unedited
  <2>2. edits' \in Nat /\ edits' # 0
    BY <2>1
  <2> QED  BY <2>2 DEF Unedited
<1>2. CASE Dispatch
  <2>1. edits' = edits /\ cr' = cr
    BY <1>2 DEF Dispatch, world
  <2>2. disp'.spec = FetchWorkflow(cr)
    BY <1>2 DEF Dispatch, Idle
  <2> QED  BY <2>1, <2>2 DEF Unedited
<1>3. CASE Compose
  <2>1. edits' = edits /\ cr' = cr /\ disp.pc = "compose"
    BY <1>3 DEF Compose, world
  <2>2. disp' = Idle \/ \E a, b : disp' = [disp EXCEPT !.pc = "create", !.pins = a, !.harness = b]
    BY <1>3 DEF Compose
  <2>3. CASE disp' = Idle
    <3>1. disp'.pc = "idle"
      BY <2>3 DEF Idle
    <3> QED  BY <2>1, <3>1 DEF Unedited
  <2>4. CASE disp' # Idle
    <3>1. PICK a, b : disp' = [disp EXCEPT !.pc = "create", !.pins = a, !.harness = b]
      BY <2>2, <2>4
    <3>2. disp \in [pc : {disp.pc}, spec : {disp.spec}, pins : {disp.pins}, harness : {disp.harness}]
      BY DEF Declarations
    <3>3. disp'.spec = disp.spec
      BY <3>1, <3>2
    <3> QED  BY <2>1, <3>3 DEF Unedited
  <2> QED  BY <2>3, <2>4
<1>4. ASSUME NEW r \in Runs, Step(r) PROVE Unedited' /\ edits' = edits /\ cr' = cr
  <2>1. edits' = edits /\ cr' = cr /\ (disp' = disp \/ disp' = Idle)
    BY <1>4 DEF Step, world, Create, RunByHand, InitPin, InitRest, Start, Pin, Begin,
       RecordStarted, Spawn, NodeEvent, Complete, JournalRead, JournalWrite, Outcome, Cancel, Die, Expire
  <2> QED  BY <2>1 DEF Unedited, Idle
<1>5. CASE UNCHANGED vars
  BY <1>5 DEF vars, Unedited
<1> QED  BY <1>1, <1>2, <1>3, <1>4, <1>5 DEF Next

(* A process keeps the environment it was started with.                      *)
LEMMA EnvStill ==
  ASSUME NEW q \in Runs, EnvOf(q), sc' = sc, edits' = 0 => (edits = 0 /\ cr' = cr),
         pod'[q].job.env = pod[q].job.env, pod'[q].pc # "none" => pod[q].pc # "none"
  PROVE  EnvOf(q)'
<1> DEFINE env == pod[q].job.env
<1>1. Known(env) => Known(env)'
  BY DEF Known, Subject, AcceptedFor
<1>2. Credited(env) => Credited(env)'
  BY DEF Credited
<1> QED  BY <1>1, <1>2 DEF EnvOf, Known, Subject, AcceptedFor, Credited

(* A run by hand: its shell's environment.                                   *)
LEMMA EnvByHand ==
  ASSUME Pods, sc \in Scenarios, NEW r \in Runs, RunByHand(r), sc' = sc
  PROVE  EnvOf(r)'
<1> DEFINE env == sc.pool
<1>1. sc.byHand /\ pod'[r].job.env = env
  BY ByHandFrame
<1>2. /\ sc.envelope = Empty /\ sc.req.pr = wakeFromEnv(env).pr /\ ~IsJob(env)
      /\ sc.req.pr = Empty \/ sc.req.pr = <<sc.req.pr[1], sc.req.pr[2]>>
  BY <1>1, TriggerAssumption DEF IsJob
<1>3. Traced(env, sc.req.pr)
  BY <1>2, TracedByHand
<1>5. Known(env)
  BY <1>2, <1>3 DEF Known, Subject, AcceptedFor
<1>6. (Known(pod[r].job.env))' /\ ~IsJob(pod'[r].job.env)
  BY <1>1, <1>2, <1>5 DEF Known, Subject, AcceptedFor
<1> QED  BY <1>6 DEF EnvOf

(* A run that asks the gate itself: the envelope is for the pull request its *)
(* shell named.                                                              *)
LEMMA EnvAsked ==
  ASSUME sc \in Scenarios, NEW env, NEW e, Known(env), ~IsJob(env), Named(env, e)
  PROVE  LET more == Appended(Appended(env, EnvelopeEnv(e)), Set("HARMOSTES_ATTEMPT", <<Attempt>>))
         IN Known(more) /\ ~IsJob(more)
<1> DEFINE a == EnvelopeEnv(e)
           b == Set("HARMOSTES_ATTEMPT", <<Attempt>>)
           x == Appended(env, a)
           more == Appended(x, b)
           pr == wakeFromEnv(env).pr
<1>1. IsPointer(pr) /\ e.repo = pr[1] /\ e.pr = pr[2]
  BY DEF Named
<1>2. pr = Subject(env)
  BY <1>1 DEF Known, Traced, LineageOf
<1>3. /\ DOMAIN a = {"HARMOSTES_TRIGGER_REPO", "HARMOSTES_TRIGGER_PR", "HARMOSTES_TRIGGER_SHA"}
      /\ Getenv(a, "HARMOSTES_TRIGGER_REPO") = <<pr[1]>>
      /\ Getenv(a, "HARMOSTES_TRIGGER_PR") = <<pr[2]>>
  BY <1>1, EnvelopeValues
<1>4. DOMAIN b = {"HARMOSTES_ATTEMPT"}
  BY SetDomain
<1> HIDE DEF a, b, pr
<1>5. /\ "HARMOSTES_TRIGGER_REPO" \in DOMAIN a /\ "HARMOSTES_TRIGGER_REPO" \notin DOMAIN b
      /\ "HARMOSTES_TRIGGER_PR" \in DOMAIN a /\ "HARMOSTES_TRIGGER_PR" \notin DOMAIN b
      /\ "PI_LOOP_BREAKER" \notin DOMAIN a /\ "PI_LOOP_BREAKER" \notin DOMAIN b
      /\ "HARMOSTES_DISPATCHED_ATTEMPT" \notin DOMAIN a /\ "HARMOSTES_DISPATCHED_ATTEMPT" \notin DOMAIN b
  BY <1>3, <1>4
<1>6. /\ Getenv(x, "HARMOSTES_TRIGGER_REPO") = <<pr[1]>> /\ Getenv(x, "HARMOSTES_TRIGGER_PR") = <<pr[2]>>
      /\ Getenv(x, "PI_LOOP_BREAKER") = Getenv(env, "PI_LOOP_BREAKER")
      /\ Getenv(x, "HARMOSTES_DISPATCHED_ATTEMPT") = Getenv(env, "HARMOSTES_DISPATCHED_ATTEMPT")
  BY <1>3, <1>5, GetAppended
<1> HIDE DEF x
<1>7. /\ Getenv(more, "HARMOSTES_TRIGGER_REPO") = <<pr[1]>> /\ Getenv(more, "HARMOSTES_TRIGGER_PR") = <<pr[2]>>
      /\ Getenv(more, "PI_LOOP_BREAKER") = Getenv(env, "PI_LOOP_BREAKER")
      /\ Getenv(more, "HARMOSTES_DISPATCHED_ATTEMPT") = Getenv(env, "HARMOSTES_DISPATCHED_ATTEMPT")
  BY <1>5, <1>6, GetAppended
<1> HIDE DEF more
<1>8. AcceptedFor(more) = AcceptedFor(env) /\ Subject(more) = Subject(env) /\ ~IsJob(more)
  <2>1. sc.envelope = Empty
    BY DEF Known
  <2>2. AcceptedFor(more) = Empty /\ AcceptedFor(env) = Empty
    BY <2>1 DEF AcceptedFor
  <2> QED  BY <1>7, <2>2 DEF Subject, IsJob
<1>9. Traced(more, <<pr[1], pr[2]>>)
  BY <1>7, TracedBare
<1>10. pr = <<pr[1], pr[2]>>
  <2>1. sc.req.pr = Empty \/ sc.req.pr = <<sc.req.pr[1], sc.req.pr[2]>>
    BY TriggerAssumption
  <2>2. ~IsPointer(Empty)
    BY DEF IsPointer, Empty
  <2>3. pr = sc.req.pr \/ pr = <<AcceptedFor(env)[1].repo, AcceptedFor(env)[1].pr>>
    BY <1>2 DEF Subject
  <2> QED  BY <1>1, <2>1, <2>2, <2>3
<1>11. Known(more)
  BY <1>2, <1>8, <1>9, <1>10 DEF Known
<1> QED  BY <1>8, <1>11 DEF more, x, a, b

LEMMA EnvStep ==
  ASSUME Pods, Records, Declarations, Unedited, \A q \in Runs : EnvOf(q), sc' = sc,
         edits' = 0 => (edits = 0 /\ cr' = cr), NEW r \in Runs, Step(r)
  PROVE  Pods' /\ Records' /\ \A q \in Runs : EnvOf(q)'
<1>0. EnvOf(r) /\ sc \in Scenarios
  BY DEF Declarations
<1>1. CASE Create(r)
  <2>1. Pods' /\ ledger' = ledger /\ \A q \in Runs : q # r => pod'[q] = pod[q]
    BY <1>1, CreateFrame DEF evidence
  <2>2. CASE pod'[r] = pod[r]
    BY <2>1, <2>2, EnvStill DEF Records
  <2>3. CASE pod'[r] # pod[r]
    <3> DEFINE env == JobEnv(JobParams)
    <3>1. disp.pc = "create" /\ pod'[r].job = BuildJob(JobParams)
      BY <1>1, <2>3, CreateFrame
    <3>2. pod'[r].job.env = env
      BY <3>1 DEF BuildJob
    <3>3. Known(env) /\ Credited(env)
      BY <1>0, <3>1, JobIsKnown
    <3> HIDE DEF env
    <3>4. (Known(pod[r].job.env))' /\ (Credited(pod[r].job.env))'
      BY <3>2, <3>3 DEF Known, Subject, AcceptedFor, Credited
    <3>5. EnvOf(r)'
      BY <3>4 DEF EnvOf
    <3> QED  BY <2>1, <3>5, EnvStill DEF Records
  <2> QED  BY <2>2, <2>3
<1>2. CASE RunByHand(r)
  <2>1. Pods' /\ ledger' = ledger /\ \A q \in Runs : q # r => pod'[q] = pod[q]
    BY <1>2, ByHandFrame DEF evidence
  <2>2. EnvOf(r)'
    BY <1>0, <1>2, EnvByHand
  <2> QED  BY <2>1, <2>2, EnvStill DEF Records
<1>3. CASE Start(r)
  <2>1. /\ Pods' /\ Records' /\ (\A q \in Runs : q # r => pod'[q] = pod[q]) /\ pod[r].pc = "start"
        /\ \/ pod'[r].job.env = pod[r].job.env
           \/ /\ ~Dispatched(r)
              /\ \E e : Named(pod[r].job.env, e) /\ pod'[r].job.env = Appended(Appended(pod[r].job.env, EnvelopeEnv(e)),
                                                    Set("HARMOSTES_ATTEMPT", <<Attempt>>))
    BY <1>3, StartFrame
  <2>2. CASE pod'[r].job.env = pod[r].job.env
    <3>1. EnvOf(r)'
      BY <1>0, <2>1, <2>2, EnvStill
    <3> QED  BY <2>1, <3>1, EnvStill
  <2>3. CASE pod'[r].job.env # pod[r].job.env
    <3> DEFINE env == pod[r].job.env
    <3>1. PICK e : Named(env, e) /\ pod'[r].job.env = Appended(Appended(env, EnvelopeEnv(e)),
                                                    Set("HARMOSTES_ATTEMPT", <<Attempt>>))
      BY <2>1, <2>3
    <3>2. Known(env) /\ ~IsJob(env)
      BY <1>0, <2>1, <2>3 DEF EnvOf, Dispatched, IsJob
    <3> DEFINE more == Appended(Appended(env, EnvelopeEnv(e)), Set("HARMOSTES_ATTEMPT", <<Attempt>>))
    <3>3. Known(more) /\ ~IsJob(more)
      BY <1>0, <3>1, <3>2, EnvAsked
    <3>4. pod'[r].job.env = more
      BY <3>1
    <3> HIDE DEF more, env
    <3>5. (Known(pod[r].job.env))' /\ ~IsJob(pod'[r].job.env)
      BY <3>3, <3>4 DEF Known, Subject, AcceptedFor
    <3>6. EnvOf(r)'
      BY <3>5 DEF EnvOf
    <3> QED  BY <2>1, <3>6, EnvStill
  <2> QED  BY <2>2, <2>3
<1>4. CASE InitPin(r) \/ InitRest(r) \/ Pin(r) \/ Spawn(r)
  <2>1. /\ Pods' /\ ledger' = ledger /\ (\A q \in Runs : q # r => pod'[q] = pod[q])
        /\ pod'[r].job = pod[r].job /\ pod[r].pc # "none"
    BY <1>4, InitPinFrame, InitRestFrame, PinFrame, SpawnFrame DEF evidence, Fixed
  <2>2. EnvOf(r)'
    BY <1>0, <2>1, EnvStill
  <2> QED  BY <2>1, <2>2, EnvStill DEF Records
<1>5. CASE Begin(r) \/ NodeEvent(r) \/ Complete(r)
  <2>1. /\ Pods' /\ ledger' = ledger /\ (\A q \in Runs : q # r => pod'[q] = pod[q])
        /\ pod'[r].job = pod[r].job /\ pod[r].pc # "none"
    BY <1>5, BoundaryFrame DEF Fixed
  <2>2. EnvOf(r)'
    BY <1>0, <2>1, EnvStill
  <2> QED  BY <2>1, <2>2, EnvStill DEF Records
<1>6. CASE RecordStarted(r) \/ Outcome(r)
  <2>1. /\ Pods' /\ Records' /\ (\A q \in Runs : q # r => pod'[q] = pod[q])
        /\ pod'[r].job = pod[r].job /\ pod[r].pc # "none"
    BY <1>6, RecordFrame DEF Fixed
  <2>2. EnvOf(r)'
    BY <1>0, <2>1, EnvStill
  <2> QED  BY <2>1, <2>2, EnvStill
<1>7. CASE JournalRead(r) \/ JournalWrite(r)
  <2>1. /\ Pods' /\ ledger' = ledger /\ (\A q \in Runs : q # r => pod'[q] = pod[q])
        /\ pod'[r].job = pod[r].job /\ pod[r].pc # "none"
    BY <1>7, JournalReadFrame, JournalWriteFrame DEF evidence, Fixed
  <2>2. ASSUME NEW q \in Runs PROVE EnvOf(q)'
    BY <2>1, EnvStill
  <2> QED  BY <2>1, <2>2 DEF Records
<1>8. CASE Cancel(r) \/ Die(r)
  <2>1. /\ Pods' /\ ledger' = ledger /\ (\A q \in Runs : q # r => pod'[q] = pod[q])
        /\ pod'[r].job = pod[r].job /\ pod[r].pc # "none"
    BY <1>8, EndFrame DEF evidence, Fixed, Ended
  <2>2. EnvOf(r)'
    BY <1>0, <2>1, EnvStill
  <2> QED  BY <2>1, <2>2, EnvStill DEF Records
<1>9. CASE Expire(r)
  <2>1. pod' = pod /\ ledger' = ledger
    BY <1>9 DEF Expire
  <2> QED  BY <2>1, EnvStill DEF Pods, Records
<1> QED  BY <1>1, <1>2, <1>3, <1>4, <1>5, <1>6, <1>7, <1>8, <1>9 DEF Step

LEMMA EnvNext ==
  ASSUME EnvInv, [Next]_vars
  PROVE  EnvInv'
<1>0. /\ Pods /\ Records /\ Declarations /\ Unedited /\ (\A q \in Runs : EnvOf(q))
      /\ sc' = sc /\ Declarations' /\ Unedited' /\ (edits' = 0 => edits = 0 /\ cr' = cr)
  BY SameScenario, DeclaredNext, UneditedNext DEF EnvInv
<1>1. ASSUME NEW r \in Runs, Step(r) PROVE EnvInv'
  BY <1>0, <1>1, EnvStep DEF EnvInv
<1>2. CASE Edit \/ Dispatch \/ Compose \/ UNCHANGED vars
  <2>1. pod' = pod /\ ledger' = ledger
    BY <1>2 DEF Edit, Dispatch, Compose, vars, evidence
  <2> QED  BY <1>0, <2>1, EnvStill DEF EnvInv, Pods, Records
<1> QED  BY <1>1, <1>2 DEF Next

LEMMA SafeSessions ==
  ASSUME RuntimeInv, EnvInv
  PROVE  SessionEnvSafe
<1> SUFFICES ASSUME NEW r \in Runs, pod[r].session # Empty
             PROVE  LET env == pod[r].session[1].env IN
        /\ DOMAIN env \cap ({BotTokenEnvKey, BotHostEnvKey} \cup (jobEnvAllowlist \ spawnSafeEnv)) = {}
        /\ DOMAIN PluginEnv(pod[r].job.env) \cap {BotTokenEnvKey, BotHostEnvKey} = {}
        /\ Dispatched(r) =>
               /\ PostToken \in DOMAIN env => Getenv(env, "PI_LOOP_BREAKER") # Empty
               /\ edits = 0 => Getenv(env, "PI_TOOL_BUDGET") = Budget(FetchWorkflow(cr).toolBudget, sc.pool)
  BY DEF SessionEnvSafe, Budget
<1> DEFINE job == pod[r].job.env
           env == SessionEnv(job, sc.rig)
<1>1. pod[r].session = <<[env |-> env, dirs |-> Names(pod[r].job.pins)]>>
  BY DEF RuntimeInv, RuntimeOf
<1>2. pod[r].session[1].env = env
  BY <1>1
<1>3. IsJob(job) => Credited(job)
  BY DEF EnvInv, EnvOf
<1>4. Dispatched(r) <=> IsJob(job)
  BY DEF Dispatched, IsJob
<1>5. /\ DOMAIN env \cap ({BotTokenEnvKey, BotHostEnvKey} \cup (jobEnvAllowlist \ spawnSafeEnv)) = {}
      /\ DOMAIN PluginEnv(job) \cap {BotTokenEnvKey, BotHostEnvKey} = {}
  BY SessionHasNoBot
<1>6. \A name \in {"PI_LOOP_BREAKER", "PI_TOOL_BUDGET"} : Getenv(env, name) = Getenv(job, name)
  <2>1. ASSUME NEW name \in {"PI_LOOP_BREAKER", "PI_TOOL_BUDGET"}
        PROVE  /\ name \notin {BotTokenEnvKey, BotHostEnvKey} /\ name \notin jobEnvAllowlist \ spawnSafeEnv
               /\ name \notin {"RIG_EXPECTED_SHA", "RIG_REQUIRE_SHA"}
    BY DEF BotTokenEnvKey, BotHostEnvKey, jobEnvAllowlist, spawnSafeEnv, budgetTrio, PostToken
  <2> QED  BY <2>1, SessionKeeps
<1>7. PostToken \in DOMAIN env => PostToken \in DOMAIN job
  <2>1. DOMAIN ChildEnv(job) \subseteq DOMAIN job
    BY ChildDomain
  <2>2. DOMAIN env \subseteq DOMAIN ChildEnv(job) \cup {"RIG_EXPECTED_SHA", "RIG_REQUIRE_SHA"}
    BY SpawnDomain DEF SessionEnv
  <2>3. PostToken \notin {"RIG_EXPECTED_SHA", "RIG_REQUIRE_SHA"}
    BY DEF PostToken
  <2> QED  BY <2>1, <2>2, <2>3
<1> HIDE DEF job, env
<1> QED  BY <1>2, <1>3, <1>4, <1>5, <1>6, <1>7 DEF Credited, job

(* Whatever the pool, the Workflow, its template and the trigger hold, and   *)
(* whether the run was dispatched or started by hand: no session or plugin   *)
(* has the approving bot's credential, no session a credential that is not   *)
(* for sessions, no session outside a review the posting token, and the tool *)
(* budget of a Job's session is the declared one (jobCredentialEnv,          *)
(* BuildJob, ChildEnv, spawnEnv).                                            *)
THEOREM SessionsAreSafe == Spec => []SessionEnvSafe
<1>1. RuntimeInv /\ EnvInv /\ [Next]_vars => RuntimeInv' /\ EnvInv'
  BY RuntimeNext, EnvNext
<1>2. RuntimeInv /\ EnvInv => SessionEnvSafe
  BY SafeSessions
<1> QED  BY <1>1, <1>2, RuntimeInit, EnvInit, PTL DEF Spec

LEMMA KnownIsKept ==
  ASSUME RuntimeInv, EnvInv
  PROVE  IdentityKept
<1> SUFFICES ASSUME NEW r \in Runs, pod[r].session # Empty
             PROVE  LET env == pod[r].job.env
                    IN /\ LineageOf(env) = Subject(env) /\ subjectFromEnv(env).ref = Subject(env)
                       /\ Dispatched(r) /\ AcceptedFor(env) = Empty => subjectFromEnv(env) = triggerSubject(sc.req)
  BY DEF IdentityKept, Subject, AcceptedFor
<1>1. pod[r].pc # "none"
  BY DEF RuntimeInv, RuntimeOf, Unspawned
<1>2. Known(pod[r].job.env)
  BY <1>1 DEF EnvInv, EnvOf
<1> QED  BY <1>2 DEF Known, Traced, Dispatched, IsJob

(* The pull request a run's session and timeline are about is the one the    *)
(* gate accepted for its Job, or without a gate the one its trigger or its   *)
(* shell named, whichever of the two shapes it is written in (dispatchEnv,   *)
(* EnvelopeEnv, wakeFromEnv, subjectFromEnv).                                *)
THEOREM IdentityIsKept == Spec => []IdentityKept
<1>1. RuntimeInv /\ EnvInv /\ [Next]_vars => RuntimeInv' /\ EnvInv'
  BY RuntimeNext, EnvNext
<1>2. RuntimeInv /\ EnvInv => IdentityKept
  BY KnownIsKept
<1> QED  BY <1>1, <1>2, RuntimeInit, EnvInit, PTL DEF Spec

-----------------------------------------------------------------------------
(* The mounts of a Job. A path that is one of the builder's own, or a plugin *)
(* of the fleet's, is no attachment's: cleaned, it has a reserved prefix or  *)
(* is the root.                                                              *)
CleanedTo(path) ==
  LET done[i \in 0..Len(path)] ==
          IF i = 0 THEN <<>>
          ELSE IF path[i] = "." THEN done[i - 1]
          ELSE IF path[i] # ".." THEN Append(done[i - 1], path[i])
          ELSE IF done[i - 1] = <<>> THEN <<>> ELSE Front(done[i - 1])
  IN  done

LEMMA CleanUnfolds ==
  ASSUME NEW path
  PROVE  Clean(path) = CleanedTo(path)[Len(path)]
  BY DEF Clean, CleanedTo

LEMMA CleanedOne ==
  ASSUME NEW c, c # ".", c # ".."
  PROVE  Clean(<<c>>) = <<c>>
<1> DEFINE f == CleanedTo(<<c>>)
           g == [i \in 0..1 |-> IF i = 0 THEN <<>> ELSE <<c>>]
           F(d) == [i \in 0..Len(<<c>>) |->
                      IF i = 0 THEN <<>>
                      ELSE IF <<c>>[i] = "." THEN d[i - 1]
                      ELSE IF <<c>>[i] # ".." THEN Append(d[i - 1], <<c>>[i])
                      ELSE IF d[i - 1] = <<>> THEN <<>> ELSE Front(d[i - 1])]
<1>1. g = F(g)
  <2>1. 0..Len(<<c>>) = {0, 1} /\ 0..1 = {0, 1}
    OBVIOUS
  <2>2. g[0] = <<>> /\ g[1] = <<c>>
    OBVIOUS
  <2> HIDE DEF g
  <2>3. F(g)[0] = <<>>
    BY <2>1
  <2>4. F(g)[1] = Append(g[0], c)
    BY <2>1
  <2>5. Append(<<>>, c) = <<c>>
    OBVIOUS
  <2>6. DOMAIN g = {0, 1} /\ DOMAIN F(g) = {0, 1}
    BY <2>1 DEF g
  <2> HIDE DEF F
  <2>7. g = [i \in {0, 1} |-> g[i]]
    BY <2>1 DEF g
  <2>8. F(g) = [i \in {0, 1} |-> F(g)[i]]
    BY <2>1 DEF F
  <2> QED  BY <2>2, <2>3, <2>4, <2>5, <2>7, <2>8
<1>2. f = CHOOSE d : d = F(d)
  BY DEF CleanedTo
<1>3. f = F(f)
  BY <1>1, <1>2
<1> HIDE DEF f
<1>4. f[0] = <<>> /\ f[1] = Append(f[0], c)
  BY <1>3
<1>5. f[1] = <<c>>
  BY <1>4
<1>6. Len(<<c>>) = 1
  OBVIOUS
<1> QED  BY <1>5, <1>6, CleanUnfolds DEF f

LEMMA CleanedTwo ==
  ASSUME NEW c
  PROVE  Clean(<<"plugins", c>>) \in {<<>>, <<"plugins">>, <<"plugins", c>>}
<1> DEFINE p == <<"plugins", c>>
           a == <<"plugins">>
           v == IF c = "." THEN a ELSE IF c # ".." THEN Append(a, c) ELSE Front(a)
           f == CleanedTo(p)
           g == [i \in 0..2 |-> IF i = 0 THEN <<>> ELSE IF i = 1 THEN a ELSE v]
           F(d) == [i \in 0..Len(p) |->
                      IF i = 0 THEN <<>>
                      ELSE IF p[i] = "." THEN d[i - 1]
                      ELSE IF p[i] # ".." THEN Append(d[i - 1], p[i])
                      ELSE IF d[i - 1] = <<>> THEN <<>> ELSE Front(d[i - 1])]
<1>1. 0..Len(p) = {0, 1, 2} /\ 0..2 = {0, 1, 2} /\ p[1] = "plugins" /\ p[2] = c /\ Len(p) = 2
  OBVIOUS
<1>2. a # <<>> /\ Append(<<>>, "plugins") = a /\ Append(a, c) = p /\ Front(a) = <<>>
  <2>1. a # <<>> /\ Append(<<>>, "plugins") = a /\ Append(a, c) = p
    <3>1. Len(a) = 1 /\ Len(<<>>) = 0
      OBVIOUS
    <3>2. a # <<>>
      BY <3>1
    <3>3. Append(<<>>, "plugins") = a
      OBVIOUS
    <3>4. Append(a, c) = p
      <4> DEFINE S == {"plugins", c}
                 s == Append(a, c)
      <4>1. a \in Seq(S) /\ c \in S /\ p \in Seq(S)
        OBVIOUS
      <4>2. s \in Seq(S) /\ Len(s) = 2 /\ s[1] = a[1] /\ s[2] = c
        BY <3>1, <4>1
      <4>3. a[1] = p[1] /\ p[2] = c /\ Len(p) = 2
        OBVIOUS
      <4> HIDE DEF s, p, S
      <4>4. \A i \in 1..2 : s[i] = p[i]
        BY <4>2, <4>3
      <4>5. s = p
        BY <4>1, <4>2, <4>3, <4>4
      <4> QED  BY <4>5 DEF s
    <3> QED  BY <3>2, <3>3, <3>4
  <2>2. a \in Seq({"plugins"}) /\ Len(a) = 1
    OBVIOUS
  <2>3. Len(SubSeq(a, 1, 0)) = 0 /\ SubSeq(a, 1, 0) \in Seq({"plugins"})
    BY <2>2
  <2>4. SubSeq(a, 1, 0) = <<>>
    BY <2>3
  <2> QED  BY <2>1, <2>2, <2>4 DEF Front
<1> HIDE DEF a, p
<1>3. ASSUME NEW d
      PROVE  /\ F(d) = [i \in {0, 1, 2} |-> F(d)[i]]
             /\ F(d)[0] = <<>> /\ F(d)[1] = Append(d[0], "plugins")
             /\ F(d)[2] = IF c = "." THEN d[1] ELSE IF c # ".." THEN Append(d[1], c)
                          ELSE IF d[1] = <<>> THEN <<>> ELSE Front(d[1])
  BY <1>1
<1>4. g = F(g)
  <2>1. g[0] = <<>> /\ g[1] = a /\ g[2] = v /\ g = [i \in {0, 1, 2} |-> g[i]]
    BY <1>1
  <2> HIDE DEF g, F
  <2>2. F(g)[0] = <<>> /\ F(g)[1] = a
    BY <1>2, <1>3, <2>1
  <2>3. F(g)[2] = v
    BY <1>2, <1>3, <2>1
  <2>4. F(g) = [i \in {0, 1, 2} |-> F(g)[i]]
    BY <1>3
  <2> HIDE DEF v
  <2>5. \A i \in {0, 1, 2} : g[i] = F(g)[i]
    BY <2>1, <2>2, <2>3
  <2> QED  BY <2>1, <2>4, <2>5
<1>5. f = CHOOSE d : d = F(d)
  BY DEF CleanedTo
<1> HIDE DEF f, g, F
<1>6. f = F(f)
  BY <1>4, <1>5
<1>7. f[0] = <<>> /\ f[1] = Append(f[0], "plugins")
  BY <1>3, <1>6
<1>8. f[1] = a
  BY <1>2, <1>7
<1>9. f[2] = v
  BY <1>2, <1>3, <1>6, <1>8
<1>10. v \in {<<>>, a, p}
  BY <1>2
<1>11. Clean(p) = f[2]
  BY <1>1, CleanUnfolds DEF f
<1> QED  BY <1>9, <1>10, <1>11 DEF a, p

\* A valid attachment is mounted neither where the builder mounts its own nor
\* where a plugin of the fleet is.
LEMMA AttachedApart ==
  ASSUME NEW spec, ValidSpec(spec, Workflow), NEW i \in DOMAIN spec.attachments
  PROVE  /\ \A c \in {"workspace", "skills", "cache", "sessions", "runtime", "plugins"} :
              MountPath(spec.attachments[i]) # <<c>>
         /\ \A c : MountPath(spec.attachments[i]) # <<"plugins", c>>
         /\ \A j \in DOMAIN spec.attachments :
              MountPath(spec.attachments[i]) = MountPath(spec.attachments[j]) => i = j
<1> DEFINE at == spec.attachments[i]
           e == Clean(MountPath(at))
<1>1. /\ e # <<>>
      /\ \A r \in ReservedAttemptMountPaths : ~IsPrefix(r, e)
      /\ \A j \in DOMAIN spec.attachments \ {i} : Effective(spec.attachments[j]) # e
  BY DEF ValidSpec, ValidateAttachments, Effective
<1> HIDE DEF at, e
<1>2. ASSUME NEW c \in {"workspace", "skills", "cache", "sessions", "runtime", "plugins"}
      PROVE  MountPath(at) # <<c>> /\ <<c>> \in ReservedAttemptMountPaths
  <2>1. <<c>> \in ReservedAttemptMountPaths
    BY DEF ReservedAttemptMountPaths
  <2>2. c # "." /\ c # ".."
    OBVIOUS
  <2>3. IsPrefix(<<c>>, <<c>>)
    BY DEF IsPrefix
  <2> QED  BY <1>1, <2>1, <2>2, <2>3, CleanedOne DEF e
<1>3. ASSUME NEW c PROVE MountPath(at) # <<"plugins", c>>
  <2>1. <<"plugins">> \in ReservedAttemptMountPaths
    BY <1>2
  <2>2. IsPrefix(<<"plugins">>, <<"plugins">>) /\ IsPrefix(<<"plugins">>, <<"plugins", c>>)
    BY DEF IsPrefix
  <2>3. SUFFICES ASSUME e = Clean(<<"plugins", c>>) PROVE FALSE
    BY DEF e
  <2> QED  BY <1>1, <2>1, <2>2, <2>3, CleanedTwo
<1>4. ASSUME NEW j \in DOMAIN spec.attachments, MountPath(at) = MountPath(spec.attachments[j])
      PROVE  i = j
  BY <1>1, <1>4 DEF e, Effective
<1> QED  BY <1>2, <1>3, <1>4 DEF at

\* What a mount of a Job is, by its path.
LEMMA MountIs ==
  ASSUME NEW p, NEW m \in DOMAIN JobMounts(p)
  PROVE  LET path == JobMounts(p)[m] IN
         \/ /\ m[1] = "attachment" /\ m = <<"attachment", m[2]>> /\ m[2] \in DOMAIN p.spec.attachments
            /\ path = MountPath(p.spec.attachments[m[2]])
         \/ m[1] = "extra" /\ m[2] \in DOMAIN p.fleet.extra /\ path = p.fleet.extra[m[2]].path
         \/ /\ m[1] = "plugin" /\ m = <<"plugin", m[2]>> /\ m[2] \in DOMAIN p.fleet.plugins
            /\ path = <<"plugins", p.fleet.plugins[m[2]]>>
         \/ /\ m[1] \in {"workspace", "skills", "cache", "sessions", "runtime", "plugins"}
            /\ m = <<m[1], 0>> /\ path = <<m[1]>>
<1> DEFINE ids == (OwnMounts(p) \X {0}) \cup ({"attachment"} \X Mounted(p))
                  \cup ({"extra"} \X DOMAIN p.fleet.extra) \cup ({"plugin"} \X DOMAIN p.fleet.plugins)
           path == JobMounts(p)[m]
<1>1. OwnMounts(p) \subseteq {"workspace", "skills", "cache", "sessions", "runtime", "plugins"}
  BY DEF OwnMounts
<1>2. m \in ids
  BY DEF JobMounts
<1>3. path = CASE m[1] = "attachment" -> MountPath(p.spec.attachments[m[2]])
               [] m[1] = "extra"      -> p.fleet.extra[m[2]].path
               [] m[1] = "plugin"     -> <<"plugins", p.fleet.plugins[m[2]]>>
               [] OTHER               -> <<m[1]>>
  BY <1>2 DEF JobMounts
<1> HIDE DEF path
<1>4. CASE m \in {"attachment"} \X Mounted(p)
  <2>1. m[1] = "attachment" /\ m = <<m[1], m[2]>> /\ m[2] \in Mounted(p)
    BY <1>4
  <2>2. path = MountPath(p.spec.attachments[m[2]])
    BY <1>3, <2>1
  <2>3. m[2] \in DOMAIN p.spec.attachments
    BY <2>1 DEF Mounted
  <2> QED  BY <2>1, <2>2, <2>3 DEF path
<1>5. CASE m \in {"extra"} \X DOMAIN p.fleet.extra
  <2>1. m[1] = "extra" /\ m[2] \in DOMAIN p.fleet.extra
    BY <1>5
  <2>2. path = p.fleet.extra[m[2]].path
    BY <1>3, <2>1
  <2> QED  BY <2>1, <2>2 DEF path
<1>6. CASE m \in {"plugin"} \X DOMAIN p.fleet.plugins
  <2>1. m[1] = "plugin" /\ m = <<m[1], m[2]>> /\ m[2] \in DOMAIN p.fleet.plugins
    BY <1>6
  <2>2. path = <<"plugins", p.fleet.plugins[m[2]]>>
    BY <1>3, <2>1
  <2> QED  BY <2>1, <2>2 DEF path
<1>7. CASE m \in OwnMounts(p) \X {0}
  <2>1. m[1] \in OwnMounts(p) /\ m = <<m[1], m[2]>> /\ m[2] = 0
    BY <1>7
  <2>2. m[1] \in {"workspace", "skills", "cache", "sessions", "runtime", "plugins"}
    BY <1>1, <2>1
  <2>3. m[1] \notin {"attachment", "extra", "plugin"}
    BY <2>2
  <2>4. path = <<m[1]>>
    BY <1>3, <2>3
  <2> QED  BY <2>1, <2>2, <2>4 DEF path
<1> QED  BY <1>2, <1>4, <1>5, <1>6, <1>7

\* Two mounts of a valid specification on one path are the fleet's doing.
LEMMA CollisionIsFleets ==
  ASSUME NEW p, ValidSpec(p.spec, Workflow), ~Accepted(JobMounts(p), p.fleet)
  PROVE  FleetCollides(JobMounts(p), p.fleet)
<1> DEFINE J == JobMounts(p)
           own == {"workspace", "skills", "cache", "sessions", "runtime", "plugins"}
<1>0. SUFFICES ASSUME IsInjective(VolumeNames(p.fleet.extra)) PROVE FleetCollides(J, p.fleet)
  BY DEF FleetCollides
<1>1. PICK a, b \in DOMAIN J : J[a] = J[b] /\ a # b
  BY <1>0 DEF Accepted, IsInjective
<1>2. SUFFICES ASSUME a[1] # "extra", b[1] # "extra", IsInjective(p.fleet.plugins) PROVE FALSE
  <2>1. CASE ~IsInjective(p.fleet.plugins)
    BY <2>1 DEF FleetCollides
  <2>2. CASE a[1] = "extra"
    <3>1. a[2] \in DOMAIN p.fleet.extra /\ J[a] = p.fleet.extra[a[2]].path
      BY <2>2, MountIs
    <3> QED  BY <1>1, <3>1 DEF FleetCollides
  <2>3. CASE b[1] = "extra"
    <3>1. b[2] \in DOMAIN p.fleet.extra /\ J[b] = p.fleet.extra[b[2]].path
      BY <2>3, MountIs
    <3> QED  BY <1>1, <3>1 DEF FleetCollides
  <2> QED  BY <2>1, <2>2, <2>3, <1>2
<1> DEFINE Att(m) == /\ m[1] = "attachment" /\ m = <<"attachment", m[2]>> /\ m[2] \in DOMAIN p.spec.attachments
                     /\ J[m] = MountPath(p.spec.attachments[m[2]])
           Plug(m) == /\ m = <<"plugin", m[2]>> /\ m[2] \in DOMAIN p.fleet.plugins
                      /\ J[m] = <<"plugins", p.fleet.plugins[m[2]]>>
           Built(m) == m[1] \in own /\ m = <<m[1], 0>> /\ J[m] = <<m[1]>>
<1>3. (Att(a) \/ Plug(a) \/ Built(a)) /\ (Att(b) \/ Plug(b) \/ Built(b))
  <2>1. ASSUME NEW m \in DOMAIN J, m[1] # "extra" PROVE Att(m) \/ Plug(m) \/ Built(m)
    BY <2>1, MountIs
  <2> QED  BY <1>1, <1>2, <2>1
<1> HIDE DEF J, own
<1>4. ASSUME NEW x, NEW y, Att(x), Built(y), J[x] = J[y] PROVE FALSE
  BY <1>4, AttachedApart DEF own
<1>5. ASSUME NEW x, NEW y, Att(x), Plug(y), J[x] = J[y] PROVE FALSE
  BY <1>5, AttachedApart
<1>6. ASSUME NEW x, NEW y, Plug(x), Built(y), J[x] = J[y] PROVE FALSE
  <2>1. <<"plugins", p.fleet.plugins[x[2]]>> = <<y[1]>>
    BY <1>6
  <2>2. Len(<<"plugins", p.fleet.plugins[x[2]]>>) = 2 /\ Len(<<y[1]>>) = 1
    OBVIOUS
  <2> QED  BY <2>1, <2>2
<1>7. CASE Att(a) /\ Att(b)
  <2>1. a[2] = b[2]
    BY <1>1, <1>7, AttachedApart
  <2> QED  BY <1>1, <1>7, <2>1
<1>8. CASE Plug(a) /\ Plug(b)
  <2> DEFINE u == p.fleet.plugins[a[2]]
             v == p.fleet.plugins[b[2]]
  <2>1. <<"plugins", u>> = <<"plugins", v>>
    BY <1>1, <1>8
  <2> HIDE DEF u, v
  <2>2. u = v
    BY <2>1
  <2>3. a[2] = b[2]
    BY <1>2, <1>8, <2>2 DEF u, v, IsInjective
  <2> QED  BY <1>1, <1>8, <2>3
<1>9. CASE Built(a) /\ Built(b)
  <2> DEFINE u == a[1]
             v == b[1]
  <2>1. <<u>> = <<v>>
    BY <1>1, <1>9
  <2> HIDE DEF u, v
  <2>2. u = v
    BY <2>1
  <2> QED  BY <1>1, <1>9, <2>2 DEF u, v
<1> QED  BY <1>1, <1>3, <1>4, <1>5, <1>6, <1>7, <1>8, <1>9

(* A dispatch that has passed its checks holds a valid specification, and    *)
(* what was refused was refused for the fleet.                               *)
RefusedInv ==
  /\ disp.pc # "idle" => ValidSpec(disp.spec, Workflow)
  /\ RejectedByFleetOnly

LEMMA RefusedInit == Init => RefusedInv
<1> SUFFICES ASSUME Init PROVE RefusedInv
  OBVIOUS
<1>1. disp.pc = "idle" /\ rejected = Empty
  BY DEF Init, Idle
<1> QED  BY <1>1 DEF RefusedInv, RejectedByFleetOnly

LEMMA RefusedNext ==
  ASSUME Declarations, RefusedInv, [Next]_vars
  PROVE  RefusedInv'
<1>1. sc' = sc
  BY SameScenario
<1>2. Idle.pc = "idle"
  BY DEF Idle
<1>3. CASE UNCHANGED <<disp, rejected>>
  BY <1>1, <1>3 DEF RefusedInv, RejectedByFleetOnly
<1>4. CASE Dispatch
  <2> DEFINE spec == FetchWorkflow(cr)
  <2>1. disp' = [Idle EXCEPT !.pc = "compose", !.spec = spec] /\ ValidSpec(spec, Workflow)
        /\ rejected' = rejected
    BY <1>4 DEF Dispatch
  <2> HIDE DEF spec
  <2>2. disp'.spec = spec
    BY <2>1 DEF Idle
  <2> QED  BY <1>1, <2>1, <2>2 DEF RefusedInv, RejectedByFleetOnly
<1>5. CASE Compose
  <2> DEFINE rt == composeRuntime(ProfileOf(sc.pool), disp.spec)
  <2>1. disp.pc = "compose" /\ rejected' = rejected
        /\ (disp' = Idle \/ disp' = [disp EXCEPT !.pc = "create", !.pins = rt.pins, !.harness = rt.harness])
    BY <1>5 DEF Compose
  <2> HIDE DEF rt
  <2>2. disp'.pc # "idle" => disp'.spec = disp.spec
    <3>1. disp \in [pc : {disp.pc}, spec : {disp.spec}, pins : {disp.pins}, harness : {disp.harness}]
      BY DEF Declarations
    <3> QED  BY <1>2, <2>1, <3>1
  <2> QED  BY <1>1, <2>1, <2>2 DEF RefusedInv, RejectedByFleetOnly
<1>6. ASSUME NEW r \in Runs, Create(r) PROVE RefusedInv'
  <2> DEFINE p == JobParams
             fleet == DispatchConfigFromEnv(sc.fleet)
  <2>1. disp.pc = "create" /\ disp' = Idle
    BY <1>6 DEF Create
  <2>2. BuildJob(p).mounts = JobMounts(p) /\ p.spec = disp.spec /\ p.fleet = fleet
    BY DEF BuildJob, JobParams
  <2> HIDE DEF p, fleet
  <2>3. rejected' = rejected \/ (~Accepted(JobMounts(p), p.fleet) /\ rejected' = <<JobMounts(p)>>)
    BY <1>6, <2>2 DEF Create, p
  <2>4. CASE rejected' = rejected
    BY <1>1, <1>2, <2>1, <2>4 DEF RefusedInv, RejectedByFleetOnly
  <2>5. CASE ~Accepted(JobMounts(p), p.fleet) /\ rejected' = <<JobMounts(p)>>
    <3>1. ValidSpec(p.spec, Workflow)
      BY <2>1, <2>2 DEF RefusedInv
    <3>2. FleetCollides(JobMounts(p), fleet)
      BY <2>2, <2>5, <3>1, CollisionIsFleets
    <3>3. rejected'[1] = JobMounts(p)
      BY <2>5
    <3> QED  BY <1>1, <1>2, <2>1, <3>2, <3>3 DEF RefusedInv, RejectedByFleetOnly, fleet
  <2> QED  BY <2>3, <2>4, <2>5
<1>7. CASE Edit
  BY <1>3, <1>7 DEF Edit
<1>8. ASSUME NEW r \in Runs, Step(r), ~Create(r) PROVE UNCHANGED <<disp, rejected>>
  BY <1>8 DEF Step, RunByHand, InitPin, InitRest, Start, Pin, Begin, RecordStarted, Spawn, NodeEvent, Complete,
              JournalRead, JournalWrite, Outcome, Cancel, Die, Expire
<1> QED  BY <1>3, <1>4, <1>5, <1>6, <1>7, <1>8 DEF Next, vars

(* Whatever Workflow, template, profile and fleet: a Job the apiserver       *)
(* refuses after its intent was recorded has a mount of the fleet's in the   *)
(* collision, never attachments that collide with each other or with the     *)
(* builder's own mounts: ValidateAttachments compares where they land.       *)
THEOREM OnlyTheFleetIsRefused == Spec => []RejectedByFleetOnly
<1>1. RefusedInv => RejectedByFleetOnly
  BY DEF RefusedInv
<1>2. Declarations /\ RefusedInv /\ [Next]_vars => Declarations' /\ RefusedInv'
  BY DeclaredNext, RefusedNext
<1> QED  BY <1>1, <1>2, DeclaredInit, RefusedInit, PTL DEF Spec
=============================================================================
