------------------------------- MODULE RunEnv -------------------------------
(***************************************************************************)
(* The environment of a run, from the worker pool's own process to the pi  *)
(* session: what the dispatcher forwards into the attempt's Job, what the  *)
(* run's process reads back as the identity of its pull request, and what  *)
(* the children of the run inherit.                                        *)
(*                                                                         *)
(* An environment is a function from variable names to values. A value is  *)
(* a sequence of strings: Empty for a variable that is set to nothing, a   *)
(* bare pull request number is <<number>> and a pointer "repo#number" is   *)
(* <<repo, number>>. Go's os.Getenv does not tell unset from empty.        *)
(***************************************************************************)
EXTENDS Naturals, Sequences

Empty == <<>>

NoEnv == [n \in {} |-> Empty]

Set(name, value) == [n \in {name} |-> value]

Getenv(env, name) == IF name \in DOMAIN env THEN env[name] ELSE Empty

\* Later entries of an env list win, in a Job's pod and in a child process.
Appended(env, more) ==
    [n \in DOMAIN env \cup DOMAIN more |->
        IF n \in DOMAIN more THEN more[n] ELSE env[n]]

FilterEnv(env, keys) == [n \in DOMAIN env \ keys |-> env[n]]

-----------------------------------------------------------------------------
BotTokenEnvKey == "HARMOSTES_FORGEJO_BOT_TOKEN"
BotHostEnvKey == "HARMOSTES_FORGEJO_BOT_HOST"
PostToken == "HARMOSTES_REVIEW_POST_TOKEN"

budgetTrio == {"PI_TOOL_BUDGET", "PI_TOOL_BUDGET_ALLOW", "PI_TOOL_BUDGET_NUDGE"}

\* The names of the pool's environment a Job may receive.
jobEnvAllowlist ==
    {"HARMOSTES_FORGEJO_TOKEN", "HARMOSTES_AGENT_PROFILE", "FORGEJO_TOKEN",
     "GH_TOKEN", "HARMOSTES_GIT_TOKEN", "HARMOSTES_CODEBERG_TOKEN",
     "HARMOSTES_RZC_USERNAME", "HARMOSTES_RZC_PASSWORD", "LITELLM_API_KEY",
     "LITELLM_URL", "LITELLM_FALLBACKS", PostToken, "HARMOSTES_SOL_PI_STORE"}
        \cup budgetTrio

\* The allowlisted names a session keeps.
spawnSafeEnv ==
    {"LITELLM_URL", "LITELLM_API_KEY", "LITELLM_FALLBACKS",
     "HARMOSTES_SKILLS_REPO", "HARMOSTES_SKILLS_REV", PostToken,
     "HARMOSTES_SOL_PI_STORE", "FORGEJO_TOKEN", "GH_TOKEN",
     "HARMOSTES_FORGEJO_TOKEN"} \cup budgetTrio

\* AgentSpec.ToolBudget: Empty is nil, <<n>> a declared number.
dropFromAllowlist(budget) == IF budget = <<0>> THEN budgetTrio ELSE {}

overrides(budget) ==
    IF budget \in {Empty, <<0>>} THEN NoEnv
    ELSE Appended(Set("PI_TOOL_BUDGET", budget),
                  Set("PI_TOOL_BUDGET_NUDGE", <<budget[1] \div 2>>))

\* A posting token for every workflow.
jobCredentialEnvAnyKind(pool, budget, isReview) ==
    LET wanted == jobEnvAllowlist \ dropFromAllowlist(budget)
        forwarded == [n \in {m \in wanted \cap DOMAIN pool : pool[m] # Empty} |-> pool[n]]
    IN Appended(Appended(forwarded, overrides(budget)),
                IF isReview THEN Set("PI_LOOP_BREAKER", <<"1">>) ELSE NoEnv)

jobCredentialEnv(pool, budget, isReview) ==
    LET wanted == (jobEnvAllowlist \ dropFromAllowlist(budget))
                      \ (IF isReview THEN {} ELSE {PostToken})
        forwarded == [n \in {m \in wanted \cap DOMAIN pool : pool[m] # Empty} |-> pool[n]]
    IN Appended(Appended(forwarded, overrides(budget)),
                IF isReview THEN Set("PI_LOOP_BREAKER", <<"1">>) ELSE NoEnv)

-----------------------------------------------------------------------------
\* A Trigger Envelope: [repo, pr, sha]; its base, label and contexts travel
\* with it and no one here reads them back.
EnvelopeEnv(envelope) ==
    Appended(Set("HARMOSTES_TRIGGER_REPO", <<envelope.repo>>),
        Appended(Set("HARMOSTES_TRIGGER_PR", <<envelope.pr>>),
                 Set("HARMOSTES_TRIGGER_SHA", <<envelope.sha>>)))

NonEmpty(name, value) == IF value = Empty THEN NoEnv ELSE Set(name, value)

\* env is Empty, or <<envelope>> when the gate handed one out.
dispatchEnv(req, attempt, env) ==
    Appended(
        Appended(Set("HARMOSTES_ATTEMPT", <<attempt>>),
                 Set("HARMOSTES_DISPATCHED_ATTEMPT", <<attempt>>)),
        IF env # Empty THEN EnvelopeEnv(env[1])
        ELSE Appended(NonEmpty("HARMOSTES_TRIGGER_PR", req.pr),
                      NonEmpty("HARMOSTES_TRIGGER_REVISION", req.revision)))

triggerSubject(req) ==
    IF req.pr = Empty THEN [ref |-> Empty, sha |-> Empty]
    ELSE [ref |-> req.pr, sha |-> req.revision]

-----------------------------------------------------------------------------
IsPointer(pr) == Len(pr) = 2

\* The number without the repository it was minted for.
wakeFromEnvBare(env) == [pr |-> Getenv(env, "HARMOSTES_TRIGGER_PR"),
                         revision |-> Getenv(env, "HARMOSTES_TRIGGER_REVISION")]

wakeFromEnv(env) ==
    LET pr == Getenv(env, "HARMOSTES_TRIGGER_PR")
        repo == Getenv(env, "HARMOSTES_TRIGGER_REPO")
        sha == Getenv(env, "HARMOSTES_TRIGGER_SHA")
    IN [pr |-> IF pr # Empty /\ ~IsPointer(pr) /\ repo # Empty THEN repo \o pr ELSE pr,
        revision |-> IF sha # Empty THEN sha
                     ELSE Getenv(env, "HARMOSTES_TRIGGER_REVISION")]

\* The lineage of a run: the pointer's two halves, Empty for a run that is
\* not about a pull request.
LineageOf(env) == LET pr == wakeFromEnv(env).pr IN IF IsPointer(pr) THEN pr ELSE Empty

subjectFromEnv(env) ==
    LET pr == Getenv(env, "HARMOSTES_TRIGGER_PR")
        repo == Getenv(env, "HARMOSTES_TRIGGER_REPO")
        sha == Getenv(env, "HARMOSTES_TRIGGER_SHA")
    IN IF pr = Empty THEN [ref |-> Empty, sha |-> Empty]
       ELSE [ref |-> IF IsPointer(pr) THEN pr ELSE repo \o pr,
             sha |-> IF sha # Empty THEN sha
                     ELSE Getenv(env, "HARMOSTES_TRIGGER_REVISION")]

-----------------------------------------------------------------------------
ChildEnv(env) == FilterEnv(env, {BotTokenEnvKey, BotHostEnvKey})

dropSessionCredentials(env) == FilterEnv(env, jobEnvAllowlist \ spawnSafeEnv)

\* rig: what prepare left at the graph's path when the agent node spawns.
graphPresent(rig) == rig = "stamped"

spawnEnv(base, sha, rig) ==
    IF sha = Empty THEN dropSessionCredentials(base)
    ELSE dropSessionCredentials(
            Appended(base,
                Appended(Set("RIG_EXPECTED_SHA", sha),
                         IF graphPresent(rig) THEN Set("RIG_REQUIRE_SHA", <<"1">>)
                         ELSE NoEnv)))

\* The environment of the pi child of a run whose process holds env.
SessionEnv(env, rig) ==
    spawnEnv(ChildEnv(env), Getenv(env, "HARMOSTES_TRIGGER_SHA"), rig)

\* The environment the plugins of a run inherit (ExtraEnv).
PluginEnv(env) == ChildEnv(env)
=============================================================================
