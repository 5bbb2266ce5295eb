---------------------------- MODULE MCAttemptPod ----------------------------
EXTENDS AttemptPod

\* Every pin has a version of its own, so that a directory's content says
\* which pin it came from.
Ext(name, pkg, ver, kind) == [name |-> name, pkg |-> pkg, ver |-> ver, kind |-> kind, sri |-> TRUE]

At(name, path, scope) == [name |-> name, path |-> path, scope |-> scope, valid |-> TRUE]

Plain ==
    [extensions |-> Empty, toolBudget |-> Empty, attachments |-> Empty, pluginsRef |-> Empty,
     reviewReady |-> Empty, fork |-> Empty, gate |-> Empty, sessions |-> Empty, cache |-> Empty,
     config |-> Empty, prepareConfig |-> Empty]

Review ==
    [Plain EXCEPT !.reviewReady = <<"label">>, !.sessions = <<"claim">>,
                  !.extensions = <<Ext("ext", "ext", "2.0.0", "exact")>>,
                  !.attachments = <<At("sol-pi", Empty, "repository")>>]

Wiki == [Plain EXCEPT !.toolBudget = <<0>>, !.config = <<"keys">>, !.pluginsRef = <<"own">>]

Misnamed == [Plain EXCEPT !.extensions = <<Ext("alias", "package", "3.0.0", "exact")>>]

Tagged == [Plain EXCEPT !.extensions = <<Ext("tag", "tag", "vnext", "vtag")>>]

\* Two attachments that land on one path, one of them by default.
Colliding ==
    [Plain EXCEPT !.attachments = <<At("a", Empty, "workflow"),
                                    At("b", <<"attachments", "a">>, "workflow")>>]

Template ==
    [Plain EXCEPT !.toolBudget = <<80>>, !.prepareConfig = <<"url">>,
                  !.attachments = <<At("notes", <<"srv", "..", "notes">>, "workflow")>>]

Own(spec) == [own |-> spec, tmpl |-> Empty]

Profile ==
    <<[extensions |-> <<Ext("ext", "ext", "1.0.0", "exact"), Ext("base", "base", "1.1.0", "exact")>>,
       harness |-> <<Ext("pi@1.3.0", "pi", "1.3.0", "exact")>>,
       compatible |-> TRUE]>>

\* A harness whose tag no packument has.
TaggedHarness ==
    <<[extensions |-> Empty, harness |-> <<Ext("pi@v1", "pi", "v1", "vtag")>>, compatible |-> TRUE]>>

Incompatible == <<[extensions |-> Empty, harness |-> Empty, compatible |-> FALSE]>>

Fleet == [image |-> "worker", plugins |-> Empty, extra |-> Empty, aggregate |-> ""]

Aggregating == [Fleet EXCEPT !.plugins = <<"fleet">>, !.aggregate = "true"]

Extra(path) == [Fleet EXCEPT !.extra = <<[cm |-> "shared", path |-> path]>>]

Twice == [Fleet EXCEPT !.extra = <<[cm |-> "shared", path |-> <<"a">>], [cm |-> "shared", path |-> <<"b">>]>>]

Pool ==
    Appended(Appended(Set("LITELLM_API_KEY", <<"k">>), Set("HARMOSTES_GIT_TOKEN", <<"g">>)),
        Appended(Appended(Set(BotTokenEnvKey, <<"b">>), Set(PostToken, <<"p">>)),
                 Appended(Set("PI_TOOL_BUDGET", <<40>>), Set("HARMOSTES_TRIGGER_REPO", <<"old">>))))

Fleeted == Appended(Pool, Set("HARMOSTES_AGENT_PROFILE", <<"fleet">>))

NoPR == [pr |-> Empty, revision |-> Empty]
Pull == [pr |-> <<"repo", "7">>, revision |-> <<"head">>]

Scenario(spec, req) ==
    [pool |-> Pool, fleet |-> Fleet, cr |-> Own(spec), profile |-> Empty, req |-> req,
     envelope |-> Empty, head |-> "head", rig |-> "stamped", byHand |-> FALSE, parallel |-> FALSE]

\* The first one's wake is about another pull request than the gate accepts. A
\* gated fork source is no review, and an ungated Workflow may be one.
MCScenarios ==
    {[Scenario(Review, Pull) EXCEPT !.pool = Fleeted, !.profile = Profile,
          !.envelope = <<[repo |-> "repo", pr |-> "8", sha |-> "head"]>>],
     [Scenario(Wiki, Pull) EXCEPT !.fleet = Aggregating],
     [Scenario(Plain, NoPR) EXCEPT !.cr.tmpl = <<Template>>, !.fleet = Extra(<<"srv">>)],
     [Scenario([Review EXCEPT !.reviewReady = Empty], NoPR) EXCEPT !.fleet = Extra(<<"sessions">>)],
     [Scenario([Plain EXCEPT !.toolBudget = <<60>>], Pull) EXCEPT !.parallel = TRUE],
     [Scenario([Plain EXCEPT !.reviewReady = <<"label">>, !.fork = <<"upstream">>], Pull) EXCEPT
          !.envelope = <<[repo |-> "repo", pr |-> "8", sha |-> "head"]>>],
     Scenario([Plain EXCEPT !.gate = <<"pr-review">>], Pull),
     [Scenario(Plain, NoPR) EXCEPT !.pool = Fleeted, !.profile = TaggedHarness],
     [Scenario(Plain, NoPR) EXCEPT !.fleet = Twice],
     Scenario(Misnamed, NoPR),
     Scenario(Tagged, NoPR),
     Scenario(Colliding, NoPR),
     [Scenario(Plain, NoPR) EXCEPT !.fleet = [Fleet EXCEPT !.plugins = <<"tools", "tools">>]],
     [Scenario(Review, Pull) EXCEPT !.byHand = TRUE, !.rig = "unstamped",
          !.pool = Appended(Pool, Set("HARMOSTES_TRIGGER_PR", <<"repo", "7">>))]}

MCSpecs == {Own(Wiki)}
MCProfiles == {Empty, Incompatible}
MCOldJournal == <<"r1", "r2">>

Symmetry == Permutations(Runs)
=============================================================================
