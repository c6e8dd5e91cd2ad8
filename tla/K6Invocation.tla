---------------------------- MODULE K6Invocation ----------------------------
(***************************************************************************)
(* How a test run's data becomes k6 command lines. A PLZ test run: the     *)
(* data sent by the k6 Cloud is pre-processed (pkg/cloud/apitypes.go) and  *)
(* becomes the spec of a TestRun (pkg/plz/worker.go). Any TestRun: its     *)
(* arguments are validated (ParseCLI), then the initializer's and each     *)
(* runner's command and environment are built (pkg/resources/jobs), and    *)
(* the kubelet and a shell work on them before k6 sees them.               *)
(*                                                                         *)
(* Istio, volumes, images and the other fields that are only copied from   *)
(* the spec into a job are left out. The initializer's pod is the runner's *)
(* (.spec.initializer is not set, or has the same variables).              *)
(*                                                                         *)
(* A definition named D_x is D with a defect: a property is worth checking *)
(* when such a defect violates it.                                         *)
(***************************************************************************)
EXTENDS K6Arguments, Segmentation, SequencesExt, TLC

CONSTANTS
  UserSpecs,  \* the specs of TestRuns made by users
  CloudData,  \* the data of PLZ test runs as the k6 Cloud sends it
  SortedKeys  \* the names of environment variables and tags, as sort.Strings sorts them

EnvVar(name, text) == [name |-> name, value |-> text]

(* A name is one piece, and neither a special one nor the cloud token.      *)
Special == {"$", "${", "}", "(", ")", "="}
Name    == Piece \ (Special \cup {"token"})

(* The token's value is known to the cluster only: no user's text has it.   *)
IsUserText(t) == t \in Text /\ "token" \notin ToSet(t)
IsUserMap(m)  == DOMAIN m \subseteq ToSet(SortedKeys) /\ \A k \in DOMAIN m : IsUserText(m[k])

(* The flags and words that the operator itself writes.                     *)
ASSUME WordsAssumption ==
  /\ {"none", "--address", "--include-system-env-vars", "--linger", "--log-output", "--no-setup",
      "--no-teardown", "--no-thresholds", "--out", "--paused", "--quiet", "--summary-mode", "--tag",
      "--verbose", "-O", "-e"} \subseteq FlagName
  /\ Special \cup
      {"0.0.0.0:6565", "3s", "K6_CLOUDRUN_INSTANCE_ID", "K6_CLOUD_AGGREGATION_PERIOD", "K6_CLOUD_HOST",
       "K6_CLOUD_PUSH_REF_ID", "K6_CLOUD_TOKEN", "K6_SECRET_SOURCE", "K6_SECRET_SOURCE_URL_URL_TEMPLATE",
       "K6_USER_AGENT", "archive", "archived", "cloud", "disabled", "endpoint", "false", "gck6", "host",
       "id", "instance_id", "k6", "label", "loki", "name", "run", "script", "testrun_name", "token",
       "true", "url", "zone"} \subseteq Piece

ASSUME KeysAssumption ==
  /\ SortedKeys \in Seq(Name) /\ IsInjective(SortedKeys)
  /\ {"K6_CLOUDRUN_DISTRIBUTION", "K6_CLOUDRUN_LOAD_ZONE", "K6_CLOUDRUN_TEST_RUN_ID", "load_zone"}
       \subseteq ToSet(SortedKeys)

(* The number of a runner is written with digits only.                      *)
IsNumbered(instances) == \A index \in 1 .. instances : ToString(index) \in Name

ASSUME UserAssumption ==
  \A s \in UserSpecs :
    /\ s \in [args : Seq(Argument), arguments : Seq(Argument), parallelism : Nat, disabled : BOOLEAN,
             script : SUBSET {"VolumeClaim", "ConfigMap", "LocalFile"},
             env : Seq([name : Name, value : Text])]
    /\ IsNumbered(s.parallelism)

ASSUME CloudAssumption ==
  \A d \in CloudData :
    /\ d.plz = TRUE /\ d.zones \in Nat /\ d.instances \in Nat
    /\ d.systemEnv \in BOOLEAN /\ d.secrets \in BOOLEAN /\ d.gck6 \in Seq(Name)
    /\ IsUserText(d.userAgent) /\ IsUserMap(d.env) /\ IsUserMap(d.tags)
    /\ IsNumbered(d.instances)

VARIABLES
  trd,      \* the data of the PLZ test run, NoData for a user's TestRun
  spec,     \* the TestRun's spec
  pc,       \* what is done next
  i, cli,   \* ParseCLI: the position in argv, and the result so far
  archive,  \* the initializer's container, NoContainer before it is made
  runners   \* the runners' containers made so far, by index

vars == <<trd, spec, pc, i, cli, archive, runners>>

NoData      == [plz |-> FALSE]
NoSpec      == [none |-> TRUE]
NoContainer == [none |-> TRUE]
-----------------------------------------------------------------------------
(* TestRunData.Preprocess. *)

(* The text of `key=value`, and the flag and value of an argument pair.     *)
KeyValue(key, text)   == Value(<<key, "=">> \o text)
Pair(flag, key, text) == <<Flag(flag), KeyValue(key, text)>>

(* $ -> $$ *)
escapeKubeExpansion_No(text) == text

escapeKubeExpansion(text) ==
  FlattenSeq([k \in DOMAIN text |-> IF text[k] = "$" THEN <<"$", "$">> ELSE <<text[k]>>])

Given(cond, seq) == IF cond THEN seq ELSE <<>>

(* The map f, with the entries of m for the keys that f has not.            *)
Over(f, m) == [k \in DOMAIN f \cup DOMAIN m |-> IF k \in DOMAIN f THEN f[k] ELSE m[k]]

(* A map in the order of its keys, as argument pairs. (A $ in a key, which  *)
(* none of SortedKeys has, is escaped as well.)                             *)
Pairs(flag, map) ==
  FlattenSeq([n \in DOMAIN SortedKeys |->
    Given(SortedKeys[n] \in DOMAIN map,
          Pair(flag, SortedKeys[n], escapeKubeExpansion(map[SortedKeys[n]])))])

LZName == <<"zone">>   \* of the one load zone of the distribution
LZLabel == <<"label">>
TestRunIDText == <<"id">>

(* load_zone is overwritten; a tag without a value is not passed.           *)
TagArgs(data) ==
  LET tags == Over([load_zone |-> LZName], data.tags)
  IN  Pairs("--tag", [k \in {t \in DOMAIN tags : tags[t] # <<>>} |-> tags[k]])

(* The user's variables, the reserved ones overwritten and the instance ID  *)
(* removed: each runner has its own.                                        *)
Environment_UserFirst(data) ==
  Over(data.env, [K6_CLOUDRUN_LOAD_ZONE |-> LZName, K6_CLOUDRUN_DISTRIBUTION |-> LZLabel,
                  K6_CLOUDRUN_TEST_RUN_ID |-> TestRunIDText])

Environment(data) ==
  LET all == Over([K6_CLOUDRUN_LOAD_ZONE |-> LZName, K6_CLOUDRUN_DISTRIBUTION |-> LZLabel,
                   K6_CLOUDRUN_TEST_RUN_ID |-> TestRunIDText], data.env)
  IN  [k \in DOMAIN all \ {"K6_CLOUDRUN_INSTANCE_ID"} |-> all[k]]

(* reservedGCk6EnvVars: of the variables sent as meant for the k6 process,  *)
(* only these are passed.                                                   *)
ReservedGCk6EnvVars == {}

ReservedEnvVars_All(data) == [n \in DOMAIN data.gck6 |-> EnvVar(data.gck6[n], <<"gck6">>)]

ReservedEnvVars(data) ==
  FlattenSeq([n \in DOMAIN data.gck6 |->
    Given(data.gck6[n] \in ReservedGCk6EnvVars, <<EnvVar(data.gck6[n], <<"gck6">>)>>)])

SecretsEnvVars(data) ==
  Given(data.secrets, <<EnvVar("K6_SECRET_SOURCE", <<"url">>),
                        EnvVar("K6_SECRET_SOURCE_URL_URL_TEMPLATE", <<"endpoint">>)>>)

(* The five variables of the aggregation are passed like this one.          *)
AggregationEnvVars == <<EnvVar("K6_CLOUD_AGGREGATION_PERIOD", <<"3s">>)>>

RunnerEnvVars(data) ==
  Given(data.userAgent # <<>>, <<EnvVar("K6_USER_AGENT", escapeKubeExpansion(data.userAgent))>>)
  \o AggregationEnvVars \o SecretsEnvVars(data) \o ReservedEnvVars(data)
  \o <<EnvVar("K6_CLOUD_HOST", <<"host">>)>>

Preprocess ==
  /\ pc = "handle"
  /\ pc' = IF trd.zones = 1 THEN "complete" ELSE "dropped"
  /\ UNCHANGED <<trd, spec, i, cli, archive, runners>>
-----------------------------------------------------------------------------
(* PLZWorker.complete, on the worker's template. *)

TokenRef == <<"$", "(", "K6_CLOUD_TOKEN", ")">>

plzk6Args_OutEquals(data) ==
  <<FlagWith("--out", <<"cloud">>)>> \o TagArgs(data)
  \o <<Flag("--no-thresholds"), FlagWith("--log-output", <<"loki">> \o TokenRef)>>
  \o Pairs("-e", Environment(data))
  \o <<FlagWith("--include-system-env-vars", <<IF data.systemEnv THEN "true" ELSE "false">>)>>
  \o Given(~data.systemEnv, <<Flag("--verbose"), FlagWith("--summary-mode", <<"disabled">>)>>)

plzk6Args(data) ==
  <<Flag("--out"), Word("cloud")>> \o TagArgs(data)
  \o <<Flag("--no-thresholds"), FlagWith("--log-output", <<"loki">> \o TokenRef)>>
  \o Pairs("-e", Environment(data))
  \o <<FlagWith("--include-system-env-vars", <<IF data.systemEnv THEN "true" ELSE "false">>)>>
  \o Given(~data.systemEnv, <<Flag("--verbose"), FlagWith("--summary-mode", <<"disabled">>)>>)

Complete ==
  /\ pc = "complete"
  /\ spec' = [args |-> plzk6Args(trd), arguments |-> <<>>, parallelism |-> trd.instances,
              script |-> {"LocalFile"}, disabled |-> FALSE, env |-> RunnerEnvVars(trd)]
  /\ pc' = "parse" /\ i' = 1 /\ cli' = NoCLI
  /\ UNCHANGED <<trd, archive, runners>>
-----------------------------------------------------------------------------
(* Validate, in the first reconcile of the TestRun: ParseCLI of Argv().     *)

UsesArgs      == spec.args # <<>>
NeedsShellCmd_Always == TRUE
NeedsShellCmd == ~UsesArgs

(* strings.Fields leaves no empty argument in what is split from arguments. *)
Fields(arguments) ==
  FlattenSeq([n \in DOMAIN arguments |-> Given(arguments[n] # EmptyArg, <<arguments[n]>>)])

Argv == IF UsesArgs THEN spec.args ELSE Fields(spec.arguments)

ParseGroup ==
  /\ pc = "parse" /\ i <= Len(Argv) /\ IsFlag(Argv[i])
  /\ i' = lastArgV(i + 1, Argv)
  /\ cli' = AddGroup(cli, Argv, i, i')
  /\ UNCHANGED <<trd, spec, pc, archive, runners>>

(* A positional argument is an error: the TestRun's stage becomes error.    *)
ParsePositional ==
  /\ pc = "parse" /\ i <= Len(Argv) /\ ~IsFlag(Argv[i])
  /\ pc' = "invalid"
  /\ UNCHANGED <<trd, spec, i, cli, archive, runners>>

(* The initializer can be disabled, unless there is the cloud output.       *)
ParseEnd ==
  /\ pc = "parse" /\ i > Len(Argv)
  /\ pc' = IF ~cli.HasCloudOut /\ spec.disabled THEN "runners" ELSE "initializer"
  /\ UNCHANGED <<trd, spec, i, cli, archive, runners>>
-----------------------------------------------------------------------------
(* The jobs. *)

(* ParseScript: the first of these that the spec has, an error if none.     *)
ScriptType ==
  CASE "VolumeClaim" \in spec.script -> "VolumeClaim"
    [] "ConfigMap" \in spec.script   -> "ConfigMap"
    [] "LocalFile" \in spec.script   -> "LocalFile"
    [] OTHER                         -> "error"

Script == Word("script")  \* FullName()

NoSegment == <<>>

(* newInitializerCommand: for the script in .spec.arguments form the shell, *)
(* otherwise the kubelet, expands the values of the environment variables.  *)
(* The arguments are part of a shell script, or its positional parameters.  *)
NewInitializerJob ==
  LET ref(name) == IF NeedsShellCmd THEN <<"${", name, "}">> ELSE <<"$", "(", name, ")">>
      envArgs   == [n \in DOMAIN spec.env |->
                      <<Flag("-e"), KeyValue(spec.env[n].name, ref(spec.env[n].name))>>]
  IN  [args |-> <<Word("k6"), Word("archive"), Script>> \o FlattenSeq(envArgs)
                \o <<Flag("-O"), Word("archived")>> \o cli.ArchiveArgs,
       env |-> spec.env, shell |-> NeedsShellCmd,
       segment |-> NoSegment, sequence |-> NoSegment]

InitializeJobs ==
  /\ pc = "initializer"
  /\ IF ScriptType = "error" THEN pc' = "noscript" /\ UNCHANGED archive
     ELSE pc' = "runners" /\ archive' = NewInitializerJob
  /\ UNCHANGED <<trd, spec, i, cli, runners>>

(* A test run at the k6 Cloud: created by it (PLZ), or for the cloud output. *)
CloudEnv ==
  Given(trd.plz \/ cli.HasCloudOut,
    Given(~trd.plz, AggregationEnvVars)
    \o <<EnvVar("K6_CLOUD_PUSH_REF_ID", TestRunIDText), EnvVar("K6_CLOUD_TOKEN", <<"token">>)>>)

(* UpdateCommand: a LocalFile is looked for first; the command then is the  *)
(* rest of the positional parameters, or a line for a shell of its own.     *)
NewRunnerJob(index) ==
  LET instance == <<ToString(index)>>
      split    == spec.parallelism > 1
  IN  [args |-> <<Word("k6"), Word("run"), Flag("--quiet")>> \o Argv
                \o <<Script, FlagWith("--address", <<"0.0.0.0:6565">>), Flag("--paused")>>
                \o Pair("--tag", "instance_id", instance) \o Pair("--tag", "testrun_name", <<"name">>)
                \o Given(trd.plz, <<Flag("--no-setup"), Flag("--no-teardown"), Flag("--linger")>>)
                \o Given(trd.plz, Pair("-e", "K6_CLOUDRUN_INSTANCE_ID", instance)),
       env |-> CloudEnv \o spec.env,
       shell |-> ScriptType = "LocalFile" /\ NeedsShellCmd,
       segment |-> Given(split, Segment(index, spec.parallelism)),
       sequence |-> Given(split, SegmentSequence(spec.parallelism))]

(* CreateJobs: index 1 .. parallelism.                                      *)
CreateRunner ==
  LET index == Len(runners) + 1
  IN  /\ pc = "runners" /\ index <= spec.parallelism
      /\ IF ScriptType = "error" THEN pc' = "noscript" /\ UNCHANGED runners
         ELSE runners' = Append(runners, NewRunnerJob(index)) /\ UNCHANGED pc
      /\ UNCHANGED <<trd, spec, i, cli, archive>>
-----------------------------------------------------------------------------
Init ==
  /\ \/ trd \in CloudData /\ spec = NoSpec /\ pc = "handle"
     \/ trd = NoData /\ spec \in UserSpecs /\ pc = "parse"
  /\ i = 1 /\ cli = NoCLI /\ archive = NoContainer /\ runners = <<>>

Next ==
  \/ Preprocess \/ Complete \/ ParseGroup \/ ParsePositional \/ ParseEnd
  \/ InitializeJobs \/ CreateRunner

Spec == Init /\ [][Next]_vars
=============================================================================
