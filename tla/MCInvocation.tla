----------------------------- MODULE MCInvocation -----------------------------
(* Instances of the command builders for TLC. *)
EXTENDS InvocationProperties

CONSTANTS MaxArgs, MaxRunners  \* bounds: arguments of a user, runners

Keys == <<"A", "K6_CLOUDRUN_DISTRIBUTION", "K6_CLOUDRUN_INSTANCE_ID", "K6_CLOUDRUN_LOAD_ZONE",
          "K6_CLOUDRUN_TEST_RUN_ID", "K6_USER_AGENT", "a", "instance_id", "load_zone">>

(* The operator's own flags and words, and a user's.                        *)
Flags  == {"none", "--address", "--include-system-env-vars", "--linger", "--log-output", "--no-setup",
           "--no-teardown", "--no-thresholds", "--out", "--paused", "--quiet", "--summary-mode",
           "--tag", "--user-agent", "--verbose", "-O", "-e", "-l", "-u"}
Pieces == Special \cup ToSet(Keys) \cup
  {"0.0.0.0:6565", "3s", "K6_CLOUD_AGGREGATION_PERIOD", "K6_CLOUD_HOST", "K6_CLOUD_PUSH_REF_ID",
   "K6_CLOUD_TOKEN", "K6_SECRET_SOURCE", "K6_SECRET_SOURCE_URL_URL_TEMPLATE", "archive", "archived",
   "cloud", "disabled", "endpoint", "false", "gck6", "host", "id", "k6", "label", "loki", "name",
   "run", "script", "testrun_name", "token", "true", "url", "zone", "1", "2", "3", "4", "10", "x", "y"}

Arguments == {EmptyArg, Word("cloud"), Word("10"), Flag("-u"), Flag("--out"),
              FlagWith("--out", <<"cloud">>), Flag("--linger"), Flag("--user-agent")}

UserSpec(args, arguments, n, script, disabled) ==
  [args |-> args, arguments |-> arguments, parallelism |-> n, script |-> script,
   disabled |-> disabled, env |-> <<EnvVar("A", <<"x", "$">>)>>]

(* All lists of arguments, and all kinds of scripts with one of them.       *)
AllUserSpecs ==
  {UserSpec(a, <<>>, 1, {s}, FALSE) : a \in BoundedSeq(Arguments, MaxArgs), s \in {"ConfigMap", "LocalFile"}}
  \cup {UserSpec(<<>>, a, 1, {"LocalFile"}, FALSE) : a \in BoundedSeq(Arguments, MaxArgs)}
  \cup {UserSpec(<<Flag("-u"), Word("10")>>, <<Flag("-l")>>, n, s, d) :
          n \in 1 .. MaxRunners, s \in SUBSET {"VolumeClaim", "ConfigMap", "LocalFile"}, d \in BOOLEAN}
  \cup {UserSpec(<<Flag("-e"), KeyValue("A", t)>>, <<>>, 1, {"ConfigMap"}, FALSE) : t \in {<<>>, <<"y">>, <<"$">>}}

Texts == {<<"x">>, <<"$">>, <<"$", "$">>, TokenRef, <<"$">> \o TokenRef, <<"$", "(", "$", "$", ")">>}

Maps(keys, texts) == UNION {[ks -> texts] : ks \in SUBSET keys}

AllCloudData ==
  [plz : {TRUE}, zones : {1}, instances : {2}, systemEnv : BOOLEAN, secrets : {TRUE},
   gck6 : {<<"K6_CLOUD_TOKEN">>}, userAgent : Texts \cup {<<>>},
   env : Maps({"A", "K6_CLOUDRUN_INSTANCE_ID"}, Texts) \cup Maps({"K6_USER_AGENT"}, {<<"x">>}), tags : Maps({"a"}, Texts \cup {<<>>})]
  \cup
  [plz : {TRUE}, zones : {0, 1, 2}, instances : 1 .. MaxRunners, systemEnv : BOOLEAN,
   secrets : BOOLEAN, gck6 : {<<>>}, userAgent : {<<>>},
   env : Maps({"K6_CLOUDRUN_INSTANCE_ID", "K6_CLOUDRUN_LOAD_ZONE"}, {<<"x">>}),
   tags : Maps({"a", "instance_id", "load_zone"}, {<<>>, <<"x">>})]
=============================================================================
