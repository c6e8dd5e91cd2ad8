------------------------- MODULE InvocationProperties -------------------------
(***************************************************************************)
(* What reaches k6 once the kubelet and a shell have worked on a command,  *)
(* and what the operator promises about it.                                *)
(***************************************************************************)
EXTENDS K6Invocation

(* The kubelet's expansion: $$ is a $, $(NAME) the value of a variable that *)
(* exists; everything else stays as it is.                                  *)
Expand(text, env) ==
  LET rest[p \in 1 .. Len(text) + 2] ==
        IF p > Len(text) THEN <<>>
        ELSE IF text[p] # "$" \/ p = Len(text) THEN <<text[p]>> \o rest[p + 1]
        ELSE IF text[p + 1] = "$" THEN <<"$">> \o rest[p + 2]
        ELSE LET close == {q \in p + 2 .. Len(text) : text[q] = ")"}
             IN  IF text[p + 1] # "(" \/ close = {} THEN <<"$", text[p + 1]>> \o rest[p + 2]
                 ELSE LET q == Min(close)
                      IN  (IF q = p + 3 /\ text[p + 2] \in DOMAIN env THEN env[text[p + 2]]
                           ELSE SubSeq(text, p, q)) \o rest[q + 1]
  IN  rest[1]

(* A container's environment: values are expanded with the variables before *)
(* them, and the last one of a name counts.                                 *)
EnvMap(env) ==
  LET map[n \in 0 .. Len(env)] ==
        IF n = 0 THEN <<>>
        ELSE Over([name \in {env[n].name} |-> Expand(env[n].value, map[n - 1])], map[n - 1])
  IN  map[Len(env)]

(* A shell's expansion of a text: ${NAME} is a variable, the effect of any  *)
(* other $ is not known here.                                               *)
ShellText(text, env) ==
  LET rest[p \in 1 .. Len(text) + 3] ==
        IF p > Len(text) THEN <<>>
        ELSE IF text[p] = "${" THEN env[text[p + 1]] \o rest[p + 3]
        ELSE <<IF text[p] = "$" THEN "?" ELSE text[p]>> \o rest[p + 1]
  IN  rest[1]

(* A shell splits its line at blanks: an empty argument is not seen.        *)
Shell(args, env) ==
  LET seen == Fields(args)
  IN  [k \in DOMAIN seen |-> [seen[k] EXCEPT !.text = ShellText(@, env)]]

(* The arguments that k6 is started with. *)
Expanded(args, env) == [k \in DOMAIN args |-> [args[k] EXCEPT !.text = Expand(@, env)]]

Delivered(container) ==
  LET env  == EnvMap(container.env)
      args == Expanded(container.args, env)
  IN  IF container.shell THEN Shell(args, env) ELSE args

Unset == <<"unset">>

(* The value k6 gets for a key: the last pair with this key counts.         *)
SetsKey(args, k, flag, key) ==
  /\ args[k] = Flag(flag)
  /\ Len(args[k + 1].text) >= 2 /\ SubSeq(args[k + 1].text, 1, 2) = <<key, "=">>

Effective(args, flag, key) ==
  LET at == {k \in 1 .. Len(args) - 1 : SetsKey(args, k, flag, key)}
  IN  IF at = {} THEN Unset ELSE SubSeq(args[Max(at) + 1].text, 3, Len(args[Max(at) + 1].text))

Made(container) == container # NoContainer
-----------------------------------------------------------------------------
(* ParseCLI assigns every argument to the flag it belongs to: at every      *)
(* point of its loop the archive arguments are the flags seen so far that   *)
(* `k6 archive` takes, each with its values, in their order; the loop stops *)
(* with an error exactly at an argument that belongs to no flag.            *)
ParsesGroups ==
  spec # NoSpec =>
    /\ cli = CLIOf(SubSeq(Argv, 1, i - 1))
    /\ \A j \in 1 .. i - 1 : ~Positional(Argv, j)
    /\ pc = "invalid" => Positional(Argv, i)

(* A PLZ test run is never refused by the validation of its own arguments,  *)
(* whatever tags and variables its user has set, and is found to be a cloud *)
(* test run (plzk6Args against ParseCLI).                                   *)
PLZAccepted ==
  trd.plz => pc # "invalid" /\ (pc \in {"initializer", "runners"} => cli.HasCloudOut)

Reserved == {"K6_CLOUDRUN_DISTRIBUTION", "K6_CLOUDRUN_INSTANCE_ID", "K6_CLOUDRUN_LOAD_ZONE",
             "K6_CLOUDRUN_TEST_RUN_ID"}
ReservedTags == {"load_zone", "instance_id", "testrun_name"}

(* What the user of a PLZ test run has set in the k6 Cloud reaches k6 as it *)
(* was set, $(..) and $ included: it is escaped once (escapeKubeExpansion)  *)
(* and expanded once, in the initializer and in every runner. Only the      *)
(* names of the operator's own variables and tags are not the user's.       *)
UserValuesIntact ==
  LET intact(args) ==
        /\ \A k \in DOMAIN trd.env \ Reserved : Effective(args, "-e", k) = trd.env[k]
        /\ \A k \in DOMAIN trd.tags \ ReservedTags :
             Effective(args, "--tag", k) = IF trd.tags[k] = <<>> THEN Unset ELSE trd.tags[k]
  IN  trd.plz =>
        /\ \A r \in DOMAIN runners :
             /\ intact(Delivered(runners[r]))
             /\ trd.userAgent # <<>> => EnvMap(runners[r].env).K6_USER_AGENT = trd.userAgent
        /\ Made(archive) =>
             /\ intact(Delivered(archive))
             /\ trd.userAgent # <<>> /\ "K6_USER_AGENT" \notin DOMAIN trd.env =>
                  Effective(Delivered(archive), "-e", "K6_USER_AGENT") = trd.userAgent

(* The variables that describe a cloud test ("considered higher priority")  *)
(* have the operator's values whatever the user has set, and every runner   *)
(* knows its own instance ID, although it is added in another package.      *)
ReservedValues ==
  LET reserved(args, instance) ==
        /\ Effective(args, "-e", "K6_CLOUDRUN_LOAD_ZONE") = LZName
        /\ Effective(args, "-e", "K6_CLOUDRUN_DISTRIBUTION") = LZLabel
        /\ Effective(args, "-e", "K6_CLOUDRUN_TEST_RUN_ID") = TestRunIDText
        /\ Effective(args, "-e", "K6_CLOUDRUN_INSTANCE_ID") = instance
        /\ Effective(args, "--tag", "load_zone") = LZName
  IN  trd.plz =>
        /\ \A r \in DOMAIN runners : reserved(Delivered(runners[r]), <<ToString(r)>>)
        /\ Made(archive) => reserved(Delivered(archive), Unset)

(* The cloud token is put into the log output of every PLZ runner, nowhere  *)
(* else, and never into the initializer, where it has no value and would    *)
(* "break the shell" (ParseCLI); no variable sent by the cloud replaces it. *)
TokenForLogs ==
  LET withToken(args) == {k \in DOMAIN args : "token" \in ToSet(args[k].text)}
      logs(args)      == {k \in DOMAIN args : args[k].flag = "--log-output"}
  IN  trd.plz =>
        /\ \A r \in DOMAIN runners :
             LET args == Delivered(runners[r])
             IN  logs(args) # {} /\ withToken(args) = logs(args)
        /\ Made(archive) =>
             withToken(Delivered(archive)) = {} /\ logs(Delivered(archive)) = {}

(* Nothing in it is for the kubelet or a shell to replace.                  *)
Literal(args) == \A k \in DOMAIN args : ToSet(args[k].text) \cap {"$", "${"} = {}

(* The arguments of a user's TestRun reach k6 unchanged and together, empty *)
(* values of .spec.args included, whatever the kind of script; the archive  *)
(* is made with the ones that ParseCLI has selected, after the value of     *)
(* every environment variable, although that one is passed by reference.    *)
ArgumentsIntact ==
  ~trd.plz /\ Literal(Argv) =>
    /\ \A r \in DOMAIN runners : Argv \in SubSeqs(Delivered(runners[r]))
    /\ Made(archive) =>
         /\ IsSuffix(cli.ArchiveArgs, Delivered(archive))
         /\ \A v \in ToSet(spec.env) :
              Effective(Delivered(archive), "-e", v.name) =
                Effective(Pair("-e", v.name, EnvMap(archive.env)[v.name]) \o cli.ArchiveArgs,
                          "-e", v.name)

(* The runners of a distributed test divide it completely and equally.      *)
SegmentsTile ==
  spec # NoSpec /\ spec.parallelism > 1 /\ Len(runners) = spec.parallelism =>
    Tile([r \in DOMAIN runners |-> runners[r].segment], runners[1].sequence, spec.parallelism)
=============================================================================
