----------------------------- MODULE K6Arguments -----------------------------
(***************************************************************************)
(* The elements of a k6 command line, and ParseCLI (pkg/types/k6cli.go):   *)
(* the loop that validates the arguments of a TestRun, looks for the cloud *)
(* output and selects the arguments of `k6 archive`.                       *)
(*                                                                         *)
(* An element is a flag, `--name` or `--name=text`, or it does not begin   *)
(* with a dash and its flag is "none". Text is a sequence of pieces: words *)
(* and the characters that Kubernetes or a shell treat in a special way.   *)
(*                                                                         *)
(* A definition named D_x is D with a defect: a property is worth checking *)
(* when such a defect violates it.                                         *)
(***************************************************************************)
EXTENDS Integers, Sequences, FiniteSetsExt

CONSTANTS
  FlagName,  \* the flags of k6 and "none", for an argument that is not a flag
  Piece      \* what a text is made of

Text     == Seq(Piece)
Argument == [flag : FlagName, text : Text]

Flag(name)           == [flag |-> name, text |-> <<>>]
FlagWith(name, text) == [flag |-> name, text |-> text]
Value(text)          == [flag |-> "none", text |-> text]
Word(w)              == Value(<<w>>)
EmptyArg             == Value(<<>>)

IsFlag(arg)      == arg.flag # "none"
IsExactly(arg, names) == arg.flag \in names /\ arg.text = <<>>

(* By prefix, whatever follows. *)
NotForArchive == {"--log-output", "--block-hostnames", "--blacklist-ip", "--user-agent"}

OutFlag == {"-o", "--out"}
Skipped == {"-l", "--linger", "--no-usage-report", "--verbose", "-v"}

ForArchive(arg) ==
  /\ arg.flag \notin NotForArchive
  /\ ~IsExactly(arg, OutFlag \cup Skipped)

(* The arguments i .. lastArgV - 1 are a flag and its values.               *)
lastArgV_NoEmpty(start, args) ==
  Min({k \in start .. Len(args) + 1 :
         k = Len(args) + 1 \/ IsFlag(args[k]) \/ args[k] = EmptyArg})

lastArgV(start, args) ==
  IF start <= Len(args) /\ args[start] = EmptyArg THEN start + 1
  ELSE Min({k \in start .. Len(args) + 1 :
              k = Len(args) + 1 \/ IsFlag(args[k]) \/ args[k] = EmptyArg})

NoCLI == [ArchiveArgs |-> <<>>, HasCloudOut |-> FALSE]

(* The body of the loop for a flag at i whose group ends before k.          *)
AddGroup(cli, argv, i, k) ==
  [ArchiveArgs |-> cli.ArchiveArgs \o IF ForArchive(argv[i]) THEN SubSeq(argv, i, k - 1) ELSE <<>>,
   HasCloudOut |-> \/ cli.HasCloudOut
                   \/ IsExactly(argv[i], OutFlag) /\ i + 1 < k /\ argv[i + 1] = Word("cloud")]
-----------------------------------------------------------------------------
(* The same without a loop. An argument belongs to the flag before it when  *)
(* nothing but values is in between; an empty one only directly after it.   *)
BelongsTo(argv, j, p) ==
  /\ p < j /\ IsFlag(argv[p])
  /\ \A k \in p + 1 .. j : ~IsFlag(argv[k]) /\ (argv[k] = EmptyArg => k = p + 1 /\ k = j)

Positional(argv, j) == ~IsFlag(argv[j]) /\ \A p \in 1 .. j - 1 : ~BelongsTo(argv, j, p)

Archived(argv, j) ==
  \E p \in 1 .. j : (p = j \/ BelongsTo(argv, j, p)) /\ IsFlag(argv[p]) /\ ForArchive(argv[p])

Nth(set, n) == CHOOSE j \in set : Cardinality({k \in set : k <= j}) = n

CLIOf(argv) ==
  LET kept == {j \in 1 .. Len(argv) : Archived(argv, j)}
  IN  [ArchiveArgs |-> [n \in 1 .. Cardinality(kept) |-> argv[Nth(kept, n)]],
       HasCloudOut |-> \E p \in 1 .. Len(argv) - 1 :
                         IsExactly(argv[p], OutFlag) /\ argv[p + 1] = Word("cloud")]
=============================================================================
