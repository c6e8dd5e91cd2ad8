-------------------------- MODULE SynchronizedStart --------------------------
(***************************************************************************)
(* What a distributed test is, apart from how the operator brings it       *)
(* about: runners are launched, wait paused until all of them are ready,   *)
(* are released together and then execute the test, each once.             *)
(* TestRunController implements this specification.                        *)
(***************************************************************************)
CONSTANT Runner

VARIABLES
  runner,   \* what each runner does
  released  \* the start was given

vars == <<runner, released>>

RunnerState == {"absent", "launched", "ready", "executing", "over"}

Init == runner = [r \in Runner |-> "absent"] /\ released = FALSE

(* Runners are launched, all or only some of them, before the start.        *)
Launch ==
  /\ ~released
  /\ runner' \in [Runner -> RunnerState]
  /\ \A r \in Runner : \/ runner'[r] = runner[r]
                       \/ runner[r] = "absent" /\ runner'[r] = "launched"
  /\ UNCHANGED released

Become(r, from, to) ==
  runner[r] \in from /\ runner' = [runner EXCEPT ![r] = to] /\ UNCHANGED released

Ready(r)   == Become(r, {"launched"}, "ready")
Execute(r) == released /\ Become(r, {"ready"}, "executing")

(* The test of a runner ends, or the runner fails or is stopped at any time. *)
Over(r)    == Become(r, {"launched", "ready", "executing"}, "over")

(* The start is given when every runner has got ready; one may have been    *)
(* stopped since.                                                           *)
Release ==
  /\ ~released /\ released' = TRUE
  /\ \A r \in Runner : runner[r] \in {"ready", "over"}
  /\ UNCHANGED runner

(* Runners are removed when the test is over, and with the test everything. *)
Remove ==
  /\ runner' \in [Runner -> RunnerState]
  /\ \A r \in Runner : runner'[r] \in {runner[r], "absent"}
  /\ UNCHANGED released

Clear == runner' = [r \in Runner |-> "absent"] /\ released' = FALSE

Next ==
  \/ Launch \/ Release \/ Remove \/ Clear
  \/ \E r \in Runner : Ready(r) \/ Execute(r) \/ Over(r)

Spec == Init /\ [][Next]_vars
=============================================================================
