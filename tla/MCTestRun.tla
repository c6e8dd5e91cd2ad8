------------------------------ MODULE MCTestRun ------------------------------
(* Instances of the TestRun controller for TLC. *)
EXTENDS TestRunProperties

ASpec(id, out, ini, clean, val, vus) ==
  [id |-> id, cloudOut |-> out, initializer |-> ini, paused |-> TRUE, cleanup |-> clean,
   valid |-> val, enoughVUs |-> vus]

(* Tests without the k6 Cloud: any combination of the other fields.         *)
LocalSpecs == {ASpec(0, FALSE, i, c, v, u) : i, c, v, u \in BOOLEAN}

(* Tests with --out cloud; disabling the initializer has no effect on them. *)
CloudSpecs == {ASpec(0, TRUE, i, c, TRUE, TRUE) : i, c \in BOOLEAN}

(* Test runs made by a PLZ worker: its template fixes everything else.      *)
PLZSpecs == {ASpec(1, TRUE, TRUE, TRUE, TRUE, u) : u \in BOOLEAN}

AllSpecs == LocalSpecs \cup CloudSpecs \cup PLZSpecs

(* Runners that start by themselves (paused: "false").                      *)
UnpausedSpecs == {[s EXCEPT !.paused = FALSE] : s \in {s \in LocalSpecs \cup CloudSpecs : s.valid}}

AllAndUnpaused == AllSpecs \cup UnpausedSpecs

(* PLZ test runs whose script has enough VUs.                               *)
PLZRunnable == {s \in PLZSpecs : s.enoughVUs}

(* Test runs that are also test runs at the k6 Cloud.                       *)
HostedSpecs == CloudSpecs \cup PLZRunnable
=============================================================================
