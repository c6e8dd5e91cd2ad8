--------------------------- MODULE FactoryContract ---------------------------
(***************************************************************************)
(* What the PLZ reconciler and the factory of test runs expect of each     *)
(* other. The reconciler starts a factory once and stops it at most once;  *)
(* the factory begins to create a TestRun only while it is not stopped, so *)
(* that at most one TestRun appears afterwards, the one in the making.     *)
(* PLZController and PLZFactory both implement this specification.         *)
(***************************************************************************)
CONSTANTS
  Run,    \* the test runs of the load zone
  NoRun   \* the factory creates none at the moment

VARIABLES
  state,  \* of the factory: "new", "polling" or "stopped"
  making, \* the run whose TestRun is being created
  made    \* the runs that have a TestRun

vars == <<state, making, made>>

Init == state = "new" /\ making = NoRun /\ made = {}

Start == state = "new" /\ state' = "polling" /\ UNCHANGED <<making, made>>

Stop == state = "polling" /\ state' = "stopped" /\ UNCHANGED <<making, made>>

Begin ==
  /\ state = "polling" /\ making = NoRun
  /\ making' \in Run
  /\ UNCHANGED <<state, made>>

(* The call has returned, with or without success.                          *)
End ==
  /\ making # NoRun /\ making' = NoRun
  /\ made' \in {made, made \cup {making}}
  /\ UNCHANGED state

(* TestRuns are deleted by others.                                          *)
Delete == made' \subseteq made /\ UNCHANGED <<state, making>>

(* The worker is gone with its PLZ or with the operator; a later one has a  *)
(* factory of its own.                                                      *)
Renew == state' = "new" /\ making' = NoRun /\ UNCHANGED made

Next == Start \/ Stop \/ Begin \/ End \/ Delete \/ Renew

Spec == Init /\ [][Next]_vars
=============================================================================
