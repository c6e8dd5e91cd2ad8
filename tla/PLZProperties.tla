---------------------------- MODULE PLZProperties ----------------------------
(***************************************************************************)
(* What the PLZ controller promises, and what its comments and docs say.   *)
(***************************************************************************)
EXTENDS PLZController

Contract == INSTANCE FactoryContract WITH
  Run <- {}, NoRun <- 0, state <- worker.factory, making <- 0, made <- {}

(* The reconciler keeps its side of the contract with the factory, which it *)
(* starts once: its poller closes the channel of test runs when stopped, so *)
(* that a second start would send on it or close it again (OnDone in        *)
(* NewTestRunPoller), and the operator would panic.                         *)
ReconcilerKeepsContract == Contract!Spec

(* A factory polls only for a PLZ that exists and has the finalizer: its    *)
(* deletion will be seen by a reconcile, which stops the factory. Otherwise *)
(* a goroutine would poll the cloud for a PLZ that is gone.                 *)
PollingIsGuarded ==
  worker.factory = "polling" => api.uid = worker.uid /\ api.finalizer

(* The factory polls only while the zone is registered: registration comes  *)
(* before the finalizer and status, deregistration after StopFactory.       *)
PollingIsRegistered == worker.factory = "polling" => zone

(* A PLZ that stays gets its factory: registered, stored as such, polling.  *)
Serves ==
  \A u \in 1 .. MaxPLZs :
    api.uid = u ~> \/ api.uid # u \/ api.deleting
                   \/ IsRegistered(api) /\ worker = [uid |-> u, factory |-> "polling"]

(* A PLZ that is deleted once it is stored as registered disappears: a     *)
(* failed removal of the finalizer is repeated, and after a restart the     *)
(* worker is reconstructed first, without which the deletion is not looked  *)
(* at (the comment on the requeue at the end of Reconcile).                 *)
Disappears ==
  \A u \in 1 .. MaxPLZs :
    api.uid = u /\ api.deleting /\ IsRegistered(api) ~> api.uid # u
=============================================================================
