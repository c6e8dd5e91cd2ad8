----------------------------- MODULE PLZFactory -----------------------------
(***************************************************************************)
(* The factory of PLZ test runs: the poller (pkg/cloud/conn/poller.go,     *)
(* pkg/cloud/test_runs.go) asks the k6 Cloud every 10s for the test runs   *)
(* of the load zone and passes their IDs through an unbuffered channel to  *)
(* the worker's goroutine (pkg/plz/worker.go), which creates the TestRuns. *)
(* PLZController treats all this as one field, worker.factory; here it is  *)
(* the reconciler, two goroutines, a channel and a context. One worker is  *)
(* modelled: the reconciler does not start it again (FactoryContract).      *)
(*                                                                         *)
(* A definition named D_x is D with a defect: a property is worth checking *)
(* when such a defect violates it.                                         *)
(***************************************************************************)
EXTENDS Naturals

CONSTANTS
  Run,        \* the test runs the k6 Cloud may announce for the load zone
  Faults,     \* the disturbances that may happen, a subset of FaultKind
  MaxFaults   \* bound: how many of them in one behaviour

FaultKind == {"list", "get", "data", "create", "event", "delete", \* calls that fail
              "lost",    \* the answer to a create that succeeded is lost
              "hang",    \* a call to Kubernetes does not return
              "crash"}   \* the operator restarts

ASSUME FactoryAssumption ==
  Run \subseteq Nat \ {0} /\ Faults \subseteq FaultKind /\ MaxFaults \in Nat

NoRun == 0  \* the worker handles none

VARIABLES
  outdated,    \* the cluster's TestRun CRD does not know .spec.args
  ctx,         \* the poller's context: "nil" before Start, "live", "done"
  chan,        \* the channel of test run IDs: "open" or "closed"
  poller, pending, \* the poller's goroutine, and the IDs it has yet to send
  worker, id,  \* the worker's goroutine, and the ID it handles
  announced, live, \* the runs the k6 Cloud has created, and those not ended
  trs,         \* the TestRuns at the API server
  cached,      \* the runs whose TestRun is in the operator's cache
  faults       \* how many faults have happened

goroutines == <<poller, pending, worker, id>>
world      == <<outdated, announced, live, trs, cached>>
vars       == <<ctx, chan, goroutines, world, faults>>

PollerState == {"none", "select", "list", "send", "ended"}
Handling    == {"get", "data", "create", "creating", "abort", "delete", "hung"}
WorkerState == {"none", "recv", "ended"} \cup Handling
TestRunState == {"none", "ok", "noargs"}

TypeOK ==
  /\ outdated \in BOOLEAN /\ ctx \in {"nil", "live", "done"} /\ chan \in {"open", "closed"}
  /\ poller \in PollerState /\ pending \subseteq Run /\ (poller = "send" => pending # {})
  /\ worker \in WorkerState /\ id \in Run \cup {NoRun} /\ (worker \in Handling => id \in Run)
  /\ announced \subseteq Run /\ live \subseteq announced
  /\ trs \in [Run -> TestRunState] /\ cached \subseteq Run
  /\ faults \in 0 .. MaxFaults

Init ==
  /\ outdated \in BOOLEAN /\ ctx = "nil" /\ chan = "open"
  /\ poller = "none" /\ pending = {} /\ worker = "none" /\ id = NoRun
  /\ announced = {} /\ live = {} /\ trs = [r \in Run |-> "none"] /\ cached = {}
  /\ faults = 0

Fault(f) == f \in Faults /\ faults < MaxFaults /\ faults' = faults + 1
NoFault  == UNCHANGED faults
-----------------------------------------------------------------------------
(* The reconciler. Start and Stop return at once when the poller polls, or  *)
(* does not: IsPolling() is ctx = "live".                                   *)

StartFactory ==
  /\ ctx = "nil" /\ ctx' = "live"
  /\ poller' = "select" /\ worker' = "recv"
  /\ UNCHANGED <<chan, pending, id, world, faults>>

StopFactory_Closes ==
  /\ ctx = "live" /\ ctx' = "done" /\ chan' = "closed"
  /\ UNCHANGED <<goroutines, world, faults>>

StopFactory ==
  /\ ctx = "live" /\ ctx' = "done"
  /\ UNCHANGED <<chan, goroutines, world, faults>>
-----------------------------------------------------------------------------
(* The poller's goroutine: the loop of Start, OnInterval and OnDone. Go's   *)
(* select takes any case that is ready: a tick may win over a done context. *)

OnDone ==
  /\ poller = "select" /\ ctx = "done"
  /\ poller' = "ended" /\ chan' = "closed"
  /\ UNCHANGED <<ctx, pending, worker, id, world, faults>>

Tick ==
  /\ poller = "select" /\ poller' = "list"
  /\ UNCHANGED <<ctx, chan, pending, worker, id, world, faults>>

ListFailed_Ends == poller' = "ended" /\ UNCHANGED pending

ListFailed == poller' = "select" /\ UNCHANGED pending

OnInterval ==
  /\ poller = "list"
  /\ \/ Fault("list") /\ ListFailed
     \/ NoFault /\ pending' = live /\ poller' = IF live = {} THEN "select" ELSE "send"
  /\ UNCHANGED <<ctx, chan, worker, id, world>>

(* An ID goes over when the worker's goroutine is at the channel.           *)
Send ==
  /\ poller = "send" /\ worker = "recv"
  /\ \E r \in pending :
       /\ id' = r /\ worker' = "get"
       /\ pending' = pending \ {r}
       /\ poller' = IF pending = {r} THEN "select" ELSE "send"
  /\ UNCHANGED <<ctx, chan, world, faults>>

SendCancelled ==
  /\ poller = "send" /\ ctx = "done"
  /\ poller' = "select" /\ pending' = {}
  /\ UNCHANGED <<ctx, chan, worker, id, world, faults>>

Poller == OnDone \/ Tick \/ OnInterval \/ Send \/ SendCancelled
-----------------------------------------------------------------------------
(* The worker's goroutine: range over the channel, and handle.              *)

HandleReturns == worker' = "recv" /\ id' = NoRun
HandleAt(label) == worker' = label /\ UNCHANGED id

ChannelClosed_ZeroValue ==
  /\ worker = "recv" /\ chan = "closed"
  /\ worker' = "get" /\ id' = NoRun
  /\ UNCHANGED <<ctx, chan, poller, pending, world, faults>>

ChannelClosed ==
  /\ worker = "recv" /\ chan = "closed"
  /\ worker' = "ended" /\ id' = NoRun
  /\ UNCHANGED <<ctx, chan, poller, pending, world, faults>>

(* Any answer but "not found" means that the test run was started already.  *)
Get ==
  /\ worker = "get"
  /\ \/ id \in cached /\ NoFault /\ HandleReturns
     \/ id \notin cached /\ NoFault /\ HandleAt("data")
     \/ ctx = "done" /\ NoFault /\ HandleReturns
     \/ Fault("get") /\ HandleReturns
  /\ UNCHANGED <<ctx, chan, poller, pending, world>>

(* GetTestRunData, Preprocess, complete.                                    *)
GetTestRunData ==
  /\ worker = "data"
  /\ \/ NoFault /\ HandleAt("create")
     \/ Fault("data") /\ HandleReturns
  /\ UNCHANGED <<ctx, chan, poller, pending, world>>

(* A call with a cancelled context is not sent.                             *)
CallCreate_Background ==
  /\ worker = "create"
  /\ HandleAt("creating")
  /\ UNCHANGED <<ctx, chan, poller, pending, world, faults>>

CallCreate ==
  /\ worker = "create"
  /\ IF ctx = "done" THEN HandleReturns ELSE HandleAt("creating")
  /\ UNCHANGED <<ctx, chan, poller, pending, world, faults>>

(* The TestRun is stored, without .spec.args when the CRD is outdated.      *)
Stored == trs' = [trs EXCEPT ![id] = IF outdated THEN "noargs" ELSE "ok"]

Create_NoCheck ==
  /\ worker = "creating"
  /\ \/ trs[id] = "none" /\ NoFault /\ Stored /\ HandleReturns
     \/ trs[id] = "none" /\ Fault("lost") /\ Stored /\ HandleReturns
     \/ trs[id] # "none" /\ NoFault /\ UNCHANGED trs /\ HandleReturns  \* AlreadyExists
     \/ Fault("create") /\ UNCHANGED trs /\ HandleReturns
     \/ Fault("hang") /\ UNCHANGED trs /\ HandleAt("hung")
  /\ UNCHANGED <<ctx, chan, poller, pending, outdated, announced, live, cached>>

Create ==
  /\ worker = "creating"
  /\ \/ /\ trs[id] = "none" /\ NoFault /\ Stored
        /\ IF outdated THEN HandleAt("abort") ELSE HandleReturns
     \/ trs[id] = "none" /\ Fault("lost") /\ Stored /\ HandleReturns
     \/ trs[id] # "none" /\ NoFault /\ UNCHANGED trs /\ HandleReturns  \* AlreadyExists
     \/ Fault("create") /\ UNCHANGED trs /\ HandleReturns
     \/ Fault("hang") /\ UNCHANGED trs /\ HandleAt("hung")
  /\ UNCHANGED <<ctx, chan, poller, pending, outdated, announced, live, cached>>

(* The TestRun is useless: the cloud is told to abort the run...            *)
SendAbort ==
  /\ worker = "abort"
  /\ \/ NoFault /\ live' = live \ {id}
     \/ Fault("event") /\ UNCHANGED live
  /\ HandleAt("delete")
  /\ UNCHANGED <<ctx, chan, poller, pending, outdated, announced, trs, cached>>

(* ... and the TestRun is deleted.                                          *)
Delete ==
  /\ worker = "delete"
  /\ \/ ctx = "live" /\ NoFault /\ trs' = [trs EXCEPT ![id] = "none"]
     \/ ctx = "done" /\ NoFault /\ UNCHANGED trs
     \/ Fault("delete") /\ UNCHANGED trs
  /\ HandleReturns
  /\ UNCHANGED <<ctx, chan, poller, pending, outdated, announced, live, cached>>

(* A call that hangs returns when the context is cancelled.                 *)
HungCall_Background ==
  /\ worker = "hung" /\ FALSE
  /\ HandleReturns
  /\ UNCHANGED <<ctx, chan, poller, pending, world, faults>>

HungCall ==
  /\ worker = "hung" /\ ctx = "done"
  /\ HandleReturns
  /\ UNCHANGED <<ctx, chan, poller, pending, world, faults>>

Worker ==
  \/ ChannelClosed \/ Get \/ GetTestRunData \/ CallCreate \/ Create \/ SendAbort \/ Delete
  \/ HungCall
-----------------------------------------------------------------------------
(* The world around the factory. *)

CacheSync ==
  /\ cached' = {r \in Run : trs[r] # "none"} /\ cached' # cached
  /\ UNCHANGED <<ctx, chan, goroutines, outdated, announced, live, trs, faults>>

Announce ==
  /\ \E r \in Run \ announced : announced' = announced \cup {r} /\ live' = live \cup {r}
  /\ UNCHANGED <<ctx, chan, goroutines, outdated, trs, cached, faults>>

(* A run ends at the cloud: finished by the TestRun controller, aborted, or *)
(* timed out.                                                               *)
RunEnds ==
  /\ \E r \in live : live' = live \ {r}
  /\ UNCHANGED <<ctx, chan, goroutines, outdated, announced, trs, cached, faults>>

(* The TestRun controller cleans up the TestRun of a run that has ended. A  *)
(* TestRun without arguments runs to its end without the cloud's knowledge. *)
CleanedUp ==
  /\ \E r \in Run : /\ (trs[r] = "ok" /\ r \notin live) \/ trs[r] = "noargs"
                   /\ trs' = [trs EXCEPT ![r] = "none"]
  /\ UNCHANGED <<ctx, chan, goroutines, outdated, announced, live, cached, faults>>

(* The operator restarts; the PLZ reconciler makes a new worker.            *)
Restart ==
  /\ ctx # "nil" /\ Fault("crash")
  /\ ctx' = "nil" /\ chan' = "open"
  /\ poller' = "none" /\ pending' = {} /\ worker' = "none" /\ id' = NoRun
  /\ cached' = {r \in Run : trs[r] # "none"}
  /\ UNCHANGED <<outdated, announced, live, trs>>
-----------------------------------------------------------------------------
Next ==
  \/ StartFactory \/ StopFactory \/ Poller \/ Worker
  \/ CacheSync \/ Announce \/ RunEnds \/ CleanedUp \/ Restart

Spec == Init /\ [][Next]_vars

(* Goroutines run and their calls return unless they hang; the reconciler   *)
(* starts the factory; ticks come, and a done context, which is ready at    *)
(* every select, is chosen at last; the cache catches up.                   *)
FairSpec ==
  /\ Spec
  /\ WF_vars(StartFactory) /\ WF_vars(Tick) /\ SF_vars(OnDone) /\ WF_vars(OnInterval)
  /\ WF_vars(Send) /\ WF_vars(SendCancelled) /\ WF_vars(Worker) /\ WF_vars(CacheSync)
-----------------------------------------------------------------------------
(* The poller never sends on the closed channel, nor closes it twice, which *)
(* would end the operator with a panic: Stop, called by the reconciler, only *)
(* cancels the context and leaves the close to the goroutine that sends.    *)
ChannelSafe == poller \in {"select", "list", "send"} => chan = "open"

(* After Stop both goroutines end, whatever they were doing, a call to      *)
(* Kubernetes that hangs included: the context reaches into handle.         *)
WindsDown == ctx = "done" ~> (poller = "ended" /\ worker = "ended") \/ ctx = "nil"

(* While the factory runs, every run of the cloud gets its TestRun or ends: *)
(* a failed list, lookup or creation is made good by a later poll.          *)
Delivered ==
  \A r \in Run : r \in live /\ ctx = "live" ~> r \notin live \/ trs[r] = "ok" \/ ctx # "live"

(* worker.go, on an outdated CRD: "the test would then run without cloud    *)
(* output and the user would see only a timeout in GCk6 UI. So checking     *)
(* this case here, to fail explicitly instead." While the factory runs, a   *)
(* TestRun without arguments is in the hands of handle or its run has ended.*)
FailsExplicitly ==
  \A r \in live : trs[r] = "noargs" /\ ctx = "live" => worker \in Handling /\ id = r
-----------------------------------------------------------------------------
FactoryStateOf == [nil |-> "new", live |-> "polling", done |-> "stopped"]

Contract == INSTANCE FactoryContract WITH
  state  <- FactoryStateOf[ctx],
  making <- IF worker \in {"creating", "hung"} THEN id ELSE NoRun,
  made   <- {r \in Run : trs[r] # "none"}

(* The factory keeps its side of the contract: once Stop has cancelled the  *)
(* context it begins no creation, so that a deleted PLZ gets at most the    *)
(* TestRun whose creation is under way (the context that handle passes).    *)
FactoryKeepsContract == Contract!Spec
=============================================================================
