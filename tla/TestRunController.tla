-------------------------- MODULE TestRunController --------------------------
(***************************************************************************)
(* The TestRun reconciler (internal/controller) and what it acts upon: the *)
(* TestRun at the API server and its lagging copy in the informer cache,   *)
(* the jobs, pods and services of the run, and the k6 Cloud.               *)
(*                                                                         *)
(* One reconcile runs at a time (MaxConcurrentReconciles: 1) but is not    *)
(* atomic: it is a sequence of steps, one for each write it makes, named   *)
(* by pc, and cluster, cache and cloud move between them. Everything that  *)
(* can go wrong is named in Faults and happens at most MaxFaults times.    *)
(*                                                                         *)
(* A definition named D_x is D with a defect: a property is worth checking *)
(* when such a defect violates it.                                         *)
(***************************************************************************)
EXTENDS TestRunStatus, Sequences

CONSTANTS
  N,          \* spec.parallelism
  Specs,      \* the TestRun specs considered, a set of SpecType records
  Faults,     \* the disturbances that may happen, a subset of FaultKind
  MaxFaults,  \* bound: how many of them in one behaviour
  MaxRuns     \* bound: test runs the k6 Cloud can create

SpecType == [id : Nat,             \* spec.testRunId: non-zero for a PLZ test run
             cloudOut : BOOLEAN,   \* arguments hold --out cloud
             initializer : BOOLEAN,\* initializer not disabled
             paused : BOOLEAN,     \* runners are started with --paused, the default
             cleanup : BOOLEAN,    \* cleanup: post
             valid : BOOLEAN,      \* Validate() returns no error
             enoughVUs : BOOLEAN]  \* the script's MaxVUs >= parallelism

FaultKind == {"stale",      \* a reconcile starts on a cache that lags
              "lag",        \* jobs or services not yet in the cache when listed
              "crash",      \* the operator restarts in the middle of a reconcile
              "token", "state", "createrun", "finish", "event", \* calls to the k6 Cloud
              "lost",       \* the answer to a CreateTestRun that succeeded
              "inspect", "list", "create", "patch", "delete",   \* calls to Kubernetes
              "setup", "net",                                   \* calls to the runners
              "initfail", "podfail", "abort", "userdelete"}     \* the world outside

ASSUME ControllerAssumption ==
  /\ N \in Nat \ {0}
  /\ MaxFaults \in Nat
  /\ MaxRuns \in Nat \ {0}
  /\ Faults \subseteq FaultKind
  /\ Specs \subseteq SpecType
  /\ \A s \in Specs : s.id \in {0, 1} /\ (s.id # 0 => s.paused)

Runner == 1 .. N
RunID  == 1 .. MaxRuns

VARIABLES
  spec,     \* the TestRun's spec
  api,      \* the TestRun at the API server
  cache,    \* the TestRun in the operator's informer cache
  watch,    \* versions of it on their way from the API server to the cache
  clock,    \* the operator's clock
  queued,   \* the TestRun is in the work queue
  pc,       \* where the reconcile in progress is, "idle" if there is none
  k6,       \* that reconcile's in-memory TestRun
  client,   \* it holds a k6 Cloud client
  init,     \* the initializer job
  pod,      \* the runner jobs, by the state of their pods
  svc,      \* the runners that have a service
  starter, stopper, \* the starter and stopper jobs
  setup,    \* the runners that hold the data of a setup() run
  cloud,    \* the test runs at the k6 Cloud
  runs,     \* how many it has created
  events,   \* the test runs an abort event is being sent for
  faults    \* how many faults have happened

store    == <<api, cache, watch, clock>>
operator == <<queued, pc, k6, client>>
cluster  == <<init, pod, svc, starter, stopper, setup>>
cloudk6  == <<cloud, runs, events>>
vars     == <<spec, store, operator, cluster, cloudk6, faults>>

InitState  == {"none", "created", "succeeded", "failed"}
PodState   == {"none",    \* no job
               "created", \* a job, and no pod in phase Running yet
               "booting", \* a pod in phase Running, k6 does not serve its REST API yet
               "paused",  \* k6 serves it and waits to be resumed
               "running", \* the test executes
               "ended",   \* the test has ended, the pod lingers (PLZ)
               "exited", "failed"}
CurlJob    == [made : BOOLEAN, hosts : SUBSET Runner, todo : SUBSET Runner]
NoCurlJob  == [made |-> FALSE, hosts |-> {}, todo |-> {}]
RunStatus  == {"none", "live", "aborted", "finished"}

(* The calls of UpdateStatus, by the place they are made from. *)
UpdateLabel == {"U_invalid", "U_conditions", "U_skip", "U_initialization", "U_inspect",
                "U_validated", "U_initialized", "U_setup", "U_created", "U_jobs", "U_started",
                "U_teardown", "U_stopped", "U_abort", "U_killed", "U_finished"}
Label == {"idle", "CreateClient", "Stage", "StopJobs", "InitializeJobs", "SetupCloudTest",
          "Finalize"} \cup UpdateLabel

StoreOK ==
  /\ api \in TestRun /\ cache \in TestRun
  /\ watch \in Seq(TestRun) /\ clock \in Nat

OperatorOK ==
  /\ queued \in BOOLEAN /\ pc \in Label
  /\ k6 \in TestRun /\ client \in BOOLEAN

ClusterOK ==
  /\ init \in InitState /\ pod \in [Runner -> PodState] /\ svc \in SUBSET Runner
  /\ starter \in CurlJob /\ stopper \in CurlJob /\ setup \in SUBSET Runner

CloudOK == cloud \in [RunID -> RunStatus] /\ runs \in 0 .. MaxRuns /\ events \in SUBSET RunID

FaultsOK == faults \in 0 .. MaxFaults

TypeOK == spec \in Specs /\ StoreOK /\ OperatorOK /\ ClusterOK /\ CloudOK /\ FaultsOK

(* A TestRun has just been created; for a PLZ test run the k6 Cloud has     *)
(* created the test run before the operator hears of it.                    *)
Init ==
  /\ spec \in Specs
  /\ api = NewTestRun /\ cache = NewTestRun /\ watch = <<>> /\ clock = 0
  /\ queued = TRUE /\ pc = "idle" /\ k6 = Gone /\ client = FALSE
  /\ init = "none" /\ pod = [r \in Runner |-> "none"] /\ svc = {}
  /\ starter = NoCurlJob /\ stopper = NoCurlJob /\ setup = {}
  /\ cloud = [i \in RunID |-> IF i = spec.id THEN "live" ELSE "none"]
  /\ runs = spec.id /\ events = {}
  /\ faults = 0
-----------------------------------------------------------------------------
(* Helpers of the actions. *)

Fault(f) == f \in Faults /\ faults < MaxFaults /\ faults' = faults + 1
NoFault  == UNCHANGED faults

Now == clock + 1

Deleted == api.stage = "gone"

(* The end of a reconcile; requeue stands for an error, Requeue: true and   *)
(* RequeueAfter alike.                                                      *)
Return(requeue) ==
  /\ pc' = "idle" /\ k6' = Gone /\ client' = FALSE
  /\ queued' = (queued \/ requeue)

Goto(label, obj) == pc' = label /\ k6' = obj /\ UNCHANGED <<client, queued>>

(* As Goto, after a job was created or deleted: owned jobs are watched.     *)
GotoQueued(label, obj) == pc' = label /\ k6' = obj /\ queued' = TRUE /\ UNCHANGED client

IsCloudTestRun(tr) == Holds(tr, "CloudTestRun") \/ Holds(tr, "CloudPLZTestRun")

(* TestRunID(): PLZ test runs have it in the spec, others in the status.    *)
TestRunID(tr) == IF spec.id # 0 THEN spec.id ELSE tr.id

AbortedRun(id) == id \in RunID /\ cloud[id] = "aborted"

(* cloud.SendTestRunEvents(ErrorEvent(..).WithAbort()): the call blocks the *)
(* reconciler until the event has arrived or failed (EventArrives). It      *)
(* returns nothing and a failure is only logged: the reconcile goes on      *)
(* alike. An event for no test run is not accepted.                         *)
SendAbort(id) == events' = events \cup ({id} \cap RunID)

SendAbortIf_Never(cond, id) == UNCHANGED events

SendAbortIf(cond, id) == IF cond THEN SendAbort(id) ELSE UNCHANGED events

(* Owned objects created for a TestRun that is gone are garbage-collected.  *)
CreateCurlJob(job, hosts) ==
  IF job.made \/ Deleted THEN job ELSE [made |-> TRUE, hosts |-> hosts, todo |-> hosts]

(* The services are listed from a cache that may lag behind their creation. *)
ListServices(listed) ==
  \/ listed = svc /\ NoFault
  \/ listed # svc /\ Fault("lag")

(* The pod is in phase Running.                                             *)
Up(r) == pod[r] \in {"booting", "paused", "running", "ended"}

IsServiceReady_Unprobed(r) == TRUE

(* The runner behind a service answers GET /v1/status.                      *)
IsServiceReady(r) == pod[r] \in {"paused", "running", "ended"}

Exists(r) == pod[r] # "none"

(* A deletion and the garbage collection of all the TestRun owns.           *)
DeleteTestRun ==
  /\ api' = Gone /\ watch' = Append(watch, Gone)
  /\ init' = "none" /\ pod' = [r \in Runner |-> "none"] /\ svc' = {}
  /\ starter' = NoCurlJob /\ stopper' = NoCurlJob
  /\ UNCHANGED <<cache, clock, setup>>
-----------------------------------------------------------------------------
(* UpdateStatus: the in-memory TestRun is proposed, the TestRun is fetched  *)
(* again from the cache, the proposal is merged into it where newer, and    *)
(* what changed is sent to the API server as a merge patch without a lock.  *)

Merged       == SetIfNewer(cache, k6)
Patched      == MergePatch(api, cache, Merged)
Refetched    == IF cache.stage = "gone" THEN k6 ELSE cache
UpdateWanted == cache.stage # "gone" /\ IsNewer(cache, k6)

UpdatePatched ==
  /\ UpdateWanted /\ ~Deleted
  /\ api' = Patched
  /\ watch' = IF Patched = api THEN watch ELSE Append(watch, Patched)
  /\ clock' = IF Patched.conds = api.conds THEN clock ELSE Now
  /\ UNCHANGED cache
  /\ NoFault

UpdateSkipped == ~UpdateWanted /\ UNCHANGED store /\ NoFault

UpdateFailed ==
  /\ UpdateWanted /\ UNCHANGED store
  /\ \/ Deleted /\ NoFault
     \/ ~Deleted /\ Fault("patch")

(* The places where UpdateStatus is the reconcile's last act.               *)
ReturnLabel == {"U_invalid", "U_skip", "U_setup", "U_created", "U_jobs", "U_started",
                "U_teardown", "U_stopped", "U_abort", "U_finished"}
RequeueOnUpdate == {"U_jobs", "U_started", "U_abort", "U_finished"}

UpdateAndReturn ==
  /\ pc \in ReturnLabel
  /\ \/ UpdatePatched /\ Return(pc \in RequeueOnUpdate)
     \/ UpdateSkipped /\ Return(pc = "U_finished")
     \/ UpdateFailed  /\ Return(TRUE)
  /\ UNCHANGED <<spec, cluster, cloudk6>>
-----------------------------------------------------------------------------
(* Reconcile: fetch the TestRun; for a cloud test run make a client and ask *)
(* the cloud whether the run was aborted; then act on the stage.            *)

Reconcile ==
  /\ pc = "idle" /\ queued /\ queued' = FALSE
  /\ IF watch = <<>> THEN NoFault ELSE Fault("stale")
  /\ IF cache.stage = "gone" THEN UNCHANGED <<pc, k6>>
     ELSE k6' = cache /\ pc' = IF IsCloudTestRun(cache) THEN "CreateClient" ELSE "Stage"
  /\ UNCHANGED <<spec, store, client, cluster, cloudk6>>

CreateClient ==
  /\ pc = "CreateClient"
  /\ \/ /\ Fault("token")
        /\ Return(TRUE)
     \/ /\ client' = TRUE
        /\ UNCHANGED <<k6, queued>>
        /\ LET ask == Denied(k6, "CloudTestRunAborted") /\ TestRunID(k6) # 0
           IN  \/ ask /\ Fault("state") /\ pc' = "Stage"
               \/ /\ pc' = IF ask /\ AbortedRun(TestRunID(k6)) THEN "StopJobs" ELSE "Stage"
                  /\ NoFault
  /\ UNCHANGED <<spec, store, cluster, cloudk6>>

(* The run is stopped and aborted, as soon as there is a stopper.           *)
MarkAborted ==
  GotoQueued("U_abort",
    Stamp(Stamp([k6 EXCEPT !.stage = "stopped"], "TestRunRunning", "False", Now),
          "CloudTestRunAborted", "True", Now))

StopJobsFailed_Ignored == MarkAborted

StopJobsFailed == Return(FALSE)

(* StopJobs: a stopper job for the services there are. Listing them or      *)
(* creating the job may fail: logged, and the reconcile is not repeated.    *)
StopJobs ==
  /\ pc = "StopJobs"
  /\ \/ /\ Fault("list") \/ Fault("create")
        /\ StopJobsFailed
        /\ UNCHANGED stopper
     \/ /\ \E listed \in SUBSET svc :
             ListServices(listed) /\ stopper' = CreateCurlJob(stopper, listed)
        /\ MarkAborted
  /\ UNCHANGED <<spec, store, init, pod, svc, starter, setup, cloudk6>>
-----------------------------------------------------------------------------
(* Stage "": validation, the initial conditions, then the first stage; the  *)
(* initializer job is created after the stage is stored.                    *)

AtStage(stage) == pc = "Stage" /\ k6.stage = stage

StartTestRun ==
  /\ AtStage("")
  /\ IF spec.valid THEN Goto("U_conditions", Initialize(k6, spec.id, Now))
                   ELSE Goto("U_invalid", [k6 EXCEPT !.stage = "error"])
  /\ UNCHANGED <<spec, store, cluster, cloudk6, faults>>

FirstStage(obj) ==
  IF spec.cloudOut \/ spec.initializer
  THEN Goto("U_initialization", [obj EXCEPT !.stage = "initialization"])
  ELSE Goto("U_skip", [obj EXCEPT !.stage = "initialized"])

UpdateConditions ==
  /\ pc = "U_conditions"
  /\ \/ UpdatePatched /\ FirstStage(Patched)
     \/ UpdateSkipped /\ FirstStage(Refetched)
     \/ UpdateFailed  /\ Return(TRUE)
  /\ UNCHANGED <<spec, cluster, cloudk6>>

UpdateInitialization ==
  /\ pc = "U_initialization"
  /\ \/ UpdatePatched /\ Goto("InitializeJobs", Patched)
     \/ UpdateSkipped /\ Return(FALSE)
     \/ UpdateFailed  /\ Return(TRUE)
  /\ UNCHANGED <<spec, cluster, cloudk6>>

(* Creating the initializer fails when there is one already.                *)
InitializeJobs ==
  /\ pc = "InitializeJobs"
  /\ \/ Fault("create") /\ UNCHANGED init
     \/ NoFault /\ init' = IF init = "none" /\ ~Deleted THEN "created" ELSE init
  /\ Return(TRUE)
  /\ UNCHANGED <<spec, store, pod, svc, starter, stopper, setup, cloudk6>>
-----------------------------------------------------------------------------
(* Stage "initialization": the output of the initializer is inspected.      *)
(* late stands for a wait that is over: five minutes here.                  *)

(* Without a result the reconcile ends; when it is late a cloud test run is *)
(* aborted. A client that was not made in this reconcile is nil: a panic,   *)
(* which the controller runtime turns into an error.                        *)
NotReady_Silent(obj, requeue, late) == UNCHANGED events /\ Return(requeue)

NotReady(obj, requeue, late) ==
  LET tell == late /\ IsCloudTestRun(obj)
  IN  /\ SendAbortIf(tell /\ client, TestRunID(obj))
      /\ Return(requeue \/ (tell /\ ~client))

RunValidations(late) ==
  /\ AtStage("initialization")
  /\ \/ /\ \/ init = "failed" /\ NoFault
           \/ Fault("inspect")
        /\ IF Holds(k6, "CloudPLZTestRun")
           THEN SendAbort(TestRunID(k6)) /\ Return(TRUE)  \* twice when late
           ELSE Goto("U_inspect", [k6 EXCEPT !.stage = "error"]) /\ UNCHANGED events
     \/ /\ init \in {"none", "created"} /\ NoFault
        /\ NotReady(k6, TRUE, late)
     \/ /\ init = "succeeded" /\ NoFault
        /\ UNCHANGED events
        /\ IF ~spec.enoughVUs
           THEN Goto("U_inspect", [k6 EXCEPT !.stage = "error"])
           ELSE IF ~spec.cloudOut
           THEN Goto("U_validated", Stamp(k6, "CloudTestRun", "False", Now))
           ELSE LET typed   == Stamp(k6, "CloudTestRun", "True", Now)
                    created == IF IsUnknown(k6.conds, "CloudTestRunCreated")
                               THEN Stamp(typed, "CloudTestRunCreated", "False", Now)
                               ELSE typed
                IN  Goto("U_validated", Stamp(created, "CloudTestRunFinalized", "False", Now))
  /\ UNCHANGED <<spec, store, cluster, cloud, runs>>

UpdateInspect(late) ==
  /\ pc = "U_inspect"
  /\ \/ UpdatePatched /\ NotReady(Patched, FALSE, late)
     \/ UpdateSkipped /\ NotReady(Refetched, FALSE, late)
     \/ UpdateFailed  /\ NotReady(Merged, TRUE, late)
  /\ UNCHANGED <<spec, cluster, cloud, runs>>

(* With CloudTestRun known, a non-cloud test run is initialized and a cloud *)
(* one first needs a test run at the k6 Cloud.                              *)
CloudStep_Always(obj) == Goto("SetupCloudTest", obj)

CloudStep(obj) ==
  IF Denied(obj, "CloudTestRunCreated") THEN Goto("SetupCloudTest", obj)
  ELSE Goto("U_setup", [obj EXCEPT !.stage = "initialized"])

AfterValidation(obj) ==
  IF Denied(obj, "CloudTestRun") THEN Goto("U_initialized", [obj EXCEPT !.stage = "initialized"])
  ELSE IF Holds(obj, "CloudTestRun") THEN CloudStep(obj)
  ELSE Return(FALSE)

UpdateValidated(late) ==
  /\ pc = "U_validated"
  /\ \/ UpdatePatched /\ AfterValidation(Patched) /\ UNCHANGED events
     \/ UpdateSkipped /\ AfterValidation(Refetched) /\ UNCHANGED events
     \/ UpdateFailed  /\ NotReady(Merged, TRUE, late)
  /\ UNCHANGED <<spec, cluster, cloud, runs>>

UpdateInitialized ==
  /\ pc = "U_initialized"
  /\ \/ UpdatePatched /\ Return(FALSE)
     \/ /\ UpdateSkipped
        /\ IF Holds(Refetched, "CloudTestRun") THEN CloudStep(Refetched) ELSE Return(FALSE)
     \/ UpdateFailed /\ Return(TRUE)
  /\ UNCHANGED <<spec, cluster, cloudk6>>

(* cloud.CreateTestRun: a new test run at the k6 Cloud.                     *)
CreateTestRun ==
  /\ runs < MaxRuns /\ runs' = runs + 1
  /\ cloud' = [cloud EXCEPT ![runs + 1] = "live"]
  /\ UNCHANGED events

(* SetupCloudTest: not sooner than 5s after CloudTestRunCreated was set to  *)
(* False (late), a test run is created at the k6 Cloud.                     *)
SetupCloudTest(late) ==
  /\ pc = "SetupCloudTest"
  /\ \/ /\ Fault("inspect")
        /\ Return(FALSE)
        /\ UNCHANGED cloudk6
     \/ /\ ~late /\ NoFault
        /\ Return(TRUE)
        /\ UNCHANGED cloudk6
     \/ /\ late
        /\ \/ ~client /\ NoFault
           \/ Fault("createrun")
        /\ Return(TRUE)
        /\ UNCHANGED cloudk6
     \/ /\ late /\ client /\ Fault("lost")
        /\ CreateTestRun
        /\ Return(TRUE)
     \/ /\ late /\ client /\ NoFault
        /\ CreateTestRun
        /\ Goto("U_created", Stamp([k6 EXCEPT !.id = runs + 1], "CloudTestRunCreated", "True", Now))
  /\ UNCHANGED <<spec, store, cluster>>
-----------------------------------------------------------------------------
(* Stage "initialized": CreateJobs creates a job and a service for every    *)
(* runner, in the order of their indices.                                   *)

(* The runners n jobs and m services of which are created, m <= n <= m + 1. *)
Launched_FromZero(n, m) ==
  /\ pod' = [r \in Runner |-> IF r <= n /\ ~Deleted THEN "created" ELSE pod[r]]
  /\ svc' = svc \cup {r \in 0 .. N : r <= m /\ ~Deleted}
  /\ UNCHANGED <<init, starter, stopper, setup>>

Launched_NoLastService(n, m) ==
  /\ pod' = [r \in Runner |-> IF r <= n /\ ~Deleted THEN "created" ELSE pod[r]]
  /\ svc' = svc \cup {r \in Runner : r < m /\ ~Deleted}
  /\ UNCHANGED <<init, starter, stopper, setup>>

Launched(n, m) ==
  /\ pod' = [r \in Runner |-> IF r <= n /\ ~Deleted THEN "created" ELSE pod[r]]
  /\ svc' = svc \cup {r \in Runner : r <= m /\ ~Deleted}
  /\ UNCHANGED <<init, starter, stopper, setup>>

(* An error, AlreadyExists included, aborts a cloud test run.               *)
CreateJobsFailed_Ignored ==
  Goto("U_jobs", [k6 EXCEPT !.stage = "created"]) /\ UNCHANGED events

CreateJobsFailed ==
  SendAbortIf(Holds(k6, "CloudTestRun"), TestRunID(k6)) /\ Return(TRUE)

CreateJobs(late) ==
  /\ AtStage("initialized")
  /\ \/ /\ Holds(k6, "CloudTestRun") /\ Holds(k6, "CloudTestRunCreated")
        /\ Fault("token")
        /\ \E notFoundYet \in BOOLEAN : Return(notFoundYet)
        /\ UNCHANGED <<cluster, events>>
     \/ /\ \/ Exists(1) /\ NoFault
           \/ Fault("list")
        /\ IF IsUnknown(k6.conds, "CloudTestRun") \/ ~late
           THEN Return(TRUE) /\ UNCHANGED events
           ELSE CreateJobsFailed
        /\ UNCHANGED cluster
     \/ /\ Exists(1) /\ Fault("lag")
        /\ CreateJobsFailed
        /\ UNCHANGED cluster
     \/ /\ \A r \in Runner : ~Exists(r)
        /\ \/ /\ NoFault
              /\ Launched(N, N)
              /\ GotoQueued("U_jobs", [k6 EXCEPT !.stage = "created"])
              /\ UNCHANGED events
           \/ /\ \E m \in 0 .. N - 1, n \in 0 .. N : n \in {m, m + 1} /\ Launched(n, m)
              /\ \/ Fault("create") /\ CreateJobsFailed
                 \/ Fault("crash") /\ Return(TRUE) /\ UNCHANGED events
  /\ UNCHANGED <<spec, store, cloud, runs>>
-----------------------------------------------------------------------------
(* Stage "created": StartJobs waits until all pods run and their services   *)
(* answer, runs setup() for a PLZ test run and creates the starter job.     *)

(* hostnames, with abortOnUnready: every service that was listed is probed, *)
(* and one that does not answer is an error; one not listed is not probed.  *)
AllReady(listed) == \A r \in listed : IsServiceReady(r)

(* runSetup: setup() on the first runner, its data to all that were listed. *)
RunSetup_FirstOnly(listed) ==
  setup' = IF Holds(k6, "CloudPLZTestRun")
           THEN setup \cup {r \in listed : \A s \in listed : r <= s} ELSE setup

RunSetup(listed) ==
  setup' = IF Holds(k6, "CloudPLZTestRun") THEN setup \cup listed ELSE setup

StartJobs(late) ==
  /\ AtStage("created")
  /\ \/ /\ Fault("list")
        /\ Return(TRUE)
        /\ UNCHANGED <<starter, setup, events>>
     \/ /\ \E r \in Runner : ~Up(r)
        /\ SendAbortIf(late /\ Holds(k6, "CloudTestRun"), TestRunID(k6))
        /\ Return(TRUE) /\ NoFault
        /\ UNCHANGED <<starter, setup>>
     \/ /\ \A r \in Runner : Up(r)
        /\ \/ \E listed \in SUBSET svc : ListServices(listed) /\ ~AllReady(listed)
           \/ svc # {} /\ Fault("net")  \* the request to one that is ready fails
        /\ Return(TRUE)
        /\ UNCHANGED <<starter, setup, events>>
     \/ /\ \A r \in Runner : Up(r)
        /\ AllReady(svc)
        /\ Holds(k6, "CloudPLZTestRun") /\ Fault("setup")
        /\ \/ Return(TRUE) /\ UNCHANGED <<setup, events>>
           \/ /\ \E sent \in SUBSET svc : setup' = setup \cup sent  \* not to all of them
              /\ Return(FALSE) /\ SendAbort(TestRunID(k6))
        /\ UNCHANGED starter
     \/ /\ \A r \in Runner : Up(r)
        /\ \E listed \in SUBSET svc :
             /\ ListServices(listed) /\ AllReady(listed)
             /\ Holds(k6, "CloudPLZTestRun") => listed # {}  \* else setup() panics: retried
             /\ RunSetup(listed)
             /\ starter' = CreateCurlJob(starter, listed)
        /\ GotoQueued("U_started",
             Stamp([k6 EXCEPT !.stage = "started"], "TestRunRunning", "True", Now))
        /\ UNCHANGED events
     \/ /\ \A r \in Runner : Up(r)
        /\ AllReady(svc)
        /\ RunSetup(svc)
        /\ Fault("create")
        /\ Return(TRUE)
        /\ UNCHANGED <<starter, events>>
  /\ UNCHANGED <<spec, store, init, pod, svc, stopper, cloud, runs>>
-----------------------------------------------------------------------------
(* Stage "started": wait for the runners to finish.                         *)

(* FinishJobs: jobs without active pods. A job whose status is not in the   *)
(* cache yet ("lag") shows none.                                            *)
FinishedJobs_NotRunning == {r \in Runner : pod[r] # "running"}

FinishedJobs == {r \in Runner : pod[r] \in {"exited", "failed"}}
FailedJobs   == {r \in Runner : pod[r] = "failed"}

(* StoppedJobs: no service whose runner says that it is running. A runner   *)
(* that cannot be reached ("net") counts as stopped.                        *)
StoppedJobs(unreachable) ==
  \A r \in svc \ unreachable : pod[r] # "running"

MarkStopped_NoStage ==
  IF Holds(k6, "TestRunRunning")
  THEN Goto("U_stopped", Stamp(k6, "TestRunRunning", "False", Now))
  ELSE Return(FALSE)

MarkStopped ==
  IF Holds(k6, "TestRunRunning")
  THEN Goto("U_stopped", Stamp([k6 EXCEPT !.stage = "stopped"], "TestRunRunning", "False", Now))
  ELSE Return(FALSE)

(* The reconcile comes back in 15s.                                         *)
KeepWaiting == Return(TRUE)

RunTeardown == Goto("U_teardown", Stamp(k6, "TeardownExecuted", "True", Now))

(* late: 30s after the runners were started.                                *)
StartedPLZ(late) ==
  /\ UNCHANGED events
  /\ IF Denied(k6, "TeardownExecuted")
     THEN \/ /\ NoFault
             /\ IF late /\ StoppedJobs({}) THEN RunTeardown ELSE KeepWaiting
          \/ /\ late /\ Fault("net")
             /\ \E unreachable \in SUBSET svc :
                  IF StoppedJobs(unreachable) THEN RunTeardown ELSE KeepWaiting
          \/ /\ late /\ Fault("list")
             /\ \/ KeepWaiting                          \* the services, for StoppedJobs
                \/ StoppedJobs({}) /\ Return(FALSE)     \* the services, for hostnames
     ELSE MarkStopped /\ NoFault

StartedOther ==
  \/ /\ Fault("list")
     /\ KeepWaiting
     /\ UNCHANGED events
  \/ /\ NoFault
     /\ SendAbortIf(Holds(k6, "CloudTestRun") /\ FailedJobs # {}, TestRunID(k6))
     /\ IF FinishedJobs = Runner THEN MarkStopped
        ELSE IF /\ Holds(k6, "CloudTestRun") /\ Denied(k6, "CloudTestRunAborted")
                /\ AbortedRun(TestRunID(k6))
        THEN Goto("StopJobs", k6)
        ELSE KeepWaiting
  \/ /\ Holds(k6, "CloudTestRun") /\ Denied(k6, "CloudTestRunAborted")
     /\ FinishedJobs # Runner /\ Fault("state")  \* ShouldAbort
     /\ SendAbortIf(FailedJobs # {}, TestRunID(k6))
     /\ KeepWaiting
  \/ /\ Fault("lag") /\ \A r \in Runner : Exists(r)
     /\ MarkStopped
     /\ UNCHANGED events

Started(late) ==
  /\ AtStage("started")
  /\ IF \/ Holds(k6, "CloudTestRun") /\ Holds(k6, "CloudTestRunFinalized")
        \/ Holds(k6, "CloudTestRunAborted")
     THEN Return(FALSE) /\ UNCHANGED events /\ NoFault
     ELSE IF Holds(k6, "CloudPLZTestRun") THEN StartedPLZ(late) ELSE StartedOther
  /\ UNCHANGED <<spec, store, cluster, cloud, runs>>
-----------------------------------------------------------------------------
(* Stage "stopped": the jobs of an aborted PLZ test run are killed when no  *)
(* runner runs; then the run is finalized whether they were or not.         *)

(* KillJobs: it reports all jobs deleted even when a deletion failed.       *)
KillJobs(kept) ==
  /\ pod' = [r \in Runner |-> IF r \in kept THEN pod[r] ELSE "none"]
  /\ GotoQueued("U_killed", Stamp(k6, "CloudTestRunAborted", "True", Now))

Stopped ==
  /\ AtStage("stopped")
  /\ IF Holds(k6, "CloudPLZTestRun") /\ Holds(k6, "CloudTestRunAborted")
     THEN \/ NoFault /\ StoppedJobs({}) /\ KillJobs({})
          \/ NoFault /\ ~StoppedJobs({}) /\ Goto("Finalize", k6) /\ UNCHANGED pod
          \/ Fault("net") /\ \E unreachable \in SUBSET svc : StoppedJobs(unreachable) /\ KillJobs({})
          \/ /\ Fault("list") /\ UNCHANGED pod
             /\ \/ Goto("Finalize", k6)                \* the services, for StoppedJobs
                \/ StoppedJobs({}) /\ Return(TRUE)     \* the jobs, for KillJobs
          \/ /\ Fault("delete") /\ StoppedJobs({})
             /\ \E kept \in SUBSET {r \in Runner : Exists(r)} : KillJobs(kept)
     ELSE Goto("Finalize", k6) /\ UNCHANGED pod /\ NoFault
  /\ UNCHANGED <<spec, store, init, svc, starter, stopper, setup, cloudk6>>

UpdateKilled ==
  /\ pc = "U_killed"
  /\ \/ UpdatePatched /\ Goto("Finalize", Patched)
     \/ UpdateSkipped /\ Goto("Finalize", Refetched)
     \/ UpdateFailed  /\ Return(TRUE)
  /\ UNCHANGED <<spec, cluster, cloudk6>>

FinishTestRun_NoCall(id) == UNCHANGED cloud

FinishTestRun(id) ==
  cloud' = [i \in RunID |-> IF i = id /\ cloud[i] = "live" THEN "finished" ELSE cloud[i]]

(* late: 5s after TestRunRunning was set to False.                          *)
Finalize(late) ==
  /\ pc = "Finalize"
  /\ IF Holds(k6, "CloudTestRun") /\ Denied(k6, "CloudTestRunFinalized")
     THEN \/ /\ ~late /\ NoFault
             /\ Return(TRUE)
             /\ UNCHANGED cloud
          \/ /\ late /\ Fault("finish")
             /\ Return(FALSE)
             /\ UNCHANGED cloud
          \/ /\ late /\ NoFault
             /\ FinishTestRun(k6.id)
             /\ Goto("U_finished", Stamp([k6 EXCEPT !.stage = "finished"],
                                         "CloudTestRunFinalized", "True", Now))
     ELSE Goto("U_finished", [k6 EXCEPT !.stage = "finished"]) /\ UNCHANGED cloud /\ NoFault
  /\ UNCHANGED <<spec, store, cluster, runs, events>>

(* Stages "error" and "finished": an error of the deletion is ignored.      *)
CleanUp ==
  /\ pc = "Stage" /\ k6.stage \in {"error", "finished"}
  /\ Return(FALSE)
  /\ \/ spec.cleanup /\ ~Deleted /\ NoFault /\ DeleteTestRun
     \/ spec.cleanup /\ ~Deleted /\ Fault("delete") /\ UNCHANGED <<store, cluster>>
     \/ (~spec.cleanup \/ Deleted) /\ NoFault /\ UNCHANGED <<store, cluster>>
  /\ UNCHANGED <<spec, cloudk6>>
-----------------------------------------------------------------------------
(* The world around the reconciler. Changes of the TestRun, of owned jobs   *)
(* and of runner pods put the TestRun into the work queue.                  *)

CacheSync ==
  /\ watch # <<>>
  /\ cache' = Head(watch) /\ watch' = Tail(watch)
  /\ queued' = TRUE
  /\ UNCHANGED <<spec, api, clock, pc, k6, client, cluster, cloudk6, faults>>

(* The operator process ends and starts again: its memory is lost, its      *)
(* cache is filled anew and every TestRun is queued.                        *)
Restart ==
  /\ pc # "idle" /\ Fault("crash")
  /\ pc' = "idle" /\ k6' = Gone /\ client' = FALSE /\ queued' = TRUE
  /\ cache' = api /\ watch' = <<>>
  /\ UNCHANGED <<spec, api, clock, cluster, cloudk6>>

(* The informers deliver every object again from time to time.              *)
Resync ==
  /\ pc = "idle" /\ ~queued /\ cache.stage # "gone"
  /\ queued' = TRUE
  /\ UNCHANGED <<spec, store, pc, k6, client, cluster, cloudk6, faults>>

InitializerEnds ==
  /\ init = "created"
  /\ \/ init' = "succeeded" /\ NoFault
     \/ init' = "failed" /\ Fault("initfail")
  /\ queued' = TRUE
  /\ UNCHANGED <<spec, store, pc, k6, client, pod, svc, starter, stopper, setup, cloudk6>>

SetPod(r, state) ==
  /\ pod' = [pod EXCEPT ![r] = state]
  /\ queued' = TRUE
  /\ UNCHANGED <<spec, store, pc, k6, client, init, svc, setup, cloudk6>>

PodStarts(r) ==
  pod[r] = "created" /\ SetPod(r, "booting") /\ UNCHANGED <<starter, stopper, faults>>

(* k6 serves its REST API, and the readiness probe makes the pod ready.     *)
PodServes(r) ==
  /\ pod[r] = "booting" /\ SetPod(r, IF spec.paused THEN "paused" ELSE "running")
  /\ UNCHANGED <<starter, stopper, faults>>

(* A PLZ runner is started with --linger.                                   *)
OverState == IF spec.id # 0 THEN "ended" ELSE "exited"

TestEnds(r) == pod[r] = "running" /\ SetPod(r, OverState) /\ UNCHANGED <<starter, stopper, faults>>

PodFails(r) ==
  /\ pod[r] \in {"created", "booting", "paused", "running"} /\ Fault("podfail")
  /\ SetPod(r, "failed") /\ UNCHANGED <<starter, stopper>>

(* The starter and stopper jobs send one request to each of their hosts,    *)
(* which is lost when the runner does not serve it then.                    *)
Resume(r) ==
  /\ r \in starter.todo
  /\ starter' = [starter EXCEPT !.todo = @ \ {r}]
  /\ SetPod(r, IF pod[r] = "paused" THEN "running" ELSE pod[r])
  /\ UNCHANGED <<stopper, faults>>

Stop(r) ==
  /\ r \in stopper.todo
  /\ stopper' = [stopper EXCEPT !.todo = @ \ {r}]
  /\ SetPod(r, IF pod[r] \in {"paused", "running"} THEN OverState ELSE pod[r])
  /\ UNCHANGED <<starter, faults>>

(* The test run is aborted at the k6 Cloud: by its user, or by a timeout.   *)
CloudAborts ==
  /\ Fault("abort")
  /\ \E i \in RunID : cloud[i] = "live" /\ cloud' = [cloud EXCEPT ![i] = "aborted"]
  /\ UNCHANGED <<spec, store, operator, cluster, runs, events>>

(* The abort event reaches the k6 Cloud, which aborts the run, or it fails. *)
EventArrives(i) ==
  /\ i \in events /\ events' = events \ {i}
  /\ \/ cloud' = [cloud EXCEPT ![i] = IF @ = "live" THEN "aborted" ELSE @] /\ NoFault
     \/ Fault("event") /\ UNCHANGED cloud
  /\ UNCHANGED <<spec, store, operator, cluster, runs>>

UserDeletes ==
  /\ ~Deleted /\ Fault("userdelete")
  /\ DeleteTestRun
  /\ UNCHANGED <<spec, operator, cloudk6>>
-----------------------------------------------------------------------------
Operator(late) ==
  /\ events = {}
  /\ \/ Reconcile \/ CreateClient \/ StopJobs
     \/ StartTestRun \/ UpdateConditions \/ UpdateInitialization \/ InitializeJobs
     \/ RunValidations(late) \/ UpdateInspect(late) \/ UpdateValidated(late) \/ UpdateInitialized
     \/ SetupCloudTest(late) \/ CreateJobs(late) \/ StartJobs(late) \/ Started(late)
     \/ Stopped \/ UpdateKilled \/ Finalize(late) \/ CleanUp \/ UpdateAndReturn

Runners ==
  \E r \in Runner : \/ PodStarts(r) \/ PodServes(r) \/ TestEnds(r) \/ PodFails(r)
                     \/ Resume(r) \/ Stop(r)

Events == \E i \in RunID : EventArrives(i)

Next ==
  \/ \E late \in BOOLEAN : Operator(late)
  \/ CacheSync \/ Restart \/ Resync
  \/ InitializerEnds \/ Runners \/ Events \/ CloudAborts \/ UserDeletes

Spec == Init /\ [][Next]_vars
(* Fairness: a queued reconcile is run and ends; its waits are over at some *)
(* time; the cache catches up; the initializer, the runner pods and the     *)
(* starter and stopper jobs make progress and the tests end; calls to the   *)
(* k6 Cloud are answered or fail.                                           *)
Fairness ==
  /\ WF_vars(\E late \in BOOLEAN : Operator(late))
  /\ SF_vars(RunValidations(TRUE)) /\ SF_vars(SetupCloudTest(TRUE))
  /\ SF_vars(CreateJobs(TRUE)) /\ SF_vars(StartJobs(TRUE))
  /\ SF_vars(Started(TRUE)) /\ SF_vars(Finalize(TRUE))
  /\ WF_vars(CacheSync) /\ WF_vars(InitializerEnds)
  /\ \A r \in Runner : /\ WF_vars(PodStarts(r)) /\ WF_vars(PodServes(r)) /\ WF_vars(TestEnds(r))
                       /\ WF_vars(Resume(r)) /\ WF_vars(Stop(r))
  /\ \A i \in RunID : WF_vars(EventArrives(i))

FairSpec == Spec /\ Fairness

(* The same with the informers' periodic resync (every ten hours).          *)
ResyncSpec == FairSpec /\ WF_vars(Resync)
=============================================================================
