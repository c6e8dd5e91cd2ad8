----------------------------- MODULE TestRunTypes -----------------------------
(***************************************************************************)
(* Type correctness of the TestRun controller, for every parallelism, set  *)
(* of specs, set of faults and bounds.                                     *)
(***************************************************************************)
EXTENDS TestRunProperties, TLAPS

CondList == [CondType -> Condition]

(* Setting a condition (UpdateCondition) gives a TestRun status.            *)
LEMMA StampType ==
  ASSUME NEW tr \in TestRun, NEW type \in CondType, NEW status \in Status, NEW now \in Nat
  PROVE  Stamp(tr, type, status, now) \in TestRun
  BY DEF Stamp, UpdateCondition, SetStatusCondition, TestRun, Condition

(* Setting the stage gives a TestRun status.                                *)
LEMMA StageType ==
  ASSUME NEW tr \in TestRun, NEW stage \in Stage
  PROVE  [tr EXCEPT !.stage = stage] \in TestRun
  BY DEF TestRun

(* The deleted and the newly created TestRun are TestRun statuses.          *)
LEMMA GoneType == Gone \in TestRun /\ NewTestRun \in TestRun
  BY DEF Gone, NewTestRun, NoConditions, NoCondition, TestRun, Condition, Status, Stage

(* The empty sequence is a sequence of versions.                            *)
LEMMA NoVersions == <<>> \in Seq(TestRun)
  BY SMT

(* Initialize gives a TestRun status.                                       *)
LEMMA InitializeType ==
  ASSUME NEW tr \in TestRun, NEW id \in Nat, NEW now \in Nat
  PROVE  Initialize(tr, id, now) \in TestRun
<1>1. \A type \in CondType : InitialStatus(type, id # 0) \in Status
  BY DEF InitialStatus, CondType, Status
<1>2. NoCondition \in Condition
  BY DEF NoCondition, Condition, Status
<1> QED
  BY <1>1, <1>2 DEF Initialize, TestRun, Condition

(* SetIfNewer of pkg/types turns two lists of conditions into one.          *)
LEMMA MergedConditionsType ==
  ASSUME NEW conds \in CondList, NEW proposed \in CondList
  PROVE  MergedConditions(conds, proposed) \in CondList
  BY DEF MergedConditions, CondList

(* Merging a proposed status into a fetched one gives a status.             *)
LEMMA SetIfNewerType ==
  ASSUME NEW old \in TestRun, NEW new \in TestRun
  PROVE  SetIfNewer(old, new) \in TestRun
  BY MergedConditionsType DEF SetIfNewer, TestRun, CondList

(* Applying a merge patch to the stored status gives a status.              *)
LEMMA MergePatchType ==
  ASSUME NEW stored \in TestRun, NEW clean \in TestRun, NEW obj \in TestRun
  PROVE  MergePatch(stored, clean, obj) \in TestRun
  BY DEF MergePatch, TestRun
-----------------------------------------------------------------------------
(* What the pieces that the actions are made of leave behind. *)

(* spec.testRunId names a test run the cloud can have created.              *)
LEMMA SpecIDType == spec \in Specs => spec.id \in Nat /\ spec.id \in 0 .. MaxRuns
  BY ControllerAssumption DEF SpecType

(* A fault is counted within the bound.                                     *)
LEMMA SomeFault ==
  ASSUME FaultsOK, faults < MaxFaults, faults' = faults + 1
  PROVE  FaultsOK'
  BY ControllerAssumption DEF FaultsOK

(* A step without a fault leaves the count alone.                           *)
LEMMA NoFaultType ==
  ASSUME FaultsOK, UNCHANGED faults
  PROVE  FaultsOK'
  BY DEF FaultsOK

(* A step that leaves the TestRun's copies alone keeps their types.         *)
LEMMA StoreUnchanged ==
  ASSUME StoreOK, UNCHANGED store
  PROVE  StoreOK'
  BY DEF StoreOK, store

(* A step that leaves the cluster alone keeps its types.                    *)
LEMMA ClusterUnchanged ==
  ASSUME ClusterOK, UNCHANGED cluster
  PROVE  ClusterOK'
  BY DEF ClusterOK, cluster

(* A step that leaves the k6 Cloud alone keeps its types.                   *)
LEMMA CloudUnchanged ==
  ASSUME CloudOK, UNCHANGED cloudk6
  PROVE  CloudOK'
  BY DEF CloudOK, cloudk6

(* A step that leaves the reconcile alone keeps its types.                  *)
LEMMA OperatorUnchanged ==
  ASSUME OperatorOK, UNCHANGED operator
  PROVE  OperatorOK'
  BY DEF OperatorOK, operator

(* The end of a reconcile keeps the operator's types.                       *)
LEMMA ReturnType ==
  ASSUME OperatorOK, NEW requeue, Return(requeue)
  PROVE  OperatorOK'
<1>1. queued' \in BOOLEAN
  BY Zenon DEF Return
<1> QED
  BY <1>1, GoneType DEF OperatorOK, Return, Label

(* Passing a TestRun on to the next step of a reconcile keeps the operator's types.*)
LEMMA GotoType ==
  ASSUME OperatorOK, NEW label \in Label, NEW obj \in TestRun,
         Goto(label, obj) \/ GotoQueued(label, obj)
  PROVE  OperatorOK'
  BY DEF OperatorOK, Goto, GotoQueued

(* Sending an abort event keeps the cloud's types.                          *)
LEMMA SendAbortType ==
  ASSUME CloudOK, NEW cond, NEW id,
         SendAbort(id) \/ SendAbortIf(cond, id) \/ UNCHANGED events, UNCHANGED <<cloud, runs>>
  PROVE  CloudOK'
  BY DEF CloudOK, SendAbort, SendAbortIf

(* CreateCurlJob gives a starter or stopper job for the hosts that were listed.*)
LEMMA CurlJobType ==
  ASSUME NEW job \in CurlJob, NEW hosts \in SUBSET Runner
  PROVE  CreateCurlJob(job, hosts) \in CurlJob
  BY DEF CreateCurlJob, CurlJob

(* No job is a value of its type.                                           *)
LEMMA NoCurlJobType == NoCurlJob \in CurlJob
  BY DEF NoCurlJob, CurlJob

(* Deletion and garbage collection keep the types of store and cluster.     *)
LEMMA DeleteType ==
  ASSUME StoreOK, ClusterOK, DeleteTestRun
  PROVE  StoreOK' /\ ClusterOK'
  BY GoneType, NoCurlJobType DEF StoreOK, ClusterOK, DeleteTestRun, InitState, PodState

(* All that UpdateStatus computes are TestRun statuses.                     *)
LEMMA UpdateTypes ==
  ASSUME StoreOK, OperatorOK
  PROVE  Merged \in TestRun /\ Patched \in TestRun /\ Refetched \in TestRun
  BY SetIfNewerType, MergePatchType DEF Merged, Patched, Refetched, StoreOK, OperatorOK

(* The three outcomes of UpdateStatus keep the store's types.               *)
LEMMA UpdateStore ==
  ASSUME StoreOK, OperatorOK, FaultsOK, UpdatePatched \/ UpdateSkipped \/ UpdateFailed
  PROVE  StoreOK' /\ FaultsOK'
<1>1. CASE UpdatePatched
  <2>1. StoreOK'
    BY <1>1, UpdateTypes DEF UpdatePatched, StoreOK, Now
  <2> QED
    BY <1>1, <2>1, NoFaultType DEF UpdatePatched, NoFault
<1>2. CASE UpdateSkipped
  BY <1>2, StoreUnchanged, NoFaultType DEF UpdateSkipped, NoFault
<1>3. CASE UpdateFailed
  BY <1>3, StoreUnchanged, NoFaultType, SomeFault DEF UpdateFailed, NoFault, Fault
<1> QED
  BY <1>1, <1>2, <1>3
-----------------------------------------------------------------------------
(* One lemma per part of the reconciler. *)

(* The actions that end in UpdateStatus keep the types.                     *)
LEMMA UpdateActionsType ==
  ASSUME TypeOK, NEW late \in BOOLEAN,
         \/ UpdateAndReturn \/ UpdateConditions \/ UpdateInitialization \/ UpdateInspect(late)
         \/ UpdateValidated(late) \/ UpdateInitialized \/ UpdateKilled
  PROVE  TypeOK'
<1> USE DEF TypeOK
<1>1. StoreOK' /\ FaultsOK'
  BY UpdateStore DEF UpdateAndReturn, UpdateConditions, UpdateInitialization, UpdateInspect,
     UpdateValidated, UpdateInitialized, UpdateKilled
<1>2. spec' \in Specs /\ ClusterOK'
  BY ClusterUnchanged DEF UpdateAndReturn, UpdateConditions, UpdateInitialization, UpdateInspect,
     UpdateValidated, UpdateInitialized, UpdateKilled
<1>3. CloudOK'
  BY CloudUnchanged, SendAbortType DEF UpdateAndReturn, UpdateConditions, UpdateInitialization,
     UpdateInspect, UpdateValidated, UpdateInitialized, UpdateKilled, NotReady, cloudk6
<1>4. OperatorOK'
  <2>1. Merged \in TestRun /\ Patched \in TestRun /\ Refetched \in TestRun
    BY UpdateTypes
  <2>2. ASSUME NEW obj \in TestRun, FirstStage(obj) \/ AfterValidation(obj) \/ CloudStep(obj)
        PROVE  OperatorOK'
    BY <2>2, GotoType, ReturnType, StageType
       DEF FirstStage, AfterValidation, CloudStep, Label, UpdateLabel, Stage
  <2>3. ASSUME NEW obj \in TestRun, Goto("InitializeJobs", obj) \/ Goto("Finalize", obj)
        PROVE  OperatorOK'
    BY <2>3, GotoType DEF Label
  <2>4. ASSUME NEW obj, NEW requeue, NotReady(obj, requeue, late)
        PROVE  OperatorOK'
    BY <2>4, ReturnType DEF NotReady
  <2>5. CASE UpdateAndReturn
    BY <2>5, ReturnType DEF UpdateAndReturn
  <2>6. CASE UpdateConditions
    BY <2>1, <2>2, <2>6, ReturnType DEF UpdateConditions
  <2>7. CASE UpdateInitialization
    BY <2>1, <2>3, <2>7, ReturnType DEF UpdateInitialization
  <2>8. CASE UpdateInspect(late)
    BY <2>4, <2>8 DEF UpdateInspect
  <2>9. CASE UpdateValidated(late)
    BY <2>1, <2>2, <2>4, <2>9 DEF UpdateValidated
  <2>10. CASE UpdateInitialized
    BY <2>1, <2>2, <2>10, ReturnType DEF UpdateInitialized
  <2>11. CASE UpdateKilled
    BY <2>1, <2>3, <2>11, ReturnType DEF UpdateKilled
  <2> QED
    BY <2>5, <2>6, <2>7, <2>8, <2>9, <2>10, <2>11
<1> QED
  BY <1>1, <1>2, <1>3, <1>4

(* The entry of a reconcile, client and abort check keep the types.         *)
LEMMA EntryType ==
  ASSUME TypeOK, Reconcile \/ CreateClient \/ StopJobs
  PROVE  TypeOK'
<1> USE DEF TypeOK
<1>1. CASE Reconcile
  <2>1. OperatorOK'
    BY <1>1 DEF Reconcile, OperatorOK, StoreOK, Label
  <2> QED
    BY <1>1, <2>1, StoreUnchanged, ClusterUnchanged, CloudUnchanged, NoFaultType, SomeFault
       DEF Reconcile, NoFault, Fault
<1>2. CASE CreateClient
  <2>1. CASE Return(TRUE)
    BY <1>2, <2>1, ReturnType, StoreUnchanged, ClusterUnchanged, CloudUnchanged, NoFaultType,
       SomeFault DEF CreateClient, NoFault, Fault
  <2>2. CASE client' = TRUE /\ UNCHANGED <<k6, queued>> /\ pc' \in {"Stage", "StopJobs"}
    <3>1. OperatorOK'
      BY <2>2 DEF OperatorOK, Label
    <3> QED
      BY <1>2, <3>1, StoreUnchanged, ClusterUnchanged, CloudUnchanged, NoFaultType, SomeFault
         DEF CreateClient, NoFault, Fault
  <2> QED
    BY <1>2, <2>1, <2>2 DEF CreateClient
<1>3. CASE StopJobs
  <2>1. FaultsOK' /\ ClusterOK'
    BY <1>3, NoFaultType, SomeFault, CurlJobType
       DEF StopJobs, ListServices, Fault, NoFault, ClusterOK
  <2>2. ASSUME MarkAborted
        PROVE  OperatorOK'
    <3> DEFINE stopped == [k6 EXCEPT !.stage = "stopped"]
               over    == Stamp(stopped, "TestRunRunning", "False", Now)
               aborted == Stamp(over, "CloudTestRunAborted", "True", Now)
    <3>1. Now \in Nat
      BY DEF Now, StoreOK
    <3>2. stopped \in TestRun
      BY StageType DEF OperatorOK, Stage
    <3>3. over \in TestRun
      BY <3>1, <3>2, StampType DEF CondType, Status
    <3>4. aborted \in TestRun
      BY <3>1, <3>3, StampType DEF CondType, Status
    <3> QED
      BY <2>2, <3>4, GotoType DEF MarkAborted, Label, UpdateLabel
  <2>3. OperatorOK'
    BY <1>3, <2>2, ReturnType DEF StopJobs, StopJobsFailed
  <2> QED
    BY <1>3, <2>1, <2>3, StoreUnchanged, CloudUnchanged DEF StopJobs
<1> QED
  BY <1>1, <1>2, <1>3

(* The actions of the stages "" and initialization keep the types.          *)
LEMMA InitializationType ==
  ASSUME TypeOK, NEW late \in BOOLEAN,
         StartTestRun \/ InitializeJobs \/ RunValidations(late) \/ SetupCloudTest(late)
  PROVE  TypeOK'
<1> USE DEF TypeOK
<1>0. Now \in Nat
  BY DEF Now, StoreOK
<1>1. CASE StartTestRun
  <2>1. Initialize(k6, spec.id, Now) \in TestRun /\ [k6 EXCEPT !.stage = "error"] \in TestRun
    BY <1>0, SpecIDType, InitializeType, StageType DEF OperatorOK, Stage
  <2>2. OperatorOK'
    BY <1>1, <2>1, GotoType DEF StartTestRun, Label, UpdateLabel
  <2> QED
    BY <1>1, <2>2, StoreUnchanged, ClusterUnchanged, CloudUnchanged, NoFaultType DEF StartTestRun
<1>2. CASE InitializeJobs
  <2>1. ClusterOK' /\ FaultsOK'
    BY <1>2, NoFaultType, SomeFault DEF InitializeJobs, ClusterOK, InitState, NoFault, Fault
  <2> QED
    BY <1>2, <2>1, ReturnType, StoreUnchanged, CloudUnchanged DEF InitializeJobs
<1>3. CASE RunValidations(late)
  <2>1. spec' \in Specs /\ StoreOK' /\ ClusterOK' /\ FaultsOK'
    BY <1>3, StoreUnchanged, ClusterUnchanged, NoFaultType, SomeFault
       DEF RunValidations, NoFault, Fault
  <2>2. CloudOK'
    BY <1>3, SendAbortType DEF RunValidations, NotReady
  <2>3. ASSUME NEW requeue, NotReady(k6, requeue, late)
        PROVE  OperatorOK'
    BY <2>3, ReturnType DEF NotReady
  <2> DEFINE typed   == Stamp(k6, "CloudTestRun", "True", Now)
             created == IF IsUnknown(k6.conds, "CloudTestRunCreated")
                        THEN Stamp(typed, "CloudTestRunCreated", "False", Now) ELSE typed
             failed  == [k6 EXCEPT !.stage = "error"]
  <2>4. failed \in TestRun
    BY StageType DEF OperatorOK, Stage
  <2>5. Stamp(k6, "CloudTestRun", "False", Now) \in TestRun /\ typed \in TestRun
    BY <1>0, StampType DEF OperatorOK, CondType, Status
  <2>6. created \in TestRun
    BY <1>0, <2>5, StampType DEF CondType, Status
  <2>7. Stamp(created, "CloudTestRunFinalized", "False", Now) \in TestRun
    BY <1>0, <2>6, StampType DEF CondType, Status
  <2>8. ASSUME NEW obj \in TestRun, Goto("U_inspect", obj) \/ Goto("U_validated", obj)
        PROVE  OperatorOK'
    BY <2>8, GotoType DEF Label, UpdateLabel
  <2>9. OperatorOK'
    BY <1>3, <2>3, <2>4, <2>5, <2>7, <2>8, ReturnType DEF RunValidations
  <2> QED
    BY <2>1, <2>2, <2>9
<1>4. CASE SetupCloudTest(late)
  <2>1. spec' \in Specs /\ StoreOK' /\ ClusterOK' /\ FaultsOK'
    BY <1>4, StoreUnchanged, ClusterUnchanged, NoFaultType, SomeFault
       DEF SetupCloudTest, NoFault, Fault
  <2>2. runs + 1 \in Nat
    BY ControllerAssumption DEF CloudOK
  <2>3. CloudOK'
    <3>1. CASE UNCHANGED cloudk6
      BY <3>1, CloudUnchanged
    <3>2. CASE /\ runs < MaxRuns /\ runs' = runs + 1 /\ UNCHANGED events
               /\ cloud' = [cloud EXCEPT ![runs + 1] = "live"]
      <4>1. runs' \in 0 .. MaxRuns
        BY <3>2, ControllerAssumption DEF CloudOK
      <4>2. cloud' \in [RunID -> RunStatus]
        BY <3>2 DEF CloudOK, RunStatus
      <4> QED
        BY <3>2, <4>1, <4>2 DEF CloudOK
    <3> QED
      BY <1>4, <3>1, <3>2 DEF SetupCloudTest, CreateTestRun
  <2>4. [k6 EXCEPT !.id = runs + 1] \in TestRun
    BY <2>2 DEF OperatorOK, TestRun
  <2>5. Stamp([k6 EXCEPT !.id = runs + 1], "CloudTestRunCreated", "True", Now) \in TestRun
    BY <1>0, <2>4, StampType DEF CondType, Status
  <2>6. OperatorOK'
    BY <1>4, <2>5, ReturnType, GotoType DEF SetupCloudTest, Label, UpdateLabel
  <2> QED
    BY <2>1, <2>3, <2>6
<1> QED
  BY <1>1, <1>2, <1>3, <1>4

(* CreateJobs and StartJobs keep the types.                                 *)
LEMMA JobsType ==
  ASSUME TypeOK, NEW late \in BOOLEAN, CreateJobs(late) \/ StartJobs(late)
  PROVE  TypeOK'
<1> USE DEF TypeOK
<1>1. CASE CreateJobs(late)
  <2>1. spec' \in Specs /\ StoreOK' /\ FaultsOK'
    BY <1>1, StoreUnchanged, NoFaultType, SomeFault DEF CreateJobs, NoFault, Fault
  <2>2. CloudOK'
    BY <1>1, SendAbortType DEF CreateJobs, CreateJobsFailed
  <2>3. ASSUME NEW n, NEW m, Launched(n, m)
        PROVE  ClusterOK'
    BY <2>3 DEF Launched, ClusterOK, PodState
  <2>4. ClusterOK'
    BY <1>1, <2>3, ClusterUnchanged DEF CreateJobs
  <2>5. [k6 EXCEPT !.stage = "created"] \in TestRun
    BY StageType DEF OperatorOK, Stage
  <2>6. OperatorOK'
    BY <1>1, <2>5, GotoType, ReturnType DEF CreateJobs, CreateJobsFailed, Label, UpdateLabel
  <2> QED
    BY <2>1, <2>2, <2>4, <2>6
<1>2. CASE StartJobs(late)
  <2>1. spec' \in Specs /\ StoreOK' /\ FaultsOK'
    BY <1>2, StoreUnchanged, NoFaultType, SomeFault
       DEF StartJobs, ListServices, NoFault, Fault
  <2>2. CloudOK'
    BY <1>2, SendAbortType DEF StartJobs
  <2>3. ClusterOK'
    <3>1. starter' \in CurlJob
      BY <1>2, CurlJobType DEF StartJobs, ClusterOK
    <3>2. setup' \in SUBSET Runner
      BY <1>2 DEF StartJobs, RunSetup, ClusterOK
    <3> QED
      BY <1>2, <3>1, <3>2 DEF StartJobs, ClusterOK
  <2>4. OperatorOK'
    <3> DEFINE going   == [k6 EXCEPT !.stage = "started"]
               running == Stamp(going, "TestRunRunning", "True", Now)
    <3>1. Now \in Nat
      BY DEF Now, StoreOK
    <3>2. going \in TestRun
      BY StageType DEF OperatorOK, Stage
    <3>3. running \in TestRun
      BY <3>1, <3>2, StampType DEF CondType, Status
    <3> QED
      BY <1>2, <3>3, GotoType, ReturnType DEF StartJobs, Label, UpdateLabel
  <2> QED
    BY <2>1, <2>2, <2>3, <2>4
<1> QED
  BY <1>1, <1>2

(* The actions of the stages from started on keep the types.                *)
LEMMA EndType ==
  ASSUME TypeOK, NEW late \in BOOLEAN, Started(late) \/ Stopped \/ Finalize(late) \/ CleanUp
  PROVE  TypeOK'
<1> USE DEF TypeOK
<1>0. Now \in Nat
  BY DEF Now, StoreOK
<1>1. CASE Started(late)
  <2>1. spec' \in Specs /\ StoreOK' /\ ClusterOK' /\ FaultsOK'
    BY <1>1, StoreUnchanged, ClusterUnchanged, NoFaultType, SomeFault
       DEF Started, StartedPLZ, StartedOther, NoFault, Fault
  <2>2. CloudOK'
    BY <1>1, SendAbortType DEF Started, StartedPLZ, StartedOther
  <2>3. [k6 EXCEPT !.stage = "stopped"] \in TestRun
    BY StageType DEF OperatorOK, Stage
  <2>4. Stamp([k6 EXCEPT !.stage = "stopped"], "TestRunRunning", "False", Now) \in TestRun
    BY <1>0, <2>3, StampType DEF CondType, Status
  <2>5. Stamp(k6, "TeardownExecuted", "True", Now) \in TestRun
    BY <1>0, StampType DEF OperatorOK, CondType, Status
  <2>6. ASSUME MarkStopped \/ RunTeardown \/ KeepWaiting \/ Goto("StopJobs", k6)
        PROVE  OperatorOK'
    BY <2>4, <2>5, <2>6, GotoType, ReturnType
       DEF MarkStopped, RunTeardown, KeepWaiting, OperatorOK, Label, UpdateLabel
  <2>7. OperatorOK'
    BY <1>1, <2>6, ReturnType DEF Started, StartedPLZ, StartedOther
  <2> QED
    BY <2>1, <2>2, <2>7
<1>2. CASE Stopped
  <2>1. spec' \in Specs /\ StoreOK' /\ CloudOK' /\ FaultsOK'
    BY <1>2, StoreUnchanged, CloudUnchanged, NoFaultType, SomeFault DEF Stopped, NoFault, Fault
  <2>2. ClusterOK'
    <3>1. pod' \in [Runner -> PodState]
      BY <1>2 DEF Stopped, KillJobs, ClusterOK, PodState
    <3> QED
      BY <1>2, <3>1 DEF Stopped, ClusterOK
  <2>3. Stamp(k6, "CloudTestRunAborted", "True", Now) \in TestRun
    BY <1>0, StampType DEF OperatorOK, CondType, Status
  <2>4. ASSUME NEW kept, KillJobs(kept)
        PROVE  OperatorOK'
    BY <2>3, <2>4, GotoType DEF KillJobs, Label, UpdateLabel
  <2>5. ASSUME Goto("Finalize", k6)
        PROVE  OperatorOK'
    BY <2>5, GotoType DEF OperatorOK, Label
  <2>6. OperatorOK'
    BY <1>2, <2>4, <2>5, ReturnType DEF Stopped
  <2> QED
    BY <2>1, <2>2, <2>6
<1>3. CASE Finalize(late)
  <2>1. spec' \in Specs /\ StoreOK' /\ ClusterOK' /\ FaultsOK'
    BY <1>3, StoreUnchanged, ClusterUnchanged, NoFaultType, SomeFault
       DEF Finalize, NoFault, Fault
  <2>2. CloudOK'
    BY <1>3 DEF Finalize, FinishTestRun, CloudOK, RunStatus
  <2>3. [k6 EXCEPT !.stage = "finished"] \in TestRun
    BY StageType DEF OperatorOK, Stage
  <2>4. Stamp([k6 EXCEPT !.stage = "finished"], "CloudTestRunFinalized", "True", Now) \in TestRun
    BY <1>0, <2>3, StampType DEF CondType, Status
  <2>5. OperatorOK'
    BY <1>3, <2>3, <2>4, GotoType, ReturnType DEF Finalize, Label, UpdateLabel
  <2> QED
    BY <2>1, <2>2, <2>5
<1>4. CASE CleanUp
  <2>1. StoreOK' /\ ClusterOK' /\ FaultsOK'
    BY <1>4, DeleteType, StoreUnchanged, ClusterUnchanged, NoFaultType, SomeFault
       DEF CleanUp, NoFault, Fault
  <2> QED
    BY <1>4, <2>1, ReturnType, CloudUnchanged DEF CleanUp
<1> QED
  BY <1>1, <1>2, <1>3, <1>4

(* Cache, restart, resync, initializer, cloud and user keep the types.      *)
LEMMA WorldType ==
  ASSUME TypeOK, \/ CacheSync \/ Restart \/ Resync \/ InitializerEnds
                 \/ Events \/ CloudAborts \/ UserDeletes
  PROVE  TypeOK'
<1> USE DEF TypeOK
<1>1. CASE CacheSync
  <2>1. StoreOK' /\ OperatorOK'
    BY <1>1 DEF CacheSync, StoreOK, OperatorOK
  <2> QED
    BY <1>1, <2>1, ClusterUnchanged, CloudUnchanged, NoFaultType DEF CacheSync
<1>2. CASE Restart
  <2>1. StoreOK' /\ OperatorOK'
    BY <1>2, GoneType, NoVersions DEF Restart, StoreOK, OperatorOK, Label
  <2> QED
    BY <1>2, <2>1, ClusterUnchanged, CloudUnchanged, SomeFault DEF Restart, Fault
<1>3. CASE Resync
  <2>1. OperatorOK'
    BY <1>3 DEF Resync, OperatorOK
  <2> QED
    BY <1>3, <2>1, StoreUnchanged, ClusterUnchanged, CloudUnchanged, NoFaultType DEF Resync
<1>4. CASE InitializerEnds
  <2>1. OperatorOK' /\ ClusterOK' /\ FaultsOK'
    BY <1>4, NoFaultType, SomeFault
       DEF InitializerEnds, OperatorOK, ClusterOK, InitState, NoFault, Fault
  <2> QED
    BY <1>4, <2>1, StoreUnchanged, CloudUnchanged DEF InitializerEnds
<1>5. CASE CloudAborts
  <2>1. CloudOK'
    BY <1>5 DEF CloudAborts, CloudOK, RunStatus
  <2> QED
    BY <1>5, <2>1, StoreUnchanged, ClusterUnchanged, OperatorUnchanged, SomeFault
       DEF CloudAborts, Fault
<1>6. CASE UserDeletes
  BY <1>6, DeleteType, OperatorUnchanged, CloudUnchanged, SomeFault DEF UserDeletes, Fault
<1>7. CASE Events
  <2>1. CloudOK' /\ FaultsOK'
    BY <1>7, NoFaultType, SomeFault DEF Events, EventArrives, CloudOK, RunStatus, NoFault, Fault
  <2> QED
    BY <1>7, <2>1, StoreUnchanged, ClusterUnchanged, OperatorUnchanged DEF Events, EventArrives
<1> QED
  BY <1>1, <1>2, <1>3, <1>4, <1>5, <1>6, <1>7

(* The runner pods, starter and stopper keep the types.                     *)
LEMMA RunnersType ==
  ASSUME TypeOK, Runners
  PROVE  TypeOK'
<1> USE DEF TypeOK
<1>1. PICK r \in Runner : \/ PodStarts(r) \/ PodServes(r) \/ TestEnds(r) \/ PodFails(r)
                          \/ Resume(r) \/ Stop(r)
  BY DEF Runners
<1>2. ASSUME NEW state \in PodState, SetPod(r, state)
      PROVE  /\ spec' \in Specs /\ StoreOK' /\ OperatorOK' /\ CloudOK'
             /\ init' \in InitState /\ pod' \in [Runner -> PodState]
             /\ svc' \in SUBSET Runner /\ setup' \in SUBSET Runner
  <2>1. OperatorOK'
    BY <1>2 DEF SetPod, OperatorOK
  <2> QED
    BY <1>2, <2>1, StoreUnchanged, CloudUnchanged DEF SetPod, ClusterOK
<1>3. /\ {"booting", "paused", "running", "failed"} \subseteq PodState
      /\ OverState \in PodState /\ pod[r] \in PodState
  BY DEF PodState, OverState, ClusterOK
<1>4. starter' \in CurlJob /\ stopper' \in CurlJob /\ FaultsOK'
  BY <1>1, NoFaultType, SomeFault
     DEF Runners, PodStarts, PodServes, TestEnds, PodFails, Resume, Stop, ClusterOK, CurlJob, Fault
<1> QED
  BY <1>1, <1>2, <1>3, <1>4 DEF PodStarts, PodServes, TestEnds, PodFails, Resume, Stop, ClusterOK

(* The types hold initially.                                                *)
LEMMA TypeInit == Init => TypeOK
<1> SUFFICES ASSUME Init PROVE TypeOK
  OBVIOUS
<1>1. StoreOK /\ OperatorOK
  BY GoneType, NoVersions DEF Init, StoreOK, OperatorOK, Label
<1>2. ClusterOK
  BY NoCurlJobType DEF Init, ClusterOK, InitState, PodState
<1>3. CloudOK /\ FaultsOK
  BY SpecIDType, ControllerAssumption DEF Init, CloudOK, FaultsOK, RunStatus
<1> QED
  BY <1>1, <1>2, <1>3 DEF Init, TypeOK

(* The types are inductive: every action keeps them.                        *)
LEMMA TypeStep == TypeOK /\ [Next]_vars => TypeOK'
<1> SUFFICES ASSUME TypeOK, [Next]_vars PROVE TypeOK'
  OBVIOUS
<1>1. ASSUME NEW late \in BOOLEAN, Operator(late) PROVE TypeOK'
  BY <1>1, UpdateActionsType, EntryType, InitializationType, JobsType, EndType DEF Operator
<1>2. CASE UNCHANGED vars
  BY <1>2, StoreUnchanged, OperatorUnchanged, ClusterUnchanged, CloudUnchanged, NoFaultType
     DEF vars, TypeOK
<1> QED
  BY <1>1, <1>2, WorldType, RunnersType DEF Next

(* Type correctness: the operator's copies of a TestRun always are           *)
(* well-formed, no runner or cloud test run out of range is ever addressed,  *)
(* and every wait of a reconcile is at one of its places.                    *)
THEOREM TypeCorrect == Spec => []TypeOK
  BY TypeInit, TypeStep, PTL DEF Spec
=============================================================================
