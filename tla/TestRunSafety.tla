---------------------------- MODULE TestRunSafety ----------------------------
(***************************************************************************)
(* Safety of the TestRun controller, for every parallelism, set of specs,  *)
(* set of faults and bounds.                                               *)
(*                                                                         *)
(* A copy of the TestRun lives at the API server, on its way to the cache, *)
(* in the cache and in the reconcile in progress, and a status write mixes *)
(* three of them. So each inductive invariant says of every copy what the  *)
(* property says of the stored one.                                        *)
(***************************************************************************)
EXTENDS TestRunTypes, SequenceTheorems

(* The copies outside the reconcile in progress.                            *)
Copies == {api, cache} \cup {watch[i] : i \in 1 .. Len(watch)}

(* A deleted TestRun stays deleted and a reconcile never works on one.      *)
LifeInv ==
  /\ Deleted => api = Gone
  /\ IF pc = "idle" THEN k6 = Gone ELSE k6.stage # "gone"

(* No copy says aborted before there is a stopper job.                      *)
AbortKnown(v) == Holds(v, "CloudTestRunAborted") => stopper.made \/ Deleted

AbortInv == \A v \in Copies \cup {k6} : AbortKnown(v)

(* A copy of a PLZ test run has no conditions yet or is marked as PLZ; it   *)
(* is marked when it is past the first stage, and past the first look of a  *)
(* reconcile. The stored copy is marked when a cached one is.               *)
Marked(v) == Holds(v, "CloudPLZTestRun")

PLZVersion(v) ==
  /\ v.conds = NoConditions \/ Marked(v)
  /\ v.stage \notin {"", "error", "gone"} => Marked(v)

(* Past the first look at the TestRun, and not at the end with an invalid one. *)
Deep == pc \notin {"idle", "Stage", "U_invalid"}

SetupInv ==
  PLZ => /\ \A v \in Copies \cup {k6} : PLZVersion(v)
         /\ \A v \in Copies : Marked(v) => Marked(api) \/ Deleted
         /\ Deep => Marked(k6)
         /\ starter.todo \subseteq setup
         /\ \A r \in Runner : pod[r] = "running" => r \in setup

(* No copy says created or started before every runner has its job and its  *)
(* service; the services stay, the jobs stay until there is a stopper.      *)
Manned == svc = Runner /\ (stopper.made \/ \A r \in Runner : Exists(r))

Launch(v) == v.stage \in {"created", "started"} => Manned \/ Deleted

LaunchInv == \A v \in Copies \cup {k6} : Launch(v)
-----------------------------------------------------------------------------
(* What a status write and a step do to the copies. *)

(* UpdateCondition changes the condition it is asked to and nothing else.   *)
LEMMA StampKeeps ==
  ASSUME NEW tr \in TestRun, NEW type \in CondType, NEW status \in Status, NEW now \in Nat
  PROVE  /\ Stamp(tr, type, status, now).stage = tr.stage
         /\ \A t \in CondType \ {type} : Holds(Stamp(tr, type, status, now), t) <=> Holds(tr, t)
         /\ Holds(Stamp(tr, type, status, now), type) <=> status = "True"
  BY DEF Stamp, UpdateCondition, SetStatusCondition, Holds, IsTrue, TestRun, Condition

(* Setting the stage leaves the conditions alone.                           *)
LEMMA StageKeeps ==
  ASSUME NEW tr \in TestRun, NEW stage \in Stage
  PROVE  /\ [tr EXCEPT !.stage = stage].stage = stage
         /\ \A t \in CondType : Holds([tr EXCEPT !.stage = stage], t) <=> Holds(tr, t)
  BY DEF Holds, IsTrue, TestRun

(* A status write makes no condition True that was not True in a copy it mixes.*)
LEMMA PatchedHolds ==
  ASSUME StoreOK, OperatorOK, NEW type \in CondType, Holds(Patched, type)
  PROVE  Holds(api, type) \/ Holds(cache, type) \/ Holds(k6, type)
  BY DEF Patched, MergePatch, Merged, SetIfNewer, MergedConditions, Holds, IsTrue, StoreOK,
     OperatorOK, TestRun

(* A status write stores the proposed stage or keeps the stored one.        *)
LEMMA PatchedStage == Patched.stage = api.stage \/ Patched.stage = k6.stage
  BY DEF Patched, MergePatch, Merged, SetIfNewer

(* A deleted TestRun has no condition that is True.                         *)
LEMMA GoneHolds == \A t \in CondType : ~Holds(Gone, t)
  BY DEF Gone, NoConditions, NoCondition, Holds, IsTrue

(* The ways a step may change the copies of the TestRun outside the reconcile.*)
LEMMA StoreStep ==
  ASSUME [Next]_vars
  PROVE  \/ UNCHANGED <<api, cache, watch>>
         \/ UpdatePatched /\ pc \in UpdateLabel
         \/ DeleteTestRun /\ ~Deleted
         \/ UNCHANGED api /\ watch # <<>> /\ cache' = Head(watch) /\ watch' = Tail(watch)
         \/ UNCHANGED api /\ cache' = api /\ watch' = <<>>
<1>1. ASSUME NEW late \in BOOLEAN, Operator(late)
      PROVE  \/ UNCHANGED store
             \/ UpdatePatched /\ pc \in UpdateLabel
             \/ DeleteTestRun /\ ~Deleted
  <2>1. CASE \/ UpdateAndReturn \/ UpdateConditions \/ UpdateInitialization
             \/ UpdateInspect(late) \/ UpdateValidated(late) \/ UpdateInitialized \/ UpdateKilled
    BY <2>1 DEF UpdateAndReturn, UpdateConditions, UpdateInitialization, UpdateInspect,
       UpdateValidated, UpdateInitialized, UpdateKilled, UpdateSkipped, UpdateFailed, ReturnLabel,
       UpdateLabel
  <2>2. CASE Reconcile \/ CreateClient \/ StopJobs \/ StartTestRun \/ InitializeJobs
    BY <2>2 DEF Reconcile, CreateClient, StopJobs, StartTestRun, InitializeJobs
  <2>3. CASE RunValidations(late) \/ SetupCloudTest(late) \/ CreateJobs(late) \/ StartJobs(late)
    BY <2>3 DEF RunValidations, SetupCloudTest, CreateJobs, StartJobs
  <2>4. CASE Started(late) \/ Stopped \/ Finalize(late) \/ CleanUp
    BY <2>4 DEF Started, Stopped, Finalize, CleanUp
  <2> QED
    BY <1>1, <2>1, <2>2, <2>3, <2>4 DEF Operator
<1>2. CASE CacheSync \/ Restart
  BY <1>2 DEF CacheSync, Restart
<1>3. CASE Resync \/ InitializerEnds \/ Runners \/ Events \/ CloudAborts \/ UserDeletes
  BY <1>3 DEF Resync, InitializerEnds, Runners, PodStarts, PodServes, TestEnds, PodFails, Resume,
     Stop, SetPod, Events, EventArrives, CloudAborts, UserDeletes, store
<1> QED
  BY <1>1, <1>2, <1>3 DEF Next, vars, store

(* A step adds no copy but the one it stores.                               *)
LEMMA CopiesStep ==
  ASSUME StoreOK, OperatorOK, [Next]_vars
  PROVE  Copies' \subseteq Copies \cup {api'}
<1>1. CASE UNCHANGED <<api, cache, watch>>
  BY <1>1 DEF Copies
<1>2. ASSUME NEW v \in TestRun, UNCHANGED cache, api' = v, watch' \in {watch, Append(watch, v)}
      PROVE  Copies' \subseteq Copies \cup {api'}
  BY <1>2, AppendProperties DEF Copies, StoreOK
<1>3. CASE UNCHANGED api /\ watch # <<>> /\ cache' = Head(watch) /\ watch' = Tail(watch)
  BY <1>3, HeadTailProperties DEF Copies, StoreOK
<1>4. CASE UNCHANGED api /\ cache' = api /\ watch' = <<>>
  BY <1>4, EmptySeq DEF Copies
<1> QED
  BY <1>1, <1>2, <1>3, <1>4, StoreStep, UpdateTypes, GoneType DEF UpdatePatched, DeleteTestRun

(* A deleted TestRun is not stored again.                                   *)
LEMMA DeletedStays ==
  ASSUME [Next]_vars, Deleted
  PROVE  Deleted'
  BY StoreStep DEF Deleted, UpdatePatched
-----------------------------------------------------------------------------
(* The copy in the reconcile: what the steps of a reconcile make of it. *)

Finished == pc' = "idle" /\ k6' = Gone

Moved(obj) ==
  /\ Deep /\ Deep'
  /\ \/ k6' = obj
     \/ k6' = [obj EXCEPT !.stage = "initialization"]
     \/ k6' = [obj EXCEPT !.stage = "initialized"]

Updates(late) ==
  \/ UpdateAndReturn \/ UpdateConditions \/ UpdateInitialization \/ UpdateInspect(late)
  \/ UpdateValidated(late) \/ UpdateInitialized \/ UpdateKilled

(* Return ends the reconcile.                                               *)
LEMMA ReturnEnds ==
  ASSUME NEW requeue, Return(requeue)
  PROVE  Finished
  BY DEF Return, Finished

(* What the in-memory TestRun is after an action that ends in UpdateStatus. *)
LEMMA UpdatedCopy ==
  ASSUME NEW late \in BOOLEAN, Updates(late)
  PROVE  \/ Finished
         \/ UpdatePatched /\ Moved(Patched)
         \/ UpdateSkipped /\ Moved(Refetched)
<1>1. ASSUME NEW obj, Deep, FirstStage(obj) \/ AfterValidation(obj) \/ CloudStep(obj)
      PROVE  Finished \/ Moved(obj)
  BY <1>1, ReturnEnds DEF FirstStage, AfterValidation, CloudStep, Goto, Moved, Deep
<1>2. ASSUME NEW obj, Deep, Goto("InitializeJobs", obj) \/ Goto("Finalize", obj)
      PROVE  Moved(obj)
  BY <1>2 DEF Goto, Moved, Deep
<1>3. ASSUME NEW obj, NEW requeue, NotReady(obj, requeue, late)
      PROVE  Finished
  BY <1>3, ReturnEnds DEF NotReady
<1> QED
  BY <1>1, <1>2, <1>3, ReturnEnds
     DEF Updates, UpdateAndReturn, UpdateConditions, UpdateInitialization, UpdateInspect,
         UpdateValidated, UpdateInitialized, UpdateKilled, Deep

(* The steps of a reconcile that are neither its first nor a status write.  *)
Works(late) ==
  \/ CreateClient \/ StopJobs \/ StartTestRun \/ InitializeJobs
  \/ RunValidations(late) \/ SetupCloudTest(late) \/ CreateJobs(late) \/ StartJobs(late)
  \/ Started(late) \/ Stopped \/ Finalize(late) \/ CleanUp

(* What it keeps of the conditions two of the properties are about.         *)
Keeps(obj) ==
  /\ obj.stage # "gone" \/ obj.stage = k6.stage
  /\ Marked(obj) <=> Marked(k6)
  /\ Holds(obj, "CloudTestRunAborted") => Holds(k6, "CloudTestRunAborted")

(* Setting another condition keeps the marks PLZ and aborted.               *)
LEMMA KeepsStamp ==
  ASSUME TypeOK, NEW obj \in TestRun, Keeps(obj), NEW status \in Status,
         NEW type \in CondType \ {"CloudPLZTestRun", "CloudTestRunAborted"}
  PROVE  Keeps(Stamp(obj, type, status, Now)) /\ Stamp(obj, type, status, Now) \in TestRun
<1>1. Now \in Nat
  BY DEF Now, TypeOK, StoreOK
<1> DEFINE new == Stamp(obj, type, status, Now)
<1>2. new \in TestRun
  BY <1>1, StampType
<1>3. new.stage = obj.stage
  BY <1>1, StampKeeps
<1>4. \A t \in CondType \ {type} : Holds(new, t) <=> Holds(obj, t)
  BY <1>1, StampKeeps
<1>5. /\ "CloudPLZTestRun" \in CondType \ {type}
      /\ "CloudTestRunAborted" \in CondType \ {type}
  BY DEF CondType
<1> HIDE DEF new
<1>6. Keeps(new)
  BY <1>3, <1>4, <1>5 DEF Keeps, Marked
<1> QED
  BY <1>2, <1>6 DEF new

(* Setting the stage keeps the marks PLZ and aborted.                       *)
LEMMA KeepsStage ==
  ASSUME TypeOK, NEW obj \in TestRun, Keeps(obj), NEW stage \in Stage
  PROVE  Keeps([obj EXCEPT !.stage = stage]) /\ [obj EXCEPT !.stage = stage] \in TestRun
  BY StageKeeps, StageType DEF Keeps, Marked, CondType, Stage

(* An in-memory TestRun has its own marks.                                  *)
LEMMA KeepsItself == TypeOK => k6 \in TestRun /\ Keeps(k6)
  BY DEF Keeps, TypeOK, OperatorOK

(* The places a reconcile of a TestRun past its first stage can be at.      *)
PastFirst ==
  \/ Deep
  \/ pc = "Stage" /\ k6.stage \notin {"", "error", "gone"}

Kept == Deep' /\ PastFirst /\ Keeps(k6')

(* Passing such a TestRun on keeps its marks.                               *)
LEMMA GotoKeeps ==
  ASSUME NEW label \in Label \ {"idle", "Stage", "U_invalid"}, NEW obj, Keeps(obj), PastFirst,
         Goto(label, obj) \/ GotoQueued(label, obj)
  PROVE  Kept
  BY DEF Goto, GotoQueued, Kept, Deep

(* What the in-memory TestRun is after any other action of a reconcile.     *)
LEMMA WorkedCopy ==
  ASSUME TypeOK, NEW late \in BOOLEAN, Works(late)
  PROVE  \/ Finished
         \/ Kept
         \/ CreateClient /\ UNCHANGED k6 /\ pc' \in {"Stage", "StopJobs"}
         \/ StartTestRun
         \/ StopJobs /\ MarkAborted
         \/ Stopped /\ \E kept : KillJobs(kept)
<1> USE KeepsItself
<1>1. CASE CreateClient
  BY <1>1, ReturnEnds DEF CreateClient
<1>2. CASE StopJobs
  BY <1>2, ReturnEnds DEF StopJobs, StopJobsFailed
<1>3. CASE InitializeJobs \/ CleanUp
  BY <1>3, ReturnEnds DEF InitializeJobs, CleanUp
<1>4. CASE RunValidations(late)
  <2> DEFINE typed   == Stamp(k6, "CloudTestRun", "True", Now)
             created == IF IsUnknown(k6.conds, "CloudTestRunCreated")
                        THEN Stamp(typed, "CloudTestRunCreated", "False", Now) ELSE typed
             failed  == [k6 EXCEPT !.stage = "error"]
  <2>1. PastFirst
    BY <1>4 DEF RunValidations, AtStage, PastFirst
  <2>2. Keeps(failed)
    BY KeepsStage DEF Stage
  <2>3. Keeps(Stamp(k6, "CloudTestRun", "False", Now)) /\ Keeps(typed) /\ typed \in TestRun
    BY KeepsStamp DEF CondType, Status
  <2>4. Keeps(created) /\ created \in TestRun
    BY <2>3, KeepsStamp DEF CondType, Status
  <2>5. Keeps(Stamp(created, "CloudTestRunFinalized", "False", Now))
    BY <2>4, KeepsStamp DEF CondType, Status
  <2>6. ASSUME NEW obj, Keeps(obj), Goto("U_inspect", obj) \/ Goto("U_validated", obj)
        PROVE  Kept
    BY <2>1, <2>6, GotoKeeps DEF Label, UpdateLabel
  <2>7. ASSUME NEW requeue, NotReady(k6, requeue, late)
        PROVE  Finished
    BY <2>7, ReturnEnds DEF NotReady
  <2> QED
    BY <1>4, <2>2, <2>3, <2>5, <2>6, <2>7, ReturnEnds DEF RunValidations
<1>5. CASE SetupCloudTest(late)
  <2> DEFINE named == [k6 EXCEPT !.id = runs + 1]
             created == Stamp(named, "CloudTestRunCreated", "True", Now)
  <2>1. runs + 1 \in Nat
    BY ControllerAssumption DEF TypeOK, CloudOK
  <2>2. named \in TestRun /\ Keeps(named)
    BY <2>1 DEF TypeOK, OperatorOK, TestRun, Keeps, Marked, Holds, IsTrue
  <2>3. Keeps(created)
    BY <2>2, KeepsStamp DEF CondType, Status
  <2>4. PastFirst
    BY <1>5 DEF SetupCloudTest, PastFirst, Deep
  <2> QED
    BY <1>5, <2>3, <2>4, ReturnEnds, GotoKeeps DEF SetupCloudTest, Label, UpdateLabel
<1>6. CASE CreateJobs(late)
  <2>1. PastFirst
    BY <1>6 DEF CreateJobs, AtStage, PastFirst
  <2>2. Keeps([k6 EXCEPT !.stage = "created"])
    BY KeepsStage DEF Stage
  <2> QED
    BY <1>6, <2>1, <2>2, ReturnEnds, GotoKeeps
       DEF CreateJobs, CreateJobsFailed, Label, UpdateLabel
<1>7. CASE StartJobs(late)
  <2>1. PastFirst
    BY <1>7 DEF StartJobs, AtStage, PastFirst
  <2> DEFINE going == [k6 EXCEPT !.stage = "started"]
  <2>2. Keeps(going) /\ going \in TestRun
    BY KeepsStage DEF Stage
  <2>3. Keeps(Stamp(going, "TestRunRunning", "True", Now))
    BY <2>2, KeepsStamp DEF CondType, Status
  <2> QED
    BY <1>7, <2>1, <2>3, ReturnEnds, GotoKeeps DEF StartJobs, Label, UpdateLabel
<1>8. CASE Started(late)
  <2>1. PastFirst
    BY <1>8 DEF Started, AtStage, PastFirst
  <2> DEFINE over == [k6 EXCEPT !.stage = "stopped"]
  <2>2. Keeps(over) /\ over \in TestRun
    BY KeepsStage DEF Stage
  <2>3. /\ Keeps(Stamp(over, "TestRunRunning", "False", Now))
        /\ Keeps(Stamp(k6, "TeardownExecuted", "True", Now))
    BY <2>2, KeepsStamp DEF CondType, Status
  <2>4. ASSUME MarkStopped \/ RunTeardown \/ KeepWaiting \/ Goto("StopJobs", k6)
        PROVE  Finished \/ Kept
    BY <2>1, <2>3, <2>4, ReturnEnds, GotoKeeps
       DEF MarkStopped, RunTeardown, KeepWaiting, Label, UpdateLabel
  <2> QED
    BY <1>8, <2>4, ReturnEnds DEF Started, StartedPLZ, StartedOther
<1>9. CASE Stopped
  <2>1. PastFirst
    BY <1>9 DEF Stopped, AtStage, PastFirst
  <2>2. ASSUME Goto("Finalize", k6)
        PROVE  Kept
    BY <2>1, <2>2, GotoKeeps DEF Label
  <2> QED
    BY <1>9, <2>2, ReturnEnds DEF Stopped
<1>10. CASE Finalize(late)
  <2>1. PastFirst
    BY <1>10 DEF Finalize, PastFirst, Deep
  <2> DEFINE over == [k6 EXCEPT !.stage = "finished"]
  <2>2. Keeps(over) /\ over \in TestRun
    BY KeepsStage DEF Stage
  <2>3. Keeps(Stamp(over, "CloudTestRunFinalized", "True", Now))
    BY <2>2, KeepsStamp DEF CondType, Status
  <2> QED
    BY <1>10, <2>1, <2>2, <2>3, ReturnEnds, GotoKeeps DEF Finalize, Label, UpdateLabel
<1> QED
  BY <1>1, <1>2, <1>3, <1>4, <1>5, <1>6, <1>7, <1>8, <1>9, <1>10 DEF Works

(* The two together: how a step changes the in-memory TestRun.              *)
LEMMA CopyStep ==
  ASSUME TypeOK, [Next]_vars
  PROVE  \/ Finished
         \/ UNCHANGED <<pc, k6>>
         \/ Reconcile /\ cache.stage # "gone" /\ k6' = cache
         \/ UpdatePatched /\ Moved(Patched)
         \/ UpdateSkipped /\ Moved(Refetched)
         \/ Kept
         \/ CreateClient /\ UNCHANGED k6 /\ pc' \in {"Stage", "StopJobs"}
         \/ StartTestRun
         \/ StopJobs /\ MarkAborted
         \/ Stopped /\ \E kept : KillJobs(kept)
<1>2. ASSUME NEW late \in BOOLEAN, Operator(late)
      PROVE  Reconcile \/ Updates(late) \/ Works(late)
  BY <1>2 DEF Operator, Updates, Works
<1>3. CASE Reconcile
  BY <1>3 DEF Reconcile
<1>4. CASE Restart
  BY <1>4 DEF Restart, Finished
<1>5. CASE CacheSync \/ Resync \/ InitializerEnds \/ Runners \/ Events \/ CloudAborts \/ UserDeletes
  BY <1>5 DEF CacheSync, Resync, InitializerEnds, Runners, PodStarts, PodServes, TestEnds, PodFails,
     Resume, Stop, SetPod, Events, EventArrives, CloudAborts, UserDeletes, operator
<1>6. CASE UNCHANGED vars
  BY <1>6 DEF vars, operator
<1> QED
  BY <1>2, <1>3, <1>4, <1>5, <1>6, UpdatedCopy, WorkedCopy DEF Next
-----------------------------------------------------------------------------
(* A TestRun that is passed on is not the deleted one.                      *)
LEMMA MovedStage ==
  ASSUME NEW obj \in TestRun, obj.stage # "gone", Moved(obj)
  PROVE  k6'.stage # "gone"
  BY StageKeeps DEF Moved, Stage

(* A TestRun that is passed on has the conditions it had.                   *)
LEMMA MovedHolds ==
  ASSUME NEW obj \in TestRun, Moved(obj), NEW type \in CondType
  PROVE  Holds(k6', type) <=> Holds(obj, type)
<1>1. ASSUME NEW stage \in Stage, k6' = [obj EXCEPT !.stage = stage]
      PROVE  Holds(k6', type) <=> Holds(obj, type)
  BY <1>1, StageKeeps
<1>2. "initialization" \in Stage /\ "initialized" \in Stage
  BY DEF Stage
<1> QED
  BY <1>1, <1>2 DEF Moved

(* Initialize leaves the stage alone and marks PLZ test runs.               *)
LEMMA InitializedCopy ==
  ASSUME NEW tr \in TestRun, NEW id \in Nat, NEW now \in Nat
  PROVE  /\ Initialize(tr, id, now).stage = tr.stage
         /\ Holds(Initialize(tr, id, now), "CloudPLZTestRun") <=> id # 0
         /\ ~Holds(Initialize(tr, id, now), "CloudTestRunAborted")
  BY DEF Initialize, InitialStatus, Holds, IsTrue, CondType, TestRun, NoCondition

(* Setting a condition other than CloudPLZTestRun keeps the PLZ mark.       *)
LEMMA StampMarks ==
  ASSUME NEW tr \in TestRun, NEW type \in CondType \ {"CloudPLZTestRun"}, NEW status \in Status,
         NEW now \in Nat
  PROVE  /\ Stamp(tr, type, status, now) \in TestRun
         /\ Stamp(tr, type, status, now).stage = tr.stage
         /\ Marked(Stamp(tr, type, status, now)) <=> Marked(tr)
<1>1. "CloudPLZTestRun" \in CondType \ {type}
  BY DEF CondType
<1>2. Stamp(tr, type, status, now) \in TestRun
  BY StampType
<1> QED
  BY <1>1, <1>2, StampKeeps DEF Marked

(* MarkAborted leaves the PLZ mark alone.                                   *)
LEMMA AbortedCopy ==
  ASSUME TypeOK, MarkAborted
  PROVE  k6'.stage = "stopped" /\ (Marked(k6') <=> Marked(k6))
         /\ pc' = "U_abort"
<1> DEFINE over    == [k6 EXCEPT !.stage = "stopped"]
           stopped == Stamp(over, "TestRunRunning", "False", Now)
           aborted == Stamp(stopped, "CloudTestRunAborted", "True", Now)
<1>1. Now \in Nat
  BY DEF Now, TypeOK, StoreOK
<1>2. over \in TestRun /\ over.stage = "stopped" /\ (Marked(over) <=> Marked(k6))
  BY StageType, StageKeeps DEF TypeOK, OperatorOK, Stage, Marked, CondType
<1>3. stopped \in TestRun /\ stopped.stage = "stopped" /\ (Marked(stopped) <=> Marked(k6))
  BY <1>1, <1>2, StampMarks DEF CondType, Status
<1>4. aborted.stage = "stopped" /\ (Marked(aborted) <=> Marked(k6))
  BY <1>1, <1>3, StampMarks DEF CondType, Status
<1>5. k6' = aborted /\ pc' = "U_abort"
  BY DEF MarkAborted, GotoQueued
<1> QED
  BY <1>4, <1>5

(* KillJobs leaves stage and PLZ mark alone.                                *)
LEMMA KilledCopy ==
  ASSUME TypeOK, NEW kept, KillJobs(kept)
  PROVE  k6'.stage = k6.stage /\ (Marked(k6') <=> Marked(k6)) /\ pc' = "U_killed"
<1>1. Now \in Nat
  BY DEF Now, TypeOK, StoreOK
<1> QED
  BY <1>1, StampMarks DEF TypeOK, OperatorOK, KillJobs, GotoQueued, CondType, Status

(* LifeInv holds initially.                                                 *)
LEMMA LifeInit == Init => LifeInv
<1>1. NewTestRun.stage # "gone"
  BY DEF NewTestRun
<1> QED
  BY <1>1 DEF Init, LifeInv, Deleted

(* LifeInv is inductive.                                                    *)
LEMMA LifeStep ==
  ASSUME TypeOK, LifeInv, [Next]_vars
  PROVE  LifeInv'
<1>1. Deleted' => api' = Gone
  BY StoreStep, PatchedStage DEF LifeInv, Deleted, UpdatePatched, DeleteTestRun, UpdateLabel
<1>2. IF pc' = "idle" THEN k6' = Gone ELSE k6'.stage # "gone"
  <2>1. CASE Finished \/ UNCHANGED <<pc, k6>>
    BY <2>1 DEF Finished, LifeInv
  <2>2. CASE Reconcile /\ cache.stage # "gone" /\ k6' = cache
    BY <2>2 DEF Reconcile
  <2>3. CASE UpdatePatched /\ Moved(Patched)
    <3>1. Patched.stage # "gone"
      BY <2>3, PatchedStage DEF UpdatePatched, Deleted, LifeInv, Moved, Deep
    <3> QED
      BY <2>3, <3>1, MovedStage, UpdateTypes DEF Moved, Deep, TypeOK
  <2>4. CASE UpdateSkipped /\ Moved(Refetched)
    <3>1. Refetched.stage # "gone"
      BY <2>4 DEF Refetched, LifeInv, Moved, Deep
    <3> QED
      BY <2>4, <3>1, MovedStage, UpdateTypes DEF Moved, Deep, TypeOK
  <2>5. CASE Kept
    BY <2>5 DEF Kept, Keeps, PastFirst, Deep, LifeInv
  <2>6. CASE CreateClient /\ UNCHANGED k6 /\ pc' \in {"Stage", "StopJobs"}
    BY <2>6 DEF CreateClient, LifeInv
  <2>7. CASE StartTestRun
    <3>1. Now \in Nat /\ spec.id \in Nat /\ k6 \in TestRun
      BY SpecIDType DEF Now, TypeOK, StoreOK, OperatorOK
    <3>2. Initialize(k6, spec.id, Now).stage # "gone"
      BY <2>7, <3>1, InitializedCopy DEF StartTestRun, AtStage
    <3>3. [k6 EXCEPT !.stage = "error"].stage # "gone"
      BY <3>1, StageKeeps DEF Stage
    <3> QED
      BY <2>7, <3>2, <3>3 DEF StartTestRun, Goto
  <2>8. CASE StopJobs /\ MarkAborted
    BY <2>8, AbortedCopy
  <2>9. CASE Stopped /\ \E kept : KillJobs(kept)
    BY <2>9, KilledCopy DEF Stopped, AtStage
  <2> QED
    BY <2>1, <2>2, <2>3, <2>4, <2>5, <2>6, <2>7, <2>8, <2>9, CopyStep
<1> QED
  BY <1>1, <1>2 DEF LifeInv
-----------------------------------------------------------------------------
(* Which steps change the stopper, the starter, the services and the pods.  *)

(* The ways a step may change jobs, pods and services.                      *)
LEMMA ClusterStep ==
  ASSUME [Next]_vars
  PROVE  \/ UNCHANGED cluster
         \/ StopJobs /\ UNCHANGED <<pod, svc, starter, setup>>
         \/ InitializeJobs /\ UNCHANGED <<pod, svc, starter, stopper, setup>>
         \/ \E late \in BOOLEAN, n, m \in 0 .. N : CreateJobs(late) /\ Launched(n, m)
         \/ (\E late \in BOOLEAN : StartJobs(late)) /\ UNCHANGED <<pod, svc, stopper>>
         \/ Stopped /\ UNCHANGED <<svc, starter, stopper, setup>>
         \/ DeleteTestRun
         \/ InitializerEnds /\ UNCHANGED <<pod, svc, starter, stopper, setup>>
         \/ Runners
<1>1. ASSUME NEW late \in BOOLEAN, CreateJobs(late)
      PROVE  UNCHANGED cluster \/ \E n, m \in 0 .. N : Launched(n, m)
  <2>1. N \in 0 .. N /\ (\A m \in 0 .. N - 1 : m \in 0 .. N)
    BY ControllerAssumption
  <2> QED
    BY <1>1, <2>1 DEF CreateJobs
<1>2. ASSUME NEW late \in BOOLEAN,
             \/ RunValidations(late) \/ SetupCloudTest(late) \/ Started(late) \/ Finalize(late)
             \/ CreateClient \/ Reconcile \/ StartTestRun \/ CleanUp
      PROVE  UNCHANGED cluster \/ DeleteTestRun
  BY <1>2 DEF RunValidations, SetupCloudTest, Started, Finalize, CreateClient, Reconcile,
     StartTestRun, CleanUp
<1>3. ASSUME NEW late \in BOOLEAN, Updates(late)
      PROVE  UNCHANGED cluster
  BY <1>3 DEF Updates, UpdateAndReturn, UpdateConditions, UpdateInitialization, UpdateInspect,
     UpdateValidated, UpdateInitialized, UpdateKilled
<1>4. ASSUME NEW late \in BOOLEAN, StopJobs \/ InitializeJobs \/ StartJobs(late) \/ Stopped
      PROVE  \/ StopJobs /\ UNCHANGED <<pod, svc, starter, setup>>
             \/ InitializeJobs /\ UNCHANGED <<pod, svc, starter, stopper, setup>>
             \/ StartJobs(late) /\ UNCHANGED <<pod, svc, stopper>>
             \/ Stopped /\ UNCHANGED <<svc, starter, stopper, setup>>
  BY <1>4 DEF StopJobs, InitializeJobs, StartJobs, Stopped
<1>5. ASSUME NEW late \in BOOLEAN, Operator(late)
      PROVE  \/ Reconcile \/ Updates(late) \/ Works(late)
  BY <1>5 DEF Operator, Updates, Works
<1>6. CASE CacheSync \/ Restart \/ Resync \/ Events \/ CloudAborts \/ UNCHANGED vars
  BY <1>6 DEF CacheSync, Restart, Resync, Events, EventArrives, CloudAborts, vars
<1>7. CASE InitializerEnds \/ UserDeletes
  BY <1>7 DEF InitializerEnds, UserDeletes
<1>8. CASE \E late \in BOOLEAN : Operator(late)
  BY <1>1, <1>2, <1>3, <1>4, <1>5, <1>8 DEF Works
<1> QED
  BY <1>6, <1>7, <1>8 DEF Next
-----------------------------------------------------------------------------
(* A stopper job exists until the TestRun is deleted.                       *)
LEMMA StopperStays ==
  ASSUME TypeOK, [Next]_vars, stopper.made \/ Deleted
  PROVE  stopper'.made \/ Deleted'
<1>1. CASE Deleted
  BY <1>1, DeletedStays
<1>2. CASE stopper.made
  <2>1. CASE UNCHANGED stopper
    BY <1>2, <2>1
  <2>2. CASE StopJobs
    BY <1>2, <2>2 DEF StopJobs, CreateCurlJob
  <2>3. CASE DeleteTestRun
    BY <2>3 DEF DeleteTestRun, Deleted, Gone
  <2>4. CASE Runners
    BY <1>2, <2>4 DEF Runners, PodStarts, PodServes, TestEnds, PodFails, Resume, Stop, TypeOK,
       ClusterOK, CurlJob
  <2> QED
    BY <2>1, <2>2, <2>3, <2>4, ClusterStep DEF cluster, Launched
<1> QED
  BY <1>1, <1>2

(* AbortInv holds initially.                                                *)
LEMMA AbortInit == Init => AbortInv
<1> SUFFICES ASSUME Init PROVE AbortInv
  OBVIOUS
<1>1. Copies \cup {k6} = {NewTestRun, Gone}
  BY DEF Init, Copies
<1>2. ~Holds(NewTestRun, "CloudTestRunAborted") /\ ~Holds(Gone, "CloudTestRunAborted")
  BY DEF Holds, IsTrue, NewTestRun, Gone, NoConditions, NoCondition, CondType
<1> QED
  BY <1>1, <1>2 DEF AbortInv, AbortKnown

(* AbortInv is inductive: only MarkAborted makes a copy aborted, next to a stopper.*)
LEMMA AbortStep ==
  ASSUME TypeOK, LifeInv, AbortInv, [Next]_vars
  PROVE  AbortInv'
<1> DEFINE Aborted(v) == Holds(v, "CloudTestRunAborted")
           Known      == stopper.made \/ Deleted
<1>0. "CloudTestRunAborted" \in CondType
  BY DEF CondType
<1>1. Known => Known'
  BY StopperStays
<1>2. ASSUME Aborted(api) \/ Aborted(cache) \/ Aborted(k6)
      PROVE  Known'
  BY <1>1, <1>2 DEF AbortInv, AbortKnown, Copies
<1>3. Aborted(Patched) => Known'
  BY <1>0, <1>2, PatchedHolds DEF TypeOK
<1>4. Aborted(api') => Known'
  BY <1>0, <1>2, <1>3, StoreStep, GoneHolds DEF UpdatePatched, DeleteTestRun
<1>5. Aborted(k6') => Known'
  <2>1. CASE Finished \/ UNCHANGED <<pc, k6>>
    BY <2>1, <1>0, <1>2, GoneHolds DEF Finished
  <2>2. CASE Reconcile /\ cache.stage # "gone" /\ k6' = cache
    BY <2>2, <1>2
  <2>3. CASE UpdatePatched /\ Moved(Patched)
    BY <2>3, <1>0, <1>3, MovedHolds, UpdateTypes DEF TypeOK
  <2>4. CASE UpdateSkipped /\ Moved(Refetched)
    BY <2>4, <1>0, <1>2, MovedHolds, UpdateTypes DEF TypeOK, Refetched
  <2>5. CASE Kept
    BY <2>5, <1>2 DEF Kept, Keeps
  <2>6. CASE CreateClient /\ UNCHANGED k6 /\ pc' \in {"Stage", "StopJobs"}
    BY <2>6, <1>2
  <2>7. CASE StartTestRun
    <3>1. Now \in Nat /\ spec.id \in Nat /\ k6 \in TestRun
      BY SpecIDType DEF Now, TypeOK, StoreOK, OperatorOK
    <3>2. ~Aborted(Initialize(k6, spec.id, Now))
      BY <3>1, InitializedCopy
    <3>3. Aborted([k6 EXCEPT !.stage = "error"]) => Aborted(k6)
      BY <1>0, <3>1, StageKeeps DEF Stage
    <3> QED
      BY <2>7, <1>2, <3>2, <3>3 DEF StartTestRun, Goto
  <2>8. CASE StopJobs /\ MarkAborted
    <3>1. stopper'.made \/ Deleted
      BY <2>8 DEF StopJobs, CreateCurlJob, MarkAborted, StopJobsFailed, GotoQueued, Return
    <3> QED
      BY <3>1, DeletedStays
  <2>9. CASE Stopped /\ \E kept : KillJobs(kept)
    <3>1. Aborted(k6)
      BY <2>9 DEF Stopped, KillJobs, Goto, GotoQueued
    <3> QED
      BY <3>1, <1>2
  <2> QED
    BY <2>1, <2>2, <2>3, <2>4, <2>5, <2>6, <2>7, <2>8, <2>9, CopyStep
<1>6. \A v \in Copies : Aborted(v) => Known'
  BY <1>1 DEF AbortInv, AbortKnown
<1>7. Copies' \subseteq Copies \cup {api'}
  BY CopiesStep DEF TypeOK
<1> QED
  BY <1>4, <1>5, <1>6, <1>7 DEF AbortInv, AbortKnown

(* A TestRun is stored as aborted only when there is a stopper job for its  *)
(* runners, whatever fails, restarts or is stale.                           *)
THEOREM AbortHasStopper == Spec => []AbortedHasStopper
<1>1. TypeOK /\ LifeInv /\ AbortInv => AbortedHasStopper
  BY GoneHolds DEF LifeInv, AbortInv, AbortKnown, AbortedHasStopper, Copies, CondType
<1> QED
  BY <1>1, TypeInit, TypeStep, LifeInit, LifeStep, AbortInit, AbortStep, PTL DEF Spec
-----------------------------------------------------------------------------
(* PLZ test runs: setup() before start. *)

(* The spec does not change.                                                *)
LEMMA SpecStays == [Next]_vars => UNCHANGED spec
<1>1. ASSUME NEW late \in BOOLEAN, Updates(late) PROVE UNCHANGED spec
  BY <1>1 DEF Updates, UpdateAndReturn, UpdateConditions, UpdateInitialization, UpdateInspect,
     UpdateValidated, UpdateInitialized, UpdateKilled
<1>2. ASSUME NEW late \in BOOLEAN, Works(late) \/ Reconcile PROVE UNCHANGED spec
  BY <1>2 DEF Works, Reconcile, CreateClient, StopJobs, StartTestRun, InitializeJobs,
     RunValidations, SetupCloudTest, CreateJobs, StartJobs, Started, Stopped, Finalize, CleanUp
<1>3. ASSUME NEW late \in BOOLEAN, Operator(late) PROVE Reconcile \/ Updates(late) \/ Works(late)
  BY <1>3 DEF Operator, Updates, Works
<1>4. CASE CacheSync \/ Restart \/ Resync \/ InitializerEnds \/ Runners \/ Events \/ CloudAborts
           \/ UserDeletes \/ UNCHANGED vars
  BY <1>4 DEF CacheSync, Restart, Resync, InitializerEnds, Runners, PodStarts, PodServes, TestEnds,
     PodFails, Resume, Stop, SetPod, Events, EventArrives, CloudAborts, UserDeletes, vars
<1> QED
  BY <1>1, <1>2, <1>3, <1>4 DEF Next

(* Merging a proposal: nothing of an empty one is taken, and a marked one   *)
(* marks the result.                                                        *)
LEMMA MergedMark ==
  ASSUME NEW old \in TestRun, NEW new \in TestRun, PLZVersion(old), PLZVersion(new)
  PROVE  /\ MergedConditions(old.conds, new.conds) = old.conds
            \/ IsTrue(MergedConditions(old.conds, new.conds), "CloudPLZTestRun")
         /\ Marked(new) => IsTrue(MergedConditions(old.conds, new.conds), "CloudPLZTestRun")
<1> DEFINE m == MergedConditions(old.conds, new.conds)
<1>0. "CloudPLZTestRun" \in CondType /\ old.conds \in CondList /\ new.conds \in CondList
  BY DEF CondType, CondList, TestRun
<1>1. CASE new.conds = NoConditions
  <2>1. \A t \in CondType : ~Accepts(old.conds[t], new.conds[t])
    BY <1>1 DEF Accepts, NoConditions, NoCondition
  <2>2. m = [t \in CondType |-> old.conds[t]]
    BY <1>0, <2>1 DEF MergedConditions, CondList
  <2>3. m = old.conds
    BY <1>0, <2>2 DEF CondList
  <2>4. ~Marked(new)
    BY <1>0, <1>1 DEF Marked, Holds, IsTrue, NoConditions, NoCondition
  <2> QED
    BY <2>3, <2>4
<1>2. CASE Marked(new)
  <2> DEFINE o == old.conds["CloudPLZTestRun"]
             n == new.conds["CloudPLZTestRun"]
  <2>1. n.status = "True"
    BY <1>2 DEF Marked, Holds, IsTrue
  <2>2. m["CloudPLZTestRun"] = IF Accepts(o, n) /\ o.status # n.status THEN n ELSE o
    BY <1>0 DEF MergedConditions, CondList
  <2>3. CASE Marked(old)
    BY <2>1, <2>2, <2>3 DEF Marked, Holds, IsTrue
  <2>4. CASE old.conds = NoConditions
    <3>1. o.status = "Absent"
      BY <1>0, <2>4 DEF NoConditions, NoCondition
    <3>2. Accepts(o, n)
      BY <2>1, <3>1 DEF Accepts
    <3> QED
      BY <2>1, <2>2, <3>1, <3>2 DEF IsTrue
  <2> QED
    BY <2>3, <2>4 DEF PLZVersion
<1> QED
  BY <1>1, <1>2 DEF PLZVersion

(* A status write to a PLZ test run gives a version that is PLZ and keeps the mark.*)
LEMMA PatchedMark ==
  ASSUME TypeOK, PLZVersion(api), PLZVersion(cache), PLZVersion(k6), ~Deleted,
         Marked(cache) => Marked(api)
  PROVE  /\ PLZVersion(Patched)
         /\ Marked(api) => Marked(Patched)
         /\ Marked(k6) => Marked(Patched)
<1>1. /\ Merged.conds = cache.conds \/ Marked(Merged)
      /\ Marked(k6) => Marked(Merged)
  BY MergedMark DEF Merged, SetIfNewer, Marked, Holds, TypeOK, StoreOK, OperatorOK
<1>2. Patched.conds = IF Merged.conds # cache.conds THEN Merged.conds ELSE api.conds
  BY DEF Patched, MergePatch
<1>3. Patched.conds = api.conds \/ Marked(Patched)
  BY <1>1, <1>2 DEF Marked, Holds
<1>4. Marked(k6) => Marked(Patched)
  BY <1>1, <1>2 DEF Marked, Holds
<1>5. Marked(api) => Marked(Patched)
  BY <1>3 DEF Marked, Holds
<1>6. Patched.stage \notin {"", "error", "gone"} => Marked(Patched)
  BY <1>4, <1>5, PatchedStage DEF PLZVersion
<1> QED
  BY <1>3, <1>4, <1>5, <1>6 DEF PLZVersion, Marked, Holds

(* A status write that is skipped leaves a marked TestRun marked.           *)
LEMMA RefetchedMark ==
  ASSUME TypeOK, PLZVersion(cache), PLZVersion(k6), UpdateSkipped, Marked(k6)
  PROVE  Marked(Refetched)
<1>1. CASE cache.stage = "gone"
  BY <1>1 DEF Refetched
<1>2. CASE cache.stage # "gone"
  <2>0. "CloudPLZTestRun" \in CondType
    BY DEF CondType
  <2>1. ~Accepts(cache.conds["CloudPLZTestRun"], k6.conds["CloudPLZTestRun"])
    BY <1>2, <2>0 DEF UpdateSkipped, UpdateWanted, IsNewer, ConditionsNewer, TypeOK, StoreOK,
       TestRun
  <2>2. cache.conds # NoConditions
    BY <2>0, <2>1 DEF Accepts, NoConditions, NoCondition, Marked, Holds, IsTrue
  <2> QED
    BY <1>2, <2>2 DEF PLZVersion, Refetched
<1> QED
  BY <1>1, <1>2

(* A marked TestRun that is passed on is a PLZ version.                     *)
LEMMA MovedVersion ==
  ASSUME NEW obj \in TestRun, Marked(obj), Moved(obj)
  PROVE  PLZVersion(k6') /\ Marked(k6')
<1>1. Marked(k6')
  BY MovedHolds DEF Marked, CondType
<1> QED
  BY <1>1 DEF PLZVersion

(* SetupInv holds initially.                                                *)
LEMMA SetupInit == Init => SetupInv
<1> SUFFICES ASSUME Init PROVE SetupInv
  OBVIOUS
<1>1. Copies \cup {k6} = {NewTestRun, Gone} /\ Copies = {NewTestRun}
  BY DEF Init, Copies
<1>2. PLZVersion(NewTestRun) /\ PLZVersion(Gone)
  BY DEF PLZVersion, NewTestRun, Gone
<1>3. ~Marked(NewTestRun)
  BY DEF Marked, Holds, IsTrue, NewTestRun, NoConditions, NoCondition, CondType
<1> QED
  BY <1>1, <1>2, <1>3 DEF Init, SetupInv, NoCurlJob, Deep

(* SetupInv is inductive: runSetup precedes the starter, which precedes running pods.*)
LEMMA SetupStep ==
  ASSUME TypeOK, LifeInv, SetupInv, [Next]_vars
  PROVE  SetupInv'
<1> SUFFICES ASSUME PLZ
             PROVE  /\ \A v \in Copies' \cup {k6'} : PLZVersion(v)
                    /\ \A v \in Copies' : Marked(v) => Marked(api') \/ Deleted'
                    /\ Deep' => Marked(k6')
                    /\ starter'.todo \subseteq setup'
                    /\ \A r \in Runner : pod'[r] = "running" => r \in setup'
  BY SpecStays DEF SetupInv, PLZ, PLZVersion, Marked
<1>1. /\ PLZVersion(api) /\ PLZVersion(cache) /\ PLZVersion(k6)
      /\ Marked(cache) => Marked(api) \/ Deleted
  BY DEF SetupInv, Copies
<1>2. PLZVersion(Gone) /\ ~Marked(Gone)
  BY GoneHolds DEF PLZVersion, Gone, Marked, CondType
<1>3. PLZVersion(api') /\ (Marked(api) => Marked(api') \/ Deleted')
  <2>1. CASE UpdatePatched /\ pc \in UpdateLabel
    BY <2>1, <1>1, PatchedMark DEF UpdatePatched
  <2>2. CASE DeleteTestRun /\ ~Deleted
    BY <2>2, <1>2 DEF DeleteTestRun, Deleted, Gone
  <2> QED
    BY <1>1, <2>1, <2>2, StoreStep
<1>4. Copies' \subseteq Copies \cup {api'}
  BY CopiesStep DEF TypeOK
<1>5. \A v \in Copies : Marked(v) => Marked(api') \/ Deleted'
  BY <1>3, DeletedStays DEF SetupInv
<1>6. PLZVersion(k6') /\ (Deep' => Marked(k6'))
  <2>0. k6 \in TestRun /\ spec.id \in Nat /\ spec.id # 0 /\ Now \in Nat
    BY SpecIDType DEF TypeOK, StoreOK, OperatorOK, PLZ, Now
  <2>1. CASE Finished \/ UNCHANGED <<pc, k6>>
    BY <2>1, <1>1, <1>2 DEF Finished, SetupInv, Deep
  <2>2. CASE Reconcile /\ cache.stage # "gone" /\ k6' = cache
    <3>1. IsCloudTestRun(cache) => cache.conds # NoConditions
      BY DEF IsCloudTestRun, Holds, IsTrue, NoConditions, NoCondition, CondType
    <3> QED
      BY <2>2, <1>1, <3>1 DEF Reconcile, PLZVersion, Deep
  <2>3. CASE UpdatePatched /\ Moved(Patched)
    <3>1. Marked(Patched)
      BY <2>3, <1>1, PatchedMark DEF SetupInv, UpdatePatched, Moved
    <3> QED
      BY <2>3, <3>1, MovedVersion, UpdateTypes DEF TypeOK
  <2>4. CASE UpdateSkipped /\ Moved(Refetched)
    <3>1. Marked(Refetched)
      BY <2>4, <1>1, RefetchedMark DEF SetupInv, Moved
    <3> QED
      BY <2>4, <3>1, MovedVersion, UpdateTypes DEF TypeOK
  <2>5. CASE Kept
    <3>1. Marked(k6)
      BY <2>5, <1>1 DEF Kept, PastFirst, SetupInv, PLZVersion
    <3> QED
      BY <2>5, <3>1 DEF Kept, Keeps, PLZVersion
  <2>6. CASE CreateClient /\ UNCHANGED k6 /\ pc' \in {"Stage", "StopJobs"}
    BY <2>6, <1>1 DEF CreateClient, SetupInv, Deep
  <2>7. CASE StartTestRun
    <3>1. Marked(Initialize(k6, spec.id, Now))
      BY <2>0, InitializedCopy DEF Marked
    <3> DEFINE failed == [k6 EXCEPT !.stage = "error"]
    <3>2. failed.stage = "error" /\ failed.conds = k6.conds
      BY <2>0 DEF TestRun
    <3>3. PLZVersion(failed)
      BY <3>2, <1>1 DEF PLZVersion, Marked, Holds
    <3> QED
      BY <2>7, <3>1, <3>3 DEF StartTestRun, Goto, Deep, PLZVersion
  <2>8. CASE StopJobs /\ MarkAborted
    <3>1. Marked(k6)
      BY <2>8 DEF StopJobs, SetupInv, Deep
    <3> QED
      BY <2>8, <3>1, AbortedCopy DEF PLZVersion
  <2>9. CASE Stopped /\ \E kept : KillJobs(kept)
    <3>1. Marked(k6)
      BY <2>9, <1>1 DEF Stopped, AtStage, PLZVersion
    <3> QED
      BY <2>9, <3>1, KilledCopy DEF PLZVersion
  <2> QED
    BY <2>1, <2>2, <2>3, <2>4, <2>5, <2>6, <2>7, <2>8, <2>9, CopyStep
<1>7. /\ starter'.todo \subseteq setup'
      /\ \A r \in Runner : pod'[r] = "running" => r \in setup'
  <2>0. /\ starter.todo \subseteq setup
        /\ \A r \in Runner : pod[r] = "running" => r \in setup
    BY DEF SetupInv
  <2>1. CASE UNCHANGED <<pod, starter, setup>>
    BY <2>0, <2>1
  <2>2. CASE \E late \in BOOLEAN, n, m \in 0 .. N : CreateJobs(late) /\ Launched(n, m)
    BY <2>0, <2>2 DEF Launched
  <2>3. CASE (\E late \in BOOLEAN : StartJobs(late)) /\ UNCHANGED <<pod, svc, stopper>>
    <3>1. Marked(k6)
      BY <2>3, <1>1 DEF StartJobs, AtStage, PLZVersion
    <3>2. setup \subseteq setup'
      BY <2>3 DEF StartJobs, RunSetup
    <3>3. \/ UNCHANGED starter
          \/ \E listed \in SUBSET svc :
               RunSetup(listed) /\ starter' = CreateCurlJob(starter, listed)
      BY <2>3 DEF StartJobs
    <3>4. starter'.todo \subseteq setup'
      BY <2>0, <3>1, <3>2, <3>3 DEF RunSetup, CreateCurlJob, Marked
    <3> QED
      BY <2>0, <2>3, <3>2, <3>4
  <2>4. CASE Stopped /\ UNCHANGED <<svc, starter, stopper, setup>>
    BY <2>0, <2>4 DEF Stopped, KillJobs
  <2>5. CASE DeleteTestRun
    BY <2>5 DEF DeleteTestRun, NoCurlJob
  <2>6. CASE Runners
    <3>1. PICK r \in Runner : \/ PodStarts(r) \/ PodServes(r) \/ TestEnds(r)
                              \/ PodFails(r) \/ Resume(r) \/ Stop(r)
      BY <2>6 DEF Runners
    <3>2. UNCHANGED setup
      BY <3>1 DEF PodStarts, PodServes, TestEnds, PodFails, Resume, Stop, SetPod
    <3>3. starter'.todo \subseteq starter.todo
      BY <3>1 DEF PodStarts, PodServes, TestEnds, PodFails, Resume, Stop, TypeOK, ClusterOK, CurlJob
    <3>4. pod \in [Runner -> PodState]
      BY DEF TypeOK, ClusterOK
    <3>5. CASE Resume(r)
      BY <2>0, <3>2, <3>3, <3>4, <3>5 DEF Resume, SetPod
    <3>6. CASE PodServes(r)
      <4>1. spec.paused
        BY ControllerAssumption DEF PLZ, TypeOK
      <4> QED
        BY <2>0, <3>2, <3>3, <3>4, <3>6, <4>1 DEF PodServes, SetPod
    <3>7. CASE PodStarts(r) \/ TestEnds(r) \/ PodFails(r) \/ Stop(r)
      BY <2>0, <3>2, <3>3, <3>4, <3>7 DEF PodStarts, TestEnds, PodFails, Stop, SetPod, OverState
    <3> QED
      BY <3>1, <3>5, <3>6, <3>7
  <2> QED
    BY <2>1, <2>2, <2>3, <2>4, <2>5, <2>6, ClusterStep DEF cluster
<1> QED
  BY <1>3, <1>4, <1>5, <1>6, <1>7 DEF SetupInv

(* A runner of a PLZ test run never executes the test before the data of    *)
(* setup() was sent to it, for any number of runners and whatever fails:    *)
(* a reconcile at stage "created" always sees the PLZ condition.            *)
THEOREM SetupPrecedesStart == Spec => []SetupBeforeStart
<1>1. SetupInv => SetupBeforeStart
  BY DEF SetupInv, SetupBeforeStart
<1> QED
  BY <1>1, TypeInit, TypeStep, LifeInit, LifeStep, SetupInit, SetupStep, PTL DEF Spec
-----------------------------------------------------------------------------
(* The starter job reaches every runner. *)

InJobs(v) == v.stage \in {"created", "started"}

(* Setting stage and condition gives a TestRun with that stage.             *)
LEMMA StageStamped ==
  ASSUME TypeOK, NEW stage \in Stage, NEW type \in CondType, NEW status \in Status
  PROVE  /\ [k6 EXCEPT !.stage = stage].stage = stage
         /\ Stamp([k6 EXCEPT !.stage = stage], type, status, Now).stage = stage
<1>1. k6 \in TestRun /\ Now \in Nat
  BY DEF TypeOK, StoreOK, OperatorOK, Now
<1>2. [k6 EXCEPT !.stage = stage] \in TestRun /\ [k6 EXCEPT !.stage = stage].stage = stage
  BY <1>1, StageType, StageKeeps
<1> QED
  BY <1>1, <1>2, StampKeeps

(* Setting a condition leaves the stage alone.                              *)
LEMMA OnlyStamped ==
  ASSUME TypeOK, NEW obj \in TestRun, NEW type \in CondType, NEW status \in Status
  PROVE  Stamp(obj, type, status, Now).stage = obj.stage
         /\ Stamp(obj, type, status, Now) \in TestRun
<1>1. Now \in Nat
  BY DEF TypeOK, StoreOK, Now
<1> QED
  BY <1>1, StampKeeps, StampType

(* A reconcile's TestRun gets to created only with all jobs and services launched.*)
LEMMA WorkedStage ==
  ASSUME TypeOK, NEW late \in BOOLEAN, Works(late), InJobs(k6')
  PROVE  InJobs(k6) \/ Launched(N, N)
<1>0. k6 \in TestRun /\ ~InJobs(Gone)
  BY DEF TypeOK, OperatorOK, InJobs, Gone
<1>1. ASSUME NEW requeue PROVE ~Return(requeue)
  BY <1>0 DEF Return
<1>2. ASSUME NEW label, NEW obj, Goto(label, obj) \/ GotoQueued(label, obj) PROVE InJobs(obj)
  BY <1>2 DEF Goto, GotoQueued
<1>3. CASE CreateClient
  BY <1>1, <1>3 DEF CreateClient
<1>4. CASE StopJobs
  BY <1>1, <1>4, AbortedCopy DEF StopJobs, StopJobsFailed, InJobs
<1>5. CASE InitializeJobs \/ CleanUp
  BY <1>1, <1>5 DEF InitializeJobs, CleanUp
<1>6. CASE StartTestRun
  <2>1. Initialize(k6, spec.id, Now).stage = k6.stage
    BY <1>0 DEF Initialize, TestRun
  <2>2. ~InJobs([k6 EXCEPT !.stage = "error"])
    BY <1>0, StageKeeps DEF Stage, InJobs
  <2> QED
    BY <1>2, <1>6, <2>1, <2>2 DEF StartTestRun, InJobs
<1>7. CASE RunValidations(late)
  <2> DEFINE typed   == Stamp(k6, "CloudTestRun", "True", Now)
             created == IF IsUnknown(k6.conds, "CloudTestRunCreated")
                        THEN Stamp(typed, "CloudTestRunCreated", "False", Now) ELSE typed
             failed  == [k6 EXCEPT !.stage = "error"]
  <2>1. ~InJobs(k6)
    BY <1>7 DEF RunValidations, AtStage, InJobs
  <2>2. ~InJobs(failed)
    BY <1>0, StageKeeps DEF Stage, InJobs
  <2>3. ~InJobs(Stamp(k6, "CloudTestRun", "False", Now)) /\ typed.stage = k6.stage
        /\ typed \in TestRun
    BY <1>0, <2>1, OnlyStamped DEF CondType, Status, InJobs
  <2>4. created.stage = k6.stage /\ created \in TestRun
    BY <2>3, OnlyStamped DEF CondType, Status
  <2>5. ~InJobs(Stamp(created, "CloudTestRunFinalized", "False", Now))
    BY <2>1, <2>4, OnlyStamped DEF CondType, Status, InJobs
  <2> QED
    BY <1>1, <1>2, <1>7, <2>2, <2>3, <2>5 DEF RunValidations, NotReady
<1>8. CASE SetupCloudTest(late)
  <2>1. runs + 1 \in Nat
    BY ControllerAssumption DEF TypeOK, CloudOK
  <2>2. [k6 EXCEPT !.id = runs + 1].stage = k6.stage /\ [k6 EXCEPT !.id = runs + 1] \in TestRun
    BY <1>0, <2>1 DEF TestRun
  <2>3. Stamp([k6 EXCEPT !.id = runs + 1], "CloudTestRunCreated", "True", Now).stage = k6.stage
    BY <2>2, OnlyStamped DEF CondType, Status
  <2> QED
    BY <1>1, <1>2, <1>8, <2>3 DEF SetupCloudTest, InJobs
<1>9. CASE CreateJobs(late)
  BY <1>1, <1>9 DEF CreateJobs, CreateJobsFailed
<1>10. CASE StartJobs(late) \/ Started(late)
  BY <1>10 DEF StartJobs, Started, AtStage, InJobs
<1>11. CASE Stopped
  <2>1. ~InJobs(k6)
    BY <1>11 DEF Stopped, AtStage, InJobs
  <2> QED
    BY <1>1, <1>2, <1>11, <2>1, KilledCopy DEF Stopped, InJobs
<1>12. CASE Finalize(late)
  <2>1. /\ ~InJobs([k6 EXCEPT !.stage = "finished"])
        /\ ~InJobs(Stamp([k6 EXCEPT !.stage = "finished"], "CloudTestRunFinalized", "True", Now))
    BY StageStamped DEF Stage, CondType, Status, InJobs
  <2> QED
    BY <1>1, <1>2, <1>12, <2>1 DEF Finalize
<1> QED
  BY <1>3, <1>4, <1>5, <1>6, <1>7, <1>8, <1>9, <1>10, <1>11, <1>12 DEF Works

(* The services exist until the TestRun is deleted.                         *)
LEMMA ServicesStay ==
  ASSUME TypeOK, [Next]_vars, svc = Runner \/ Deleted
  PROVE  svc' = Runner \/ Deleted'
<1>1. CASE Deleted
  BY <1>1, DeletedStays
<1>2. CASE svc = Runner
  <2>1. CASE UNCHANGED svc
    BY <1>2, <2>1
  <2>2. CASE DeleteTestRun
    BY <2>2 DEF DeleteTestRun, Deleted, Gone
  <2>3. CASE \E n, m \in 0 .. N : Launched(n, m)
    BY <1>2, <2>3 DEF Launched
  <2> QED
    BY <2>1, <2>2, <2>3, ClusterStep
       DEF cluster, Runners, PodStarts, PodServes, TestEnds, PodFails, Resume, Stop, SetPod
<1> QED
  BY <1>1, <1>2

(* Jobs are killed only when there is a stopper.                            *)
LEMMA JobsStay ==
  ASSUME TypeOK, AbortInv, [Next]_vars, \A r \in Runner : Exists(r)
  PROVE  stopper'.made \/ Deleted' \/ \A r \in Runner : Exists(r)'
<1>0. pod \in [Runner -> PodState]
  BY DEF TypeOK, ClusterOK
<1>1. CASE UNCHANGED pod
  BY <1>1 DEF Exists
<1>2. CASE Stopped
  <2>1. UNCHANGED pod \/ Holds(k6, "CloudTestRunAborted")
    BY <1>2 DEF Stopped
  <2>2. Holds(k6, "CloudTestRunAborted") => stopper'.made \/ Deleted'
    BY StopperStays DEF AbortInv, AbortKnown
  <2> QED
    BY <1>1, <2>1, <2>2
<1>3. CASE DeleteTestRun
  BY <1>3 DEF DeleteTestRun, Deleted, Gone
<1>4. CASE \E n, m \in 0 .. N : Launched(n, m)
  BY <1>4 DEF Launched, Exists
<1>5. CASE Runners
  <2>1. PICK r \in Runner : \/ PodStarts(r) \/ PodServes(r) \/ TestEnds(r)
                            \/ PodFails(r) \/ Resume(r) \/ Stop(r)
    BY <1>5 DEF Runners
  <2>2. \E state : pod' = [pod EXCEPT ![r] = state] /\ (state = "none" => pod[r] = "none")
    BY <2>1 DEF PodStarts, PodServes, TestEnds, PodFails, Resume, Stop, SetPod, OverState
  <2> QED
    BY <1>0, <2>2 DEF Exists
<1> QED
  BY <1>1, <1>2, <1>3, <1>4, <1>5, ClusterStep DEF cluster

(* LaunchInv holds initially.                                               *)
LEMMA LaunchInit == Init => LaunchInv
<1> SUFFICES ASSUME Init PROVE LaunchInv
  OBVIOUS
<1>1. Copies \cup {k6} = {NewTestRun, Gone}
  BY DEF Init, Copies
<1>2. Launch(NewTestRun) /\ Launch(Gone)
  BY DEF Launch, NewTestRun, Gone
<1> QED
  BY <1>1, <1>2 DEF LaunchInv

(* LaunchInv is inductive.                                                  *)
LEMMA LaunchStep ==
  ASSUME TypeOK, LifeInv, AbortInv, LaunchInv, [Next]_vars
  PROVE  LaunchInv'
<1> DEFINE Served == Manned \/ Deleted
<1>1. Served => Served'
  BY ServicesStay, StopperStays, JobsStay DEF Manned
<1>2. InJobs(api) \/ InJobs(cache) \/ InJobs(k6) => Served
  BY DEF LaunchInv, Launch, Copies, InJobs
<1>3. InJobs(Patched) => Served
  BY <1>2, PatchedStage DEF InJobs
<1>4. InJobs(api') => Served'
  BY <1>1, <1>2, <1>3, StoreStep DEF UpdatePatched, DeleteTestRun, Gone, InJobs
<1>5. InJobs(k6') => Served'
  <2>1. ASSUME NEW late \in BOOLEAN, Updates(late), InJobs(k6') PROVE Served'
    <3>1. Patched \in TestRun /\ Refetched \in TestRun /\ ~InJobs(Gone)
      BY UpdateTypes DEF TypeOK, Gone, InJobs
    <3>2. ASSUME NEW obj \in TestRun, Moved(obj) PROVE InJobs(obj)
      BY <2>1, <3>2, StageKeeps DEF Moved, InJobs, Stage
    <3> QED
      BY <2>1, <1>1, <1>2, <1>3, <3>1, <3>2, UpdatedCopy DEF Finished, Refetched
  <2>2. Launched(N, N) => Served'
    <3>1. Runner = {r \in Runner : r <= N}
      BY ControllerAssumption DEF Runner
    <3> QED
      BY <3>1, DeletedStays DEF Launched, Manned, Exists, TypeOK, ClusterOK
  <2>3. ASSUME NEW late \in BOOLEAN, Works(late), InJobs(k6') PROVE Served'
    BY <2>2, <2>3, <1>1, <1>2, WorkedStage
  <2>4. ASSUME NEW late \in BOOLEAN, Operator(late) PROVE Reconcile \/ Updates(late) \/ Works(late)
    BY <2>4 DEF Operator, Updates, Works
  <2>5. CASE Reconcile
    BY <2>5, <1>1, <1>2 DEF Reconcile
  <2>6. CASE Restart
    BY <2>6 DEF Restart, Gone, InJobs
  <2>7. CASE \/ CacheSync \/ Resync \/ InitializerEnds \/ Runners
             \/ Events \/ CloudAborts \/ UserDeletes
             \/ UNCHANGED vars
    <3>1. UNCHANGED k6
      BY <2>7 DEF CacheSync, Resync, InitializerEnds, Runners, PodStarts, PodServes, TestEnds,
         PodFails, Resume, Stop, SetPod, Events, EventArrives, CloudAborts, UserDeletes,
         operator, vars
    <3> QED
      BY <3>1, <1>1, <1>2
  <2> QED
    BY <2>1, <2>3, <2>4, <2>5, <2>6, <2>7 DEF Next
<1>6. \A v \in Copies : InJobs(v) => Served'
  BY <1>1 DEF LaunchInv, Launch, InJobs
<1>7. Copies' \subseteq Copies \cup {api'}
  BY CopiesStep DEF TypeOK
<1> QED
  BY <1>4, <1>5, <1>6, <1>7 DEF LaunchInv, Launch, InJobs

(* The starter stays complete when services are listed from an up-to-date   *)
(* cache: StartJobs works on a copy that says created.                      *)
LEMMA HostsStep ==
  ASSUME TypeOK, LaunchInv, StarterReachesAll, [Next]_vars, "lag" \notin Faults
  PROVE  StarterReachesAll'
<1>1. CASE UNCHANGED starter
  BY <1>1 DEF StarterReachesAll
<1>2. CASE \E late \in BOOLEAN : StartJobs(late)
  <2>1. svc = Runner \/ Deleted
    BY <1>2 DEF StartJobs, AtStage, LaunchInv, Launch, Manned
  <2>2. UNCHANGED starter \/ starter' = CreateCurlJob(starter, svc)
    BY <1>2 DEF StartJobs, ListServices, Fault
  <2> QED
    BY <2>1, <2>2, <1>1 DEF CreateCurlJob, StarterReachesAll
<1>3. CASE DeleteTestRun
  BY <1>3 DEF DeleteTestRun, NoCurlJob, StarterReachesAll
<1>4. CASE Runners
  BY <1>4 DEF Runners, PodStarts, PodServes, TestEnds, PodFails, Resume, Stop, TypeOK, ClusterOK,
     CurlJob, StarterReachesAll
<1> QED
  BY <1>1, <1>2, <1>3, <1>4, ClusterStep DEF cluster, Launched

(* As long as the cache shows the services that exist, the starter job      *)
(* resumes every runner, for any number of runners and although StartJobs   *)
(* never compares the hostnames it found with the parallelism.              *)
THEOREM StarterComplete ==
  ASSUME "lag" \notin Faults
  PROVE  Spec => []StarterReachesAll
<1>1. Init => StarterReachesAll
  BY DEF Init, NoCurlJob, StarterReachesAll
<1>2. TypeOK /\ LaunchInv /\ StarterReachesAll /\ [Next]_vars => StarterReachesAll'
  BY HostsStep
<1> QED
  BY <1>1, <1>2, TypeInit, TypeStep, LifeInit, LifeStep, AbortInit, AbortStep, LaunchInit,
     LaunchStep, PTL DEF Spec

(* While a TestRun is stored as created or started, every runner has its    *)
(* service, and its job unless the test was aborted, for any number of      *)
(* runners and whatever fails, is stale or is repeated.                     *)
THEOREM JobsExist == Spec => []JobsBehindStage
<1>1. LaunchInv => JobsBehindStage
  BY DEF LaunchInv, Launch, Manned, JobsBehindStage, Deleted, Copies
<1> QED
  BY <1>1, TypeInit, TypeStep, LifeInit, LifeStep, AbortInit, AbortStep, LaunchInit, LaunchStep,
     PTL DEF Spec
=============================================================================
