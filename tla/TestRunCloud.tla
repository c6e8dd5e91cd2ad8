----------------------------- MODULE TestRunCloud -----------------------------
(***************************************************************************)
(* The test runs at the k6 Cloud and what the TestRun says of them, for    *)
(* every parallelism, set of specs and bounds: how many there are, as long *)
(* as no write of the operator is lost, and, under all faults, that the    *)
(* one of a finalized TestRun has ended.                                   *)
(***************************************************************************)
EXTENDS TestRunFresh
-----------------------------------------------------------------------------
(* At most one test run at the k6 Cloud. *)

(* No write of the operator is lost, by an outdated read, by a crash, by a  *)
(* lost answer or by a failed write.                                        *)
NoLoss == Faults \cap {"stale", "crash", "lost", "patch"} = {}

Created == "CloudTestRunCreated"

(* A test run is created only for a TestRun that says there is none.        *)
SetupDenied == pc = "SetupCloudTest" => Denied(k6, Created)

(* A copy of a PLZ test run says that its test run was created.             *)
Told(v) == Marked(v) => Holds(v, Created)

PLZCreated == PLZ => runs = 1 /\ \A v \in Copies \cup {k6} : Told(v)

Registered(v) == v.stage # "" /\ Holds(v, Created)

(* Before a test run is created no copy says so; after it every copy does,  *)
(* as soon as the reconcile that created it has stored it.                  *)
NoRunInv == ~PLZ /\ runs = 0 => \A v \in Copies \cup {k6} : ~Holds(v, Created)

RunInv ==
  ~PLZ /\ runs # 0 =>
    /\ runs = 1
    /\ pc = "idle" => Deleted \/ Registered(api)
    /\ pc \notin {"idle", "U_created"}
          => Registered(k6) /\ \A v \in Copies : v.stage = "gone" \/ Registered(v)
    /\ pc = "U_created" => /\ Holds(k6, Created) /\ k6.conds[Created].time = Now
                           /\ \A v \in Copies : ~Holds(v, Created)

(* SetupDenied holds initially.                                             *)
LEMMA SetupDeniedInit == Init => SetupDenied
  BY DEF Init, SetupDenied

(* SetupDenied is inductive.                                                *)
LEMMA SetupDeniedStep ==
  ASSUME TypeOK, SetupDenied, [Next]_vars
  PROVE  SetupDenied'
<1> SUFFICES ASSUME pc' = "SetupCloudTest" PROVE Denied(k6', Created)
  BY DEF SetupDenied, Denied
<1>1. ASSUME NEW obj, CloudStep(obj) PROVE Denied(k6', Created)
  BY <1>1, GotoFlow DEF CloudStep, Created
<1>2. ASSUME NEW requeue PROVE ~Return(requeue)
  BY DEF Return
<1>3. ASSUME NEW label, NEW obj, label # "SetupCloudTest" PROVE ~Goto(label, obj)
  BY <1>3 DEF Goto
<1>4. ASSUME NEW late \in BOOLEAN, Updates(late) PROVE Denied(k6', Created)
  <2>1. ASSUME NEW obj, AfterValidation(obj) PROVE Denied(k6', Created)
    BY <1>1, <1>2, <1>3, <2>1 DEF AfterValidation
  <2>2. CASE UpdateValidated(late)
    BY <1>2, <2>1, <2>2 DEF UpdateValidated, NotReady
  <2>3. CASE UpdateInitialized
    BY <1>1, <1>2, <2>3 DEF UpdateInitialized
  <2> QED
    BY <1>2, <1>3, <1>4, <2>2, <2>3 DEF Updates, UpdateAndReturn, UpdateConditions, FirstStage,
       UpdateInitialization, UpdateInspect, NotReady, UpdateKilled
<1>5. ASSUME NEW late \in BOOLEAN, Operator(late)
      PROVE  Reconcile \/ Updates(late) \/ Works(late)
  BY <1>5 DEF Operator, Updates, Works
<1>6. ASSUME NEW late \in BOOLEAN, Works(late) PROVE FALSE
  BY <1>6, WorkSteps DEF Finished, WorkFlow, Flow
<1>7. CASE UNCHANGED <<pc, k6>>
  BY <1>7 DEF SetupDenied
<1> QED
  BY <1>4, <1>5, <1>6, <1>7, WorldSteps DEF Next, World, Reconcile, Restart

(* Setting a condition leaves the others alone.                             *)
LEMMA StampOther ==
  ASSUME NEW obj \in TestRun, NEW type, NEW status, NEW now, NEW c \in CondType \ {type}
  PROVE  Stamp(obj, type, status, now).conds[c] = obj.conds[c]
  BY DEF Stamp, UpdateCondition, SetStatusCondition, TestRun

(* What the steps of a reconcile make of the condition Created: it is set   *)
(* to False only where it was unknown.                                      *)
LEMMA CreatedWork ==
  ASSUME TypeOK, NEW late \in BOOLEAN, Works(late)
  PROVE  \/ Finished
         \/ StartTestRun
         \/ pc = "SetupCloudTest"
         \/ k6'.conds[Created] = k6.conds[Created]
         \/ IsUnknown(k6.conds, Created) /\ pc = "Stage" /\ k6.stage = "initialization"
            /\ ~Holds(k6', Created)
<1>0. k6 \in TestRun /\ Created \in CondType
  BY DEF TypeOK, OperatorOK, Created, CondType
<1>1. CASE Changed(k6', Touched) /\ Created \notin Touched
  BY <1>0, <1>1 DEF Changed
<1>2. CASE Changed(k6', Touched) /\ Created \in Touched /\ pc # "SetupCloudTest"
  <2>1. pc = "Stage" /\ k6.stage = "initialization"
    BY <1>2 DEF Touched, Created
  <2>2. RunValidations(late)
    BY <2>1 DEF Works, CreateClient, StopJobs, StartTestRun, InitializeJobs, SetupCloudTest,
       CreateJobs, StartJobs, Started, Stopped, Finalize, CleanUp, AtStage
  <2> DEFINE typed   == Stamp(k6, "CloudTestRun", "True", Now)
             denied  == Stamp(typed, "CloudTestRunCreated", "False", Now)
             created == IF IsUnknown(k6.conds, "CloudTestRunCreated") THEN denied ELSE typed
             failed  == [k6 EXCEPT !.stage = "error"]
  <2>3. failed.conds = k6.conds
    BY <1>0 DEF TestRun
  <2>4. /\ Stamp(k6, "CloudTestRun", "False", Now).conds[Created] = k6.conds[Created]
        /\ typed.conds[Created] = k6.conds[Created] /\ typed \in TestRun
    BY <1>0, StampOther, OnlyStamped DEF Created, CondType, Status
  <2>5. ~Holds(denied, Created) /\ denied \in TestRun
    <3>1. Now \in Nat
      BY DEF Now, TypeOK, StoreOK
    <3> QED
      BY <2>4, <3>1, StampKeeps, StampType DEF Created, CondType, Status
  <2>6. created \in TestRun /\
        IF IsUnknown(k6.conds, Created) THEN ~Holds(created, Created)
        ELSE created.conds[Created] = k6.conds[Created]
    BY <2>4, <2>5 DEF Created
  <2>7. Stamp(created, "CloudTestRunFinalized", "False", Now).conds[Created] = created.conds[Created]
    BY <1>0, <2>6, StampOther DEF Created
  <2>8. \/ Finished \/ k6' = failed \/ k6' = Stamp(k6, "CloudTestRun", "False", Now)
        \/ k6' = Stamp(created, "CloudTestRunFinalized", "False", Now)
    BY <2>2, ReturnEnds, GotoFlow DEF RunValidations, NotReady
  <2> QED
    BY <2>1, <2>3, <2>4, <2>6, <2>7, <2>8 DEF Holds, IsTrue
<1> QED
  BY <1>1, <1>2, WorkConds

(* Test runs are created by SetupCloudTest and nowhere else.                *)
LEMMA RunsStep ==
  ASSUME [Next]_vars, runs' # runs
  PROVE  \E late \in BOOLEAN : SetupCloudTest(late) /\ CreateTestRun
<1>1. ASSUME NEW late \in BOOLEAN, Updates(late) PROVE UNCHANGED runs
  BY <1>1 DEF Updates, UpdateAndReturn, UpdateConditions, UpdateInitialization, UpdateInspect,
     UpdateValidated, UpdateInitialized, UpdateKilled, cloudk6
<1>2. ASSUME NEW late \in BOOLEAN, Works(late) \/ Reconcile
      PROVE  UNCHANGED runs \/ (SetupCloudTest(late) /\ CreateTestRun)
  BY <1>2 DEF Works, Reconcile, CreateClient, StopJobs, StartTestRun, InitializeJobs,
     RunValidations, SetupCloudTest, CreateJobs, StartJobs, Started, Stopped, Finalize, CleanUp,
     cloudk6
<1>3. ASSUME NEW late \in BOOLEAN, Operator(late) PROVE Reconcile \/ Updates(late) \/ Works(late)
  BY <1>3 DEF Operator, Updates, Works
<1>4. CASE World \/ Restart
  BY <1>4 DEF World, Restart, CacheSync, Resync, InitializerEnds, Runners, PodStarts, PodServes,
     TestEnds, PodFails, Resume, Stop, SetPod, Events, EventArrives, CloudAborts, UserDeletes,
     cloudk6, vars
<1> QED
  BY <1>1, <1>2, <1>3, <1>4 DEF Next, World
-----------------------------------------------------------------------------
(* The test run of a PLZ. *)

(* PLZCreated holds initially.                                              *)
LEMMA PLZCreatedInit == Init => PLZCreated
<1> SUFFICES ASSUME Init, PLZ PROVE PLZCreated
  BY DEF PLZCreated
<1>1. Copies \cup {k6} = {NewTestRun, Gone}
  BY DEF Init, Copies
<1>2. Told(NewTestRun) /\ Told(Gone)
  BY DEF Told, Marked, Holds, IsTrue, NewTestRun, Gone, NoConditions, NoCondition, CondType
<1>3. runs = 1
  BY ControllerAssumption DEF Init, PLZ
<1> QED
  BY <1>1, <1>2, <1>3 DEF PLZCreated

(* Mixing copies that have no conditions or are created gives one.          *)
LEMMA PatchedTold ==
  ASSUME TypeOK, Told(api), Told(cache), Told(k6), PLZVersion(cache), PLZVersion(k6)
  PROVE  Told(Patched)
<1>0. Created \in CondType /\ "CloudPLZTestRun" \in CondType
  BY DEF Created, CondType
<1>1. \A c \in CondType :
        Merged.conds[c] = IF /\ Accepts(cache.conds[c], k6.conds[c])
                             /\ cache.conds[c].status # k6.conds[c].status
                          THEN k6.conds[c] ELSE cache.conds[c]
  BY DEF Merged, SetIfNewer, MergedConditions, TypeOK, StoreOK, TestRun
<1>2. \A v : v.conds = NoConditions => \A c \in CondType : v.conds[c].status = "Absent"
  BY DEF NoConditions, NoCondition
<1>3. Told(Merged)
  <2>1. CASE cache.conds = NoConditions
    BY <1>0, <1>1, <1>2, <2>1 DEF Told, Marked, Holds, IsTrue, Accepts
  <2>2. CASE Marked(cache)
    <3>1. k6.conds = NoConditions \/ Holds(k6, Created)
      BY DEF PLZVersion, Told
    <3> QED
      BY <1>0, <1>1, <1>2, <2>2, <3>1 DEF Told, Holds, IsTrue, Accepts
  <2> QED
    BY <2>1, <2>2 DEF PLZVersion
<1> QED
  BY <1>3 DEF Patched, MergePatch, Told, Marked, Holds

(* A reconcile of a PLZ test run is never about to create another one.      *)
LEMMA PLZNoSetup ==
  ASSUME PLZ, SetupInv, SetupDenied, PLZCreated
  PROVE  pc # "SetupCloudTest"
<1>1. pc = "SetupCloudTest" => Marked(k6)
  BY DEF SetupInv, Deep
<1> QED
  BY <1>1 DEF PLZCreated, Told, SetupDenied, Denied, Holds, IsTrue, IsFalse

(* PLZCreated is inductive.                                                 *)
LEMMA PLZCreatedStep ==
  ASSUME TypeOK, SetupInv, SetupDenied, PLZCreated, [Next]_vars
  PROVE  PLZCreated'
<1> SUFFICES ASSUME PLZ PROVE runs' = 1 /\ \A v \in Copies' \cup {k6'} : Told(v)
  BY SpecStays DEF PLZCreated, PLZ, Told, Marked, Holds
<1>0. pc # "SetupCloudTest" /\ runs = 1
  BY PLZNoSetup DEF PLZCreated
<1>1. runs' = 1
  BY <1>0, RunsStep DEF SetupCloudTest
<1>2. /\ Told(api) /\ Told(cache) /\ Told(k6) /\ Told(Gone)
      /\ PLZVersion(api) /\ PLZVersion(cache) /\ PLZVersion(k6)
  BY GoneHolds DEF PLZCreated, SetupInv, Copies, Told, Marked, CondType
<1>3. Told(Patched) /\ Told(Refetched)
  BY <1>2, PatchedTold DEF Refetched
<1>4. Told(api')
  BY <1>2, <1>3, StoreStep DEF UpdatePatched, DeleteTestRun
<1>5. Told(k6')
  <2>0. k6 \in TestRun /\ Now \in Nat /\ spec.id \in Nat /\ spec.id # 0
        /\ "CloudPLZTestRun" \in CondType
    BY SpecIDType DEF TypeOK, StoreOK, OperatorOK, PLZ, Now, CondType
  <2>1. CASE Worked
    <3>1. PICK late \in BOOLEAN : Works(late)
      BY <2>1 DEF Worked
    <3>2. CASE Finished
      BY <1>2, <3>2 DEF Finished
    <3>3. CASE StartTestRun
      <4>1. Holds(Initialize(k6, spec.id, Now), Created)
        BY <2>0 DEF Initialize, InitialStatus, Holds, IsTrue, TestRun, Created, CondType
      <4>2. [k6 EXCEPT !.stage = "error"].conds = k6.conds
        BY <2>0 DEF TestRun
      <4>3. k6' = Initialize(k6, spec.id, Now) \/ k6' = [k6 EXCEPT !.stage = "error"]
        BY <3>3, GotoFlow DEF StartTestRun
      <4> QED
        BY <1>2, <4>1, <4>2, <4>3 DEF Told, Marked, Holds
    <3>4. CASE Changed(k6', Touched) /\ ~StartTestRun /\ ~Finished
      <4>1. k6'.conds["CloudPLZTestRun"] = k6.conds["CloudPLZTestRun"]
        BY <2>0, <3>4 DEF Changed, Touched
      <4>2. CASE k6'.conds[Created] = k6.conds[Created]
        BY <1>2, <4>1, <4>2 DEF Told, Marked, Holds, IsTrue
      <4>3. CASE IsUnknown(k6.conds, Created) /\ k6.stage = "initialization"
        BY <1>2, <4>3 DEF Told, PLZVersion, Holds, IsTrue, IsUnknown
      <4> QED
        BY <1>0, <3>1, <3>4, <4>2, <4>3, CreatedWork
    <3> QED
      BY <3>1, <3>2, <3>3, <3>4, WorkConds
  <2>2. ASSUME NEW obj, Told(obj), Passed(obj) PROVE Told(k6')
    BY <2>2 DEF Passed, Told, Marked, Holds
  <2>3. CASE Finished \/ Still \/ Begins
    BY <1>2, <2>3 DEF Finished, Still, Begins
  <2> QED
    BY <1>3, <2>1, <2>2, <2>3, JointStep
<1> QED
  BY <1>1, <1>4, <1>5, CopiesStep DEF TypeOK, PLZCreated

(* No second test run is created for the test run of a PLZ, whatever fails. *)
THEOREM PLZRunOnce ==
  ASSUME \A s \in Specs : s.id # 0
  PROVE  Spec => []AtMostOneCloudRun
<1>1. TypeOK /\ PLZCreated => AtMostOneCloudRun
  BY DEF TypeOK, PLZ, PLZCreated, AtMostOneCloudRun
<1> QED
  BY <1>1, TypeInit, TypeStep, LifeInit, LifeStep, SetupInit, SetupStep, SetupDeniedInit,
     SetupDeniedStep, PLZCreatedInit, PLZCreatedStep, PTL DEF Spec
-----------------------------------------------------------------------------
(* The test run of a TestRun with --out cloud. *)

(* A reconcile that goes on after SetupCloudTest has created a test run.    *)
LEMMA SetupCreates ==
  ASSUME Worked, pc = "SetupCloudTest"
  PROVE  CreateTestRun /\ pc' = "U_created"
         /\ k6' = Stamp([k6 EXCEPT !.id = runs + 1], "CloudTestRunCreated", "True", Now)
<1>1. pc' = "U_created"
  BY DEF Worked, WorkFlow, Flow
<1>2. \E late \in BOOLEAN : SetupCloudTest(late)
  BY DEF Worked, Works, CreateClient, StopJobs, StartTestRun, InitializeJobs, RunValidations,
     CreateJobs, StartJobs, Started, Stopped, Finalize, CleanUp, AtStage
<1> QED
  BY <1>1, <1>2, GotoFlow DEF SetupCloudTest, Return

(* NoRunInv and RunInv hold initially.                                      *)
LEMMA RunInit == Init => NoRunInv /\ RunInv
<1> SUFFICES ASSUME Init PROVE NoRunInv /\ RunInv
  OBVIOUS
<1>1. Copies \cup {k6} = {NewTestRun, Gone}
  BY DEF Init, Copies
<1>2. ~Holds(NewTestRun, Created) /\ ~Holds(Gone, Created)
  BY DEF Holds, IsTrue, NewTestRun, Gone, NoConditions, NoCondition, CondType, Created
<1> QED
  BY <1>1, <1>2 DEF NoRunInv, RunInv, Init, PLZ

(* NoRunInv is inductive: only SetupCloudTest sets the condition to True.   *)
LEMMA NoRunStep ==
  ASSUME TypeOK, NoRunInv, [Next]_vars
  PROVE  NoRunInv'
<1> SUFFICES ASSUME ~PLZ, runs' = 0 PROVE \A v \in Copies' \cup {k6'} : ~Holds(v, Created)
  BY SpecStays DEF NoRunInv, PLZ, Holds
<1>0. Created \in CondType /\ k6 \in TestRun /\ spec.id = 0 /\ runs \in Nat
  BY ControllerAssumption DEF Created, CondType, TypeOK, OperatorOK, CloudOK, PLZ
<1>1. runs = 0 /\ ~CreateTestRun
  BY <1>0, RunsStep DEF CreateTestRun
<1>2. ~Holds(api, Created) /\ ~Holds(cache, Created) /\ ~Holds(k6, Created) /\ ~Holds(Gone, Created)
  BY <1>0, <1>1, GoneHolds DEF NoRunInv, Copies
<1>3. ~Holds(Patched, Created) /\ ~Holds(Refetched, Created)
  BY <1>0, <1>2, PatchedHolds DEF Refetched, TypeOK
<1>4. ~Holds(api', Created)
  BY <1>2, <1>3, StoreStep DEF UpdatePatched, DeleteTestRun
<1>5. ~Holds(k6', Created)
  <2>1. CASE Worked
    <3>1. PICK late \in BOOLEAN : Works(late)
      BY <2>1 DEF Worked
    <3>2. CASE StartTestRun
      <4>1. ~Holds(Initialize(k6, spec.id, Now), Created)
        BY <1>0 DEF Initialize, InitialStatus, Holds, IsTrue, TestRun, Created, CondType,
           NoCondition
      <4>2. [k6 EXCEPT !.stage = "error"].conds = k6.conds
        BY <1>0 DEF TestRun
      <4>3. k6' = Initialize(k6, spec.id, Now) \/ k6' = [k6 EXCEPT !.stage = "error"]
        BY <3>2, GotoFlow DEF StartTestRun
      <4> QED
        BY <1>2, <4>1, <4>2, <4>3 DEF Holds
    <3>3. CASE k6'.conds[Created] = k6.conds[Created]
      BY <1>2, <3>3 DEF Holds, IsTrue
    <3>4. CASE Finished
      BY <1>2, <3>4 DEF Finished
    <3>5. pc # "SetupCloudTest"
      BY <1>1, <2>1, SetupCreates
    <3> QED
      BY <3>1, <3>2, <3>3, <3>4, <3>5, CreatedWork
  <2>2. ASSUME NEW obj, ~Holds(obj, Created), Passed(obj) PROVE ~Holds(k6', Created)
    BY <2>2 DEF Passed, Holds
  <2>3. CASE Finished \/ Still \/ Begins
    BY <1>2, <2>3 DEF Finished, Still, Begins
  <2> QED
    BY <1>3, <2>1, <2>2, <2>3, JointStep
<1> QED
  BY <1>1, <1>4, <1>5, CopiesStep DEF TypeOK, NoRunInv

(* A status write does not lose the test run that all its copies know.      *)
LEMMA PatchedRegistered ==
  ASSUME TypeOK, Registered(api), Registered(cache), Registered(k6)
  PROVE  Registered(Patched)
<1>1. Created \in CondType
  BY DEF Created, CondType
<1>2. Patched.conds[Created].status = "True"
  BY <1>1, PatchedFrom DEF Registered, Holds, IsTrue
<1> QED
  BY <1>2, PatchedStage DEF Registered, Holds, IsTrue

(* The reconcile that created a test run ends with the TestRun stored as    *)
(* created, or deleted.                                                     *)
LEMMA CreatedStored ==
  ASSUME NoLoss, TypeOK, LabelInv, StageInv, SingleInv, TimeInv, ~PLZ, runs # 0, RunInv,
         [Next]_vars, pc = "U_created", pc' = "idle", ~Deleted'
  PROVE  Registered(api')
<1>0. ~Deleted /\ Created \in CondType
  BY DeletedStays DEF Created, CondType
<1>1. api.stage = "initialization" /\ cache.stage = "initialization"
  BY <1>0 DEF SingleInv, Second, StageInv, Copies
<1>2. /\ Holds(k6, Created) /\ k6.conds[Created].time = Now
      /\ ~Holds(api, Created) /\ ~Holds(cache, Created)
  BY DEF RunInv, Copies
<1>3. cache.conds[Created].time < Now
  <2>1. /\ cache.conds[Created].time <= clock
        /\ cache.conds[Created].time \in Nat /\ clock \in Nat
    BY <1>0, TimeType DEF TimeInv, Copies, TypeOK, StoreOK
  <2> QED
    BY <2>1 DEF Now
<1>4. Accepts(cache.conds[Created], k6.conds[Created])
  BY <1>2, <1>3 DEF Accepts, Holds, IsTrue
<1>5. UpdateWanted
  BY <1>0, <1>1, <1>4 DEF UpdateWanted, IsNewer, ConditionsNewer, TypeOK, StoreOK, TestRun
<1>6. UpdatePatched
  <2>1. ASSUME NEW late \in BOOLEAN, Operator(late)
        PROVE  Reconcile \/ Updates(late) \/ Works(late)
    BY <2>1 DEF Operator, Updates, Works
  <2>2. ASSUME NEW late \in BOOLEAN PROVE ~Works(late)
    BY DEF Works, CreateClient, StopJobs, StartTestRun, InitializeJobs, RunValidations,
       SetupCloudTest, CreateJobs, StartJobs, Started, Stopped, Finalize, CleanUp, AtStage
  <2>3. ~Reconcile /\ ~Restart /\ ~World
    BY WorldSteps DEF Reconcile, Restart, Fault, NoLoss
  <2>4. \E late \in BOOLEAN : Updates(late)
    BY <2>1, <2>2, <2>3 DEF Next, World
  <2>5. UpdatePatched \/ UpdateSkipped \/ UpdateFailed
    BY <2>4, UpdateSteps
  <2> QED
    BY <1>0, <1>5, <2>5 DEF UpdateSkipped, UpdateFailed, Fault, NoLoss
<1>7. Merged.conds[Created] = k6.conds[Created]
  BY <1>0, <1>2, <1>4 DEF Merged, SetIfNewer, MergedConditions, TypeOK, StoreOK, TestRun, Holds,
     IsTrue
<1>8. Patched.conds = Merged.conds
  BY <1>2, <1>7 DEF Patched, MergePatch, Holds, IsTrue
<1>9. Patched.stage # ""
  <2>1. Patched.stage = api.stage \/ StageAccepts(cache.stage, Patched.stage)
    BY DEF Patched, MergePatch, Merged, SetIfNewer
  <2> QED
    BY <1>1, <2>1 DEF StageAccepts
<1> QED
  BY <1>2, <1>6, <1>7, <1>8, <1>9 DEF UpdatePatched, Registered, Holds, IsTrue

(* Once a test run is created, every copy of the TestRun that is or comes   *)
(* to be says so.                                                           *)
LEMMA RunStep ==
  ASSUME NoLoss, TypeOK, WatchInv, LabelInv, StageInv, SingleInv, TimeInv, SetupDenied, NoRunInv,
         RunInv, [Next]_vars
  PROVE  RunInv'
<1> SUFFICES ASSUME ~PLZ, runs' # 0
             PROVE  /\ runs' = 1
                    /\ pc' = "idle" => Deleted' \/ Registered(api')
                    /\ pc' \notin {"idle", "U_created"}
                          => /\ Registered(k6')
                             /\ \A v \in Copies' : v.stage = "gone" \/ Registered(v)
                    /\ pc' = "U_created"
                          => /\ Holds(k6', Created) /\ k6'.conds[Created].time = Now'
                             /\ \A v \in Copies' : ~Holds(v, Created)
  BY SpecStays DEF RunInv, PLZ, Registered, Holds
<1>0. /\ Created \in CondType /\ k6 \in TestRun /\ runs \in Nat /\ Now \in Nat
      /\ NoStale /\ "lost" \notin Faults
  BY ControllerAssumption
     DEF Created, CondType, TypeOK, OperatorOK, CloudOK, NoLoss, NoStale, StoreOK, Now
<1>1. CASE runs = 0
  <2>1. PICK late \in BOOLEAN : SetupCloudTest(late) /\ CreateTestRun
    BY <1>1, RunsStep
  <2> DEFINE named == [k6 EXCEPT !.id = runs + 1]
             new   == Stamp(named, "CloudTestRunCreated", "True", Now)
  <2>2. pc' = "U_created" /\ k6' = new /\ UNCHANGED store /\ runs' = 1
    <3>1. runs' = 1 /\ runs' # runs
      BY <1>0, <1>1, <2>1 DEF CreateTestRun
    <3>2. Goto("U_created", Stamp(named, "CloudTestRunCreated", "True", Now)) /\ UNCHANGED store
      BY <1>0, <2>1, <3>1 DEF SetupCloudTest, Fault, cloudk6
    <3> HIDE DEF named
    <3> QED
      BY <3>1, <3>2 DEF Goto
  <2>3. Copies' = Copies /\ Now' = Now
    BY <2>2 DEF store, Copies, Now
  <2>4. \A v \in Copies \cup {k6} : ~Holds(v, Created)
    BY <1>1 DEF NoRunInv
  <2>5. named \in TestRun /\ named.conds = k6.conds
    BY <1>0 DEF TestRun
  <2>6. new.conds[Created] = [status |-> "True", time |-> Now]
    <3>1. named.conds[Created].status # "True"
      BY <2>4, <2>5 DEF Holds, IsTrue
    <3> QED
      BY <1>0, <2>5, <3>1 DEF Stamp, UpdateCondition, SetStatusCondition, TestRun, Created
  <2> QED
    BY <2>2, <2>3, <2>4, <2>6 DEF Holds, IsTrue
<1>2. CASE runs # 0
  <2>0. runs = 1 /\ pc # "SetupCloudTest"
    BY <1>2 DEF RunInv, SetupDenied, Registered, Holds, Denied, IsTrue, IsFalse
  <2>1. runs' = 1
    BY <2>0, RunsStep DEF SetupCloudTest
  <2>2. \A v : v = Gone => v.stage = "gone" /\ ~Holds(v, Created)
    BY <1>0, GoneHolds DEF Gone
  <2>3. CASE pc = "U_created"
    <3>1. Finished \/ Still
      BY <2>3, JointStep DEF Begins, Worked, WorkFlow, Flow, Passed, UpdateFlow
    <3>2. CASE Still
      <4>1. UNCHANGED <<pc, k6, clock>> /\ api' \in {api, Gone}
        BY <3>2 DEF Still, store, Synced, DeleteTestRun
      <4>2. \A v \in Copies : ~Holds(v, Created)
        BY <1>2, <2>3 DEF RunInv
      <4>3. \A v \in Copies' : ~Holds(v, Created)
        BY <2>2, <4>1, <4>2, CopiesStep DEF TypeOK, Copies
      <4> QED
        BY <1>2, <2>1, <2>3, <4>1, <4>3 DEF RunInv, Now
    <3>3. CASE Finished
      BY <1>2, <2>1, <2>3, <3>3, CreatedStored DEF Finished
    <3> QED
      BY <3>1, <3>2, <3>3
  <2>4. CASE pc = "idle"
    <3>1. api' \in {api, Gone}
      BY <2>4, StoreStep DEF UpdateLabel, DeleteTestRun
    <3>2. Deleted' \/ Registered(api')
      BY <1>2, <2>2, <2>4, <3>1 DEF RunInv, Deleted
    <3>3. CASE Begins /\ UNCHANGED store /\ (NoStale => watch = <<>>)
      <4>1. k6' = api /\ Copies' = {api'} /\ api' = api /\ cache = api /\ ~Deleted
        BY <1>0, <3>3, BeginsAlone DEF Begins, Deleted, store
      <4> QED
        BY <2>1, <3>2, <3>3, <4>1 DEF Begins, Deleted
    <3>4. CASE pc' = "idle"
      BY <2>1, <3>2, <3>4
    <3> QED
      BY <2>4, <3>3, <3>4, JointStep DEF Finished, Still, Worked, WorkFlow, Flow, Passed, UpdateFlow
  <2>5. CASE pc \notin {"idle", "U_created"}
    <3>0. Registered(k6) /\ \A v \in Copies : v.stage = "gone" \/ Registered(v)
      BY <1>2, <2>5 DEF RunInv
    <3>1. UpdatePatched => Registered(Patched)
      BY <3>0, PatchedRegistered DEF UpdatePatched, UpdateWanted, Deleted, Copies
    <3>2. api'.stage = "gone" \/ Registered(api')
      BY <2>2, <3>0, <3>1, StoreStep DEF UpdatePatched, DeleteTestRun, Copies
    <3>3. \A v \in Copies' : v.stage = "gone" \/ Registered(v)
      BY <3>0, <3>2, CopiesStep DEF TypeOK
    <3>4. Registered(Refetched)
      BY <3>0 DEF Refetched, Copies
    <3>5. CASE Worked
      <4>1. PICK late \in BOOLEAN : Works(late)
        BY <3>5 DEF Worked
      <4>2. pc' \notin {"idle", "U_created"} /\ k6'.stage # "" /\ ~StartTestRun
        BY <2>0, <3>0, <3>5 DEF Worked, WorkFlow, Flow, Registered, StartTestRun, AtStage
      <4>3. k6'.conds[Created] = k6.conds[Created]
        BY <2>0, <3>0, <4>1, <4>2, CreatedWork DEF Finished, Registered, Holds, IsUnknown
      <4> QED
        BY <2>1, <3>0, <3>3, <4>2, <4>3 DEF Registered, Holds, IsTrue
    <3>6. ASSUME NEW obj, Registered(obj), Passed(obj)
          PROVE  Registered(k6') /\ pc' \notin {"idle", "U_created"}
      BY <3>6 DEF Passed, UpdateFlow, Registered, Holds
    <3>7. CASE Finished
      BY <2>1, <3>2, <3>7 DEF Finished, Deleted
    <3>8. CASE Still
      BY <2>1, <2>5, <3>0, <3>3, <3>8 DEF Still
    <3> QED
      BY <2>1, <2>5, <3>1, <3>3, <3>4, <3>5, <3>6, <3>7, <3>8, JointStep DEF Begins
  <2> QED
    BY <2>3, <2>4, <2>5
<1> QED
  BY <1>1, <1>2

(* As long as no write of the operator is lost, one TestRun starts at most  *)
(* one test run at the k6 Cloud, over any retries, although nothing but     *)
(* the condition Created in its own status keeps it from the next one.      *)
THEOREM OneCloudRun ==
  ASSUME NoLoss
  PROVE  Spec => []AtMostOneCloudRun
<1>0. NoStale
  BY DEF NoLoss, NoStale
<1>1. TypeOK /\ PLZCreated /\ RunInv => AtMostOneCloudRun
  BY DEF PLZCreated, RunInv, AtMostOneCloudRun
<1>2. TypeOK /\ WatchInv /\ StageInv /\ [Next]_vars => StageInv'
  BY <1>0, StageStep
<1>3. TypeOK /\ WatchInv /\ LabelInv /\ StageInv /\ SingleInv /\ [Next]_vars => SingleInv'
  BY <1>0, SingleStep
<1>4. /\ TypeOK /\ WatchInv /\ LabelInv /\ StageInv /\ SingleInv /\ TimeInv /\ SetupDenied
      /\ NoRunInv /\ RunInv /\ [Next]_vars
      => RunInv'
  BY RunStep
<1> QED
  BY <1>1, <1>2, <1>3, <1>4, TypeInit, TypeStep, LifeInit, LifeStep, SetupInit, SetupStep,
     WatchInit, WatchStep, OrderInit, LabelStep, StageInit, SingleInit, TimeInit, TimeStep,
     SetupDeniedInit, SetupDeniedStep, PLZCreatedInit, PLZCreatedStep, RunInit, NoRunStep, PTL
     DEF Spec
-----------------------------------------------------------------------------
(* What a reconcile does to the ID and to the test run it names. *)

(* The ID of a TestRun in the reconcile's memory.                           *)
SameID(obj) == obj \in TestRun /\ obj.id = k6.id

(* Neither a stage nor a condition touches the ID.                          *)
LEMMA SameIDKept ==
  ASSUME TypeOK, NEW obj, SameID(obj)
  PROVE  /\ \A stage \in Stage : SameID([obj EXCEPT !.stage = stage])
         /\ \A type \in CondType, status \in Status : SameID(Stamp(obj, type, status, Now))
<1>1. obj \in TestRun
  BY DEF SameID
<1>2. ASSUME NEW stage \in Stage PROVE SameID([obj EXCEPT !.stage = stage])
  BY <1>1, StageType DEF SameID, TestRun
<1>3. ASSUME NEW type \in CondType, NEW status \in Status PROVE SameID(Stamp(obj, type, status, Now))
  <2>1. Stamp(obj, type, status, Now) \in TestRun
    BY <1>1, OnlyStamped
  <2>2. Stamp(obj, type, status, Now).id = obj.id
    BY <1>1 DEF Stamp, TestRun
  <2> QED
    BY <2>1, <2>2 DEF SameID
<1> QED
  BY <1>2, <1>3

(* A reconcile changes the ID only where it initializes the TestRun and     *)
(* where it has created a test run.                                         *)
LEMMA IDWork ==
  ASSUME TypeOK, NEW late \in BOOLEAN, Works(late)
  PROVE  Finished \/ StartTestRun \/ pc = "SetupCloudTest" \/ k6'.id = k6.id
<1>0. SameID(k6) /\ {"error", "stopped", "created", "started", "finished"} \subseteq Stage
      /\ {"True", "False"} \subseteq Status
  BY DEF SameID, TypeOK, OperatorOK, Stage, Status
<1>c. {"TestRunRunning", "TeardownExecuted", "CloudTestRun", "CloudTestRunCreated",
       "CloudTestRunFinalized", "CloudTestRunAborted"} \subseteq CondType
  BY DEF CondType
<1>s. SUFFICES Finished \/ StartTestRun \/ pc = "SetupCloudTest" \/ SameID(k6')
  BY DEF SameID
<1>1. CASE CreateClient
  BY <1>0, <1>1, ReturnEnds DEF CreateClient
<1>2. CASE StopJobs
  <2> DEFINE over    == [k6 EXCEPT !.stage = "stopped"]
             stopped == Stamp(over, "TestRunRunning", "False", Now)
             aborted == Stamp(stopped, "CloudTestRunAborted", "True", Now)
  <2>1. SameID(over)
    BY <1>0, SameIDKept
  <2>2. SameID(stopped)
    BY <1>0, <1>c, <2>1, SameIDKept
  <2>3. SameID(aborted)
    BY <1>0, <1>c, <2>2, SameIDKept
  <2> QED
    BY <1>2, <2>3, ReturnEnds, GotoFlow DEF StopJobs, StopJobsFailed, MarkAborted
<1>3. CASE InitializeJobs \/ CleanUp
  BY <1>3, ReturnEnds DEF InitializeJobs, CleanUp
<1>4. CASE RunValidations(late)
  <2> DEFINE typed   == Stamp(k6, "CloudTestRun", "True", Now)
             created == IF IsUnknown(k6.conds, "CloudTestRunCreated")
                        THEN Stamp(typed, "CloudTestRunCreated", "False", Now) ELSE typed
             failed  == [k6 EXCEPT !.stage = "error"]
  <2>1. SameID(failed) /\ SameID(typed) /\ SameID(Stamp(k6, "CloudTestRun", "False", Now))
    BY <1>0, <1>c, SameIDKept
  <2>2. SameID(created)
    BY <1>0, <1>c, <2>1, SameIDKept
  <2>3. SameID(Stamp(created, "CloudTestRunFinalized", "False", Now))
    BY <1>0, <1>c, <2>2, SameIDKept
  <2>4. ASSUME NEW requeue, NotReady(k6, requeue, late) PROVE Finished
    BY <2>4, ReturnEnds DEF NotReady
  <2> QED
    BY <1>4, <2>1, <2>3, <2>4, ReturnEnds, GotoFlow DEF RunValidations
<1>5. CASE SetupCloudTest(late)
  BY <1>5 DEF SetupCloudTest
<1>6. CASE CreateJobs(late)
  <2>1. SameID([k6 EXCEPT !.stage = "created"])
    BY <1>0, SameIDKept
  <2> QED
    BY <1>6, <2>1, ReturnEnds, GotoFlow DEF CreateJobs, CreateJobsFailed
<1>7. CASE StartJobs(late)
  <2> DEFINE going == [k6 EXCEPT !.stage = "started"]
  <2>1. SameID(going)
    BY <1>0, SameIDKept
  <2>2. SameID(Stamp(going, "TestRunRunning", "True", Now))
    BY <1>0, <1>c, <2>1, SameIDKept
  <2> QED
    BY <1>7, <2>2, ReturnEnds, GotoFlow DEF StartJobs
<1>8. CASE Started(late)
  <2> DEFINE over == [k6 EXCEPT !.stage = "stopped"]
  <2>1. SameID(over)
    BY <1>0, SameIDKept
  <2>2. /\ SameID(Stamp(over, "TestRunRunning", "False", Now))
        /\ SameID(Stamp(k6, "TeardownExecuted", "True", Now))
    BY <1>0, <1>c, <2>1, SameIDKept
  <2>3. ASSUME MarkStopped \/ RunTeardown \/ KeepWaiting \/ Goto("StopJobs", k6)
        PROVE  Finished \/ SameID(k6')
    BY <1>0, <2>2, <2>3, ReturnEnds, GotoFlow DEF MarkStopped, RunTeardown, KeepWaiting
  <2> QED
    BY <1>8, <2>3, ReturnEnds DEF Started, StartedPLZ, StartedOther
<1>9. CASE Stopped
  <2>1. SameID(Stamp(k6, "CloudTestRunAborted", "True", Now))
    BY <1>0, <1>c, SameIDKept
  <2>2. ASSUME NEW kept, KillJobs(kept) PROVE SameID(k6')
    BY <2>1, <2>2, GotoFlow DEF KillJobs
  <2>3. \/ Return(TRUE) \/ Goto("Finalize", k6) \/ \E kept : KillJobs(kept)
    BY <1>9 DEF Stopped
  <2> QED
    BY <1>0, <2>2, <2>3, ReturnEnds, GotoFlow
<1>10. CASE Finalize(late)
  <2> DEFINE over == [k6 EXCEPT !.stage = "finished"]
  <2>1. SameID(over)
    BY <1>0, SameIDKept
  <2>2. SameID(Stamp(over, "CloudTestRunFinalized", "True", Now))
    BY <1>0, <1>c, <2>1, SameIDKept
  <2> QED
    BY <1>10, <2>1, <2>2, ReturnEnds, GotoFlow DEF Finalize
<1> QED
  BY <1>1, <1>2, <1>3, <1>4, <1>5, <1>6, <1>7, <1>8, <1>9, <1>10 DEF Works

(* A test run at the k6 Cloud is created live, ends and stays so.           *)
LEMMA CloudMoves ==
  ASSUME TypeOK, [Next]_vars, NEW i \in RunID
  PROVE  \/ cloud'[i] = cloud[i]
         \/ cloud[i] = "live" /\ cloud'[i] \in {"aborted", "finished"}
         \/ CreateTestRun /\ i = runs + 1
<1> DEFINE Goes == \/ cloud'[i] = cloud[i]
                   \/ cloud[i] = "live" /\ cloud'[i] \in {"aborted", "finished"}
<1>0. cloud \in [RunID -> RunStatus]
  BY DEF TypeOK, CloudOK
<1>1. ASSUME NEW late \in BOOLEAN, Updates(late) PROVE UNCHANGED cloud
  BY <1>1 DEF Updates, UpdateAndReturn, UpdateConditions, UpdateInitialization,
     UpdateInspect, UpdateValidated, UpdateInitialized, UpdateKilled, cloudk6
<1>2. ASSUME NEW late \in BOOLEAN, Works(late) \/ Reconcile
      PROVE  Goes \/ (CreateTestRun /\ i = runs + 1)
  <2>1. CASE UNCHANGED cloud
    BY <2>1
  <2>2. CASE SetupCloudTest(late)
    <3>1. CreateTestRun => Goes \/ i = runs + 1
      BY <1>0 DEF CreateTestRun
    <3> QED
      BY <2>1, <2>2, <3>1 DEF SetupCloudTest, cloudk6
  <2>3. CASE Finalize(late)
    BY <2>1, <2>3 DEF Finalize, FinishTestRun
  <2> QED
    BY <1>2, <2>1, <2>2, <2>3 DEF Works, Reconcile, CreateClient, StopJobs, StartTestRun,
       InitializeJobs, RunValidations, CreateJobs, StartJobs, Started, Stopped, CleanUp, cloudk6
<1>3. ASSUME NEW late \in BOOLEAN, Operator(late) PROVE Reconcile \/ Updates(late) \/ Works(late)
  BY <1>3 DEF Operator, Updates, Works
<1>4. CASE Events \/ CloudAborts
  BY <1>0, <1>4 DEF Events, EventArrives, CloudAborts
<1>5. CASE Restart \/ (World /\ ~Events /\ ~CloudAborts)
  BY <1>5 DEF World, Restart, CacheSync, Resync, InitializerEnds, Runners, PodStarts,
     PodServes, TestEnds, PodFails, Resume, Stop, SetPod, UserDeletes, cloudk6, vars
<1> QED
  BY <1>1, <1>2, <1>3, <1>4, <1>5 DEF Next, World
-----------------------------------------------------------------------------
Final == "CloudTestRunFinalized"
Typed == "CloudTestRun"

(* A test run that has ended at the k6 Cloud.                               *)
Done(i) == i \in RunID /\ cloud[i] \in {"aborted", "finished"}

(* The k6 Cloud has the test runs it has created, and no others.            *)
CloudInv == \A i \in RunID : cloud[i] # "none" <=> i <= runs

(* CloudInv holds initially.                                                *)
LEMMA CloudInit == Init => CloudInv
<1> SUFFICES ASSUME Init, NEW i \in RunID PROVE cloud[i] # "none" <=> i <= runs
  BY DEF CloudInv
<1>1. spec.id \in {0, 1} /\ i \in Nat /\ i # 0
  BY ControllerAssumption DEF Init, RunID
<1> QED
  BY <1>1 DEF Init

(* CloudInv is inductive.                                                   *)
LEMMA CloudInvStep ==
  ASSUME TypeOK, CloudInv, [Next]_vars
  PROVE  CloudInv'
<1>0. cloud \in [RunID -> RunStatus] /\ runs \in Nat /\ RunID \subseteq Nat
  BY ControllerAssumption DEF TypeOK, CloudOK, RunID
<1>1. CASE runs' # runs
  <2>1. CreateTestRun
    BY <1>1, RunsStep
  <2> QED
    BY <1>0, <2>1 DEF CreateTestRun, CloudInv
<1>2. CASE runs' = runs
  <2>1. ~CreateTestRun
    BY <1>0, <1>2 DEF CreateTestRun
  <2> QED
    BY <1>2, <2>1, CloudMoves DEF CloudInv
<1> QED
  BY <1>1, <1>2

(* A test run that has ended does not live again.                           *)
LEMMA DoneStays ==
  ASSUME TypeOK, CloudInv, [Next]_vars, NEW i, Done(i)
  PROVE  Done(i)'
<1>1. i \in RunID /\ cloud[i] \in {"aborted", "finished"} /\ i <= runs
  BY DEF Done, CloudInv
<1>2. i # runs + 1
  BY <1>1, ControllerAssumption DEF TypeOK, CloudOK, RunID
<1> QED
  BY <1>1, <1>2, CloudMoves DEF Done

(* FinishTestRun ends a test run that the cloud has.                        *)
LEMMA FinishEnds ==
  ASSUME TypeOK, CloudInv, NEW i \in RunID, i <= runs, FinishTestRun(i)
  PROVE  Done(i)'
  BY DEF TypeOK, CloudOK, CloudInv, FinishTestRun, Done, RunStatus

(* The condition CloudTestRun becomes True only with cloud output, and      *)
(* False only without.                                                      *)
LEMMA TypedWork ==
  ASSUME TypeOK, NEW late \in BOOLEAN, Works(late)
  PROVE  \/ Finished
         \/ StartTestRun
         \/ k6'.conds[Typed] = k6.conds[Typed]
         \/ k6'.conds[Typed].status = IF spec.cloudOut THEN "True" ELSE "False"
<1>0. k6 \in TestRun /\ Typed \in CondType /\ Now \in Nat
  BY DEF TypeOK, OperatorOK, StoreOK, Typed, CondType, Now
<1>1. CASE Changed(k6', Touched) /\ Typed \notin Touched
  BY <1>0, <1>1 DEF Changed
<1>2. CASE Changed(k6', Touched) /\ Typed \in Touched
  <2>1. pc = "Stage" /\ k6.stage = "initialization"
    BY <1>2 DEF Touched, Typed
  <2>2. RunValidations(late)
    BY <2>1 DEF Works, CreateClient, StopJobs, StartTestRun, InitializeJobs, SetupCloudTest,
       CreateJobs, StartJobs, Started, Stopped, Finalize, CleanUp, AtStage
  <2> DEFINE typed   == Stamp(k6, "CloudTestRun", "True", Now)
             created == IF IsUnknown(k6.conds, "CloudTestRunCreated")
                        THEN Stamp(typed, "CloudTestRunCreated", "False", Now) ELSE typed
             failed  == [k6 EXCEPT !.stage = "error"]
             untyped == Stamp(k6, "CloudTestRun", "False", Now)
  <2>3. failed.conds = k6.conds
    BY <1>0 DEF TestRun
  <2>4. /\ untyped.conds[Typed].status = "False"
        /\ typed.conds[Typed].status = "True" /\ typed \in TestRun
    BY <1>0, OnlyStamped
       DEF Typed, CondType, Status, Stamp, UpdateCondition, SetStatusCondition, TestRun
  <2>5. created.conds[Typed].status = "True" /\ created \in TestRun
    BY <1>0, <2>4, StampOther, OnlyStamped DEF Typed, CondType, Status
  <2>6. Stamp(created, "CloudTestRunFinalized", "False", Now).conds[Typed] = created.conds[Typed]
    BY <1>0, <2>5, StampOther DEF Typed
  <2>7. \/ Finished \/ k6' = failed \/ (k6' = untyped /\ ~spec.cloudOut)
        \/ (k6' = Stamp(created, "CloudTestRunFinalized", "False", Now) /\ spec.cloudOut)
    BY <2>2, ReturnEnds, GotoFlow DEF RunValidations, NotReady
  <2> QED
    BY <2>3, <2>4, <2>5, <2>6, <2>7
<1> QED
  BY <1>1, <1>2, WorkConds

(* A reconcile finalizes a TestRun only by ending its test run.             *)
LEMMA FinalWork ==
  ASSUME TypeOK, NEW late \in BOOLEAN, Works(late), Holds(k6', Final)
  PROVE  \/ Holds(k6, Final)
         \/ pc = "Finalize" /\ Holds(k6, Typed) /\ FinishTestRun(k6.id)
<1>0. k6 \in TestRun /\ Final \in CondType /\ Now \in Nat
  BY DEF TypeOK, OperatorOK, StoreOK, Final, CondType, Now
<1>1. CASE Finished
  BY <1>0, <1>1, GoneHolds DEF Finished
<1>2. CASE StartTestRun
  <2>1. ~Holds(Initialize(k6, spec.id, Now), Final)
    BY <1>0 DEF Initialize, InitialStatus, Holds, IsTrue, TestRun, Final, CondType, NoCondition
  <2>2. [k6 EXCEPT !.stage = "error"].conds = k6.conds
    BY <1>0 DEF TestRun
  <2>3. k6' = Initialize(k6, spec.id, Now) \/ k6' = [k6 EXCEPT !.stage = "error"]
    BY <1>2, GotoFlow DEF StartTestRun
  <2> QED
    BY <2>1, <2>2, <2>3 DEF Holds
<1>3. CASE Changed(k6', Touched) /\ Final \notin Touched
  BY <1>0, <1>3 DEF Changed, Holds, IsTrue
<1>4. CASE Changed(k6', Touched) /\ Final \in Touched /\ pc # "Finalize"
  <2>1. pc = "Stage" /\ k6.stage = "initialization"
    BY <1>4 DEF Touched, Final
  <2>2. RunValidations(late)
    BY <2>1 DEF Works, CreateClient, StopJobs, StartTestRun, InitializeJobs, SetupCloudTest,
       CreateJobs, StartJobs, Started, Stopped, Finalize, CleanUp, AtStage
  <2> DEFINE typed   == Stamp(k6, "CloudTestRun", "True", Now)
             created == IF IsUnknown(k6.conds, "CloudTestRunCreated")
                        THEN Stamp(typed, "CloudTestRunCreated", "False", Now) ELSE typed
             failed  == [k6 EXCEPT !.stage = "error"]
             untyped == Stamp(k6, "CloudTestRun", "False", Now)
  <2>3. failed.conds = k6.conds
    BY <1>0 DEF TestRun
  <2>4. untyped.conds[Final] = k6.conds[Final] /\ created \in TestRun
    BY <1>0, StampOther, OnlyStamped DEF Final, CondType, Status
  <2>5. ~Holds(Stamp(created, "CloudTestRunFinalized", "False", Now), Final)
    BY <1>0, <2>4, StampKeeps DEF Final, CondType, Status
  <2>6. \/ Finished \/ k6' = failed \/ k6' = untyped
        \/ k6' = Stamp(created, "CloudTestRunFinalized", "False", Now)
    BY <2>2, ReturnEnds, GotoFlow DEF RunValidations, NotReady
  <2> QED
    BY <1>1, <2>3, <2>4, <2>5, <2>6 DEF Holds, IsTrue
<1>5. CASE pc = "Finalize" /\ ~Finished
  <2>1. Finalize(late)
    BY <1>5 DEF Works, CreateClient, StopJobs, StartTestRun, InitializeJobs, SetupCloudTest,
       RunValidations, CreateJobs, StartJobs, Started, Stopped, CleanUp, AtStage
  <2>2. [k6 EXCEPT !.stage = "finished"].conds = k6.conds
    BY <1>0 DEF TestRun
  <2>3. \/ k6' = [k6 EXCEPT !.stage = "finished"]
        \/ Holds(k6, Typed) /\ FinishTestRun(k6.id)
    BY <1>5, <2>1, ReturnEnds, GotoFlow DEF Finalize, Typed
  <2> QED
    BY <1>5, <2>2, <2>3 DEF Holds
<1> QED
  BY <1>1, <1>2, <1>3, <1>4, <1>5, WorkConds
-----------------------------------------------------------------------------
(* Without cloud output, and for PLZ. *)

(* Without cloud output no copy is a cloud test run, or finalized.          *)
LocalInv ==
  ~spec.cloudOut => \A v \in Copies \cup {k6} : ~Holds(v, Typed) /\ ~Holds(v, Final)

(* LocalInv holds initially.                                                *)
LEMMA LocalInit == Init => LocalInv
<1> SUFFICES ASSUME Init PROVE LocalInv
  OBVIOUS
<1>1. Copies \cup {k6} = {NewTestRun, Gone}
  BY DEF Init, Copies
<1>2. \A c \in CondType : ~Holds(NewTestRun, c) /\ ~Holds(Gone, c)
  BY DEF Holds, IsTrue, NewTestRun, Gone, NoConditions, NoCondition
<1>3. Typed \in CondType /\ Final \in CondType
  BY DEF Typed, Final, CondType
<1> QED
  BY <1>1, <1>2, <1>3 DEF LocalInv

(* LocalInv is inductive.                                                   *)
LEMMA LocalStep ==
  ASSUME TypeOK, LocalInv, [Next]_vars
  PROVE  LocalInv'
<1> DEFINE Local(v) == ~Holds(v, Typed) /\ ~Holds(v, Final)
<1> SUFFICES ASSUME ~spec.cloudOut PROVE \A v \in Copies' \cup {k6'} : Local(v)
  BY SpecStays DEF LocalInv, Holds
<1>0. k6 \in TestRun /\ Typed \in CondType /\ Final \in CondType
  BY DEF TypeOK, OperatorOK, Typed, Final, CondType
<1>1. Local(api) /\ Local(cache) /\ Local(k6) /\ Local(Gone) /\ \A v \in Copies : Local(v)
  BY <1>0, GoneHolds DEF LocalInv, Copies
<1>2. Local(Patched) /\ Local(Refetched)
  BY <1>0, <1>1, PatchedHolds DEF Refetched, TypeOK
<1>3. Local(api')
  BY <1>1, <1>2, StoreStep DEF UpdatePatched, DeleteTestRun
<1>4. Local(k6')
  <2>1. ASSUME NEW late \in BOOLEAN, Works(late) PROVE Local(k6')
    <3>1. ~Holds(k6', Final)
      BY <1>1, <2>1, FinalWork
    <3>2. CASE StartTestRun
      <4>1. ~Holds(Initialize(k6, spec.id, Now), Typed)
        BY <1>0 DEF Initialize, InitialStatus, Holds, IsTrue, TestRun, Typed, CondType
      <4>2. [k6 EXCEPT !.stage = "error"].conds = k6.conds
        BY <1>0 DEF TestRun
      <4>3. k6' = Initialize(k6, spec.id, Now) \/ k6' = [k6 EXCEPT !.stage = "error"]
        BY <3>2, GotoFlow DEF StartTestRun
      <4> QED
        BY <1>1, <3>1, <4>1, <4>2, <4>3 DEF Holds
    <3> QED
      BY <1>1, <2>1, <3>1, <3>2, TypedWork DEF Finished, Holds, IsTrue
  <2>2. ASSUME NEW obj, Local(obj), Passed(obj) PROVE Local(k6')
    BY <2>2 DEF Passed, Holds
  <2>3. CASE Finished \/ Still \/ Begins
    BY <1>1, <2>3 DEF Finished, Still, Begins
  <2> QED
    BY <1>2, <2>1, <2>2, <2>3, JointStep DEF Worked
<1> QED
  BY <1>1, <1>3, <1>4, CopiesStep DEF TypeOK

(* The ID of a PLZ test run, 1, is with its mark in each copy, and when one *)
(* of them is finalized the test run has ended.                             *)
PLZID(v) == v.id = IF Marked(v) THEN 1 ELSE 0

PLZFinal ==
  PLZ => /\ \A v \in Copies \cup {k6} : PLZID(v)
         /\ (\E v \in Copies \cup {k6} : Holds(v, Final)) => Done(1)

(* PLZFinal holds initially.                                                *)
LEMMA PLZFinalInit == Init => PLZFinal
<1> SUFFICES ASSUME Init PROVE PLZFinal
  OBVIOUS
<1>1. Copies \cup {k6} = {NewTestRun, Gone}
  BY DEF Init, Copies
<1>2. \A c \in CondType : ~Holds(NewTestRun, c) /\ ~Holds(Gone, c)
  BY DEF Holds, IsTrue, NewTestRun, Gone, NoConditions, NoCondition
<1>3. Final \in CondType /\ "CloudPLZTestRun" \in CondType
  BY DEF Final, CondType
<1>4. NewTestRun.id = 0 /\ Gone.id = 0
  BY DEF NewTestRun, Gone
<1> QED
  BY <1>1, <1>2, <1>3, <1>4 DEF PLZFinal, PLZID, Marked

(* A status write stores the ID with the mark.                              *)
LEMMA PatchedPLZID ==
  ASSUME TypeOK, PLZID(api), PLZID(cache), PLZID(k6), ~Deleted, Told(k6),
         PLZVersion(api), PLZVersion(cache), PLZVersion(k6), Marked(cache) => Marked(api)
  PROVE  PLZID(Patched)
<1>1. (Marked(api) => Marked(Patched)) /\ (Marked(k6) => Marked(Patched))
  BY PatchedMark
<1>2. Patched.id = IF IDAccepts(cache, k6) THEN k6.id ELSE api.id
  BY DEF Patched, MergePatch, Merged, SetIfNewer, IDAccepts
<1>3. Marked(Patched) => Marked(api) \/ Marked(cache) \/ Marked(k6)
  BY PatchedHolds DEF Marked, TypeOK, CondType
<1>4. CASE IDAccepts(cache, k6)
  BY <1>1, <1>2, <1>4 DEF IDAccepts, PLZID
<1>5. CASE ~IDAccepts(cache, k6)
  <2>1. Marked(k6) => Marked(cache)
    BY <1>5 DEF IDAccepts, PLZID, Told, Created, Holds, IsTrue
  <2> QED
    BY <1>1, <1>2, <1>3, <1>5, <2>1 DEF PLZID
<1> QED
  BY <1>4, <1>5

(* PLZFinal is inductive.                                                   *)
LEMMA PLZFinalStep ==
  ASSUME TypeOK, LifeInv, SetupInv, SetupDenied, PLZCreated, CloudInv, PLZFinal, [Next]_vars
  PROVE  PLZFinal'
<1> SUFFICES ASSUME PLZ
             PROVE  /\ \A v \in Copies' \cup {k6'} : PLZID(v)
                    /\ (\E v \in Copies' \cup {k6'} : Holds(v, Final)) => Done(1)'
  BY SpecStays DEF PLZFinal, PLZ, PLZID, Marked, Holds
<1>0. /\ k6 \in TestRun /\ Final \in CondType /\ "CloudPLZTestRun" \in CondType /\ Now \in Nat
      /\ spec.id = 1 /\ runs = 1 /\ 1 \in RunID /\ pc # "SetupCloudTest"
  BY ControllerAssumption, PLZNoSetup
     DEF TypeOK, OperatorOK, StoreOK, Final, CondType, Now, PLZ, PLZCreated, RunID
<1>1. /\ PLZID(api) /\ PLZID(cache) /\ PLZID(k6) /\ Told(k6)
      /\ PLZVersion(api) /\ PLZVersion(cache) /\ PLZVersion(k6)
      /\ ~Deleted => (Marked(cache) => Marked(api))
      /\ \A v \in Copies \cup {k6} : PLZID(v)
  BY DEF PLZFinal, PLZCreated, SetupInv, Copies
<1>2. PLZID(Gone) /\ ~Holds(Gone, Final) /\ PLZID(Refetched) /\ (~Deleted => PLZID(Patched))
  BY <1>0, <1>1, GoneHolds, PatchedPLZID DEF PLZID, Marked, Gone, Refetched
<1>3. PLZID(api')
  BY <1>1, <1>2, StoreStep DEF UpdatePatched, DeleteTestRun
<1>4. PLZID(k6')
  <2>1. CASE Worked
    <3>1. PICK late \in BOOLEAN : Works(late)
      BY <2>1 DEF Worked
    <3>2. CASE StartTestRun
      <4> DEFINE new == Initialize(k6, spec.id, Now)
      <4>1. new.id = 1
        BY <1>0 DEF Initialize, TestRun
      <4>2. Marked(new)
        BY <1>0, InitializedCopy DEF Marked
      <4>3. [k6 EXCEPT !.stage = "error"].conds = k6.conds /\ [k6 EXCEPT !.stage = "error"].id = k6.id
        BY <1>0 DEF TestRun
      <4>4. k6' = new \/ k6' = [k6 EXCEPT !.stage = "error"]
        BY <3>2, GotoFlow DEF StartTestRun
      <4> HIDE DEF new
      <4> QED
        BY <1>1, <4>1, <4>2, <4>3, <4>4 DEF PLZID, Marked, Holds
    <3>3. CASE Changed(k6', Touched) /\ k6'.id = k6.id
      <4>1. k6'.conds["CloudPLZTestRun"] = k6.conds["CloudPLZTestRun"]
        BY <1>0, <3>3 DEF Changed, Touched
      <4> QED
        BY <1>1, <3>3, <4>1 DEF PLZID, Marked, Holds, IsTrue
    <3>4. CASE Finished
      BY <1>2, <3>4 DEF Finished
    <3> QED
      BY <1>0, <3>1, <3>2, <3>3, <3>4, WorkConds, IDWork
  <2>2. ASSUME NEW obj, PLZID(obj), Passed(obj) PROVE PLZID(k6')
    BY <2>2 DEF Passed, PLZID, Marked, Holds
  <2>3. CASE Finished \/ Still \/ Begins
    BY <1>1, <1>2, <2>3 DEF Finished, Still, Begins
  <2> QED
    BY <1>2, <2>1, <2>2, <2>3, JointStep DEF UpdatePatched
<1>5. ASSUME ~Done(1)'
      PROVE  \A v \in Copies' \cup {k6'} : ~Holds(v, Final)
  <2>1. \A v \in Copies \cup {k6} : ~Holds(v, Final)
    BY <1>5, DoneStays DEF PLZFinal
  <2>2. ~Holds(api, Final) /\ ~Holds(cache, Final) /\ ~Holds(k6, Final)
    BY <2>1 DEF Copies
  <2>3. ~Holds(Patched, Final) /\ ~Holds(Refetched, Final)
    BY <1>0, <2>2, PatchedHolds DEF Refetched, TypeOK
  <2>4. ~Holds(api', Final)
    BY <1>2, <2>2, <2>3, StoreStep DEF UpdatePatched, DeleteTestRun
  <2>5. ASSUME NEW late \in BOOLEAN, Works(late) PROVE ~Holds(k6', Final)
    <3>1. pc = "Finalize" => k6.id = 1
      BY <1>1 DEF SetupInv, Deep, PLZID
    <3> QED
      BY <1>0, <1>5, <2>2, <2>5, <3>1, FinalWork, FinishEnds
  <2>6. ASSUME NEW obj, ~Holds(obj, Final), Passed(obj) PROVE ~Holds(k6', Final)
    BY <2>6 DEF Passed, Holds
  <2>7. Finished \/ Still \/ Begins => ~Holds(k6', Final)
    BY <1>2, <2>2 DEF Finished, Still, Begins
  <2>8. ~Holds(k6', Final)
    BY <2>3, <2>5, <2>6, <2>7, JointStep DEF Worked
  <2> QED
    BY <2>1, <2>4, <2>8, CopiesStep DEF TypeOK
<1> QED
  BY <1>1, <1>3, <1>4, <1>5, CopiesStep DEF TypeOK
-----------------------------------------------------------------------------
(* With cloud output: the versions of the TestRun. *)

Hosted  == spec.cloudOut /\ ~PLZ
Running == "TestRunRunning"

Has(v, c) == v.conds[c].status # "Absent"

(* Before Initialize, and after it.                                         *)
Blank(v) == \A c \in CondType : v.conds[c].status = "Absent"
Fresh(v) == \A c \in CondType : v.conds[c].status = InitialStatus(c, FALSE)

(* What a version has, the versions after it have: a stage, an ID, the      *)
(* conditions of Initialize and the condition Created.                      *)
After(v, w) ==
  \/ w.stage = "gone"
  \/ /\ v.stage # "gone"
     /\ v.stage # "" => w.stage # ""
     /\ v.id # 0 => w.id # 0
     /\ Has(v, Running) => Has(w, Running)
     /\ Has(v, Created) => Has(w, Created)

HistoryInv ==
  Hosted => /\ \A v \in Copies : After(cache, v) /\ After(v, api)
            /\ \A i, j \in 1 .. Len(watch) : i <= j => After(watch[i], watch[j])

(* A reconcile starts on what the cache shows, or has shown.                *)
BaseInv == Hosted /\ pc \in {"CreateClient", "Stage", "StopJobs", "U_inspect"} => After(k6, cache)

(* No version is halfway: the ID comes with the condition Created, which    *)
(* comes after the other ones and before the stages that need the ID.       *)
Whole(v) ==
  /\ ~Has(v, Created) => v.id = 0 /\ (Blank(v) \/ Fresh(v))
  /\ Has(v, Created) => Known(v.conds[Created]) /\ Has(v, Running)
  /\ Holds(v, Created) => v.id # 0
  /\ v.stage \notin {"", "error", "gone"} => Has(v, Running)
  /\ v.stage \notin {"", "initialization", "error", "gone"} => v.id # 0
  /\ ~Denied(v, Typed)

CloudVersion(v) == v.id <= runs /\ Whole(v)

VersionInv == Hosted => \A v \in Copies \cup {k6} : CloudVersion(v)

(* A reconcile at the first stage, and one that only looks.                 *)
First == {"U_conditions", "U_initialization", "U_invalid", "InitializeJobs"}
Looks == {"idle", "CreateClient", "Stage", "U_inspect"}

(* Once the condition Created exists, no reconcile begins at the first      *)
(* stage; elsewhere its TestRun has the condition.                          *)
BeginInv ==
  Hosted =>
    /\ (\E v \in Copies \cup {k6} : Has(v, Created))
          => cache.stage # "" /\ (pc # "idle" => k6.stage # "") /\ pc \notin First
    /\ pc \notin Looks \cup First => Has(k6, Created)
    /\ pc = "StopJobs" => k6.id # 0
    /\ pc = "U_conditions" => Has(k6, Running)
    /\ pc = "Finalize" => k6.stage = "stopped"
    /\ pc \notin {"U_initialized", "U_skip", "U_killed"}

(* After is a preorder.                                                     *)
LEMMA AfterItself == \A v : After(v, v)
  BY DEF After

LEMMA AfterAfter ==
  ASSUME NEW u, NEW v, NEW w, After(u, v), After(v, w)
  PROVE  After(u, w)
  BY Zenon DEF After

(* Merging two lists of conditions joins them.                              *)
LEMMA MergedHas ==
  ASSUME TypeOK, NEW c \in CondType
  PROVE  Has(Merged, c) <=> Has(cache, c) \/ Has(k6, c)
<1>1. Merged.conds[c] = IF /\ Accepts(cache.conds[c], k6.conds[c])
                           /\ cache.conds[c].status # k6.conds[c].status
                        THEN k6.conds[c] ELSE cache.conds[c]
  BY DEF Merged, SetIfNewer, MergedConditions, TypeOK, StoreOK, TestRun
<1> QED
  BY <1>1 DEF Has, Accepts

(* Before the condition Created a status write changes the conditions only  *)
(* from none to the initial ones.                                           *)
LEMMA MergedPlain ==
  ASSUME TypeOK, Blank(cache) \/ Fresh(cache), Blank(k6) \/ Fresh(k6)
  PROVE  /\ Blank(Merged) \/ Fresh(Merged)
         /\ Blank(k6) \/ Fresh(cache) => Merged.conds = cache.conds
<1>0. cache.conds \in [CondType -> Condition]
  BY DEF TypeOK, StoreOK, TestRun
<1>1. Merged.conds = [c \in CondType |->
         IF Accepts(cache.conds[c], k6.conds[c]) /\ cache.conds[c].status # k6.conds[c].status
         THEN k6.conds[c] ELSE cache.conds[c]]
  BY <1>0 DEF Merged, SetIfNewer, MergedConditions
<1>2. ASSUME Blank(k6) \/ Fresh(cache) PROVE Merged.conds = cache.conds
  <2>1. ASSUME NEW c \in CondType
        PROVE  ~(Accepts(cache.conds[c], k6.conds[c]) /\ cache.conds[c].status # k6.conds[c].status)
    BY <1>2 DEF Blank, Fresh, Accepts
  <2>2. Merged.conds = [c \in CondType |-> cache.conds[c]]
    BY <1>1, <2>1
  <2> QED
    BY <1>0, <2>2
<1>3. ASSUME Blank(cache), Fresh(k6) PROVE Fresh(Merged)
  BY <1>1, <1>3 DEF Blank, Fresh, Accepts
<1> QED
  BY <1>2, <1>3 DEF Blank, Fresh

(* Initialize sets the condition TestRunRunning and not Created.            *)
LEMMA FreshHas == \A v : Fresh(v) => Has(v, Running) /\ ~Has(v, Created)
  BY DEF Fresh, Has, InitialStatus, Running, Created, CondType

(* Where the parts of a patched TestRun come from.                          *)
LEMMA PatchedParts ==
  /\ Patched.id = IF IDAccepts(cache, k6) THEN k6.id ELSE api.id
  /\ Patched.conds = IF Merged.conds # cache.conds THEN Merged.conds ELSE api.conds
  /\ Patched.stage = api.stage \/ (Patched.stage = k6.stage /\ k6.stage # "")
  BY DEF Patched, MergePatch, Merged, SetIfNewer, IDAccepts, StageAccepts

(* A status write stores the conditions the reconcile has.                  *)
LEMMA PatchedHas ==
  ASSUME TypeOK, NEW c \in CondType, Has(k6, c), Has(cache, c) => Has(api, c)
  PROVE  Has(Patched, c)
<1>1. Has(Merged, c)
  BY MergedHas
<1>2. Merged.conds = cache.conds => Has(api, c)
  BY <1>1 DEF Has
<1> QED
  BY <1>1, <1>2, PatchedParts DEF Has

(* A status write that is not needed leaves the reconcile with its conditions.*)
LEMMA RefetchedHas ==
  ASSUME TypeOK, UpdateSkipped, NEW c \in CondType, Has(k6, c)
  PROVE  Has(Refetched, c)
<1>1. CASE cache.stage = "gone"
  BY <1>1 DEF Refetched
<1>2. CASE cache.stage # "gone"
  <2>1. ~Accepts(cache.conds[c], k6.conds[c])
    BY <1>2 DEF UpdateSkipped, UpdateWanted, IsNewer, ConditionsNewer, TypeOK, StoreOK, TestRun
  <2> QED
    BY <1>2, <2>1 DEF Accepts, Refetched, Has
<1> QED
  BY <1>1, <1>2

(* What a status write stores comes after what was stored.                  *)
LEMMA AfterPatched ==
  ASSUME TypeOK, HistoryInv, BaseInv, VersionInv, BeginInv, Hosted, UpdatePatched, pc \in UpdateLabel
  PROVE  After(api, Patched)
<1>0. Running \in CondType /\ Created \in CondType
  BY DEF Running, Created, CondType
<1>1. api.stage # "gone" /\ cache.stage # "gone"
  BY DEF UpdatePatched, UpdateWanted, Deleted
<1>2. CloudVersion(api) /\ CloudVersion(cache) /\ CloudVersion(k6)
  BY DEF VersionInv, Copies
<1>3. ASSUME Has(api, Running) PROVE Has(Patched, Running)
  <2>1. CASE Has(cache, Running) \/ Has(k6, Running)
    <3>1. Has(Merged, Running)
      BY <1>0, <2>1, MergedHas
    <3> QED
      BY <1>3, <3>1, PatchedParts DEF Has
  <2>2. CASE ~Has(cache, Running) /\ ~Has(k6, Running)
    <3>1. Blank(cache) /\ Blank(k6)
      BY <1>2, <2>2, FreshHas DEF CloudVersion, Whole
    <3>2. Merged.conds = cache.conds
      BY <3>1, MergedPlain
    <3> QED
      BY <1>3, <3>2, PatchedParts DEF Has
  <2> QED
    BY <2>1, <2>2
<1>4. ASSUME Has(api, Created) PROVE Has(Patched, Created)
  <2>1. CASE Has(cache, Created) \/ Has(k6, Created)
    <3>1. Has(Merged, Created)
      BY <1>0, <2>1, MergedHas
    <3> QED
      BY <1>4, <3>1, PatchedParts DEF Has
  <2>2. CASE ~Has(cache, Created) /\ ~Has(k6, Created)
    <3>1. api \in Copies
      BY DEF Copies
    <3>2. pc = "U_inspect"
      BY <1>4, <2>2, <3>1 DEF BeginInv, Looks, UpdateLabel
    <3>3. Has(k6, Running) => Has(cache, Running)
      BY <1>1, <3>2 DEF BaseInv, After
    <3>4. (Blank(cache) \/ Fresh(cache)) /\ (Blank(k6) \/ Fresh(k6))
      BY <1>2, <2>2 DEF CloudVersion, Whole
    <3>5. Blank(k6) \/ Fresh(cache)
      BY <1>0, <3>3, <3>4, FreshHas DEF Blank, Has
    <3>6. Merged.conds = cache.conds
      BY <3>4, <3>5, MergedPlain
    <3> QED
      BY <1>4, <3>6, PatchedParts DEF Has
  <2> QED
    BY <2>1, <2>2
<1> QED
  BY <1>1, <1>3, <1>4, PatchedParts DEF After, IDAccepts

(* What a status write stores is no version halfway.                        *)
LEMMA PatchedVersion ==
  ASSUME TypeOK, LifeInv, HistoryInv, BaseInv, VersionInv, BeginInv, Hosted, UpdatePatched,
         pc \in UpdateLabel
  PROVE  CloudVersion(Patched)
<1>0. /\ Running \in CondType /\ Created \in CondType /\ Typed \in CondType
      /\ api.stage # "gone" /\ cache.stage # "gone" /\ After(api, Patched)
  BY AfterPatched DEF Running, Created, Typed, CondType, UpdatePatched, UpdateWanted, Deleted
<1>p. Patched.stage # "gone"
  BY <1>0, PatchedParts DEF LifeInv, UpdateLabel
<1>1. CloudVersion(api) /\ CloudVersion(cache) /\ CloudVersion(k6) /\ After(cache, api)
  BY DEF VersionInv, HistoryInv, Copies
<1>2. /\ Has(api, Created) => Has(Patched, Created)
      /\ Has(api, Running) => Has(Patched, Running)
      /\ Has(cache, Created) => Has(api, Created)
      /\ Has(cache, Running) => Has(api, Running)
      /\ cache.id # 0 => api.id # 0
      /\ api.id # 0 => Patched.id # 0
  BY <1>0, <1>1, <1>p, PatchedParts DEF After, IDAccepts
<1>3. /\ Has(k6, Created) => Has(Patched, Created)
      /\ Has(k6, Running) => Has(Patched, Running)
  BY <1>0, <1>2, PatchedHas
<1>4. k6.id # 0 => Patched.id # 0
  <2>1. k6.id # 0 => Has(k6, Created)
    BY <1>1 DEF CloudVersion, Whole
  <2> QED
    BY <1>2, <2>1, PatchedParts DEF IDAccepts, Has, Created
<1>5. \A c \in CondType : Patched.conds[c] \in {api.conds[c], cache.conds[c], k6.conds[c]}
  BY PatchedFrom
<1>6. Patched.id <= runs
  BY <1>1, PatchedParts DEF CloudVersion, Whole
<1>7. ASSUME ~Has(Patched, Created) PROVE Patched.id = 0 /\ (Blank(Patched) \/ Fresh(Patched))
  <2>1. ~Has(api, Created) /\ ~Has(cache, Created) /\ ~Has(k6, Created)
    BY <1>2, <1>3, <1>7
  <2>2. Blank(Merged) \/ Fresh(Merged)
    BY <1>1, <2>1, MergedPlain DEF CloudVersion, Whole
  <2> QED
    BY <1>1, <2>1, <2>2, PatchedParts DEF CloudVersion, Whole, Blank, Fresh
<1>8. ASSUME Has(Patched, Created) PROVE Known(Patched.conds[Created]) /\ Has(Patched, Running)
  <2>1. \A v \in {api, cache, k6} :
           v.conds[Created] = Patched.conds[Created] => Known(v.conds[Created]) /\ Has(v, Running)
    BY <1>1, <1>8 DEF CloudVersion, Whole, Has
  <2> QED
    BY <1>0, <1>2, <1>3, <1>5, <2>1
<1>9. Holds(Patched, Created) => Patched.id # 0
  BY <1>0, <1>1, <1>2, <1>4, <1>5 DEF CloudVersion, Whole, Holds, IsTrue
<1>10. Patched.stage \notin {"", "error", "gone"} => Has(Patched, Running)
  BY <1>1, <1>2, <1>3, PatchedParts DEF CloudVersion, Whole
<1>11. Patched.stage \notin {"", "initialization", "error", "gone"} => Patched.id # 0
  BY <1>1, <1>2, <1>4, PatchedParts DEF CloudVersion, Whole
<1>12. ~Denied(Patched, Typed)
  BY <1>0, <1>1, <1>5 DEF CloudVersion, Whole, Denied, IsFalse
<1> QED
  BY <1>6, <1>7, <1>8, <1>9, <1>10, <1>11, <1>12 DEF CloudVersion, Whole
-----------------------------------------------------------------------------
(* With cloud output: the versions stay in order and complete. *)

(* A reconcile that only looks leaves conditions and ID alone.              *)
LEMMA LooksOnly ==
  ASSUME TypeOK, Worked, pc = "Stage", pc' \in {"StopJobs", "U_inspect"}
  PROVE  k6'.conds = k6.conds /\ k6'.id = k6.id
<1>0. k6 \in TestRun
  BY DEF TypeOK, OperatorOK
<1>1. PICK late \in BOOLEAN : Works(late)
  BY DEF Worked
<1>2. [k6 EXCEPT !.stage = "error"].conds = k6.conds /\ [k6 EXCEPT !.stage = "error"].id = k6.id
  BY <1>0 DEF TestRun
<1>3. CASE k6.stage = "started" /\ pc' = "StopJobs"
  <2>1. Started(late)
    BY <1>1, <1>3 DEF Works, CreateClient, StopJobs, StartTestRun, InitializeJobs, RunValidations,
       SetupCloudTest, CreateJobs, StartJobs, Stopped, Finalize, CleanUp, AtStage
  <2>2. ~MarkStopped /\ ~RunTeardown /\ ~KeepWaiting /\ ~Return(FALSE)
    BY <1>3, GotoFlow DEF MarkStopped, RunTeardown, KeepWaiting, Return
  <2>3. k6' = k6
    BY <2>1, <2>2, GotoFlow DEF Started, StartedPLZ, StartedOther
  <2> QED
    BY <2>3
<1>4. CASE k6.stage = "initialization" /\ pc' = "U_inspect"
  <2>1. RunValidations(late)
    BY <1>1, <1>4 DEF Works, CreateClient, StopJobs, StartTestRun, InitializeJobs, Started,
       SetupCloudTest, CreateJobs, StartJobs, Stopped, Finalize, CleanUp, AtStage
  <2>2. k6' = [k6 EXCEPT !.stage = "error"]
    BY <1>4, <2>1, GotoFlow DEF RunValidations, NotReady, Return
  <2> QED
    BY <1>2, <2>2
<1> QED
  BY <1>3, <1>4 DEF Worked, WorkFlow, Flow

(* RunValidations of a test with cloud output adds the condition Created.   *)
LEMMA ValidatedHas ==
  ASSUME TypeOK, Worked, spec.cloudOut, pc' = "U_validated"
  PROVE  Has(k6', Created)
<1>0. k6 \in TestRun /\ Created \in CondType
  BY DEF TypeOK, OperatorOK, Created, CondType
<1>1. PICK late \in BOOLEAN : Works(late)
  BY DEF Worked
<1>2. pc = "Stage" /\ k6.stage = "initialization"
  BY DEF Worked, WorkFlow, Flow
<1>3. RunValidations(late)
  BY <1>1, <1>2 DEF Works, CreateClient, StopJobs, StartTestRun, InitializeJobs, Started,
     SetupCloudTest, CreateJobs, StartJobs, Stopped, Finalize, CleanUp, AtStage
<1> DEFINE typed   == Stamp(k6, "CloudTestRun", "True", Now)
           denied  == Stamp(typed, "CloudTestRunCreated", "False", Now)
           created == IF IsUnknown(k6.conds, "CloudTestRunCreated") THEN denied ELSE typed
<1>4. typed.conds[Created] = k6.conds[Created] /\ typed \in TestRun
  BY <1>0, StampOther, OnlyStamped DEF Created, CondType, Status
<1>5. Has(denied, Created) /\ denied \in TestRun
  <2>1. \A obj \in TestRun : Has(Stamp(obj, "CloudTestRunCreated", "False", Now), Created)
    BY <1>0 DEF Created, Stamp, UpdateCondition, SetStatusCondition, TestRun, Has
  <2> QED
    BY <1>0, <1>4, <2>1, OnlyStamped DEF Created, CondType, Status
<1>6. Has(created, Created) /\ created \in TestRun
  BY <1>4, <1>5 DEF Has, Created, IsUnknown, IsTrue, IsFalse
<1>7. Stamp(created, "CloudTestRunFinalized", "False", Now).conds[Created] = created.conds[Created]
  BY <1>0, <1>6, StampOther DEF Created
<1>8. k6' = Stamp(created, "CloudTestRunFinalized", "False", Now)
  BY <1>3, GotoFlow DEF RunValidations, NotReady, Return
<1> QED
  BY <1>6, <1>7, <1>8 DEF Has

(* Only a TestRun with an ID is asked for at the cloud.                     *)
LEMMA AskedID ==
  ASSUME Worked, ~PLZ, pc = "CreateClient", pc' = "StopJobs"
  PROVE  k6.id # 0
<1>1. CreateClient
  BY DEF Worked, Works, StopJobs, StartTestRun, InitializeJobs, RunValidations, SetupCloudTest,
     CreateJobs, StartJobs, Started, Stopped, Finalize, CleanUp, AtStage
<1> QED
  BY <1>1 DEF CreateClient, Return, TestRunID, PLZ

(* The TestRun is initialized when its test run was created or need not be. *)
LEMMA InitializedBy ==
  ASSUME TypeOK, [Next]_vars, pc' # pc
  PROVE  /\ pc' = "U_setup" => ~Denied(k6', Created)
         /\ pc' = "U_initialized" => Denied(k6', Typed)
<1> SUFFICES ASSUME pc' \in {"U_setup", "U_initialized"}
             PROVE  IF pc' = "U_setup" THEN ~Denied(k6', Created) ELSE Denied(k6', Typed)
  OBVIOUS
<1>0. Patched \in TestRun /\ Refetched \in TestRun
  BY UpdateTypes DEF TypeOK
<1>1. ASSUME NEW requeue PROVE ~Return(requeue)
  BY DEF Return
<1>2. ASSUME NEW label, NEW obj, label \notin {"U_setup", "U_initialized"} PROVE ~Goto(label, obj)
  BY <1>2 DEF Goto
<1>3. \A obj \in TestRun : [obj EXCEPT !.stage = "initialized"].conds = obj.conds
  BY DEF TestRun
<1>4. ASSUME NEW obj \in TestRun, CloudStep(obj) PROVE pc' = "U_setup" /\ ~Denied(k6', Created)
  <2>1. ~Denied(obj, Created) /\ Goto("U_setup", [obj EXCEPT !.stage = "initialized"])
    BY <1>2, <1>4 DEF CloudStep, Created
  <2>2. k6'.conds = obj.conds /\ pc' = "U_setup"
    BY <1>3, <2>1, GotoFlow
  <2> QED
    BY <2>1, <2>2 DEF Denied
<1>5. ASSUME NEW obj \in TestRun, AfterValidation(obj)
      PROVE  IF pc' = "U_setup" THEN ~Denied(k6', Created) ELSE Denied(k6', Typed)
  <2>1. CASE Denied(obj, Typed)
    <3>1. Goto("U_initialized", [obj EXCEPT !.stage = "initialized"])
      BY <1>5, <2>1 DEF AfterValidation, Typed
    <3>2. k6'.conds = obj.conds /\ pc' = "U_initialized"
      BY <1>3, <3>1, GotoFlow
    <3> QED
      BY <2>1, <3>2 DEF Denied
  <2>2. CASE ~Denied(obj, Typed)
    BY <1>1, <1>4, <1>5, <2>2 DEF AfterValidation, Typed
  <2> QED
    BY <2>1, <2>2
<1>6. ASSUME NEW late \in BOOLEAN, Updates(late)
      PROVE  IF pc' = "U_setup" THEN ~Denied(k6', Created) ELSE Denied(k6', Typed)
  <2>1. CASE UpdateValidated(late)
    BY <1>0, <1>1, <1>5, <2>1 DEF UpdateValidated, NotReady
  <2>2. CASE UpdateInitialized
    BY <1>0, <1>1, <1>4, <2>2 DEF UpdateInitialized
  <2> QED
    BY <1>1, <1>2, <1>6, <2>1, <2>2 DEF Updates, UpdateAndReturn, UpdateConditions, FirstStage,
       UpdateInitialization, UpdateInspect, NotReady, UpdateKilled
<1>7. ASSUME NEW late \in BOOLEAN, Operator(late)
      PROVE  Reconcile \/ Updates(late) \/ Works(late)
  BY <1>7 DEF Operator, Updates, Works
<1>8. ASSUME NEW late \in BOOLEAN, Works(late) PROVE FALSE
  BY <1>8, WorkSteps DEF Finished, WorkFlow, Flow
<1> QED
  BY <1>6, <1>7, <1>8, WorldSteps DEF Next, World, Reconcile, Restart

(* A step stores a version that comes after the one before it.              *)
LEMMA AfterStored ==
  ASSUME TypeOK, HistoryInv, BaseInv, VersionInv, BeginInv, Hosted, [Next]_vars
  PROVE  After(api, api')
<1>1. After(api, Gone)
  BY DEF After, Gone
<1> QED
  BY <1>1, StoreStep, AfterPatched, AfterItself DEF UpdatePatched, DeleteTestRun

(* HistoryInv is inductive.                                                 *)
LEMMA HistoryStep ==
  ASSUME TypeOK, HistoryInv, BaseInv, VersionInv, BeginInv, [Next]_vars
  PROVE  HistoryInv'
<1> SUFFICES ASSUME Hosted
             PROVE  /\ \A v \in Copies' : After(cache', v) /\ After(v, api')
                    /\ \A i, j \in 1 .. Len(watch') : i <= j => After(watch'[i], watch'[j])
  BY SpecStays DEF HistoryInv, Hosted, PLZ, After, Has
<1>0. /\ watch \in Seq(TestRun) /\ Len(watch) \in Nat /\ cache \in Copies
      /\ \A i \in 1 .. Len(watch) : watch[i] \in Copies
  BY LenProperties DEF TypeOK, StoreOK, Copies
<1>h. /\ \A v \in Copies : After(cache, v) /\ After(v, api)
      /\ \A i, j \in 1 .. Len(watch) : i <= j => After(watch[i], watch[j])
  BY DEF HistoryInv
<1>1. CASE UNCHANGED <<api, cache, watch>>
  BY <1>h, <1>1 DEF Copies
<1>2. ASSUME NEW obj \in TestRun, UNCHANGED cache, api' = obj, watch' \in {watch, Append(watch, obj)}
      PROVE  /\ \A v \in Copies' : After(cache', v) /\ After(v, api')
             /\ \A i, j \in 1 .. Len(watch') : i <= j => After(watch'[i], watch'[j])
  <2>0. \A v \in Copies : After(v, obj)
    BY <1>h, <1>2, AfterStored, AfterAfter
  <2>1. Copies' \subseteq Copies \cup {obj}
    BY <1>0, <1>2, AppendProperties DEF Copies
  <2>2. \A v \in Copies' : After(cache', v) /\ After(v, api')
    BY <1>0, <1>h, <1>2, <2>0, <2>1, AfterItself
  <2>3. ASSUME watch' = Append(watch, obj), NEW i \in 1 .. Len(watch'), NEW j \in 1 .. Len(watch'),
               i <= j
        PROVE  After(watch'[i], watch'[j])
    <3>1. /\ Len(watch') = Len(watch) + 1 /\ watch'[Len(watch) + 1] = obj
          /\ \A m \in 1 .. Len(watch) : watch'[m] = watch[m]
      BY <1>0, <2>3, AppendProperties
    <3>2. CASE j \in 1 .. Len(watch)
      <4>1. i \in 1 .. Len(watch)
        BY <1>0, <2>3, <3>2
      <4> QED
        BY <1>h, <2>3, <3>1, <3>2, <4>1
    <3>3. CASE j = Len(watch) + 1 /\ i \in 1 .. Len(watch)
      BY <1>0, <2>0, <3>1, <3>3
    <3>4. CASE j = Len(watch) + 1 /\ i = Len(watch) + 1
      BY <3>1, <3>4, AfterItself
    <3> QED
      BY <1>0, <2>3, <3>1, <3>2, <3>3, <3>4
  <2> QED
    BY <1>h, <1>2, <2>2, <2>3
<1>3. CASE UNCHANGED api /\ watch # <<>> /\ cache' = Head(watch) /\ watch' = Tail(watch)
  <2>1. /\ Len(watch) > 0 /\ cache' = watch[1] /\ Len(watch') = Len(watch) - 1
        /\ \A i \in 1 .. Len(watch') : watch'[i] = watch[i + 1]
    BY <1>0, <1>3, HeadTailProperties
  <2>2. \A v \in Copies' : v = api \/ \E i \in 1 .. Len(watch) : v = watch[i]
    BY <1>0, <1>3, <2>1 DEF Copies
  <2>3. \A i \in 1 .. Len(watch) : After(watch[i], api) /\ After(watch[1], watch[i])
    BY <1>0, <1>h, <2>1
  <2>4. \A v \in Copies' : After(cache', v) /\ After(v, api')
    BY <1>0, <1>3, <2>1, <2>2, <2>3, AfterItself
  <2>5. \A i, j \in 1 .. Len(watch') : i <= j => After(watch'[i], watch'[j])
    BY <1>0, <1>h, <2>1
  <2> QED
    BY <2>4, <2>5
<1>4. CASE UNCHANGED api /\ cache' = api /\ watch' = <<>>
  BY <1>4, AfterItself, EmptySeq DEF Copies
<1>5. CASE UpdatePatched /\ pc \in UpdateLabel
  BY <1>2, <1>5, UpdateTypes DEF UpdatePatched, TypeOK
<1>6. CASE DeleteTestRun
  BY <1>2, <1>6, GoneType DEF DeleteTestRun
<1> QED
  BY <1>1, <1>3, <1>4, <1>5, <1>6, StoreStep

(* The cache only moves on to versions that come after.                     *)
LEMMA CacheAfter ==
  ASSUME TypeOK, HistoryInv, Hosted, [Next]_vars
  PROVE  After(cache, cache')
<1>1. CASE UNCHANGED cache
  BY <1>1, AfterItself
<1>2. CASE watch # <<>> /\ cache' = Head(watch)
  <2>1. cache' \in Copies
    BY <1>2, HeadTailProperties, EmptySeq, LenProperties DEF TypeOK, StoreOK, Copies
  <2> QED
    BY <2>1 DEF HistoryInv
<1>3. CASE cache' = api
  BY <1>3 DEF HistoryInv, Copies
<1> QED
  BY <1>1, <1>2, <1>3, StoreStep DEF UpdatePatched, DeleteTestRun

(* BaseInv is inductive.                                                    *)
LEMMA BaseStep ==
  ASSUME TypeOK, HistoryInv, BaseInv, [Next]_vars
  PROVE  BaseInv'
<1> SUFFICES ASSUME Hosted, pc' \in {"CreateClient", "Stage", "StopJobs", "U_inspect"}
             PROVE  After(k6', cache')
  BY SpecStays DEF BaseInv, Hosted, PLZ, After, Has
<1>0. After(cache, cache')
  BY CacheAfter
<1>1. CASE Still
  BY <1>0, <1>1, AfterAfter DEF Still, BaseInv
<1>2. CASE Begins
  BY <1>0, <1>2 DEF Begins
<1>3. CASE Worked
  <2>1. pc \in {"CreateClient", "Stage"} /\ cache' = cache
    BY <1>3 DEF Worked, WorkFlow, Flow, store
  <2>2. After(k6, cache)
    BY <2>1 DEF BaseInv
  <2>3. CASE pc = "CreateClient"
    BY <1>3, <2>1, <2>2, <2>3 DEF Worked, WorkFlow, Flow
  <2>4. CASE pc = "Stage"
    <3>1. k6'.conds = k6.conds /\ k6'.id = k6.id
      BY <1>3, <2>4, LooksOnly DEF Worked, WorkFlow, Flow
    <3>2. k6.stage \in {"started", "initialization"} /\ k6'.stage \notin {"", "gone"}
      BY <1>3, <2>4 DEF Worked, WorkFlow, Flow
    <3> QED
      BY <2>1, <2>2, <3>1, <3>2 DEF After, Has
  <2> QED
    BY <2>1, <2>3, <2>4
<1> QED
  BY <1>1, <1>2, <1>3, JointStep DEF Finished, Passed, UpdateFlow
-----------------------------------------------------------------------------
(* With cloud output: no version is halfway. *)

(* With an ID, a TestRun stays whole whatever its stage becomes, when       *)
(* neither its ID nor the conditions Created and CloudTestRun change.       *)
LEMMA WholeWork ==
  ASSUME TypeOK, Whole(k6), k6.id # 0, k6'.id = k6.id, Changed(k6', Touched),
         Created \notin Touched, Typed \notin Touched
  PROVE  Whole(k6')
<1>0. Running \in CondType /\ Created \in CondType /\ Typed \in CondType
  BY DEF Running, Created, Typed, CondType
<1>1. Has(k6, Created) /\ Has(k6, Running) /\ Known(k6.conds[Created]) /\ ~Denied(k6, Typed)
  BY DEF Whole
<1>2. k6'.conds[Created] = k6.conds[Created] /\ k6'.conds[Typed] = k6.conds[Typed]
  BY <1>0 DEF Changed
<1>3. Has(k6', Running)
  BY <1>0, <1>1 DEF Changed, Has, Known
<1> QED
  BY <1>1, <1>2, <1>3 DEF Whole, Has, Denied, IsFalse

(* A step of a reconcile without a status write leaves its TestRun whole.   *)
LEMMA VersionWork ==
  ASSUME TypeOK, VersionInv, BeginInv, Hosted, Worked
  PROVE  Whole(k6') /\ (k6'.id = k6.id \/ (k6'.id = runs + 1 /\ runs' = runs + 1))
<1>0. /\ k6 \in TestRun /\ Now \in Nat /\ runs \in Nat
      /\ Running \in CondType /\ Created \in CondType /\ Typed \in CondType
  BY DEF TypeOK, OperatorOK, StoreOK, CloudOK, Running, Created, Typed, CondType, Now
<1>1. PICK late \in BOOLEAN : Works(late)
  BY DEF Worked
<1>2. Whole(k6)
  BY DEF VersionInv, CloudVersion
<1>3. CASE StartTestRun
  <2> DEFINE new  == Initialize(k6, spec.id, Now)
             fail == [k6 EXCEPT !.stage = "error"]
  <2>1. ~Has(k6, Created)
    BY <1>3 DEF StartTestRun, AtStage, BeginInv
  <2>2. k6.id = 0 /\ (Blank(k6) \/ Fresh(k6)) /\ k6.stage = ""
    BY <1>2, <1>3, <2>1 DEF Whole, StartTestRun, AtStage
  <2>3. fail.conds = k6.conds /\ fail.id = k6.id /\ fail.stage = "error"
    BY <1>0 DEF TestRun
  <2>4. new.id = k6.id /\ new.stage = k6.stage
    BY <1>0 DEF Initialize, TestRun, Hosted, PLZ
  <2>5. Fresh(new)
    BY <1>0 DEF Initialize, TestRun, Fresh, InitialStatus, NoCondition, Hosted, PLZ
  <2>6. k6' = new \/ k6' = fail
    BY <1>3, GotoFlow DEF StartTestRun
  <2> HIDE DEF new, fail
  <2>7. Whole(fail)
    BY <1>2, <2>2, <2>3 DEF Whole, Has, Holds, Denied, Blank, Fresh
  <2>8. ~Holds(new, Created) /\ ~Denied(new, Typed)
    BY <1>0, <2>5 DEF Fresh, Holds, IsTrue, Denied, IsFalse, InitialStatus, Created, Typed
  <2>9. Whole(new)
    BY <2>2, <2>4, <2>5, <2>8, FreshHas DEF Whole
  <2> QED
    BY <2>3, <2>4, <2>6, <2>7, <2>9
<1>4. CASE pc = "SetupCloudTest"
  <2> DEFINE numbered == [k6 EXCEPT !.id = runs + 1]
             new      == Stamp(numbered, "CloudTestRunCreated", "True", Now)
  <2>1. k6' = new /\ runs' = runs + 1
    BY <1>4, SetupCreates DEF CreateTestRun
  <2>2. numbered \in TestRun /\ numbered.conds = k6.conds /\ numbered.id = runs + 1
    BY <1>0 DEF TestRun
  <2> HIDE DEF numbered
  <2>3. new.id = runs + 1
    BY <2>2 DEF Stamp, TestRun
  <2>4. \A c \in CondType \ {Created} : new.conds[c] = k6.conds[c]
    BY <2>2, StampOther DEF Created
  <2>5. Known(new.conds[Created])
    <3>1. new.conds[Created].status = "True"
      BY <1>0, <2>2 DEF Stamp, UpdateCondition, SetStatusCondition, TestRun, Created
    <3> QED
      BY <3>1 DEF Known
  <2>6. Has(k6, Created)
    BY <1>4 DEF BeginInv, Looks, First
  <2>7. Has(k6, Running) /\ ~Denied(k6, Typed)
    BY <1>2, <2>6 DEF Whole
  <2> HIDE DEF new
  <2>8. Has(new, Running) /\ ~Denied(new, Typed) /\ Has(new, Created)
    BY <1>0, <2>4, <2>5, <2>7 DEF Has, Denied, IsFalse, Known, Running, Created, Typed
  <2>9. new.id # 0
    BY <1>0, <2>3
  <2>10. Whole(new)
    BY <2>5, <2>8, <2>9 DEF Whole
  <2> QED
    BY <2>1, <2>3, <2>10
<1>5. CASE ~StartTestRun /\ pc # "SetupCloudTest" /\ ~Finished
  <2>1. Changed(k6', Touched) /\ k6'.id = k6.id
    BY <1>1, <1>5, WorkConds, IDWork
  <2>2. CASE pc = "CreateClient"
    BY <1>2, <2>2 DEF Worked, WorkFlow, Flow
  <2>3. CASE pc = "Stage" /\ pc' = "U_inspect"
    <3>1. k6'.conds = k6.conds /\ k6'.stage = "error"
      BY <2>3, LooksOnly DEF Worked, WorkFlow, Flow
    <3> QED
      BY <1>2, <2>1, <3>1 DEF Whole, Has, Holds, Denied, Blank, Fresh
  <2>4. CASE pc = "Stage" /\ pc' = "U_validated"
    <3>1. k6.stage = "initialization" /\ k6'.stage = "initialization"
      BY <2>4 DEF Worked, WorkFlow, Flow
    <3>2. Has(k6', Created)
      BY <2>4, ValidatedHas DEF Hosted
    <3>3. Known(k6'.conds[Created])
      <4>1. k6'.conds[Created] = k6.conds[Created] \/ Known(k6'.conds[Created])
        BY <1>0, <2>1 DEF Changed
      <4> QED
        BY <1>2, <3>2, <4>1 DEF Whole, Has
    <3>4. Has(k6', Running)
      <4>1. Running \notin Touched
        BY <2>4, <3>1 DEF Touched, Running
      <4> QED
        BY <1>0, <1>2, <2>1, <3>1, <4>1 DEF Changed, Whole, Has
    <3>5. Holds(k6', Created) => k6'.id # 0
      <4>1. k6'.conds[Created] = k6.conds[Created] \/ ~Holds(k6', Created)
        BY <1>1, <1>5, CreatedWork
      <4> QED
        BY <1>2, <2>1, <4>1 DEF Whole, Holds, IsTrue
    <3>6. ~Denied(k6', Typed)
      BY <1>1, <1>2, <1>5, TypedWork DEF Hosted, Whole, Denied, IsFalse
    <3> QED
      BY <2>1, <3>1, <3>2, <3>3, <3>4, <3>5, <3>6 DEF Whole
  <2>5. CASE ~(pc = "CreateClient") /\ ~(pc = "Stage" /\ pc' \in {"U_inspect", "U_validated"})
    <3>1. pc = "Stage" => k6.stage \in {"initialized", "created", "started", "stopped"}
      <4>1. pc = "Stage" /\ k6.stage = "" => StartTestRun
        BY <1>1 DEF Works, CreateClient, StopJobs, RunValidations, InitializeJobs, Started,
           SetupCloudTest, CreateJobs, StartJobs, Stopped, Finalize, CleanUp, AtStage
      <4> QED
        BY <1>5, <2>5, <4>1 DEF Worked, WorkFlow, Flow
    <3>2. pc \in {"Stage", "StopJobs", "Finalize"}
      BY <1>5, <2>5 DEF Worked, WorkFlow, Flow
    <3>3. k6.id # 0
      BY <1>2, <3>1, <3>2 DEF Whole, BeginInv
    <3>4. Created \notin Touched /\ Typed \notin Touched
      BY <3>1, <3>2 DEF Touched, Created, Typed
    <3> QED
      BY <1>2, <2>1, <3>3, <3>4, WholeWork
  <2> QED
    BY <2>1, <2>2, <2>3, <2>4, <2>5
<1> QED
  BY <1>3, <1>4, <1>5 DEF Worked, WorkFlow, Flow, Finished

(* What a status write leaves the reconcile with: a version that is whole,  *)
(* with what the reconcile had and the cache shows.                         *)
Left(obj) ==
  /\ obj \in TestRun /\ CloudVersion(obj)
  /\ \A c \in {Running, Created} : Has(k6, c) => Has(obj, c)
  /\ k6.stage # "" /\ cache.stage # "" => obj.stage # ""
  /\ obj.stage \in {api.stage, cache.stage, k6.stage}
  /\ \A c \in CondType : obj.conds[c] \in {api.conds[c], cache.conds[c], k6.conds[c]}

(* As JointStep, for a test run with cloud output.                          *)
LEMMA HostedStep ==
  ASSUME TypeOK, LifeInv, HistoryInv, BaseInv, VersionInv, BeginInv, Hosted, [Next]_vars
  PROVE  \/ Finished
         \/ Still
         \/ Begins /\ UNCHANGED store
         \/ Worked
         \/ \E obj : Left(obj) /\ Passed(obj)
<1>0. /\ Patched \in TestRun /\ Refetched \in TestRun
      /\ Running \in CondType /\ Created \in CondType
  BY UpdateTypes DEF TypeOK, Running, Created, CondType
<1>1. CloudVersion(cache) /\ CloudVersion(k6) /\ After(cache, api)
  BY DEF VersionInv, HistoryInv, Copies
<1>2. ASSUME UpdatePatched, Passed(Patched) PROVE Left(Patched)
  <2>1. pc \in UpdateLabel
    BY <1>2 DEF Passed, UpdateFlow, UpdateLabel
  <2>2. api.stage # "gone"
    BY <1>2 DEF UpdatePatched, Deleted
  <2>3. \A c \in {Running, Created} : Has(cache, c) => Has(api, c)
    BY <1>1, <2>2 DEF After
  <2>4. \A c \in {Running, Created} : Has(k6, c) => Has(Patched, c)
    BY <1>0, <2>3, PatchedHas
  <2>5. k6.stage # "" /\ cache.stage # "" => Patched.stage # ""
    BY <1>1, <2>2, PatchedParts DEF After
  <2> QED
    BY <1>0, <1>2, <2>1, <2>4, <2>5, PatchedVersion, PatchedFrom, PatchedStage DEF Left
<1>3. ASSUME UpdateSkipped PROVE Left(Refetched)
  <2>1. \A c \in {Running, Created} : Has(k6, c) => Has(Refetched, c)
    BY <1>0, <1>3, RefetchedHas
  <2> QED
    BY <1>0, <1>1, <2>1 DEF Left, Refetched
<1> QED
  BY <1>2, <1>3, JointStep

(* Where a reconcile goes on after a status write, with a version that is   *)
(* whole.                                                                   *)
LEMMA VersionPassed ==
  ASSUME TypeOK, BeginInv, Hosted, [Next]_vars, NEW obj, Left(obj), Passed(obj)
  PROVE  /\ Whole(k6') /\ k6'.id <= runs
         /\ pc' \in {"U_initialization", "InitializeJobs", "SetupCloudTest", "U_setup"}
<1>0. /\ Whole(obj) /\ obj.id <= runs
      /\ k6'.conds = obj.conds /\ k6'.id = obj.id
      /\ Has(k6, Running) => Has(obj, Running)
      /\ Has(k6, Created) => Has(obj, Created)
  BY DEF Left, CloudVersion, Passed
<1>1. CASE k6' = obj /\ pc' \in {"InitializeJobs", "SetupCloudTest"}
  BY <1>0, <1>1
<1>2. CASE pc = "U_conditions" /\ pc' = "U_initialization" /\ k6'.stage = "initialization"
  <2>1. Has(obj, Running)
    BY <1>0, <1>2 DEF BeginInv
  <2> QED
    BY <1>0, <1>2, <2>1 DEF Whole, Has, Holds, Denied, Blank, Fresh
<1>3. CASE pc \in {"U_validated", "U_initialized"} /\ pc' = "U_setup" /\ k6'.stage = "initialized"
  <2>1. Has(obj, Created)
    BY <1>0, <1>3 DEF BeginInv, Looks, First
  <2>2. ~Denied(obj, Created)
    BY <1>0, <1>3, InitializedBy DEF Denied
  <2>3. Has(obj, Running) /\ obj.id # 0
    BY <1>0, <2>1, <2>2 DEF Whole, Known, Denied, IsFalse, Holds, IsTrue
  <2> QED
    BY <1>0, <1>3, <2>1, <2>3 DEF Whole, Has, Holds, Denied, Blank, Fresh
<1>4. ~(pc = "U_validated" /\ pc' = "U_initialized")
  BY <1>0, InitializedBy DEF Whole, Denied
<1>5. ~Skips /\ pc # "U_killed"
  BY DEF Skips, Hosted, BeginInv
<1> QED
  BY <1>1, <1>2, <1>3, <1>4, <1>5 DEF Passed, UpdateFlow

(* VersionInv is inductive.                                                 *)
LEMMA VersionStep ==
  ASSUME TypeOK, LifeInv, HistoryInv, BaseInv, VersionInv, BeginInv, [Next]_vars
  PROVE  VersionInv'
<1> SUFFICES ASSUME Hosted
             PROVE  \A v \in Copies' \cup {k6'} : v.id <= runs' /\ Whole(v)
  BY SpecStays DEF VersionInv, Hosted, PLZ, CloudVersion, Whole, Has, Holds, Denied, Blank, Fresh
<1>0. runs \in Nat /\ runs' \in {runs, runs + 1} /\ api \in TestRun /\ cache \in TestRun
      /\ k6 \in TestRun
  <2>1. runs' = runs \/ runs' = runs + 1
    BY RunsStep DEF CreateTestRun
  <2> QED
    BY <2>1 DEF TypeOK, CloudOK, StoreOK, OperatorOK
<1>1. \A v \in Copies \cup {k6} : v.id <= runs /\ Whole(v)
  BY DEF VersionInv, CloudVersion
<1>2. \A v \in Copies \cup {k6} : v \in TestRun
  BY <1>0 DEF Copies, TypeOK, StoreOK
<1>3. \A v \in TestRun : v.id <= runs => v.id <= runs'
  BY <1>0 DEF TestRun
<1>4. Whole(Gone) /\ Gone.id <= runs /\ Gone \in TestRun
  <2>1. Blank(Gone) /\ ~Has(Gone, Created) /\ ~Holds(Gone, Created) /\ ~Denied(Gone, Typed)
    BY DEF Blank, Has, Holds, IsTrue, Denied, IsFalse, Gone, NoConditions, NoCondition, Created,
       Typed, CondType
  <2>2. Gone.id = 0 /\ Gone.stage = "gone"
    BY DEF Gone
  <2> QED
    BY <1>0, <2>1, <2>2, GoneType DEF Whole
<1>5. api'.id <= runs /\ Whole(api') /\ api' \in TestRun
  <2>1. api' = api \/ (UpdatePatched /\ pc \in UpdateLabel) \/ api' = Gone
    BY StoreStep DEF DeleteTestRun
  <2>2. CASE UpdatePatched /\ pc \in UpdateLabel
    BY <2>2, PatchedVersion, UpdateTypes DEF CloudVersion, UpdatePatched, TypeOK
  <2> QED
    BY <1>0, <1>1, <1>4, <2>1, <2>2 DEF Copies
<1>6. k6'.id <= runs' /\ Whole(k6')
  <2>1. CASE Finished \/ Still \/ Begins
    BY <1>0, <1>1, <1>3, <1>4, <2>1 DEF Finished, Still, Begins, Copies
  <2>2. CASE Worked
    <3>1. Whole(k6') /\ (k6'.id = k6.id \/ (k6'.id = runs + 1 /\ runs' = runs + 1))
      BY <2>2, VersionWork
    <3>2. k6.id <= runs'
      BY <1>0, <1>1, <1>3
    <3> QED
      BY <1>0, <3>1, <3>2
  <2>3. ASSUME NEW obj, Left(obj), Passed(obj) PROVE k6'.id <= runs' /\ Whole(k6')
    <3>1. obj \in TestRun /\ k6'.id = obj.id
      BY <2>3 DEF Left, Passed
    <3>2. Whole(k6') /\ k6'.id <= runs
      BY <2>3, VersionPassed
    <3> QED
      BY <1>3, <3>1, <3>2
  <2> QED
    BY <2>1, <2>2, <2>3, HostedStep
<1>7. Copies' \subseteq Copies \cup {api'}
  BY CopiesStep DEF TypeOK
<1> QED
  BY <1>1, <1>2, <1>3, <1>5, <1>6, <1>7

(* A reconcile sets the condition Created first at the stage initialization. *)
LEMMA CreatedFirst ==
  ASSUME TypeOK, BeginInv, Hosted, Worked, ~Has(k6, Created), Has(k6', Created)
  PROVE  pc = "Stage" /\ k6.stage = "initialization" /\ pc' \notin First /\ k6'.stage # ""
<1>0. k6 \in TestRun /\ Now \in Nat
  BY DEF TypeOK, OperatorOK, StoreOK, Now
<1>1. PICK late \in BOOLEAN : Works(late)
  BY DEF Worked
<1>2. pc # "SetupCloudTest"
  BY DEF BeginInv, Looks, First
<1>3. ~Finished
  BY DEF Finished, Gone, NoConditions, NoCondition, Has, Created, CondType
<1>4. ~StartTestRun
  <2>1. Fresh(Initialize(k6, spec.id, Now))
    BY <1>0 DEF Initialize, TestRun, Fresh, InitialStatus, NoCondition, Hosted, PLZ
  <2>2. [k6 EXCEPT !.stage = "error"].conds = k6.conds
    BY <1>0 DEF TestRun
  <2>3. StartTestRun => k6' = Initialize(k6, spec.id, Now) \/ k6' = [k6 EXCEPT !.stage = "error"]
    BY GotoFlow DEF StartTestRun
  <2> QED
    BY <2>1, <2>2, <2>3, FreshHas DEF Has
<1>5. pc = "Stage" /\ k6.stage = "initialization"
  BY <1>1, <1>2, <1>3, <1>4, CreatedWork DEF Has
<1> QED
  BY <1>5 DEF Worked, WorkFlow, Flow, First

(* A reconcile that has the condition Created keeps it.                     *)
LEMMA CreatedKept ==
  ASSUME TypeOK, Worked, Has(k6, Created), k6.stage # ""
  PROVE  Has(k6', Created)
<1>0. Created \in CondType
  BY DEF Created, CondType
<1>1. PICK late \in BOOLEAN : Works(late)
  BY DEF Worked
<1>2. ~StartTestRun /\ ~Finished
  BY DEF StartTestRun, AtStage, Worked, WorkFlow, Flow, Finished
<1>3. Changed(k6', Touched)
  BY <1>1, <1>2, WorkConds
<1> QED
  BY <1>0, <1>3 DEF Changed, Has, Known

(* No copy of a test run that is not PLZ is marked as PLZ.                  *)
UnmarkedInv == ~PLZ => \A v \in Copies \cup {k6} : ~Marked(v)

(* UnmarkedInv holds initially.                                             *)
LEMMA UnmarkedInit == Init => UnmarkedInv
  BY PlainInit DEF PlainInv, UnmarkedInv

(* UnmarkedInv is inductive.                                                *)
LEMMA UnmarkedStep ==
  ASSUME TypeOK, UnmarkedInv, [Next]_vars
  PROVE  UnmarkedInv'
<1>1. UNCHANGED spec
  BY SpecStays
<1> QED
  BY <1>1, Unmarked DEF UnmarkedInv, PLZ, Marked

(* Where the reconcile of a test run with cloud output goes on.             *)
LEMMA BeginWork ==
  ASSUME TypeOK, VersionInv, BeginInv, UnmarkedInv, Hosted, Worked
  PROVE  /\ pc' \notin Looks \cup First => Has(k6', Created)
         /\ pc' = "StopJobs" => k6'.id # 0
         /\ pc' = "U_conditions" => Has(k6', Running)
         /\ pc' = "Finalize" => k6'.stage = "stopped" /\ k6' = k6
         /\ pc' \notin {"U_initialized", "U_skip", "U_killed"}
<1>0. k6 \in TestRun /\ Now \in Nat /\ Whole(k6) /\ ~Marked(k6)
  BY DEF TypeOK, OperatorOK, StoreOK, Now, VersionInv, CloudVersion, UnmarkedInv, Hosted
<1>1. PICK late \in BOOLEAN : Works(late)
  BY DEF Worked
<1>2. k6.id # 0 => Has(k6, Created)
  BY <1>0 DEF Whole
<1>3. pc' = "StopJobs" => k6'.id # 0 /\ Has(k6', Created)
  <2>1. CASE pc = "CreateClient" /\ pc' = "StopJobs"
    BY <1>2, <2>1, AskedID DEF Worked, WorkFlow, Flow, Hosted
  <2>2. CASE pc = "Stage" /\ pc' = "StopJobs"
    <3>1. k6'.conds = k6.conds /\ k6'.id = k6.id
      BY <2>2, LooksOnly
    <3>2. k6.stage = "started"
      BY <2>2 DEF Worked, WorkFlow, Flow
    <3> QED
      BY <1>0, <1>2, <3>1, <3>2 DEF Whole, Has
  <2> QED
    BY <2>1, <2>2 DEF Worked, WorkFlow, Flow
<1>4. ASSUME pc' = "U_conditions" PROVE Has(k6', Running)
  <2>1. StartTestRun
    BY <1>1, <1>4 DEF Worked, WorkFlow, Flow, Works, CreateClient, StopJobs, RunValidations,
       InitializeJobs, Started, SetupCloudTest, CreateJobs, StartJobs, Stopped, Finalize, CleanUp,
       AtStage
  <2>2. k6' = Initialize(k6, spec.id, Now)
    BY <1>4, <2>1 DEF StartTestRun, Goto
  <2>3. Fresh(Initialize(k6, spec.id, Now))
    BY <1>0 DEF Initialize, TestRun, Fresh, InitialStatus, NoCondition, Hosted, PLZ
  <2> QED
    BY <2>2, <2>3, FreshHas
<1>5. CASE pc = "Stage" /\ k6.stage = "stopped"
  <2>1. Stopped
    BY <1>1, <1>5 DEF Works, CreateClient, StopJobs, StartTestRun, InitializeJobs,
       RunValidations, SetupCloudTest, CreateJobs, StartJobs, Started, Finalize, CleanUp, AtStage
  <2>2. pc' = "Finalize" /\ k6' = k6
    BY <1>0, <2>1, PlainStopped
  <2> QED
    BY <1>0, <1>2, <1>5, <2>2 DEF Whole
<1>6. ASSUME ~(pc = "Stage" /\ k6.stage = "stopped")
      PROVE  pc' \notin {"U_initialized", "U_skip", "U_killed", "Finalize"}
  BY <1>6 DEF Worked, WorkFlow, Flow
<1>7. ASSUME pc' \notin Looks \cup First \cup {"StopJobs"} PROVE Has(k6', Created)
  <2>1. CASE pc' = "U_validated"
    BY <2>1, ValidatedHas DEF Hosted
  <2>2. CASE pc' # "U_validated"
    <3>1. \/ pc = "Stage" /\ k6.stage \in {"initialized", "created", "started", "stopped"}
          \/ pc \in {"StopJobs", "SetupCloudTest", "Finalize"}
      BY <1>7, <2>2 DEF Worked, WorkFlow, Flow, Looks, First
    <3>2. Has(k6, Created)
      BY <1>0, <1>2, <3>1 DEF Whole, BeginInv, Looks, First
    <3>3. k6.stage # ""
      BY <3>1, <3>2 DEF BeginInv
    <3> QED
      BY <3>2, <3>3, CreatedKept
  <2> QED
    BY <2>1, <2>2
<1> QED
  BY <1>3, <1>4, <1>5, <1>6, <1>7

(* BeginInv is inductive.                                                   *)
LEMMA BeginStep ==
  ASSUME TypeOK, LifeInv, HistoryInv, BaseInv, VersionInv, BeginInv, UnmarkedInv, [Next]_vars
  PROVE  BeginInv'
<1> DEFINE Some == \E v \in Copies \cup {k6} : Has(v, Created)
<1> SUFFICES ASSUME Hosted
             PROVE  /\ (\E v \in Copies' \cup {k6'} : Has(v, Created))
                          => /\ cache'.stage # "" /\ (pc' # "idle" => k6'.stage # "")
                             /\ pc' \notin First
                    /\ pc' \notin Looks \cup First => Has(k6', Created)
                    /\ pc' = "StopJobs" => k6'.id # 0
                    /\ pc' = "U_conditions" => Has(k6', Running)
                    /\ pc' = "Finalize" => k6'.stage = "stopped"
                    /\ pc' \notin {"U_initialized", "U_skip", "U_killed"}
  BY SpecStays DEF BeginInv, Hosted, PLZ, Has, Looks, First
<1>0. Created \in CondType /\ ~Has(Gone, Created)
  BY DEF Created, CondType, Has, Gone, NoConditions, NoCondition
<1>1. /\ Some => cache.stage # "" /\ (pc # "idle" => k6.stage # "") /\ pc \notin First
      /\ pc \notin Looks \cup First => Has(k6, Created)
      /\ pc = "StopJobs" => k6.id # 0
      /\ pc = "U_conditions" => Has(k6, Running)
      /\ pc = "Finalize" => k6.stage = "stopped"
      /\ pc \notin {"U_initialized", "U_skip", "U_killed"}
  BY DEF BeginInv
<1>2. /\ pc' \notin Looks \cup First => Has(k6', Created)
      /\ pc' = "StopJobs" => k6'.id # 0
      /\ pc' = "U_conditions" => Has(k6', Running)
      /\ pc' = "Finalize" => k6'.stage = "stopped"
      /\ pc' \notin {"U_initialized", "U_skip", "U_killed"}
  <2>1. CASE Finished \/ Begins
    BY <2>1 DEF Finished, Begins, Looks
  <2>2. CASE Still
    BY <1>1, <2>2 DEF Still
  <2>3. CASE Worked
    BY <2>3, BeginWork
  <2>4. ASSUME NEW obj, Left(obj), Passed(obj)
        PROVE  /\ pc' \notin Looks \cup First => Has(k6', Created)
               /\ pc' \notin {"StopJobs", "U_conditions", "Finalize", "U_initialized", "U_skip",
                              "U_killed"}
    <3>1. pc' \in {"U_initialization", "InitializeJobs", "SetupCloudTest", "U_setup"}
      BY <2>4, VersionPassed
    <3>2. pc' \in {"SetupCloudTest", "U_setup"} => Has(k6, Created)
      BY <1>1, <2>4 DEF Passed, UpdateFlow, Looks, First
    <3>3. Has(k6, Created) => Has(k6', Created)
      BY <2>4 DEF Left, Passed, Has
    <3> QED
      BY <3>1, <3>2, <3>3 DEF First
  <2> QED
    BY <2>1, <2>2, <2>3, <2>4, HostedStep
<1>3. ASSUME Some
      PROVE  cache'.stage # "" /\ (pc' # "idle" => k6'.stage # "") /\ pc' \notin First
  <2>1. cache'.stage # ""
    BY <1>1, <1>3, CacheAfter DEF After
  <2>2. CASE Finished \/ Begins
    BY <1>1, <1>3, <2>1, <2>2 DEF Finished, Begins, First
  <2>3. CASE Still
    BY <1>1, <1>3, <2>1, <2>3 DEF Still
  <2>4. CASE Worked
    BY <1>1, <1>3, <2>1, <2>4 DEF Worked, WorkFlow, Flow, First
  <2>5. ASSUME NEW obj, Left(obj), Passed(obj) PROVE k6'.stage # "" /\ pc' \notin First
    BY <1>1, <1>3, <2>5 DEF Left, Passed, UpdateFlow, First
  <2> QED
    BY <2>1, <2>2, <2>3, <2>4, <2>5, HostedStep
<1>4. ASSUME ~Some, NEW v \in Copies' \cup {k6'}, Has(v, Created)
      PROVE  cache'.stage # "" /\ k6'.stage # "" /\ pc' \notin First
  <2>1. ~Has(api, Created) /\ ~Has(cache, Created) /\ ~Has(k6, Created)
    BY <1>4 DEF Copies
  <2>2. ~Has(Patched, Created)
    BY <1>0, <2>1, PatchedFrom DEF Has
  <2>3. ~Has(api', Created)
    BY <1>0, <2>1, <2>2, StoreStep DEF UpdatePatched, DeleteTestRun
  <2>4. Has(k6', Created)
    BY <1>4, <2>3, CopiesStep DEF TypeOK
  <2>5. ~Finished /\ ~Still /\ ~Begins
    BY <1>0, <2>1, <2>4 DEF Finished, Still, Begins
  <2>6. ASSUME NEW obj, Left(obj), Passed(obj) PROVE FALSE
    <3>1. obj.conds[Created] \in {api.conds[Created], cache.conds[Created], k6.conds[Created]}
      BY <1>0, <2>6 DEF Left
    <3> QED
      BY <2>1, <2>4, <2>6, <3>1 DEF Passed, Has
  <2>7. Worked
    BY <2>5, <2>6, HostedStep
  <2>8. pc = "Stage" /\ k6.stage = "initialization" /\ pc' \notin First /\ k6'.stage # ""
    BY <2>1, <2>4, <2>7, CreatedFirst
  <2>9. After(k6, cache) /\ cache' = cache
    BY <2>7, <2>8 DEF BaseInv, Worked, store
  <2> QED
    BY <2>8, <2>9 DEF After
<1> QED
  BY <1>2, <1>3, <1>4
-----------------------------------------------------------------------------
(* With cloud output: the ID of a stopped TestRun. *)

(* When a version is stopped, the cache shows an ID, which is then the      *)
(* stored one and stays so.                                                 *)
StopInv ==
  Hosted /\ ~Deleted =>
    /\ (\E v \in Copies \cup {k6} : v.stage = "stopped") => cache.id # 0
    /\ \A v \in Copies : v.stage = "stopped" => v.id = api.id
    /\ pc \in {"CreateClient", "Stage", "Finalize"} /\ k6.stage = "stopped" => k6.id = api.id

(* When a version is finalized, the test run with that ID has ended.        *)
FinalInv ==
  Hosted /\ ~Deleted =>
    ((\E v \in Copies \cup {k6} : Holds(v, Final)) => Done(api.id) /\ cache.id # 0)

(* An ID the cache shows is the stored one for good.                        *)
LEMMA IDStays ==
  ASSUME TypeOK, HistoryInv, BaseInv, VersionInv, BeginInv, Hosted, ~Deleted', cache.id # 0,
         [Next]_vars
  PROVE  api'.id = api.id /\ cache'.id # 0 /\ ~Deleted
<1>1. ~Deleted
  BY DeletedStays
<1>2. api'.id = api.id
  <2>1. ~DeleteTestRun
    BY DEF DeleteTestRun, Deleted, Gone
  <2>2. UpdatePatched => api'.id = api.id
    BY PatchedParts DEF UpdatePatched, IDAccepts
  <2> QED
    BY <2>1, <2>2, StoreStep
<1>3. cache'.id # 0
  <2>1. HistoryInv' /\ Hosted'
    BY HistoryStep, SpecStays DEF Hosted, PLZ
  <2>2. cache'.stage # "gone"
    BY <2>1 DEF HistoryInv, Copies, After, Deleted
  <2> QED
    BY <2>2, CacheAfter DEF After
<1> QED
  BY <1>1, <1>2, <1>3

(* A reconcile that stops the TestRun has seen its ID in the cache.         *)
LEMMA StopSeen ==
  ASSUME TypeOK, LifeInv, HistoryInv, BaseInv, VersionInv, BeginInv, StopInv, Hosted, ~Deleted,
         [Next]_vars, \E v \in Copies' \cup {k6'} : v.stage = "stopped"
  PROVE  cache.id # 0
<1>1. CASE \E v \in Copies \cup {k6} : v.stage = "stopped"
  BY <1>1 DEF StopInv
<1>2. CASE ~\E v \in Copies \cup {k6} : v.stage = "stopped"
  <2>1. api.stage # "stopped" /\ cache.stage # "stopped" /\ k6.stage # "stopped"
    BY <1>2 DEF Copies
  <2>2. api'.stage # "stopped"
    BY <2>1, StoreStep, PatchedStage DEF UpdatePatched, DeleteTestRun, Gone
  <2>3. k6'.stage = "stopped"
    BY <1>2, <2>2, CopiesStep DEF TypeOK
  <2>4. ~Finished /\ ~Still /\ ~Begins
    BY <2>1, <2>3 DEF Finished, Still, Begins, Gone
  <2>5. ASSUME NEW obj, Left(obj), Passed(obj) PROVE FALSE
    BY <2>1, <2>3, <2>5 DEF Left, Passed, UpdateFlow
  <2>6. Worked
    BY <2>4, <2>5, HostedStep
  <2>7. (pc = "Stage" /\ k6.stage = "started") \/ pc = "StopJobs"
    BY <2>1, <2>3, <2>6 DEF Worked, WorkFlow, Flow
  <2>8. k6.id # 0 /\ After(k6, cache)
    BY <2>7 DEF VersionInv, CloudVersion, Whole, BeginInv, BaseInv
  <2>9. cache.stage # "gone"
    BY DEF HistoryInv, Copies, After, Deleted
  <2> QED
    BY <2>8, <2>9 DEF After
<1> QED
  BY <1>1, <1>2

(* StopInv is inductive.                                                    *)
LEMMA StopStep ==
  ASSUME TypeOK, LifeInv, HistoryInv, BaseInv, VersionInv, BeginInv, UnmarkedInv, StopInv,
         [Next]_vars
  PROVE  StopInv'
<1> SUFFICES ASSUME Hosted, ~Deleted'
             PROVE  /\ (\E v \in Copies' \cup {k6'} : v.stage = "stopped") => cache'.id # 0
                    /\ \A v \in Copies' : v.stage = "stopped" => v.id = api'.id
                    /\ pc' \in {"CreateClient", "Stage", "Finalize"} /\ k6'.stage = "stopped"
                          => k6'.id = api'.id
  BY SpecStays DEF StopInv, Hosted, PLZ
<1>0. ~Deleted
  BY DeletedStays
<1>1. /\ \A v \in Copies : v.stage = "stopped" => v.id = api.id
      /\ pc \in {"CreateClient", "Stage", "Finalize"} /\ k6.stage = "stopped" => k6.id = api.id
  BY <1>0 DEF StopInv
<1>2. (\E v \in Copies' \cup {k6'} : v.stage = "stopped")
         => cache'.id # 0 /\ api'.id = api.id
  BY <1>0, StopSeen, IDStays
<1>3. ASSUME NEW v \in Copies', v.stage = "stopped" PROVE v.id = api'.id
  BY <1>1, <1>2, <1>3, CopiesStep DEF TypeOK
<1>4. ASSUME pc' \in {"CreateClient", "Stage", "Finalize"}, k6'.stage = "stopped"
      PROVE  k6'.id = api'.id
  <2>0. api'.id = api.id
    BY <1>2, <1>4
  <2>1. ~Finished
    BY <1>4 DEF Finished
  <2>2. CASE Still
    BY <1>1, <1>4, <2>0, <2>2 DEF Still
  <2>3. CASE Begins
    BY <1>1, <1>4, <2>0, <2>3 DEF Begins, Copies
  <2>4. CASE Worked
    <3>1. k6' = k6 /\ pc \in {"CreateClient", "Stage"}
      BY <1>4, <2>4, BeginWork DEF Worked, WorkFlow, Flow
    <3> QED
      BY <1>1, <1>4, <2>0, <3>1
  <2>5. ASSUME NEW obj, Left(obj), Passed(obj) PROVE FALSE
    BY <1>4, <2>5, VersionPassed
  <2> QED
    BY <2>1, <2>2, <2>3, <2>4, <2>5, HostedStep
<1> QED
  BY <1>2, <1>3, <1>4

(* FinalInv is inductive.                                                   *)
LEMMA FinalStep ==
  ASSUME TypeOK, LifeInv, CloudInv, HistoryInv, BaseInv, VersionInv, BeginInv, StopInv, FinalInv,
         [Next]_vars
  PROVE  FinalInv'
<1> SUFFICES ASSUME Hosted, ~Deleted', \E v \in Copies' \cup {k6'} : Holds(v, Final)
             PROVE  Done(api.id)' /\ cache'.id # 0
  BY SpecStays DEF FinalInv, Hosted, PLZ, Holds
<1>0. ~Deleted /\ Final \in CondType
  BY DeletedStays DEF Final, CondType
<1> PICK i : i = api.id
  OBVIOUS
<1>1. ASSUME cache.id # 0, Done(i)' PROVE Done(api.id)' /\ cache'.id # 0
  BY <1>1, IDStays DEF Done
<1>2. CASE \E v \in Copies \cup {k6} : Holds(v, Final)
  <2>1. cache.id # 0 /\ Done(i)
    BY <1>0, <1>2 DEF FinalInv
  <2>2. Done(i)'
    BY <2>1, DoneStays
  <2> QED
    BY <1>1, <2>1, <2>2
<1>3. CASE ~\E v \in Copies \cup {k6} : Holds(v, Final)
  <2>1. ~Holds(api, Final) /\ ~Holds(cache, Final) /\ ~Holds(k6, Final)
    BY <1>3 DEF Copies
  <2>2. ~Holds(api', Final)
    BY <1>0, <2>1, PatchedHolds, GoneHolds, StoreStep DEF UpdatePatched, DeleteTestRun, TypeOK
  <2>3. Holds(k6', Final)
    BY <1>3, <2>2, CopiesStep DEF TypeOK
  <2>4. ~Finished /\ ~Still /\ ~Begins
    BY <1>0, <2>1, <2>3, GoneHolds DEF Finished, Still, Begins
  <2>5. ASSUME NEW obj, Left(obj), Passed(obj) PROVE FALSE
    <3>1. obj.conds[Final] \in {api.conds[Final], cache.conds[Final], k6.conds[Final]}
      BY <1>0, <2>5 DEF Left
    <3> QED
      BY <2>1, <2>3, <2>5, <3>1 DEF Passed, Holds, IsTrue
  <2>6. Worked
    BY <2>4, <2>5, HostedStep
  <2>7. pc = "Finalize" /\ FinishTestRun(k6.id)
    BY <2>1, <2>3, <2>6, FinalWork DEF Worked
  <2>8. k6.stage = "stopped"
    BY <2>7 DEF BeginInv
  <2>9. k6.id = i /\ cache.id # 0
    BY <1>0, <2>7, <2>8 DEF StopInv
  <2>10. k6.id # 0 /\ k6.id <= runs
    BY <2>8 DEF VersionInv, CloudVersion, Whole
  <2>11. i \in RunID /\ i <= runs
    <3>1. k6.id \in Nat /\ runs \in 0 .. MaxRuns /\ MaxRuns \in Nat
      BY ControllerAssumption DEF TypeOK, OperatorOK, TestRun, CloudOK
    <3> QED
      BY <2>9, <2>10, <3>1 DEF RunID
  <2>12. Done(i)'
    BY <2>7, <2>9, <2>11, FinishEnds
  <2> QED
    BY <1>1, <2>9, <2>12
<1> QED
  BY <1>2, <1>3

(* The invariants of a test run with cloud output hold initially.           *)
LEMMA HostedInit ==
  Init => HistoryInv /\ BaseInv /\ VersionInv /\ BeginInv /\ StopInv /\ FinalInv
<1> SUFFICES ASSUME Init
             PROVE  HistoryInv /\ BaseInv /\ VersionInv /\ BeginInv /\ StopInv /\ FinalInv
  OBVIOUS
<1>1. /\ Copies = {NewTestRun} /\ Copies \cup {k6} = {NewTestRun, Gone}
      /\ watch = <<>> /\ pc = "idle" /\ Len(watch) = 0
  BY DEF Init, Copies
<1>2. \A v \in {NewTestRun, Gone} :
         /\ \A c \in CondType : ~Has(v, c) /\ ~Holds(v, c) /\ ~Denied(v, c)
         /\ v.id = 0 /\ v.stage \in {"", "gone"}
  <2>1. \A v \in {NewTestRun, Gone} :
           v.conds = NoConditions /\ v.id = 0 /\ v.stage \in {"", "gone"}
    <3>1. NewTestRun.conds = NoConditions /\ NewTestRun.id = 0 /\ NewTestRun.stage = ""
      BY DEF NewTestRun
    <3>2. Gone.conds = NoConditions /\ Gone.id = 0 /\ Gone.stage = "gone"
      BY DEF Gone
    <3> QED
      BY <3>1, <3>2
  <2>2. \A c \in CondType : NoConditions[c].status = "Absent"
    BY DEF NoConditions, NoCondition
  <2> QED
    BY <2>1, <2>2 DEF Has, Holds, IsTrue, Denied, IsFalse
<1>3. Created \in CondType /\ Final \in CondType /\ Typed \in CondType
  BY DEF Created, Final, Typed, CondType
<1>4. \A v \in {NewTestRun, Gone} : Whole(v)
  BY <1>2, <1>3 DEF Whole, Blank, Has
<1>5. runs \in Nat /\ 0 <= runs
  <2>1. spec.id \in Nat /\ runs = spec.id
    BY SpecIDType DEF Init
  <2> QED
    BY <2>1
<1>6. HistoryInv /\ BaseInv
  BY <1>1, AfterItself DEF HistoryInv, BaseInv, Init
<1>7. VersionInv
  BY <1>1, <1>2, <1>4, <1>5 DEF VersionInv, CloudVersion
<1>8. BeginInv
  BY <1>1, <1>2, <1>3 DEF BeginInv, Looks, First
<1>9. StopInv /\ FinalInv
  BY <1>1, <1>2, <1>3 DEF StopInv, FinalInv
<1> QED
  BY <1>6, <1>7, <1>8, <1>9

(* With cloud output, for PLZ and without, and under all faults: a stored   *)
(* TestRun whose condition CloudTestRunFinalized is True has the ID of a    *)
(* test run that has ended at the k6 Cloud, and never that of a live one,   *)
(* although a reconcile may have created another one that was lost.         *)
THEOREM FinalizedEnded == Spec => []FinalizedAtCloud
<1>1. /\ TypeOK /\ LifeInv /\ SetupInv /\ LocalInv /\ PLZFinal /\ FinalInv
      => FinalizedAtCloud
  <2> SUFFICES ASSUME TypeOK, LifeInv, SetupInv, LocalInv, PLZFinal, FinalInv, Holds(api, Final)
               PROVE  cloud[api.id] # "live"
    BY DEF FinalizedAtCloud, Final
  <2>0. api \in Copies /\ spec.cloudOut
    BY DEF Copies, LocalInv
  <2>1. ~Deleted
    BY GoneHolds DEF LifeInv, Final, CondType
  <2>2. CASE PLZ
    <3>1. Marked(api)
      <4>1. api.conds # NoConditions
        BY DEF Holds, IsTrue, NoConditions, NoCondition, Final, CondType
      <4> QED
        BY <2>0, <2>2, <4>1 DEF SetupInv, PLZVersion
    <3>2. api.id = 1 /\ Done(1)
      BY <2>0, <2>2, <3>1 DEF PLZFinal, PLZID
    <3> QED
      BY <3>2 DEF Done
  <2>3. CASE ~PLZ
    BY <2>0, <2>1, <2>3 DEF FinalInv, Hosted, Done
  <2> QED
    BY <2>2, <2>3
<1> QED
  BY <1>1, TypeInit, TypeStep, LifeInit, LifeStep, SetupInit, SetupStep, SetupDeniedInit,
     SetupDeniedStep, PLZCreatedInit, PLZCreatedStep, CloudInit, CloudInvStep, LocalInit, LocalStep,
     PLZFinalInit, PLZFinalStep, UnmarkedInit, UnmarkedStep, HostedInit, HistoryStep, BaseStep,
     VersionStep, BeginStep, StopStep, FinalStep, PTL DEF Spec
=============================================================================
