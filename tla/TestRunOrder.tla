---------------------------- MODULE TestRunOrder ----------------------------
(***************************************************************************)
(* The order of the stages on the way to the start of the runners, for     *)
(* every parallelism, set of specs, set of faults and bounds, and what it  *)
(* is for: TestRunController implements SynchronizedStart.                 *)
(*                                                                         *)
(* A stale reconcile may store a stage over a later one. But up to the     *)
(* start, stage by stage, it does so only from a cached copy one stage     *)
(* behind what it stores, so that the versions of the TestRun that are on  *)
(* their way to the cache never go back before the start.                  *)
(***************************************************************************)
EXTENDS TestRunSafety

Forward == {"", "initialization", "initialized", "created", "started"}
Early   == {"", "initialization", "initialized"}

(* Neither initializer nor cloud output: the first stage is "initialized".  *)
Skips == ~spec.cloudOut /\ ~spec.initializer

(* A stage on the way to the start, and the one that follows it.            *)
Within(stage) ==
  IF stage = "" THEN {"", IF Skips THEN "initialized" ELSE "initialization"}
  ELSE IF stage = "initialization" THEN {"initialization", "initialized"}
  ELSE IF stage = "initialized" THEN {"initialized", "created"}
  ELSE IF stage = "created" THEN {"created", "started"} ELSE {stage}

(* Of two versions before or at the start, the later one is at the same     *)
(* stage or at the one that follows.                                        *)
Follows(v, w) ==
  v.stage \in Forward /\ w.stage \in Forward
     => w.stage \in Within(v.stage)

OrderInv ==
  /\ \A v \in Copies : Follows(cache, v) /\ Follows(v, api)
  /\ \A i, j \in 1 .. Len(watch) : i <= j => Follows(watch[i], watch[j])

(* Where a reconcile has its TestRun still at the stage it found.           *)
BaseLabel == {"CreateClient", "Stage", "StopJobs", "U_conditions", "U_validated"}

(* The TestRun of a reconcile is behind every version, or one stage ahead.  *)
Reaches(v) == Follows(k6, v) \/ (pc \notin BaseLabel /\ Follows(v, k6))

(* The stages of the TestRun at four of the status writes.                  *)
LabelInv ==
  /\ pc = "U_conditions"     => k6.stage = ""
  /\ pc = "U_initialization" => k6.stage = "initialization"
  /\ pc = "U_validated"      => k6.stage = "initialization"
  /\ pc = "U_initialized"    => k6.stage = "initialized"

ReachInv == pc \notin {"idle", "InitializeJobs"} => \A v \in Copies : Reaches(v)

(* After the starter no copy is at a stage that launches runners; runners   *)
(* that start paused run only after the starter.                            *)
StartInv ==
  /\ starter.made => \A v \in Copies \cup {k6} : v.stage \notin Early
  /\ starter.todo # {} => starter.made
  /\ spec.paused => \A r \in Runner : pod[r] = "running" => starter.made
-----------------------------------------------------------------------------
(* The control flow of a reconcile: from which place and stage it gets to   *)
(* which place and stage. *)

Flow(from, stage, to, next) ==
  pc = from /\ k6.stage = stage /\ pc' = to /\ k6'.stage = next

WorkFlow ==
  \/ pc = "CreateClient" /\ pc' \in {"Stage", "StopJobs"} /\ k6' = k6
  \/ pc = "StopJobs" /\ pc' = "U_abort" /\ k6'.stage = "stopped"
  \/ Flow("Stage", "", "U_conditions", "")
  \/ Flow("Stage", "", "U_invalid", "error")
  \/ Flow("Stage", "initialization", "U_inspect", "error")
  \/ Flow("Stage", "initialization", "U_validated", "initialization")
  \/ pc = "SetupCloudTest" /\ pc' = "U_created" /\ k6'.stage = k6.stage
  \/ Flow("Stage", "initialized", "U_jobs", "created") /\ Launched(N, N)
  \/ Flow("Stage", "created", "U_started", "started")
  \/ Flow("Stage", "started", "U_stopped", "stopped")
  \/ Flow("Stage", "started", "U_teardown", "started")
  \/ Flow("Stage", "started", "StopJobs", "started")
  \/ Flow("Stage", "stopped", "U_killed", "stopped")
  \/ Flow("Stage", "stopped", "Finalize", "stopped")
  \/ pc = "Finalize" /\ pc' = "U_finished" /\ k6'.stage = "finished"

(* Passing a TestRun on sets place and TestRun.                             *)
LEMMA GotoFlow ==
  ASSUME NEW label, NEW obj, Goto(label, obj) \/ GotoQueued(label, obj)
  PROVE  pc' = label /\ k6' = obj
  BY DEF Goto, GotoQueued

(* The steps of a reconcile other than its first and the status writes      *)
(* follow the switch on the stage in the reconciler.                        *)
LEMMA WorkSteps ==
  ASSUME TypeOK, NEW late \in BOOLEAN, Works(late)
  PROVE  Finished \/ WorkFlow
<1>0. k6 \in TestRun
  BY DEF TypeOK, OperatorOK
<1>1. CASE CreateClient
  BY <1>1, ReturnEnds DEF CreateClient, WorkFlow
<1>2. CASE StopJobs
  BY <1>2, ReturnEnds, AbortedCopy DEF StopJobs, StopJobsFailed, WorkFlow
<1>3. CASE InitializeJobs \/ CleanUp
  BY <1>3, ReturnEnds DEF InitializeJobs, CleanUp
<1>4. CASE StartTestRun
  <2>1. Initialize(k6, spec.id, Now).stage = k6.stage
    BY <1>0 DEF Initialize, TestRun
  <2>2. [k6 EXCEPT !.stage = "error"].stage = "error"
    BY <1>0, StageKeeps DEF Stage
  <2> QED
    BY <1>4, <2>1, <2>2, GotoFlow DEF StartTestRun, AtStage, WorkFlow, Flow
<1>5. CASE RunValidations(late)
  <2> DEFINE typed   == Stamp(k6, "CloudTestRun", "True", Now)
             created == IF IsUnknown(k6.conds, "CloudTestRunCreated")
                        THEN Stamp(typed, "CloudTestRunCreated", "False", Now) ELSE typed
             failed  == [k6 EXCEPT !.stage = "error"]
  <2>1. failed.stage = "error"
    BY <1>0, StageKeeps DEF Stage
  <2>2. /\ Stamp(k6, "CloudTestRun", "False", Now).stage = k6.stage
        /\ typed.stage = k6.stage /\ typed \in TestRun
    BY <1>0, OnlyStamped DEF CondType, Status
  <2>3. created.stage = k6.stage /\ created \in TestRun
    BY <2>2, OnlyStamped DEF CondType, Status
  <2>4. Stamp(created, "CloudTestRunFinalized", "False", Now).stage = k6.stage
    BY <2>3, OnlyStamped DEF CondType, Status
  <2>5. ASSUME NEW requeue, NotReady(k6, requeue, late) PROVE Finished
    BY <2>5, ReturnEnds DEF NotReady
  <2> QED
    BY <1>5, <2>1, <2>2, <2>4, <2>5, ReturnEnds, GotoFlow
       DEF RunValidations, AtStage, WorkFlow, Flow
<1>6. CASE SetupCloudTest(late)
  <2>1. runs + 1 \in Nat
    BY ControllerAssumption DEF TypeOK, CloudOK
  <2>2. [k6 EXCEPT !.id = runs + 1].stage = k6.stage /\ [k6 EXCEPT !.id = runs + 1] \in TestRun
    BY <1>0, <2>1 DEF TestRun
  <2>3. Stamp([k6 EXCEPT !.id = runs + 1], "CloudTestRunCreated", "True", Now).stage = k6.stage
    BY <2>2, OnlyStamped DEF CondType, Status
  <2> QED
    BY <1>6, <2>3, ReturnEnds, GotoFlow DEF SetupCloudTest, WorkFlow
<1>7. CASE CreateJobs(late)
  <2>1. [k6 EXCEPT !.stage = "created"].stage = "created"
    BY <1>0, StageKeeps DEF Stage
  <2> QED
    BY <1>7, <2>1, ReturnEnds, GotoFlow DEF CreateJobs, CreateJobsFailed, AtStage, WorkFlow, Flow
<1>8. CASE StartJobs(late)
  <2> DEFINE going == [k6 EXCEPT !.stage = "started"]
  <2>0. going \in TestRun /\ going.stage = "started"
    BY <1>0, StageType, StageKeeps DEF Stage
  <2>1. Stamp(going, "TestRunRunning", "True", Now).stage = "started"
    BY <2>0, OnlyStamped DEF CondType, Status
  <2> QED
    BY <1>8, <2>1, ReturnEnds, GotoFlow DEF StartJobs, AtStage, WorkFlow, Flow
<1>9. CASE Started(late)
  <2> DEFINE over == [k6 EXCEPT !.stage = "stopped"]
  <2>0. over \in TestRun /\ over.stage = "stopped"
    BY <1>0, StageType, StageKeeps DEF Stage
  <2>1. Stamp(over, "TestRunRunning", "False", Now).stage = "stopped"
    BY <2>0, OnlyStamped DEF CondType, Status
  <2>2. Stamp(k6, "TeardownExecuted", "True", Now).stage = k6.stage
    BY <1>0, OnlyStamped DEF CondType, Status
  <2>3. pc = "Stage" /\ k6.stage = "started"
    BY <1>9 DEF Started, AtStage
  <2>4. ASSUME MarkStopped \/ RunTeardown \/ KeepWaiting \/ Goto("StopJobs", k6)
        PROVE  Finished \/ WorkFlow
    BY <2>1, <2>2, <2>3, <2>4, ReturnEnds, GotoFlow
       DEF MarkStopped, RunTeardown, KeepWaiting, WorkFlow, Flow
  <2> QED
    BY <1>9, <2>4, ReturnEnds DEF Started, StartedPLZ, StartedOther
<1>10. CASE Stopped
  <2>1. ASSUME NEW kept, KillJobs(kept) PROVE k6'.stage = k6.stage /\ pc' = "U_killed"
    BY <2>1, KilledCopy
  <2>2. Goto("Finalize", k6) => pc' = "Finalize" /\ k6' = k6
    BY GotoFlow
  <2>3. \/ Return(TRUE) \/ Goto("Finalize", k6) \/ \E kept : KillJobs(kept)
    BY <1>10 DEF Stopped
  <2>4. pc = "Stage" /\ k6.stage = "stopped"
    BY <1>10 DEF Stopped, AtStage
  <2>5. CASE Return(TRUE)
    BY <2>5, ReturnEnds
  <2>6. CASE Goto("Finalize", k6)
    BY <2>2, <2>4, <2>6 DEF WorkFlow, Flow
  <2>7. CASE \E kept : KillJobs(kept)
    BY <2>1, <2>4, <2>7 DEF WorkFlow, Flow
  <2> QED
    BY <2>3, <2>5, <2>6, <2>7
<1>11. CASE Finalize(late)
  <2>1. /\ [k6 EXCEPT !.stage = "finished"].stage = "finished"
        /\ Stamp([k6 EXCEPT !.stage = "finished"], "CloudTestRunFinalized", "True", Now).stage
             = "finished"
    BY StageStamped DEF Stage, CondType, Status
  <2> QED
    BY <1>11, <2>1, ReturnEnds, GotoFlow DEF Finalize, WorkFlow
<1> QED
  BY <1>1, <1>2, <1>3, <1>4, <1>5, <1>6, <1>7, <1>8, <1>9, <1>10, <1>11 DEF Works

(* The way on after a status write that left obj.                           *)
UpdateFlow(obj) ==
  \/ pc = "U_conditions" /\ ~Skips /\ pc' = "U_initialization" /\ k6'.stage = "initialization"
  \/ pc = "U_conditions" /\ Skips /\ pc' = "U_skip" /\ k6'.stage = "initialized"
  \/ pc = "U_initialization" /\ pc' = "InitializeJobs" /\ k6' = obj
  \/ pc \in {"U_validated", "U_initialized"} /\ pc' = "SetupCloudTest" /\ k6' = obj
  \/ pc = "U_validated" /\ pc' = "U_initialized" /\ k6'.stage = "initialized"
  \/ /\ pc \in {"U_validated", "U_initialized"}
     /\ pc' = "U_setup" /\ k6'.stage = "initialized"
  \/ pc = "U_killed" /\ pc' = "Finalize" /\ k6' = obj

(* The reconcile ends with a status write or goes on by one of these ways.  *)
LEMMA UpdateSteps ==
  ASSUME TypeOK, NEW late \in BOOLEAN, Updates(late)
  PROVE  /\ pc \in UpdateLabel
         /\ \/ Finished
            \/ UpdatePatched /\ UpdateFlow(Patched) /\ pc # "U_initialized"
            \/ UpdateSkipped /\ UpdateFlow(Refetched)
         /\ UpdatePatched \/ UpdateSkipped \/ UpdateFailed
<1>0. Patched \in TestRun /\ Refetched \in TestRun
  BY UpdateTypes DEF TypeOK
<1> DEFINE begun(obj) == [obj EXCEPT !.stage = "initialization"]
           ready(obj) == [obj EXCEPT !.stage = "initialized"]
<1>a. \A obj \in TestRun : /\ begun(obj).stage = "initialization"
                           /\ ready(obj).stage = "initialized"
  BY StageKeeps DEF Stage
<1> HIDE DEF begun, ready
<1>1. ASSUME NEW obj \in TestRun, FirstStage(obj), pc = "U_conditions"
      PROVE  UpdateFlow(obj)
  <2>1. IF Skips THEN Goto("U_skip", ready(obj)) ELSE Goto("U_initialization", begun(obj))
    BY <1>1 DEF FirstStage, Skips, begun, ready
  <2> QED
    BY <1>1, <1>a, <2>1, GotoFlow DEF UpdateFlow
<1>2. ASSUME NEW obj \in TestRun, CloudStep(obj), pc \in {"U_validated", "U_initialized"}
      PROVE  UpdateFlow(obj)
  <2>1. Goto("SetupCloudTest", obj) \/ Goto("U_setup", ready(obj))
    BY <1>2 DEF CloudStep, ready
  <2> QED
    BY <1>2, <1>a, <2>1, GotoFlow DEF UpdateFlow
<1>3. ASSUME NEW obj \in TestRun, AfterValidation(obj), pc = "U_validated"
      PROVE  Finished \/ UpdateFlow(obj)
  <2>1. Goto("U_initialized", ready(obj)) \/ CloudStep(obj) \/ Return(FALSE)
    BY <1>3 DEF AfterValidation, ready
  <2>2. CASE Goto("U_initialized", ready(obj))
    BY <1>3, <1>a, <2>2, GotoFlow DEF UpdateFlow
  <2> QED
    BY <1>2, <1>3, <2>1, <2>2, ReturnEnds
<1>4. ASSUME NEW obj, NEW requeue, NotReady(obj, requeue, late)
      PROVE  Finished
  BY <1>4, ReturnEnds DEF NotReady
<1>5. CASE UpdateAndReturn
  BY <1>5, ReturnEnds DEF UpdateAndReturn, ReturnLabel, UpdateLabel
<1>6. CASE UpdateConditions
  BY <1>0, <1>1, <1>6, ReturnEnds DEF UpdateConditions, UpdateLabel
<1>7. CASE UpdateInitialization
  BY <1>7, ReturnEnds, GotoFlow DEF UpdateInitialization, UpdateFlow, UpdateLabel
<1>8. CASE UpdateInspect(late)
  BY <1>4, <1>8 DEF UpdateInspect, UpdateLabel
<1>9. CASE UpdateValidated(late)
  BY <1>0, <1>3, <1>4, <1>9 DEF UpdateValidated, UpdateLabel
<1>10. CASE UpdateInitialized
  BY <1>0, <1>2, <1>10, ReturnEnds DEF UpdateInitialized, UpdateLabel
<1>11. CASE UpdateKilled
  BY <1>11, ReturnEnds, GotoFlow DEF UpdateKilled, UpdateFlow, UpdateLabel
<1> QED
  BY <1>5, <1>6, <1>7, <1>8, <1>9, <1>10, <1>11 DEF Updates

(* The steps that leave the reconcile in progress alone.                    *)
World ==
  \/ CacheSync \/ Resync \/ InitializerEnds \/ Runners \/ Events \/ CloudAborts \/ UserDeletes
  \/ UNCHANGED vars

(* A step of the world changes neither place nor TestRun of the reconcile.  *)
LEMMA WorldSteps == World => UNCHANGED <<pc, k6>>
  BY DEF World, CacheSync, Resync, InitializerEnds, Runners, PodStarts, PodServes, TestEnds,
     PodFails, Resume, Stop, SetPod, Events, EventArrives, CloudAborts, UserDeletes, operator, vars

(* The first step of a reconcile takes the cached TestRun, unless it is gone. *)
Begins ==
  /\ Reconcile /\ pc = "idle" /\ cache.stage # "gone"
  /\ k6' = cache /\ pc' \in {"CreateClient", "Stage"}

(* All that a step can do to place and TestRun of the reconcile.            *)
LEMMA FlowStep ==
  ASSUME TypeOK, [Next]_vars
  PROVE  \/ Finished
         \/ UNCHANGED <<pc, k6>>
         \/ Begins
         \/ WorkFlow /\ UNCHANGED <<api, cache, watch>>
         \/ UpdatePatched /\ UpdateFlow(Patched) /\ pc # "U_initialized"
         \/ UpdateSkipped /\ UpdateFlow(Refetched)
<1>1. ASSUME NEW late \in BOOLEAN, Operator(late)
      PROVE  Reconcile \/ Updates(late) \/ Works(late)
  BY <1>1 DEF Operator, Updates, Works
<1>2. CASE Reconcile
  BY <1>2 DEF Reconcile, Begins
<1>3. CASE Restart
  BY <1>3 DEF Restart, Finished
<1>4. ASSUME NEW late \in BOOLEAN, Works(late)
      PROVE  Finished \/ (WorkFlow /\ UNCHANGED <<api, cache, watch>>)
  <2>1. UNCHANGED store \/ CleanUp
    BY <1>4 DEF Works, CreateClient, StopJobs, StartTestRun, InitializeJobs, RunValidations,
       SetupCloudTest, CreateJobs, StartJobs, Started, Stopped, Finalize
  <2>2. CleanUp => Finished
    BY ReturnEnds DEF CleanUp
  <2> QED
    BY <1>4, <2>1, <2>2, WorkSteps DEF store
<1> QED
  BY <1>1, <1>2, <1>3, <1>4, UpdateSteps, WorldSteps DEF Next, World
-----------------------------------------------------------------------------
(* The order of the versions. *)

(* The stages and those that follow them.                                   *)
LEMMA WithinTable ==
  /\ Within("") = {"", "initialized"} \/ Within("") = {"", "initialization"}
  /\ Within("initialization") = {"initialization", "initialized"}
  /\ Within("initialized") = {"initialized", "created"}
  /\ Within("created") = {"created", "started"} /\ Within("started") = {"started"}
  BY DEF Within

(* A stage that SetIfNewer takes is not behind, and leads to none before    *)
(* the start from one after it.                                             *)
LEMMA StepUp ==
  ASSUME NEW from, NEW to \in Forward, StageAccepts(from, to)
  PROVE  /\ from \in Forward
         /\ to # from /\ from \notin Within(to)
         /\ to \in Within(from) => \A s \in Within(from) : to \in Within(s)
<1>1. from \in Forward /\ to # from /\ to # ""
  BY DEF Forward, StageAccepts
<1>2. CASE from = ""
  BY <1>1, <1>2, WithinTable DEF Forward
<1>3. CASE from = "initialization"
  BY <1>1, <1>3, WithinTable DEF Forward
<1>4. CASE from = "initialized"
  BY <1>1, <1>4, WithinTable DEF Forward, StageAccepts
<1>5. CASE from \in {"created", "started"}
  BY <1>1, <1>5, WithinTable DEF Forward, StageAccepts
<1> QED
  BY <1>1, <1>2, <1>3, <1>4, <1>5 DEF Forward

(* A version follows itself.                                                *)
LEMMA FollowsItself == \A v : Follows(v, v)
  BY DEF Follows, Within

(* A version follows another if it has the stage of one that does.          *)
LEMMA SameStage ==
  ASSUME NEW v, NEW w, NEW u, w.stage = u.stage
  PROVE  (Follows(v, w) <=> Follows(v, u)) /\ (Follows(w, v) <=> Follows(u, v))
  BY DEF Follows

(* What a status write stores follows every version.                        *)
LEMMA WriteFollows ==
  ASSUME TypeOK, OrderInv, ReachInv, pc \in UpdateLabel
  PROVE  \A v \in Copies : Follows(v, Patched)
<1>1. CASE Patched.stage = api.stage
  BY <1>1, SameStage DEF OrderInv
<1>2. CASE Patched.stage # api.stage
  <2>1. StageAccepts(cache.stage, k6.stage) /\ Patched.stage = k6.stage
    BY <1>2 DEF Patched, MergePatch, Merged, SetIfNewer
  <2>2. CASE k6.stage \notin Forward
    BY <2>1, <2>2 DEF Follows
  <2>3. CASE k6.stage \in Forward
    <3>1. cache.stage \in Forward
      BY <2>1, <2>3, StepUp
    <3>2. \A v \in Copies : Reaches(v)
      BY DEF ReachInv, UpdateLabel
    <3>3. cache \in Copies
      BY DEF Copies
    <3>4. k6.stage \in Within(cache.stage)
      BY <2>1, <2>3, <3>1, <3>2, <3>3, StepUp DEF Reaches, Follows
    <3>5. ASSUME NEW v \in Copies, v.stage \in Forward
          PROVE  v.stage \in Within(cache.stage)
      BY <3>1, <3>5 DEF OrderInv, Follows
    <3> QED
      BY <2>1, <2>3, <3>4, <3>5, StepUp DEF Follows
  <2> QED
    BY <2>2, <2>3
<1> QED
  BY <1>1, <1>2

(* OrderInv holds initially.                                                *)
LEMMA OrderInit == Init => OrderInv /\ LabelInv /\ ReachInv
<1> SUFFICES ASSUME Init PROVE OrderInv /\ LabelInv /\ ReachInv
  OBVIOUS
<1>1. Copies = {NewTestRun} /\ Len(watch) = 0
  BY DEF Init, Copies
<1>3. OrderInv
  BY <1>1, FollowsItself DEF OrderInv, Init
<1>4. pc = "idle" /\ k6 = Gone
  BY DEF Init
<1> QED
  BY <1>3, <1>4 DEF LabelInv, ReachInv

(* OrderInv is inductive.                                                   *)
LEMMA OrderStep ==
  ASSUME TypeOK, OrderInv, ReachInv, [Next]_vars
  PROVE  OrderInv'
<1>0. watch \in Seq(TestRun) /\ Len(watch) \in Nat
  BY LenProperties DEF TypeOK, StoreOK
<1> SUFFICES /\ \A v \in Copies' : Follows(cache', v) /\ Follows(v, api')
             /\ \A i, j \in 1 .. Len(watch') : i <= j => Follows(watch'[i], watch'[j])
  BY SpecStays DEF OrderInv, Follows, Within, Skips
<1>1. CASE UNCHANGED <<api, cache, watch>>
  BY <1>1 DEF OrderInv, Copies
<1>2. ASSUME NEW obj \in TestRun, \A v \in Copies : Follows(v, obj),
             UNCHANGED cache, api' = obj, watch' \in {watch, Append(watch, obj)}
      PROVE  /\ \A v \in Copies' : Follows(cache', v) /\ Follows(v, api')
             /\ \A i, j \in 1 .. Len(watch') : i <= j => Follows(watch'[i], watch'[j])
  <2>1. Copies' \subseteq Copies \cup {obj} /\ cache \in Copies
    BY <1>2, <1>0, AppendProperties DEF Copies
  <2>2. \A v \in Copies' : Follows(cache', v) /\ Follows(v, api')
    BY <1>2, <2>1, FollowsItself DEF OrderInv
  <2>3. \A i \in 1 .. Len(watch) : watch[i] \in Copies
    BY DEF Copies
  <2>4. ASSUME watch' = Append(watch, obj), NEW i \in 1 .. Len(watch'), NEW j \in 1 .. Len(watch'),
               i <= j
        PROVE  Follows(watch'[i], watch'[j])
    <3>1. /\ Len(watch') = Len(watch) + 1 /\ watch'[Len(watch) + 1] = obj
          /\ \A m \in 1 .. Len(watch) : watch'[m] = watch[m]
      BY <2>4, <1>0, AppendProperties
    <3>2. CASE j \in 1 .. Len(watch)
      <4>1. i \in 1 .. Len(watch)
        BY <2>4, <3>2, <1>0
      <4> QED
        BY <2>4, <3>1, <3>2, <4>1 DEF OrderInv
    <3>3. CASE j = Len(watch) + 1 /\ i \in 1 .. Len(watch)
      BY <1>2, <2>3, <3>1, <3>3
    <3>4. CASE j = Len(watch) + 1 /\ i = Len(watch) + 1
      BY <3>1, <3>4, FollowsItself
    <3> QED
      BY <2>4, <3>1, <3>2, <3>3, <3>4, <1>0
  <2> QED
    BY <1>2, <2>2, <2>4 DEF OrderInv
<1>3. CASE UNCHANGED api /\ watch # <<>> /\ cache' = Head(watch) /\ watch' = Tail(watch)
  <2>1. /\ Len(watch) > 0 /\ cache' = watch[1] /\ Len(watch') = Len(watch) - 1
        /\ \A i \in 1 .. Len(watch') : watch'[i] = watch[i + 1]
    BY <1>0, <1>3, HeadTailProperties
  <2>2. \A v \in Copies' : v = api \/ \E i \in 1 .. Len(watch) : v = watch[i]
    BY <1>0, <1>3, <2>1 DEF Copies
  <2>3. \A i \in 1 .. Len(watch) : Follows(watch[i], api) /\ Follows(watch[1], watch[i])
    BY <1>0, <2>1 DEF OrderInv, Copies
  <2>4. \A v \in Copies' : Follows(cache', v) /\ Follows(v, api')
    BY <1>0, <1>3, <2>1, <2>2, <2>3, FollowsItself
  <2>5. \A i, j \in 1 .. Len(watch') : i <= j => Follows(watch'[i], watch'[j])
    BY <1>0, <2>1 DEF OrderInv
  <2> QED
    BY <2>4, <2>5
<1>4. CASE UNCHANGED api /\ cache' = api /\ watch' = <<>>
  BY <1>4, FollowsItself, EmptySeq DEF Copies
<1>5. CASE UpdatePatched /\ pc \in UpdateLabel
  BY <1>2, <1>5, WriteFollows, UpdateTypes DEF UpdatePatched, TypeOK
<1>6. CASE DeleteTestRun
  <2>1. \A v : Follows(v, Gone)
    BY DEF Follows, Gone, Forward
  <2> QED
    BY <1>2, <1>6, <2>1, GoneType DEF DeleteTestRun
<1> QED
  BY <1>1, <1>3, <1>4, <1>5, <1>6, StoreStep

(* A version is new only in that a status write gave it the stage of the    *)
(* reconcile's TestRun, or in that it is the deleted one.                   *)
LEMMA NewStage ==
  ASSUME TypeOK, [Next]_vars
  PROVE  \A v \in Copies' : \/ \E w \in Copies : w.stage = v.stage
                            \/ v.stage = k6.stage
                            \/ v.stage = "gone"
<1>1. api'.stage \in {api.stage, k6.stage, "gone"}
  BY StoreStep, PatchedStage DEF UpdatePatched, DeleteTestRun, Gone
<1>2. api \in Copies
  BY DEF Copies
<1> QED
  BY <1>1, <1>2, CopiesStep DEF TypeOK

(* LabelInv is inductive.                                                   *)
LEMMA LabelStep ==
  ASSUME TypeOK, LabelInv, [Next]_vars
  PROVE  LabelInv'
<1>1. CASE Finished \/ UNCHANGED <<pc, k6>> \/ Begins
  BY <1>1 DEF Finished, Begins, LabelInv
<1>2. CASE WorkFlow
  BY <1>2 DEF WorkFlow, Flow, LabelInv
<1>3. CASE \E obj : UpdateFlow(obj)
  BY <1>3 DEF UpdateFlow, LabelInv
<1> QED
  BY <1>1, <1>2, <1>3, FlowStep

(* ReachInv is inductive.                                                   *)
LEMMA ReachStep ==
  ASSUME TypeOK, OrderInv, LabelInv, ReachInv, [Next]_vars
  PROVE  ReachInv'
<1> SUFFICES ASSUME pc' \notin {"idle", "InitializeJobs"}, NEW v \in Copies'
             PROVE  Follows(k6', v) \/ (pc' \notin BaseLabel /\ Follows(v, k6'))
  BY SpecStays DEF ReachInv, Reaches, Follows, Within, Skips
<1>1. \/ \E w \in Copies : w.stage = v.stage
      \/ v.stage = k6.stage
      \/ v.stage = "gone"
  BY NewStage
<1>2. ASSUME pc \notin {"idle", "InitializeJobs"}
      PROVE  Reaches(v)
  <2>1. v.stage = "gone" => Reaches(v)
    BY DEF Reaches, Follows, Forward
  <2>2. v.stage = k6.stage => Reaches(v)
    BY FollowsItself, SameStage DEF Reaches
  <2>3. ASSUME NEW w \in Copies, w.stage = v.stage PROVE Reaches(v)
    BY <1>2, <2>3, SameStage DEF ReachInv, Reaches
  <2> QED
    BY <1>1, <2>1, <2>2, <2>3
<1>3. k6'.stage \notin Forward => Follows(k6', v)
  BY DEF Follows
<1>4. CASE UNCHANGED <<pc, k6>>
  BY <1>2, <1>4 DEF Reaches
<1>5. CASE Begins
  <2>1. v \in Copies
    BY <1>5 DEF Begins, Reconcile, store, Copies
  <2> QED
    BY <1>5, <2>1 DEF Begins, OrderInv
<1>6. CASE WorkFlow
  <2>1. Reaches(v)
    BY <1>2, <1>6 DEF WorkFlow, Flow
  <2>2. CASE k6'.stage \in {"error", "stopped", "finished"}
    BY <1>3, <2>2 DEF Forward
  <2>3. CASE k6'.stage = k6.stage /\ (pc \in BaseLabel \/ pc' \notin BaseLabel)
    BY <2>1, <2>3, SameStage DEF Reaches
  <2>4. CASE pc = "Stage" /\ pc' \in {"U_jobs", "U_started"}
             /\ <<k6.stage, k6'.stage>> \in {<<"initialized", "created">>, <<"created", "started">>}
    <3>1. Follows(k6, v)
      BY <2>1, <2>4 DEF Reaches, BaseLabel
    <3>2. Follows(v, k6')
      BY <2>4, <3>1, WithinTable DEF Follows, Forward
    <3> QED
      BY <2>4, <3>2 DEF BaseLabel
  <2> QED
    BY <1>6, <2>2, <2>3, <2>4 DEF WorkFlow, Flow, BaseLabel
<1>7. ASSUME UpdatePatched \/ UpdateSkipped, NEW obj, UpdateFlow(obj), Follows(v, obj) \/ Follows(obj, v)
      PROVE  Follows(k6', v) \/ (pc' \notin BaseLabel /\ Follows(v, k6'))
  <2>1. Reaches(v) /\ pc' \notin BaseLabel
    BY <1>2, <1>7 DEF UpdateFlow, BaseLabel
  <2>2. CASE k6' = obj
    BY <1>7, <2>1, <2>2
  <2>3. CASE pc = "U_conditions"
    <3>1. Follows(k6, v) /\ k6.stage = ""
      BY <2>1, <2>3 DEF Reaches, BaseLabel, LabelInv
    <3>2. k6'.stage = IF Skips THEN "initialized" ELSE "initialization"
      BY <1>7, <2>3 DEF UpdateFlow
    <3>3. v.stage \in Forward => v.stage \in {"", k6'.stage}
      BY <3>1, <3>2 DEF Follows, Forward, Within
    <3>4. Within("") = {"", k6'.stage}
      BY <3>2 DEF Within
    <3>5. k6'.stage \in Within(k6'.stage)
      BY <3>2, WithinTable
    <3>6. Follows(v, k6')
      BY <3>3, <3>4, <3>5 DEF Follows
    <3> QED
      BY <2>1, <3>6
  <2>4. CASE pc = "U_validated" /\ k6'.stage = "initialized"
    <3>1. Follows(k6, v) /\ k6.stage = "initialization"
      BY <2>1, <2>4 DEF Reaches, BaseLabel, LabelInv
    <3>2. Follows(v, k6')
      BY <2>4, <3>1, WithinTable DEF Follows, Forward
    <3> QED
      BY <2>1, <3>2
  <2>5. CASE pc = "U_initialized" /\ k6'.stage = "initialized"
    <3>1. k6'.stage = k6.stage
      BY <2>5 DEF LabelInv
    <3> QED
      BY <2>1, <3>1, SameStage DEF Reaches
  <2> QED
    BY <1>7, <2>2, <2>3, <2>4, <2>5 DEF UpdateFlow
<1>8. CASE UpdatePatched /\ UpdateFlow(Patched)
  <2>1. pc \in UpdateLabel
    BY <1>8 DEF UpdateFlow, UpdateLabel
  <2>2. Copies' \subseteq Copies \cup {Patched}
    BY <1>8, CopiesStep DEF UpdatePatched, TypeOK
  <2>3. Follows(v, Patched)
    BY <2>1, <2>2, WriteFollows, FollowsItself
  <2> QED
    BY <1>7, <1>8, <2>3
<1>9. CASE UpdateSkipped /\ UpdateFlow(Refetched)
  <2>1. v \in Copies
    BY <1>9 DEF UpdateSkipped, store, Copies
  <2>2. Follows(cache, v)
    BY <2>1 DEF OrderInv
  <2>3. Follows(k6, v) \/ Follows(v, k6)
    BY <1>2, <1>9 DEF UpdateFlow, Reaches
  <2>4. Follows(v, Refetched) \/ Follows(Refetched, v)
    BY <2>2, <2>3 DEF Refetched
  <2> QED
    BY <1>7, <1>9, <2>4
<1> QED
  BY <1>4, <1>5, <1>6, <1>8, <1>9, FlowStep DEF Finished
-----------------------------------------------------------------------------
(* The start of the runners. *)

(* The lists of jobs and services are up to date when they are read.        *)
NoLag == "lag" \notin Faults

(* StartInv holds initially.                                                *)
LEMMA StartInit == Init => StartInv
  BY DEF Init, StartInv, NoCurlJob

(* What a step does to the starter job: it is created by StartJobs and      *)
(* disappears with the TestRun.                                             *)
LEMMA StarterStep ==
  ASSUME TypeOK, [Next]_vars
  PROVE  \/ starter'.made = starter.made /\ starter'.todo \subseteq starter.todo
         \/ /\ \E late \in BOOLEAN : StartJobs(late)
            /\ ~starter.made /\ starter'.made /\ ~Deleted
            /\ \E listed \in SUBSET svc : ListServices(listed) /\ AllReady(listed)
         \/ DeleteTestRun
<1>0. starter \in CurlJob
  BY DEF TypeOK, ClusterOK
<1>1. CASE UNCHANGED starter
  BY <1>1
<1>2. CASE \E late \in BOOLEAN : StartJobs(late)
  <2>1. \/ UNCHANGED starter
        \/ \E listed \in SUBSET svc : /\ ListServices(listed) /\ AllReady(listed)
                                      /\ starter' = CreateCurlJob(starter, listed)
    BY <1>2 DEF StartJobs
  <2> QED
    BY <1>0, <1>2, <2>1 DEF CreateCurlJob, CurlJob
<1>3. CASE Runners
  BY <1>0, <1>3 DEF Runners, PodStarts, PodServes, TestEnds, PodFails, Resume, Stop, CurlJob
<1> QED
  BY <1>1, <1>2, <1>3, ClusterStep DEF cluster, Launched

(* What can happen to a paused runner.                                      *)
Moves(r, state) ==
  /\ pod' = [pod EXCEPT ![r] = state]
  /\ \/ state = pod[r]
     \/ pod[r] = "created" /\ state = "booting"
     \/ pod[r] = "booting" /\ state = "paused"
     \/ pod[r] = "paused" /\ state = "running" /\ starter.made
     \/ /\ pod[r] \in {"created", "booting", "paused", "running"}
        /\ state \in {"ended", "exited", "failed"}

(* Nothing else happens to it: the starter has something left to do only    *)
(* when it was made.                                                        *)
LEMMA RunnerStep ==
  ASSUME TypeOK, spec.paused, StartInv, NEW r \in Runner,
         PodStarts(r) \/ PodServes(r) \/ TestEnds(r) \/ PodFails(r) \/ Resume(r) \/ Stop(r)
  PROVE  \E state \in PodState : Moves(r, state)
<1>1. pod \in [Runner -> PodState]
  BY DEF TypeOK, ClusterOK
<1>2. CASE PodStarts(r) \/ PodServes(r)
  BY <1>1, <1>2 DEF PodStarts, PodServes, SetPod, PodState, Moves
<1>3. CASE TestEnds(r) \/ PodFails(r) \/ Stop(r)
  BY <1>1, <1>3 DEF TestEnds, PodFails, Stop, SetPod, PodState, OverState, Moves
<1>4. CASE Resume(r)
  <2>1. starter.made
    BY <1>4 DEF Resume, StartInv
  <2> QED
    BY <1>1, <1>4, <2>1 DEF Resume, SetPod, PodState, Moves
<1> QED
  BY <1>2, <1>3, <1>4

(* StartInv is inductive: a reconcile that makes the starter has found the  *)
(* stage "created", so every version is past the launch of the runners.     *)
LEMMA StartStep ==
  ASSUME TypeOK, OrderInv, LabelInv, ReachInv, StartInv, [Next]_vars
  PROVE  StartInv'
<1>1. ASSUME starter.made, NEW v \in Copies' \cup {k6'}
      PROVE  v.stage \notin Early
  <2>1. \A w \in Copies \cup {k6} : w.stage \notin Early
    BY <1>1 DEF StartInv
  <2>2. Gone.stage \notin Early /\ "gone" \notin Early
    BY DEF Gone, Early
  <2>3. \A w \in Copies' : w.stage \notin Early
    BY <2>1, <2>2, NewStage
  <2>4. api.stage \notin Early /\ cache.stage \notin Early /\ k6.stage \notin Early
    BY <2>1 DEF Copies
  <2>5. Patched.stage \notin Early /\ Refetched.stage \notin Early
    BY <2>4, PatchedStage DEF Refetched
  <2>6. CASE Finished \/ UNCHANGED <<pc, k6>> \/ Begins
    BY <2>2, <2>3, <2>4, <2>6 DEF Finished, Begins
  <2>7. CASE WorkFlow
    <3>1. k6'.stage \notin Early
      BY <2>4, <2>7 DEF WorkFlow, Flow, Early
    <3> QED
      BY <2>3, <3>1
  <2>8. ASSUME NEW obj, UpdateFlow(obj), obj.stage \notin Early
        PROVE  k6'.stage \notin Early
    BY <2>4, <2>8 DEF UpdateFlow, LabelInv, Early
  <2> QED
    BY <2>3, <2>5, <2>6, <2>7, <2>8, FlowStep
<1>2. ASSUME NEW late \in BOOLEAN, StartJobs(late), NEW v \in Copies' \cup {k6'}
      PROVE  v.stage \notin Early
  <2>1. pc = "Stage" /\ k6.stage = "created" /\ UNCHANGED <<api, cache, watch>>
    BY <1>2 DEF StartJobs, AtStage, store
  <2>2. ASSUME NEW w \in Copies PROVE w.stage \notin Early
    <3>1. Follows(k6, w)
      BY <2>1 DEF ReachInv, Reaches, BaseLabel
    <3> QED
      BY <2>1, <3>1, WithinTable DEF Follows, Forward, Early
  <2>3. k6'.stage \notin Early
    <3>1. Finished \/ WorkFlow
      BY <1>2, WorkSteps DEF Works
    <3>2. CASE Finished
      BY <3>2 DEF Finished, Gone, Early
    <3>3. CASE WorkFlow
      BY <2>1, <3>3 DEF WorkFlow, Flow, Early
    <3> QED
      BY <3>1, <3>2, <3>3
  <2> QED
    BY <2>1, <2>2, <2>3 DEF Copies
<1>3. CASE DeleteTestRun
  BY <1>3 DEF DeleteTestRun, StartInv, NoCurlJob
<1>4. starter.made => starter'.made \/ DeleteTestRun
  BY StarterStep
<1>5. starter'.todo # {} => starter'.made \/ DeleteTestRun
  BY StarterStep DEF StartInv
<1>6. ASSUME spec.paused, NEW r \in Runner, pod'[r] = "running"
      PROVE  starter'.made \/ DeleteTestRun
  <2>0. pod \in [Runner -> PodState]
    BY DEF TypeOK, ClusterOK
  <2>1. CASE pod[r] = "running"
    BY <1>4, <1>6, <2>1 DEF StartInv
  <2>2. CASE Runners
    <3>1. PICK s \in Runner : \/ PodStarts(s) \/ PodServes(s) \/ TestEnds(s)
                              \/ PodFails(s) \/ Resume(s) \/ Stop(s)
      BY <2>2 DEF Runners
    <3>2. PICK state \in PodState : Moves(s, state)
      BY <1>6, <3>1, RunnerStep
    <3>3. pod'[r] = IF r = s THEN state ELSE pod[r]
      BY <2>0, <3>2 DEF Moves
    <3> QED
      BY <1>4, <1>6, <2>1, <3>2, <3>3 DEF Moves
  <2>3. CASE \E n, m \in 0 .. N : Launched(n, m)
    BY <1>6, <2>1, <2>3 DEF Launched
  <2>4. CASE Stopped
    BY <1>6, <2>0, <2>1, <2>4 DEF Stopped, KillJobs
  <2> QED
    BY <1>6, <2>1, <2>2, <2>3, <2>4, ClusterStep DEF cluster
<1> QED
  BY <1>1, <1>2, <1>3, <1>5, <1>6, StarterStep, SpecStays DEF StartInv

(* A single runner takes the steps of SynchronizedStart.                    *)
LEMMA RunnerRefines ==
  ASSUME TypeOK, NEW r \in Runner, NEW state \in PodState, Moves(r, state),
         starter'.made = starter.made, spec.paused, UNCHANGED spec
  PROVE  Start!Next \/ UNCHANGED Start!vars
<1> DEFINE runner == [x \in Runner |-> IF spec.paused THEN RunnerStateOf[pod[x]] ELSE "absent"]
           next   == [x \in Runner |-> IF spec'.paused THEN RunnerStateOf[pod'[x]] ELSE "absent"]
<1>0. pod \in [Runner -> PodState]
  BY DEF TypeOK, ClusterOK
<1>1. next = [runner EXCEPT ![r] = RunnerStateOf[state]]
  BY <1>0 DEF Moves
<1>2. runner[r] = RunnerStateOf[pod[r]]
  OBVIOUS
<1>3. CASE state = pod[r]
  <2>1. pod' = pod
    BY <1>0, <1>3 DEF Moves
  <2> QED
    BY <2>1 DEF Start!vars
<1>4. CASE pod[r] = "booting" /\ state = "paused"
  <2>1. Start!Ready(r)
    BY <1>1, <1>2, <1>4 DEF Start!Ready, Start!Become, RunnerStateOf
  <2> QED
    BY <2>1 DEF Start!Next
<1>5. CASE pod[r] = "paused" /\ state = "running" /\ starter.made
  <2>1. Start!Execute(r)
    BY <1>1, <1>2, <1>5 DEF Start!Execute, Start!Become, RunnerStateOf
  <2> QED
    BY <2>1 DEF Start!Next
<1>6. CASE /\ pod[r] \in {"created", "booting", "paused", "running"}
           /\ state \in {"ended", "exited", "failed"}
  <2>0. /\ runner[r] \in {"launched", "ready", "executing"}
        /\ RunnerStateOf[state] = "over"
    BY <1>2, <1>6 DEF RunnerStateOf
  <2>1. Start!Over(r)
    BY <1>1, <2>0 DEF Start!Over, Start!Become
  <2> QED
    BY <2>1 DEF Start!Next
<1>7. CASE pod[r] = "created" /\ state = "booting"
  <2>1. RunnerStateOf[state] = runner[r]
    BY <1>2, <1>7 DEF RunnerStateOf
  <2> QED
    BY <1>1, <2>1 DEF Start!vars
<1> QED
  BY <1>3, <1>4, <1>5, <1>6, <1>7 DEF Moves

(* The states of the pods are states of runners.                            *)
LEMMA RunnerStates == \A state \in PodState : RunnerStateOf[state] \in Start!RunnerState
  BY DEF RunnerStateOf, PodState, Start!RunnerState

(* Every step of the controller is one of SynchronizedStart, or leaves      *)
(* runners and start alone.                                                 *)
LEMMA RefineStep ==
  ASSUME TypeOK, spec.paused, NoLag, LaunchInv, StartInv, [Next]_vars
  PROVE  [Start!Next]_Start!vars
<1> DEFINE runner == [x \in Runner |-> IF spec.paused THEN RunnerStateOf[pod[x]] ELSE "absent"]
           next   == [x \in Runner |-> IF spec'.paused THEN RunnerStateOf[pod'[x]] ELSE "absent"]
<1> UNCHANGED spec
  BY SpecStays
<1>0. TypeOK' /\ pod \in [Runner -> PodState] /\ pod' \in [Runner -> PodState]
  BY TypeStep DEF TypeOK, ClusterOK
<1>1. CASE UNCHANGED pod /\ starter'.made = starter.made
  BY <1>1 DEF Start!vars
<1>2. CASE Runners
  <2>1. PICK r \in Runner : \/ PodStarts(r) \/ PodServes(r) \/ TestEnds(r)
                            \/ PodFails(r) \/ Resume(r) \/ Stop(r)
    BY <1>2 DEF Runners
  <2>2. starter'.made = starter.made
    BY <2>1 DEF PodStarts, PodServes, TestEnds, PodFails, Resume, Stop, TypeOK, ClusterOK, CurlJob
  <2> QED
    BY <2>1, <2>2, RunnerStep, RunnerRefines
<1>3. CASE DeleteTestRun
  <2>1. Start!Clear
    BY <1>3 DEF DeleteTestRun, NoCurlJob, Start!Clear, RunnerStateOf
  <2> QED
    BY <2>1 DEF Start!Next
<1>4. CASE Stopped /\ UNCHANGED starter
  <2>1. \A x \in Runner : pod'[x] \in {pod[x], "none"}
    BY <1>0, <1>4 DEF Stopped, KillJobs
  <2>2. next \in [Runner -> Start!RunnerState]
    BY <1>0, RunnerStates
  <2>3. \A x \in Runner : next[x] \in {runner[x], "absent"}
    BY <2>1 DEF RunnerStateOf
  <2>4. Start!Remove
    BY <1>4, <2>2, <2>3 DEF Start!Remove
  <2> QED
    BY <2>4 DEF Start!Next
<1>5. CASE (\E late \in BOOLEAN : StartJobs(late)) /\ UNCHANGED pod
  <2>0. svc = Runner \/ Deleted
    BY <1>5 DEF StartJobs, AtStage, LaunchInv, Launch, Manned
  <2>1. CASE /\ ~starter.made /\ starter'.made /\ ~Deleted
             /\ \E listed \in SUBSET svc : ListServices(listed) /\ AllReady(listed)
    <3>0. AllReady(Runner)
      BY <2>0, <2>1 DEF ListServices, NoLag, Fault
    <3>1. \A x \in Runner : pod[x] \in {"paused", "ended"}
      BY <2>1, <3>0 DEF AllReady, IsServiceReady, StartInv
    <3>2. \A x \in Runner : runner[x] \in {"ready", "over"}
      BY <3>1 DEF RunnerStateOf
    <3>3. starter'.made = TRUE
      BY <1>0, <2>1 DEF TypeOK, ClusterOK, CurlJob
    <3>4. Start!Release
      BY <1>5, <2>1, <3>2, <3>3 DEF Start!Release
    <3> QED
      BY <3>4 DEF Start!Next
  <2> QED
    BY <1>1, <1>3, <1>5, <2>1, StarterStep
<1>6. CASE \E late \in BOOLEAN, n, m \in 0 .. N : CreateJobs(late) /\ Launched(n, m)
  <2>1. ~starter.made
    BY <1>6 DEF CreateJobs, AtStage, StartInv, Early
  <2>2. UNCHANGED pod \/ \A x \in Runner : pod[x] = "none"
    BY <1>6 DEF CreateJobs, Exists, cluster
  <2>3. \A x \in Runner : pod'[x] = pod[x] \/ (pod[x] = "none" /\ pod'[x] = "created")
    BY <1>0, <1>6, <2>2 DEF Launched
  <2>4. next \in [Runner -> Start!RunnerState]
    BY <1>0, RunnerStates
  <2>5. \A x \in Runner : next[x] = runner[x] \/ (runner[x] = "absent" /\ next[x] = "launched")
    BY <2>3 DEF RunnerStateOf
  <2>6. UNCHANGED starter
    BY <1>6 DEF Launched
  <2>7. Start!Launch
    BY <2>1, <2>4, <2>5, <2>6 DEF Start!Launch
  <2> QED
    BY <2>7 DEF Start!Next
<1> QED
  BY <1>1, <1>2, <1>3, <1>4, <1>5, <1>6, ClusterStep DEF cluster

(* With lists of services that are up to date, a TestRun whose runners      *)
(* start paused, the default, implements SynchronizedStart: no runner       *)
(* executes the test before all were ready, none executes it twice and none *)
(* is launched after the start, for any number of runners and over any      *)
(* retries, restarts and stale copies of the TestRun. StartJobs never       *)
(* counts the services it probes: that all runners are among them is        *)
(* LaunchInv's.                                                             *)
THEOREM StartSynchronized ==
  ASSUME NoLag
  PROVE  Spec => StartsTogether
<1>1. Init => Start!Init
  BY DEF Init, Start!Init, RunnerStateOf, NoCurlJob
<1>2. TypeOK /\ OrderInv /\ LabelInv /\ ReachInv /\ StartInv /\ [Next]_vars => StartInv'
  BY StartStep
<1>3. TypeOK /\ LaunchInv /\ StartInv /\ [Next]_vars => [Start!Next]_Start!vars
  <2>1. ~spec.paused /\ UNCHANGED spec => UNCHANGED Start!vars
    BY DEF Start!vars
  <2> QED
    BY <2>1, RefineStep, SpecStays
<1> QED
  BY <1>1, <1>2, <1>3, TypeInit, TypeStep, OrderInit, OrderStep, LabelStep, ReachStep, StartInit,
     LifeInit, LifeStep, AbortInit, AbortStep, LaunchInit, LaunchStep, PTL DEF Spec,
     StartsTogether, Start!Spec
=============================================================================
