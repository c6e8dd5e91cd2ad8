----------------------------- MODULE TestRunFresh -----------------------------
(***************************************************************************)
(* Safety of the TestRun controller as long as a reconcile starts on an    *)
(* up-to-date cache ("stale" is not among the faults), for every           *)
(* parallelism, set of specs, set of other faults and bounds. The cache    *)
(* lags all the same between the status writes of one reconcile.           *)
(***************************************************************************)
EXTENDS TestRunOrder

NoStale == "stale" \notin Faults

(* The cache shows the stored TestRun when nothing is on its way to it.     *)
WatchInv == IF watch = <<>> THEN cache = api ELSE watch[Len(watch)] = api

(* Where a reconcile has its TestRun at the stage that is stored.           *)
SameLabel == BaseLabel \cup {"U_killed"}

(* The status writes of a reconcile leave the stage alone, but the last:    *)
(* until then every copy is at the stage the reconcile found.               *)
StageInv ==
  pc \notin {"idle", "InitializeJobs"} /\ ~Deleted
     => /\ \A v \in Copies : v.stage = api.stage
        /\ pc \in SameLabel => k6.stage = api.stage

(* Where a reconcile gets to after a first status write, on the way to the  *)
(* jobs and at the end.                                                     *)
Second == {"U_initialization", "U_skip", "InitializeJobs", "U_initialized", "U_setup",
           "SetupCloudTest", "U_created"}
Last   == {"Finalize", "U_finished"}

(* Before it the cache shows the stored TestRun.                            *)
SingleInv ==
  /\ pc \notin Second \cup Last \cup {"idle"} /\ ~Deleted => cache = api /\ watch = <<>>
  /\ pc \in Second \ {"U_initialization", "U_skip", "InitializeJobs"} /\ ~Deleted
        => api.stage = "initialization"
  /\ pc \in Second => Deleted \/ (k6.stage \in Early /\ api.stage \in Early)

(* No condition is of the future.                                           *)
TimeInv ==
  /\ \A v \in Copies : \A c \in CondType : v.conds[c].time <= clock
  /\ \A c \in CondType : k6.conds[c].time <= Now

Known(cond) == cond.status \in {"True", "False"}

(* A known condition that is stored and unknown in a copy is known to the   *)
(* reconcile, and newer there.                                              *)
Covers(v) ==
  \A c \in CondType : Known(api.conds[c]) =>
     \/ Known(v.conds[c])
     \/ /\ Known(k6.conds[c])
        /\ v.conds[c].status = "Absent" \/ v.conds[c].time < k6.conds[c].time

KnownInv == pc \notin {"idle", "InitializeJobs"} /\ ~Deleted => \A v \in Copies : Covers(v)
-----------------------------------------------------------------------------
(* What a step does to copies and reconcile together. *)

(* A version arrives at the cache.                                          *)
Synced ==
  UNCHANGED <<api, clock>> /\ watch # <<>> /\ cache' = Head(watch) /\ watch' = Tail(watch)

(* The reconcile in progress stands still.                                  *)
Still ==
  /\ UNCHANGED <<pc, k6>>
  /\ UNCHANGED store \/ Synced \/ (DeleteTestRun /\ ~Deleted)

(* The reconcile goes on without a status write.                            *)
Worked == WorkFlow /\ UNCHANGED store /\ \E late \in BOOLEAN : Works(late)

(* The reconcile goes on with what a status write left.                     *)
Passed(obj) == UpdateFlow(obj) /\ k6'.conds = obj.conds /\ k6'.id = obj.id

(* As FlowStep, with what happens to the copies meanwhile.                  *)
LEMMA JointStep ==
  ASSUME TypeOK, [Next]_vars
  PROVE  \/ Finished
         \/ Still
         \/ Begins /\ UNCHANGED store /\ (NoStale => watch = <<>>)
         \/ Worked
         \/ UpdatePatched /\ Passed(Patched) /\ pc # "U_initialized"
         \/ UpdateSkipped /\ UNCHANGED store /\ Passed(Refetched)
<1>1. ASSUME NEW late \in BOOLEAN, Operator(late)
      PROVE  Reconcile \/ Updates(late) \/ Works(late)
  BY <1>1 DEF Operator, Updates, Works
<1>2. CASE Reconcile
  BY <1>2 DEF Reconcile, Begins, Still, NoStale, Fault
<1>3. CASE Restart
  BY <1>3 DEF Restart, Finished
<1>4. ASSUME NEW late \in BOOLEAN, Works(late)
      PROVE  Finished \/ Worked
  <2>1. UNCHANGED store \/ CleanUp
    BY <1>4 DEF Works, CreateClient, StopJobs, StartTestRun, InitializeJobs, RunValidations,
       SetupCloudTest, CreateJobs, StartJobs, Started, Stopped, Finalize
  <2>2. CleanUp => Finished
    BY ReturnEnds DEF CleanUp
  <2> QED
    BY <1>4, <2>1, <2>2, WorkSteps DEF Worked
<1>5. CASE World
  <2>1. UNCHANGED store \/ Synced \/ (DeleteTestRun /\ ~Deleted)
    BY <1>5 DEF World, CacheSync, Resync, InitializerEnds, Runners, PodStarts, PodServes,
       TestEnds, PodFails, Resume, Stop, SetPod, Events, EventArrives, CloudAborts, UserDeletes,
       store, vars, Synced
  <2> QED
    BY <1>5, <2>1, WorldSteps DEF Still
<1>6. ASSUME NEW late \in BOOLEAN, Updates(late)
      PROVE  \/ Finished
             \/ UpdatePatched /\ Passed(Patched) /\ pc # "U_initialized"
             \/ UpdateSkipped /\ UNCHANGED store /\ Passed(Refetched)
  <2>1. Patched \in TestRun /\ Refetched \in TestRun
    BY UpdateTypes DEF TypeOK
  <2>2. ASSUME NEW obj \in TestRun, Moved(obj) PROVE k6'.conds = obj.conds /\ k6'.id = obj.id
    BY <2>2 DEF Moved, TestRun
  <2>3. UpdatePatched => ~UpdateSkipped
    BY DEF UpdatePatched, UpdateSkipped
  <2>4. UpdateSkipped => UNCHANGED store
    BY DEF UpdateSkipped
  <2> QED
    BY <1>6, <2>1, <2>2, <2>3, <2>4, UpdateSteps, UpdatedCopy DEF Passed
<1> QED
  BY <1>1, <1>2, <1>3, <1>4, <1>5, <1>6 DEF Next, World

(* The copies after a step that stores nothing are copies from before it.   *)
LEMMA CopiesStay ==
  ASSUME TypeOK, [Next]_vars, UNCHANGED api
  PROVE  Copies' \subseteq Copies
  BY CopiesStep DEF TypeOK, Copies

(* WatchInv holds initially.                                                *)
LEMMA WatchInit == Init => WatchInv
  BY DEF Init, WatchInv

(* WatchInv is inductive: what is stored is sent to the cache.              *)
LEMMA WatchStep ==
  ASSUME TypeOK, WatchInv, [Next]_vars
  PROVE  WatchInv'
<1>0. watch \in Seq(TestRun) /\ Len(watch) \in Nat
  BY LenProperties DEF TypeOK, StoreOK
<1>1. CASE UNCHANGED <<api, cache, watch>>
  BY <1>1 DEF WatchInv
<1>2. ASSUME NEW v \in TestRun, api' = v, watch' = Append(watch, v)
      PROVE  WatchInv'
  BY <1>0, <1>2, AppendProperties DEF WatchInv
<1>3. CASE UpdatePatched /\ pc \in UpdateLabel
  <2>1. Patched = api => UNCHANGED <<api, cache, watch>>
    BY <1>3 DEF UpdatePatched
  <2> QED
    BY <1>1, <1>2, <1>3, <2>1, UpdateTypes DEF UpdatePatched, TypeOK
<1>4. CASE DeleteTestRun
  BY <1>2, <1>4, GoneType DEF DeleteTestRun
<1>5. CASE UNCHANGED api /\ watch # <<>> /\ cache' = Head(watch) /\ watch' = Tail(watch)
  <2>1. /\ cache' = watch[1] /\ Len(watch') = Len(watch) - 1 /\ Len(watch) > 0
        /\ \A i \in 1 .. Len(watch') : watch'[i] = watch[i + 1]
    BY <1>0, <1>5, HeadTailProperties
  <2>2. watch[Len(watch)] = api /\ watch' \in Seq(TestRun)
    BY <1>0, <1>5, HeadTailProperties DEF WatchInv
  <2>3. CASE watch' = <<>>
    <3>1. Len(watch) = 1
      BY <1>0, <2>1, <2>3, EmptySeq
    <3> QED
      BY <1>5, <2>1, <2>2, <2>3, <3>1 DEF WatchInv
  <2>4. CASE watch' # <<>>
    <3>1. Len(watch') \in 1 .. Len(watch') /\ Len(watch') + 1 = Len(watch)
      BY <1>0, <2>1, <2>2, <2>4, EmptySeq, LenProperties
    <3> QED
      BY <1>5, <2>1, <2>2, <2>4, <3>1 DEF WatchInv
  <2> QED
    BY <2>3, <2>4
<1>6. CASE UNCHANGED api /\ cache' = api /\ watch' = <<>>
  BY <1>6 DEF WatchInv
<1> QED
  BY <1>1, <1>3, <1>4, <1>5, <1>6, StoreStep
-----------------------------------------------------------------------------
(* The stage never regresses. *)

(* A reconcile that starts on an up-to-date cache starts with one copy.     *)
LEMMA BeginsAlone ==
  ASSUME NoStale, WatchInv, TypeOK, [Next]_vars,
         Begins /\ UNCHANGED store /\ (NoStale => watch = <<>>)
  PROVE  /\ k6' = api /\ cache' = api' /\ watch' = <<>> /\ api' = api /\ clock' = clock
         /\ Copies' = {api'}
  BY EmptySeq DEF WatchInv, Begins, Copies, store

(* A write from where the reconcile's TestRun is at the stored stage leaves *)
(* that stage alone.                                                        *)
LEMMA WriteInPlace ==
  ASSUME StageInv, pc \in SameLabel, pc # "idle", ~Deleted
  PROVE  Patched.stage = api.stage
<1>1. cache.stage = api.stage /\ k6.stage = api.stage
  BY DEF StageInv, SameLabel, BaseLabel, Copies
<1> QED
  BY <1>1, PatchedStage

(* StageInv holds initially.                                                *)
LEMMA StageInit == Init => StageInv
  BY DEF Init, StageInv

(* StageInv is inductive.                                                   *)
LEMMA StageStep ==
  ASSUME NoStale, TypeOK, WatchInv, StageInv, [Next]_vars
  PROVE  StageInv'
<1> SUFFICES ASSUME pc' \notin {"idle", "InitializeJobs"}, ~Deleted'
             PROVE  /\ \A v \in Copies' : v.stage = api'.stage
                    /\ pc' \in SameLabel => k6'.stage = api'.stage
  BY DEF StageInv
<1>0. ~Deleted
  BY DeletedStays
<1>1. CASE Still
  <2>1. UNCHANGED api
    BY <1>1 DEF Still, store, Synced, DeleteTestRun, Deleted, Gone
  <2> QED
    BY <1>0, <1>1, <2>1, CopiesStay DEF Still, StageInv
<1>2. CASE Begins /\ UNCHANGED store /\ (NoStale => watch = <<>>)
  BY <1>2, BeginsAlone
<1>3. CASE Worked
  <2>1. pc \notin {"idle", "InitializeJobs"}
    BY <1>3 DEF Worked, WorkFlow, Flow
  <2>2. pc' \in SameLabel => pc \in SameLabel /\ k6'.stage = k6.stage
    BY <1>3 DEF Worked, WorkFlow, Flow, SameLabel, BaseLabel
  <2>3. Copies' = Copies /\ api' = api
    BY <1>3 DEF Worked, store, Copies
  <2> QED
    BY <1>0, <2>1, <2>2, <2>3 DEF StageInv
<1>4. CASE UpdatePatched /\ Passed(Patched) /\ pc # "U_initialized"
  <2>1. pc \in {"U_conditions", "U_validated", "U_killed"} /\ pc' \notin SameLabel
    BY <1>4 DEF Passed, UpdateFlow, SameLabel, BaseLabel
  <2>2. Patched.stage = api.stage /\ api' = Patched
    BY <1>0, <1>4, <2>1, WriteInPlace DEF SameLabel, BaseLabel, UpdatePatched
  <2>3. \A v \in Copies : v.stage = api.stage
    BY <1>0, <2>1 DEF StageInv
  <2> QED
    BY <2>1, <2>2, <2>3, CopiesStep DEF TypeOK
<1>5. CASE UpdateSkipped /\ UNCHANGED store /\ Passed(Refetched)
  <2>1. pc \notin {"idle", "InitializeJobs"} /\ pc' \notin SameLabel
    BY <1>5 DEF Passed, UpdateFlow, SameLabel, BaseLabel
  <2>2. Copies' = Copies /\ api' = api
    BY <1>5 DEF store, Copies
  <2> QED
    BY <1>0, <2>1, <2>2 DEF StageInv
<1> QED
  BY <1>1, <1>2, <1>3, <1>4, <1>5, JointStep DEF Finished

(* A stage that SetIfNewer accepts is not an earlier one.                   *)
LEMMA AcceptsLater ==
  ASSUME NEW from \in Stage, NEW to, StageAccepts(from, to)
  PROVE  to \notin Earlier(from)
<1>1. to # "" /\ to # from
  BY DEF StageAccepts
<1>2. CASE from \in {"", "initialization"}
  BY <1>1, <1>2 DEF Earlier
<1>3. CASE from \in {"initialized", "created"}
  BY <1>1, <1>3 DEF Earlier, StageAccepts
<1>4. CASE from \in {"started", "stopped"}
  BY <1>1, <1>4 DEF Earlier, StageAccepts
<1>5. CASE from \in {"finished", "error"}
  BY <1>5 DEF StageAccepts
<1> QED
  BY <1>2, <1>3, <1>4, <1>5 DEF Stage

(* No stage is earlier than itself, and the deleted TestRun has none.       *)
LEMMA NotEarlier == \A stage \in Stage : stage \notin Earlier(stage) /\ "gone" \notin Earlier(stage)
  BY DEF Earlier, Stage

(* A step stores no earlier stage.                                          *)
LEMMA StageForward ==
  ASSUME TypeOK, LifeInv, StageInv, [Next]_vars, api' # api
  PROVE  api'.stage \notin Earlier(api.stage)
<1>0. api.stage \in Stage \cup {"gone"}
  BY DEF TypeOK, StoreOK, TestRun
<1>1. CASE DeleteTestRun /\ ~Deleted
  BY <1>0, <1>1, NotEarlier DEF DeleteTestRun, Gone, Deleted
<1>2. CASE UpdatePatched /\ pc \in UpdateLabel
  <2>0. api.stage \in Stage /\ api' = Patched
    BY <1>0, <1>2 DEF UpdatePatched, Deleted
  <2>1. CASE Patched.stage = api.stage
    BY <2>0, <2>1, NotEarlier
  <2>2. CASE Patched.stage # api.stage
    <3>1. StageAccepts(cache.stage, k6.stage) /\ Patched.stage = k6.stage
      BY <2>2 DEF Patched, MergePatch, Merged, SetIfNewer
    <3>2. cache.stage = api.stage
      BY <1>2 DEF StageInv, UpdatePatched, UpdateLabel, Copies
    <3> QED
      BY <2>0, <3>1, <3>2, AcceptsLater
  <2> QED
    BY <2>1, <2>2
<1> QED
  BY <1>1, <1>2, StoreStep

(* As long as a reconcile starts on an up-to-date cache, the stored stage   *)
(* never goes back, over crashes, retries and failed writes, although each  *)
(* write is decided on a copy that lags behind the writes before it.        *)
THEOREM StageMonotone ==
  ASSUME NoStale
  PROVE  Spec => StageNeverRegresses
<1>1. TypeOK /\ LifeInv /\ StageInv /\ [Next]_vars => [api'.stage \notin Earlier(api.stage)]_api
  BY StageForward
<1>2. TypeOK /\ WatchInv /\ StageInv /\ [Next]_vars => StageInv'
  BY StageStep
<1> QED
  BY <1>1, <1>2, TypeInit, TypeStep, LifeInit, LifeStep, WatchInit, WatchStep, StageInit, PTL
     DEF Spec, StageNeverRegresses
-----------------------------------------------------------------------------
(* The conditions: what a reconcile makes of them. *)

(* obj has the conditions of the reconcile's TestRun, but for those in set, *)
(* which may have been set to True or False now.                            *)
Changed(obj, set) ==
  /\ obj \in TestRun
  /\ \A c \in CondType : \/ obj.conds[c] = k6.conds[c]
                         \/ c \in set /\ obj.conds[c].time = Now /\ Known(obj.conds[c])

(* The conditions a reconcile sets where it is, after the first stage.      *)
Touched ==
  IF pc = "StopJobs" THEN {"TestRunRunning", "CloudTestRunAborted"}
  ELSE IF pc = "SetupCloudTest" THEN {"CloudTestRunCreated"}
  ELSE IF pc = "Finalize" THEN {"CloudTestRunFinalized"}
  ELSE IF pc # "Stage" THEN {}
  ELSE IF k6.stage = "initialization"
  THEN {"CloudTestRun", "CloudTestRunCreated", "CloudTestRunFinalized"}
  ELSE IF k6.stage = "created" THEN {"TestRunRunning"}
  ELSE IF k6.stage = "started" THEN {"TestRunRunning", "TeardownExecuted"}
  ELSE IF k6.stage = "stopped" THEN {"CloudTestRunAborted"} ELSE {}

(* UpdateCondition changes the one condition it is asked to.                *)
LEMMA ChangedStamp ==
  ASSUME TypeOK, NEW obj, NEW set, Changed(obj, set), NEW type \in set \cap CondType,
         NEW status \in {"True", "False"}
  PROVE  Changed(Stamp(obj, type, status, Now), set)
<1>1. Now \in Nat /\ status \in Status /\ obj \in TestRun
  BY DEF TypeOK, StoreOK, Now, Status, Changed
<1> DEFINE new == Stamp(obj, type, status, Now)
<1>2. new \in TestRun
  BY <1>1, StampType
<1>3. \A c \in CondType : \/ new.conds[c] = obj.conds[c]
                          \/ c = type /\ new.conds[c] = [status |-> status, time |-> Now]
  BY <1>1 DEF Stamp, UpdateCondition, SetStatusCondition, TestRun
<1>4. \A x : x = [status |-> status, time |-> Now] => x.time = Now /\ Known(x)
  BY DEF Known
<1> HIDE DEF new
<1>5. Changed(new, set)
  BY <1>2, <1>3, <1>4 DEF Changed
<1> QED
  BY <1>5 DEF new

(* Setting the stage changes no condition.                                  *)
LEMMA ChangedStage ==
  ASSUME NEW obj, NEW set, Changed(obj, set), NEW stage \in Stage
  PROVE  Changed([obj EXCEPT !.stage = stage], set)
<1>1. obj \in TestRun
  BY DEF Changed
<1>2. [obj EXCEPT !.stage = stage].conds = obj.conds /\ [obj EXCEPT !.stage = stage] \in TestRun
  BY <1>1, StageType DEF TestRun
<1> QED
  BY <1>2 DEF Changed

(* A step of a reconcile changes only the conditions of the place it is at, *)
(* but for the first, which sets all of them.                               *)
LEMMA WorkConds ==
  ASSUME TypeOK, NEW late \in BOOLEAN, Works(late)
  PROVE  Finished \/ StartTestRun \/ Changed(k6', Touched)
<1>0. k6 \in TestRun /\ Changed(k6, Touched)
  BY DEF TypeOK, OperatorOK, Changed
<1>1. CASE CreateClient
  BY <1>0, <1>1, ReturnEnds DEF CreateClient
<1>2. CASE StopJobs
  <2> DEFINE over    == [k6 EXCEPT !.stage = "stopped"]
             stopped == Stamp(over, "TestRunRunning", "False", Now)
             aborted == Stamp(stopped, "CloudTestRunAborted", "True", Now)
  <2>1. Touched = {"TestRunRunning", "CloudTestRunAborted"}
    BY <1>2 DEF StopJobs, Touched
  <2>2. Changed(over, Touched)
    BY <1>0, ChangedStage DEF Stage
  <2>3. Changed(stopped, Touched)
    BY <2>1, <2>2, ChangedStamp DEF CondType
  <2>4. Changed(aborted, Touched)
    BY <2>1, <2>3, ChangedStamp DEF CondType
  <2> QED
    BY <1>2, <2>4, ReturnEnds, GotoFlow DEF StopJobs, StopJobsFailed, MarkAborted
<1>3. CASE InitializeJobs \/ CleanUp
  BY <1>3, ReturnEnds DEF InitializeJobs, CleanUp
<1>4. CASE RunValidations(late)
  <2> DEFINE typed   == Stamp(k6, "CloudTestRun", "True", Now)
             created == IF IsUnknown(k6.conds, "CloudTestRunCreated")
                        THEN Stamp(typed, "CloudTestRunCreated", "False", Now) ELSE typed
             failed  == [k6 EXCEPT !.stage = "error"]
  <2>0. Touched = {"CloudTestRun", "CloudTestRunCreated", "CloudTestRunFinalized"}
    BY <1>4 DEF RunValidations, AtStage, Touched
  <2>1. Changed(failed, Touched)
    BY <1>0, ChangedStage DEF Stage
  <2>2. Changed(Stamp(k6, "CloudTestRun", "False", Now), Touched) /\ Changed(typed, Touched)
    BY <1>0, <2>0, ChangedStamp DEF CondType
  <2>3. Changed(created, Touched)
    BY <2>0, <2>2, ChangedStamp DEF CondType
  <2>4. Changed(Stamp(created, "CloudTestRunFinalized", "False", Now), Touched)
    BY <2>0, <2>3, ChangedStamp DEF CondType
  <2>5. ASSUME NEW requeue, NotReady(k6, requeue, late) PROVE Finished
    BY <2>5, ReturnEnds DEF NotReady
  <2> QED
    BY <1>4, <2>1, <2>2, <2>4, <2>5, ReturnEnds, GotoFlow DEF RunValidations
<1>5. CASE SetupCloudTest(late)
  <2> DEFINE named == [k6 EXCEPT !.id = runs + 1]
  <2>0. Touched = {"CloudTestRunCreated"}
    BY <1>5 DEF SetupCloudTest, Touched
  <2>1. runs + 1 \in Nat
    BY ControllerAssumption DEF TypeOK, CloudOK
  <2>2. named \in TestRun /\ named.conds = k6.conds
    BY <1>0, <2>1 DEF TestRun
  <2>3. Changed(named, Touched)
    BY <2>2 DEF Changed
  <2>4. Changed(Stamp(named, "CloudTestRunCreated", "True", Now), Touched)
    BY <2>0, <2>3, ChangedStamp DEF CondType
  <2> QED
    BY <1>5, <2>4, ReturnEnds, GotoFlow DEF SetupCloudTest
<1>6. CASE CreateJobs(late)
  <2>1. Changed([k6 EXCEPT !.stage = "created"], Touched)
    BY <1>0, ChangedStage DEF Stage
  <2> QED
    BY <1>6, <2>1, ReturnEnds, GotoFlow DEF CreateJobs, CreateJobsFailed
<1>7. CASE StartJobs(late)
  <2> DEFINE going == [k6 EXCEPT !.stage = "started"]
  <2>0. Touched = {"TestRunRunning"}
    BY <1>7 DEF StartJobs, AtStage, Touched
  <2>1. Changed(going, Touched)
    BY <1>0, ChangedStage DEF Stage
  <2>2. Changed(Stamp(going, "TestRunRunning", "True", Now), Touched)
    BY <2>0, <2>1, ChangedStamp DEF CondType
  <2> QED
    BY <1>7, <2>2, ReturnEnds, GotoFlow DEF StartJobs
<1>8. CASE Started(late)
  <2> DEFINE over == [k6 EXCEPT !.stage = "stopped"]
  <2>0. Touched = {"TestRunRunning", "TeardownExecuted"}
    BY <1>8 DEF Started, AtStage, Touched
  <2>1. Changed(over, Touched)
    BY <1>0, ChangedStage DEF Stage
  <2>2. /\ Changed(Stamp(over, "TestRunRunning", "False", Now), Touched)
        /\ Changed(Stamp(k6, "TeardownExecuted", "True", Now), Touched)
    BY <1>0, <2>0, <2>1, ChangedStamp DEF CondType
  <2>3. ASSUME MarkStopped \/ RunTeardown \/ KeepWaiting \/ Goto("StopJobs", k6)
        PROVE  Finished \/ Changed(k6', Touched)
    BY <1>0, <2>2, <2>3, ReturnEnds, GotoFlow DEF MarkStopped, RunTeardown, KeepWaiting
  <2> QED
    BY <1>8, <2>3, ReturnEnds DEF Started, StartedPLZ, StartedOther
<1>9. CASE Stopped
  <2>0. Touched = {"CloudTestRunAborted"}
    BY <1>9 DEF Stopped, AtStage, Touched
  <2>1. Changed(Stamp(k6, "CloudTestRunAborted", "True", Now), Touched)
    BY <1>0, <2>0, ChangedStamp DEF CondType
  <2>2. ASSUME NEW kept, KillJobs(kept) PROVE Changed(k6', Touched)
    BY <2>1, <2>2, GotoFlow DEF KillJobs
  <2>3. \/ Return(TRUE) \/ Goto("Finalize", k6) \/ \E kept : KillJobs(kept)
    BY <1>9 DEF Stopped
  <2> QED
    BY <1>0, <2>2, <2>3, ReturnEnds, GotoFlow
<1>10. CASE Finalize(late)
  <2> DEFINE over == [k6 EXCEPT !.stage = "finished"]
  <2>0. Touched = {"CloudTestRunFinalized"}
    BY <1>10 DEF Finalize, Touched
  <2>1. Changed(over, Touched)
    BY <1>0, ChangedStage DEF Stage
  <2>2. Changed(Stamp(over, "CloudTestRunFinalized", "True", Now), Touched)
    BY <2>0, <2>1, ChangedStamp DEF CondType
  <2> QED
    BY <1>10, <2>1, <2>2, ReturnEnds, GotoFlow DEF Finalize
<1> QED
  BY <1>1, <1>2, <1>3, <1>4, <1>5, <1>6, <1>7, <1>8, <1>9, <1>10 DEF Works
-----------------------------------------------------------------------------
(* A known condition stays known. *)

(* SingleInv holds initially.                                               *)
LEMMA SingleInit == Init => SingleInv
  BY DEF Init, SingleInv, Second

(* A reconcile that found the stage "" or "initialization" keeps it over    *)
(* its first status write.                                                  *)
LEMMA FirstWrite ==
  ASSUME LabelInv, StageInv, ~Deleted, pc \in {"U_conditions", "U_validated"}
  PROVE  /\ pc = "U_conditions" => api.stage = "" /\ Patched.stage = ""
         /\ pc = "U_validated" => api.stage = "initialization" /\ Patched.stage = "initialization"
         /\ Refetched.stage = api.stage
<1>1. k6.stage = api.stage /\ cache.stage = api.stage
  BY DEF StageInv, SameLabel, BaseLabel, Copies
<1> QED
  BY <1>1, PatchedStage DEF LabelInv, Refetched

(* SingleInv is inductive.                                                  *)
LEMMA SingleStep ==
  ASSUME NoStale, TypeOK, WatchInv, LabelInv, StageInv, SingleInv, [Next]_vars
  PROVE  SingleInv'
<1> DEFINE Third == Second \ {"U_initialization", "U_skip", "InitializeJobs"}
<1> SUFFICES ASSUME ~Deleted'
             PROVE  /\ pc' \notin Second \cup Last \cup {"idle"} => cache' = api' /\ watch' = <<>>
                    /\ pc' \in Third => api'.stage = "initialization"
                    /\ pc' \in Second => k6'.stage \in Early /\ api'.stage \in Early
  BY DEF SingleInv
<1>0. ~Deleted
  BY DeletedStays
<1>1. CASE Finished
  BY <1>1 DEF Finished, Second
<1>2. CASE Still
  <2>1. UNCHANGED store \/ Synced
    BY <1>2 DEF Still, DeleteTestRun, Deleted, Gone
  <2> QED
    BY <1>0, <1>2, <2>1 DEF Still, store, Synced, SingleInv
<1>3. CASE Begins /\ UNCHANGED store /\ (NoStale => watch = <<>>)
  <2>1. pc' \notin Second \cup Last
    BY <1>3 DEF Begins, Second, Last
  <2> QED
    BY <1>3, <2>1, BeginsAlone
<1>4. CASE Worked
  <2>1. pc' \notin Second \cup Last => pc \notin Second \cup Last \cup {"idle"}
    BY <1>4 DEF Worked, WorkFlow, Flow, Second, Last
  <2>2. pc' \in Second => pc = "SetupCloudTest" /\ k6'.stage = k6.stage
    BY <1>4 DEF Worked, WorkFlow, Flow, Second
  <2> QED
    BY <1>0, <1>4, <2>1, <2>2 DEF Worked, store, SingleInv, Second
<1>5. CASE UpdatePatched /\ Passed(Patched) /\ pc # "U_initialized"
  <2>1. api' = Patched /\ pc' \in Second \cup Last
    BY <1>5 DEF UpdatePatched, Passed, UpdateFlow, Second, Last
  <2>2. CASE pc = "U_conditions"
    BY <1>0, <1>5, <2>1, <2>2, FirstWrite DEF Passed, UpdateFlow, Second, Early
  <2>3. CASE pc = "U_validated"
    BY <1>0, <1>5, <2>1, <2>3, FirstWrite DEF Passed, UpdateFlow, Second, Early
  <2>4. CASE pc = "U_initialization"
    <3>1. k6.stage \in Early /\ api.stage \in Early
      BY <1>0, <2>4 DEF SingleInv, Second
    <3> QED
      BY <1>5, <2>1, <2>4, <3>1, PatchedStage DEF Passed, UpdateFlow, Second
  <2>5. CASE pc = "U_killed"
    BY <1>5, <2>1, <2>5 DEF Passed, UpdateFlow, Second
  <2> QED
    BY <1>5, <2>2, <2>3, <2>4, <2>5 DEF Passed, UpdateFlow
<1>6. CASE UpdateSkipped /\ UNCHANGED store /\ Passed(Refetched)
  <2>1. UNCHANGED <<api, cache, watch>> /\ pc' \in Second \cup Last
    BY <1>6 DEF store, Passed, UpdateFlow, Second, Last
  <2>2. CASE pc \in {"U_conditions", "U_validated"}
    BY <1>0, <1>6, <2>1, <2>2, FirstWrite DEF Passed, UpdateFlow, Second, Early
  <2>3. CASE pc \in {"U_initialization", "U_initialized"}
    <3>1. k6.stage \in Early /\ api.stage \in Early /\ cache.stage = api.stage
      BY <1>0, <2>3 DEF SingleInv, Second, StageInv, Copies
    <3>2. Refetched.stage \in Early
      BY <3>1 DEF Refetched
    <3>3. pc' \in Third => api.stage = "initialization"
      BY <1>0, <1>6, <2>3 DEF SingleInv, Second, Passed, UpdateFlow
    <3> QED
      BY <1>6, <2>1, <2>3, <3>1, <3>2, <3>3 DEF Passed, UpdateFlow, Early
  <2>4. CASE pc = "U_killed"
    BY <1>6, <2>1, <2>4 DEF Passed, UpdateFlow, Second
  <2> QED
    BY <1>6, <2>2, <2>3, <2>4 DEF Passed, UpdateFlow
<1> QED
  BY <1>1, <1>2, <1>3, <1>4, <1>5, <1>6, JointStep

(* TimeInv holds initially.                                                 *)
LEMMA TimeInit == Init => TimeInv
<1> SUFFICES ASSUME Init PROVE TimeInv
  OBVIOUS
<1>1. Copies = {NewTestRun} /\ k6 = Gone /\ clock = 0
  BY DEF Init, Copies
<1>2. \A c \in CondType : NewTestRun.conds[c].time = 0 /\ Gone.conds[c].time = 0
  BY DEF NewTestRun, Gone, NoConditions, NoCondition
<1> QED
  BY <1>1, <1>2 DEF TimeInv, Now

(* Each condition a status write stores is one of the three it mixes.       *)
LEMMA PatchedFrom ==
  ASSUME TypeOK, NEW c \in CondType
  PROVE  /\ Patched.conds[c] \in {api.conds[c], cache.conds[c], k6.conds[c]}
         /\ Merged.conds[c] \in {cache.conds[c], k6.conds[c]}
<1>1. Merged.conds[c] \in {cache.conds[c], k6.conds[c]}
  BY DEF Merged, SetIfNewer, MergedConditions, TypeOK, StoreOK, TestRun
<1> QED
  BY <1>1 DEF Patched, MergePatch

(* The clock of the conditions moves only with a status write.              *)
LEMMA ClockStep == [Next]_vars => UNCHANGED clock \/ UpdatePatched
<1>1. ASSUME NEW late \in BOOLEAN, Updates(late) PROVE UNCHANGED clock \/ UpdatePatched
  BY <1>1 DEF Updates, UpdateAndReturn, UpdateConditions, UpdateInitialization, UpdateInspect,
     UpdateValidated, UpdateInitialized, UpdateKilled, UpdateSkipped, UpdateFailed, store
<1>2. ASSUME NEW late \in BOOLEAN, Works(late) \/ Reconcile PROVE UNCHANGED clock
  BY <1>2 DEF Works, Reconcile, CreateClient, StopJobs, StartTestRun, InitializeJobs,
     RunValidations, SetupCloudTest, CreateJobs, StartJobs, Started, Stopped, Finalize, CleanUp,
     DeleteTestRun, store
<1>3. ASSUME NEW late \in BOOLEAN, Operator(late) PROVE Reconcile \/ Updates(late) \/ Works(late)
  BY <1>3 DEF Operator, Updates, Works
<1>4. CASE Restart \/ World
  BY <1>4 DEF World, Restart, CacheSync, Resync, InitializerEnds, Runners, PodStarts, PodServes,
     TestEnds, PodFails, Resume, Stop, SetPod, Events, EventArrives, CloudAborts, UserDeletes,
     DeleteTestRun, store, vars
<1> QED
  BY <1>1, <1>2, <1>3, <1>4 DEF Next, World

(* The times of all conditions are ticks of the clock.                      *)
LEMMA TimeType ==
  TypeOK => \A v \in Copies \cup {k6} : v \in TestRun /\ \A c \in CondType : v.conds[c].time \in Nat
<1>1. TypeOK => \A v \in Copies \cup {k6} : v \in TestRun
  BY ElementOfSeq DEF TypeOK, StoreOK, OperatorOK, Copies
<1>2. \A v \in TestRun : \A c \in CondType : v.conds[c].time \in Nat
  BY DEF TestRun, Condition
<1> QED
  BY <1>1, <1>2

(* TimeInv is inductive.                                                    *)
LEMMA TimeStep ==
  ASSUME TypeOK, TimeInv, [Next]_vars
  PROVE  TimeInv'
<1>0. /\ clock \in Nat /\ Now \in Nat /\ clock <= Now
      /\ api \in Copies /\ cache \in Copies
      /\ TypeOK'
  BY TypeStep DEF TypeOK, StoreOK, OperatorOK, Now, Copies
<1>a. \A v \in Copies \cup {k6} : \A c \in CondType : v.conds[c].time \in Nat
  BY TimeType
<1>1. clock' \in Nat /\ Now' \in Nat /\ clock' <= Now'
  <2>1. clock' \in Nat
    BY <1>0 DEF TypeOK, StoreOK
  <2>2. Now' = clock' + 1
    BY Zenon DEF Now
  <2>3. \A x \in Nat : x + 1 \in Nat /\ x <= x + 1
    OBVIOUS
  <2> QED
    BY <2>1, <2>2, <2>3, Zenon
<1>2. \A c \in CondType : Gone.conds[c].time = 0
  BY DEF Gone, NoConditions, NoCondition
<1>3. ASSUME UpdatePatched, NEW c \in CondType PROVE Patched.conds[c].time <= clock'
  <2>1. /\ api.conds[c].time \in Nat /\ api.conds[c].time <= clock
        /\ cache.conds[c].time \in Nat /\ cache.conds[c].time <= clock
        /\ k6.conds[c].time \in Nat /\ k6.conds[c].time <= Now
    BY <1>0, <1>a DEF TimeInv
  <2>2. CASE Patched.conds = api.conds
    BY <1>3, <2>1, <2>2 DEF UpdatePatched
  <2>3. CASE Patched.conds # api.conds
    <3>1. clock' = Now
      BY <1>3, <2>3 DEF UpdatePatched
    <3> QED
      BY <1>0, <2>1, <3>1, PatchedFrom
  <2> QED
    BY <2>2, <2>3
<1>4. clock' = clock \/ clock' = Now
  BY ClockStep DEF UpdatePatched
<1>5. \A v \in Copies' : \A c \in CondType : v.conds[c].time <= clock'
  <2>1. \A v \in Copies : \A c \in CondType : v.conds[c].time <= clock'
    BY <1>0, <1>a, <1>4 DEF TimeInv
  <2>2. \A c \in CondType : api'.conds[c].time <= clock'
    BY <1>0, <1>1, <1>2, <1>3, <2>1, StoreStep DEF UpdatePatched, DeleteTestRun
  <2> QED
    BY <2>1, <2>2, CopiesStep DEF TypeOK
<1>6. \A c \in CondType : k6'.conds[c].time <= Now'
  <2>0. k6' \in TestRun /\ \A c \in CondType : k6'.conds[c].time \in Nat
    BY <1>0 DEF TypeOK, OperatorOK, TestRun, Condition
  <2>1. CASE Finished
    BY <1>1, <1>2, <2>1 DEF Finished
  <2>2. CASE Still
    <3>1. UNCHANGED <<k6, clock>>
      BY <2>2 DEF Still, store, Synced, DeleteTestRun
    <3> QED
      BY <3>1 DEF TimeInv, Now
  <2>3. CASE Begins /\ UNCHANGED store
    BY <1>0, <2>0, <2>3 DEF Begins, TimeInv, Now, store
  <2>4. CASE Worked
    <3>1. Now' = Now
      BY <2>4 DEF Worked, store, Now
    <3>2. CASE StartTestRun
      <4>1. k6 \in TestRun /\ spec.id \in Nat
        BY SpecIDType DEF TypeOK, OperatorOK
      <4>2. \A c \in CondType : Initialize(k6, spec.id, Now).conds[c].time \in {0, Now}
        BY <4>1 DEF Initialize, TestRun, NoCondition
      <4>3. [k6 EXCEPT !.stage = "error"].conds = k6.conds
        BY <4>1 DEF TestRun
      <4>4. k6' = Initialize(k6, spec.id, Now) \/ k6' = [k6 EXCEPT !.stage = "error"]
        BY <3>2, GotoFlow DEF StartTestRun
      <4>5. CASE k6' = Initialize(k6, spec.id, Now)
        BY <1>0, <3>1, <4>2, <4>5
      <4>6. CASE k6' = [k6 EXCEPT !.stage = "error"]
        BY <3>1, <4>3, <4>6 DEF TimeInv
      <4> QED
        BY <4>4, <4>5, <4>6
    <3>3. CASE Changed(k6', Touched)
      BY <1>0, <3>1, <3>3 DEF Changed, TimeInv
    <3> QED
      BY <2>1, <2>4, <3>2, <3>3, WorkConds DEF Worked
  <2>5. CASE UpdatePatched /\ Passed(Patched)
    BY <1>1, <1>3, <2>0, <2>5 DEF Passed
  <2>6. CASE UNCHANGED store /\ Passed(Refetched)
    <3>1. k6'.conds = cache.conds \/ k6'.conds = k6.conds
      BY <2>6 DEF Passed, Refetched
    <3> QED
      BY <1>0, <2>0, <2>6, <3>1 DEF TimeInv, Now, store
  <2> QED
    BY <2>1, <2>2, <2>3, <2>4, <2>5, <2>6, JointStep
<1> QED
  BY <1>5, <1>6 DEF TimeInv

(* A status write from a reconcile that has read the known conditions       *)
(* stores them known, and newer than what it replaces.                      *)
LEMMA PatchedKnown ==
  ASSUME TypeOK, NEW c \in CondType
  PROVE  /\ Covers(cache) /\ Known(api.conds[c]) => Known(Patched.conds[c])
         /\ cache = api => \/ Patched.conds[c] = api.conds[c]
                           \/ api.conds[c].status = "Absent"
                           \/ api.conds[c].time < Patched.conds[c].time
<1>0. /\ cache.conds[c].status \in Status /\ k6.conds[c].status \in Status
  BY DEF TypeOK, StoreOK, OperatorOK, TestRun, Condition
<1>1. Merged.conds[c] = IF /\ Accepts(cache.conds[c], k6.conds[c])
                           /\ cache.conds[c].status # k6.conds[c].status
                        THEN k6.conds[c] ELSE cache.conds[c]
  BY DEF Merged, SetIfNewer, MergedConditions, TypeOK, StoreOK, TestRun
<1>2. Patched.conds \in {Merged.conds, api.conds}
  BY DEF Patched, MergePatch
<1>3. ASSUME Covers(cache), Known(api.conds[c]) PROVE Known(Merged.conds[c])
  BY <1>0, <1>1, <1>3 DEF Covers, Known, Accepts, Status
<1>4. Merged.conds[c] \in {cache.conds[c], k6.conds[c]}
  BY <1>1
<1>5. ASSUME cache = api
      PROVE  \/ Merged.conds[c] = api.conds[c]
             \/ api.conds[c].status = "Absent"
             \/ api.conds[c].time < Merged.conds[c].time
  BY <1>1, <1>5 DEF Accepts
<1> QED
  BY <1>2, <1>3, <1>5

(* KnownInv holds initially.                                                *)
LEMMA KnownInit == Init => KnownInv
  BY DEF Init, KnownInv

(* KnownInv is inductive.                                                   *)
LEMMA KnownStep ==
  ASSUME NoStale, TypeOK, WatchInv, LabelInv, StageInv, SingleInv, TimeInv, KnownInv, [Next]_vars
  PROVE  KnownInv'
<1> SUFFICES ASSUME pc' \notin {"idle", "InitializeJobs"}, ~Deleted', NEW v \in Copies',
                    NEW c \in CondType, Known(api'.conds[c]), ~Known(v.conds[c])
             PROVE  /\ Known(k6'.conds[c])
                    /\ v.conds[c].status = "Absent" \/ v.conds[c].time < k6'.conds[c].time
  BY DEF KnownInv, Covers, Known
<1>0. ~Deleted
  BY DeletedStays
<1>a. v # api'
  OBVIOUS
<1>1. ASSUME UNCHANGED api, pc \notin {"idle", "InitializeJobs"}
      PROVE  /\ v \in Copies /\ Known(k6.conds[c])
             /\ v.conds[c].status = "Absent" \/ v.conds[c].time < k6.conds[c].time
  BY <1>0, <1>1, CopiesStay DEF KnownInv, Covers
<1>2. CASE Still
  <2>1. UNCHANGED <<api, pc, k6>>
    BY <1>2 DEF Still, store, Synced, DeleteTestRun, Deleted, Gone
  <2> QED
    BY <1>1, <2>1
<1>3. CASE Begins /\ UNCHANGED store /\ (NoStale => watch = <<>>)
  BY <1>3, <1>a, BeginsAlone
<1>4. ASSUME pc \notin Second \cup Last \cup {"idle"} PROVE Copies = {api} /\ cache = api
  BY <1>0, <1>4, EmptySeq DEF SingleInv, Copies
<1>5. CASE Worked
  <2>1. UNCHANGED <<api, clock>> /\ Copies' = Copies
    BY <1>5 DEF Worked, store, Copies
  <2>2. pc \in {"SetupCloudTest", "Finalize"}
    BY <1>4, <1>5, <1>a, <2>1 DEF Worked, WorkFlow, Flow, Second, Last
  <2>3. Changed(k6', Touched)
    BY <1>5, <2>2, WorkConds DEF Worked, Finished, StartTestRun, AtStage
  <2>4. /\ v \in Copies /\ Known(k6.conds[c])
        /\ v.conds[c].status = "Absent" \/ v.conds[c].time < k6.conds[c].time
    BY <1>1, <2>1, <2>2
  <2>5. k6.conds[c].time <= Now /\ k6.conds[c].time \in Nat /\ v.conds[c].time \in Nat /\ Now \in Nat
    BY <2>4, TimeType DEF TimeInv, Now, TypeOK, StoreOK
  <2> QED
    BY <2>3, <2>4, <2>5 DEF Changed
<1>6. CASE UpdatePatched /\ Passed(Patched) /\ pc # "U_initialized"
  <2>1. pc \in {"U_conditions", "U_validated", "U_killed"}
    BY <1>6 DEF Passed, UpdateFlow
  <2>2. Copies = {api} /\ cache = api
    BY <1>4, <2>1 DEF Second, Last
  <2>3. api' = Patched /\ k6'.conds = Patched.conds /\ v = api
    BY <1>6, <1>a, <2>2, CopiesStep DEF UpdatePatched, Passed, TypeOK
  <2> QED
    BY <2>2, <2>3, PatchedKnown
<1>7. CASE UpdateSkipped /\ UNCHANGED store /\ Passed(Refetched)
  <2>1. pc \in {"U_conditions", "U_validated", "U_initialized", "U_killed"}
    BY <1>7 DEF Passed, UpdateFlow
  <2>2. CASE pc = "U_initialized"
    <3>1. cache.stage = "initialization" /\ k6.stage = "initialized"
      BY <1>0, <2>2 DEF SingleInv, Second, StageInv, LabelInv, Copies
    <3> QED
      BY <1>7, <3>1 DEF UpdateSkipped, UpdateWanted, IsNewer, StageAccepts
  <2>3. CASE pc # "U_initialized"
    <3>1. Copies' = {api'}
      BY <1>4, <1>7, <2>1, <2>3 DEF Second, Last, store, Copies
    <3> QED
      BY <1>a, <3>1
  <2> QED
    BY <2>2, <2>3
<1> QED
  BY <1>2, <1>3, <1>5, <1>6, <1>7, JointStep DEF Finished

(* A step makes no stored condition unknown.                                *)
LEMMA StaysKnown ==
  ASSUME TypeOK, KnownInv, [Next]_vars, api' # api, NEW c \in CondType,
         Known(api.conds[c]), api'.stage # "gone"
  PROVE  Known(api'.conds[c])
<1>1. UpdatePatched /\ pc \in UpdateLabel
  BY StoreStep DEF DeleteTestRun, Gone
<1>2. Covers(cache)
  BY <1>1 DEF KnownInv, UpdatePatched, UpdateLabel, Copies
<1> QED
  BY <1>1, <1>2, PatchedKnown DEF UpdatePatched

(* As long as a reconcile starts on an up-to-date cache, a stored condition *)
(* that is True or False does not become Unknown again, although a patch    *)
(* replaces all conditions with ones merged from a lagging copy.            *)
THEOREM KnownStaysKnown ==
  ASSUME NoStale
  PROVE  Spec => NeverBackToUnknown
<1>1. TypeOK /\ KnownInv /\ [Next]_vars =>
        [\A c \in CondType : api.conds[c].status \in {"True", "False"} /\ api'.stage # "gone"
            => api'.conds[c].status \in {"True", "False"}]_api
  BY StaysKnown DEF Known
<1>2. TypeOK /\ WatchInv /\ StageInv /\ [Next]_vars => StageInv'
  BY StageStep
<1>3. TypeOK /\ WatchInv /\ LabelInv /\ StageInv /\ SingleInv /\ [Next]_vars => SingleInv'
  BY SingleStep
<1>4. TypeOK /\ WatchInv /\ LabelInv /\ StageInv /\ SingleInv /\ TimeInv /\ KnownInv /\ [Next]_vars
        => KnownInv'
  BY KnownStep
<1> QED
  BY <1>1, <1>2, <1>3, <1>4, TypeInit, TypeStep, WatchInit, WatchStep, OrderInit, LabelStep,
     StageInit, SingleInit, TimeInit, TimeStep, KnownInit, PTL DEF Spec, NeverBackToUnknown
-----------------------------------------------------------------------------
(* How a test run that is not PLZ ends. *)

(* A test run that is not PLZ is never taken for one, so that nothing is    *)
(* killed and the last status write is the only one of its reconcile.       *)
PlainInv ==
  ~PLZ => /\ \A v \in Copies \cup {k6} : ~Marked(v)
          /\ pc # "U_killed"
          /\ pc = "Finalize" => k6.stage = "stopped"
          /\ pc \in Last /\ ~Deleted => cache = api /\ watch = <<>>

Aborted == "CloudTestRunAborted"

(* Before its first status write a reconcile has the stored condition       *)
(* Aborted, or has just set it.                                             *)
AbortSeen ==
  ~PLZ /\ pc \notin Second \cup {"idle"} /\ ~Deleted =>
     \/ k6.conds[Aborted] = api.conds[Aborted]
     \/ k6.conds[Aborted].time = Now /\ (Holds(k6, Aborted) \/ pc = "U_conditions")

Terminated == \A r \in Runner : pod[r] \in {"exited", "failed"}

(* Stopped or finished without an abort.                                    *)
Ended(v) == v.stage \in {"stopped", "finished"} /\ Denied(v, Aborted)

EndInv == ~PLZ /\ (Ended(api) \/ Ended(k6)) => Terminated \/ Deleted
-----------------------------------------------------------------------------
(* Without a PLZ. *)

(* PlainInv holds initially.                                                *)
LEMMA PlainInit == Init => PlainInv
<1> SUFFICES ASSUME Init PROVE PlainInv
  OBVIOUS
<1>1. Copies \cup {k6} = {NewTestRun, Gone}
  BY DEF Init, Copies
<1>2. ~Marked(NewTestRun) /\ ~Marked(Gone)
  BY DEF Marked, Holds, IsTrue, NewTestRun, Gone, NoConditions, NoCondition, CondType
<1> QED
  BY <1>1, <1>2 DEF PlainInv, Init, Last

(* A reconcile of a TestRun that is not marked as PLZ kills no jobs.        *)
LEMMA PlainStopped ==
  ASSUME Stopped, ~Marked(k6)
  PROVE  pc' = "Finalize" /\ k6' = k6 /\ UNCHANGED pod
  BY GotoFlow DEF Stopped, Marked

(* The mark stays away.                                                     *)
LEMMA Unmarked ==
  ASSUME TypeOK, ~PLZ, \A v \in Copies \cup {k6} : ~Marked(v), [Next]_vars
  PROVE  \A v \in Copies' \cup {k6'} : ~Marked(v)
<1>0. k6 \in TestRun /\ Now \in Nat /\ spec.id = 0 /\ spec.id \in Nat
  BY SpecIDType DEF TypeOK, StoreOK, OperatorOK, PLZ, Now
<1>1. ~Marked(api) /\ ~Marked(cache) /\ ~Marked(k6) /\ ~Marked(Gone)
  BY GoneHolds DEF Copies, Marked, CondType
<1>2. ~Marked(Patched) /\ ~Marked(Refetched)
  BY <1>1, PatchedHolds DEF Marked, Refetched, TypeOK, CondType
<1>3. ~Marked(api')
  BY <1>1, <1>2, StoreStep DEF UpdatePatched, DeleteTestRun
<1>4. ~Marked(k6')
  <2>1. ASSUME NEW obj \in TestRun, Moved(obj), ~Marked(obj) PROVE ~Marked(k6')
    <3>1. k6'.conds = obj.conds
      BY <2>1 DEF Moved, TestRun
    <3> QED
      BY <2>1, <3>1 DEF Marked, Holds
  <2>2. CASE StartTestRun
    <3>1. ~Marked(Initialize(k6, spec.id, Now))
      BY <1>0, InitializedCopy DEF Marked
    <3>2. ~Marked([k6 EXCEPT !.stage = "error"])
      BY <1>0, <1>1, StageKeeps DEF Marked, CondType, Stage
    <3>3. k6' = Initialize(k6, spec.id, Now) \/ k6' = [k6 EXCEPT !.stage = "error"]
      BY <2>2, GotoFlow DEF StartTestRun
    <3> QED
      BY <3>1, <3>2, <3>3
  <2>3. Patched \in TestRun /\ Refetched \in TestRun
    BY UpdateTypes DEF TypeOK
  <2> QED
    BY <1>1, <1>2, <2>1, <2>2, <2>3, CopyStep, AbortedCopy, KilledCopy DEF Finished, Kept, Keeps
<1> QED
  BY <1>3, <1>4, CopiesStep DEF TypeOK

(* PlainInv is inductive.                                                   *)
LEMMA PlainStep ==
  ASSUME NoStale, TypeOK, WatchInv, SingleInv, PlainInv, [Next]_vars
  PROVE  PlainInv'
<1> SUFFICES ASSUME ~PLZ
             PROVE  /\ \A v \in Copies' \cup {k6'} : ~Marked(v)
                    /\ pc' # "U_killed"
                    /\ pc' = "Finalize" => k6'.stage = "stopped"
                    /\ pc' \in Last /\ ~Deleted' => cache' = api' /\ watch' = <<>>
  BY SpecStays DEF PlainInv, PLZ, Marked
<1>0. /\ \A v \in Copies \cup {k6} : ~Marked(v)
      /\ pc # "U_killed"
      /\ pc = "Finalize" => k6.stage = "stopped"
      /\ pc \in Last /\ ~Deleted => cache = api /\ watch = <<>>
  BY DEF PlainInv
<1>1. \A v \in Copies' \cup {k6'} : ~Marked(v)
  BY <1>0, Unmarked
<1>2. Deleted => Deleted'
  BY DeletedStays
<1>3. CASE Finished
  BY <1>1, <1>3 DEF Finished, Last
<1>4. CASE Still
  <2>1. UNCHANGED store \/ Synced \/ Deleted'
    BY <1>4 DEF Still, DeleteTestRun, Deleted, Gone
  <2> QED
    BY <1>0, <1>1, <1>2, <1>4, <2>1 DEF Still, store, Synced
<1>5. CASE Begins
  BY <1>1, <1>5 DEF Begins, Last
<1>6. CASE Worked
  <2>1. pc' \in Last => pc \notin Second \cup {"idle"}
    BY <1>6 DEF Worked, WorkFlow, Flow, Last, Second
  <2>2. pc' # "U_killed"
    <3>1. CASE pc = "Stage" /\ k6.stage = "stopped"
      <4>1. Stopped
        BY <1>6, <3>1 DEF Worked, Works, CreateClient, StopJobs, StartTestRun, InitializeJobs,
           RunValidations, SetupCloudTest, CreateJobs, StartJobs, Started, Finalize, CleanUp,
           AtStage
      <4> QED
        BY <1>0, <4>1, PlainStopped
    <3> QED
      BY <1>6, <3>1 DEF Worked, WorkFlow, Flow
  <2>3. pc' = "Finalize" => k6'.stage = "stopped"
    BY <1>6 DEF Worked, WorkFlow, Flow
  <2>4. pc' \in Last /\ ~Deleted' => cache' = api' /\ watch' = <<>>
    BY <1>0, <1>2, <1>6, <2>1 DEF SingleInv, Worked, store
  <2> QED
    BY <1>1, <2>2, <2>3, <2>4
<1>7. CASE \E obj : Passed(obj)
  BY <1>0, <1>1, <1>7 DEF Passed, UpdateFlow, Last
<1> QED
  BY <1>3, <1>4, <1>5, <1>6, <1>7, JointStep
-----------------------------------------------------------------------------
(* Stopped means finished. *)

(* Marking a TestRun as aborted does.                                       *)
LEMMA AbortedHolds ==
  ASSUME TypeOK, MarkAborted
  PROVE  Holds(k6', Aborted)
<1> DEFINE over    == [k6 EXCEPT !.stage = "stopped"]
           stopped == Stamp(over, "TestRunRunning", "False", Now)
           aborted == Stamp(stopped, "CloudTestRunAborted", "True", Now)
<1>1. Now \in Nat
  BY DEF Now, TypeOK, StoreOK
<1>2. over \in TestRun
  BY StageType DEF TypeOK, OperatorOK, Stage
<1>3. stopped \in TestRun
  BY <1>2, OnlyStamped DEF CondType, Status
<1>4. Holds(aborted, "CloudTestRunAborted")
  BY <1>1, <1>3, StampKeeps DEF CondType, Status
<1> QED
  BY <1>4, GotoFlow DEF MarkAborted, Aborted

(* The reconcile of a test run that is not PLZ changes the condition        *)
(* Aborted only by setting it, with a stopper job, and at its first stage.  *)
LEMMA AbortWork ==
  ASSUME TypeOK, ~Marked(k6), NEW late \in BOOLEAN, Works(late)
  PROVE  \/ Finished
         \/ k6'.conds[Aborted] = k6.conds[Aborted]
         \/ k6'.conds[Aborted].time = Now /\ (Holds(k6', Aborted) \/ pc' = "U_conditions")
<1>0. k6 \in TestRun /\ Aborted \in CondType
  BY DEF TypeOK, OperatorOK, Aborted, CondType
<1>1. CASE StartTestRun
  <2>1. [k6 EXCEPT !.stage = "error"].conds = k6.conds
    BY <1>0 DEF TestRun
  <2>2. Initialize(k6, spec.id, Now).conds[Aborted].time = Now
    BY <1>0 DEF Initialize, InitialStatus, TestRun, Aborted, CondType
  <2>3. \/ pc' = "U_conditions" /\ k6' = Initialize(k6, spec.id, Now)
        \/ k6' = [k6 EXCEPT !.stage = "error"]
    BY <1>1, GotoFlow DEF StartTestRun
  <2> QED
    BY <2>1, <2>2, <2>3
<1>2. CASE Changed(k6', Touched) /\ Aborted \notin Touched
  BY <1>0, <1>2 DEF Changed
<1>3. CASE Changed(k6', Touched) /\ Aborted \in Touched
  <2>1. pc = "StopJobs" \/ (pc = "Stage" /\ k6.stage = "stopped")
    BY <1>3 DEF Touched, Aborted
  <2>2. StopJobs \/ Stopped
    BY <2>1 DEF Works, CreateClient, StartTestRun, InitializeJobs, RunValidations,
       SetupCloudTest, CreateJobs, StartJobs, Started, Finalize, CleanUp, AtStage
  <2>3. CASE StopJobs
    <3>1. Finished \/ MarkAborted
      BY <2>3, ReturnEnds DEF StopJobs, StopJobsFailed
    <3> QED
      BY <1>0, <1>3, <3>1, AbortedHolds DEF Changed
  <2>4. CASE Stopped
    BY <2>4, PlainStopped
  <2> QED
    BY <2>2, <2>3, <2>4
<1> QED
  BY <1>1, <1>2, <1>3, WorkConds

(* AbortSeen holds initially.                                               *)
LEMMA AbortSeenInit == Init => AbortSeen
  BY DEF Init, AbortSeen

(* AbortSeen is inductive.                                                  *)
LEMMA AbortSeenStep ==
  ASSUME NoStale, TypeOK, WatchInv, PlainInv, AbortSeen, [Next]_vars
  PROVE  AbortSeen'
<1> SUFFICES ASSUME ~PLZ, pc' \notin Second \cup {"idle"}, ~Deleted'
             PROVE  \/ k6'.conds[Aborted] = api'.conds[Aborted]
                    \/ /\ k6'.conds[Aborted].time = Now'
                       /\ Holds(k6', Aborted) \/ pc' = "U_conditions"
  BY SpecStays DEF AbortSeen, PLZ, Holds
<1>0. ~Deleted /\ pc # "U_killed" /\ ~Marked(k6)
  BY DeletedStays DEF PlainInv
<1>1. CASE Still
  <2>1. UNCHANGED <<api, clock, k6, pc>>
    BY <1>1 DEF Still, store, Synced, DeleteTestRun, Deleted, Gone
  <2> QED
    BY <1>0, <2>1 DEF AbortSeen, Now
<1>2. CASE Begins /\ UNCHANGED store /\ (NoStale => watch = <<>>)
  BY <1>2, BeginsAlone
<1>3. CASE Worked
  <2>1. pc \notin Second \cup {"idle"} /\ pc # "U_conditions" /\ pc' # "idle"
    BY <1>3 DEF Worked, WorkFlow, Flow, Second
  <2>2. api' = api /\ Now' = Now
    BY <1>3 DEF Worked, store, Now
  <2>3. \/ k6.conds[Aborted] = api.conds[Aborted]
        \/ k6.conds[Aborted].time = Now /\ Holds(k6, Aborted)
    BY <1>0, <2>1 DEF AbortSeen
  <2>4. CASE k6'.conds[Aborted] = k6.conds[Aborted]
    BY <2>2, <2>3, <2>4 DEF Holds, IsTrue
  <2> QED
    BY <1>0, <1>3, <2>1, <2>2, <2>4, AbortWork DEF Worked, Finished
<1>4. ASSUME NEW obj, Passed(obj) PROVE FALSE
  BY <1>0, <1>4 DEF Passed, UpdateFlow, Second
<1> QED
  BY <1>1, <1>2, <1>3, <1>4, JointStep DEF Finished

(* What a status write stores when the cache is up to date.                 *)
LEMMA PatchedSingle ==
  ASSUME TypeOK, cache = api, NEW c \in CondType
  PROVE  Patched.conds[c] = IF /\ Accepts(api.conds[c], k6.conds[c])
                               /\ api.conds[c].status # k6.conds[c].status
                            THEN k6.conds[c] ELSE api.conds[c]
<1>1. Merged.conds[c] = IF /\ Accepts(api.conds[c], k6.conds[c])
                           /\ api.conds[c].status # k6.conds[c].status
                        THEN k6.conds[c] ELSE api.conds[c]
  BY DEF Merged, SetIfNewer, MergedConditions, TypeOK, StoreOK, TestRun
<1>2. Patched.conds = Merged.conds
  BY DEF Patched, MergePatch
<1> QED
  BY <1>1, <1>2

(* A write that ends a test run stores what the reconcile decided.          *)
LEMMA PatchedEnds ==
  ASSUME TypeOK, ~PLZ, ~Deleted, LabelInv, StageInv, SingleInv, TimeInv, PlainInv, AbortSeen,
         pc \in UpdateLabel, Ended(Patched)
  PROVE  Ended(api) \/ Ended(k6)
<1>0. Aborted \in CondType /\ Patched.stage \in {"stopped", "finished"}
  BY DEF Aborted, CondType, Ended
<1>1. pc \notin Second
  <2>1. pc \in Second => k6.stage \in Early /\ api.stage \in Early
    BY DEF SingleInv
  <2> QED
    BY <1>0, <2>1, PatchedStage DEF Early
<1>2. pc # "U_conditions"
  BY <1>0, FirstWrite
<1>3. cache = api
  BY <1>1 DEF SingleInv, PlainInv, UpdateLabel
<1> DEFINE new == k6.conds[Aborted]
           old == api.conds[Aborted]
<1>4. new = old \/ (new.time = Now /\ Holds(k6, Aborted))
  BY <1>1, <1>2 DEF AbortSeen, UpdateLabel
<1>5. CASE new = old
  <2>1. Patched.conds[Aborted] = old
    BY <1>0, <1>3, <1>5, PatchedSingle
  <2> QED
    BY <1>0, <1>5, <2>1, PatchedStage DEF Ended, Denied, IsFalse
<1>6. CASE new.time = Now /\ Holds(k6, Aborted)
  <2>1. old.time < Now
    <3>1. old.time <= clock /\ old.time \in Nat /\ clock \in Nat
      BY <1>0, TimeType DEF TimeInv, Copies, TypeOK, StoreOK
    <3> QED
      BY <3>1 DEF Now
  <2>2. Accepts(old, new)
    BY <1>6, <2>1 DEF Accepts, Holds, IsTrue
  <2>3. Patched.conds[Aborted].status = "True"
    BY <1>0, <1>3, <1>6, <2>2, PatchedSingle DEF Holds, IsTrue
  <2> QED
    BY <2>3 DEF Ended, Denied, IsFalse
<1> QED
  BY <1>4, <1>5, <1>6

Over == Terminated \/ Deleted

(* Terminated runners stay so: jobs are launched only when there are none.  *)
LEMMA OverStays ==
  ASSUME TypeOK, ~Marked(k6), Over, [Next]_vars
  PROVE  Over'
<1>0. pod \in [Runner -> PodState] /\ 1 \in Runner
  BY ControllerAssumption DEF TypeOK, ClusterOK, Runner
<1>1. CASE Deleted
  BY <1>1, DeletedStays DEF Over
<1>2. CASE Terminated
  <2>1. CASE UNCHANGED pod
    BY <1>2, <2>1 DEF Over, Terminated
  <2>2. CASE DeleteTestRun
    BY <2>2 DEF DeleteTestRun, Over, Deleted, Gone
  <2>3. CASE \E late \in BOOLEAN, n, m \in 0 .. N : CreateJobs(late) /\ Launched(n, m)
    <3>1. Exists(1)
      BY <1>0, <1>2 DEF Terminated, Exists
    <3>2. UNCHANGED pod
      BY <1>0, <2>3, <3>1 DEF CreateJobs, cluster
    <3> QED
      BY <2>1, <3>2
  <2>4. CASE Stopped
    BY <2>1, <2>4, PlainStopped
  <2>5. CASE Runners
    <3>1. PICK r \in Runner : \/ PodStarts(r) \/ PodServes(r) \/ TestEnds(r)
                              \/ PodFails(r) \/ Resume(r) \/ Stop(r)
      BY <2>5 DEF Runners
    <3>2. pod[r] \in {"exited", "failed"}
      BY <1>2 DEF Terminated
    <3>3. pod' = [pod EXCEPT ![r] = pod[r]]
      BY <3>1, <3>2 DEF PodStarts, PodServes, TestEnds, PodFails, Resume, Stop, SetPod
    <3>4. UNCHANGED pod
      BY <1>0, <3>3
    <3> QED
      BY <2>1, <3>4
  <2> QED
    BY <2>1, <2>2, <2>3, <2>4, <2>5, ClusterStep DEF cluster
<1> QED
  BY <1>1, <1>2 DEF Over

(* A reconcile ends a test run that is not PLZ when all runners have        *)
(* terminated, as far as the cache shows the jobs that exist.               *)
LEMMA WorkEnds ==
  ASSUME NoLag, TypeOK, ~PLZ, SingleInv, PlainInv, Worked, Ended(k6')
  PROVE  Ended(k6) \/ Over
<1>0. ~Marked(k6) /\ Aborted \in CondType
  BY DEF PlainInv, Aborted, CondType
<1>1. PICK late \in BOOLEAN : Works(late)
  BY DEF Worked
<1>2. CASE pc = "CreateClient"
  BY <1>2 DEF Worked, WorkFlow, Flow, Ended
<1>3. CASE pc = "StopJobs"
  <2>1. StopJobs
    BY <1>1, <1>3 DEF Works, CreateClient, StartTestRun, InitializeJobs, RunValidations,
       SetupCloudTest, CreateJobs, StartJobs, Started, Stopped, Finalize, CleanUp, AtStage
  <2>2. MarkAborted
    BY <1>3, <2>1, ReturnEnds DEF StopJobs, StopJobsFailed, Finished, Worked, WorkFlow, Flow
  <2> QED
    BY <2>2, AbortedHolds DEF Ended, Denied, Holds, IsTrue, IsFalse
<1>4. CASE pc = "Stage" /\ k6.stage = "started"
  <2>1. Started(late)
    BY <1>1, <1>4 DEF Works, CreateClient, StopJobs, StartTestRun, InitializeJobs, RunValidations,
       SetupCloudTest, CreateJobs, StartJobs, Stopped, Finalize, CleanUp, AtStage
  <2>2. pc' = "U_stopped"
    BY <1>4 DEF Worked, WorkFlow, Flow, Ended
  <2>3. StartedOther
    BY <1>0, <2>1, <2>2 DEF Started, Marked, Return
  <2>4. FinishedJobs = Runner
    BY <2>2, <2>3 DEF StartedOther, NoLag, Fault, KeepWaiting, Return, Goto
  <2> QED
    BY <2>4 DEF FinishedJobs, Over, Terminated
<1>5. CASE pc = "Stage" /\ k6.stage = "stopped"
  <2>1. Stopped
    BY <1>1, <1>5 DEF Works, CreateClient, StopJobs, StartTestRun, InitializeJobs, RunValidations,
       SetupCloudTest, CreateJobs, StartJobs, Started, Finalize, CleanUp, AtStage
  <2> QED
    BY <1>0, <2>1, PlainStopped
<1>6. CASE pc = "Finalize"
  <2>1. Changed(k6', Touched) /\ Aborted \notin Touched
    BY <1>1, <1>6, WorkConds DEF Worked, WorkFlow, Flow, Finished, StartTestRun, AtStage, Touched,
       Aborted
  <2>2. k6'.conds[Aborted] = k6.conds[Aborted]
    BY <1>0, <2>1 DEF Changed
  <2> QED
    BY <1>6, <2>2 DEF PlainInv, Ended, Denied, IsFalse
<1>7. CASE pc = "SetupCloudTest"
  BY <1>7 DEF Worked, WorkFlow, Flow, SingleInv, Second, Early, Ended, Over
<1> QED
  BY <1>2, <1>3, <1>4, <1>5, <1>6, <1>7 DEF Worked, WorkFlow, Flow, Ended

(* EndInv holds initially.                                                  *)
LEMMA EndInit == Init => EndInv
<1>1. ~Ended(NewTestRun) /\ ~Ended(Gone)
  BY DEF Ended, NewTestRun, Gone
<1>2. Init => api = NewTestRun /\ k6 = Gone
  BY DEF Init
<1> QED
  BY <1>1, <1>2 DEF EndInv

(* EndInv is inductive.                                                     *)
LEMMA EndStep ==
  ASSUME NoStale, NoLag, TypeOK, WatchInv, LabelInv, StageInv, SingleInv, TimeInv, PlainInv,
         AbortSeen, EndInv, [Next]_vars
  PROVE  EndInv'
<1> SUFFICES ASSUME ~PLZ
             PROVE  (Ended(api') => Over') /\ (Ended(k6') => Over')
  BY SpecStays DEF EndInv, PLZ, Over, Ended, Denied
<1>0. /\ Ended(api) \/ Ended(k6) => Over
      /\ ~Ended(Gone)
  BY DEF EndInv, Over, Ended, Gone
<1>1. Over => Over'
  BY OverStays DEF PlainInv
<1>2. Ended(api') => Over'
  <2>1. CASE UpdatePatched /\ pc \in UpdateLabel
    BY <1>0, <1>1, <2>1, PatchedEnds DEF UpdatePatched
  <2> QED
    BY <1>0, <1>1, <2>1, StoreStep DEF DeleteTestRun
<1>3. CASE Finished \/ Still
  BY <1>0, <1>1, <1>2, <1>3 DEF Finished, Still
<1>4. CASE Begins /\ UNCHANGED store /\ (NoStale => watch = <<>>)
  BY <1>0, <1>1, <1>2, <1>4, BeginsAlone
<1>5. CASE Worked
  BY <1>0, <1>1, <1>2, <1>5, WorkEnds
<1>6. CASE \E obj : Passed(obj)
  <2>1. pc' \in Second
    BY <1>6 DEF Passed, UpdateFlow, Second, PlainInv
  <2>2. Deleted' \/ k6'.stage \in Early
    BY <2>1, SingleStep DEF SingleInv
  <2> QED
    BY <1>2, <2>2 DEF Over, Ended, Early
<1> QED
  BY <1>3, <1>4, <1>5, <1>6, JointStep

(* A TestRun that is not PLZ and was not aborted is stored as stopped or    *)
(* finished only when every runner has terminated, for any number of        *)
(* runners, as long as the operator's caches show what exists when a        *)
(* reconcile starts (the TestRun) and looks (the jobs).                     *)
THEOREM StoppedIsFinished ==
  ASSUME NoStale, NoLag
  PROVE  Spec => []StoppedMeansFinished
<1>1. EndInv => StoppedMeansFinished
  BY DEF EndInv, Ended, Terminated, Deleted, Aborted, StoppedMeansFinished
<1>2. TypeOK /\ WatchInv /\ StageInv /\ [Next]_vars => StageInv'
  BY StageStep
<1>3. TypeOK /\ WatchInv /\ LabelInv /\ StageInv /\ SingleInv /\ [Next]_vars => SingleInv'
  BY SingleStep
<1>4. TypeOK /\ WatchInv /\ SingleInv /\ PlainInv /\ [Next]_vars => PlainInv'
  BY PlainStep
<1>5. TypeOK /\ WatchInv /\ PlainInv /\ AbortSeen /\ [Next]_vars => AbortSeen'
  BY AbortSeenStep
<1>6. /\ TypeOK /\ WatchInv /\ LabelInv /\ StageInv /\ SingleInv /\ TimeInv /\ PlainInv
      /\ AbortSeen /\ EndInv /\ [Next]_vars
      => EndInv'
  BY EndStep
<1> QED
  BY <1>1, <1>2, <1>3, <1>4, <1>5, <1>6, TypeInit, TypeStep, WatchInit, WatchStep, OrderInit,
     LabelStep, StageInit, SingleInit, TimeInit, TimeStep, PlainInit, AbortSeenInit, EndInit, PTL
     DEF Spec
=============================================================================
