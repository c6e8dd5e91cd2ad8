-------------------------- MODULE TestRunProperties --------------------------
(***************************************************************************)
(* What the TestRun controller promises, and what its comments say of it.  *)
(***************************************************************************)
EXTENDS TestRunController

PLZ == spec.id # 0

(* The stages a TestRun may not be found in again once it is in this one.   *)
Earlier(stage) ==
  CASE stage = ""               -> {}
    [] stage = "initialization" -> {""}
    [] stage = "initialized"    -> {"", "initialization"}
    [] stage = "created"        -> {"", "initialization", "initialized"}
    [] stage = "started"        -> {"", "initialization", "initialized", "created"}
    [] stage = "stopped"        -> {"", "initialization", "initialized", "created", "started"}
    [] OTHER                    -> {"", "initialization", "initialized", "created", "started",
                                    "stopped"}

(* The TestRun stored at the API server moves along its life cycle and      *)
(* never back (the switch in SetIfNewer), although every status write is    *)
(* decided on a cached copy and patched without a lock.                     *)
StageNeverRegresses == [][api'.stage \notin Earlier(api.stage)]_api

(* A stored condition that is True or False does not become Unknown or      *)
(* disappear again (pkg/types SetIfNewer), although a patch replaces the    *)
(* whole list of conditions.                                                *)
NeverBackToUnknown ==
  [][\A c \in CondType : api.conds[c].status \in {"True", "False"} /\ api'.stage # "gone"
        => api'.conds[c].status \in {"True", "False"}]_api

(* One TestRun starts at most one test run at the k6 Cloud: SetupCloudTest  *)
(* is not carried out twice, by retries or by two reconciles.               *)
AtMostOneCloudRun == runs <= 1

(* While a TestRun is stored as created or started, the service of every    *)
(* runner exists, and its job too unless the test was aborted (a stopper    *)
(* was made), although calls fail, reconciles start on stale copies and the *)
(* operator restarts: CreateJobs stores the stage only after its loop, and  *)
(* KillJobs is for aborted tests only.                                      *)
JobsBehindStage ==
  api.stage \in {"created", "started"}
     => svc = Runner /\ (stopper.made \/ \A r \in Runner : Exists(r))

(* The pods as the runners of a distributed test. With paused: "false" they *)
(* are not meant to wait for each other, and the test is not mapped.        *)
RunnerStateOf ==
  [none |-> "absent", created |-> "launched", booting |-> "launched", paused |-> "ready",
   running |-> "executing", ended |-> "over", exited |-> "over", failed |-> "over"]

Start == INSTANCE SynchronizedStart WITH
  runner   <- [r \in Runner |-> IF spec.paused THEN RunnerStateOf[pod[r]] ELSE "absent"],
  released <- IF spec.paused THEN starter.made ELSE FALSE

(* With --paused, the default, no runner executes the test before all were  *)
(* ready, and none executes it twice, over retries, restarts and stale      *)
(* copies: the starter job is the only one to resume the paused runners, is *)
(* created once, after StartJobs has counted the running pods and probed    *)
(* the services it was listed, and no job is launched after it. A service   *)
(* that is missing from a lagging list is not probed, nor is the number of  *)
(* services looked at: there the property ends.                             *)
StartsTogether == Start!Spec

(* The starter job resumes every runner. StartJobs never compares the       *)
(* hostnames it found with the parallelism; it relies on CreateJobs.        *)
StarterReachesAll == starter.made => starter.hosts = Runner

(* A runner of a PLZ test run executes the test only after the data of      *)
(* setup() was sent to it: runSetup precedes the starter in StartJobs.      *)
SetupBeforeStart == PLZ => \A r \in Runner : pod[r] = "running" => r \in setup

(* A TestRun that is not PLZ and was not aborted is stored as stopped or    *)
(* finished only when every runner has terminated (FinishJobs).             *)
StoppedMeansFinished ==
  ~PLZ /\ api.stage \in {"stopped", "finished"} /\ Denied(api, "CloudTestRunAborted")
     => \A r \in Runner : pod[r] \in {"exited", "failed"}

(* A TestRun stored as finalized has no live test run at the k6 Cloud:      *)
(* the condition follows the call of FinishTestRun for the stored ID.       *)
FinalizedAtCloud == Holds(api, "CloudTestRunFinalized") => cloud[api.id] # "live"

(* A TestRun is stored as aborted only when there is a stopper job for its  *)
(* runners (StopJobs): a lost stopper would leave them running.             *)
AbortedHasStopper == Holds(api, "CloudTestRunAborted") => stopper.made

(* Every TestRun ends: finished, in error, or deleted.                      *)
Terminates == <>(api.stage \in {"finished", "error", "gone"})

(* Every test run that is live at the k6 Cloud is ended there, finished or  *)
(* aborted, by the operator's calls: none is left to the cloud's timeout.   *)
LiveRunsEnd == \A i \in RunID : cloud[i] = "live" ~> cloud[i] # "live"
-----------------------------------------------------------------------------
(* A statement of the repository's comments that the code does not keep.    *)

(* testrun_controller.go, on a forced abort of a PLZ test run: "Wait until  *)
(* all the test runs are stopped, kill jobs and proceed".                   *)
AbortWaits ==
  PLZ /\ api.stage = "finished" /\ Holds(api, "CloudTestRunAborted")
     => \A r \in Runner : pod[r] # "running"
=============================================================================
