# k6-operator: a TLA+ verification project

The k6-operator turns two custom resources into work for a Kubernetes cluster and
the k6 Cloud (GCk6): a `TestRun` becomes an initializer job, `parallelism` runner
jobs, a starter and sometimes a stopper; a `PrivateLoadZone` (PLZ) becomes a
registered load zone, whose test runs the operator polls for and turns into
`TestRun`s. The modules here model the two reconcilers and the polling factory with
the caches, calls, crashes and concurrent actors that surround them, and the way of a
test run's data into the command lines of k6; TLC checks
small instances, TLAPS proves every safety property for every instance.

Paths below are relative to `src/`.

## 1. Inventory

| Part | State | Operations | Where it is hard |
|---|---|---|---|
| **TestRun controller** `internal/controller/testrun_controller.go`, `k6_*.go`, `common.go` | none of its own: everything is in the TestRun's status, the jobs, services and pods, and the cloud test run | `Reconcile`, one case per stage (`""`, initialization, initialized, created, started, stopped, finished, error), `RunValidations`, `SetupCloudTest`, `CreateJobs`, `StartJobs`, `StopJobs`, `FinishJobs`, `StoppedJobs`, `KillJobs`, `UpdateStatus` | one reconcile is many API calls; it reads from an informer cache and writes without a lock; waits are requeues decided by the age of a condition |
| **TestRun status** `api/v1alpha1/k6conditions.go`, `pkg/types/conditions.go` | stage, test run ID, list of conditions with transition times | `Initialize`, `UpdateCondition`, `SetIfNewer` (twice), JSON merge patch | a merge of three copies: in memory, cached, stored |
| **PLZ controller** `internal/controller/plz_controller.go`, `api/v1alpha1/privateloadzone_types.go`, `plzconditions.go` | finalizer and condition `PLZRegistered` in the PLZ; map of workers in memory (`pkg/plz/workers.go`) | `Reconcile`, `Register`, `Deregister`, `UpdateStatus`, `AddWorker`, `GetWorker`, `DeleteWorker` | state in memory is lost on restart, the rest is not; the user deletes and re-creates in between |
| **PLZ worker and poller** `pkg/plz/worker.go`, `pkg/cloud/conn/poller.go`, `pkg/cloud/test_runs.go` | two goroutines, a channel, a context | `StartFactory`, `StopFactory`, poll, `handle` (get, fetch data, create, check, abort, delete) | goroutine interleavings, closing of the channel, calls that hang |
| **Cloud client** `pkg/cloud/*.go` | test runs and zones at the cloud | `CreateTestRun`, `FinishTestRun`, `GetTestRunState`, `SendTestRunEvents`, `RegisterPLZ`, `DeRegisterPLZ`, token loading | a call fails, or succeeds and its answer is lost |
| **Runner REST client** `pkg/testrun/*.go` | paused / running / ended runner, setup data | `RunSetup`, `RunTeardown`, `isJobRunning`, starter and stopper (curl jobs) | a runner that cannot be reached |
| **Command lines** `pkg/cloud/apitypes.go`, `pkg/types/k6cli.go`, `script.go`, `pkg/segmentation`, `pkg/resources/jobs/runner.go`, `initializer.go`, `api/v1alpha1/testrun_types.go` | the data of a PLZ test run, the TestRun's spec, commands and environments | `Preprocess`, `complete`, `plzk6Args`, `ParseCLI`, `Argv`, `ParseScript`, `NewInitializerJob`, `NewRunnerJob`, `NewCommandFragments` | five packages, then the kubelet and a shell, each rewrite the same arguments; boundary values |
| **Inspect output**, **aggregation config** `pkg/cloud/inspect.go`, `aggregation.go`; **other job fields** `pkg/resources` | none | pure functions | none |
| **Manager, CRDs, charts** `cmd`, `config`, `charts` | none | wiring | none of its own |

How they interact. Both reconcilers are single-threaded (`MaxConcurrentReconciles:
1`; leader election makes the operator one process). A reconcile is triggered by a
change of the resource, by a change of an owned job or a runner pod, by its own
`RequeueAfter` or error, or by the ten-hourly resync. The PLZ controller starts and
stops a worker's factory; the factory creates TestRuns with `spec.testRunId` set,
which the TestRun controller then treats as "PLZ test runs". The TestRun controller
and the cloud share the test run: the cloud may abort it at any time, and the
controller asks for that at the start of each reconcile.

What makes each part correct:

- *TestRun controller*: a TestRun ends; so does its cloud test run, of which there is
  one; the life cycle does not go back; jobs exist when the stage says so; all runners
  are started, and not before `setup()`; "stopped" means stopped; an abort reaches the
  runners; the cloud is told the end before the TestRun says so.
- *Status*: a condition that is known stays known, the stage and the ID do not go back.
- *PLZ controller*: a PLZ that stays is served, one that is deleted disappears and is
  deregistered, a factory polls exactly for a registered PLZ whose deletion will stop
  it, and no stopped factory is started again.
- *Factory*: the channel is used safely, both goroutines end after `Stop`, every
  announced run gets its TestRun, a TestRun that lost its arguments is not left behind,
  and no creation begins after `Stop`.
- *Command lines*: what a user has set reaches k6 as it was set, through escaping, kubelet
  and shell; reserved values win; the cloud token goes to the runners' log output and
  nowhere else; `k6 archive` gets the flags it takes, each with its values; the segments of
  the runners tile the test.

The hazards behind these properties are listed with their source lines in
`PROJECT.json`.

## 2. Modules

| Module | Models |
|---|---|
| `Conditions` | `pkg/types/conditions.go`: `UpdateCondition`, `SetIfNewer` on a list of conditions |
| `TestRunStatus` | `api/v1alpha1/k6conditions.go`: `Initialize`, `TestRunStatus.SetIfNewer`, and the merge patch of `UpdateStatus` |
| `TestRunController` | the TestRun reconciler with API server, cache, cluster, runners and cloud |
| `TestRunProperties` | what is checked of it |
| `MCTestRun` | spec sets for TLC: local, `--out cloud`, PLZ, and unions of them |
| `TestRunTypes`, `TestRunSafety`, `TestRunOrder`, `TestRunFresh`, `TestRunCloud` | theorems about `TestRunController`, each module on the one before it |
| `PLZController`, `PLZProperties`, `MCPLZ` | the PLZ reconciler and the worker map |
| `PLZProofs` | theorems about `PLZController` |
| `PLZFactory`, `MCPLZFactory` | poller, channel and worker |
| `PLZFactoryProofs` | theorems about `PLZFactory` |
| `SynchronizedStart` | abstract: runners are released together, each executes once; implemented by `TestRunController` (`Start` in `TestRunProperties`) |
| `FactoryContract` | abstract: what PLZ reconciler and factory expect of each other; implemented by both (`Contract` in `PLZProperties` and `PLZFactory`) |
| `K6Arguments`, `Segmentation` | `ParseCLI` and the elements of a command line; execution segments |
| `K6Invocation` | from the cloud's data or a user's spec to the containers of initializer and runners |
| `InvocationProperties`, `MCInvocation` | kubelet, shell and k6 on the receiving side, what is checked, the inputs for TLC |
| `InvocationProofs` | theorems about `K6Arguments`, `Segmentation` and `K6Invocation` |

The definition-by-definition correspondence is the `map` of `PROJECT.json`. A
definition called `D_x` (`StageAccepts_Any`, `Registered_OnlyUndeleted`, ...) is `D` with a
plausible defect: `PROJECT.json` pairs every checked property with one that breaks it.

### TestRunController

The TestRun exists in four places: `api` (stored), `watch` (versions on their way),
`cache` (what the operator reads) and `k6` (the object a reconcile works on). `pc`
names the point a reconcile has reached. A reconcile is cut into steps so that each step
makes at most one write that others can see, or one loop of writes whose partial
results are chosen nondeterministically: everything else may happen between two steps.

| Code | Actions |
|---|---|
| `Reconcile`, `reconcile` up to the switch | `Reconcile` (`Get`), `CreateClient` (token, client, abort check), `StopJobs` |
| stage `""` | `StartTestRun`, `UpdateConditions`, `UpdateInitialization`, `InitializeJobs` |
| stage initialization | `RunValidations`, `UpdateInspect`, `UpdateValidated`, `UpdateInitialized`, `SetupCloudTest` |
| stage initialized, created | `CreateJobs`, `StartJobs` |
| stage started | `Started` (`StartedPLZ`, `StartedOther`) |
| stage stopped | `Stopped` (`StoppedJobs`, `KillJobs`), `UpdateKilled`, `Finalize` |
| stage finished, error | `CleanUp` |
| `UpdateStatus` | `UpdatePatched`, `UpdateSkipped`, `UpdateFailed`, used by each `U_...` label; the labels after which the reconcile returns are handled by `UpdateAndReturn` |
| the world | `CacheSync`, `Restart`, `Resync`, `InitializerEnds`, `PodStarts`, `PodServes`, `TestEnds`, `PodFails`, `Resume`, `Stop`, `EventArrives`, `CloudAborts`, `UserDeletes` |

`UpdateStatus` is where copies meet: it fetches the cached TestRun once more, merges the
proposed status with `SetIfNewer`, sends a merge patch of the difference between the
fetched copy and the merge, and the API server applies the patch to what it has stored
by then. `MergePatch(api, cache, SetIfNewer(cache, k6))` is that, and the list of
conditions is replaced as a whole, as JSON merge patches do.

A runner pod is in phase Running (`booting`) before its k6 serves the REST API. `StartJobs`
looks at both: it counts the pods in phase Running (`Up`), then `hostnames` probes every service it
was listed (`AllReady`), and one that does not answer ends the reconcile with an error. A
service that is missing from the list is not probed, and the number of services is not compared
with anything.

An abort event is a call without a result: `SendTestRunEvents` logs a failure and the reconcile
goes on alike, at all six places. `events` holds the run it is sent for; the reconciler is blocked until
`EventArrives`, where the run is aborted or, with the fault `event`, is not.

Time: `clock` orders the transition times of conditions; whether a wait measured in
minutes or seconds is over is the nondeterministic `late`.

Everything that can go wrong is a fault kind; a run names the kinds it allows and
how many may happen (`MaxFaults`):

- `stale`: a reconcile starts on a cached copy older than the stored one. Without it
  the cache is up to date when a reconcile *starts*; it may still lag within one.
- `lag`: jobs or services are missing from a list, or a job's status is not in the cache.
- `crash`: the operator restarts; the work queue starts from a list of the resources.
- `token`, `state`, `createrun`, `finish`, `event`: calls to the cloud fail (`event`: any
  abort event, wherever it is sent); `lost`: a
  `CreateTestRun` succeeds and its answer does not arrive.
- `inspect`, `list`, `create`, `patch`, `delete`: calls to Kubernetes fail (in a loop, at
  any of its turns).
- `setup`, `net`: calls to runners fail (`setup` data reaches any subset of them; `net` is a
  status request, of the probe or of `StoppedJobs`).
- `initfail`, `podfail`, `abort`, `userdelete`: initializer or runner pod fail, the cloud
  aborts the run, the user deletes the TestRun.

### PLZController

One PLZ name; `uid` tells successive PLZs of this name apart, `rv` is the resource
version that `Update` (unlike the status patch) is guarded by. Steps: `Reconcile`, `Look`
(the branches on deletion, finalizer and worker), `Register`, `AddFinalizer`,
`UpdateRegistered`, `Registered` (start of the factory), `Deregister`,
`RemoveFinalizer`; around them `CacheSync`, `Restart`, `Resync`, `UserCreates`,
`UserEdits`, `UserDeletes`. Here the factory is one field, `new`, `polling` or `stopped`.

### PLZFactory

One worker from the inside: the reconciler's `StartFactory` and `StopFactory`, the
poller (`OnDone`, `Tick`, `OnInterval`, `Send`, `SendCancelled`), and the worker's
`handle` as one step per call (`Get` ... `Delete`; `HungCall` is a call to Kubernetes that
returns only because the context is cancelled). `outdated` is a cluster whose CRD drops
`.spec.args`. A `Restart` kills both goroutines.

### The abstract specifications

`FactoryContract` has three variables: the factory's state (`new`, `polling`, `stopped`), the run
whose TestRun is being created, and the runs that have one. It ties `PLZController` and
`PLZFactory` together, which are checked apart: the reconciler implements its `Start`, `Stop` and
`Renew` (it never starts a stopped factory, whose channel is closed), the factory implements all
of it (it begins no creation after `Stop`, so at most the one under way is still made). Each
component is thus shown to behave as the other one assumes. The mappings are `worker.factory` and
the poller's context.

`SynchronizedStart` says what a distributed test is: runners are launched, get ready, are
released together once all were ready, and execute once. The mapping reads `released` off the
starter job and a runner's state off its pod (a pod in phase Running that does not serve is
launched, not ready), leaves out TestRuns with `paused: "false"`, whose runners are not meant to
wait, and ignores stages, conditions and copies, which
are how the controller brings it about.

### K6Invocation

A test run is followed from its origin to the containers: `Preprocess` and `Complete` for a PLZ
test run, then for every TestRun the loop of `ParseCLI` (`ParseGroup`, `ParsePositional`,
`ParseEnd`), `InitializeJobs`, and `CreateRunner` once per runner. There is no concurrency here:
the steps are those of one reconcile after the other, and the nondeterminism is in the inputs.
An argument is a record of flag and text, and text is a sequence of pieces in which only
`$`, `(`, `)` and `${` are told apart from words, since the kubelet and the shell treat them.
The flags (`FlagName`), the pieces (`Piece`) and the names of variables and tags in their sorted
order (`SortedKeys`) are constants: TLC takes a few, the proofs any.
`InvocationProperties` models those two (external to the repository) from how the code
uses them: `Expand` for `$(NAME)` and `$$`, `EnvMap` for the order of environment variables, `Shell`
for a command line that `sh -c` splits again. `Delivered` is what k6 is started with, and the
properties speak of that, not of the commands as the operator writes them. `CLIOf` is
`ParseCLI` once more without its loop, as a reference.

## 3. Runs

Every run has `CHECK_DEADLOCK FALSE`: a finished TestRun, a deleted one, and an operator
without resources really have nothing left to do.

### What holds

| Run | States | Shows |
|---|---:|---|
| `testrun_faults` | 1.31M | Every kind of TestRun (local, `--out cloud`, PLZ, with `paused: "false"`), *all* faults, two at a time: `SetupBeforeStart`, `FinalizedAtCloud`, `AbortedHasStopper`, `JobsBehindStage` |
| `testrun_jobs` | 1.06M | The same without `lag`: `StartsTogether`, that is, the controller implements `SynchronizedStart`; `StarterReachesAll`, `StoppedMeansFinished` |
| `testrun_hosted` | 56k | Cloud and PLZ tests, reconciles that start on an up-to-date cache, the resync, two failures of a cloud call (abort events included), list, deletion, runner call, initializer or runner pod, or aborts: `AtMostOneCloudRun`, `StageNeverRegresses`, `Terminates`, `LiveRunsEnd` |
| `testrun_plz_live` | 82k | PLZ tests, the resync, any two faults but deletion by the user, a lost abort event after a failed initializer, creation or `setup()` included: `Terminates`, `LiveRunsEnd` |
| `testrun_local_live` | 13k | Local tests without relying on the resync, with stale copies, failing `inspect`, list and delete calls, a failing initializer, deletion by the user, two at a time: `Terminates`, `NeverBackToUnknown` |
| `plz_safety` | 25.5k | Three PLZs of one name, all faults, three at a time: `PollingIsGuarded`, `PollingIsRegistered`, `ReconcilerKeepsContract`, `Disappears` |
| `plz_serves` | 1.5k | `Serves` with restarts, stale copies, failing calls (not the finalizer's `Update`) |
| `factory_safety` | 35k | All faults, two at a time: `ChannelSafe`; `WindsDown`: both goroutines end after `Stop`, from any state, also out of a hung call; `FactoryKeepsContract` |
| `factory_delivers` | 32k | `Delivered`, `FailsExplicitly` although three calls fail |
| `invocation_commands` | 206k | All argument lists up to length four, all kinds of scripts and PLZ data: `ParsesGroups`, `PLZAccepted`, `UserValuesIntact`, `ReservedValues`, `TokenForLogs`, `ArgumentsIntact`, `SegmentsTile` |

One `TypeOK` is checked per state machine, in `testrun_faults`, `plz_safety` and
`factory_safety`.

The fault sets say as much as the properties. A fault kind that is left out of a run
cannot occur for its specs (cloud calls in local tests) or breaks a property of it:

- `Terminates` of local tests: each of `lag`, `crash`, `create`, `patch` and `podfail` can leave
  a TestRun that never ends. A `create` that fails, or a `crash`, in the middle of
  `CreateJobs` is the sharpest: the next reconcile finds job 1, returns, and never
  creates the others.
- `Terminates` of cloud tests: `lag`, `crash`, `create`; without the resync also `token`,
  `finish`, `inspect` and `list`. PLZ tests always end with the resync, which bounds the
  damage to ten hours; without it `token`, `finish`, `list`, `create` and `setup` break it.
- `LiveRunsEnd` of cloud tests: `stale`, `lag`, `crash`, `inspect`, `patch`, `lost`,
  `userdelete`; of PLZ tests only `userdelete`, and a script with fewer VUs than runners
  (`PLZRunnable` leaves it out), which is put in error without telling the cloud.
- `AtMostOneCloudRun`: `stale`, `crash`, `patch`, `lost`. `StageNeverRegresses` and, but for
  local tests, `NeverBackToUnknown`: `stale`, since a write decided on a stale copy is patched
  over what was stored since.
- `StarterReachesAll`, `StoppedMeansFinished`: `lag`.
- `StartsTogether`: `lag`, once. `StartJobs` makes a starter for the services it was listed, without
  having probed the others: the start is given although the k6 of a pod in phase Running does not
  serve yet.
- Nothing is left out for `JobsBehindStage`, which therefore speaks of the jobs only until there is
  a stopper: after an abort, several stale reconciles may store "started" over "stopped" while the
  reconcile that read "stopped" kills the jobs (TLC needs six faults for it).
- Specs with `paused: "false"` (`UnpausedSpecs`): `Terminates`, without any fault. A runner whose test ends before `StartJobs` has seen all pods in phase
  Running is never counted again, and the TestRun stays in stage created.
- `Serves`: `update` and `edit`, and more than one PLZ of the name. `Disappears` speaks of
  PLZs stored as registered: one deleted earlier is stuck after a restart.
- `Delivered`: `hang`, while it lasts. `Delivered` and `FailsExplicitly`: `lost`, `crash`, and
  `event` and `delete` together, when the CRD is outdated.

### What does not hold

Each of these runs finds a behaviour of the code that contradicts a comment or document;
`PROJECT.json` quotes both under `findings`.

| Run | Behaviour |
|---|---|
| `testrun_v_abort_waits` | An aborted PLZ test run is finished while runners execute, although the comment says it waits for them |
| `plz_v_update` | One failed write of the finalizer leaves a PLZ that is never served: every later reconcile registers again and stops at the worker that exists |

Reading the code for the model also showed these, which the model exhibits and for which
no run is kept: a cache that lags for more than five seconds lets a second cloud test run be
created, whose ID replaces the stored one (the ID in the stale copy is empty, so `SetIfNewer`
accepts it); `isJobRunning` takes a runner it cannot reach for a stopped one, so
`teardown()` may run during a test; `StopJobs` sets `TestRunRunning` to False before the
runners stop; `KillJobs` counts a failed deletion as a deletion; `RunValidations` is
repeated after the cloud test run was created; `PrivateLoadZone.UpdateCondition` has a value
receiver, so `Register` does not set the condition it says it sets; a PLZ deleted while
it is being registered leaves a worker and a registered zone behind; an ID listed before its
run ended can make `handle` create the TestRun of a finished run again.

### Bounds

`N = 2` runners: the loops over runners distinguish none, some and all of them done; two
runners give all three. `MaxRuns = 2` cloud test runs: one more than there should be.
`MaxFaults` is 2 or 3, so that a failure meets a failed recovery.
`MaxPLZs = 3` for safety: a predecessor, the PLZ and its successor under one
name; `Serves` is checked for one. `Run = {1, 2}`: one run
handled while another waits in the poller. Counters (`faults`, `runs`, `created`) are
bounded in the guards by these constants; the clock moves only with stored writes, whose
number the life cycle bounds. `MaxArgs = 4`: a flag with two values or an empty one, followed by
another flag or a stray value, and every flag class of `ParseCLI` in every position;
`MaxRunners = 4`: a first, a last and two inner segments (the proof covers the rest). The texts
of PLZ values are those on which escaping and expansion differ: `$`, `$$`, a reference, an
escaped reference, `$($$)`. No symmetry is used: runners are created in index
order, and job 1 is special.

### Fairness

- A queued reconcile is run and its steps are taken (`WF` on `Operator`): the work queue
  of controller-runtime does that, and calls have timeouts.
- A wait is over at some time (`SF` on the `late` variants): a reconcile that requeues itself
  is repeated until the clock has passed the limit.
- The cache catches up (`WF` on `CacheSync`): the informer's watch.
- Initializer, pods, starter and stopper make progress and tests end: the cluster's side,
  assumed, not shown; what becomes of pods that fail is fault `podfail`.
- The informers' resync happens only in `ResyncSpec` (and in the PLZ controller's
  `FairSpec`): `testrun_local_live` shows what does not need it.
- Factory: calls return unless they hang; `select` chooses at random among ready cases,
  so a done context is chosen at last (`SF` on `OnDone`).
- A call to the cloud that sends an abort event returns (`WF` on `EventArrives`), whether the
  event arrived or not; how often it may fail is bounded by `MaxFaults` like every fault. A pod in phase
  Running serves at some time (`WF` on `PodServes`).
- Nothing is assumed of users, the cloud's aborts, or faults.

## 4. Proofs

TLAPS proves the following for every parallelism, every set of specs, every number of
faults, cloud test runs and PLZs, from `ControllerAssumption` (`PLZAssumption`,
`FactoryAssumption`) and, where the table says so, from hypotheses on
the faults or specs. The theorems about command lines hold for every list of arguments, every
text, every map of variables and tags and every number of runners, from these assumptions of
`K6Invocation`:

- `WordsAssumption`: the flags and words that the operator writes itself are flags and pieces;
- `KeysAssumption`: `SortedKeys` has every name once (any order will do), the reserved ones too;
- `UserAssumption`: a user's spec has the types of `TestRunSpec`; a name of a variable is one
  piece (`Name`), none of the special ones;
- `CloudAssumption`: the same for what the cloud sends, and no text of a user has the piece
  `token`, which stands for the value of the cloud token, known to the cluster only;
- `IsNumbered`, in both: the number of a runner is a piece of its own and not a special one.

| Theorem | Statement | Hypothesis |
|---|---|---|
| `TestRunTypes!TypeCorrect` | `[]TypeOK` | |
| `TestRunSafety!AbortHasStopper` | `[]AbortedHasStopper` | |
| `TestRunSafety!SetupPrecedesStart` | `[]SetupBeforeStart` | |
| `TestRunSafety!StarterComplete` | `[]StarterReachesAll` | no `lag` |
| `TestRunSafety!JobsExist` | `[]JobsBehindStage` | |
| `TestRunOrder!StartSynchronized` | `StartsTogether`: the refinement of `SynchronizedStart` | no `lag` |
| `TestRunFresh!StageMonotone` | `StageNeverRegresses` | no `stale` |
| `TestRunFresh!KnownStaysKnown` | `NeverBackToUnknown` | no `stale` |
| `TestRunFresh!StoppedIsFinished` | `[]StoppedMeansFinished` | no `stale`, no `lag` |
| `TestRunCloud!PLZRunOnce` | `[]AtMostOneCloudRun` | PLZ test runs |
| `TestRunCloud!OneCloudRun` | `[]AtMostOneCloudRun` | no `stale`, `crash`, `patch`, `lost` |
| `TestRunCloud!FinalizedEnded` | `[]FinalizedAtCloud` | |
| `PLZProofs!PLZTypeCorrect` | `[]TypeOK` | |
| `PLZProofs!PollingGuarded` | `[]PollingIsGuarded` | |
| `PLZProofs!PollingRegistered` | `[]PollingIsRegistered` | |
| `PLZProofs!ReconcilerContract` | `ReconcilerKeepsContract`: the refinement of `FactoryContract` | |
| `PLZFactoryProofs!FactoryTypeCorrect` | `[]TypeOK` | |
| `PLZFactoryProofs!ChannelIsSafe` | `[]ChannelSafe` | |
| `PLZFactoryProofs!ContractKept` | `FactoryKeepsContract`: the refinement of `FactoryContract` | |
| `PLZFactoryProofs!ExplicitFailure` | `[]FailsExplicitly` | no `lost`, no `crash`, not both `event` and `delete` |
| `InvocationProofs!SegmentsTileAll` | the segments tile the test, for every number of runners | |
| `InvocationProofs!RunnersTile` | `[]SegmentsTile` | |
| `InvocationProofs!ParseCLIGroups` | `[]ParsesGroups` | |
| `InvocationProofs!PLZRunsAccepted` | `[]PLZAccepted` | |
| `InvocationProofs!UserValuesReach` | `[]UserValuesIntact` | |
| `InvocationProofs!ReservedReach` | `[]ReservedValues` | |
| `InvocationProofs!TokenOnlyInLogs` | `[]TokenForLogs` | |
| `InvocationProofs!UserArgumentsReach` | `[]ArgumentsIntact` | |

The hypotheses are those of section 3: TLC has a counterexample when a fault is admitted, with one
exception. For `StoppedMeansFinished` TLC found none with `stale` (one runner, five faults, three
cloud test runs); the theorem says nothing about that case.

### The TestRun controller

None of the safety properties is inductive, because each speaks of the stored TestRun or the
cluster, while the next write is computed from other copies. A status write takes fields from
three copies (stored, cached, in memory), in any mixture and as old as any of them may be. So
the inductive invariants quantify over all copies that exist (`Copies`: stored, cached, every
version in `watch`; and `k6`).

*With all faults* (`TestRunSafety`):

- `AbortInv`: no copy says aborted unless there is a stopper (or the TestRun is gone).
- `SetupInv`: every copy of a PLZ test run has no conditions yet or is marked as PLZ,
  marked when it is past the first stage; what the starter has yet to resume, and what
  executes, has its setup data. The mark is what makes `StartJobs` run `setup()`.
- `LaunchInv`: no copy says created or started unless every runner has its service, and its
  job or there is a stopper. This is the step from `CreateJobs`, which stores the stage after
  its loop, to `StartJobs`, which never counts the services; `AbortInv` is what makes a killed
  job imply a stopper.
- `LifeInv`: a deleted TestRun stays deleted; a reconcile in progress has an object.

`PatchedHolds` and `PatchedStage` say where the fields of a patched TestRun come from,
`CopiesStep` that a step makes no new version but the patched one or none,
`WorkedCopy` and `CopyStep` what a step can do to the in-memory copy. With these each
preservation lemma (`LifeStep`, `AbortStep`, `SetupStep`, `LaunchStep`) only treats the
few actions that set the condition or the stage in question.

*The refinement of `SynchronizedStart`, with all faults but `lag`* (`TestRunOrder`). The release is
`StartJobs` making the starter: the probe covers the services that were listed, without `lag` these
are all there are, and by `LaunchInv` every runner has one. The other critical step is
`CreateJobs`: it must never launch runners after the starter. A stale reconcile may store a stage
over a later one, so "the stage does not go back" is not available. What holds is weaker and
enough: `OrderInv`, of two versions at or before the start the later one is at the same stage or
at the next; `ReachInv`, the reconcile's TestRun is behind every version or one stage ahead of it;
and hence `StartInv`, once the starter exists no copy anywhere is at a stage that launches runners.

*On an up-to-date cache* (`TestRunFresh`). The hypothesis is only that a reconcile does not *start*
on a stale copy: between the several writes of one reconcile the cache lags as it likes. `WatchInv`
says that the cache is the stored TestRun when nothing is on its way; `SingleInv` which writes can
meet a lagging cache (those after a reconcile's first one), `StageInv` that all copies are at
the stage the reconcile found until its last write. From these follows `StageMonotone`. `KnownStaysKnown` needs the transition times: a patch
replaces all conditions by ones merged from a lagging copy, and `Covers` says that what this copy
has missed the reconcile itself knows, with a newer time (`TimeInv`), so that `SetIfNewer` takes it.

`StoppedIsFinished`, also there, rests on `PlainInv` (what is not PLZ is never taken for it) and
`AbortSeen` (a reconcile knows the stored abort, or has set it itself), which exclude that "stopped,
not aborted" is composed of two copies.

*The number of cloud test runs* (`TestRunCloud`). For PLZ test runs `PLZCreated` gives one cloud
test run whatever fails: the marked copy has the condition `CloudTestRunCreated` from the
beginning. For the others `RunInv` says that, once there is a run, every copy a reconcile may read
says so (`Registered`), except at the write that stores it; each of the faults in the hypothesis
loses exactly that write or its effect on the next reconcile.

*The end of the cloud test run, with all faults* (`TestRunCloud`). When writes are lost there may be
several cloud test runs, and a reconcile that created one may hold its ID while another ID is
stored. `FinalizedEnded` says that the one that is finished is all the same the one the stored,
finalized TestRun names. The argument, for a TestRun with cloud output that is not PLZ:

1. `HistoryInv`, `BaseInv`: what a version has (a stage, an ID, the conditions of `Initialize`, the
   condition `CloudTestRunCreated`), the later ones have, although the stage may go back and an ID
   may be replaced; and a reconcile that has not written yet has nothing that the cache lacks.
2. `VersionInv`, `BeginInv`: no version is halfway. The ID comes with the condition, a stage past
   the initialization comes with the ID, and once the condition exists no reconcile is, or begins,
   at the first stage, where it would write the initial conditions over it.
3. `StopInv`: hence a TestRun is stopped only when the *cache* shows an ID, and from then on
   `SetIfNewer` accepts no other one: the stored ID is fixed, and a reconcile that comes to
   `Finalize` has it.
4. `FinalInv`: hence what `Finalize` ends at the cloud is the run of the stored ID, and it stays
   ended (`CloudInv`, `CloudMoves`).

Without cloud output nothing is ever finalized (`LocalInv`); the ID of a PLZ test run is in its spec
and comes with the mark (`PLZFinal`).

### PLZ controller and factory

`PLZInv` of the PLZ controller has three parts beside the types. `History`: the versions of the PLZ
in cache, watch and store are in order: resource versions and UIDs grow, a version being deleted is
followed only by such versions until it disappears. `Copy`: the reconcile's PLZ is one of these
versions, possibly edited. `Workers`: the property itself together with what `pc` implies about
the worker of this reconcile. With `History` a stale reconcile cannot start the factory of a PLZ
whose deletion was already handled.

For the factory, `ChannelSafe` is strengthened by "before the start there is no
poller": only the poller closes the channel, and only as its last step. The same invariant
(`FactoryInv`) carries the refinement: `ContractStep` maps every action to a step of the contract
or to none; the worker can be at its call only after the start, so that a context that is not done
is live. `ExplicitInv` adds that a TestRun without arguments is in the hands of `handle`, in its steps
after the creation (`Found`), and that TestRuns exist only for announced runs (`Known`).

### Command lines

The properties of section 3 speak of what k6 is started with, three recursive functions (`Expand`,
`EnvMap`, `ShellText`) and a fold (`FlattenSeq`) away from what the operator writes. Induction over
such data is done here without the library's induction theorems, whose operator parameter the
provers cannot instantiate: `LeastNat`, every non-empty set of natural numbers has a least member,
is derived from the well-foundedness of `<`, and a claim about all positions of a text is refuted at
the first (or last) position where it fails (`InductionUpTo`, `InductionDownFrom`). TLAPS also has to
be shown that a recursively defined function exists, since it is a `CHOOSE`: `FlattenFunction`,
`ExpandFunction`, `EnvFunction` and `ShellFunction` build it one position at a time, from the fact
that a step only looks at positions behind its own (`ExpandLooksAhead`, `ShellLooksAhead`).

The inductive invariants say how far the steps have come:

- `OriginInv`: the spec is what `complete` has made of the cloud's data (`SpecOf`), or a user's.
- `LoopInv`: `ParseCLI` stands between two groups (`Boundary`: no flag before takes the argument
  it is at), and has found in the arguments before it what `CLIOf` finds there. The
  boundary is what makes it inductive: in the middle of a group the next argument's flag would not be
  known. `GroupEnd` and `GroupBelongs` say that the group of `lastArgV` is the flag with all its
  values, `ParseCLIStep` that `CLIOf` grows by this group.
- `CommandsInv`: each container is what the builder makes of the spec and the result of `ParseCLI`,
  which do not change any more.
- `AgreeInv`: for a PLZ test run, the arguments selected for the archive set the same variables and
  tags as all arguments before the loop's position, in whatever environment they are expanded.

On these rest the theorems:

1. `ParseCLIGroups` is `LoopInv`. For `PLZRunsAccepted`, `PLZArgs` shows the arguments of a PLZ test run to
   be `WellFormed` (every value comes directly after its flag), part by part, and nothing in
   well-formed arguments is positional.
2. `UserValuesReach`, `ReservedReach`: `EscapedExpand`, the kubelet's expansion of an escaped text is the
   text, for every text and environment; so the pairs of a map deliver this map (`PairsDeliver`).
   `DeliversConcat` composes a command from its parts: later pairs win over earlier ones
   (`Over`), a flag never takes its value from the next part (`Closed`). What the
   runner's command sets is then computed part by part (`RunnerArgsDeliver`), and for the
   initializer with `AgreeInv` (`ArchiveArgsDeliver`).
3. `TokenOnlyInLogs`: an expanded text has the pieces of the text and of the environment only
   (`ExpandPieces`); the initializer's environment does not have the token, and a runner's
   arguments but for the log output are escaped or have no `$`, so that no reference is in them.
4. `UserArgumentsReach`: `Becomes` says what kubelet or shell make of each argument. Literal arguments stay
   as they are (`InertBecomes`); the initializer's references, `$(NAME)` or `${NAME}`, become the
   values of the environment (`EnvArgsBecome`), including a variable that is set twice or
   refers to an earlier one.
5. `RunnersTile`: `SequencePart` says that part `k + 1` of the common sequence is `k/total`, which makes gaps
   and overlaps impossible, `SegmentShare` does the arithmetic of the lengths, and by
   `CommandsInv` all runners have the segments of one parallelism.

### Only model-checked

The liveness properties `Terminates`, `LiveRunsEnd`, `Serves`, `Disappears`, `WindsDown` and
`Delivered` (of the factory): fairness and `ENABLED` are out of this prover's reach. Every
invariant, every action property and every refinement that a run checks has a theorem.

## 5. Not modelled

- Reasons and messages of conditions, logs, labels; images, volumes, resources, affinity, Istio
  and services of the jobs, which are copied from the spec.
- Quotes inside `.spec.arguments`: `strings.Fields` splits at every blank, the shell joins what
  was quoted, `ParseCLI` sees the pieces. Runners' block and blacklists, which are passed like the
  user agent but not escaped.
- The encoding of the aggregation config in the status, and the JSON of `k6 inspect`.
- Two PLZs of one name in two namespaces: the second one is registered again and again and not
  served; after a restart both use the worker of the one that is reconciled first, and the
  deletion of either stops it. No document excludes or promises anything here, and the
  cloud knows load zones by name only.
- What `teardown()` does; the cloud's own timeouts, except as `abort`.
- Manager, CRDs, charts: wiring.

## 6. Plan

Done, in this order: conditions and status; TestRun controller; its properties, runs and
first theorems; PLZ controller; factory and its theorems; the abstract specifications and their
refinements; command lines and segments; the theorems on the order of stages, on up-to-date
caches, on the test runs at the k6 Cloud and on the PLZ controller; the theorems on the command
lines. What could follow: two namespaces with a PLZ of one name; `StoppedMeansFinished` with stale
copies; quoting in `.spec.arguments`.
