-------------------------- MODULE PLZFactoryProofs --------------------------
(***************************************************************************)
(* Theorems on the factory of PLZ test runs, for any set of runs and any   *)
(* number of faults.                                                       *)
(***************************************************************************)
EXTENDS PLZFactory, TLAPS

(* A fault is counted, and not beyond the bound.                            *)
LEMMA FaultCounted ==
  ASSUME faults \in 0 .. MaxFaults, NEW f, Fault(f) \/ NoFault
  PROVE  faults' \in 0 .. MaxFaults
  BY FactoryAssumption DEF Fault, NoFault

(* Every step keeps the types: the poller sends only IDs it has listed, and *)
(* the worker handles only an ID it has received.                           *)
LEMMA TypeStep == TypeOK /\ [Next]_vars => TypeOK'
<1> SUFFICES ASSUME TypeOK, [Next]_vars PROVE TypeOK'
  OBVIOUS
<1> USE FactoryAssumption
<1>0. CASE UNCHANGED vars
  BY <1>0 DEF TypeOK, vars, goroutines, world
<1>1. CASE StartFactory \/ StopFactory
  BY <1>1 DEF TypeOK, StartFactory, StopFactory, goroutines, world, PollerState, WorkerState,
              Handling
<1>2. CASE OnDone \/ Tick \/ SendCancelled
  BY <1>2 DEF TypeOK, OnDone, Tick, SendCancelled, world, PollerState
<1>3. CASE OnInterval
  <2>1. faults' \in 0 .. MaxFaults
    BY <1>3, FaultCounted DEF TypeOK, OnInterval
  <2> QED
    BY <1>3, <2>1 DEF TypeOK, OnInterval, ListFailed, world, PollerState
<1>4. CASE Send
  BY <1>4 DEF TypeOK, Send, world, PollerState, WorkerState, Handling
<1>5. CASE ChannelClosed \/ HungCall \/ CallCreate
  BY <1>5 DEF TypeOK, ChannelClosed, HungCall, CallCreate, HandleReturns, HandleAt, world,
              WorkerState, Handling
<1>6. CASE Get \/ GetTestRunData
  <2>1. faults' \in 0 .. MaxFaults
    BY <1>6, FaultCounted DEF TypeOK, Get, GetTestRunData
  <2> QED
    BY <1>6, <2>1 DEF TypeOK, Get, GetTestRunData, HandleReturns, HandleAt, world,
                      WorkerState, Handling
<1>7. CASE Create
  BY <1>7 DEF TypeOK, Create, Stored, HandleReturns, HandleAt, Fault, NoFault,
              WorkerState, Handling, TestRunState
<1>8. CASE SendAbort \/ Delete
  <2>1. faults' \in 0 .. MaxFaults
    BY <1>8, FaultCounted DEF TypeOK, SendAbort, Delete
  <2> QED
    BY <1>8, <2>1 DEF TypeOK, SendAbort, Delete, HandleReturns, HandleAt,
                      WorkerState, Handling, TestRunState
<1>9. CASE CacheSync \/ Announce \/ RunEnds \/ CleanedUp
  BY <1>9 DEF TypeOK, CacheSync, Announce, RunEnds, CleanedUp, goroutines, TestRunState
<1>10. CASE Restart
  BY <1>10 DEF TypeOK, Restart, Fault, PollerState, WorkerState, Handling
<1> QED
  BY <1>0, <1>1, <1>2, <1>3, <1>4, <1>5, <1>6, <1>7, <1>8, <1>9, <1>10 DEF Next, Poller, Worker

(* The type invariant of the factory (poller, channel and handle).          *)
THEOREM FactoryTypeCorrect == Spec => []TypeOK
<1>1. Init => TypeOK
  BY FactoryAssumption DEF Init, TypeOK, PollerState, WorkerState, Handling, TestRunState
<1> QED
  BY <1>1, TypeStep, PTL DEF Spec

(* A factory that was not started has its channel open and no goroutines:   *)
(* what ChannelSafe needs to hold after Start.                              *)
NotStarted == ctx = "nil" => chan = "open" /\ poller = "none" /\ worker = "none"

FactoryInv == TypeOK /\ ChannelSafe /\ NotStarted

(* FactoryInv holds initially.                                              *)
LEMMA FactoryInit == Init => FactoryInv
  BY FactoryAssumption DEF Init, FactoryInv, TypeOK, ChannelSafe, NotStarted, PollerState,
     WorkerState, Handling, TestRunState

(* FactoryInv is inductive: only StartFactory leaves ctx = "nil".           *)
LEMMA FactoryStep == FactoryInv /\ [Next]_vars => FactoryInv'
<1> SUFFICES ASSUME FactoryInv, [Next]_vars PROVE FactoryInv'
  OBVIOUS
<1> USE DEF FactoryInv
<1>1. TypeOK'
  BY TypeStep
<1>2. CASE UNCHANGED vars
  BY <1>1, <1>2 DEF ChannelSafe, NotStarted, vars, goroutines
<1>3. CASE StartFactory \/ StopFactory \/ Restart
  BY <1>1, <1>3 DEF ChannelSafe, NotStarted, StartFactory, StopFactory, Restart, goroutines
<1>4. CASE Poller
  BY <1>1, <1>4 DEF ChannelSafe, NotStarted, Poller, OnDone, Tick, OnInterval, ListFailed,
                    Send, SendCancelled, TypeOK
<1>5. CASE Worker
  BY <1>1, <1>5 DEF ChannelSafe, NotStarted, Worker, ChannelClosed, Get, GetTestRunData,
                    CallCreate, Create, SendAbort, Delete, HungCall
<1>6. CASE CacheSync \/ Announce \/ RunEnds \/ CleanedUp
  BY <1>1, <1>6 DEF ChannelSafe, NotStarted, CacheSync, Announce, RunEnds, CleanedUp, goroutines
<1> QED
  BY <1>2, <1>3, <1>4, <1>5, <1>6 DEF Next

(* The poller's goroutine neither sends on the closed channel nor closes it *)
(* twice: Stop only cancels the context, OnDone closes and ends the loop.   *)
THEOREM ChannelIsSafe == Spec => []ChannelSafe
<1>1. FactoryInv => ChannelSafe
  BY DEF FactoryInv
<1> QED
  BY <1>1, FactoryInit, FactoryStep, PTL DEF Spec
-----------------------------------------------------------------------------
(* The refinement. The worker is in a call that creates a TestRun in these  *)
(* states.                                                                  *)
Creating == worker \in {"creating", "hung"}

(* Steps that neither start or stop the factory nor create a TestRun.       *)
LEMMA NothingMade ==
  ASSUME UNCHANGED <<ctx, trs>>, ~Creating, ~Creating'
  PROVE  UNCHANGED Contract!vars
  BY DEF Contract!vars, Creating

(* Every step of the factory is one of the contract, or invisible there.    *)
LEMMA ContractStep == FactoryInv /\ [Next]_vars => [Contract!Next]_Contract!vars
<1> SUFFICES ASSUME FactoryInv, [Next]_vars PROVE [Contract!Next]_Contract!vars
  OBVIOUS
<1> USE FactoryAssumption DEF FactoryInv
<1>1. CASE UNCHANGED vars
  BY <1>1 DEF vars, goroutines, world, Contract!vars
<1>2. CASE StartFactory
  <2>1. Contract!Start
    BY <1>2 DEF StartFactory, world, NotStarted, FactoryStateOf, Contract!Start
  <2> QED
    BY <2>1 DEF Contract!Next
<1>3. CASE StopFactory
  <2>1. Contract!Stop
    BY <1>3 DEF StopFactory, goroutines, world, FactoryStateOf, Contract!Stop
  <2> QED
    BY <2>1 DEF Contract!Next
<1>4. CASE Restart
  <2>1. Contract!Renew
    BY <1>4 DEF Restart, FactoryStateOf, NoRun, Contract!Renew
  <2> QED
    BY <2>1 DEF Contract!Next
<1>5. CASE OnDone \/ Tick \/ OnInterval \/ SendCancelled
  BY <1>5 DEF OnDone, Tick, OnInterval, SendCancelled, world, Contract!vars
<1>6. CASE Send \/ ChannelClosed \/ Get \/ GetTestRunData \/ SendAbort
  BY <1>6, NothingMade DEF Send, ChannelClosed, Get, GetTestRunData, SendAbort, HandleReturns,
     HandleAt, world, Creating
<1>7. CASE CallCreate
  <2>1. CASE ctx = "done"
    BY <1>7, <2>1, NothingMade DEF CallCreate, HandleReturns, world, Creating
  <2>2. CASE ctx # "done"
    <3>1. ctx = "live" /\ id \in Run
      BY <1>7, <2>2 DEF CallCreate, TypeOK, NotStarted, Handling
    <3>2. Contract!Begin
      BY <1>7, <2>2, <3>1 DEF CallCreate, HandleAt, world, FactoryStateOf, Contract!Begin
    <3> QED
      BY <3>2 DEF Contract!Next
  <2> QED
    BY <2>1, <2>2
<1>8. CASE Create \/ HungCall
  <2>1. id \in Run /\ id # 0
    BY <1>8 DEF Create, HungCall, TypeOK, Handling
  <2>2. CASE worker' = "hung"
    BY <1>8, <2>2 DEF Create, HungCall, HandleReturns, HandleAt, Contract!vars
  <2>3. CASE worker' # "hung"
    <3>1. ~Creating' /\ UNCHANGED ctx
      BY <1>8, <2>3 DEF Create, HungCall, HandleReturns, HandleAt, Creating
    <3>2. {r \in Run : trs'[r] # "none"} \in {{r \in Run : trs[r] # "none"},
                                            {r \in Run : trs[r] # "none"} \cup {id}}
      BY <1>8, <2>1 DEF Create, HungCall, Stored, world, TypeOK
    <3>3. Contract!End
      BY <1>8, <2>1, <3>1, <3>2 DEF Create, HungCall, Creating, NoRun, Contract!End
    <3> QED
      BY <3>3 DEF Contract!Next
  <2> QED
    BY <2>2, <2>3
<1>9. CASE Delete \/ CleanedUp
  <2>1. {r \in Run : trs'[r] # "none"} \subseteq {r \in Run : trs[r] # "none"}
    BY <1>9 DEF Delete, CleanedUp, TypeOK
  <2>2. Contract!Delete
    BY <1>9, <2>1 DEF Delete, CleanedUp, HandleReturns, goroutines, Contract!Delete
  <2> QED
    BY <2>2 DEF Contract!Next
<1>10. CASE CacheSync \/ Announce \/ RunEnds
  BY <1>10 DEF CacheSync, Announce, RunEnds, goroutines, Contract!vars
<1> QED
  BY <1>1, <1>2, <1>3, <1>4, <1>5, <1>6, <1>7, <1>8, <1>9, <1>10 DEF Next, Poller, Worker

(* The factory implements its contract with the reconciler, for any set of  *)
(* runs and any faults: nothing is begun after Stop (the context of handle).*)
THEOREM ContractKept == Spec => FactoryKeepsContract
<1>1. Init => Contract!Init
  BY DEF Init, FactoryStateOf, NoRun, Contract!Init
<1> QED
  BY <1>1, FactoryInit, FactoryStep, ContractStep, PTL DEF Spec, FactoryKeepsContract, Contract!Spec
-----------------------------------------------------------------------------
(* Without the faults under which handle cannot fail explicitly: it does    *)
(* not learn that it has created the TestRun ("lost"), it is stopped        *)
(* halfway, with the TestRun left to the next operator ("crash"), or it can *)
(* neither tell the cloud ("event") nor delete the TestRun.                 *)
Informed ==
  /\ "lost" \notin Faults /\ "crash" \notin Faults
  /\ "event" \notin Faults \/ "delete" \notin Faults

(* TestRuns are created only for runs that the cloud has announced.         *)
Known ==
  /\ pending \subseteq announced /\ id \in announced \cup {NoRun}
  /\ \A r \in Run : trs[r] # "none" => r \in announced

(* What FailsExplicitly needs: before Start there are no TestRuns, and one  *)
(* without arguments is found by handle in its steps after Create; when it  *)
(* comes to the deletion the run has ended, unless the event was not sent.  *)
Found ==
  /\ ctx = "nil" => \A r \in Run : trs[r] = "none"
  /\ \A r \in live :
       trs[r] = "noargs" /\ ctx = "live" => worker \in {"abort", "delete"} /\ id = r
  /\ worker = "delete" /\ "event" \notin Faults => id \notin live

(* The inductive invariant behind FailsExplicitly.                          *)
ExplicitInv == FactoryInv /\ Known /\ Found

(* Known is kept: IDs come from the cloud's list through the channel.       *)
LEMMA KnownStep == TypeOK /\ Known /\ [Next]_vars => Known'
<1> SUFFICES ASSUME TypeOK, Known, [Next]_vars PROVE Known'
  OBVIOUS
<1> USE DEF Known
<1>1. CASE UNCHANGED vars
  BY <1>1 DEF vars, goroutines, world
<1>2. CASE StartFactory \/ StopFactory \/ Restart
  BY <1>2 DEF StartFactory, StopFactory, Restart, goroutines, world, NoRun
<1>3. CASE Poller
  BY <1>3 DEF Poller, OnDone, Tick, OnInterval, ListFailed, Send, SendCancelled, TypeOK, world
<1>4. CASE ChannelClosed \/ Get \/ GetTestRunData \/ CallCreate \/ SendAbort \/ HungCall
  BY <1>4 DEF ChannelClosed, Get, GetTestRunData, CallCreate, SendAbort, HungCall, HandleReturns,
              HandleAt, world
<1>5. CASE Create
  <2>1. id \in Run /\ id # NoRun
    BY <1>5, FactoryAssumption DEF Create, TypeOK, Handling, NoRun
  <2>2. UNCHANGED <<pending, announced>> /\ id' \in {id, NoRun}
    BY <1>5 DEF Create, HandleReturns, HandleAt
  <2>3. \A r \in Run : trs'[r] # "none" => trs[r] # "none" \/ r = id
    BY <1>5 DEF Create, Stored, TypeOK
  <2> QED
    BY <2>1, <2>2, <2>3
<1>6. CASE Delete \/ CleanedUp
  <2>1. \A r \in Run : trs'[r] # "none" => trs[r] # "none"
    BY <1>6 DEF Delete, CleanedUp, TypeOK
  <2> QED
    BY <1>6, <2>1 DEF Delete, CleanedUp, HandleReturns, goroutines
<1>7. CASE CacheSync \/ Announce \/ RunEnds
  BY <1>7 DEF CacheSync, Announce, RunEnds, goroutines
<1> QED
  BY <1>1, <1>2, <1>3, <1>4, <1>5, <1>6, <1>7 DEF Next, Worker

(* Found is kept: a TestRun without arguments is left by handle only when   *)
(* it is deleted, its run has ended, or the factory has been stopped.       *)
LEMMA FoundStep ==
  ASSUME Informed, FactoryInv, Known, Found, [Next]_vars
  PROVE  Found'
<1> USE DEF FactoryInv, Found
<1>1. CASE UNCHANGED vars
  BY <1>1 DEF vars, goroutines, world
<1>2. CASE StartFactory \/ StopFactory
  BY <1>2 DEF StartFactory, StopFactory, goroutines, world, TypeOK
<1>3. CASE Restart
  BY <1>3 DEF Restart, Fault, Informed
<1>4. CASE OnDone \/ Tick \/ OnInterval \/ SendCancelled
  BY <1>4 DEF OnDone, Tick, OnInterval, SendCancelled, world
<1>5. CASE Send \/ ChannelClosed \/ Get \/ GetTestRunData \/ CallCreate \/ HungCall
  <2>1. worker \notin {"abort", "delete"} /\ worker' # "delete" /\ UNCHANGED <<ctx, trs, live>>
    BY <1>5 DEF Send, ChannelClosed, Get, GetTestRunData, CallCreate, HungCall, HandleReturns,
                HandleAt, world
  <2> QED
    BY <2>1
<1>6. CASE Create
  <2>1. /\ id \in Run /\ worker = "creating" /\ worker' # "delete"
        /\ ctx # "nil" /\ UNCHANGED <<ctx, live>>
    BY <1>6 DEF Create, TypeOK, Handling, NotStarted, HandleReturns, HandleAt
  <2>2. \/ UNCHANGED trs
        \/ /\ trs' = [trs EXCEPT ![id] = "noargs"]
           /\ worker' = "abort" /\ id' = id
        \/ trs' = [trs EXCEPT ![id] = "ok"]
    BY <1>6 DEF Create, Stored, Fault, Informed, HandleAt
  <2> QED
    BY <2>1, <2>2 DEF TypeOK
<1>7. CASE SendAbort
  BY <1>7 DEF SendAbort, HandleAt, Fault
<1>8. CASE Delete
  <2>1. /\ id \in Run /\ worker = "delete" /\ worker' = "recv"
        /\ ctx # "nil" /\ UNCHANGED <<ctx, live>>
    BY <1>8 DEF Delete, TypeOK, Handling, NotStarted, HandleReturns
  <2>2. \/ trs' = [trs EXCEPT ![id] = "none"]
        \/ ctx # "live" /\ UNCHANGED trs
        \/ id \notin live /\ UNCHANGED trs
    BY <1>8, <2>1 DEF Delete, Fault, Informed
  <2> QED
    BY <2>1, <2>2 DEF TypeOK
<1>9. CASE CleanedUp
  BY <1>9 DEF CleanedUp, goroutines, TypeOK
<1>10. CASE Announce
  <2>1. worker = "delete" => id \in announced
    BY FactoryAssumption DEF Known, TypeOK, Handling, NoRun
  <2> QED
    BY <1>10, <2>1 DEF Announce, Known, goroutines, TypeOK
<1>11. CASE CacheSync \/ RunEnds
  BY <1>11 DEF CacheSync, RunEnds, goroutines
<1> QED
  BY <1>1, <1>2, <1>3, <1>4, <1>5, <1>6, <1>7, <1>8, <1>9, <1>10, <1>11
     DEF Next, Poller, Worker

(* On an outdated CRD no run is left to a TestRun without arguments while   *)
(* the factory runs, whatever fails, short of the faults in Informed.       *)
THEOREM ExplicitFailure ==
  ASSUME Informed
  PROVE  Spec => []FailsExplicitly
<1>1. Init => ExplicitInv
  BY FactoryInit DEF Init, ExplicitInv, Known, Found
<1>2. ExplicitInv /\ [Next]_vars => ExplicitInv'
  BY FactoryStep, KnownStep, FoundStep DEF ExplicitInv, FactoryInv
<1>3. ExplicitInv => FailsExplicitly
  BY DEF ExplicitInv, Found, FailsExplicitly, Handling
<1> QED
  BY <1>1, <1>2, <1>3, PTL DEF Spec
=============================================================================
