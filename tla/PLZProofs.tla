------------------------------ MODULE PLZProofs ------------------------------
(***************************************************************************)
(* Theorems on the PLZ controller, for any number of PLZs of one name and  *)
(* any faults: a stale cache, a crash between any two steps, failed calls, *)
(* edits and deletions by users.                                           *)
(***************************************************************************)
EXTENDS PLZProperties, TLAPS

(* A fault is counted, and not beyond the bound.                            *)
LEMMA FaultCounted ==
  ASSUME faults \in 0 .. MaxFaults, NEW f, Fault(f) \/ NoFault
  PROVE  faults' \in 0 .. MaxFaults
  BY PLZAssumption DEF Fault, NoFault

(* The lists of conditions the reconciler writes down.                      *)
LEMMA ConditionTypes ==
  /\ NoConditions \in [CondType -> Condition]
  /\ Initialize \in [CondType -> Condition]
  /\ \A conds \in [CondType -> Condition], status \in Status :
       UpdateExisting(conds, status) \in [CondType -> Condition]
  /\ \A conds, proposed \in [CondType -> Condition] :
       MergedConditions(conds, proposed) \in [CondType -> Condition]
  BY DEF NoConditions, NoCondition, Initialize, UpdateExisting, UpdateCondition,
     SetStatusCondition, MergedConditions, CondType, Condition, Status, Now

(* A PLZ that does not exist is of the type of PLZs.                        *)
LEMMA AbsentType == Absent \in PLZ
  BY ConditionTypes, PLZAssumption DEF Absent, PLZ

(* The next version of a PLZ is a PLZ.                                      *)
LEMMA BumpedType == \A obj \in PLZ : [obj EXCEPT !.rv = @ + 1] \in PLZ
  BY DEF PLZ

(* What the reconciler and the users make of a PLZ is a PLZ.                *)
LEMMA PLZTypes ==
  ASSUME NEW obj \in PLZ
  PROVE  /\ [obj EXCEPT !.rv = @ + 1] \in PLZ
         /\ [obj EXCEPT !.finalizer = TRUE, !.rv = @ + 1] \in PLZ
         /\ [obj EXCEPT !.deleting = TRUE, !.rv = @ + 1] \in PLZ
         /\ \A conds \in [CondType -> Condition] :
              /\ [obj EXCEPT !.conds = conds] \in PLZ
              /\ [obj EXCEPT !.conds = conds, !.rv = @ + 1] \in PLZ
<1>1. ASSUME NEW part \in PLZ, NEW new,
             \/ part = [obj EXCEPT !.finalizer = TRUE]
                /\ new = [obj EXCEPT !.finalizer = TRUE, !.rv = @ + 1]
             \/ part = [obj EXCEPT !.deleting = TRUE]
                /\ new = [obj EXCEPT !.deleting = TRUE, !.rv = @ + 1]
             \/ \E conds \in [CondType -> Condition] :
                  /\ part = [obj EXCEPT !.conds = conds]
                  /\ new = [obj EXCEPT !.conds = conds, !.rv = @ + 1]
      PROVE  new \in PLZ
  <2>1. new = [part EXCEPT !.rv = @ + 1]
    BY <1>1 DEF PLZ
  <2> QED
    BY <2>1, BumpedType
<1>2. [obj EXCEPT !.finalizer = TRUE] \in PLZ /\ [obj EXCEPT !.deleting = TRUE] \in PLZ
  BY DEF PLZ
<1>3. \A conds \in [CondType -> Condition] : [obj EXCEPT !.conds = conds] \in PLZ
  BY DEF PLZ
<1> QED
  BY <1>1, <1>2, <1>3, BumpedType

(* So is one that was just created.                                         *)
LEMMA NewPLZType == \A uid \in 0 .. MaxPLZs : NewPLZ(uid) \in PLZ
  BY AbsentType DEF NewPLZ, PLZ

(* The factory of a worker changes, the worker stays one.                   *)
LEMMA WorkerTypes ==
  /\ NoWorker \in Worker
  /\ \A w \in Worker, state \in FactoryState :
       w.uid # 0 => [w EXCEPT !.factory = state] \in Worker
  /\ \A uid \in 0 .. MaxPLZs : [uid |-> uid, factory |-> "new"] \in Worker
  BY PLZAssumption DEF Worker, NoWorker, FactoryState

(* A write keeps the types of the store.                                    *)
LEMMA WriteTypes ==
  ASSUME api \in PLZ, cache \in PLZ, watch \in Seq(PLZ), created \in 0 .. MaxPLZs,
         NEW obj \in PLZ, Write(obj)
  PROVE  api' \in PLZ /\ cache' \in PLZ /\ watch' \in Seq(PLZ) /\ created' \in 0 .. MaxPLZs
  BY DEF Write

(* Every step keeps the types.                                              *)
LEMMA TypeStep == TypeOK /\ [Next]_vars => TypeOK'
<1> SUFFICES ASSUME TypeOK, [Next]_vars PROVE TypeOK'
  OBVIOUS
<1> USE PLZAssumption DEF TypeOK
<1>a. plz.conds \in [CondType -> Condition] /\ cache.conds \in [CondType -> Condition]
      /\ plz.uid \in 0 .. MaxPLZs
  BY DEF PLZ
<1>0. CASE UNCHANGED vars
  BY <1>0 DEF vars, store, reconcile
<1>1. CASE Reconcile
  <2>1. faults' \in 0 .. MaxFaults
    BY <1>1, FaultCounted DEF Reconcile
  <2> QED
    BY <1>1, <2>1 DEF Reconcile, store, Label
<1>2. CASE Look
  <2>1. [plz EXCEPT !.conds = UpdateExisting(Initialize, "True")] \in PLZ
    BY PLZTypes, ConditionTypes DEF Status
  <2> QED
    BY <1>2, <2>1 DEF Look, Goto, store, Label
<1>3. CASE Register
  <2>1. faults' \in 0 .. MaxFaults
    BY <1>3, FaultCounted DEF Register, NoToken
  <2>2. [plz EXCEPT !.conds = UpdateExisting(@, "False")] \in PLZ
    BY <1>a, PLZTypes, ConditionTypes DEF Status
  <2>3. queued' \in BOOLEAN /\ pc' \in Label /\ plz' \in PLZ
    BY <1>3, <2>2, AbsentType DEF Register, NoToken, AddWorker, Return, Goto, Label
  <2>4. worker' \in Worker
    <3>1. CASE UNCHANGED worker
      BY <3>1
    <3>2. CASE ~UNCHANGED worker
      <4>1. worker' = [uid |-> plz.uid, factory |-> "new"]
        BY <1>3, <3>2 DEF Register, AddWorker
      <4> QED
        BY <1>a, <4>1, WorkerTypes
    <3> QED
      BY <3>1, <3>2
  <2> QED
    BY <1>3, <2>1, <2>3, <2>4 DEF Register, store
<1>4. CASE AddFinalizer
  <2>1. faults' \in 0 .. MaxFaults
    BY <1>4, FaultCounted DEF AddFinalizer, UpdateOK, UpdateError
  <2>2. [api EXCEPT !.finalizer = TRUE, !.rv = @ + 1] \in PLZ
    BY PLZTypes
  <2>3. api' \in PLZ /\ cache' \in PLZ /\ watch' \in Seq(PLZ) /\ created' \in 0 .. MaxPLZs
    BY <1>4, <2>2, WriteTypes DEF AddFinalizer, UpdateOK, UpdateError, store
  <2> QED
    BY <1>4, <2>1, <2>3, AbsentType DEF AddFinalizer, Return, Label
<1>5. CASE UpdateRegistered
  <2>1. faults' \in 0 .. MaxFaults
    BY <1>5, FaultCounted DEF UpdateRegistered
  <2>2. [api EXCEPT !.conds = MergedConditions(cache.conds, plz.conds), !.rv = @ + 1] \in PLZ
    BY <1>a, PLZTypes, ConditionTypes
  <2>3. api' \in PLZ /\ cache' \in PLZ /\ watch' \in Seq(PLZ) /\ created' \in 0 .. MaxPLZs
    BY <1>5, <2>2, WriteTypes DEF UpdateRegistered, store
  <2>4. queued' \in BOOLEAN /\ pc' \in Label /\ plz' \in PLZ
    BY <1>5, <2>3, AbsentType DEF UpdateRegistered, Return, Goto, Label
  <2> QED
    BY <1>5, <2>1, <2>3, <2>4 DEF UpdateRegistered
<1>6. CASE Registered
  <2>1. faults' \in 0 .. MaxFaults
    BY <1>6, FaultCounted DEF Registered, NoToken
  <2>2. queued' \in BOOLEAN /\ pc' \in Label /\ plz' \in PLZ
    BY <1>6, AbsentType DEF Registered, NoToken, AddWorker, Return, Label
  <2>3. worker' \in Worker
    <3>1. CASE UNCHANGED worker
      BY <3>1
    <3>2. CASE HasWorker /\ StartFactory
      BY <3>2, WorkerTypes DEF StartFactory, HasWorker, FactoryState
    <3>3. CASE ~HasWorker /\ worker' = [uid |-> plz.uid, factory |-> "new"]
      BY <1>a, <3>3, WorkerTypes
    <3> QED
      BY <1>6, <3>1, <3>2, <3>3 DEF Registered, AddWorker
  <2> QED
    BY <1>6, <2>1, <2>2, <2>3 DEF Registered, store
<1>7. CASE Deregister
  <2>1. faults' \in 0 .. MaxFaults
    BY <1>7, FaultCounted DEF Deregister
  <2>2. worker' \in Worker
    BY <1>7, WorkerTypes DEF Deregister, StopFactory, Worker, NoWorker, FactoryState
  <2> QED
    BY <1>7, <2>1, <2>2 DEF Deregister, Goto, store, Label
<1>8. CASE RemoveFinalizer
  <2>1. faults' \in 0 .. MaxFaults
    BY <1>8, FaultCounted DEF RemoveFinalizer, UpdateOK, UpdateError
  <2>2. api' \in PLZ /\ cache' \in PLZ /\ watch' \in Seq(PLZ) /\ created' \in 0 .. MaxPLZs
    BY <1>8, AbsentType, WriteTypes DEF RemoveFinalizer, UpdateOK, UpdateError, store
  <2>3. worker' \in Worker
    BY <1>8, WorkerTypes DEF RemoveFinalizer, DeleteWorker
  <2> QED
    BY <1>8, <2>1, <2>2, <2>3, AbsentType DEF RemoveFinalizer, Return, Label
<1>9. CASE CacheSync
  <2>1. Head(watch) \in PLZ /\ Tail(watch) \in Seq(PLZ)
    BY <1>9 DEF CacheSync
  <2> QED
    BY <1>9, <2>1 DEF CacheSync
<1>10. CASE Restart
  BY <1>10, FaultCounted, AbsentType, WorkerTypes DEF Restart, Label
<1>11. CASE Resync
  BY <1>11 DEF Resync, store
<1>12. CASE UserCreates
  <2>1. NewPLZ(created + 1) \in PLZ
    BY <1>12, NewPLZType DEF UserCreates
  <2> QED
    BY <1>12, <2>1 DEF UserCreates, reconcile
<1>13. CASE UserEdits
  <2>1. [api EXCEPT !.rv = @ + 1] \in PLZ
    BY PLZTypes
  <2>2. api' \in PLZ /\ cache' \in PLZ /\ watch' \in Seq(PLZ) /\ created' \in 0 .. MaxPLZs
    BY <1>13, <2>1, WriteTypes DEF UserEdits
  <2> QED
    BY <1>13, <2>2, FaultCounted DEF UserEdits, reconcile
<1>14. CASE UserDeletes
  <2>1. [api EXCEPT !.deleting = TRUE, !.rv = @ + 1] \in PLZ
    BY PLZTypes
  <2>2. api' \in PLZ /\ cache' \in PLZ /\ watch' \in Seq(PLZ) /\ created' \in 0 .. MaxPLZs
    BY <1>14, <2>1, WriteTypes, AbsentType DEF UserDeletes
  <2> QED
    BY <1>14, <2>2 DEF UserDeletes, reconcile
<1> QED
  BY <1>0, <1>1, <1>2, <1>3, <1>4, <1>5, <1>6, <1>7, <1>8, <1>9, <1>10, <1>11, <1>12, <1>13,
     <1>14 DEF Next, Operator

(* The type invariant of the PLZ controller.                                *)
THEOREM PLZTypeCorrect == Spec => []TypeOK
<1>1. Init => TypeOK
  <2>1. <<>> \in Seq(PLZ) /\ 0 \in 0 .. MaxPLZs /\ 0 \in 0 .. MaxFaults
    BY PLZAssumption
  <2> QED
    BY <2>1, AbsentType, WorkerTypes DEF Init, TypeOK, Label
<1> QED
  BY <1>1, TypeStep, PTL DEF Spec
-----------------------------------------------------------------------------
(***************************************************************************)
(* The inductive invariant. The versions of the PLZ that the operator has  *)
(* or will see: the one in the cache, those on their way, and api, which   *)
(* is the last of them.                                                    *)
(***************************************************************************)
last == Len(watch)

versions == [i \in 0 .. last |-> IF i = 0 THEN cache ELSE watch[i]]

Active == pc # "idle"

(* A PLZ is marked as deleted, or stored as registered, only with the       *)
(* finalizer.                                                               *)
Sound(obj) ==
  /\ obj.deleting => obj.finalizer
  /\ IsRegistered(obj) => obj.finalizer
  /\ obj.finalizer => Exists(obj)

(* Only this reconciler removes the finalizer, and only once it has seen    *)
(* the deletion: who sees a finalizer and no deletion sees the present PLZ. *)
Present(obj) == obj.finalizer /\ ~obj.deleting => api.uid = obj.uid /\ api.finalizer

(* Of one PLZ, api is the newest version; a PLZ created anew has a uid of   *)
(* its own.                                                                 *)
Older(obj) ==
  /\ obj.uid <= created
  /\ Exists(api) /\ obj.uid = api.uid => obj.rv < api.rv

(* The finalizer is added once the cache has caught up: from then on there  *)
(* is no version of an earlier PLZ, and a deletion is in every later one.   *)
OnePLZ ==
  api.finalizer =>
    /\ \A i \in 0 .. last : versions[i].uid = api.uid
    /\ \A i, j \in 0 .. last : i <= j /\ versions[i].deleting => versions[j].deleting

(* The order of the versions that the operator has yet to see.              *)
History ==
  /\ versions[last] = api /\ api.uid <= created
  /\ \A i \in 0 .. last : Sound(versions[i]) /\ Present(versions[i])
  /\ \A i \in 0 .. last : i # last => Older(versions[i])
  /\ OnePLZ

(* The copy a reconcile works on: Update is accepted only when the copy and *)
(* the cache are the newest version; what was seen of a PLZ with the        *)
(* finalizer is true of the cache as well (until UpdateStatus has returned  *)
(* what is stored, before "Registered").                                    *)
Copy ==
  /\ Active <=> Exists(plz)
  /\ plz.uid <= created
  /\ Exists(api) /\ plz.uid = api.uid => plz.rv <= api.rv
  /\ pc \notin {"idle", "Registered"} /\ Current => last = 0
  /\ pc # "U_registered" => Sound(plz)
  /\ Present(plz)
  /\ api.finalizer /\ Active => plz.uid = api.uid
  /\ api.finalizer /\ Active /\ pc # "Registered" /\ plz.deleting => cache.deleting

(* What has been established where the reconcile is.                        *)
AtLabel ==
  /\ pc = "Register" => ~plz.finalizer
  /\ pc = "AddFinalizer" => worker.uid = plz.uid /\ zone
  /\ pc = "U_registered" => plz.finalizer /\ ~plz.deleting
  /\ pc = "Registered" /\ HasWorker /\ IsRegistered(plz) => api.finalizer
  /\ pc \in {"Deregister", "RemoveFinalizer"} => plz.deleting /\ HasWorker

(* The worker beside a PLZ with the finalizer was made for that PLZ.        *)
WorkerMatches == HasWorker /\ api.finalizer => worker.uid = api.uid

(* The operator has seen the deletion: no reconcile gets to StartFactory.   *)
Stopping ==
  /\ cache.deleting
  /\ Active => /\ plz.deleting
               /\ \/ pc \in {"Look", "Deregister", "RemoveFinalizer"}
                  \/ pc = "Registered" /\ ~HasWorker

(* Once deregistered or stopped, a PLZ with the finalizer is about to go.   *)
WoundUp ==
  /\ api.finalizer /\ ~zone => Stopping
  /\ worker.factory = "stopped" => api.finalizer /\ Stopping

(* The worker, its factory and the zone, as far as the reconcile relies on. *)
Workers == AtLabel /\ WorkerMatches /\ WoundUp /\ PollingIsGuarded /\ PollingIsRegistered

(* The inductive invariant of the PLZ controller.                           *)
PLZInv == TypeOK /\ History /\ Copy /\ Workers
-----------------------------------------------------------------------------
(* How the versions change with the store.                                  *)
LEMMA VersionsKept ==
  ASSUME UNCHANGED store
  PROVE  last' = last /\ versions' = versions
  BY DEF store, last, versions

(* A write is the last of the versions.                                     *)
LEMMA VersionsWritten ==
  ASSUME TypeOK, NEW obj \in PLZ, UNCHANGED cache, watch' = Append(watch, obj)
  PROVE  /\ last \in Nat /\ last' = last + 1
         /\ \A i \in 0 .. last : versions'[i] = versions[i]
         /\ versions'[last + 1] = obj
<1>1. last \in Nat /\ last' = last + 1
  BY DEF TypeOK, last
<1>2. \A i \in 1 .. last : watch'[i] = watch[i]
  BY DEF TypeOK, last
<1>3. watch'[last + 1] = obj
  BY DEF TypeOK, last
<1> QED
  BY <1>1, <1>2, <1>3 DEF versions

(* The cache drops its oldest version.                                      *)
LEMMA VersionsSynced ==
  ASSUME TypeOK, CacheSync
  PROVE  /\ last \in Nat \ {0} /\ last' = last - 1
         /\ \A i \in 0 .. last' : versions'[i] = versions[i + 1]
<1>1. last \in Nat \ {0} /\ last' = last - 1
  BY DEF TypeOK, CacheSync, last
<1>2. \A i \in 1 .. last' : watch'[i] = watch[i + 1]
  BY DEF TypeOK, CacheSync, last
<1>3. cache' = watch[1]
  BY DEF TypeOK, CacheSync
<1> QED
  BY <1>1, <1>2, <1>3 DEF versions

(* After a restart the cache is filled with what is stored.                 *)
LEMMA VersionsRelisted ==
  ASSUME Restart
  PROVE  last' = 0 /\ versions'[0] = api
  BY DEF Restart, last, versions

(* The first version is the one in the cache.                               *)
LEMMA FirstVersion ==
  ASSUME TypeOK
  PROVE  last \in Nat /\ versions[0] = cache
  BY DEF TypeOK, last, versions

(* A write that makes the next version of the PLZ: nothing is taken back,   *)
(* and the finalizer is added only when the operator has seen everything.   *)
Grown(obj) ==
  /\ Exists(api) /\ Write(obj)
  /\ obj \in PLZ /\ obj.uid = api.uid /\ obj.rv = api.rv + 1
  /\ api.finalizer => obj.finalizer
  /\ api.deleting => obj.deleting
  /\ obj.finalizer => api.finalizer \/ last = 0
  /\ Sound(obj)

(* The PLZ disappears: without the finalizer as soon as it is deleted,      *)
(* otherwise with a reconcile that has seen everything.                     *)
Vanished ==
  /\ Exists(api) /\ Write(Absent)
  /\ api.finalizer => last = 0 /\ api.deleting

(* The writes of the reconciler.                                            *)
LEMMA FinalizerGrown ==
  ASSUME PLZInv, AddFinalizer, ~UNCHANGED store
  PROVE  Current /\ \E obj \in PLZ : Grown(obj) /\ obj.finalizer
<1> DEFINE obj == [api EXCEPT !.finalizer = TRUE, !.rv = @ + 1]
<1>1. Current /\ Write(obj) /\ pc = "AddFinalizer"
  BY DEF AddFinalizer, UpdateOK, UpdateError
<1>2. obj \in PLZ
  BY PLZTypes DEF PLZInv, TypeOK
<1>3. /\ obj.uid = api.uid /\ obj.rv = api.rv + 1 /\ obj.finalizer
      /\ obj.deleting = api.deleting
  BY DEF PLZInv, TypeOK, PLZ
<1>4. last = 0
  BY <1>1 DEF PLZInv, Copy
<1> HIDE DEF obj
<1>5. Grown(obj)
  BY <1>1, <1>2, <1>3, <1>4 DEF Grown, Sound, Current, Exists
<1> QED
  BY <1>1, <1>2, <1>3, <1>5

(* UpdateStatus keeps everything but the conditions of the stored PLZ.      *)
LEMMA StatusGrown ==
  ASSUME PLZInv, UpdateRegistered, ~UNCHANGED store
  PROVE  \E obj \in PLZ : Grown(obj) /\ Goto("Registered", obj) /\ api.finalizer
<1> DEFINE obj == [api EXCEPT !.conds = MergedConditions(cache.conds, plz.conds), !.rv = @ + 1]
<1>1. Exists(api) /\ Write(obj) /\ pc = "U_registered" /\ Goto("Registered", api')
  BY DEF UpdateRegistered
<1>2. obj \in PLZ
  <2>1. plz.conds \in [CondType -> Condition] /\ cache.conds \in [CondType -> Condition]
    BY DEF PLZInv, TypeOK, PLZ
  <2> QED
    BY <2>1, PLZTypes, ConditionTypes DEF PLZInv, TypeOK
<1>3. /\ obj.uid = api.uid /\ obj.rv = api.rv + 1
      /\ obj.finalizer = api.finalizer /\ obj.deleting = api.deleting
  BY DEF PLZInv, TypeOK, PLZ
<1>4. api.finalizer
  BY <1>1 DEF PLZInv, Copy, Present, Workers, AtLabel
<1> HIDE DEF obj
<1>5. Grown(obj)
  BY <1>1, <1>2, <1>3, <1>4 DEF Grown, Sound, Exists
<1> QED
  BY <1>1, <1>2, <1>4, <1>5 DEF Goto, Write

(* The writes of the users.                                                 *)
LEMMA UserGrown ==
  ASSUME PLZInv, UserEdits \/ (UserDeletes /\ api.finalizer)
  PROVE  \E obj \in PLZ : Grown(obj) /\ obj.finalizer = api.finalizer
<1>0. api = versions[last] /\ Sound(api)
  BY FirstVersion DEF PLZInv, History
<1>1. CASE UserEdits
  <2> DEFINE obj == [api EXCEPT !.rv = @ + 1]
  <2>1. obj \in PLZ
    BY PLZTypes DEF PLZInv, TypeOK
  <2>2. /\ obj.uid = api.uid /\ obj.rv = api.rv + 1 /\ obj.conds = api.conds
        /\ obj.finalizer = api.finalizer /\ obj.deleting = api.deleting
    BY DEF PLZInv, TypeOK, PLZ
  <2>3. Exists(api) /\ Write(obj)
    BY <1>1 DEF UserEdits
  <2> HIDE DEF obj
  <2>4. Grown(obj)
    BY <1>0, <2>1, <2>2, <2>3 DEF Grown, Sound, Exists, IsRegistered
  <2> QED
    BY <2>1, <2>2, <2>4
<1>2. CASE UserDeletes /\ api.finalizer
  <2> DEFINE obj == [api EXCEPT !.deleting = TRUE, !.rv = @ + 1]
  <2>1. obj \in PLZ
    BY PLZTypes DEF PLZInv, TypeOK
  <2>2. /\ obj.uid = api.uid /\ obj.rv = api.rv + 1
        /\ obj.finalizer = api.finalizer /\ obj.deleting
    BY DEF PLZInv, TypeOK, PLZ
  <2>3. Exists(api) /\ Write(obj)
    BY <1>2 DEF UserDeletes
  <2> HIDE DEF obj
  <2>4. Grown(obj)
    BY <1>2, <2>1, <2>2, <2>3 DEF Grown, Sound, Exists
  <2> QED
    BY <2>1, <2>2, <2>4
<1> QED
  BY <1>1, <1>2

(* The removals.                                                            *)
LEMMA RemovalVanished ==
  ASSUME PLZInv,
         \/ RemoveFinalizer /\ ~UNCHANGED store
         \/ UserDeletes /\ ~api.finalizer
  PROVE  Vanished
<1>1. CASE RemoveFinalizer /\ ~UNCHANGED store
  <2>1. Current /\ Write(Absent) /\ pc = "RemoveFinalizer"
    BY <1>1 DEF RemoveFinalizer, UpdateOK, UpdateError
  <2>2. last = 0 /\ cache = api
    BY <2>1, FirstVersion DEF PLZInv, Copy, History
  <2>3. api.finalizer => api.deleting
    BY <2>1, <2>2 DEF PLZInv, Copy, Workers, AtLabel, Active
  <2> QED
    BY <2>1, <2>2, <2>3 DEF Vanished, Current
<1>2. CASE UserDeletes /\ ~api.finalizer
  BY <1>2 DEF UserDeletes, Vanished
<1> QED
  BY <1>1, <1>2

(* Every step, as the store sees it.                                        *)
LEMMA StoreStep ==
  ASSUME PLZInv, [Next]_vars
  PROVE  \/ UNCHANGED store
         \/ \E obj \in PLZ : Grown(obj)
         \/ Vanished
         \/ UserCreates \/ CacheSync \/ Restart
<1>1. CASE Reconcile \/ Look \/ Register \/ Registered \/ Deregister \/ Resync \/ UNCHANGED vars
  BY <1>1 DEF Reconcile, Look, Register, Registered, Deregister, Resync, vars
<1>2. CASE AddFinalizer
  BY <1>2, FinalizerGrown
<1>3. CASE UpdateRegistered
  BY <1>3, StatusGrown
<1>5. CASE UserEdits
  BY <1>5, UserGrown
<1>6. CASE UserDeletes
  <2>1. CASE api.finalizer
    BY <1>6, <2>1, UserGrown
  <2>2. CASE ~api.finalizer
    BY <1>6, <2>2, RemovalVanished
  <2> QED
    BY <2>1, <2>2
<1>4. CASE RemoveFinalizer
  <2>1. CASE ~UNCHANGED store
    BY <1>4, <2>1, RemovalVanished
  <2> QED
    BY <2>1
<1>7. CASE UserCreates \/ CacheSync \/ Restart
  BY <1>7
<1> QED
  BY <1>1, <1>2, <1>3, <1>4, <1>5, <1>6, <1>7 DEF Next, Operator

(* The history of versions stays as described.                              *)
LEMMA HistoryStep == PLZInv /\ [Next]_vars => History'
<1> SUFFICES ASSUME PLZInv, [Next]_vars PROVE History'
  OBVIOUS
<1>0. /\ last \in Nat /\ versions[last] = api /\ versions[0] = cache
      /\ api \in PLZ /\ created \in Nat /\ api.uid \in Nat /\ api.rv \in Nat
  BY FirstVersion DEF PLZInv, History, TypeOK, PLZ
<1>a. \A i \in 0 .. last : versions[i] \in PLZ
  BY DEF PLZInv, TypeOK, versions, last
<1>1. CASE UNCHANGED store
  <2>1. last' = last /\ versions' = versions /\ api' = api /\ created' = created
    BY <1>1, VersionsKept DEF store
  <2> QED
    BY <2>1 DEF PLZInv, History, Present, Older, OnePLZ
<1>2. ASSUME NEW obj \in PLZ, Grown(obj) PROVE History'
  <2>1. /\ last' = last + 1 /\ \A i \in 0 .. last : versions'[i] = versions[i]
        /\ versions'[last + 1] = obj
    BY <1>2, VersionsWritten DEF PLZInv, Grown, Write
  <2>2. api' = obj /\ created' = created /\ obj.uid = api.uid /\ obj.rv = api.rv + 1
    BY <1>2 DEF Grown, Write
  <2>3. versions'[last'] = api' /\ api'.uid <= created'
    BY <1>0, <2>1, <2>2 DEF PLZInv, History
  <2>4. \A i \in 0 .. last' : Sound(versions'[i]) /\ Present(versions[i])'
    <3>1. Sound(obj) /\ \A i \in 0 .. last : Sound(versions[i])
      BY <1>2 DEF PLZInv, History, Grown
    <3>2. obj.finalizer /\ ~obj.deleting => api'.uid = obj.uid /\ api'.finalizer
      BY <2>2
    <3>3. \A i \in 0 .. last : versions[i].finalizer /\ ~versions[i].deleting
                               => api'.uid = versions[i].uid /\ api'.finalizer
      BY <1>2, <2>2 DEF PLZInv, History, Present, Grown
    <3> QED
      BY <1>0, <2>1, <3>1, <3>2, <3>3 DEF Present
  <2>5. \A i \in 0 .. last' : i # last' => Older(versions[i])'
    <3>1. \A i \in 0 .. last : versions[i].uid <= created'
      BY <1>0, <2>2 DEF PLZInv, History, Older
    <3>2. \A i \in 0 .. last : versions[i].uid = api.uid => versions[i].rv <= api.rv
      BY <1>0, <1>2, <1>a DEF PLZInv, History, Older, Grown, PLZ
    <3>3. \A i \in 0 .. last : versions[i].uid = api'.uid => versions[i].rv < api'.rv
      BY <1>0, <1>a, <2>2, <3>2 DEF PLZ
    <3> QED
      BY <1>0, <2>1, <3>1, <3>3 DEF Older
  <2>6. OnePLZ'
    <3> SUFFICES ASSUME obj.finalizer
                 PROVE  /\ \A i \in 0 .. last' : versions'[i].uid = obj.uid
                        /\ \A i, j \in 0 .. last' :
                             i <= j /\ versions'[i].deleting => versions'[j].deleting
      BY <2>2 DEF OnePLZ
    <3>1. \A i \in 0 .. last : versions[i].uid = obj.uid
      BY <1>0, <1>2, <2>2 DEF PLZInv, History, OnePLZ, Grown
    <3>2. \A i, j \in 0 .. last : i <= j /\ versions[i].deleting => versions[j].deleting
      BY <1>0, <1>2 DEF PLZInv, History, OnePLZ, Grown
    <3>3. \A i \in 0 .. last : versions[i].deleting => obj.deleting
      BY <1>0, <1>2, <3>2 DEF Grown
    <3> QED
      BY <1>0, <2>1, <3>1, <3>2, <3>3
  <2> QED
    BY <2>3, <2>4, <2>5, <2>6 DEF History, Sound
<1>3. CASE Vanished
  <2>1. /\ last' = last + 1 /\ \A i \in 0 .. last : versions'[i] = versions[i]
        /\ versions'[last + 1] = Absent
    BY <1>3, VersionsWritten, AbsentType DEF PLZInv, Vanished, Write
  <2>2. api' = Absent /\ created' = created
    BY <1>3 DEF Vanished, Write
  <2>3. /\ Absent.uid = 0 /\ ~Absent.finalizer /\ ~Absent.deleting /\ ~IsRegistered(Absent)
    BY DEF Absent, IsRegistered, IsTrue, NoConditions, NoCondition, CondType
  <2>4. \A i \in 0 .. last : ~(versions[i].finalizer /\ ~versions[i].deleting)
    BY <1>0, <1>3 DEF PLZInv, History, Present, Vanished
  <2> QED
    BY <1>0, <2>1, <2>2, <2>3, <2>4 DEF PLZInv, History, Sound, Present, Older, OnePLZ, Exists
<1>4. CASE UserCreates
  <2> DEFINE obj == NewPLZ(created + 1)
  <2>0. obj \in PLZ
    BY <1>4, NewPLZType, PLZAssumption DEF PLZInv, TypeOK, UserCreates
  <2>1. /\ last' = last + 1 /\ \A i \in 0 .. last : versions'[i] = versions[i]
        /\ versions'[last + 1] = obj
    BY <1>4, <2>0, VersionsWritten DEF PLZInv, UserCreates
  <2>2. api' = obj /\ created' = created + 1 /\ ~Exists(api)
    BY <1>4 DEF UserCreates
  <2>3. /\ obj.uid = created + 1 /\ ~obj.finalizer /\ ~obj.deleting /\ ~IsRegistered(obj)
    BY DEF NewPLZ, Absent, IsRegistered, IsTrue, NoConditions, NoCondition, CondType
  <2>4. ~api.finalizer /\ \A i \in 0 .. last : ~(versions[i].finalizer /\ ~versions[i].deleting)
    BY <1>0, <2>2 DEF PLZInv, History, Sound, Present
  <2>5. \A i \in 0 .. last : versions[i].uid \in Nat /\ versions[i].uid <= created
    BY <1>0, <1>a DEF PLZInv, History, Older, PLZ
  <2> HIDE DEF obj
  <2> QED
    BY <1>0, <2>1, <2>2, <2>3, <2>4, <2>5 DEF PLZInv, History, Sound, Present, Older, OnePLZ, Exists
<1>5. CASE CacheSync
  <2>1. /\ last \in Nat \ {0} /\ last' = last - 1
        /\ \A i \in 0 .. last' : versions'[i] = versions[i + 1]
    BY <1>5, VersionsSynced DEF PLZInv
  <2>2. api' = api /\ created' = created
    BY <1>5 DEF CacheSync
  <2>3. versions'[last'] = api
    BY <1>0, <2>1
  <2> QED
    BY <1>0, <2>1, <2>2, <2>3 DEF PLZInv, History, Sound, Present, Older, OnePLZ
<1>6. CASE Restart
  <2>1. last' = 0 /\ versions'[0] = api /\ api' = api /\ created' = created
    BY <1>6, VersionsRelisted DEF Restart
  <2> QED
    BY <1>0, <2>1 DEF PLZInv, History, Sound, Present, Older, OnePLZ
<1> QED
  BY <1>1, <1>2, <1>3, <1>4, <1>5, <1>6, StoreStep
-----------------------------------------------------------------------------
(* The facts about api, the cache and the copy that the steps below need.   *)
LEMMA Readings ==
  ASSUME PLZInv
  PROVE  /\ api.finalizer \in BOOLEAN /\ api.deleting \in BOOLEAN
         /\ cache.deleting \in BOOLEAN /\ plz.finalizer \in BOOLEAN /\ plz.deleting \in BOOLEAN
         /\ plz.uid \in Nat /\ plz.rv \in Nat /\ api.uid \in Nat /\ api.rv \in Nat
         /\ cache.uid \in Nat /\ cache.rv \in Nat /\ created \in Nat
         /\ cache.uid <= created /\ Sound(cache) /\ Present(cache) /\ Sound(api)
         /\ last = 0 => cache = api
         /\ last # 0 /\ Exists(api) /\ cache.uid = api.uid => cache.rv < api.rv
         /\ api.finalizer => cache.uid = api.uid /\ (cache.deleting => api.deleting)
<1>1. /\ api \in PLZ /\ cache \in PLZ /\ plz \in PLZ /\ created \in Nat
      /\ last \in Nat /\ versions[0] = cache /\ versions[last] = api
  BY FirstVersion DEF PLZInv, TypeOK, History
<1>2. /\ api.finalizer \in BOOLEAN /\ api.deleting \in BOOLEAN
      /\ cache.deleting \in BOOLEAN /\ plz.finalizer \in BOOLEAN /\ plz.deleting \in BOOLEAN
      /\ plz.uid \in Nat /\ plz.rv \in Nat /\ api.uid \in Nat /\ api.rv \in Nat
      /\ cache.uid \in Nat /\ cache.rv \in Nat
  BY <1>1 DEF PLZ
<1>3. Sound(cache) /\ Present(cache) /\ Sound(api)
  BY <1>1 DEF PLZInv, History
<1>4. last # 0 => Older(cache)
  BY <1>1 DEF PLZInv, History
<1>5. api.finalizer => cache.uid = api.uid /\ (cache.deleting => api.deleting)
  BY <1>1 DEF PLZInv, History, OnePLZ
<1>6. api.uid <= created
  BY DEF PLZInv, History
<1> QED
  BY <1>1, <1>2, <1>3, <1>4, <1>5, <1>6 DEF Older

(* The fields of a PLZ that does not exist.                                 *)
LEMMA NothingAbsent ==
  /\ Absent.uid = 0 /\ Absent.finalizer = FALSE /\ Absent.deleting = FALSE
  /\ ~IsRegistered(Absent)
  BY DEF Absent, IsRegistered, IsTrue, NoConditions, NoCondition, CondType

(* A reconcile that has ended holds no copy.                                *)
LEMMA ReturnedCopy ==
  ASSUME TypeOK', pc' = "idle", plz' = Absent
  PROVE  Copy'
<1>1. created' \in Nat /\ 0 <= created'
  BY DEF TypeOK
<1> QED
  BY <1>1, NothingAbsent DEF Copy, Active, Exists, Sound, Present

(* What happens around a reconcile does not make its copy wrong: a PLZ of   *)
(* which it has seen the finalizer does not disappear under it.             *)
LEMMA AroundCopy ==
  ASSUME PLZInv, TypeOK', UNCHANGED <<pc, plz>>,
         \/ UNCHANGED store \/ UserCreates \/ UserEdits \/ UserDeletes \/ CacheSync
  PROVE  Copy'
<1> USE DEF Copy, Active, Current, Exists, Sound, Present
<1>1. CASE UNCHANGED store
  BY <1>1, VersionsKept DEF PLZInv, store
<1>2. CASE UserCreates
  <2>1. /\ api'.uid = created + 1 /\ api'.finalizer = FALSE /\ created' = created + 1
        /\ api.uid = 0
    BY <1>2 DEF UserCreates, NewPLZ, Absent
  <2>2. ~api.finalizer
    BY <2>1, Readings
  <2> QED
    BY <2>1, <2>2, Readings DEF PLZInv
<1>3. CASE UserEdits \/ (UserDeletes /\ api.finalizer)
  <2>1. PICK obj \in PLZ : Grown(obj) /\ obj.finalizer = api.finalizer
    BY <1>3, UserGrown
  <2>2. /\ api' = obj /\ obj.uid = api.uid /\ obj.rv = api.rv + 1 /\ UNCHANGED <<cache, created>>
    BY <2>1 DEF Grown, Write
  <2> QED
    BY <2>1, <2>2, Readings DEF PLZInv
<1>4. CASE UserDeletes /\ ~api.finalizer
  <2>1. api' = Absent /\ UNCHANGED <<cache, created>>
    BY <1>4 DEF UserDeletes, Write
  <2> QED
    BY <1>4, <2>1, Readings, NothingAbsent DEF PLZInv
<1>5. CASE CacheSync
  <2>1. last \in Nat \ {0} /\ cache' = versions[1] /\ UNCHANGED <<api, created>>
    BY <1>5, VersionsSynced, FirstVersion DEF PLZInv, CacheSync, TypeOK, versions
  <2>2. api.finalizer /\ cache.deleting => cache'.deleting
    BY <2>1, FirstVersion DEF PLZInv, History, OnePLZ
  <2> QED
    BY <2>1, <2>2, Readings DEF PLZInv
<1> QED
  BY <1>1, <1>2, <1>3, <1>4, <1>5, Readings

(* The copy stays as described.                                             *)
LEMMA CopyStep == PLZInv /\ [Next]_vars => Copy'
<1> SUFFICES ASSUME PLZInv, [Next]_vars PROVE Copy'
  OBVIOUS
<1>0. TypeOK /\ TypeOK' /\ Copy
  BY TypeStep DEF PLZInv
<1>1. CASE UNCHANGED vars \/ Resync \/ CacheSync \/ UserCreates \/ UserEdits \/ UserDeletes
  BY <1>0, <1>1, AroundCopy DEF vars, reconcile, Resync, CacheSync, UserCreates, UserEdits,
                                UserDeletes
<1>2. CASE Reconcile
  <2>1. UNCHANGED <<pc, plz>> \/ (Exists(cache) /\ pc' = "Look" /\ plz' = cache)
    BY <1>2 DEF Reconcile
  <2>2. UNCHANGED store
    BY <1>2 DEF Reconcile
  <2>3. CASE UNCHANGED <<pc, plz>>
    BY <1>0, <2>2, <2>3, AroundCopy
  <2>4. CASE Exists(cache) /\ pc' = "Look" /\ plz' = cache
    <3>1. last' = last /\ UNCHANGED <<api, cache, created>>
      BY <2>2, VersionsKept DEF store
    <3> QED
      BY <2>4, <3>1, Readings DEF Copy, Active, Current, Exists, Sound, Present
  <2> QED
    BY <2>1, <2>3, <2>4
<1>3. CASE Look
  <2>1. last' = last /\ UNCHANGED <<api, cache, created>>
    BY <1>3, VersionsKept DEF Look, store
  <2>2. /\ plz'.uid = plz.uid /\ plz'.rv = plz.rv
        /\ plz'.finalizer = plz.finalizer /\ plz'.deleting = plz.deleting
        /\ pc' # "idle" /\ pc = "Look"
        /\ pc' # "U_registered" => plz' = plz
    BY <1>0, <1>3 DEF Look, Goto, TypeOK, PLZ
  <2> QED
    BY <1>0, <2>1, <2>2 DEF Copy, Active, Current, Exists, Sound, Present
<1>4. CASE Register
  <2>1. last' = last /\ UNCHANGED <<api, cache, created>>
    BY <1>4, VersionsKept DEF Register, store
  <2>2. CASE pc' = "idle"
    BY <1>0, <1>4, <2>2, ReturnedCopy DEF Register, NoToken, AddWorker, Return, Goto
  <2>3. CASE pc' # "idle"
    <3>1. plz' = [plz EXCEPT !.conds = UpdateExisting(plz.conds, "False")] /\ pc' = "AddFinalizer"
          /\ pc = "Register"
      BY <1>4, <2>3 DEF Register, NoToken, AddWorker, Return, Goto
    <3>2. /\ plz'.uid = plz.uid /\ plz'.rv = plz.rv /\ plz'.conds = UpdateExisting(plz.conds, "False")
          /\ plz'.finalizer = plz.finalizer /\ plz'.deleting = plz.deleting
      BY <1>0, <3>1 DEF TypeOK, PLZ
    <3>3. ~plz.finalizer /\ ~IsRegistered(plz) /\ ~plz.deleting
      BY <3>1, Readings DEF PLZInv, Copy, Workers, AtLabel, Sound
    <3>4. ~IsRegistered(plz')
      <4>1. plz.conds \in [CondType -> Condition] /\ "PLZRegistered" \in CondType
        BY <1>0 DEF TypeOK, PLZ, CondType
      <4> QED
        BY <3>2, <3>3, <4>1 DEF IsRegistered, IsTrue, UpdateExisting, UpdateCondition, SetStatusCondition
    <3> QED
      BY <1>0, <2>1, <3>1, <3>2, <3>3, <3>4 DEF Copy, Active, Current, Exists, Sound, Present
  <2> QED
    BY <2>2, <2>3
<1>5. CASE AddFinalizer \/ Registered \/ RemoveFinalizer \/ Restart
  <2>1. pc' = "idle" /\ plz' = Absent
    BY <1>5 DEF AddFinalizer, Registered, RemoveFinalizer, Restart, AddWorker, NoToken, Return
  <2> QED
    BY <1>0, <2>1, ReturnedCopy
<1>6. CASE UpdateRegistered
  <2>0. plz.finalizer /\ ~plz.deleting /\ api.finalizer /\ api.uid = plz.uid /\ Exists(plz)
    BY <1>6 DEF UpdateRegistered, PLZInv, Copy, Present, Workers, AtLabel, Active
  <2>1. CASE pc' = "idle"
    BY <1>0, <1>6, <2>1, ReturnedCopy DEF UpdateRegistered, Return, Goto
  <2>2. CASE ~UNCHANGED store
    <3>1. PICK obj \in PLZ : Grown(obj) /\ Goto("Registered", obj) /\ api.finalizer
      BY <1>6, <2>2, StatusGrown
    <3>2. /\ api' = obj /\ plz' = obj /\ pc' = "Registered" /\ UNCHANGED created /\ obj.uid = api.uid
          /\ Sound(obj) /\ obj.finalizer /\ Exists(obj)
      BY <3>1 DEF Grown, Write, Goto, Exists
    <3>3. obj.rv \in Nat /\ api.uid <= created
      BY <2>0, Readings DEF PLZ, PLZInv, Copy
    <3> QED
      BY <3>2, <3>3 DEF Copy, Active, Sound, Present
  <2>3. CASE UNCHANGED store /\ pc' # "idle"
    <3>1. last' = last /\ UNCHANGED <<api, cache, created>>
      BY <2>3, VersionsKept DEF store
    <3>2. pc' = "Registered" /\ (plz' = plz \/ (plz' = cache /\ Exists(cache)))
      <4>1. \A obj : watch # Append(watch, obj)
        BY <1>0 DEF TypeOK
      <4> QED
        BY <1>6, <2>3, <4>1 DEF UpdateRegistered, Goto, Return, Write, store
    <3>3. Sound(plz') /\ Exists(plz') /\ plz'.uid <= created /\ (api.finalizer => plz'.uid = api.uid)
      BY <1>0, <2>0, <3>2, Readings DEF Copy, Exists, Sound
    <3>4. Exists(api) /\ plz'.uid = api.uid => plz'.rv <= api.rv
      BY <1>0, <3>2, Readings DEF Copy, Exists
    <3>5. Present(plz)'
      BY <2>0, <3>1, <3>3 DEF Present
    <3> QED
      BY <3>1, <3>2, <3>3, <3>4, <3>5 DEF Copy, Active, Exists, Sound
  <2> QED
    BY <2>1, <2>2, <2>3
<1>7. CASE Deregister
  <2>1. last' = last /\ UNCHANGED <<api, cache, created, plz>> /\ pc = "Deregister"
        /\ pc' = "RemoveFinalizer"
    BY <1>7, VersionsKept DEF Deregister, Goto, store
  <2> QED
    BY <1>0, <2>1 DEF Copy, Active, Current, Exists, Sound, Present
<1> QED
  BY <1>1, <1>2, <1>3, <1>4, <1>5, <1>6, <1>7 DEF Next, Operator

(* What happens around a reconcile neither adds nor removes the finalizer,  *)
(* and a deletion that was seen stays seen.                                 *)
LEMMA AroundFinalizer ==
  ASSUME PLZInv, UNCHANGED store \/ UserCreates \/ UserEdits \/ UserDeletes \/ CacheSync
  PROVE  /\ api'.finalizer = api.finalizer
         /\ api.finalizer => api'.uid = api.uid /\ (cache.deleting => cache'.deleting)
<1>1. CASE UNCHANGED store
  BY <1>1 DEF store
<1>2. CASE UserCreates
  <2>1. api'.finalizer = FALSE /\ api.uid = 0
    BY <1>2 DEF UserCreates, NewPLZ, Absent, Exists
  <2> QED
    BY <2>1, Readings DEF Sound, Exists
<1>3. CASE UserEdits \/ (UserDeletes /\ api.finalizer)
  <2>1. PICK obj \in PLZ : Grown(obj) /\ obj.finalizer = api.finalizer
    BY <1>3, UserGrown
  <2> QED
    BY <2>1 DEF Grown, Write
<1>4. CASE UserDeletes /\ ~api.finalizer
  BY <1>4, NothingAbsent, Readings DEF UserDeletes, Write
<1>5. CASE CacheSync
  <2>1. last \in Nat \ {0} /\ cache' = versions[1] /\ UNCHANGED api
    BY <1>5, VersionsSynced, FirstVersion DEF PLZInv, CacheSync, TypeOK, versions
  <2> QED
    BY <2>1, FirstVersion DEF PLZInv, History, OnePLZ
<1> QED
  BY <1>1, <1>2, <1>3, <1>4, <1>5, Readings

(* A worker that is not there has a factory that is not started.            *)
LEMMA NoFactory ==
  ASSUME worker \in Worker
  PROVE  /\ worker.factory # "new" => HasWorker
         /\ worker.factory \in FactoryState
  BY DEF Worker, NoWorker, HasWorker, FactoryState

(* The worker and the zone stay as described.                               *)
LEMMA WorkersStep == PLZInv /\ [Next]_vars => Workers'
<1> SUFFICES ASSUME PLZInv, [Next]_vars PROVE Workers'
  OBVIOUS
<1>0. worker \in Worker /\ Copy /\ Workers
  BY DEF PLZInv, TypeOK
<1> USE DEF Workers, AtLabel, WorkerMatches, WoundUp, PollingIsGuarded, PollingIsRegistered,
            Stopping, HasWorker, Active
<1>1. CASE UNCHANGED vars \/ Resync \/ CacheSync \/ UserCreates \/ UserEdits \/ UserDeletes
  <2>1. UNCHANGED <<pc, plz, worker, zone>>
    BY <1>1 DEF vars, reconcile, Resync, CacheSync, UserCreates, UserEdits, UserDeletes
  <2>2. /\ api'.finalizer = api.finalizer
        /\ api.finalizer => api'.uid = api.uid /\ (cache.deleting => cache'.deleting)
    BY <1>1, AroundFinalizer DEF vars, Resync
  <2> QED
    BY <1>0, <2>1, <2>2
<1>2. CASE Reconcile
  <2>1. UNCHANGED <<api, cache, worker, zone>> /\ pc = "idle"
        /\ (UNCHANGED <<pc, plz>> \/ (pc' = "Look" /\ plz' = cache))
    BY <1>2 DEF Reconcile, store
  <2> QED
    BY <1>0, <2>1
<1>3. CASE Look
  <2>1. UNCHANGED <<api, cache, worker, zone>> /\ pc = "Look"
    BY <1>3 DEF Look, store
  <2>2. plz'.finalizer = plz.finalizer /\ plz'.deleting = plz.deleting
    BY <1>3 DEF Look, Goto, PLZInv, TypeOK, PLZ
  <2>3. CASE pc' = "Register"
    BY <1>0, <1>3, <2>1, <2>2, <2>3 DEF Look, Goto
  <2>4. CASE pc' = "U_registered"
    BY <1>0, <1>3, <2>1, <2>2, <2>4 DEF Look, Goto
  <2>5. CASE pc' = "Deregister"
    BY <1>0, <1>3, <2>1, <2>2, <2>5 DEF Look, Goto
  <2>6. CASE pc' = "Registered"
    <3>1. plz' = plz /\ ~(plz.deleting /\ plz.finalizer /\ HasWorker)
          /\ (plz.deleting \/ IsRegistered(plz))
      BY <1>3, <2>6 DEF Look, Goto
    <3>2. HasWorker /\ IsRegistered(plz) => api.finalizer
      BY <1>0, <2>1, <3>1, Readings DEF Copy, Sound, Present
    <3>3. HasWorker => ~plz.deleting
      BY <1>0, <2>1, <3>1, Readings DEF Copy, Sound
    <3> QED
      BY <1>0, <2>1, <2>6, <3>1, <3>2, <3>3
  <2> QED
    BY <1>3, <2>3, <2>4, <2>5, <2>6 DEF Look, Goto
<1>4. CASE Register
  <2>1. UNCHANGED <<api, cache>> /\ pc = "Register" /\ (zone => zone')
    BY <1>4 DEF Register, store, PLZInv, TypeOK
  <2>2. api.finalizer => zone
    BY <1>0, <2>1
  <2>3. CASE UNCHANGED worker /\ pc' = "idle"
    BY <1>0, <2>1, <2>2, <2>3
  <2>4. CASE worker' = [uid |-> plz.uid, factory |-> "new"] /\ pc' = "AddFinalizer"
             /\ plz'.uid = plz.uid /\ zone'
    BY <1>0, <2>1, <2>2, <2>4 DEF Copy
  <2>5. [plz EXCEPT !.conds = UpdateExisting(plz.conds, "False")].uid = plz.uid
    BY DEF PLZInv, TypeOK, PLZ
  <2> QED
    BY <1>4, <2>3, <2>4, <2>5 DEF Register, NoToken, AddWorker, Return, Goto
<1>5. CASE AddFinalizer
  <2>1. UNCHANGED <<worker, zone>> /\ pc = "AddFinalizer" /\ pc' = "idle" /\ worker.uid = plz.uid
        /\ zone
    BY <1>0, <1>5 DEF AddFinalizer, Return
  <2>2. CASE UNCHANGED store
    BY <1>0, <2>1, <2>2 DEF store
  <2>3. CASE ~UNCHANGED store
    <3>1. PICK obj \in PLZ : Grown(obj) /\ obj.finalizer /\ Current
      BY <1>5, <2>3, FinalizerGrown
    <3>2. api' = obj /\ obj.uid = api.uid /\ api.uid = plz.uid /\ UNCHANGED cache
      BY <3>1 DEF Grown, Write, Current
    <3> QED
      BY <1>0, <2>1, <3>1, <3>2
  <2> QED
    BY <2>2, <2>3
<1>6. CASE UpdateRegistered
  <2>1. UNCHANGED <<worker, zone>> /\ pc = "U_registered" /\ pc' \in {"Registered", "idle"}
    BY <1>6 DEF UpdateRegistered, Goto, Return
  <2>2. api.finalizer
    BY <1>0, <2>1 DEF Copy, Present
  <2>3. api'.finalizer /\ api'.uid = api.uid /\ UNCHANGED cache
    <3>1. CASE UNCHANGED store
      BY <2>2, <3>1 DEF store
    <3>2. CASE ~UNCHANGED store
      BY <1>6, <2>2, <3>2, StatusGrown DEF Grown, Write
    <3> QED
      BY <3>1, <3>2
  <2> QED
    BY <1>0, <2>1, <2>2, <2>3
<1>7. CASE Registered
  <2>1. UNCHANGED <<api, cache, zone>> /\ pc = "Registered" /\ pc' = "idle"
    BY <1>7 DEF Registered, NoToken, AddWorker, Return, store
  <2>2. CASE UNCHANGED worker
    BY <1>0, <2>1, <2>2
  <2>3. CASE ~HasWorker /\ worker' = [uid |-> plz.uid, factory |-> "new"]
    BY <1>0, <2>1, <2>3 DEF Copy
  <2>4. CASE HasWorker /\ IsRegistered(plz) /\ StartFactory
    <3>1. api.finalizer /\ zone /\ worker.factory # "stopped"
      BY <1>0, <2>1, <2>4 DEF PLZInv, TypeOK
    <3>2. worker'.uid = worker.uid /\ worker'.factory = "polling"
      BY <1>0, <2>4 DEF StartFactory, Worker, NoWorker
    <3> QED
      BY <1>0, <2>1, <2>4, <3>1, <3>2
  <2> QED
    BY <1>7, <2>2, <2>3, <2>4 DEF Registered, AddWorker
<1>8. CASE Deregister
  <2>1. UNCHANGED <<api, cache, plz>> /\ pc = "Deregister" /\ pc' = "RemoveFinalizer"
        /\ zone' \in {zone, FALSE}
    BY <1>8 DEF Deregister, Goto, store
  <2>2. /\ worker'.uid = worker.uid /\ worker'.factory # "polling"
        /\ worker'.factory = "stopped" => worker.factory \in {"polling", "stopped"}
    BY <1>0, <1>8 DEF Deregister, StopFactory, Worker, NoWorker, FactoryState
  <2>3. api.finalizer => cache.deleting
    BY <1>0, <2>1 DEF Copy
  <2> QED
    BY <1>0, <2>1, <2>2, <2>3
<1>9. CASE RemoveFinalizer
  <2>1. UNCHANGED zone /\ pc = "RemoveFinalizer" /\ pc' = "idle"
    BY <1>9 DEF RemoveFinalizer, Return
  <2>2. CASE UNCHANGED <<store, worker>>
    BY <1>0, <2>1, <2>2 DEF store
  <2>3. CASE api' = Absent /\ worker' = NoWorker
    BY <2>1, <2>3, NothingAbsent DEF NoWorker
  <2> QED
    BY <1>9, <2>2, <2>3 DEF RemoveFinalizer, UpdateOK, UpdateError, Write, DeleteWorker
<1>10. CASE Restart
  <2>1. pc' = "idle" /\ worker' = NoWorker /\ cache' = api /\ UNCHANGED <<api, zone>>
    BY <1>10 DEF Restart
  <2>2. api.finalizer /\ ~zone => api.deleting
    BY <1>0, Readings
  <2> QED
    BY <2>1, <2>2 DEF NoWorker
<1> QED
  BY <1>1, <1>2, <1>3, <1>4, <1>5, <1>6, <1>7, <1>8, <1>9, <1>10 DEF Next, Operator
-----------------------------------------------------------------------------
(* PLZInv holds initially.                                                  *)
LEMMA PLZInit == Init => PLZInv
<1> SUFFICES ASSUME Init PROVE PLZInv
  OBVIOUS
<1>1. TypeOK
  <2>1. <<>> \in Seq(PLZ) /\ 0 \in 0 .. MaxPLZs /\ 0 \in 0 .. MaxFaults
    BY PLZAssumption
  <2> QED
    BY <2>1, AbsentType, WorkerTypes DEF Init, TypeOK, Label
<1>2. last = 0 /\ versions[0] = Absent /\ api = Absent /\ created = 0
  BY DEF Init, last, versions
<1>3. History
  BY <1>2, NothingAbsent DEF History, OnePLZ, Sound, Present, Older, Exists
<1>4. Copy
  BY <1>2, NothingAbsent DEF Init, Copy, Active, Sound, Present, Exists
<1>5. Workers
  BY <1>2, NothingAbsent DEF Init, Workers, AtLabel, WorkerMatches, WoundUp, PollingIsGuarded,
     PollingIsRegistered, NoWorker, HasWorker
<1> QED
  BY <1>1, <1>3, <1>4, <1>5 DEF PLZInv

(* PLZInv is inductive.                                                     *)
LEMMA PLZStep == PLZInv /\ [Next]_vars => PLZInv'
  BY TypeStep, HistoryStep, CopyStep, WorkersStep DEF PLZInv

(* A factory polls only for the PLZ that exists under its name and only     *)
(* while that PLZ has the finalizer, whatever faults happen: its deletion   *)
(* will be seen by a reconcile, which stops the factory.                    *)
THEOREM PollingGuarded == Spec => []PollingIsGuarded
<1>1. PLZInv => PollingIsGuarded
  BY DEF PLZInv, Workers
<1> QED
  BY <1>1, PLZInit, PLZStep, PTL DEF Spec

(* A factory polls only while its load zone is registered with the cloud.   *)
THEOREM PollingRegistered == Spec => []PollingIsRegistered
<1>1. PLZInv => PollingIsRegistered
  BY DEF PLZInv, Workers
<1> QED
  BY <1>1, PLZInit, PLZStep, PTL DEF Spec

(* Every step of the reconciler starts a new factory, stops a polling one,  *)
(* drops the worker, or leaves the factory alone.                           *)
LEMMA ReconcilerStep == PLZInv /\ [Next]_vars => [Contract!Next]_(Contract!vars)
<1> SUFFICES ASSUME PLZInv, [Next]_vars PROVE [Contract!Next]_(Contract!vars)
  OBVIOUS
<1>0. worker \in Worker /\ Workers
  BY DEF PLZInv, TypeOK
<1>1. CASE UNCHANGED worker
  BY <1>1 DEF Contract!vars
<1>2. CASE worker'.factory = "new"
  BY <1>2 DEF Contract!Next, Contract!Renew
<1>3. CASE pc = "Registered" /\ HasWorker /\ IsRegistered(plz) /\ StartFactory
  <2>1. worker.factory # "stopped"
    BY <1>0, <1>3 DEF Workers, WoundUp, Stopping, Active
  <2>2. worker'.factory = "polling" /\ worker.factory \in FactoryState
    BY <1>0, <1>3, NoFactory DEF StartFactory, Worker, NoWorker
  <2>3. CASE worker.factory = "polling"
    BY <2>2, <2>3 DEF Contract!vars
  <2>4. CASE worker.factory = "new"
    BY <2>2, <2>4 DEF Contract!Next, Contract!Start
  <2> QED
    BY <2>1, <2>2, <2>3, <2>4 DEF FactoryState
<1>4. CASE StopFactory
  <2>1. CASE worker.factory = "polling"
    <3>1. worker'.factory = "stopped"
      BY <1>0, <1>4, <2>1 DEF StopFactory, Worker, NoWorker
    <3> QED
      BY <2>1, <3>1 DEF Contract!Next, Contract!Stop
  <2>2. CASE worker.factory # "polling"
    BY <1>4, <2>2 DEF StopFactory, Contract!vars
  <2> QED
    BY <2>1, <2>2
<1>5. CASE Operator
  <2>1. CASE Reconcile \/ Look \/ AddFinalizer \/ UpdateRegistered
    BY <1>1, <2>1 DEF Reconcile, Look, AddFinalizer, UpdateRegistered
  <2>2. CASE Register
    <3>1. UNCHANGED worker \/ worker' = [uid |-> plz.uid, factory |-> "new"]
      BY <2>2 DEF Register, AddWorker
    <3> QED
      BY <1>1, <1>2, <3>1
  <2>3. CASE Registered
    <3>1. \/ UNCHANGED worker \/ worker' = [uid |-> plz.uid, factory |-> "new"]
          \/ pc = "Registered" /\ HasWorker /\ IsRegistered(plz) /\ StartFactory
      BY <2>3 DEF Registered, AddWorker
    <3> QED
      BY <1>1, <1>2, <1>3, <3>1
  <2>4. CASE Deregister
    BY <1>4, <2>4 DEF Deregister
  <2>5. CASE RemoveFinalizer
    <3>1. UNCHANGED worker \/ worker' = NoWorker
      BY <2>5 DEF RemoveFinalizer, DeleteWorker
    <3> QED
      BY <1>1, <1>2, <3>1 DEF NoWorker
  <2> QED
    BY <1>5, <2>1, <2>2, <2>3, <2>4, <2>5 DEF Operator
<1>6. CASE Restart
  BY <1>2, <1>6 DEF Restart, NoWorker
<1>7. CASE UNCHANGED vars \/ Resync \/ CacheSync \/ UserCreates \/ UserEdits \/ UserDeletes
  BY <1>1, <1>7 DEF vars, Resync, CacheSync, UserCreates, UserEdits, UserDeletes
<1> QED
  BY <1>5, <1>6, <1>7 DEF Next

(* The reconciler keeps its side of the contract with the factory, for any  *)
(* number of PLZs and any faults: a stopped factory is never started again. *)
THEOREM ReconcilerContract == Spec => ReconcilerKeepsContract
<1>1. Init => Contract!Init
  BY DEF Init, NoWorker, Contract!Init
<1> QED
  BY <1>1, PLZInit, PLZStep, ReconcilerStep, PTL DEF Spec, ReconcilerKeepsContract, Contract!Spec
=============================================================================
