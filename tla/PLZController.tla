---------------------------- MODULE PLZController ----------------------------
(***************************************************************************)
(* The PrivateLoadZone reconciler (internal/controller/plz_controller.go): *)
(* it registers a PLZ with the k6 Cloud, keeps one worker per PLZ name in  *)
(* memory (pkg/plz), starts the worker's factory of test runs, and on      *)
(* deletion stops the factory and deregisters.                             *)
(*                                                                         *)
(* One name is modelled, under which a PLZ can be created, edited, deleted *)
(* and created again; uid tells these PLZs apart, rv is the resource       *)
(* version that guards Update. The annotation with the registration's UUID *)
(* is left out: nothing reads it.                                          *)
(*                                                                         *)
(* A definition named D_x is D with a defect: a property is worth checking *)
(* when such a defect violates it.                                         *)
(***************************************************************************)
EXTENDS Conditions, Sequences

CONSTANTS
  Faults,     \* the disturbances that may happen, a subset of FaultKind
  MaxFaults,  \* bound: how many of them in one behaviour
  MaxPLZs     \* bound: how often a PLZ of this name is created

FaultKind == {"stale",       \* a reconcile starts on a cache that lags
              "crash",       \* the operator restarts
              "token", "register", "deregister", "update", "patch",  \* calls that fail
              "edit"}        \* the user changes the PLZ

ASSUME PLZAssumption ==
  /\ Faults \subseteq FaultKind
  /\ MaxFaults \in Nat
  /\ MaxPLZs \in Nat \ {0}

CondType == {"PLZRegistered"}

(* uid 0: there is no PLZ. *)
PLZ == [uid : 0 .. MaxPLZs, rv : Nat, finalizer : BOOLEAN, deleting : BOOLEAN,
        conds : [CondType -> Condition]]

NoConditions == [type \in CondType |-> NoCondition]

Absent == [uid |-> 0, rv |-> 0, finalizer |-> FALSE, deleting |-> FALSE, conds |-> NoConditions]

NewPLZ(uid) == [Absent EXCEPT !.uid = uid, !.rv = 1]

(* A worker: the PLZ it was made for, and its factory.                      *)
FactoryState == {"new", "polling", "stopped"}
NoWorker     == [uid |-> 0, factory |-> "new"]
Worker       == [uid : 1 .. MaxPLZs, factory : FactoryState] \cup {NoWorker}

Label == {"idle", "Look", "Register", "AddFinalizer", "U_registered", "Registered",
          "Deregister", "RemoveFinalizer"}

VARIABLES
  api,      \* the PLZ at the API server
  cache,    \* the PLZ in the operator's informer cache
  watch,    \* versions of it on their way to the cache
  created,  \* how many PLZs of this name were created
  queued,   \* the PLZ is in the work queue
  pc, plz,  \* where the reconcile in progress is, and its in-memory PLZ
  worker,   \* the worker of this name in PLZWorkers, NoWorker if there is none
  zone,     \* a load zone of this name is registered with the k6 Cloud
  faults    \* how many faults have happened

store     == <<api, cache, watch, created>>
reconcile == <<queued, pc, plz>>
vars      == <<store, reconcile, worker, zone, faults>>

TypeOK ==
  /\ api \in PLZ /\ cache \in PLZ /\ watch \in Seq(PLZ) /\ created \in 0 .. MaxPLZs
  /\ queued \in BOOLEAN /\ pc \in Label /\ plz \in PLZ
  /\ worker \in Worker /\ zone \in BOOLEAN /\ faults \in 0 .. MaxFaults

Init ==
  /\ api = Absent /\ cache = Absent /\ watch = <<>> /\ created = 0
  /\ queued = FALSE /\ pc = "idle" /\ plz = Absent
  /\ worker = NoWorker /\ zone = FALSE /\ faults = 0
-----------------------------------------------------------------------------
Exists(obj)     == obj.uid # 0
HasWorker       == worker.uid # 0
IsRegistered(obj) == IsTrue(obj.conds, "PLZRegistered")

(* Times do not matter here: PLZRegistered is stored once, as True.         *)
Now == 1

Fault(f) == f \in Faults /\ faults < MaxFaults /\ faults' = faults + 1
NoFault  == UNCHANGED faults

Return(requeue)  == pc' = "idle" /\ plz' = Absent /\ queued' = (queued \/ requeue)
Goto(label, obj) == pc' = label /\ plz' = obj /\ UNCHANGED queued

(* A write at the API server, which the cache learns of later.              *)
Write(obj) == api' = obj /\ watch' = Append(watch, obj) /\ UNCHANGED <<cache, created>>

(* client.Update sends the resource version it has read: a PLZ that was     *)
(* changed or deleted since then makes it fail.                             *)
Current == Exists(api) /\ api.uid = plz.uid /\ api.rv = plz.rv

UpdateOK(obj) == Current /\ Write(obj) /\ NoFault

UpdateError ==
  /\ UNCHANGED store
  /\ \/ ~Current /\ NoFault
     \/ Current /\ Fault("update")

(* loadToken: a token that is missing or not unique ends the reconcile for  *)
(* good, a secret that cannot be listed yet for 5s.                         *)
NoToken == Fault("token") /\ \E notReady \in BOOLEAN : Return(notReady)

(* plz.UpdateCondition has a value receiver: it can change a condition of   *)
(* the list but not add one.                                                *)
UpdateExisting(conds, status) ==
  IF conds["PLZRegistered"].status = "Absent" THEN conds
  ELSE UpdateCondition(conds, "PLZRegistered", status, Now)

Initialize_Empty == NoConditions

Initialize == [NoConditions EXCEPT !["PLZRegistered"] = [status |-> "Unknown", time |-> Now]]
-----------------------------------------------------------------------------
Reconcile ==
  /\ pc = "idle" /\ queued /\ queued' = FALSE
  /\ IF watch = <<>> THEN NoFault ELSE Fault("stale")
  /\ IF Exists(cache) THEN pc' = "Look" /\ plz' = cache ELSE UNCHANGED <<pc, plz>>
  /\ UNCHANGED <<store, worker, zone>>

(* A PLZ with the finalizer has been registered before, whatever its status *)
(* says.                                                                    *)
Look_WorkerDecides ==
  /\ pc = "Look"
  /\ IF ~plz.deleting /\ ~IsRegistered(plz)
     THEN IF HasWorker
          THEN Goto("U_registered", [plz EXCEPT !.conds = UpdateExisting(Initialize, "True")])
          ELSE Goto("Register", plz)
     ELSE IF plz.deleting /\ plz.finalizer /\ HasWorker
     THEN Goto("Deregister", plz)
     ELSE Goto("Registered", plz)
  /\ UNCHANGED <<store, worker, zone, faults>>

Look ==
  /\ pc = "Look"
  /\ IF ~plz.deleting /\ ~IsRegistered(plz)
     THEN IF plz.finalizer
          THEN Goto("U_registered", [plz EXCEPT !.conds = UpdateExisting(Initialize, "True")])
          ELSE Goto("Register", plz)
     ELSE IF plz.deleting /\ plz.finalizer /\ HasWorker
     THEN Goto("Deregister", plz)
     ELSE Goto("Registered", plz)
  /\ UNCHANGED <<store, worker, zone, faults>>

(* The worker is added after the registration; when there is one already    *)
(* the reconcile ends.                                                      *)
AddWorker(next) ==
  IF HasWorker THEN UNCHANGED worker /\ Return(FALSE)
  ELSE worker' = [uid |-> plz.uid, factory |-> "new"] /\ next

Register ==
  /\ pc = "Register"
  /\ \/ NoToken /\ UNCHANGED <<worker, zone>>
     \/ /\ Fault("register")
        /\ Return(TRUE)
        /\ UNCHANGED worker /\ zone' \in {zone, TRUE}
     \/ /\ NoFault /\ zone' = TRUE
        /\ AddWorker(Goto("AddFinalizer", [plz EXCEPT !.conds = UpdateExisting(@, "False")]))
  /\ UNCHANGED store

AddFinalizer ==
  /\ pc = "AddFinalizer"
  /\ \/ UpdateOK([api EXCEPT !.finalizer = TRUE, !.rv = @ + 1])
     \/ UpdateError
  /\ Return(TRUE)
  /\ UNCHANGED <<worker, zone>>

(* UpdateStatus: the PLZ is fetched again from the cache, and the patch is  *)
(* sent to whatever PLZ has the name now.                                   *)
UpdateRegistered ==
  LET merged == MergedConditions(cache.conds, plz.conds)
      newer  == Exists(cache) /\ ConditionsNewer(cache.conds, plz.conds)
  IN  /\ pc = "U_registered"
      /\ \/ /\ ~newer /\ UNCHANGED store /\ NoFault
            /\ Goto("Registered", IF Exists(cache) THEN cache ELSE plz)
         \/ /\ newer /\ Exists(api) /\ NoFault
            /\ Write([api EXCEPT !.conds = merged, !.rv = @ + 1])
            /\ Goto("Registered", api')
         \/ /\ newer /\ UNCHANGED store
            /\ \/ ~Exists(api) /\ NoFault
               \/ Exists(api) /\ Fault("patch")
            /\ Return(TRUE)
      /\ UNCHANGED <<worker, zone>>

(* The end of the reconcile of a registered PLZ: after a restart there is   *)
(* no worker. A factory is started unless it polls.                         *)
StartFactory ==
  worker' = IF worker.factory = "polling" THEN worker ELSE [worker EXCEPT !.factory = "polling"]

Registered_NoNilCheck ==
  /\ pc = "Registered"
  /\ \/ ~IsRegistered(plz) /\ UNCHANGED worker
     \/ IsRegistered(plz) /\ StartFactory
  /\ Return(FALSE)
  /\ UNCHANGED <<store, zone, faults>>

Registered_OnlyUndeleted ==
  /\ pc = "Registered"
  /\ \/ ~IsRegistered(plz) /\ NoFault /\ Return(FALSE) /\ UNCHANGED worker
     \/ IsRegistered(plz) /\ ~HasWorker /\ plz.deleting /\ NoFault /\ Return(FALSE)
          /\ UNCHANGED worker
     \/ IsRegistered(plz) /\ ~HasWorker /\ ~plz.deleting /\ NoToken /\ UNCHANGED worker
     \/ IsRegistered(plz) /\ ~HasWorker /\ ~plz.deleting /\ NoFault /\ AddWorker(Return(TRUE))
     \/ IsRegistered(plz) /\ HasWorker /\ NoFault /\ StartFactory /\ Return(FALSE)
  /\ UNCHANGED <<store, zone>>

Registered ==
  /\ pc = "Registered"
  /\ \/ ~IsRegistered(plz) /\ NoFault /\ Return(FALSE) /\ UNCHANGED worker
     \/ IsRegistered(plz) /\ ~HasWorker /\ NoToken /\ UNCHANGED worker
     \/ IsRegistered(plz) /\ ~HasWorker /\ NoFault /\ AddWorker(Return(TRUE))
     \/ IsRegistered(plz) /\ HasWorker /\ NoFault /\ StartFactory /\ Return(FALSE)
  /\ UNCHANGED <<store, zone>>
-----------------------------------------------------------------------------
(* Deletion: the factory is stopped; then the PLZ is deregistered, which    *)
(* may fail; then the finalizer is removed, with which the PLZ disappears.  *)
StopFactory_Not == UNCHANGED worker

StopFactory ==
  worker' = IF worker.factory = "polling" THEN [worker EXCEPT !.factory = "stopped"] ELSE worker

Deregister ==
  /\ pc = "Deregister"
  /\ StopFactory
  /\ \/ zone' = FALSE /\ NoFault
     \/ UNCHANGED zone /\ Fault("deregister")
  /\ Goto("RemoveFinalizer", plz)
  /\ UNCHANGED store

DeleteWorker == worker' = NoWorker

RemoveFinalizer_FallThrough ==
  /\ pc = "RemoveFinalizer"
  /\ \/ UpdateOK(Absent) /\ DeleteWorker /\ Return(FALSE)
     \/ UpdateError /\ UNCHANGED worker /\ Goto("Registered", plz)
  /\ UNCHANGED zone

RemoveFinalizer ==
  /\ pc = "RemoveFinalizer"
  /\ \/ UpdateOK(Absent) /\ DeleteWorker /\ Return(FALSE)
     \/ UpdateError /\ UNCHANGED worker /\ Return(TRUE)
  /\ UNCHANGED zone
-----------------------------------------------------------------------------
(* The world around the reconciler. *)

CacheSync ==
  /\ watch # <<>>
  /\ cache' = Head(watch) /\ watch' = Tail(watch)
  /\ queued' = TRUE
  /\ UNCHANGED <<api, created, pc, plz, worker, zone, faults>>

(* The operator restarts: workers and their factories are lost, the cache   *)
(* is filled anew and every PLZ is queued.                                  *)
Restart ==
  /\ pc # "idle" \/ HasWorker
  /\ Fault("crash")
  /\ pc' = "idle" /\ plz' = Absent /\ queued' = TRUE
  /\ worker' = NoWorker /\ cache' = api /\ watch' = <<>>
  /\ UNCHANGED <<api, created, zone>>

(* The informers deliver every object again from time to time.              *)
Resync ==
  /\ pc = "idle" /\ ~queued /\ Exists(cache)
  /\ queued' = TRUE
  /\ UNCHANGED <<store, pc, plz, worker, zone, faults>>

UserCreates ==
  /\ ~Exists(api) /\ created < MaxPLZs
  /\ created' = created + 1
  /\ api' = NewPLZ(created + 1) /\ watch' = Append(watch, api')
  /\ UNCHANGED <<cache, reconcile, worker, zone, faults>>

UserEdits ==
  /\ Exists(api) /\ Fault("edit")
  /\ Write([api EXCEPT !.rv = @ + 1])
  /\ UNCHANGED <<reconcile, worker, zone>>

UserDeletes ==
  /\ Exists(api) /\ ~api.deleting
  /\ Write(IF api.finalizer THEN [api EXCEPT !.deleting = TRUE, !.rv = @ + 1] ELSE Absent)
  /\ UNCHANGED <<reconcile, worker, zone, faults>>
-----------------------------------------------------------------------------
Operator ==
  \/ Reconcile \/ Look \/ Register \/ AddFinalizer \/ UpdateRegistered \/ Registered
  \/ Deregister \/ RemoveFinalizer

Next ==
  \/ Operator
  \/ CacheSync \/ Restart \/ Resync \/ UserCreates \/ UserEdits \/ UserDeletes

Spec == Init /\ [][Next]_vars

(* A queued reconcile is run and ends, the cache catches up, and the        *)
(* informers resync (every ten hours); users do what they like.             *)
FairSpec == Spec /\ WF_vars(Operator) /\ WF_vars(CacheSync) /\ WF_vars(Resync)
=============================================================================
