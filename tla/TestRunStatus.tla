---------------------------- MODULE TestRunStatus ----------------------------
(***************************************************************************)
(* The status of a TestRun (api/v1alpha1/k6conditions.go, testrun_types.go):*)
(* its stage, the k6 Cloud test run ID (0 when empty) and its conditions.  *)
(* A TestRun that does not exist (any more) has stage "gone".              *)
(***************************************************************************)
EXTENDS Conditions

CondType == {"TestRunRunning", "TeardownExecuted", "CloudTestRun", "CloudTestRunCreated",
             "CloudTestRunFinalized", "CloudPLZTestRun", "CloudTestRunAborted"}

Stage == {"", "initialization", "initialized", "created", "started", "stopped",
          "finished", "error"}

TestRun == [stage : Stage \cup {"gone"}, id : Nat, conds : [CondType -> Condition]]

NoConditions == [type \in CondType |-> NoCondition]

Gone == [stage |-> "gone", id |-> 0, conds |-> NoConditions]

NewTestRun == [stage |-> "", id |-> 0, conds |-> NoConditions]

Holds(tr, type)  == IsTrue(tr.conds, type)
Denied(tr, type) == IsFalse(tr.conds, type)

Stamp(tr, type, status, now) ==
  [tr EXCEPT !.conds = UpdateCondition(tr.conds, type, status, now)]

(* Initialize: the conditions every TestRun starts with; specID is          *)
(* spec.testRunId, non-zero exactly for PLZ test runs.                      *)
InitialStatus(type, plz) ==
  CASE type \in {"CloudTestRun", "TestRunRunning"}              -> "Unknown"
    [] type \in {"TeardownExecuted", "CloudTestRunAborted"}     -> "False"
    [] type = "CloudPLZTestRun"        -> IF plz THEN "True" ELSE "False"
    [] type = "CloudTestRunCreated"    -> IF plz THEN "True" ELSE "Absent"
    [] type = "CloudTestRunFinalized"  -> IF plz THEN "False" ELSE "Absent"

Initialize(tr, specID, now) ==
  LET plz == specID # 0
  IN  [tr EXCEPT
         !.id    = IF plz THEN specID ELSE tr.id,
         !.conds = [type \in CondType |->
            IF InitialStatus(type, plz) = "Absent" THEN NoCondition
            ELSE [status |-> InitialStatus(type, plz), time |-> now]]]

(* The switch on the stage in TestRunStatus.SetIfNewer.                     *)
StageAccepts_Any(from, to) == from # to /\ to # ""

StageAccepts(from, to) ==
  /\ from # to
  /\ to # ""
  /\ \/ from \in {"", "initialization"}
     \/ from = "initialized" /\ to \notin {"initialization", "initialized"}
     \/ from = "created"     /\ to \in {"started", "stopped", "finished", "error"}
     \/ from = "started"     /\ to \in {"stopped", "finished", "error"}
     \/ from = "stopped"     /\ to \in {"finished", "error"}

IDAccepts(old, new) ==
  /\ new.conds["CloudTestRunCreated"].status # "Absent"
  /\ old.id = 0
  /\ new.id # 0

SetIfNewer(old, new) ==
  [stage |-> IF StageAccepts(old.stage, new.stage) THEN new.stage ELSE old.stage,
   id    |-> IF IDAccepts(old, new) THEN new.id ELSE old.id,
   conds |-> MergedConditions(old.conds, new.conds)]

IsNewer(old, new) ==
  \/ ConditionsNewer(old.conds, new.conds)
  \/ IDAccepts(old, new)
  \/ StageAccepts(old.stage, new.stage)

(* client.MergeFrom(clean): a JSON merge patch holds the fields of obj that *)
(* differ from clean, and a list that differs is replaced as a whole.       *)
MergePatch(stored, clean, obj) ==
  [stage |-> IF obj.stage # clean.stage THEN obj.stage ELSE stored.stage,
   id    |-> IF obj.id # clean.id THEN obj.id ELSE stored.id,
   conds |-> IF obj.conds # clean.conds THEN obj.conds ELSE stored.conds]
=============================================================================
