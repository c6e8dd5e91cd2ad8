----------------------------- MODULE Conditions -----------------------------
(***************************************************************************)
(* The status conditions both controllers keep on their custom resources   *)
(* (pkg/types/conditions.go) and the rule that merges a proposed list of   *)
(* conditions into the list fetched from the cache.                        *)
(*                                                                         *)
(* A list of conditions is a function from condition types to              *)
(* [status, time]; a type that is not in the list has status "Absent".     *)
(* Times are ticks of the operator's clock: only their order matters.      *)
(***************************************************************************)
EXTENDS Naturals

Status == {"Absent", "Unknown", "True", "False"}

Condition == [status : Status, time : Nat]

NoCondition == [status |-> "Absent", time |-> 0]

IsTrue(conds, type)    == conds[type].status = "True"
IsFalse(conds, type)   == conds[type].status = "False"
IsUnknown(conds, type) == ~IsTrue(conds, type) /\ ~IsFalse(conds, type)

(* meta.SetStatusCondition: the transition time moves only with the status. *)
SetStatusCondition(conds, type, new) ==
  IF conds[type].status = new.status THEN conds ELSE [conds EXCEPT ![type] = new]

UpdateCondition(conds, type, status, now) ==
  SetStatusCondition(conds, type, [status |-> status, time |-> now])

(* A proposed condition is taken when it is new to the list, or when it is  *)
(* not Unknown and its time is later than that of the one in the list.      *)
Accepts(old, new) ==
  /\ new.status # "Absent"
  /\ \/ old.status = "Absent"
     \/ new.status # "Unknown" /\ old.time < new.time

(* (Here and in the modules that follow, a definition named D_x is D with a *)
(* defect: a property is worth checking when such a defect violates it.)    *)

(* The list after SetIfNewer(cond, proposedCond, _), and what it returns.   *)
MergedConditions_Replace(conds, proposed) == proposed

MergedConditions(conds, proposed) ==
  [type \in DOMAIN conds |->
     IF Accepts(conds[type], proposed[type]) /\ conds[type].status # proposed[type].status
     THEN proposed[type] ELSE conds[type]]

ConditionsNewer(conds, proposed) ==
  \E type \in DOMAIN conds : Accepts(conds[type], proposed[type])
=============================================================================
