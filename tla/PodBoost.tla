------------------------------ MODULE PodBoost ------------------------------
(***************************************************************************)
(* A pod as the boost controller sees it, the operators of                 *)
(* internal/boost/pod that undo a boost, the merge patches they are sent   *)
(* in, and the two duration policies of internal/boost/duration.           *)
(*                                                                         *)
(* The CPU quantities of a pod are abstracted to whether they are the ones *)
(* the pod was written with ("init") or the increased ones ("boosted").    *)
(* The boost label and the boost annotation are written together by the    *)
(* webhook and removed together by revertBoostLabels, so one field stands  *)
(* for both: the name of the boost, or None.                               *)
(***************************************************************************)
EXTENDS Naturals

CONSTANTS
    Pods,      \* pod names of one namespace
    Boosts,    \* names of the StartupCPUBoost objects of that namespace
    None       \* the absence of a pod, of a boost object or of a boost label

\* None is told apart from every name and from every record of the model.
ASSUME NoneAssumption == None \notin Pods \cup Boosts

\* The pod conditions the duration policies look at: not scheduled,
\* PodScheduled=True, and PodScheduled=True with Ready=True.
Conditions == {"Pending", "Scheduled", "Ready"}

PodObject == [pod : Pods, uid : Nat, rv : Nat, cond : Conditions,
              lab : Boosts \cup {None}, res : {"init", "boosted"}]

-----------------------------------------------------------------------------
\* BoostAnnotationFromPod succeeds.
HasBoostAnnotation(obj) == obj.lab # None

\* The number of boosted containers: every boosted pod has one.
boostContainersLen(obj) == IF HasBoostAnnotation(obj) THEN 1 ELSE 0

revertBoostLabels(obj) == [obj EXCEPT !.lab = None]

revertBoostResources(obj) ==
    IF HasBoostAnnotation(obj) THEN [obj EXCEPT !.res = "init"] ELSE obj

\* Mutant: the annotation is gone when the resources are to be read from it.
RevertLabelsBefore(obj) == revertBoostResources(revertBoostLabels(obj))

RevertResourceBoost(obj) == revertBoostLabels(revertBoostResources(obj))

\* What the API server makes of its object srv on the merge patch computed
\* from an in-memory object before and after its mutation: the fields that
\* differ between the two are set, all others are left alone.
MergePatch(srv, before, after) ==
    [srv EXCEPT !.res = IF before.res = after.res THEN @ ELSE after.res,
                !.lab = IF before.lab = after.lab THEN @ ELSE after.lab]

-----------------------------------------------------------------------------
\* Mutant: only the condition is looked at, not the time it was reached.
FixedDurationIgnored(obj, due) == obj.cond = "Pending"

\* FixedDurationPolicy.Valid: due is the set of pods, by name and UID, whose
\* duration has elapsed since their PodScheduled condition turned True.
FixedDurationValid(obj, due) ==
    obj.cond = "Pending" \/ <<obj.pod, obj.uid>> \notin due

\* Mutant: a condition that is listed counts as met, whatever its status.
PodConditionUnlisted(obj) == obj.cond = "Pending"

\* PodConditionPolicy.Valid for the condition Ready=True.
PodConditionValid(obj) == obj.cond # "Ready"
=============================================================================
