----------------------------- MODULE TimeCheck -----------------------------
(***************************************************************************)
(* What a time check of the boost manager promises (the specification that *)
(* RevertPipeline implements): the pods found overdue are each reverted    *)
(* once, a boost is reconciled once for its successful reversions, after   *)
(* all reversions, and no check starts before the previous one has ended.  *)
(***************************************************************************)
EXTENDS Naturals

CONSTANTS
    Boosts,
    Tasks    \* pairs of a boost and a pod it tracks

VARIABLES
    phase,    \* "idle", "reverting" or "reconciling"
    due,      \* the tasks of this check
    outcome,  \* of the reversions that were attempted
    owed      \* the boosts still to be reconciled

vars == <<phase, due, outcome, owed>>

Begin ==
    /\ phase = "idle" /\ phase' = "reverting"
    /\ due' = {} /\ outcome' = [t \in {} |-> "ok"] /\ owed' = {}

\* A boost is asked once for the pods whose duration has elapsed.
Find(b, tasks) ==
    /\ phase = "reverting" /\ \A t \in due : t[1] # b
    /\ due' = due \cup tasks
    /\ UNCHANGED <<phase, outcome, owed>>

Revert(t, o) ==
    /\ phase = "reverting" /\ t \in due \ DOMAIN outcome
    /\ outcome' = [u \in DOMAIN outcome \cup {t} |-> IF u = t THEN o ELSE outcome[u]]
    /\ UNCHANGED <<phase, due, owed>>

Reverted == {b \in Boosts : \E t \in DOMAIN outcome : t[1] = b /\ outcome[t] = "ok"}

\* Without a reconciler there is nothing to reconcile.
Collect ==
    /\ phase = "reverting" /\ DOMAIN outcome = due
    /\ phase' = "reconciling" /\ owed' \in {Reverted, {}}
    /\ UNCHANGED <<due, outcome>>

Reconcile(b) ==
    /\ phase = "reconciling" /\ b \in owed
    /\ owed' = owed \ {b}
    /\ UNCHANGED <<phase, due, outcome>>

End ==
    /\ phase = "reconciling" /\ owed = {}
    /\ phase' = "idle"
    /\ UNCHANGED <<due, outcome, owed>>

\* The process ends, in the middle of a check or not.
Abandon ==
    /\ phase' = "idle" /\ due' = {} /\ owed' = {}
    /\ outcome' = [t \in {} |-> "ok"]

Init ==
    /\ phase = "idle" /\ due = {} /\ owed = {}
    /\ outcome = [t \in {} |-> "ok"]

Next ==
    \/ Begin \/ Collect \/ End \/ Abandon
    \/ \E b \in Boosts : \E tasks \in SUBSET {t \in Tasks : t[1] = b} : Find(b, tasks)
    \/ \E t \in Tasks, o \in {"ok", "failed"} : Revert(t, o)
    \/ \E b \in Boosts : Reconcile(b)

Spec == Init /\ [][Next]_vars
=============================================================================
