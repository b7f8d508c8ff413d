------------------------------ MODULE Operator ------------------------------
(***************************************************************************)
(* The new replica of a rolling update, from its start to its time checks: *)
(* the boost manager ticks as soon as it runs, boosts are registered by    *)
(* the boost controller, and the reconciler is set by a goroutine.         *)
(***************************************************************************)
EXTENDS StartUp, RevertPipeline

vars == <<startUpVars, pipelineVars>>

Init == StartUpInit /\ PipelineInit

\* A process that exits loses its memory.
Start == Main /\ IF main' = "exited" THEN LosePipeline ELSE UNCHANGED pipelineVars

SetupController ==
    \/ SetReconciler /\ SetStartupCPUBoostReconciler
    \/ /\ SetUpWebhooks \/ SetUpBoostController \/ SetUpGlobalController
       /\ UNCHANGED pipelineVars

Fail ==
    \/ Crash /\ LosePipeline
    \/ EvictOld /\ UNCHANGED pipelineVars

\* The boost controller, which registers boosts, is set up and may run.
Registering == setup \in {"boosts", "ready"} /\ Leads

Tick ==
    /\ started
    /\ \E boosts \in SUBSET (IF Registering THEN Boosts ELSE {}) : StartCheck(boosts)
    /\ UNCHANGED startUpVars

Checking(step) == step /\ UNCHANGED startUpVars

Next == Start \/ SetupController \/ Fail \/ Tick \/ Checking(PipelineStep)

\* The goroutines of the process run, and so do the kubelet, the Deployment
\* and the manager of the process; nothing makes a call fail or a tick come.
Fairness ==
    /\ WF_vars(Start) /\ WF_vars(SetupController)
    /\ WF_vars(Checking(Producer)) /\ WF_vars(Checking(CloseResults))
    /\ WF_vars(Checking(LogError)) /\ WF_vars(Checking(Caller))
    /\ \A w \in Workers : WF_vars(Checking(Work(w)))

Spec == Init /\ [][Next]_vars /\ Fairness

-----------------------------------------------------------------------------
\* A time check ends, whatever the number of overdue pods and failures, though
\* every channel is bounded: the manager's loop gets to its next tick.
CheckEnds == (caller # "idle") ~> (caller = "idle")

\* No time check drops the boosts to be reconciled for want of a reconciler:
\* it is set, without synchronisation, before there is a boost to check.
NoReconcileLost == requests # {} \/ reconcileTasks # <<>> => reconciler

BothElect == rollout.elects /\ LoadConfig(rollout.env).LEADER_ELECTION

\* With leader election in both revisions, the boost manager of the new one
\* does not run while the old replica is there ("only one active controller
\* manager").
OneActive == old /\ rollout.elects /\ config.LEADER_ELECTION => ~started

\* The cluster reports the gate as enabled at some stage.
Enabled(gate) == \E s \in rollout.samples : s.name = gate /\ s.stage # "none" /\ s.value = 1

\* A process whose environment does not switch the validation off, and that
\* could read the feature gates, gets to run its manager only in a cluster with
\* in-place resizes, and computes QoS classes as the cluster does.
GatesRespected ==
    (/\ main = "running" /\ faults = 0
     /\ ~(/\ "VALIDATE_FEATURE_ENABLED" \in DOMAIN rollout.env
          /\ rollout.env["VALIDATE_FEATURE_ENABLED"] = "false"))
    => Enabled("InPlacePodVerticalScaling") /\ (podLevel <=> Enabled("PodLevelResources"))

\* The rolling update of a revision that can start completes, unless both
\* revisions elect a leader: then the new replica is ready only with the lease,
\* and the old one keeps it until the new one is ready.
RolloutCompletes ==
    (/\ LoadErrors(rollout.env) = <<>>
     /\ LoadConfig(rollout.env).VALIDATE_FEATURE_ENABLED => InPlace
     /\ ~BothElect)
    => <>[](Ready /\ ~old)
=============================================================================
