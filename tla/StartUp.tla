------------------------------ MODULE StartUp ------------------------------
(***************************************************************************)
(* The start of the operator's process (cmd/main.go, internal/config,      *)
(* internal/util) in a rolling update: the replica of the old revision     *)
(* works, the one of the new revision starts, and the Deployment, which    *)
(* has one replica and may not go below it, removes the old one when the   *)
(* readiness probe of the new one succeeds.                                *)
(*                                                                         *)
(* The environment variables are those whose loader may fail, in the order *)
(* of LoadConfig; a value is "true", "false" or "malformed" (for a number: *)
(* any well-formed value is "true").  External: the lease, the certificate *)
(* rotator, the start of the manager's runnables, Deployment and kubelet.  *)
(***************************************************************************)
EXTENDS Naturals, Sequences

CONSTANTS
    Rollouts,  \* environments, clusters and old replicas that are tried
    MaxFaults  \* bound: failed calls of the start, crashes, evictions

ASSUME StartUpAssumption ==
    \A r \in Rollouts : \A v \in DOMAIN r.env : r.env[v] \in {"true", "false", "malformed"}

VARIABLES
    rollout,     \* the member of Rollouts: the new revision's environment variables,
                 \* the samples of kubernetes_feature_enabled, the old one elects a leader
    config,      \* the settings that the process goes by
    podLevel,    \* podLevelResourcesEnabled
    main,        \* where main is
    setup,       \* where the goroutine setupControllers is
    certsReady,  \* the channel is closed
    started,     \* the boost manager's Start runs (IsRunning)
    old,         \* the old replica is there
    lease,       \* "old", "new" or "none"
    faults

processVars == <<config, podLevel, main, setup, certsReady, started>>
clusterVars == <<rollout, old, lease, faults>>
startUpVars == <<processVars, clusterVars>>

-----------------------------------------------------------------------------
\* Configuration.

Loaders == <<"MGR_CHECK_INTERVAL", "LEADER_ELECTION", "SECURE_METRICS", "ZAP_LOG_LEVEL",
             "ZAP_DEVELOPMENT", "HTTP2", "REMOVE_LIMITS", "VALIDATE_FEATURE_ENABLED">>

LoadDefaults == [LEADER_ELECTION |-> FALSE, REMOVE_LIMITS |-> TRUE,
                 VALIDATE_FEATURE_ENABLED |-> TRUE]

Malformed(env, v) == v \in DOMAIN env /\ env[v] = "malformed"

\* A loader returns the errors so far and its own, or, without one, no error.
LoadErrors(env) ==
    LET errs[i \in 0..Len(Loaders)] ==
          IF i > 0 /\ Malformed(env, Loaders[i]) THEN Append(errs[i - 1], Loaders[i]) ELSE <<>>
    IN errs[Len(Loaders)]

\* A malformed Boolean loads as false.
LoadConfig(env) ==
    [v \in DOMAIN LoadDefaults |->
       IF v \in DOMAIN env THEN env[v] = "true" ELSE LoadDefaults[v]]

-----------------------------------------------------------------------------
\* Feature gates.  A sample without a name or a stage is skipped.

GetFeatureGates(samples) ==
    LET named == {s \in samples : s.name # "" /\ s.stage # "none"}
    IN [g \in {s.name : s \in named} |->
          [st \in {s.stage : s \in {n \in named : n.name = g}} |->
             \E s \in named : s.name = g /\ s.stage = st /\ s.value = 1]]

\* Mutant: a gate that is listed counts as enabled.
IsListed(gates, g) == g \in DOMAIN gates

IsEnabledAnyStage(gates, g) ==
    g \in DOMAIN gates /\ \E st \in DOMAIN gates[g] : gates[g][st]

Gates == GetFeatureGates(rollout.samples)
InPlace == IsEnabledAnyStage(Gates, "InPlacePodVerticalScaling")
PodLevel == IsEnabledAnyStage(Gates, "PodLevelResources")

-----------------------------------------------------------------------------
\* main.

\* os.Exit, or a crash.  The lease of a leader that is gone expires.
Exit ==
    /\ main' = "exited" /\ config' = LoadDefaults /\ podLevel' = FALSE
    /\ setup' = "none" /\ certsReady' = FALSE /\ started' = FALSE
    /\ lease' = IF lease = "new" THEN "none" ELSE lease
    /\ UNCHANGED <<rollout, old>>

Fault == faults < MaxFaults /\ faults' = faults + 1

Crash == main # "exited" /\ Fault /\ Exit

\* The kubelet starts the container again.
RestartContainer ==
    /\ main = "exited" /\ main' = "load"
    /\ UNCHANGED <<config, podLevel, setup, certsReady, started, clusterVars>>

Load ==
    /\ main = "load"
    /\ \/ /\ LoadErrors(rollout.env) = <<>>
          /\ main' = "version" /\ config' = LoadConfig(rollout.env)
          /\ UNCHANGED <<podLevel, setup, certsReady, started, clusterVars>>
       \/ LoadErrors(rollout.env) # <<>> /\ Exit /\ UNCHANGED faults

\* A failure is a crash here.
GetClusterVersion ==
    /\ main = "version" /\ main' = "gates"
    /\ UNCHANGED <<config, podLevel, setup, certsReady, started, clusterVars>>

\* validateRequiredFeatureGates.  The start goes on when the gates are unknown.
CheckFeatureGates ==
    /\ main = "gates"
    /\ \/ config.VALIDATE_FEATURE_ENABLED /\ ~InPlace /\ Exit /\ UNCHANGED faults
       \/ /\ main' = "manager"
          /\ \/ ~config.VALIDATE_FEATURE_ENABLED /\ podLevel' = FALSE /\ UNCHANGED faults
             \/ config.VALIDATE_FEATURE_ENABLED /\ podLevel' = FALSE /\ Fault
             \/ /\ config.VALIDATE_FEATURE_ENABLED /\ InPlace
                /\ podLevel' = PodLevel /\ UNCHANGED faults
          /\ UNCHANGED <<config, setup, certsReady, started, rollout, old, lease>>

\* Mutant: setupControllers is called, not started as a goroutine.
SetUpAndStart ==
    /\ main = "manager" /\ setup \in {"none", "ready"}
    /\ IF setup = "ready" THEN main' = "running" /\ UNCHANGED setup
                          ELSE setup' = "waiting" /\ UNCHANGED main
    /\ UNCHANGED <<config, podLevel, certsReady, started, clusterVars>>

\* The manager is made, setupControllers is started as a goroutine, and the
\* manager is started.
StartManager ==
    /\ main = "manager" /\ main' = "running" /\ setup' = "waiting"
    /\ UNCHANGED <<config, podLevel, certsReady, started, clusterVars>>

-----------------------------------------------------------------------------
\* The goroutine setupControllers.  An error in it is a crash.

SetUp(from, to) ==
    /\ setup = from /\ setup' = to
    /\ UNCHANGED <<config, podLevel, main, certsReady, started, clusterVars>>

SetUpWebhooks == certsReady /\ SetUp("waiting", "webhooks")
SetReconciler == SetUp("webhooks", "reconciler")

\* Mutant: the boost controller may be there before the reconciler is set.
SetUpBoostControllerEarly == \E from \in {"webhooks", "reconciler"} : SetUp(from, "boosts")

SetUpBoostController == SetUp("reconciler", "boosts")

\* When it returns, controllersReady is closed.
SetUpGlobalController == SetUp("boosts", "ready")

\* setupReadyzCheck
Ready == setup = "ready" /\ started

-----------------------------------------------------------------------------
\* The running manager: the rotator does not need the lease, the boost manager
\* and the controllers do.

RotateCerts ==
    /\ main = "running" /\ ~certsReady /\ certsReady' = TRUE
    /\ UNCHANGED <<config, podLevel, main, setup, started, clusterVars>>

Elect ==
    /\ main = "running" /\ config.LEADER_ELECTION /\ lease = "none" /\ lease' = "new"
    /\ UNCHANGED <<processVars, rollout, old, faults>>

Leads == main = "running" /\ (config.LEADER_ELECTION => lease = "new")

\* Mutant: the boost manager needs no lease (NeedLeaderElection is false).
StartUnelected ==
    /\ main = "running" /\ ~started /\ started' = TRUE
    /\ UNCHANGED <<config, podLevel, main, setup, certsReady, clusterVars>>

StartBoostManager ==
    /\ Leads /\ ~started /\ started' = TRUE
    /\ UNCHANGED <<config, podLevel, main, setup, certsReady, clusterVars>>

\* The old replica is removed, or evicted.
RemoveOld ==
    /\ old /\ old' = FALSE
    /\ lease' = IF lease = "old" THEN "none" ELSE lease
    /\ UNCHANGED <<processVars, rollout>>

FinishRollout == Ready /\ RemoveOld /\ UNCHANGED faults
EvictOld == Fault /\ RemoveOld

-----------------------------------------------------------------------------
StartUpInit ==
    /\ rollout \in Rollouts
    /\ config = LoadDefaults /\ podLevel = FALSE
    /\ main = "load" /\ setup = "none" /\ certsReady = FALSE /\ started = FALSE
    /\ old = TRUE /\ lease = IF rollout.elects THEN "old" ELSE "none"
    /\ faults = 0

Main ==
    \/ RestartContainer \/ Load \/ GetClusterVersion \/ CheckFeatureGates \/ StartManager
    \/ RotateCerts \/ Elect \/ StartBoostManager \/ FinishRollout
=============================================================================
