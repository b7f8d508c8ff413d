----------------------------- MODULE Admission -----------------------------
(***************************************************************************)
(* A pod passes the mutating webhook                                       *)
(* (internal/webhook/podcpuboost_webhook.go) and is reverted later, while  *)
(* a boost that selects it is created, updated and deleted.  The boosts    *)
(* that reach the controller are those the validating webhook accepted     *)
(* (internal/webhook/startupcpuboost_webhook.go).                          *)
(*                                                                         *)
(* The webhook holds the boost object while it goes through the containers *)
(* and reads its policies without the lock of the object, so an update may *)
(* come between two containers.                                            *)
(***************************************************************************)
EXTENDS PodResources, FiniteSets

CONSTANTS
    BoostSpecs,   \* the boosts users submit
    PodSpecs,     \* the pods users submit
    Wildcard,     \* the container name "*"
    WordBits,     \* width of time.Duration
    Second,       \* one second as a time.Duration
    MaxEvents     \* bound: events of the boost

\* A CPU request is within the CPU limit, where there is one.
WithinLimit(res) == "cpu" \in DOMAIN res.limits => CPU(res.requests) <= CPU(res.limits)

\* The pods are of the types that the API server enforces; it refuses a
\* request above a limit, and two containers of the same name.
ASSUME AdmissionAssumption ==
    /\ WordBits \in Nat \ {0} /\ Second \in Nat \ {0} /\ MaxEvents \in Nat
    /\ \A pod \in PodSpecs :
         LET containers == pod.containers
             init == pod.initContainers
         IN /\ pod = [containers |-> containers, initContainers |-> init,
                      resources |-> pod.resources]
            /\ Len(containers) \in Nat /\ containers = [k \in 1..Len(containers) |-> containers[k]]
            /\ \A k \in DOMAIN containers :
                 IsContainer(containers[k]) /\ WithinLimit(containers[k].resources)
            /\ \A j, k \in DOMAIN containers : containers[j].name = containers[k].name => j = k
            /\ Len(init) \in Nat /\ init = [k \in 1..Len(init) |-> init[k]]
            /\ \A k \in DOMAIN init : IsRequirements(init[k]) /\ WithinLimit(init[k])

VARIABLES
    handler,     \* the settings of podCPUBoostHandler
    objects,     \* the boost objects made so far
    registered,  \* the index of the registered one, or 0
    crash,       \* the specification that made the process panic, or None
    req,         \* the pod: its admission, and what became of it
    events

boostVars == <<objects, registered, crash, events>>
vars == <<handler, boostVars, req>>

-----------------------------------------------------------------------------
\* The validating webhook.

\* The kinds of policy a container policy defines; one is expected.
PolicyKinds(p) == {k \in {"fixed", "percentage"} : p[k] # None}

\* Mutant: a container policy may define both kinds.
validateSomePolicy(policies) == \A i \in DOMAIN policies : PolicyKinds(policies[i]) # {}

validateContainerPolicies(policies) ==
    /\ Cardinality({i \in DOMAIN policies : policies[i].name = Wildcard}) <= 1
    /\ \A i \in DOMAIN policies : Cardinality(PolicyKinds(policies[i])) = 1

\* Mutant: a boost may have both duration policies, or none.
validateNoDuration(policy) == TRUE

validateDurationPolicy(policy) ==
    Cardinality({k \in {"fixed", "podCondition"} : policy[k] # None}) = 1

validate(spec) ==
    /\ validateContainerPolicies(spec.containerPolicies)
    /\ validateDurationPolicy(spec.durationPolicy)

-----------------------------------------------------------------------------
\* The boost object made from a specification.

\* A time.Duration, in two's complement.
Duration(n) ==
    LET m == n % 2^WordBits IN IF m >= 2^(WordBits - 1) THEN m - 2^WordBits ELSE m

Unit(policy) == IF policy.unit = "Minutes" THEN 60 * Second ELSE Second

fixedPolicyToDuration(policy) == Duration(policy.value * Unit(policy))

mapDurationPolicy(policy) ==
    [fixed |-> IF policy.fixed = None THEN None ELSE fixedPolicyToDuration(policy.fixed),
     podCondition |-> policy.podCondition]

\* By container name; the last policy for a name wins.
mapResourcePolicy(policies) ==
    LET names == {policies[i].name : i \in DOMAIN policies}
        last(n) == CHOOSE i \in DOMAIN policies :
                     /\ policies[i].name = n
                     /\ \A j \in DOMAIN policies : policies[j].name = n => j <= i
    IN IF \E i \in DOMAIN policies : Cardinality(PolicyKinds(policies[i])) # 1 THEN None
       ELSE [n \in names |-> policies[last(n)]]

\* None is an error: the selector or a policy cannot be mapped.
NewStartupCPUBoost(spec) ==
    LET policies == mapResourcePolicy(spec.containerPolicies)
    IN IF ~spec.selectorValid \/ policies = None THEN None
       ELSE [resourcePolicies |-> policies,
             durationPolicies |-> mapDurationPolicy(spec.durationPolicy), spec |-> spec]

\* The boosts are of the types that the API server enforces, None is nothing
\* that a part of a boost is mapped to, and what the proofs use of powers.
ASSUME BoostAssumption ==
    /\ None \notin Int /\ 2^(WordBits - 1) \in Nat \ {0} /\ 2^WordBits = 2 * 2^(WordBits - 1)
    /\ \A spec \in BoostSpecs :
         LET policies == spec.containerPolicies
             fixed == spec.durationPolicy.fixed
         IN /\ Len(policies) \in Nat /\ DOMAIN policies = 1..Len(policies)
            /\ \A i \in DOMAIN policies :
                 /\ policies[i].fixed # None => /\ policies[i].fixed.requests \in Int
                                               /\ policies[i].fixed.limits \in Int
                 /\ policies[i].percentage # None => policies[i].percentage \in Nat \ {0}
            /\ fixed # None => fixed.value \in Nat \ {0}
            /\ None \notin [{policies[i].name : i \in DOMAIN policies} -> Range(policies)]
            /\ None # [resourcePolicies |-> mapResourcePolicy(policies),
                       durationPolicies |-> mapDurationPolicy(spec.durationPolicy), spec |-> spec]

\* The policy of the container, or else the wildcard's.
ResourcePolicy(b, name) ==
    CASE name \in DOMAIN b.resourcePolicies -> b.resourcePolicies[name]
      [] name \notin DOMAIN b.resourcePolicies /\ Wildcard \in DOMAIN b.resourcePolicies
           -> b.resourcePolicies[Wildcard]
      [] OTHER -> None

NoRequest == [pc |-> "idle", pod |-> None, containers |-> <<>>, annotation |-> NewBoostAnnotation,
              label |-> FALSE, qos |-> "BestEffort", next |-> 0, boost |-> 0]

\* The pod as it was submitted, with no boost.
Unboosted(pod) == [NoRequest EXCEPT !.pc = "admitted", !.pod = pod, !.containers = pod.containers]

BoostEvent(spec) ==
    /\ crash = None /\ events < MaxEvents /\ validate(spec)
    /\ events' = events + 1
    /\ UNCHANGED handler

\* Create: after an error there is no boost to register, and the process panics.
CreateBoost(spec) ==
    /\ BoostEvent(spec) /\ registered = 0
    /\ IF NewStartupCPUBoost(spec) = None
       THEN /\ crash' = spec
            /\ req' = IF req.pc = "boosting" THEN Unboosted(req.pod) ELSE req
            /\ UNCHANGED <<objects, registered>>
       ELSE /\ objects' = Append(objects, NewStartupCPUBoost(spec))
            /\ registered' = Len(objects')
            /\ UNCHANGED <<crash, req>>

\* Update: UpdateFromSpec leaves the boost alone after an error.
UpdateBoost(spec) ==
    /\ BoostEvent(spec) /\ registered # 0
    /\ objects' = IF NewStartupCPUBoost(spec) = None THEN objects
                  ELSE [objects EXCEPT ![registered] = NewStartupCPUBoost(spec)]
    /\ UNCHANGED <<registered, crash, req>>

\* Mutant: the object is gone while the webhook still holds it.
DeleteFreesBoost ==
    /\ crash = None /\ events < MaxEvents /\ registered # 0
    /\ objects' = <<>> /\ registered' = 0 /\ events' = events + 1
    /\ UNCHANGED <<handler, crash, req>>

DeleteBoost ==
    /\ crash = None /\ events < MaxEvents /\ registered # 0
    /\ registered' = 0 /\ events' = events + 1
    /\ UNCHANGED <<handler, objects, crash, req>>

-----------------------------------------------------------------------------
\* The mutating webhook.

resizeRequiresRestart(c) ==
    "cpu" \in DOMAIN c.resizePolicy /\ c.resizePolicy["cpu"] = "RestartContainer"

hasResourcesToIncrease(c) == CPU(c.resources.requests) # 0 \/ CPU(c.resources.limits) # 0

WithContainers(pod, containers) == [pod EXCEPT !.containers = containers]
QOS(pod) == computePodQOS(pod, handler.podLevelResourcesEnabled)

\* Mutant: the class is not compared.
ResizeUnchecked(k, resources) == FALSE

\* The pod is the one whose earlier containers have been increased already.
containerResizeChangesQosClass(k, resources) ==
    QOS(WithContainers(req.pod, [req.containers EXCEPT ![k].resources = resources])) # req.qos

\* Mutant: the limits of burstable pods stay.
canRemoveNoLimit(class) == handler.removeLimits /\ class = "BestEffort"

canRemoveLimit(class) == handler.removeLimits /\ class \in {"Burstable", "BestEffort"}

\* The resources without the CPU limit, where it may be removed.
FinalResources(resources) ==
    IF CPU(resources.limits) # 0 /\ canRemoveLimit(req.qos)
    THEN [resources EXCEPT !.limits = Without(@, "cpu")]
    ELSE resources

\* The API server ignores that the webhook is not there.
AdmitPod(pod) ==
    /\ req.pc = "idle"
    /\ req' = IF crash # None \/ registered = 0 THEN Unboosted(pod)
              ELSE [Unboosted(pod) EXCEPT !.pc = "boosting", !.qos = QOS(pod), !.next = 1,
                                          !.boost = registered]
    /\ UNCHANGED <<handler, boostVars>>

\* The body of the loop of boostContainerResources.
BoostContainer ==
    /\ req.pc = "boosting" /\ req.next \in DOMAIN req.containers
    /\ LET k == req.next
           c == req.containers[k]
           policy == ResourcePolicy(objects[req.boost], c.name)
           new == NewResources(policy, c.resources)
       IN req' = IF \/ policy = None
                    \/ resizeRequiresRestart(c)
                    \/ ~hasResourcesToIncrease(c)
                    \/ containerResizeChangesQosClass(k, new)
                 THEN [req EXCEPT !.next = k + 1]
                 ELSE [req EXCEPT !.next = k + 1,
                         !.annotation = updateBoostAnnotation(@, c.name, c.resources),
                         !.containers[k].resources = FinalResources(new)]
    /\ UNCHANGED <<handler, boostVars>>

\* Mutant: a pod is labelled for its limits only.
LabelLimitsOnly(annotation) == annotation.initCPULimits # <<>>

NeedsLabel(annotation) ==
    annotation.initCPULimits # <<>> \/ annotation.initCPURequests # <<>>

FinishAdmission ==
    /\ req.pc = "boosting" /\ req.next \notin DOMAIN req.containers
    /\ req' = [req EXCEPT !.pc = "admitted", !.label = NeedsLabel(req.annotation)]
    /\ UNCHANGED <<handler, boostVars>>

\* The API server does not wait for the answer: the pod stays as it is.
WebhookTimeout ==
    /\ req.pc = "boosting"
    /\ req' = Unboosted(req.pod)
    /\ UNCHANGED <<handler, boostVars>>

\* Reversion: the API server refuses a resize that changes the QoS class.
RevertPod ==
    /\ crash = None /\ req.pc = "admitted" /\ req.label
    /\ LET containers == revertBoostResources(req.containers, req.annotation)
       IN /\ QOS(WithContainers(req.pod, containers)) = QOS(WithContainers(req.pod, req.containers))
          /\ req' = [req EXCEPT !.pc = "reverted", !.containers = containers,
                                !.annotation = NewBoostAnnotation, !.label = FALSE]
    /\ UNCHANGED <<handler, boostVars>>

DeletePod ==
    /\ req.pc \in {"admitted", "reverted"}
    /\ req' = NoRequest
    /\ UNCHANGED <<handler, boostVars>>

\* A new process, with no boosts yet.
Restart ==
    /\ crash # None
    /\ crash' = None /\ objects' = <<>> /\ registered' = 0
    /\ UNCHANGED <<handler, req, events>>

Init ==
    /\ handler \in [removeLimits : BOOLEAN, podLevelResourcesEnabled : BOOLEAN]
    /\ objects = <<>> /\ registered = 0 /\ crash = None /\ events = 0
    /\ req = NoRequest

Next ==
    \/ \E spec \in BoostSpecs : CreateBoost(spec) \/ UpdateBoost(spec)
    \/ DeleteBoost
    \/ \E pod \in PodSpecs : AdmitPod(pod)
    \/ BoostContainer \/ FinishAdmission \/ WebhookTimeout
    \/ RevertPod \/ DeletePod \/ Restart

Spec == Init /\ [][Next]_vars

-----------------------------------------------------------------------------
\* The types of the variables.
AdmissionTypeOK ==
    /\ handler \in [removeLimits : BOOLEAN, podLevelResourcesEnabled : BOOLEAN]
    /\ registered \in 0..Len(objects) /\ events \in 0..MaxEvents
    /\ crash \in BoostSpecs \cup {None}
    /\ req.pc \in {"idle", "boosting", "admitted", "reverted"}
    /\ req.pc # "idle" => req.pod \in PodSpecs /\ DOMAIN req.containers = DOMAIN req.pod.containers
    /\ req.pc = "boosting" => req.boost \in DOMAIN objects
    /\ \A k \in DOMAIN req.containers : IsRequirements(req.containers[k].resources)

\* What the annotation says undoes the increase exactly, in every container and
\* at every step, whatever updates of the boost came between two containers
\* (updateBoostAnnotation, revertBoostResources).
RevertRestores ==
    req.pc # "idle" =>
        revertBoostResources(req.containers, req.annotation) = req.pod.containers

\* A pod with increased resources has the label by which the controller
\* watches it, or nothing would ever revert it (boostContainerResources).
BoostedPodsLabelled ==
    req.pc \in {"admitted", "reverted"} /\ ~req.label => req.containers = req.pod.containers

\* A CPU limit comes with a CPU request that is not zero.
LimitsWithRequests(pod) ==
    \A k \in DOMAIN pod.containers : CPU(pod.containers[k].resources.limits) # 0
                                       => CPU(pod.containers[k].resources.requests) # 0

\* No increase changes the QoS class of a pod whose CPU limits all come with
\* requests, so that the API server accepts the reversion; the class is
\* compared container by container and before a limit is removed
\* (containerResizeChangesQosClass).
QosKept ==
    req.pc # "idle" /\ LimitsWithRequests(req.pod) =>
        QOS(WithContainers(req.pod, req.containers)) = QOS(req.pod)

\* Where limits are removed and the pod has no resources of its own, no
\* increase lifts a CPU request above the CPU limit of its container, which
\* the API server would refuse (canRemoveLimit, containerResizeChangesQosClass).
RequestsWithinLimits ==
    (/\ handler.removeLimits /\ req.pc # "idle"
     /\ req.pod.resources = None \/ ~handler.podLevelResourcesEnabled)
    => \A k \in DOMAIN req.containers : WithinLimit(req.containers[k].resources)

\* No increase lowers a CPU quantity that stays (setResource, increaseQuantity).
NothingLowered ==
    req.pc # "idle" =>
        \A k \in DOMAIN req.containers :
            LET new == req.containers[k].resources
                old == req.pod.containers[k].resources
            IN /\ CPU(new.requests) >= CPU(old.requests)
               /\ "cpu" \in DOMAIN new.limits => CPU(new.limits) >= CPU(old.limits)

\* A boost the validating webhook accepted panics the process only for its
\* selector, which the webhook does not look at: every policy it accepts can
\* be mapped (validate, mapResourcePolicy).
AcceptedPoliciesMap == crash # None => ~crash.selectorValid

\* Every boost object ends the boost of its pods in exactly one way, and a
\* fixed duration that fits into a time.Duration is positive
\* (validateDurationPolicy, mapDurationPolicy, fixedPolicyToDuration).
BoostsEnd ==
    \A i \in DOMAIN objects :
        LET d == objects[i].durationPolicies
            fixed == objects[i].spec.durationPolicy.fixed
        IN /\ (d.fixed = None) # (d.podCondition = None)
           /\ d.fixed # None /\ fixed.value * Unit(fixed) < 2^(WordBits - 1) => d.fixed > 0
=============================================================================
