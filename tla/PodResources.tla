---------------------------- MODULE PodResources ----------------------------
(***************************************************************************)
(* CPU and memory of the containers of a pod: the QoS class                *)
(* (internal/webhook/qos.go), the resource policies that increase the CPU  *)
(* of a container (internal/boost/resource), and the annotation that holds *)
(* what it was before (internal/boost/pod).                                *)
(*                                                                         *)
(* A resource list maps the resources it has a key for to quantities: CPU  *)
(* in millicores, memory in any unit.  Other resources count for nothing.  *)
(***************************************************************************)
EXTENDS Integers, Sequences, Functions

CONSTANT None    \* no policy, no pod-level resources

Resources == {"cpu", "memory"}
IsResourceList(list) == \E S \in SUBSET Resources : list \in [S -> Nat]
IsRequirements(res) ==
    /\ res = [requests |-> res.requests, limits |-> res.limits]
    /\ IsResourceList(res.requests) /\ IsResourceList(res.limits)
IsContainer(c) ==
    /\ c = [name |-> c.name, resources |-> c.resources, resizePolicy |-> c.resizePolicy]
    /\ IsRequirements(c.resources)

\* A missing key reads as zero.
Quantity(list, r) == IF r \in DOMAIN list THEN list[r] ELSE 0
CPU(list) == Quantity(list, "cpu")

With(f, x, y) == [z \in DOMAIN f \cup {x} |-> IF z = x THEN y ELSE f[z]]
Without(f, x) == Restrict(f, DOMAIN f \ {x})

-----------------------------------------------------------------------------
\* computePodQOS, over the resources of a pod or of all its containers.

getQOSResources(list) == {r \in DOMAIN list : list[r] > 0}

\* processResourceList adds up the positive quantities.
Total(lists, r) == FoldFunction(+, 0, [k \in DOMAIN lists |-> Quantity(lists[k], r)])

QOSParts(pod, podLevelResourcesEnabled) ==
    IF podLevelResourcesEnabled /\ pod.resources # None THEN <<pod.resources>>
    ELSE [k \in DOMAIN pod.containers |-> pod.containers[k].resources] \o pod.initContainers

computePodQOS(pod, podLevelResourcesEnabled) ==
    LET parts == QOSParts(pod, podLevelResourcesEnabled)
        requests == [r \in Resources |-> Total([k \in DOMAIN parts |-> parts[k].requests], r)]
        limits == [r \in Resources |-> Total([k \in DOMAIN parts |-> parts[k].limits], r)]
    IN CASE \A r \in Resources : requests[r] = 0 /\ limits[r] = 0 -> "BestEffort"
         [] /\ \E r \in Resources : requests[r] # 0 \/ limits[r] # 0
            /\ \A k \in DOMAIN parts : getQOSResources(parts[k].limits) = Resources
            /\ requests = limits                                  -> "Guaranteed"
         [] OTHER                                                 -> "Burstable"

-----------------------------------------------------------------------------
\* The resource policies.

\* Mutant: a target below the current quantity is set as well.
setResourceAlways(list, target) ==
    IF target = 0 \/ "cpu" \notin DOMAIN list THEN list ELSE [list EXCEPT !["cpu"] = target]

\* FixedPolicy: a quantity that exists is raised to the target, never lowered.
setResource(list, target) ==
    IF target = 0 \/ "cpu" \notin DOMAIN list \/ target < CPU(list) THEN list
    ELSE [list EXCEPT !["cpu"] = target]

\* By so many percent, rounded up to hundredths of a core.
increaseQuantity(q, incPerc) == 10 * ((q * (100 + incPerc) + 999) \div 1000)

increaseResource(list, percentage) ==
    IF "cpu" \in DOMAIN list
    THEN [list EXCEPT !["cpu"] = increaseQuantity(@, percentage)] ELSE list

\* A policy has either fixed targets or a percentage.
NewResources(policy, res) ==
    IF policy.fixed # None
    THEN [requests |-> setResource(res.requests, policy.fixed.requests),
          limits   |-> setResource(res.limits, policy.fixed.limits)]
    ELSE [requests |-> increaseResource(res.requests, policy.percentage),
          limits   |-> increaseResource(res.limits, policy.percentage)]

-----------------------------------------------------------------------------
\* The boost annotation: the CPU of the boosted containers, by name.

NewBoostAnnotation == [initCPURequests |-> <<>>, initCPULimits |-> <<>>]

\* Mutant: no limit is recorded.
AnnotateRequests(annotation, name, res) ==
    [annotation EXCEPT
        !.initCPURequests = IF "cpu" \in DOMAIN res.requests
                            THEN With(@, name, res.requests["cpu"]) ELSE @]

updateBoostAnnotation(annotation, name, res) ==
    [initCPURequests |-> IF "cpu" \in DOMAIN res.requests
                         THEN With(annotation.initCPURequests, name, res.requests["cpu"])
                         ELSE annotation.initCPURequests,
     initCPULimits   |-> IF "cpu" \in DOMAIN res.limits
                         THEN With(annotation.initCPULimits, name, res.limits["cpu"])
                         ELSE annotation.initCPULimits]

\* Puts back what the annotation has for a container; a quantity written to
\* the annotation reads back as the same quantity.
revertContainer(c, annotation) ==
    [c EXCEPT !.resources =
        [requests |-> IF c.name \in DOMAIN annotation.initCPURequests
                      THEN With(@.requests, "cpu", annotation.initCPURequests[c.name])
                      ELSE @.requests,
         limits   |-> IF c.name \in DOMAIN annotation.initCPULimits
                      THEN With(@.limits, "cpu", annotation.initCPULimits[c.name])
                      ELSE @.limits]]

revertBoostResources(containers, annotation) ==
    [k \in DOMAIN containers |-> revertContainer(containers[k], annotation)]
=============================================================================
