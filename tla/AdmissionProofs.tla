-------------------------- MODULE AdmissionProofs --------------------------
(***************************************************************************)
(* Proofs about Admission, for any pods, boosts and policies.  The boost   *)
(* annotation undoes an increase exactly, and no increased pod lacks the   *)
(* label by which it is found (AdmissionInv); the boost objects come from  *)
(* accepted specifications (ObjectsInv); no quantity is lowered            *)
(* (RaisedInv); and the QoS class stays (QosInv), which needs sums over    *)
(* the containers: the induction takes the least size of a set of          *)
(* containers for which a fact about the sum fails.                        *)
(***************************************************************************)
EXTENDS Admission, TLAPS, FiniteSetTheorems, SequenceTheorems, WellFoundedInduction

-----------------------------------------------------------------------------
\* A list in which at most the CPU quantity of another one was changed.
CpuOnly(new, list) ==
    /\ new = [r \in DOMAIN list |-> new[r]]
    /\ \A r \in DOMAIN list \ {"cpu"} : new[r] = list[r]
    /\ "cpu" \notin DOMAIN list => new = list

LEMMA ListFunction ==
    ASSUME NEW list, IsResourceList(list)
    PROVE  list = [r \in DOMAIN list |-> list[r]]
BY DEF IsResourceList

LEMMA SetResourceCpuOnly ==
    ASSUME NEW list, NEW target, IsResourceList(list)
    PROVE  CpuOnly(setResource(list, target), list)
BY ListFunction DEF setResource, CpuOnly

LEMMA IncreaseResourceCpuOnly ==
    ASSUME NEW list, NEW percentage, IsResourceList(list)
    PROVE  CpuOnly(increaseResource(list, percentage), list)
BY ListFunction DEF increaseResource, CpuOnly

\* A resource policy changes CPU quantities, and adds none.
LEMMA NewResourcesCpuOnly ==
    ASSUME NEW policy, NEW res, IsRequirements(res)
    PROVE  /\ CpuOnly(NewResources(policy, res).requests, res.requests)
           /\ CpuOnly(NewResources(policy, res).limits, res.limits)
BY SetResourceCpuOnly, IncreaseResourceCpuOnly DEF NewResources, IsRequirements

\* The CPU quantity put back into a changed list gives the list.
LEMMA PutBack ==
    ASSUME NEW new, NEW list, IsResourceList(list), CpuOnly(new, list), "cpu" \in DOMAIN list
    PROVE  /\ With(new, "cpu", list["cpu"]) = list
           /\ With(Without(new, "cpu"), "cpu", list["cpu"]) = list
<1>1. list = [r \in DOMAIN list |-> list[r]]
  BY ListFunction
<1>2. /\ DOMAIN new = DOMAIN list
      /\ Without(new, "cpu") = [r \in DOMAIN list \ {"cpu"} |-> list[r]]
  BY DEF CpuOnly, Without, Restrict
<1>3. \A r \in DOMAIN list \ {"cpu"} : new[r] = list[r]
  BY DEF CpuOnly
<1>4. With(new, "cpu", list["cpu"]) = [r \in DOMAIN list |-> list[r]]
  <2>1. DOMAIN new \cup {"cpu"} = DOMAIN list
    BY <1>2
  <2>2. \A r \in DOMAIN list : (IF r = "cpu" THEN list["cpu"] ELSE new[r]) = list[r]
    BY <1>3
  <2> QED
    BY <2>1, <2>2 DEF With
<1>5. With(Without(new, "cpu"), "cpu", list["cpu"]) = [r \in DOMAIN list |-> list[r]]
  <2> DEFINE rest == [r \in DOMAIN list \ {"cpu"} |-> list[r]]
  <2>1. DOMAIN rest \cup {"cpu"} = DOMAIN list
    OBVIOUS
  <2>2. \A r \in DOMAIN list : (IF r = "cpu" THEN list["cpu"] ELSE rest[r]) = list[r]
    OBVIOUS
  <2>3. With(rest, "cpu", list["cpu"]) = [r \in DOMAIN list |-> list[r]]
    <3> HIDE DEF rest
    <3> QED
      BY <2>1, <2>2 DEF With
  <2> QED
    BY <1>2, <2>3
<1> QED
  BY <1>1, <1>4, <1>5

-----------------------------------------------------------------------------
\* The annotation without an entry for a container.
NotAnnotated(annotation, name) ==
    /\ name \notin DOMAIN annotation.initCPURequests
    /\ name \notin DOMAIN annotation.initCPULimits

\* A container, whatever its quantities.
IsShaped(c) ==
    c = [name |-> c.name,
         resources |-> [requests |-> c.resources.requests, limits |-> c.resources.limits],
         resizePolicy |-> c.resizePolicy]

LEMMA RevertUnannotated ==
    ASSUME NEW c, IsShaped(c), NEW annotation, NotAnnotated(annotation, c.name)
    PROVE  revertContainer(c, annotation) = c
BY DEF IsShaped, NotAnnotated, revertContainer

LEMMA ContainersShaped ==
    ASSUME NEW c, IsContainer(c)
    PROVE  IsShaped(c)
BY DEF IsContainer, IsRequirements, IsShaped

\* An entry for another container does not matter.
LEMMA RevertOther ==
    ASSUME NEW c, NEW annotation, NEW name, NEW res, c.name # name
    PROVE  /\ revertContainer(c, updateBoostAnnotation(annotation, name, res))
                = revertContainer(c, annotation)
           /\ NotAnnotated(annotation, c.name)
                => NotAnnotated(updateBoostAnnotation(annotation, name, res), c.name)
<1> DEFINE a == updateBoostAnnotation(annotation, name, res)
<1>1. /\ c.name \in DOMAIN a.initCPURequests <=> c.name \in DOMAIN annotation.initCPURequests
      /\ c.name \in DOMAIN annotation.initCPURequests
           => a.initCPURequests[c.name] = annotation.initCPURequests[c.name]
  BY DEF updateBoostAnnotation, With
<1>2. /\ c.name \in DOMAIN a.initCPULimits <=> c.name \in DOMAIN annotation.initCPULimits
      /\ c.name \in DOMAIN annotation.initCPULimits
           => a.initCPULimits[c.name] = annotation.initCPULimits[c.name]
  BY DEF updateBoostAnnotation, With
<1> HIDE DEF a
<1>3. revertContainer(c, a) = revertContainer(c, annotation)
  BY <1>1, <1>2 DEF revertContainer
<1>4. NotAnnotated(annotation, c.name) => NotAnnotated(a, c.name)
  BY <1>1, <1>2 DEF NotAnnotated
<1> QED
  BY <1>3, <1>4 DEF a

\* An increase of a container is undone by the annotation made with it.
LEMMA RevertIncreased ==
    ASSUME NEW c, IsContainer(c), NEW policy, NEW annotation, NotAnnotated(annotation, c.name)
    PROVE  revertContainer(
              [c EXCEPT !.resources = FinalResources(NewResources(policy, c.resources))],
              updateBoostAnnotation(annotation, c.name, c.resources)) = c
<1> DEFINE old == c.resources
           new == NewResources(policy, old)
           final == FinalResources(new)
           a == updateBoostAnnotation(annotation, c.name, old)
           d == [c EXCEPT !.resources = final]
<1>1. IsResourceList(old.requests) /\ IsResourceList(old.limits)
  BY DEF IsContainer, IsRequirements
<1>2. CpuOnly(new.requests, old.requests) /\ CpuOnly(new.limits, old.limits)
  BY NewResourcesCpuOnly DEF IsContainer
<1>3. new = [requests |-> new.requests, limits |-> new.limits]
  BY DEF NewResources
<1> HIDE DEF new
<1>4. /\ final.requests = new.requests
      /\ final.limits \in {new.limits, Without(new.limits, "cpu")}
      /\ "cpu" \notin DOMAIN new.limits => final.limits = new.limits
  BY <1>3 DEF FinalResources, CPU, Quantity
<1> HIDE DEF final
<1>5. d = [name |-> c.name, resources |-> final, resizePolicy |-> c.resizePolicy]
  BY DEF IsContainer
<1>6. /\ "cpu" \in DOMAIN old.requests => /\ c.name \in DOMAIN a.initCPURequests
                                          /\ a.initCPURequests[c.name] = old.requests["cpu"]
      /\ "cpu" \notin DOMAIN old.requests => c.name \notin DOMAIN a.initCPURequests
  BY DEF updateBoostAnnotation, With, NotAnnotated
<1>7. /\ "cpu" \in DOMAIN old.limits => /\ c.name \in DOMAIN a.initCPULimits
                                        /\ a.initCPULimits[c.name] = old.limits["cpu"]
      /\ "cpu" \notin DOMAIN old.limits => c.name \notin DOMAIN a.initCPULimits
  BY DEF updateBoostAnnotation, With, NotAnnotated
<1> HIDE DEF a, d
<1>8. (IF c.name \in DOMAIN a.initCPURequests
       THEN With(final.requests, "cpu", a.initCPURequests[c.name])
       ELSE final.requests) = old.requests
  BY <1>1, <1>2, <1>4, <1>6, PutBack DEF CpuOnly
<1>9. (IF c.name \in DOMAIN a.initCPULimits
       THEN With(final.limits, "cpu", a.initCPULimits[c.name])
       ELSE final.limits) = old.limits
  <2>1. CASE "cpu" \in DOMAIN old.limits
    BY <2>1, <1>1, <1>2, <1>4, <1>7, PutBack
  <2>2. CASE "cpu" \notin DOMAIN old.limits
    BY <2>2, <1>2, <1>4, <1>7 DEF CpuOnly
  <2> QED
    BY <2>1, <2>2
<1>10. revertContainer(d, a) = [name |-> c.name, resources |-> old,
                                resizePolicy |-> c.resizePolicy]
  <2>1. revertContainer(d, a)
          = [d EXCEPT !.resources = [requests |-> old.requests, limits |-> old.limits]]
    BY <1>5, <1>8, <1>9 DEF revertContainer
  <2>2. old = [requests |-> old.requests, limits |-> old.limits]
    BY DEF IsContainer, IsRequirements
  <2> QED
    BY <1>5, <2>1, <2>2
<1> QED
  BY <1>10 DEF a, d, final, new, IsContainer

-----------------------------------------------------------------------------
\* The inductive invariant: every container can be restored, one by one; those
\* the webhook has yet to reach are as submitted; a pod without the label has
\* an empty annotation.

IsReq ==
    req = [pc |-> req.pc, pod |-> req.pod, containers |-> req.containers,
           annotation |-> req.annotation, label |-> req.label, qos |-> req.qos,
           next |-> req.next, boost |-> req.boost]

IsPod ==
    /\ req.pod \in PodSpecs
    /\ req.containers = [k \in DOMAIN req.pod.containers |-> req.containers[k]]

RestorableAt(k) ==
    /\ IsShaped(req.containers[k]) /\ req.containers[k].name = req.pod.containers[k].name
    /\ revertContainer(req.containers[k], req.annotation) = req.pod.containers[k]
    /\ req.pc = "boosting" /\ k >= req.next =>
         /\ req.containers[k] = req.pod.containers[k]
         /\ NotAnnotated(req.annotation, req.pod.containers[k].name)

EmptyAnnotation ==
    req.annotation.initCPULimits = <<>> /\ req.annotation.initCPURequests = <<>>

Restorable ==
    req.pc # "idle" =>
      /\ IsPod
      /\ \A k \in DOMAIN req.pod.containers : RestorableAt(k)
      /\ req.pc = "boosting" => req.next \in Nat
      /\ req.pc \in {"admitted", "reverted"} /\ ~req.label => EmptyAnnotation

AdmissionInv == IsReq /\ Restorable

\* The facts of a pod that the assumption states.
LEMMA PodFacts ==
    ASSUME NEW pod \in PodSpecs
    PROVE  /\ DOMAIN pod.containers \subseteq Nat
           /\ pod.containers = [k \in DOMAIN pod.containers |-> pod.containers[k]]
           /\ \A k \in DOMAIN pod.containers : IsContainer(pod.containers[k])
           /\ \A j, k \in DOMAIN pod.containers :
                pod.containers[j].name = pod.containers[k].name => j = k
<1>1. /\ Len(pod.containers) \in Nat
      /\ pod.containers = [k \in 1..Len(pod.containers) |-> pod.containers[k]]
      /\ \A k \in DOMAIN pod.containers : IsContainer(pod.containers[k])
      /\ \A j, k \in DOMAIN pod.containers :
           pod.containers[j].name = pod.containers[k].name => j = k
  BY AdmissionAssumption
<1>2. DOMAIN pod.containers = 1..Len(pod.containers)
  BY <1>1
<1> QED
  BY <1>1, <1>2

\* A pod as submitted, with an empty annotation, satisfies the invariant.
LEMMA SubmittedRestorable ==
    ASSUME IsReq', req'.pod \in PodSpecs, req'.containers = req'.pod.containers,
           req'.annotation = NewBoostAnnotation, req'.next \in Nat
    PROVE  AdmissionInv'
<1>1. IsPod'
  BY PodFacts DEF IsPod
<1>2. EmptyAnnotation' /\ \A name : NotAnnotated(req'.annotation, name)
  BY DEF EmptyAnnotation, NotAnnotated, NewBoostAnnotation
<1>3. ASSUME NEW k \in DOMAIN req'.pod.containers
      PROVE  RestorableAt(k)'
  <2>1. IsShaped(req'.containers[k])
    BY PodFacts, ContainersShaped
  <2>2. revertContainer(req'.containers[k], req'.annotation) = req'.pod.containers[k]
    BY <1>2, <2>1, RevertUnannotated
  <2> QED
    BY <1>2, <2>1, <2>2 DEF RestorableAt
<1> QED
  BY <1>1, <1>2, <1>3 DEF AdmissionInv, Restorable

LEMMA UnboostedRestorable ==
    ASSUME NEW pod \in PodSpecs, req' = Unboosted(pod)
    PROVE  AdmissionInv'
<1>1. /\ IsReq' /\ req'.pod = pod /\ req'.containers = pod.containers
      /\ req'.annotation = NewBoostAnnotation /\ req'.next \in Nat
  BY DEF Unboosted, NoRequest, IsReq
<1> QED
  BY <1>1, SubmittedRestorable

LEMMA IdleRestorable == req' = NoRequest => AdmissionInv'
BY DEF NoRequest, AdmissionInv, IsReq, Restorable

LEMMA QuietRestorable == AdmissionInv /\ req' = req => AdmissionInv'
BY DEF AdmissionInv, IsReq, Restorable, IsPod, RestorableAt, EmptyAnnotation

LEMMA AdmitPreserves ==
    ASSUME NEW pod \in PodSpecs, AdmitPod(pod)
    PROVE  AdmissionInv'
<1>1. CASE req' = Unboosted(pod)
  BY <1>1, UnboostedRestorable
<1>2. CASE req' # Unboosted(pod)
  <2>1. /\ IsReq' /\ req'.pod = pod /\ req'.containers = pod.containers
        /\ req'.annotation = NewBoostAnnotation /\ req'.next = 1
    BY <1>2 DEF AdmitPod, Unboosted, NoRequest, IsReq
  <2> QED
    BY <2>1, SubmittedRestorable
<1> QED
  BY <1>1, <1>2

LEMMA BoostContainerPreserves == AdmissionInv /\ BoostContainer => AdmissionInv'
<1> SUFFICES ASSUME AdmissionInv, BoostContainer PROVE AdmissionInv'
  OBVIOUS
<1> DEFINE n == req.next
           c == req.containers[n]
           policy == ResourcePolicy(objects[req.boost], c.name)
           final == FinalResources(NewResources(policy, c.resources))
           a == updateBoostAnnotation(req.annotation, c.name, c.resources)
<1>1. /\ req.pc = "boosting" /\ n \in DOMAIN req.pod.containers /\ IsPod /\ n \in Nat
      /\ DOMAIN req.containers = DOMAIN req.pod.containers
      /\ \A k \in DOMAIN req.pod.containers : RestorableAt(k)
  BY DEF BoostContainer, AdmissionInv, Restorable, IsPod
<1>2. /\ c = req.pod.containers[n] /\ IsContainer(c) /\ NotAnnotated(req.annotation, c.name)
  <2>1. RestorableAt(n) /\ n >= req.next
    BY <1>1
  <2>2. c = req.pod.containers[n] /\ NotAnnotated(req.annotation, req.pod.containers[n].name)
    BY <1>1, <2>1 DEF RestorableAt
  <2>3. IsContainer(req.pod.containers[n])
    BY <1>1, PodFacts DEF IsPod
  <2> QED
    BY <2>2, <2>3
<1>3. DOMAIN req.pod.containers \subseteq Nat
  BY <1>1, PodFacts DEF IsPod
<1>4. CASE req' = [req EXCEPT !.next = n + 1]
  <2>1. /\ IsReq' /\ req'.pc = req.pc /\ req'.pod = req.pod /\ req'.containers = req.containers
        /\ req'.annotation = req.annotation /\ req'.next = n + 1
    BY <1>4 DEF AdmissionInv, IsReq
  <2>2. IsPod'
    BY <1>1, <2>1 DEF IsPod
  <2>3. ASSUME NEW k \in DOMAIN req.pod.containers
        PROVE  RestorableAt(k)'
    BY <1>1, <1>3, <2>1 DEF RestorableAt
  <2> QED
    BY <1>1, <2>1, <2>2, <2>3 DEF AdmissionInv, Restorable
<1>5. CASE req' = [req EXCEPT !.next = n + 1,
                              !.annotation = updateBoostAnnotation(@, c.name, c.resources),
                              !.containers[n].resources = final]
  <2> HIDE DEF final
  <2>1. /\ IsReq' /\ req'.pc = req.pc /\ req'.pod = req.pod /\ req'.next = n + 1
        /\ req'.annotation = a
        /\ req'.containers = [req.containers EXCEPT ![n].resources = final]
    BY <1>5 DEF AdmissionInv, IsReq
  <2>2. /\ DOMAIN req'.containers = DOMAIN req.pod.containers
        /\ req'.containers[n] = [c EXCEPT !.resources = final]
        /\ \A k \in DOMAIN req.pod.containers \ {n} : req'.containers[k] = req.containers[k]
        /\ req'.containers = [k \in DOMAIN req.pod.containers |-> req'.containers[k]]
    BY <1>1, <2>1
  <2>3. IsPod'
    BY <1>1, <2>1, <2>2 DEF IsPod
  <2>4. ASSUME NEW k \in DOMAIN req.pod.containers, k = n
        PROVE  RestorableAt(k)'
    <3>1. revertContainer([c EXCEPT !.resources = final], a) = c
      BY <1>2, RevertIncreased DEF final
    <3>2. final = [requests |-> final.requests, limits |-> final.limits]
      BY DEF final, FinalResources, NewResources
    <3>3. IsShaped([c EXCEPT !.resources = final]) /\ [c EXCEPT !.resources = final].name = c.name
      <4>1. c = [name |-> c.name, resources |-> c.resources, resizePolicy |-> c.resizePolicy]
        BY <1>2 DEF IsContainer
      <4>2. [c EXCEPT !.resources = final]
              = [name |-> c.name, resources |-> final, resizePolicy |-> c.resizePolicy]
        BY <4>1
      <4> QED
        BY <3>2, <4>2 DEF IsShaped
    <3>4. ~(k >= req'.next) /\ req.pod.containers[k] = c
      BY <1>1, <1>2, <2>1, <2>4
    <3> HIDE DEF a, c, n
    <3> QED
      BY <2>1, <2>2, <2>4, <3>1, <3>3, <3>4 DEF RestorableAt
  <2>5. ASSUME NEW k \in DOMAIN req.pod.containers, k # n
        PROVE  RestorableAt(k)'
    <3>1. req.containers[k].name # c.name
      <4>1. req.containers[k].name = req.pod.containers[k].name
        BY <1>1 DEF RestorableAt
      <4>2. req.pod.containers[k].name # req.pod.containers[n].name
        BY <1>1, <2>5, PodFacts DEF IsPod
      <4> QED
        BY <1>2, <4>1, <4>2
    <3>2. /\ revertContainer(req.containers[k], a)
               = revertContainer(req.containers[k], req.annotation)
          /\ NotAnnotated(req.annotation, req.containers[k].name)
               => NotAnnotated(a, req.containers[k].name)
      BY <3>1, RevertOther
    <3> HIDE DEF a, c
    <3> QED
      BY <1>1, <1>3, <2>1, <2>2, <2>5, <3>2 DEF RestorableAt
  <2>6. \A k \in DOMAIN req'.pod.containers : RestorableAt(k)'
    BY <2>1, <2>4, <2>5
  <2>7. req'.pc = "boosting" /\ req'.next \in Nat
    BY <1>1, <2>1
  <2> QED
    BY <2>1, <2>3, <2>6, <2>7 DEF AdmissionInv, Restorable
<1> QED
  BY <1>4, <1>5 DEF BoostContainer

LEMMA FinishPreserves == AdmissionInv /\ FinishAdmission => AdmissionInv'
<1> SUFFICES ASSUME AdmissionInv, FinishAdmission PROVE AdmissionInv'
  OBVIOUS
<1>1. /\ IsReq' /\ req'.pc = "admitted" /\ req'.pod = req.pod
      /\ req'.containers = req.containers /\ req'.annotation = req.annotation
      /\ ~req'.label => EmptyAnnotation
  BY DEF FinishAdmission, AdmissionInv, IsReq, NeedsLabel, EmptyAnnotation
<1>2. /\ IsPod /\ \A k \in DOMAIN req.pod.containers : RestorableAt(k)
  BY DEF FinishAdmission, AdmissionInv, Restorable
<1>3. IsPod' /\ \A k \in DOMAIN req'.pod.containers : RestorableAt(k)'
  BY <1>1, <1>2 DEF IsPod, RestorableAt
<1>4. EmptyAnnotation' <=> EmptyAnnotation
  BY <1>1 DEF EmptyAnnotation
<1> QED
  BY <1>1, <1>3, <1>4 DEF AdmissionInv, Restorable

\* What reversion gives is the pod as submitted.
LEMMA RevertGivesPod ==
    ASSUME AdmissionInv, req.pc # "idle"
    PROVE  revertBoostResources(req.containers, req.annotation) = req.pod.containers
<1>1. /\ req.pod \in PodSpecs /\ DOMAIN req.containers = DOMAIN req.pod.containers
      /\ \A k \in DOMAIN req.pod.containers :
           revertContainer(req.containers[k], req.annotation) = req.pod.containers[k]
  BY DEF AdmissionInv, Restorable, IsPod, RestorableAt
<1>2. req.pod.containers = [k \in DOMAIN req.pod.containers |-> req.pod.containers[k]]
  BY <1>1, PodFacts
<1> QED
  BY <1>1, <1>2 DEF revertBoostResources

LEMMA RevertPreserves == AdmissionInv /\ RevertPod => AdmissionInv'
<1> SUFFICES ASSUME AdmissionInv, RevertPod PROVE AdmissionInv'
  OBVIOUS
<1>1. /\ req.pc = "admitted" /\ req.pod \in PodSpecs
      /\ req' = [req EXCEPT !.pc = "reverted",
                            !.containers = revertBoostResources(req.containers, req.annotation),
                            !.annotation = NewBoostAnnotation, !.label = FALSE]
  BY DEF RevertPod, AdmissionInv, Restorable, IsPod
<1>2. revertBoostResources(req.containers, req.annotation) = req.pod.containers
  BY <1>1, RevertGivesPod
<1>3. /\ IsReq' /\ req'.pc = "reverted" /\ req'.pod = req.pod
      /\ req'.containers = req'.pod.containers /\ req'.annotation = NewBoostAnnotation
  BY <1>1, <1>2 DEF AdmissionInv, IsReq
<1>4. IsPod'
  BY <1>1, <1>3, PodFacts DEF IsPod
<1>5. EmptyAnnotation' /\ \A name : NotAnnotated(req'.annotation, name)
  BY <1>3 DEF EmptyAnnotation, NotAnnotated, NewBoostAnnotation
<1>6. ASSUME NEW k \in DOMAIN req'.pod.containers
      PROVE  RestorableAt(k)'
  <2>1. IsShaped(req'.containers[k])
    BY <1>1, <1>3, PodFacts, ContainersShaped
  <2>2. revertContainer(req'.containers[k], req'.annotation) = req'.pod.containers[k]
    BY <1>3, <1>5, <2>1, RevertUnannotated
  <2> QED
    BY <1>3, <2>1, <2>2 DEF RestorableAt
<1> QED
  BY <1>3, <1>4, <1>5, <1>6 DEF AdmissionInv, Restorable

LEMMA AdmissionPreserves == AdmissionInv /\ [Next]_vars => AdmissionInv'
<1> SUFFICES ASSUME AdmissionInv, [Next]_vars PROVE AdmissionInv'
  OBVIOUS
<1>1. req.pc # "idle" => req.pod \in PodSpecs
  BY DEF AdmissionInv, Restorable, IsPod
<1>2. ASSUME NEW spec \in BoostSpecs, CreateBoost(spec) PROVE AdmissionInv'
  BY <1>1, <1>2, UnboostedRestorable, QuietRestorable DEF CreateBoost
<1>3. ASSUME NEW spec \in BoostSpecs, UpdateBoost(spec) PROVE AdmissionInv'
  BY <1>3, QuietRestorable DEF UpdateBoost
<1>4. CASE WebhookTimeout
  BY <1>1, <1>4, UnboostedRestorable DEF WebhookTimeout
<1>5. CASE DeletePod
  BY <1>5, IdleRestorable DEF DeletePod
<1>6. CASE DeleteBoost \/ Restart \/ UNCHANGED vars
  BY <1>6, QuietRestorable DEF DeleteBoost, Restart, vars
<1> QED
  BY <1>2, <1>3, <1>4, <1>5, <1>6, AdmitPreserves, BoostContainerPreserves, FinishPreserves,
     RevertPreserves DEF Next

LEMMA AdmissionInitial == Init => AdmissionInv
BY DEF Init, NoRequest, AdmissionInv, IsReq, Restorable

-----------------------------------------------------------------------------
\* What the validating webhook accepts can be mapped, and what it is mapped to.

LEMMA LeastNatural ==
    ASSUME NEW T \in SUBSET Nat, T # {}
    PROVE  \E x \in T : \A y \in T : x <= y
<1>1. PICK R : IsWellFoundedOn(R, Nat) /\ \A x, y \in Nat : y < x => <<y, x>> \in R
  <2>1. \A x, y \in Nat : y < x => <<y, x>> \in OpToRel(<, Nat)
    BY DEF OpToRel
  <2> QED
    BY <2>1, NatLessThanWellFounded, Zenon
<1>2. PICK x \in T : \A y \in T : <<y, x>> \notin R
  BY <1>1, WFMin
<1>3. ASSUME NEW y \in T PROVE x <= y
  <2>1. x \in Nat /\ y \in Nat /\ ~(y < x)
    BY <1>1, <1>2
  <2> QED
    BY <2>1
<1> QED
  BY <1>3

\* Exactly one of two fields is set.
LEMMA ExactlyOne ==
    ASSUME NEW p, NEW a, NEW b, a # b, Cardinality({k \in {a, b} : p[k] # None}) = 1
    PROVE  (p[a] = None) # (p[b] = None)
<1> DEFINE S == {k \in {a, b} : p[k] # None}
<1>1. IsFiniteSet({a, b})
  <2>1. IsFiniteSet({a} \cup {b})
    BY FS_Singleton, FS_Union
  <2>2. {a} \cup {b} = {a, b}
    OBVIOUS
  <2> QED
    BY <2>1, <2>2
<1>2. IsFiniteSet(S)
  <2>1. S \subseteq {a, b}
    OBVIOUS
  <2> QED
    BY <1>1, <2>1, FS_Subset
<1>3. PICK x : S = {x}
  BY <1>2, FS_Singleton
<1> QED
  BY <1>3

\* The last policy for a name is one of those for it.
LEMMA LastPolicy ==
    ASSUME NEW policies, Len(policies) \in Nat, DOMAIN policies = 1..Len(policies),
           NEW m \in DOMAIN policies
    PROVE  \E i \in DOMAIN policies :
              /\ policies[i].name = policies[m].name
              /\ \A j \in DOMAIN policies : policies[j].name = policies[m].name => j <= i
<1> DEFINE S == {i \in DOMAIN policies : policies[i].name = policies[m].name}
           T == {Len(policies) - i : i \in S}
<1>1. T \in SUBSET Nat /\ T # {}
  OBVIOUS
<1>2. PICK x \in T : \A y \in T : x <= y
  <2> HIDE DEF T
  <2> QED
    BY <1>1, LeastNatural
<1>3. PICK i \in S : x = Len(policies) - i
  BY <1>2
<1>4. ASSUME NEW j \in S PROVE j <= i
  <2>1. x <= Len(policies) - j
    BY <1>2
  <2> QED
    BY <1>3, <2>1
<1> QED
  BY <1>3, <1>4

\* A policy as the webhook accepts it.
IsPolicy(p) ==
    /\ (p.fixed = None) # (p.percentage = None)
    /\ p.fixed # None => p.fixed.requests \in Int /\ p.fixed.limits \in Int
    /\ p.percentage # None => p.percentage \in Nat \ {0}

LEMMA AcceptedPolicies ==
    ASSUME NEW spec \in BoostSpecs, validate(spec)
    PROVE  /\ mapResourcePolicy(spec.containerPolicies) # None
           /\ \A n \in DOMAIN mapResourcePolicy(spec.containerPolicies) :
                IsPolicy(mapResourcePolicy(spec.containerPolicies)[n])
<1> DEFINE policies == spec.containerPolicies
           names == {policies[i].name : i \in DOMAIN policies}
           last(n) == CHOOSE i \in DOMAIN policies :
                        /\ policies[i].name = n
                        /\ \A j \in DOMAIN policies : policies[j].name = n => j <= i
           f == [n \in names |-> policies[last(n)]]
<1>1. /\ Len(policies) \in Nat /\ DOMAIN policies = 1..Len(policies)
      /\ None \notin [names -> Range(policies)]
      /\ \A i \in DOMAIN policies :
           /\ policies[i].fixed # None => /\ policies[i].fixed.requests \in Int
                                         /\ policies[i].fixed.limits \in Int
           /\ policies[i].percentage # None => policies[i].percentage \in Nat \ {0}
  BY BoostAssumption
<1>2. \A i \in DOMAIN policies : Cardinality(PolicyKinds(policies[i])) = 1
  BY DEF validate, validateContainerPolicies
<1>3. ASSUME NEW i \in DOMAIN policies PROVE IsPolicy(policies[i])
  <2>1. (policies[i]["fixed"] = None) # (policies[i]["percentage"] = None)
    <3>1. Cardinality({k \in {"fixed", "percentage"} : policies[i][k] # None}) = 1
      BY <1>2 DEF PolicyKinds
    <3> HIDE DEF policies
    <3> QED
      BY <3>1, ExactlyOne
  <2> QED
    BY <1>1, <2>1 DEF IsPolicy
<1>4. mapResourcePolicy(policies) = f
  BY <1>2, Zenon DEF mapResourcePolicy
<1> HIDE DEF policies
<1>5. ASSUME NEW n \in names PROVE last(n) \in DOMAIN policies
  <2>1. PICK m \in DOMAIN policies : policies[m].name = n
    OBVIOUS
  <2>2. \E i \in DOMAIN policies :
          /\ policies[i].name = n
          /\ \A j \in DOMAIN policies : policies[j].name = n => j <= i
    BY <1>1, <2>1, LastPolicy
  <2> QED
    BY <2>2
<1> HIDE DEF names, last
<1>6. f \in [names -> Range(policies)] /\ \A n \in names : IsPolicy(f[n])
  BY <1>3, <1>5 DEF Range
<1> QED
  BY <1>1, <1>4, <1>6 DEF policies

\* An accepted boost is refused for its selector only.
LEMMA AcceptedBoost ==
    ASSUME NEW spec \in BoostSpecs, validate(spec)
    PROVE  NewStartupCPUBoost(spec) = None <=> ~spec.selectorValid
<1>1. mapResourcePolicy(spec.containerPolicies) # None
  BY AcceptedPolicies
<1>2. None # [resourcePolicies |-> mapResourcePolicy(spec.containerPolicies),
              durationPolicies |-> mapDurationPolicy(spec.durationPolicy), spec |-> spec]
  BY BoostAssumption
<1> QED
  BY <1>1, <1>2 DEF NewStartupCPUBoost

-----------------------------------------------------------------------------
\* The boost objects are made from accepted specifications, the webhook holds
\* one of them while it works, and a crash ends that work.

Accepted == {spec \in BoostSpecs : validate(spec)}
BoostObjects ==
    {NewStartupCPUBoost(spec) : spec \in {s \in Accepted : NewStartupCPUBoost(s) # None}}

ObjectsInv ==
    /\ handler \in [removeLimits : BOOLEAN, podLevelResourcesEnabled : BOOLEAN]
    /\ objects \in Seq(BoostObjects)
    /\ registered \in 0..Len(objects) /\ events \in 0..MaxEvents
    /\ crash \in {spec \in Accepted : NewStartupCPUBoost(spec) = None} \cup {None}
    /\ req.pc = "boosting" => crash = None /\ req.boost \in 1..Len(objects)

LEMMA ObjectsNext ==
    ASSUME ObjectsInv, AdmissionInv, [Next]_vars
    PROVE  ObjectsInv'
<1>1. /\ Len(objects) \in Nat /\ DOMAIN objects = 1..Len(objects) /\ events \in 0..MaxEvents
      /\ registered \in 0..Len(objects) /\ objects \in Seq(BoostObjects)
  BY LenProperties DEF ObjectsInv
<1>2. MaxEvents \in Nat
  BY AdmissionAssumption
<1>3. ASSUME NEW spec \in BoostSpecs, CreateBoost(spec), NewStartupCPUBoost(spec) = None
      PROVE  ObjectsInv'
  <2>1. /\ crash' = spec /\ UNCHANGED <<handler, objects, registered>> /\ events' = events + 1
        /\ events < MaxEvents /\ validate(spec)
        /\ req' = IF req.pc = "boosting" THEN Unboosted(req.pod) ELSE req
    BY <1>3 DEF CreateBoost, BoostEvent
  <2>2. req'.pc # "boosting"
    BY <2>1 DEF Unboosted, NoRequest
  <2>3. events' \in 0..MaxEvents
    BY <1>1, <1>2, <2>1
  <2> QED
    BY <1>3, <2>1, <2>2, <2>3 DEF ObjectsInv, Accepted
<1>4. ASSUME NEW spec \in BoostSpecs, CreateBoost(spec), NewStartupCPUBoost(spec) # None
      PROVE  ObjectsInv'
  <2> DEFINE b == NewStartupCPUBoost(spec)
  <2>1. /\ UNCHANGED <<handler, crash, req>> /\ events' = events + 1 /\ events < MaxEvents
        /\ validate(spec) /\ objects' = Append(objects, b) /\ registered' = Len(objects')
    BY <1>4 DEF CreateBoost, BoostEvent
  <2>2. b \in BoostObjects
    BY <1>4, <2>1 DEF BoostObjects, Accepted
  <2> HIDE DEF b
  <2>3. objects' \in Seq(BoostObjects) /\ Len(objects') = Len(objects) + 1
    BY <1>1, <2>1, <2>2, AppendProperties
  <2>4. events' \in 0..MaxEvents /\ registered' \in 0..Len(objects')
    BY <1>1, <1>2, <2>1, <2>3
  <2>5. 1..Len(objects) \subseteq 1..Len(objects')
    BY <1>1, <2>3
  <2> QED
    BY <2>1, <2>3, <2>4, <2>5 DEF ObjectsInv
<1>5. ASSUME NEW spec \in BoostSpecs, UpdateBoost(spec)
      PROVE  ObjectsInv'
  <2> DEFINE b == NewStartupCPUBoost(spec)
  <2>1. /\ UNCHANGED <<handler, registered, crash, req>> /\ events' = events + 1
        /\ events < MaxEvents /\ validate(spec) /\ registered # 0
        /\ objects' = IF b = None THEN objects ELSE [objects EXCEPT ![registered] = b]
    BY <1>5 DEF UpdateBoost, BoostEvent
  <2>2. b # None => b \in BoostObjects
    BY <2>1 DEF BoostObjects, Accepted
  <2> HIDE DEF b
  <2>3. objects' \in Seq(BoostObjects) /\ Len(objects') = Len(objects)
    BY <1>1, <2>1, <2>2, ExceptSeq
  <2>4. events' \in 0..MaxEvents
    BY <1>1, <1>2, <2>1
  <2> QED
    BY <2>1, <2>3, <2>4 DEF ObjectsInv
<1>6. CASE DeleteBoost
  <2>1. events' \in 0..MaxEvents /\ registered' \in 0..Len(objects)
    BY <1>1, <1>2, <1>6 DEF DeleteBoost
  <2> QED
    BY <1>6, <2>1 DEF DeleteBoost, ObjectsInv
<1>7. ASSUME NEW pod \in PodSpecs, AdmitPod(pod)
      PROVE  ObjectsInv'
  <2>1. \/ req'.pc = "admitted"
        \/ req'.boost = registered /\ crash = None /\ registered # 0
    BY <1>7 DEF AdmitPod, Unboosted, NoRequest
  <2>2. registered # 0 => registered \in 1..Len(objects)
    BY <1>1
  <2> QED
    BY <1>7, <2>1, <2>2 DEF AdmitPod, ObjectsInv, boostVars
<1>8. CASE BoostContainer
  <2>1. req'.pc = req.pc /\ req'.boost = req.boost
    BY <1>8 DEF BoostContainer, AdmissionInv, IsReq
  <2> QED
    BY <1>8, <2>1 DEF BoostContainer, ObjectsInv, boostVars
<1>9. CASE FinishAdmission \/ WebhookTimeout \/ RevertPod \/ DeletePod
  <2>1. UNCHANGED <<handler, boostVars>>
    BY <1>9 DEF FinishAdmission, WebhookTimeout, RevertPod, DeletePod
  <2>2. FinishAdmission => req'.pc = "admitted"
    BY DEF FinishAdmission, AdmissionInv, IsReq
  <2>3. ASSUME RevertPod PROVE req'.pc = "reverted"
    <3>1. PICK containers :
            req' = [req EXCEPT !.pc = "reverted", !.containers = containers,
                               !.annotation = NewBoostAnnotation, !.label = FALSE]
      BY <2>3, Zenon DEF RevertPod
    <3> QED
      BY <3>1 DEF AdmissionInv, IsReq
  <2>4. ASSUME WebhookTimeout PROVE req'.pc = "admitted"
    <3>1. req' = Unboosted(req.pod)
      BY <2>4 DEF WebhookTimeout
    <3> QED
      BY <3>1 DEF Unboosted, NoRequest
  <2>5. DeletePod => req'.pc = "idle"
    BY DEF DeletePod, NoRequest
  <2> QED
    BY <1>9, <2>1, <2>2, <2>3, <2>4, <2>5 DEF ObjectsInv, boostVars
<1>10. CASE Restart
  <2>1. /\ req.pc # "boosting" /\ UNCHANGED <<handler, req, events>>
        /\ crash' = None /\ objects' = <<>> /\ registered' = 0
    BY <1>10 DEF Restart, ObjectsInv
  <2>2. objects' \in Seq(BoostObjects) /\ Len(objects') = 0
    BY <2>1, EmptySeq
  <2> QED
    BY <2>1, <2>2 DEF ObjectsInv
<1>11. CASE UNCHANGED vars
  BY <1>11 DEF vars, boostVars, ObjectsInv
<1> QED
  BY <1>3, <1>4, <1>5, <1>6, <1>7, <1>8, <1>9, <1>10, <1>11 DEF Next

-----------------------------------------------------------------------------
\* An increase lowers no CPU quantity, and yields resource lists again.

LEMMA QuantityIncreased ==
    ASSUME NEW q \in Nat, NEW p \in Nat
    PROVE  increaseQuantity(q, p) \in Nat /\ increaseQuantity(q, p) >= q
<1> DEFINE x == q * (100 + p)
<1>1. x \in Nat /\ x >= 100 * q
  <2>1. q * p \in Nat /\ x = q * 100 + q * p
    OBVIOUS
  <2> QED
    BY <2>1
<1> HIDE DEF x
<1>2. 10 * ((x + 999) \div 1000) \in Nat /\ 10 * ((x + 999) \div 1000) >= q
  BY <1>1
<1> QED
  BY <1>2 DEF x, increaseQuantity

\* The list new has the keys of list, and no lower quantity for any.
Raised(new, list) ==
    /\ IsResourceList(new) /\ DOMAIN new = DOMAIN list
    /\ CPU(new) >= CPU(list)

LEMMA SetRaised ==
    ASSUME NEW list, IsResourceList(list), NEW target \in Int
    PROVE  Raised(setResource(list, target), list)
<1>1. PICK S \in SUBSET Resources : list \in [S -> Nat]
  BY DEF IsResourceList
<1>2. CPU(list) \in Nat
  BY <1>1 DEF CPU, Quantity
<1>3. CASE setResource(list, target) = list
  BY <1>2, <1>3 DEF Raised
<1>4. CASE setResource(list, target) # list
  <2>1. /\ "cpu" \in S /\ target >= CPU(list)
        /\ setResource(list, target) = [list EXCEPT !["cpu"] = target]
    BY <1>1, <1>2, <1>4 DEF setResource
  <2>2. target \in Nat
    BY <1>2, <2>1
  <2>3. [list EXCEPT !["cpu"] = target] \in [S -> Nat]
    BY <1>1, <2>2
  <2>4. CPU([list EXCEPT !["cpu"] = target]) = target
    BY <1>1, <2>1 DEF CPU, Quantity
  <2> QED
    BY <1>1, <2>1, <2>3, <2>4 DEF Raised, IsResourceList
<1> QED
  BY <1>3, <1>4

LEMMA IncreaseRaised ==
    ASSUME NEW list, IsResourceList(list), NEW p \in Nat
    PROVE  Raised(increaseResource(list, p), list)
<1>1. PICK S \in SUBSET Resources : list \in [S -> Nat]
  BY DEF IsResourceList
<1>2. CASE "cpu" \notin S
  <2>1. increaseResource(list, p) = list /\ CPU(list) = 0
    BY <1>1, <1>2 DEF increaseResource, CPU, Quantity
  <2> QED
    BY <2>1 DEF Raised
<1>3. CASE "cpu" \in S
  <2> DEFINE q == increaseQuantity(list["cpu"], p)
  <2>1. q \in Nat /\ q >= list["cpu"]
    BY <1>1, <1>3, QuantityIncreased
  <2>2. increaseResource(list, p) = [list EXCEPT !["cpu"] = q]
    BY <1>1, <1>3 DEF increaseResource
  <2> HIDE DEF q
  <2>3. [list EXCEPT !["cpu"] = q] \in [S -> Nat]
    BY <1>1, <2>1
  <2>4. CPU([list EXCEPT !["cpu"] = q]) = q /\ CPU(list) = list["cpu"]
    BY <1>1, <1>3 DEF CPU, Quantity
  <2> QED
    BY <1>1, <2>1, <2>2, <2>3, <2>4 DEF Raised, IsResourceList
<1> QED
  BY <1>2, <1>3

LEMMA PolicyRaises ==
    ASSUME NEW policy, IsPolicy(policy), NEW res, IsRequirements(res)
    PROVE  /\ Raised(NewResources(policy, res).requests, res.requests)
           /\ Raised(NewResources(policy, res).limits, res.limits)
<1>1. CASE policy.fixed # None
  BY <1>1, SetRaised DEF NewResources, IsPolicy, IsRequirements
<1>2. CASE policy.fixed = None
  BY <1>2, IncreaseRaised DEF NewResources, IsPolicy, IsRequirements
<1> QED
  BY <1>1, <1>2

LEMMA FinalRaised ==
    ASSUME NEW policy, IsPolicy(policy), NEW res, IsRequirements(res)
    PROVE  LET final == FinalResources(NewResources(policy, res))
           IN /\ IsRequirements(final)
              /\ CPU(final.requests) >= CPU(res.requests)
              /\ "cpu" \in DOMAIN final.limits => CPU(final.limits) >= CPU(res.limits)
<1> DEFINE new == NewResources(policy, res)
           final == FinalResources(new)
<1> SUFFICES /\ IsRequirements(final)
             /\ CPU(final.requests) >= CPU(res.requests)
             /\ "cpu" \in DOMAIN final.limits => CPU(final.limits) >= CPU(res.limits)
  OBVIOUS
<1>1. /\ Raised(new.requests, res.requests) /\ Raised(new.limits, res.limits)
      /\ new = [requests |-> new.requests, limits |-> new.limits]
  BY PolicyRaises DEF NewResources
<1> HIDE DEF new
<1>2. CASE final = new
  BY <1>1, <1>2 DEF Raised, IsRequirements
<1>3. CASE final # new
  <2>1. final = [requests |-> new.requests, limits |-> Without(new.limits, "cpu")]
    BY <1>1, <1>3 DEF FinalResources
  <2>2. PICK S \in SUBSET Resources : new.limits \in [S -> Nat]
    BY <1>1 DEF Raised, IsResourceList
  <2>3. Without(new.limits, "cpu") \in [S \ {"cpu"} -> Nat]
    BY <2>2 DEF Without, Restrict
  <2>4. IsResourceList(Without(new.limits, "cpu")) /\ "cpu" \notin DOMAIN Without(new.limits, "cpu")
    BY <2>2, <2>3 DEF IsResourceList
  <2> QED
    BY <1>1, <2>1, <2>4 DEF Raised, IsRequirements
<1> QED
  BY <1>2, <1>3

-----------------------------------------------------------------------------
\* Every container has at least the CPU it was submitted with, in lists.

RaisedAt(k) ==
    LET new == req.containers[k].resources
        old == req.pod.containers[k].resources
    IN /\ IsRequirements(new)
       /\ CPU(new.requests) >= CPU(old.requests)
       /\ "cpu" \in DOMAIN new.limits => CPU(new.limits) >= CPU(old.limits)

RaisedInv ==
    /\ req.pc \in {"idle", "boosting", "admitted", "reverted"}
    /\ req.pc = "idle" => req.containers = <<>>
    /\ req.pc # "idle" => \A k \in DOMAIN req.pod.containers : RaisedAt(k)

\* So has a pod as it was submitted.
LEMMA SubmittedRaised ==
    ASSUME NEW pod \in PodSpecs, req'.pod = pod, req'.containers = pod.containers,
           req'.pc \in {"boosting", "admitted", "reverted"}
    PROVE  RaisedInv'
<1>1. ASSUME NEW k \in DOMAIN pod.containers PROVE RaisedAt(k)'
  <2> DEFINE res == pod.containers[k].resources
  <2>1. IsRequirements(res)
    BY PodFacts DEF IsContainer
  <2>2. CPU(res.requests) \in Nat /\ CPU(res.limits) \in Nat
    BY <2>1 DEF IsRequirements, IsResourceList, CPU, Quantity
  <2>3. CPU(res.requests) >= CPU(res.requests) /\ CPU(res.limits) >= CPU(res.limits)
    BY <2>2
  <2> HIDE DEF res
  <2>4. req'.containers[k].resources = res /\ req'.pod.containers[k].resources = res
    BY DEF res
  <2> QED
    BY <2>1, <2>3, <2>4 DEF RaisedAt
<1> QED
  BY <1>1 DEF RaisedInv

\* The policy that the webhook applies is one it accepted.
LEMMA PolicyAccepted ==
    ASSUME ObjectsInv, req.pc = "boosting", NEW name,
           ResourcePolicy(objects[req.boost], name) # None
    PROVE  IsPolicy(ResourcePolicy(objects[req.boost], name))
<1> DEFINE b == objects[req.boost]
<1>1. b \in BoostObjects
  <2>1. objects \in Seq(BoostObjects) /\ req.boost \in 1..Len(objects)
    BY DEF ObjectsInv
  <2> QED
    BY <2>1, ElementOfSeq
<1>2. PICK spec \in Accepted : b = NewStartupCPUBoost(spec) /\ NewStartupCPUBoost(spec) # None
  BY <1>1 DEF BoostObjects
<1>3. b.resourcePolicies = mapResourcePolicy(spec.containerPolicies)
  BY <1>2 DEF NewStartupCPUBoost
<1>4. \A n \in DOMAIN b.resourcePolicies : IsPolicy(b.resourcePolicies[n])
  BY <1>2, <1>3, AcceptedPolicies DEF Accepted
<1> HIDE DEF b
<1>5. ResourcePolicy(b, name) # None => IsPolicy(ResourcePolicy(b, name))
  BY <1>4 DEF ResourcePolicy
<1> QED
  BY <1>5 DEF b

LEMMA BoostContainerRaises ==
    ASSUME ObjectsInv, AdmissionInv, RaisedInv, BoostContainer
    PROVE  RaisedInv'
<1> DEFINE n == req.next
           c == req.containers[n]
           policy == ResourcePolicy(objects[req.boost], c.name)
           final == FinalResources(NewResources(policy, c.resources))
<1>1. /\ req.pc = "boosting" /\ n \in DOMAIN req.pod.containers /\ IsPod /\ n \in Nat
      /\ DOMAIN req.containers = DOMAIN req.pod.containers
      /\ \A k \in DOMAIN req.pod.containers : RestorableAt(k)
  BY DEF BoostContainer, AdmissionInv, Restorable, IsPod
<1>2. c = req.pod.containers[n] /\ IsRequirements(c.resources)
  <2>1. RestorableAt(n) /\ n >= req.next
    BY <1>1
  <2>2. c = req.pod.containers[n]
    BY <1>1, <2>1 DEF RestorableAt
  <2>3. IsContainer(req.pod.containers[n])
    BY <1>1, PodFacts DEF IsPod
  <2> QED
    BY <2>2, <2>3 DEF IsContainer
<1>3. \A k \in DOMAIN req.pod.containers : RaisedAt(k)
  BY <1>1 DEF RaisedInv
<1>4. CASE req' = [req EXCEPT !.next = n + 1]
  <2>1. req'.pc = req.pc /\ req'.pod = req.pod /\ req'.containers = req.containers
    BY <1>4 DEF AdmissionInv, IsReq
  <2> QED
    BY <1>1, <1>3, <2>1 DEF RaisedInv, RaisedAt
<1>5. CASE /\ policy # None
           /\ req' = [req EXCEPT !.next = n + 1,
                                 !.annotation = updateBoostAnnotation(@, c.name, c.resources),
                                 !.containers[n].resources = final]
  <2>1. IsPolicy(policy)
    BY <1>1, <1>5, PolicyAccepted
  <2> HIDE DEF policy
  <2>2. /\ IsRequirements(final)
        /\ CPU(final.requests) >= CPU(c.resources.requests)
        /\ "cpu" \in DOMAIN final.limits => CPU(final.limits) >= CPU(c.resources.limits)
    BY <1>2, <2>1, FinalRaised
  <2> HIDE DEF final
  <2>3. /\ req'.pc = req.pc /\ req'.pod = req.pod
        /\ req'.containers = [req.containers EXCEPT ![n].resources = final]
    BY <1>5 DEF AdmissionInv, IsReq
  <2>4. /\ req'.containers[n].resources = final
        /\ \A k \in DOMAIN req.pod.containers \ {n} : req'.containers[k] = req.containers[k]
    <3>1. IsShaped(c)
      BY <1>1 DEF RestorableAt
    <3>2. [c EXCEPT !.resources = final].resources = final
      BY <3>1 DEF IsShaped
    <3>3. req'.containers[n] = [c EXCEPT !.resources = final]
      BY <1>1, <2>3
    <3> QED
      BY <1>1, <2>3, <3>2, <3>3
  <2>5. ASSUME NEW k \in DOMAIN req.pod.containers, k = n PROVE RaisedAt(k)'
    <3>1. req'.containers[k].resources = final /\ req'.pod.containers[k].resources = c.resources
      BY <1>2, <2>3, <2>4, <2>5
    <3> QED
      BY <2>2, <3>1 DEF RaisedAt
  <2>6. ASSUME NEW k \in DOMAIN req.pod.containers, k # n PROVE RaisedAt(k)'
    BY <1>3, <2>3, <2>4, <2>6 DEF RaisedAt
  <2> QED
    BY <1>1, <2>3, <2>5, <2>6, Zenon DEF RaisedInv
<1> QED
  BY <1>4, <1>5 DEF BoostContainer

LEMMA RaisedNext ==
    ASSUME ObjectsInv, AdmissionInv, RaisedInv, [Next]_vars
    PROVE  RaisedInv'
<1>1. req.pc # "idle" => req.pod \in PodSpecs
  BY DEF AdmissionInv, Restorable, IsPod
<1>2. ASSUME NEW pod \in PodSpecs, req' = Unboosted(pod)
      PROVE  RaisedInv'
  <2>1. req'.pc = "admitted" /\ req'.pod = pod /\ req'.containers = pod.containers
    BY <1>2 DEF Unboosted, NoRequest
  <2> QED
    BY <2>1, SubmittedRaised
<1>3. CASE UNCHANGED req
  BY <1>3 DEF RaisedInv, RaisedAt
<1>4. ASSUME NEW spec \in BoostSpecs, CreateBoost(spec) \/ UpdateBoost(spec)
      PROVE  RaisedInv'
  <2>1. UNCHANGED req \/ (req.pc = "boosting" /\ req' = Unboosted(req.pod))
    BY <1>4 DEF CreateBoost, UpdateBoost
  <2> QED
    BY <1>1, <1>2, <1>3, <2>1
<1>5. CASE WebhookTimeout
  BY <1>1, <1>2, <1>5 DEF WebhookTimeout
<1>6. ASSUME NEW pod \in PodSpecs, AdmitPod(pod), req' # Unboosted(pod)
      PROVE  RaisedInv'
  <2>1. req'.pc = "boosting" /\ req'.pod = pod /\ req'.containers = pod.containers
    BY <1>6 DEF AdmitPod, Unboosted, NoRequest
  <2> QED
    BY <2>1, SubmittedRaised
<1>7. CASE FinishAdmission
  <2>1. /\ req.pc = "boosting" /\ req'.pc = "admitted" /\ req'.pod = req.pod
        /\ req'.containers = req.containers
    BY <1>7 DEF FinishAdmission, AdmissionInv, IsReq
  <2> QED
    BY <2>1 DEF RaisedInv, RaisedAt
<1>8. CASE RevertPod
  <2>1. /\ req.pc = "admitted" /\ req.pod \in PodSpecs
        /\ req' = [req EXCEPT !.pc = "reverted",
                              !.containers = revertBoostResources(req.containers, req.annotation),
                              !.annotation = NewBoostAnnotation, !.label = FALSE]
    BY <1>1, <1>8 DEF RevertPod
  <2>2. revertBoostResources(req.containers, req.annotation) = req.pod.containers
    BY <2>1, RevertGivesPod
  <2>3. req'.pc = "reverted" /\ req'.pod = req.pod /\ req'.containers = req.pod.containers
    BY <2>1, <2>2 DEF AdmissionInv, IsReq
  <2> QED
    BY <2>1, <2>3, SubmittedRaised
<1>9. CASE DeletePod
  BY <1>9 DEF DeletePod, NoRequest, RaisedInv
<1>10. CASE DeleteBoost \/ Restart \/ UNCHANGED vars
  BY <1>3, <1>10 DEF DeleteBoost, Restart, vars
<1>11. ASSUME NEW pod \in PodSpecs, AdmitPod(pod) PROVE RaisedInv'
  BY <1>2, <1>6, <1>11
<1> QED
  BY <1>4, <1>5, <1>7, <1>8, <1>9, <1>10, <1>11, BoostContainerRaises DEF Next

-----------------------------------------------------------------------------
\* Sums.  FoldFunction takes the elements of a set one by one, in an order
\* that depends on the set only.

Pick(s) == CHOOSE x \in s : TRUE

IsIter(f, iter) ==
    iter = [s \in SUBSET DOMAIN f |->
              IF s = {} THEN 0 ELSE f[Pick(s)] + iter[s \ {Pick(s)}]]

Iter(f) == CHOOSE iter : IsIter(f, iter)

LEMMA SumIsIter ==
    ASSUME NEW f
    PROVE  FoldFunction(+, 0, f) = Iter(f)[DOMAIN f]
BY Zenon DEF FoldFunction, FoldFunctionOnSet, MapThenFoldSet, Iter, IsIter, Pick

\* What is left of a finite set.
LEMMA Rest ==
    ASSUME NEW D, IsFiniteSet(D), NEW s \in SUBSET D, s # {}
    PROVE  /\ Pick(s) \in s /\ s \ {Pick(s)} \in SUBSET D
           /\ Cardinality(s) \in Nat \ {0} /\ Cardinality(s \ {Pick(s)}) = Cardinality(s) - 1
<1>1. Pick(s) \in s
  BY DEF Pick
<1>2. IsFiniteSet(s) /\ Cardinality(s) \in Nat /\ Cardinality(s) # 0
  BY FS_Subset, FS_CardinalityType, FS_EmptySet
<1>3. Cardinality(s \ {Pick(s)}) = Cardinality(s) - 1
  BY <1>1, <1>2, FS_RemoveElement
<1> QED
  BY <1>1, <1>2, <1>3

\* The iteration is defined: a partial one exists for sets up to any size.
LEMMA IterExists ==
    ASSUME NEW f, IsFiniteSet(DOMAIN f), f \in [DOMAIN f -> Nat]
    PROVE  IsIter(f, Iter(f))
<1> DEFINE D == DOMAIN f
           Value(g, s) == IF s = {} THEN 0 ELSE f[Pick(s)] + g[s \ {Pick(s)}]
           Good(g, n) == \A s \in SUBSET D : Cardinality(s) <= n => g[s] = Value(g, s)
           B == {n \in Nat : ~\E g \in [SUBSET D -> Nat] : Good(g, n)}
<1>0. IsFiniteSet(D) /\ f \in [D -> Nat]
  OBVIOUS
<1> HIDE DEF D
<1>1. B = {}
  <2> SUFFICES ASSUME B # {} PROVE FALSE
    OBVIOUS
  <2>1. PICK m \in B : \A n \in B : m <= n
    <3>1. B \in SUBSET Nat
      OBVIOUS
    <3> HIDE DEF B
    <3> QED
      BY <3>1, LeastNatural
  <2>2. \A s \in SUBSET D : Cardinality(s) \in Nat
    BY <1>0, FS_Subset, FS_CardinalityType
  <2>3. CASE m = 0
    <3>1. Good([s \in SUBSET D |-> 0], 0)
      <4>1. ASSUME NEW s \in SUBSET D, Cardinality(s) <= 0 PROVE s = {}
        <5>1. s # {} => Cardinality(s) \in Nat \ {0}
          BY <1>0, Rest
        <5> QED
          BY <4>1, <5>1
      <4> QED
        BY <4>1
    <3> QED
      BY <2>1, <2>3, <3>1
  <2>4. CASE m # 0
    <3>1. m - 1 \in Nat /\ m - 1 \notin B
      <4>1. m \in Nat /\ m - 1 \in Nat /\ ~(m <= m - 1)
        BY <2>1, <2>4
      <4> HIDE DEF B
      <4> QED
        BY <2>1, <4>1
    <3>2. PICK g \in [SUBSET D -> Nat] : Good(g, m - 1)
      BY <3>1
    <3> DEFINE h == [s \in SUBSET D |-> IF Cardinality(s) = m THEN Value(g, s) ELSE g[s]]
    <3>3. ASSUME NEW s \in SUBSET D PROVE Value(g, s) \in Nat
      <4>1. CASE s # {}
        <5>1. Pick(s) \in s /\ s \ {Pick(s)} \in SUBSET D
          BY <1>0, <4>1, Rest
        <5>2. f[Pick(s)] \in Nat /\ g[s \ {Pick(s)}] \in Nat
          BY <1>0, <3>2, <5>1
        <5> QED
          BY <4>1, <5>2
      <4> QED
        BY <4>1
    <3> HIDE DEF Value
    <3>4. h \in [SUBSET D -> Nat]
      BY <3>3
    <3>5. ASSUME NEW s \in SUBSET D, Cardinality(s) <= m PROVE h[s] = Value(g, s)
      <4>1. CASE Cardinality(s) = m
        BY <4>1
      <4>2. CASE Cardinality(s) # m
        <5>1. Cardinality(s) <= m - 1
          BY <2>1, <2>2, <3>5, <4>2
        <5> QED
          BY <3>2, <4>2, <5>1
      <4> QED
        BY <4>1, <4>2
    <3>6. ASSUME NEW s \in SUBSET D, Cardinality(s) <= m PROVE Value(h, s) = Value(g, s)
      <4>1. CASE s = {}
        BY <4>1 DEF Value
      <4>2. CASE s # {}
        <5>1. s \ {Pick(s)} \in SUBSET D /\ Cardinality(s \ {Pick(s)}) # m
          BY <1>0, <2>1, <3>6, <4>2, Rest
        <5>2. h[s \ {Pick(s)}] = g[s \ {Pick(s)}]
          BY <5>1
        <5> HIDE DEF h
        <5> QED
          BY <4>2, <5>2 DEF Value
      <4> QED
        BY <4>1, <4>2
    <3>7. Good(h, m)
      <4> HIDE DEF h
      <4> QED
        BY <3>5, <3>6
    <3> QED
      BY <2>1, <3>4, <3>7
  <2> QED
    BY <2>3, <2>4
<1>2. /\ Cardinality(D) \in Nat
      /\ \A s \in SUBSET D : Cardinality(s) \in Nat /\ Cardinality(s) <= Cardinality(D)
  BY <1>0, FS_Subset, FS_CardinalityType
<1>3. PICK g \in [SUBSET D -> Nat] : Good(g, Cardinality(D))
  BY <1>1, <1>2
<1>4. \A s \in SUBSET D : g[s] = Value(g, s)
  BY <1>2, <1>3
<1>5. IsIter(f, g)
  BY <1>3, <1>4 DEF IsIter, D
<1> QED
  BY <1>5 DEF Iter

LEMMA IterValue ==
    ASSUME NEW f, IsFiniteSet(DOMAIN f), f \in [DOMAIN f -> Nat], NEW s \in SUBSET DOMAIN f
    PROVE  Iter(f)[s] = IF s = {} THEN 0 ELSE f[Pick(s)] + Iter(f)[s \ {Pick(s)}]
<1>1. IsIter(f, Iter(f))
  BY IterExists
<1> QED
  BY <1>1 DEF IsIter

\* A sum of natural numbers is one, and is zero only if each of them is.
LEMMA IterZero ==
    ASSUME NEW f, IsFiniteSet(DOMAIN f), f \in [DOMAIN f -> Nat]
    PROVE  \A s \in SUBSET DOMAIN f :
              Iter(f)[s] \in Nat /\ (Iter(f)[s] = 0 => \A k \in s : f[k] = 0)
<1> DEFINE D == DOMAIN f
           P(s) == Iter(f)[s] \in Nat /\ (Iter(f)[s] = 0 => \A k \in s : f[k] = 0)
           B == {Cardinality(s) : s \in {r \in SUBSET D : ~P(r)}}
<1>0. IsFiniteSet(D) /\ f \in [D -> Nat]
  OBVIOUS
<1>1. ASSUME NEW s \in SUBSET D
      PROVE  Iter(f)[s] = IF s = {} THEN 0 ELSE f[Pick(s)] + Iter(f)[s \ {Pick(s)}]
  BY <1>1, IterValue
<1> HIDE DEF D
<1>2. ASSUME NEW s \in SUBSET D, s # {}, P(s \ {Pick(s)}) PROVE P(s)
  <2> DEFINE rest == s \ {Pick(s)}
             n == Iter(f)[rest]
  <2>1. Pick(s) \in s /\ Pick(s) \in D
    BY <1>0, <1>2, Rest
  <2>2. f[Pick(s)] \in Nat /\ n \in Nat /\ Iter(f)[s] = f[Pick(s)] + n
    BY <1>0, <1>1, <1>2, <2>1
  <2>3. Iter(f)[s] = 0 => f[Pick(s)] = 0 /\ n = 0
    <3> HIDE DEF n
    <3> QED
      BY <2>2
  <2>4. n = 0 => \A k \in rest : f[k] = 0
    BY <1>2
  <2>5. Iter(f)[s] \in Nat
    <3> HIDE DEF n
    <3> QED
      BY <2>2
  <2>6. Iter(f)[s] = 0 => \A k \in s : f[k] = 0
    <3> HIDE DEF n
    <3> QED
      BY <2>3, <2>4
  <2> QED
    BY <2>5, <2>6
<1>3. P({})
  <2>1. {} \in SUBSET D
    OBVIOUS
  <2>2. Iter(f)[{}] = 0
    BY <1>1, <2>1
  <2> QED
    BY <2>2
<1> HIDE DEF P
<1>4. B = {}
  <2> SUFFICES ASSUME B # {} PROVE FALSE
    OBVIOUS
  <2>1. PICK m \in B : \A n \in B : m <= n
    <3>1. B \in SUBSET Nat
      BY <1>0, FS_Subset, FS_CardinalityType
    <3> HIDE DEF B
    <3> QED
      BY <3>1, LeastNatural
  <2>2. PICK s \in SUBSET D : ~P(s) /\ m = Cardinality(s)
    BY <2>1
  <2>3. s # {}
    BY <1>3, <2>2
  <2>4. ~P(s \ {Pick(s)})
    BY <1>2, <2>2, <2>3
  <2>5. /\ s \ {Pick(s)} \in SUBSET D /\ Cardinality(s) \in Nat
        /\ Cardinality(s \ {Pick(s)}) = Cardinality(s) - 1
    BY <1>0, <2>3, Rest
  <2>6. Cardinality(s \ {Pick(s)}) \in B
    BY <2>4, <2>5
  <2>7. m <= Cardinality(s) - 1
    <3> HIDE DEF B
    <3> QED
      BY <2>1, <2>5, <2>6
  <2> QED
    BY <2>2, <2>5, <2>7
<1>5. \A s \in SUBSET D : P(s)
  BY <1>4
<1> QED
  BY <1>5 DEF P, D

\* If no number is less than its counterpart, the sums are equal only if the
\* numbers are.
LEMMA IterEqual ==
    ASSUME NEW f, NEW g, IsFiniteSet(DOMAIN f), DOMAIN g = DOMAIN f, f \in [DOMAIN f -> Nat],
           g \in [DOMAIN f -> Nat], \A k \in DOMAIN f : f[k] <= g[k]
    PROVE  \A s \in SUBSET DOMAIN f :
              /\ Iter(f)[s] <= Iter(g)[s]
              /\ Iter(f)[s] = Iter(g)[s] => \A k \in s : f[k] = g[k]
<1> DEFINE D == DOMAIN f
           P(s) == /\ Iter(f)[s] <= Iter(g)[s]
                   /\ Iter(f)[s] = Iter(g)[s] => \A k \in s : f[k] = g[k]
           B == {Cardinality(s) : s \in {r \in SUBSET D : ~P(r)}}
<1>0. IsFiniteSet(D) /\ f \in [D -> Nat] /\ g \in [D -> Nat] /\ \A k \in D : f[k] <= g[k]
  OBVIOUS
<1>1. ASSUME NEW s \in SUBSET D
      PROVE  /\ Iter(f)[s] = IF s = {} THEN 0 ELSE f[Pick(s)] + Iter(f)[s \ {Pick(s)}]
             /\ Iter(g)[s] = IF s = {} THEN 0 ELSE g[Pick(s)] + Iter(g)[s \ {Pick(s)}]
  <2>1. Iter(f)[s] = IF s = {} THEN 0 ELSE f[Pick(s)] + Iter(f)[s \ {Pick(s)}]
    BY <1>1, IterValue
  <2>2. Iter(g)[s] = IF s = {} THEN 0 ELSE g[Pick(s)] + Iter(g)[s \ {Pick(s)}]
    BY <1>1, IterValue
  <2> QED
    BY <2>1, <2>2
<1>2. ASSUME NEW s \in SUBSET D PROVE Iter(f)[s] \in Nat /\ Iter(g)[s] \in Nat
  BY <1>2, IterZero
<1> HIDE DEF D
<1>3. ASSUME NEW s \in SUBSET D, s # {}, P(s \ {Pick(s)}) PROVE P(s)
  <2> DEFINE rest == s \ {Pick(s)}
             a == f[Pick(s)]
             b == g[Pick(s)]
             m == Iter(f)[rest]
             n == Iter(g)[rest]
  <2>1. Pick(s) \in s /\ Pick(s) \in D /\ rest \in SUBSET D
    BY <1>0, <1>3, Rest
  <2>2. a \in Nat /\ b \in Nat /\ a <= b
    BY <1>0, <2>1
  <2>3. m \in Nat /\ n \in Nat /\ m <= n /\ (m = n => \A k \in rest : f[k] = g[k])
    BY <1>2, <1>3, <2>1
  <2>4. Iter(f)[s] = a + m /\ Iter(g)[s] = b + n
    BY <1>1, <1>3
  <2> HIDE DEF m, n, a, b
  <2>5. a + m <= b + n /\ (a + m = b + n => a = b /\ m = n)
    BY <2>2, <2>3
  <2>6. ASSUME a = b, m = n, NEW k \in s PROVE f[k] = g[k]
    BY <2>3, <2>6 DEF a, b
  <2> QED
    BY <2>4, <2>5, <2>6
<1>4. P({})
  BY <1>1
<1> HIDE DEF P
<1>5. B = {}
  <2> SUFFICES ASSUME B # {} PROVE FALSE
    OBVIOUS
  <2>1. PICK m \in B : \A n \in B : m <= n
    <3>1. B \in SUBSET Nat
      BY <1>0, FS_Subset, FS_CardinalityType
    <3> HIDE DEF B
    <3> QED
      BY <3>1, LeastNatural
  <2>2. PICK s \in SUBSET D : ~P(s) /\ m = Cardinality(s)
    BY <2>1
  <2>3. s # {}
    BY <1>4, <2>2
  <2>4. ~P(s \ {Pick(s)})
    BY <1>3, <2>2, <2>3
  <2>5. /\ s \ {Pick(s)} \in SUBSET D /\ Cardinality(s) \in Nat
        /\ Cardinality(s \ {Pick(s)}) = Cardinality(s) - 1
    BY <1>0, <2>3, Rest
  <2>6. Cardinality(s \ {Pick(s)}) \in B
    BY <2>4, <2>5
  <2>7. m <= Cardinality(s) - 1
    <3> HIDE DEF B
    <3> QED
      BY <2>1, <2>5, <2>6
  <2> QED
    BY <2>2, <2>5, <2>7
<1>6. \A s \in SUBSET D : P(s)
  BY <1>5
<1> QED
  BY <1>6 DEF P, D

-----------------------------------------------------------------------------
\* The quantities of one resource in a sequence of requirements, or of lists.
Quantities(lists, r) == [k \in DOMAIN lists |-> Quantity(lists[k], r)]

LEMMA QuantityType ==
    ASSUME NEW list, IsResourceList(list), NEW r
    PROVE  Quantity(list, r) \in Nat
BY DEF IsResourceList, Quantity

\* A total is zero only if every quantity is.
LEMMA TotalZero ==
    ASSUME NEW lists, IsFiniteSet(DOMAIN lists), \A k \in DOMAIN lists : IsResourceList(lists[k]),
           NEW r, Total(lists, r) = 0, NEW k \in DOMAIN lists
    PROVE  Quantity(lists[k], r) = 0
<1> DEFINE f == Quantities(lists, r)
<1>1. DOMAIN f = DOMAIN lists /\ f \in [DOMAIN lists -> Nat] /\ f[k] = Quantity(lists[k], r)
  BY QuantityType DEF Quantities
<1>2. Total(lists, r) = Iter(f)[DOMAIN f]
  BY SumIsIter DEF Total, Quantities
<1> HIDE DEF f
<1>3. Iter(f)[DOMAIN f] = 0 => \A i \in DOMAIN f : f[i] = 0
  BY <1>1, IterZero
<1> QED
  BY <1>1, <1>2, <1>3

\* Totals are equal only if all quantities are, where none is above its
\* counterpart.
LEMMA TotalEqual ==
    ASSUME NEW low, NEW high, IsFiniteSet(DOMAIN low), DOMAIN high = DOMAIN low, NEW r,
           \A k \in DOMAIN low : /\ IsResourceList(low[k]) /\ IsResourceList(high[k])
                                 /\ Quantity(low[k], r) <= Quantity(high[k], r),
           Total(low, r) = Total(high, r), NEW k \in DOMAIN low
    PROVE  Quantity(low[k], r) = Quantity(high[k], r)
<1> DEFINE f == Quantities(low, r)
           g == Quantities(high, r)
           D == DOMAIN low
<1>1. /\ DOMAIN f = D /\ f \in [D -> Nat] /\ DOMAIN g = D /\ g \in [D -> Nat]
      /\ \A i \in D : f[i] = Quantity(low[i], r) /\ g[i] = Quantity(high[i], r)
  BY QuantityType DEF Quantities
<1>2. Total(low, r) = Iter(f)[D] /\ Total(high, r) = Iter(g)[D]
  BY <1>1, SumIsIter DEF Total, Quantities
<1>3. \A i \in D : f[i] <= g[i]
  BY <1>1
<1> HIDE DEF f, g
<1>4. Iter(f)[D] = Iter(g)[D] => \A i \in D : f[i] = g[i]
  <2>1. /\ IsFiniteSet(DOMAIN f) /\ DOMAIN g = DOMAIN f /\ f \in [DOMAIN f -> Nat]
        /\ g \in [DOMAIN f -> Nat] /\ \A i \in DOMAIN f : f[i] <= g[i]
    BY <1>1, <1>3
  <2>2. \A s \in SUBSET DOMAIN f : Iter(f)[s] = Iter(g)[s] => \A i \in s : f[i] = g[i]
    BY <2>1, IterEqual
  <2> QED
    BY <1>1, <2>2
<1> QED
  BY <1>1, <1>2, <1>4

-----------------------------------------------------------------------------
\* The QoS class of a sequence of requirements.

IsParts(parts) == IsFiniteSet(DOMAIN parts) /\ \A k \in DOMAIN parts : IsRequirements(parts[k])

Requests(parts) == [k \in DOMAIN parts |-> parts[k].requests]
Limits(parts) == [k \in DOMAIN parts |-> parts[k].limits]

Class(parts) ==
    LET requests == [r \in Resources |-> Total(Requests(parts), r)]
        limits == [r \in Resources |-> Total(Limits(parts), r)]
    IN CASE \A r \in Resources : requests[r] = 0 /\ limits[r] = 0 -> "BestEffort"
         [] /\ \E r \in Resources : requests[r] # 0 \/ limits[r] # 0
            /\ \A k \in DOMAIN parts : getQOSResources(parts[k].limits) = Resources
            /\ requests = limits                                  -> "Guaranteed"
         [] OTHER                                                 -> "Burstable"

\* The class of a pod is that of its parts.
LEMMA PodClass ==
    ASSUME NEW pod, NEW podLevel
    PROVE  computePodQOS(pod, podLevel) = Class(QOSParts(pod, podLevel))
BY Zenon DEF computePodQOS, Class, Requests, Limits

\* A pod with a quantity that is not zero is not of the class BestEffort.
LEMMA NotBestEffort ==
    ASSUME NEW parts, IsParts(parts), NEW k \in DOMAIN parts,
           CPU(parts[k].requests) # 0 \/ CPU(parts[k].limits) # 0
    PROVE  Class(parts) # "BestEffort"
<1>1. "cpu" \in Resources
  BY DEF Resources
<1>2. CPU(parts[k].requests) # 0 => Total(Requests(parts), "cpu") # 0
  <2>1. /\ IsFiniteSet(DOMAIN Requests(parts)) /\ k \in DOMAIN Requests(parts)
        /\ \A j \in DOMAIN Requests(parts) : IsResourceList(Requests(parts)[j])
        /\ Requests(parts)[k] = parts[k].requests
    BY DEF IsParts, Requests, IsRequirements
  <2> QED
    BY <2>1, TotalZero DEF CPU
<1>3. CPU(parts[k].limits) # 0 => Total(Limits(parts), "cpu") # 0
  <2>1. /\ IsFiniteSet(DOMAIN Limits(parts)) /\ k \in DOMAIN Limits(parts)
        /\ \A j \in DOMAIN Limits(parts) : IsResourceList(Limits(parts)[j])
        /\ Limits(parts)[k] = parts[k].limits
    BY DEF IsParts, Limits, IsRequirements
  <2> QED
    BY <2>1, TotalZero DEF CPU
<1>4. ~\A r \in Resources : /\ [x \in Resources |-> Total(Requests(parts), x)][r] = 0
                            /\ [x \in Resources |-> Total(Limits(parts), x)][r] = 0
  BY <1>1, <1>2, <1>3
<1> QED
  BY <1>4 DEF Class

\* In a pod of the class Guaranteed every part has a CPU limit, and the totals
\* are the same.
LEMMA GuaranteedParts ==
    ASSUME NEW parts, Class(parts) = "Guaranteed"
    PROVE  /\ \A k \in DOMAIN parts : "cpu" \in DOMAIN parts[k].limits
           /\ Total(Requests(parts), "cpu") = Total(Limits(parts), "cpu")
<1>1. /\ \A k \in DOMAIN parts : getQOSResources(parts[k].limits) = Resources
      /\ [r \in Resources |-> Total(Requests(parts), r)]
           = [r \in Resources |-> Total(Limits(parts), r)]
  BY DEF Class
<1>2. "cpu" \in Resources
  BY DEF Resources
<1>3. \A k \in DOMAIN parts : "cpu" \in DOMAIN parts[k].limits
  BY <1>1, <1>2 DEF getQOSResources
<1>4. [r \in Resources |-> Total(Requests(parts), r)]["cpu"]
        = [r \in Resources |-> Total(Limits(parts), r)]["cpu"]
  BY <1>1
<1> QED
  BY <1>2, <1>3, <1>4

LEMMA Burstable ==
    ASSUME NEW parts, Class(parts) # "BestEffort", NEW k \in DOMAIN parts,
           "cpu" \notin DOMAIN parts[k].limits
    PROVE  Class(parts) = "Burstable"
<1>1. Class(parts) # "Guaranteed"
  BY GuaranteedParts
<1> QED
  BY <1>1 DEF Class

\* If all parts but one have requests equal to limits, a pod of the class
\* Guaranteed has them equal in that one, too.
LEMMA GuaranteedEqual ==
    ASSUME NEW parts, IsParts(parts), Class(parts) = "Guaranteed", NEW n \in DOMAIN parts,
           \A k \in DOMAIN parts \ {n} : CPU(parts[k].requests) = CPU(parts[k].limits)
    PROVE  CPU(parts[n].requests) = CPU(parts[n].limits)
<1> DEFINE low == Requests(parts)
           high == Limits(parts)
<1>1. /\ DOMAIN low = DOMAIN parts /\ DOMAIN high = DOMAIN parts /\ IsFiniteSet(DOMAIN parts)
      /\ \A k \in DOMAIN parts : low[k] = parts[k].requests /\ high[k] = parts[k].limits
  BY DEF Requests, Limits, IsParts
<1>2. \A k \in DOMAIN parts : IsResourceList(low[k]) /\ IsResourceList(high[k])
  BY <1>1 DEF IsParts, IsRequirements
<1>3. Total(low, "cpu") = Total(high, "cpu")
  BY GuaranteedParts
<1>4. \A k \in DOMAIN parts \ {n} : Quantity(low[k], "cpu") = Quantity(high[k], "cpu")
  BY <1>1 DEF CPU
<1>5. \A k \in DOMAIN parts : Quantity(low[k], "cpu") \in Nat /\ Quantity(high[k], "cpu") \in Nat
  BY <1>2, QuantityType
<1> HIDE DEF low, high
<1>6. CASE Quantity(low[n], "cpu") <= Quantity(high[n], "cpu")
  <2>1. \A k \in DOMAIN parts : Quantity(low[k], "cpu") <= Quantity(high[k], "cpu")
    BY <1>4, <1>5, <1>6
  <2>2. Quantity(low[n], "cpu") = Quantity(high[n], "cpu")
    BY <1>1, <1>2, <1>3, <2>1, TotalEqual
  <2> QED
    BY <1>1, <2>2 DEF CPU
<1>7. CASE Quantity(high[n], "cpu") <= Quantity(low[n], "cpu")
  <2>1. \A k \in DOMAIN parts : Quantity(high[k], "cpu") <= Quantity(low[k], "cpu")
    BY <1>4, <1>5, <1>7
  <2>2. Quantity(high[n], "cpu") = Quantity(low[n], "cpu")
    BY <1>1, <1>2, <1>3, <2>1, TotalEqual
  <2> QED
    BY <1>1, <2>2 DEF CPU
<1> QED
  BY <1>5, <1>6, <1>7

\* So a pod of that class whose requests are within the limits has them equal.
LEMMA GuaranteedWithin ==
    ASSUME NEW parts, IsParts(parts), Class(parts) = "Guaranteed",
           \A k \in DOMAIN parts : WithinLimit(parts[k]), NEW n \in DOMAIN parts
    PROVE  CPU(parts[n].requests) = CPU(parts[n].limits)
<1> DEFINE low == Requests(parts)
           high == Limits(parts)
<1>1. /\ DOMAIN low = DOMAIN parts /\ DOMAIN high = DOMAIN parts /\ IsFiniteSet(DOMAIN parts)
      /\ \A k \in DOMAIN parts : low[k] = parts[k].requests /\ high[k] = parts[k].limits
  BY DEF Requests, Limits, IsParts
<1>2. \A k \in DOMAIN parts : IsResourceList(low[k]) /\ IsResourceList(high[k])
  BY <1>1 DEF IsParts, IsRequirements
<1>3. Total(low, "cpu") = Total(high, "cpu")
  BY GuaranteedParts
<1>4. \A k \in DOMAIN parts : Quantity(low[k], "cpu") <= Quantity(high[k], "cpu")
  BY <1>1, GuaranteedParts DEF CPU, WithinLimit
<1> HIDE DEF low, high
<1>5. Quantity(low[n], "cpu") = Quantity(high[n], "cpu")
  BY <1>1, <1>2, <1>3, <1>4, TotalEqual
<1> QED
  BY <1>1, <1>5 DEF CPU

-----------------------------------------------------------------------------
\* The parts of a pod that its class is computed from.

LEMMA PodParts ==
    ASSUME NEW pod \in PodSpecs
    PROVE  LET n == Len(pod.containers)
               init == pod.initContainers
           IN /\ pod = [containers |-> pod.containers, initContainers |-> init,
                        resources |-> pod.resources]
              /\ n \in Nat /\ DOMAIN pod.containers = 1..n
              /\ Len(init) \in Nat /\ init = [k \in 1..Len(init) |-> init[k]]
              /\ \A k \in 1..n : WithinLimit(pod.containers[k].resources)
              /\ \A k \in 1..Len(init) : IsRequirements(init[k]) /\ WithinLimit(init[k])
<1> DEFINE n == Len(pod.containers)
           init == pod.initContainers
<1>1. /\ pod = [containers |-> pod.containers, initContainers |-> init,
                resources |-> pod.resources]
      /\ n \in Nat /\ pod.containers = [k \in 1..n |-> pod.containers[k]]
      /\ Len(init) \in Nat /\ init = [k \in 1..Len(init) |-> init[k]]
      /\ \A k \in DOMAIN pod.containers : WithinLimit(pod.containers[k].resources)
      /\ \A k \in DOMAIN init : IsRequirements(init[k]) /\ WithinLimit(init[k])
  BY AdmissionAssumption
<1>2. DOMAIN pod.containers = 1..n /\ DOMAIN init = 1..Len(init)
  BY <1>1
<1> QED
  BY <1>1, <1>2

\* A pod has no resources of its own that count.
Unlevelled(pod) == pod.resources = None \/ ~handler.podLevelResourcesEnabled

ResourceLists == UNION {[S -> Nat] : S \in SUBSET Resources}
Requirements == [requests : ResourceLists, limits : ResourceLists]

LEMMA RequirementsSet ==
    ASSUME NEW res
    PROVE  IsRequirements(res) <=> res \in Requirements
<1>1. \A list : IsResourceList(list) <=> list \in ResourceLists
  BY DEF IsResourceList, ResourceLists
<1> HIDE DEF ResourceLists
<1> QED
  BY <1>1 DEF IsRequirements, Requirements

PartsOf(pod, containers) ==
    [k \in DOMAIN containers |-> containers[k].resources] \o pod.initContainers

LEMMA PartsFacts ==
    ASSUME NEW pod \in PodSpecs, NEW cs, DOMAIN cs = DOMAIN pod.containers,
           \A k \in DOMAIN cs : IsRequirements(cs[k].resources)
    PROVE  LET n == Len(pod.containers)
               m == Len(pod.initContainers)
           IN /\ IsParts(PartsOf(pod, cs))
              /\ DOMAIN PartsOf(pod, cs) = 1..(n + m)
              /\ \A k \in 1..n : PartsOf(pod, cs)[k] = cs[k].resources
              /\ \A k \in (n + 1)..(n + m) :
                   PartsOf(pod, cs)[k] = pod.initContainers[k - n]
<1> DEFINE n == Len(pod.containers)
           m == Len(pod.initContainers)
           init == pod.initContainers
           res == [k \in DOMAIN cs |-> cs[k].resources]
           parts == PartsOf(pod, cs)
<1>1. /\ n \in Nat /\ DOMAIN pod.containers = 1..n /\ m \in Nat
      /\ init = [k \in 1..m |-> init[k]] /\ \A k \in 1..m : IsRequirements(init[k])
  BY PodParts
<1>2. res \in [1..n -> Requirements] /\ init \in [1..m -> Requirements]
  BY <1>1, RequirementsSet
<1>3. parts = res \o init
  BY DEF PartsOf
<1>4. \A k \in 1..n : res[k] = cs[k].resources
  BY <1>1
<1> HIDE DEF n, m, init, res, parts
<1>5. res \in Seq(Requirements) /\ Len(res) = n /\ init \in Seq(Requirements) /\ Len(init) = m
  BY <1>1, <1>2, SeqDef, LenProperties
<1>6. /\ parts \in Seq(Requirements) /\ Len(parts) = n + m
      /\ \A k \in 1..(n + m) : parts[k] = IF k <= n THEN res[k] ELSE init[k - n]
  BY <1>3, <1>5, ConcatProperties
<1>7. DOMAIN parts = 1..(n + m) /\ \A k \in 1..(n + m) : parts[k] \in Requirements
  BY <1>6, LenProperties, ElementOfSeq
<1>8. IsParts(parts)
  <2>1. IsFiniteSet(1..(n + m))
    BY <1>1, FS_Interval
  <2> QED
    BY <1>7, <2>1, RequirementsSet DEF IsParts
<1>9. ASSUME NEW k \in 1..n PROVE parts[k] = cs[k].resources
  <2>1. k \in 1..(n + m) /\ k <= n
    BY <1>1
  <2>2. parts[k] = res[k]
    BY <1>6, <2>1
  <2> QED
    BY <1>4, <2>2
<1>10. ASSUME NEW k \in (n + 1)..(n + m) PROVE parts[k] = init[k - n]
  <2>1. k \in 1..(n + m) /\ ~(k <= n)
    BY <1>1
  <2> QED
    BY <1>6, <2>1
<1> QED
  BY <1>7, <1>8, <1>9, <1>10 DEF n, m, init, parts

\* The class of a pod with other containers.
LEMMA QosOfParts ==
    ASSUME NEW pod \in PodSpecs, NEW cs
    PROVE  /\ Unlevelled(pod) => QOS(WithContainers(pod, cs)) = Class(PartsOf(pod, cs))
           /\ ~Unlevelled(pod) => QOS(WithContainers(pod, cs)) = QOS(pod)
<1> DEFINE new == WithContainers(pod, cs)
<1>1. /\ new.containers = cs /\ new.initContainers = pod.initContainers
      /\ new.resources = pod.resources
  BY PodParts DEF WithContainers
<1>2. /\ QOS(new) = Class(QOSParts(new, handler.podLevelResourcesEnabled))
      /\ QOS(pod) = Class(QOSParts(pod, handler.podLevelResourcesEnabled))
  BY PodClass DEF QOS
<1> HIDE DEF new
<1>3. Unlevelled(pod) => QOSParts(new, handler.podLevelResourcesEnabled) = PartsOf(pod, cs)
  BY <1>1 DEF QOSParts, Unlevelled, PartsOf
<1>4. ~Unlevelled(pod) => QOSParts(new, handler.podLevelResourcesEnabled)
                            = QOSParts(pod, handler.podLevelResourcesEnabled)
  BY <1>1 DEF QOSParts, Unlevelled
<1> QED
  BY <1>2, <1>3, <1>4 DEF new

LEMMA SameContainers ==
    ASSUME NEW pod \in PodSpecs
    PROVE  WithContainers(pod, pod.containers) = pod
<1>1. pod = [containers |-> pod.containers, initContainers |-> pod.initContainers,
             resources |-> pod.resources]
  BY PodParts
<1>2. [pod EXCEPT !.containers = pod.containers]
        = [containers |-> pod.containers, initContainers |-> pod.initContainers,
           resources |-> pod.resources]
  BY <1>1
<1> QED
  BY <1>1, <1>2 DEF WithContainers

LEMMA Classes ==
    ASSUME NEW pod
    PROVE  QOS(pod) \in {"BestEffort", "Burstable", "Guaranteed"}
<1>1. QOS(pod) = Class(QOSParts(pod, handler.podLevelResourcesEnabled))
  BY PodClass DEF QOS
<1> QED
  BY <1>1 DEF Class

-----------------------------------------------------------------------------
\* The class that the webhook compares with is that of the pod as submitted;
\* it is also the class of the pod as it is, if limits come with requests or
\* the class is Guaranteed.

QosInv ==
    /\ req.pc = "boosting" => req.qos = QOS(req.pod)
    /\ req.pc # "idle" /\ (LimitsWithRequests(req.pod) \/ QOS(req.pod) = "Guaranteed") =>
         QOS(WithContainers(req.pod, req.containers)) = QOS(req.pod)
    /\ RequestsWithinLimits

LEMMA SubmittedQos ==
    ASSUME NEW pod \in PodSpecs, handler' = handler, req'.pod = pod,
           req'.containers = pod.containers, req'.pc = "boosting" => req'.qos = QOS(pod)
    PROVE  QosInv'
<1>1. WithContainers(pod, pod.containers) = pod
  BY SameContainers
<1>2. \A k \in DOMAIN pod.containers : WithinLimit(pod.containers[k].resources)
  BY PodParts
<1>3. QOS(pod)' = QOS(pod)
  BY DEF QOS
<1>4. RequestsWithinLimits'
  BY <1>2 DEF RequestsWithinLimits
<1>5. QOS(WithContainers(req.pod, req.containers))' = QOS(req.pod)'
  BY <1>1 DEF QOS
<1>6. (req.pc = "boosting" => req.qos = QOS(req.pod))'
  BY DEF QOS
<1> QED
  BY <1>4, <1>5, <1>6 DEF QosInv

\* An accepted increase keeps the class when the limit is removed after it.
LEMMA RemovalKeepsQos ==
    ASSUME NEW new, NEW final, IsParts(new), IsParts(final),
           NEW n \in DOMAIN new, DOMAIN final = DOMAIN new,
           CPU(new[n].limits) # 0, Class(new) # "Guaranteed",
           CPU(final[n].requests) # 0, "cpu" \notin DOMAIN final[n].limits
    PROVE  Class(final) = Class(new)
<1>1. Class(new) = "Burstable"
  <2>1. Class(new) # "BestEffort"
    BY NotBestEffort
  <2> QED
    BY <2>1 DEF Class
<1>2. Class(final) # "BestEffort"
  BY NotBestEffort
<1>3. Class(final) = "Burstable"
  BY <1>2, Burstable
<1> QED
  BY <1>1, <1>3

\* The containers with other resources for one of them.
Replaced(new, cs, n, res) == new = [cs EXCEPT ![n].resources = res]

PartsReplaced(pod, new, cs, n, res) ==
    /\ DOMAIN new = DOMAIN cs /\ new[n].resources = res
    /\ \A k \in DOMAIN cs \ {n} : new[k] = cs[k]
    /\ IsParts(PartsOf(pod, new)) /\ DOMAIN PartsOf(pod, new) = DOMAIN PartsOf(pod, cs)
    /\ n \in DOMAIN PartsOf(pod, new) /\ PartsOf(pod, new)[n] = res
    /\ \A k \in DOMAIN PartsOf(pod, cs) \ {n} : PartsOf(pod, new)[k] = PartsOf(pod, cs)[k]

LEMMA ReplacedParts ==
    ASSUME NEW pod \in PodSpecs, NEW cs, DOMAIN cs = DOMAIN pod.containers,
           \A k \in DOMAIN cs : IsShaped(cs[k]) /\ IsRequirements(cs[k].resources),
           NEW n \in DOMAIN cs, NEW res, IsRequirements(res),
           NEW new, Replaced(new, cs, n, res)
    PROVE  PartsReplaced(pod, new, cs, n, res)
<1> DEFINE D == DOMAIN pod.containers
           N == Len(pod.containers)
           M == Len(pod.initContainers)
           a == PartsOf(pod, cs)
           b == PartsOf(pod, new)
<1>0. DOMAIN cs = D /\ n \in D
  OBVIOUS
<1>1. DOMAIN new = D /\ \A k \in D \ {n} : new[k] = cs[k]
  BY <1>0 DEF Replaced
<1>2. new[n].resources = res
  <2>1. [cs[n] EXCEPT !.resources = res].resources = res
    BY DEF IsShaped
  <2>2. new[n] = [cs[n] EXCEPT !.resources = res]
    BY <1>0 DEF Replaced
  <2> QED
    BY <2>1, <2>2
<1>3. \A k \in D : IsRequirements(new[k].resources)
  BY <1>0, <1>1, <1>2
<1>4. /\ DOMAIN a = 1..(N + M) /\ \A k \in 1..N : a[k] = cs[k].resources
      /\ \A k \in (N + 1)..(N + M) : a[k] = pod.initContainers[k - N]
  BY <1>0, PartsFacts
<1>5. /\ IsParts(b) /\ DOMAIN b = 1..(N + M) /\ \A k \in 1..N : b[k] = new[k].resources
      /\ \A k \in (N + 1)..(N + M) : b[k] = pod.initContainers[k - N]
  <2>1. DOMAIN new = DOMAIN pod.containers /\ \A k \in DOMAIN new : IsRequirements(new[k].resources)
    BY <1>1, <1>3
  <2> QED
    BY <2>1, PartsFacts
<1>6. N \in Nat /\ M \in Nat /\ D = 1..N
  BY PodParts
<1> HIDE DEF a, b, N, M, D
<1>7. n \in DOMAIN b /\ b[n] = res
  BY <1>0, <1>2, <1>5, <1>6
<1>8. ASSUME NEW k \in DOMAIN a, k # n PROVE b[k] = a[k]
  <2>1. k \in 1..N \/ k \in (N + 1)..(N + M)
    BY <1>4, <1>6
  <2>2. ASSUME k \in 1..N PROVE b[k] = a[k]
    <3>1. new[k] = cs[k]
      BY <1>1, <1>6, <1>8, <2>2
    <3> QED
      BY <1>4, <1>5, <2>2, <3>1
  <2>3. k \in (N + 1)..(N + M) => b[k] = a[k]
    BY <1>4, <1>5
  <2> QED
    BY <2>1, <2>2, <2>3
<1> QED
  BY <1>0, <1>1, <1>2, <1>4, <1>5, <1>7, <1>8 DEF PartsReplaced, a, b

\* So does an increase of a container: either its limit stays, and the class
\* was compared with the resources it has then, or the limit is removed.
LEMMA BoostContainerQos ==
    ASSUME ObjectsInv, AdmissionInv, RaisedInv, QosInv, BoostContainer
    PROVE  QosInv'
<1> DEFINE n == req.next
           c == req.containers[n]
           res == c.resources
           policy == ResourcePolicy(objects[req.boost], c.name)
           new == NewResources(policy, res)
           final == FinalResources(new)
           pod == req.pod
           cs == req.containers
           csNew == [cs EXCEPT ![n].resources = new]
           csFinal == [cs EXCEPT ![n].resources = final]
<1>1. /\ req.pc = "boosting" /\ n \in DOMAIN pod.containers /\ IsPod /\ n \in Nat
      /\ DOMAIN cs = DOMAIN pod.containers /\ pod \in PodSpecs
      /\ \A k \in DOMAIN pod.containers : RestorableAt(k)
      /\ UNCHANGED handler
  BY DEF BoostContainer, AdmissionInv, Restorable, IsPod
<1>2. c = pod.containers[n] /\ IsRequirements(res) /\ WithinLimit(res)
  <2>1. RestorableAt(n) /\ n >= req.next
    BY <1>1
  <2>2. c = pod.containers[n]
    BY <1>1, <2>1 DEF RestorableAt
  <2>3. IsContainer(pod.containers[n])
    BY <1>1, PodFacts
  <2>4. WithinLimit(pod.containers[n].resources)
    BY <1>1, PodParts
  <2> QED
    BY <2>2, <2>3, <2>4 DEF IsContainer
<1>3. \A k \in DOMAIN cs : IsShaped(cs[k]) /\ IsRequirements(cs[k].resources)
  BY <1>1 DEF RestorableAt, RaisedInv, RaisedAt
<1>4. req.qos = QOS(pod)
  BY <1>1 DEF QosInv
<1>5. CASE req' = [req EXCEPT !.next = n + 1]
  <2>1. /\ req'.pc = req.pc /\ req'.pod = pod /\ req'.containers = cs /\ req'.qos = req.qos
    BY <1>5 DEF AdmissionInv, IsReq
  <2>2. RequestsWithinLimits'
    BY <1>1, <2>1 DEF QosInv, RequestsWithinLimits
  <2>3. \A p : QOS(p)' = QOS(p)
    BY <1>1 DEF QOS
  <2> QED
    BY <1>1, <2>1, <2>2 DEF QosInv, QOS
<1>6. CASE /\ policy # None /\ hasResourcesToIncrease(c) /\ ~containerResizeChangesQosClass(n, new)
           /\ req' = [req EXCEPT !.next = n + 1,
                                 !.annotation = updateBoostAnnotation(@, c.name, c.resources),
                                 !.containers[n].resources = final]
  <2>1. IsPolicy(policy)
    BY <1>1, <1>6, PolicyAccepted
  <2>2. QOS(WithContainers(pod, csNew)) = QOS(pod)
    BY <1>4, <1>6 DEF containerResizeChangesQosClass
  <2>3. CPU(res.requests) # 0 \/ CPU(res.limits) # 0
    BY <1>6 DEF hasResourcesToIncrease
  <2>4. /\ req'.pc = req.pc /\ req'.pod = pod /\ req'.qos = req.qos /\ req'.containers = csFinal
    <3> HIDE DEF final
    <3> QED
      BY <1>6 DEF AdmissionInv, IsReq
  <2> HIDE DEF policy
  <2>5. /\ Raised(new.requests, res.requests) /\ Raised(new.limits, res.limits)
        /\ new = [requests |-> new.requests, limits |-> new.limits]
    BY <1>2, <2>1, PolicyRaises DEF NewResources
  <2>6. IsRequirements(final)
    BY <1>2, <2>1, FinalRaised
  <2> HIDE DEF new
  <2>7. IsRequirements(new)
    BY <2>5 DEF Raised, IsRequirements
  <2>8. /\ final = IF CPU(new.limits) # 0 /\ canRemoveLimit(req.qos)
                   THEN [requests |-> new.requests, limits |-> Without(new.limits, "cpu")]
                   ELSE new
    BY <2>5 DEF FinalResources
  <2> HIDE DEF final
  <2>9. "cpu" \notin DOMAIN Without(new.limits, "cpu")
    BY DEF Without, Restrict
  <2>10. /\ CPU(res.requests) \in Nat /\ CPU(res.limits) \in Nat /\ CPU(new.requests) \in Nat
         /\ CPU(new.limits) \in Nat /\ CPU(new.requests) >= CPU(res.requests)
         /\ CPU(new.limits) >= CPU(res.limits) /\ DOMAIN new.limits = DOMAIN res.limits
    BY <1>2, <2>5, QuantityType DEF Raised, IsRequirements, CPU
  <2>11. PartsReplaced(pod, csFinal, cs, n, final) /\ PartsReplaced(pod, csNew, cs, n, new)
    <3>1. Replaced(csFinal, cs, n, final) /\ Replaced(csNew, cs, n, new)
      BY DEF Replaced
    <3>2. pod \in PodSpecs /\ DOMAIN cs = DOMAIN pod.containers /\ n \in DOMAIN cs
      BY <1>1
    <3> HIDE DEF csFinal, csNew, cs, pod, n
    <3>3. PartsReplaced(pod, csFinal, cs, n, final)
      BY <1>3, <2>6, <3>1, <3>2, ReplacedParts, Zenon
    <3>4. PartsReplaced(pod, csNew, cs, n, new)
      BY <1>3, <2>7, <3>1, <3>2, ReplacedParts, Zenon
    <3> QED
      BY <3>3, <3>4
  <2>12. \A p : QOS(p)' = QOS(p)
    BY <1>1 DEF QOS
  <2>13. ASSUME LimitsWithRequests(pod) \/ QOS(pod) = "Guaranteed"
         PROVE  QOS(WithContainers(pod, csFinal)) = QOS(pod)
    <3>1. CASE ~Unlevelled(pod)
      BY <1>1, <3>1, QosOfParts
    <3>2. CASE Unlevelled(pod) /\ final = new
      BY <2>2, <3>2
    <3>3. CASE Unlevelled(pod) /\ final # new
      <4>1. CPU(new.limits) # 0 /\ req.qos \in {"Burstable", "BestEffort"}
        BY <2>8, <3>3 DEF canRemoveLimit
      <4>2. CPU(final.requests) # 0 /\ "cpu" \notin DOMAIN final.limits
        <5>1. CPU(res.requests) # 0
          BY <1>1, <1>2, <1>4, <2>3, <2>13, <4>1 DEF LimitsWithRequests
        <5>2. CPU(new.requests) # 0
          BY <2>10, <5>1
        <5> QED
          BY <2>8, <2>9, <3>3, <5>2
      <4>5. /\ QOS(WithContainers(pod, csNew)) = Class(PartsOf(pod, csNew))
            /\ QOS(WithContainers(pod, csFinal)) = Class(PartsOf(pod, csFinal))
        BY <1>1, <3>3, QosOfParts
      <4>6. Class(PartsOf(pod, csNew)) # "Guaranteed"
        BY <1>4, <2>2, <4>1, <4>5
      <4> HIDE DEF csNew, csFinal
      <4>7. Class(PartsOf(pod, csFinal)) = Class(PartsOf(pod, csNew))
        BY <2>11, <4>1, <4>2, <4>6, RemovalKeepsQos DEF PartsReplaced
      <4> QED
        BY <2>2, <4>5, <4>7
    <3> QED
      BY <3>1, <3>2, <3>3
  <2>14. ASSUME handler.removeLimits, Unlevelled(pod) PROVE WithinLimit(final)
    <3> SUFFICES ASSUME "cpu" \in DOMAIN final.limits
                 PROVE  CPU(final.requests) <= CPU(final.limits)
      BY DEF WithinLimit
    <3>1. final = new /\ (CPU(new.limits) = 0 \/ QOS(pod) = "Guaranteed")
      <4>1. final = new /\ (CPU(new.limits) = 0 \/ ~canRemoveLimit(req.qos))
        BY <2>8, <2>9
      <4> QED
        BY <1>4, <2>14, <4>1, Classes DEF canRemoveLimit
    <3>2. CPU(new.limits) # 0
      <4> SUFFICES ASSUME CPU(new.limits) = 0 PROVE FALSE
        OBVIOUS
      <4>1. CPU(res.limits) = 0 /\ "cpu" \in DOMAIN res.limits
        BY <2>10, <3>1
      <4>2. CPU(res.requests) <= CPU(res.limits)
        BY <1>2, <4>1 DEF WithinLimit
      <4> QED
        BY <2>3, <2>10, <4>1, <4>2
    <3>3. QOS(pod) = "Guaranteed"
      BY <3>1, <3>2
    <3> DEFINE old == PartsOf(pod, cs)
               inc == PartsOf(pod, csNew)
               N == Len(pod.containers)
               M == Len(pod.initContainers)
    <3>4. Class(old) = "Guaranteed" /\ Class(inc) = "Guaranteed"
      <4>1. QOS(WithContainers(pod, cs)) = QOS(pod)
        BY <1>1, <3>3 DEF QosInv
      <4> QED
        BY <1>1, <2>2, <2>14, <3>3, <4>1, QosOfParts
    <3>5. /\ IsParts(inc) /\ DOMAIN inc = DOMAIN old /\ n \in DOMAIN inc /\ inc[n] = new
          /\ \A k \in DOMAIN old \ {n} : inc[k] = old[k]
      BY <2>11 DEF PartsReplaced
    <3>6. IsParts(old) /\ \A k \in DOMAIN old : WithinLimit(old[k])
      <4>1. \A k \in DOMAIN cs : WithinLimit(cs[k].resources)
        BY <1>1, <2>14 DEF QosInv, RequestsWithinLimits, Unlevelled
      <4>2. /\ N \in Nat /\ M \in Nat /\ DOMAIN pod.containers = 1..N
            /\ \A k \in 1..M : WithinLimit(pod.initContainers[k])
        BY <1>1, PodParts
      <4>3. /\ IsParts(old) /\ DOMAIN old = 1..(N + M) /\ \A k \in 1..N : old[k] = cs[k].resources
            /\ \A k \in (N + 1)..(N + M) : old[k] = pod.initContainers[k - N]
        <5> HIDE DEF cs, pod
        <5> QED
          BY <1>1, <1>3, PartsFacts
      <4> HIDE DEF old, N, M
      <4>4. ASSUME NEW k \in 1..N PROVE WithinLimit(old[k])
        BY <1>1, <4>1, <4>2, <4>3
      <4>5. ASSUME NEW k \in (N + 1)..(N + M) PROVE WithinLimit(old[k])
        <5>1. k - N \in 1..M
          BY <4>2
        <5> QED
          BY <4>2, <4>3, <5>1
      <4>6. ASSUME NEW k \in 1..(N + M) PROVE k \in 1..N \/ k \in (N + 1)..(N + M)
        BY <4>2
      <4> QED
        BY <4>3, <4>4, <4>5, <4>6
    <3> HIDE DEF old, inc
    <3>7. \A k \in DOMAIN old : CPU(old[k].requests) = CPU(old[k].limits)
      BY <3>4, <3>6, GuaranteedWithin
    <3>8. CPU(inc[n].requests) = CPU(inc[n].limits)
      <4>1. \A k \in DOMAIN inc \ {n} : CPU(inc[k].requests) = CPU(inc[k].limits)
        BY <3>5, <3>7
      <4> QED
        BY <3>4, <3>5, <4>1, GuaranteedEqual
    <3> QED
      BY <2>10, <3>1, <3>5, <3>8
  <2> HIDE DEF csFinal, csNew, cs, pod, n
  <2>15. RequestsWithinLimits'
    <3> SUFFICES ASSUME handler.removeLimits, Unlevelled(pod), NEW k \in DOMAIN csFinal
                 PROVE  WithinLimit(csFinal[k].resources)
      BY <1>1, <2>4 DEF RequestsWithinLimits, Unlevelled
    <3>1. CASE k = n
      BY <2>11, <2>14, <3>1 DEF PartsReplaced
    <3>2. CASE k # n
      <4>1. WithinLimit(cs[k].resources)
        BY <1>1, <2>11 DEF PartsReplaced, QosInv, RequestsWithinLimits, Unlevelled, pod, cs
      <4> QED
        BY <2>11, <3>2, <4>1 DEF PartsReplaced
    <3> QED
      BY <3>1, <3>2
  <2>16. (req.pc = "boosting" => req.qos = QOS(req.pod))'
    BY <1>1, <1>4, <2>4 DEF QOS
  <2>17. (req.pc # "idle" /\ (LimitsWithRequests(req.pod) \/ QOS(req.pod) = "Guaranteed") =>
            QOS(WithContainers(req.pod, req.containers)) = QOS(req.pod))'
    BY <1>1, <2>4, <2>13 DEF QOS, LimitsWithRequests
  <2> QED
    BY <2>15, <2>16, <2>17 DEF QosInv
<1> QED
  BY <1>5, <1>6 DEF BoostContainer

\* Every step keeps the class and the requests within the limits.
LEMMA QosNext ==
    ASSUME ObjectsInv, AdmissionInv, RaisedInv, QosInv, [Next]_vars
    PROVE  QosInv'
<1>1. req.pc # "idle" => req.pod \in PodSpecs
  BY DEF AdmissionInv, Restorable, IsPod
<1>2. ASSUME NEW pod \in PodSpecs, req' = Unboosted(pod), UNCHANGED handler
      PROVE  QosInv'
  <2>1. req'.pc = "admitted" /\ req'.pod = pod /\ req'.containers = pod.containers
    BY <1>2 DEF Unboosted, NoRequest
  <2> QED
    BY <1>2, <2>1, SubmittedQos
<1>3. ASSUME UNCHANGED <<handler, req>> PROVE QosInv'
  BY <1>3 DEF QosInv, QOS, RequestsWithinLimits
<1>4. ASSUME NEW spec \in BoostSpecs, CreateBoost(spec) \/ UpdateBoost(spec)
      PROVE  QosInv'
  <2>1. /\ UNCHANGED req \/ (req.pc = "boosting" /\ req' = Unboosted(req.pod))
        /\ UNCHANGED handler
    BY <1>4 DEF CreateBoost, UpdateBoost, BoostEvent
  <2> QED
    BY <1>1, <1>2, <1>3, <2>1
<1>5. CASE WebhookTimeout
  BY <1>1, <1>2, <1>5 DEF WebhookTimeout
<1>6. ASSUME NEW pod \in PodSpecs, AdmitPod(pod), req' # Unboosted(pod)
      PROVE  QosInv'
  <2>1. /\ req'.pc = "boosting" /\ req'.pod = pod /\ req'.containers = pod.containers
        /\ req'.qos = QOS(pod) /\ UNCHANGED handler
    <3>1. /\ req' = [Unboosted(pod) EXCEPT !.pc = "boosting", !.qos = QOS(pod), !.next = 1,
                                           !.boost = registered]
          /\ UNCHANGED handler
      BY <1>6 DEF AdmitPod
    <3> QED
      BY <3>1 DEF Unboosted, NoRequest
  <2> QED
    BY <2>1, SubmittedQos
<1>7. CASE FinishAdmission
  <2>1. /\ req.pc = "boosting" /\ req'.pc = "admitted" /\ req'.pod = req.pod
        /\ req'.containers = req.containers /\ UNCHANGED handler
    BY <1>7 DEF FinishAdmission, AdmissionInv, IsReq
  <2>2. RequestsWithinLimits'
    BY <2>1 DEF QosInv, RequestsWithinLimits
  <2> QED
    BY <2>1, <2>2 DEF QosInv, QOS
<1>8. CASE RevertPod
  <2>1. /\ req.pc = "admitted" /\ req.pod \in PodSpecs /\ UNCHANGED handler
        /\ req' = [req EXCEPT !.pc = "reverted",
                              !.containers = revertBoostResources(req.containers, req.annotation),
                              !.annotation = NewBoostAnnotation, !.label = FALSE]
    BY <1>1, <1>8 DEF RevertPod
  <2>2. revertBoostResources(req.containers, req.annotation) = req.pod.containers
    BY <2>1, RevertGivesPod
  <2>3. req'.pc = "reverted" /\ req'.pod = req.pod /\ req'.containers = req.pod.containers
    BY <2>1, <2>2 DEF AdmissionInv, IsReq
  <2> QED
    BY <2>1, <2>3, SubmittedQos
<1>9. CASE DeletePod
  BY <1>9 DEF DeletePod, NoRequest, QosInv, RequestsWithinLimits
<1>10. CASE DeleteBoost \/ Restart \/ UNCHANGED vars
  BY <1>3, <1>10 DEF DeleteBoost, Restart, vars
<1>11. ASSUME NEW pod \in PodSpecs, AdmitPod(pod) PROVE QosInv'
  <2>1. UNCHANGED handler
    BY <1>11 DEF AdmitPod
  <2> QED
    BY <1>2, <1>6, <1>11, <2>1
<1> QED
  BY <1>4, <1>5, <1>7, <1>8, <1>9, <1>10, <1>11, BoostContainerQos DEF Next

-----------------------------------------------------------------------------
\* How long a boost lasts.

LEMMA DurationEnds ==
    ASSUME NEW spec \in BoostSpecs, validate(spec)
    PROVE  LET d == mapDurationPolicy(spec.durationPolicy)
               fixed == spec.durationPolicy.fixed
           IN /\ (d.fixed = None) # (d.podCondition = None)
              /\ d.fixed # None /\ fixed.value * Unit(fixed) < 2^(WordBits - 1) => d.fixed > 0
<1> DEFINE policy == spec.durationPolicy
           fixed == policy.fixed
           d == mapDurationPolicy(policy)
           half == 2^(WordBits - 1)
           n == fixed.value * Unit(fixed)
<1>1. (policy["fixed"] = None) # (policy["podCondition"] = None)
  <2>1. Cardinality({k \in {"fixed", "podCondition"} : policy[k] # None}) = 1
    BY DEF validate, validateDurationPolicy
  <2> HIDE DEF policy
  <2> QED
    BY <2>1, ExactlyOne
<1>2. half \in Nat \ {0} /\ 2^WordBits = 2 * half /\ None \notin Int
  BY BoostAssumption
<1>3. /\ d.podCondition = policy.podCondition
      /\ d.fixed = IF fixed = None THEN None ELSE Duration(n)
  BY DEF mapDurationPolicy, fixedPolicyToDuration
<1>4. ASSUME fixed # None PROVE n \in Nat \ {0}
  <2>1. fixed.value \in Nat \ {0}
    BY <1>4, BoostAssumption
  <2>2. Unit(fixed) \in Nat \ {0}
    BY AdmissionAssumption DEF Unit
  <2> HIDE DEF fixed
  <2> QED
    BY <2>1, <2>2
<1> HIDE DEF half, n, fixed, policy, d
<1>5. ASSUME fixed # None PROVE Duration(n) # None
  <2>1. n % (2 * half) \in Int /\ (n % (2 * half)) - 2 * half \in Int
    BY <1>2, <1>4, <1>5
  <2> QED
    BY <1>2, <2>1 DEF Duration, half
<1>6. ASSUME fixed # None, n < half PROVE Duration(n) > 0
  <2>1. n % (2 * half) = n /\ ~(n >= half)
    BY <1>2, <1>4, <1>6
  <2> QED
    BY <1>2, <1>4, <1>6, <2>1 DEF Duration, half
<1>7. (d.fixed = None) # (d.podCondition = None)
  BY <1>1, <1>3, <1>5 DEF fixed
<1>8. d.fixed # None /\ n < half => d.fixed > 0
  BY <1>3, <1>6
<1> QED
  BY <1>7, <1>8 DEF half, n, fixed, policy, d

-----------------------------------------------------------------------------
\* The annotation undoes the increase exactly, at every step of the webhook and
\* after it, for any pod, boost and policy, and whatever updates of the boost
\* come between two containers.
THEOREM RevertRestoresCorrect == Spec => []RevertRestores
<1>1. AdmissionInv => RevertRestores
  BY RevertGivesPod DEF RevertRestores
<1> QED
  BY <1>1, AdmissionInitial, AdmissionPreserves, PTL DEF Spec

\* A pod without the boost label has the resources it was submitted with: no
\* increased pod escapes the controller, which watches the label.
THEOREM BoostedPodsLabelledCorrect == Spec => []BoostedPodsLabelled
<1>1. AdmissionInv => BoostedPodsLabelled
  <2> SUFFICES ASSUME AdmissionInv, req.pc \in {"admitted", "reverted"}, ~req.label
               PROVE  req.containers = req.pod.containers
    BY DEF BoostedPodsLabelled
  <2>1. EmptyAnnotation /\ IsPod /\ \A k \in DOMAIN req.pod.containers : RestorableAt(k)
    BY DEF AdmissionInv, Restorable
  <2>2. \A name : NotAnnotated(req.annotation, name)
    BY <2>1 DEF EmptyAnnotation, NotAnnotated
  <2>3. \A k \in DOMAIN req.pod.containers : req.containers[k] = req.pod.containers[k]
    BY <2>1, <2>2, RevertUnannotated DEF RestorableAt
  <2>4. req.pod.containers = [k \in DOMAIN req.pod.containers |-> req.pod.containers[k]]
    BY <2>1, PodFacts DEF IsPod
  <2> QED
    BY <2>1, <2>3, <2>4 DEF IsPod
<1> QED
  BY <1>1, AdmissionInitial, AdmissionPreserves, PTL DEF Spec

\* The invariants of the webhooks together.
WebhooksInv == AdmissionInv /\ ObjectsInv /\ RaisedInv /\ QosInv

LEMMA WebhooksCorrect == Spec => []WebhooksInv
<1>1. Init => WebhooksInv
  <2> SUFFICES ASSUME Init PROVE WebhooksInv
    OBVIOUS
  <2>1. objects \in Seq(BoostObjects) /\ Len(objects) = 0 /\ MaxEvents \in Nat
    BY EmptySeq, AdmissionAssumption DEF Init
  <2>2. req.pc = "idle" /\ req.containers = <<>>
    BY DEF Init, NoRequest
  <2>3. ObjectsInv
    BY <2>1, <2>2 DEF Init, ObjectsInv
  <2>4. QosInv
    BY <2>2 DEF QosInv, RequestsWithinLimits
  <2> QED
    BY <2>2, <2>3, <2>4, AdmissionInitial DEF WebhooksInv, RaisedInv
<1>2. WebhooksInv /\ [Next]_vars => WebhooksInv'
  BY AdmissionPreserves, ObjectsNext, RaisedNext, QosNext DEF WebhooksInv
<1> QED
  BY <1>1, <1>2, PTL DEF Spec

\* The variables have their types; in particular the webhook never uses a
\* boost object that does not exist, and every container keeps resource lists.
THEOREM AdmissionTypes == Spec => []AdmissionTypeOK
<1>1. WebhooksInv => AdmissionTypeOK
  <2> SUFFICES ASSUME WebhooksInv PROVE AdmissionTypeOK
    OBVIOUS
  <2>1. /\ handler \in [removeLimits : BOOLEAN, podLevelResourcesEnabled : BOOLEAN]
        /\ registered \in 0..Len(objects) /\ events \in 0..MaxEvents
        /\ crash \in BoostSpecs \cup {None}
    BY DEF WebhooksInv, ObjectsInv, Accepted
  <2>2. req.pc = "boosting" => req.boost \in DOMAIN objects
    <3>1. objects \in Seq(BoostObjects)
      BY DEF WebhooksInv, ObjectsInv
    <3>2. DOMAIN objects = 1..Len(objects)
      BY <3>1, LenProperties
    <3> QED
      BY <3>2 DEF WebhooksInv, ObjectsInv
  <2>3. /\ req.pc \in {"idle", "boosting", "admitted", "reverted"}
        /\ req.pc # "idle" => /\ req.pod \in PodSpecs
                              /\ DOMAIN req.containers = DOMAIN req.pod.containers
    BY DEF WebhooksInv, AdmissionInv, Restorable, IsPod, RaisedInv
  <2>4. \A k \in DOMAIN req.containers : IsRequirements(req.containers[k].resources)
    BY <2>3 DEF WebhooksInv, RaisedInv, RaisedAt
  <2> QED
    BY <2>1, <2>2, <2>3, <2>4 DEF AdmissionTypeOK
<1> QED
  BY <1>1, WebhooksCorrect, PTL

\* No increase lowers a CPU quantity of a container that stays, whatever the
\* policies, the quantities and the updates of the boost in between.
THEOREM NothingLoweredCorrect == Spec => []NothingLowered
<1>1. WebhooksInv => NothingLowered
  <2> SUFFICES ASSUME WebhooksInv, req.pc # "idle", NEW k \in DOMAIN req.containers
               PROVE  RaisedAt(k)
    BY DEF NothingLowered, RaisedAt
  <2> QED
    BY DEF WebhooksInv, AdmissionInv, Restorable, IsPod, RaisedInv
<1> QED
  BY <1>1, WebhooksCorrect, PTL

\* No increase changes the QoS class of a pod whose CPU limits come with
\* requests, for any number of containers and any quantities: the class that
\* the webhook compares before it removes a limit is the class afterwards.
THEOREM QosKeptCorrect == Spec => []QosKept
<1>1. WebhooksInv => QosKept
  BY DEF WebhooksInv, QosInv, QosKept
<1> QED
  BY <1>1, WebhooksCorrect, PTL

\* Where limits are removed and the pod has no resources of its own, every CPU
\* request stays within the limit of its container: in a pod of the class
\* Guaranteed an increase that is accepted keeps requests and limits equal.
THEOREM RequestsWithinLimitsCorrect == Spec => []RequestsWithinLimits
<1>1. WebhooksInv => RequestsWithinLimits
  BY DEF WebhooksInv, QosInv
<1> QED
  BY <1>1, WebhooksCorrect, PTL

\* A boost that the validating webhook accepted makes the process panic for
\* its selector only: whatever its policies are, they can be mapped.
THEOREM AcceptedPoliciesMapCorrect == Spec => []AcceptedPoliciesMap
<1>1. WebhooksInv => AcceptedPoliciesMap
  BY AcceptedBoost DEF WebhooksInv, ObjectsInv, Accepted, AcceptedPoliciesMap
<1> QED
  BY <1>1, WebhooksCorrect, PTL

\* Every boost object has exactly one way to end, and a fixed duration that
\* fits into a time.Duration, of any width, is positive.
THEOREM BoostsEndCorrect == Spec => []BoostsEnd
<1>1. WebhooksInv => BoostsEnd
  <2> SUFFICES ASSUME WebhooksInv, NEW i \in DOMAIN objects
               PROVE  LET d == objects[i].durationPolicies
                          fixed == objects[i].spec.durationPolicy.fixed
                      IN /\ (d.fixed = None) # (d.podCondition = None)
                         /\ d.fixed # None /\ fixed.value * Unit(fixed) < 2^(WordBits - 1)
                              => d.fixed > 0
    BY DEF BoostsEnd
  <2>1. objects[i] \in BoostObjects
    <3>1. objects \in Seq(BoostObjects)
      BY DEF WebhooksInv, ObjectsInv
    <3> QED
      BY <3>1, ElementOfSeq, LenProperties
  <2>2. PICK spec \in BoostSpecs : /\ validate(spec) /\ NewStartupCPUBoost(spec) # None
                                   /\ objects[i] = NewStartupCPUBoost(spec)
    BY <2>1 DEF BoostObjects, Accepted
  <2>3. /\ objects[i].spec = spec
        /\ objects[i].durationPolicies = mapDurationPolicy(spec.durationPolicy)
    BY <2>2 DEF NewStartupCPUBoost
  <2> QED
    BY <2>2, <2>3, DurationEnds
<1> QED
  BY <1>1, WebhooksCorrect, PTL
=============================================================================
