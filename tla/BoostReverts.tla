---------------------------- MODULE BoostReverts ----------------------------
(***************************************************************************)
(* Invariants of the reversions of pods: in legacy mode no pod loses its   *)
(* label before its resources are restored (UnlabelledPodsRestored), and   *)
(* no pod is restored early (NoEarlyRevert).                               *)
(***************************************************************************)
EXTENDS BoostRegistry

\* Users, kubelets and the admission webhook leave the label, the resources
\* and the UID of a pod that exists alone.
LEMMA PodsWritten ==
    ASSUME TypeOK, (\E p \in Pods : AdmitPod(p)) \/ ClusterStep
    PROVE  \A p \in Pods : api'[p] # None =>
              IF api[p] = None
              THEN /\ api'[p].lab = None => api'[p].res = "init"
                   /\ uids[p] < MaxUid /\ api'[p].uid = uids[p] + 1
              ELSE /\ api'[p].lab = api[p].lab /\ api'[p].res = api[p].res
                   /\ api'[p].uid = api[p].uid
<1> DEFINE Goal(p) == api'[p] # None =>
              IF api[p] = None
              THEN /\ api'[p].lab = None => api'[p].res = "init"
                   /\ uids[p] < MaxUid /\ api'[p].uid = uids[p] + 1
              ELSE /\ api'[p].lab = api[p].lab /\ api'[p].res = api[p].res
                   /\ api'[p].uid = api[p].uid
<1>1. api \in [Pods -> PodObject \cup {None}] /\ uids \in [Pods -> Nat]
  BY TypeParts DEF ApiOK
<1>2. ASSUME NEW p \in Pods, NEW v, api' = [api EXCEPT ![p] = v],
             api'[p] = v => Goal(p)
      PROVE  \A q \in Pods : Goal(q)
  BY <1>1, <1>2
<1>3. CASE UNCHANGED api
  BY <1>3
<1>4. ASSUME NEW p \in Pods, AdmitPod(p)
      PROVE  \A q \in Pods : Goal(q)
  <2>1. PICK lab : StoreNewPod(p, lab)
    BY <1>4 DEF AdmitPod
  <2> DEFINE v == [pod |-> p, uid |-> uids'[p], rv |-> 1, cond |-> "Pending",
                   lab |-> lab, res |-> IF lab = None THEN "init" ELSE "boosted"]
  <2>2. /\ api[p] = None /\ uids[p] < MaxUid /\ uids' = [uids EXCEPT ![p] = @ + 1]
        /\ api' = [api EXCEPT ![p] = v]
    BY <2>1, Zenon DEF StoreNewPod
  <2>3. uids'[p] = uids[p] + 1
    BY <1>1, <2>2
  <2>4. v.uid = uids[p] + 1 /\ (v.lab = None => v.res = "init")
    BY <2>3
  <2> HIDE DEF v
  <2>5. api'[p] = v => Goal(p)
    BY <2>2, <2>4
  <2> QED
    BY <1>2, <2>2, <2>5, Zenon
<1>5. ASSUME NEW p \in Pods, NEW v, api[p] # None, api' = [api EXCEPT ![p] = v],
             v.lab = api[p].lab, v.res = api[p].res, v.uid = api[p].uid
      PROVE  \A q \in Pods : Goal(q)
  <2>1. api'[p] = v => Goal(p)
    BY <1>5
  <2> QED
    BY <1>2, <1>5, <2>1, Zenon
<1>6. ASSUME NEW p \in Pods, SetPodCondition(p)
      PROVE  \A q \in Pods : Goal(q)
  <2>1. PICK c \in {"Scheduled", "Ready"} : StorePod(p, [api[p] EXCEPT !.cond = c])
    BY <1>6 DEF SetPodCondition
  <2>2. api[p] # None /\ api[p] \in PodObject
    BY <1>1, <1>6 DEF SetPodCondition
  <2> DEFINE w == [api[p] EXCEPT !.cond = c]
             v == [w EXCEPT !.rv = @ + 1]
  <2>3. v.lab = api[p].lab /\ v.res = api[p].res /\ v.uid = api[p].uid
    <3>1. w \in PodObject /\ w.lab = api[p].lab /\ w.res = api[p].res /\ w.uid = api[p].uid
      BY <2>2 DEF PodObject, Conditions
    <3> HIDE DEF w
    <3> QED
      BY <3>1 DEF PodObject
  <2>4. UNCHANGED api \/ api' = [api EXCEPT ![p] = v]
    BY <2>1 DEF StorePod
  <2> HIDE DEF v
  <2> QED
    BY <1>3, <1>5, <2>2, <2>3, <2>4
<1>7. ASSUME NEW p \in Pods, TouchPod(p)
      PROVE  \A q \in Pods : Goal(q)
  <2> DEFINE v == [api[p] EXCEPT !.rv = @ + 1]
  <2>1. api[p] # None /\ api[p] \in PodObject
    BY <1>1, <1>7 DEF TouchPod
  <2>2. v.lab = api[p].lab /\ v.res = api[p].res /\ v.uid = api[p].uid
    BY <2>1 DEF PodObject
  <2>3. api' = [api EXCEPT ![p] = v]
    BY <1>7 DEF TouchPod
  <2> HIDE DEF v
  <2> QED
    BY <1>5, <2>1, <2>2, <2>3, Zenon
<1>8. ASSUME NEW p \in Pods, RemovePod(p)
      PROVE  \A q \in Pods : Goal(q)
  BY <1>2, <1>8, Zenon DEF RemovePod
<1>9. ASSUME NEW p \in Pods, DurationElapses(p)
      PROVE  \A q \in Pods : Goal(q)
  BY <1>3, <1>9 DEF DurationElapses
<1>10. ASSUME NEW b \in Boosts, EditBoost(b)
       PROVE  \A q \in Pods : Goal(q)
  BY <1>3, <1>10 DEF EditBoost, podVars
<1> QED
  BY <1>4, <1>6, <1>7, <1>8, <1>9, <1>10 DEF ClusterStep

LEMMA ClusterUnlabelled ==
    ASSUME TypeOK, UnlabelledPodsRestored, (\E p \in Pods : AdmitPod(p)) \/ ClusterStep
    PROVE  UnlabelledPodsRestored'
  BY PodsWritten DEF UnlabelledPodsRestored

\* UnlabelledPodsRestored in legacy mode.  A reversion is a single request
\* there, so no reversion ever waits for its second request.
SingleRequest == \A r \in reverts : r.step = "resize"

LEMMA LegacyRequest ==
    ASSUME LegacyRevertMode, TypeOK, SingleRequest, UnlabelledPodsRestored,
           NEW r \in reverts, RevertStep(r)
    PROVE  SingleRequest' /\ UnlabelledPodsRestored'
<1> DEFINE old == mem[r.ptr]
           obj == RevertResourceBoost(old)
           kept == IF HasBoostAnnotation(old) THEN obj ELSE old
<1>1. RevertLegacy(r)
  BY DEF RevertStep, RevertResources, RevertLabels, SingleRequest
<1>2. PICK o : /\ o \in {"ok", "lost"} => HasBoostAnnotation(old)
               /\ Request(r, o, obj, kept) /\ EndRevert(r, o = "ok")
  BY <1>1, Zenon DEF RevertLegacy
<1>3. SingleRequest'
  BY <1>2 DEF EndRevert, SingleRequest
<1>4. old \in PodObject /\ old.pod \in Pods /\ obj \in PodObject /\ kept.pod = old.pod
  BY RevertTarget, RevertedType, Zenon
<1>5. HasBoostAnnotation(old) => obj.res = "init"
  BY <1>4 DEF RevertResourceBoost, revertBoostResources, revertBoostLabels, PodObject
<1>6. api \in [Pods -> PodObject \cup {None}]
  BY TypeParts DEF ApiOK
<1> HIDE DEF obj, kept
<1>7. CASE o \in {"ok", "lost"}
  <2>1. StorePod(old.pod, obj) /\ obj.res = "init"
    BY <1>2, <1>4, <1>5, <1>7, Zenon DEF Request
  <2>2. CASE UNCHANGED api
    BY <1>3, <2>2 DEF UnlabelledPodsRestored
  <2>3. CASE api' = [api EXCEPT ![old.pod] = [obj EXCEPT !.rv = @ + 1]]
    <3>1. [obj EXCEPT !.rv = @ + 1].res = "init"
      BY <1>4, <2>1 DEF PodObject
    <3> QED
      BY <1>3, <1>4, <1>6, <2>3, <3>1 DEF UnlabelledPodsRestored
  <2> QED
    BY <2>1, <2>2, <2>3 DEF StorePod
<1>8. CASE o \notin {"ok", "lost"}
  BY <1>2, <1>3, <1>8, Zenon DEF Request, UnlabelledPodsRestored
<1> QED
  BY <1>3, <1>7, <1>8

LEMMA LegacyNext ==
    ASSUME LegacyRevertMode, TypeOK, SingleRequest, UnlabelledPodsRestored, [Next]_vars
    PROVE  SingleRequest' /\ UnlabelledPodsRestored'
<1>1. CASE \E r \in reverts : RevertStep(r)
  BY <1>1, LegacyRequest
<1>2. CASE (\E p \in Pods : AdmitPod(p)) \/ ClusterStep
  <2>1. UNCHANGED reverts
    BY <1>2 DEF AdmitPod, ClusterStep, managerVars
  <2> QED
    BY <1>2, <2>1, ClusterUnlabelled DEF SingleRequest
<1>3. CASE UNCHANGED api /\ \A r \in reverts' : r \in reverts \/ r.step = "resize"
  BY <1>3, Zenon DEF SingleRequest, UnlabelledPodsRestored
<1>4. CASE HandlePodEvent
  <2>1. UNCHANGED api
    BY <1>4, Zenon DEF HandlePodEvent, IgnorePodEvent, UpsertPod, DeletePod, NextPodEvent
  <2>2. \A r \in reverts' : r \in reverts \/ r.step = "resize"
    <3>1. \A i, ptr : UpsertBoostPod(i, ptr, mem) =>
             \A r \in reverts' : r \in reverts \/ r.step = "resize"
      BY DEF UpsertBoostPod
    <3>2. UNCHANGED reverts \/ \E i, ptr : UpsertBoostPod(i, ptr, mem)
      <4>1. CASE UpsertPod
        BY <4>1, Zenon DEF UpsertPod
      <4>2. CASE IgnorePodEvent \/ DeletePod
        BY <4>2, Zenon DEF IgnorePodEvent, DeletePod
      <4> QED
        BY <1>4, <4>1, <4>2 DEF HandlePodEvent
    <3> QED
      BY <3>1, <3>2
  <2> QED
    BY <1>3, <2>1, <2>2
<1>5. CASE HandleBoostEvent
  <2>1. UNCHANGED <<api, reverts>>
    BY <1>5 DEF HandleBoostEvent, AddRegularCPUBoost, UpdateRegularCPUBoost,
                DeleteRegularCPUBoost, NextBoostEvent, podVars
  <2> QED
    BY <1>3, <2>1
<1>6. CASE HandlerLoop
  <2>1. UNCHANGED api
    BY <1>6 DEF HandlerLoop, MapOrphanedPod, ListBoostPods, SyncBoostPod, HandlerReturn,
                HandlerStep
  <2>2. \A r \in reverts' : r \in reverts \/ r.step = "resize"
    BY <1>6 DEF HandlerLoop, MapOrphanedPod, ListBoostPods, SyncBoostPod, HandlerReturn,
                UpsertBoostPod
  <2> QED
    BY <1>3, <2>1, <2>2
<1>7. CASE TickAction
  <2>1. UNCHANGED api
    BY <1>7 DEF TickAction, StartTick, EndTick, ValidatePolicy, ReconcileAfterTick, TickStep,
                podVars
  <2>2. \A r \in reverts' : r \in reverts \/ r.step = "resize"
    <3>1. ASSUME NEW i \in tick.boosts, ValidatePolicy(i)
          PROVE  \A r \in reverts' : r \in reverts \/ r.step = "resize"
      BY <3>1 DEF ValidatePolicy
    <3>2. CASE UNCHANGED reverts
      BY <3>2
    <3> QED
      BY <1>7, <3>1, <3>2, Zenon DEF TickAction, StartTick, EndTick, ReconcileAfterTick
  <2> QED
    BY <1>3, <2>1, <2>2
<1>8. CASE Receive \/ (\E b \in Boosts : Reconcile(b)) \/ Restart \/ UNCHANGED vars
  <2>1. UNCHANGED api /\ (UNCHANGED reverts \/ reverts' = {})
    BY <1>8, Zenon DEF Receive, InformerReceive, Reconcile, Restart, vars, podVars, managerVars
  <2> QED
    BY <1>3, <2>1
<1> QED
  BY <1>1, <1>2, <1>4, <1>5, <1>6, <1>7, <1>8 DEF Next

-----------------------------------------------------------------------------
\* NoEarlyRevert.  All boosts have policies that some specification allows.
SpecsOnly ==
    /\ \A b \in Boosts : boostApi[b] \in Specs \cup {None}
    /\ \A k \in DOMAIN boostEvents : boostEvents[k].spec \in Specs
    /\ \A i \in DOMAIN boost : \A policy \in boost[i].pol : Allowed(policy)

\* If pod names are not used again, all objects of a pod have the same UID.
OneUid ==
    /\ \A p \in Pods : api[p] # None => api[p].uid = 1
    /\ \A k \in DOMAIN watch : watch[k].obj.uid = 1
    /\ \A k \in DOMAIN mem : mem[k].uid = 1
    /\ \A obj \in handler.list : obj.uid = 1

\* A reversion is made for a policy that is allowed, and one that has yet to
\* restore the resources is one of an incarnation of the pod whose duration has
\* elapsed, or has an object that is ready.
Justified(r) ==
    IF r.by = "worker"
    THEN /\ Allowed("FixedDuration")
         /\ r.step = "resize" => <<mem[r.ptr].pod, mem[r.ptr].uid>> \in due
    ELSE /\ Allowed("PodCondition")
         /\ r.step = "resize" => mem[r.ptr].cond = "Ready"

LEMMA EventPolicies ==
    ASSUME TypeOK, HandleBoostEvent
    PROVE  \A k \in DOMAIN boost' :
              \/ boost'[k].pol = Head(boostEvents).spec.pol
              \/ k \in DOMAIN boost /\ boost'[k] = boost[k]
<1> DEFINE b == Head(boostEvents).boost
           s == Head(boostEvents).spec
           i == regularBoosts[b]
           x == NewStartupCPUBoost(b, s)
<1>1. boost \in Seq(StartupCPUBoost) /\ Len(boost) \in Nat /\ DOMAIN boost = 1..Len(boost)
  BY TypeParts, LenProperties DEF RegistryOK
<1>2. b \in Boosts /\ s \in BoostSpec
  BY BoostEventType, Zenon DEF HandleBoostEvent, AddRegularCPUBoost, UpdateRegularCPUBoost,
                        DeleteRegularCPUBoost
<1>3. CASE UNCHANGED boost
  BY <1>3
<1>4. CASE boost' = Append(boost, x)
  <2>1. x \in StartupCPUBoost /\ x.pol = s.pol
    BY <1>2, Zenon DEF NewStartupCPUBoost, StartupCPUBoost, BoostSpec
  <2> HIDE DEF x
  <2>2. /\ \A k \in 1..Len(boost) : Append(boost, x)[k] = boost[k]
        /\ Append(boost, x)[Len(boost) + 1] = x
    BY <1>1, <2>1, AppendElements, Zenon
  <2>3. DOMAIN Append(boost, x) = 1..(Len(boost) + 1)
    BY <1>1, <2>1, AppendProperties, LenProperties
  <2>4. DOMAIN boost' = 1..(Len(boost) + 1) /\ boost'[Len(boost) + 1] = x
    BY <1>4, <2>2, <2>3, Zenon
  <2>5. \A k \in 1..Len(boost) : boost'[k] = boost[k]
    BY <1>4, <2>2, Zenon
  <2>6. \A k \in 1..(Len(boost) + 1) : k = Len(boost) + 1 \/ k \in 1..Len(boost)
    BY <1>1
  <2> QED
    BY <1>1, <2>1, <2>4, <2>5, <2>6, Zenon
<1>5. CASE i # 0 /\ boost' = [boost EXCEPT ![i].sel = s.sel, ![i].pol = s.pol]
  <2>1. i \in DOMAIN boost /\ boost[i] \in StartupCPUBoost
    <3>1. regularBoosts[b] \in 0..Len(boost)
      BY <1>2, TypeParts DEF RegistryOK
    <3>2. i # 0
      BY <1>5
    <3>3. i \in 1..Len(boost)
      BY <1>1, <3>1, <3>2
    <3>4. i \in DOMAIN boost
      BY <1>1, <3>3, Zenon
    <3> QED
      BY <1>1, <3>4, ElementOfSeq
  <2>2. DOMAIN boost' = DOMAIN boost /\ \A k \in DOMAIN boost : k # i => boost'[k] = boost[k]
    BY <1>1, <1>5, <2>1, Zenon
  <2>3. boost'[i].pol = s.pol
    BY <1>1, <1>5, <2>1, Zenon DEF StartupCPUBoost
  <2> QED
    BY <2>2, <2>3, Zenon
<1> QED
  BY <1>3, <1>4, <1>5, Zenon DEF HandleBoostEvent, AddRegularCPUBoost, UpdateRegularCPUBoost,
              DeleteRegularCPUBoost

\* A boost event that is published carries an allowed specification.
LEMMA SpecsPublished ==
    ASSUME TypeOK, SpecsOnly, RegistryKept, NEW e \in BoostEvent, e.spec \in Specs,
           boostEvents' = Append(boostEvents, e), NEW b \in Boosts, NEW v \in Specs \cup {None},
           boostApi' = [boostApi EXCEPT ![b] = v] \/ UNCHANGED boostApi
    PROVE  SpecsOnly'
<1>1. /\ boostEvents \in Seq(BoostEvent) /\ Len(boostEvents) \in Nat
      /\ DOMAIN boostEvents = 1..Len(boostEvents) /\ boostApi \in [Boosts -> BoostSpec \cup {None}]
  BY TypeParts, LenProperties DEF BoostApiOK
<1>2. /\ DOMAIN boostEvents' = 1..(Len(boostEvents) + 1) /\ boostEvents'[Len(boostEvents) + 1] = e
      /\ \A k \in 1..Len(boostEvents) : boostEvents'[k] = boostEvents[k]
  BY <1>1, AppendProperties, LenProperties
<1>3. \A k \in DOMAIN boostEvents' : boostEvents'[k].spec \in Specs
  BY <1>1, <1>2 DEF SpecsOnly
<1>4. \A c \in Boosts : boostApi'[c] \in Specs \cup {None}
  BY <1>1 DEF SpecsOnly
<1>5. \A i \in DOMAIN boost' : \A policy \in boost'[i].pol : Allowed(policy)
  BY DEF SpecsOnly, RegistryKept
<1> QED
  BY <1>3, <1>4, <1>5, Zenon DEF SpecsOnly, Allowed

LEMMA SpecsNext ==
    ASSUME TypeOK, SpecsOnly, [Next]_vars
    PROVE  SpecsOnly'
<1>1. ASSUME RegistryKept, UNCHANGED <<boostApi, boostEvents>>
      PROVE  SpecsOnly'
  <2>1. \A i \in DOMAIN boost' : \A policy \in boost'[i].pol : Allowed(policy)
    BY <1>1 DEF SpecsOnly, RegistryKept
  <2> QED
    BY <1>1, <2>1, Zenon DEF SpecsOnly, Allowed
<1>2. ASSUME RegistryKept, NEW b \in Boosts, UpdateStatus(b)
      PROVE  SpecsOnly'
  <2>1. CASE UNCHANGED boostVars
    BY <1>1, <1>2, <2>1 DEF boostVars
  <2>2. CASE boostApi[b] # None /\ StoreStatus(b, ReconciledStatus(b))
    <3> DEFINE e == [type |-> "update", boost |-> b, spec |-> boostApi[b]]
    <3>1. boostApi[b] \in BoostSpec /\ boostApi[b] \in Specs
      BY <2>2, TypeParts DEF BoostApiOK, SpecsOnly
    <3>2. e \in BoostEvent /\ e.spec \in Specs
      BY <3>1 DEF BoostEvent, EventTypes
    <3>3. boostEvents' = Append(boostEvents, e) /\ UNCHANGED boostApi
      BY <2>2 DEF StoreStatus
    <3> HIDE DEF e
    <3> QED
      BY <1>2, <3>1, <3>2, <3>3, SpecsPublished
  <2> QED
    BY <1>2, <2>1, <2>2 DEF UpdateStatus
<1>3. ASSUME RegistryKept, NEW b \in Boosts, EditBoost(b)
      PROVE  SpecsOnly'
  <2>1. /\ boostApi \in [Boosts -> BoostSpec \cup {None}]
        /\ None \notin BoostSpec /\ Specs \subseteq BoostSpec
    BY TypeParts, ClusterAssumption DEF BoostApiOK
  <2>2. ASSUME NEW s \in Specs, boostApi' = [boostApi EXCEPT ![b] = s],
               boostEvents' = Append(boostEvents,
                   [type |-> IF boostApi[b] = None THEN "create" ELSE "update",
                    boost |-> b, spec |-> s])
        PROVE  SpecsOnly'
    <3> DEFINE e == [type |-> IF boostApi[b] = None THEN "create" ELSE "update",
                     boost |-> b, spec |-> s]
    <3>1. e \in BoostEvent /\ e.spec \in Specs /\ boostEvents' = Append(boostEvents, e)
      BY <2>1, <2>2 DEF BoostEvent, EventTypes
    <3> HIDE DEF e
    <3> QED
      BY <1>3, <2>2, <3>1, SpecsPublished
  <2>3. CASE /\ boostApi[b] # None
             /\ boostApi' = [boostApi EXCEPT ![b] = None]
             /\ boostEvents' = Append(boostEvents,
                   [type |-> "delete", boost |-> b, spec |-> boostApi[b]])
    <3> DEFINE e == [type |-> "delete", boost |-> b, spec |-> boostApi[b]]
    <3>1. boostApi[b] \in Specs
      BY <2>3 DEF SpecsOnly
    <3>2. e \in BoostEvent /\ e.spec \in Specs /\ boostEvents' = Append(boostEvents, e)
      BY <2>1, <2>3, <3>1 DEF BoostEvent, EventTypes
    <3> HIDE DEF e
    <3> QED
      BY <1>3, <2>3, <3>2, SpecsPublished
  <2> QED
    BY <1>3, <2>2, <2>3 DEF EditBoost
<1>4. CASE HandleBoostEvent
  <2>1. boostEvents # <<>> /\ boostEvents' = Tail(boostEvents) /\ UNCHANGED boostApi
    BY <1>4 DEF HandleBoostEvent, AddRegularCPUBoost, UpdateRegularCPUBoost,
                DeleteRegularCPUBoost, NextBoostEvent
  <2>2. /\ Len(boostEvents) \in Nat \ {0} /\ DOMAIN boostEvents = 1..Len(boostEvents)
        /\ DOMAIN boostEvents' = 1..(Len(boostEvents) - 1) /\ Head(boostEvents) = boostEvents[1]
        /\ \A k \in 1..(Len(boostEvents) - 1) : boostEvents'[k] = boostEvents[k + 1]
    BY <2>1, TypeParts, HeadTailProperties, LenProperties, EmptySeq DEF BoostApiOK
  <2>3. Head(boostEvents).spec \in Specs /\ \A k \in DOMAIN boostEvents' : boostEvents'[k].spec \in Specs
    BY <2>2 DEF SpecsOnly
  <2>4. \A i \in DOMAIN boost' : \A policy \in boost'[i].pol : Allowed(policy)
    BY <1>4, <2>3, EventPolicies, Zenon DEF SpecsOnly, Allowed
  <2> QED
    BY <2>1, <2>3, <2>4, Zenon DEF SpecsOnly, Allowed
<1>5. CASE Restart
  <2>1. boost' = <<>> /\ UNCHANGED boostApi
    BY <1>5, Zenon DEF Restart
  <2> DEFINE existing == {b \in Boosts : boostApi[b] # None}
  <2>2. PICK g \in [1..Cardinality(existing) -> existing] :
           boostEvents' = [k \in DOMAIN g |->
                 [type |-> "create", boost |-> g[k], spec |-> boostApi[g[k]]]]
    BY <1>5, Zenon DEF Restart
  <2>3. \A k \in DOMAIN boostEvents' : boostEvents'[k].spec \in Specs
    BY <2>2 DEF SpecsOnly
  <2>4. DOMAIN boost' = {}
    BY <2>1
  <2> QED
    BY <2>1, <2>3, <2>4, Zenon DEF SpecsOnly
<1>6. CASE HandlePodEvent
  <2>1. UNCHANGED <<boostApi, boostEvents>>
    BY <1>6, Zenon DEF HandlePodEvent, IgnorePodEvent, UpsertPod, DeletePod, NextPodEvent, boostVars
  <2> QED
    BY <1>1, <1>6, <2>1, PodEventKeeps
<1>7. CASE HandlerLoop
  <2>1. UNCHANGED <<boostApi, boostEvents>>
    BY <1>7 DEF HandlerLoop, MapOrphanedPod, ListBoostPods, SyncBoostPod, HandlerReturn,
                HandlerStep, boostVars
  <2> QED
    BY <1>1, <1>7, <2>1, HandlerLoopKeeps
<1>8. CASE \E r \in reverts : RevertStep(r)
  <2>1. UNCHANGED <<boostApi, boostEvents>>
    BY <1>8, Zenon DEF RevertStep, RevertResources, RevertLabels, RevertLegacy, Request, boostVars
  <2> QED
    BY <1>1, <1>8, <2>1, RevertKeeps
<1>9. ASSUME UNCHANGED <<boost, regularBoosts, timedBoosts, configurations>>
      PROVE  RegistryKept
  BY <1>9 DEF RegistryKept
<1>10. CASE TickAction
  <2>1. RegistryKept
    BY <1>9, <1>10 DEF TickAction, StartTick, EndTick, ValidatePolicy, ReconcileAfterTick, TickStep
  <2>2. UNCHANGED <<boostApi, boostEvents>> \/ \E b \in Boosts : UpdateStatus(b)
    BY <1>10, Zenon DEF TickAction, StartTick, EndTick, ValidatePolicy, ReconcileAfterTick, boostVars
  <2> QED
    BY <1>1, <1>2, <2>1, <2>2
<1>11. CASE \E b \in Boosts : Reconcile(b)
  <2>1. RegistryKept
    BY <1>9, <1>11 DEF Reconcile
  <2> QED
    BY <1>2, <1>11, <2>1 DEF Reconcile
<1>12. CASE (\E p \in Pods : AdmitPod(p)) \/ ClusterStep \/ Receive \/ UNCHANGED vars
  <2>1. RegistryKept
    BY <1>9, <1>12 DEF AdmitPod, ClusterStep, Receive, vars, managerVars
  <2>2. UNCHANGED <<boostApi, boostEvents>> \/ \E b \in Boosts : EditBoost(b)
    BY <1>12 DEF AdmitPod, StoreNewPod, ClusterStep, SetPodCondition, TouchPod, RemovePod,
                 DurationElapses, Receive, InformerReceive, vars, boostVars
  <2> QED
    BY <1>1, <1>3, <2>1, <2>2
<1> QED
  BY <1>4, <1>5, <1>6, <1>7, <1>8, <1>10, <1>11, <1>12 DEF Next

\* What a request does to the pod and to the object it was computed with.
LEMMA RequestEffect ==
    ASSUME TypeOK, NEW r \in reverts, RevertStep(r), LegacyRevertMode => r.step = "resize"
    PROVE  LET old == mem[r.ptr]
               p == old.pod
           IN /\ old \in PodObject /\ p \in Pods
              /\ \E obj : /\ mem' = [mem EXCEPT ![r.ptr] = obj] /\ obj.pod = p
                          /\ \/ obj.uid = old.uid /\ obj.cond = old.cond
                             \/ /\ ~LegacyRevertMode /\ api[p] # None
                                /\ obj.uid = api[p].uid
              /\ \/ UNCHANGED <<api, watch>>
                 \/ \E v \in PodObject :
                      /\ api[p] # None /\ api' = [api EXCEPT ![p] = v] /\ v.uid = api[p].uid
                      /\ watch' = Append(watch, [type |-> "update", obj |-> v])
                      /\ LegacyRevertMode => api[p].uid = old.uid
                      /\ r.step = "labels" => v.res = api[p].res
<1> DEFINE old == mem[r.ptr]
           p == old.pod
           Goal == /\ \E obj : /\ mem' = [mem EXCEPT ![r.ptr] = obj] /\ obj.pod = p
                               /\ \/ obj.uid = old.uid /\ obj.cond = old.cond
                                  \/ /\ ~LegacyRevertMode /\ api[p] # None
                                     /\ obj.uid = api[p].uid
                   /\ \/ UNCHANGED <<api, watch>>
                      \/ \E v \in PodObject :
                           /\ api[p] # None /\ api' = [api EXCEPT ![p] = v] /\ v.uid = api[p].uid
                           /\ watch' = Append(watch, [type |-> "update", obj |-> v])
                           /\ LegacyRevertMode => api[p].uid = old.uid
                           /\ r.step = "labels" => v.res = api[p].res
<1>1. /\ old \in PodObject /\ p \in Pods
      /\ api[p] # None => api[p] \in PodObject /\ api[p].pod = p
      /\ api \in [Pods -> PodObject \cup {None}]
  BY RevertTarget, TypeParts, Zenon DEF ApiOK
<1>2. ASSUME NEW x \in PodObject, x.pod = p, x.uid = old.uid, x.cond = old.cond,
             NEW srv, NEW o, Request(r, o, srv, x),
             o \in {"ok", "lost"} =>
                 /\ api[p] # None /\ srv \in PodObject /\ srv.pod = p /\ srv.uid = api[p].uid
                 /\ LegacyRevertMode => api[p].uid = old.uid /\ srv.cond = old.cond
                 /\ r.step = "labels" => srv.res = api[p].res
      PROVE  Goal
  <2>1. CASE o \notin {"ok", "lost"}
    <3>1. UNCHANGED <<api, watch>> /\ mem' = [mem EXCEPT ![r.ptr] = x]
      BY <1>2, <2>1, Zenon DEF Request
    <3> QED
      BY <1>2, <3>1, Zenon
  <2>2. CASE o \in {"ok", "lost"}
    <3> DEFINE v == [srv EXCEPT !.rv = @ + 1]
    <3>1. /\ StorePod(p, srv)
          /\ mem' = [mem EXCEPT ![r.ptr] = IF o = "ok" THEN api'[p] ELSE x]
      BY <1>2, <2>2, Zenon DEF Request
    <3>2. /\ v \in PodObject /\ v.pod = p /\ v.uid = srv.uid /\ v.cond = srv.cond
          /\ v.res = srv.res
      BY <1>2, <2>2 DEF PodObject
    <3>3. \/ UNCHANGED <<api, watch>> /\ srv = api[p]
          \/ api' = [api EXCEPT ![p] = v] /\ watch' = Append(watch, [type |-> "update", obj |-> api'[p]])
      BY <3>1 DEF StorePod
    <3> HIDE DEF v
    <3>4. api' = [api EXCEPT ![p] = v] => api'[p] = v
      BY <1>1
    <3>5. api'[p].pod = p /\ api'[p].uid = srv.uid /\ api'[p].cond = srv.cond
      BY <1>2, <2>2, <3>2, <3>3, <3>4
    <3>6. \/ UNCHANGED <<api, watch>>
          \/ \E w \in PodObject :
               /\ api[p] # None /\ api' = [api EXCEPT ![p] = w] /\ w.uid = api[p].uid
               /\ watch' = Append(watch, [type |-> "update", obj |-> w])
               /\ LegacyRevertMode => api[p].uid = old.uid
               /\ r.step = "labels" => w.res = api[p].res
      BY <1>2, <2>2, <3>2, <3>3, <3>4, Zenon
    <3>7. CASE o = "ok"
      <4>1. mem' = [mem EXCEPT ![r.ptr] = api'[p]]
        BY <3>1, <3>7
      <4>2. api'[p].uid = api[p].uid
        BY <1>2, <2>2, <3>5
      <4>3. \/ api'[p].uid = old.uid /\ api'[p].cond = old.cond
            \/ ~LegacyRevertMode /\ api[p] # None /\ api'[p].uid = api[p].uid
        BY <1>2, <2>2, <3>5, <4>2
      <4> QED
        BY <3>5, <3>6, <4>1, <4>3, Zenon
    <3>8. CASE o # "ok"
      <4>1. mem' = [mem EXCEPT ![r.ptr] = x]
        BY <3>1, <3>8
      <4> QED
        BY <1>2, <3>6, <4>1, Zenon
    <3> QED
      BY <3>7, <3>8
  <2> QED
    BY <2>1, <2>2
<1>3. \A request, o : o \in Outcomes(request, p) /\ o \in {"ok", "lost"} => api[p] # None
  BY DEF Outcomes
<1>4. ASSUME NEW x \in PodObject, x.pod = p, x.uid = old.uid, x.cond = old.cond,
             NEW o, Request(r, o, MergePatch(api[p], old, x), x), ~LegacyRevertMode,
             o \in {"ok", "lost"} => api[p] # None,
             r.step = "labels" => x.res = old.res
      PROVE  Goal
  <2> DEFINE srv == MergePatch(api[p], old, x)
  <2>1. api[p] # None =>
           /\ srv \in PodObject /\ srv.pod = p /\ srv.uid = api[p].uid
           /\ r.step = "labels" => srv.res = api[p].res
    BY <1>1, <1>4 DEF MergePatch, PodObject
  <2>2. Request(r, o, srv, x)
    BY <1>4
  <2> HIDE DEF srv, Goal
  <2> QED
    BY <1>2, <1>4, <2>1, <2>2
<1>5. ASSUME RevertResources(r)
      PROVE  Goal
  <2> DEFINE x == revertBoostResources(old)
  <2>1. PICK o : o \in Outcomes("resize", p) /\ Request(r, o, MergePatch(api[p], old, x), x)
    BY <1>5, Zenon DEF RevertResources
  <2>2. x \in PodObject /\ x.pod = p
    BY <1>1, RevertedType
  <2>3. x.uid = old.uid /\ x.cond = old.cond
    BY <1>1 DEF revertBoostResources, PodObject
  <2>4. ~LegacyRevertMode /\ (r.step = "labels" => x.res = old.res)
    BY <1>5 DEF RevertResources
  <2>5. o \in {"ok", "lost"} => api[p] # None
    BY <1>3, <2>1
  <2> HIDE DEF x, Goal
  <2> QED
    BY <1>4, <2>1, <2>2, <2>3, <2>4, <2>5, Zenon
<1>6. ASSUME RevertLabels(r)
      PROVE  Goal
  <2> DEFINE x == revertBoostLabels(old)
  <2>1. PICK o : o \in Outcomes("labels", p) /\ Request(r, o, MergePatch(api[p], old, x), x)
    BY <1>6, Zenon DEF RevertLabels
  <2>2. x \in PodObject /\ x.pod = p
    BY <1>1, RevertedType
  <2>3. x.uid = old.uid /\ x.cond = old.cond /\ x.res = old.res
    BY <1>1 DEF revertBoostLabels, PodObject
  <2>4. ~LegacyRevertMode
    BY <1>6 DEF RevertLabels
  <2>5. o \in {"ok", "lost"} => api[p] # None
    BY <1>3, <2>1
  <2> HIDE DEF x, Goal
  <2> QED
    BY <1>4, <2>1, <2>2, <2>3, <2>4, <2>5, Zenon
<1>7. ASSUME RevertLegacy(r)
      PROVE  Goal
  <2> DEFINE y == RevertResourceBoost(old)
             x == IF HasBoostAnnotation(old) THEN y ELSE old
             current == api[p] # None /\ api[p].uid = old.uid /\ api[p].rv = old.rv
  <2>1. PICK o : /\ o \in IF HasBoostAnnotation(old) /\ current
                          THEN Outcomes("update", p) ELSE {"conflict"}
                 /\ Request(r, o, y, x)
    BY <1>7, Zenon DEF RevertLegacy
  <2>2. o \in {"ok", "lost"} => api[p] # None /\ api[p].uid = old.uid
    BY <2>1
  <2>3. y \in PodObject /\ y.pod = p /\ x \in PodObject /\ x.pod = p
    BY <1>1, RevertedType
  <2>4. y.uid = old.uid /\ y.cond = old.cond
    BY <1>1 DEF RevertResourceBoost, revertBoostResources, revertBoostLabels, PodObject
  <2>5. x.uid = old.uid /\ x.cond = old.cond /\ r.step # "labels"
    BY <1>7, <2>4 DEF RevertLegacy
  <2>6. Request(r, o, y, x)
    BY <2>1
  <2>7. o \in {"ok", "lost"} =>
           /\ api[p] # None /\ y \in PodObject /\ y.pod = p /\ y.uid = api[p].uid
           /\ LegacyRevertMode => api[p].uid = old.uid /\ y.cond = old.cond
           /\ r.step = "labels" => y.res = api[p].res
    BY <2>2, <2>3, <2>4, <2>5, Zenon
  <2> HIDE DEF x, y, Goal
  <2> QED
    BY <1>2, <2>3, <2>5, <2>6, <2>7, Zenon
<1> QED
  BY <1>1, <1>5, <1>6, <1>7 DEF RevertStep

LEMMA AppendedOrOld ==
    ASSUME NEW S, NEW q \in Seq(S), NEW e
    PROVE  \A k \in DOMAIN Append(q, e) :
              Append(q, e)[k] = e \/ (k \in DOMAIN q /\ Append(q, e)[k] = q[k])
<1>1. q \in Seq(S \cup {e})
  BY SeqMonotonic
<1>2. DOMAIN Append(q, e) = 1..(Len(q) + 1) /\ DOMAIN q = 1..Len(q) /\ Len(q) \in Nat
  BY <1>1, AppendProperties, LenProperties
<1>3. e \in S \cup {e}
  OBVIOUS
<1>4. /\ \A k \in 1..Len(q) : Append(q, e)[k] = q[k]
      /\ Append(q, e)[Len(q) + 1] = e
  BY <1>1, <1>3, AppendElements, Zenon
<1>5. \A k \in 1..(Len(q) + 1) : k = Len(q) + 1 \/ k \in 1..Len(q)
  BY <1>2
<1> QED
  BY <1>2, <1>4, <1>5, Zenon

LEMMA TailElements ==
    ASSUME NEW S, NEW q \in Seq(S), q # <<>>
    PROVE  /\ 1 \in DOMAIN q /\ Head(q) = q[1]
           /\ \A k \in DOMAIN Tail(q) : \E j \in DOMAIN q : Tail(q)[k] = q[j]
<1>1. /\ Len(q) \in Nat \ {0} /\ DOMAIN q = 1..Len(q) /\ DOMAIN Tail(q) = 1..(Len(q) - 1)
      /\ Head(q) = q[1] /\ \A k \in 1..(Len(q) - 1) : Tail(q)[k] = q[k + 1]
  BY HeadTailProperties, LenProperties, EmptySeq
<1>2. \A k \in 1..(Len(q) - 1) : k + 1 \in DOMAIN q
  BY <1>1
<1> QED
  BY <1>1, <1>2

\* Objects of the API server join the watch.
LEMMA WatchedUid ==
    ASSUME TypeOK, OneUid, ApiOK', \A p \in Pods : api'[p] # None => api'[p].uid = 1,
           NEW p \in Pods, NEW type, NEW obj, obj = api[p] \/ obj = api'[p],
           watch' = Append(watch, [type |-> type, obj |-> obj])
    PROVE  \A k \in DOMAIN watch' : watch'[k].obj.uid = 1
<1> DEFINE c == [type |-> type, obj |-> obj]
<1>1. watch \in Seq(PodChange) /\ watch' \in Seq(PodChange) /\ None \notin PodObject
  BY TypeParts, ClusterAssumption DEF ApiOK
<1> SUFFICES ASSUME NEW k \in DOMAIN watch' PROVE watch'[k].obj.uid = 1
  OBVIOUS
<1>2. watch'[k] \in PodChange
  BY <1>1, ElementOfSeq, LenProperties
<1>3. watch'[k].obj # None
  BY <1>1, <1>2 DEF PodChange
<1>4. c.obj = obj
  OBVIOUS
<1> HIDE DEF c
<1>5. watch'[k] = c \/ (k \in DOMAIN watch /\ watch'[k] = watch[k])
  <2>1. watch' = Append(watch, c)
    BY DEF c
  <2>2. \A j \in DOMAIN Append(watch, c) :
           Append(watch, c)[j] = c \/ (j \in DOMAIN watch /\ Append(watch, c)[j] = watch[j])
    BY <1>1, AppendedOrOld
  <2> QED
    BY <2>1, <2>2, Zenon
<1> QED
  BY <1>3, <1>4, <1>5, Zenon DEF OneUid

LEMMA HeapUid ==
    ASSUME TypeOK, OneUid, NEW obj, mem' = Append(mem, obj), obj.uid = 1
    PROVE  \A k \in DOMAIN mem' : mem'[k].uid = 1
<1>1. mem \in Seq(PodObject)
  BY TypeParts DEF HeapOK
<1>2. \A k \in DOMAIN mem' : mem'[k] = obj \/ (k \in DOMAIN mem /\ mem'[k] = mem[k])
  BY <1>1, AppendedOrOld, Zenon
<1> QED
  BY <1>2, Zenon DEF OneUid

LEMMA ClusterUid ==
    ASSUME TypeOK, ApiOK', OneUid, MaxUid <= 1, (\E p \in Pods : AdmitPod(p)) \/ ClusterStep
    PROVE  OneUid'
<1>1. \A p \in Pods : api'[p] # None => api'[p].uid = 1
  <2>1. \A p \in Pods : uids[p] \in Nat /\ MaxUid \in Nat
    BY TypeParts, ClusterAssumption DEF ApiOK
  <2>2. \A p \in Pods : uids[p] < MaxUid => uids[p] + 1 = 1
    BY <2>1
  <2> QED
    BY <2>2, PodsWritten, Zenon DEF OneUid
<1>2. UNCHANGED <<mem, handler>>
  BY DEF AdmitPod, ClusterStep, StoreNewPod, SetPodCondition, TouchPod, RemovePod,
         DurationElapses, EditBoost, managerVars, podVars
<1>3. UNCHANGED watch => \A k \in DOMAIN watch' : watch'[k].obj.uid = 1
  BY DEF OneUid
<1>4. \A k \in DOMAIN watch' : watch'[k].obj.uid = 1
  <2>1. ASSUME NEW p \in Pods, AdmitPod(p)
        PROVE  watch' = Append(watch, [type |-> "create", obj |-> api'[p]])
    BY <2>1 DEF AdmitPod, StoreNewPod
  <2>2. ASSUME NEW p \in Pods, SetPodCondition(p) \/ TouchPod(p)
        PROVE  UNCHANGED watch \/ watch' = Append(watch, [type |-> "update", obj |-> api'[p]])
    BY <2>2, Zenon DEF SetPodCondition, StorePod, TouchPod
  <2>3. ASSUME NEW p \in Pods, RemovePod(p)
        PROVE  watch' = Append(watch, [type |-> "delete", obj |-> api[p]])
    BY <2>3 DEF RemovePod
  <2>4. ASSUME NEW p \in Pods, DurationElapses(p)
        PROVE  UNCHANGED watch
    BY <2>4 DEF DurationElapses
  <2>5. ASSUME NEW b \in Boosts, EditBoost(b)
        PROVE  UNCHANGED watch
    BY <2>5 DEF EditBoost, podVars
  <2>6. \/ UNCHANGED watch
        \/ \E p \in Pods : \E type, obj :
              /\ obj = api[p] \/ obj = api'[p]
              /\ watch' = Append(watch, [type |-> type, obj |-> obj])
    BY <2>1, <2>2, <2>3, <2>4, <2>5, Zenon DEF ClusterStep
  <2> QED
    BY <1>1, <1>3, <2>6, WatchedUid, Zenon
<1> QED
  BY <1>1, <1>2, <1>4 DEF OneUid

LEMMA RevertUid ==
    ASSUME TypeOK, ApiOK', OneUid, ~LegacyRevertMode, NEW r \in reverts, RevertStep(r)
    PROVE  OneUid'
<1> DEFINE old == mem[r.ptr]
           p == old.pod
<1>1. PICK obj : /\ mem' = [mem EXCEPT ![r.ptr] = obj]
                 /\ \/ obj.uid = old.uid
                    \/ api[p] # None /\ obj.uid = api[p].uid
  BY RequestEffect, Zenon
<1>2. p \in Pods /\ r.ptr \in DOMAIN mem /\ mem \in Seq(PodObject)
  BY RevertTarget, TypeParts, Zenon DEF ThreadsOK, HeapOK
<1>3. obj.uid = 1
  BY <1>1, <1>2 DEF OneUid
<1>4. \A k \in DOMAIN mem' : mem'[k].uid = 1
  BY <1>1, <1>2, <1>3, Zenon DEF OneUid
<1>5. \/ UNCHANGED <<api, watch>>
      \/ \E v : /\ api[p] # None /\ api' = [api EXCEPT ![p] = v] /\ v.uid = api[p].uid
                /\ watch' = Append(watch, [type |-> "update", obj |-> v])
  BY RequestEffect, Zenon
<1>6. api \in [Pods -> PodObject \cup {None}]
  BY TypeParts DEF ApiOK
<1>7. (\A q \in Pods : api'[q] # None => api'[q].uid = 1) /\ \A k \in DOMAIN watch' : watch'[k].obj.uid = 1
  <2>1. CASE UNCHANGED <<api, watch>>
    BY <2>1 DEF OneUid
  <2>2. ASSUME NEW v, api[p] # None, api' = [api EXCEPT ![p] = v], v.uid = api[p].uid,
               watch' = Append(watch, [type |-> "update", obj |-> v])
        PROVE  /\ \A q \in Pods : api'[q] # None => api'[q].uid = 1
               /\ \A k \in DOMAIN watch' : watch'[k].obj.uid = 1
    <3>1. api'[p] = v /\ \A q \in Pods : api'[q] # None => api'[q].uid = 1
      BY <1>2, <1>6, <2>2, Zenon DEF OneUid
    <3>2. \A k \in DOMAIN watch' : watch'[k].obj.uid = 1
      BY <1>2, <2>2, <3>1, WatchedUid, Zenon
    <3> QED
      BY <3>1, <3>2
  <2> QED
    BY <1>5, <2>1, <2>2
<1>8. handler' = handler \/ handler' = Idle
  BY Zenon DEF RevertStep, RevertResources, RevertLabels, RevertLegacy, EndRevert
<1>9. \A x \in handler'.list : x.uid = 1
  BY <1>8 DEF OneUid, Idle
<1> QED
  BY <1>4, <1>7, <1>9 DEF OneUid

LEMMA UidNext ==
    ASSUME TypeOK, ApiOK', OneUid, ~LegacyRevertMode, MaxUid <= 1, [Next]_vars
    PROVE  OneUid'
<1>1. CASE HandlePodEvent
  <2>1. UNCHANGED <<api, watch, mem>>
    BY <1>1, Zenon DEF HandlePodEvent, IgnorePodEvent, UpsertPod, DeletePod, NextPodEvent
  <2>2. handler' = handler \/ \E i : handler' = [Idle EXCEPT !.op = "pod", !.boost = i]
    BY <1>1, Zenon DEF HandlePodEvent, IgnorePodEvent, UpsertPod, DeletePod
  <2>3. handler'.list = handler.list \/ handler'.list = {}
    BY <2>2 DEF Idle
  <2> QED
    BY <2>1, <2>3 DEF OneUid
<1>2. CASE HandleBoostEvent
  <2>1. UNCHANGED <<api, watch, mem>>
    BY <1>2 DEF HandleBoostEvent, AddRegularCPUBoost, UpdateRegularCPUBoost,
                DeleteRegularCPUBoost, NextBoostEvent, podVars
  <2>2. \/ handler' = handler
        \/ \E i, orphans : handler' = [op |-> "orphans", boost |-> i, list |-> {}, orphans |-> orphans]
    BY <1>2, Zenon DEF HandleBoostEvent, AddRegularCPUBoost, UpdateRegularCPUBoost,
                DeleteRegularCPUBoost, PostProcessNewBoost
  <2>3. handler'.list = handler.list \/ handler'.list = {}
    BY <2>2
  <2> QED
    BY <2>1, <2>3 DEF OneUid
<1>3. CASE HandlerLoop
  <2>1. /\ UNCHANGED <<api, watch>> /\ handler \in Handler
        /\ \A q \in Pods : cache[q] # 0 => cache[q] \in DOMAIN mem
    <3>1. UNCHANGED <<api, watch>>
      BY <1>3 DEF HandlerLoop, MapOrphanedPod, ListBoostPods, SyncBoostPod, HandlerReturn, HandlerStep
    <3> QED
      BY <3>1, TypeParts, LenProperties DEF HeapOK, ThreadsOK, PodPointer
  <2>2. ASSUME \A x \in handler'.list : x.uid = 1, UNCHANGED mem
        PROVE  OneUid'
    BY <2>1, <2>2 DEF OneUid
  <2>3. ASSUME NEW q \in Pods, MapOrphanedPod(q)
        PROVE  OneUid'
    <3>1. handler'.list = handler.list /\ UNCHANGED mem
      BY <2>1, <2>3 DEF MapOrphanedPod, Handler
    <3> QED
      BY <2>2, <3>1 DEF OneUid
  <2>4. CASE ListBoostPods
    <3>1. /\ UNCHANGED mem
          /\ handler'.list = {mem[cache[p]] : p \in {q \in Pods :
                 cache[q] # 0 /\ mem[cache[q]].lab = boost[handler.boost].name}}
      BY <2>1, <2>4 DEF ListBoostPods, Handler
    <3>2. \A x \in handler'.list : x.uid = 1
      BY <2>1, <3>1 DEF OneUid
    <3> QED
      BY <2>2, <3>1, <3>2
  <2>5. ASSUME NEW obj \in handler.list, SyncBoostPod(obj)
        PROVE  OneUid'
    <3>1. handler'.list = handler.list \ {obj} /\ (UNCHANGED mem \/ mem' = Append(mem, obj))
      BY <2>1, <2>5 DEF SyncBoostPod, Handler
    <3>2. obj.uid = 1 /\ \A x \in handler'.list : x.uid = 1
      BY <2>5, <3>1 DEF OneUid
    <3>3. CASE mem' = Append(mem, obj)
      BY <2>1, <3>2, <3>3, HeapUid DEF OneUid
    <3> QED
      BY <2>2, <3>1, <3>2, <3>3
  <2>6. CASE HandlerReturn
    BY <2>2, <2>6 DEF HandlerReturn, Idle
  <2> QED
    BY <1>3, <2>3, <2>4, <2>5, <2>6 DEF HandlerLoop
<1>4. CASE Receive
  <2>1. /\ watch # <<>> /\ mem' = Append(mem, Head(watch).obj) /\ watch' = Tail(watch)
        /\ UNCHANGED <<api, handler>>
    BY <1>4 DEF Receive, InformerReceive, managerVars
  <2>2. watch \in Seq(PodChange)
    BY TypeParts DEF ApiOK
  <2>3. /\ Head(watch).obj.uid = 1
        /\ \A k \in DOMAIN watch' : watch'[k].obj.uid = 1
    <3>1. /\ 1 \in DOMAIN watch /\ Head(watch) = watch[1]
          /\ \A k \in DOMAIN Tail(watch) : \E j \in DOMAIN watch : Tail(watch)[k] = watch[j]
      BY <2>1, <2>2, TailElements
    <3>2. \A k \in DOMAIN watch' : \E j \in DOMAIN watch : watch'[k] = watch[j]
      BY <2>1, <3>1, Zenon
    <3> QED
      BY <3>1, <3>2, Zenon DEF OneUid
  <2>4. \A k \in DOMAIN mem' : mem'[k].uid = 1
    BY <2>1, <2>3, HeapUid, Zenon
  <2> QED
    BY <2>1, <2>3, <2>4 DEF OneUid
<1>5. CASE Restart
  <2> DEFINE present == {p \in Pods : api[p] # None}
  <2>1. PICK f \in [1..Cardinality(present) -> present] : mem' = [k \in DOMAIN f |-> api[f[k]]]
    BY <1>5, Zenon DEF Restart
  <2>2. UNCHANGED api /\ watch' = <<>> /\ handler' = Idle
    BY <1>5, Zenon DEF Restart
  <2>3. \A k \in DOMAIN mem' : mem'[k].uid = 1
    BY <2>1 DEF OneUid
  <2> QED
    BY <2>2, <2>3 DEF OneUid, Idle
<1>6. CASE UNCHANGED <<api, watch, mem, handler>>
  BY <1>6 DEF OneUid
<1>7. CASE TickAction \/ (\E b \in Boosts : Reconcile(b)) \/ UNCHANGED vars
  <2>1. UNCHANGED <<api, watch, mem, handler>>
    BY <1>7, Zenon DEF TickAction, StartTick, EndTick, ValidatePolicy, ReconcileAfterTick, TickStep,
                Reconcile, podVars, managerVars, vars
  <2> QED
    BY <1>6, <2>1
<1> QED
  BY <1>1, <1>2, <1>3, <1>4, <1>5, <1>7, ClusterUid, RevertUid DEF Next

\* A reversion restores the very incarnation of the pod that it was made for:
\* in legacy mode the API server sees to it; otherwise pod names must not be
\* used again, and no two reversions of one object may have different reasons.
Undisturbed ==
    IF LegacyRevertMode
    THEN SingleRequest
    ELSE /\ MaxUid <= 1 /\ OneUid
         /\ ~(Allowed("PodCondition") /\ Allowed("FixedDuration"))

EarlyInv == SpecsOnly /\ \A r \in reverts : Justified(r)

LEMMA JustifiedKept ==
    ASSUME \A r \in reverts : Justified(r), due \subseteq due',
           \A r \in reverts \cap reverts' :
              /\ mem'[r.ptr].pod = mem[r.ptr].pod /\ mem'[r.ptr].uid = mem[r.ptr].uid
              /\ r.step = "resize" /\ r.by # "worker" => mem'[r.ptr].cond = mem[r.ptr].cond,
           \A r \in reverts' : r \in reverts \/ Justified(r)'
    PROVE  \A r \in reverts' : Justified(r)'
<1>1. ASSUME NEW r \in reverts \cap reverts'
      PROVE  Justified(r)'
  BY <1>1, Zenon DEF Justified, Allowed
<1> QED
  BY <1>1, Zenon

\* An append to the heap leaves what is there alone.
LEMMA AppendKeeps ==
    ASSUME NEW T, NEW q \in Seq(T), NEW e
    PROVE  \A k \in DOMAIN q : Append(q, e)[k] = q[k]
<1>1. q \in Seq(T \cup {e}) /\ e \in T \cup {e}
  BY SeqMonotonic
<1>2. DOMAIN q = 1..Len(q)
  BY LenProperties
<1> QED
  BY <1>1, <1>2, AppendElements

\* The objects of the heap that reversions point to stay.
LEMMA JustifiedStays ==
    ASSUME TypeOK, \A r \in reverts : Justified(r), due \subseteq due',
           UNCHANGED mem \/ \E obj : mem' = Append(mem, obj),
           \A r \in reverts' : r \in reverts \/ Justified(r)'
    PROVE  \A r \in reverts' : Justified(r)'
<1>1. mem \in Seq(PodObject) /\ DOMAIN mem = 1..Len(mem) /\ \A r \in reverts : r.ptr \in DOMAIN mem
  BY TypeParts, LenProperties DEF HeapOK, ThreadsOK
<1>2. \A k \in DOMAIN mem : mem'[k] = mem[k]
  <2>1. CASE UNCHANGED mem
    BY <2>1
  <2>2. ASSUME NEW obj, mem' = Append(mem, obj)
        PROVE  \A k \in DOMAIN mem : mem'[k] = mem[k]
    BY <1>1, <2>2, AppendKeeps, Zenon
  <2> QED
    BY <2>1, <2>2
<1>3. \A r \in reverts : mem'[r.ptr] = mem[r.ptr]
  BY <1>1, <1>2
<1> QED
  BY <1>3, JustifiedKept

LEMMA UpsertJustified ==
    ASSUME SpecsOnly, NEW i \in DOMAIN boost, NEW ptr, UpsertBoostPod(i, ptr, mem')
    PROVE  \A r \in reverts' : r \in reverts \/ Justified(r)'
<1> DEFINE new == [by |-> "handler", boost |-> i, ptr |-> ptr, step |-> "resize"]
<1>1. new.by # "worker" /\ new.ptr = ptr
  OBVIOUS
<1>2. reverts' = reverts \cup {r \in {new} : ConditionMet(boost[i], mem'[ptr])}
  BY DEF UpsertBoostPod
<1> HIDE DEF new
<1>3. \A r \in reverts' : r \in reverts \/ (r = new /\ ConditionMet(boost[i], mem'[ptr]))
  BY <1>2
<1>4. ConditionMet(boost[i], mem'[ptr]) => Allowed("PodCondition") /\ mem'[ptr].cond = "Ready"
  BY DEF ConditionMet, PodConditionValid, SpecsOnly
<1>5. ConditionMet(boost[i], mem'[ptr]) => Justified(new)'
  BY <1>1, <1>4, Zenon DEF Justified, Allowed
<1> QED
  BY <1>3, <1>5, Zenon

LEMMA RevertJustified ==
    ASSUME TypeOK, Undisturbed, EarlyInv, NEW r \in reverts, RevertStep(r)
    PROVE  \A s \in reverts' : Justified(s)'
<1> DEFINE old == mem[r.ptr]
           p == old.pod
<1>1. LegacyRevertMode => r.step = "resize"
  BY DEF Undisturbed, SingleRequest
<1>2. PICK obj : /\ mem' = [mem EXCEPT ![r.ptr] = obj] /\ obj.pod = p
                 /\ \/ obj.uid = old.uid /\ obj.cond = old.cond
                    \/ ~LegacyRevertMode /\ api[p] # None /\ obj.uid = api[p].uid
  BY <1>1, RequestEffect, Zenon
<1>3. /\ mem \in Seq(PodObject) /\ \A s \in reverts : s.ptr \in DOMAIN mem
      /\ p \in Pods /\ r \in Revert
  BY TypeParts, RevertTarget, Zenon DEF HeapOK, ThreadsOK
<1>4. /\ obj.uid = old.uid
      /\ LegacyRevertMode => obj.cond = old.cond
  BY <1>2, <1>3 DEF Undisturbed, OneUid
<1>5. \A k \in DOMAIN mem : mem'[k] = IF k = r.ptr THEN obj ELSE mem[k]
  BY <1>2, <1>3
<1>6. \A s \in reverts' : \/ s \in reverts \ {r}
                          \/ r.step = "resize" /\ s = [r EXCEPT !.step = "labels"]
  BY Zenon DEF RevertStep, RevertResources, RevertLabels, RevertLegacy, EndRevert
<1>7. LET new == [r EXCEPT !.step = "labels"] IN new.step # "resize" /\ new.by = r.by
  BY <1>3 DEF Revert
<1>8. ASSUME NEW s \in reverts \ {r}
      PROVE  /\ mem'[s.ptr].pod = mem[s.ptr].pod /\ mem'[s.ptr].uid = mem[s.ptr].uid
             /\ s.step = "resize" /\ s.by # "worker" => mem'[s.ptr].cond = mem[s.ptr].cond
  <2>1. CASE s.ptr # r.ptr
    BY <1>3, <1>5, <2>1
  <2>2. CASE s.ptr = r.ptr
    <3>1. mem'[s.ptr] = obj /\ mem[s.ptr] = old
      BY <1>3, <1>5, <2>2
    <3>2. s.by # "worker" => LegacyRevertMode
      <4>1. s.by # "worker" /\ ~LegacyRevertMode => r.by # "worker"
        BY Zenon DEF EarlyInv, Justified, Undisturbed
      <4>2. s.by # "worker" /\ r.by # "worker" => s = r
        BY <1>3, TypeParts DEF ThreadsOK, Revert
      <4> QED
        BY <4>1, <4>2
    <3> HIDE DEF old
    <3> QED
      BY <1>2, <1>4, <3>1, <3>2
  <2> QED
    BY <2>1, <2>2
<1>9. \A s \in reverts' : s \in reverts \/ Justified(s)'
  <2>1. Justified(r)
    BY DEF EarlyInv
  <2>2. Justified([r EXCEPT !.step = "labels"])'
    BY <1>7, <2>1, Zenon DEF Justified, Allowed
  <2> QED
    BY <1>6, <2>2, Zenon
<1>10. due' = due
  BY Zenon DEF RevertStep, RevertResources, RevertLabels, RevertLegacy, Request
<1>11. ASSUME NEW s \in reverts \cap reverts'
       PROVE  s \in reverts \ {r}
  BY <1>6, <1>7, <1>11, Zenon
<1> QED
  BY <1>8, <1>9, <1>10, <1>11, JustifiedKept DEF EarlyInv

LEMMA EarlyNext ==
    ASSUME TypeOK, Undisturbed, EarlyInv, [Next]_vars
    PROVE  EarlyInv'
<1>1. SpecsOnly /\ SpecsOnly' /\ \A r \in reverts : Justified(r)
  BY SpecsNext DEF EarlyInv
<1> SUFFICES \A r \in reverts' : Justified(r)'
  BY <1>1 DEF EarlyInv
<1>2. CASE UNCHANGED reverts /\ due \subseteq due' /\ (UNCHANGED mem \/ \E obj : mem' = Append(mem, obj))
  BY <1>1, <1>2, JustifiedStays, Zenon
<1>3. CASE HandlePodEvent
  <2>1. UNCHANGED <<mem, due>>
    BY <1>3, Zenon DEF HandlePodEvent, IgnorePodEvent, UpsertPod, DeletePod, NextPodEvent
  <2>2. CASE UNCHANGED reverts
    BY <1>2, <2>1, <2>2
  <2>3. CASE UpsertPod /\ ~UNCHANGED reverts
    <3>1. PICK q, ptr : \E i \in MatchingBoosts(q) : UpsertBoostPod(i, ptr, mem)
      BY <2>3, Zenon DEF UpsertPod
    <3>2. PICK i \in MatchingBoosts(q) : UpsertBoostPod(i, ptr, mem)
      BY <3>1
    <3>3. i \in DOMAIN boost
      BY TypeParts, MatchingType
    <3>4. UpsertBoostPod(i, ptr, mem')
      BY <2>1, <3>2, Zenon
    <3>5. \A r \in reverts' : r \in reverts \/ Justified(r)'
      BY <1>1, <3>3, <3>4, UpsertJustified, Zenon
    <3> QED
      BY <1>1, <2>1, <3>5, JustifiedStays
  <2> QED
    BY <1>3, <2>2, <2>3, Zenon DEF HandlePodEvent, IgnorePodEvent, DeletePod
<1>4. CASE HandlerLoop
  <2>1. PICK op \in {"orphans", "sync"} : HandlerStep(op)
    BY <1>4, Zenon DEF HandlerLoop, MapOrphanedPod, ListBoostPods, SyncBoostPod, HandlerReturn
  <2>2. handler.boost \in DOMAIN boost /\ UNCHANGED due
    BY <2>1, HandlerStepType, Zenon DEF HandlerStep
  <2>3. UNCHANGED mem \/ \E obj : mem' = Append(mem, obj)
    BY <1>4, Zenon DEF HandlerLoop, MapOrphanedPod, ListBoostPods, SyncBoostPod, HandlerReturn
  <2>4. UNCHANGED reverts \/ \E ptr : UpsertBoostPod(handler.boost, ptr, mem')
    <3>1. ASSUME NEW q \in Pods, MapOrphanedPod(q)
          PROVE  UpsertBoostPod(handler.boost, orphanedPods[q], mem')
      <4>1. UpsertBoostPod(handler.boost, orphanedPods[q], mem) /\ mem' = mem
        BY <3>1, Zenon DEF MapOrphanedPod
      <4> QED
        BY <4>1, Zenon
    <3>2. ASSUME NEW obj \in handler.list, SyncBoostPod(obj)
          PROVE  UNCHANGED reverts \/ UpsertBoostPod(handler.boost, Len(mem) + 1, mem')
      BY <3>2, Zenon DEF SyncBoostPod
    <3>3. CASE ListBoostPods \/ HandlerReturn
      BY <3>3, Zenon DEF ListBoostPods, HandlerReturn
    <3> QED
      BY <1>4, <3>1, <3>2, <3>3, Zenon DEF HandlerLoop
  <2>5. \A r \in reverts' : r \in reverts \/ Justified(r)'
    BY <1>1, <2>2, <2>4, UpsertJustified, Zenon
  <2> QED
    BY <1>1, <2>2, <2>3, <2>5, JustifiedStays
<1>5. CASE \E r \in reverts : RevertStep(r)
  BY <1>5, RevertJustified
<1>6. CASE TickAction
  <2>1. UNCHANGED <<mem, due>>
    BY <1>6 DEF TickAction, StartTick, EndTick, ValidatePolicy, ReconcileAfterTick, TickStep,
                podVars
  <2>2. ASSUME NEW i \in tick.boosts, ValidatePolicy(i)
        PROVE  \A r \in reverts' : r \in reverts \/ Justified(r)'
    <3> SUFFICES ASSUME NEW r \in reverts', r \notin reverts
                 PROVE  Justified(r)'
      OBVIOUS
    <3>1. PICK q \in Pods :
             /\ r = [by |-> "worker", boost |-> i, ptr |-> boost[i].pods[q], step |-> "resize"]
             /\ "FixedDuration" \in boost[i].pol
             /\ ~FixedDurationValid(mem[boost[i].pods[q]], due)
      BY <2>2, Zenon DEF ValidatePolicy
    <3>2. i \in DOMAIN boost
      BY TypeParts DEF ThreadsOK
    <3>3. /\ r.by = "worker" /\ Allowed("FixedDuration")
          /\ <<mem[r.ptr].pod, mem[r.ptr].uid>> \in due
      BY <1>1, <3>1, <3>2 DEF SpecsOnly, FixedDurationValid
    <3> QED
      BY <2>1, <3>3, Zenon DEF Justified, Allowed
  <2>3. CASE UNCHANGED reverts
    BY <1>2, <2>1, <2>3
  <2>4. CASE \E i \in tick.boosts : ValidatePolicy(i)
    BY <1>1, <2>1, <2>2, <2>4, JustifiedStays
  <2> QED
    BY <1>6, <2>3, <2>4, Zenon DEF TickAction, StartTick, EndTick, ReconcileAfterTick
<1>7. CASE Restart
  <2>1. reverts' = {}
    BY <1>7, Zenon DEF Restart
  <2> QED
    BY <2>1
<1>8. CASE HandleBoostEvent
  <2>1. UNCHANGED <<mem, due, reverts>>
    BY <1>8, Zenon DEF HandleBoostEvent, AddRegularCPUBoost, UpdateRegularCPUBoost,
                DeleteRegularCPUBoost, NextBoostEvent, podVars
  <2> QED
    BY <1>2, <2>1
<1>9. CASE \/ \E p \in Pods : AdmitPod(p)
           \/ ClusterStep \/ Receive \/ (\E b \in Boosts : Reconcile(b)) \/ UNCHANGED vars
  <2>1. UNCHANGED reverts
    BY <1>9 DEF AdmitPod, ClusterStep, Receive, Reconcile, vars, managerVars
  <2>2. UNCHANGED mem \/ \E obj : mem' = Append(mem, obj)
    BY <1>9, Zenon DEF AdmitPod, StoreNewPod, ClusterStep, SetPodCondition, TouchPod, RemovePod,
                DurationElapses, EditBoost, Receive, InformerReceive, Reconcile, vars, podVars
  <2>3. due \subseteq due'
    BY <1>9, Zenon DEF AdmitPod, StoreNewPod, ClusterStep, SetPodCondition, TouchPod, RemovePod,
                DurationElapses, EditBoost, Receive, InformerReceive, Reconcile, vars, podVars
  <2> QED
    BY <1>2, <2>1, <2>2, <2>3
<1> QED
  BY <1>3, <1>4, <1>5, <1>6, <1>7, <1>8, <1>9 DEF Next

\* No step restores resources early.
LEMMA EarlyStep ==
    ASSUME TypeOK, Undisturbed, EarlyInv, [Next]_vars, NEW p \in Pods,
           api[p] # None, api'[p] # None, api[p].res = "boosted", api'[p].res = "init"
    PROVE  \/ Allowed("FixedDuration") /\ <<p, api[p].uid>> \in due
           \/ Allowed("PodCondition") /\ SeenReady(p)
<1>1. api' # api
  OBVIOUS
<1>2. ~((\E q \in Pods : AdmitPod(q)) \/ ClusterStep)
  BY PodsWritten
<1>3. ~(HandlePodEvent \/ HandleBoostEvent \/ HandlerLoop)
  BY <1>1, Zenon DEF HandlePodEvent, IgnorePodEvent, UpsertPod, DeletePod, NextPodEvent,
     HandleBoostEvent, AddRegularCPUBoost, UpdateRegularCPUBoost, DeleteRegularCPUBoost,
     NextBoostEvent, HandlerLoop, MapOrphanedPod, ListBoostPods, SyncBoostPod, HandlerReturn,
     HandlerStep, podVars
<1>4. ~(TickAction \/ Receive \/ (\E b \in Boosts : Reconcile(b)) \/ Restart \/ UNCHANGED vars)
  BY <1>1, Zenon DEF TickAction, StartTick, EndTick, ValidatePolicy, ReconcileAfterTick, TickStep,
     Receive, InformerReceive, Reconcile, Restart, vars, podVars
<1>5. PICK r \in reverts : RevertStep(r)
  BY <1>2, <1>3, <1>4 DEF Next
<1> DEFINE old == mem[r.ptr]
           q == old.pod
<1>6. LegacyRevertMode => r.step = "resize"
  BY DEF Undisturbed, SingleRequest
<1>7. PICK v : /\ api' = [api EXCEPT ![q] = v]
               /\ LegacyRevertMode => api[q].uid = old.uid
               /\ r.step = "labels" => v.res = api[q].res
  BY <1>1, <1>5, <1>6, RequestEffect, Zenon
<1>8. api \in [Pods -> PodObject \cup {None}] /\ r \in Revert /\ r.ptr \in DOMAIN mem
  BY TypeParts DEF ApiOK, ThreadsOK
<1>9. p = q /\ api'[p] = v
  BY <1>1, <1>7, <1>8
<1>10. r.step = "resize"
  BY <1>7, <1>8, <1>9 DEF Revert
<1>11. api[p].uid = old.uid
  BY <1>7, <1>8, <1>9 DEF Undisturbed, OneUid
<1>12. Justified(r)
  BY DEF EarlyInv
<1>13. CASE r.by = "worker"
  BY <1>9, <1>10, <1>11, <1>12, <1>13 DEF Justified
<1>14. CASE r.by # "worker"
  <2>1. Allowed("PodCondition") /\ mem[r.ptr].cond = "Ready"
    BY <1>10, <1>12, <1>14 DEF Justified
  <2>2. SeenReady(p)
    BY <1>8, <1>9, <1>11, <2>1 DEF SeenReady
  <2> QED
    BY <2>1, <2>2
<1> QED
  BY <1>13, <1>14
=============================================================================
