------------------------- MODULE BoostManagerSteps --------------------------
(***************************************************************************)
(* Every step of BoostManager keeps the type invariant: the steps of the   *)
(* cluster, of the informer and of the handler of pod events, those of the *)
(* boost controller, reversions, time checks, status updates and restarts. *)
(***************************************************************************)
EXTENDS BoostManagerTypes

\* The cluster, the informer and the handler of pod events.
LEMMA AdmitPodType ==
    ASSUME TypeOK, NEW q \in Pods, AdmitPod(q)
    PROVE  TypeOK'
<1>1. ApiOK /\ BoostApiOK /\ RegistryOK
  BY TypeParts
<1>2. PICK lab \in Boosts \cup {None} : StoreNewPod(q, lab)
  <2>1. \A i \in MatchingBoosts(q) : boost[i].name \in Boosts
    BY <1>1, LenProperties DEF MatchingBoosts, RegistryOK
  <2> QED
    BY <2>1 DEF AdmitPod
<1> DEFINE new == [pod |-> q, uid |-> uids'[q], rv |-> 1, cond |-> "Pending",
                   lab |-> lab, res |-> IF lab = None THEN "init" ELSE "boosted"]
<1>3. uids' \in [Pods -> Nat] /\ uids'[q] \in Nat
  BY <1>1, <1>2 DEF StoreNewPod, ApiOK
<1>4. new \in PodObject /\ new.pod = q
  BY <1>3 DEF PodObject, Conditions
<1>5. api' = [api EXCEPT ![q] = new]
  BY <1>2 DEF StoreNewPod
<1> HIDE DEF new
<1>6. api' \in [Pods -> PodObject \cup {None}] /\ api'[q] = new
  BY <1>1, <1>4, <1>5 DEF ApiOK
<1>7. [type |-> "create", obj |-> api'[q]] \in PodChange
  BY <1>4, <1>6 DEF PodChange, EventTypes
<1>8. watch' \in Seq(PodChange)
  <2>1. watch' = Append(watch, [type |-> "create", obj |-> api'[q]])
    BY <1>2 DEF StoreNewPod
  <2> QED
    BY <1>1, <1>7, <2>1, WatchType
<1>9. ApiOK'
  BY <1>1, <1>2, <1>3, <1>4, <1>5, <1>6, <1>8 DEF ApiOK, StoreNewPod
<1>10. UNCHANGED <<mem, cache, podEvents, managerVars, bounds>> /\ UNCHANGED boostVars
  BY <1>2 DEF StoreNewPod, AdmitPod
<1> QED
  BY <1>1, <1>9, <1>10, ManagerIdle, BoostApiIdle, TypePartsNext

LEMMA ClusterStepType ==
    ASSUME TypeOK, ClusterStep
    PROVE  TypeOK'
<1>1. ApiOK /\ BoostApiOK
  BY TypeParts
<1>2. ASSUME NEW p \in Pods, SetPodCondition(p)
      PROVE  ApiOK' /\ UNCHANGED <<mem, cache, podEvents, boostVars>>
  <2>1. PICK c \in {"Scheduled", "Ready"} : StorePod(p, [api[p] EXCEPT !.cond = c])
    BY <1>2 DEF SetPodCondition
  <2>2. api[p] # None /\ api[p] \in PodObject /\ api[p].pod = p
    BY <1>1, <1>2 DEF SetPodCondition, ApiOK
  <2>3. [api[p] EXCEPT !.cond = c] \in PodObject /\ [api[p] EXCEPT !.cond = c].pod = p
    BY <2>2 DEF PodObject, Conditions
  <2>4. UNCHANGED <<uids, due>> /\ UNCHANGED <<mem, cache, podEvents, boostVars>>
    BY <1>2 DEF SetPodCondition
  <2> QED
    BY <1>1, <2>1, <2>2, <2>3, <2>4, StorePodType, Zenon
<1>3. ASSUME NEW p \in Pods, TouchPod(p)
      PROVE  ApiOK' /\ UNCHANGED <<mem, cache, podEvents, boostVars>>
  <2>1. api[p] # None /\ api[p] \in PodObject /\ api[p].pod = p
    BY <1>1, <1>3 DEF TouchPod, ApiOK
  <2> DEFINE new == [api[p] EXCEPT !.rv = @ + 1]
  <2>2. new \in PodObject /\ new.pod = p
    BY <2>1 DEF PodObject
  <2>3. api' = [api EXCEPT ![p] = new]
    BY <1>3 DEF TouchPod
  <2> HIDE DEF new
  <2>4. api' \in [Pods -> PodObject \cup {None}] /\ api'[p] = new
    BY <1>1, <2>2, <2>3 DEF ApiOK
  <2>5. [type |-> "update", obj |-> api'[p]] \in PodChange
    BY <2>2, <2>4 DEF PodChange, EventTypes
  <2>6. watch' = Append(watch, [type |-> "update", obj |-> api'[p]])
    BY <1>3 DEF TouchPod
  <2>7. watch' \in Seq(PodChange)
    BY <1>1, <2>5, <2>6, WatchType
  <2> QED
    BY <1>1, <1>3, <2>2, <2>3, <2>4, <2>7 DEF ApiOK, TouchPod
<1>4. ASSUME NEW p \in Pods, RemovePod(p)
      PROVE  ApiOK' /\ UNCHANGED <<mem, cache, podEvents, boostVars>>
  <2>1. [type |-> "delete", obj |-> api[p]] \in PodChange
    BY <1>1, <1>4 DEF RemovePod, ApiOK, PodChange, EventTypes
  <2>2. watch' = Append(watch, [type |-> "delete", obj |-> api[p]])
    BY <1>4 DEF RemovePod
  <2>3. watch' \in Seq(PodChange)
    BY <1>1, <2>1, <2>2, WatchType
  <2> QED
    BY <1>1, <1>4, <2>3 DEF ApiOK, RemovePod
<1>5. ASSUME NEW p \in Pods, DurationElapses(p)
      PROVE  ApiOK' /\ UNCHANGED <<mem, cache, podEvents, boostVars>>
  <2>1. api[p].uid \in Nat
    BY <1>1, <1>5 DEF DurationElapses, ApiOK, PodObject
  <2> QED
    BY <1>1, <1>5, <2>1 DEF DurationElapses, ApiOK
<1>6. ASSUME NEW b \in Boosts, EditBoost(b)
      PROVE  BoostApiOK' /\ UNCHANGED podVars
  <2>1. edits' \in Nat /\ UNCHANGED podVars
    BY <1>1, <1>6 DEF EditBoost, BoostApiOK
  <2>2. CASE \E s \in Specs \ {boostApi[b]} :
            /\ boostApi' = [boostApi EXCEPT ![b] = s]
            /\ boostEvents' = Append(boostEvents,
                 [type |-> IF boostApi[b] = None THEN "create" ELSE "update",
                  boost |-> b, spec |-> s])
            /\ UNCHANGED status
    <3>1. PICK s \in Specs :
            /\ boostApi' = [boostApi EXCEPT ![b] = s]
            /\ boostEvents' = Append(boostEvents,
                 [type |-> IF boostApi[b] = None THEN "create" ELSE "update",
                  boost |-> b, spec |-> s])
            /\ UNCHANGED status
      BY <2>2, Zenon
    <3> DEFINE e == [type |-> IF boostApi[b] = None THEN "create" ELSE "update",
                     boost |-> b, spec |-> s]
    <3>2. s \in BoostSpec /\ e \in BoostEvent
      BY ClusterAssumption DEF BoostEvent, EventTypes
    <3>3. boostEvents' = Append(boostEvents, e)
      BY <3>1
    <3> HIDE DEF e
    <3>4. boostEvents' \in Seq(BoostEvent)
      BY <1>1, <3>2, <3>3, AppendProperties DEF BoostApiOK
    <3> QED
      BY <1>1, <2>1, <3>1, <3>2, <3>4 DEF BoostApiOK
  <2>3. CASE /\ boostApi[b] # None
             /\ boostApi' = [boostApi EXCEPT ![b] = None]
             /\ boostEvents' = Append(boostEvents,
                    [type |-> "delete", boost |-> b, spec |-> boostApi[b]])
             /\ status' = [status EXCEPT ![b] = NoStatus]
    <3> DEFINE e == [type |-> "delete", boost |-> b, spec |-> boostApi[b]]
    <3>1. e \in BoostEvent /\ boostEvents' = Append(boostEvents, e)
      BY <1>1, <2>3 DEF BoostApiOK, BoostEvent, EventTypes
    <3> HIDE DEF e
    <3>2. boostEvents' \in Seq(BoostEvent)
      BY <1>1, <3>1, AppendProperties DEF BoostApiOK
    <3>3. NoStatus \in BoostStatus
      BY DEF NoStatus, BoostStatus
    <3> QED
      BY <1>1, <2>1, <2>3, <3>2, <3>3 DEF BoostApiOK
  <2> QED
    BY <1>6, <2>1, <2>2, <2>3, Zenon DEF EditBoost
<1>7. UNCHANGED <<managerVars, bounds>>
  BY DEF ClusterStep
<1>8. /\ ApiOK' /\ BoostApiOK'
      /\ UNCHANGED <<mem, cache, podEvents>>
  <2>1. CASE \E b \in Boosts : EditBoost(b)
    BY <1>1, <1>6, <2>1, ApiIdle DEF podVars
  <2>2. CASE \E p \in Pods : \/ SetPodCondition(p) \/ TouchPod(p)
                             \/ RemovePod(p) \/ DurationElapses(p)
    BY <1>1, <1>2, <1>3, <1>4, <1>5, <2>2, BoostApiIdle
  <2> QED
    BY <2>1, <2>2 DEF ClusterStep
<1> QED
  BY <1>7, <1>8, ManagerIdle, TypePartsNext

LEMMA ReceiveType ==
    ASSUME TypeOK, Receive
    PROVE  TypeOK'
<1>1. ApiOK /\ BoostApiOK /\ HeapOK /\ RegistryOK /\ ThreadsOK /\ CountersOK
  BY TypeParts
<1> DEFINE n == Head(watch)
           e == [type |-> n.type, old |-> cache[n.obj.pod], new |-> Len(mem) + 1]
<1>2. n \in PodChange /\ watch' \in Seq(PodChange)
  BY <1>1, HeadTailProperties DEF Receive, InformerReceive, ApiOK
<1>3. /\ mem' = Append(mem, n.obj)
      /\ cache' = [cache EXCEPT ![n.obj.pod] = IF n.type = "delete" THEN 0 ELSE Len(mem) + 1]
      /\ podEvents' = Append(podEvents, e)
      /\ UNCHANGED <<api, uids, due, boostVars, managerVars, bounds>>
  BY DEF Receive, InformerReceive
<1>4. n.obj \in PodObject /\ n.obj.pod \in Pods /\ n.type \in EventTypes
  BY <1>2 DEF PodChange, PodObject
<1>5. /\ HeapGrows /\ Len(mem) \in Nat /\ Len(mem') = Len(mem) + 1
      /\ mem'[Len(mem) + 1] = n.obj /\ Len(mem) + 1 \in DOMAIN mem'
  BY <1>1, <1>3, <1>4, AppendGrows
<1>6. e \in PodEvent /\ e.new = Len(mem) + 1
  BY <1>1, <1>4, <1>5 DEF HeapOK, PodEvent
<1> HIDE DEF e, n
<1>7. podEvents' \in Seq(PodEvent) /\ \A k \in DOMAIN podEvents' : podEvents'[k].new \in DOMAIN mem'
  <2>1. podEvents \in Seq(PodEvent) /\ Len(podEvents) \in Nat /\ DOMAIN podEvents = 1..Len(podEvents)
    BY <1>1, LenProperties DEF HeapOK
  <2>2. /\ podEvents' \in Seq(PodEvent) /\ Len(podEvents') = Len(podEvents) + 1
        /\ \A i \in 1..Len(podEvents) : podEvents'[i] = podEvents[i]
        /\ podEvents'[Len(podEvents) + 1] = e
    BY <1>3, <1>6, <2>1, AppendProperties
  <2>3. DOMAIN podEvents' = 1..Len(podEvents')
    BY <2>2, LenProperties
  <2>4. \A i \in DOMAIN podEvents : podEvents[i].new \in DOMAIN mem'
    BY <1>1, <1>5, GrownDomain DEF HeapOK
  <2> QED
    BY <1>5, <1>6, <2>1, <2>2, <2>3, <2>4
<1>8. HeapOK'
  <2>1. cache' \in [Pods -> Nat]
    <3> DEFINE v == IF n.type = "delete" THEN 0 ELSE Len(mem) + 1
    <3>1. v \in Nat /\ cache \in [Pods -> Nat] /\ cache' = [cache EXCEPT ![n.obj.pod] = v]
      BY <1>1, <1>3, <1>5 DEF HeapOK
    <3> HIDE DEF v
    <3> QED
      BY <3>1, Zenon
  <2>2. UNCHANGED orphanedPods
    BY <1>3 DEF managerVars
  <2>3. \A p \in Pods : PodPointer(orphanedPods[p], p)'
    BY <1>1, <1>5, <2>2, PointerStays, Zenon DEF HeapOK, PodPointer
  <2>4. \A p \in Pods : PodPointer(cache[p], p)'
    <3> TAKE p \in Pods
    <3>1. CASE p # n.obj.pod
      <4>1. cache'[p] = cache[p]
        BY <1>1, <1>3, <3>1 DEF HeapOK
      <4>2. PodPointer(cache[p], p)
        BY <1>1 DEF HeapOK
      <4> QED
        BY <1>1, <1>5, <4>1, <4>2, PointerStays DEF PodPointer
    <3>2. CASE p = n.obj.pod
      <4>1. cache'[p] \in {0, Len(mem) + 1}
        BY <1>1, <1>3, <3>2 DEF HeapOK
      <4> QED
        BY <1>5, <3>2, <4>1 DEF PodPointer
    <3> QED
      BY <3>1, <3>2
  <2> QED
    BY <1>1, <1>5, <1>7, <2>1, <2>2, <2>3, <2>4 DEF HeapOK, HeapGrows
<1>9. RegistryOK' /\ ThreadsOK' /\ CountersOK'
  <2>1. UNCHANGED <<boost, regularBoosts, timedBoosts, configurations, handler, reverts, tick,
                    orphanedPods, queue, faults, restarts, statusWrites>>
    BY <1>3 DEF managerVars, bounds
  <2>2. CountersOK'
    BY <1>1, <2>1 DEF CountersOK
  <2> QED
    BY <1>1, <1>5, <2>1, <2>2, RegistryStays, ThreadsStay
<1>10. ApiOK' /\ BoostApiOK'
  BY <1>1, <1>2, <1>3, BoostApiIdle DEF ApiOK
<1> QED
  BY <1>8, <1>9, <1>10, TypePartsNext

-----------------------------------------------------------------------------
LEMMA IgnorePodEventType ==
    ASSUME TypeOK, IgnorePodEvent
    PROVE  TypeOK'
<1>1. NextPodEvent /\ UNCHANGED <<boost, orphanedPods, handler, reverts, queue>>
  BY DEF IgnorePodEvent
<1>2. HeapOK /\ RegistryOK /\ ThreadsOK /\ CountersOK
  BY TypeParts
<1>3. /\ podEvents' \in Seq(PodEvent) /\ HeapGrows /\ ApiOK' /\ BoostApiOK'
      /\ \A k \in DOMAIN podEvents' : podEvents'[k].new \in DOMAIN mem
      /\ UNCHANGED <<mem, cache, regularBoosts, timedBoosts, configurations, tick,
                     faults, restarts, statusWrites>>
  BY <1>1, PodEventType
<1>4. HeapOK'
  BY <1>1, <1>2, <1>3 DEF HeapOK, PodPointer
<1>5. RegistryOK' /\ ThreadsOK'
  BY <1>1, <1>2, <1>3, RegistryStays, ThreadsStay
<1> QED
  BY <1>1, <1>2, <1>3, <1>4, <1>5, TypePartsNext DEF CountersOK

LEMMA UpsertPodType ==
    ASSUME TypeOK, UpsertPod
    PROVE  TypeOK'
<1> DEFINE e == Head(podEvents)
           q == mem[e.new].pod
<1>1. ApiOK /\ HeapOK /\ RegistryOK /\ ThreadsOK /\ CountersOK
  BY TypeParts
<1>2. /\ e.new \in DOMAIN mem /\ q \in Pods /\ HandlerFree
      /\ podEvents' \in Seq(PodEvent) /\ HeapGrows /\ ApiOK' /\ BoostApiOK'
      /\ \A k \in DOMAIN podEvents' : podEvents'[k].new \in DOMAIN mem
      /\ UNCHANGED <<mem, cache, regularBoosts, timedBoosts, configurations, tick,
                     faults, restarts, statusWrites>>
  BY PodEventType, Zenon DEF UpsertPod
<1>3. PodPointer(e.new, q) /\ PodPointer(0, q) /\ PodPointer(orphanedPods[q], q)
  BY <1>1, <1>2, GrownDomain DEF PodPointer, HeapOK
<1>5. handler \in Handler /\ handler.orphans = {} /\ \A r \in reverts : r.by # "handler"
  BY <1>1, <1>2 DEF ThreadsOK, HandlerFree, Idle
<1>6. CASE \E i \in MatchingBoosts(q) :
             /\ UpsertBoostPod(i, e.new, mem)
             /\ IF ConditionMet(boost[i], mem[e.new])
                THEN /\ handler' = [Idle EXCEPT !.op = "pod", !.boost = i]
                     /\ UNCHANGED <<orphanedPods, queue>>
                ELSE /\ orphanedPods' = [orphanedPods EXCEPT ![q] = 0]
                     /\ queue' = queue \cup {boost[i].name}
                     /\ UNCHANGED handler
  <2>1. PICK i \in MatchingBoosts(q) :
             /\ UpsertBoostPod(i, e.new, mem)
             /\ IF ConditionMet(boost[i], mem[e.new])
                THEN /\ handler' = [Idle EXCEPT !.op = "pod", !.boost = i]
                     /\ UNCHANGED <<orphanedPods, queue>>
                ELSE /\ orphanedPods' = [orphanedPods EXCEPT ![q] = 0]
                     /\ queue' = queue \cup {boost[i].name}
                     /\ UNCHANGED handler
    BY <1>6, Zenon
  <2>2. i \in DOMAIN boost /\ i \in Nat /\ boost[i].name \in Boosts
    BY <1>1, MatchingType, LenProperties DEF RegistryOK
  <2> DEFINE n == [by |-> "handler", boost |-> i, ptr |-> e.new, step |-> "resize"]
  <2>3. /\ boost' = [boost EXCEPT ![i] = Tracking(boost[i], e.new, mem)]
        /\ reverts' \subseteq reverts \cup {n}
        /\ ~ConditionMet(boost[i], mem[e.new]) => reverts' \subseteq reverts
    BY <2>1 DEF UpsertBoostPod
  <2>4. RegistryOK' /\ DOMAIN boost' = DOMAIN boost
    BY <1>1, <1>2, <2>2, <2>3, TrackedType, Zenon
  <2>5. CASE ConditionMet(boost[i], mem[e.new])
    <3>1. /\ handler' = [Idle EXCEPT !.op = "pod", !.boost = i]
          /\ UNCHANGED <<orphanedPods, queue>>
      BY <2>1, <2>5
    <3>2. handler' \in Handler /\ handler'.op = "pod" /\ handler'.boost = i /\ handler'.orphans = {}
      BY <2>2, <3>1, Zenon DEF Handler, Idle
    <3>3. ThreadsOK'
      BY <1>1, <1>2, <1>5, <2>2, <2>3, <2>4, <3>2, ThreadsUpsert
    <3>4. HeapOK'
      BY <1>1, <1>2, <3>1 DEF HeapOK, PodPointer
    <3>5. CountersOK'
      BY <1>1, <1>2, <3>1 DEF CountersOK
    <3> QED
      BY <1>2, <2>4, <3>3, <3>4, <3>5, TypePartsNext
  <2>6. CASE ~ConditionMet(boost[i], mem[e.new])
    <3>1. /\ orphanedPods' = [orphanedPods EXCEPT ![q] = 0]
          /\ queue' = queue \cup {boost[i].name}
          /\ UNCHANGED handler /\ reverts' \subseteq reverts
      BY <2>1, <2>3, <2>6
    <3>2. handler' = Idle
      BY <1>1, <1>2, <3>1 DEF ThreadsOK, HandlerFree
    <3>3. ThreadsOK'
      <4>1. handler' \in Handler /\ handler.op = "idle" /\ handler'.orphans = {}
        BY <1>1, <3>1, <3>2 DEF ThreadsOK, Idle
      <4> QED
        BY <1>1, <1>2, <1>5, <2>2, <2>3, <2>4, <3>1, <3>2, <4>1, ThreadsUpsert
    <3>4. HeapOK'
      BY <1>2, <1>3, <3>1, OrphanType, Zenon
    <3>5. CountersOK'
      BY <1>1, <1>2, <2>2, <3>1, Zenon DEF CountersOK
    <3> QED
      BY <1>2, <2>4, <3>3, <3>4, <3>5, TypePartsNext
  <2> QED
    BY <2>5, <2>6
<1>7. CASE /\ orphanedPods' = [orphanedPods EXCEPT ![q] = e.new]
           /\ UNCHANGED <<boost, handler, reverts, queue>>
  <2>1. HeapOK'
    BY <1>2, <1>3, <1>7, OrphanType, Zenon
  <2>2. RegistryOK'
    BY <1>1, <1>2, <1>7, RegistryStays, Zenon
  <2>3. ThreadsOK'
    BY <1>1, <1>2, <1>5, <1>7 DEF ThreadsOK
  <2>4. CountersOK'
    BY <1>1, <1>2, <1>7 DEF CountersOK
  <2> QED
    BY <1>2, <2>1, <2>2, <2>3, <2>4, TypePartsNext, Zenon
<1> QED
  BY <1>6, <1>7, Zenon DEF UpsertPod

LEMMA DeletePodType ==
    ASSUME TypeOK, DeletePod
    PROVE  TypeOK'
<1> DEFINE e == Head(podEvents)
           q == mem[e.new].pod
<1>1. ApiOK /\ HeapOK /\ RegistryOK /\ ThreadsOK /\ CountersOK
  BY TypeParts
<1>2. /\ e.new \in DOMAIN mem /\ q \in Pods /\ HandlerFree
      /\ podEvents' \in Seq(PodEvent) /\ HeapGrows /\ ApiOK' /\ BoostApiOK'
      /\ \A k \in DOMAIN podEvents' : podEvents'[k].new \in DOMAIN mem
      /\ UNCHANGED <<mem, cache, regularBoosts, timedBoosts, configurations, tick,
                     faults, restarts, statusWrites>>
  BY PodEventType DEF DeletePod
<1>3. handler = Idle /\ UNCHANGED <<handler, reverts>>
  BY <1>1, <1>2 DEF DeletePod, ThreadsOK, HandlerFree
<1>4. CASE \E i \in MatchingBoosts(q) :
             /\ ~Locked(i)
             /\ boost' = [boost EXCEPT ![i] = Untracking(@, q, mem)]
             /\ queue' = queue \cup {boost[i].name}
             /\ UNCHANGED orphanedPods
  <2>1. PICK i \in MatchingBoosts(q) :
             /\ boost' = [boost EXCEPT ![i] = Untracking(boost[i], q, mem)]
             /\ queue' = queue \cup {boost[i].name}
             /\ UNCHANGED orphanedPods
    BY <1>4, Zenon
  <2>2. i \in DOMAIN boost /\ boost[i].name \in Boosts
    BY <1>1, MatchingType
  <2>3. RegistryOK' /\ DOMAIN boost' = DOMAIN boost
    BY <1>1, <1>2, <2>1, <2>2, UntrackedType, Zenon
  <2>4. ThreadsOK'
    BY <1>1, <1>2, <1>3, <2>1, <2>3, Zenon DEF ThreadsOK
  <2>5. HeapOK'
    BY <1>1, <1>2, <2>1 DEF HeapOK, PodPointer
  <2>6. CountersOK'
    BY <1>1, <1>2, <2>1, <2>2 DEF CountersOK
  <2> QED
    BY <1>2, <2>3, <2>4, <2>5, <2>6, TypePartsNext
<1>5. CASE /\ orphanedPods' = [orphanedPods EXCEPT ![q] = 0]
           /\ UNCHANGED <<boost, queue>>
  <2>1. PodPointer(0, q)
    BY <1>1, <1>2, GrownDomain DEF PodPointer
  <2>2. HeapOK'
    BY <1>2, <1>5, <2>1, OrphanType, Zenon
  <2>3. RegistryOK'
    BY <1>1, <1>2, <1>5, RegistryStays
  <2>4. ThreadsOK'
    BY <1>1, <1>2, <1>3, <1>5 DEF ThreadsOK, Idle
  <2>5. CountersOK'
    BY <1>1, <1>2, <1>5 DEF CountersOK
  <2> QED
    BY <1>2, <2>2, <2>3, <2>4, <2>5, TypePartsNext
<1> QED
  BY <1>4, <1>5, Zenon DEF DeletePod

-----------------------------------------------------------------------------
\* The boost controller registers, changes and deletes boosts and synchronises
\* their pods.

\* The handler starts its loops for boost i.
LEMMA PostProcessType ==
    ASSUME HeapOK, HeapGrows, ThreadsOK, handler = Idle, UNCHANGED <<mem, orphanedPods, reverts, tick>>,
           NEW i \in DOMAIN boost', i \in Nat, NEW b, NEW s \in BoostSpec,
           DOMAIN boost \subseteq DOMAIN boost', PostProcessNewBoost(i, b, s)
    PROVE  ThreadsOK'
<1>1. handler' = [op |-> "orphans", boost |-> i, list |-> {},
                  orphans |-> {p \in s.sel : orphanedPods[p] # 0}]
  BY DEF PostProcessNewBoost
<1>2. s.sel \subseteq Pods
  BY DEF BoostSpec
<1>3. /\ handler' \in Handler /\ handler'.op = "orphans" /\ handler'.boost = i
      /\ handler'.orphans = {p \in s.sel : orphanedPods[p] # 0}
  BY <1>1, <1>2 DEF Handler
<1>4. \A r \in reverts : r.by # "handler"
  BY DEF ThreadsOK, Idle
<1> QED
  BY <1>3, <1>4, Zenon DEF ThreadsOK

LEMMA AddBoostType ==
    ASSUME TypeOK, AddRegularCPUBoost
    PROVE  TypeOK'
<1> DEFINE b == Head(boostEvents).boost
           s == Head(boostEvents).spec
           i == Len(boost) + 1
           x == NewStartupCPUBoost(b, s)
<1>1. HeapOK /\ RegistryOK /\ ThreadsOK
  BY TypeParts
<1>2. /\ b \in Boosts /\ s \in BoostSpec
      /\ ApiOK' /\ BoostApiOK' /\ HeapOK' /\ HeapGrows /\ CountersOK'
      /\ handler = Idle /\ UNCHANGED <<mem, orphanedPods, reverts, tick>>
  BY BoostEventType DEF AddRegularCPUBoost
<1>3. CASE regularBoosts[b] # 0
  <2>1. UNCHANGED <<boost, regularBoosts, timedBoosts, configurations, handler>>
    BY <1>3 DEF AddRegularCPUBoost
  <2> QED
    BY <1>1, <1>2, <2>1, RegistryStays, ThreadsStay, TypePartsNext
<1>4. CASE regularBoosts[b] = 0
  <2>1. /\ boost' = Append(boost, x)
        /\ regularBoosts' = [regularBoosts EXCEPT ![b] = i]
        /\ configurations' = configurations + 1
        /\ PostProcessNewBoost(i, b, s)
    BY <1>4 DEF AddRegularCPUBoost
  <2>2. x \in StartupCPUBoost /\ x.name = b /\ x.pods = [p \in Pods |-> 0]
    BY <1>2 DEF NewStartupCPUBoost, StartupCPUBoost, BoostSpec
  <2>3. Len(boost) \in Nat /\ DOMAIN boost = 1..Len(boost)
    BY <1>1, LenProperties DEF RegistryOK
  <2> HIDE DEF x
  <2>4. /\ boost' \in Seq(StartupCPUBoost) /\ Len(boost') = Len(boost) + 1
        /\ \A k \in 1..Len(boost) : boost'[k] = boost[k]
        /\ boost'[Len(boost) + 1] = x
    BY <1>1, <2>1, <2>2, AppendProperties DEF RegistryOK
  <2>5. DOMAIN boost' = 1..(Len(boost) + 1)
    BY <2>4, LenProperties
  <2>6. timedBoosts' \in [Boosts -> Nat] /\ \A c \in Boosts : timedBoosts'[c] \in 0..Len(boost')
    <3>1. timedBoosts' = timedBoosts \/ timedBoosts' = [timedBoosts EXCEPT ![b] = i]
      BY <2>1 DEF PostProcessNewBoost
    <3>2. timedBoosts \in [Boosts -> Nat] /\ \A c \in Boosts : timedBoosts[c] \in 0..Len(boost)
      BY <1>1 DEF RegistryOK
    <3> QED
      BY <1>2, <2>3, <2>4, <3>1, <3>2
  <2>7. /\ regularBoosts' \in [Boosts -> Nat]
        /\ \A c \in Boosts : /\ regularBoosts'[c] \in 0..Len(boost')
                             /\ regularBoosts'[c] # 0 => boost'[regularBoosts'[c]].name = c
    <3>1. regularBoosts \in [Boosts -> Nat] /\ \A c \in Boosts :
             /\ regularBoosts[c] \in 0..Len(boost)
             /\ regularBoosts[c] # 0 => boost[regularBoosts[c]].name = c
      BY <1>1 DEF RegistryOK
    <3> QED
      BY <1>2, <2>1, <2>2, <2>3, <2>4, <3>1
  <2>8. \A k \in DOMAIN boost', p \in Pods :
           boost'[k].pods[p] \in 0..Len(mem) /\ (boost'[k].pods[p] # 0 => mem[boost'[k].pods[p]].pod = p)
    <3> TAKE k \in DOMAIN boost', p \in Pods
    <3>1. CASE k \in DOMAIN boost
      BY <1>1, <2>3, <2>4, <3>1 DEF RegistryOK, PodPointer
    <3>2. CASE k = Len(boost) + 1
      BY <1>1, <1>2, <2>2, <2>4, <3>2, GrownDomain
    <3> QED
      BY <2>3, <2>5, <3>1, <3>2
  <2>9. configurations' \in Int
    BY <1>1, <2>1 DEF RegistryOK
  <2>10. RegistryOK'
    BY <1>2, <2>4, <2>6, <2>7, <2>8, <2>9 DEF RegistryOK, PodPointer
  <2>11. ThreadsOK'
    <3>1. i \in DOMAIN boost' /\ i \in Nat /\ DOMAIN boost \subseteq DOMAIN boost'
      BY <2>3, <2>5
    <3> QED
      BY <1>1, <1>2, <2>1, <3>1, PostProcessType
  <2> QED
    BY <1>2, <2>10, <2>11, TypePartsNext
<1> QED
  BY <1>3, <1>4

LEMMA UpdateBoostType ==
    ASSUME TypeOK, UpdateRegularCPUBoost
    PROVE  TypeOK'
<1> DEFINE b == Head(boostEvents).boost
           s == Head(boostEvents).spec
           i == regularBoosts[b]
           x == [boost[i] EXCEPT !.sel = s.sel, !.pol = s.pol]
<1>1. HeapOK /\ RegistryOK /\ ThreadsOK
  BY TypeParts
<1>2. /\ b \in Boosts /\ s \in BoostSpec
      /\ ApiOK' /\ BoostApiOK' /\ HeapOK' /\ HeapGrows /\ CountersOK'
      /\ handler = Idle /\ UNCHANGED <<mem, orphanedPods, reverts, tick>>
      /\ UNCHANGED <<regularBoosts, configurations>>
  BY BoostEventType DEF UpdateRegularCPUBoost
<1>3. CASE i = 0
  <2>1. UNCHANGED <<boost, timedBoosts, handler>>
    BY <1>3 DEF UpdateRegularCPUBoost
  <2> QED
    BY <1>1, <1>2, <2>1, RegistryStays, ThreadsStay, TypePartsNext
<1>4. CASE i # 0
  <2>1. /\ boost' = [boost EXCEPT ![i].sel = s.sel, ![i].pol = s.pol]
        /\ PostProcessNewBoost(i, b, s)
    BY <1>4 DEF UpdateRegularCPUBoost
  <2>2. /\ Len(boost) \in Nat /\ DOMAIN boost = 1..Len(boost)
        /\ i \in DOMAIN boost /\ i \in Nat /\ boost \in Seq(StartupCPUBoost)
    BY <1>1, <1>2, <1>4, LenProperties DEF RegistryOK
  <2>3. boost[i] \in StartupCPUBoost
    BY <2>2, ElementOfSeq
  <2>4. x \in StartupCPUBoost /\ x.name = boost[i].name /\ x.pods = boost[i].pods
    BY <1>2, <2>3, Zenon DEF StartupCPUBoost, BoostSpec
  <2>5. boost' = [boost EXCEPT ![i] = x]
    BY <2>1, <2>2, Zenon
  <2> HIDE DEF x
  <2>6. /\ boost' \in Seq(StartupCPUBoost) /\ Len(boost') = Len(boost)
        /\ \A j \in 1..Len(boost) : boost'[j] = IF j = i THEN x ELSE boost[j]
    BY <2>2, <2>4, <2>5, ExceptSeq
  <2>7. DOMAIN boost' = DOMAIN boost
    BY <2>2, <2>6, LenProperties
  <2>8. timedBoosts' \in [Boosts -> Nat] /\ \A c \in Boosts : timedBoosts'[c] \in 0..Len(boost')
    <3>1. timedBoosts' = timedBoosts \/ timedBoosts' = [timedBoosts EXCEPT ![b] = i]
      BY <2>1 DEF PostProcessNewBoost
    <3>2. timedBoosts \in [Boosts -> Nat] /\ \A c \in Boosts : timedBoosts[c] \in 0..Len(boost)
      BY <1>1 DEF RegistryOK
    <3> QED
      BY <1>2, <2>2, <2>6, <3>1, <3>2
  <2>9. \A c \in Boosts : /\ regularBoosts[c] \in 0..Len(boost')
                          /\ regularBoosts[c] # 0 => boost'[regularBoosts[c]].name = c
    <3> TAKE c \in Boosts
    <3>1. /\ regularBoosts[c] \in 0..Len(boost)
          /\ regularBoosts[c] # 0 => boost[regularBoosts[c]].name = c
      BY <1>1 DEF RegistryOK
    <3>2. regularBoosts[c] # 0 => regularBoosts[c] \in 1..Len(boost)
      BY <2>2, <3>1
    <3>3. regularBoosts[c] # 0 => boost'[regularBoosts[c]].name = boost[regularBoosts[c]].name
      BY <2>4, <2>6, <3>2, Zenon
    <3> QED
      BY <2>6, <3>1, <3>3
  <2>10. \A k \in DOMAIN boost', p \in Pods :
           boost'[k].pods[p] \in 0..Len(mem) /\ (boost'[k].pods[p] # 0 => mem[boost'[k].pods[p]].pod = p)
    <3> TAKE k \in DOMAIN boost', p \in Pods
    <3>1. boost'[k].pods = boost[k].pods
      <4>1. k \in 1..Len(boost)
        BY <2>2, <2>7
      <4>2. CASE k = i
        BY <2>4, <2>6, <4>1, <4>2, Zenon
      <4>3. CASE k # i
        BY <2>6, <4>1, <4>3, Zenon
      <4> QED
        BY <4>2, <4>3
    <3> QED
      BY <1>1, <2>7, <3>1 DEF RegistryOK, PodPointer
  <2>11. RegistryOK'
    BY <1>1, <1>2, <2>6, <2>8, <2>9, <2>10 DEF RegistryOK, PodPointer
  <2>12. ThreadsOK'
    BY <1>1, <1>2, <2>1, <2>2, <2>7, PostProcessType
  <2> QED
    BY <1>2, <2>11, <2>12, TypePartsNext
<1> QED
  BY <1>3, <1>4

LEMMA DeleteBoostType ==
    ASSUME TypeOK, DeleteRegularCPUBoost
    PROVE  TypeOK'
<1> DEFINE b == Head(boostEvents).boost
<1>1. HeapOK /\ RegistryOK /\ ThreadsOK
  BY TypeParts
<1>2. /\ b \in Boosts
      /\ ApiOK' /\ BoostApiOK' /\ HeapOK' /\ HeapGrows /\ CountersOK'
      /\ UNCHANGED <<mem, orphanedPods, reverts, tick>>
  BY BoostEventType DEF DeleteRegularCPUBoost
<1>3. /\ regularBoosts' = [regularBoosts EXCEPT ![b] = 0]
      /\ timedBoosts' = [timedBoosts EXCEPT ![b] = 0]
      /\ configurations' = configurations - 1
      /\ UNCHANGED <<boost, handler>>
  BY DEF DeleteRegularCPUBoost
<1>4. Len(boost) \in Nat
  BY <1>1, LenProperties DEF RegistryOK
<1>5. RegistryOK'
  <2>1. regularBoosts' \in [Boosts -> Nat] /\ timedBoosts' \in [Boosts -> Nat]
    BY <1>1, <1>3, Zenon DEF RegistryOK
  <2>2. ASSUME NEW c \in Boosts
        PROVE  /\ regularBoosts'[c] \in 0..Len(boost)
               /\ timedBoosts'[c] \in 0..Len(boost)
               /\ regularBoosts'[c] # 0 => boost[regularBoosts'[c]].name = c
    <3>1. CASE c = b
      BY <1>1, <1>3, <1>4, <3>1 DEF RegistryOK
    <3>2. CASE c # b
      BY <1>1, <1>3, <3>2, Zenon DEF RegistryOK
    <3> QED
      BY <3>1, <3>2
  <2>3. \A i \in DOMAIN boost, p \in Pods : PodPointer(boost[i].pods[p], p)'
    BY <1>1, <1>2, <1>3, Zenon DEF RegistryOK, PodPointer
  <2>4. boost \in Seq(StartupCPUBoost) /\ configurations' \in Int
    BY <1>1, <1>3 DEF RegistryOK
  <2> QED
    BY <1>3, <2>1, <2>2, <2>3, <2>4, Zenon DEF RegistryOK
<1>6. ThreadsOK'
  BY <1>1, <1>2, <1>3, ThreadsStay
<1> QED
  BY <1>2, <1>5, <1>6, TypePartsNext

-----------------------------------------------------------------------------
LEMMA MapOrphanedPodType ==
    ASSUME TypeOK, NEW q \in Pods, MapOrphanedPod(q)
    PROVE  TypeOK'
<1> DEFINE i == handler.boost
           ptr == orphanedPods[q]
           n == [by |-> "handler", boost |-> i, ptr |-> ptr, step |-> "resize"]
<1>1. HeapOK /\ RegistryOK /\ ThreadsOK
  BY TypeParts
<1>2. /\ ApiOK' /\ BoostApiOK' /\ CountersOK'
      /\ handler \in Handler /\ handler.op = "orphans" /\ i \in DOMAIN boost
      /\ \A r \in reverts : r.by # "handler"
      /\ UNCHANGED <<cache, podEvents, regularBoosts, timedBoosts, configurations, tick>>
  BY HandlerStepType DEF MapOrphanedPod
<1>3. /\ q \in handler.orphans /\ UNCHANGED mem
      /\ handler' = [handler EXCEPT !.orphans = @ \ {q}]
      /\ orphanedPods' = orphanedPods \/ orphanedPods' = [orphanedPods EXCEPT ![q] = 0]
      /\ boost' = [boost EXCEPT ![i] = Tracking(boost[i], ptr, mem)]
      /\ reverts' \subseteq reverts \cup {n}
  BY DEF MapOrphanedPod, UpsertBoostPod
<1>4. HeapGrows
  BY <1>1, <1>3, SameHeapGrows
<1>5. ptr \in DOMAIN mem /\ mem[ptr].pod = q
  BY <1>1, <1>3, <1>4, GrownDomain DEF ThreadsOK, HeapOK, PodPointer
<1>6. RegistryOK' /\ DOMAIN boost' = DOMAIN boost
  BY <1>1, <1>2, <1>3, <1>4, <1>5, TrackedType, Zenon
<1>7. /\ handler' \in Handler /\ handler'.op = "orphans" /\ handler'.boost = i
      /\ handler'.orphans = handler.orphans \ {q}
  BY <1>2, <1>3 DEF Handler
<1>8. \A p \in handler'.orphans : orphanedPods'[p] # 0
  <2>1. \A p \in handler.orphans : orphanedPods[p] # 0 /\ p \in Pods
    BY <1>1, <1>2 DEF ThreadsOK, Handler
  <2> QED
    BY <1>1, <1>3, <1>7, <2>1 DEF HeapOK
<1>9. ThreadsOK'
  BY <1>1, <1>2, <1>3, <1>4, <1>5, <1>6, <1>7, <1>8, ThreadsUpsert
<1>10. HeapOK'
  <2>1. CASE UNCHANGED orphanedPods
    BY <1>1, <1>2, <1>4, <2>1, HeapStays
  <2>2. CASE orphanedPods' = [orphanedPods EXCEPT ![q] = 0]
    <3>1. PodPointer(0, q)
      BY <1>1, <1>4, GrownDomain DEF PodPointer
    <3>2. podEvents' \in Seq(PodEvent) /\ \A k \in DOMAIN podEvents' : podEvents'[k].new \in DOMAIN mem
      BY <1>1, <1>2 DEF HeapOK
    <3> QED
      BY <1>2, <1>3, <2>2, <3>1, <3>2, OrphanType, Zenon
  <2> QED
    BY <1>3, <2>1, <2>2
<1> QED
  BY <1>2, <1>6, <1>9, <1>10, TypePartsNext

LEMMA ListBoostPodsType ==
    ASSUME TypeOK, ListBoostPods
    PROVE  TypeOK'
<1> DEFINE L == {mem[cache[p]] : p \in {q \in Pods :
                    cache[q] # 0 /\ mem[cache[q]].lab = boost[handler.boost].name}}
<1>1. HeapOK /\ RegistryOK /\ ThreadsOK
  BY TypeParts
<1>2. /\ ApiOK' /\ BoostApiOK' /\ CountersOK'
      /\ handler \in Handler /\ handler.op = "orphans" /\ handler.boost \in DOMAIN boost
      /\ UNCHANGED <<cache, podEvents, regularBoosts, timedBoosts, configurations, tick>>
  BY HandlerStepType DEF ListBoostPods
<1>3. /\ handler.orphans = {}
      /\ handler' = [handler EXCEPT !.op = "sync", !.list = L]
      /\ UNCHANGED <<mem, boost, reverts, orphanedPods>>
  BY DEF ListBoostPods
<1>4. HeapGrows
  BY <1>1, <1>3, SameHeapGrows
<1>5. ASSUME NEW q \in Pods, cache[q] # 0
      PROVE  mem[cache[q]] \in PodObject
  <2>1. cache[q] \in 1..Len(mem)
    BY <1>1, <1>4, <1>5, GrownDomain DEF HeapOK, PodPointer
  <2> QED
    BY <1>1, <2>1, ElementOfSeq DEF HeapOK
<1>6. L \subseteq PodObject
  BY <1>5
<1> HIDE DEF L
<1>7. /\ handler' \in Handler /\ handler'.op = "sync" /\ handler'.orphans = {}
      /\ handler'.boost = handler.boost
  BY <1>2, <1>3, <1>6, Zenon DEF Handler
<1>8. ThreadsOK'
  BY <1>1, <1>2, <1>3, <1>7 DEF ThreadsOK
<1>9. HeapOK' /\ RegistryOK'
  BY <1>1, <1>2, <1>3, <1>4, HeapStays, RegistryStays
<1> QED
  BY <1>2, <1>8, <1>9, TypePartsNext

LEMMA SyncBoostPodType ==
    ASSUME TypeOK, NEW obj \in handler.list, SyncBoostPod(obj)
    PROVE  TypeOK'
<1> DEFINE i == handler.boost
           ptr == Len(mem) + 1
           n == [by |-> "handler", boost |-> i, ptr |-> ptr, step |-> "resize"]
<1>1. HeapOK /\ RegistryOK /\ ThreadsOK
  BY TypeParts
<1>2. /\ ApiOK' /\ BoostApiOK' /\ CountersOK'
      /\ handler \in Handler /\ handler.op = "sync" /\ i \in DOMAIN boost
      /\ \A r \in reverts : r.by # "handler"
      /\ UNCHANGED <<cache, podEvents, regularBoosts, timedBoosts, configurations, tick>>
  BY HandlerStepType DEF SyncBoostPod
<1>3. /\ handler' = [handler EXCEPT !.list = @ \ {obj}]
      /\ UNCHANGED orphanedPods
  BY DEF SyncBoostPod
<1>4. handler.orphans = {} /\ obj \in PodObject
  BY <1>1, <1>2 DEF ThreadsOK, Handler
<1>5. /\ handler' \in Handler /\ handler'.op = "sync" /\ handler'.orphans = {}
      /\ handler'.boost = i
  BY <1>2, <1>3, <1>4 DEF Handler
<1>6. CASE boost[i].pods[obj.pod] # 0
  <2>1. UNCHANGED <<mem, boost, reverts>>
    BY <1>6 DEF SyncBoostPod
  <2>2. HeapGrows
    BY <1>1, <2>1, SameHeapGrows
  <2>3. HeapOK' /\ RegistryOK'
    BY <1>1, <1>2, <1>3, <2>1, <2>2, HeapStays, RegistryStays
  <2>4. ThreadsOK'
    BY <1>1, <1>2, <1>3, <1>5, <2>1 DEF ThreadsOK
  <2> QED
    BY <1>2, <2>3, <2>4, TypePartsNext
<1>7. CASE boost[i].pods[obj.pod] = 0
  <2>1. /\ mem' = Append(mem, obj)
        /\ boost' = [boost EXCEPT ![i] = Tracking(boost[i], ptr, mem')]
        /\ reverts' \subseteq reverts \cup {n}
    BY <1>7 DEF SyncBoostPod, UpsertBoostPod
  <2>2. HeapGrows /\ ptr \in DOMAIN mem'
    BY <1>1, <1>4, <2>1, AppendGrows
  <2>3. RegistryOK' /\ DOMAIN boost' = DOMAIN boost
    BY <1>1, <1>2, <2>1, <2>2, TrackedType, Zenon
  <2>4. HeapOK'
    BY <1>1, <1>2, <1>3, <2>2, HeapStays
  <2>5. ThreadsOK'
    BY <1>1, <1>2, <1>4, <1>5, <2>1, <2>2, <2>3, ThreadsUpsert, Zenon
  <2> QED
    BY <1>2, <2>3, <2>4, <2>5, TypePartsNext
<1> QED
  BY <1>6, <1>7

LEMMA HandlerReturnType ==
    ASSUME TypeOK, HandlerReturn
    PROVE  TypeOK'
<1>1. HeapOK /\ RegistryOK /\ ThreadsOK
  BY TypeParts
<1>2. /\ ApiOK' /\ BoostApiOK' /\ CountersOK'
      /\ \A r \in reverts : r.by # "handler"
      /\ UNCHANGED <<cache, podEvents, regularBoosts, timedBoosts, configurations, tick>>
  BY HandlerStepType DEF HandlerReturn
<1>3. handler' = Idle /\ UNCHANGED <<mem, boost, reverts, orphanedPods>>
  BY DEF HandlerReturn
<1>4. HeapGrows
  BY <1>1, <1>3, SameHeapGrows
<1>5. HeapOK' /\ RegistryOK'
  BY <1>1, <1>2, <1>3, <1>4, HeapStays, RegistryStays
<1>6. Idle \in Handler /\ Idle.op = "idle" /\ Idle.orphans = {}
  BY DEF Idle, Handler
<1>7. ThreadsOK'
  BY <1>1, <1>2, <1>3, <1>6 DEF ThreadsOK
<1> QED
  BY <1>2, <1>5, <1>7, TypePartsNext

-----------------------------------------------------------------------------
\* Reversions, the time check, status updates and restarts.

\* A request keeps the pods well-formed, on the API server and in memory.
LEMMA RequestType ==
    ASSUME TypeOK, NEW r \in reverts, NEW o, NEW srv, NEW obj \in PodObject,
           obj.pod = mem[r.ptr].pod, Request(r, o, srv, obj),
           o \in {"ok", "lost"} => api[obj.pod] # None /\ srv \in PodObject /\ srv.pod = obj.pod
    PROVE  /\ ApiOK' /\ BoostApiOK' /\ HeapGrows /\ faults' \in Nat
           /\ UNCHANGED <<cache, podEvents, regularBoosts, timedBoosts, configurations,
                          restarts, statusWrites>>
<1>1. ApiOK /\ BoostApiOK /\ HeapOK /\ ThreadsOK /\ CountersOK
  BY TypeParts
<1>2. /\ IF o \in {"ok", "lost"} THEN StorePod(obj.pod, srv) ELSE UNCHANGED <<api, watch>>
      /\ mem' = [mem EXCEPT ![r.ptr] = IF o = "ok" THEN api'[obj.pod] ELSE obj]
      /\ faults' = IF o \in {"fail", "lost"} THEN faults + 1 ELSE faults
      /\ UNCHANGED <<uids, due, cache, podEvents, regularBoosts, timedBoosts,
                     configurations, restarts, statusWrites>>
      /\ UNCHANGED boostVars
  BY DEF Request
<1>3. obj.pod \in Pods /\ r.ptr \in DOMAIN mem
  BY <1>1, Zenon DEF PodObject, ThreadsOK
<1>4. ApiOK' /\ (o = "ok" => api'[obj.pod] \in PodObject /\ api'[obj.pod].pod = obj.pod)
  <2>1. CASE o \in {"ok", "lost"}
    BY <1>1, <1>2, <1>3, <2>1, StorePodType
  <2>2. CASE o \notin {"ok", "lost"}
    BY <1>1, <1>2, <2>2, ApiIdle
  <2> QED
    BY <2>1, <2>2
<1> DEFINE v == IF o = "ok" THEN api'[obj.pod] ELSE obj
<1>5. v \in PodObject /\ v.pod = mem[r.ptr].pod /\ mem' = [mem EXCEPT ![r.ptr] = v]
  BY <1>2, <1>4, Zenon
<1> HIDE DEF v
<1>6. HeapGrows
  BY <1>1, <1>3, <1>5, ExceptGrows, Zenon
<1>7. faults' \in Nat
  <2>1. faults \in Nat
    BY <1>1 DEF CountersOK
  <2>2. faults' = faults + 1 \/ faults' = faults
    BY <1>2, Zenon
  <2> QED
    BY <2>1, <2>2
<1> QED
  BY <1>1, <1>2, <1>4, <1>6, <1>7, BoostApiIdle

\* A reversion ends.
LEMMA EndRevertType ==
    ASSUME TypeOK, NEW r \in reverts, NEW ok \in BOOLEAN, EndRevert(r, ok),
           ApiOK', BoostApiOK', HeapGrows, faults' \in Nat,
           UNCHANGED <<cache, podEvents, regularBoosts, timedBoosts, configurations,
                       restarts, statusWrites>>
    PROVE  TypeOK'
<1> DEFINE q == mem[r.ptr].pod
           b == boost[r.boost].name
<1>1. HeapOK /\ RegistryOK /\ ThreadsOK /\ CountersOK
  BY TypeParts
<1>2. r.ptr \in DOMAIN mem /\ r.boost \in DOMAIN boost
  BY <1>1, Zenon DEF ThreadsOK
<1>3. q \in Pods
  <2>1. mem[r.ptr] \in PodObject
    BY <1>1, <1>2, ElementOfSeq, LenProperties DEF HeapOK
  <2> QED
    BY <2>1, Zenon DEF PodObject
<1>4. b \in Boosts
  <2>1. boost[r.boost] \in StartupCPUBoost
    BY <1>1, <1>2, ElementOfSeq, LenProperties DEF RegistryOK
  <2> QED
    BY <2>1 DEF StartupCPUBoost
<1>5. /\ reverts' = reverts \ {r}
      /\ boost' = IF ok THEN [boost EXCEPT ![r.boost] = Untracking(boost[r.boost], q, mem')]
                  ELSE boost
      /\ handler' = IF r.by = "handler" /\ handler.op = "pod" THEN Idle ELSE handler
      /\ orphanedPods' = IF ok /\ r.by = "handler" /\ handler.op \in {"pod", "orphans"}
                         THEN [orphanedPods EXCEPT ![q] = 0] ELSE orphanedPods
      /\ queue' = IF ok /\ r.by = "handler" /\ handler.op = "pod"
                  THEN queue \cup {b} ELSE queue
      /\ tick' = IF ok /\ r.by = "worker" THEN [tick EXCEPT !.done = @ \cup {b}] ELSE tick
  BY DEF EndRevert
<1>6. RegistryOK' /\ DOMAIN boost' = DOMAIN boost
  <2>1. CASE ok
    BY <1>1, <1>2, <1>3, <1>5, <2>1, UntrackedType, Zenon
  <2>2. CASE ~ok
    BY <1>1, <1>5, <2>2, RegistryStays
  <2> QED
    BY <2>1, <2>2
<1>7. HeapOK'
  <2>1. mem' \in Seq(PodObject) /\ DOMAIN mem \subseteq DOMAIN mem' /\ Len(mem') \in Nat
    BY <1>1, GrownDomain DEF HeapGrows
  <2>2. orphanedPods' \in [Pods -> Nat]
    BY <1>1, <1>3, <1>5 DEF HeapOK
  <2>3. ASSUME NEW p \in Pods
        PROVE  PodPointer(cache[p], p)' /\ PodPointer(orphanedPods[p], p)'
    <3>1. PodPointer(cache[p], p) /\ PodPointer(orphanedPods[p], p) /\ UNCHANGED cache
      BY <1>1 DEF HeapOK
    <3>2. orphanedPods'[p] = 0 \/ orphanedPods'[p] = orphanedPods[p]
      BY <1>1, <1>3, <1>5 DEF HeapOK
    <3>3. PodPointer(orphanedPods[p], p)'
      <4>1. CASE orphanedPods'[p] = 0
        BY <2>1, <4>1 DEF PodPointer
      <4>2. CASE orphanedPods'[p] = orphanedPods[p]
        BY <1>1, <3>1, <4>2, PointerStays DEF PodPointer
      <4> QED
        BY <3>2, <4>1, <4>2
    <3> QED
      BY <1>1, <3>1, <3>3, PointerStays DEF PodPointer
  <2> QED
    BY <1>1, <2>1, <2>2, <2>3 DEF HeapOK
<1>8. ThreadsOK'
  <2>1. \A t \in reverts : /\ t.ptr \in DOMAIN mem' /\ mem'[t.ptr].pod = mem[t.ptr].pod
                           /\ t.boost \in DOMAIN boost'
    BY <1>1, <1>6, GrownDomain, Zenon DEF ThreadsOK, HeapGrows
  <2>2. tick' \in Tick /\ tick'.boosts = tick.boosts
    BY <1>1, <1>4, <1>5 DEF ThreadsOK, Tick
  <2>3. Idle \in Handler /\ Idle.op = "idle" /\ Idle.orphans = {}
    BY DEF Idle, Handler
  <2>4. CASE r.by = "handler" /\ handler.op = "pod"
    <3>1. handler' = Idle /\ \A t \in reverts' : t \in reverts /\ t.by # "handler"
      BY <1>1, <1>5, <2>4 DEF ThreadsOK
    <3> QED
      BY <1>1, <1>5, <1>6, <2>1, <2>2, <2>3, <3>1 DEF ThreadsOK
  <2>5. CASE ~(r.by = "handler" /\ handler.op = "pod")
    <3>1. handler' = handler /\ reverts' \subseteq reverts
      BY <1>5, <2>5
    <3>2. \A p \in handler.orphans : handler.op = "orphans" /\ orphanedPods'[p] # 0
      <4> TAKE p \in handler.orphans
      <4>1. p \in Pods /\ orphanedPods[p] # 0 /\ handler.op = "orphans"
        BY <1>1 DEF ThreadsOK, Handler
      <4>2. r.by = "handler" => p # q
        BY <1>1 DEF ThreadsOK
      <4>3. orphanedPods'[p] = orphanedPods[p]
        BY <1>1, <1>3, <1>5, <4>1, <4>2 DEF HeapOK
      <4> QED
        BY <4>1, <4>3
    <3> QED
      BY <1>1, <1>6, <2>1, <2>2, <3>1, <3>2, Zenon DEF ThreadsOK
  <2> QED
    BY <2>4, <2>5
<1>9. CountersOK'
  BY <1>1, <1>4, <1>5 DEF CountersOK
<1> QED
  BY <1>6, <1>7, <1>8, <1>9, TypePartsNext, Zenon

LEMMA MergePatchType ==
    ASSUME NEW srv \in PodObject, NEW x \in PodObject, NEW y \in PodObject
    PROVE  MergePatch(srv, x, y) \in PodObject /\ MergePatch(srv, x, y).pod = srv.pod
<1> DEFINE res == IF x.res = y.res THEN srv.res ELSE y.res
           lab == IF x.lab = y.lab THEN srv.lab ELSE y.lab
<1>1. res \in {"init", "boosted"} /\ lab \in Boosts \cup {None}
  BY DEF PodObject
<1>2. MergePatch(srv, x, y) = [srv EXCEPT !.res = res, !.lab = lab]
  BY DEF MergePatch
<1> HIDE DEF res, lab
<1> QED
  BY <1>1, <1>2, Zenon DEF PodObject

LEMMA RevertResourcesType ==
    ASSUME TypeOK, NEW r \in reverts, RevertResources(r)
    PROVE  TypeOK'
<1> DEFINE old == mem[r.ptr]
           obj == revertBoostResources(old)
           srv == MergePatch(api[old.pod], old, obj)
<1>1. PICK o \in Outcomes("resize", old.pod) :
         /\ Request(r, o, srv, obj)
         /\ IF o = "ok"
            THEN /\ reverts' = (reverts \ {r}) \cup {[r EXCEPT !.step = "labels"]}
                 /\ UNCHANGED <<boost, handler, orphanedPods, queue, tick>>
            ELSE EndRevert(r, FALSE)
  BY Zenon DEF RevertResources
<1>2. obj \in PodObject /\ obj.pod = old.pod
  BY RevertTarget, RevertedType
<1>3. o \in {"ok", "lost"} => api[obj.pod] # None /\ srv \in PodObject /\ srv.pod = obj.pod
  <2>1. o \in {"ok", "lost"} => api[old.pod] # None
    BY <1>1 DEF Outcomes
  <2>2. old \in PodObject /\ (api[old.pod] # None => /\ api[old.pod] \in PodObject
                                                   /\ api[old.pod].pod = old.pod)
    BY RevertTarget
  <2> HIDE DEF old, obj
  <2>3. api[old.pod] # None => srv \in PodObject /\ srv.pod = old.pod
    BY <1>2, <2>2, MergePatchType
  <2> QED
    BY <1>2, <2>1, <2>3
<1> HIDE DEF obj, srv
<1>4. /\ ApiOK' /\ BoostApiOK' /\ HeapGrows /\ faults' \in Nat
      /\ UNCHANGED <<cache, podEvents, regularBoosts, timedBoosts, configurations,
                     restarts, statusWrites>>
  BY <1>1, <1>2, <1>3, RequestType
<1>5. CASE o # "ok"
  BY <1>1, <1>4, <1>5, EndRevertType, Zenon
<1>6. CASE o = "ok"
  <2> DEFINE n == [r EXCEPT !.step = "labels"]
  <2>1. HeapOK /\ RegistryOK /\ ThreadsOK /\ CountersOK
    BY TypeParts
  <2>2. n \in Revert /\ n.by = r.by /\ n.boost = r.boost /\ n.ptr = r.ptr
    BY <2>1 DEF ThreadsOK, Revert
  <2>3. /\ reverts' = (reverts \ {r}) \cup {n}
        /\ UNCHANGED <<boost, handler, orphanedPods, queue, tick>>
    BY <1>1, <1>6
  <2> HIDE DEF n
  <2>4. \A t \in reverts : t.ptr \in DOMAIN mem' /\ mem'[t.ptr].pod = mem[t.ptr].pod
    BY <1>4, <2>1, GrownDomain DEF ThreadsOK, HeapGrows
  <2>5. ThreadsOK'
    BY <2>1, <2>2, <2>3, <2>4, Zenon DEF ThreadsOK
  <2>6. HeapOK' /\ RegistryOK'
    BY <1>4, <2>1, <2>3, HeapStays, RegistryStays
  <2>7. CountersOK'
    BY <1>4, <2>1, <2>3 DEF CountersOK
  <2> QED
    BY <1>4, <2>5, <2>6, <2>7, TypePartsNext
<1> QED
  BY <1>5, <1>6

LEMMA RevertLabelsType ==
    ASSUME TypeOK, NEW r \in reverts, RevertLabels(r)
    PROVE  TypeOK'
<1> DEFINE old == mem[r.ptr]
           obj == revertBoostLabels(old)
           srv == MergePatch(api[old.pod], old, obj)
<1>1. PICK o \in Outcomes("labels", old.pod) :
         Request(r, o, srv, obj) /\ EndRevert(r, o = "ok")
  BY Zenon DEF RevertLabels
<1>2. obj \in PodObject /\ obj.pod = old.pod
  BY RevertTarget, RevertedType
<1>3. o \in {"ok", "lost"} => api[obj.pod] # None /\ srv \in PodObject /\ srv.pod = obj.pod
  <2>1. o \in {"ok", "lost"} => api[old.pod] # None
    BY <1>1, Zenon DEF Outcomes
  <2>2. old \in PodObject /\ (api[old.pod] # None => /\ api[old.pod] \in PodObject
                                                   /\ api[old.pod].pod = old.pod)
    BY RevertTarget
  <2> HIDE DEF old, obj
  <2>3. api[old.pod] # None => srv \in PodObject /\ srv.pod = old.pod
    BY <1>2, <2>2, MergePatchType
  <2> QED
    BY <1>2, <2>1, <2>3
<1> HIDE DEF obj, srv
<1>4. /\ ApiOK' /\ BoostApiOK' /\ HeapGrows /\ faults' \in Nat
      /\ UNCHANGED <<cache, podEvents, regularBoosts, timedBoosts, configurations,
                     restarts, statusWrites>>
  BY <1>1, <1>2, <1>3, RequestType, Zenon
<1> QED
  BY <1>1, <1>4, EndRevertType, Zenon

LEMMA RevertLegacyType ==
    ASSUME TypeOK, NEW r \in reverts, RevertLegacy(r)
    PROVE  TypeOK'
<1> DEFINE old == mem[r.ptr]
           obj == RevertResourceBoost(old)
           kept == IF HasBoostAnnotation(old) THEN obj ELSE old
<1>1. PICK o : /\ o \in {"ok", "lost"} => HasBoostAnnotation(old) /\ api[old.pod] # None
               /\ Request(r, o, obj, kept) /\ EndRevert(r, o = "ok")
  BY Zenon DEF RevertLegacy, Outcomes
<1>2. obj \in PodObject /\ obj.pod = old.pod /\ kept \in PodObject /\ kept.pod = old.pod
  BY RevertTarget, RevertedType, Zenon
<1> HIDE DEF obj, kept
<1>3. /\ ApiOK' /\ BoostApiOK' /\ HeapGrows /\ faults' \in Nat
      /\ UNCHANGED <<cache, podEvents, regularBoosts, timedBoosts, configurations,
                     restarts, statusWrites>>
  BY <1>1, <1>2, RequestType, Zenon
<1> QED
  BY <1>1, <1>3, EndRevertType, Zenon

-----------------------------------------------------------------------------
\* The time check.
LEMMA TickStepType ==
    ASSUME TypeOK, NEW on, TickStep(on)
    PROVE  /\ ApiOK' /\ HeapOK' /\ RegistryOK' /\ HeapGrows
           /\ faults' \in Nat /\ restarts' \in Nat
           /\ UNCHANGED <<mem, boost, orphanedPods, handler>>
<1>1. ApiOK /\ HeapOK /\ RegistryOK /\ CountersOK
  BY TypeParts
<1>2. UNCHANGED <<api, uids, due, watch, mem, cache, podEvents, boost, regularBoosts,
                  timedBoosts, orphanedPods, configurations, handler, faults, restarts>>
  BY DEF TickStep, podVars
<1>3. HeapGrows
  BY <1>1, <1>2, SameHeapGrows
<1> QED
  BY <1>1, <1>2, <1>3, ApiIdle, HeapStays, RegistryStays DEF CountersOK

LEMMA StartTickType ==
    ASSUME TypeOK, StartTick
    PROVE  TypeOK'
<1> DEFINE S == {timedBoosts[b] : b \in Boosts} \ {0}
<1>1. BoostApiOK /\ RegistryOK /\ ThreadsOK /\ CountersOK
  BY TypeParts
<1>2. /\ ApiOK' /\ HeapOK' /\ RegistryOK' /\ faults' \in Nat /\ restarts' \in Nat
      /\ UNCHANGED <<mem, boost, orphanedPods, handler>>
  BY TickStepType, Zenon DEF StartTick
<1>3. /\ tick' = [on |-> TRUE, done |-> {}, boosts |-> S]
      /\ UNCHANGED <<reverts, queue, statusWrites>> /\ UNCHANGED boostVars
  BY DEF StartTick
<1>4. S \subseteq DOMAIN boost /\ S \subseteq Nat
  BY <1>1, LenProperties, SMTT(60) DEF RegistryOK
<1> HIDE DEF S
<1>5. tick' \in Tick /\ tick'.boosts = S
  BY <1>3, <1>4, Zenon DEF Tick
<1>6. ThreadsOK'
  BY <1>1, <1>2, <1>3, <1>4, <1>5, Zenon DEF ThreadsOK
<1>7. CountersOK'
  BY <1>1, <1>2, <1>3 DEF CountersOK
<1> QED
  BY <1>1, <1>2, <1>3, <1>6, <1>7, BoostApiIdle, TypePartsNext

LEMMA ValidatePolicyType ==
    ASSUME TypeOK, NEW i \in tick.boosts, ValidatePolicy(i)
    PROVE  TypeOK'
<1> DEFINE late == {q \in Pods : /\ "FixedDuration" \in boost[i].pol
                                 /\ boost[i].pods[q] # 0
                                 /\ ~FixedDurationValid(mem[boost[i].pods[q]], due)}
           N == {[by |-> "worker", boost |-> i, ptr |-> boost[i].pods[p], step |-> "resize"] :
                   p \in late}
<1>1. BoostApiOK /\ HeapOK /\ RegistryOK /\ ThreadsOK /\ CountersOK
  BY TypeParts
<1>2. /\ ApiOK' /\ HeapOK' /\ RegistryOK' /\ HeapGrows
      /\ faults' \in Nat /\ restarts' \in Nat
      /\ UNCHANGED <<mem, boost, orphanedPods, handler>>
  BY TickStepType, Zenon DEF ValidatePolicy
<1>3. /\ tick' = [tick EXCEPT !.boosts = @ \ {i}]
      /\ reverts' = reverts \cup N
      /\ UNCHANGED <<queue, statusWrites>> /\ UNCHANGED boostVars
  BY DEF ValidatePolicy
<1>4. i \in DOMAIN boost /\ i \in Nat
  BY <1>1 DEF ThreadsOK, Tick
<1>5. \A r \in N : /\ r \in Revert /\ r.boost \in DOMAIN boost /\ r.ptr \in DOMAIN mem
                   /\ r.by = "worker"
  <2>1. ASSUME NEW p \in late
        PROVE  boost[i].pods[p] \in DOMAIN mem /\ boost[i].pods[p] \in Nat
    <3>1. PodPointer(boost[i].pods[p], p) /\ boost[i].pods[p] # 0
      BY <1>1, <1>4 DEF RegistryOK
    <3>2. DOMAIN mem = 1..Len(mem) /\ Len(mem) \in Nat
      BY <1>1, <1>2, GrownDomain
    <3> DEFINE ptr == boost[i].pods[p]
    <3>3. ptr \in 0..Len(mem) /\ ptr # 0
      BY <3>1 DEF PodPointer
    <3> HIDE DEF ptr
    <3>4. ptr \in 1..Len(mem) /\ ptr \in Nat
      BY <3>2, <3>3
    <3>5. ptr \in DOMAIN mem /\ ptr \in Nat
      BY <3>2, <3>4, Zenon
    <3> QED
      BY <3>5, Zenon DEF ptr
  <2> HIDE DEF late
  <2> QED
    BY <1>4, <2>1, SMTT(60) DEF Revert
<1> HIDE DEF N
<1>6. tick' \in Tick /\ tick'.boosts \subseteq tick.boosts
  BY <1>1, <1>3 DEF ThreadsOK, Tick
<1>7. ThreadsOK'
  BY <1>1, <1>2, <1>3, <1>5, <1>6 DEF ThreadsOK
<1>8. CountersOK'
  BY <1>1, <1>2, <1>3 DEF CountersOK
<1> QED
  BY <1>1, <1>2, <1>3, <1>7, <1>8, BoostApiIdle, TypePartsNext

LEMMA EndTickType ==
    ASSUME TypeOK, EndTick
    PROVE  TypeOK'
<1>1. BoostApiOK /\ ThreadsOK /\ CountersOK
  BY TypeParts
<1>2. /\ ApiOK' /\ HeapOK' /\ RegistryOK' /\ faults' \in Nat /\ restarts' \in Nat
      /\ UNCHANGED <<mem, boost, orphanedPods, handler>>
  BY TickStepType, Zenon DEF EndTick
<1>3. tick' = NoTick /\ UNCHANGED <<reverts, queue, statusWrites>> /\ UNCHANGED boostVars
  BY DEF EndTick
<1>4. NoTick \in Tick /\ NoTick.boosts = {}
  BY Zenon DEF NoTick, Tick
<1>5. ThreadsOK'
  BY <1>1, <1>2, <1>3, <1>4, Zenon DEF ThreadsOK
<1>6. CountersOK'
  BY <1>1, <1>2, <1>3 DEF CountersOK
<1> QED
  BY <1>1, <1>2, <1>3, <1>5, <1>6, BoostApiIdle, TypePartsNext

-----------------------------------------------------------------------------
\* Reconcile.
LEMMA UpdateStatusType ==
    ASSUME TypeOK, NEW b \in Boosts, UpdateStatus(b)
    PROVE  BoostApiOK' /\ statusWrites' \in Nat
<1>1. BoostApiOK /\ RegistryOK /\ CountersOK
  BY TypeParts
<1>2. ReconciledStatus(b) \in BoostStatus
  <2>1. CASE regularBoosts[b] = 0
    BY <1>1, <2>1, Zenon DEF ReconciledStatus, BoostApiOK, BoostStatus
  <2>2. CASE regularBoosts[b] # 0
    <3>1. regularBoosts[b] \in 1..Len(boost)
      BY <1>1, <2>2, LenProperties DEF RegistryOK
    <3>2. boost[regularBoosts[b]] \in StartupCPUBoost
      BY <1>1, <3>1, ElementOfSeq DEF RegistryOK
    <3> QED
      BY <2>2, <3>2 DEF ReconciledStatus, BoostStatus, StartupCPUBoost
  <2> QED
    BY <2>1, <2>2
<1>3. CASE UNCHANGED <<boostVars, statusWrites>>
  BY <1>1, <1>3, BoostApiIdle DEF CountersOK
<1>4. CASE /\ boostApi[b] # None
           /\ statusWrites' = statusWrites + 1
           /\ StoreStatus(b, ReconciledStatus(b))
  <2> DEFINE e == [type |-> "update", boost |-> b, spec |-> boostApi[b]]
  <2>1. e \in BoostEvent
    BY <1>1, <1>4 DEF BoostApiOK, BoostEvent, EventTypes
  <2>2. /\ status' = [status EXCEPT ![b] = ReconciledStatus(b)]
        /\ boostEvents' = Append(boostEvents, e) /\ UNCHANGED <<boostApi, edits>>
    BY <1>4 DEF StoreStatus
  <2> HIDE DEF e
  <2>3. boostEvents' \in Seq(BoostEvent)
    BY <1>1, <2>1, <2>2, AppendProperties DEF BoostApiOK
  <2>4. status' \in [Boosts -> BoostStatus]
    BY <1>1, <1>2, <2>2 DEF BoostApiOK
  <2>5. statusWrites' \in Nat
    BY <1>1, <1>4 DEF CountersOK
  <2> QED
    BY <1>1, <2>2, <2>3, <2>4, <2>5 DEF BoostApiOK
<1> QED
  BY <1>3, <1>4 DEF UpdateStatus

LEMMA ReconcileType ==
    ASSUME TypeOK, NEW b \in Boosts, Reconcile(b)
    PROVE  TypeOK'
<1>1. ApiOK /\ HeapOK /\ RegistryOK /\ ThreadsOK /\ CountersOK
  BY TypeParts
<1>2. BoostApiOK' /\ statusWrites' \in Nat
  BY UpdateStatusType DEF Reconcile
<1>3. /\ queue' = queue \ {b}
      /\ UNCHANGED <<api, uids, due, watch, mem, cache, podEvents, boost, regularBoosts,
                     timedBoosts, orphanedPods, configurations, handler, reverts, tick,
                     faults, restarts>>
  BY DEF Reconcile, podVars
<1>4. HeapGrows
  BY <1>1, <1>3, SameHeapGrows
<1>5. ApiOK' /\ HeapOK' /\ RegistryOK' /\ ThreadsOK'
  BY <1>1, <1>3, <1>4, ApiIdle, HeapStays, RegistryStays, ThreadsStay
<1>6. CountersOK'
  BY <1>1, <1>2, <1>3 DEF CountersOK
<1> QED
  BY <1>2, <1>5, <1>6, TypePartsNext

LEMMA ReconcileAfterTickType ==
    ASSUME TypeOK, NEW b \in Boosts, ReconcileAfterTick(b)
    PROVE  TypeOK'
<1>1. BoostApiOK /\ ThreadsOK /\ CountersOK
  BY TypeParts
<1>2. /\ ApiOK' /\ HeapOK' /\ RegistryOK' /\ faults' \in Nat /\ restarts' \in Nat
      /\ UNCHANGED <<mem, boost, orphanedPods, handler>>
  BY TickStepType, Zenon DEF ReconcileAfterTick
<1>3. tick' = [tick EXCEPT !.done = @ \ {b}] /\ UNCHANGED <<reverts, queue>>
  BY DEF ReconcileAfterTick
<1>4. BoostApiOK' /\ statusWrites' \in Nat
  <2>1. CASE UpdateStatus(b)
    BY <2>1, UpdateStatusType
  <2>2. CASE UNCHANGED <<boostVars, statusWrites>>
    BY <1>1, <2>2, BoostApiIdle DEF CountersOK
  <2> QED
    BY <2>1, <2>2 DEF ReconcileAfterTick
<1>5. tick' \in Tick /\ tick'.boosts = tick.boosts
  BY <1>1, <1>3 DEF ThreadsOK, Tick
<1>6. ThreadsOK'
  BY <1>1, <1>2, <1>3, <1>5 DEF ThreadsOK
<1>7. CountersOK'
  BY <1>1, <1>2, <1>3, <1>4 DEF CountersOK
<1> QED
  BY <1>2, <1>4, <1>6, <1>7, TypePartsNext

-----------------------------------------------------------------------------
\* The lists the informers replay after a restart.
LEMMA FunctionIsSeq ==
    ASSUME NEW S, NEW n \in Nat, NEW f \in [1..n -> S]
    PROVE  f \in Seq(S) /\ Len(f) = n /\ DOMAIN f = 1..n
  OBVIOUS

LEMMA RestartType ==
    ASSUME TypeOK, Restart
    PROVE  TypeOK'
<1> DEFINE present == {p \in Pods : api[p] # None}
           existing == {b \in Boosts : boostApi[b] # None}
           n == Cardinality(present)
           l == Cardinality(existing)
<1>1. ApiOK /\ BoostApiOK /\ CountersOK
  BY TypeParts
<1>2. n \in Nat /\ l \in Nat
  <2>1. present \in SUBSET Pods /\ existing \in SUBSET Boosts
    OBVIOUS
  <2>2. IsFiniteSet(present) /\ IsFiniteSet(existing)
    BY <2>1, FS_Subset, ManagerAssumption
  <2> QED
    BY <2>2, FS_CardinalityType
<1>3. PICK f \in [1..n -> present] :
        /\ {f[k] : k \in DOMAIN f} = present
        /\ mem' = [k \in DOMAIN f |-> api[f[k]]]
        /\ cache' = [p \in Pods |-> IF p \in present
                                    THEN CHOOSE k \in DOMAIN f : f[k] = p ELSE 0]
        /\ podEvents' = [k \in DOMAIN f |-> [type |-> "create", old |-> 0, new |-> k]]
  BY Zenon DEF Restart
<1>4. PICK g \in [1..l -> existing] : boostEvents' =
        [k \in DOMAIN g |-> [type |-> "create", boost |-> g[k], spec |-> boostApi[g[k]]]]
  BY Zenon DEF Restart
<1>5. /\ restarts' = restarts + 1 /\ watch' = <<>> /\ boost' = <<>>
      /\ regularBoosts' = [b \in Boosts |-> 0] /\ timedBoosts' = [b \in Boosts |-> 0]
      /\ orphanedPods' = [p \in Pods |-> 0] /\ configurations' = 0
      /\ handler' = Idle /\ reverts' = {} /\ tick' = NoTick /\ queue' = {}
      /\ UNCHANGED <<api, uids, due, boostApi, status, edits, faults, statusWrites>>
  BY Zenon DEF Restart
<1>6. \A p \in present : p \in Pods /\ api[p] \in PodObject /\ api[p].pod = p
  BY <1>1, Zenon DEF ApiOK
<1>7. \A b \in existing : b \in Boosts /\ boostApi[b] \in BoostSpec
  BY <1>1, Zenon DEF BoostApiOK
<1>8. \A p \in present : \E k \in 1..n : f[k] = p
  BY <1>3
<1> HIDE DEF present, existing, n, l
<1>9. mem' \in [1..n -> PodObject] /\ \A k \in 1..n : mem'[k].pod = f[k]
  BY <1>3, <1>6
<1>10. mem' \in Seq(PodObject) /\ Len(mem') = n /\ DOMAIN mem' = 1..n
  BY <1>2, <1>9, FunctionIsSeq
<1>11. \A p \in Pods : /\ cache'[p] \in 0..n
                       /\ cache'[p] # 0 => mem'[cache'[p]].pod = p
  <2> TAKE p \in Pods
  <2>1. CASE p \in present
    <3>1. cache'[p] = CHOOSE k \in 1..n : f[k] = p
      BY <1>3, <2>1
    <3>2. cache'[p] \in 1..n /\ f[cache'[p]] = p
      BY <1>8, <2>1, <3>1
    <3> QED
      BY <1>2, <1>9, <3>2
  <2>2. CASE p \notin present
    BY <1>2, <1>3, <2>2
  <2> QED
    BY <2>1, <2>2
<1>12. cache' \in [Pods -> Nat]
  <2>1. cache' = [p \in Pods |-> cache'[p]]
    BY <1>3
  <2> QED
    BY <1>2, <1>11, <2>1
<1>13. podEvents' \in [1..n -> PodEvent] /\ \A k \in 1..n : podEvents'[k].new = k
  BY <1>2, <1>3 DEF PodEvent, EventTypes
<1>14. podEvents' \in Seq(PodEvent) /\ DOMAIN podEvents' = 1..n
  BY <1>2, <1>13, FunctionIsSeq
<1>15. boostEvents' \in [1..l -> BoostEvent]
  BY <1>4, <1>7 DEF BoostEvent, EventTypes
<1>16. boostEvents' \in Seq(BoostEvent)
  BY <1>2, <1>15, FunctionIsSeq
<1>17. ApiOK' /\ BoostApiOK'
  BY <1>1, <1>5, <1>16, EmptySeq DEF ApiOK, BoostApiOK
<1>18. HeapOK'
  <2>1. orphanedPods' \in [Pods -> Nat] /\ \A p \in Pods : orphanedPods'[p] = 0
    BY <1>5
  <2> QED
    BY <1>2, <1>10, <1>11, <1>12, <1>13, <1>14, <2>1 DEF HeapOK, PodPointer
<1>19. boost' \in Seq(StartupCPUBoost) /\ Len(boost') = 0 /\ DOMAIN boost' = {}
  BY <1>5, EmptySeq
<1>20. RegistryOK'
  BY <1>5, <1>19 DEF RegistryOK
<1>21. Idle \in Handler /\ Idle.op = "idle" /\ Idle.orphans = {} /\ NoTick \in Tick /\ NoTick.boosts = {}
  BY Zenon DEF Idle, Handler, NoTick, Tick
<1>22. ThreadsOK'
  BY <1>5, <1>21, Zenon DEF ThreadsOK
<1>23. CountersOK'
  BY <1>1, <1>5 DEF CountersOK
<1> QED
  BY <1>17, <1>18, <1>20, <1>22, <1>23, TypePartsNext
=============================================================================
