------------------------- MODULE BoostManagerTypes --------------------------
(***************************************************************************)
(* The type invariant of the boost manager in parts, and what keeps each   *)
(* part: writes to the API, growth of the heaps, tracking of pods.         *)
(***************************************************************************)
EXTENDS BoostManager, TLAPS, FiniteSetTheorems, SequenceTheorems

\* TypeOK, cut into the parts that change together.
ApiOK ==
    /\ api \in [Pods -> PodObject \cup {None}]
    /\ \A p \in Pods : api[p] # None => api[p].pod = p
    /\ uids \in [Pods -> Nat] /\ due \subseteq Pods \X Nat
    /\ watch \in Seq(PodChange)
BoostApiOK ==
    /\ boostApi \in [Boosts -> BoostSpec \cup {None}]
    /\ status \in [Boosts -> BoostStatus]
    /\ boostEvents \in Seq(BoostEvent) /\ edits \in Nat
HeapOK ==
    /\ mem \in Seq(PodObject)
    /\ cache \in [Pods -> Nat] /\ orphanedPods \in [Pods -> Nat]
    /\ \A p \in Pods : PodPointer(cache[p], p) /\ PodPointer(orphanedPods[p], p)
    /\ podEvents \in Seq(PodEvent)
    /\ \A k \in DOMAIN podEvents : podEvents[k].new \in DOMAIN mem
RegistryOK ==
    /\ boost \in Seq(StartupCPUBoost)
    /\ regularBoosts \in [Boosts -> Nat] /\ timedBoosts \in [Boosts -> Nat]
    /\ \A b \in Boosts : /\ regularBoosts[b] \in 0..Len(boost)
                         /\ timedBoosts[b] \in 0..Len(boost)
                         /\ regularBoosts[b] # 0 => boost[regularBoosts[b]].name = b
    /\ \A i \in DOMAIN boost, p \in Pods : PodPointer(boost[i].pods[p], p)
    /\ configurations \in Int
ThreadsOK ==
    /\ handler \in Handler /\ reverts \subseteq Revert /\ tick \in Tick
    /\ \A r \in reverts : r.boost \in DOMAIN boost /\ r.ptr \in DOMAIN mem
    /\ \A r \in reverts : r.by = "handler" =>
          handler.op # "idle" /\ mem[r.ptr].pod \notin handler.orphans
    /\ IF handler.op = "idle" THEN handler = Idle ELSE handler.boost \in DOMAIN boost
    /\ \A p \in handler.orphans : handler.op = "orphans" /\ orphanedPods[p] # 0
    /\ \A r, t \in reverts : r.by = "handler" /\ t.by = "handler" => r = t
    /\ tick.boosts \subseteq DOMAIN boost
CountersOK ==
    queue \subseteq Boosts /\ faults \in Nat /\ restarts \in Nat /\ statusWrites \in Nat

LEMMA TypeParts ==
    TypeOK <=> ApiOK /\ BoostApiOK /\ HeapOK /\ RegistryOK /\ ThreadsOK /\ CountersOK
  BY Zenon DEF TypeOK, ClusterTypeOK, PointersOK, ApiOK, BoostApiOK, HeapOK, RegistryOK,
         ThreadsOK, CountersOK

LEMMA TypePartsNext ==
    TypeOK' <=> ApiOK' /\ BoostApiOK' /\ HeapOK' /\ RegistryOK' /\ ThreadsOK' /\ CountersOK'
  BY Zenon DEF TypeOK, ClusterTypeOK, PointersOK, ApiOK, BoostApiOK, HeapOK, RegistryOK,
         ThreadsOK, CountersOK

-----------------------------------------------------------------------------
\* The statistics are numbers, and a boost remains one when a pod is tracked
\* or untracked; its name, selector and policies stay.
LEMMA ActiveType ==
    ASSUME NEW pods, NEW m
    PROVE  ActiveContainerBoosts(pods, m) \in Nat
<1> DEFINE S == {p \in Pods : pods[p] # 0 /\ boostContainersLen(m[pods[p]]) = 1}
<1>1. S \in SUBSET Pods
  OBVIOUS
<1>2. IsFiniteSet(S)
  BY <1>1, FS_Subset, ManagerAssumption
<1>3. Cardinality(S) \in Nat
  BY <1>2, FS_CardinalityType
<1> QED
  BY <1>3 DEF ActiveContainerBoosts

LEMMA TrackingType ==
    ASSUME NEW m \in Seq(PodObject), NEW ptr \in DOMAIN m, NEW b \in StartupCPUBoost
    PROVE  /\ Tracking(b, ptr, m) \in StartupCPUBoost
           /\ Tracking(b, ptr, m).name = b.name
           /\ Tracking(b, ptr, m).sel = b.sel
           /\ Tracking(b, ptr, m).pol = b.pol
           /\ Tracking(b, ptr, m).pods = [b.pods EXCEPT ![m[ptr].pod] = ptr]
<1> DEFINE pods == [b.pods EXCEPT ![m[ptr].pod] = ptr]
<1>1. ptr \in Nat /\ m[ptr] \in PodObject
  BY ElementOfSeq, LenProperties
<1>2. m[ptr].pod \in Pods /\ boostContainersLen(m[ptr]) \in Nat
  BY <1>1 DEF PodObject, boostContainersLen
<1>3. pods \in [Pods -> Nat]
  BY <1>1, <1>2 DEF StartupCPUBoost
<1>4. ActiveContainerBoosts(pods, m) \in Nat
  BY ActiveType
<1> DEFINE act == ActiveContainerBoosts(pods, m)
           tot == IF b.pods[m[ptr].pod] = 0 THEN b.total + boostContainersLen(m[ptr])
                  ELSE b.total
<1>5. tot \in Nat
  BY <1>2 DEF StartupCPUBoost
<1>6. Tracking(b, ptr, m) = [b EXCEPT !.pods = pods, !.active = act, !.total = tot]
  BY DEF Tracking
<1>7. pods = [b.pods EXCEPT ![m[ptr].pod] = ptr]
  OBVIOUS
<1> HIDE DEF pods, act, tot
<1>8. [b EXCEPT !.pods = pods, !.active = act, !.total = tot] \in StartupCPUBoost
  BY <1>3, <1>4, <1>5, Zenon DEF StartupCPUBoost, act
<1> QED
  BY <1>6, <1>7, <1>8 DEF StartupCPUBoost

LEMMA UntrackingType ==
    ASSUME NEW m, NEW p \in Pods, NEW b \in StartupCPUBoost
    PROVE  /\ Untracking(b, p, m) \in StartupCPUBoost
           /\ Untracking(b, p, m).name = b.name
           /\ Untracking(b, p, m).sel = b.sel
           /\ Untracking(b, p, m).pol = b.pol
           /\ Untracking(b, p, m).pods = [b.pods EXCEPT ![p] = 0]
<1> DEFINE pods == [b.pods EXCEPT ![p] = 0]
<1>1. pods \in [Pods -> Nat]
  BY DEF StartupCPUBoost
<1>2. ActiveContainerBoosts(pods, m) \in Nat
  BY ActiveType
<1> DEFINE act == ActiveContainerBoosts(pods, m)
<1>3. Untracking(b, p, m) = [b EXCEPT !.pods = pods, !.active = act]
  BY DEF Untracking
<1>4. pods = [b.pods EXCEPT ![p] = 0]
  OBVIOUS
<1> HIDE DEF pods, act
<1>5. [b EXCEPT !.pods = pods, !.active = act] \in StartupCPUBoost
  BY <1>1, <1>2, Zenon DEF StartupCPUBoost, act
<1> QED
  BY <1>3, <1>4, <1>5 DEF StartupCPUBoost

\* A change of a pod joins the watch.
LEMMA WatchType ==
    ASSUME ApiOK, NEW c \in PodChange, watch' = Append(watch, c)
    PROVE  watch' \in Seq(PodChange)
  BY AppendProperties DEF ApiOK

\* Pods are stored under their own name, in the API server and by its requests.
LEMMA StorePodType ==
    ASSUME ApiOK, NEW p \in Pods, NEW obj \in PodObject, obj.pod = p, api[p] # None,
           StorePod(p, obj), UNCHANGED <<uids, due>>
    PROVE  ApiOK' /\ api'[p] \in PodObject /\ api'[p].pod = p
<1>1. CASE obj = api[p]
  BY <1>1 DEF StorePod, ApiOK
<1>2. CASE obj # api[p]
  <2> DEFINE new == [obj EXCEPT !.rv = @ + 1]
  <2>1. new \in PodObject /\ new.pod = p
    BY DEF PodObject
  <2>2. api' = [api EXCEPT ![p] = new]
    BY <1>2 DEF StorePod
  <2>3. api' \in [Pods -> PodObject \cup {None}] /\ api'[p] = new
    BY <2>1, <2>2 DEF ApiOK
  <2>4. [type |-> "update", obj |-> api'[p]] \in PodChange
    BY <2>1, <2>3 DEF PodChange, EventTypes
  <2>5. watch' \in Seq(PodChange)
    <3>1. watch' = Append(watch, [type |-> "update", obj |-> api'[p]])
      BY <1>2 DEF StorePod
    <3> QED
      BY <2>4, <3>1, WatchType
  <2> HIDE DEF new
  <2> QED
    BY <2>1, <2>2, <2>3, <2>5 DEF ApiOK
<1> QED
  BY <1>1, <1>2

-----------------------------------------------------------------------------
\* The heap only grows, and an object stays the object of its pod.
HeapGrows ==
    /\ mem' \in Seq(PodObject) /\ Len(mem) <= Len(mem')
    /\ \A k \in 1..Len(mem) : mem'[k].pod = mem[k].pod

LEMMA SameHeapGrows ==
    ASSUME HeapOK, UNCHANGED mem
    PROVE  HeapGrows
<1>1. Len(mem) \in Nat
  BY LenProperties DEF HeapOK
<1> QED
  BY <1>1 DEF HeapGrows, HeapOK

LEMMA AppendGrows ==
    ASSUME HeapOK, NEW obj \in PodObject, mem' = Append(mem, obj)
    PROVE  /\ HeapGrows /\ Len(mem) \in Nat
           /\ Len(mem') = Len(mem) + 1 /\ mem'[Len(mem) + 1] = obj
           /\ Len(mem) + 1 \in DOMAIN mem' /\ Len(mem) + 1 \in Nat
<1>1. mem \in Seq(PodObject) /\ Len(mem) \in Nat
  BY LenProperties DEF HeapOK
<1>2. /\ mem' \in Seq(PodObject) /\ Len(mem') = Len(mem) + 1
      /\ \A i \in 1..Len(mem) : mem'[i] = mem[i]
      /\ mem'[Len(mem) + 1] = obj
  BY <1>1, AppendProperties
<1>3. DOMAIN mem' = 1..Len(mem')
  BY <1>2, LenProperties
<1> QED
  BY <1>1, <1>2, <1>3 DEF HeapGrows

LEMMA ExceptGrows ==
    ASSUME HeapOK, NEW k \in DOMAIN mem, NEW obj \in PodObject, obj.pod = mem[k].pod,
           mem' = [mem EXCEPT ![k] = obj]
    PROVE  HeapGrows
<1>1. mem \in Seq(PodObject) /\ Len(mem) \in Nat /\ k \in 1..Len(mem)
  BY LenProperties DEF HeapOK
<1>2. /\ mem' \in Seq(PodObject) /\ Len(mem') = Len(mem)
      /\ \A j \in 1..Len(mem) : mem'[j] = IF j = k THEN obj ELSE mem[j]
  BY <1>1, ExceptSeq
<1> QED
  BY <1>1, <1>2 DEF HeapGrows

LEMMA GrownDomain ==
    ASSUME HeapOK, HeapGrows
    PROVE  /\ DOMAIN mem = 1..Len(mem) /\ DOMAIN mem' = 1..Len(mem')
           /\ Len(mem) \in Nat /\ Len(mem') \in Nat
           /\ DOMAIN mem \subseteq DOMAIN mem'
<1>1. mem \in Seq(PodObject) /\ mem' \in Seq(PodObject) /\ Len(mem) <= Len(mem')
  BY DEF HeapOK, HeapGrows
<1>2. DOMAIN mem = 1..Len(mem) /\ Len(mem) \in Nat
  BY <1>1, LenProperties
<1>3. DOMAIN mem' = 1..Len(mem') /\ Len(mem') \in Nat
  BY <1>1, LenProperties
<1> QED
  BY <1>1, <1>2, <1>3

LEMMA PointerStays ==
    ASSUME HeapOK, HeapGrows, NEW ptr, NEW p, PodPointer(ptr, p)
    PROVE  ptr \in 0..Len(mem') /\ (ptr # 0 => mem'[ptr].pod = p)
  BY GrownDomain DEF HeapGrows, PodPointer

LEMMA HeapStays ==
    ASSUME HeapOK, HeapGrows, UNCHANGED <<cache, orphanedPods, podEvents>>
    PROVE  HeapOK'
<1>1. \A p \in Pods : PodPointer(cache[p], p)' /\ PodPointer(orphanedPods[p], p)'
  BY PointerStays, Zenon DEF HeapOK, PodPointer
<1> QED
  BY <1>1, GrownDomain DEF HeapOK, HeapGrows

LEMMA RegistryStays ==
    ASSUME HeapOK, HeapGrows, RegistryOK,
           UNCHANGED <<boost, regularBoosts, timedBoosts, configurations>>
    PROVE  RegistryOK'
<1>1. \A i \in DOMAIN boost, p \in Pods : PodPointer(boost[i].pods[p], p)'
  BY PointerStays, Zenon DEF RegistryOK, PodPointer
<1> QED
  BY <1>1 DEF RegistryOK

LEMMA ThreadsStay ==
    ASSUME HeapOK, HeapGrows, ThreadsOK, UNCHANGED <<boost, handler, reverts, tick, orphanedPods>>
    PROVE  ThreadsOK'
<1>1. \A r \in reverts : r.ptr \in DOMAIN mem' /\ mem'[r.ptr].pod = mem[r.ptr].pod
  BY GrownDomain DEF ThreadsOK, HeapGrows
<1> QED
  BY <1>1 DEF ThreadsOK

\* One boost object is replaced by one of the same name, with valid pointers.
LEMMA BoostReplaced ==
    ASSUME HeapOK, HeapGrows, RegistryOK, NEW i \in DOMAIN boost,
           NEW x \in StartupCPUBoost, x.name = boost[i].name,
           \A p \in Pods : x.pods[p] \in 0..Len(mem') /\ (x.pods[p] # 0 => mem'[x.pods[p]].pod = p),
           boost' = [boost EXCEPT ![i] = x],
           UNCHANGED <<regularBoosts, timedBoosts, configurations>>
    PROVE  RegistryOK' /\ DOMAIN boost' = DOMAIN boost
<1>1. boost \in Seq(StartupCPUBoost) /\ DOMAIN boost = 1..Len(boost) /\ Len(boost) \in Nat
  BY LenProperties DEF RegistryOK
<1>2. /\ boost' \in Seq(StartupCPUBoost) /\ Len(boost') = Len(boost)
      /\ \A j \in 1..Len(boost) : boost'[j] = IF j = i THEN x ELSE boost[j]
  BY <1>1, ExceptSeq
<1>3. DOMAIN boost' = DOMAIN boost
  BY <1>1, <1>2, LenProperties
<1>4. \A j \in DOMAIN boost', p \in Pods :
        boost'[j].pods[p] \in 0..Len(mem') /\ (boost'[j].pods[p] # 0 => mem'[boost'[j].pods[p]].pod = p)
  <2> TAKE j \in DOMAIN boost', p \in Pods
  <2>1. CASE j = i
    BY <1>1, <1>2, <1>3, <2>1
  <2>2. CASE j # i
    <3>1. boost'[j] = boost[j]
      BY <1>1, <1>2, <1>3, <2>2
    <3>2. PodPointer(boost[j].pods[p], p)
      BY <1>3 DEF RegistryOK
    <3> QED
      BY <3>1, <3>2, PointerStays
  <2> QED
    BY <2>1, <2>2
<1>5. \A b \in Boosts : /\ regularBoosts[b] \in 0..Len(boost')
                         /\ timedBoosts[b] \in 0..Len(boost')
                         /\ regularBoosts[b] # 0 => boost'[regularBoosts[b]].name = b
  BY <1>1, <1>2 DEF RegistryOK
<1> QED
  BY <1>2, <1>3, <1>4, <1>5 DEF RegistryOK, PodPointer

-----------------------------------------------------------------------------
\* The parts that only depend on variables a step leaves alone.
LEMMA ManagerIdle ==
    ASSUME TypeOK, UNCHANGED <<mem, cache, podEvents, managerVars, bounds>>
    PROVE  HeapOK' /\ RegistryOK' /\ ThreadsOK' /\ CountersOK'
<1>1. HeapOK /\ RegistryOK /\ ThreadsOK /\ CountersOK
  BY TypeParts
<1>2. HeapGrows
  BY <1>1, SameHeapGrows
<1>3. HeapOK' /\ RegistryOK' /\ ThreadsOK'
  BY <1>1, <1>2, HeapStays, RegistryStays, ThreadsStay DEF managerVars
<1> QED
  BY <1>1, <1>3 DEF CountersOK, managerVars, bounds

LEMMA BoostApiIdle ==
    ASSUME BoostApiOK, UNCHANGED boostVars
    PROVE  BoostApiOK'
  BY DEF BoostApiOK, boostVars

LEMMA ApiIdle ==
    ASSUME ApiOK, UNCHANGED <<api, uids, due, watch>>
    PROVE  ApiOK'
  BY DEF ApiOK

-----------------------------------------------------------------------------
\* A boost tracks or stops tracking a pod.
LEMMA TrackedType ==
    ASSUME HeapOK, HeapGrows, RegistryOK, NEW i \in DOMAIN boost, NEW ptr \in DOMAIN mem',
           boost' = [boost EXCEPT ![i] = Tracking(boost[i], ptr, mem')],
           UNCHANGED <<regularBoosts, timedBoosts, configurations>>
    PROVE  RegistryOK' /\ DOMAIN boost' = DOMAIN boost
<1> DEFINE x == Tracking(boost[i], ptr, mem')
<1>1. boost[i] \in StartupCPUBoost /\ mem' \in Seq(PodObject)
  BY ElementOfSeq, LenProperties DEF RegistryOK, HeapGrows
<1>2. /\ x \in StartupCPUBoost /\ x.name = boost[i].name
      /\ x.pods = [boost[i].pods EXCEPT ![mem'[ptr].pod] = ptr]
  BY <1>1, TrackingType
<1>3. boost' = [boost EXCEPT ![i] = x]
  OBVIOUS
<1> HIDE DEF x
<1>4. boost[i].pods \in [Pods -> Nat] /\ DOMAIN mem' = 1..Len(mem') /\ Len(mem') \in Nat
  BY <1>1, GrownDomain DEF StartupCPUBoost
<1>5. ASSUME NEW p \in Pods
      PROVE  x.pods[p] \in 0..Len(mem') /\ (x.pods[p] # 0 => mem'[x.pods[p]].pod = p)
  <2>1. CASE p = mem'[ptr].pod
    BY <1>2, <1>4, <2>1
  <2>2. CASE p # mem'[ptr].pod
    <3>1. x.pods[p] = boost[i].pods[p] /\ PodPointer(boost[i].pods[p], p)
      BY <1>2, <1>4, <2>2 DEF RegistryOK
    <3> QED
      BY <3>1, PointerStays
  <2> QED
    BY <2>1, <2>2
<1> QED
  BY <1>2, <1>3, <1>5, BoostReplaced, Zenon

LEMMA UntrackedType ==
    ASSUME HeapOK, HeapGrows, RegistryOK, NEW i \in DOMAIN boost, NEW q \in Pods, NEW m,
           boost' = [boost EXCEPT ![i] = Untracking(boost[i], q, m)],
           UNCHANGED <<regularBoosts, timedBoosts, configurations>>
    PROVE  RegistryOK' /\ DOMAIN boost' = DOMAIN boost
<1> DEFINE x == Untracking(boost[i], q, m)
<1>1. boost[i] \in StartupCPUBoost
  BY ElementOfSeq, LenProperties DEF RegistryOK
<1>2. /\ x \in StartupCPUBoost /\ x.name = boost[i].name
      /\ x.pods = [boost[i].pods EXCEPT ![q] = 0]
  BY <1>1, UntrackingType
<1>3. boost' = [boost EXCEPT ![i] = x]
  OBVIOUS
<1> HIDE DEF x
<1>4. boost[i].pods \in [Pods -> Nat] /\ Len(mem') \in Nat
  BY <1>1, GrownDomain DEF StartupCPUBoost
<1>5. ASSUME NEW p \in Pods
      PROVE  x.pods[p] \in 0..Len(mem') /\ (x.pods[p] # 0 => mem'[x.pods[p]].pod = p)
  <2>1. CASE p = q
    BY <1>2, <1>4, <2>1
  <2>2. CASE p # q
    <3>1. x.pods[p] = boost[i].pods[p] /\ PodPointer(boost[i].pods[p], p)
      BY <1>2, <1>4, <2>2 DEF RegistryOK
    <3> QED
      BY <3>1, PointerStays
  <2> QED
    BY <2>1, <2>2
<1> QED
  BY <1>2, <1>3, <1>5, BoostReplaced, Zenon

LEMMA MatchingType ==
    ASSUME RegistryOK, NEW p, NEW i \in MatchingBoosts(p)
    PROVE  i \in DOMAIN boost /\ boost[i] \in StartupCPUBoost /\ boost[i].name \in Boosts
<1>1. DOMAIN boost = 1..Len(boost) /\ Len(boost) \in Nat
  BY LenProperties DEF RegistryOK
<1>2. i \in DOMAIN boost
  BY <1>1 DEF MatchingBoosts, RegistryOK
<1>3. boost[i] \in StartupCPUBoost
  BY <1>1, <1>2, ElementOfSeq DEF RegistryOK
<1> QED
  BY <1>2, <1>3 DEF StartupCPUBoost

\* The event the pod handler takes.
LEMMA PodEventType ==
    ASSUME TypeOK, NextPodEvent
    PROVE  /\ Head(podEvents) \in PodEvent /\ Head(podEvents).new \in DOMAIN mem
           /\ mem[Head(podEvents).new] \in PodObject
           /\ mem[Head(podEvents).new].pod \in Pods
           /\ podEvents' \in Seq(PodEvent)
           /\ \A k \in DOMAIN podEvents' : podEvents'[k].new \in DOMAIN mem
           /\ ApiOK' /\ BoostApiOK' /\ HeapGrows
           /\ HandlerFree /\ UNCHANGED <<mem, cache, regularBoosts, timedBoosts, configurations,
                                         tick, faults, restarts, statusWrites>>
<1>1. ApiOK /\ BoostApiOK /\ HeapOK
  BY TypeParts
<1>2. podEvents \in Seq(PodEvent) /\ podEvents # <<>> /\ podEvents' = Tail(podEvents)
  BY <1>1 DEF NextPodEvent, HeapOK
<1>3. /\ Head(podEvents) \in PodEvent /\ podEvents' \in Seq(PodEvent)
      /\ Len(podEvents') = Len(podEvents) - 1
      /\ \A i \in 1..Len(podEvents') : podEvents'[i] = podEvents[i + 1]
  BY <1>2, HeadTailProperties
<1>4. /\ DOMAIN podEvents = 1..Len(podEvents) /\ Len(podEvents) \in Nat
      /\ DOMAIN podEvents' = 1..Len(podEvents') /\ Len(podEvents') \in Nat
  BY <1>2, <1>3, LenProperties
<1>5. Head(podEvents) = podEvents[1] /\ 1 \in DOMAIN podEvents
  BY <1>2, <1>4, EmptySeq
<1>6. Head(podEvents).new \in DOMAIN mem
  BY <1>1, <1>5 DEF HeapOK
<1>7. ASSUME NEW k \in DOMAIN podEvents'
      PROVE  podEvents'[k].new \in DOMAIN mem
  <2>1. k + 1 \in DOMAIN podEvents /\ podEvents'[k] = podEvents[k + 1]
    BY <1>3, <1>4
  <2> QED
    BY <1>1, <2>1 DEF HeapOK
<1>8. mem[Head(podEvents).new] \in PodObject
  BY <1>1, <1>6, ElementOfSeq, LenProperties DEF HeapOK
<1>9. UNCHANGED <<api, uids, due, watch, mem, cache, regularBoosts, timedBoosts,
                  configurations, tick, faults, restarts, statusWrites>>
        /\ UNCHANGED boostVars /\ HandlerFree
  BY DEF NextPodEvent, bounds
<1>10. mem[Head(podEvents).new].pod \in Pods
  BY <1>8 DEF PodObject
<1>11. ApiOK' /\ BoostApiOK' /\ HeapGrows
  BY <1>1, <1>9, ApiIdle, BoostApiIdle, SameHeapGrows
<1> QED
  BY <1>3, <1>6, <1>7, <1>8, <1>9, <1>10, <1>11

\* An orphan is filed under its own name.
LEMMA OrphanType ==
    ASSUME TypeOK, UNCHANGED <<mem, cache>>, NEW q \in Pods, NEW ptr, PodPointer(ptr, q),
           orphanedPods' = [orphanedPods EXCEPT ![q] = ptr],
           podEvents' \in Seq(PodEvent),
           \A k \in DOMAIN podEvents' : podEvents'[k].new \in DOMAIN mem
    PROVE  HeapOK'
<1>1. HeapOK /\ Len(mem) \in Nat
  BY TypeParts, LenProperties DEF HeapOK
<1>2. ptr \in Nat
  BY <1>1 DEF PodPointer
<1>3. orphanedPods' \in [Pods -> Nat]
  BY <1>1, <1>2 DEF HeapOK
<1>4. \A p \in Pods : PodPointer(orphanedPods[p], p)'
  BY <1>1 DEF HeapOK, PodPointer
<1>5. \A p \in Pods : PodPointer(cache[p], p)'
  BY <1>1 DEF HeapOK, PodPointer
<1> QED
  BY <1>1, <1>3, <1>4, <1>5 DEF HeapOK

\* The threads go on when the boost objects are the same ones as before and
\* the handler starts at most one reversion, of a pod it is not going to map.
LEMMA ThreadsUpsert ==
    ASSUME HeapOK, HeapGrows, RegistryOK, ThreadsOK, DOMAIN boost' = DOMAIN boost, UNCHANGED tick,
           NEW i \in DOMAIN boost, NEW ptr \in DOMAIN mem',
           reverts' \subseteq reverts \cup
               {[by |-> "handler", boost |-> i, ptr |-> ptr, step |-> "resize"]},
           handler' \in Handler,
           IF handler'.op = "idle" THEN handler' = Idle ELSE handler'.boost \in DOMAIN boost,
           reverts' \subseteq reverts \/ handler'.op # "idle",
           handler.op = "idle" \/ handler'.op # "idle",
           handler'.orphans \subseteq handler.orphans \ {mem'[ptr].pod},
           \A p \in handler'.orphans : handler'.op = "orphans" /\ orphanedPods'[p] # 0,
           \A r \in reverts : r.by # "handler"
    PROVE  ThreadsOK'
<1> DEFINE n == [by |-> "handler", boost |-> i, ptr |-> ptr, step |-> "resize"]
<1>1. n \in Revert /\ n.boost = i /\ n.ptr = ptr /\ n.by = "handler"
  <2>1. i \in Nat /\ ptr \in Nat
    <3>1. i \in Nat
      BY LenProperties DEF RegistryOK
    <3> QED
      BY <3>1, GrownDomain
  <2> QED
    BY <2>1 DEF Revert
<1>2. reverts' \subseteq reverts \cup {n}
  OBVIOUS
<1> HIDE DEF n
<1>3. \A r \in reverts : /\ r.ptr \in DOMAIN mem' /\ mem'[r.ptr].pod = mem[r.ptr].pod
                         /\ r.boost \in DOMAIN boost'
  BY GrownDomain, Zenon DEF ThreadsOK, HeapGrows
<1>4. ASSUME NEW r \in reverts'
      PROVE  /\ r \in Revert /\ r.boost \in DOMAIN boost' /\ r.ptr \in DOMAIN mem'
             /\ r.by = "handler" => /\ handler'.op # "idle"
                                    /\ mem'[r.ptr].pod \notin handler'.orphans
  <2>1. CASE r \in reverts
    BY <1>3, <2>1 DEF ThreadsOK
  <2>2. CASE r \notin reverts
    <3>1. r = n
      BY <1>2, <2>2
    <3> QED
      BY <1>1, <2>2, <3>1
  <2> QED
    BY <2>1, <2>2
<1>5. \A r, t \in reverts' : r.by = "handler" /\ t.by = "handler" => r = t
  BY <1>2
<1> QED
  BY <1>4, <1>5 DEF ThreadsOK

\* The event a boost handler takes.
LEMMA BoostEventType ==
    ASSUME TypeOK, NEW type, NextBoostEvent(type)
    PROVE  /\ Head(boostEvents).boost \in Boosts /\ Head(boostEvents).spec \in BoostSpec
           /\ ApiOK' /\ BoostApiOK' /\ HeapOK' /\ HeapGrows /\ CountersOK'
           /\ handler = Idle
           /\ UNCHANGED <<mem, orphanedPods, reverts, tick>>
<1>1. ApiOK /\ BoostApiOK /\ HeapOK /\ ThreadsOK /\ CountersOK
  BY TypeParts
<1>2. /\ boostEvents # <<>> /\ boostEvents' = Tail(boostEvents) /\ HandlerFree
      /\ queue' = queue \cup {Head(boostEvents).boost}
      /\ UNCHANGED <<api, uids, due, watch, mem, cache, podEvents, boostApi, status, edits,
                     orphanedPods, reverts, tick, faults, restarts, statusWrites>>
  BY DEF NextBoostEvent, podVars, bounds
<1>3. Head(boostEvents) \in BoostEvent /\ boostEvents' \in Seq(BoostEvent)
  BY <1>1, <1>2, HeadTailProperties DEF BoostApiOK
<1>4. Head(boostEvents).boost \in Boosts /\ Head(boostEvents).spec \in BoostSpec
  BY <1>3 DEF BoostEvent
<1>5. BoostApiOK'
  BY <1>1, <1>2, <1>3 DEF BoostApiOK
<1>6. HeapGrows
  BY <1>1, <1>2, SameHeapGrows
<1>7. HeapOK' /\ ApiOK'
  BY <1>1, <1>2, <1>6, HeapStays, ApiIdle
<1>8. CountersOK'
  BY <1>1, <1>2, <1>4 DEF CountersOK
<1>9. handler = Idle
  BY <1>1, <1>2 DEF ThreadsOK, HandlerFree
<1> QED
  BY <1>2, <1>4, <1>5, <1>6, <1>7, <1>8, <1>9

\* A step of the handler's loops.
LEMMA HandlerStepType ==
    ASSUME TypeOK, NEW op \in {"orphans", "sync"}, HandlerStep(op)
    PROVE  /\ ApiOK' /\ BoostApiOK' /\ CountersOK'
           /\ handler \in Handler /\ handler.op = op
           /\ handler.boost \in DOMAIN boost /\ handler.boost \in Nat
           /\ boost[handler.boost] \in StartupCPUBoost
           /\ \A r \in reverts : r.by # "handler"
           /\ UNCHANGED <<cache, podEvents, regularBoosts, timedBoosts, configurations, tick>>
<1>1. ApiOK /\ BoostApiOK /\ RegistryOK /\ ThreadsOK /\ CountersOK
  BY TypeParts
<1>2. /\ handler.op = op /\ ~HandlerReverting
      /\ UNCHANGED <<api, uids, due, watch, cache, podEvents, regularBoosts, timedBoosts,
                     configurations, tick, queue, faults, restarts, statusWrites>>
      /\ UNCHANGED boostVars
  BY DEF HandlerStep, bounds
<1>3. handler.boost \in DOMAIN boost
  BY <1>1, <1>2, Zenon DEF ThreadsOK
<1>4. handler.boost \in Nat /\ boost[handler.boost] \in StartupCPUBoost
  BY <1>1, <1>3, LenProperties, ElementOfSeq DEF RegistryOK
<1>5. CountersOK'
  BY <1>1, <1>2 DEF CountersOK
<1> QED
  BY <1>1, <1>2, <1>3, <1>4, <1>5, ApiIdle, BoostApiIdle DEF ThreadsOK, HandlerReverting

\* The objects a reversion computes are of the same pod.
LEMMA RevertedType ==
    ASSUME NEW obj \in PodObject
    PROVE  /\ revertBoostLabels(obj) \in PodObject /\ revertBoostLabels(obj).pod = obj.pod
           /\ revertBoostResources(obj) \in PodObject /\ revertBoostResources(obj).pod = obj.pod
           /\ RevertResourceBoost(obj) \in PodObject /\ RevertResourceBoost(obj).pod = obj.pod
<1>1. ASSUME NEW x \in PodObject
      PROVE  revertBoostLabels(x) \in PodObject /\ revertBoostLabels(x).pod = x.pod
  BY DEF revertBoostLabels, PodObject
<1>2. revertBoostResources(obj) \in PodObject /\ revertBoostResources(obj).pod = obj.pod
  BY DEF revertBoostResources, PodObject
<1> QED
  BY <1>1, <1>2 DEF RevertResourceBoost

LEMMA RevertTarget ==
    ASSUME TypeOK, NEW r \in reverts
    PROVE  /\ mem[r.ptr] \in PodObject /\ mem[r.ptr].pod \in Pods
           /\ api[mem[r.ptr].pod] # None => /\ api[mem[r.ptr].pod] \in PodObject
                                            /\ api[mem[r.ptr].pod].pod = mem[r.ptr].pod
<1>1. ApiOK /\ HeapOK /\ ThreadsOK
  BY TypeParts
<1>2. mem[r.ptr] \in PodObject
  BY <1>1, ElementOfSeq, LenProperties, Zenon DEF HeapOK, ThreadsOK
<1>3. mem[r.ptr].pod \in Pods
  BY <1>2 DEF PodObject
<1> QED
  BY <1>1, <1>2, <1>3 DEF ApiOK
=============================================================================
