--------------------------- MODULE BoostRegistry ----------------------------
(***************************************************************************)
(* Invariants of the manager's registry of boosts: the time check covers   *)
(* exactly the registered boosts with a fixed duration, and the registry   *)
(* is behind the API server by exactly the events that wait.               *)
(***************************************************************************)
EXTENDS BoostManagerTypes

\* An appended element is the last one and the others stay.
LEMMA AppendElements ==
    ASSUME NEW S, NEW q \in Seq(S), NEW e \in S
    PROVE  /\ \A k \in 1..Len(q) : Append(q, e)[k] = q[k]
           /\ Append(q, e)[Len(q) + 1] = e
  BY AppendProperties

\* TimedBoostsRegistered.  All steps but those of the boost event handlers and
\* a restart leave the registry and the selectors and policies of all boosts
\* alone.
RegistryKept ==
    /\ UNCHANGED <<regularBoosts, timedBoosts, configurations>>
    /\ DOMAIN boost' = DOMAIN boost
    /\ \A i \in DOMAIN boost : boost'[i].sel = boost[i].sel /\ boost'[i].pol = boost[i].pol

LEMMA KeptRegistered ==
    ASSUME TypeOK, TimedBoostsRegistered, RegistryKept
    PROVE  TimedBoostsRegistered'
<1>1. \A b \in Boosts : regularBoosts[b] # 0 => regularBoosts[b] \in DOMAIN boost
  BY TypeParts, LenProperties DEF RegistryOK
<1> QED
  BY <1>1 DEF TimedBoostsRegistered, RegistryKept, Registered

LEMMA TrackingKeeps ==
    ASSUME TypeOK, NEW i \in DOMAIN boost, NEW m \in Seq(PodObject), NEW ptr \in DOMAIN m,
           boost' = [boost EXCEPT ![i] = Tracking(boost[i], ptr, m)],
           UNCHANGED <<regularBoosts, timedBoosts, configurations>>
    PROVE  RegistryKept
<1>1. boost[i] \in StartupCPUBoost
  BY TypeParts, ElementOfSeq, LenProperties DEF RegistryOK
<1> DEFINE x == Tracking(boost[i], ptr, m)
<1>2. x.sel = boost[i].sel /\ x.pol = boost[i].pol
  BY <1>1 DEF Tracking, StartupCPUBoost
<1>3. boost' = [boost EXCEPT ![i] = x]
  OBVIOUS
<1> HIDE DEF x
<1> QED
  BY <1>2, <1>3 DEF RegistryKept

LEMMA UntrackingKeeps ==
    ASSUME TypeOK, NEW i \in DOMAIN boost, NEW m, NEW p \in Pods,
           boost' = [boost EXCEPT ![i] = Untracking(boost[i], p, m)],
           UNCHANGED <<regularBoosts, timedBoosts, configurations>>
    PROVE  RegistryKept
<1>1. boost[i] \in StartupCPUBoost
  BY TypeParts, ElementOfSeq, LenProperties DEF RegistryOK
<1> DEFINE x == Untracking(boost[i], p, m)
<1>2. x.sel = boost[i].sel /\ x.pol = boost[i].pol
  BY <1>1 DEF Untracking, StartupCPUBoost
<1>3. boost' = [boost EXCEPT ![i] = x]
  OBVIOUS
<1> HIDE DEF x
<1> QED
  BY <1>2, <1>3 DEF RegistryKept

LEMMA PodEventKeeps ==
    ASSUME TypeOK, HandlePodEvent
    PROVE  RegistryKept
<1> DEFINE e == Head(podEvents)
           q == mem[e.new].pod
<1>1. HeapOK /\ RegistryOK
  BY TypeParts
<1>2. /\ e.new \in DOMAIN mem /\ q \in Pods /\ mem \in Seq(PodObject)
      /\ UNCHANGED <<regularBoosts, timedBoosts, configurations>>
  BY <1>1, PodEventType, Zenon DEF HandlePodEvent, IgnorePodEvent, UpsertPod, DeletePod, HeapOK
<1>3. CASE UNCHANGED boost
  BY <1>2, <1>3 DEF RegistryKept
<1>4. ASSUME NEW i \in MatchingBoosts(q), UpsertBoostPod(i, e.new, mem)
      PROVE  RegistryKept
  <2>1. boost' = [boost EXCEPT ![i] = Tracking(boost[i], e.new, mem)] /\ i \in DOMAIN boost
    BY <1>1, <1>4, MatchingType, Zenon DEF UpsertBoostPod
  <2> QED
    BY <1>2, <2>1, TrackingKeeps, Zenon
<1>5. ASSUME NEW i \in MatchingBoosts(q), boost' = [boost EXCEPT ![i] = Untracking(@, q, mem)]
      PROVE  RegistryKept
  <2>1. boost' = [boost EXCEPT ![i] = Untracking(boost[i], q, mem)] /\ i \in DOMAIN boost
    BY <1>1, <1>5, MatchingType
  <2> QED
    BY <1>2, <2>1, UntrackingKeeps, Zenon
<1>6. CASE UpsertPod
  BY <1>3, <1>4, <1>6, Zenon DEF UpsertPod
<1>7. CASE DeletePod
  BY <1>3, <1>5, <1>7, Zenon DEF DeletePod
<1>8. CASE IgnorePodEvent
  BY <1>3, <1>8 DEF IgnorePodEvent
<1> QED
  BY <1>6, <1>7, <1>8 DEF HandlePodEvent

LEMMA HandlerLoopKeeps ==
    ASSUME TypeOK, HandlerLoop
    PROVE  RegistryKept
<1>1. HeapOK /\ ThreadsOK /\ mem \in Seq(PodObject)
  BY TypeParts DEF HeapOK
<1>2. ASSUME NEW q \in Pods, MapOrphanedPod(q)
      PROVE  RegistryKept
  <2>1. /\ handler.boost \in DOMAIN boost /\ UNCHANGED <<regularBoosts, timedBoosts, configurations>>
        /\ boost' = [boost EXCEPT ![handler.boost] =
                       Tracking(boost[handler.boost], orphanedPods[q], mem)]
    BY <1>2, HandlerStepType DEF MapOrphanedPod, UpsertBoostPod
  <2>2. orphanedPods[q] \in DOMAIN mem
    <3>1. q \in handler.orphans
      BY <1>2 DEF MapOrphanedPod
    <3>2. orphanedPods[q] # 0 /\ PodPointer(orphanedPods[q], q)
      BY <1>1, <3>1 DEF ThreadsOK, HeapOK
    <3> QED
      BY <1>1, <3>2, LenProperties DEF PodPointer
  <2> QED
    BY <1>1, <2>1, <2>2, TrackingKeeps, Zenon
<1>3. ASSUME NEW obj \in handler.list, SyncBoostPod(obj)
      PROVE  RegistryKept
  <2>1. handler.boost \in DOMAIN boost /\ UNCHANGED <<regularBoosts, timedBoosts, configurations>>
    BY <1>3, HandlerStepType DEF SyncBoostPod
  <2>2. CASE UNCHANGED boost
    BY <2>1, <2>2 DEF RegistryKept
  <2>3. CASE /\ mem' = Append(mem, obj)
             /\ boost' = [boost EXCEPT ![handler.boost] =
                            Tracking(boost[handler.boost], Len(mem) + 1, mem')]
    <3>1. obj \in PodObject
      BY <1>1 DEF ThreadsOK, Handler
    <3>2. mem' \in Seq(PodObject) /\ Len(mem) + 1 \in DOMAIN mem'
      BY <1>1, <2>3, <3>1, AppendGrows DEF HeapGrows
    <3> QED
      BY <2>1, <2>3, <3>2, TrackingKeeps, Zenon
  <2> QED
    BY <1>3, <2>2, <2>3 DEF SyncBoostPod, UpsertBoostPod
<1>4. CASE ListBoostPods \/ HandlerReturn
  BY <1>4 DEF ListBoostPods, HandlerReturn, HandlerStep, RegistryKept
<1> QED
  BY <1>2, <1>3, <1>4 DEF HandlerLoop

LEMMA RevertKeeps ==
    ASSUME TypeOK, NEW r \in reverts, RevertStep(r)
    PROVE  RegistryKept
<1>1. r.boost \in DOMAIN boost /\ mem[r.ptr].pod \in Pods
  BY TypeParts, RevertTarget, Zenon DEF ThreadsOK
<1>2. UNCHANGED <<regularBoosts, timedBoosts, configurations>>
  BY Zenon DEF RevertStep, RevertResources, RevertLabels, RevertLegacy, Request
<1>3. \/ UNCHANGED boost
      \/ boost' = [boost EXCEPT ![r.boost] = Untracking(boost[r.boost], mem[r.ptr].pod, mem')]
  BY Zenon DEF RevertStep, RevertResources, RevertLabels, RevertLegacy, EndRevert
<1>4. CASE UNCHANGED boost
  BY <1>2, <1>4 DEF RegistryKept
<1>5. CASE boost' = [boost EXCEPT ![r.boost] = Untracking(boost[r.boost], mem[r.ptr].pod, mem')]
  BY <1>1, <1>2, <1>5, UntrackingKeeps, Zenon
<1> QED
  BY <1>3, <1>4, <1>5

\* The handlers of boost events keep timedBoosts and regularBoosts in step.
LEMMA BoostEventRegistered ==
    ASSUME TypeOK, TimedBoostsRegistered, HandleBoostEvent
    PROVE  TimedBoostsRegistered'
<1> DEFINE b == Head(boostEvents).boost
           s == Head(boostEvents).spec
<1>1. RegistryOK /\ boost \in Seq(StartupCPUBoost) /\ Len(boost) \in Nat /\ DOMAIN boost = 1..Len(boost)
  BY TypeParts, LenProperties DEF RegistryOK
<1>2. b \in Boosts /\ s \in BoostSpec
  BY BoostEventType DEF HandleBoostEvent, AddRegularCPUBoost, UpdateRegularCPUBoost,
                        DeleteRegularCPUBoost
<1>3. /\ regularBoosts \in [Boosts -> Nat] /\ timedBoosts \in [Boosts -> Nat]
      /\ \A c \in Boosts : regularBoosts[c] # 0 =>
            regularBoosts[c] \in 1..Len(boost) /\ boost[regularBoosts[c]].name = c
  BY <1>1 DEF RegistryOK
<1>4. CASE AddRegularCPUBoost
  <2>1. CASE UNCHANGED <<boost, regularBoosts, timedBoosts, configurations>>
    BY <2>1, KeptRegistered DEF RegistryKept
  <2>2. CASE /\ regularBoosts[b] = 0
             /\ boost' = Append(boost, NewStartupCPUBoost(b, s))
             /\ regularBoosts' = [regularBoosts EXCEPT ![b] = Len(boost) + 1]
             /\ PostProcessNewBoost(Len(boost) + 1, b, s)
    <3>1. NewStartupCPUBoost(b, s) \in StartupCPUBoost /\ NewStartupCPUBoost(b, s).pol = s.pol
      BY <1>2, Zenon DEF NewStartupCPUBoost, StartupCPUBoost, BoostSpec
    <3>2. /\ \A k \in 1..Len(boost) : boost'[k] = boost[k]
          /\ boost'[Len(boost) + 1].pol = s.pol
      BY <1>1, <2>2, <3>1, AppendElements
    <3>3. timedBoosts' = IF "FixedDuration" \in s.pol
                         THEN [timedBoosts EXCEPT ![b] = Len(boost) + 1] ELSE timedBoosts
      BY <2>2, Zenon DEF PostProcessNewBoost
    <3>4. timedBoosts[b] = 0
      BY <1>2, <2>2, Zenon DEF TimedBoostsRegistered
    <3>5. ASSUME NEW c \in Boosts
          PROVE  /\ timedBoosts'[c] # 0 => timedBoosts'[c] = regularBoosts'[c]
                 /\ regularBoosts'[c] # 0 /\ "FixedDuration" \in boost'[regularBoosts'[c]].pol
                      => timedBoosts'[c] = regularBoosts'[c]
      <4>1. CASE c = b
        BY <1>1, <1>2, <1>3, <2>2, <3>2, <3>3, <3>4, <4>1
      <4>2. CASE c # b
        <5>1. regularBoosts'[c] = regularBoosts[c] /\ timedBoosts'[c] = timedBoosts[c]
          BY <1>3, <2>2, <3>3, <4>2
        <5> QED
          BY <1>3, <3>2, <5>1 DEF TimedBoostsRegistered, Registered
      <4> QED
        BY <4>1, <4>2
    <3> QED
      BY <3>5 DEF TimedBoostsRegistered, Registered
  <2> QED
    BY <1>4, <2>1, <2>2 DEF AddRegularCPUBoost
<1>5. CASE UpdateRegularCPUBoost
  <2> DEFINE i == regularBoosts[b]
  <2>1. CASE UNCHANGED <<boost, regularBoosts, timedBoosts, configurations>>
    BY <2>1, KeptRegistered DEF RegistryKept
  <2>2. CASE /\ i # 0 /\ UNCHANGED regularBoosts
             /\ boost' = [boost EXCEPT ![i].sel = s.sel, ![i].pol = s.pol]
             /\ PostProcessNewBoost(i, b, s)
    <3>1. i \in DOMAIN boost /\ boost[i] \in StartupCPUBoost /\ boost[i].name = b
      BY <1>1, <1>2, <1>3, <2>2, ElementOfSeq
    <3>2. boost'[i].pol = s.pol /\ \A k \in DOMAIN boost : k # i => boost'[k] = boost[k]
      BY <1>1, <2>2, <3>1, Zenon DEF StartupCPUBoost
    <3>3. timedBoosts' = IF "FixedDuration" \in s.pol
                         THEN [timedBoosts EXCEPT ![b] = i] ELSE timedBoosts
      BY <2>2 DEF PostProcessNewBoost
    <3>4. ASSUME NEW c \in Boosts
          PROVE  /\ timedBoosts'[c] # 0 => timedBoosts'[c] = regularBoosts[c]
                 /\ regularBoosts[c] # 0 /\ "FixedDuration" \in boost'[regularBoosts[c]].pol
                      => timedBoosts'[c] = regularBoosts[c]
      <4>1. CASE c = b
        BY <1>2, <1>3, <3>2, <3>3, <4>1, Zenon DEF TimedBoostsRegistered
      <4>2. CASE c # b
        <5>1. timedBoosts'[c] = timedBoosts[c]
          BY <1>3, <3>3, <4>2
        <5>2. regularBoosts[c] # 0 => boost'[regularBoosts[c]] = boost[regularBoosts[c]]
          BY <1>1, <1>3, <3>1, <3>2, <4>2
        <5> QED
          BY <5>1, <5>2 DEF TimedBoostsRegistered, Registered
      <4> QED
        BY <4>1, <4>2
    <3> QED
      BY <2>2, <3>4, Zenon DEF TimedBoostsRegistered, Registered
  <2> QED
    BY <1>5, <2>1, <2>2 DEF UpdateRegularCPUBoost
<1>6. CASE DeleteRegularCPUBoost
  <2>1. /\ regularBoosts' = [regularBoosts EXCEPT ![b] = 0]
        /\ timedBoosts' = [timedBoosts EXCEPT ![b] = 0] /\ UNCHANGED boost
    BY <1>6 DEF DeleteRegularCPUBoost
  <2> QED
    BY <1>2, <1>3, <2>1 DEF TimedBoostsRegistered, Registered
<1> QED
  BY <1>4, <1>5, <1>6 DEF HandleBoostEvent

LEMMA TimedNext ==
    ASSUME TypeOK, TimedBoostsRegistered, [Next]_vars
    PROVE  TimedBoostsRegistered'
<1>1. CASE HandlePodEvent
  BY <1>1, PodEventKeeps, KeptRegistered
<1>2. CASE HandleBoostEvent
  BY <1>2, BoostEventRegistered
<1>3. CASE HandlerLoop
  BY <1>3, HandlerLoopKeeps, KeptRegistered
<1>4. CASE \E r \in reverts : RevertStep(r)
  BY <1>4, RevertKeeps, KeptRegistered
<1>5. CASE TickAction
  <2>1. UNCHANGED <<boost, regularBoosts, timedBoosts, configurations>>
    BY <1>5 DEF TickAction, StartTick, EndTick, ValidatePolicy, ReconcileAfterTick, TickStep
  <2> QED
    BY <2>1, KeptRegistered DEF RegistryKept
<1>6. CASE \E b \in Boosts : Reconcile(b)
  <2>1. UNCHANGED <<boost, regularBoosts, timedBoosts, configurations>>
    BY <1>6 DEF Reconcile
  <2> QED
    BY <2>1, KeptRegistered DEF RegistryKept
<1>7. CASE (\E p \in Pods : AdmitPod(p)) \/ ClusterStep \/ Receive \/ UNCHANGED vars
  <2>1. UNCHANGED <<boost, regularBoosts, timedBoosts, configurations>>
    BY <1>7 DEF AdmitPod, ClusterStep, Receive, vars, managerVars
  <2> QED
    BY <2>1, KeptRegistered DEF RegistryKept
<1>8. CASE Restart
  <2>1. regularBoosts' = [b \in Boosts |-> 0] /\ timedBoosts' = [b \in Boosts |-> 0]
    BY <1>8, Zenon DEF Restart
  <2> QED
    BY <2>1 DEF TimedBoostsRegistered, Registered
<1> QED
  BY <1>1, <1>2, <1>3, <1>4, <1>5, <1>6, <1>7, <1>8 DEF Next

-----------------------------------------------------------------------------
\* RegistryAgrees.  Between two events the registry is not what the API server
\* has; what leads from one to the other is the events that wait.

\* What an event leaves of its boost.
After(e) == IF e.type = "delete" THEN None ELSE e.spec
EventsOf(q, b) == {k \in DOMAIN q : q[k].boost = b}

\* The events q lead from a registry that has ptr for boost b to the boost v:
\* what exists is not created, what does not exist is neither updated nor
\* deleted, and the last event leaves v.
Leads(q, b, ptr, v) ==
    \A k \in EventsOf(q, b) :
        /\ (\A j \in EventsOf(q, b) : j <= k) => After(q[k]) = v
        /\ (\A j \in EventsOf(q, b) : k <= j) => (q[k].type = "create" <=> ptr = 0)
        /\ \A j \in EventsOf(q, b) :
             j < k /\ (\A i \in EventsOf(q, b) : ~(j < i /\ i < k))
               => (q[k].type = "create" <=> q[j].type = "delete")

\* A new event comes last: none is left out, and it leads on from the last one.
LEMMA AppendEvents ==
    ASSUME NEW q \in Seq(BoostEvent), NEW e \in BoostEvent, NEW b,
           EventsOf(Append(q, e), b) = {}
    PROVE  EventsOf(q, b) = {} /\ e.boost # b
<1>1. /\ Len(q) \in Nat /\ DOMAIN q = 1..Len(q) /\ DOMAIN Append(q, e) = 1..(Len(q) + 1)
      /\ Append(q, e)[Len(q) + 1] = e /\ \A k \in 1..Len(q) : Append(q, e)[k] = q[k]
  BY AppendProperties, LenProperties
<1> QED
  BY <1>1 DEF EventsOf

\* What leads to v leads to what a write makes of v, with the event of the write.
LEMMA LeadsAppend ==
    ASSUME NEW q \in Seq(BoostEvent), NEW e \in BoostEvent, NEW b,
           NEW ptr, NEW v, NEW w,
           Leads(q, b, ptr, v),
           EventsOf(q, b) = {} => (ptr = 0 <=> v = None),
           IF e.boost = b THEN After(e) = w /\ (e.type = "create" <=> v = None) ELSE w = v
    PROVE  Leads(Append(q, e), b, ptr, w)
<1> DEFINE n == Len(q)
           r == Append(q, e)
<1>1. n \in Nat /\ DOMAIN q = 1..n /\ DOMAIN r = 1..(n + 1) /\ r[n + 1] = e
      /\ \A k \in 1..n : r[k] = q[k]
  BY AppendProperties, LenProperties
<1>2. \A k \in 1..n : q[k] \in BoostEvent
  BY <1>1, ElementOfSeq
<1>3. \A k \in 1..n : After(q[k]) = None <=> q[k].type = "delete"
  BY <1>2, ClusterAssumption DEF After, BoostEvent
<1> HIDE DEF n, r
<1>4. CASE e.boost # b
  <2>1. EventsOf(r, b) = EventsOf(q, b) /\ EventsOf(q, b) \subseteq 1..n
    BY <1>1, <1>4 DEF EventsOf
  <2>2. Leads(r, b, ptr, w)
    BY <1>1, <1>4, <2>1 DEF Leads
  <2> QED
    BY <2>2 DEF r
<1>5. CASE e.boost = b
  <2>1. EventsOf(r, b) = EventsOf(q, b) \cup {n + 1} /\ EventsOf(q, b) \subseteq 1..n
    BY <1>1, <1>5 DEF EventsOf
  <2>2. ASSUME NEW k \in EventsOf(q, b)
        PROVE  /\ k \in 1..n /\ r[k] = q[k]
               /\ ~(\A j \in EventsOf(r, b) : j <= k)
               /\ (\A j \in EventsOf(r, b) : k <= j) => (r[k].type = "create" <=> ptr = 0)
               /\ \A j \in EventsOf(r, b) :
                     j < k /\ (\A i \in EventsOf(r, b) : ~(j < i /\ i < k))
                       => (r[k].type = "create" <=> r[j].type = "delete")
    <3>1. k \in 1..n /\ r[k] = q[k] /\ n + 1 \in EventsOf(r, b) /\ ~(n + 1 <= k)
      BY <1>1, <2>1
    <3>2. (\A j \in EventsOf(r, b) : k <= j) => (r[k].type = "create" <=> ptr = 0)
      BY <2>1, <3>1 DEF Leads
    <3>3. ASSUME NEW j \in EventsOf(r, b), j < k,
                 \A i \in EventsOf(r, b) : ~(j < i /\ i < k)
          PROVE  r[k].type = "create" <=> r[j].type = "delete"
      <4>1. j \in EventsOf(q, b) /\ r[j] = q[j]
        BY <1>1, <2>1, <3>1, <3>3
      <4> QED
        BY <2>1, <3>1, <3>3, <4>1 DEF Leads
    <3> QED
      BY <3>1, <3>2, <3>3
  <2>3. (\A j \in EventsOf(r, b) : n + 1 <= j) => (e.type = "create" <=> ptr = 0)
    <3>1. SUFFICES ASSUME \A j \in EventsOf(r, b) : n + 1 <= j
                   PROVE  EventsOf(q, b) = {}
      BY <1>5
    <3> QED
      BY <1>1, <2>1, <3>1
  <2>4. ASSUME NEW j \in EventsOf(r, b), j < n + 1,
               \A i \in EventsOf(r, b) : ~(j < i /\ i < n + 1)
        PROVE  e.type = "create" <=> r[j].type = "delete"
    <3>1. j \in EventsOf(q, b) /\ j \in 1..n
      BY <1>1, <2>1, <2>4
    <3>2. \A i \in EventsOf(q, b) : i <= j
      BY <1>1, <2>1, <2>4, <3>1
    <3>3. After(q[j]) = v
      BY <3>1, <3>2 DEF Leads
    <3> QED
      BY <1>1, <1>3, <1>5, <3>1, <3>3
  <2>5. Leads(r, b, ptr, w)
    <3> SUFFICES ASSUME NEW k \in EventsOf(r, b)
                 PROVE  /\ (\A j \in EventsOf(r, b) : j <= k) => After(r[k]) = w
                        /\ (\A j \in EventsOf(r, b) : k <= j) => (r[k].type = "create" <=> ptr = 0)
                        /\ \A j \in EventsOf(r, b) :
                             j < k /\ (\A i \in EventsOf(r, b) : ~(j < i /\ i < k))
                               => (r[k].type = "create" <=> r[j].type = "delete")
      BY DEF Leads
    <3>1. CASE k \in EventsOf(q, b)
      BY <2>2, <3>1
    <3>2. CASE k = n + 1
      BY <1>1, <1>5, <2>3, <2>4, <3>2
    <3> QED
      BY <2>1, <3>1, <3>2
  <2> QED
    BY <2>5 DEF r
<1> QED
  BY <1>4, <1>5

\* The first event is taken: what is left leads on from what it leaves.
LEMMA LeadsTail ==
    ASSUME NEW q \in Seq(BoostEvent), q # <<>>, NEW b, NEW ptr, NEW v,
           Leads(q, b, ptr, v)
    PROVE  IF Head(q).boost = b
           THEN /\ \A new : (new = 0 <=> Head(q).type = "delete") => Leads(Tail(q), b, new, v)
                /\ Head(q).type = "create" <=> ptr = 0
                /\ EventsOf(Tail(q), b) = {} => After(Head(q)) = v
           ELSE /\ Leads(Tail(q), b, ptr, v)
                /\ EventsOf(Tail(q), b) = {} => EventsOf(q, b) = {}
<1> DEFINE n == Len(q)
           t == Tail(q)
           h == Head(q)
<1>1. /\ n \in Nat \ {0} /\ DOMAIN q = 1..n /\ DOMAIN t = 1..(n - 1) /\ h = q[1]
      /\ \A k \in 1..(n - 1) : t[k] = q[k + 1]
  BY HeadTailProperties, LenProperties, EmptySeq
<1> HIDE DEF n, t, h
<1>2. /\ EventsOf(q, b) \subseteq 1..n /\ EventsOf(t, b) \subseteq 1..(n - 1)
      /\ \A k \in 1..(n - 1) : k \in EventsOf(t, b) <=> k + 1 \in EventsOf(q, b)
  BY <1>1 DEF EventsOf
<1>3. \A k \in EventsOf(q, b) : k # 1 => k - 1 \in EventsOf(t, b)
  BY <1>1, <1>2
<1>4. 1 \in EventsOf(q, b) <=> h.boost = b
  BY <1>1 DEF EventsOf
<1>5. ASSUME NEW k \in EventsOf(t, b)
      PROVE  /\ k + 1 \in EventsOf(q, b) /\ t[k] = q[k + 1] /\ k \in 1..(n - 1)
             /\ (\A j \in EventsOf(t, b) : j <= k) => After(t[k]) = v
             /\ \A j \in EventsOf(t, b) :
                  j < k /\ (\A i \in EventsOf(t, b) : ~(j < i /\ i < k))
                    => (t[k].type = "create" <=> t[j].type = "delete")
  <2>1. k + 1 \in EventsOf(q, b) /\ t[k] = q[k + 1] /\ k \in 1..(n - 1)
    BY <1>1, <1>2
  <2>2. ASSUME \A j \in EventsOf(t, b) : j <= k
        PROVE  After(t[k]) = v
    <3>1. \A j \in EventsOf(q, b) : j <= k + 1
      BY <1>1, <1>2, <1>3, <2>1, <2>2
    <3> QED
      BY <2>1, <3>1 DEF Leads
  <2>3. ASSUME NEW j \in EventsOf(t, b), j < k,
               \A i \in EventsOf(t, b) : ~(j < i /\ i < k)
        PROVE  t[k].type = "create" <=> t[j].type = "delete"
    <3>1. j + 1 \in EventsOf(q, b) /\ t[j] = q[j + 1] /\ j \in 1..(n - 1)
      BY <1>1, <1>2
    <3>2. ASSUME NEW i \in EventsOf(q, b), j + 1 < i, i < k + 1
          PROVE  FALSE
      <4>1. i - 1 \in EventsOf(t, b) /\ i \in 1..n
        BY <1>1, <1>2, <1>3, <3>1, <3>2
      <4> QED
        BY <1>1, <2>1, <2>3, <3>1, <3>2, <4>1
    <3>3. j + 1 < k + 1
      BY <1>1, <2>1, <2>3, <3>1
    <3> QED
      BY <2>1, <3>1, <3>2, <3>3 DEF Leads
  <2> QED
    BY <2>1, <2>2, <2>3
<1>6. CASE h.boost = b
  <2>1. 1 \in EventsOf(q, b) /\ \A j \in EventsOf(q, b) : 1 <= j
    BY <1>1, <1>2, <1>4, <1>6
  <2>2. h.type = "create" <=> ptr = 0
    BY <1>1, <2>1 DEF Leads
  <2>3. ASSUME EventsOf(t, b) = {}
        PROVE  After(h) = v
    <3>1. \A j \in EventsOf(q, b) : j <= 1
      BY <1>1, <1>2, <1>3, <2>3
    <3> QED
      BY <1>1, <2>1, <3>1 DEF Leads
  <2>4. ASSUME NEW k \in EventsOf(t, b), \A j \in EventsOf(t, b) : k <= j
        PROVE  t[k].type = "create" <=> h.type = "delete"
    <3>1. k + 1 \in EventsOf(q, b) /\ t[k] = q[k + 1] /\ k \in 1..(n - 1) /\ 1 < k + 1
      BY <1>1, <1>5
    <3>2. ASSUME NEW i \in EventsOf(q, b), 1 < i, i < k + 1
          PROVE  FALSE
      <4>1. i - 1 \in EventsOf(t, b) /\ i \in 1..n
        BY <1>1, <1>2, <1>3, <3>2
      <4> QED
        BY <1>1, <2>4, <3>1, <3>2, <4>1
    <3> QED
      BY <1>1, <2>1, <3>1, <3>2 DEF Leads
  <2>5. ASSUME NEW new, new = 0 <=> h.type = "delete"
        PROVE  Leads(t, b, new, v)
    BY <1>5, <2>4, <2>5 DEF Leads
  <2> QED
    BY <1>6, <2>2, <2>3, <2>5 DEF t, h
<1>7. CASE h.boost # b
  <2>1. ASSUME NEW k \in EventsOf(t, b), \A j \in EventsOf(t, b) : k <= j
        PROVE  t[k].type = "create" <=> ptr = 0
    <3>1. \A j \in EventsOf(q, b) : k + 1 <= j
      BY <1>1, <1>2, <1>3, <1>4, <1>5, <1>7, <2>1
    <3> QED
      BY <1>5, <3>1 DEF Leads
  <2>2. Leads(t, b, ptr, v)
    BY <1>5, <2>1 DEF Leads
  <2>3. EventsOf(t, b) = {} => EventsOf(q, b) = {}
    BY <1>3, <1>4, <1>7
  <2> QED
    BY <1>7, <2>2, <2>3 DEF t, h
<1> QED
  BY <1>6, <1>7

LEMMA LeadsOn ==
    ASSUME NEW q \in Seq(BoostEvent), q # <<>>, NEW b, NEW ptr, NEW v,
           Leads(q, b, ptr, v), Head(q).boost = b,
           NEW new, new = 0 <=> Head(q).type = "delete"
    PROVE  Leads(Tail(q), b, new, v)
  BY LeadsTail, Zenon

LEMMA LeadsLast ==
    ASSUME NEW q \in Seq(BoostEvent), q # <<>>, NEW b, NEW ptr, NEW v,
           Leads(q, b, ptr, v), Head(q).boost = b
    PROVE  EventsOf(Tail(q), b) = {} => After(Head(q)) = v
  BY LeadsTail, Zenon

\* The registry holds boost b as v, or does not hold it.
Holds(b, v) ==
    /\ Registered(b) <=> v # None
    /\ Registered(b) => /\ boost[regularBoosts[b]].sel = v.sel
                        /\ boost[regularBoosts[b]].pol = v.pol

\* The registry is behind the API server by exactly the events that wait.
RegistryInv ==
    /\ configurations = Cardinality({b \in Boosts : Registered(b)})
    /\ \A b \in Boosts :
         /\ Leads(boostEvents, b, regularBoosts[b], boostApi[b])
         /\ EventsOf(boostEvents, b) = {} => Holds(b, boostApi[b])

\* A step that keeps the registry keeps what it holds, the gauge, and the whole
\* invariant if no boost is written.
LEMMA KeptHolds ==
    ASSUME TypeOK, RegistryKept, NEW b \in Boosts
    PROVE  /\ Registered(b)' <=> Registered(b)
           /\ \A v : Holds(b, v) => Holds(b, v)'
<1>1. UNCHANGED regularBoosts /\ (Registered(b)' <=> Registered(b))
  BY DEF RegistryKept, Registered
<1>2. regularBoosts[b] # 0 => regularBoosts[b] \in DOMAIN boost
  BY TypeParts, LenProperties DEF RegistryOK
<1>3. regularBoosts[b] # 0 =>
         /\ boost'[regularBoosts[b]].sel = boost[regularBoosts[b]].sel
         /\ boost'[regularBoosts[b]].pol = boost[regularBoosts[b]].pol
  BY <1>2 DEF RegistryKept
<1> QED
  BY <1>1, <1>3 DEF Holds, Registered

LEMMA KeptGauge ==
    ASSUME RegistryInv, RegistryKept
    PROVE  (configurations = Cardinality({b \in Boosts : Registered(b)}))'
  BY DEF RegistryInv, RegistryKept, Registered

LEMMA KeptInv ==
    ASSUME TypeOK, RegistryInv, RegistryKept, UNCHANGED <<boostApi, boostEvents>>
    PROVE  RegistryInv'
<1>1. ASSUME NEW b \in Boosts
      PROVE  /\ Leads(boostEvents', b, regularBoosts'[b], boostApi'[b])
             /\ EventsOf(boostEvents', b) = {} => Holds(b, boostApi[b])'
  <2>1. Leads(boostEvents, b, regularBoosts[b], boostApi[b])
    BY DEF RegistryInv
  <2>2. UNCHANGED regularBoosts
    BY DEF RegistryKept
  <2>3. EventsOf(boostEvents, b) = {} => Holds(b, boostApi[b])'
    <3>1. EventsOf(boostEvents, b) = {} => Holds(b, boostApi[b])
      BY DEF RegistryInv
    <3> QED
      BY <2>2, <3>1, KeptHolds DEF Holds, Registered
  <2> QED
    BY <2>1, <2>2, <2>3
<1> QED
  BY <1>1, KeptGauge DEF RegistryInv

\* A write to the API server sends the event that describes it.
LEMMA PublishInv ==
    ASSUME TypeOK, RegistryInv, RegistryKept, NEW e \in BoostEvent,
           boostEvents' = Append(boostEvents, e),
           e.type = "create" <=> boostApi[e.boost] = None,
           boostApi'[e.boost] = After(e),
           \A b \in Boosts : b # e.boost => boostApi'[b] = boostApi[b]
    PROVE  RegistryInv'
<1>1. boostEvents \in Seq(BoostEvent) /\ e.boost \in Boosts
  BY TypeParts DEF BoostApiOK, BoostEvent
<1>2. ASSUME NEW b \in Boosts
      PROVE  /\ Leads(boostEvents', b, regularBoosts'[b], boostApi'[b])
             /\ EventsOf(boostEvents', b) = {} => Holds(b, boostApi[b])'
  <2> DEFINE v == boostApi[b]
             w == boostApi'[b]
             ptr == regularBoosts[b]
  <2>1. /\ Leads(boostEvents, b, ptr, v)
        /\ EventsOf(boostEvents, b) = {} => Holds(b, v)
    BY DEF RegistryInv
  <2>2. EventsOf(boostEvents, b) = {} => (ptr = 0 <=> v = None)
    BY <2>1 DEF Holds, Registered
  <2>3. IF e.boost = b THEN After(e) = w /\ (e.type = "create" <=> v = None) ELSE w = v
    OBVIOUS
  <2>4. UNCHANGED regularBoosts
    BY DEF RegistryKept
  <2> HIDE DEF v, w, ptr
  <2>5. /\ Leads(boostEvents', b, ptr, w)
        /\ EventsOf(boostEvents', b) = {} => EventsOf(boostEvents, b) = {} /\ w = v
    <3>1. Leads(Append(boostEvents, e), b, ptr, w)
      BY <1>1, <2>1, <2>2, <2>3, LeadsAppend
    <3>2. EventsOf(Append(boostEvents, e), b) = {} => EventsOf(boostEvents, b) = {} /\ w = v
      <4>1. EventsOf(Append(boostEvents, e), b) = {} => EventsOf(boostEvents, b) = {} /\ e.boost # b
        BY <1>1, AppendEvents
      <4> QED
        BY <2>3, <4>1
    <3> QED
      BY <3>1, <3>2
  <2>6. EventsOf(boostEvents', b) = {} => Holds(b, boostApi[b])'
    BY <2>1, <2>4, <2>5, KeptHolds DEF Holds, Registered, v, w
  <2> QED
    BY <2>4, <2>5, <2>6 DEF w, ptr
<1> QED
  BY <1>2, KeptGauge DEF RegistryInv

\* Users and the reconciler write boosts.
LEMMA EditInv ==
    ASSUME TypeOK, RegistryInv, RegistryKept, NEW b \in Boosts, EditBoost(b)
    PROVE  RegistryInv'
<1>1. /\ boostApi \in [Boosts -> BoostSpec \cup {None}]
      /\ None \notin BoostSpec /\ Specs \subseteq BoostSpec
  BY TypeParts, ClusterAssumption DEF BoostApiOK
<1>2. ASSUME NEW s \in Specs, boostApi' = [boostApi EXCEPT ![b] = s],
             boostEvents' = Append(boostEvents,
                 [type |-> IF boostApi[b] = None THEN "create" ELSE "update",
                  boost |-> b, spec |-> s])
      PROVE  RegistryInv'
  <2> DEFINE e == [type |-> IF boostApi[b] = None THEN "create" ELSE "update",
                   boost |-> b, spec |-> s]
  <2>1. /\ e \in BoostEvent /\ e.boost = b /\ After(e) = s
        /\ e.type = "create" <=> boostApi[b] = None
    BY <1>1 DEF BoostEvent, EventTypes, After
  <2>2. boostEvents' = Append(boostEvents, e)
    BY <1>2
  <2>3. boostApi'[b] = s /\ \A c \in Boosts : c # b => boostApi'[c] = boostApi[c]
    BY <1>1, <1>2
  <2> HIDE DEF e
  <2> QED
    BY <2>1, <2>2, <2>3, PublishInv
<1>3. CASE /\ boostApi[b] # None
           /\ boostApi' = [boostApi EXCEPT ![b] = None]
           /\ boostEvents' = Append(boostEvents,
                 [type |-> "delete", boost |-> b, spec |-> boostApi[b]])
  <2> DEFINE e == [type |-> "delete", boost |-> b, spec |-> boostApi[b]]
  <2>1. e \in BoostEvent /\ e.boost = b /\ After(e) = None /\ e.type # "create"
    BY <1>1, <1>3 DEF BoostEvent, EventTypes, After
  <2>2. boostEvents' = Append(boostEvents, e)
    BY <1>3
  <2>3. boostApi'[b] = None /\ \A c \in Boosts : c # b => boostApi'[c] = boostApi[c]
    BY <1>1, <1>3
  <2> HIDE DEF e
  <2> QED
    BY <1>3, <2>1, <2>2, <2>3, PublishInv
<1> QED
  BY <1>2, <1>3 DEF EditBoost

LEMMA StatusInv ==
    ASSUME TypeOK, RegistryInv, RegistryKept, NEW b \in Boosts, UpdateStatus(b)
    PROVE  RegistryInv'
<1>1. CASE UNCHANGED boostVars
  BY <1>1, KeptInv DEF boostVars
<1>2. CASE boostApi[b] # None /\ StoreStatus(b, ReconciledStatus(b))
  <2> DEFINE e == [type |-> "update", boost |-> b, spec |-> boostApi[b]]
  <2>1. boostApi[b] \in BoostSpec
    BY <1>2, TypeParts DEF BoostApiOK
  <2>2. e \in BoostEvent /\ e.boost = b /\ After(e) = boostApi[b] /\ e.type # "create"
    BY <2>1 DEF BoostEvent, EventTypes, After
  <2>3. boostEvents' = Append(boostEvents, e) /\ UNCHANGED boostApi
    BY <1>2 DEF StoreStatus
  <2> HIDE DEF e
  <2> QED
    BY <1>2, <2>2, <2>3, PublishInv
<1> QED
  BY <1>1, <1>2 DEF UpdateStatus

\* The first event that waits is handled as it asks.
LEMMA ConsumeInv ==
    ASSUME TypeOK, RegistryInv, NEW h, NEW b \in Boosts, boostEvents # <<>>,
           h = Head(boostEvents), h.boost = b,
           boostEvents' = Tail(boostEvents), UNCHANGED boostApi,
           regularBoosts'[b] = 0 <=> h.type = "delete",
           regularBoosts'[b] # 0 => /\ boost'[regularBoosts'[b]].sel = h.spec.sel
                                    /\ boost'[regularBoosts'[b]].pol = h.spec.pol,
           \A c \in Boosts : c # b =>
              /\ regularBoosts'[c] = regularBoosts[c]
              /\ regularBoosts[c] # 0 => boost'[regularBoosts[c]] = boost[regularBoosts[c]],
           configurations' = Cardinality({c \in Boosts : regularBoosts'[c] # 0})
    PROVE  RegistryInv'
<1>1. boostEvents \in Seq(BoostEvent) /\ h \in BoostEvent
  BY TypeParts, HeadTailProperties DEF BoostApiOK
<1>2. After(h) = None <=> h.type = "delete"
  BY <1>1, ClusterAssumption DEF After, BoostEvent
<1>3. ASSUME NEW c \in Boosts
      PROVE  /\ Leads(boostEvents', c, regularBoosts'[c], boostApi'[c])
             /\ EventsOf(boostEvents', c) = {} => Holds(c, boostApi[c])'
  <2>1. /\ Leads(boostEvents, c, regularBoosts[c], boostApi[c])
        /\ EventsOf(boostEvents, c) = {} => Holds(c, boostApi[c])
    BY DEF RegistryInv
  <2>2. CASE c = b
    <3>1. Leads(boostEvents, b, regularBoosts[b], boostApi[b])
      BY <2>1, <2>2
    <3>2. /\ Leads(Tail(boostEvents), b, regularBoosts'[b], boostApi[b])
          /\ EventsOf(Tail(boostEvents), b) = {} => After(h) = boostApi[b]
      <4>1. boostEvents \in Seq(BoostEvent) /\ Head(boostEvents).boost = b
        BY <1>1
      <4>2. regularBoosts'[b] = 0 <=> Head(boostEvents).type = "delete"
        OBVIOUS
      <4> DEFINE new == regularBoosts'[b]
      <4> HIDE DEF new
      <4>3. Leads(Tail(boostEvents), b, new, boostApi[b])
        BY <3>1, <4>1, <4>2, LeadsOn, Zenon DEF new
      <4>4. EventsOf(Tail(boostEvents), b) = {} => After(Head(boostEvents)) = boostApi[b]
        BY <3>1, <4>1, LeadsLast, Zenon
      <4> QED
        BY <4>3, <4>4 DEF new
    <3>3. EventsOf(boostEvents', b) = {} => Holds(b, boostApi[b])'
      BY <1>2, <3>2 DEF Holds, Registered, After
    <3> QED
      BY <2>2, <3>2, <3>3
  <2>3. CASE c # b
    <3>1. /\ Leads(Tail(boostEvents), c, regularBoosts[c], boostApi[c])
          /\ EventsOf(Tail(boostEvents), c) = {} => EventsOf(boostEvents, c) = {}
      BY <1>1, <2>1, <2>3, LeadsTail
    <3>2. EventsOf(boostEvents', c) = {} => Holds(c, boostApi[c])'
      BY <2>1, <2>3, <3>1 DEF Holds, Registered
    <3> QED
      BY <2>3, <3>1, <3>2
  <2> QED
    BY <2>2, <2>3
<1> QED
  BY <1>3 DEF RegistryInv, Registered

\* By RegistryInv a boost that is created is not registered and one that is
\* updated or deleted is, so that no handler returns early.
LEMMA BoostEventInv ==
    ASSUME TypeOK, RegistryInv, HandleBoostEvent
    PROVE  RegistryInv'
<1> DEFINE h == Head(boostEvents)
           b == h.boost
           s == h.spec
           known == {c \in Boosts : regularBoosts[c] # 0}
<1>0. h = Head(boostEvents) /\ b = h.boost /\ s = h.spec
  OBVIOUS
<1>1. /\ RegistryOK /\ boost \in Seq(StartupCPUBoost)
      /\ Len(boost) \in Nat /\ DOMAIN boost = 1..Len(boost)
  BY TypeParts, LenProperties DEF RegistryOK
<1>2. b \in Boosts /\ s \in BoostSpec
  BY BoostEventType DEF HandleBoostEvent, AddRegularCPUBoost, UpdateRegularCPUBoost,
                        DeleteRegularCPUBoost
<1>3. /\ regularBoosts \in [Boosts -> Nat]
      /\ \A c \in Boosts : regularBoosts[c] # 0 =>
            regularBoosts[c] \in 1..Len(boost) /\ boost[regularBoosts[c]].name = c
  BY <1>1 DEF RegistryOK
<1>4. /\ boostEvents # <<>> /\ boostEvents' = Tail(boostEvents) /\ UNCHANGED boostApi
  BY DEF HandleBoostEvent, AddRegularCPUBoost, UpdateRegularCPUBoost, DeleteRegularCPUBoost,
         NextBoostEvent
<1>5. h.type = "create" <=> regularBoosts[b] = 0
  <2>1. boostEvents \in Seq(BoostEvent) /\ Leads(boostEvents, b, regularBoosts[b], boostApi[b])
    BY <1>2, TypeParts DEF BoostApiOK, RegistryInv
  <2> QED
    BY <1>4, <2>1, LeadsTail
<1>6. configurations = Cardinality(known) /\ IsFiniteSet(known) /\ Cardinality(known) \in Nat
  BY ManagerAssumption, FS_Subset, FS_CardinalityType DEF RegistryInv, Registered
<1>7. CASE AddRegularCPUBoost
  <2>1. /\ h.type = "create" /\ regularBoosts[b] = 0
        /\ boost' = Append(boost, NewStartupCPUBoost(b, s))
        /\ regularBoosts' = [regularBoosts EXCEPT ![b] = Len(boost) + 1]
        /\ configurations' = configurations + 1
    BY <1>5, <1>7, Zenon DEF AddRegularCPUBoost, NextBoostEvent
  <2>2. /\ NewStartupCPUBoost(b, s) \in StartupCPUBoost
        /\ NewStartupCPUBoost(b, s).sel = s.sel /\ NewStartupCPUBoost(b, s).pol = s.pol
    BY <1>2, Zenon DEF NewStartupCPUBoost, StartupCPUBoost, BoostSpec
  <2>3. /\ \A k \in 1..Len(boost) : boost'[k] = boost[k]
        /\ boost'[Len(boost) + 1].sel = s.sel /\ boost'[Len(boost) + 1].pol = s.pol
    <3> DEFINE x == NewStartupCPUBoost(b, s)
    <3>1. boost' = Append(boost, x) /\ x \in StartupCPUBoost /\ x.sel = s.sel /\ x.pol = s.pol
      BY <2>1, <2>2
    <3> HIDE DEF x
    <3>2. /\ \A k \in 1..Len(boost) : Append(boost, x)[k] = boost[k]
          /\ Append(boost, x)[Len(boost) + 1] = x
      BY <1>1, <3>1, AppendElements, Zenon
    <3> QED
      BY <3>1, <3>2, Zenon
  <2>4. /\ regularBoosts'[b] = Len(boost) + 1 /\ regularBoosts'[b] # 0
        /\ \A c \in Boosts : c # b => regularBoosts'[c] = regularBoosts[c]
    <3>1. /\ regularBoosts'[b] = Len(boost) + 1
          /\ \A c \in Boosts : c # b => regularBoosts'[c] = regularBoosts[c]
      BY <1>2, <1>3, <2>1, Zenon
    <3>2. Len(boost) \in Nat
      BY <1>1
    <3> QED
      BY <3>1, <3>2
  <2>5. configurations' = Cardinality({c \in Boosts : regularBoosts'[c] # 0})
    <3>1. {c \in Boosts : regularBoosts'[c] # 0} = known \cup {b} /\ b \notin known
      BY <1>2, <2>1, <2>4
    <3> HIDE DEF known
    <3>2. Cardinality(known \cup {b}) = Cardinality(known) + 1
      BY <1>6, <3>1, FS_AddElement
    <3> QED
      BY <1>6, <2>1, <3>1, <3>2
  <2>6. /\ regularBoosts'[b] = 0 <=> h.type = "delete"
        /\ regularBoosts'[b] # 0 => /\ boost'[regularBoosts'[b]].sel = h.spec.sel
                                    /\ boost'[regularBoosts'[b]].pol = h.spec.pol
    BY <1>0, <2>1, <2>3, <2>4, Zenon
  <2>7. \A c \in Boosts : c # b =>
           /\ regularBoosts'[c] = regularBoosts[c]
           /\ regularBoosts[c] # 0 => boost'[regularBoosts[c]] = boost[regularBoosts[c]]
    BY <1>3, <2>3, <2>4, Zenon
  <2> HIDE DEF known, h, b, s
  <2> QED
    BY <1>0, <1>2, <1>4, <2>5, <2>6, <2>7, ConsumeInv, Zenon
<1>8. CASE UpdateRegularCPUBoost
  <2> DEFINE i == regularBoosts[b]
  <2>1. /\ h.type = "update" /\ i # 0
        /\ boost' = [boost EXCEPT ![i].sel = s.sel, ![i].pol = s.pol]
        /\ UNCHANGED <<regularBoosts, configurations>>
    BY <1>5, <1>8, Zenon DEF UpdateRegularCPUBoost, NextBoostEvent
  <2>2. i \in DOMAIN boost /\ boost[i] \in StartupCPUBoost
    BY <1>1, <1>2, <1>3, <2>1, ElementOfSeq
  <2>3. /\ boost'[i].sel = s.sel /\ boost'[i].pol = s.pol
        /\ \A k \in DOMAIN boost : k # i => boost'[k] = boost[k]
    BY <1>1, <2>1, <2>2, Zenon DEF StartupCPUBoost
  <2>4. \A c \in Boosts : c # b /\ regularBoosts[c] # 0 =>
           boost'[regularBoosts[c]] = boost[regularBoosts[c]]
    <3>1. \A c \in Boosts : c # b /\ regularBoosts[c] # 0 =>
             regularBoosts[c] # i /\ regularBoosts[c] \in DOMAIN boost
      BY <1>1, <1>2, <1>3, <2>1
    <3> QED
      BY <2>3, <3>1
  <2>5. configurations' = Cardinality({c \in Boosts : regularBoosts'[c] # 0})
    BY <1>6, <2>1
  <2>6. /\ regularBoosts'[b] = 0 <=> h.type = "delete"
        /\ regularBoosts'[b] # 0 => /\ boost'[regularBoosts'[b]].sel = h.spec.sel
                                    /\ boost'[regularBoosts'[b]].pol = h.spec.pol
    BY <1>0, <2>1, <2>3, Zenon
  <2>7. \A c \in Boosts : c # b =>
           /\ regularBoosts'[c] = regularBoosts[c]
           /\ regularBoosts[c] # 0 => boost'[regularBoosts[c]] = boost[regularBoosts[c]]
    BY <2>1, <2>4, Zenon
  <2> HIDE DEF known, h, b, s
  <2> QED
    BY <1>0, <1>2, <1>4, <2>5, <2>6, <2>7, ConsumeInv, Zenon
<1>9. CASE DeleteRegularCPUBoost
  <2>1. /\ h.type = "delete" /\ regularBoosts' = [regularBoosts EXCEPT ![b] = 0]
        /\ configurations' = configurations - 1 /\ UNCHANGED boost
    BY <1>9 DEF DeleteRegularCPUBoost, NextBoostEvent
  <2>2. regularBoosts'[b] = 0 /\ \A c \in Boosts : c # b => regularBoosts'[c] = regularBoosts[c]
    BY <1>2, <1>3, <2>1
  <2>3. configurations' = Cardinality({c \in Boosts : regularBoosts'[c] # 0})
    <3>1. {c \in Boosts : regularBoosts'[c] # 0} = known \ {b} /\ b \in known
      BY <1>2, <1>5, <2>1, <2>2
    <3> QED
      BY <1>6, <2>1, <3>1, FS_RemoveElement
  <2>4. regularBoosts'[b] = 0 <=> h.type = "delete"
    BY <2>1, <2>2, Zenon
  <2>5. regularBoosts'[b] # 0 => /\ boost'[regularBoosts'[b]].sel = h.spec.sel
                                 /\ boost'[regularBoosts'[b]].pol = h.spec.pol
    BY <2>2, Zenon
  <2>6. \A c \in Boosts : c # b =>
           /\ regularBoosts'[c] = regularBoosts[c]
           /\ regularBoosts[c] # 0 => boost'[regularBoosts[c]] = boost[regularBoosts[c]]
    BY <2>1, <2>2, Zenon
  <2> HIDE DEF known, h, b, s
  <2> QED
    BY <1>0, <1>2, <1>4, <2>3, <2>4, <2>5, <2>6, ConsumeInv, Zenon
<1> QED
  BY <1>7, <1>8, <1>9 DEF HandleBoostEvent

\* After a restart every boost that exists is created once.
LEMMA RestartInv ==
    ASSUME TypeOK, Restart
    PROVE  RegistryInv'
<1> DEFINE existing == {b \in Boosts : boostApi[b] # None}
           n == Cardinality(existing)
<1>1. PICK g \in [1..n -> existing] :
         /\ {g[k] : k \in DOMAIN g} = existing
         /\ boostEvents' = [k \in DOMAIN g |->
               [type |-> "create", boost |-> g[k], spec |-> boostApi[g[k]]]]
  BY Zenon DEF Restart
<1>2. /\ regularBoosts' = [b \in Boosts |-> 0] /\ configurations' = 0 /\ UNCHANGED boostApi
  BY Zenon DEF Restart
<1>3. n \in Nat /\ IsFiniteSet(existing)
  BY ManagerAssumption, FS_Subset, FS_CardinalityType
<1> HIDE DEF n
<1>4. \A j, k \in 1..n : g[j] = g[k] => j = k
  <2>1. g \in Surjection(1..n, existing)
    BY <1>1 DEF Surjection
  <2>2. IsFiniteSet(1..n) /\ Cardinality(1..n) = Cardinality(existing)
    BY <1>3, FS_Interval DEF n
  <2>3. g \in Injection(1..n, existing)
    BY <2>1, <2>2, FS_SurjSameCardinalityImpliesInj
  <2> QED
    BY <2>3, Zenon DEF Injection, IsInjective
<1> DEFINE q == boostEvents'
<1>5. /\ DOMAIN q = 1..n
      /\ \A k \in 1..n : q[k].type = "create" /\ q[k].boost = g[k] /\ q[k].spec = boostApi[g[k]]
  BY <1>1
<1> HIDE DEF q
<1>6. ASSUME NEW b \in Boosts
      PROVE  /\ Leads(q, b, regularBoosts'[b], boostApi'[b])
             /\ EventsOf(q, b) = {} => Holds(b, boostApi[b])'
  <2>1. regularBoosts'[b] = 0 /\ EventsOf(q, b) \subseteq 1..n
    BY <1>2, <1>5 DEF EventsOf
  <2>2. \A j, k \in EventsOf(q, b) : j = k
    BY <1>4, <1>5 DEF EventsOf
  <2>3. \A k \in EventsOf(q, b) : q[k].type = "create" /\ After(q[k]) = boostApi[b] /\ k \in Nat
    BY <1>5, <2>1 DEF EventsOf, After
  <2>4. Leads(q, b, regularBoosts'[b], boostApi'[b])
    BY <1>2, <2>1, <2>2, <2>3 DEF Leads
  <2>5. EventsOf(q, b) = {} => boostApi[b] = None
    BY <1>1, <1>5 DEF EventsOf
  <2>6. EventsOf(q, b) = {} => Holds(b, boostApi[b])'
    BY <1>2, <2>1, <2>5 DEF Holds, Registered
  <2> QED
    BY <2>4, <2>6
<1>7. {b \in Boosts : regularBoosts'[b] # 0} = {}
  BY <1>2
<1> QED
  BY <1>2, <1>6, <1>7, FS_EmptySet DEF RegistryInv, Registered, q

\* Each step keeps the invariant.
LEMMA NextInv ==
    ASSUME TypeOK, RegistryInv, [Next]_vars
    PROVE  RegistryInv'
<1>1. CASE HandlePodEvent
  <2>1. UNCHANGED <<boostApi, boostEvents>>
    BY <1>1, Zenon DEF HandlePodEvent, IgnorePodEvent, UpsertPod, DeletePod, NextPodEvent, boostVars
  <2>2. RegistryKept
    BY <1>1, PodEventKeeps
  <2> QED
    BY <2>1, <2>2, KeptInv
<1>2. CASE HandlerLoop
  <2>1. UNCHANGED <<boostApi, boostEvents>>
    BY <1>2 DEF HandlerLoop, MapOrphanedPod, ListBoostPods, SyncBoostPod, HandlerReturn,
                HandlerStep, boostVars
  <2>2. RegistryKept
    BY <1>2, HandlerLoopKeeps
  <2> QED
    BY <2>1, <2>2, KeptInv
<1>3. CASE \E r \in reverts : RevertStep(r)
  <2>1. UNCHANGED boostVars
    <3>1. PICK r \in reverts : RevertStep(r)
      BY <1>3
    <3>2. RevertResources(r) => UNCHANGED boostVars
      BY Zenon DEF RevertResources, Request
    <3>3. RevertLabels(r) => UNCHANGED boostVars
      BY Zenon DEF RevertLabels, Request
    <3>4. RevertLegacy(r) => UNCHANGED boostVars
      BY Zenon DEF RevertLegacy, Request
    <3> QED
      BY <3>1, <3>2, <3>3, <3>4 DEF RevertStep
  <2>2. RegistryKept
    BY <1>3, RevertKeeps
  <2> QED
    BY <2>1, <2>2, KeptInv DEF boostVars
<1>4. ASSUME UNCHANGED <<boost, regularBoosts, timedBoosts, configurations>>
      PROVE  RegistryKept
  BY <1>4 DEF RegistryKept
<1>5. CASE TickAction
  <2>1. RegistryKept
    BY <1>4, <1>5 DEF TickAction, StartTick, EndTick, ValidatePolicy, ReconcileAfterTick, TickStep
  <2>2. UNCHANGED <<boostApi, boostEvents>> \/ \E b \in Boosts : UpdateStatus(b)
    BY <1>5, Zenon DEF TickAction, StartTick, EndTick, ValidatePolicy, ReconcileAfterTick, boostVars
  <2> QED
    BY <2>1, <2>2, KeptInv, StatusInv
<1>6. CASE \E b \in Boosts : Reconcile(b)
  <2>1. RegistryKept
    BY <1>4, <1>6 DEF Reconcile
  <2> QED
    BY <1>6, <2>1, StatusInv DEF Reconcile
<1>7. CASE (\E p \in Pods : AdmitPod(p)) \/ ClusterStep \/ Receive \/ UNCHANGED vars
  <2>1. RegistryKept
    BY <1>4, <1>7 DEF AdmitPod, ClusterStep, Receive, vars, managerVars
  <2>2. UNCHANGED <<boostApi, boostEvents>> \/ \E b \in Boosts : EditBoost(b)
    BY <1>7 DEF AdmitPod, StoreNewPod, ClusterStep, SetPodCondition, TouchPod, RemovePod,
                DurationElapses, Receive, InformerReceive, vars, boostVars
  <2> QED
    BY <2>1, <2>2, KeptInv, EditInv
<1> QED
  BY <1>1, <1>2, <1>3, <1>5, <1>6, <1>7, BoostEventInv, RestartInv DEF Next
=============================================================================
