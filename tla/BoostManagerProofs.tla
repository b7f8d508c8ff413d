------------------------- MODULE BoostManagerProofs -------------------------
(***************************************************************************)
(* What holds of the boost manager for any number of pods and boosts, any  *)
(* specifications, faults and bounds: no pointer dangles (TypeOK), the     *)
(* time check covers exactly the registered boosts with a fixed duration   *)
(* (TimedBoostsRegistered), the registry follows the boosts that exist     *)
(* (RegistryAgrees), a boost takes over the orphans that it selects        *)
(* (OrphansUnmatched), the status follows the statistics (StatusReported), *)
(* in legacy mode no pod loses its label before its resources are restored *)
(* (UnlabelledPodsRestored), and no pod is restored early (NoEarlyRevert), *)
(* the last as far as the requests tell a pod from its successor.          *)
(***************************************************************************)
EXTENDS BoostManagerSteps, BoostReverts

\* What the handler of a boost event does to the boosts that are registered:
\* it leaves all but its own alone, and does nothing, or deletes its own, or
\* sets its selector and policies and starts the loops for it.
LEMMA BoostEventEffect ==
    ASSUME TypeOK, HandleBoostEvent, NEW b, NEW s,
           b = Head(boostEvents).boost, s = Head(boostEvents).spec
    PROVE  /\ b \in Boosts /\ s \in BoostSpec
           /\ \A c \in Boosts : c # b =>
                /\ regularBoosts'[c] = regularBoosts[c]
                /\ regularBoosts[c] # 0 => boost'[regularBoosts[c]] = boost[regularBoosts[c]]
           /\ \/ UNCHANGED <<boost, regularBoosts, handler>>
              \/ regularBoosts'[b] = 0 /\ UNCHANGED <<boost, handler>>
              \/ /\ regularBoosts'[b] # 0 /\ boost'[regularBoosts'[b]].name = b
                 /\ boost'[regularBoosts'[b]].sel = s.sel /\ boost'[regularBoosts'[b]].pol = s.pol
                 /\ handler' = [op |-> "orphans", boost |-> regularBoosts'[b], list |-> {},
                                orphans |-> {p \in s.sel : orphanedPods[p] # 0}]
<1> DEFINE i == regularBoosts[b]
           n == Len(boost) + 1
           x == NewStartupCPUBoost(b, s)
<1>1. /\ RegistryOK /\ boost \in Seq(StartupCPUBoost)
      /\ Len(boost) \in Nat /\ DOMAIN boost = 1..Len(boost)
  BY TypeParts, LenProperties DEF RegistryOK
<1>2. b \in Boosts /\ s \in BoostSpec
  BY BoostEventType DEF HandleBoostEvent, AddRegularCPUBoost, UpdateRegularCPUBoost,
                        DeleteRegularCPUBoost
<1>3. /\ regularBoosts \in [Boosts -> Nat]
      /\ \A c \in Boosts : regularBoosts[c] # 0 =>
            regularBoosts[c] \in 1..Len(boost) /\ boost[regularBoosts[c]].name = c
  BY <1>1 DEF RegistryOK
<1>4. CASE UNCHANGED <<boost, regularBoosts, handler>>
  BY <1>2, <1>4
<1>5. CASE AddRegularCPUBoost /\ i = 0
  <2>1. /\ boost' = Append(boost, x) /\ regularBoosts' = [regularBoosts EXCEPT ![b] = n]
        /\ PostProcessNewBoost(n, b, s)
    BY <1>5, Zenon DEF AddRegularCPUBoost
  <2>2. x \in StartupCPUBoost /\ x.name = b /\ x.sel = s.sel /\ x.pol = s.pol
    BY <1>2, Zenon DEF NewStartupCPUBoost, StartupCPUBoost, BoostSpec
  <2> HIDE DEF x
  <2>3. (\A k \in 1..Len(boost) : boost'[k] = boost[k]) /\ boost'[n] = x
    <3>1. /\ \A k \in 1..Len(boost) : Append(boost, x)[k] = boost[k]
          /\ Append(boost, x)[Len(boost) + 1] = x
      BY <1>1, <2>2, AppendElements, Zenon
    <3> QED
      BY <2>1, <3>1, Zenon
  <2>4. n # 0
    BY <1>1
  <2>5. regularBoosts'[b] = n /\ \A c \in Boosts : c # b => regularBoosts'[c] = regularBoosts[c]
    BY <1>2, <1>3, <2>1, Zenon
  <2>6. handler' = [op |-> "orphans", boost |-> n, list |-> {},
                    orphans |-> {p \in s.sel : orphanedPods[p] # 0}]
    BY <2>1 DEF PostProcessNewBoost
  <2> HIDE DEF n
  <2> QED
    BY <1>2, <1>3, <2>2, <2>3, <2>4, <2>5, <2>6, Zenon
<1>6. CASE UpdateRegularCPUBoost /\ i # 0
  <2>1. /\ boost' = [boost EXCEPT ![i].sel = s.sel, ![i].pol = s.pol] /\ UNCHANGED regularBoosts
        /\ PostProcessNewBoost(i, b, s)
    BY <1>6, Zenon DEF UpdateRegularCPUBoost
  <2>2. i \in DOMAIN boost /\ boost[i] \in StartupCPUBoost /\ boost[i].name = b
    BY <1>1, <1>2, <1>3, <1>6, ElementOfSeq
  <2>3. /\ boost'[i].sel = s.sel /\ boost'[i].pol = s.pol /\ boost'[i].name = b
        /\ \A k \in DOMAIN boost : k # i => boost'[k] = boost[k]
    BY <1>1, <2>1, <2>2, Zenon DEF StartupCPUBoost
  <2>4. ASSUME NEW c \in Boosts, c # b, regularBoosts[c] # 0
        PROVE  regularBoosts[c] # i /\ regularBoosts[c] \in DOMAIN boost
    BY <1>1, <1>3, <2>2, <2>4, Zenon
  <2>5. handler' = [op |-> "orphans", boost |-> i, list |-> {},
                    orphans |-> {p \in s.sel : orphanedPods[p] # 0}]
    BY <2>1 DEF PostProcessNewBoost
  <2>6. regularBoosts'[b] = i
    BY <2>1
  <2> HIDE DEF i
  <2> QED
    BY <1>2, <1>6, <2>1, <2>3, <2>4, <2>5, <2>6, Zenon
<1>7. CASE DeleteRegularCPUBoost
  <2>1. regularBoosts' = [regularBoosts EXCEPT ![b] = 0] /\ UNCHANGED <<boost, handler>>
    BY <1>7, Zenon DEF DeleteRegularCPUBoost
  <2>2. regularBoosts'[b] = 0 /\ \A c \in Boosts : c # b => regularBoosts'[c] = regularBoosts[c]
    BY <1>2, <1>3, <2>1, Zenon
  <2> QED
    BY <1>2, <2>1, <2>2, Zenon
<1>8. CASE AddRegularCPUBoost /\ i # 0
  BY <1>4, <1>8, Zenon DEF AddRegularCPUBoost
<1>9. CASE UpdateRegularCPUBoost /\ i = 0
  BY <1>4, <1>9, Zenon DEF UpdateRegularCPUBoost
<1> QED
  BY <1>5, <1>6, <1>7, <1>8, <1>9, Zenon DEF HandleBoostEvent

-----------------------------------------------------------------------------
\* OrphansUnmatched.  While the handler maps the orphans of a boost, those it
\* has yet to come to are still orphaned.
OrphansInv ==
    \A p \in Pods, b \in Boosts :
        orphanedPods[p] # 0 /\ Registered(b) /\ p \in boost[regularBoosts[b]].sel
          => \/ "PodCondition" \in boost[regularBoosts[b]].pol
             \/ p \in handler.orphans /\ handler.boost = regularBoosts[b]

\* No pod is orphaned, and the handler leaves no orphan of its boost to itself.
LEMMA OrphansKept ==
    ASSUME TypeOK, OrphansInv, RegistryKept,
           \A p \in Pods : orphanedPods'[p] # 0 => orphanedPods[p] # 0,
           \A p \in handler.orphans :
              \/ p \in handler'.orphans /\ handler'.boost = handler.boost
              \/ orphanedPods'[p] = 0
              \/ "PodCondition" \in boost[handler.boost].pol
    PROVE  OrphansInv'
<1> SUFFICES ASSUME NEW p \in Pods, NEW b \in Boosts, orphanedPods'[p] # 0, regularBoosts'[b] # 0,
                    p \in boost'[regularBoosts'[b]].sel
             PROVE  \/ "PodCondition" \in boost'[regularBoosts'[b]].pol
                    \/ p \in handler'.orphans /\ handler'.boost = regularBoosts'[b]
  BY DEF OrphansInv, Registered
<1> DEFINE i == regularBoosts[b]
<1>1. UNCHANGED regularBoosts /\ i # 0
  BY DEF RegistryKept
<1>2. i \in DOMAIN boost
  BY <1>1, TypeParts, LenProperties DEF RegistryOK
<1>3. boost'[i].sel = boost[i].sel /\ boost'[i].pol = boost[i].pol
  BY <1>2 DEF RegistryKept
<1>4. \/ "PodCondition" \in boost[i].pol
      \/ p \in handler.orphans /\ handler.boost = i
  BY <1>1, <1>3, Zenon DEF OrphansInv, Registered
<1> QED
  BY <1>1, <1>3, <1>4, Zenon

LEMMA OrphansPodEvent ==
    ASSUME TypeOK, OrphansInv, HandlePodEvent
    PROVE  OrphansInv'
<1> DEFINE e == Head(podEvents)
           q == mem[e.new].pod
<1>1. q \in Pods /\ handler = Idle /\ orphanedPods \in [Pods -> Nat]
  <2>1. NextPodEvent
    BY DEF HandlePodEvent, IgnorePodEvent, UpsertPod, DeletePod
  <2> QED
    BY <2>1, PodEventType, TypeParts DEF NextPodEvent, HandlerFree, ThreadsOK, HeapOK
<1>2. RegistryKept
  BY PodEventKeeps
<1>3. handler.orphans = {}
  BY <1>1 DEF Idle
<1>4. CASE UNCHANGED orphanedPods \/ orphanedPods' = [orphanedPods EXCEPT ![q] = 0]
  <2>1. \A p \in Pods : orphanedPods'[p] # 0 => orphanedPods[p] # 0
    BY <1>1, <1>4
  <2> QED
    BY <1>2, <1>3, <2>1, OrphansKept
<1>5. CASE MatchingBoosts(q) = {} /\ orphanedPods' = [orphanedPods EXCEPT ![q] = e.new]
  <2> SUFFICES ASSUME NEW p \in Pods, NEW b \in Boosts, orphanedPods'[p] # 0, regularBoosts'[b] # 0,
                      p \in boost'[regularBoosts'[b]].sel
               PROVE  "PodCondition" \in boost'[regularBoosts'[b]].pol
    BY DEF OrphansInv, Registered
  <2>1. UNCHANGED regularBoosts /\ regularBoosts[b] # 0
    BY <1>2 DEF RegistryKept
  <2>2. regularBoosts[b] \in DOMAIN boost
    BY <2>1, TypeParts, LenProperties DEF RegistryOK
  <2>3. /\ boost'[regularBoosts[b]].sel = boost[regularBoosts[b]].sel
        /\ boost'[regularBoosts[b]].pol = boost[regularBoosts[b]].pol
    BY <1>2, <2>2 DEF RegistryKept
  <2>4. CASE p = q
    <3>1. regularBoosts[b] \in MatchingBoosts(q)
      BY <2>1, <2>3, <2>4, Zenon DEF MatchingBoosts
    <3> QED
      BY <1>5, <3>1
  <2>5. CASE p # q
    <3>1. orphanedPods[p] # 0
      BY <1>1, <1>5, <2>5
    <3> QED
      BY <1>3, <2>1, <2>3, <3>1, Zenon DEF OrphansInv, Registered
  <2> QED
    BY <2>4, <2>5
<1>6. CASE UpsertPod
  BY <1>4, <1>5, <1>6, Zenon DEF UpsertPod
<1>7. CASE IgnorePodEvent \/ DeletePod
  BY <1>4, <1>7, Zenon DEF IgnorePodEvent, DeletePod
<1> QED
  BY <1>6, <1>7 DEF HandlePodEvent

LEMMA OrphansBoostEvent ==
    ASSUME TypeOK, OrphansInv, HandleBoostEvent
    PROVE  OrphansInv'
<1>1. PICK b, s : b = Head(boostEvents).boost /\ s = Head(boostEvents).spec
  OBVIOUS
<1>2. /\ b \in Boosts /\ s \in BoostSpec
      /\ \A c \in Boosts : c # b =>
           /\ regularBoosts'[c] = regularBoosts[c]
           /\ regularBoosts[c] # 0 => boost'[regularBoosts[c]] = boost[regularBoosts[c]]
  BY <1>1, BoostEventEffect, Zenon
<1>3. UNCHANGED orphanedPods /\ handler.orphans = {}
  BY TypeParts DEF HandleBoostEvent, AddRegularCPUBoost, UpdateRegularCPUBoost,
      DeleteRegularCPUBoost, NextBoostEvent, HandlerFree, ThreadsOK, Idle
<1> SUFFICES ASSUME NEW p \in Pods, NEW c \in Boosts, orphanedPods[p] # 0, regularBoosts'[c] # 0,
                    p \in boost'[regularBoosts'[c]].sel
             PROVE  \/ "PodCondition" \in boost'[regularBoosts'[c]].pol
                    \/ p \in handler'.orphans /\ handler'.boost = regularBoosts'[c]
  BY <1>3 DEF OrphansInv, Registered
<1>4. ASSUME regularBoosts'[c] = regularBoosts[c], boost'[regularBoosts[c]] = boost[regularBoosts[c]]
      PROVE  "PodCondition" \in boost'[regularBoosts'[c]].pol
  BY <1>3, <1>4, Zenon DEF OrphansInv, Registered
<1>5. CASE c # b
  BY <1>2, <1>4, <1>5, Zenon
<1>6. CASE c = b
  <2>1. CASE UNCHANGED <<boost, regularBoosts, handler>>
    BY <1>4, <2>1
  <2>2. CASE /\ boost'[regularBoosts'[b]].sel = s.sel
             /\ handler' = [op |-> "orphans", boost |-> regularBoosts'[b], list |-> {},
                            orphans |-> {k \in s.sel : orphanedPods[k] # 0}]
    <3>1. /\ handler'.boost = regularBoosts'[b]
          /\ handler'.orphans = {k \in s.sel : orphanedPods[k] # 0}
      BY <2>2
    <3> QED
      BY <1>6, <2>2, <3>1, Zenon
  <2>3. \/ UNCHANGED <<boost, regularBoosts, handler>>
        \/ regularBoosts'[b] = 0
        \/ /\ boost'[regularBoosts'[b]].sel = s.sel
           /\ handler' = [op |-> "orphans", boost |-> regularBoosts'[b], list |-> {},
                          orphans |-> {k \in s.sel : orphanedPods[k] # 0}]
    BY <1>1, BoostEventEffect
  <2> QED
    BY <1>6, <2>1, <2>2, <2>3, Zenon
<1> QED
  BY <1>5, <1>6

LEMMA OrphansHandlerLoop ==
    ASSUME TypeOK, OrphansInv, HandlerLoop
    PROVE  OrphansInv'
<1>1. RegistryKept
  BY HandlerLoopKeeps
<1>2. handler \in Handler /\ orphanedPods \in [Pods -> Nat]
  BY TypeParts DEF ThreadsOK, HeapOK
<1>3. CASE /\ UNCHANGED orphanedPods
           /\ \/ handler.orphans = {}
              \/ handler'.orphans = handler.orphans /\ handler'.boost = handler.boost
  BY <1>1, <1>3, OrphansKept
<1>4. ASSUME NEW q \in Pods, MapOrphanedPod(q)
      PROVE  OrphansInv'
  <2>1. handler' = [handler EXCEPT !.orphans = @ \ {q}]
    BY <1>4 DEF MapOrphanedPod
  <2>2. handler'.orphans = handler.orphans \ {q} /\ handler'.boost = handler.boost
    BY <1>2, <2>1 DEF Handler
  <2>3. CASE orphanedPods' = [orphanedPods EXCEPT ![q] = 0]
    <3>1. \A p \in Pods : orphanedPods'[p] # 0 => orphanedPods[p] # 0 /\ p # q
      BY <1>2, <2>3
    <3>2. \A p \in handler.orphans : p \in handler'.orphans \/ orphanedPods'[p] = 0
      BY <1>2, <2>2, <2>3 DEF Handler
    <3> QED
      BY <1>1, <2>2, <3>1, <3>2, OrphansKept
  <2>4. CASE UNCHANGED orphanedPods /\ "PodCondition" \in boost[handler.boost].pol
    BY <1>1, <2>4, OrphansKept
  <2> QED
    BY <1>4, <2>3, <2>4, Zenon DEF MapOrphanedPod, ConditionMet
<1>5. CASE ListBoostPods
  BY <1>3, <1>5 DEF ListBoostPods
<1>6. ASSUME NEW obj \in handler.list, SyncBoostPod(obj)
      PROVE  OrphansInv'
  <2>1. handler' = [handler EXCEPT !.list = @ \ {obj}] /\ UNCHANGED orphanedPods
    BY <1>6, Zenon DEF SyncBoostPod
  <2> QED
    BY <1>2, <1>3, <2>1 DEF Handler
<1>7. CASE HandlerReturn
  <2>1. handler.op = "sync" /\ UNCHANGED orphanedPods
    BY <1>7 DEF HandlerReturn, HandlerStep
  <2>2. handler.orphans = {}
    BY <2>1, TypeParts DEF ThreadsOK
  <2> QED
    BY <1>1, <2>1, <2>2, OrphansKept
<1> QED
  BY <1>4, <1>5, <1>6, <1>7 DEF HandlerLoop

LEMMA OrphansRevert ==
    ASSUME TypeOK, OrphansInv, NEW r \in reverts, RevertStep(r)
    PROVE  OrphansInv'
<1> DEFINE q == mem[r.ptr].pod
<1>1. RegistryKept
  BY RevertKeeps
<1>2. q \in Pods /\ orphanedPods \in [Pods -> Nat]
  BY RevertTarget, TypeParts DEF HeapOK
<1>3. \/ UNCHANGED orphanedPods
      \/ orphanedPods' = [orphanedPods EXCEPT ![q] = 0]
  BY Zenon DEF RevertStep, RevertResources, RevertLabels, RevertLegacy, EndRevert
<1>4. UNCHANGED handler \/ handler.op = "pod"
  BY Zenon DEF RevertStep, RevertResources, RevertLabels, RevertLegacy, EndRevert
<1>5. UNCHANGED handler \/ handler.orphans = {}
  BY <1>4, TypeParts DEF ThreadsOK
<1> HIDE DEF q
<1>6. \A p \in Pods : orphanedPods'[p] # 0 => orphanedPods[p] # 0
  BY <1>2, <1>3
<1> QED
  BY <1>1, <1>5, <1>6, OrphansKept

LEMMA OrphansNext ==
    ASSUME TypeOK, OrphansInv, [Next]_vars
    PROVE  OrphansInv'
<1>1. CASE UNCHANGED <<boost, regularBoosts, timedBoosts, configurations, orphanedPods, handler>>
  <2>1. RegistryKept
    BY <1>1 DEF RegistryKept
  <2> QED
    BY <1>1, <2>1, OrphansKept
<1>2. CASE TickAction
  BY <1>1, <1>2 DEF TickAction, StartTick, EndTick, ValidatePolicy, ReconcileAfterTick, TickStep
<1>3. CASE \E b \in Boosts : Reconcile(b)
  BY <1>1, <1>3 DEF Reconcile
<1>4. CASE (\E p \in Pods : AdmitPod(p)) \/ ClusterStep \/ Receive \/ UNCHANGED vars
  BY <1>1, <1>4 DEF AdmitPod, ClusterStep, Receive, vars, managerVars
<1>5. CASE Restart
  <2>1. orphanedPods' = [p \in Pods |-> 0]
    BY <1>5, Zenon DEF Restart
  <2> QED
    BY <2>1 DEF OrphansInv
<1>6. CASE \E r \in reverts : RevertStep(r)
  BY <1>6, OrphansRevert, Zenon
<1> QED
  BY <1>2, <1>3, <1>4, <1>5, <1>6, OrphansPodEvent, OrphansBoostEvent, OrphansHandlerLoop DEF Next

-----------------------------------------------------------------------------
\* StatusReported.  The status of a boost is what Reconcile would make it, or
\* something is left that leads to a reconcile.
Reported(b) ==
    \/ ReconciledStatus(b) = status[b]
    \/ b \in queue
    \/ EventsOf(boostEvents, b) # {}
    \/ tick.on /\ b \in tick.done
    \/ statusWrites >= MaxStatusWrites
    \/ Registered(b) /\ "PodCondition" \in boost[regularBoosts[b]].pol

\* The boost that the handler's loops work for is in the queue, which no one
\* takes from meanwhile; the handler reverts pods of that boost, and workers
\* revert pods only during a time check.
LoopsQueued ==
    /\ handler.op \in {"orphans", "sync"} => boost[handler.boost].name \in queue
    /\ \A r \in reverts : IF r.by = "worker" THEN tick.on ELSE r.boost = handler.boost

StatusLed == LoopsQueued /\ \A b \in Boosts : boostApi[b] # None => Reported(b)

\* Nothing that leads to a reconcile of b is dropped, and if the statistics of
\* b change, something does.
LEMMA ReportedKept ==
    ASSUME TypeOK, NEW b \in Boosts, Reported(b), RegistryKept,
           status'[b] = status[b], b \in queue => b \in queue',
           EventsOf(boostEvents, b) # {} => EventsOf(boostEvents', b) # {},
           tick.on /\ b \in tick.done => tick'.on /\ b \in tick'.done,
           statusWrites' = statusWrites \/ statusWrites' = statusWrites + 1,
           \/ regularBoosts[b] = 0
           \/ /\ boost'[regularBoosts[b]].active = boost[regularBoosts[b]].active
              /\ boost'[regularBoosts[b]].total = boost[regularBoosts[b]].total
           \/ b \in queue'
           \/ tick'.on /\ b \in tick'.done
           \/ "PodCondition" \in boost[regularBoosts[b]].pol
    PROVE  Reported(b)'
<1>1. UNCHANGED regularBoosts
  BY DEF RegistryKept
<1>2. regularBoosts[b] # 0 => boost'[regularBoosts[b]].pol = boost[regularBoosts[b]].pol
  <2>1. regularBoosts[b] # 0 => regularBoosts[b] \in DOMAIN boost
    BY TypeParts, LenProperties DEF RegistryOK
  <2> QED
    BY <2>1 DEF RegistryKept
<1>3. statusWrites >= MaxStatusWrites => statusWrites' >= MaxStatusWrites
  BY TypeParts, ManagerAssumption DEF CountersOK
<1>4. CASE \/ b \in queue \/ b \in queue'
           \/ EventsOf(boostEvents, b) # {}
           \/ tick.on /\ b \in tick.done
           \/ tick'.on /\ b \in tick'.done
           \/ statusWrites >= MaxStatusWrites
  BY <1>3, <1>4, Zenon DEF Reported
<1>5. CASE regularBoosts[b] # 0 /\ "PodCondition" \in boost[regularBoosts[b]].pol
  BY <1>1, <1>2, <1>5, Zenon DEF Reported, Registered
<1>6. CASE /\ ReconciledStatus(b) = status[b]
           /\ \/ regularBoosts[b] = 0
              \/ /\ boost'[regularBoosts[b]].active = boost[regularBoosts[b]].active
                 /\ boost'[regularBoosts[b]].total = boost[regularBoosts[b]].total
  <2>1. ReconciledStatus(b)' = status'[b]
    BY <1>1, <1>6 DEF ReconciledStatus
  <2> QED
    BY <2>1 DEF Reported
<1> QED
  BY <1>4, <1>5, <1>6, Zenon DEF Reported, Registered

\* One object of the heap of boosts is replaced.  If it is registered as b,
\* something leads to a reconcile of b.
LEMMA ReportedReplaced ==
    ASSUME TypeOK, NEW b \in Boosts, Reported(b), RegistryKept,
           UNCHANGED <<status, boostEvents, statusWrites>>, queue \subseteq queue',
           tick.on /\ b \in tick.done => tick'.on /\ b \in tick'.done,
           NEW i \in DOMAIN boost, NEW x, boost' = [boost EXCEPT ![i] = x],
           \/ boost[i].name \in queue'
           \/ tick'.on /\ boost[i].name \in tick'.done
           \/ "PodCondition" \in boost[i].pol
    PROVE  Reported(b)'
<1>1. regularBoosts[b] # 0 => regularBoosts[b] \in DOMAIN boost /\ boost[regularBoosts[b]].name = b
  BY TypeParts, LenProperties DEF RegistryOK
<1>2. \/ regularBoosts[b] = 0 \/ boost'[regularBoosts[b]] = boost[regularBoosts[b]]
      \/ b \in queue'
      \/ tick'.on /\ b \in tick'.done
      \/ "PodCondition" \in boost[regularBoosts[b]].pol
  <2>1. CASE regularBoosts[b] = i
    BY <1>1, <2>1, Zenon
  <2>2. CASE regularBoosts[b] # i
    BY <1>1, <2>2
  <2> QED
    BY <2>1, <2>2
<1> QED
  BY <1>2, ReportedKept

LEMMA ReportedSame ==
    ASSUME TypeOK, NEW b \in Boosts, Reported(b),
           UNCHANGED <<boost, regularBoosts, timedBoosts, configurations>>,
           status'[b] = status[b], b \in queue => b \in queue',
           EventsOf(boostEvents, b) # {} => EventsOf(boostEvents', b) # {},
           tick.on /\ b \in tick.done => tick'.on /\ b \in tick'.done,
           statusWrites' = statusWrites \/ statusWrites' = statusWrites + 1
    PROVE  Reported(b)'
<1>1. RegistryKept
  BY DEF RegistryKept
<1> QED
  BY <1>1, ReportedKept

LEMMA EventsAppended ==
    ASSUME NEW q \in Seq(BoostEvent), NEW e \in BoostEvent, NEW b,
           EventsOf(q, b) # {} \/ e.boost = b
    PROVE  EventsOf(Append(q, e), b) # {}
  BY AppendEvents

LEMMA StatusPodEvent ==
    ASSUME TypeOK, StatusLed, HandlePodEvent
    PROVE  StatusLed'
<1> DEFINE e == Head(podEvents)
           q == mem[e.new].pod
<1>1. /\ handler = Idle /\ \A r \in reverts : r.by = "worker"
      /\ UNCHANGED <<boostApi, status, boostEvents, tick, statusWrites>>
  <2>1. NextPodEvent
    BY DEF HandlePodEvent, IgnorePodEvent, UpsertPod, DeletePod
  <2>2. HandlerFree /\ UNCHANGED <<boostApi, status, boostEvents, tick, statusWrites>>
    BY <2>1 DEF NextPodEvent, boostVars, bounds
  <2>3. handler = Idle /\ \A r \in reverts : r \in Revert /\ r.by # "handler"
    BY <2>2, TypeParts, Zenon DEF HandlerFree, ThreadsOK
  <2> QED
    BY <2>2, <2>3 DEF Revert
<1>2. RegistryKept /\ RegistryOK
  BY PodEventKeeps, TypeParts
<1>3. ASSUME NEW i \in MatchingBoosts(q), NEW x, boost' = [boost EXCEPT ![i] = x],
             queue \subseteq queue',
             boost[i].name \in queue' \/ "PodCondition" \in boost[i].pol,
             NEW b \in Boosts, boostApi[b] # None
      PROVE  Reported(b)'
  <2>1. i \in DOMAIN boost
    BY <1>2, MatchingType
  <2>2. Reported(b)
    BY <1>3 DEF StatusLed
  <2>3. UNCHANGED <<status, boostEvents, statusWrites>> /\ tick' = tick
    BY <1>1
  <2> QED
    BY <1>1, <1>2, <1>3, <2>1, <2>2, <2>3, ReportedReplaced, Zenon
<1>4. CASE UNCHANGED <<boost, handler, reverts, queue>>
  <2>1. LoopsQueued'
    BY <1>1, <1>4 DEF StatusLed, LoopsQueued
  <2>2. ASSUME NEW b \in Boosts, boostApi[b] # None
        PROVE  Reported(b)'
    <3>1. Reported(b) /\ UNCHANGED <<regularBoosts, timedBoosts, configurations>>
      BY <1>2, <2>2 DEF StatusLed, RegistryKept
    <3> QED
      BY <1>1, <1>4, <3>1, ReportedSame
  <2> QED
    BY <1>1, <2>1, <2>2 DEF StatusLed
<1>5. ASSUME NEW i \in MatchingBoosts(q), UpsertPod, UpsertBoostPod(i, e.new, mem),
             IF ConditionMet(boost[i], mem[e.new])
             THEN /\ handler' = [Idle EXCEPT !.op = "pod", !.boost = i]
                  /\ UNCHANGED <<orphanedPods, queue>>
             ELSE /\ orphanedPods' = [orphanedPods EXCEPT ![q] = 0]
                  /\ queue' = queue \cup {boost[i].name}
                  /\ UNCHANGED handler
      PROVE  StatusLed'
  <2>1. boost' = [boost EXCEPT ![i] = Tracking(boost[i], e.new, mem)]
    BY <1>5 DEF UpsertBoostPod
  <2>2. /\ queue \subseteq queue'
        /\ boost[i].name \in queue' \/ "PodCondition" \in boost[i].pol
    BY <1>5 DEF ConditionMet
  <2>3. \A b \in Boosts : boostApi[b] # None => Reported(b)'
    BY <1>3, <2>1, <2>2, Zenon
  <2>4. LoopsQueued'
    <3>1. CASE ConditionMet(boost[i], mem[e.new])
      <4>1. handler'.op = "pod" /\ handler'.boost = i
        BY <1>5, <3>1 DEF Idle
      <4>2. \A r \in reverts' : \/ r \in reverts
                                 \/ r = [by |-> "handler", boost |-> i, ptr |-> e.new, step |-> "resize"]
        BY <1>5, Zenon DEF UpsertBoostPod
      <4> QED
        BY <1>1, <4>1, <4>2 DEF StatusLed, LoopsQueued
    <3>2. CASE ~ConditionMet(boost[i], mem[e.new])
      <4>1. UNCHANGED <<handler, reverts>>
        BY <1>5, <3>2 DEF UpsertBoostPod
      <4> QED
        BY <1>1, <4>1 DEF StatusLed, LoopsQueued, Idle
    <3> QED
      BY <3>1, <3>2
  <2> QED
    BY <1>1, <2>3, <2>4 DEF StatusLed
<1>6. CASE UpsertPod
  BY <1>4, <1>5, <1>6, Zenon DEF UpsertPod
<1>7. CASE IgnorePodEvent
  BY <1>4, <1>7 DEF IgnorePodEvent
<1>8. ASSUME NEW i \in MatchingBoosts(q), DeletePod,
             boost' = [boost EXCEPT ![i] = Untracking(@, q, mem)],
             queue' = queue \cup {boost[i].name}
      PROVE  StatusLed'
  <2>1. boost' = [boost EXCEPT ![i] = Untracking(boost[i], q, mem)]
    BY <1>8
  <2>2. queue \subseteq queue' /\ boost[i].name \in queue'
    BY <1>8
  <2>3. \A b \in Boosts : boostApi[b] # None => Reported(b)'
    BY <1>3, <2>1, <2>2, Zenon
  <2>4. LoopsQueued'
    BY <1>1, <1>8 DEF DeletePod, StatusLed, LoopsQueued, Idle
  <2> QED
    BY <1>1, <2>3, <2>4 DEF StatusLed
<1>9. CASE DeletePod
  BY <1>4, <1>8, <1>9, Zenon DEF DeletePod
<1> QED
  BY <1>6, <1>7, <1>9 DEF HandlePodEvent

LEMMA EventsTail ==
    ASSUME NEW q \in Seq(BoostEvent), q # <<>>, NEW b, Head(q).boost # b, EventsOf(q, b) # {}
    PROVE  EventsOf(Tail(q), b) # {}
<1>1. /\ Len(q) \in Nat \ {0} /\ DOMAIN q = 1..Len(q) /\ DOMAIN Tail(q) = 1..(Len(q) - 1)
      /\ Head(q) = q[1] /\ \A k \in 1..(Len(q) - 1) : Tail(q)[k] = q[k + 1]
  BY HeadTailProperties, LenProperties, EmptySeq
<1>2. PICK k \in 1..Len(q) : q[k].boost = b
  BY <1>1 DEF EventsOf
<1>3. k - 1 \in 1..(Len(q) - 1) /\ Tail(q)[k - 1] = q[k]
  BY <1>1, <1>2
<1>4. k - 1 \in EventsOf(Tail(q), b)
  BY <1>1, <1>2, <1>3 DEF EventsOf
<1> QED
  BY <1>4

LEMMA StatusBoostEvent ==
    ASSUME TypeOK, StatusLed, HandleBoostEvent
    PROVE  StatusLed'
<1>1. PICK b, s : b = Head(boostEvents).boost /\ s = Head(boostEvents).spec
  OBVIOUS
<1>2. /\ boostEvents # <<>> /\ boostEvents' = Tail(boostEvents) /\ queue' = queue \cup {b}
      /\ HandlerFree /\ UNCHANGED <<boostApi, status, reverts, tick, statusWrites>>
  BY <1>1 DEF HandleBoostEvent, AddRegularCPUBoost, UpdateRegularCPUBoost,
              DeleteRegularCPUBoost, NextBoostEvent, bounds
<1>3. handler = Idle /\ \A r \in reverts : r.by = "worker"
  <2>1. handler = Idle /\ \A r \in reverts : r \in Revert /\ r.by # "handler"
    BY <1>2, TypeParts, Zenon DEF HandlerFree, ThreadsOK
  <2> QED
    BY <2>1 DEF Revert
<1>4. \A c \in Boosts : c # b =>
         /\ regularBoosts'[c] = regularBoosts[c]
         /\ regularBoosts[c] # 0 => boost'[regularBoosts[c]] = boost[regularBoosts[c]]
  BY <1>1, BoostEventEffect, Zenon
<1>5. \/ UNCHANGED handler
      \/ /\ boost'[regularBoosts'[b]].name = b
         /\ handler' = [op |-> "orphans", boost |-> regularBoosts'[b], list |-> {},
                        orphans |-> {p \in s.sel : orphanedPods[p] # 0}]
  BY <1>1, BoostEventEffect
<1>6. LoopsQueued'
  <2>1. \A r \in reverts' : r.by = "worker" /\ tick'.on
    BY <1>2, <1>3, Zenon DEF StatusLed, LoopsQueued
  <2>2. CASE UNCHANGED handler
    BY <1>3, <2>1, <2>2 DEF LoopsQueued, Idle
  <2>3. CASE boost'[regularBoosts'[b]].name = b /\ handler'.boost = regularBoosts'[b]
    BY <1>2, <2>1, <2>3, Zenon DEF LoopsQueued
  <2> QED
    BY <1>5, <2>2, <2>3
<1>7. ASSUME NEW c \in Boosts, boostApi[c] # None, c # b
      PROVE  Reported(c)'
  <2>1. Reported(c)
    BY <1>7 DEF StatusLed
  <2>2. EventsOf(boostEvents, c) # {} => EventsOf(boostEvents', c) # {}
    BY <1>1, <1>2, <1>7, TypeParts, EventsTail DEF BoostApiOK
  <2>3. ReconciledStatus(c)' = ReconciledStatus(c)
    BY <1>2, <1>4, <1>7 DEF ReconciledStatus
  <2>4. /\ Registered(c) /\ "PodCondition" \in boost[regularBoosts[c]].pol
        => Registered(c)' /\ "PodCondition" \in boost'[regularBoosts'[c]].pol
    BY <1>4, <1>7, Zenon DEF Registered
  <2> QED
    BY <1>2, <2>1, <2>2, <2>3, <2>4, Zenon DEF Reported
<1>8. Reported(b)'
  BY <1>2 DEF Reported
<1> QED
  BY <1>2, <1>6, <1>7, <1>8 DEF StatusLed

LEMMA StatusHandlerLoop ==
    ASSUME TypeOK, StatusLed, HandlerLoop
    PROVE  StatusLed'
<1> DEFINE i == handler.boost
<1>1. PICK op \in {"orphans", "sync"} : HandlerStep(op)
  BY Zenon DEF HandlerLoop, MapOrphanedPod, ListBoostPods, SyncBoostPod, HandlerReturn
<1>2. /\ i \in DOMAIN boost /\ boost[i] \in StartupCPUBoost /\ handler.op = op
      /\ handler \in Handler /\ \A r \in reverts : r.by # "handler"
  BY <1>1, HandlerStepType, Zenon
<1>3. UNCHANGED <<boostApi, status, boostEvents, tick, queue, statusWrites>>
  BY <1>1 DEF HandlerStep, boostVars, bounds
<1>4. RegistryKept /\ boost[i].name \in queue
  BY <1>1, <1>2, HandlerLoopKeeps DEF StatusLed, LoopsQueued
<1>5. ASSUME NEW x, boost' = [boost EXCEPT ![i] = x], x.name = boost[i].name,
             handler'.op = "idle" \/ handler'.boost = i,
             \A r \in reverts' : r \in reverts \/ (r.by = "handler" /\ r.boost = handler'.boost)
      PROVE  StatusLed'
  <2>1. boost'[i].name = boost[i].name
    BY <1>2, <1>5
  <2>2. \A r \in reverts : r.by = "worker" => tick.on
    BY DEF StatusLed, LoopsQueued
  <2>3. LoopsQueued'
    <3>1. handler'.op \in {"orphans", "sync"} => boost'[handler'.boost].name \in queue'
      BY <1>3, <1>4, <1>5, <2>1
    <3>2. ASSUME NEW r \in reverts'
          PROVE  IF r.by = "worker" THEN tick'.on ELSE r.boost = handler'.boost
      <4>1. CASE r \in reverts
        <5>1. r.by = "worker"
          BY <1>2, <4>1, TypeParts DEF ThreadsOK, Revert
        <5> QED
          BY <1>3, <2>2, <4>1, <5>1
      <4>2. CASE r.by = "handler" /\ r.boost = handler'.boost
        BY <4>2
      <4> QED
        BY <1>5, <4>1, <4>2
    <3> QED
      BY <3>1, <3>2 DEF LoopsQueued
  <2>4. ASSUME NEW b \in Boosts, boostApi[b] # None
        PROVE  Reported(b)'
    <3>1. Reported(b) /\ tick' = tick
      BY <1>3, <2>4 DEF StatusLed
    <3> QED
      BY <1>2, <1>3, <1>4, <1>5, <3>1, ReportedReplaced, Zenon
  <2> QED
    BY <1>3, <2>3, <2>4 DEF StatusLed
<1>6. ASSUME UNCHANGED <<boost, reverts>>, handler'.op = "idle" \/ handler'.boost = i
      PROVE  StatusLed'
  <2>1. boost' = [boost EXCEPT ![i] = boost[i]]
    BY <1>2, <1>6, TypeParts DEF RegistryOK
  <2> QED
    BY <1>5, <1>6, <2>1, Zenon
<1>7. ASSUME NEW ptr, NEW m \in Seq(PodObject), ptr \in DOMAIN m, UpsertBoostPod(i, ptr, m),
             handler'.boost = i
      PROVE  StatusLed'
  <2>1. Tracking(boost[i], ptr, m).name = boost[i].name
    BY <1>2, <1>7, TrackingType
  <2>2. boost' = [boost EXCEPT ![i] = Tracking(boost[i], ptr, m)]
    BY <1>7 DEF UpsertBoostPod
  <2>3. \A r \in reverts' : \/ r \in reverts
                            \/ r = [by |-> "handler", boost |-> i, ptr |-> ptr, step |-> "resize"]
    BY <1>7, Zenon DEF UpsertBoostPod
  <2>4. \A r \in reverts' : r \in reverts \/ (r.by = "handler" /\ r.boost = handler'.boost)
    BY <1>7, <2>3
  <2> QED
    BY <1>5, <1>7, <2>1, <2>2, <2>4, Zenon
<1>8. HeapOK /\ ThreadsOK /\ mem \in Seq(PodObject)
  BY TypeParts DEF HeapOK
<1>9. ASSUME NEW p \in Pods, MapOrphanedPod(p)
      PROVE  StatusLed'
  <2>1. /\ p \in handler.orphans /\ UpsertBoostPod(i, orphanedPods[p], mem)
        /\ handler' = [handler EXCEPT !.orphans = @ \ {p}]
    BY <1>9 DEF MapOrphanedPod
  <2>2. orphanedPods[p] \in DOMAIN mem
    <3>1. orphanedPods[p] # 0 /\ PodPointer(orphanedPods[p], p)
      BY <1>8, <2>1, Zenon DEF ThreadsOK, HeapOK
    <3> QED
      BY <1>8, <3>1, LenProperties DEF PodPointer
  <2>3. handler'.boost = i
    BY <1>2, <2>1 DEF Handler
  <2> QED
    BY <1>7, <1>8, <2>1, <2>2, <2>3, Zenon
<1>10. ASSUME NEW obj \in handler.list, SyncBoostPod(obj)
       PROVE  StatusLed'
  <2>1. handler'.boost = i
    BY <1>2, <1>10, Zenon DEF SyncBoostPod, Handler
  <2>2. CASE UNCHANGED <<mem, boost, reverts>>
    BY <1>6, <2>1, <2>2
  <2>3. CASE mem' = Append(mem, obj) /\ UpsertBoostPod(i, Len(mem) + 1, mem')
    <3>1. obj \in PodObject
      BY <1>2, <1>10 DEF Handler
    <3>2. mem' \in Seq(PodObject) /\ Len(mem) + 1 \in DOMAIN mem'
      BY <1>8, <2>3, <3>1, AppendGrows DEF HeapGrows
    <3> QED
      BY <1>7, <2>1, <2>3, <3>2, Zenon
  <2> QED
    BY <1>10, <2>2, <2>3, Zenon DEF SyncBoostPod
<1>11. CASE ListBoostPods
  <2>1. handler'.boost = i /\ UNCHANGED <<boost, reverts>>
    BY <1>2, <1>11 DEF ListBoostPods, Handler
  <2> QED
    BY <1>6, <2>1
<1>12. CASE HandlerReturn
  <2>1. handler'.op = "idle" /\ UNCHANGED <<boost, reverts>>
    BY <1>12 DEF HandlerReturn, Idle
  <2> QED
    BY <1>6, <2>1
<1> QED
  BY <1>9, <1>10, <1>11, <1>12 DEF HandlerLoop

LEMMA StatusRevert ==
    ASSUME TypeOK, StatusLed, NEW r \in reverts, RevertStep(r)
    PROVE  StatusLed'
<1>1. /\ r.boost \in DOMAIN boost /\ mem[r.ptr].pod \in Pods /\ r \in Revert
      /\ boost[r.boost] \in StartupCPUBoost /\ handler \in Handler /\ tick \in Tick
  <2>1. r.boost \in DOMAIN boost /\ mem[r.ptr].pod \in Pods /\ r \in Revert
    BY TypeParts, RevertTarget, Zenon DEF ThreadsOK
  <2>2. boost[r.boost] \in StartupCPUBoost
    BY <2>1, TypeParts, ElementOfSeq, LenProperties DEF RegistryOK
  <2> QED
    BY <2>1, <2>2, TypeParts DEF ThreadsOK
<1>2. RegistryKept /\ UNCHANGED <<boostApi, status, boostEvents, statusWrites>>
  <2>1. UNCHANGED <<boostApi, status, boostEvents, statusWrites>>
    BY Zenon DEF RevertStep, RevertResources, RevertLabels, RevertLegacy, Request, boostVars
  <2> QED
    BY <2>1, RevertKeeps
<1>3. LoopsQueued /\ \A b \in Boosts : boostApi[b] # None => Reported(b)
  BY DEF StatusLed
<1>4. \A s, t \in reverts : s.by = "handler" /\ t.by = "handler" => s = t
  BY TypeParts DEF ThreadsOK
<1>5. CASE /\ reverts' = (reverts \ {r}) \cup {[r EXCEPT !.step = "labels"]}
           /\ UNCHANGED <<boost, handler, queue, tick>>
  <2>1. [r EXCEPT !.step = "labels"].by = r.by /\ [r EXCEPT !.step = "labels"].boost = r.boost
    BY <1>1 DEF Revert
  <2>2. \A s \in reverts' : \E t \in reverts : s.by = t.by /\ s.boost = t.boost
    BY <1>5, <2>1
  <2>3. LoopsQueued'
    BY <1>3, <1>5, <2>2 DEF LoopsQueued
  <2>4. ASSUME NEW b \in Boosts, boostApi[b] # None
        PROVE  Reported(b)'
    <3>1. UNCHANGED <<regularBoosts, timedBoosts, configurations>>
      BY <1>2 DEF RegistryKept
    <3> QED
      BY <1>2, <1>3, <1>5, <2>4, <3>1, ReportedSame
  <2> QED
    BY <1>2, <2>3, <2>4 DEF StatusLed
<1>6. CASE EndRevert(r, FALSE)
  <2>1. /\ reverts' = reverts \ {r} /\ UNCHANGED <<boost, queue, tick>>
        /\ handler' = IF r.by = "handler" /\ handler.op = "pod" THEN Idle ELSE handler
    BY <1>6 DEF EndRevert
  <2>2. LoopsQueued'
    <3>1. CASE handler' = handler
      BY <1>3, <2>1, <3>1 DEF LoopsQueued
    <3>2. CASE handler' = Idle /\ r.by = "handler"
      <4>1. \A s \in reverts' : s \in reverts /\ s.by = "worker"
        BY <1>4, <2>1, <3>2, TypeParts DEF ThreadsOK, Revert
      <4> QED
        BY <1>3, <2>1, <3>2, <4>1 DEF LoopsQueued, Idle
    <3> QED
      BY <2>1, <3>1, <3>2
  <2>3. ASSUME NEW b \in Boosts, boostApi[b] # None
        PROVE  Reported(b)'
    <3>1. UNCHANGED <<regularBoosts, timedBoosts, configurations>>
      BY <1>2 DEF RegistryKept
    <3> QED
      BY <1>2, <1>3, <2>1, <2>3, <3>1, ReportedSame
  <2> QED
    BY <1>2, <2>2, <2>3 DEF StatusLed
<1>7. CASE EndRevert(r, TRUE)
  <2> DEFINE x == Untracking(boost[r.boost], mem[r.ptr].pod, mem')
  <2>1. /\ reverts' = reverts \ {r} /\ boost' = [boost EXCEPT ![r.boost] = x]
        /\ handler' = IF r.by = "handler" /\ handler.op = "pod" THEN Idle ELSE handler
        /\ queue' = IF r.by = "handler" /\ handler.op = "pod"
                    THEN queue \cup {boost[r.boost].name} ELSE queue
        /\ tick' = IF r.by = "worker" THEN [tick EXCEPT !.done = @ \cup {boost[r.boost].name}] ELSE tick
    BY <1>7 DEF EndRevert
  <2>2. x.name = boost[r.boost].name
    BY <1>1 DEF Untracking, StartupCPUBoost
  <2>3. tick'.on = tick.on /\ tick.done \subseteq tick'.done
    <3>1. CASE tick' = tick
      BY <3>1
    <3>2. CASE tick' = [tick EXCEPT !.done = @ \cup {boost[r.boost].name}]
      BY <1>1, <3>2 DEF Tick
    <3> QED
      BY <2>1, <3>1, <3>2
  <2>4. \/ boost[r.boost].name \in queue'
        \/ tick'.on /\ boost[r.boost].name \in tick'.done
    <3>1. CASE r.by = "worker"
      <4>1. tick.on /\ tick' = [tick EXCEPT !.done = @ \cup {boost[r.boost].name}]
        BY <1>3, <2>1, <3>1 DEF LoopsQueued
      <4> QED
        BY <1>1, <4>1 DEF Tick
    <3>2. CASE r.by = "handler" /\ handler.op = "pod"
      BY <2>1, <3>2
    <3>3. CASE r.by = "handler" /\ handler.op # "pod"
      <4>1. handler.op # "idle"
        BY <3>3, TypeParts DEF ThreadsOK
      <4>2. handler.op \in {"orphans", "sync"}
        BY <1>1, <3>3, <4>1 DEF Handler
      <4>3. r.boost = handler.boost /\ boost[handler.boost].name \in queue
        BY <1>3, <3>3, <4>2 DEF LoopsQueued
      <4>4. queue' = queue
        BY <2>1, <3>3
      <4> QED
        BY <4>3, <4>4
    <3> QED
      BY <1>1, <3>1, <3>2, <3>3 DEF Revert
  <2>5. queue \subseteq queue'
    BY <2>1
  <2> HIDE DEF x
  <2>6. \A i \in DOMAIN boost : boost'[i].name = boost[i].name
    BY <1>1, <2>1, <2>2
  <2>7. LoopsQueued'
    <3>1. CASE handler' = handler
      <4>1. ASSUME handler'.op \in {"orphans", "sync"}
            PROVE  boost'[handler'.boost].name \in queue'
        <5>1. handler.boost \in DOMAIN boost
          BY <3>1, <4>1, TypeParts DEF ThreadsOK
        <5>2. boost[handler.boost].name \in queue
          BY <1>3, <3>1, <4>1 DEF LoopsQueued
        <5> QED
          BY <2>5, <2>6, <3>1, <5>1, <5>2
      <4>2. \A s \in reverts' : IF s.by = "worker" THEN tick'.on ELSE s.boost = handler'.boost
        BY <1>3, <2>1, <2>3, <3>1 DEF LoopsQueued
      <4> QED
        BY <4>1, <4>2 DEF LoopsQueued
    <3>2. CASE handler' = Idle /\ r.by = "handler"
      <4>1. \A s \in reverts' : s \in reverts /\ s.by = "worker"
        BY <1>4, <2>1, <3>2, TypeParts DEF ThreadsOK, Revert
      <4>2. handler'.op = "idle"
        BY <3>2 DEF Idle
      <4> QED
        BY <1>3, <2>3, <4>1, <4>2 DEF LoopsQueued
    <3> QED
      BY <2>1, <3>1, <3>2
  <2>8. ASSUME NEW b \in Boosts, boostApi[b] # None
        PROVE  Reported(b)'
    <3>1. Reported(b) /\ (tick.on /\ b \in tick.done => tick'.on /\ b \in tick'.done)
      BY <1>3, <2>3, <2>8
    <3> QED
      BY <1>1, <1>2, <2>1, <2>4, <2>5, <3>1, ReportedReplaced, Zenon
  <2> QED
    BY <1>2, <2>7, <2>8 DEF StatusLed
<1>8. \/ /\ reverts' = (reverts \ {r}) \cup {[r EXCEPT !.step = "labels"]}
         /\ UNCHANGED <<boost, handler, queue, tick>>
      \/ \E ok \in BOOLEAN : EndRevert(r, ok)
  BY Zenon DEF RevertStep, RevertResources, RevertLabels, RevertLegacy
<1> QED
  BY <1>5, <1>6, <1>7, <1>8

\* Reconcile leaves nothing to report of b, or publishes a change of it, and
\* leaves the others alone.
LEMMA StatusUpdate ==
    ASSUME TypeOK, StatusLed, NEW b \in Boosts, UpdateStatus(b),
           UNCHANGED <<boost, regularBoosts, timedBoosts, configurations>>,
           \A c \in Boosts \ {b} : /\ c \in queue => c \in queue'
                                   /\ tick.on /\ c \in tick.done => tick'.on /\ c \in tick'.done
    PROVE  \A c \in Boosts : boostApi'[c] # None => Reported(c)'
<1>1. \A c \in Boosts : boostApi[c] # None => Reported(c)
  BY DEF StatusLed
<1>2. CASE /\ UNCHANGED <<boostVars, statusWrites>>
           /\ boostApi[b] = None \/ ReconciledStatus(b) = status[b]
  <2>1. UNCHANGED <<boostApi, status, boostEvents, statusWrites>>
    BY <1>2 DEF boostVars
  <2>2. ASSUME NEW c \in Boosts, boostApi[c] # None
        PROVE  Reported(c)'
    <3>1. CASE c # b
      BY <1>1, <2>1, <2>2, <3>1, ReportedSame
    <3>2. CASE c = b
      <4>1. ReconciledStatus(b)' = status'[b]
        BY <1>2, <2>1, <2>2, <3>2 DEF ReconciledStatus
      <4> QED
        BY <3>2, <4>1 DEF Reported
    <3> QED
      BY <3>1, <3>2
  <2> QED
    BY <2>1, <2>2
<1>3. CASE /\ boostApi[b] # None /\ statusWrites' = statusWrites + 1
           /\ StoreStatus(b, ReconciledStatus(b))
  <2> DEFINE e == [type |-> "update", boost |-> b, spec |-> boostApi[b]]
  <2>1. /\ boostEvents \in Seq(BoostEvent) /\ status \in [Boosts -> BoostStatus]
        /\ boostApi[b] \in BoostSpec
    BY <1>3, TypeParts DEF BoostApiOK
  <2>2. e \in BoostEvent /\ e.boost = b
    BY <2>1 DEF BoostEvent, EventTypes
  <2>3. /\ boostEvents' = Append(boostEvents, e) /\ UNCHANGED boostApi
        /\ \A c \in Boosts \ {b} : status'[c] = status[c]
    BY <1>3, <2>1 DEF StoreStatus
  <2> HIDE DEF e
  <2>4. /\ EventsOf(boostEvents', b) # {}
        /\ \A c \in Boosts : EventsOf(boostEvents, c) # {} => EventsOf(boostEvents', c) # {}
    BY <2>1, <2>2, <2>3, EventsAppended
  <2>5. ASSUME NEW c \in Boosts, boostApi[c] # None
        PROVE  Reported(c)'
    <3>1. CASE c # b
      BY <1>1, <1>3, <2>3, <2>4, <2>5, <3>1, ReportedSame
    <3>2. CASE c = b
      BY <2>4, <3>2 DEF Reported
    <3> QED
      BY <3>1, <3>2
  <2> QED
    BY <2>3, <2>5
<1> QED
  BY <1>2, <1>3 DEF UpdateStatus

LEMMA StatusTick ==
    ASSUME TypeOK, StatusLed, TickAction
    PROVE  StatusLed'
<1>1. /\ UNCHANGED <<boost, regularBoosts, timedBoosts, configurations, handler>>
      /\ UNCHANGED queue /\ tick \in Tick
  <2>1. UNCHANGED queue /\ (TickStep(TRUE) \/ TickStep(FALSE))
    BY DEF TickAction, StartTick, EndTick, ValidatePolicy, ReconcileAfterTick
  <2> QED
    BY <2>1, TypeParts DEF TickStep, ThreadsOK
<1>2. LoopsQueued /\ \A b \in Boosts : boostApi[b] # None => Reported(b)
  BY DEF StatusLed
<1>3. ASSUME UNCHANGED <<boostVars, statusWrites>>,
             \A r \in reverts' : r \in reverts \/ (r.by = "worker" /\ tick'.on),
             \/ tick'.on = tick.on
             \/ tick'.on
             \/ \A r \in reverts' : r.by # "worker",
             tick.on => tick.done \subseteq tick'.done /\ (tick'.on \/ tick.done = {})
      PROVE  StatusLed'
  <2>1. LoopsQueued'
    BY <1>1, <1>2, <1>3 DEF LoopsQueued
  <2>2. UNCHANGED <<boostApi, status, boostEvents>>
    BY <1>3 DEF boostVars
  <2>3. ASSUME NEW b \in Boosts, boostApi[b] # None
        PROVE  Reported(b)'
    BY <1>1, <1>2, <1>3, <2>2, <2>3, ReportedSame
  <2> QED
    BY <2>1, <2>2, <2>3 DEF StatusLed
<1>4. CASE StartTick
  <2>1. tick.on = FALSE /\ tick'.on = TRUE /\ UNCHANGED <<reverts, boostVars, statusWrites>>
    BY <1>4 DEF StartTick, TickStep
  <2> QED
    BY <1>3, <2>1
<1>5. CASE EndTick
  <2>1. /\ tick.done = {} /\ UNCHANGED <<reverts, boostVars, statusWrites>>
        /\ \A r \in reverts : r.by # "worker"
    BY <1>5 DEF EndTick, TasksDone
  <2> QED
    BY <1>3, <2>1
<1>6. ASSUME NEW i \in tick.boosts, ValidatePolicy(i)
      PROVE  StatusLed'
  <2>1. tick.on = TRUE /\ tick' = [tick EXCEPT !.boosts = @ \ {i}] /\ UNCHANGED <<boostVars, statusWrites>>
    BY <1>6 DEF ValidatePolicy, TickStep
  <2>2. tick'.on = tick.on /\ tick'.done = tick.done
    BY <1>1, <2>1 DEF Tick
  <2>3. \A r \in reverts' : r \in reverts \/ r.by = "worker"
    BY <1>6 DEF ValidatePolicy
  <2> QED
    BY <1>3, <2>1, <2>2, <2>3
<1>7. ASSUME NEW b \in Boosts, ReconcileAfterTick(b)
      PROVE  StatusLed'
  <2>1. /\ tick' = [tick EXCEPT !.done = @ \ {b}] /\ UNCHANGED reverts
        /\ \/ UpdateStatus(b)
           \/ /\ \/ \E k \in DOMAIN boostEvents : boostEvents[k].boost = b
                 \/ statusWrites = MaxStatusWrites
              /\ UNCHANGED <<boostVars, statusWrites>>
    BY <1>7 DEF ReconcileAfterTick
  <2>2. tick'.on = tick.on /\ tick'.done = tick.done \ {b}
    BY <1>1, <2>1 DEF Tick
  <2>3. LoopsQueued'
    BY <1>1, <1>2, <2>1, <2>2 DEF LoopsQueued
  <2>4. CASE UpdateStatus(b)
    <3>1. \A c \in Boosts \ {b} : /\ c \in queue => c \in queue'
                                  /\ tick.on /\ c \in tick.done => tick'.on /\ c \in tick'.done
      BY <1>1, <2>2
    <3>2. \A c \in Boosts : boostApi'[c] # None => Reported(c)'
      BY <1>1, <2>4, <3>1, StatusUpdate
    <3> QED
      BY <2>3, <3>2 DEF StatusLed
  <2>5. CASE /\ \/ \E k \in DOMAIN boostEvents : boostEvents[k].boost = b
                \/ statusWrites = MaxStatusWrites
             /\ UNCHANGED <<boostVars, statusWrites>>
    <3>1. UNCHANGED <<boostApi, status, boostEvents, statusWrites>>
      BY <2>5 DEF boostVars
    <3>2. ASSUME NEW c \in Boosts, boostApi[c] # None
          PROVE  Reported(c)'
      <4>1. CASE c # b
        BY <1>1, <1>2, <2>2, <3>1, <3>2, <4>1, ReportedSame
      <4>2. CASE c = b
        <5>1. EventsOf(boostEvents', b) # {} \/ statusWrites' >= MaxStatusWrites
          BY <2>5, <3>1, ManagerAssumption DEF EventsOf
        <5> QED
          BY <4>2, <5>1, Zenon DEF Reported
      <4> QED
        BY <4>1, <4>2
    <3> QED
      BY <2>3, <3>1, <3>2 DEF StatusLed
  <2> QED
    BY <2>1, <2>4, <2>5
<1> QED
  BY <1>4, <1>5, <1>6, <1>7 DEF TickAction

LEMMA StatusReconcile ==
    ASSUME TypeOK, StatusLed, NEW b \in Boosts, Reconcile(b)
    PROVE  StatusLed'
<1>1. /\ UNCHANGED <<boost, regularBoosts, timedBoosts, configurations, handler, reverts, tick>>
      /\ UpdateStatus(b) /\ queue' = queue \ {b} /\ handler.op = "idle"
  BY DEF Reconcile, HandlerFree
<1>2. \A c \in Boosts \ {b} : /\ c \in queue => c \in queue'
                              /\ tick.on /\ c \in tick.done => tick'.on /\ c \in tick'.done
  BY <1>1
<1>3. \A c \in Boosts : boostApi'[c] # None => Reported(c)'
  BY <1>1, <1>2, StatusUpdate
<1>4. LoopsQueued'
  BY <1>1 DEF StatusLed, LoopsQueued
<1> QED
  BY <1>3, <1>4 DEF StatusLed

LEMMA StatusEdit ==
    ASSUME TypeOK, StatusLed, NEW b \in Boosts, EditBoost(b), UNCHANGED <<managerVars, bounds>>
    PROVE  StatusLed'
<1>1. UNCHANGED <<boost, regularBoosts, timedBoosts, configurations, handler, reverts, tick,
                  queue, statusWrites>>
  BY DEF managerVars, bounds
<1>2. /\ boostApi \in [Boosts -> BoostSpec \cup {None}] /\ status \in [Boosts -> BoostStatus]
      /\ boostEvents \in Seq(BoostEvent)
      /\ None \notin BoostSpec /\ Specs \subseteq BoostSpec
  BY TypeParts, ClusterAssumption DEF BoostApiOK
<1>3. ASSUME NEW e \in BoostEvent, e.boost = b, boostEvents' = Append(boostEvents, e),
             \A c \in Boosts \ {b} : boostApi'[c] = boostApi[c] /\ status'[c] = status[c]
      PROVE  StatusLed'
  <2>1. /\ EventsOf(boostEvents', b) # {}
        /\ \A c \in Boosts : EventsOf(boostEvents, c) # {} => EventsOf(boostEvents', c) # {}
    BY <1>2, <1>3, EventsAppended
  <2>2. ASSUME NEW c \in Boosts, boostApi'[c] # None
        PROVE  Reported(c)'
    <3>1. CASE c # b
      BY <1>1, <1>3, <2>1, <2>2, <3>1, ReportedSame DEF StatusLed
    <3>2. CASE c = b
      BY <2>1, <3>2 DEF Reported
    <3> QED
      BY <3>1, <3>2
  <2>3. LoopsQueued'
    BY <1>1 DEF StatusLed, LoopsQueued
  <2> QED
    BY <2>2, <2>3 DEF StatusLed
<1>4. ASSUME NEW s \in Specs, boostApi' = [boostApi EXCEPT ![b] = s], UNCHANGED status,
             boostEvents' = Append(boostEvents,
                 [type |-> IF boostApi[b] = None THEN "create" ELSE "update",
                  boost |-> b, spec |-> s])
      PROVE  StatusLed'
  <2> DEFINE e == [type |-> IF boostApi[b] = None THEN "create" ELSE "update",
                   boost |-> b, spec |-> s]
  <2>1. e \in BoostEvent /\ e.boost = b /\ boostEvents' = Append(boostEvents, e)
    BY <1>2, <1>4 DEF BoostEvent, EventTypes
  <2>2. \A c \in Boosts \ {b} : boostApi'[c] = boostApi[c] /\ status'[c] = status[c]
    BY <1>2, <1>4
  <2> HIDE DEF e
  <2> QED
    BY <1>3, <2>1, <2>2
<1>5. CASE /\ boostApi[b] # None
           /\ boostApi' = [boostApi EXCEPT ![b] = None]
           /\ boostEvents' = Append(boostEvents,
                 [type |-> "delete", boost |-> b, spec |-> boostApi[b]])
           /\ status' = [status EXCEPT ![b] = NoStatus]
  <2> DEFINE e == [type |-> "delete", boost |-> b, spec |-> boostApi[b]]
  <2>1. e \in BoostEvent /\ e.boost = b /\ boostEvents' = Append(boostEvents, e)
    BY <1>2, <1>5 DEF BoostEvent, EventTypes
  <2>2. \A c \in Boosts \ {b} : boostApi'[c] = boostApi[c] /\ status'[c] = status[c]
    BY <1>2, <1>5
  <2> HIDE DEF e
  <2> QED
    BY <1>3, <2>1, <2>2
<1> QED
  BY <1>4, <1>5 DEF EditBoost

LEMMA StatusRestart ==
    ASSUME TypeOK, Restart
    PROVE  StatusLed'
<1> DEFINE existing == {b \in Boosts : boostApi[b] # None}
<1>1. PICK g \in [1..Cardinality(existing) -> existing] :
         /\ {g[k] : k \in DOMAIN g} = existing
         /\ boostEvents' = [k \in DOMAIN g |->
               [type |-> "create", boost |-> g[k], spec |-> boostApi[g[k]]]]
  BY Zenon DEF Restart
<1>2. handler' = Idle /\ reverts' = {} /\ UNCHANGED boostApi
  BY Zenon DEF Restart
<1>3. ASSUME NEW b \in Boosts, boostApi'[b] # None
      PROVE  Reported(b)'
  <2>1. PICK k \in DOMAIN g : g[k] = b
    BY <1>1, <1>2, <1>3
  <2>2. k \in EventsOf(boostEvents', b)
    BY <1>1, <2>1 DEF EventsOf
  <2> QED
    BY <2>2 DEF Reported
<1> QED
  BY <1>2, <1>3 DEF StatusLed, LoopsQueued, Idle

LEMMA StatusNext ==
    ASSUME TypeOK, StatusLed, [Next]_vars
    PROVE  StatusLed'
<1>1. ASSUME UNCHANGED <<boostVars, managerVars, bounds>>
      PROVE  StatusLed'
  <2>1. UNCHANGED <<boostApi, status, boostEvents, boost, regularBoosts, handler, reverts, tick,
                    queue, statusWrites>>
    BY <1>1 DEF boostVars, managerVars, bounds
  <2>2. LoopsQueued'
    BY <2>1 DEF StatusLed, LoopsQueued
  <2>3. \A b \in Boosts : Reported(b)' <=> Reported(b)
    BY <2>1 DEF Reported, ReconciledStatus, Registered
  <2> QED
    BY <2>1, <2>2, <2>3 DEF StatusLed
<1>2. CASE (\E p \in Pods : AdmitPod(p)) \/ ClusterStep \/ Receive \/ UNCHANGED vars
  <2>1. UNCHANGED <<managerVars, bounds>>
    BY <1>2 DEF AdmitPod, ClusterStep, Receive, vars, managerVars, bounds
  <2>2. UNCHANGED boostVars \/ \E b \in Boosts : EditBoost(b)
    BY <1>2 DEF AdmitPod, StoreNewPod, ClusterStep, SetPodCondition, TouchPod, RemovePod,
                DurationElapses, Receive, InformerReceive, vars, boostVars
  <2> QED
    BY <1>1, <2>1, <2>2, StatusEdit
<1> QED
  BY <1>2, StatusPodEvent, StatusBoostEvent, StatusHandlerLoop, StatusRevert, StatusTick,
     StatusReconcile, StatusRestart DEF Next

-----------------------------------------------------------------------------
\* The type invariant holds at first and is kept by each step.
LEMMA InitType ==
    ASSUME Init
    PROVE  TypeOK
<1>1. /\ api = [p \in Pods |-> None] /\ uids = [p \in Pods |-> 0] /\ due = {}
      /\ watch = <<>> /\ mem = <<>> /\ cache = [p \in Pods |-> 0] /\ podEvents = <<>>
      /\ boostApi = [b \in Boosts |-> None] /\ status = [b \in Boosts |-> NoStatus]
      /\ boostEvents = <<>> /\ edits = 0
  BY DEF Init, ClusterInit
<1>2. NoStatus \in BoostStatus
  BY DEF NoStatus, BoostStatus
<1>3. ApiOK /\ BoostApiOK
  BY <1>1, <1>2, EmptySeq DEF ApiOK, BoostApiOK
<1>4. mem \in Seq(PodObject) /\ Len(mem) = 0 /\ podEvents \in Seq(PodEvent) /\ DOMAIN podEvents = {}
  BY <1>1, EmptySeq
<1>5. HeapOK
  BY <1>1, <1>4 DEF HeapOK, PodPointer, Init
<1>6. boost \in Seq(StartupCPUBoost) /\ Len(boost) = 0 /\ DOMAIN boost = {}
  BY EmptySeq DEF Init
<1>7. RegistryOK
  BY <1>6 DEF RegistryOK, Init
<1>8. Idle \in Handler /\ Idle.op = "idle" /\ Idle.orphans = {} /\ NoTick \in Tick /\ NoTick.boosts = {}
  BY DEF Idle, Handler, NoTick, Tick
<1>9. ThreadsOK /\ CountersOK
  BY <1>8, Zenon DEF ThreadsOK, CountersOK, Init
<1> QED
  BY <1>3, <1>5, <1>7, <1>9, TypeParts

LEMMA StutterType ==
    ASSUME TypeOK, UNCHANGED vars
    PROVE  TypeOK'
<1>1. /\ UNCHANGED <<mem, cache, podEvents, managerVars, bounds>>
      /\ UNCHANGED <<api, uids, due, watch>> /\ UNCHANGED boostVars
  BY DEF vars, podVars
<1> QED
  BY <1>1, TypeParts, ApiIdle, BoostApiIdle, ManagerIdle, TypePartsNext

\* No step of the controller or of the cluster leaves a pointer dangling.
LEMMA NextType ==
    ASSUME TypeOK, [Next]_vars
    PROVE  TypeOK'
<1>1. ASSUME NEW r \in reverts, RevertStep(r)
      PROVE  TypeOK'
  BY <1>1, RevertResourcesType, RevertLabelsType, RevertLegacyType DEF RevertStep
<1>2. CASE HandlePodEvent
  BY <1>2, IgnorePodEventType, UpsertPodType, DeletePodType DEF HandlePodEvent
<1>3. CASE HandleBoostEvent
  BY <1>3, AddBoostType, UpdateBoostType, DeleteBoostType DEF HandleBoostEvent
<1>4. CASE HandlerLoop
  BY <1>4, MapOrphanedPodType, ListBoostPodsType, SyncBoostPodType, HandlerReturnType
     DEF HandlerLoop
<1>5. CASE TickAction
  BY <1>5, StartTickType, EndTickType, ValidatePolicyType, ReconcileAfterTickType
     DEF TickAction
<1> QED
  BY <1>1, <1>2, <1>3, <1>4, <1>5, AdmitPodType, ClusterStepType, ReceiveType,
     ReconcileType, RestartType, StutterType DEF Next

\* In every reachable state the variables have their types and no pointer
\* dangles: what the manager, its boosts and its workers dereference is an
\* object of the pod or boost it is filed under, and the handler reverts one
\* pod at a time.
THEOREM TypeCorrect == Spec => []TypeOK
<1>1. Init => TypeOK
  BY InitType
<1>2. TypeOK /\ [Next]_vars => TypeOK'
  BY NextType
<1> QED
  BY <1>1, <1>2, PTL DEF Spec

\* The time check of the manager covers exactly the registered boosts that
\* have or had a fixed duration, as the registered objects themselves: every
\* such boost is checked, and no boost that was deleted still is.
THEOREM TimedBoostsCorrect == Spec => []TimedBoostsRegistered
<1>1. Init => TimedBoostsRegistered
  BY DEF Init, TimedBoostsRegistered, Registered
<1>2. TypeOK /\ TimedBoostsRegistered /\ [Next]_vars => TimedBoostsRegistered'
  BY TimedNext
<1> QED
  BY <1>1, <1>2, TypeCorrect, PTL DEF Spec

\* Whatever users do to the boosts, and however often the controller writes
\* their status or restarts: once all boost events are handled, the manager
\* knows exactly the boosts that exist, with their current selectors and
\* policies, and the gauge counts them.
THEOREM RegistryCorrect == Spec => []RegistryAgrees
<1>1. Init => RegistryInv
  <2>1. SUFFICES ASSUME Init PROVE RegistryInv
    OBVIOUS
  <2>2. /\ boostEvents = <<>> /\ boostApi = [b \in Boosts |-> None] /\ configurations = 0
        /\ regularBoosts = [b \in Boosts |-> 0]
    BY <2>1 DEF Init, ClusterInit
  <2>3. \A b \in Boosts : EventsOf(boostEvents, b) = {} /\ ~Registered(b) /\ boostApi[b] = None
    BY <2>2, EmptySeq DEF EventsOf, Registered
  <2>4. {b \in Boosts : Registered(b)} = {}
    BY <2>3
  <2> QED
    BY <2>2, <2>3, <2>4, FS_EmptySet DEF RegistryInv, Leads, Holds
<1>2. TypeOK /\ RegistryInv /\ [Next]_vars => RegistryInv'
  BY NextInv
<1>3. RegistryInv => RegistryAgrees
  <2>1. boostEvents = <<>> => \A b \in Boosts : EventsOf(boostEvents, b) = {}
    BY EmptySeq DEF EventsOf
  <2> QED
    BY <2>1 DEF RegistryInv, RegistryAgrees, Holds
<1> QED
  BY <1>1, <1>2, <1>3, TypeCorrect, PTL DEF Spec

\* In legacy mode a pod that carries no boost label has its original
\* resources, whatever requests fail, lose their answer or conflict, and
\* however often pods are created again under the same name: resources and
\* label are changed by one conditional Update (updateBoostPodLegacy).  With
\* the two requests of updateBoostPod this does not hold.
THEOREM LegacyUnlabelledCorrect ==
    ASSUME LegacyRevertMode
    PROVE  Spec => []UnlabelledPodsRestored
<1>1. Init => SingleRequest /\ UnlabelledPodsRestored
  BY DEF Init, ClusterInit, SingleRequest, UnlabelledPodsRestored
<1>2. TypeOK /\ SingleRequest /\ UnlabelledPodsRestored /\ [Next]_vars
        => SingleRequest' /\ UnlabelledPodsRestored'
  BY LegacyNext
<1> QED
  BY <1>1, <1>2, TypeCorrect, PTL DEF Spec

\* A pod waits among the orphans only while no registered boost selects it,
\* unless that boost waits for a pod condition: whatever the order in which
\* pods and boosts appear, change and go, the first boost that selects an
\* orphan takes it over (UpsertPod, mapOrphanedPods).
THEOREM OrphansCorrect == Spec => []OrphansUnmatched
<1>1. Init => OrphansInv
  BY DEF Init, OrphansInv
<1>2. TypeOK /\ OrphansInv /\ [Next]_vars => OrphansInv'
  BY OrphansNext
<1>3. TypeOK /\ OrphansInv => OrphansUnmatched
  <2>1. SUFFICES ASSUME TypeOK, OrphansInv, HandlerFree, NEW p \in Pods, orphanedPods[p] # 0,
                        NEW i \in MatchingBoosts(p)
                 PROVE  "PodCondition" \in boost[i].pol
    BY DEF OrphansUnmatched
  <2>2. handler.orphans = {}
    BY <2>1, TypeParts DEF HandlerFree, ThreadsOK, Idle
  <2>3. PICK b \in Boosts : i = regularBoosts[b] /\ Registered(b) /\ p \in boost[i].sel
    BY DEF MatchingBoosts, Registered
  <2> QED
    BY <2>1, <2>2, <2>3 DEF OrphansInv
<1> QED
  BY <1>1, <1>2, <1>3, TypeCorrect, PTL DEF Spec

\* When the controller is at rest, the status of every boost that does not
\* wait for a pod condition is what Reconcile would make it: every change of
\* the statistics, by pod events, loops or workers, leads to a reconcile.
THEOREM StatusCorrect == Spec => []StatusReported
<1>1. Init => StatusLed
  <2>1. SUFFICES ASSUME Init PROVE StatusLed
    OBVIOUS
  <2>2. /\ handler = Idle /\ reverts = {} /\ boostApi = [b \in Boosts |-> None]
    BY <2>1 DEF Init, ClusterInit
  <2> QED
    BY <2>2 DEF StatusLed, LoopsQueued, Idle
<1>2. TypeOK /\ StatusLed /\ [Next]_vars => StatusLed'
  BY StatusNext
<1>3. TypeOK /\ StatusLed /\ RegistryAgrees => StatusReported
  <2>1. SUFFICES ASSUME TypeOK, StatusLed, RegistryAgrees, boostEvents = <<>>, queue = {}, ~tick.on,
                        statusWrites < MaxStatusWrites, NEW b \in Boosts, boostApi[b] # None,
                        "PodCondition" \notin boostApi[b].pol
                 PROVE  ReconciledStatus(b) = status[b]
    BY DEF StatusReported, Quiet
  <2>2. EventsOf(boostEvents, b) = {}
    BY <2>1, EmptySeq DEF EventsOf
  <2>3. ~(statusWrites >= MaxStatusWrites)
    BY <2>1, TypeParts, ManagerAssumption DEF CountersOK
  <2>4. ~(Registered(b) /\ "PodCondition" \in boost[regularBoosts[b]].pol)
    BY <2>1 DEF RegistryAgrees
  <2>5. Reported(b)
    BY <2>1 DEF StatusLed
  <2> QED
    BY <2>1, <2>2, <2>3, <2>4, <2>5 DEF Reported
<1> QED
  BY <1>1, <1>2, <1>3, TypeCorrect, RegistryCorrect, PTL DEF Spec

\* No pod's resources are restored before its fixed duration has elapsed or it
\* has been seen to meet the condition.  In legacy mode this holds however
\* often pod names are used again, since an Update is refused unless it is of
\* the current version of the pod.  The patches of updateBoostPod name the pod
\* only: there it holds as long as no pod name is used again and, since a
\* patch refreshes an object that another reversion may be based on, boosts
\* all have fixed durations or all wait for conditions.
THEOREM NoEarlyRevertCorrect ==
    ASSUME \/ LegacyRevertMode
           \/ MaxUid <= 1 /\ ~(Allowed("PodCondition") /\ Allowed("FixedDuration"))
    PROVE  Spec => NoEarlyRevert
<1> DEFINE Inv == Undisturbed /\ EarlyInv
           Restored(p) == api[p] # None /\ api'[p] # None /\ api[p].res = "boosted" /\ api'[p].res = "init"
           Step == \A p \in Pods : Restored(p)
                     => \/ Allowed("FixedDuration") /\ <<p, api[p].uid>> \in due
                        \/ Allowed("PodCondition") /\ SeenReady(p)
<1>1. Init => Inv
  <2>1. SUFFICES ASSUME Init PROVE Inv
    OBVIOUS
  <2>2. /\ api = [p \in Pods |-> None] /\ watch = <<>> /\ mem = <<>> /\ handler = Idle
        /\ boostApi = [b \in Boosts |-> None] /\ boostEvents = <<>> /\ boost = <<>> /\ reverts = {}
    BY <2>1 DEF Init, ClusterInit
  <2>3. DOMAIN watch = {} /\ DOMAIN mem = {} /\ DOMAIN boostEvents = {} /\ DOMAIN boost = {}
    BY <2>2, EmptySeq
  <2>4. SingleRequest /\ OneUid
    BY <2>2, <2>3 DEF SingleRequest, OneUid, Idle
  <2>5. EarlyInv
    BY <2>2, <2>3 DEF EarlyInv, SpecsOnly
  <2> QED
    BY <2>4, <2>5 DEF Undisturbed
<1>2. ASSUME TypeOK, TypeOK', Inv, [Next]_vars, LegacyRevertMode => UnlabelledPodsRestored
      PROVE  Inv'
  <2>1. EarlyInv'
    BY <1>2, EarlyNext
  <2>2. CASE LegacyRevertMode
    BY <1>2, <2>1, <2>2, LegacyNext DEF Undisturbed
  <2>3. CASE ~LegacyRevertMode
    <3>1. OneUid'
      BY <1>2, <2>3, UidNext, TypePartsNext DEF Undisturbed
    <3> QED
      BY <1>2, <2>1, <2>3, <3>1 DEF Undisturbed, Allowed
  <2> QED
    BY <2>2, <2>3
<1>3. ASSUME TypeOK, Inv, [Next]_vars PROVE Step
  BY <1>3, EarlyStep
<1>4. CASE LegacyRevertMode
  <2>1. Spec => []UnlabelledPodsRestored
    BY <1>4, LegacyUnlabelledCorrect
  <2>2. TypeOK /\ TypeOK' /\ UnlabelledPodsRestored /\ Inv /\ [Next]_vars => Inv'
    BY <1>2
  <2> QED
    BY <1>1, <1>3, <2>1, <2>2, TypeCorrect, PTL DEF Spec, NoEarlyRevert
<1>5. CASE ~LegacyRevertMode
  <2>1. TypeOK /\ TypeOK' /\ Inv /\ [Next]_vars => Inv'
    BY <1>2, <1>5
  <2> QED
    BY <1>1, <1>3, <2>1, TypeCorrect, PTL DEF Spec, NoEarlyRevert
<1> QED
  BY <1>4, <1>5
=============================================================================
