---------------------------- MODULE BoostManager ----------------------------
(***************************************************************************)
(* The boost manager (internal/boost/manager.go), the boosts it registers  *)
(* (internal/boost/startupcpuboost.go), the event handlers that drive it   *)
(* (internal/controller/boost_controller.go, boost_pod_handler.go) and the *)
(* admission of pods, in one namespace.                                    *)
(*                                                                         *)
(* Threads.  The event handlers run under the manager's lock; handler is   *)
(* the one that holds it, with what is left of its loops.  The time check  *)
(* of the manager (tick) and its workers hold no manager lock.  A request  *)
(* that reverts a pod is an element of reverts: it is made under the lock  *)
(* of its boost, by the handler or by a worker, in two API requests (or in *)
(* one in legacy mode), between which users and kubelets go on.            *)
(***************************************************************************)
EXTENDS Cluster, FiniteSets

CONSTANTS
    LegacyRevertMode,  \* whether pods are reverted by one Update request
    Faults,            \* requests that may fail or lose their answer
    MaxFaults,         \* bound: failed or unanswered requests
    MaxRestarts,       \* bound: restarts of the controller
    MaxStatusWrites    \* bound: status updates

ASSUME ManagerAssumption ==
    /\ LegacyRevertMode \in BOOLEAN
    /\ Faults \subseteq {"resize", "labels", "update"} \X {"fail", "lost"}
    /\ IsFiniteSet(Pods) /\ IsFiniteSet(Boosts)
    /\ MaxFaults \in Nat /\ MaxRestarts \in Nat /\ MaxStatusWrites \in Nat

VARIABLES
    boost,          \* the heap of StartupCPUBoostImpl objects
    regularBoosts,  \* [Boosts -> pointer into boost]
    timedBoosts,    \* [Boosts -> pointer into boost]
    orphanedPods,   \* [Pods -> pointer into mem]
    configurations, \* the boost configurations gauge
    handler,        \* the event handler that holds the manager's lock
    reverts,        \* the reversions of pods asked for or in progress
    tick,           \* the time check of the manager
    queue,          \* the reconcile requests of StartupCPUBoostReconciler
    faults, restarts, statusWrites

managerVars == <<boost, regularBoosts, timedBoosts, orphanedPods,
                 configurations, handler, reverts, tick, queue>>
bounds == <<faults, restarts, statusWrites>>
vars == <<podVars, boostVars, managerVars, bounds>>

StartupCPUBoost ==
    [name : Boosts, sel : SUBSET Pods, pol : SUBSET {"FixedDuration", "PodCondition"},
     pods : [Pods -> Nat], active : Nat, total : Nat]
Revert == [by : {"handler", "worker"}, boost : Nat, ptr : Nat, step : {"resize", "labels"}]
Handler == [op : {"idle", "pod", "orphans", "sync"}, boost : Nat,
            orphans : SUBSET Pods, list : SUBSET PodObject]
Idle == [op |-> "idle", boost |-> 0, orphans |-> {}, list |-> {}]
Tick == [on : BOOLEAN, boosts : SUBSET Nat, done : SUBSET Boosts]
NoTick == [on |-> FALSE, boosts |-> {}, done |-> {}]

\* ptr is nil or points to an object of pod p.
PodPointer(ptr, p) == ptr \in 0..Len(mem) /\ (ptr # 0 => mem[ptr].pod = p)

\* Every pointer is nil or points to an object of the pod or boost it is filed
\* under, and what a thread is about to dereference is not nil.
\* The handler reverts one pod at a time.
PointersOK ==
    /\ \A p \in Pods : /\ api[p] # None => api[p].pod = p
                       /\ PodPointer(cache[p], p) /\ PodPointer(orphanedPods[p], p)
    /\ \A k \in DOMAIN podEvents : podEvents[k].new \in DOMAIN mem
    /\ \A b \in Boosts : /\ regularBoosts[b] \in 0..Len(boost)
                         /\ timedBoosts[b] \in 0..Len(boost)
                         /\ regularBoosts[b] # 0 => boost[regularBoosts[b]].name = b
    /\ \A i \in DOMAIN boost, p \in Pods : PodPointer(boost[i].pods[p], p)
    /\ \A r \in reverts : r.boost \in DOMAIN boost /\ r.ptr \in DOMAIN mem
    /\ \A r \in reverts : r.by = "handler" =>
          handler.op # "idle" /\ mem[r.ptr].pod \notin handler.orphans
    /\ IF handler.op = "idle" THEN handler = Idle ELSE handler.boost \in DOMAIN boost
    /\ \A p \in handler.orphans : handler.op = "orphans" /\ orphanedPods[p] # 0
    /\ \A r, t \in reverts : r.by = "handler" /\ t.by = "handler" => r = t
    /\ tick.boosts \subseteq DOMAIN boost

\* The types of the variables, and the pointers among them.
TypeOK ==
    /\ ClusterTypeOK
    /\ PointersOK
    /\ boost \in Seq(StartupCPUBoost)
    /\ regularBoosts \in [Boosts -> Nat]
    /\ timedBoosts \in [Boosts -> Nat]
    /\ orphanedPods \in [Pods -> Nat]
    /\ configurations \in Int
    /\ handler \in Handler
    /\ reverts \subseteq Revert
    /\ tick \in Tick
    /\ queue \subseteq Boosts
    /\ faults \in Nat /\ restarts \in Nat /\ statusWrites \in Nat

-----------------------------------------------------------------------------
\* Locks.  The handler keeps the lock of the boost it reverts a pod of; a
\* worker takes it with its first request and keeps it until the last one.
HandlerFree == handler.op = "idle"
HandlerReverting == \E r \in reverts : r.by = "handler"
Locked(i) == \E r \in reverts : r.boost = i /\ (r.by = "handler" \/ r.step = "labels")

-----------------------------------------------------------------------------
\* StartupCPUBoostImpl

ActiveContainerBoosts(pods, m) ==
    Cardinality({p \in Pods : pods[p] # 0 /\ boostContainersLen(m[pods[p]]) = 1})

NewStartupCPUBoost(b, s) ==
    [name |-> b, sel |-> s.sel, pol |-> s.pol,
     pods |-> [p \in Pods |-> 0], active |-> 0, total |-> 0]

\* Mutant: the total grows only with the first pod of the boost.
TrackingFirstOnly(b, ptr, m) ==
    LET p == m[ptr].pod
        pods == [b.pods EXCEPT ![p] = ptr]
    IN [b EXCEPT !.pods = pods,
                 !.active = ActiveContainerBoosts(pods, m),
                 !.total = IF \A q \in Pods : b.pods[q] = 0
                           THEN @ + boostContainersLen(m[ptr]) ELSE @]

\* UpsertPod up to the check of the POD condition policy, statistics included.
\* m is the heap the pointers are into.
Tracking(b, ptr, m) ==
    LET p == m[ptr].pod
        pods == [b.pods EXCEPT ![p] = ptr]
    IN [b EXCEPT !.pods = pods,
                 !.active = ActiveContainerBoosts(pods, m),
                 !.total = IF b.pods[p] = 0 THEN @ + boostContainersLen(m[ptr]) ELSE @]

\* Mutants: the number of active containers is counted down instead of being
\* counted again; all pods are dropped instead of one.
UntrackingCountsDown(b, p, m) ==
    [b EXCEPT !.pods = [@ EXCEPT ![p] = 0], !.active = @ - 1]
UntrackingAll(b, p, m) ==
    [b EXCEPT !.pods = [q \in Pods |-> 0], !.active = 0]

\* DeletePod, and the end of revertResources: pods are removed by name.
Untracking(b, p, m) ==
    LET pods == [b.pods EXCEPT ![p] = 0]
    IN [b EXCEPT !.pods = pods, !.active = ActiveContainerBoosts(pods, m)]

\* Mutant: the condition of a pod that is tracked already is not looked at.
ConditionMetOnce(b, obj) ==
    "PodCondition" \in b.pol /\ ~PodConditionValid(obj) /\ b.pods[obj.pod] = 0

ConditionMet(b, obj) == "PodCondition" \in b.pol /\ ~PodConditionValid(obj)

\* UpsertPod of boost i: the pod is tracked, and if its condition is met the
\* handler goes on to revert it.
UpsertBoostPod(i, ptr, m) ==
    /\ ~Locked(i)
    /\ boost' = [boost EXCEPT ![i] = Tracking(@, ptr, m)]
    /\ reverts' = reverts \cup
         {r \in {[by |-> "handler", boost |-> i, ptr |-> ptr, step |-> "resize"]} :
            ConditionMet(boost[i], m[ptr])}

\* getMatchingBoost: the boosts one of which the iteration meets first.
MatchingBoosts(p) == {regularBoosts[b] : b \in {c \in Boosts :
    regularBoosts[c] # 0 /\ p \in boost[regularBoosts[c]].sel}}

-----------------------------------------------------------------------------
\* boostPodHandler

\* Mutant: a pod that is not scheduled yet is ignored.
IgnoredUnscheduled(e) ==
    \/ ~HasBoostAnnotation(mem[e.new]) \/ mem[e.new].cond = "Pending"
    \/ e.type = "update" /\ mem[e.old].cond = mem[e.new].cond

\* The label predicate, and the comparison of the conditions in Update.
Ignored(e) ==
    \/ ~HasBoostAnnotation(mem[e.new])
    \/ e.type = "update" /\ mem[e.old].cond = mem[e.new].cond

NextPodEvent ==
    /\ HandlerFree /\ podEvents # <<>>
    /\ podEvents' = Tail(podEvents)
    /\ UNCHANGED <<api, uids, due, watch, mem, cache, boostVars, regularBoosts,
                   timedBoosts, configurations, tick, bounds>>

IgnorePodEvent ==
    /\ NextPodEvent
    /\ Ignored(Head(podEvents))
    /\ UNCHANGED <<boost, orphanedPods, handler, reverts, queue>>

\* Create and Update: managerImpl.UpsertPod.
UpsertPod ==
    /\ NextPodEvent
    /\ LET e == Head(podEvents)
           p == mem[e.new].pod
       IN /\ ~Ignored(e) /\ e.type # "delete"
          /\ \/ \E i \in MatchingBoosts(p) :
                  /\ UpsertBoostPod(i, e.new, mem)
                  /\ IF ConditionMet(boost[i], mem[e.new])
                     THEN /\ handler' = [Idle EXCEPT !.op = "pod", !.boost = i]
                          /\ UNCHANGED <<orphanedPods, queue>>
                     ELSE /\ orphanedPods' = [orphanedPods EXCEPT ![p] = 0]
                          /\ queue' = queue \cup {boost[i].name}
                          /\ UNCHANGED handler
             \/ /\ MatchingBoosts(p) = {}
                /\ orphanedPods' = [orphanedPods EXCEPT ![p] = e.new]
                /\ UNCHANGED <<boost, handler, reverts, queue>>

\* Delete: managerImpl.DeletePod.
DeletePod ==
    /\ NextPodEvent
    /\ LET e == Head(podEvents)
           p == mem[e.new].pod
       IN /\ ~Ignored(e) /\ e.type = "delete"
          /\ \/ \E i \in MatchingBoosts(p) :
                  /\ ~Locked(i)
                  /\ boost' = [boost EXCEPT ![i] = Untracking(@, p, mem)]
                  /\ queue' = queue \cup {boost[i].name}
                  /\ UNCHANGED orphanedPods
             \/ /\ MatchingBoosts(p) = {}
                /\ orphanedPods' = [orphanedPods EXCEPT ![p] = 0]
                /\ UNCHANGED <<boost, queue>>
    /\ UNCHANGED <<handler, reverts>>

-----------------------------------------------------------------------------
\* The boost event handlers of StartupCPUBoostReconciler.  Every event also
\* enqueues a reconcile request for its boost.

NextBoostEvent(type) ==
    /\ HandlerFree /\ boostEvents # <<>>
    /\ Head(boostEvents).type = type
    /\ boostEvents' = Tail(boostEvents)
    /\ queue' = queue \cup {Head(boostEvents).boost}
    /\ UNCHANGED <<podVars, boostApi, status, edits, orphanedPods, reverts,
                   tick, bounds>>

\* Mutant: the boost is not put among the timed ones.
PostProcessUntimed(i, b, s) ==
    /\ UNCHANGED timedBoosts
    /\ handler' = [op |-> "orphans", boost |-> i, list |-> {},
                   orphans |-> {p \in s.sel : orphanedPods[p] # 0}]

\* postProcessNewBoost of boost i, named b, of specification s, up to its loops.
PostProcessNewBoost(i, b, s) ==
    /\ timedBoosts' = IF "FixedDuration" \in s.pol
                      THEN [timedBoosts EXCEPT ![b] = i] ELSE timedBoosts
    /\ handler' = [op |-> "orphans", boost |-> i, list |-> {},
                   orphans |-> {p \in s.sel : orphanedPods[p] # 0}]

AddRegularCPUBoost ==
    /\ NextBoostEvent("create")
    /\ LET e == Head(boostEvents)
           i == Len(boost) + 1
       IN IF regularBoosts[e.boost] # 0
          THEN UNCHANGED <<boost, regularBoosts, timedBoosts, configurations, handler>>
          ELSE /\ boost' = Append(boost, NewStartupCPUBoost(e.boost, e.spec))
               /\ regularBoosts' = [regularBoosts EXCEPT ![e.boost] = i]
               /\ configurations' = configurations + 1
               /\ PostProcessNewBoost(i, e.boost, e.spec)

\* Mutant: the duration policies of the boost are not replaced.
UpdateKeepsPolicies ==
    /\ NextBoostEvent("update")
    /\ LET e == Head(boostEvents)
           i == regularBoosts[e.boost]
       IN IF i = 0
          THEN UNCHANGED <<boost, timedBoosts, handler>>
          ELSE /\ ~Locked(i)
               /\ boost' = [boost EXCEPT ![i].sel = e.spec.sel]
               /\ PostProcessNewBoost(i, e.boost, e.spec)
    /\ UNCHANGED <<regularBoosts, configurations>>

UpdateRegularCPUBoost ==
    /\ NextBoostEvent("update")
    /\ LET e == Head(boostEvents)
           i == regularBoosts[e.boost]
       IN IF i = 0
          THEN UNCHANGED <<boost, timedBoosts, handler>>
          ELSE /\ ~Locked(i)
               /\ boost' = [boost EXCEPT ![i].sel = e.spec.sel, ![i].pol = e.spec.pol]
               /\ PostProcessNewBoost(i, e.boost, e.spec)
    /\ UNCHANGED <<regularBoosts, configurations>>

\* Mutant: the boost stays among the timed ones.
DeleteKeepsTimed ==
    /\ NextBoostEvent("delete")
    /\ regularBoosts' = [regularBoosts EXCEPT ![Head(boostEvents).boost] = 0]
    /\ configurations' = configurations - 1
    /\ UNCHANGED <<boost, timedBoosts, handler>>

\* Mutant: the gauge is not counted down.
DeleteKeepsGauge ==
    /\ NextBoostEvent("delete")
    /\ LET b == Head(boostEvents).boost
       IN /\ regularBoosts' = [regularBoosts EXCEPT ![b] = 0]
          /\ timedBoosts' = [timedBoosts EXCEPT ![b] = 0]
    /\ UNCHANGED <<boost, configurations, handler>>

DeleteRegularCPUBoost ==
    /\ NextBoostEvent("delete")
    /\ LET b == Head(boostEvents).boost
       IN /\ regularBoosts' = [regularBoosts EXCEPT ![b] = 0]
          /\ timedBoosts' = [timedBoosts EXCEPT ![b] = 0]
    /\ configurations' = configurations - 1
    /\ UNCHANGED <<boost, handler>>

-----------------------------------------------------------------------------
\* The loops of mapOrphanedPods and syncBoostPods, under the manager's lock.

HandlerStep(op) ==
    /\ handler.op = op /\ ~HandlerReverting
    /\ UNCHANGED <<api, uids, due, watch, cache, podEvents, boostVars,
                   regularBoosts, timedBoosts, configurations, tick, queue, bounds>>

\* Mutant: the pod stays among the orphans.
MapKeepsOrphan(p) ==
    /\ HandlerStep("orphans")
    /\ p \in handler.orphans
    /\ UpsertBoostPod(handler.boost, orphanedPods[p], mem)
    /\ handler' = [handler EXCEPT !.orphans = @ \ {p}]
    /\ UNCHANGED <<mem, orphanedPods>>

MapOrphanedPod(p) ==
    /\ HandlerStep("orphans")
    /\ p \in handler.orphans
    /\ UpsertBoostPod(handler.boost, orphanedPods[p], mem)
    /\ orphanedPods' = IF ConditionMet(boost[handler.boost], mem[orphanedPods[p]])
                       THEN orphanedPods ELSE [orphanedPods EXCEPT ![p] = 0]
    /\ handler' = [handler EXCEPT !.orphans = @ \ {p}]
    /\ UNCHANGED mem

\* Mutant: no pod is listed.
ListNoPods ==
    /\ HandlerStep("orphans")
    /\ handler.orphans = {}
    /\ handler' = [handler EXCEPT !.op = "sync"]
    /\ UNCHANGED <<mem, boost, reverts, orphanedPods>>

\* The list is made of copies of the cached pods that carry the boost's label.
ListBoostPods ==
    /\ HandlerStep("orphans")
    /\ handler.orphans = {}
    /\ handler' = [handler EXCEPT !.op = "sync", !.list =
         {mem[cache[p]] : p \in {q \in Pods :
            cache[q] # 0 /\ mem[cache[q]].lab = boost[handler.boost].name}}]
    /\ UNCHANGED <<mem, boost, reverts, orphanedPods>>

SyncBoostPod(obj) ==
    /\ HandlerStep("sync") /\ ~Locked(handler.boost)
    /\ obj \in handler.list
    /\ handler' = [handler EXCEPT !.list = @ \ {obj}]
    /\ IF boost[handler.boost].pods[obj.pod] # 0
       THEN UNCHANGED <<mem, boost, reverts>>
       ELSE /\ mem' = Append(mem, obj)
            /\ UpsertBoostPod(handler.boost, Len(mem) + 1, mem')
    /\ UNCHANGED orphanedPods

HandlerReturn ==
    /\ HandlerStep("sync")
    /\ handler.list = {}
    /\ handler' = Idle
    /\ UNCHANGED <<mem, boost, reverts, orphanedPods>>

-----------------------------------------------------------------------------
\* revertResources

\* A request on pod p fails when the pod does not exist; otherwise it may be
\* answered, fail before it takes effect, or take effect and lose its answer.
Outcomes(request, p) ==
    IF api[p] = None THEN {"notfound"}
    ELSE {"ok"} \cup {o \in {"fail", "lost"} : <<request, o>> \in Faults /\ faults < MaxFaults}

\* The request of r ends with outcome o: srv is what it makes of the pod on
\* the API server, obj the object in memory that it was computed with.  The
\* client decodes the answer into the object in memory.
Request(r, o, srv, obj) ==
    /\ IF o \in {"ok", "lost"} THEN StorePod(obj.pod, srv) ELSE UNCHANGED <<api, watch>>
    /\ mem' = [mem EXCEPT ![r.ptr] = IF o = "ok" THEN api'[obj.pod] ELSE obj]
    /\ faults' = IF o \in {"fail", "lost"} THEN faults + 1 ELSE faults
    /\ UNCHANGED <<uids, due, cache, podEvents, boostVars, regularBoosts, timedBoosts,
                   configurations, restarts, statusWrites>>

\* Mutant: the manager does not learn of the pods its workers reverted.
EndRevertUnreported(r, ok) ==
    LET p == mem[r.ptr].pod
        b == boost[r.boost].name
    IN /\ reverts' = reverts \ {r}
       /\ boost' = IF ok THEN [boost EXCEPT ![r.boost] = Untracking(@, p, mem')] ELSE boost
       /\ handler' = IF r.by = "handler" /\ handler.op = "pod" THEN Idle ELSE handler
       /\ orphanedPods' = IF ok /\ r.by = "handler" /\ handler.op \in {"pod", "orphans"}
                          THEN [orphanedPods EXCEPT ![p] = 0] ELSE orphanedPods
       /\ queue' = IF ok /\ r.by = "handler" /\ handler.op = "pod"
                   THEN queue \cup {b} ELSE queue
       /\ UNCHANGED tick

\* revertResources returns, with or without an error, to the worker or to
\* the handler that called UpsertPod.
EndRevert(r, ok) ==
    LET p == mem[r.ptr].pod
        b == boost[r.boost].name
    IN /\ reverts' = reverts \ {r}
       /\ boost' = IF ok THEN [boost EXCEPT ![r.boost] = Untracking(@, p, mem')] ELSE boost
       /\ handler' = IF r.by = "handler" /\ handler.op = "pod" THEN Idle ELSE handler
       /\ orphanedPods' = IF ok /\ r.by = "handler" /\ handler.op \in {"pod", "orphans"}
                          THEN [orphanedPods EXCEPT ![p] = 0] ELSE orphanedPods
       /\ queue' = IF ok /\ r.by = "handler" /\ handler.op = "pod"
                   THEN queue \cup {b} ELSE queue
       /\ tick' = IF ok /\ r.by = "worker" THEN [tick EXCEPT !.done = @ \cup {b}] ELSE tick

\* Mutant: the label is removed by the first of the two requests.
RevertLabelsFirst(r) ==
    /\ ~LegacyRevertMode /\ r.step = "resize"
    /\ r.by = "worker" => ~Locked(r.boost)
    /\ LET old == mem[r.ptr]
           obj == revertBoostLabels(old)
       IN \E o \in Outcomes("labels", old.pod) :
            /\ Request(r, o, MergePatch(api[old.pod], old, obj), obj)
            /\ IF o = "ok"
               THEN /\ reverts' = (reverts \ {r}) \cup {[r EXCEPT !.step = "labels"]}
                    /\ UNCHANGED <<boost, handler, orphanedPods, queue, tick>>
               ELSE EndRevert(r, FALSE)

\* updateBoostPod: the resize request.  Computing the patch mutates the object.
RevertResources(r) ==
    /\ ~LegacyRevertMode /\ r.step = "resize"
    /\ r.by = "worker" => ~Locked(r.boost)
    /\ LET old == mem[r.ptr]
           obj == revertBoostResources(old)
       IN \E o \in Outcomes("resize", old.pod) :
            /\ Request(r, o, MergePatch(api[old.pod], old, obj), obj)
            /\ IF o = "ok"
               THEN /\ reverts' = (reverts \ {r}) \cup {[r EXCEPT !.step = "labels"]}
                    /\ UNCHANGED <<boost, handler, orphanedPods, queue, tick>>
               ELSE EndRevert(r, FALSE)

\* updateBoostPod: the request that removes the label and the annotation.
RevertLabels(r) ==
    /\ r.step = "labels"
    /\ LET old == mem[r.ptr]
           obj == revertBoostLabels(old)
       IN \E o \in Outcomes("labels", old.pod) :
            /\ Request(r, o, MergePatch(api[old.pod], old, obj), obj)
            /\ EndRevert(r, o = "ok")

\* Mutant: the update is not conditional on the version of the pod.
RevertLegacyUnconditional(r) ==
    /\ LegacyRevertMode /\ r.step = "resize"
    /\ r.by = "worker" => ~Locked(r.boost)
    /\ LET old == mem[r.ptr]
           obj == RevertResourceBoost(old)
           outcomes == IF HasBoostAnnotation(old)
                       THEN Outcomes("update", old.pod) ELSE {"conflict"}
       IN \E o \in outcomes :
            /\ Request(r, o, obj, IF HasBoostAnnotation(old) THEN obj ELSE old)
            /\ EndRevert(r, o = "ok")

\* updateBoostPodLegacy: one Update of the whole object, which the API server
\* refuses unless it is of the current version.  Without the annotation the
\* reversion fails before any request.
RevertLegacy(r) ==
    /\ LegacyRevertMode /\ r.step = "resize"
    /\ r.by = "worker" => ~Locked(r.boost)
    /\ LET old == mem[r.ptr]
           obj == RevertResourceBoost(old)
           current == api[old.pod] # None /\ api[old.pod].uid = old.uid /\ api[old.pod].rv = old.rv
           outcomes == IF HasBoostAnnotation(old) /\ current
                       THEN Outcomes("update", old.pod) ELSE {"conflict"}
       IN \E o \in outcomes :
            /\ Request(r, o, obj, IF HasBoostAnnotation(old) THEN obj ELSE old)
            /\ EndRevert(r, o = "ok")

-----------------------------------------------------------------------------
\* validateTimePolicyBoosts

TickStep(on) ==
    /\ tick.on = on
    /\ UNCHANGED <<podVars, boost, regularBoosts, timedBoosts, orphanedPods,
                   configurations, handler, faults, restarts>>

StartTick ==
    /\ TickStep(FALSE) /\ HandlerFree
    /\ tick' = [on |-> TRUE, done |-> {},
                boosts |-> {timedBoosts[b] : b \in Boosts} \ {0}]
    /\ UNCHANGED <<reverts, boostVars, queue, statusWrites>>

\* ValidatePolicy of boost i: a task for every pod past its fixed duration.
ValidatePolicy(i) ==
    /\ TickStep(TRUE) /\ i \in tick.boosts /\ ~Locked(i)
    /\ tick' = [tick EXCEPT !.boosts = @ \ {i}]
    /\ reverts' = reverts \cup
         {[by |-> "worker", boost |-> i, ptr |-> boost[i].pods[p], step |-> "resize"] :
           p \in {q \in Pods : /\ "FixedDuration" \in boost[i].pol
                               /\ boost[i].pods[q] # 0
                               /\ ~FixedDurationValid(mem[boost[i].pods[q]], due)}}
    /\ UNCHANGED <<boostVars, queue, statusWrites>>

TasksDone == tick.boosts = {} /\ \A r \in reverts : r.by # "worker"

EndTick ==
    /\ TickStep(TRUE) /\ TasksDone /\ tick.done = {}
    /\ tick' = NoTick
    /\ UNCHANGED <<reverts, boostVars, queue, statusWrites>>

-----------------------------------------------------------------------------
\* Reconcile

\* The status Reconcile computes for b.
ReconciledStatus(b) ==
    IF regularBoosts[b] = 0
    THEN [status[b] EXCEPT !.on = FALSE]
    ELSE [on |-> TRUE, active |-> boost[regularBoosts[b]].active,
          total |-> boost[regularBoosts[b]].total]

UpdateStatus(b) ==
    IF boostApi[b] = None \/ ReconciledStatus(b) = status[b]
    THEN UNCHANGED <<boostVars, statusWrites>>
    ELSE /\ statusWrites < MaxStatusWrites
         /\ statusWrites' = statusWrites + 1
         /\ StoreStatus(b, ReconciledStatus(b))

\* The work queue calls Reconcile.  A conflicting update is requeued.
Reconcile(b) ==
    /\ HandlerFree /\ b \in queue
    /\ UpdateStatus(b)
    /\ queue' = queue \ {b}
    /\ UNCHANGED <<podVars, boost, regularBoosts, timedBoosts, orphanedPods,
                   configurations, handler, reverts, tick, faults, restarts>>

\* At the end of a tick the manager calls Reconcile itself and drops its
\* result: an update that fails, or that conflicts because the boost read from
\* the cache was not the latest, is not repeated.
ReconcileAfterTick(b) ==
    /\ TickStep(TRUE) /\ TasksDone /\ HandlerFree
    /\ b \in tick.done
    /\ tick' = [tick EXCEPT !.done = @ \ {b}]
    /\ \/ UpdateStatus(b)
       \/ /\ \/ \E k \in DOMAIN boostEvents : boostEvents[k].boost = b
             \/ statusWrites = MaxStatusWrites
          /\ UNCHANGED <<boostVars, statusWrites>>
    /\ UNCHANGED <<reverts, queue>>

-----------------------------------------------------------------------------
\* podCPUBoostHandler.Handle: a new pod is boosted by a matching boost, unless
\* none matches or none of its containers can be boosted.
AdmitPod(p) ==
    /\ HandlerFree
    /\ \/ \E i \in MatchingBoosts(p) : StoreNewPod(p, boost[i].name)
       \/ StoreNewPod(p, None)
    /\ UNCHANGED <<managerVars, bounds>>

ClusterStep ==
    /\ \/ \E p \in Pods : \/ SetPodCondition(p) \/ TouchPod(p)
                          \/ RemovePod(p) \/ DurationElapses(p)
       \/ \E b \in Boosts : EditBoost(b)
    /\ UNCHANGED <<managerVars, bounds>>

Receive == InformerReceive /\ UNCHANGED <<managerVars, bounds>>

\* The process dies and starts again: all it had in memory is lost, and the
\* informers replay the existing objects as created, in any order.
Restart ==
    LET present == {p \in Pods : api[p] # None}
        existing == {b \in Boosts : boostApi[b] # None}
        orders(S) == {f \in [1..Cardinality(S) -> S] : {f[k] : k \in DOMAIN f} = S}
    IN /\ restarts < MaxRestarts /\ restarts' = restarts + 1
       /\ \E f \in orders(present) :
            /\ mem' = [k \in DOMAIN f |-> api[f[k]]]
            /\ cache' = [p \in Pods |-> IF p \in present
                                        THEN CHOOSE k \in DOMAIN f : f[k] = p ELSE 0]
            /\ podEvents' = [k \in DOMAIN f |-> [type |-> "create", old |-> 0, new |-> k]]
       /\ watch' = <<>>
       /\ \E g \in orders(existing) : boostEvents' =
            [k \in DOMAIN g |-> [type |-> "create", boost |-> g[k], spec |-> boostApi[g[k]]]]
       /\ boost' = <<>>
       /\ regularBoosts' = [b \in Boosts |-> 0] /\ timedBoosts' = [b \in Boosts |-> 0]
       /\ orphanedPods' = [p \in Pods |-> 0] /\ configurations' = 0
       /\ handler' = Idle /\ reverts' = {} /\ tick' = NoTick /\ queue' = {}
       /\ UNCHANGED <<api, uids, due, boostApi, status, edits, faults, statusWrites>>

Init ==
    /\ ClusterInit
    /\ boost = <<>>
    /\ regularBoosts = [b \in Boosts |-> 0] /\ timedBoosts = [b \in Boosts |-> 0]
    /\ orphanedPods = [p \in Pods |-> 0] /\ configurations = 0
    /\ handler = Idle /\ reverts = {} /\ tick = NoTick /\ queue = {}
    /\ faults = 0 /\ restarts = 0 /\ statusWrites = 0

HandlePodEvent == IgnorePodEvent \/ UpsertPod \/ DeletePod
HandleBoostEvent == AddRegularCPUBoost \/ UpdateRegularCPUBoost \/ DeleteRegularCPUBoost
HandlerLoop == \/ \E p \in Pods : MapOrphanedPod(p)
               \/ ListBoostPods
               \/ \E obj \in handler.list : SyncBoostPod(obj)
               \/ HandlerReturn
RevertStep(r) == RevertResources(r) \/ RevertLabels(r) \/ RevertLegacy(r)
TickAction == \/ StartTick \/ EndTick
              \/ \E i \in tick.boosts : ValidatePolicy(i)
              \/ \E b \in Boosts : ReconcileAfterTick(b)

Next ==
    \/ \E p \in Pods : AdmitPod(p)
    \/ ClusterStep
    \/ Receive
    \/ HandlePodEvent
    \/ HandleBoostEvent
    \/ HandlerLoop
    \/ \E r \in reverts : RevertStep(r)
    \/ TickAction
    \/ \E b \in Boosts : Reconcile(b)
    \/ Restart

Spec == Init /\ [][Next]_vars

\* Fairness: the informer, the event handlers, the workers, the ticker and
\* the reconciler are goroutines that are always scheduled again; users and
\* kubelets promise nothing.
Fairness ==
    /\ WF_vars(Receive)
    /\ WF_vars(HandlePodEvent)
    /\ WF_vars(HandleBoostEvent)
    /\ WF_vars(HandlerLoop)
    /\ WF_vars(\E r \in reverts : RevertStep(r))
    /\ WF_vars(TickAction)
    /\ \A b \in Boosts : WF_vars(Reconcile(b))
FairSpec == Spec /\ Fairness

-----------------------------------------------------------------------------
Registered(b) == regularBoosts[b] # 0
Quiet == watch = <<>> /\ podEvents = <<>> /\ boostEvents = <<>> /\ HandlerFree /\ reverts = {}

\* The time check covers every boost with a fixed duration: such a boost is in
\* timedBoosts as the very object that is registered, and timedBoosts holds no
\* object that is not registered any more (postProcessNewBoost,
\* DeleteRegularCPUBoost).
TimedBoostsRegistered ==
    \A b \in Boosts :
        /\ timedBoosts[b] # 0 => timedBoosts[b] = regularBoosts[b]
        /\ Registered(b) /\ "FixedDuration" \in boost[regularBoosts[b]].pol
             => timedBoosts[b] = regularBoosts[b]

\* A pod that carries no boost label any more has its original resources:
\* the label is what a later sync finds a boosted pod by, so it must not be
\* removed before the resources are restored (updateBoostPod,
\* updateBoostPodLegacy).
UnlabelledPodsRestored ==
    \A p \in Pods : api[p] # None /\ api[p].lab = None => api[p].res = "init"

\* When no event is on its way, every boosted pod is tracked by the boost it is
\* labelled with if that is registered and still selects it, through restarts,
\* boosts that are deleted and created again, and pods seen before their boost
\* (UpsertPod, mapOrphanedPods, syncBoostPods).
NoPodLeftBehind ==
    Quiet => \A p \in Pods, b \in Boosts :
        (/\ api[p] # None /\ api[p].res = "boosted" /\ api[p].lab = b
         /\ Registered(b) /\ p \in boost[regularBoosts[b]].sel)
            => boost[regularBoosts[b]].pods[p] # 0

\* A pod is orphaned only while no registered boost selects it, except one
\* that waits for a pod condition, which keeps the orphans it fails to revert
\* (UpsertPod, mapOrphanedPods).
OrphansUnmatched ==
    HandlerFree => \A p \in Pods : orphanedPods[p] # 0 =>
        \A i \in MatchingBoosts(p) : "PodCondition" \in boost[i].pol

\* Once all boost events are handled the manager knows exactly the boosts that
\* exist, with their current selector and duration policy, and the boost
\* configurations gauge counts them.
RegistryAgrees ==
    boostEvents = <<>> =>
        /\ \A b \in Boosts :
             /\ Registered(b) <=> boostApi[b] # None
             /\ Registered(b) => /\ boost[regularBoosts[b]].sel = boostApi[b].sel
                                 /\ boost[regularBoosts[b]].pol = boostApi[b].pol
        /\ configurations = Cardinality({b \in Boosts : Registered(b)})

\* When nothing is left to do, the status of a boost shows the statistics of
\* the registered boost (Reconcile, and the calls that enqueue it).  A boost
\* that waits for a pod condition is not reconciled when it fails to revert a
\* pod that it has begun to track.
StatusReported ==
    Quiet /\ queue = {} /\ ~tick.on /\ statusWrites < MaxStatusWrites =>
        \A b \in Boosts : boostApi[b] # None /\ "PodCondition" \notin boostApi[b].pol
                          => ReconciledStatus(b) = status[b]

\* More containers are never active than were boosted in total.
ActiveWithinTotal ==
    \A i \in DOMAIN boost : boost[i].active <= boost[i].total

SeenReady(p) == \E k \in DOMAIN mem :
    mem[k].pod = p /\ mem[k].uid = api[p].uid /\ mem[k].cond = "Ready"
Allowed(policy) == \E s \in Specs : policy \in s.pol

\* A pod's resources are restored no earlier than its policy says: its fixed
\* duration has elapsed, or it has been seen to meet the condition
\* (UpsertPod, validateTimePolicyBoosts, updateBoostPod).
NoEarlyRevert ==
    [][\A p \in Pods :
         api[p] # None /\ api'[p] # None /\ api[p].res = "boosted" /\ api'[p].res = "init"
           => \/ Allowed("FixedDuration") /\ <<p, api[p].uid>> \in due
              \/ Allowed("PodCondition") /\ SeenReady(p)]_vars

Overdue(p) ==
    /\ api[p] # None /\ api[p].res = "boosted" /\ <<p, api[p].uid>> \in due
    /\ \E b \in Boosts : /\ boostApi[b] # None /\ p \in boostApi[b].sel
                         /\ "FixedDuration" \in boostApi[b].pol

\* Every boosted pod whose fixed duration has elapsed is restored or deleted
\* in the end, as long as a boost with a fixed duration selects it
\* (validateTimePolicyBoosts).
EventuallyRestored == \A p \in Pods : []<>~Overdue(p)

ReadyAndBoosted(p) ==
    /\ api[p] # None /\ api[p].res = "boosted" /\ api[p].cond = "Ready"
    /\ \E b \in Boosts : /\ boostApi[b] # None /\ p \in boostApi[b].sel
                         /\ "PodCondition" \in boostApi[b].pol

\* Every boosted pod that stays ready is restored or deleted in the end, as
\* long as a boost that waits for this condition selects it (UpsertPod).
ConditionRestored == \A p \in Pods : []<>~ReadyAndBoosted(p)

\* No boost counts more boosted containers than pods were boosted
\* (TotalContainerBoosts in updateStats).
TotalWithinBoosted ==
    \A i \in DOMAIN boost :
        boost[i].total <= Cardinality({u \in Pods \X (1..MaxUid) : u[2] <= uids[u[1]]})

\* When no event is on its way, every tracked pod still exists (DeletePod).
TrackedPodsExist ==
    Quiet => \A b \in Boosts, p \in Pods :
        Registered(b) /\ boost[regularBoosts[b]].pods[p] # 0 => api[p] # None

=============================================================================
