------------------------------ MODULE Cluster ------------------------------
(***************************************************************************)
(* What surrounds the controller, as the code under internal/ uses it: the *)
(* pods and StartupCPUBoost objects of one namespace on the API server,    *)
(* the pod informer (a watch, a cache and a queue of events for the        *)
(* handler), and the event queue of the StartupCPUBoost objects.           *)
(*                                                                         *)
(* The informer hands out pointers: the object an event carries is the     *)
(* very object the cache holds until the next version arrives, and the     *)
(* controller mutates it in place.  mem is the heap of these objects and a *)
(* pointer is an index into it, 0 the nil pointer.                         *)
(***************************************************************************)
EXTENDS PodBoost, Integers, Sequences

CONSTANTS
    Specs,       \* the boost specifications users write, a subset of Spec
    MaxUid,      \* bound: incarnations of a pod name
    MaxVersion,  \* bound: versions of a pod that users and kubelets write
    MaxEdits     \* bound: creations, updates and deletions of boost objects

VARIABLES
    api,        \* [Pods -> PodObject or None]: the pods on the API server
    uids,       \* [Pods -> Nat]: UID of the latest incarnation
    due,        \* pods (by name and UID) whose fixed duration has elapsed
    watch,      \* pod changes the informer has not received yet
    mem,        \* the heap of in-memory pod objects
    cache,      \* [Pods -> pointer]: the pod informer's cache
    podEvents,  \* pod events waiting for boostPodHandler
    boostApi,   \* [Boosts -> Spec or None]: boost objects on the API server
    status,     \* [Boosts -> BoostStatus]: their status subresource
    boostEvents,\* boost events waiting for StartupCPUBoostReconciler
    edits       \* number of edits of boost objects so far

podVars == <<api, uids, due, watch, mem, cache, podEvents>>
boostVars == <<boostApi, status, boostEvents, edits>>

\* The pods a selector matches, and the duration policies: the validating
\* webhook admits exactly one.
BoostSpec == [sel : SUBSET Pods, pol : SUBSET {"FixedDuration", "PodCondition"}]

ASSUME ClusterAssumption ==
    /\ Specs \subseteq BoostSpec
    /\ None \notin BoostSpec \cup PodObject
    /\ MaxUid \in Nat /\ MaxVersion \in Nat /\ MaxEdits \in Nat

EventTypes == {"create", "update", "delete"}
PodChange == [type : EventTypes, obj : PodObject]
PodEvent == [type : EventTypes, old : Nat, new : Nat]
BoostEvent == [type : EventTypes, boost : Boosts, spec : BoostSpec]
BoostStatus == [on : BOOLEAN, active : Nat, total : Nat]
NoStatus == [on |-> FALSE, active |-> 0, total |-> 0]

-----------------------------------------------------------------------------
\* The API server stores a new version of pod p and notifies the watch.  A
\* request that changes nothing is not a write.
StorePod(p, obj) ==
    IF obj = api[p]
    THEN UNCHANGED <<api, watch>>
    ELSE /\ api' = [api EXCEPT ![p] = [obj EXCEPT !.rv = @ + 1]]
         /\ watch' = Append(watch, [type |-> "update", obj |-> api'[p]])

\* A pod is created, as the admission webhook left it: boosted by the boost
\* named lab, or not boosted (None).
StoreNewPod(p, lab) ==
    /\ api[p] = None /\ uids[p] < MaxUid
    /\ uids' = [uids EXCEPT ![p] = @ + 1]
    /\ api' = [api EXCEPT ![p] =
                 [pod |-> p, uid |-> uids'[p], rv |-> 1, cond |-> "Pending",
                  lab |-> lab, res |-> IF lab = None THEN "init" ELSE "boosted"]]
    /\ watch' = Append(watch, [type |-> "create", obj |-> api'[p]])
    /\ UNCHANGED <<due, mem, cache, podEvents, boostVars>>

\* The scheduler and the kubelet report conditions: a pod is scheduled, gets
\* ready and may cease to be ready.
SetPodCondition(p) ==
    /\ api[p] # None /\ api[p].rv < MaxVersion
    /\ \E c \in {"Scheduled", "Ready"} :
         /\ c # api[p].cond
         /\ api[p].cond = "Pending" => c = "Scheduled"
         /\ StorePod(p, [api[p] EXCEPT !.cond = c])
    /\ UNCHANGED <<uids, due, mem, cache, podEvents, boostVars>>

\* Someone writes a part of the pod the controller does not look at.
TouchPod(p) ==
    /\ api[p] # None /\ api[p].rv < MaxVersion
    /\ api' = [api EXCEPT ![p].rv = @ + 1]
    /\ watch' = Append(watch, [type |-> "update", obj |-> api'[p]])
    /\ UNCHANGED <<uids, due, mem, cache, podEvents, boostVars>>

RemovePod(p) ==
    /\ api[p] # None
    /\ api' = [api EXCEPT ![p] = None]
    /\ watch' = Append(watch, [type |-> "delete", obj |-> api[p]])
    /\ UNCHANGED <<uids, due, mem, cache, podEvents, boostVars>>

\* The fixed duration of a scheduled pod elapses.
DurationElapses(p) ==
    /\ api[p] # None /\ api[p].cond # "Pending"
    /\ <<p, api[p].uid>> \notin due
    /\ due' = due \cup {<<p, api[p].uid>>}
    /\ UNCHANGED <<api, uids, watch, mem, cache, podEvents, boostVars>>

\* The informer decodes the next change into a fresh object, puts it into
\* its cache and queues the event together with the object it replaced.
InformerReceive ==
    /\ watch # <<>>
    /\ LET n == Head(watch)
           ptr == Len(mem) + 1
       IN /\ mem' = Append(mem, n.obj)
          /\ cache' = [cache EXCEPT ![n.obj.pod] = IF n.type = "delete" THEN 0 ELSE ptr]
          /\ podEvents' = Append(podEvents,
                 [type |-> n.type, old |-> cache[n.obj.pod], new |-> ptr])
    /\ watch' = Tail(watch)
    /\ UNCHANGED <<api, uids, due, boostVars>>

-----------------------------------------------------------------------------
\* A user creates, edits or deletes a StartupCPUBoost object.
EditBoost(b) ==
    /\ edits < MaxEdits
    /\ edits' = edits + 1
    /\ \/ \E s \in Specs \ {boostApi[b]} :
            /\ boostApi' = [boostApi EXCEPT ![b] = s]
            /\ boostEvents' = Append(boostEvents,
                 [type |-> IF boostApi[b] = None THEN "create" ELSE "update",
                  boost |-> b, spec |-> s])
            /\ UNCHANGED status
       \/ /\ boostApi[b] # None
          /\ boostApi' = [boostApi EXCEPT ![b] = None]
          /\ boostEvents' = Append(boostEvents,
                 [type |-> "delete", boost |-> b, spec |-> boostApi[b]])
          /\ status' = [status EXCEPT ![b] = NoStatus]
    /\ UNCHANGED podVars

\* The status subresource of b is replaced: the boost informer delivers this
\* as an update of the whole object.
StoreStatus(b, s) ==
    /\ status' = [status EXCEPT ![b] = s]
    /\ boostEvents' = Append(boostEvents,
           [type |-> "update", boost |-> b, spec |-> boostApi[b]])
    /\ UNCHANGED <<boostApi, edits>>

-----------------------------------------------------------------------------
ClusterInit ==
    /\ api = [p \in Pods |-> None] /\ uids = [p \in Pods |-> 0] /\ due = {}
    /\ watch = <<>> /\ mem = <<>> /\ cache = [p \in Pods |-> 0] /\ podEvents = <<>>
    /\ boostApi = [b \in Boosts |-> None] /\ status = [b \in Boosts |-> NoStatus]
    /\ boostEvents = <<>> /\ edits = 0

ClusterTypeOK ==
    /\ api \in [Pods -> PodObject \cup {None}]
    /\ uids \in [Pods -> Nat]
    /\ due \subseteq Pods \X Nat
    /\ watch \in Seq(PodChange)
    /\ mem \in Seq(PodObject)
    /\ cache \in [Pods -> Nat]
    /\ podEvents \in Seq(PodEvent)
    /\ boostApi \in [Boosts -> BoostSpec \cup {None}]
    /\ status \in [Boosts -> BoostStatus]
    /\ boostEvents \in Seq(BoostEvent)
    /\ edits \in Nat
=============================================================================
