---------------------------- MODULE GlobalBoost ----------------------------
(***************************************************************************)
(* The GlobalStartupCPUBoost controller                                    *)
(* (internal/controller/globalboost_controller.go): one worker that keeps  *)
(* a child StartupCPUBoost in every namespace a global boost selects, read *)
(* through informer caches that lag behind the API server.                 *)
(*                                                                         *)
(* A namespace selector is the set of namespace labels it matches.  The    *)
(* child of global boost g is named g; Own is any other name of a boost.   *)
(***************************************************************************)
EXTENDS Naturals, Sequences, FiniteSets

CONSTANTS
    Globals, Namespaces, Own, None,
    Labels,       \* labels of namespaces
    GlobalSpecs,  \* the specifications users give global boosts
    UserNames,    \* the names users give their own boosts
    Environments, \* what users may do, and what may go wrong, in one behaviour
    MaxEdits,     \* bound: steps of users and other controllers
    MaxFaults,    \* bound: failed or unanswered requests
    MaxRestarts   \* bound: restarts of the controller

Names == Globals \cup {Own}
GlobalSpec == [sel : SUBSET Labels, tmpl : Nat]
UserSteps == {"create", "retemplate", "reselect", "delete", "relabel", "own", "disown",
              "terminate", "touch"}

ASSUME GlobalAssumption ==
    /\ Own \notin Globals /\ None \notin Globals \cup Namespaces
    /\ GlobalSpecs \subseteq GlobalSpec
    /\ UserNames \subseteq Names
    /\ Environments \subseteq SUBSET (UserSteps \cup {"fail", "lost"})
    /\ MaxEdits \in Nat /\ MaxFaults \in Nat /\ MaxRestarts \in Nat

VARIABLES
    globals, namespaces, boosts,   \* the objects on the API server
    gWatch, nsWatch, bWatch,       \* changes the informers have not received
    gCache, nsCache, bCache,       \* the informers' caches
    queue,                         \* the requests of the work queue
    rec,                           \* the reconciliation in progress
    stale,                         \* the reconciled copy is not the latest version
    environment,                   \* the steps and faults of this behaviour
    edits, faults, restarts

gVars == <<globals, gWatch, stale>>
bVars == <<boosts, bWatch>>
caches == <<gCache, nsCache, bCache>>
nsVars == <<namespaces, nsWatch>>
vars == <<gVars, bVars, nsVars, caches, queue, rec, edits, faults, restarts,
          environment>>

Status == [set : BOOLEAN, active : SUBSET Namespaces, skipped : SUBSET Namespaces]
NoStatus == [set |-> FALSE, active |-> {}, skipped |-> {}]
GlobalObject == [spec : GlobalSpec, fin : BOOLEAN, del : BOOLEAN, status : Status]
NamespaceObject == [lab : Labels, del : BOOLEAN]
BoostObject == [label : Globals \cup {None}, tmpl : Nat]
Reconciliation ==
    [pc : {"idle", "namespaces", "ensure", "cleanup", "delete"},
     g : Globals \cup {None}, obj : GlobalObject \cup {None},
     at : Namespaces \cup {None}, todo : SUBSET Namespaces, desired : SUBSET Namespaces,
     active : SUBSET Namespaces, skipped : SUBSET Namespaces, list : SUBSET Namespaces]
Idle == [pc |-> "idle", g |-> None, obj |-> None, at |-> None, todo |-> {}, desired |-> {},
         active |-> {}, skipped |-> {}, list |-> {}]

\* The types of the variables.
GlobalTypeOK ==
    /\ globals \in [Globals -> GlobalObject \cup {None}]
    /\ gCache \in [Globals -> GlobalObject \cup {None}]
    /\ namespaces \in [Namespaces -> NamespaceObject \cup {None}]
    /\ nsCache \in [Namespaces -> NamespaceObject \cup {None}]
    /\ boosts \in [Namespaces -> [Names -> BoostObject \cup {None}]]
    /\ bCache \in [Namespaces -> [Names -> BoostObject \cup {None}]]
    /\ gWatch \in Seq(Globals \X (GlobalObject \cup {None}))
    /\ nsWatch \in Seq(Namespaces \X (NamespaceObject \cup {None}))
    /\ bWatch \in Seq(Namespaces \X Names \X (BoostObject \cup {None}))
    /\ queue \subseteq Globals
    /\ rec \in Reconciliation
    /\ rec.pc # "idle" => rec.g # None /\ rec.obj # None
    /\ rec.pc = "ensure" => rec.at # None
    /\ environment \in Environments
    /\ stale \in BOOLEAN /\ edits \in Nat /\ faults \in Nat /\ restarts \in Nat

-----------------------------------------------------------------------------
\* The API server.

\* Every write makes a new version, and the copy being reconciled an old one.
WriteGlobal(g, obj) ==
    /\ globals' = [globals EXCEPT ![g] = obj]
    /\ gWatch' = Append(gWatch, <<g, obj>>)
    /\ stale' = (stale \/ rec.g = g)

\* A version is cached when its change has been received, so the cached
\* version is the latest unless a change of the object is on its way.
CachedIsLatest(g) == \A k \in DOMAIN gWatch : gWatch[k][1] # g

StoreBoost(n, name, obj) ==
    /\ boosts' = [boosts EXCEPT ![n][name] = obj]
    /\ bWatch' = Append(bWatch, <<n, name, obj>>)

\* An update of a boost is refused unless it is based on the latest version.
CurrentBoost(n, name) ==
    /\ boosts[n][name] # None
    /\ \A k \in DOMAIN bWatch : <<bWatch[k][1], bWatch[k][2]>> # <<n, name>>

\* A request the API server would accept may also fail before it takes effect
\* ("fail") or lose its answer ("lost").
Outcomes(accepted) ==
    IF accepted
    THEN {"ok"} \cup {o \in {"fail", "lost"} \cap environment : faults < MaxFaults}
    ELSE {"refused"}
TakesEffect(o) == o \in {"ok", "lost"}
CountFault(o) == faults' = IF o \in {"fail", "lost"} THEN faults + 1 ELSE faults

-----------------------------------------------------------------------------
\* Reconcile

\* A step of the worker that neither starts nor touches a global boost.
WorkerStep(pc) ==
    /\ rec.pc = pc
    /\ UNCHANGED <<nsVars, caches, environment, edits, restarts>>

StartReconcile(g) ==
    /\ WorkerStep("idle") /\ g \in queue
    /\ UNCHANGED bVars

\* The reconciliation goes on with the cached copy.
ReadGlobal(g) ==
    /\ queue' = queue \ {g}
    /\ stale' = ~CachedIsLatest(g)
    /\ UNCHANGED <<globals, gWatch, faults>>

\* The object is gone, or is being deleted and cleaned up already.
ReconcileNothing(g) ==
    /\ StartReconcile(g)
    /\ ~(gCache[g] # None /\ (gCache[g].del => gCache[g].fin))
    /\ queue' = queue \ {g}
    /\ UNCHANGED <<gVars, rec, faults>>

\* Requeued whether or not the update succeeds.
AddFinalizer(g) ==
    /\ StartReconcile(g)
    /\ gCache[g] # None /\ ~gCache[g].del /\ ~gCache[g].fin
    /\ \E o \in Outcomes(CachedIsLatest(g)) :
         /\ IF TakesEffect(o) THEN WriteGlobal(g, [gCache[g] EXCEPT !.fin = TRUE])
            ELSE UNCHANGED gVars
         /\ CountFault(o)
    /\ UNCHANGED <<queue, rec>>

\* The namespaces a specification selects, as far as the cache knows.
DesiredNamespaces(spec) ==
    {n \in Namespaces : nsCache[n] # None /\ ~nsCache[n].del /\ nsCache[n].lab \in spec.sel}

ListNamespaces(g) ==
    /\ StartReconcile(g)
    /\ gCache[g] # None /\ ~gCache[g].del /\ gCache[g].fin
    /\ LET desired == DesiredNamespaces(gCache[g].spec)
       IN rec' = [Idle EXCEPT !.pc = "namespaces", !.g = g, !.obj = gCache[g],
                              !.todo = desired, !.desired = desired]
    /\ ReadGlobal(g)

hasUnmanagedBoosts(n, g) ==
    \E name \in Names : bCache[n][name] # None /\ bCache[n][name].label # g

\* Deletion by name; that the object is not found is no error.
DeleteBoost(n, name, o) ==
    IF TakesEffect(o) /\ boosts[n][name] # None THEN StoreBoost(n, name, None)
    ELSE UNCHANGED bVars

\* hasUnmanagedBoosts; a namespace with a boost of someone else is skipped
\* and deleteChildIfExists removes the child, ignoring errors.
CheckNamespace(n) ==
    /\ WorkerStep("namespaces") /\ n \in rec.todo
    /\ IF hasUnmanagedBoosts(n, rec.g)
       THEN /\ rec' = [rec EXCEPT !.todo = @ \ {n}, !.skipped = @ \cup {n}]
            /\ IF bCache[n][rec.g] = None \/ bCache[n][rec.g].label = None
               THEN UNCHANGED <<bVars, faults>>
               ELSE \E o \in Outcomes(TRUE) : DeleteBoost(n, rec.g, o) /\ CountFault(o)
       ELSE /\ rec' = [rec EXCEPT !.pc = "ensure", !.at = n]
            /\ UNCHANGED <<bVars, faults>>
    /\ UNCHANGED <<gVars, queue>>

\* What ensureChild asks the API server for, from the cached child.
ChildRequest(child, g, tmpl) ==
    CASE child = None       -> "create"
      [] child # None /\ child.label # g -> "refuse"
      [] child # None /\ child.label = g /\ child.tmpl # tmpl -> "update"
      [] OTHER              -> "nothing"

ChildAccepted(request, n, g) ==
    CASE request = "create" -> boosts[n][g] = None /\ namespaces[n] # None /\ ~namespaces[n].del
      [] request = "update" -> CurrentBoost(n, g)
      [] OTHER              -> FALSE

ensureChild ==
    /\ WorkerStep("ensure")
    /\ LET n == rec.at
           g == rec.g
           child == [label |-> g, tmpl |-> rec.obj.spec.tmpl]
           request == ChildRequest(bCache[n][g], g, child.tmpl)
           done == [rec EXCEPT !.pc = "namespaces", !.at = None, !.todo = @ \ {n}]
       IN \/ /\ request = "nothing"
             /\ rec' = [done EXCEPT !.active = @ \cup {n}]
             /\ UNCHANGED <<bVars, faults>>
          \/ /\ request # "nothing"
             /\ \E o \in Outcomes(ChildAccepted(request, n, g)) :
                  /\ IF TakesEffect(o) THEN StoreBoost(n, g, child) ELSE UNCHANGED bVars
                  /\ CountFault(o)
                  /\ rec' = IF o = "ok" THEN [done EXCEPT !.active = @ \cup {n}] ELSE done
    /\ UNCHANGED <<gVars, queue>>

\* Mutant: the children by their names, not by their namespaces.
ManagedBoostNames(g) ==
    {name \in Names : \E n \in Namespaces : bCache[n][name] # None /\ bCache[n][name].label = g}

\* The namespaces where the cache has a child of g.
ManagedBoosts(g) == {n \in Namespaces : bCache[n][g] # None /\ bCache[n][g].label = g}

\* cleanupStaleChildren: the children outside the active namespaces.
ListStaleChildren ==
    /\ WorkerStep("namespaces") /\ rec.todo = {}
    /\ rec' = [rec EXCEPT !.pc = "cleanup", !.list = ManagedBoosts(rec.g) \ rec.active]
    /\ UNCHANGED <<gVars, bVars, queue, faults>>

DeleteStaleChild(n) ==
    /\ WorkerStep("cleanup") /\ n \in rec.list
    /\ rec' = [rec EXCEPT !.list = @ \ {n}]
    /\ \E o \in Outcomes(TRUE) : DeleteBoost(n, rec.g, o) /\ CountFault(o)
    /\ UNCHANGED <<gVars, queue>>

\* Mutant: the skipped namespaces are not compared.
StatusActiveChanged(old, new) == ~old.set \/ new.active # old.active

StatusChanged(old, new) == new # old

\* updateStatus: written when it changed; a conflict or a failure is requeued,
\* a global boost that is gone is not.
UpdateStatus ==
    /\ WorkerStep("cleanup") /\ rec.list = {}
    /\ LET new == [set |-> TRUE, active |-> rec.active, skipped |-> rec.skipped]
       IN IF ~StatusChanged(rec.obj.status, new)
          THEN UNCHANGED <<gVars, queue, faults>>
          ELSE \E o \in Outcomes(~stale) :
                 /\ IF TakesEffect(o) THEN WriteGlobal(rec.g, [rec.obj EXCEPT !.status = new])
                    ELSE UNCHANGED gVars
                 /\ CountFault(o)
                 /\ queue' = IF o = "ok" \/ globals[rec.g] = None THEN queue
                             ELSE queue \cup {rec.g}
    /\ rec' = Idle
    /\ UNCHANGED bVars

\* handleDeletion
StartDeletion(g) ==
    /\ StartReconcile(g)
    /\ gCache[g] # None /\ gCache[g].del /\ gCache[g].fin
    /\ rec' = [Idle EXCEPT !.pc = "delete", !.g = g, !.obj = gCache[g],
                           !.list = ManagedBoosts(g)]
    /\ ReadGlobal(g)

\* Mutant: a failed request of the deletion is not repeated.
DeletionDropped(o) == FALSE

DeletionFailed(o) == o # "ok"

\* deleteAllChildren: the first error ends the reconciliation, to be retried.
DeleteChild(n) ==
    /\ WorkerStep("delete") /\ n \in rec.list
    /\ \E o \in Outcomes(TRUE) :
         /\ DeleteBoost(n, rec.g, o) /\ CountFault(o)
         /\ IF DeletionFailed(o)
            THEN rec' = Idle /\ queue' = queue \cup {rec.g}
            ELSE rec' = [rec EXCEPT !.list = @ \ {n}] /\ UNCHANGED queue
    /\ UNCHANGED gVars

\* The API server drops the object with its last finalizer.
RemoveFinalizer ==
    /\ WorkerStep("delete") /\ rec.list = {}
    /\ \E o \in Outcomes(~stale) :
         /\ IF TakesEffect(o) THEN WriteGlobal(rec.g, None) ELSE UNCHANGED gVars
         /\ CountFault(o)
         /\ queue' = IF DeletionFailed(o) THEN queue \cup {rec.g} ELSE queue
    /\ rec' = Idle
    /\ UNCHANGED bVars

-----------------------------------------------------------------------------
\* The informers, and what their events enqueue.

Informed == UNCHANGED <<globals, namespaces, boosts, stale, rec, environment, edits, faults,
                        restarts>>

ReceiveGlobal ==
    /\ gWatch # <<>>
    /\ gWatch' = Tail(gWatch)
    /\ gCache' = [gCache EXCEPT ![Head(gWatch)[1]] = Head(gWatch)[2]]
    /\ queue' = queue \cup {Head(gWatch)[1]}
    /\ Informed /\ UNCHANGED <<nsWatch, bWatch, nsCache, bCache>>

Selecting(ns) == {g \in Globals : gCache[g] # None /\ ns # None /\ ns.lab \in gCache[g].spec.sel}

\* Mutant: only the old version of the namespace is looked at.
mapOldNamespace(old, new) == Selecting(old)

\* Called with the old and the new version of the namespace.
mapNamespaceToGlobalBoosts(old, new) == Selecting(old) \cup Selecting(new)

ReceiveNamespace ==
    /\ nsWatch # <<>>
    /\ LET n == Head(nsWatch)[1]
           new == Head(nsWatch)[2]
       IN /\ nsWatch' = Tail(nsWatch)
          /\ nsCache' = [nsCache EXCEPT ![n] = new]
          /\ queue' = queue \cup mapNamespaceToGlobalBoosts(nsCache[n], new)
    /\ Informed /\ UNCHANGED <<gWatch, bWatch, gCache, bCache>>

\* Mutant: the events of boosts enqueue nothing.
mapNoBoost(n) == {}

\* Nothing is enqueued for an unknown namespace.
mapBoostToGlobalBoosts(n) == Selecting(nsCache[n])

ReceiveBoost ==
    /\ bWatch # <<>>
    /\ LET e == Head(bWatch)
       IN /\ bWatch' = Tail(bWatch)
          /\ bCache' = [bCache EXCEPT ![e[1]][e[2]] = e[3]]
          /\ queue' = queue \cup mapBoostToGlobalBoosts(e[1])
    /\ Informed /\ UNCHANGED <<gWatch, nsWatch, gCache, nsCache>>

-----------------------------------------------------------------------------
\* Users and other controllers.

UserStep(kind) ==
    /\ kind \in environment /\ edits < MaxEdits
    /\ edits' = edits + 1
    /\ UNCHANGED <<caches, queue, rec, environment, faults, restarts>>

CreateGlobal(g) ==
    /\ UserStep("create") /\ globals[g] = None
    /\ \E s \in GlobalSpecs : WriteGlobal(g, [spec |-> s, fin |-> FALSE, del |-> FALSE,
                                             status |-> NoStatus])
    /\ UNCHANGED <<bVars, nsVars>>

\* A user edits the template or the selector of a global boost.
EditGlobal(g) ==
    /\ globals[g] # None
    /\ \E s \in GlobalSpecs :
         /\ \/ UserStep("retemplate") /\ s = [globals[g].spec EXCEPT !.tmpl = s.tmpl]
            \/ UserStep("reselect") /\ s = [globals[g].spec EXCEPT !.sel = s.sel]
         /\ s # globals[g].spec
         /\ WriteGlobal(g, [globals[g] EXCEPT !.spec = s])
    /\ UNCHANGED <<bVars, nsVars>>

DeleteGlobal(g) ==
    /\ UserStep("delete") /\ globals[g] # None /\ ~globals[g].del
    /\ IF globals[g].fin THEN WriteGlobal(g, [globals[g] EXCEPT !.del = TRUE]) ELSE WriteGlobal(g, None)
    /\ UNCHANGED <<bVars, nsVars>>

StoreNamespace(n, obj) ==
    /\ namespaces' = [namespaces EXCEPT ![n] = obj]
    /\ nsWatch' = Append(nsWatch, <<n, obj>>)

\* A user creates a namespace or labels one differently.
LabelNamespace(n) ==
    /\ UserStep("relabel")
    /\ \E l \in Labels :
         \/ namespaces[n] = None /\ StoreNamespace(n, [lab |-> l, del |-> FALSE])
         \/ /\ namespaces[n] # None /\ namespaces[n].lab # l
            /\ StoreNamespace(n, [namespaces[n] EXCEPT !.lab = l])
    /\ UNCHANGED <<gVars, bVars>>

TerminateNamespace(n) ==
    /\ UserStep("terminate") /\ namespaces[n] # None /\ ~namespaces[n].del
    /\ StoreNamespace(n, [namespaces[n] EXCEPT !.del = TRUE])
    /\ UNCHANGED <<gVars, bVars>>

\* The namespace controller empties a namespace that terminates, then drops it.
EmptyNamespace(n) ==
    /\ namespaces[n] # None /\ namespaces[n].del
    /\ IF \A name \in Names : boosts[n][name] = None
       THEN StoreNamespace(n, None) /\ UNCHANGED bVars
       ELSE /\ \E name \in Names : boosts[n][name] # None /\ StoreBoost(n, name, None)
            /\ UNCHANGED nsVars
    /\ UNCHANGED <<gVars, caches, queue, rec, environment, edits, faults, restarts>>

CreateOwnBoost(n) ==
    /\ UserStep("own") /\ namespaces[n] # None /\ ~namespaces[n].del
    /\ \E name \in UserNames :
         boosts[n][name] = None /\ StoreBoost(n, name, [label |-> None, tmpl |-> 0])
    /\ UNCHANGED <<gVars, nsVars>>

\* A user deletes a boost, their own or a child.
DeleteAnyBoost(n) ==
    /\ UserStep("disown")
    /\ \E name \in Names : boosts[n][name] # None /\ StoreBoost(n, name, None)
    /\ UNCHANGED <<gVars, nsVars>>

\* The StartupCPUBoost controller writes the status of a boost: a new version
\* with the same specification.
TouchBoost(n) ==
    /\ UserStep("touch")
    /\ \E name \in Names : boosts[n][name] # None /\ StoreBoost(n, name, boosts[n][name])
    /\ UNCHANGED <<gVars, nsVars>>

\* The process restarts with fresh caches, which replay all global boosts.
Restart ==
    /\ restarts < MaxRestarts /\ restarts' = restarts + 1
    /\ gCache' = globals /\ nsCache' = namespaces /\ bCache' = boosts
    /\ gWatch' = <<>> /\ nsWatch' = <<>> /\ bWatch' = <<>>
    /\ queue' = {g \in Globals : globals[g] # None}
    /\ rec' = Idle /\ stale' = FALSE
    /\ UNCHANGED <<globals, namespaces, boosts, environment, edits, faults>>

Init ==
    /\ globals = [g \in Globals |-> None] /\ gCache = globals
    /\ namespaces \in [Namespaces -> {[lab |-> l, del |-> FALSE] : l \in Labels}]
    /\ nsCache = namespaces
    /\ boosts = [n \in Namespaces |-> [name \in Names |-> None]] /\ bCache = boosts
    /\ gWatch = <<>> /\ nsWatch = <<>> /\ bWatch = <<>>
    /\ queue = {} /\ rec = Idle
    /\ environment \in Environments
    /\ stale = FALSE /\ edits = 0 /\ faults = 0 /\ restarts = 0

Worker ==
    \/ \E g \in Globals : ReconcileNothing(g) \/ AddFinalizer(g) \/ ListNamespaces(g)
                          \/ StartDeletion(g)
    \/ \E n \in Namespaces : CheckNamespace(n) \/ DeleteStaleChild(n) \/ DeleteChild(n)
    \/ ensureChild \/ ListStaleChildren \/ UpdateStatus \/ RemoveFinalizer
UserAction ==
    \/ \E g \in Globals : CreateGlobal(g) \/ EditGlobal(g) \/ DeleteGlobal(g)
    \/ \E n \in Namespaces : \/ LabelNamespace(n) \/ TerminateNamespace(n)
                             \/ CreateOwnBoost(n) \/ DeleteAnyBoost(n) \/ TouchBoost(n)
Next ==
    \/ Worker
    \/ ReceiveGlobal \/ ReceiveNamespace \/ ReceiveBoost
    \/ UserAction
    \/ \E n \in Namespaces : EmptyNamespace(n)
    \/ Restart

Spec == Init /\ [][Next]_vars

\* Fairness: the worker and the informers are goroutines that are always
\* scheduled again, and a terminating namespace is emptied; users promise nothing.
FairSpec ==
    /\ Spec
    /\ WF_vars(Worker)
    /\ WF_vars(ReceiveGlobal) /\ WF_vars(ReceiveNamespace) /\ WF_vars(ReceiveBoost)
    /\ \A n \in Namespaces : WF_vars(EmptyNamespace(n))

-----------------------------------------------------------------------------
Quiet == /\ gWatch = <<>> /\ nsWatch = <<>> /\ bWatch = <<>> /\ queue = {} /\ rec = Idle
         /\ \A n \in Namespaces : namespaces[n] # None => ~namespaces[n].del
HasChild(g, n) == boosts[n][g] # None /\ boosts[n][g].label = g
Selected(g, n) == /\ globals[g] # None /\ ~globals[g].del
                  /\ namespaces[n] # None /\ namespaces[n].lab \in globals[g].spec.sel
NoRelabelling == environment \cap {"relabel", "reselect"} = {}
HasOwn(n) == \E name \in Names : boosts[n][name] # None /\ boosts[n][name].label = None
HasUnmanaged(g, n) == \E name \in Names : boosts[n][name] # None /\ boosts[n][name].label # g

\* As long as no request fails: when all is quiet every namespace that a global boost
\* selects and that holds no boost of a user or of another global boost has its
\* child, made from the current template (hasUnmanagedBoosts, ensureChild).
ChildrenPresent ==
    Quiet /\ faults = 0 => \A g \in Globals, n \in Namespaces :
        Selected(g, n) /\ ~HasUnmanaged(g, n) =>
            HasChild(g, n) /\ boosts[n][g].tmpl = globals[g].spec.tmpl

\* As long as no request fails and where labels and selectors stay as they are:
\* when all is quiet a global boost has children only in namespaces it selects
\* and that hold no boost of a user (deleteChildIfExists, cleanupStaleChildren).
NoStaleChildren ==
    Quiet /\ faults = 0 /\ NoRelabelling => \A g \in Globals, n \in Namespaces :
        globals[g] # None /\ HasChild(g, n) => Selected(g, n) /\ ~HasOwn(n)

\* As long as no request fails and where labels and selectors stay as they are:
\* when all is quiet the status of a global boost lists the namespaces that
\* have its child, and those it selects but skips (updateStatus).
StatusAgrees ==
    Quiet /\ faults = 0 /\ NoRelabelling => \A g \in Globals : globals[g] # None =>
        /\ globals[g].status.active = {n \in Namespaces : HasChild(g, n)}
        /\ globals[g].status.skipped = {n \in Namespaces : Selected(g, n) /\ HasOwn(n)}

\* The controller never deletes or overwrites a boost a user created
\* (deleteChildIfExists, cleanupStaleChildren, ensureChild).
OwnBoostsKept ==
    [][\A n \in Namespaces, name \in Names :
         (/\ boosts[n][name] # None /\ boosts[n][name].label = None
          /\ edits' = edits
          /\ namespaces[n] # None /\ ~namespaces[n].del)
         => boosts'[n][name] = boosts[n][name]]_vars

\* A global boost that is deleted is in the end gone: no failed request,
\* conflict or restart leaves its finalizer behind (handleDeletion).
DeletionFinishes ==
    \A g \in Globals : (globals[g] # None /\ globals[g].del) ~> globals[g] = None

\* When all is quiet no child is left of a global boost that is gone
\* (handleDeletion, deleteAllChildren).
ChildrenGone ==
    Quiet => \A g \in Globals, n \in Namespaces : globals[g] = None => ~HasChild(g, n)

\* Only the children in namespaces that are not selected any more, or that
\* are skipped, are cleaned up (cleanupStaleChildren).
StaleUnselected ==
    rec.pc = "cleanup" => \A n \in rec.list : n \notin rec.desired \/ n \in rec.skipped

\* When all is quiet a namespace is skipped only for a boost of a user
\* (hasUnmanagedBoosts).
SkippedForUsers ==
    Quiet => \A g \in Globals : globals[g] # None =>
        \A n \in globals[g].status.skipped : HasOwn(n)
=============================================================================
