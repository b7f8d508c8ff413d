------------------------- MODULE GlobalBoostProofs -------------------------
(***************************************************************************)
(* Theorems about the controller of global boosts (module GlobalBoost),    *)
(* for any number of global boosts, namespaces, edits, faults and          *)
(* restarts: its variables keep their types, and while no request fails    *)
(* every child a global boost promises is there once all is quiet.         *)
(***************************************************************************)
EXTENDS GlobalBoost, TLAPS

\* The conjuncts of GlobalTypeOK, by what an action changes together.
ServerOK == /\ globals \in [Globals -> GlobalObject \cup {None}]
            /\ gWatch \in Seq(Globals \X (GlobalObject \cup {None}))
            /\ stale \in BOOLEAN
NamespacesOK == /\ namespaces \in [Namespaces -> NamespaceObject \cup {None}]
                /\ nsWatch \in Seq(Namespaces \X (NamespaceObject \cup {None}))
BoostsOK == /\ boosts \in [Namespaces -> [Names -> BoostObject \cup {None}]]
            /\ bWatch \in Seq(Namespaces \X Names \X (BoostObject \cup {None}))
CachesOK == /\ gCache \in [Globals -> GlobalObject \cup {None}]
            /\ nsCache \in [Namespaces -> NamespaceObject \cup {None}]
            /\ bCache \in [Namespaces -> [Names -> BoostObject \cup {None}]]
RecOK == /\ rec \in Reconciliation
         /\ rec.pc # "idle" => rec.g # None /\ rec.obj # None
         /\ rec.pc = "ensure" => rec.at # None
RestOK == /\ queue \subseteq Globals /\ environment \in Environments
          /\ edits \in Nat /\ faults \in Nat /\ restarts \in Nat

LEMMA GlobalParts ==
    GlobalTypeOK <=> ServerOK /\ NamespacesOK /\ BoostsOK /\ CachesOK /\ RecOK /\ RestOK
BY Zenon DEF GlobalTypeOK, ServerOK, NamespacesOK, BoostsOK, CachesOK, RecOK, RestOK

LEMMA GlobalPartsNext ==
    GlobalTypeOK' <=> ServerOK' /\ NamespacesOK' /\ BoostsOK' /\ CachesOK' /\ RecOK' /\ RestOK'
BY Zenon DEF GlobalTypeOK, ServerOK, NamespacesOK, BoostsOK, CachesOK, RecOK, RestOK

-----------------------------------------------------------------------------
\* The writes of the API server and the faults keep the types.

LEMMA WriteGlobalType ==
    ASSUME ServerOK, NEW g \in Globals, NEW obj \in GlobalObject \cup {None}, WriteGlobal(g, obj)
    PROVE  ServerOK'
BY DEF ServerOK, WriteGlobal

LEMMA StoreBoostType ==
    ASSUME BoostsOK, NEW n \in Namespaces, NEW name \in Names,
           NEW obj \in BoostObject \cup {None}, StoreBoost(n, name, obj)
    PROVE  BoostsOK'
<1>1. boosts' \in [Namespaces -> [Names -> BoostObject \cup {None}]]
  BY DEF BoostsOK, StoreBoost
<1>2. bWatch' \in Seq(Namespaces \X Names \X (BoostObject \cup {None}))
  BY DEF BoostsOK, StoreBoost
<1> QED
  BY <1>1, <1>2 DEF BoostsOK

LEMMA DeleteBoostType ==
    ASSUME BoostsOK, NEW n \in Namespaces, NEW name \in Names, NEW o, DeleteBoost(n, name, o)
    PROVE  BoostsOK'
<1>1. CASE StoreBoost(n, name, None)
  BY <1>1, StoreBoostType
<1>2. CASE UNCHANGED bVars
  BY <1>2 DEF bVars, BoostsOK
<1> QED
  BY <1>1, <1>2 DEF DeleteBoost

LEMMA StoreNamespaceType ==
    ASSUME NamespacesOK, NEW n \in Namespaces, NEW obj \in NamespaceObject \cup {None},
           StoreNamespace(n, obj)
    PROVE  NamespacesOK'
BY DEF NamespacesOK, StoreNamespace

LEMMA CountFaultType ==
    ASSUME faults \in Nat, NEW o, CountFault(o)
    PROVE  faults' \in Nat /\ (faults' = 0 => faults = 0 /\ o \notin {"fail", "lost"})
BY DEF CountFault

LEMMA IdleType == Idle \in Reconciliation /\ Idle.pc = "idle" /\ Idle.g = None
BY DEF Idle, Reconciliation

-----------------------------------------------------------------------------
\* Type correctness, one lemma for every action.

LEMMA WorkerFrame ==
    ASSUME NamespacesOK, CachesOK, NEW pc, WorkerStep(pc)
    PROVE  NamespacesOK' /\ CachesOK'
BY DEF NamespacesOK, CachesOK, WorkerStep, nsVars, caches

LEMMA ReconcileNothingType ==
    ASSUME GlobalTypeOK, NEW g \in Globals, ReconcileNothing(g)
    PROVE  GlobalTypeOK'
<1>1. NamespacesOK' /\ CachesOK'
  BY GlobalParts, WorkerFrame DEF ReconcileNothing, StartReconcile
<1>2. ServerOK' /\ BoostsOK' /\ RecOK'
  BY GlobalParts DEF ReconcileNothing, StartReconcile, gVars, bVars, ServerOK, BoostsOK, RecOK
<1>3. RestOK'
  BY GlobalParts DEF ReconcileNothing, StartReconcile, WorkerStep, RestOK
<1> QED
  BY <1>1, <1>2, <1>3, GlobalPartsNext

LEMMA AddFinalizerType ==
    ASSUME GlobalTypeOK, NEW g \in Globals, AddFinalizer(g)
    PROVE  GlobalTypeOK'
<1>1. NamespacesOK' /\ CachesOK'
  BY GlobalParts, WorkerFrame DEF AddFinalizer, StartReconcile
<1>2. BoostsOK' /\ RecOK'
  BY GlobalParts DEF AddFinalizer, StartReconcile, bVars, BoostsOK, RecOK
<1>3. RestOK'
  BY GlobalParts, CountFaultType DEF AddFinalizer, StartReconcile, WorkerStep, RestOK
<1>4. ServerOK'
  <2>1. [gCache[g] EXCEPT !.fin = TRUE] \in GlobalObject \cup {None}
    BY GlobalParts DEF AddFinalizer, CachesOK, GlobalObject
  <2>2. CASE WriteGlobal(g, [gCache[g] EXCEPT !.fin = TRUE])
    BY <2>1, <2>2, GlobalParts, WriteGlobalType
  <2>3. CASE UNCHANGED gVars
    BY <2>3, GlobalParts DEF gVars, ServerOK
  <2> QED
    BY <2>2, <2>3 DEF AddFinalizer
<1> QED
  BY <1>1, <1>2, <1>3, <1>4, GlobalPartsNext

LEMMA ReadGlobalType ==
    ASSUME GlobalTypeOK, NEW g \in Globals, StartReconcile(g), ReadGlobal(g), RecOK'
    PROVE  GlobalTypeOK'
<1>1. NamespacesOK' /\ CachesOK'
  BY GlobalParts, WorkerFrame DEF StartReconcile
<1>2. BoostsOK'
  BY GlobalParts DEF StartReconcile, bVars, BoostsOK
<1>3. ServerOK' /\ RestOK'
  BY GlobalParts DEF StartReconcile, WorkerStep, ReadGlobal, ServerOK, RestOK, CachedIsLatest
<1> QED
  BY <1>1, <1>2, <1>3, GlobalPartsNext

LEMMA ListNamespacesType ==
    ASSUME GlobalTypeOK, NEW g \in Globals, ListNamespaces(g)
    PROVE  GlobalTypeOK'
<1>1. gCache[g] \in GlobalObject /\ gCache[g] # None /\ g # None
  BY GlobalParts, GlobalAssumption DEF ListNamespaces, CachesOK
<1>2. DesiredNamespaces(gCache[g].spec) \subseteq Namespaces
  BY DEF DesiredNamespaces
<1>3. RecOK'
  BY <1>1, <1>2 DEF ListNamespaces, RecOK, Idle, Reconciliation
<1> QED
  BY <1>3, ReadGlobalType DEF ListNamespaces

LEMMA StartDeletionType ==
    ASSUME GlobalTypeOK, NEW g \in Globals, StartDeletion(g)
    PROVE  GlobalTypeOK'
<1>1. gCache[g] \in GlobalObject /\ gCache[g] # None /\ g # None
  BY GlobalParts, GlobalAssumption DEF StartDeletion, CachesOK
<1>2. ManagedBoosts(g) \subseteq Namespaces
  BY DEF ManagedBoosts
<1>3. RecOK'
  BY <1>1, <1>2 DEF StartDeletion, RecOK, Idle, Reconciliation
<1> QED
  BY <1>3, ReadGlobalType DEF StartDeletion

\* The reconciliation in progress is about a global boost.
LEMMA RecNames ==
    ASSUME GlobalTypeOK, rec.pc # "idle"
    PROVE  rec.g \in Globals /\ rec.g \in Names /\ rec.obj \in GlobalObject
BY GlobalParts DEF RecOK, Reconciliation, Names

\* What the worker's steps do to it, field by field.
LEMMA RecTodo ==
    ASSUME NEW r \in Reconciliation, NEW n \in Namespaces
    PROVE  [r EXCEPT !.todo = @ \ {n}, !.skipped = @ \cup {n}] \in Reconciliation
BY DEF Reconciliation

LEMMA RecEnsure ==
    ASSUME NEW r \in Reconciliation, NEW n \in Namespaces
    PROVE  [r EXCEPT !.pc = "ensure", !.at = n] \in Reconciliation
BY DEF Reconciliation

LEMMA RecDone ==
    ASSUME NEW r \in Reconciliation, NEW n \in Namespaces
    PROVE  [r EXCEPT !.pc = "namespaces", !.at = None, !.todo = @ \ {n}] \in Reconciliation
BY DEF Reconciliation

LEMMA RecActive ==
    ASSUME NEW r \in Reconciliation, NEW n \in Namespaces
    PROVE  [r EXCEPT !.active = @ \cup {n}] \in Reconciliation
BY DEF Reconciliation

LEMMA CheckNamespaceType ==
    ASSUME GlobalTypeOK, NEW n \in Namespaces, CheckNamespace(n)
    PROVE  GlobalTypeOK'
<1>1. NamespacesOK' /\ CachesOK'
  BY GlobalParts, WorkerFrame DEF CheckNamespace
<1>2. ServerOK'
  BY GlobalParts DEF CheckNamespace, gVars, ServerOK
<1>3. RestOK'
  BY GlobalParts, CountFaultType DEF CheckNamespace, WorkerStep, RestOK
<1>4. rec.pc = "namespaces" /\ rec.g \in Names
  BY RecNames DEF CheckNamespace, WorkerStep
<1>5. BoostsOK'
  <2>1. CASE UNCHANGED bVars
    BY <2>1, GlobalParts DEF bVars, BoostsOK
  <2>2. CASE \E o \in Outcomes(TRUE) : DeleteBoost(n, rec.g, o)
    BY <1>4, <2>2, GlobalParts, DeleteBoostType
  <2> QED
    BY <2>1, <2>2 DEF CheckNamespace
<1>6. RecOK'
  <2>1. \/ rec' = [rec EXCEPT !.todo = @ \ {n}, !.skipped = @ \cup {n}]
        \/ rec' = [rec EXCEPT !.pc = "ensure", !.at = n]
    BY DEF CheckNamespace
  <2>2. n # None /\ rec \in Reconciliation /\ rec.g # None /\ rec.obj # None
    BY <1>4, GlobalParts, GlobalAssumption DEF RecOK
  <2>3. rec' \in Reconciliation
    BY <2>1, <2>2, RecTodo, RecEnsure
  <2>4. rec'.g = rec.g /\ rec'.obj = rec.obj /\ (rec'.pc = "ensure" => rec'.at = n)
    BY <1>4, <2>1, <2>2 DEF Reconciliation
  <2> QED
    BY <2>2, <2>3, <2>4 DEF RecOK
<1> QED
  BY <1>1, <1>2, <1>3, <1>5, <1>6, GlobalPartsNext

LEMMA EnsureChildType ==
    ASSUME GlobalTypeOK, ensureChild
    PROVE  GlobalTypeOK'
<1> DEFINE n == rec.at
           child == [label |-> rec.g, tmpl |-> rec.obj.spec.tmpl]
           done == [rec EXCEPT !.pc = "namespaces", !.at = None, !.todo = @ \ {n}]
<1>1. NamespacesOK' /\ CachesOK'
  BY GlobalParts, WorkerFrame DEF ensureChild
<1>2. ServerOK'
  BY GlobalParts DEF ensureChild, gVars, ServerOK
<1>3. RestOK'
  BY GlobalParts, CountFaultType DEF ensureChild, WorkerStep, RestOK
<1>4. rec.pc = "ensure" /\ rec.g \in Names /\ rec.g \in Globals /\ rec.obj \in GlobalObject
  BY RecNames DEF ensureChild, WorkerStep
<1>5. n \in Namespaces /\ rec \in Reconciliation /\ rec.g # None /\ rec.obj # None
  BY <1>4, GlobalParts DEF RecOK, Reconciliation
<1>6. child \in BoostObject
  BY <1>4 DEF GlobalObject, GlobalSpec, BoostObject
<1>7. BoostsOK'
  <2>1. CASE UNCHANGED bVars
    BY <2>1, GlobalParts DEF bVars, BoostsOK
  <2>2. CASE StoreBoost(n, rec.g, child)
    BY <1>4, <1>5, <1>6, <2>2, GlobalParts, StoreBoostType
  <2> QED
    BY <2>1, <2>2 DEF ensureChild
<1>8. RecOK'
  <2>1. rec' = done \/ rec' = [done EXCEPT !.active = @ \cup {n}]
    BY DEF ensureChild
  <2>2. done \in Reconciliation
    BY <1>5, RecDone
  <2>3. done.g = rec.g /\ done.obj = rec.obj /\ done.pc = "namespaces"
    BY <1>5 DEF Reconciliation
  <2> HIDE DEF done
  <2>4. rec' \in Reconciliation
    BY <1>5, <2>1, <2>2, RecActive
  <2>5. rec'.g = done.g /\ rec'.obj = done.obj /\ rec'.pc = done.pc
    BY <2>1, <2>2 DEF Reconciliation
  <2> QED
    BY <1>5, <2>3, <2>4, <2>5 DEF RecOK
<1> QED
  BY <1>1, <1>2, <1>3, <1>7, <1>8, GlobalPartsNext

LEMMA ListStaleChildrenType ==
    ASSUME GlobalTypeOK, ListStaleChildren
    PROVE  GlobalTypeOK'
<1>1. NamespacesOK' /\ CachesOK'
  BY GlobalParts, WorkerFrame DEF ListStaleChildren
<1>2. ServerOK' /\ BoostsOK'
  BY GlobalParts DEF ListStaleChildren, gVars, bVars, ServerOK, BoostsOK
<1>3. RestOK'
  BY GlobalParts DEF ListStaleChildren, WorkerStep, RestOK
<1>4. ManagedBoosts(rec.g) \ rec.active \subseteq Namespaces
  BY DEF ManagedBoosts
<1>5. /\ rec' = [rec EXCEPT !.pc = "cleanup", !.list = ManagedBoosts(rec.g) \ rec.active]
      /\ rec.pc = "namespaces"
  BY DEF ListStaleChildren, WorkerStep
<1>6. RecOK'
  BY <1>4, <1>5, GlobalParts DEF RecOK, Reconciliation
<1> QED
  BY <1>1, <1>2, <1>3, <1>6, GlobalPartsNext

\* A deletion of a child that leaves the worker's list shorter or the worker idle.
LEMMA ChildDeletedType ==
    ASSUME GlobalTypeOK, NEW pc \in {"cleanup", "delete"}, WorkerStep(pc), NEW n \in Namespaces,
           NEW o, DeleteBoost(n, rec.g, o), CountFault(o), UNCHANGED gVars,
           queue' = queue \/ queue' = queue \cup {rec.g},
           rec' = [rec EXCEPT !.list = @ \ {n}] \/ rec' = Idle
    PROVE  GlobalTypeOK'
<1>1. NamespacesOK' /\ CachesOK'
  BY GlobalParts, WorkerFrame
<1>2. ServerOK'
  BY GlobalParts DEF gVars, ServerOK
<1>3. rec.pc = pc /\ rec.g \in Globals /\ rec.g \in Names
  BY RecNames DEF WorkerStep
<1>4. BoostsOK'
  BY <1>3, GlobalParts, DeleteBoostType
<1>5. RestOK'
  <2>1. faults' \in Nat
    BY GlobalParts, CountFaultType DEF RestOK
  <2> QED
    BY <1>3, <2>1, GlobalParts DEF WorkerStep, RestOK
<1>6. RecOK'
  <2>1. CASE rec' = [rec EXCEPT !.list = @ \ {n}]
    BY <1>3, <2>1, GlobalParts DEF RecOK, Reconciliation
  <2>2. CASE rec' = Idle
    BY <2>2, IdleType DEF RecOK
  <2> QED
    BY <2>1, <2>2
<1> QED
  BY <1>1, <1>2, <1>4, <1>5, <1>6, GlobalPartsNext

LEMMA DeleteStaleChildType ==
    ASSUME GlobalTypeOK, NEW n \in Namespaces, DeleteStaleChild(n)
    PROVE  GlobalTypeOK'
BY ChildDeletedType DEF DeleteStaleChild

LEMMA DeleteChildType ==
    ASSUME GlobalTypeOK, NEW n \in Namespaces, DeleteChild(n)
    PROVE  GlobalTypeOK'
<1>1. PICK o \in Outcomes(TRUE) :
        /\ DeleteBoost(n, rec.g, o) /\ CountFault(o)
        /\ rec' = [rec EXCEPT !.list = @ \ {n}] \/ rec' = Idle
        /\ queue' = queue \/ queue' = queue \cup {rec.g}
  BY DEF DeleteChild
<1> QED
  BY <1>1, ChildDeletedType DEF DeleteChild

\* The last write of a reconciliation, after which the worker is idle.
LEMMA LastWriteType ==
    ASSUME GlobalTypeOK, NEW pc \in {"cleanup", "delete"}, WorkerStep(pc),
           NEW obj \in GlobalObject \cup {None}, WriteGlobal(rec.g, obj) \/ UNCHANGED gVars,
           faults' \in Nat, queue' = queue \/ queue' = queue \cup {rec.g},
           rec' = Idle, UNCHANGED bVars
    PROVE  GlobalTypeOK'
<1>1. NamespacesOK' /\ CachesOK'
  BY GlobalParts, WorkerFrame
<1>2. BoostsOK' /\ RecOK'
  BY GlobalParts, IdleType DEF bVars, BoostsOK, RecOK
<1>3. rec.g \in Globals
  BY RecNames DEF WorkerStep
<1>4. RestOK'
  BY <1>3, GlobalParts DEF WorkerStep, RestOK
<1>5. ServerOK'
  <2>1. CASE WriteGlobal(rec.g, obj)
    BY <1>3, <2>1, GlobalParts, WriteGlobalType
  <2>2. CASE UNCHANGED gVars
    BY <2>2, GlobalParts DEF gVars, ServerOK
  <2> QED
    BY <2>1, <2>2
<1> QED
  BY <1>1, <1>2, <1>4, <1>5, GlobalPartsNext

LEMMA UpdateStatusType ==
    ASSUME GlobalTypeOK, UpdateStatus
    PROVE  GlobalTypeOK'
<1> DEFINE new == [set |-> TRUE, active |-> rec.active, skipped |-> rec.skipped]
           obj == [rec.obj EXCEPT !.status = new]
<1>1. WorkerStep("cleanup") /\ rec' = Idle /\ UNCHANGED bVars
  BY DEF UpdateStatus
<1>2. rec.obj \in GlobalObject /\ rec \in Reconciliation
  BY <1>1, RecNames, GlobalParts DEF WorkerStep, RecOK
<1>3. new \in Status
  BY <1>2 DEF Reconciliation, Status
<1>4. obj \in GlobalObject
  <2> HIDE DEF new
  <2> QED
    BY <1>2, <1>3 DEF GlobalObject
<1>5. /\ WriteGlobal(rec.g, obj) \/ UNCHANGED gVars
      /\ queue' = queue \/ queue' = queue \cup {rec.g}
  BY DEF UpdateStatus
<1>6. faults' \in Nat
  BY GlobalParts, CountFaultType DEF UpdateStatus, RestOK
<1> HIDE DEF new, obj
<1> QED
  BY <1>1, <1>4, <1>5, <1>6, LastWriteType

LEMMA RemoveFinalizerType ==
    ASSUME GlobalTypeOK, RemoveFinalizer
    PROVE  GlobalTypeOK'
<1>1. faults' \in Nat
  BY GlobalParts, CountFaultType DEF RemoveFinalizer, RestOK
<1>2. /\ WriteGlobal(rec.g, None) \/ UNCHANGED gVars
      /\ queue' = queue \/ queue' = queue \cup {rec.g}
  BY DEF RemoveFinalizer
<1> QED
  BY <1>1, <1>2, LastWriteType DEF RemoveFinalizer

LEMMA InformedFrame ==
    ASSUME GlobalTypeOK, Informed
    PROVE  /\ globals' \in [Globals -> GlobalObject \cup {None}] /\ stale' \in BOOLEAN
           /\ namespaces' \in [Namespaces -> NamespaceObject \cup {None}]
           /\ boosts' \in [Namespaces -> [Names -> BoostObject \cup {None}]]
           /\ RecOK' /\ (queue' \subseteq Globals => RestOK')
BY GlobalParts DEF Informed, ServerOK, NamespacesOK, BoostsOK, RecOK, RestOK

LEMMA ReceiveGlobalType ==
    ASSUME GlobalTypeOK, ReceiveGlobal
    PROVE  GlobalTypeOK'
<1>1. Head(gWatch) \in Globals \X (GlobalObject \cup {None})
  BY GlobalParts DEF ReceiveGlobal, ServerOK
<1>2. gWatch' \in Seq(Globals \X (GlobalObject \cup {None}))
  BY GlobalParts DEF ReceiveGlobal, ServerOK
<1>3. CachesOK'
  BY <1>1, GlobalParts DEF ReceiveGlobal, CachesOK
<1>4. queue' \subseteq Globals
  BY <1>1, GlobalParts DEF ReceiveGlobal, RestOK
<1>5. nsWatch' = nsWatch /\ bWatch' = bWatch /\ Informed
  BY DEF ReceiveGlobal
<1> QED
  BY <1>2, <1>3, <1>4, <1>5, InformedFrame, GlobalParts, GlobalPartsNext
     DEF ServerOK, NamespacesOK, BoostsOK

LEMMA ReceiveNamespaceType ==
    ASSUME GlobalTypeOK, ReceiveNamespace
    PROVE  GlobalTypeOK'
<1>1. Head(nsWatch) \in Namespaces \X (NamespaceObject \cup {None})
  BY GlobalParts DEF ReceiveNamespace, NamespacesOK
<1>2. nsWatch' \in Seq(Namespaces \X (NamespaceObject \cup {None}))
  BY GlobalParts DEF ReceiveNamespace, NamespacesOK
<1>3. CachesOK'
  BY <1>1, GlobalParts DEF ReceiveNamespace, CachesOK
<1>4. queue' \subseteq Globals
  BY GlobalParts DEF ReceiveNamespace, RestOK, mapNamespaceToGlobalBoosts, Selecting
<1>5. gWatch' = gWatch /\ bWatch' = bWatch /\ Informed
  BY DEF ReceiveNamespace
<1> QED
  BY <1>2, <1>3, <1>4, <1>5, InformedFrame, GlobalParts, GlobalPartsNext
     DEF ServerOK, NamespacesOK, BoostsOK

LEMMA ReceiveBoostType ==
    ASSUME GlobalTypeOK, ReceiveBoost
    PROVE  GlobalTypeOK'
<1>1. Head(bWatch) \in Namespaces \X Names \X (BoostObject \cup {None})
  BY GlobalParts DEF ReceiveBoost, BoostsOK
<1>2. bWatch' \in Seq(Namespaces \X Names \X (BoostObject \cup {None}))
  BY GlobalParts DEF ReceiveBoost, BoostsOK
<1>3. CachesOK'
  BY <1>1, GlobalParts DEF ReceiveBoost, CachesOK
<1>4. queue' \subseteq Globals
  BY GlobalParts DEF ReceiveBoost, RestOK, mapBoostToGlobalBoosts, Selecting
<1>5. gWatch' = gWatch /\ nsWatch' = nsWatch /\ Informed
  BY DEF ReceiveBoost
<1> QED
  BY <1>2, <1>3, <1>4, <1>5, InformedFrame, GlobalParts, GlobalPartsNext
     DEF ServerOK, NamespacesOK, BoostsOK

LEMMA UserFrame ==
    ASSUME GlobalTypeOK, NEW kind, UserStep(kind)
    PROVE  CachesOK' /\ RecOK' /\ RestOK'
BY GlobalParts DEF UserStep, caches, CachesOK, RecOK, RestOK

\* A user writes a global boost.
LEMMA UserGlobalType ==
    ASSUME GlobalTypeOK, NEW g \in Globals,
           CreateGlobal(g) \/ EditGlobal(g) \/ DeleteGlobal(g)
    PROVE  GlobalTypeOK'
<1>1. CachesOK' /\ RecOK' /\ RestOK'
  BY UserFrame DEF CreateGlobal, EditGlobal, DeleteGlobal
<1>2. BoostsOK' /\ NamespacesOK'
  BY GlobalParts DEF CreateGlobal, EditGlobal, DeleteGlobal, bVars, nsVars, BoostsOK, NamespacesOK
<1>3. globals[g] \in GlobalObject \cup {None}
  BY GlobalParts DEF ServerOK
<1>4. \E obj \in GlobalObject \cup {None} : WriteGlobal(g, obj)
  <2>1. CASE CreateGlobal(g)
    <3>1. PICK s \in GlobalSpecs : WriteGlobal(g, [spec |-> s, fin |-> FALSE, del |-> FALSE,
                                                  status |-> NoStatus])
      BY <2>1 DEF CreateGlobal
    <3>2. s \in GlobalSpec /\ NoStatus \in Status
      BY GlobalAssumption DEF NoStatus, Status
    <3>3. [spec |-> s, fin |-> FALSE, del |-> FALSE, status |-> NoStatus] \in GlobalObject
      BY <3>2 DEF GlobalObject
    <3> QED
      BY <3>1, <3>3
  <2>2. CASE EditGlobal(g)
    <3>1. PICK s \in GlobalSpecs : WriteGlobal(g, [globals[g] EXCEPT !.spec = s])
      BY <2>2 DEF EditGlobal
    <3>2. s \in GlobalSpec /\ globals[g] # None
      BY <2>2, GlobalAssumption DEF EditGlobal
    <3>3. [globals[g] EXCEPT !.spec = s] \in GlobalObject
      BY <1>3, <3>2 DEF GlobalObject
    <3> QED
      BY <3>1, <3>3
  <2>3. CASE DeleteGlobal(g)
    <3>1. globals[g] # None
          /\ (WriteGlobal(g, [globals[g] EXCEPT !.del = TRUE]) \/ WriteGlobal(g, None))
      BY <2>3 DEF DeleteGlobal
    <3>2. [globals[g] EXCEPT !.del = TRUE] \in GlobalObject
      BY <1>3, <3>1 DEF GlobalObject
    <3> QED
      BY <3>1, <3>2
  <2> QED
    BY <2>1, <2>2, <2>3
<1>5. ServerOK'
  BY <1>4, GlobalParts, WriteGlobalType
<1> QED
  BY <1>1, <1>2, <1>5, GlobalPartsNext

\* A user writes a namespace.
LEMMA UserNamespaceType ==
    ASSUME GlobalTypeOK, NEW n \in Namespaces, LabelNamespace(n) \/ TerminateNamespace(n)
    PROVE  GlobalTypeOK'
<1>1. CachesOK' /\ RecOK' /\ RestOK'
  BY UserFrame DEF LabelNamespace, TerminateNamespace
<1>2. ServerOK' /\ BoostsOK'
  BY GlobalParts DEF LabelNamespace, TerminateNamespace, gVars, bVars, ServerOK, BoostsOK
<1>3. namespaces[n] \in NamespaceObject \cup {None}
  BY GlobalParts DEF NamespacesOK
<1>4. \E obj \in NamespaceObject \cup {None} : StoreNamespace(n, obj)
  <2>1. CASE LabelNamespace(n)
    <3>1. PICK l \in Labels :
            \/ StoreNamespace(n, [lab |-> l, del |-> FALSE])
            \/ namespaces[n] # None /\ StoreNamespace(n, [namespaces[n] EXCEPT !.lab = l])
      BY <2>1 DEF LabelNamespace
    <3>2. [lab |-> l, del |-> FALSE] \in NamespaceObject
      BY DEF NamespaceObject
    <3>3. namespaces[n] # None => [namespaces[n] EXCEPT !.lab = l] \in NamespaceObject
      BY <1>3 DEF NamespaceObject
    <3> QED
      BY <3>1, <3>2, <3>3
  <2>2. CASE TerminateNamespace(n)
    <3>1. namespaces[n] # None /\ StoreNamespace(n, [namespaces[n] EXCEPT !.del = TRUE])
      BY <2>2 DEF TerminateNamespace
    <3>2. [namespaces[n] EXCEPT !.del = TRUE] \in NamespaceObject
      BY <1>3, <3>1 DEF NamespaceObject
    <3> QED
      BY <3>1, <3>2
  <2> QED
    BY <2>1, <2>2
<1>5. NamespacesOK'
  BY <1>4, GlobalParts, StoreNamespaceType
<1> QED
  BY <1>1, <1>2, <1>5, GlobalPartsNext

\* A user, or the controller of boosts, writes a boost.
LEMMA UserBoostType ==
    ASSUME GlobalTypeOK, NEW n \in Namespaces,
           CreateOwnBoost(n) \/ DeleteAnyBoost(n) \/ TouchBoost(n)
    PROVE  GlobalTypeOK'
<1>1. CachesOK' /\ RecOK' /\ RestOK'
  BY UserFrame DEF CreateOwnBoost, DeleteAnyBoost, TouchBoost
<1>2. ServerOK' /\ NamespacesOK'
  BY GlobalParts DEF CreateOwnBoost, DeleteAnyBoost, TouchBoost, gVars, nsVars, ServerOK,
                     NamespacesOK
<1>3. \E name \in Names, obj \in BoostObject \cup {None} : StoreBoost(n, name, obj)
  <2>1. CASE CreateOwnBoost(n)
    <3>1. [label |-> None, tmpl |-> 0] \in BoostObject
      BY DEF BoostObject
    <3> QED
      BY <2>1, <3>1, GlobalAssumption DEF CreateOwnBoost
  <2>2. CASE DeleteAnyBoost(n)
    BY <2>2 DEF DeleteAnyBoost
  <2>3. CASE TouchBoost(n)
    <3>1. PICK name \in Names : StoreBoost(n, name, boosts[n][name])
      BY <2>3 DEF TouchBoost
    <3>2. boosts[n][name] \in BoostObject \cup {None}
      BY GlobalParts DEF BoostsOK
    <3> QED
      BY <3>1, <3>2
  <2> QED
    BY <2>1, <2>2, <2>3
<1>4. BoostsOK'
  BY <1>3, GlobalParts, StoreBoostType
<1> QED
  BY <1>1, <1>2, <1>4, GlobalPartsNext

LEMMA EmptyNamespaceType ==
    ASSUME GlobalTypeOK, NEW n \in Namespaces, EmptyNamespace(n)
    PROVE  GlobalTypeOK'
<1>1. ServerOK' /\ CachesOK' /\ RecOK' /\ RestOK'
  BY GlobalParts DEF EmptyNamespace, gVars, caches, ServerOK, CachesOK, RecOK, RestOK
<1>2. CASE StoreNamespace(n, None) /\ UNCHANGED bVars
  BY <1>1, <1>2, StoreNamespaceType, GlobalParts, GlobalPartsNext DEF bVars, BoostsOK
<1>3. CASE UNCHANGED nsVars /\ \E name \in Names : StoreBoost(n, name, None)
  BY <1>1, <1>3, StoreBoostType, GlobalParts, GlobalPartsNext DEF nsVars, NamespacesOK
<1> QED
  BY <1>2, <1>3 DEF EmptyNamespace

LEMMA NothingWaits == ASSUME NEW S PROVE <<>> \in Seq(S)
OBVIOUS

LEMMA RestartType ==
    ASSUME GlobalTypeOK, Restart
    PROVE  GlobalTypeOK'
<1>1. ServerOK' /\ NamespacesOK' /\ BoostsOK'
  BY GlobalParts, NothingWaits DEF Restart, ServerOK, NamespacesOK, BoostsOK
<1>2. CachesOK'
  BY GlobalParts DEF Restart, ServerOK, NamespacesOK, BoostsOK, CachesOK
<1>3. RecOK' /\ RestOK'
  BY GlobalParts, IdleType DEF Restart, RecOK, RestOK
<1> QED
  BY <1>1, <1>2, <1>3, GlobalPartsNext

LEMMA GlobalInitType == Init => GlobalTypeOK
<1> SUFFICES ASSUME Init PROVE GlobalTypeOK
  OBVIOUS
<1>1. ServerOK
  BY NothingWaits DEF Init, ServerOK
<1>2. NamespacesOK
  <2>1. \A l \in Labels : [lab |-> l, del |-> FALSE] \in NamespaceObject
    BY DEF NamespaceObject
  <2>2. namespaces \in [Namespaces -> NamespaceObject \cup {None}]
    <3>1. namespaces \in [Namespaces -> {[lab |-> l, del |-> FALSE] : l \in Labels}]
      BY DEF Init
    <3>2. {[lab |-> l, del |-> FALSE] : l \in Labels} \subseteq NamespaceObject \cup {None}
      BY <2>1, Zenon
    <3> HIDE DEF NamespaceObject
    <3> QED
      BY <3>1, <3>2, Zenon
  <2> QED
    BY <2>2, NothingWaits DEF Init, NamespacesOK
<1>3. BoostsOK
  BY NothingWaits DEF Init, BoostsOK
<1>4. CachesOK
  BY <1>1, <1>2, <1>3 DEF Init, ServerOK, NamespacesOK, BoostsOK, CachesOK
<1>5. RecOK /\ RestOK
  BY IdleType DEF Init, RecOK, RestOK
<1> QED
  BY <1>1, <1>2, <1>3, <1>4, <1>5, GlobalParts

LEMMA GlobalNextType == GlobalTypeOK /\ [Next]_vars => GlobalTypeOK'
<1> SUFFICES ASSUME GlobalTypeOK, [Next]_vars PROVE GlobalTypeOK'
  OBVIOUS
<1>1. CASE UNCHANGED vars
  <2>1. UNCHANGED <<globals, gWatch, stale, boosts, bWatch, namespaces, nsWatch, gCache, nsCache,
                    bCache, queue, rec, edits, faults, restarts, environment>>
    BY <1>1 DEF vars, gVars, bVars, nsVars, caches
  <2> QED
    BY <2>1, GlobalParts, GlobalPartsNext
       DEF ServerOK, NamespacesOK, BoostsOK, CachesOK, RecOK, RestOK
<1>2. CASE \E g \in Globals : ReconcileNothing(g) \/ AddFinalizer(g) \/ ListNamespaces(g)
                              \/ StartDeletion(g)
  BY <1>2, ReconcileNothingType, AddFinalizerType, ListNamespacesType, StartDeletionType, Zenon
<1>3. CASE \E n \in Namespaces : CheckNamespace(n) \/ DeleteStaleChild(n) \/ DeleteChild(n)
  BY <1>3, CheckNamespaceType, DeleteStaleChildType, DeleteChildType, Zenon
<1>4. CASE ensureChild \/ ListStaleChildren \/ UpdateStatus \/ RemoveFinalizer
  BY <1>4, EnsureChildType, ListStaleChildrenType, UpdateStatusType, RemoveFinalizerType, Zenon
<1>5. CASE \E g \in Globals : CreateGlobal(g) \/ EditGlobal(g) \/ DeleteGlobal(g)
  BY <1>5, UserGlobalType, Zenon
<1>6. CASE \E n \in Namespaces : \/ LabelNamespace(n) \/ TerminateNamespace(n)
                                 \/ CreateOwnBoost(n) \/ DeleteAnyBoost(n) \/ TouchBoost(n)
  BY <1>6, UserNamespaceType, UserBoostType, Zenon
<1>7. CASE ReceiveGlobal \/ ReceiveNamespace \/ ReceiveBoost
  BY <1>7, ReceiveGlobalType, ReceiveNamespaceType, ReceiveBoostType, Zenon
<1>8. CASE Restart \/ \E n \in Namespaces : EmptyNamespace(n)
  BY <1>8, RestartType, EmptyNamespaceType, Zenon
<1> QED
  BY <1>1, <1>2, <1>3, <1>4, <1>5, <1>6, <1>7, <1>8, Zenon DEF Next, Worker, UserAction

\* The variables of the controller keep their types: every object it writes is
\* well formed, and a reconciliation in progress always has its global boost
\* (Reconcile).
THEOREM GlobalTypes == Spec => []GlobalTypeOK
BY GlobalInitType, GlobalNextType, PTL DEF Spec

-----------------------------------------------------------------------------
(***************************************************************************)
(* The informers' caches.  A change of object x waits in a watch, or the   *)
(* cache has the object of the API server; the last change of x that waits *)
(* carries that object.                                                    *)
(***************************************************************************)
Waits(watch, x) == \E k \in DOMAIN watch : watch[k][1] = x
Latest(watch, x, obj) ==
    \A k \in DOMAIN watch :
        watch[k][1] = x /\ (\A j \in DOMAIN watch : j > k => watch[j][1] # x) => watch[k][2] = obj
Follows(cached, watch, x, obj) == (~Waits(watch, x) => cached = obj) /\ Latest(watch, x, obj)

\* The same for the boosts, whose changes name a namespace and a boost in it.
OfBoost(e, n, name) == e[1] = n /\ e[2] = name
BoostWaits(watch, n, name) == \E k \in DOMAIN watch : OfBoost(watch[k], n, name)
LatestBoost(watch, n, name, obj) ==
    \A k \in DOMAIN watch :
        OfBoost(watch[k], n, name) /\ (\A j \in DOMAIN watch : j > k => ~OfBoost(watch[j], n, name))
        => watch[k][3] = obj
BoostFollows(cached, watch, n, name, obj) ==
    (~BoostWaits(watch, n, name) => cached = obj) /\ LatestBoost(watch, n, name, obj)

GlobalsFollow == \A g \in Globals : Follows(gCache[g], gWatch, g, globals[g])
NamespacesFollow == \A n \in Namespaces : Follows(nsCache[n], nsWatch, n, namespaces[n])
BoostsFollow == \A n \in Namespaces, name \in Names :
                    BoostFollows(bCache[n][name], bWatch, n, name, boosts[n][name])

\* A change is added at the end of a watch: it waits, and so does all that waited.
LEMMA WaitsAppend ==
    ASSUME NEW S, NEW watch \in Seq(S), NEW e, NEW x
    PROVE  Waits(Append(watch, e), x) <=> Waits(watch, x) \/ e[1] = x
<1> DEFINE l == Len(watch)
           w == Append(watch, e)
<1>1. l \in Nat /\ DOMAIN watch = 1..l /\ DOMAIN w = 1..(l + 1) /\ w[l + 1] = e
      /\ \A k \in 1..l : w[k] = watch[k]
  OBVIOUS
<1> HIDE DEF l, w
<1>2. Waits(w, x) <=> Waits(watch, x) \/ e[1] = x
  BY <1>1 DEF Waits
<1> QED
  BY <1>2 DEF w

LEMMA FollowsAppend ==
    ASSUME NEW S, NEW watch \in Seq(S), NEW e, NEW x, NEW cached, NEW obj,
           Follows(cached, watch, x, obj)
    PROVE  /\ e[1] # x => Follows(cached, Append(watch, e), x, obj)
           /\ e[1] = x => Follows(cached, Append(watch, e), x, e[2])
<1> DEFINE l == Len(watch)
           w == Append(watch, e)
<1>1. l \in Nat /\ DOMAIN watch = 1..l /\ DOMAIN w = 1..(l + 1) /\ w[l + 1] = e
      /\ \A k \in 1..l : w[k] = watch[k]
  OBVIOUS
<1> HIDE DEF l, w
<1>2. CASE e[1] # x
  <2>1. ~Waits(w, x) => cached = obj
    BY <1>1, <1>2 DEF Waits, Follows
  <2>2. ASSUME NEW k \in DOMAIN w, w[k][1] = x, \A j \in DOMAIN w : j > k => w[j][1] # x
        PROVE  w[k][2] = obj
    <3>1. k \in DOMAIN watch /\ w[k] = watch[k]
      BY <1>1, <1>2, <2>2
    <3>2. \A j \in DOMAIN watch : j > k => watch[j][1] # x
      BY <1>1, <2>2
    <3> QED
      BY <2>2, <3>1, <3>2 DEF Follows, Latest
  <2> QED
    BY <1>2, <2>1, <2>2 DEF Follows, Latest, w
<1>3. CASE e[1] = x
  <2>1. Waits(w, x)
    BY <1>1, <1>3 DEF Waits
  <2>2. ASSUME NEW k \in DOMAIN w, w[k][1] = x, \A j \in DOMAIN w : j > k => w[j][1] # x
        PROVE  w[k][2] = e[2]
    BY <1>1, <1>3, <2>2
  <2> QED
    BY <1>3, <2>1, <2>2 DEF Follows, Latest, w
<1> QED
  BY <1>2, <1>3

\* The first change is taken from a watch and given to the cache.
LEMMA WaitsTail ==
    ASSUME NEW S, NEW watch \in Seq(S), watch # <<>>, NEW x
    PROVE  Waits(watch, x) => Waits(Tail(watch), x) \/ Head(watch)[1] = x
<1> DEFINE l == Len(watch)
           w == Tail(watch)
<1>1. /\ l \in Nat /\ l > 0 /\ DOMAIN watch = 1..l /\ DOMAIN w = 1..(l - 1)
      /\ Head(watch) = watch[1]
      /\ \A k \in 1..(l - 1) : w[k] = watch[k + 1]
  OBVIOUS
<1> HIDE DEF l, w
<1>2. ASSUME NEW k \in DOMAIN watch, watch[k][1] = x, watch[1][1] # x
      PROVE  Waits(w, x)
  <2>1. k - 1 \in DOMAIN w /\ w[k - 1] = watch[k]
    BY <1>1, <1>2
  <2> QED
    BY <1>2, <2>1 DEF Waits
<1>3. Waits(watch, x) => Waits(w, x) \/ Head(watch)[1] = x
  BY <1>1, <1>2 DEF Waits
<1> QED
  BY <1>3 DEF w

LEMMA FollowsTail ==
    ASSUME NEW S, NEW watch \in Seq(S), watch # <<>>, NEW x, NEW cached, NEW obj,
           Follows(cached, watch, x, obj)
    PROVE  /\ Head(watch)[1] # x => Follows(cached, Tail(watch), x, obj)
           /\ Head(watch)[1] = x => Follows(Head(watch)[2], Tail(watch), x, obj)
<1> DEFINE l == Len(watch)
           w == Tail(watch)
<1>1. /\ l \in Nat /\ l > 0 /\ DOMAIN watch = 1..l /\ DOMAIN w = 1..(l - 1)
      /\ Head(watch) = watch[1]
      /\ \A k \in 1..(l - 1) : w[k] = watch[k + 1]
  OBVIOUS
<1>2. Waits(watch, x) => Waits(w, x) \/ Head(watch)[1] = x
  BY WaitsTail
<1> HIDE DEF l, w
<1>3. Latest(w, x, obj)
  <2>1. ASSUME NEW k \in DOMAIN w, w[k][1] = x, \A j \in DOMAIN w : j > k => w[j][1] # x
        PROVE  w[k][2] = obj
    <3>1. k \in Nat /\ k + 1 \in DOMAIN watch /\ watch[k + 1] = w[k]
      BY <1>1
    <3>2. ASSUME NEW j \in DOMAIN watch, j > k + 1
          PROVE  watch[j][1] # x
      <4>1. j - 1 \in DOMAIN w /\ j - 1 > k /\ w[j - 1] = watch[j]
        BY <1>1, <3>1, <3>2
      <4> QED
        BY <2>1, <4>1
    <3> QED
      BY <2>1, <3>1, <3>2 DEF Follows, Latest
  <2> QED
    BY <2>1 DEF Latest
<1>4. CASE Head(watch)[1] # x
  BY <1>2, <1>3, <1>4 DEF Follows, w
<1>5. CASE Head(watch)[1] = x
  <2>1. ~Waits(w, x) => Head(watch)[2] = obj
    <3> SUFFICES ASSUME ~Waits(w, x) PROVE watch[1][2] = obj
      BY <1>1
    <3>1. ASSUME NEW j \in DOMAIN watch, j > 1
          PROVE  watch[j][1] # x
      <4>1. j - 1 \in DOMAIN w /\ w[j - 1] = watch[j]
        BY <1>1, <3>1
      <4> QED
        BY <4>1 DEF Waits
    <3>2. 1 \in DOMAIN watch /\ watch[1][1] = x
      BY <1>1, <1>5
    <3> QED
      BY <3>1, <3>2 DEF Follows, Latest
  <2> QED
    BY <1>3, <1>5, <2>1 DEF Follows, w
<1> QED
  BY <1>4, <1>5

LEMMA BoostFollowsAppend ==
    ASSUME NEW S, NEW watch \in Seq(S), NEW e, NEW n, NEW name, NEW cached, NEW obj,
           BoostFollows(cached, watch, n, name, obj)
    PROVE  /\ ~OfBoost(e, n, name) => BoostFollows(cached, Append(watch, e), n, name, obj)
           /\ OfBoost(e, n, name) => BoostFollows(cached, Append(watch, e), n, name, e[3])
<1> DEFINE l == Len(watch)
           w == Append(watch, e)
<1>1. l \in Nat /\ DOMAIN watch = 1..l /\ DOMAIN w = 1..(l + 1) /\ w[l + 1] = e
      /\ \A k \in 1..l : w[k] = watch[k]
  OBVIOUS
<1> HIDE DEF l, w
<1>2. CASE ~OfBoost(e, n, name)
  <2>1. ~BoostWaits(w, n, name) => cached = obj
    BY <1>1, <1>2 DEF BoostWaits, BoostFollows
  <2>2. ASSUME NEW k \in DOMAIN w, OfBoost(w[k], n, name),
               \A j \in DOMAIN w : j > k => ~OfBoost(w[j], n, name)
        PROVE  w[k][3] = obj
    <3>1. k \in DOMAIN watch /\ w[k] = watch[k]
      BY <1>1, <1>2, <2>2
    <3>2. \A j \in DOMAIN watch : j > k => ~OfBoost(watch[j], n, name)
      BY <1>1, <2>2
    <3> QED
      BY <2>2, <3>1, <3>2 DEF BoostFollows, LatestBoost
  <2> QED
    BY <1>2, <2>1, <2>2 DEF BoostFollows, LatestBoost, w
<1>3. CASE OfBoost(e, n, name)
  <2>1. BoostWaits(w, n, name)
    BY <1>1, <1>3 DEF BoostWaits
  <2>2. ASSUME NEW k \in DOMAIN w, OfBoost(w[k], n, name),
               \A j \in DOMAIN w : j > k => ~OfBoost(w[j], n, name)
        PROVE  w[k][3] = e[3]
    BY <1>1, <1>3, <2>2
  <2> QED
    BY <1>3, <2>1, <2>2 DEF BoostFollows, LatestBoost, w
<1> QED
  BY <1>2, <1>3

LEMMA BoostWaitsTail ==
    ASSUME NEW S, NEW watch \in Seq(S), watch # <<>>, NEW n, NEW name
    PROVE  BoostWaits(watch, n, name) =>
               BoostWaits(Tail(watch), n, name) \/ OfBoost(Head(watch), n, name)
<1> DEFINE l == Len(watch)
           w == Tail(watch)
<1>1. /\ l \in Nat /\ l > 0 /\ DOMAIN watch = 1..l /\ DOMAIN w = 1..(l - 1)
      /\ Head(watch) = watch[1]
      /\ \A k \in 1..(l - 1) : w[k] = watch[k + 1]
  OBVIOUS
<1> HIDE DEF l, w
<1>2. ASSUME NEW k \in DOMAIN watch, OfBoost(watch[k], n, name),
             ~OfBoost(watch[1], n, name)
      PROVE  BoostWaits(w, n, name)
  <2>1. k - 1 \in DOMAIN w /\ w[k - 1] = watch[k]
    BY <1>1, <1>2
  <2> QED
    BY <1>2, <2>1 DEF BoostWaits
<1>3. BoostWaits(watch, n, name) => BoostWaits(w, n, name) \/ OfBoost(Head(watch), n, name)
  BY <1>1, <1>2 DEF BoostWaits
<1> QED
  BY <1>3 DEF w

LEMMA BoostFollowsTail ==
    ASSUME NEW S, NEW watch \in Seq(S), watch # <<>>, NEW n, NEW name, NEW cached, NEW obj,
           BoostFollows(cached, watch, n, name, obj)
    PROVE  /\ ~OfBoost(Head(watch), n, name) =>
                BoostFollows(cached, Tail(watch), n, name, obj)
           /\ OfBoost(Head(watch), n, name) =>
                BoostFollows(Head(watch)[3], Tail(watch), n, name, obj)
<1> DEFINE l == Len(watch)
           w == Tail(watch)
<1>1. /\ l \in Nat /\ l > 0 /\ DOMAIN watch = 1..l /\ DOMAIN w = 1..(l - 1)
      /\ Head(watch) = watch[1]
      /\ \A k \in 1..(l - 1) : w[k] = watch[k + 1]
  OBVIOUS
<1>2. BoostWaits(watch, n, name) => BoostWaits(w, n, name) \/ OfBoost(Head(watch), n, name)
  BY BoostWaitsTail
<1> HIDE DEF l, w
<1>3. LatestBoost(w, n, name, obj)
  <2>1. ASSUME NEW k \in DOMAIN w, OfBoost(w[k], n, name),
               \A j \in DOMAIN w : j > k => ~OfBoost(w[j], n, name)
        PROVE  w[k][3] = obj
    <3>1. k \in Nat /\ k + 1 \in DOMAIN watch /\ watch[k + 1] = w[k]
      BY <1>1
    <3>2. ASSUME NEW j \in DOMAIN watch, j > k + 1
          PROVE  ~OfBoost(watch[j], n, name)
      <4>1. j - 1 \in DOMAIN w /\ j - 1 > k /\ w[j - 1] = watch[j]
        BY <1>1, <3>1, <3>2
      <4> QED
        BY <2>1, <4>1
    <3> QED
      BY <2>1, <3>1, <3>2 DEF BoostFollows, LatestBoost
  <2> QED
    BY <2>1 DEF LatestBoost
<1>4. CASE ~OfBoost(Head(watch), n, name)
  BY <1>2, <1>3, <1>4 DEF BoostFollows, w
<1>5. CASE OfBoost(Head(watch), n, name)
  <2>1. ~BoostWaits(w, n, name) => Head(watch)[3] = obj
    <3> SUFFICES ASSUME ~BoostWaits(w, n, name) PROVE watch[1][3] = obj
      BY <1>1
    <3>1. ASSUME NEW j \in DOMAIN watch, j > 1
          PROVE  ~OfBoost(watch[j], n, name)
      <4>1. j - 1 \in DOMAIN w /\ w[j - 1] = watch[j]
        BY <1>1, <3>1
      <4> QED
        BY <4>1 DEF BoostWaits
    <3>2. 1 \in DOMAIN watch /\ OfBoost(watch[1], n, name)
      BY <1>1, <1>5
    <3> QED
      BY <3>1, <3>2 DEF BoostFollows, LatestBoost
  <2> QED
    BY <1>3, <1>5, <2>1 DEF BoostFollows, w
<1> QED
  BY <1>4, <1>5

-----------------------------------------------------------------------------
\* What a step of the worker, of a user or of the namespace controller writes
\* to the API server: at most one object of each kind.
WritesGlobal == \/ UNCHANGED <<globals, gWatch>>
                \/ \E g \in Globals : \E obj :
                     /\ globals' = [globals EXCEPT ![g] = obj]
                     /\ gWatch' = Append(gWatch, <<g, obj>>)
WritesNamespace == \/ UNCHANGED nsVars
                   \/ \E n \in Namespaces : \E obj : StoreNamespace(n, obj)
WritesBoost == \/ UNCHANGED bVars
               \/ \E n \in Namespaces, name \in Names : \E obj : StoreBoost(n, name, obj)
Writes == WritesGlobal /\ WritesNamespace /\ WritesBoost /\ UNCHANGED caches
                       /\ (faults' = 0 => faults = 0)

LEMMA GlobalsFollowWrite ==
    ASSUME GlobalTypeOK, GlobalsFollow, WritesGlobal, gCache' = gCache
    PROVE  GlobalsFollow'
<1> SUFFICES ASSUME NEW x \in Globals PROVE Follows(gCache'[x], gWatch', x, globals'[x])
  BY DEF GlobalsFollow
<1>1. Follows(gCache[x], gWatch, x, globals[x]) /\ globals \in [Globals -> GlobalObject \cup {None}]
      /\ gWatch \in Seq(Globals \X (GlobalObject \cup {None}))
  BY GlobalParts DEF GlobalsFollow, ServerOK
<1>2. CASE UNCHANGED <<globals, gWatch>>
  BY <1>1, <1>2
<1>3. CASE \E g \in Globals : \E obj :
             /\ globals' = [globals EXCEPT ![g] = obj]
             /\ gWatch' = Append(gWatch, <<g, obj>>)
  <2>0. PICK g \in Globals : \E obj :
             /\ globals' = [globals EXCEPT ![g] = obj]
             /\ gWatch' = Append(gWatch, <<g, obj>>)
    BY <1>3
  <2>1. PICK obj :
             /\ globals' = [globals EXCEPT ![g] = obj]
             /\ gWatch' = Append(gWatch, <<g, obj>>)
    BY <2>0
  <2>2. <<g, obj>>[1] = g /\ <<g, obj>>[2] = obj
    OBVIOUS
  <2>3. /\ g # x => Follows(gCache[x], gWatch', x, globals[x])
        /\ g = x => Follows(gCache[x], gWatch', x, obj)
    BY <1>1, <2>1, <2>2, FollowsAppend
  <2>4. globals'[x] = IF g = x THEN obj ELSE globals[x]
    BY <1>1, <2>1
  <2> QED
    BY <2>3, <2>4
<1> QED
  BY <1>2, <1>3 DEF WritesGlobal

LEMMA NamespacesFollowWrite ==
    ASSUME GlobalTypeOK, NamespacesFollow, WritesNamespace, nsCache' = nsCache
    PROVE  NamespacesFollow'
<1> SUFFICES ASSUME NEW x \in Namespaces
             PROVE  Follows(nsCache'[x], nsWatch', x, namespaces'[x])
  BY DEF NamespacesFollow
<1>1. /\ Follows(nsCache[x], nsWatch, x, namespaces[x])
      /\ namespaces \in [Namespaces -> NamespaceObject \cup {None}]
      /\ nsWatch \in Seq(Namespaces \X (NamespaceObject \cup {None}))
  BY GlobalParts DEF NamespacesFollow, NamespacesOK
<1>2. CASE UNCHANGED nsVars
  BY <1>1, <1>2 DEF nsVars
<1>3. CASE \E n \in Namespaces : \E obj : StoreNamespace(n, obj)
  <2>0. PICK n \in Namespaces : \E obj :
             /\ namespaces' = [namespaces EXCEPT ![n] = obj]
             /\ nsWatch' = Append(nsWatch, <<n, obj>>)
    BY <1>3 DEF StoreNamespace
  <2>1. PICK obj :
             /\ namespaces' = [namespaces EXCEPT ![n] = obj]
             /\ nsWatch' = Append(nsWatch, <<n, obj>>)
    BY <2>0
  <2>2. <<n, obj>>[1] = n /\ <<n, obj>>[2] = obj
    OBVIOUS
  <2>3. /\ n # x => Follows(nsCache[x], nsWatch', x, namespaces[x])
        /\ n = x => Follows(nsCache[x], nsWatch', x, obj)
    BY <1>1, <2>1, <2>2, FollowsAppend
  <2>4. namespaces'[x] = IF n = x THEN obj ELSE namespaces[x]
    BY <1>1, <2>1
  <2> QED
    BY <2>3, <2>4
<1> QED
  BY <1>2, <1>3 DEF WritesNamespace

LEMMA BoostsFollowWrite ==
    ASSUME GlobalTypeOK, BoostsFollow, WritesBoost, bCache' = bCache
    PROVE  BoostsFollow'
<1> SUFFICES ASSUME NEW x \in Namespaces, NEW y \in Names
             PROVE  BoostFollows(bCache'[x][y], bWatch', x, y, boosts'[x][y])
  BY DEF BoostsFollow
<1>1. /\ BoostFollows(bCache[x][y], bWatch, x, y, boosts[x][y])
      /\ boosts \in [Namespaces -> [Names -> BoostObject \cup {None}]]
      /\ bWatch \in Seq(Namespaces \X Names \X (BoostObject \cup {None}))
  BY GlobalParts DEF BoostsFollow, BoostsOK
<1>2. CASE UNCHANGED bVars
  BY <1>1, <1>2 DEF bVars
<1>3. CASE \E n \in Namespaces, name \in Names : \E obj :
             StoreBoost(n, name, obj)
  <2>0. PICK n \in Namespaces, name \in Names : \E obj :
             /\ boosts' = [boosts EXCEPT ![n][name] = obj]
             /\ bWatch' = Append(bWatch, <<n, name, obj>>)
    BY <1>3 DEF StoreBoost
  <2>1. PICK obj :
             /\ boosts' = [boosts EXCEPT ![n][name] = obj]
             /\ bWatch' = Append(bWatch, <<n, name, obj>>)
    BY <2>0
  <2>2. (OfBoost(<<n, name, obj>>, x, y) <=> n = x /\ name = y) /\ <<n, name, obj>>[3] = obj
    BY DEF OfBoost
  <2>3. /\ ~(n = x /\ name = y) => BoostFollows(bCache[x][y], bWatch', x, y, boosts[x][y])
        /\ n = x /\ name = y => BoostFollows(bCache[x][y], bWatch', x, y, obj)
    BY <1>1, <2>1, <2>2, BoostFollowsAppend
  <2>4. boosts'[x][y] = IF n = x /\ name = y THEN obj ELSE boosts[x][y]
    BY <1>1, <2>1
  <2> QED
    BY <2>3, <2>4
<1> QED
  BY <1>2, <1>3 DEF WritesBoost

LEMMA GlobalsFollowReceive ==
    ASSUME GlobalTypeOK, GlobalsFollow, ReceiveGlobal
    PROVE  GlobalsFollow'
<1> SUFFICES ASSUME NEW x \in Globals PROVE Follows(gCache'[x], gWatch', x, globals'[x])
  BY DEF GlobalsFollow
<1> DEFINE e == Head(gWatch)
<1>1. /\ Follows(gCache[x], gWatch, x, globals[x]) /\ gCache \in [Globals -> GlobalObject \cup {None}]
      /\ gWatch \in Seq(Globals \X (GlobalObject \cup {None}))
  BY GlobalParts DEF GlobalsFollow, ServerOK, CachesOK
<1>2. /\ gWatch # <<>> /\ gWatch' = Tail(gWatch) /\ globals' = globals
      /\ gCache' = [gCache EXCEPT ![e[1]] = e[2]]
  BY DEF ReceiveGlobal, Informed
<1>3. /\ e[1] # x => Follows(gCache[x], gWatch', x, globals[x])
      /\ e[1] = x => Follows(e[2], gWatch', x, globals[x])
  BY <1>1, <1>2, FollowsTail
<1>4. gCache'[x] = IF e[1] = x THEN e[2] ELSE gCache[x]
  BY <1>1, <1>2
<1> QED
  BY <1>2, <1>3, <1>4

LEMMA NamespacesFollowReceive ==
    ASSUME GlobalTypeOK, NamespacesFollow, ReceiveNamespace
    PROVE  NamespacesFollow'
<1> SUFFICES ASSUME NEW x \in Namespaces
             PROVE  Follows(nsCache'[x], nsWatch', x, namespaces'[x])
  BY DEF NamespacesFollow
<1> DEFINE e == Head(nsWatch)
<1>1. /\ Follows(nsCache[x], nsWatch, x, namespaces[x])
      /\ nsCache \in [Namespaces -> NamespaceObject \cup {None}]
      /\ nsWatch \in Seq(Namespaces \X (NamespaceObject \cup {None}))
  BY GlobalParts DEF NamespacesFollow, NamespacesOK, CachesOK
<1>2. /\ nsWatch # <<>> /\ nsWatch' = Tail(nsWatch) /\ namespaces' = namespaces
      /\ nsCache' = [nsCache EXCEPT ![e[1]] = e[2]]
  BY DEF ReceiveNamespace, Informed
<1>3. /\ e[1] # x => Follows(nsCache[x], nsWatch', x, namespaces[x])
      /\ e[1] = x => Follows(e[2], nsWatch', x, namespaces[x])
  BY <1>1, <1>2, FollowsTail
<1>4. nsCache'[x] = IF e[1] = x THEN e[2] ELSE nsCache[x]
  BY <1>1, <1>2
<1> QED
  BY <1>2, <1>3, <1>4

LEMMA BoostsFollowReceive ==
    ASSUME GlobalTypeOK, BoostsFollow, ReceiveBoost
    PROVE  BoostsFollow'
<1> SUFFICES ASSUME NEW x \in Namespaces, NEW y \in Names
             PROVE  BoostFollows(bCache'[x][y], bWatch', x, y, boosts'[x][y])
  BY DEF BoostsFollow
<1> DEFINE e == Head(bWatch)
<1>1. /\ BoostFollows(bCache[x][y], bWatch, x, y, boosts[x][y])
      /\ bCache \in [Namespaces -> [Names -> BoostObject \cup {None}]]
      /\ bWatch \in Seq(Namespaces \X Names \X (BoostObject \cup {None}))
  BY GlobalParts DEF BoostsFollow, BoostsOK, CachesOK
<1>2. /\ bWatch # <<>> /\ bWatch' = Tail(bWatch) /\ boosts' = boosts
      /\ bCache' = [bCache EXCEPT ![e[1]][e[2]] = e[3]]
  BY DEF ReceiveBoost, Informed
<1>3. /\ ~OfBoost(e, x, y) => BoostFollows(bCache[x][y], bWatch', x, y, boosts[x][y])
      /\ OfBoost(e, x, y) => BoostFollows(e[3], bWatch', x, y, boosts[x][y])
  BY <1>1, <1>2, BoostFollowsTail
<1>4. bCache'[x][y] = IF OfBoost(e, x, y) THEN e[3] ELSE bCache[x][y]
  BY <1>1, <1>2 DEF OfBoost
<1> QED
  BY <1>2, <1>3, <1>4

\* Every other step but a restart only writes.
LEMMA WriteGlobalWrites ==
    ASSUME NEW g \in Globals, NEW obj, WriteGlobal(g, obj) \/ UNCHANGED gVars
    PROVE  WritesGlobal
BY DEF WriteGlobal, WritesGlobal, gVars

LEMMA DeleteBoostWrites ==
    ASSUME NEW n \in Namespaces, NEW name \in Names, NEW o, DeleteBoost(n, name, o)
    PROVE  WritesBoost
BY DEF DeleteBoost, WritesBoost

LEMMA StartReconcileWrites ==
    ASSUME GlobalTypeOK, NEW g \in Globals,
           ReconcileNothing(g) \/ AddFinalizer(g) \/ ListNamespaces(g) \/ StartDeletion(g)
    PROVE  Writes
<1>1. /\ UNCHANGED caches /\ UNCHANGED nsVars /\ UNCHANGED bVars
  BY DEF ReconcileNothing, AddFinalizer, ListNamespaces, StartDeletion, StartReconcile, WorkerStep
<1>2. WritesGlobal
  <2>1. CASE AddFinalizer(g)
    BY <2>1, WriteGlobalWrites DEF AddFinalizer
  <2>2. CASE ~AddFinalizer(g)
    BY <2>2 DEF ReconcileNothing, ListNamespaces, StartDeletion, ReadGlobal, WritesGlobal, gVars
  <2> QED
    BY <2>1, <2>2
<1>3. faults' = 0 => faults = 0
  <2>1. CASE AddFinalizer(g)
    BY <2>1, GlobalParts, CountFaultType DEF AddFinalizer, RestOK
  <2>2. CASE ~AddFinalizer(g)
    BY <2>2 DEF ReconcileNothing, ListNamespaces, StartDeletion, ReadGlobal
  <2> QED
    BY <2>1, <2>2
<1> QED
  BY <1>1, <1>2, <1>3 DEF Writes, WritesNamespace, WritesBoost

LEMMA NamespaceWorkWrites ==
    ASSUME GlobalTypeOK, NEW n \in Namespaces,
           CheckNamespace(n) \/ DeleteStaleChild(n) \/ DeleteChild(n)
    PROVE  Writes
<1>1. /\ UNCHANGED caches /\ UNCHANGED nsVars /\ UNCHANGED gVars /\ rec.pc # "idle"
  BY DEF CheckNamespace, DeleteStaleChild, DeleteChild, WorkerStep
<1>2. rec.g \in Names
  BY <1>1, RecNames
<1>3. \/ UNCHANGED <<bVars, faults>>
      \/ \E o \in Outcomes(TRUE) : DeleteBoost(n, rec.g, o) /\ CountFault(o)
  BY DEF CheckNamespace, DeleteStaleChild, DeleteChild
<1>4. WritesBoost /\ (faults' = 0 => faults = 0)
  <2>1. CASE UNCHANGED <<bVars, faults>>
    BY <2>1 DEF WritesBoost
  <2>2. CASE \E o \in Outcomes(TRUE) : DeleteBoost(n, rec.g, o) /\ CountFault(o)
    BY <1>2, <2>2, DeleteBoostWrites, GlobalParts, CountFaultType DEF RestOK
  <2> QED
    BY <1>3, <2>1, <2>2
<1> QED
  BY <1>1, <1>4 DEF Writes, WritesGlobal, WritesNamespace, gVars

LEMMA EnsureChildWrites ==
    ASSUME GlobalTypeOK, ensureChild
    PROVE  Writes
<1>1. /\ UNCHANGED caches /\ UNCHANGED nsVars /\ UNCHANGED gVars /\ rec.pc = "ensure"
  BY DEF ensureChild, WorkerStep
<1>2. rec.g \in Names /\ rec.at \in Namespaces
  BY <1>1, RecNames, GlobalParts DEF RecOK, Reconciliation
<1>3. UNCHANGED bVars \/ \E obj : StoreBoost(rec.at, rec.g, obj)
  BY DEF ensureChild
<1>4. faults' = 0 => faults = 0
  BY GlobalParts, CountFaultType DEF ensureChild, RestOK
<1> QED
  BY <1>1, <1>2, <1>3, <1>4 DEF Writes, WritesGlobal, WritesNamespace, WritesBoost, gVars

LEMMA LastStepsWrite ==
    ASSUME GlobalTypeOK, ListStaleChildren \/ UpdateStatus \/ RemoveFinalizer
    PROVE  Writes
<1>1. /\ UNCHANGED caches /\ UNCHANGED nsVars /\ UNCHANGED bVars /\ rec.pc # "idle"
  BY DEF ListStaleChildren, UpdateStatus, RemoveFinalizer, WorkerStep
<1>2. UNCHANGED gVars \/ \E obj : WriteGlobal(rec.g, obj)
  BY DEF ListStaleChildren, UpdateStatus, RemoveFinalizer
<1>3. WritesGlobal
  BY <1>1, <1>2, RecNames, WriteGlobalWrites
<1>4. faults' = 0 => faults = 0
  BY GlobalParts, CountFaultType DEF ListStaleChildren, UpdateStatus, RemoveFinalizer, RestOK
<1> QED
  BY <1>1, <1>3, <1>4 DEF Writes, WritesNamespace, WritesBoost

\* A step of a user or of the namespace controller.
Outside ==
    \/ \E g \in Globals : CreateGlobal(g) \/ EditGlobal(g) \/ DeleteGlobal(g)
    \/ \E n \in Namespaces : \/ LabelNamespace(n) \/ TerminateNamespace(n)
                             \/ CreateOwnBoost(n) \/ DeleteAnyBoost(n) \/ TouchBoost(n)
                             \/ EmptyNamespace(n)

LEMMA OutsideWrites ==
    ASSUME Outside
    PROVE  Writes /\ UNCHANGED <<queue, rec>>
<1>1. ASSUME NEW g \in Globals, CreateGlobal(g) \/ EditGlobal(g) \/ DeleteGlobal(g)
      PROVE  Writes /\ UNCHANGED <<queue, rec>>
  <2>1. UNCHANGED <<caches, queue, rec, faults>> /\ UNCHANGED bVars /\ UNCHANGED nsVars
    BY <1>1 DEF CreateGlobal, EditGlobal, DeleteGlobal, UserStep
  <2>2. \E obj : WriteGlobal(g, obj)
    BY <1>1 DEF CreateGlobal, EditGlobal, DeleteGlobal
  <2>3. WritesGlobal
    BY <2>2, WriteGlobalWrites
  <2> QED
    BY <2>1, <2>3 DEF Writes, WritesNamespace, WritesBoost
<1>2. ASSUME NEW n \in Namespaces, LabelNamespace(n) \/ TerminateNamespace(n)
      PROVE  Writes /\ UNCHANGED <<queue, rec>>
  <2>1. UNCHANGED <<caches, queue, rec, faults>> /\ UNCHANGED bVars /\ UNCHANGED gVars
    BY <1>2 DEF LabelNamespace, TerminateNamespace, UserStep
  <2>2. \E obj : StoreNamespace(n, obj)
    BY <1>2 DEF LabelNamespace, TerminateNamespace
  <2> QED
    BY <2>1, <2>2 DEF Writes, WritesGlobal, WritesNamespace, WritesBoost, gVars
<1>3. ASSUME NEW n \in Namespaces, CreateOwnBoost(n) \/ DeleteAnyBoost(n) \/ TouchBoost(n)
      PROVE  Writes /\ UNCHANGED <<queue, rec>>
  <2>1. UNCHANGED <<caches, queue, rec, faults>> /\ UNCHANGED nsVars /\ UNCHANGED gVars
    BY <1>3 DEF CreateOwnBoost, DeleteAnyBoost, TouchBoost, UserStep
  <2>2. \E name \in Names : \E obj : StoreBoost(n, name, obj)
    BY <1>3, GlobalAssumption DEF CreateOwnBoost, DeleteAnyBoost, TouchBoost
  <2> QED
    BY <2>1, <2>2 DEF Writes, WritesGlobal, WritesNamespace, WritesBoost, gVars
<1>4. ASSUME NEW n \in Namespaces, EmptyNamespace(n)
      PROVE  Writes /\ UNCHANGED <<queue, rec>>
  <2>1. UNCHANGED <<caches, queue, rec, faults>> /\ UNCHANGED gVars
    BY <1>4 DEF EmptyNamespace
  <2>2. WritesNamespace /\ WritesBoost
    BY <1>4 DEF EmptyNamespace, WritesNamespace, WritesBoost
  <2> QED
    BY <2>1, <2>2 DEF Writes, WritesGlobal, gVars
<1> QED
  BY <1>1, <1>2, <1>3, <1>4, Zenon DEF Outside

Follow == GlobalsFollow /\ NamespacesFollow /\ BoostsFollow

\* The caches follow the API server: what a cache does not have is on its way.
LEMMA FollowWrites ==
    ASSUME GlobalTypeOK, Follow, Writes
    PROVE  Follow'
BY GlobalsFollowWrite, NamespacesFollowWrite, BoostsFollowWrite DEF Follow, Writes, caches

LEMMA FollowReceive ==
    ASSUME GlobalTypeOK, Follow, ReceiveGlobal \/ ReceiveNamespace \/ ReceiveBoost
    PROVE  Follow'
<1>1. CASE ReceiveGlobal
  <2>1. UNCHANGED <<namespaces, nsWatch, nsCache, boosts, bWatch, bCache>>
    BY <1>1 DEF ReceiveGlobal, Informed
  <2>2. NamespacesFollow' /\ BoostsFollow'
    BY <2>1 DEF Follow, NamespacesFollow, BoostsFollow
  <2> QED
    BY <1>1, <2>2, GlobalsFollowReceive DEF Follow
<1>2. CASE ReceiveNamespace
  <2>1. UNCHANGED <<globals, gWatch, gCache, boosts, bWatch, bCache>>
    BY <1>2 DEF ReceiveNamespace, Informed
  <2>2. GlobalsFollow' /\ BoostsFollow'
    BY <2>1 DEF Follow, GlobalsFollow, BoostsFollow
  <2> QED
    BY <1>2, <2>2, NamespacesFollowReceive DEF Follow
<1>3. CASE ReceiveBoost
  <2>1. UNCHANGED <<globals, gWatch, gCache, namespaces, nsWatch, nsCache>>
    BY <1>3 DEF ReceiveBoost, Informed
  <2>2. GlobalsFollow' /\ NamespacesFollow'
    BY <2>1 DEF Follow, GlobalsFollow, NamespacesFollow
  <2> QED
    BY <1>3, <2>2, BoostsFollowReceive DEF Follow
<1> QED
  BY <1>1, <1>2, <1>3

LEMMA FollowInit ==
    ASSUME Init
    PROVE  Follow
<1>1. /\ DOMAIN gWatch = {} /\ DOMAIN nsWatch = {} /\ DOMAIN bWatch = {}
      /\ gCache = globals /\ nsCache = namespaces /\ bCache = boosts
  BY DEF Init
<1>2. GlobalsFollow /\ NamespacesFollow
  BY <1>1 DEF GlobalsFollow, NamespacesFollow, Follows, Latest
<1>3. BoostsFollow
  BY <1>1 DEF BoostsFollow, BoostFollows, LatestBoost
<1> QED
  BY <1>2, <1>3 DEF Follow

LEMMA FollowRestart ==
    ASSUME Restart
    PROVE  Follow'
<1>1. /\ DOMAIN gWatch' = {} /\ DOMAIN nsWatch' = {} /\ DOMAIN bWatch' = {}
      /\ gCache' = globals' /\ nsCache' = namespaces' /\ bCache' = boosts'
  BY DEF Restart
<1>2. GlobalsFollow' /\ NamespacesFollow'
  BY <1>1 DEF GlobalsFollow, NamespacesFollow, Follows, Latest
<1>3. BoostsFollow'
  BY <1>1 DEF BoostsFollow, BoostFollows, LatestBoost
<1> QED
  BY <1>2, <1>3 DEF Follow

-----------------------------------------------------------------------------
(***************************************************************************)
(* The promise behind ChildrenPresent.  While no request has failed, a     *)
(* child that is due and not there, or not made from the current template, *)
(* is never forgotten: its global boost is queued, a change that will      *)
(* queue it is on its way, or the worker has the namespace still to do.    *)
(***************************************************************************)
Due(g, n) ==
    /\ Selected(g, n) /\ ~namespaces[n].del /\ ~HasUnmanaged(g, n)
    /\ ~(HasChild(g, n) /\ boosts[n][g].tmpl = globals[g].spec.tmpl)
Coming(g, n) == Waits(gWatch, g) \/ Waits(nsWatch, n) \/ Waits(bWatch, n)
Working(g, n) == /\ rec.g = g /\ rec.pc \in {"namespaces", "ensure"}
                 /\ n \in rec.todo /\ rec.obj.spec = globals[g].spec
ChildrenDue ==
    faults = 0 => \A g \in Globals, n \in Namespaces :
        Due(g, n) => g \in queue \/ Coming(g, n) \/ Working(g, n)

\* Where nothing is on its way the caches have the objects of the API server.
LEMMA UpToDate ==
    ASSUME Follow, NEW g \in Globals, NEW n \in Namespaces, ~Coming(g, n)
    PROVE  /\ gCache[g] = globals[g] /\ nsCache[n] = namespaces[n]
           /\ \A name \in Names : bCache[n][name] = boosts[n][name]
<1>1. gCache[g] = globals[g] /\ nsCache[n] = namespaces[n]
  BY DEF Follow, GlobalsFollow, NamespacesFollow, Follows, Coming
<1>2. \A name \in Names : ~BoostWaits(bWatch, n, name)
  BY DEF Coming, Waits, BoostWaits, OfBoost
<1>3. \A name \in Names : bCache[n][name] = boosts[n][name]
  BY <1>2 DEF Follow, BoostsFollow, BoostFollows
<1> QED
  BY <1>1, <1>3

\* After a step that writes, where nothing is on its way nothing was, and the
\* objects a child depends on are the same.
LEMMA NothingComing ==
    ASSUME GlobalTypeOK, Writes, NEW g \in Globals, NEW n \in Namespaces, ~Coming(g, n)'
    PROVE  /\ ~Coming(g, n)
           /\ globals'[g] = globals[g] /\ namespaces'[n] = namespaces[n] /\ boosts'[n] = boosts[n]
<1>1. ~Waits(gWatch, g) /\ globals'[g] = globals[g]
  <2>1. CASE UNCHANGED <<globals, gWatch>>
    BY <2>1 DEF Coming
  <2>2. ASSUME NEW x \in Globals, NEW obj, globals' = [globals EXCEPT ![x] = obj],
               gWatch' = Append(gWatch, <<x, obj>>)
        PROVE  ~Waits(gWatch, g) /\ globals'[g] = globals[g]
    <3>1. gWatch \in Seq(Globals \X (GlobalObject \cup {None})) /\ <<x, obj>>[1] = x
      BY GlobalParts DEF ServerOK
    <3>2. Waits(gWatch', g) <=> Waits(gWatch, g) \/ x = g
      BY <2>2, <3>1, WaitsAppend
    <3> QED
      BY <2>2, <3>2, GlobalParts DEF Coming, ServerOK
  <2> QED
    BY <2>1, <2>2 DEF Writes, WritesGlobal
<1>2. ~Waits(nsWatch, n) /\ namespaces'[n] = namespaces[n]
  <2>1. CASE UNCHANGED nsVars
    BY <2>1 DEF Coming, nsVars
  <2>2. ASSUME NEW x \in Namespaces, NEW obj, StoreNamespace(x, obj)
        PROVE  ~Waits(nsWatch, n) /\ namespaces'[n] = namespaces[n]
    <3>1. nsWatch \in Seq(Namespaces \X (NamespaceObject \cup {None})) /\ <<x, obj>>[1] = x
      BY GlobalParts DEF NamespacesOK
    <3>2. Waits(nsWatch', n) <=> Waits(nsWatch, n) \/ x = n
      BY <2>2, <3>1, WaitsAppend DEF StoreNamespace
    <3> QED
      BY <2>2, <3>2, GlobalParts DEF Coming, StoreNamespace, NamespacesOK
  <2> QED
    BY <2>1, <2>2 DEF Writes, WritesNamespace
<1>3. ~Waits(bWatch, n) /\ boosts'[n] = boosts[n]
  <2>1. CASE UNCHANGED bVars
    BY <2>1 DEF Coming, bVars
  <2>2. ASSUME NEW x \in Namespaces, NEW name \in Names, NEW obj, StoreBoost(x, name, obj)
        PROVE  ~Waits(bWatch, n) /\ boosts'[n] = boosts[n]
    <3>1. bWatch \in Seq(Namespaces \X Names \X (BoostObject \cup {None}))
          /\ <<x, name, obj>>[1] = x
      BY GlobalParts DEF BoostsOK
    <3>2. Waits(bWatch', n) <=> Waits(bWatch, n) \/ x = n
      BY <2>2, <3>1, WaitsAppend DEF StoreBoost
    <3> QED
      BY <2>2, <3>2, GlobalParts DEF Coming, StoreBoost, BoostsOK
  <2> QED
    BY <2>1, <2>2 DEF Writes, WritesBoost
<1> QED
  BY <1>1, <1>2, <1>3 DEF Coming

\* So a step that writes keeps the promise if it does what is left to do where
\* nothing is on its way.
LEMMA DueAfterWrite ==
    ASSUME GlobalTypeOK, Follow, ChildrenDue, Writes, faults' = 0,
           NEW g \in Globals, NEW n \in Namespaces, Due(g, n)', ~Coming(g, n)'
    PROVE  /\ Due(g, n) /\ (g \in queue \/ Working(g, n))
           /\ globals'[g] = globals[g] /\ namespaces'[n] = namespaces[n] /\ boosts'[n] = boosts[n]
           /\ gCache[g] = globals[g] /\ nsCache[n] = namespaces[n]
           /\ \A name \in Names : bCache[n][name] = boosts[n][name]
<1>1. /\ ~Coming(g, n)
      /\ globals'[g] = globals[g] /\ namespaces'[n] = namespaces[n] /\ boosts'[n] = boosts[n]
  BY NothingComing
<1>2. Due(g, n)
  BY <1>1 DEF Due, Selected, HasChild, HasUnmanaged
<1>3. g \in queue \/ Working(g, n)
  BY <1>1, <1>2 DEF ChildrenDue, Writes
<1> QED
  BY <1>1, <1>2, <1>3, UpToDate

\* A global boost that is not reconciled is gone or being deleted; for one
\* whose namespaces are listed the due ones are among them (Reconcile).
LEMMA DueStart ==
    ASSUME GlobalTypeOK, Follow, ChildrenDue, NEW x \in Globals,
           ReconcileNothing(x) \/ AddFinalizer(x) \/ ListNamespaces(x) \/ StartDeletion(x)
    PROVE  ChildrenDue'
<1> SUFFICES ASSUME faults' = 0, NEW g \in Globals, NEW n \in Namespaces,
                    Due(g, n)', ~Coming(g, n)'
             PROVE  g \in queue' \/ Working(g, n)'
  BY DEF ChildrenDue
<1>1. Writes
  BY StartReconcileWrites
<1>2. /\ Due(g, n) /\ (g \in queue \/ Working(g, n)) /\ globals'[g] = globals[g]
      /\ gCache[g] = globals[g] /\ nsCache[n] = namespaces[n]
  BY <1>1, DueAfterWrite
<1>3. g \in queue /\ ~Working(g, n)
  BY <1>2 DEF Working, ReconcileNothing, AddFinalizer, ListNamespaces, StartDeletion,
              StartReconcile, WorkerStep
<1>4. globals[g] # None /\ ~globals[g].del
  BY <1>2 DEF Due, Selected
<1>5. CASE AddFinalizer(x) \/ g # x
  <2>1. queue' = queue \/ queue' = queue \ {x}
    BY DEF ReconcileNothing, AddFinalizer, ListNamespaces, StartDeletion, ReadGlobal
  <2>2. AddFinalizer(x) => queue' = queue
    BY DEF AddFinalizer
  <2> QED
    BY <1>3, <1>5, <2>1, <2>2
<1>6. CASE ListNamespaces(x) /\ g = x
  <2>1. n \in DesiredNamespaces(gCache[g].spec)
    BY <1>2 DEF Due, Selected, DesiredNamespaces
  <2>2. /\ rec'.g = g /\ rec'.pc = "namespaces" /\ rec'.obj = gCache[g]
        /\ rec'.todo = DesiredNamespaces(gCache[g].spec)
    BY <1>6 DEF ListNamespaces, Idle
  <2> QED
    BY <1>2, <2>1, <2>2 DEF Working
<1>7. CASE (ReconcileNothing(x) \/ StartDeletion(x)) /\ g = x
  BY <1>2, <1>4, <1>7 DEF ReconcileNothing, StartDeletion
<1> QED
  BY <1>5, <1>6, <1>7

\* A namespace is skipped for a boost that is there (hasUnmanagedBoosts).
LEMMA DueCheck ==
    ASSUME GlobalTypeOK, Follow, ChildrenDue, NEW x \in Namespaces, CheckNamespace(x)
    PROVE  ChildrenDue'
<1> SUFFICES ASSUME faults' = 0, NEW g \in Globals, NEW n \in Namespaces,
                    Due(g, n)', ~Coming(g, n)'
             PROVE  g \in queue' \/ Working(g, n)'
  BY DEF ChildrenDue
<1>1. Writes
  BY NamespaceWorkWrites
<1>2. /\ Due(g, n) /\ (g \in queue \/ Working(g, n)) /\ globals'[g] = globals[g]
      /\ \A name \in Names : bCache[n][name] = boosts[n][name]
  BY <1>1, DueAfterWrite
<1>3. queue' = queue /\ rec.pc = "namespaces" /\ rec \in Reconciliation
  BY GlobalParts DEF CheckNamespace, WorkerStep, RecOK
<1>4. CASE Working(g, n)
  <2>1. CASE hasUnmanagedBoosts(x, rec.g)
    <3>1. rec' = [rec EXCEPT !.todo = @ \ {x}, !.skipped = @ \cup {x}]
      BY <2>1 DEF CheckNamespace
    <3>2. n # x
      BY <1>2, <1>4, <2>1 DEF hasUnmanagedBoosts, Due, HasUnmanaged, Working
    <3>3. rec'.g = rec.g /\ rec'.pc = rec.pc /\ rec'.obj = rec.obj /\ rec'.todo = rec.todo \ {x}
      BY <1>3, <3>1 DEF Reconciliation
    <3> QED
      BY <1>2, <1>4, <3>2, <3>3 DEF Working
  <2>2. CASE ~hasUnmanagedBoosts(x, rec.g)
    <3>1. rec' = [rec EXCEPT !.pc = "ensure", !.at = x]
      BY <2>2 DEF CheckNamespace
    <3>2. rec'.g = rec.g /\ rec'.pc = "ensure" /\ rec'.obj = rec.obj /\ rec'.todo = rec.todo
      BY <1>3, <3>1 DEF Reconciliation
    <3> QED
      BY <1>2, <1>4, <3>2 DEF Working
  <2> QED
    BY <2>1, <2>2
<1> QED
  BY <1>2, <1>3, <1>4

\* What the worker's other steps leave to do: no namespace is, so only the queue.
LEMMA DueLater ==
    ASSUME GlobalTypeOK, Follow, ChildrenDue, Writes, queue \subseteq queue',
           rec.pc \in {"idle", "cleanup", "delete"} \/ rec.todo = {}
    PROVE  ChildrenDue'
<1> SUFFICES ASSUME faults' = 0, NEW g \in Globals, NEW n \in Namespaces,
                    Due(g, n)', ~Coming(g, n)'
             PROVE  g \in queue'
  BY DEF ChildrenDue
<1>1. g \in queue \/ Working(g, n)
  BY DueAfterWrite
<1> QED
  BY <1>1 DEF Working

LEMMA DueCleanup ==
    ASSUME GlobalTypeOK, Follow, ChildrenDue,
           ListStaleChildren \/ UpdateStatus \/ RemoveFinalizer
           \/ \E n \in Namespaces : DeleteStaleChild(n) \/ DeleteChild(n)
    PROVE  ChildrenDue'
<1>1. Writes
  BY LastStepsWrite, NamespaceWorkWrites
<1>2. queue \subseteq queue'
  BY DEF ListStaleChildren, UpdateStatus, RemoveFinalizer, DeleteStaleChild, DeleteChild
<1>3. rec.pc \in {"idle", "cleanup", "delete"} \/ rec.todo = {}
  BY DEF ListStaleChildren, UpdateStatus, RemoveFinalizer, DeleteStaleChild, DeleteChild, WorkerStep
<1> QED
  BY <1>1, <1>2, <1>3, DueLater

LEMMA DueOutside ==
    ASSUME GlobalTypeOK, Follow, ChildrenDue, Outside
    PROVE  ChildrenDue'
<1> SUFFICES ASSUME faults' = 0, NEW g \in Globals, NEW n \in Namespaces,
                    Due(g, n)', ~Coming(g, n)'
             PROVE  g \in queue' \/ Working(g, n)'
  BY DEF ChildrenDue
<1>1. Writes /\ queue' = queue /\ rec' = rec
  BY OutsideWrites
<1>2. (g \in queue \/ Working(g, n)) /\ globals'[g] = globals[g]
  BY <1>1, DueAfterWrite
<1> QED
  BY <1>1, <1>2 DEF Working

\* A child is not made only where it is there already, or where it is not due
\* any more; a refused request has a change on its way (ensureChild).
LEMMA DueEnsure ==
    ASSUME GlobalTypeOK, Follow, ChildrenDue, ensureChild
    PROVE  ChildrenDue'
<1> SUFFICES ASSUME faults' = 0, NEW g \in Globals, NEW n \in Namespaces,
                    Due(g, n)', ~Coming(g, n)'
             PROVE  g \in queue' \/ Working(g, n)'
  BY DEF ChildrenDue
<1> DEFINE at == rec.at
           child == [label |-> rec.g, tmpl |-> rec.obj.spec.tmpl]
           request == ChildRequest(bCache[at][rec.g], rec.g, child.tmpl)
           done == [rec EXCEPT !.pc = "namespaces", !.at = None, !.todo = @ \ {at}]
<1>1. Writes
  BY EnsureChildWrites
<1>2. /\ Due(g, n) /\ (g \in queue \/ Working(g, n)) /\ globals'[g] = globals[g]
      /\ boosts'[n] = boosts[n] /\ g \in Names
      /\ \A name \in Names : bCache[n][name] = boosts[n][name]
  BY <1>1, DueAfterWrite DEF Names
<1>3. queue' = queue /\ rec.pc = "ensure" /\ rec \in Reconciliation
  BY GlobalParts DEF ensureChild, WorkerStep, RecOK
<1>4. CASE Working(g, n)
  <2>1. rec'.g = rec.g /\ rec'.pc = "namespaces" /\ rec'.obj = rec.obj
        /\ rec'.todo = rec.todo \ {at}
    <3>1. rec' = done \/ rec' = [done EXCEPT !.active = @ \cup {at}]
      BY DEF ensureChild
    <3>2. /\ done.g = rec.g /\ done.pc = "namespaces" /\ done.obj = rec.obj
          /\ done.todo = rec.todo \ {at}
      BY <1>3 DEF Reconciliation
    <3>3. done \in Reconciliation
      BY <1>3, RecDone, GlobalParts DEF RecOK, Reconciliation
    <3> HIDE DEF done, at
    <3> QED
      BY <3>1, <3>2, <3>3 DEF Reconciliation
  <2>2. CASE n = at
    <3> DEFINE cached == bCache[n][g]
    <3>1. rec.g = g /\ rec.obj.spec = globals[g].spec /\ cached = boosts[n][g]
      BY <1>2, <1>4 DEF Working
    <3>2. /\ namespaces[n] # None /\ ~namespaces[n].del
          /\ cached = None \/ (cached.label = g /\ cached.tmpl # globals[g].spec.tmpl)
      BY <1>2, <3>1 DEF Due, Selected, HasUnmanaged, HasChild
    <3>3. \/ request = "create" /\ cached = None
          \/ request = "update" /\ cached # None
      <4>1. request = ChildRequest(cached, g, globals[g].spec.tmpl)
        BY <2>2, <3>1
      <4>2. ASSUME NEW c, NEW t, c = None \/ (c.label = g /\ c.tmpl # t)
            PROVE  \/ ChildRequest(c, g, t) = "create" /\ c = None
                   \/ ChildRequest(c, g, t) = "update" /\ c # None
        BY <4>2 DEF ChildRequest
      <4> HIDE DEF request, cached
      <4> QED
        BY <3>2, <4>1, <4>2
    <3>4. ~Waits(bWatch, n)
      BY <1>1, NothingComing DEF Coming
    <3>5. ChildAccepted(request, n, g)
      <4>1. request = "update" => CurrentBoost(n, g)
        BY <3>1, <3>3, <3>4 DEF CurrentBoost, Waits
      <4> QED
        BY <3>1, <3>2, <3>3, <4>1 DEF ChildAccepted
    <3>6. \E o \in Outcomes(TRUE) : \/ TakesEffect(o) /\ StoreBoost(n, g, child)
                                    \/ ~TakesEffect(o) /\ CountFault(o)
      <4>1. request # "nothing"
        BY <3>3
      <4> HIDE DEF request, child
      <4>2. PICK o \in Outcomes(ChildAccepted(request, n, g)) :
              /\ IF TakesEffect(o) THEN StoreBoost(n, g, child) ELSE UNCHANGED bVars
              /\ CountFault(o)
        BY <2>2, <3>1, <4>1 DEF ensureChild, request, child
      <4>3. o \in Outcomes(TRUE)
        BY <3>5, <4>2 DEF Outcomes
      <4> QED
        BY <4>2, <4>3
    <3>7. StoreBoost(n, g, child)
      BY <3>6, GlobalParts, CountFaultType DEF Outcomes, TakesEffect, RestOK
    <3>8. Waits(bWatch', n)
      <4>1. bWatch \in Seq(Namespaces \X Names \X (BoostObject \cup {None}))
            /\ <<n, g, child>>[1] = n
        BY GlobalParts DEF BoostsOK
      <4> QED
        BY <3>7, <4>1, WaitsAppend DEF StoreBoost
    <3> QED
      BY <3>8 DEF Coming
  <2>3. CASE n # at
    BY <1>2, <1>4, <2>1, <2>3 DEF Working
  <2> QED
    BY <2>2, <2>3
<1> QED
  BY <1>2, <1>3, <1>4

\* The last change on its way is of the object as it is, so that what it
\* enqueues includes the global boost of a child that is due
\* (mapNamespaceToGlobalBoosts, mapBoostToGlobalBoosts).
LEMMA DueReceive ==
    ASSUME GlobalTypeOK, Follow, Follow', ChildrenDue,
           ReceiveGlobal \/ ReceiveNamespace \/ ReceiveBoost
    PROVE  ChildrenDue'
<1> SUFFICES ASSUME faults' = 0, NEW g \in Globals, NEW n \in Namespaces,
                    Due(g, n)', ~Coming(g, n)'
             PROVE  g \in queue' \/ Working(g, n)'
  BY DEF ChildrenDue
<1>1. UNCHANGED <<globals, namespaces, boosts, rec, faults>> /\ queue \subseteq queue'
  BY DEF ReceiveGlobal, ReceiveNamespace, ReceiveBoost, Informed
<1>2. Due(g, n) /\ (g \in queue \/ Coming(g, n) \/ Working(g, n))
  BY <1>1 DEF ChildrenDue, Due, Selected, HasChild, HasUnmanaged
<1>3. CASE g \in queue \/ Working(g, n)
  BY <1>1, <1>3 DEF Working
<1>4. CASE Coming(g, n)
  <2>1. gCache'[g] = globals[g] /\ nsCache'[n] = namespaces[n]
    BY <1>1 DEF Follow, GlobalsFollow, NamespacesFollow, Follows, Coming
  <2>2. /\ globals[g] # None /\ namespaces[n] # None
        /\ namespaces[n].lab \in globals[g].spec.sel
    BY <1>2 DEF Due, Selected
  <2>3. CASE ReceiveGlobal
    <3>1. gWatch # <<>> /\ gWatch' = Tail(gWatch) /\ UNCHANGED <<nsWatch, bWatch>>
      BY <2>3 DEF ReceiveGlobal
    <3>2. Waits(gWatch, g) /\ ~Waits(gWatch', g)
      BY <1>4, <3>1 DEF Coming
    <3>3. Head(gWatch)[1] = g
      BY <3>1, <3>2, WaitsTail, GlobalParts DEF ServerOK
    <3> QED
      BY <2>3, <3>3 DEF ReceiveGlobal
  <2>4. CASE ReceiveNamespace
    <3>1. /\ nsWatch # <<>> /\ nsWatch' = Tail(nsWatch) /\ UNCHANGED <<gWatch, bWatch, gCache>>
          /\ nsCache' = [nsCache EXCEPT ![Head(nsWatch)[1]] = Head(nsWatch)[2]]
          /\ queue' = queue \cup mapNamespaceToGlobalBoosts(nsCache[Head(nsWatch)[1]], Head(nsWatch)[2])
      BY <2>4 DEF ReceiveNamespace
    <3>2. Waits(nsWatch, n) /\ ~Waits(nsWatch', n)
      BY <1>4, <3>1 DEF Coming
    <3>3. Head(nsWatch)[1] = n
      BY <3>1, <3>2, WaitsTail, GlobalParts DEF NamespacesOK
    <3>4. Head(nsWatch)[2] = namespaces[n]
      BY <2>1, <3>1, <3>3, GlobalParts DEF CachesOK
    <3>5. g \in Selecting(Head(nsWatch)[2])
      BY <2>1, <2>2, <3>1, <3>4 DEF Selecting
    <3> QED
      BY <3>1, <3>5 DEF mapNamespaceToGlobalBoosts
  <2>5. CASE ReceiveBoost
    <3>1. /\ bWatch # <<>> /\ bWatch' = Tail(bWatch)
          /\ UNCHANGED <<gWatch, nsWatch, gCache, nsCache>>
          /\ queue' = queue \cup mapBoostToGlobalBoosts(Head(bWatch)[1])
      BY <2>5 DEF ReceiveBoost
    <3>2. Waits(bWatch, n) /\ ~Waits(bWatch', n)
      BY <1>4, <3>1 DEF Coming
    <3>3. Head(bWatch)[1] = n
      BY <3>1, <3>2, WaitsTail, GlobalParts DEF BoostsOK
    <3>4. g \in Selecting(nsCache[n])
      BY <2>1, <2>2, <3>1 DEF Selecting
    <3> QED
      BY <3>1, <3>3, <3>4 DEF mapBoostToGlobalBoosts
  <2> QED
    BY <2>3, <2>4, <2>5
<1> QED
  BY <1>2, <1>3, <1>4

\* A restart queues every global boost there is.
LEMMA DueRestart ==
    ASSUME Restart
    PROVE  ChildrenDue'
BY DEF Restart, ChildrenDue, Due, Selected

LEMMA DueUnchanged ==
    ASSUME Follow, ChildrenDue, UNCHANGED vars
    PROVE  Follow' /\ ChildrenDue'
<1>1. UNCHANGED <<globals, namespaces, boosts, gWatch, nsWatch, bWatch, gCache, nsCache, bCache>>
      /\ UNCHANGED <<queue, rec, faults>>
  BY DEF vars, gVars, bVars, nsVars, caches
<1>2. Follow'
  BY <1>1 DEF Follow, GlobalsFollow, NamespacesFollow, BoostsFollow
<1>3. ASSUME NEW g \in Globals, NEW n \in Namespaces
      PROVE  /\ Due(g, n)' <=> Due(g, n)
             /\ Coming(g, n)' <=> Coming(g, n)
             /\ Working(g, n)' <=> Working(g, n)
  <2>1. Due(g, n)' <=> Due(g, n)
    BY <1>1 DEF Due, Selected, HasChild, HasUnmanaged
  <2>2. Coming(g, n)' <=> Coming(g, n)
    BY <1>1 DEF Coming
  <2>3. Working(g, n)' <=> Working(g, n)
    BY <1>1 DEF Working
  <2> QED
    BY <2>1, <2>2, <2>3
<1>4. ChildrenDue'
  BY <1>1, <1>3 DEF ChildrenDue
<1> QED
  BY <1>2, <1>4

\* The inductive invariant: the caches follow, and no child that is due is forgotten.
LEMMA DueNext ==
    ASSUME GlobalTypeOK, Follow, ChildrenDue, [Next]_vars
    PROVE  Follow' /\ ChildrenDue'
<1>1. CASE UNCHANGED vars
  BY <1>1, DueUnchanged
<1>2. CASE \E g \in Globals : ReconcileNothing(g) \/ AddFinalizer(g) \/ ListNamespaces(g)
                              \/ StartDeletion(g)
  <2>1. PICK g \in Globals : ReconcileNothing(g) \/ AddFinalizer(g) \/ ListNamespaces(g)
                             \/ StartDeletion(g)
    BY <1>2, Zenon
  <2>2. Writes
    BY <2>1, StartReconcileWrites, Zenon
  <2> QED
    BY <2>1, <2>2, FollowWrites, DueStart, Zenon
<1>3. CASE \E n \in Namespaces : CheckNamespace(n)
  BY <1>3, NamespaceWorkWrites, FollowWrites, DueCheck, Zenon
<1>4. CASE ensureChild
  BY <1>4, EnsureChildWrites, FollowWrites, DueEnsure, Zenon
<1>5. CASE \E n \in Namespaces : DeleteStaleChild(n) \/ DeleteChild(n)
  BY <1>5, NamespaceWorkWrites, FollowWrites, DueCleanup, Zenon
<1>6. CASE ListStaleChildren \/ UpdateStatus \/ RemoveFinalizer
  BY <1>6, LastStepsWrite, FollowWrites, DueCleanup, Zenon
<1>7. CASE Outside
  BY <1>7, OutsideWrites, FollowWrites, DueOutside, Zenon
<1>8. CASE ReceiveGlobal \/ ReceiveNamespace \/ ReceiveBoost
  BY <1>8, FollowReceive, DueReceive, Zenon
<1>9. CASE Restart
  BY <1>9, FollowRestart, DueRestart, Zenon
<1> QED
  BY <1>1, <1>2, <1>3, <1>4, <1>5, <1>6, <1>7, <1>8, <1>9, Zenon
     DEF Next, Worker, UserAction, Outside

LEMMA DueQuiet ==
    ASSUME ChildrenDue
    PROVE  ChildrenPresent
<1> SUFFICES ASSUME Quiet, faults = 0, NEW g \in Globals, NEW n \in Namespaces,
                    Selected(g, n), ~HasUnmanaged(g, n)
             PROVE  HasChild(g, n) /\ boosts[n][g].tmpl = globals[g].spec.tmpl
  BY DEF ChildrenPresent
<1>1. g \notin queue /\ ~Working(g, n)
  BY IdleType DEF Quiet, Working
<1>2. ~Coming(g, n)
  <2>1. DOMAIN gWatch = {} /\ DOMAIN nsWatch = {} /\ DOMAIN bWatch = {}
    BY DEF Quiet
  <2> QED
    BY <2>1 DEF Coming, Waits
<1>3. ~namespaces[n].del
  BY DEF Quiet, Selected
<1> QED
  BY <1>1, <1>2, <1>3 DEF ChildrenDue, Due

\* For any number of global boosts, namespaces, edits and restarts, as long as
\* no request fails: once all is quiet a namespace that a global boost selects
\* and that holds no other boost has its child, made from the current template
\* (Reconcile, ensureChild).
THEOREM ChildrenArePresent == Spec => []ChildrenPresent
<1>1. Init => Follow /\ ChildrenDue
  <2>1. ASSUME Init PROVE ChildrenDue
    BY <2>1 DEF Init, ChildrenDue, Due, Selected
  <2> QED
    BY <2>1, FollowInit
<1>2. GlobalTypeOK /\ Follow /\ ChildrenDue /\ [Next]_vars => Follow' /\ ChildrenDue'
  BY DueNext
<1>3. ChildrenDue => ChildrenPresent
  BY DueQuiet
<1> QED
  BY <1>1, <1>2, <1>3, GlobalTypes, PTL DEF Spec

=============================================================================
