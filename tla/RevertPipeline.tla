--------------------------- MODULE RevertPipeline ---------------------------
(***************************************************************************)
(* The goroutines of a time check (validateTimePolicyBoosts in             *)
(* internal/boost/manager.go): a producer that asks the boosts for their   *)
(* overdue pods, a pool of workers that revert them, a goroutine that      *)
(* closes the channels of the results when the workers are done, one that  *)
(* logs the errors, and the caller, which collects the boosts to be        *)
(* reconciled and reconciles them.                                         *)
(*                                                                         *)
(* The tasks of a check differ, so their channel is a set; of the errors   *)
(* only the number matters.                                                *)
(***************************************************************************)
EXTENDS Naturals, FiniteSets, Sequences

CONSTANTS
    Boosts,         \* boosts with a fixed duration
    Tasks,          \* pairs of a boost and a pod it tracks
    Workers,        \* the goroutines of the pool
    MaxGoroutines,  \* the capacity of each channel
    None            \* no task

ASSUME PipelineAssumption ==
    /\ Workers # {} /\ MaxGoroutines \in Nat \ {0}
    /\ None \notin Tasks /\ \A t \in Tasks : t[1] \in Boosts

VARIABLES
    caller,          \* where validateTimePolicyBoosts is
    timeBoosts,      \* the boosts the producer has yet to ask
    sending,         \* the tasks of one boost that it has yet to send
    revertTasks, tasksClosed,
    worker,          \* where a worker is, and its task
    reconcileTasks, errors, resultsClosed,
    requests,        \* reconcileRequests
    reconciler,      \* SetStartupCPUBoostReconciler has been called
    outcome          \* history: the outcome of every reversion of this check

producerVars == <<timeBoosts, sending, tasksClosed>>
callerVars == <<caller, requests, reconciler>>
pipelineVars == <<callerVars, producerVars, revertTasks, worker, reconcileTasks, errors,
                  resultsClosed, outcome>>

At(pc) == [pc |-> pc, task |-> None]
NoOutcome == [t \in {} |-> "ok"]

\* A send waits for room in the channel.
HasRoom(n) == n < MaxGoroutines

-----------------------------------------------------------------------------
\* The tick that starts a check, with new channels and goroutines.  What is
\* left of the goroutines of the previous check has channels of its own.
StartCheck(boosts) ==
    /\ caller = "idle"
    /\ caller' = "collecting" /\ requests' = {}
    /\ timeBoosts' = boosts /\ sending' = {} /\ tasksClosed' = FALSE
    /\ revertTasks' = {} /\ worker' = [w \in Workers |-> At("ready")]
    /\ reconcileTasks' = <<>> /\ errors' = 0 /\ resultsClosed' = FALSE
    /\ outcome' = NoOutcome
    /\ UNCHANGED reconciler

-----------------------------------------------------------------------------
\* The producer.  ValidatePolicy returns the overdue pods of a boost.

AskBoost(b, tasks) ==
    /\ b \in timeBoosts /\ sending = {}
    /\ timeBoosts' = timeBoosts \ {b} /\ sending' = tasks
    /\ UNCHANGED <<revertTasks, tasksClosed>>

SendTask(t) ==
    /\ t \in sending /\ HasRoom(Cardinality(revertTasks))
    /\ sending' = sending \ {t} /\ revertTasks' = revertTasks \cup {t}
    /\ UNCHANGED <<timeBoosts, tasksClosed>>

CloseTasks ==
    /\ timeBoosts = {} /\ sending = {} /\ ~tasksClosed
    /\ tasksClosed' = TRUE
    /\ UNCHANGED <<timeBoosts, sending, revertTasks>>

Producer ==
    /\ caller = "collecting"
    /\ \/ \E b \in Boosts : \E tasks \in SUBSET {t \in Tasks : t[1] = b} : AskBoost(b, tasks)
       \/ \E t \in Tasks : SendTask(t)
       \/ CloseTasks
    /\ UNCHANGED <<callerVars, worker, reconcileTasks, errors, resultsClosed, outcome>>

-----------------------------------------------------------------------------
\* A worker.

TakeTask(w, t) ==
    /\ worker[w].pc = "ready" /\ t \in revertTasks
    /\ revertTasks' = revertTasks \ {t}
    /\ worker' = [worker EXCEPT ![w] = [pc |-> "reverting", task |-> t]]
    /\ UNCHANGED <<reconcileTasks, errors, outcome>>

\* Mutant: a failure is passed on like a success.
RevertIgnoringErrors(w, o) ==
    /\ worker[w].pc = "reverting"
    /\ worker' = [worker EXCEPT ![w].pc = "request"]
    /\ outcome' = [t \in DOMAIN outcome \cup {worker[w].task} |->
                     IF t = worker[w].task THEN o ELSE outcome[t]]
    /\ UNCHANGED <<revertTasks, reconcileTasks, errors>>

\* RevertResources succeeds or fails.
Revert(w, o) ==
    /\ worker[w].pc = "reverting"
    /\ worker' = [worker EXCEPT ![w].pc = IF o = "ok" THEN "request" ELSE "error"]
    /\ outcome' = [t \in DOMAIN outcome \cup {worker[w].task} |->
                     IF t = worker[w].task THEN o ELSE outcome[t]]
    /\ UNCHANGED <<revertTasks, reconcileTasks, errors>>

SendRequest(w) ==
    /\ worker[w].pc = "request" /\ HasRoom(Len(reconcileTasks))
    /\ reconcileTasks' = Append(reconcileTasks, worker[w].task[1])
    /\ worker' = [worker EXCEPT ![w] = At("ready")]
    /\ UNCHANGED <<revertTasks, errors, outcome>>

SendError(w) ==
    /\ worker[w].pc = "error" /\ HasRoom(errors)
    /\ errors' = errors + 1
    /\ worker' = [worker EXCEPT ![w] = At("ready")]
    /\ UNCHANGED <<revertTasks, reconcileTasks, outcome>>

\* The channel of the tasks is closed and empty.
FinishWorker(w) ==
    /\ worker[w].pc = "ready" /\ tasksClosed /\ revertTasks = {}
    /\ worker' = [worker EXCEPT ![w] = At("done")]
    /\ UNCHANGED <<revertTasks, reconcileTasks, errors, outcome>>

Work(w) ==
    /\ \/ \E t \in Tasks : TakeTask(w, t)
       \/ \E o \in {"ok", "failed"} : Revert(w, o)
       \/ SendRequest(w) \/ SendError(w) \/ FinishWorker(w)
    /\ UNCHANGED <<callerVars, producerVars, resultsClosed>>

-----------------------------------------------------------------------------
\* Mutant: the wait group counts one worker.
SomeWorkerDone == \E w \in Workers : worker[w].pc = "done"

\* The goroutine that waits for the workers (wg.Wait) and closes both channels
\* of the results.
WorkersDone == \A w \in Workers : worker[w].pc = "done"

CloseResults ==
    /\ WorkersDone /\ ~resultsClosed
    /\ resultsClosed' = TRUE
    /\ UNCHANGED <<callerVars, producerVars, revertTasks, worker, reconcileTasks, errors, outcome>>

\* Mutant: the errors are logged when the workers are done.
LogErrorsLate ==
    /\ resultsClosed /\ errors > 0
    /\ errors' = errors - 1
    /\ UNCHANGED <<callerVars, producerVars, revertTasks, worker, reconcileTasks, resultsClosed,
                   outcome>>

LogError ==
    /\ errors > 0
    /\ errors' = errors - 1
    /\ UNCHANGED <<callerVars, producerVars, revertTasks, worker, reconcileTasks, resultsClosed,
                   outcome>>

-----------------------------------------------------------------------------
\* The caller: dedupeReconcileRequests, then a reconcile of every boost.

CollectRequest ==
    /\ caller = "collecting" /\ reconcileTasks # <<>>
    /\ requests' = requests \cup {Head(reconcileTasks)}
    /\ reconcileTasks' = Tail(reconcileTasks)
    /\ UNCHANGED caller

FinishCollecting ==
    /\ caller = "collecting" /\ reconcileTasks = <<>> /\ resultsClosed
    /\ caller' = "reconciling"
    /\ requests' = IF reconciler THEN requests ELSE {}
    /\ UNCHANGED reconcileTasks

ReconcileBoost(b) ==
    /\ caller = "reconciling" /\ b \in requests
    /\ requests' = requests \ {b}
    /\ UNCHANGED <<caller, reconcileTasks>>

FinishCheck ==
    /\ caller = "reconciling" /\ requests = {}
    /\ caller' = "idle"
    /\ UNCHANGED <<requests, reconcileTasks>>

Caller ==
    /\ \/ CollectRequest \/ FinishCollecting \/ FinishCheck
       \/ \E b \in Boosts : ReconcileBoost(b)
    /\ UNCHANGED <<reconciler, producerVars, revertTasks, worker, errors, resultsClosed, outcome>>

\* Called by setupControllers, on a goroutine of its own.
SetStartupCPUBoostReconciler ==
    /\ ~reconciler /\ reconciler' = TRUE
    /\ UNCHANGED <<caller, requests, producerVars, revertTasks, worker, reconcileTasks, errors,
                   resultsClosed, outcome>>

-----------------------------------------------------------------------------
PipelineInit ==
    /\ caller = "idle" /\ requests = {} /\ reconciler = FALSE
    /\ timeBoosts = {} /\ sending = {} /\ tasksClosed = TRUE /\ revertTasks = {}
    /\ worker = [w \in Workers |-> At("done")]
    /\ reconcileTasks = <<>> /\ errors = 0 /\ resultsClosed = TRUE
    /\ outcome = NoOutcome

\* The process ends and its memory is lost.
LosePipeline ==
    /\ caller' = "idle" /\ requests' = {} /\ reconciler' = FALSE
    /\ timeBoosts' = {} /\ sending' = {} /\ tasksClosed' = TRUE /\ revertTasks' = {}
    /\ worker' = [w \in Workers |-> At("done")]
    /\ reconcileTasks' = <<>> /\ errors' = 0 /\ resultsClosed' = TRUE
    /\ outcome' = NoOutcome

PipelineStep ==
    \/ Producer \/ CloseResults \/ LogError \/ Caller
    \/ \E w \in Workers : Work(w)

PipelineNext ==
    \/ PipelineStep \/ SetStartupCPUBoostReconciler \/ LosePipeline
    \/ \E boosts \in SUBSET Boosts : StartCheck(boosts)

PipelineSpec == PipelineInit /\ [][PipelineNext]_pipelineVars

-----------------------------------------------------------------------------
\* The tasks of this check: found, and sent, taken or done.
Due ==
    sending \cup revertTasks \cup DOMAIN outcome
    \cup {worker[w].task : w \in {v \in Workers : worker[v].pc = "reverting"}}

Phase == CASE caller = "idle" -> "idle"
           [] caller = "collecting" -> "reverting"
           [] caller = "reconciling" -> "reconciling"

Check == INSTANCE TimeCheck
           WITH phase <- Phase, due <- Due,
                owed <- IF caller = "reconciling" THEN requests ELSE {}

\* The goroutines of a time check together do what a time check promises:
\* every overdue pod is reverted once, and the caller reconciles, once, each
\* boost with a successful reversion, and only after the last reversion.
ImplementsTimeCheck == Check!Spec

\* No goroutine sends to a channel that has been closed (Go panics).
NoSendOnClosed ==
    /\ tasksClosed => sending = {} /\ timeBoosts = {}
    /\ resultsClosed => \A w \in Workers : worker[w].pc \notin {"request", "error"}

=============================================================================
