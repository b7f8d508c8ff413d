--------------------------- MODULE OperatorProofs ---------------------------
(***************************************************************************)
(* Proofs about RevertPipeline and Operator, for any rollouts, boosts,     *)
(* tasks, workers and channel capacity: no goroutine of a time check sends *)
(* to a closed channel, the goroutines implement TimeCheck, also in the    *)
(* replica, no time check drops a reconcile for want of a reconciler, an   *)
(* electing replica waits for the lease, and one that validates the        *)
(* feature gates runs only with those it needs.                            *)
(***************************************************************************)
EXTENDS Operator, TLAPS, SequenceTheorems

\* The time check, on its own.
Reverted == Check!Reverted

PipelineTypeOK ==
    /\ caller \in {"idle", "collecting", "reconciling"}
    /\ requests \subseteq Boosts /\ timeBoosts \subseteq Boosts
    /\ sending \subseteq Tasks /\ revertTasks \subseteq Tasks
    /\ worker \in [Workers -> [pc : {"ready", "reverting", "request", "error", "done"},
                               task : Tasks \cup {None}]]
    /\ reconcileTasks \in Seq(Boosts) /\ errors \in Nat
    /\ DOMAIN outcome \subseteq Tasks
    /\ \A t \in DOMAIN outcome : outcome[t] \in {"ok", "failed"}

Reverting(w) == worker[w].pc = "reverting"

\* A task is in one place: with the producer, in the channel, with one worker,
\* or done.  No boost that is yet to be asked has one.
OnePlace ==
    /\ sending \cap revertTasks = {} /\ sending \cap DOMAIN outcome = {}
    /\ revertTasks \cap DOMAIN outcome = {}
    /\ \A w \in Workers : Reverting(w) =>
         worker[w].task \in Tasks \ (sending \cup revertTasks \cup DOMAIN outcome)
    /\ \A v, w \in Workers :
         Reverting(v) /\ Reverting(w) /\ worker[v].task = worker[w].task => v = w
    /\ \A t \in Due : t[1] \notin timeBoosts

\* What is closed, and what is then over.
Closing ==
    /\ tasksClosed => timeBoosts = {} /\ sending = {}
    /\ \A w \in Workers : worker[w].pc = "done" => tasksClosed /\ revertTasks = {}
    /\ resultsClosed => WorkersDone
    /\ caller # "collecting" => resultsClosed

Requesting(w) == worker[w].pc = "request"

\* The boosts on their way to the caller are those with a successful reversion.
OnTheWay ==
    /\ requests \subseteq Reverted
    /\ \A i \in 1..Len(reconcileTasks) : reconcileTasks[i] \in Reverted
    /\ \A w \in Workers : Requesting(w) =>
         worker[w].task \in Tasks /\ worker[w].task[1] \in Reverted
    /\ caller = "collecting" =>
         \A b \in Reverted :
            \/ b \in requests
            \/ \E i \in 1..Len(reconcileTasks) : reconcileTasks[i] = b
            \/ \E w \in Workers : Requesting(w) /\ worker[w].task[1] = b

PipelineInv == PipelineTypeOK /\ OnePlace /\ Closing /\ OnTheWay

-----------------------------------------------------------------------------
LEMMA PipelineInitial == PipelineInit => PipelineInv
<1> SUFFICES ASSUME PipelineInit PROVE PipelineInv
  OBVIOUS
<1>1. PipelineTypeOK
  BY DEF PipelineInit, PipelineTypeOK, At, NoOutcome
<1>2. OnePlace
  BY DEF PipelineInit, OnePlace, At, NoOutcome, Reverting, Due
<1>3. Closing
  BY DEF PipelineInit, Closing, At, WorkersDone
<1>4. OnTheWay
  BY DEF PipelineInit, OnTheWay, At, NoOutcome, Requesting
<1> QED
  BY <1>1, <1>2, <1>3, <1>4 DEF PipelineInv

LEMMA StartPreserves ==
    ASSUME PipelineInv, NEW boosts \in SUBSET Boosts, StartCheck(boosts)
    PROVE  PipelineInv'
<1>1. PipelineTypeOK'
  BY DEF StartCheck, PipelineInv, PipelineTypeOK, At, NoOutcome
<1>2. OnePlace'
  BY DEF StartCheck, OnePlace, At, NoOutcome, Reverting, Due
<1>3. Closing'
  BY DEF StartCheck, Closing, At
<1>4. OnTheWay'
  BY DEF StartCheck, OnTheWay, At, NoOutcome, Requesting, Reverted, Check!Reverted
<1> QED
  BY <1>1, <1>2, <1>3, <1>4 DEF PipelineInv

LEMMA LosePreserves == LosePipeline => PipelineInv'
<1> SUFFICES ASSUME LosePipeline PROVE PipelineInv'
  OBVIOUS
<1>1. PipelineTypeOK'
  BY DEF LosePipeline, PipelineTypeOK, At, NoOutcome
<1>2. OnePlace'
  BY DEF LosePipeline, OnePlace, At, NoOutcome, Reverting, Due
<1>3. Closing'
  BY DEF LosePipeline, Closing, At, WorkersDone
<1>4. OnTheWay'
  BY DEF LosePipeline, OnTheWay, At, NoOutcome, Requesting
<1> QED
  BY <1>1, <1>2, <1>3, <1>4 DEF PipelineInv

\* The invariant survives a step that leaves alone what it speaks of.
LEMMA QuietPreserves ==
    ASSUME PipelineInv, errors' \in Nat,
           UNCHANGED <<caller, requests, producerVars, revertTasks, worker, reconcileTasks,
                       resultsClosed, outcome>>
    PROVE  PipelineInv'
<1> USE DEF producerVars
<1>1. PipelineTypeOK'
  BY DEF PipelineInv, PipelineTypeOK
<1>2. OnePlace'
  BY DEF PipelineInv, OnePlace, Reverting, Due
<1>3. Closing'
  BY DEF PipelineInv, Closing, WorkersDone
<1>4. OnTheWay'
  BY DEF PipelineInv, OnTheWay, Requesting, Reverted, Check!Reverted
<1> QED
  BY <1>1, <1>2, <1>3, <1>4 DEF PipelineInv

LEMMA ProducerPreserves == PipelineInv /\ Producer => PipelineInv'
<1> SUFFICES ASSUME PipelineInv, Producer PROVE PipelineInv'
  OBVIOUS
<1> USE DEF producerVars, callerVars
<1>1. OnTheWay'
  BY DEF Producer, PipelineInv, OnTheWay, Requesting, Reverted, Check!Reverted
<1>2. ASSUME NEW b \in Boosts, NEW tasks \in SUBSET {t \in Tasks : t[1] = b}, AskBoost(b, tasks)
      PROVE  PipelineTypeOK' /\ OnePlace' /\ Closing'
  <2>1. PipelineTypeOK'
    BY <1>2 DEF AskBoost, Producer, PipelineInv, PipelineTypeOK
  <2>2. OnePlace'
    BY <1>2 DEF AskBoost, Producer, PipelineInv, OnePlace, Reverting, Due
  <2>3. Closing'
    BY <1>2 DEF AskBoost, Producer, PipelineInv, Closing, WorkersDone
  <2> QED
    BY <2>1, <2>2, <2>3
<1>3. ASSUME NEW t \in Tasks, SendTask(t)
      PROVE  PipelineTypeOK' /\ OnePlace' /\ Closing'
  <2>1. PipelineTypeOK'
    BY <1>3 DEF SendTask, Producer, PipelineInv, PipelineTypeOK
  <2>2. OnePlace'
    BY <1>3 DEF SendTask, Producer, PipelineInv, OnePlace, Reverting, Due
  <2>3. Closing'
    BY <1>3 DEF SendTask, Producer, PipelineInv, Closing, WorkersDone
  <2> QED
    BY <2>1, <2>2, <2>3
<1>4. ASSUME CloseTasks
      PROVE  PipelineTypeOK' /\ OnePlace' /\ Closing'
  <2>1. PipelineTypeOK'
    BY <1>4 DEF CloseTasks, Producer, PipelineInv, PipelineTypeOK
  <2>2. OnePlace'
    BY <1>4 DEF CloseTasks, Producer, PipelineInv, OnePlace, Reverting, Due
  <2>3. Closing'
    BY <1>4 DEF CloseTasks, Producer, PipelineInv, Closing, WorkersDone
  <2> QED
    BY <2>1, <2>2, <2>3
<1> QED
  BY <1>1, <1>2, <1>3, <1>4 DEF Producer, PipelineInv

\* A worker that finds itself at work shows that its check is not over.
LEMMA AtWork ==
    ASSUME PipelineInv, NEW w \in Workers, worker[w].pc # "done"
    PROVE  caller = "collecting" /\ ~resultsClosed
BY DEF PipelineInv, Closing, WorkersDone

\* A step that gives no worker a task leaves each task in its place.
LEMMA NoTaskMoves ==
    ASSUME OnePlace, sending' = sending, timeBoosts' = timeBoosts,
           revertTasks' = revertTasks, outcome' = outcome,
           \A v \in Workers : worker'[v].pc = "reverting" => worker'[v] = worker[v]
    PROVE  OnePlace'
<1>1. \A v \in Workers : Reverting(v)' => Reverting(v) /\ worker'[v].task = worker[v].task
  BY DEF Reverting
<1>2. Due' \subseteq Due
  BY DEF Due
<1>3. \A t \in Due' : t[1] \notin timeBoosts'
  BY <1>2 DEF OnePlace
<1> QED
  BY <1>1, <1>3 DEF OnePlace

LEMMA WorkPreserves ==
    ASSUME PipelineInv, NEW w \in Workers, Work(w)
    PROVE  PipelineInv'
<1> USE DEF producerVars, callerVars
<1>0. /\ caller' = caller /\ requests' = requests /\ timeBoosts' = timeBoosts
      /\ sending' = sending /\ tasksClosed' = tasksClosed /\ resultsClosed' = resultsClosed
  BY DEF Work
<1>1. ASSUME NEW t \in Tasks, TakeTask(w, t)
      PROVE  PipelineInv'
  <2>1. PipelineTypeOK'
    BY <1>0, <1>1 DEF TakeTask, PipelineInv, PipelineTypeOK
  <2>2. OnePlace'
    BY <1>0, <1>1 DEF TakeTask, PipelineInv, PipelineTypeOK, OnePlace, Reverting, Due
  <2>3. Closing'
    BY <1>0, <1>1 DEF TakeTask, PipelineInv, PipelineTypeOK, Closing, WorkersDone
  <2>4. OnTheWay'
    BY <1>0, <1>1 DEF TakeTask, PipelineInv, PipelineTypeOK, OnTheWay, Requesting, Reverted,
                      Check!Reverted
  <2> QED
    BY <2>1, <2>2, <2>3, <2>4 DEF PipelineInv
<1>2. ASSUME NEW o \in {"ok", "failed"}, Revert(w, o)
      PROVE  PipelineInv'
  <2>0. worker[w].task \in Tasks \ DOMAIN outcome
    BY <1>2 DEF Revert, PipelineInv, OnePlace, Reverting
  <2>1. PipelineTypeOK'
    BY <1>0, <1>2, <2>0 DEF Revert, PipelineInv, PipelineTypeOK
  <2>2. OnePlace'
    BY <1>0, <1>2, <2>0 DEF Revert, PipelineInv, PipelineTypeOK, OnePlace, Reverting, Due
  <2>3. Closing'
    BY <1>0, <1>2 DEF Revert, PipelineInv, PipelineTypeOK, Closing, WorkersDone
  <2>4. OnTheWay'
    <3> DEFINE T == worker[w].task
    <3>1. Reverted' = IF o = "ok" THEN Reverted \cup {T[1]} ELSE Reverted
      <4>1. T[1] \in Boosts
        BY <2>0, PipelineAssumption
      <4>2. DOMAIN outcome' = DOMAIN outcome \cup {T} /\ outcome'[T] = o
        BY <1>2 DEF Revert
      <4>3. \A t \in DOMAIN outcome : outcome'[t] = outcome[t]
        BY <1>2, <2>0 DEF Revert
      <4> QED
        BY <4>1, <4>2, <4>3, <1>2 DEF Reverted, Check!Reverted
    <3>2. /\ \A v \in Workers : worker'[v].task = worker[v].task
          /\ \A v \in Workers \ {w} : worker'[v].pc = worker[v].pc
          /\ worker[w].pc # "request"
          /\ worker'[w].pc = IF o = "ok" THEN "request" ELSE "error"
      BY <1>2 DEF Revert, PipelineInv, PipelineTypeOK
    <3>3. reconcileTasks' = reconcileTasks
      BY <1>2 DEF Revert
    <3> HIDE DEF T
    <3>4. \A v \in Workers : Requesting(v)' =>
             worker'[v].task \in Tasks /\ worker'[v].task[1] \in Reverted'
      BY <3>1, <3>2, <2>0 DEF T, Requesting, PipelineInv, OnTheWay
    <3>5. caller' = "collecting" =>
            \A b \in Reverted' :
               \/ b \in requests'
               \/ \E i \in 1..Len(reconcileTasks') : reconcileTasks'[i] = b
               \/ \E v \in Workers : Requesting(v)' /\ worker'[v].task[1] = b
      BY <1>0, <3>1, <3>2, <3>3 DEF T, Requesting, PipelineInv, OnTheWay
    <3> QED
      BY <1>0, <3>1, <3>3, <3>4, <3>5 DEF PipelineInv, OnTheWay
  <2> QED
    BY <2>1, <2>2, <2>3, <2>4 DEF PipelineInv
<1>3. ASSUME SendRequest(w)
      PROVE  PipelineInv'
  <2>0. worker[w].task \in Tasks /\ worker[w].task[1] \in Boosts
    BY <1>3, PipelineAssumption DEF SendRequest, PipelineInv, OnTheWay, Requesting
  <2>1. PipelineTypeOK'
    BY <1>0, <1>3, <2>0 DEF SendRequest, PipelineInv, PipelineTypeOK, At
  <2>2. OnePlace'
    <3>1. \A v \in Workers : worker'[v].pc = "reverting" => worker'[v] = worker[v]
      BY <1>3 DEF SendRequest, PipelineInv, PipelineTypeOK, At
    <3> QED
      BY <1>0, <1>3, <3>1, NoTaskMoves DEF SendRequest, PipelineInv
  <2>3. Closing'
    BY <1>0, <1>3 DEF SendRequest, PipelineInv, PipelineTypeOK, Closing, WorkersDone, At
  <2>4. OnTheWay'
    <3> DEFINE b0 == worker[w].task[1]
    <3>1. Reverted' = Reverted /\ b0 \in Reverted
      BY <1>3 DEF SendRequest, Reverted, Check!Reverted, PipelineInv, OnTheWay, Requesting
    <3>2. /\ \A v \in Workers \ {w} : worker'[v] = worker[v]
          /\ worker'[w].pc = "ready"
      BY <1>3 DEF SendRequest, PipelineInv, PipelineTypeOK, At
    <3>3. /\ Len(reconcileTasks) \in Nat /\ Len(reconcileTasks') = Len(reconcileTasks) + 1
          /\ reconcileTasks'[Len(reconcileTasks) + 1] = b0
          /\ \A i \in 1..Len(reconcileTasks) : reconcileTasks'[i] = reconcileTasks[i]
      BY <1>3, <2>0 DEF SendRequest, PipelineInv, PipelineTypeOK
    <3> HIDE DEF b0
    <3>4. \A i \in 1..Len(reconcileTasks') : reconcileTasks'[i] \in Reverted'
      BY <3>1, <3>3 DEF PipelineInv, OnTheWay
    <3>5. \A b : b = b0 \/ (\E i \in 1..Len(reconcileTasks) : reconcileTasks[i] = b) =>
                 \E i \in 1..Len(reconcileTasks') : reconcileTasks'[i] = b
      BY <3>3
    <3>6. \A v \in Workers : Requesting(v)' => v # w
      BY <3>2 DEF Requesting
    <3>7. \A v \in Workers : Requesting(v)' =>
             worker'[v].task \in Tasks /\ worker'[v].task[1] \in Reverted'
      BY <3>1, <3>2, <3>6 DEF Requesting, PipelineInv, OnTheWay
    <3>8. caller' = "collecting" =>
            \A b \in Reverted' :
               \/ b \in requests'
               \/ \E i \in 1..Len(reconcileTasks') : reconcileTasks'[i] = b
               \/ \E v \in Workers : Requesting(v)' /\ worker'[v].task[1] = b
      <4> SUFFICES ASSUME caller = "collecting", NEW b \in Reverted,
                          b \notin requests,
                          ~\E i \in 1..Len(reconcileTasks') : reconcileTasks'[i] = b
                   PROVE  \E v \in Workers : Requesting(v)' /\ worker'[v].task[1] = b
        BY <1>0, <3>1
      <4>1. PICK v \in Workers : Requesting(v) /\ worker[v].task[1] = b
        BY <3>5 DEF PipelineInv, OnTheWay
      <4>2. v # w
        BY <4>1, <3>5 DEF b0
      <4> QED
        BY <3>2, <4>1, <4>2 DEF Requesting
    <3> QED
      BY <1>0, <3>1, <3>4, <3>7, <3>8 DEF PipelineInv, OnTheWay
  <2> QED
    BY <2>1, <2>2, <2>3, <2>4 DEF PipelineInv
<1>4. ASSUME SendError(w) \/ FinishWorker(w)
      PROVE  PipelineInv'
  <2>0. /\ worker' = [worker EXCEPT ![w] = At("ready")] /\ worker[w].pc = "error"
        \/ /\ worker' = [worker EXCEPT ![w] = At("done")] /\ worker[w].pc = "ready"
           /\ tasksClosed /\ revertTasks = {}
    BY <1>4 DEF SendError, FinishWorker
  <2>a. /\ revertTasks' = revertTasks /\ reconcileTasks' = reconcileTasks /\ outcome' = outcome
        /\ errors' \in {errors, errors + 1}
    BY <1>4 DEF SendError, FinishWorker
  <2>1. PipelineTypeOK'
    BY <1>0, <2>0, <2>a DEF PipelineInv, PipelineTypeOK, At
  <2>2. OnePlace'
    <3>1. \A v \in Workers : worker'[v].pc = "reverting" => worker'[v] = worker[v]
      BY <2>0 DEF PipelineInv, PipelineTypeOK, At
    <3> QED
      BY <1>0, <2>a, <3>1, NoTaskMoves DEF PipelineInv
  <2>3. Closing'
    BY <1>0, <2>0, <2>a DEF PipelineInv, PipelineTypeOK, Closing, WorkersDone, At
  <2>4. OnTheWay'
    <3>1. Reverted' = Reverted
      BY <2>a DEF Reverted, Check!Reverted
    <3>2. \A v \in Workers : /\ Requesting(v)' <=> Requesting(v)
                             /\ Requesting(v) => worker'[v] = worker[v]
      BY <2>0 DEF Requesting, PipelineInv, PipelineTypeOK, At
    <3> QED
      BY <1>0, <2>a, <3>1, <3>2 DEF PipelineInv, OnTheWay
  <2> QED
    BY <2>1, <2>2, <2>3, <2>4 DEF PipelineInv
<1> QED
  BY <1>1, <1>2, <1>3, <1>4 DEF Work

LEMMA CallerPreserves == PipelineInv /\ Caller => PipelineInv'
<1> SUFFICES ASSUME PipelineInv, Caller PROVE PipelineInv'
  OBVIOUS
<1> USE DEF producerVars, callerVars
<1>1. OnePlace'
  BY DEF Caller, PipelineInv, OnePlace, Reverting, Due
<1>2. CASE CollectRequest
  <2>1. /\ Head(reconcileTasks) = reconcileTasks[1] /\ Len(reconcileTasks) \in Nat \ {0}
        /\ reconcileTasks[1] \in Boosts
        /\ reconcileTasks' \in Seq(Boosts) /\ Len(reconcileTasks') = Len(reconcileTasks) - 1
        /\ \A i \in 1..Len(reconcileTasks') : reconcileTasks'[i] = reconcileTasks[i + 1]
    BY <1>2 DEF CollectRequest, PipelineInv, PipelineTypeOK
  <2>2. PipelineTypeOK'
    BY <1>2, <2>1 DEF CollectRequest, Caller, PipelineInv, PipelineTypeOK
  <2>3. Closing'
    BY <1>2 DEF CollectRequest, Caller, PipelineInv, Closing, WorkersDone
  <2>4. \A i \in 1..Len(reconcileTasks') : i + 1 \in 1..Len(reconcileTasks)
    BY <2>1
  <2>5. \A i \in 1..Len(reconcileTasks) : i = 1 \/ i - 1 \in 1..Len(reconcileTasks')
    BY <2>1
  <2>6. \A b : (\E i \in 1..Len(reconcileTasks) : reconcileTasks[i] = b) =>
               b = reconcileTasks[1] \/ \E i \in 1..Len(reconcileTasks') : reconcileTasks'[i] = b
    <3> SUFFICES ASSUME NEW b, NEW i \in 1..Len(reconcileTasks), reconcileTasks[i] = b, i # 1
                 PROVE  \E j \in 1..Len(reconcileTasks') : reconcileTasks'[j] = b
      OBVIOUS
    <3>1. i - 1 \in 1..Len(reconcileTasks') /\ reconcileTasks'[i - 1] = reconcileTasks[(i - 1) + 1]
      BY <2>1, <2>5
    <3> QED
      BY <3>1
  <2>7. OnTheWay'
    <3>1. Reverted' = Reverted /\ \A v \in Workers : Requesting(v)' <=> Requesting(v)
      BY DEF Caller, Reverted, Check!Reverted, Requesting
    <3>2. /\ requests' = requests \cup {reconcileTasks[1]} /\ caller' = caller
          /\ worker' = worker /\ reconcileTasks[1] \in Reverted
      BY <1>2, <2>1 DEF CollectRequest, Caller, PipelineInv, OnTheWay
    <3>3. \A i \in 1..Len(reconcileTasks') : reconcileTasks'[i] \in Reverted'
      BY <2>1, <2>4, <3>1 DEF PipelineInv, OnTheWay
    <3> QED
      BY <3>1, <3>2, <3>3, <2>6 DEF PipelineInv, OnTheWay
  <2> QED
    BY <1>1, <2>2, <2>3, <2>7 DEF PipelineInv
<1>3. CASE ~CollectRequest
  <2>1. /\ requests' \subseteq requests /\ reconcileTasks' = reconcileTasks
        /\ caller' \in {"idle", "reconciling"} /\ resultsClosed
    BY <1>3 DEF Caller, FinishCollecting, ReconcileBoost, FinishCheck, PipelineInv, Closing
  <2>2. PipelineTypeOK'
    BY <2>1 DEF Caller, PipelineInv, PipelineTypeOK
  <2>3. Closing'
    BY <2>1 DEF Caller, PipelineInv, Closing, WorkersDone
  <2>4. OnTheWay'
    BY <2>1 DEF Caller, PipelineInv, OnTheWay, Requesting, Reverted, Check!Reverted
  <2> QED
    BY <1>1, <2>2, <2>3, <2>4 DEF PipelineInv
<1> QED
  BY <1>2, <1>3

LEMMA PipelinePreserves == PipelineInv /\ [PipelineNext]_pipelineVars => PipelineInv'
<1> SUFFICES ASSUME PipelineInv, [PipelineNext]_pipelineVars PROVE PipelineInv'
  OBVIOUS
<1>1. CASE CloseResults
  <2>1. PipelineTypeOK' /\ OnePlace' /\ OnTheWay'
    BY <1>1 DEF CloseResults, PipelineInv, PipelineTypeOK, OnePlace, OnTheWay, Reverting, Due,
                Requesting, Reverted, Check!Reverted, producerVars, callerVars
  <2>2. Closing'
    BY <1>1 DEF CloseResults, PipelineInv, Closing, WorkersDone, producerVars, callerVars
  <2> QED
    BY <2>1, <2>2 DEF PipelineInv
<1>2. CASE LogError
  <2>1. errors' \in Nat
    BY <1>2 DEF LogError, PipelineInv, PipelineTypeOK
  <2> QED
    BY <1>2, <2>1, QuietPreserves DEF LogError, callerVars
<1>3. CASE SetStartupCPUBoostReconciler
  BY <1>3, QuietPreserves
     DEF SetStartupCPUBoostReconciler, PipelineInv, PipelineTypeOK
<1>4. CASE UNCHANGED pipelineVars
  BY <1>4, QuietPreserves DEF pipelineVars, callerVars, PipelineInv, PipelineTypeOK
<1> QED
  BY <1>1, <1>2, <1>3, <1>4, StartPreserves, LosePreserves, ProducerPreserves, WorkPreserves,
     CallerPreserves DEF PipelineNext, PipelineStep

\* No goroutine of a time check sends to a closed channel: the producer closes
\* its channel after its last send, and the results' channels are closed after
\* the last worker has returned.
THEOREM NoSendOnClosedCorrect == PipelineSpec => []NoSendOnClosed
<1>1. PipelineInv => NoSendOnClosed
  BY DEF PipelineInv, Closing, NoSendOnClosed, WorkersDone
<1> QED
  BY <1>1, PipelineInitial, PipelinePreserves, PTL DEF PipelineSpec

-----------------------------------------------------------------------------
\* The refinement: what a step is to the time check.

\* The tasks that workers hold are due until their outcome is known.
LEMMA DueMembers ==
    \A t : t \in Due <=> \/ t \in sending \cup revertTasks \cup DOMAIN outcome
                         \/ \E w \in Workers : Reverting(w) /\ worker[w].task = t
BY DEF Due, Reverting

LEMMA InitialRefines == PipelineInit => Check!Init
BY DEF PipelineInit, Check!Init, Phase, Due, At, NoOutcome

LEMMA StartRefines ==
    ASSUME NEW boosts \in SUBSET Boosts, StartCheck(boosts)
    PROVE  Check!Begin
BY DEF StartCheck, Check!Begin, Phase, Due, At, NoOutcome

LEMMA LoseRefines == LosePipeline => Check!Abandon
BY DEF LosePipeline, Check!Abandon, Phase, Due, At, NoOutcome

\* A step that moves tasks from one place to the next, or touches none.
LEMMA MoveRefines ==
    ASSUME Due' = Due, outcome' = outcome, caller' = caller,
           caller = "reconciling" => requests' = requests
    PROVE  UNCHANGED Check!vars
BY DEF Check!vars, Phase

LEMMA ProducerRefines == PipelineInv /\ Producer => [Check!Next]_(Check!vars)
<1> SUFFICES ASSUME PipelineInv, Producer PROVE [Check!Next]_(Check!vars)
  OBVIOUS
<1> USE DEF callerVars
<1>1. ASSUME NEW b \in Boosts, NEW tasks \in SUBSET {t \in Tasks : t[1] = b}, AskBoost(b, tasks)
      PROVE  Check!Find(b, tasks)
  <2>1. \A t \in Due : t[1] # b
    BY <1>1 DEF AskBoost, PipelineInv, OnePlace
  <2>2. Due' = Due \cup tasks
    BY <1>1 DEF AskBoost, Producer, Due
  <2> QED
    BY <2>1, <2>2 DEF Producer, Check!Find, Phase
<1>2. ASSUME NEW t \in Tasks, SendTask(t)
      PROVE  Due' = Due
  BY <1>2 DEF SendTask, Producer, Due
<1>3. ASSUME CloseTasks
      PROVE  Due' = Due
  BY <1>3 DEF CloseTasks, Producer, Due
<1>4. (\E t \in Tasks : SendTask(t)) \/ CloseTasks => UNCHANGED Check!vars
  BY <1>2, <1>3, MoveRefines DEF Producer
<1> QED
  BY <1>1, <1>4 DEF Producer, Check!Next

LEMMA WorkRefines ==
    ASSUME PipelineInv, NEW w \in Workers, Work(w)
    PROVE  [Check!Next]_(Check!vars)
<1> USE DEF callerVars, producerVars
<1>0. /\ caller' = caller /\ requests' = requests /\ sending' = sending
      /\ worker[w].pc # "done"
  BY DEF Work, TakeTask, Revert, SendRequest, SendError, FinishWorker
<1>1. ASSUME NEW t \in Tasks, TakeTask(w, t)
      PROVE  UNCHANGED Check!vars
  <2>1. /\ \A v \in Workers \ {w} : worker'[v] = worker[v]
        /\ Reverting(w)' /\ worker'[w].task = t /\ ~Reverting(w)
        /\ revertTasks' = revertTasks \ {t} /\ t \in revertTasks /\ outcome' = outcome
    BY <1>1 DEF TakeTask, PipelineInv, PipelineTypeOK, Reverting
  <2>2. \A u : (\E v \in Workers : Reverting(v)' /\ worker'[v].task = u)
               <=> u = t \/ \E v \in Workers : Reverting(v) /\ worker[v].task = u
    BY <2>1 DEF Reverting
  <2>3. \A u : u \in Due' <=> u \in Due
    <3>1. \A u : u \in Due' <=> \/ u \in sending' \cup revertTasks' \cup DOMAIN outcome'
                               \/ \E v \in Workers : Reverting(v)' /\ worker'[v].task = u
      BY DEF Due, Reverting
    <3> QED
      BY <1>0, <2>1, <2>2, <3>1, DueMembers
  <2> QED
    BY <1>0, <2>1, <2>3, MoveRefines
<1>2. ASSUME NEW o \in {"ok", "failed"}, Revert(w, o)
      PROVE  Check!Revert(worker[w].task, o) /\ worker[w].task \in Tasks
  <2> DEFINE T == worker[w].task
  <2>1. T \in Due \ DOMAIN outcome /\ T \in Tasks
    BY <1>2, DueMembers DEF Revert, PipelineInv, OnePlace, Reverting
  <2>2. /\ \A v \in Workers : worker'[v].task = worker[v].task
        /\ \A v \in Workers \ {w} : worker'[v].pc = worker[v].pc
        /\ ~Reverting(w)' /\ Reverting(w)
        /\ revertTasks' = revertTasks /\ DOMAIN outcome' = DOMAIN outcome \cup {T}
    BY <1>2 DEF Revert, PipelineInv, PipelineTypeOK, Reverting
  <2>3. Due' = Due
    BY <1>0, <2>1, <2>2 DEF Due, Reverting
  <2>4. caller = "collecting"
    BY <1>0, AtWork
  <2> QED
    BY <1>0, <1>2, <2>1, <2>3, <2>4 DEF Revert, Check!Revert, Phase
<1>3. ASSUME SendRequest(w) \/ SendError(w) \/ FinishWorker(w)
      PROVE  UNCHANGED Check!vars
  <2>1. /\ \A v \in Workers \ {w} : worker'[v] = worker[v]
        /\ ~Reverting(w)' /\ ~Reverting(w)
        /\ revertTasks' = revertTasks /\ outcome' = outcome
    BY <1>3 DEF SendRequest, SendError, FinishWorker, At, PipelineInv, PipelineTypeOK, Reverting
  <2>2. Due' = Due
    BY <1>0, <2>1 DEF Due, Reverting
  <2> QED
    BY <1>0, <2>1, <2>2, MoveRefines
<1> QED
  BY <1>1, <1>2, <1>3 DEF Work, Check!Next

LEMMA CallerRefines == PipelineInv /\ Caller => [Check!Next]_(Check!vars)
<1> SUFFICES ASSUME PipelineInv, Caller PROVE [Check!Next]_(Check!vars)
  OBVIOUS
<1> USE DEF producerVars
<1>0. Due' = Due /\ outcome' = outcome
  BY DEF Caller, Due
<1>1. CASE CollectRequest
  BY <1>0, <1>1, MoveRefines DEF CollectRequest
<1>2. CASE FinishCollecting
  <2>1. \A w \in Workers : worker[w].pc = "done"
    BY <1>2 DEF FinishCollecting, PipelineInv, Closing, WorkersDone
  <2>2. sending = {} /\ revertTasks = {}
    BY <2>1, PipelineAssumption DEF PipelineInv, Closing
  <2>3. DOMAIN outcome = Due
    BY <2>1, <2>2 DEF Due
  <2>4. reconcileTasks = <<>> /\ \A w \in Workers : ~Requesting(w)
    BY <1>2, <2>1 DEF FinishCollecting, Requesting
  <2>5. requests = Reverted
    <3>1. Len(reconcileTasks) = 0
      BY <2>4
    <3>2. \A b \in Reverted : b \in requests
      BY <1>2, <2>4, <3>1 DEF FinishCollecting, PipelineInv, OnTheWay
    <3>3. requests \subseteq Reverted
      BY DEF PipelineInv, OnTheWay
    <3> QED
      BY <3>2, <3>3
  <2> QED
    BY <1>0, <1>2, <2>3, <2>5 DEF FinishCollecting, Check!Collect, Check!Next, Phase, Reverted
<1>3. ASSUME NEW b \in Boosts, ReconcileBoost(b)
      PROVE  Check!Reconcile(b)
  BY <1>0, <1>3 DEF ReconcileBoost, Check!Reconcile, Phase
<1>4. CASE FinishCheck
  BY <1>0, <1>4 DEF FinishCheck, Check!End, Check!Next, Phase
<1> QED
  BY <1>1, <1>2, <1>3, <1>4 DEF Caller, Check!Next

LEMMA StepRefines ==
    PipelineInv /\ [PipelineNext]_pipelineVars => [Check!Next]_(Check!vars)
<1> SUFFICES ASSUME PipelineInv, [PipelineNext]_pipelineVars PROVE [Check!Next]_(Check!vars)
  OBVIOUS
<1>1. CASE CloseResults \/ LogError \/ SetStartupCPUBoostReconciler \/ UNCHANGED pipelineVars
  <2>1. Due' = Due /\ outcome' = outcome /\ caller' = caller /\ requests' = requests
    BY <1>1 DEF CloseResults, LogError, SetStartupCPUBoostReconciler, pipelineVars, callerVars,
                producerVars, Due
  <2> QED
    BY <2>1, MoveRefines
<1> QED
  BY <1>1, StartRefines, LoseRefines, ProducerRefines, WorkRefines, CallerRefines
     DEF PipelineNext, PipelineStep, Check!Next

\* The goroutines of validateTimePolicyBoosts do what a time check promises,
\* for any number of boosts, tasks and workers and any capacity of the channels:
\* every overdue pod is reverted once, and each boost with a successful
\* reversion is reconciled once, after the last reversion.
THEOREM TimeCheckImplemented == PipelineSpec => ImplementsTimeCheck
<1>1. PipelineSpec => []PipelineInv
  BY PipelineInitial, PipelinePreserves, PTL DEF PipelineSpec
<1> QED
  BY <1>1, InitialRefines, StepRefines, PTL DEF PipelineSpec, ImplementsTimeCheck, Check!Spec

-----------------------------------------------------------------------------
\* The replica that runs it.

LEMMA StepIsPipelineStep == [Next]_vars => [PipelineNext]_pipelineVars
<1> SUFFICES ASSUME [Next]_vars PROVE [PipelineNext]_pipelineVars
  OBVIOUS
<1>1. CASE Start \/ Fail
  BY <1>1 DEF Start, Fail, PipelineNext
<1>2. CASE SetupController
  BY <1>2 DEF SetupController, PipelineNext
<1>3. CASE Tick
  <2>1. PICK boosts \in SUBSET (IF Registering THEN Boosts ELSE {}) : StartCheck(boosts)
    BY <1>3 DEF Tick
  <2> QED
    BY <2>1 DEF PipelineNext
<1>4. CASE Checking(PipelineStep)
  BY <1>4 DEF Checking, PipelineNext
<1>5. CASE UNCHANGED vars
  BY <1>5 DEF vars
<1> QED
  BY <1>1, <1>2, <1>3, <1>4, <1>5 DEF Next

LEMMA OperatorIsPipeline == Spec => PipelineSpec
<1>1. Init => PipelineInit
  BY DEF Init
<1> QED
  BY <1>1, StepIsPipelineStep, PTL DEF Spec, PipelineSpec

\* The replica's time checks, from its start to its end, keep what a time check
\* promises; a process that exits abandons its check.
THEOREM OperatorImplementsTimeCheck == Spec => ImplementsTimeCheck
BY OperatorIsPipeline, TimeCheckImplemented

\* In the replica, too, no goroutine of a time check sends to a closed channel,
\* though the process may exit, and start again, in the middle of a check.
THEOREM OperatorSendsOpen == Spec => []NoSendOnClosed
BY OperatorIsPipeline, NoSendOnClosedCorrect

-----------------------------------------------------------------------------
\* A check has tasks only after the boost controller was set up, hence after
\* the reconciler was set.
HasReconciler ==
    /\ main = "exited" => setup = "none"
    /\ setup \in {"reconciler", "boosts", "ready"} => reconciler
    /\ reconciler \/ (/\ timeBoosts = {} /\ sending = {} /\ revertTasks = {}
                      /\ \A w \in Workers : worker[w].pc \in {"ready", "done"}
                      /\ reconcileTasks = <<>> /\ requests = {})

LEMMA HasReconcilerStep == PipelineInv /\ HasReconciler /\ [Next]_vars => HasReconciler'
<1> SUFFICES ASSUME PipelineInv, HasReconciler, [Next]_vars PROVE HasReconciler'
  OBVIOUS
<1> USE DEF startUpVars, processVars, clusterVars, pipelineVars, callerVars, producerVars
<1>1. CASE Start
  <2>1. CASE main' = "exited"
    <3>1. setup' = "none"
      BY <1>1, <2>1 DEF HasReconciler, Start, Main, RestartContainer, Load, GetClusterVersion,
            CheckFeatureGates, StartManager, RotateCerts, Elect, StartBoostManager,
            FinishRollout, RemoveOld, Exit
    <3> QED
      BY <1>1, <2>1, <3>1 DEF Start, LosePipeline, HasReconciler, At
  <2>2. CASE main' # "exited"
    <3>1. setup' \in {setup, "waiting"}
      BY <1>1, <2>2 DEF Start, Main, RestartContainer, Load, GetClusterVersion,
            CheckFeatureGates, StartManager, RotateCerts, Elect, StartBoostManager,
            FinishRollout, RemoveOld, Exit
    <3> QED
      BY <1>1, <2>2, <3>1 DEF Start, HasReconciler
  <2> QED
    BY <2>1, <2>2
<1>2. CASE SetupController
  BY <1>2 DEF SetupController, SetReconciler, SetStartupCPUBoostReconciler, SetUpWebhooks,
              SetUpBoostController, SetUpGlobalController, SetUp, HasReconciler
<1>3. CASE Fail
  <2>1. CASE Crash /\ LosePipeline
    BY <2>1 DEF Crash, Exit, LosePipeline, HasReconciler, At
  <2>2. CASE EvictOld /\ UNCHANGED pipelineVars
    BY <2>2 DEF EvictOld, RemoveOld, HasReconciler
  <2> QED
    BY <1>3, <2>1, <2>2 DEF Fail
<1>4. CASE Tick
  <2>1. PICK boosts \in SUBSET (IF Registering THEN Boosts ELSE {}) : StartCheck(boosts)
    BY <1>4 DEF Tick
  <2>2. UNCHANGED <<main, setup, reconciler>>
    BY <1>4, <2>1 DEF Tick, StartCheck
  <2>3. reconciler \/ boosts = {}
    BY <2>1 DEF Registering, HasReconciler
  <2>4. /\ timeBoosts' = boosts /\ sending' = {} /\ revertTasks' = {} /\ requests' = {}
        /\ reconcileTasks' = <<>> /\ \A w \in Workers : worker'[w].pc = "ready"
    BY <2>1 DEF StartCheck, At
  <2> QED
    BY <2>2, <2>3, <2>4 DEF HasReconciler
<1>5. CASE Checking(PipelineStep)
  <2>1. setup' = setup /\ main' = main /\ PipelineStep
    BY <1>5 DEF Checking
  <2>2. reconciler' = reconciler
    BY <2>1 DEF PipelineStep, Producer, CloseResults, LogError, Caller, Work
  <2>3. CASE reconciler
    BY <2>1, <2>2, <2>3 DEF HasReconciler
  <2>4. CASE ~reconciler
    <3>1. ASSUME Producer PROVE HasReconciler'
      BY <2>1, <2>2, <2>4, <3>1
         DEF Producer, AskBoost, SendTask, CloseTasks, HasReconciler
    <3>2. ASSUME NEW w \in Workers, Work(w) PROVE HasReconciler'
      BY <2>1, <2>2, <2>4, <3>2
         DEF Work, TakeTask, Revert, SendRequest, SendError, FinishWorker, HasReconciler, At,
             PipelineInv, PipelineTypeOK
    <3>3. ASSUME Caller PROVE HasReconciler'
      BY <2>1, <2>2, <2>4, <3>3
         DEF Caller, CollectRequest, FinishCollecting, ReconcileBoost, FinishCheck, HasReconciler
    <3>4. ASSUME CloseResults \/ LogError PROVE HasReconciler'
      BY <2>1, <2>2, <2>4, <3>4 DEF CloseResults, LogError, HasReconciler
    <3> QED
      BY <2>1, <3>1, <3>2, <3>3, <3>4 DEF PipelineStep
  <2> QED
    BY <2>3, <2>4
<1>6. CASE UNCHANGED vars
  BY <1>6 DEF vars, HasReconciler
<1> QED
  BY <1>1, <1>2, <1>3, <1>4, <1>5, <1>6 DEF Next

\* No time check drops a reconcile: the reconciler, a field that is set by
\* setupControllers without synchronisation, is set before boosts can be
\* registered, in every order of the process's goroutines.
THEOREM NoReconcileLostCorrect == Spec => []NoReconcileLost
<1>1. Init => PipelineInv /\ HasReconciler
  BY PipelineInitial DEF Init, StartUpInit, PipelineInit, HasReconciler, At
<1>2. PipelineInv /\ HasReconciler /\ [Next]_vars => (PipelineInv /\ HasReconciler)'
  BY HasReconcilerStep, PipelinePreserves, StepIsPipelineStep
<1>3. HasReconciler => NoReconcileLost
  BY DEF HasReconciler, NoReconcileLost
<1> QED
  BY <1>1, <1>2, <1>3, PTL DEF Spec

-----------------------------------------------------------------------------
\* The old replica keeps its lease while it is there.
LeaseKept ==
    /\ started => main = "running"
    /\ old /\ rollout.elects => lease = "old"
    /\ started /\ config.LEADER_ELECTION => lease = "new"

LEMMA LeaseKeptStep == LeaseKept /\ [Next]_vars => LeaseKept'
<1> SUFFICES ASSUME LeaseKept, [Next]_vars PROVE LeaseKept'
  OBVIOUS
<1> USE DEF startUpVars, processVars, clusterVars
<1>1. CASE Start
  <2>1. CASE Exit
    BY <2>1 DEF Exit, LeaseKept
  <2>2. CASE RestartContainer \/ Load \/ GetClusterVersion \/ CheckFeatureGates
    BY <2>1, <2>2 DEF RestartContainer, Load, GetClusterVersion, CheckFeatureGates, LeaseKept
  <2>3. CASE StartManager \/ RotateCerts
    BY <2>3 DEF StartManager, RotateCerts, LeaseKept
  <2>4. CASE Elect \/ StartBoostManager
    BY <2>4 DEF Elect, StartBoostManager, Leads, LeaseKept
  <2>5. CASE FinishRollout
    BY <2>5 DEF FinishRollout, RemoveOld, LeaseKept
  <2> QED
    BY <1>1, <2>2, <2>3, <2>4, <2>5 DEF Start, Main
<1>2. CASE SetupController
  BY <1>2 DEF SetupController, SetReconciler, SetUpWebhooks, SetUpBoostController,
              SetUpGlobalController, SetUp, LeaseKept
<1>3. CASE Fail
  BY <1>3 DEF Fail, Crash, Exit, EvictOld, RemoveOld, LeaseKept
<1>4. CASE Tick \/ Checking(PipelineStep) \/ UNCHANGED vars
  BY <1>4 DEF Tick, Checking, vars, LeaseKept
<1> QED
  BY <1>1, <1>2, <1>3, <1>4 DEF Next

\* With leader election in both revisions, the boost manager of the new replica
\* does not run while the old replica is there.
THEOREM OneActiveCorrect == Spec => []OneActive
<1>1. Init => LeaseKept
  BY DEF Init, StartUpInit, LeaseKept
<1>2. LeaseKept => OneActive
  BY DEF LeaseKept, OneActive
<1> QED
  BY <1>1, <1>2, LeaseKeptStep, PTL DEF Spec

-----------------------------------------------------------------------------
\* A malformed value of the variable that is loaded last is never overlooked,
\* though other errors may be.
LEMMA LastErrorKept ==
    ASSUME NEW env, LoadErrors(env) = <<>>
    PROVE  ~Malformed(env, "VALIDATE_FEATURE_ENABLED")
<1> DEFINE e(i, before) == IF i > 0 /\ Malformed(env, Loaders[i])
                           THEN Append(before, Loaders[i]) ELSE <<>>
           IsErrs(f) == f = [i \in 0..8 |-> e(i, f[i - 1])]
           errs == CHOOSE f : IsErrs(f)
           Names == {Loaders[i] : i \in 1..8}
<1>1. Len(Loaders) = 8
  BY DEF Loaders
<1>2. Loaders[8] = "VALIDATE_FEATURE_ENABLED"
  BY DEF Loaders
<1>3. LoadErrors(env) = errs[8]
  BY <1>1, Zenon DEF LoadErrors
<1> HIDE DEF e
<1>4. \E f : IsErrs(f)
  <2> DEFINE c1 == e(1, <<>>)
             c2 == e(2, c1)
             c3 == e(3, c2)
             c4 == e(4, c3)
             c5 == e(5, c4)
             c6 == e(6, c5)
             c7 == e(7, c6)
             g == [i \in 0..8 |-> CASE i = 0 -> e(0, <<>>) [] i = 1 -> c1 [] i = 2 -> c2 [] i = 3 -> c3
                                    [] i = 4 -> c4 [] i = 5 -> c5 [] i = 6 -> c6 [] i = 7 -> c7
                                    [] i = 8 -> e(8, c7)]
  <2>1. e(0, <<>>) = <<>> /\ \A x : e(0, x) = <<>>
    BY DEF e
  <2>2. ASSUME NEW i \in 0..8 PROVE g[i] = e(i, g[i - 1])
    <3> HIDE DEF c1, c2, c3, c4, c5, c6, c7
    <3>1. /\ g[0] = <<>> /\ g[1] = c1 /\ g[2] = c2 /\ g[3] = c3 /\ g[4] = c4
          /\ g[5] = c5 /\ g[6] = c6 /\ g[7] = c7 /\ g[8] = e(8, c7)
      BY <2>1
    <3> HIDE DEF g
    <3>2. /\ g[0] = e(0, g[-1]) /\ g[1] = e(1, g[0]) /\ g[2] = e(2, g[1])
          /\ g[3] = e(3, g[2]) /\ g[4] = e(4, g[3])
          /\ g[5] = e(5, g[4]) /\ g[6] = e(6, g[5]) /\ g[7] = e(7, g[6]) /\ g[8] = e(8, g[7])
      BY <2>1, <3>1 DEF c1, c2, c3, c4, c5, c6, c7
    <3> QED
      BY <3>2
  <2> QED
    BY <2>2
<1>5. IsErrs(errs)
  <2> HIDE DEF IsErrs
  <2> QED
    BY <1>4
<1>6. \A i \in 0..8 : errs[i] = e(i, errs[i - 1])
  <2> HIDE DEF errs
  <2> QED
    BY <1>5
<1> HIDE DEF errs
<1>7. ASSUME NEW i \in 1..8, NEW before \in Seq(Names) PROVE e(i, before) \in Seq(Names)
  <2>1. Loaders[i] \in Names
    OBVIOUS
  <2> HIDE DEF Names
  <2> QED
    BY <2>1, AppendProperties, EmptySeq DEF e
<1> HIDE DEF Names
<1>8. errs[7] \in Seq(Names)
  <2>1. errs[0] = <<>>
    BY <1>6 DEF e
  <2>2. /\ errs[1] = e(1, errs[0]) /\ errs[2] = e(2, errs[1]) /\ errs[3] = e(3, errs[2])
        /\ errs[4] = e(4, errs[3]) /\ errs[5] = e(5, errs[4]) /\ errs[6] = e(6, errs[5])
        /\ errs[7] = e(7, errs[6])
    BY <1>6
  <2>3. errs[0] \in Seq(Names)
    BY <2>1, EmptySeq
  <2>4. errs[1] \in Seq(Names)
    BY <1>7, <2>2, <2>3
  <2>5. errs[2] \in Seq(Names)
    BY <1>7, <2>2, <2>4
  <2>6. errs[3] \in Seq(Names)
    BY <1>7, <2>2, <2>5
  <2>7. errs[4] \in Seq(Names)
    BY <1>7, <2>2, <2>6
  <2>8. errs[5] \in Seq(Names) /\ errs[6] \in Seq(Names)
    BY <1>7, <2>2, <2>7
  <2> QED
    BY <1>7, <2>2, <2>8
<1>9. errs[8] = e(8, errs[7])
  BY <1>6
<1>10. Malformed(env, "VALIDATE_FEATURE_ENABLED") => errs[8] = Append(errs[7], Loaders[8])
  BY <1>2, <1>9 DEF e
<1>11. Loaders[8] \in Names
  BY DEF Names
<1>12. Len(Append(errs[7], Loaders[8])) # 0
  BY <1>8, <1>11, AppendProperties, LenProperties
<1> QED
  BY <1>3, <1>10, <1>12, EmptySeq

\* A gate is enabled in the table exactly if a sample says so.
LEMMA GateEnabled ==
    ASSUME NEW gate, gate # ""
    PROVE  IsEnabledAnyStage(Gates, gate) <=> Enabled(gate)
<1> DEFINE named == {s \in rollout.samples : s.name # "" /\ s.stage # "none"}
           stages == {s.stage : s \in {n \in named : n.name = gate}}
           On(st) == \E s \in named : s.name = gate /\ s.stage = st /\ s.value = 1
<1>1. gate \in DOMAIN Gates <=> \E s \in named : s.name = gate
  BY DEF Gates, GetFeatureGates
<1>2. gate \in DOMAIN Gates => Gates[gate] = [st \in stages |-> On(st)]
  BY <1>1 DEF Gates, GetFeatureGates
<1> HIDE DEF named, On
<1>3. IsEnabledAnyStage(Gates, gate)
        <=> (\E s \in named : s.name = gate) /\ \E st \in stages : On(st)
  BY <1>1, <1>2 DEF IsEnabledAnyStage
<1>4. IsEnabledAnyStage(Gates, gate) <=> \E s \in named : s.name = gate /\ s.value = 1
  BY <1>3 DEF On
<1> QED
  BY <1>4 DEF Enabled, named

\* A process that runs has loaded its configuration without an error, and, if
\* it could read the gates, has found those it needs.
Validated ==
    /\ rollout \in Rollouts /\ faults \in Nat
    /\ main \in {"version", "gates", "manager", "running"} =>
         config.VALIDATE_FEATURE_ENABLED
           \/ (/\ "VALIDATE_FEATURE_ENABLED" \in DOMAIN rollout.env
               /\ rollout.env["VALIDATE_FEATURE_ENABLED"] = "false")
    /\ main \in {"manager", "running"} /\ faults = 0 /\ config.VALIDATE_FEATURE_ENABLED =>
         InPlace /\ podLevel = PodLevel

LEMMA LoadValidated ==
    ASSUME Validated, Load
    PROVE  Validated'
<1> DEFINE v == "VALIDATE_FEATURE_ENABLED"
<1>1. CASE LoadErrors(rollout.env) # <<>>
  BY <1>1 DEF Load, Exit, Validated
<1>2. CASE LoadErrors(rollout.env) = <<>>
  <2>1. main' = "version" /\ config' = LoadConfig(rollout.env) /\ UNCHANGED <<rollout, faults>>
    BY <1>2 DEF Load, clusterVars
  <2>2. v \in DOMAIN rollout.env => rollout.env[v] \in {"true", "false"}
    BY <1>2, LastErrorKept, StartUpAssumption DEF Malformed, Validated
  <2>3. config'.VALIDATE_FEATURE_ENABLED
          = IF v \in DOMAIN rollout.env THEN rollout.env[v] = "true" ELSE TRUE
    BY <2>1 DEF LoadConfig, LoadDefaults
  <2> QED
    BY <2>1, <2>2, <2>3 DEF Validated
<1> QED
  BY <1>1, <1>2

LEMMA ValidatedStep == Validated /\ [Next]_vars => Validated'
<1> SUFFICES ASSUME Validated, [Next]_vars PROVE Validated'
  OBVIOUS
<1>1. ASSUME UNCHANGED <<rollout, faults, main, config, podLevel>> PROVE Validated'
  BY <1>1 DEF Validated, InPlace, PodLevel, Gates
<1> USE DEF startUpVars, processVars, clusterVars
<1>2. CASE Exit /\ faults' \in Nat
  BY <1>2 DEF Exit, Validated
<1>3. CASE RestartContainer
  BY <1>3 DEF RestartContainer, Validated
<1>4. CASE GetClusterVersion
  BY <1>4 DEF GetClusterVersion, Validated
<1>5. CASE CheckFeatureGates /\ ~Exit
  <2>1. main = "gates" /\ main' = "manager" /\ UNCHANGED <<rollout, config>>
    BY <1>5 DEF CheckFeatureGates
  <2>2. \/ ~config.VALIDATE_FEATURE_ENABLED /\ faults' = faults
        \/ faults' = faults + 1
        \/ InPlace /\ podLevel' = PodLevel /\ faults' = faults
    BY <1>5 DEF CheckFeatureGates, Fault
  <2>3. (InPlace' <=> InPlace) /\ PodLevel' = PodLevel
    BY <2>1 DEF InPlace, PodLevel, Gates
  <2>4. faults' \in Nat /\ (faults' = 0 /\ config.VALIDATE_FEATURE_ENABLED
                              => InPlace /\ podLevel' = PodLevel)
    <3>1. faults \in Nat
      BY DEF Validated
    <3> QED
      BY <2>2, <3>1
  <2>5. rollout' \in Rollouts
    BY <2>1 DEF Validated
  <2>6. config'.VALIDATE_FEATURE_ENABLED
          \/ (/\ "VALIDATE_FEATURE_ENABLED" \in DOMAIN rollout'.env
              /\ rollout'.env["VALIDATE_FEATURE_ENABLED"] = "false")
    BY <2>1 DEF Validated
  <2>7. faults' = 0 /\ config'.VALIDATE_FEATURE_ENABLED => InPlace' /\ podLevel' = PodLevel'
    BY <2>1, <2>3, <2>4
  <2> QED
    BY <2>4, <2>5, <2>6, <2>7, Zenon DEF Validated
<1>6. CASE StartManager
  BY <1>6 DEF StartManager, Validated, InPlace, PodLevel, Gates
<1>7. CASE RotateCerts \/ Elect \/ StartBoostManager \/ FinishRollout
  BY <1>1, <1>7 DEF RotateCerts, Elect, StartBoostManager, FinishRollout, RemoveOld
<1>8. CASE Start
  <2>1. CheckFeatureGates /\ Exit => faults' \in Nat
    BY DEF CheckFeatureGates, Exit, Validated
  <2>2. CheckFeatureGates => Validated'
    BY <1>2, <1>5, <2>1
  <2> QED
    BY <1>3, <1>4, <1>6, <1>7, <1>8, <2>2, LoadValidated DEF Start, Main
<1>9. CASE SetupController
  BY <1>1, <1>9 DEF SetupController, SetReconciler, SetUpWebhooks, SetUpBoostController,
              SetUpGlobalController, SetUp
<1>10. CASE Fail
  <2>1. CASE Crash
    <3>1. faults \in Nat
      BY DEF Validated
    <3>2. faults' \in Nat /\ Exit
      BY <2>1, <3>1 DEF Crash, Fault
    <3> QED
      BY <1>2, <3>2
  <2>2. CASE EvictOld
    BY <2>2 DEF EvictOld, RemoveOld, Fault, Validated
  <2> QED
    BY <1>10, <2>1, <2>2 DEF Fail
<1>11. CASE Tick \/ Checking(PipelineStep) \/ UNCHANGED vars
  BY <1>1, <1>11 DEF Tick, Checking, vars
<1> QED
  BY <1>8, <1>9, <1>10, <1>11 DEF Next

\* A replica whose environment does not switch the validation off, and that
\* could read the feature gates, runs only in a cluster that reports in-place
\* resizes as enabled, whatever else its environment sets or gets wrong, and
\* goes by the cluster's gate for pod-level resources.
THEOREM GatesRespectedCorrect == Spec => []GatesRespected
<1>1. Init => Validated
  BY DEF Init, StartUpInit, Validated
<1>2. Validated => GatesRespected
  <2>1. /\ InPlace <=> Enabled("InPlacePodVerticalScaling")
        /\ PodLevel <=> Enabled("PodLevelResources")
    BY GateEnabled DEF InPlace, PodLevel
  <2> QED
    BY <2>1 DEF Validated, GatesRespected
<1> QED
  BY <1>1, <1>2, ValidatedStep, PTL DEF Spec
=============================================================================
