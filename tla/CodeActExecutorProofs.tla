-------------------------- MODULE CodeActExecutorProofs --------------------------
(***************************************************************************)
(* Theorems about CodeActExecutor, and about the ledger it writes to, for  *)
(* every set of tasks and every cap of the ledger: the queue, which needs  *)
(* nothing of what the ledger holds; the executor as a serial server; the  *)
(* ledger under any caller; and what the ledger tells of the executor.     *)
(***************************************************************************)
EXTENDS CodeActExecutor, TLAPS

Distinct(q) == \A i, j \in DOMAIN q : q[i] = q[j] => i = j

QueueTyped ==
  /\ taskQueue \in Seq(Task)
  /\ workers \subseteq Worker
  /\ processing \in BOOLEAN /\ cancelRequested \in BOOLEAN
  /\ fate \in [Task -> Fate]
  /\ reports \in [Task -> Nat]

\* A task that was not handed over is in neither place.
NewIsNowhere ==
  \A t \in Task : fate[t] = "new" => t \notin InExecutor /\ reports[t] = 0

\* That no task is taken up twice hangs on the loop being alone, that the loop
\* is alone on the flag being up while there is one.
IInv ==
  /\ QueueTyped
  /\ SerialExecution
  /\ QueueHasWorker
  /\ NoTaskTwice
  /\ NewIsNowhere

-----------------------------------------------------------------------------
(* Queues                                                                   *)

\* Shifting the head leaves a queue without it, and with everything else.
LEMMA ShiftedQueue ==
  ASSUME NEW q \in Seq(Task), q # <<>>, Distinct(q)
  PROVE  /\ Shifted(q) \in Seq(Task)
         /\ Distinct(Shifted(q))
         /\ Head(q) \in Task
         /\ Head(q) \notin Range(Shifted(q))
         /\ Range(q) = Range(Shifted(q)) \cup {Head(q)}
<1>1. /\ Tail(q) \in Seq(Task)
      /\ Head(q) = q[1] /\ 1 \in 1..Len(q) /\ Head(q) \in Task
      /\ Len(Tail(q)) = Len(q) - 1 /\ Len(q) \in Nat
      /\ \A i \in 1..Len(Tail(q)) : Tail(q)[i] = q[i + 1] /\ i + 1 \in 1..Len(q)
  OBVIOUS
<1>2. Distinct(Tail(q)) /\ Head(q) \notin Range(Tail(q))
  BY <1>1 DEF Distinct, Range
<1>3. Range(q) = Range(Tail(q)) \cup {Head(q)}
  <2>1. DOMAIN q = 1..Len(q) /\ DOMAIN Tail(q) = 1..Len(Tail(q))
    BY <1>1
  <2>2. ASSUME NEW i \in DOMAIN q
        PROVE  q[i] \in Range(Tail(q)) \cup {Head(q)}
    <3>1. CASE i = 1
      BY <1>1, <3>1
    <3>2. CASE i # 1
      <4>1. i - 1 \in DOMAIN Tail(q) /\ Tail(q)[i - 1] = q[i]
        BY <1>1, <2>1, <3>2
      <4>. QED BY <4>1 DEF Range
    <3>. QED BY <3>1, <3>2
  <2>3. ASSUME NEW i \in DOMAIN Tail(q)
        PROVE  Tail(q)[i] \in Range(q)
    BY <1>1, <2>1 DEF Range
  <2>4. Head(q) \in Range(q)
    BY <1>1, <2>1 DEF Range
  <2>. QED BY <2>2, <2>3, <2>4 DEF Range
<1>. QED BY <1>1, <1>2, <1>3 DEF Shifted

\* Appending a task that is not queued keeps the entries distinct.
LEMMA AppendedQueue ==
  ASSUME NEW q \in Seq(Task), Distinct(q), NEW t \in Task, t \notin Range(q)
  PROVE  /\ Append(q, t) \in Seq(Task)
         /\ Distinct(Append(q, t))
         /\ Append(q, t) # <<>>
         /\ Range(Append(q, t)) = Range(q) \cup {t}
<1>1. /\ Append(q, t) \in Seq(Task)
      /\ Len(Append(q, t)) = Len(q) + 1 /\ Len(q) \in Nat
      /\ \A i \in 1..Len(q) : Append(q, t)[i] = q[i]
      /\ Append(q, t)[Len(q) + 1] = t
  OBVIOUS
<1>2. Distinct(Append(q, t))
  BY <1>1 DEF Distinct, Range
<1>3. Range(Append(q, t)) = Range(q) \cup {t}
  BY <1>1 DEF Range
<1>. QED BY <1>1, <1>2, <1>3

\* The empty queue holds nothing.
LEMMA EmptyQueue == <<>> \in Seq(Task) /\ Distinct(<<>>) /\ Range(<<>>) = {}
BY DEF Distinct, Range

-----------------------------------------------------------------------------
(* The invariant                                                            *)

\* The loop's head, when no other loop is there, leaves the executor in order.
LEMMA LoopHeadKeeps ==
  ASSUME NEW q \in Seq(Task), Distinct(q), LoopHead(q, {}),
         cancelRequested \in BOOLEAN,
         fate' \in [Task -> Fate], reports' \in [Task -> Nat],
         \A t \in Task : reports'[t] <= (IF t \in Range(q) THEN 0 ELSE 1),
         \A t \in Task : fate'[t] = "new" => t \notin Range(q) /\ reports'[t] = 0
  PROVE  IInv'
<1>1. CASE TakesTask(q)
  <2> DEFINE w == [task |-> Head(q), stage |-> "preparing", outcome |-> NoOutcome]
  <2>1. q # <<>>
    BY <1>1 DEF TakesTask
  <2>2. /\ Shifted(q) \in Seq(Task)
        /\ Distinct(Shifted(q))
        /\ Head(q) \in Task
        /\ Head(q) \notin Range(Shifted(q))
        /\ Range(q) = Range(Shifted(q)) \cup {Head(q)}
    BY <2>1, ShiftedQueue
  <2>3. taskQueue' = Shifted(q) /\ workers' = {w} /\ processing' = TRUE
        /\ cancelRequested' = cancelRequested
    BY <1>1 DEF LoopHead
  <2>4. w \in Worker /\ w.task = Head(q)
    BY <2>2 DEF Worker, Stage
  <2> HIDE DEF w
  <2>5. QueueTyped' /\ SerialExecution' /\ QueueHasWorker'
    BY <2>2, <2>3, <2>4 DEF QueueTyped, SerialExecution, QueueHasWorker
  <2>6. InExecutor' = Range(q)
    BY <2>2, <2>3, <2>4 DEF InExecutor
  <2>7. NoTaskTwice'
    BY <2>2, <2>3, <2>4, <2>6 DEF NoTaskTwice, Distinct
  <2>8. NewIsNowhere'
    BY <2>6 DEF NewIsNowhere
  <2>. QED BY <2>5, <2>7, <2>8 DEF IInv
<1>2. CASE ~TakesTask(q)
  <2>1. taskQueue' = <<>> /\ workers' = {} /\ processing' = FALSE
        /\ cancelRequested' = FALSE
    BY <1>2 DEF LoopHead
  <2>2. QueueTyped' /\ SerialExecution' /\ QueueHasWorker'
    BY <2>1, EmptyQueue DEF QueueTyped, SerialExecution, QueueHasWorker
  <2>3. InExecutor' = {}
    BY <2>1, EmptyQueue DEF InExecutor
  <2>4. \A t \in Task : reports'[t] <= 1
    OBVIOUS
  <2>5. NoTaskTwice'
    BY <2>1, <2>3, <2>4, EmptyQueue DEF NoTaskTwice, Distinct
  <2>6. NewIsNowhere'
    BY <2>3 DEF NewIsNowhere
  <2>. QED BY <2>2, <2>5, <2>6 DEF IInv
<1>. QED BY <1>1, <1>2

\* enqueue() keeps the invariant, whether it starts the loop or finds it running.
LEMMA EnqueueKeeps ==
  ASSUME IInv, NEW t \in Task, Enqueue(t)
  PROVE  IInv'
<1> DEFINE q == Append(taskQueue, t)
<1>1. t \notin InExecutor /\ reports[t] = 0
  BY DEF IInv, NewIsNowhere, Enqueue
<1>2. t \notin Range(taskQueue) /\ Distinct(taskQueue) /\ taskQueue \in Seq(Task)
  BY <1>1 DEF InExecutor, IInv, NoTaskTwice, Distinct, QueueTyped
<1>3. /\ q \in Seq(Task)
      /\ Distinct(q)
      /\ q # <<>>
      /\ Range(q) = Range(taskQueue) \cup {t}
  BY <1>2, AppendedQueue
<1>4. reports' = reports
  BY DEF Enqueue
<1> HIDE DEF q
<1>5. CASE StartsLoop
  <2>1. workers = {}
    BY <1>5 DEF StartsLoop, IInv, QueueHasWorker
  <2>2. Range(taskQueue) = InExecutor
    BY <2>1 DEF InExecutor
  <2>3. LoopHead(q, {}) /\ fate' = FateAfterHead(q, Accepted(t))
    BY <1>5, <2>1 DEF Enqueue, q
  <2>4. \A u \in Task : fate'[u] = "new" => fate[u] = "new" /\ u # t
    BY <2>3 DEF FateAfterHead, Accepted, IInv, QueueTyped
  <2>5. fate' \in [Task -> Fate]
    <3>1. \A u \in Task : fate'[u] \in Fate
      BY <2>3 DEF FateAfterHead, Accepted, IInv, QueueTyped, Fate
    <3>. QED BY <2>3, <3>1 DEF FateAfterHead
  <2>6. \A u \in Task : reports[u] <= (IF u \in Range(q) THEN 0 ELSE 1)
    BY <1>1, <1>3, <2>2 DEF IInv, NoTaskTwice, QueueTyped
  <2>7. \A u \in Task : fate'[u] = "new" => u \notin Range(q) /\ reports[u] = 0
    BY <1>3, <2>2, <2>4 DEF IInv, NewIsNowhere
  <2>. QED
    BY <1>3, <1>4, <2>3, <2>5, <2>6, <2>7, LoopHeadKeeps DEF IInv, QueueTyped
<1>6. CASE ~StartsLoop
  <2>1. /\ taskQueue' = q /\ fate' = Accepted(t) /\ workers' = workers
        /\ processing' = processing /\ cancelRequested' = cancelRequested
    BY <1>6 DEF Enqueue, q
  <2>2. fate' \in [Task -> Fate] /\ \A u \in Task : fate'[u] = "new" => fate[u] = "new" /\ u # t
    BY <2>1 DEF Accepted, IInv, QueueTyped, Fate
  <2>3. QueueTyped' /\ SerialExecution'
    BY <1>3, <1>4, <2>1, <2>2 DEF IInv, QueueTyped, SerialExecution
  <2>4. QueueHasWorker'
    BY <1>6, <2>1 DEF StartsLoop, IInv, QueueHasWorker
  <2>5. InExecutor' = InExecutor \cup {t}
    BY <1>3, <2>1 DEF InExecutor
  <2>6. \A w \in workers : w.task \notin Range(q)
    BY <1>1, <1>3 DEF InExecutor, IInv, NoTaskTwice
  <2>7. \A u \in Task : reports[u] <= (IF u \in InExecutor' THEN 0 ELSE 1)
    BY <1>1, <2>5 DEF IInv, NoTaskTwice, QueueTyped
  <2>8. NoTaskTwice'
    BY <1>3, <1>4, <2>1, <2>6, <2>7 DEF NoTaskTwice, Distinct
  <2>9. NewIsNowhere'
    BY <1>4, <2>2, <2>5 DEF IInv, NewIsNowhere
  <2>. QED BY <2>3, <2>4, <2>8, <2>9 DEF IInv
<1>. QED BY <1>5, <1>6

\* The step of a run that leaves it in the executor.
Moves(w) ==
  /\ \E stage \in Stage, outcome \in Outcome \cup {NoOutcome} :
       workers' = Moved(w, stage, outcome)
  /\ UNCHANGED <<taskQueue, processing, cancelRequested, fate, reports>>

\* A step of a run either stays in the executor or hands on the callback.
LEMMA RunMovesOrReports ==
  ASSUME NEW w \in workers, Run(w)
  PROVE  Moves(w) \/ Report(w)
<1>1. CASE Prepare(w)
  BY <1>1 DEF Prepare, Moves, Stage
<1>2. CASE BeginSession(w)
  BY <1>2 DEF BeginSession, Moves, Stage
<1>3. CASE Throw(w)
  <2>1. workers' = Moved(w, "finalizing", IF cancelRequested THEN "SKIPPED" ELSE "ERROR")
    BY <1>3 DEF Throw
  <2>. QED BY <1>3, <2>1 DEF Throw, Moves, Stage, Outcome
<1>4. ASSUME NEW outcome \in {"COMPLETED", "ERROR"}, EndSession(w, outcome)
      PROVE  Moves(w)
  <2>1. outcome \in Outcome \cup {NoOutcome} /\ "finalizing" \in Stage
    BY DEF Outcome, Stage
  <2>. QED BY <1>4, <2>1 DEF EndSession, Moves
<1>. QED BY <1>1, <1>2, <1>3, <1>4 DEF Run

\* With no other loop, the run that moves is still the only one.
LEMMA MovedAlone ==
  ASSUME IInv, NEW w \in workers, Moves(w)
  PROVE  \E v \in Worker : v.task = w.task /\ workers = {w} /\ workers' = {v}
<1>1. workers = {w} /\ w \in Worker
  BY DEF IInv, SerialExecution, QueueTyped
<1>2. PICK stage \in Stage, outcome \in Outcome \cup {NoOutcome} :
         workers' = Moved(w, stage, outcome)
  BY DEF Moves
<1> DEFINE v == [w EXCEPT !.stage = stage, !.outcome = outcome]
<1>3. v \in Worker /\ v.task = w.task
  BY <1>1 DEF Worker
<1>4. workers' = {v}
  BY <1>1, <1>2 DEF Moved
<1>. QED BY <1>1, <1>3, <1>4

\* Handing on a callback, and the turn of the loop after it, keep the invariant.
LEMMA ReportKeeps ==
  ASSUME IInv, NEW w \in workers, Report(w)
  PROVE  IInv'
<1>1. /\ workers = {w} /\ w.task \in Task
      /\ taskQueue \in Seq(Task) /\ Distinct(taskQueue)
      /\ w.task \notin Range(taskQueue)
  BY DEF IInv, SerialExecution, QueueTyped, Worker, NoTaskTwice, Distinct
<1>2. /\ LoopHead(taskQueue, {})
      /\ fate' = FateAfterHead(taskQueue, fate)
      /\ reports' = [reports EXCEPT ![w.task] = @ + 1]
  BY <1>1 DEF Report
<1>3. InExecutor = Range(taskQueue) \cup {w.task}
  BY <1>1 DEF InExecutor
<1>4. \A t \in Task : reports[t] \in Nat /\ fate[t] \in Fate
  BY DEF IInv, QueueTyped
<1>5. reports[w.task] = 0 /\ fate[w.task] # "new"
  BY <1>1, <1>3, <1>4 DEF IInv, NoTaskTwice, NewIsNowhere
<1>6. /\ reports' \in [Task -> Nat]
      /\ \A t \in Task : reports'[t] <= (IF t \in Range(taskQueue) THEN 0 ELSE 1)
  <2>1. \A t \in Task : reports'[t] = IF t = w.task THEN 1 ELSE reports[t]
    BY <1>2, <1>4, <1>5 DEF IInv, QueueTyped
  <2>2. reports' \in [Task -> Nat]
    <3>1. reports' = [t \in Task |-> reports'[t]]
      BY <1>2 DEF IInv, QueueTyped
    <3>2. \A t \in Task : reports'[t] \in Nat
      BY <1>4, <2>1
    <3>. QED BY <3>1, <3>2
  <2>3. \A t \in Task : reports[t] <= (IF t \in InExecutor THEN 0 ELSE 1)
    BY DEF IInv, NoTaskTwice
  <2>. QED BY <1>1, <1>3, <2>1, <2>2, <2>3
<1>7. /\ fate' \in [Task -> Fate]
      /\ \A t \in Task : fate'[t] = "new" => fate[t] = "new"
  <2>1. \A t \in Task : fate'[t] \in {fate[t], "swallowed"}
    BY <1>2 DEF FateAfterHead
  <2>2. \A t \in Task : fate'[t] \in Fate
    BY <1>4, <2>1 DEF Fate
  <2>. QED BY <1>2, <2>1, <2>2 DEF FateAfterHead
<1>8. \A t \in Task : fate'[t] = "new" => t \notin Range(taskQueue) /\ reports'[t] = 0
  BY <1>2, <1>3, <1>4, <1>5, <1>7 DEF IInv, NewIsNowhere, QueueTyped
<1>. QED
  BY <1>1, <1>2, <1>6, <1>7, <1>8, LoopHeadKeeps DEF IInv, QueueTyped

\* A new executor satisfies the invariant.
LEMMA InitIInv == Init => IInv
<1> SUFFICES ASSUME Init PROVE IInv
  OBVIOUS
<1>1. InExecutor = {}
  BY EmptyQueue DEF Init, InExecutor
<1>2. QueueTyped /\ SerialExecution /\ QueueHasWorker
  BY EmptyQueue DEF Init, QueueTyped, SerialExecution, QueueHasWorker, Fate
<1>3. NoTaskTwice
  BY EmptyQueue DEF Init, NoTaskTwice, Distinct
<1>4. NewIsNowhere
  BY <1>1 DEF Init, NewIsNowhere
<1>. QED BY <1>2, <1>3, <1>4 DEF IInv

\* Every step keeps it.
LEMMA NextIInv == IInv /\ [Next]_vars => IInv'
<1> SUFFICES ASSUME IInv, [Next]_vars
             PROVE  IInv'
  OBVIOUS
<1>1. ASSUME NEW t \in Task, Dispatch(t) \/ Forward(t)
      PROVE  IInv'
  BY <1>1, EnqueueKeeps DEF Dispatch, Forward
<1>2. ASSUME NEW t \in Task, DispatchFails(t)
      PROVE  IInv'
  <2>1. /\ fate' \in [Task -> Fate]
        /\ \A u \in Task : fate'[u] = "new" => fate[u] = "new"
    BY <1>2 DEF DispatchFails, IInv, QueueTyped, Fate
  <2>2. InExecutor' = InExecutor
    BY <1>2 DEF DispatchFails, InExecutor
  <2>3. NoTaskTwice'
    BY <1>2, <2>2 DEF DispatchFails, IInv, NoTaskTwice
  <2>4. NewIsNowhere'
    BY <1>2, <2>1, <2>2 DEF DispatchFails, IInv, NewIsNowhere
  <2>. QED
    BY <1>2, <2>1, <2>3, <2>4
    DEF DispatchFails, IInv, QueueTyped, SerialExecution, QueueHasWorker
<1>3. ASSUME Cancel
      PROVE  IInv'
  <2>1. /\ fate' \in [Task -> Fate]
        /\ \A u \in Task : fate'[u] = "new" => fate[u] = "new"
    <3>1. \A u \in Task : fate'[u] \in {fate[u], "cancelled"}
      BY <1>3 DEF Cancel
    <3>2. \A u \in Task : fate'[u] \in Fate
      BY <3>1 DEF IInv, QueueTyped, Fate
    <3>. QED BY <1>3, <3>1, <3>2 DEF Cancel
  <2>2. InExecutor' \subseteq InExecutor
    BY <1>3, EmptyQueue DEF Cancel, InExecutor
  <2>3. QueueTyped' /\ SerialExecution' /\ QueueHasWorker'
    BY <1>3, <2>1, EmptyQueue
    DEF Cancel, IInv, QueueTyped, SerialExecution, QueueHasWorker
  <2>4. \A u \in Task : reports'[u] <= (IF u \in InExecutor' THEN 0 ELSE 1)
    BY <1>3, <2>2 DEF Cancel, IInv, NoTaskTwice, QueueTyped
  <2>5. NoTaskTwice'
    BY <1>3, <2>4, EmptyQueue DEF Cancel, NoTaskTwice, Distinct
  <2>6. NewIsNowhere'
    BY <1>3, <2>1, <2>2 DEF Cancel, IInv, NewIsNowhere
  <2>. QED BY <2>3, <2>5, <2>6 DEF IInv
<1>4. ASSUME NEW w \in workers, Run(w)
      PROVE  IInv'
  <2>1. CASE Moves(w)
    <3>1. PICK v \in Worker : v.task = w.task /\ workers = {w} /\ workers' = {v}
      BY <2>1, MovedAlone
    <3>2. InExecutor' = InExecutor
      BY <2>1, <3>1 DEF Moves, InExecutor
    <3>3. QueueTyped' /\ SerialExecution' /\ QueueHasWorker'
      BY <2>1, <3>1 DEF Moves, IInv, QueueTyped, SerialExecution, QueueHasWorker
    <3>4. NoTaskTwice'
      BY <2>1, <3>1, <3>2 DEF Moves, IInv, NoTaskTwice
    <3>5. NewIsNowhere'
      BY <2>1, <3>2 DEF Moves, IInv, NewIsNowhere
    <3>. QED BY <3>3, <3>4, <3>5 DEF IInv
  <2>2. CASE Report(w)
    BY <2>2, ReportKeeps
  <2>. QED BY <1>4, <2>1, <2>2, RunMovesOrReports
<1>5. ASSUME SaveState \/ UNCHANGED vars
      PROVE  IInv'
  <2>1. UNCHANGED <<taskQueue, processing, cancelRequested, workers, fate, reports>>
    BY <1>5 DEF SaveState, vars
  <2>2. InExecutor' = InExecutor
    BY <2>1 DEF InExecutor
  <2>. QED
    BY <2>1, <2>2
    DEF IInv, QueueTyped, SerialExecution, QueueHasWorker, NoTaskTwice, NewIsNowhere
<1>6. ASSUME Restart
      PROVE  IInv'
  <2>1. /\ fate' \in [Task -> Fate]
        /\ \A u \in Task : fate'[u] = "new" => fate[u] = "new"
    <3>1. \A u \in Task : fate'[u] \in {fate[u], "crashed"}
      BY <1>6 DEF Restart
    <3>2. \A u \in Task : fate'[u] \in Fate
      BY <3>1 DEF IInv, QueueTyped, Fate
    <3>. QED BY <1>6, <3>1, <3>2 DEF Restart
  <2>2. InExecutor' = {}
    BY <1>6, EmptyQueue DEF Restart, InExecutor
  <2>3. QueueTyped' /\ SerialExecution' /\ QueueHasWorker'
    BY <1>6, <2>1, EmptyQueue
    DEF Restart, IInv, QueueTyped, SerialExecution, QueueHasWorker
  <2>4. \A u \in Task : reports'[u] <= 1
    BY <1>6 DEF Restart, IInv, NoTaskTwice, QueueTyped
  <2>5. NoTaskTwice'
    BY <1>6, <2>2, <2>4, EmptyQueue DEF Restart, NoTaskTwice, Distinct
  <2>6. NewIsNowhere'
    BY <1>6, <2>1, <2>2 DEF Restart, IInv, NewIsNowhere
  <2>. QED BY <2>3, <2>5, <2>6 DEF IInv
<1>. QED
  BY <1>1, <1>2, <1>3, <1>4, <1>5, <1>6 DEF Next

\* In every reachable state the invariant holds.
LEMMA ExecutorInvariant == Spec => []IInv
BY InitIInv, NextIInv, PTL DEF Spec

\* No two loops of a chat are ever in execute() at once.
THEOREM TasksRunOneAtATime == Spec => []SerialExecution
<1>1. IInv => SerialExecution
  BY DEF IInv
<1>. QED BY <1>1, ExecutorInvariant, PTL

\* No wake-up is lost: a queued task has a loop that will come to it.
THEOREM NoTaskIsForgotten == Spec => []QueueHasWorker
<1>1. IInv => QueueHasWorker
  BY DEF IInv
<1>. QED BY <1>1, ExecutorInvariant, PTL

\* No task is queued twice, run twice or reported twice.
THEOREM TasksAreTakenOnce == Spec => []NoTaskTwice
<1>1. IInv => NoTaskTwice
  BY DEF IInv
<1>. QED BY <1>1, ExecutorInvariant, PTL

\* One loop, there when it is needed, that takes each task once.
THEOREM QueueIsServedInTurn == Spec => []ServedInTurn
BY TasksRunOneAtATime, NoTaskIsForgotten, TasksAreTakenOnce, PTL DEF ServedInTurn

-----------------------------------------------------------------------------
(* The executor as a serial server                                          *)

\* The task being served, and the tasks answered, as Server sees them.
Serving == IF workers = {} THEN Idle ELSE (CHOOSE w \in workers : TRUE).task
Answered == {t \in Task : reports[t] > 0}

\* The task the server is serving is the task of the only loop.
LEMMA ServingIsTheRun ==
  /\ workers = {} => Serving = Idle
  /\ \A w \in Worker : workers = {w} => Serving = w.task /\ Serving # Idle
BY IdleIsNoTask DEF Serving, Worker

\* The same after a step.
LEMMA ServingIsTheRunNext ==
  /\ workers' = {} => Serving' = Idle
  /\ \A w \in Worker : workers' = {w} => Serving' = w.task
BY DEF Serving

\* What a turn of the loop's head is to the server.
LEMMA LoopHeadIsTakeNext ==
  ASSUME NEW q \in Seq(Task), LoopHead(q, {})
  PROVE  IF q = <<>> \/ cancelRequested
         THEN Serving' = Idle /\ taskQueue' = <<>> /\ cancelRequested' = FALSE
         ELSE Serving' = Head(q) /\ taskQueue' = Tail(q)
                /\ UNCHANGED cancelRequested
<1>1. CASE TakesTask(q)
  <2> DEFINE w == [task |-> Head(q), stage |-> "preparing", outcome |-> NoOutcome]
  <2>1. workers' = {w} /\ taskQueue' = Tail(q) /\ UNCHANGED cancelRequested
    BY <1>1 DEF LoopHead, Shifted
  <2>2. w \in Worker /\ w.task = Head(q)
    BY <1>1 DEF TakesTask, Worker, Stage
  <2> HIDE DEF w
  <2>3. Serving' = Head(q)
    BY <2>1, <2>2, ServingIsTheRunNext
  <2>. QED BY <1>1, <2>1, <2>3 DEF TakesTask
<1>2. CASE ~TakesTask(q)
  BY <1>2, ServingIsTheRunNext DEF LoopHead, TakesTask
<1>. QED BY <1>1, <1>2

\* Every step of the executor is one of the server, or changes nothing it sees.
LEMMA ServerStep == IInv /\ [Next]_vars => [Server!Next]_(Server!serverVars)
<1> SUFFICES ASSUME IInv, [Next]_vars
             PROVE  Server!Next \/ UNCHANGED <<taskQueue, Serving, Answered, cancelRequested>>
  BY DEF Server!serverVars, Serving, Answered
<1>1. ASSUME NEW t \in Task, Enqueue(t)
      PROVE  Server!Submit(t)
  <2>1. t \notin InExecutor /\ reports[t] = 0
    BY <1>1 DEF IInv, NewIsNowhere, Enqueue
  <2>2. t # Serving
    <3>1. CASE workers = {}
      BY <3>1, ServingIsTheRun, IdleIsNoTask
    <3>2. CASE workers # {}
      <4>1. PICK w \in workers : workers = {w} /\ w \in Worker
        BY <3>2 DEF IInv, SerialExecution, QueueTyped
      <4>. QED BY <2>1, <4>1, ServingIsTheRun DEF InExecutor
    <3>. QED BY <3>1, <3>2
  <2>3. t \notin Answered /\ \A i \in DOMAIN taskQueue : taskQueue[i] # t
    BY <2>1 DEF Answered, InExecutor, Range
  <2>4. ~Server!Known(t)
    BY <2>2, <2>3 DEF Server!Known, Serving, Answered
  <2>5. Answered' = Answered
    BY <1>1 DEF Enqueue, Answered
  <2>6. CASE StartsLoop
    <3>1. workers = {} /\ Serving = Idle
      BY <2>6, ServingIsTheRun DEF StartsLoop, IInv, QueueHasWorker
    <3>2. Append(taskQueue, t) \in Seq(Task) /\ LoopHead(Append(taskQueue, t), {})
      BY <1>1, <2>6, <3>1 DEF Enqueue, IInv, QueueTyped
    <3>3. Server!TakeNext(Append(taskQueue, t))
      BY <3>2, LoopHeadIsTakeNext DEF Server!TakeNext, Serving
    <3>. QED BY <2>4, <2>5, <3>1, <3>3 DEF Server!Submit, Serving, Answered
  <2>7. CASE ~StartsLoop
    <3>1. PICK w \in workers : workers = {w} /\ w \in Worker
      BY <2>7 DEF StartsLoop, IInv, QueueHasWorker, SerialExecution, QueueTyped
    <3>2. Serving # Idle
      BY <3>1, ServingIsTheRun
    <3>3. /\ taskQueue' = Append(taskQueue, t)
          /\ workers' = workers /\ cancelRequested' = cancelRequested
      BY <1>1, <2>7 DEF Enqueue
    <3>4. Serving' = Serving
      BY <3>3 DEF Serving
    <3>. QED BY <2>4, <2>5, <3>2, <3>3, <3>4 DEF Server!Submit, Serving, Answered
  <2>. QED BY <2>6, <2>7
<1>2. ASSUME Cancel
      PROVE  Server!Cancel
  BY <1>2 DEF Cancel, Server!Cancel
<1>3. ASSUME NEW w \in workers, Report(w)
      PROVE  Server!Answer
  <2>1. workers = {w} /\ w \in Worker /\ w.task \in Task
    BY DEF IInv, SerialExecution, QueueTyped, Worker
  <2>2. Serving = w.task /\ Serving # Idle
    BY <2>1, ServingIsTheRun
  <2>3. taskQueue \in Seq(Task) /\ LoopHead(taskQueue, {})
    BY <1>3, <2>1 DEF Report, IInv, QueueTyped
  <2>4. Server!TakeNext(taskQueue)
    BY <2>3, LoopHeadIsTakeNext DEF Server!TakeNext, Serving
  <2>5. Answered' = Answered \cup {w.task}
    <3>1. \A t \in Task : reports'[t] = IF t = w.task THEN reports[t] + 1 ELSE reports[t]
      BY <1>3 DEF Report, IInv, QueueTyped
    <3>2. \A t \in Task : reports[t] \in Nat
      BY DEF IInv, QueueTyped
    <3>3. \A t \in Task : reports'[t] > 0 <=> reports[t] > 0 \/ t = w.task
      BY <3>1, <3>2
    <3>. QED BY <2>1, <3>3 DEF Answered
  <2>. QED BY <2>2, <2>4, <2>5 DEF Server!Answer, Serving, Answered
<1>4. ASSUME Restart
      PROVE  Server!Crash
  <2>1. taskQueue' = <<>> /\ workers' = {} /\ cancelRequested' = FALSE
        /\ reports' = reports
    BY <1>4 DEF Restart
  <2>2. Serving' = Idle
    BY <2>1, ServingIsTheRunNext
  <2>. QED BY <2>1, <2>2 DEF Server!Crash, Serving
<1>5. ASSUME NEW w \in workers, Moves(w)
      PROVE  UNCHANGED <<taskQueue, Serving, Answered, cancelRequested>>
  <2>1. PICK v \in Worker : v.task = w.task /\ workers = {w} /\ workers' = {v}
    BY <1>5, MovedAlone
  <2>2. w \in Worker
    BY DEF IInv, QueueTyped
  <2>3. Serving' = Serving
    BY <2>1, <2>2, ServingIsTheRun, ServingIsTheRunNext
  <2>. QED BY <1>5, <2>3 DEF Moves, Answered
<1>6. ASSUME SaveState \/ UNCHANGED vars \/ \E t \in Task : DispatchFails(t)
      PROVE  UNCHANGED <<taskQueue, Serving, Answered, cancelRequested>>
  <2>1. UNCHANGED <<taskQueue, workers, reports, cancelRequested>>
    BY <1>6 DEF SaveState, vars, DispatchFails
  <2>2. Serving' = Serving /\ Answered' = Answered
    BY <2>1 DEF Serving, Answered
  <2>. QED BY <2>1, <2>2
<1>7. ASSUME NEW t \in Task, Dispatch(t) \/ Forward(t)
      PROVE  Enqueue(t)
  BY <1>7 DEF Dispatch, Forward
<1>. QED
  BY <1>1, <1>2, <1>3, <1>4, <1>5, <1>6, <1>7, RunMovesOrReports DEF Next, Server!Next

\* The first states of the executor are first states of the server.
LEMMA ServerInit == Init => Server!Init
BY DEF Init, Server!Init

\* Every step of the executor is one of the serial server it stands for, or
\* invisible to it.
THEOREM ExecutorIsSerialServer ==
  Spec => Server!Init /\ [][Server!Next]_(Server!serverVars)
BY ServerInit, ServerStep, ExecutorInvariant, PTL DEF Spec
-----------------------------------------------------------------------------
(* Lists of records                                                         *)

Status == Live \cup Terminal

\* A list the ledger may hold, in memory or in the file.
GoodList(ts) ==
  ts \in Seq(Record) /\ Len(ts) <= MaxTasks /\ Ledger!UniqueIds(ts)

\* A list of records is not mistaken for a torn file.
LEMMA RecordsAreReadable ==
  ASSUME NEW ts \in Seq(Record)
  PROVE  Loaded(ts) = ts
BY LedgerAssumption DEF Loaded

\* Replacing a status keeps the list a ledger with the same ids.
LEMMA UpdatedIsLedger ==
  ASSUME NEW ts, GoodList(ts), NEW t \in Task, NEW st \in Status
  PROVE  GoodList(Updated(ts, t, st))
<1>1. /\ Updated(ts, t, st) \in Seq(Record)
      /\ Len(Updated(ts, t, st)) = Len(ts)
  BY DEF GoodList, Updated, Record, Status
<1>2. \A i \in DOMAIN ts : Updated(ts, t, st)[i].id = ts[i].id
  BY DEF Updated
<1>3. DOMAIN Updated(ts, t, st) = DOMAIN ts
  BY DEF Updated
<1>. QED BY <1>1, <1>2, <1>3 DEF GoodList, Ledger!UniqueIds

\* So does marking the records in flight as timed out.
LEMMA ReconciledIsLedger ==
  ASSUME NEW ts, GoodList(ts)
  PROVE  GoodList(Reconciled(ts))
<1>1. ASSUME NEW i \in 1..Len(ts)
      PROVE  Reconciled(ts)[i] \in Record /\ Reconciled(ts)[i].id = ts[i].id
  <2>1. ts[i] \in Record /\ i \in DOMAIN ts
    BY DEF GoodList
  <2>2. CASE ts[i].status \in Live
    BY <2>1, <2>2 DEF Reconciled, Record, Terminal
  <2>3. CASE ts[i].status \notin Live
    BY <2>1, <2>3 DEF Reconciled
  <2>. QED BY <2>2, <2>3
<1>2. DOMAIN Reconciled(ts) = DOMAIN ts /\ DOMAIN ts = 1..Len(ts)
  BY DEF Reconciled, GoodList
<1>3. Reconciled(ts) = [i \in DOMAIN ts |-> Reconciled(ts)[i]]
  BY DEF Reconciled
<1>4. Reconciled(ts) \in [1..Len(ts) -> Record]
  BY <1>1, <1>2, <1>3
<1>5. Reconciled(ts) \in Seq(Record) /\ Len(Reconciled(ts)) = Len(ts)
  BY <1>2, <1>4 DEF GoodList
<1>. QED BY <1>1, <1>2, <1>5 DEF GoodList, Ledger!UniqueIds

\* Shifting out the oldest records enforces the cap and merges no ids.
LEMMA NewestIsLedger ==
  ASSUME NEW ts \in Seq(Record), Ledger!UniqueIds(ts)
  PROVE  GoodList(Newest(ts))
<1>1. CASE Len(ts) <= MaxTasks
  BY <1>1, LedgerAssumption DEF Newest, GoodList
<1>2. CASE Len(ts) > MaxTasks
  <2>1. Newest(ts) = SubSeq(ts, Len(ts) - MaxTasks + 1, Len(ts))
    BY <1>2, LedgerAssumption DEF Newest
  <2>2. Len(ts) \in Nat /\ MaxTasks \in Nat
    BY LedgerAssumption
  <2>3. Newest(ts) \in Seq(Record) /\ Len(Newest(ts)) = MaxTasks
    BY <1>2, <2>1, <2>2, LedgerAssumption
  <2>4. \A i \in 1..MaxTasks :
          /\ Newest(ts)[i] = ts[Len(ts) - MaxTasks + i]
          /\ Len(ts) - MaxTasks + i \in 1..Len(ts)
    BY <1>2, <2>1, <2>2
  <2>5. Ledger!UniqueIds(Newest(ts))
    <3> SUFFICES ASSUME NEW i \in 1..MaxTasks, NEW j \in 1..MaxTasks,
                        Newest(ts)[i].id = Newest(ts)[j].id
                 PROVE  i = j
      BY <2>3 DEF Ledger!UniqueIds
    <3>1. Len(ts) - MaxTasks + i = Len(ts) - MaxTasks + j
      BY <2>4 DEF Ledger!UniqueIds
    <3>. QED BY <2>2, <3>1
  <2>. QED BY <2>2, <2>3, <2>5 DEF GoodList
<1>. QED BY <1>1, <1>2, LedgerAssumption

\* Recording a task replaces its record or appends one.
LEMMA RecordedIsLedger ==
  ASSUME NEW ts, GoodList(ts), NEW t \in Task
  PROVE  GoodList(Recorded(ts, t))
<1>1. CASE Has(ts, t)
  <2>1. GoodList(Updated(ts, t, "PENDING"))
    BY UpdatedIsLedger DEF Status, Live
  <2>. QED BY <1>1, <2>1, NewestIsLedger DEF Recorded, GoodList
<1>2. CASE ~Has(ts, t)
  <2> DEFINE new == Append(ts, [id |-> t, status |-> "PENDING"])
  <2>1. new \in Seq(Record)
    BY DEF GoodList, Record, Live
  <2>2. Ledger!UniqueIds(new)
    BY <1>2 DEF GoodList, Ledger!UniqueIds, Has
  <2>. QED BY <1>2, <2>1, <2>2, NewestIsLedger DEF Recorded
<1>. QED BY <1>1, <1>2

\* The records of a list whose status for t is replaced.
LEMMA UpdatedEntries ==
  ASSUME NEW ts \in Seq(Record), NEW t \in Task, NEW st \in Status
  PROVE  \A r \in Range(Updated(ts, t, st)) :
           \/ r.id = t /\ r.status = st /\ Has(ts, t)
           \/ r \in Range(ts) /\ r.id # t
BY DEF Updated, Range, Has

\* The records of a list in which t is recorded anew.
LEMMA RecordedEntries ==
  ASSUME NEW ts \in Seq(Record), NEW t \in Task
  PROVE  \A r \in Range(Recorded(ts, t)) :
           \/ r.id = t /\ r.status = "PENDING"
           \/ r \in Range(ts) /\ r.id # t
<1> DEFINE all == IF Has(ts, t) THEN Updated(ts, t, "PENDING")
                  ELSE Append(ts, [id |-> t, status |-> "PENDING"])
<1>1. all \in Seq(Record)
  <2>1. [id |-> t, status |-> "PENDING"] \in Record
    BY DEF Record, Live
  <2>2. Updated(ts, t, "PENDING") \in Seq(Record)
    BY <2>1 DEF Updated
  <2>. QED BY <2>1, <2>2
<1>2. \A r \in Range(all) :
        (r.id = t /\ r.status = "PENDING") \/ (r \in Range(ts) /\ r.id # t)
  <2>1. CASE Has(ts, t)
    <3>1. "PENDING" \in Status
      BY DEF Status, Live
    <3>2. all = Updated(ts, t, "PENDING")
      BY <2>1
    <3>. QED BY <3>1, <3>2, UpdatedEntries
  <2>2. CASE ~Has(ts, t)
    <3>1. all = Append(ts, [id |-> t, status |-> "PENDING"])
      BY <2>2
    <3>2. \A i \in DOMAIN all :
            \/ i \in DOMAIN ts /\ all[i] = ts[i]
            \/ all[i] = [id |-> t, status |-> "PENDING"]
      BY <3>1
    <3>. QED BY <2>2, <3>2 DEF Range, Has
  <2>. QED BY <2>1, <2>2
<1>3. Range(Newest(all)) \subseteq Range(all)
  <2> HIDE DEF all
  <2>1. CASE Len(all) <= MaxTasks
    BY <1>1, <2>1, LedgerAssumption DEF Newest
  <2>2. CASE Len(all) > MaxTasks
    <3>1. Newest(all) = SubSeq(all, Len(all) - MaxTasks + 1, Len(all))
      BY <2>2 DEF Newest
    <3>2. Len(all) \in Nat /\ MaxTasks \in Nat
      BY <1>1, LedgerAssumption
    <3>3. \A i \in DOMAIN Newest(all) :
            \E j \in DOMAIN all : Newest(all)[i] = all[j]
      <4>1. DOMAIN Newest(all) = 1..MaxTasks /\ DOMAIN all = 1..Len(all)
        BY <1>1, <2>2, <3>1, <3>2
      <4>2. \A i \in 1..MaxTasks :
              /\ Newest(all)[i] = all[Len(all) - MaxTasks + i]
              /\ Len(all) - MaxTasks + i \in 1..Len(all)
        BY <1>1, <2>2, <3>1, <3>2
      <4>. QED BY <4>1, <4>2
    <3>. QED BY <3>3 DEF Range
  <2>. QED BY <1>1, <2>1, <2>2, LedgerAssumption
<1>. QED BY <1>2, <1>3 DEF Recorded

\* No record is in flight once the list is reconciled, and none is new.
LEMMA ReconciledEntries ==
  ASSUME NEW ts \in Seq(Record)
  PROVE  \A r \in Range(Reconciled(ts)) :
           r.status \notin Live /\ \E s \in Range(ts) : s.id = r.id
BY DEF Reconciled, Range, Live

-----------------------------------------------------------------------------
(* The ledger, whoever writes it                                            *)

\* The ledger's own operators are those of TaskRecords.
LEMMA LedgerOperators ==
  /\ Ledger!Record = Record /\ Ledger!Live = Live /\ Ledger!Terminal = Terminal
  /\ \A ts : /\ Ledger!Loaded(ts) = Loaded(ts)
             /\ Ledger!Reconciled(ts) = Reconciled(ts)
  /\ \A ts, t : /\ Ledger!Has(ts, t) = Has(ts, t)
                /\ Ledger!Recorded(ts, t) = Recorded(ts, t)
  /\ \A ts, t, st : Ledger!Updated(ts, t, st) = Updated(ts, t, st)
<1>1. /\ Ledger!Record = Record /\ Ledger!Live = Live /\ Ledger!Terminal = Terminal
      /\ \A ts : Ledger!Loaded(ts) = Loaded(ts) /\ Ledger!Reconciled(ts) = Reconciled(ts)
  BY DEF Ledger!Record, Record, Ledger!Live, Live, Ledger!Terminal, Terminal,
         Ledger!Loaded, Loaded, Ledger!Reconciled, Reconciled
<1>2. /\ \A ts, t : Ledger!Has(ts, t) = Has(ts, t)
      /\ \A ts, t, st : Ledger!Updated(ts, t, st) = Updated(ts, t, st)
      /\ \A ts : Ledger!Newest(ts) = Newest(ts)
  BY DEF Ledger!Has, Has, Ledger!Updated, Updated, Ledger!Newest, Newest
<1>3. \A ts, t : Ledger!Recorded(ts, t) = Recorded(ts, t)
  BY <1>2 DEF Ledger!Recorded, Recorded
<1>. QED BY <1>1, <1>2, <1>3

\* Ledger!LedgerConsistent, in these terms; it is inductive.
LedgerHolds ==
  /\ GoodList(tasks)
  /\ file \in Seq(Record) \cup {Torn} /\ GoodList(Loaded(file))
  /\ dirty \in BOOLEAN /\ slipped \in BOOLEAN
  /\ ~dirty /\ ~slipped => Loaded(file) = tasks

\* It is what the ledger promises.
LEMMA LedgerHoldsIsConsistent == LedgerHolds <=> Ledger!LedgerConsistent
<1>1. Torn \notin Seq(Record) /\ <<>> \in Seq(Record) /\ Loaded(Torn) = <<>>
  BY LedgerAssumption DEF Loaded
<1>2. file \in Seq(Record) \cup {Torn} => Loaded(file) \in Seq(Record)
  BY <1>1 DEF Loaded
<1>. QED
  BY <1>2, LedgerOperators
  DEF LedgerHolds, GoodList, Ledger!LedgerConsistent, Ledger!TypeOK,
      Ledger!OneRecordPerTask, Ledger!CleanMeansSaved

\* A step that changes memory only, and says so, keeps the ledger in order.
LEMMA UnsavedKeeps ==
  ASSUME LedgerHolds, GoodList(tasks'), UNCHANGED <<file, slipped>>,
         dirty' \in BOOLEAN, dirty' \/ (~dirty /\ tasks' = tasks)
  PROVE  LedgerHolds'
BY DEF LedgerHolds, GoodList, Loaded

\* Whatever becomes of a save, the file holds a ledger or is torn, and when the
\* save did not write everything, what was due stays due, or the failure of a
\* save of which nothing was due is on record.
LEMMA SaveKeeps ==
  ASSUME LedgerHolds, GoodList(tasks'), NEW due \in BOOLEAN,
         Ledger!Save(tasks', due)
  PROVE  /\ LedgerHolds'
         /\ Loaded(file') \in {Loaded(file), tasks', <<>>}
<1>1. GoodList(<<>>)
  BY LedgerAssumption DEF GoodList, Ledger!UniqueIds
<1>2. Loaded(tasks') = tasks'
  BY RecordsAreReadable DEF GoodList
<1>3. CASE file' = tasks' /\ dirty' = FALSE /\ slipped' = FALSE
  BY <1>2, <1>3 DEF LedgerHolds, GoodList
<1> DEFINE Noted == dirty' = due /\ slipped' = (slipped \/ ~due)
<1>4. CASE file' = file /\ Noted
  BY <1>4 DEF LedgerHolds, GoodList, Loaded
<1>5. CASE file' = Torn /\ Noted
  BY <1>1, <1>5 DEF LedgerHolds, GoodList, Loaded
<1>. QED BY <1>3, <1>4, <1>5 DEF Ledger!Save

\* recordDispatchedSubagentTask() keeps the ledger in order.
LEMMA RecordTaskKeeps ==
  ASSUME LedgerHolds, NEW t \in Task, Ledger!RecordTask(t)
  PROVE  LedgerHolds' /\ tasks' = Recorded(tasks, t) /\ UNCHANGED file
<1>1. tasks' = Recorded(tasks, t) /\ dirty' = TRUE /\ UNCHANGED <<file, slipped>>
  BY LedgerOperators DEF Ledger!RecordTask
<1>2. GoodList(tasks')
  BY <1>1, RecordedIsLedger DEF LedgerHolds
<1>. QED BY <1>1, <1>2, UnsavedKeeps

\* updateDispatchedSubagentTask() does.
LEMMA UpdateTaskKeeps ==
  ASSUME LedgerHolds, NEW t \in Task, NEW st \in Status, Ledger!UpdateTask(t, st)
  PROVE  /\ LedgerHolds'
         /\ tasks' = Updated(tasks, t, st)
         /\ Loaded(file') \in {Loaded(file), tasks', <<>>}
<1>1. tasks' = Updated(tasks, t, st)
  BY LedgerOperators DEF Ledger!UpdateTask
<1>2. GoodList(tasks')
  BY <1>1, UpdatedIsLedger DEF LedgerHolds
<1>3. CASE Ledger!Save(tasks', TRUE)
  BY <1>1, <1>2, <1>3, SaveKeeps
<1>4. CASE dirty' = TRUE /\ UNCHANGED <<file, slipped>>
  BY <1>1, <1>2, <1>4, UnsavedKeeps
<1>. QED BY <1>3, <1>4 DEF Ledger!UpdateTask

\* A save does, whether or not a change is due.
LEMMA SaveStateKeeps ==
  ASSUME LedgerHolds, Ledger!SaveState
  PROVE  /\ LedgerHolds' /\ UNCHANGED tasks
         /\ Loaded(file') \in {Loaded(file), tasks', <<>>}
<1>1. UNCHANGED tasks /\ Ledger!Save(tasks, dirty) /\ dirty \in BOOLEAN
  BY DEF Ledger!SaveState, LedgerHolds
<1>2. GoodList(tasks') /\ Ledger!Save(tasks', dirty)
  BY <1>1 DEF LedgerHolds, Ledger!Save
<1>. QED BY <1>1, <1>2, SaveKeeps

\* The constructor of the next process does.
LEMMA RestartKeeps ==
  ASSUME LedgerHolds, Ledger!Restart
  PROVE  /\ LedgerHolds'
         /\ tasks' = Reconciled(Loaded(file))
         /\ Loaded(file') \in {Loaded(file), tasks', <<>>}
<1>1. tasks' = Reconciled(Loaded(file))
  BY LedgerOperators DEF Ledger!Restart
<1>2. GoodList(tasks')
  BY <1>1, ReconciledIsLedger DEF LedgerHolds
<1>3. CASE tasks' # Loaded(file)
  <2>1. Ledger!Save(tasks', FALSE)
    BY <1>3, LedgerOperators DEF Ledger!Restart
  <2>. QED BY <1>1, <1>2, <2>1, SaveKeeps
<1>4. CASE tasks' = Loaded(file)
  <2>1. dirty' = FALSE /\ slipped' = FALSE /\ UNCHANGED file
    BY <1>4, LedgerOperators DEF Ledger!Restart
  <2>. QED BY <1>1, <1>2, <1>4, <2>1 DEF LedgerHolds, GoodList, Loaded
<1>. QED BY <1>3, <1>4

\* An empty ledger is in order.
LEMMA LedgerInit == Ledger!Init => LedgerHolds
<1> SUFFICES ASSUME tasks = <<>>, file = <<>>, dirty = FALSE, slipped = FALSE
             PROVE  LedgerHolds
  BY DEF Ledger!Init
<1>1. GoodList(<<>>)
  BY LedgerAssumption DEF GoodList, Ledger!UniqueIds
<1>2. Loaded(file) = <<>>
  BY <1>1, RecordsAreReadable DEF GoodList
<1>. QED BY <1>1, <1>2 DEF LedgerHolds, GoodList

\* Every step of any caller keeps it in order.
LEMMA LedgerNext == LedgerHolds /\ [Ledger!Next]_(Ledger!ledgerVars) => LedgerHolds'
<1> SUFFICES ASSUME LedgerHolds, [Ledger!Next]_(Ledger!ledgerVars)
             PROVE  LedgerHolds'
  OBVIOUS
<1>1. ASSUME NEW t \in Task, Ledger!RecordTask(t)
      PROVE  LedgerHolds'
  BY <1>1, RecordTaskKeeps
<1>2. ASSUME NEW t \in Task, NEW st \in Status, Ledger!UpdateTask(t, st)
      PROVE  LedgerHolds'
  BY <1>2, UpdateTaskKeeps
<1>3. ASSUME UNCHANGED Ledger!ledgerVars
      PROVE  LedgerHolds'
  BY <1>3 DEF Ledger!ledgerVars, LedgerHolds, GoodList, Loaded
<1>4. (Ledger!Live \cup Ledger!Terminal) \ {"TIMEOUT"} \subseteq Status
  BY LedgerOperators DEF Status
<1>. QED
  BY <1>1, <1>2, <1>3, <1>4, SaveStateKeeps, RestartKeeps DEF Ledger!Next

\* The ledger's invariant, for every caller and every order of calls.
LEMMA LedgerInvariant == Ledger!Spec => []LedgerHolds
BY LedgerInit, LedgerNext, PTL DEF Ledger!Spec

\* Types and the cap, for every cap and every set of tasks.
THEOREM LedgerTypeCorrect == Ledger!Spec => []Ledger!TypeOK
<1>1. LedgerHolds => Ledger!TypeOK
  BY LedgerHoldsIsConsistent DEF Ledger!LedgerConsistent
<1>. QED BY <1>1, LedgerInvariant, PTL

\* One record per task, in memory and in the file, through every order of
\* records, updates, saves that fail and restarts.
THEOREM LedgerRecordsAreUnique == Ledger!Spec => []Ledger!OneRecordPerTask
<1>1. LedgerHolds => Ledger!OneRecordPerTask
  BY LedgerHoldsIsConsistent DEF Ledger!LedgerConsistent
<1>. QED BY <1>1, LedgerInvariant, PTL

\* No change that is due is forgotten: when none is, a restart would load what is
\* in memory, unless a save of which nothing was due has failed since the file
\* last had it.
THEOREM NoDueChangeIsForgotten == Ledger!Spec => []Ledger!CleanMeansSaved
<1>1. LedgerHolds => Ledger!CleanMeansSaved
  BY LedgerHoldsIsConsistent DEF Ledger!LedgerConsistent
<1>. QED BY <1>1, LedgerInvariant, PTL

\* The list and the file are well formed, and no change is forgotten that the
\* file does not have, for every cap.
THEOREM LedgerIsConsistent == Ledger!Spec => []Ledger!LedgerConsistent
BY LedgerHoldsIsConsistent, LedgerInvariant, PTL

-----------------------------------------------------------------------------
(* What the ledger tells of the tasks                                       *)

\* The records of queued tasks are in flight.
QueuedIsLive ==
  \A r \in Range(tasks) : r.id \in Range(taskQueue) => r.status \in Live

\* What is recorded, in memory or in the file, has been handed over, or its
\* dispatch has failed.
RecordedIsKnown ==
  \A r \in Range(tasks) \cup Range(Loaded(file)) : fate[r.id] # "new"

\* That the loop never marks a settled task as RUNNING hangs on the records of
\* queued tasks, and that a dispatch never records one anew on task ids being
\* new to the ledger, the file included.
RecordsIInv ==
  /\ IInv
  /\ LedgerHolds
  /\ LedgerFollowsRun
  /\ LiveRecordIsOwned
  /\ QueuedIsLive
  /\ RecordedIsKnown

\* The status of a record does not contradict the loops W.
Follows(r, W) ==
  \A w \in W : r.id = w.task =>
    CASE w.stage = "session"    -> r.status = "RUNNING"
      [] w.stage = "finalizing" -> r.status = w.outcome
      [] OTHER                  -> r.status \in Live

Owned(r) ==
  r.status \in Live =>
    r.id \in InExecutor \/ fate[r.id] \in {"cancelled", "swallowed", "unsent"}

\* The parts of the invariant, of records instead of places in the list.
LEMMA RecordsAsASet ==
  /\ LedgerFollowsRun <=> \A r \in Range(tasks) : Follows(r, workers)
  /\ LiveRecordIsOwned <=> \A r \in Range(tasks) : Owned(r)
<1>1. LedgerFollowsRun <=> \A r \in Range(tasks) : Follows(r, workers)
  BY DEF LedgerFollowsRun, Follows, Range
<1>2. LiveRecordIsOwned <=> \A r \in Range(tasks) : Owned(r)
  BY DEF LiveRecordIsOwned, Owned, Range
<1>. QED BY <1>1, <1>2

\* The same after a step.
LEMMA RecordsAsASetNext ==
  /\ LedgerFollowsRun' <=> \A r \in Range(tasks') : Follows(r, workers')
  /\ LiveRecordIsOwned' <=> \A r \in Range(tasks') : Owned(r)'
<1>1. LedgerFollowsRun' <=> \A r \in Range(tasks') : Follows(r, workers')
  BY DEF LedgerFollowsRun, Follows, Range
<1>2. LiveRecordIsOwned' <=> \A r \in Range(tasks') : Owned(r)'
  BY DEF LiveRecordIsOwned, Owned, Range
<1>. QED BY <1>1, <1>2

\* Records have their types.
LEMMA RecordsAreTyped ==
  ASSUME LedgerHolds
  PROVE  /\ tasks \in Seq(Record)
         /\ \A r \in Range(tasks) \cup Range(Loaded(file)) :
              r.id \in Task /\ r.status \in Status
<1>1. tasks \in Seq(Record) /\ Loaded(file) \in Seq(Record)
  BY DEF LedgerHolds, GoodList
<1>2. \A r \in Record : r.id \in Task /\ r.status \in Status
  BY DEF Record, Status
<1>. QED BY <1>1, <1>2 DEF Range

\* What enqueue() does to the places of tasks, to their fates, and to the
\* ledger when the loop it starts takes the task.
LEMMA EnqueueEffect ==
  ASSUME IInv, NEW t \in Task, Enqueue(t)
  PROVE  /\ fate[t] = "new" /\ t \notin InExecutor
         /\ \A w \in workers' : w \in workers \/ (w.task = t /\ w.stage = "preparing")
         /\ InExecutor \subseteq InExecutor'
         /\ Range(taskQueue') \subseteq Range(taskQueue) \cup {t}
         /\ t \in InExecutor' \/ fate'[t] = "swallowed"
         /\ fate'[t] # "new" /\ \A u \in Task : u # t => fate'[u] = fate[u]
         /\ \A ts : Started(t, ts) \in {ts, Updated(ts, t, "RUNNING")}
<1> DEFINE q == Append(taskQueue, t)
<1>1. fate[t] = "new" /\ t \notin InExecutor /\ taskQueue \in Seq(Task)
  BY DEF IInv, NewIsNowhere, Enqueue, QueueTyped
<1>2. CASE StartsLoop
  <2>1. workers = {} /\ taskQueue = <<>>
    BY <1>2 DEF StartsLoop, IInv, QueueHasWorker
  <2>2. q = <<t>> /\ Head(q) = t /\ Tail(q) = <<>> /\ q # <<>> /\ Range(q) = {t}
    BY <2>1 DEF Range
  <2>3. InExecutor = {}
    BY <2>1, EmptyQueue DEF InExecutor
  <2>4. LoopHead(q, {}) /\ fate' = FateAfterHead(q, Accepted(t))
    BY <1>2, <2>1 DEF Enqueue
  <2>5. \A ts : Started(t, ts) \in {ts, Updated(ts, t, "RUNNING")}
    BY <1>2, <2>2 DEF Started, AfterHead
  <2>6. \A u \in Task :
          fate'[u] = IF u = t THEN (IF cancelRequested THEN "swallowed" ELSE "accepted")
                     ELSE fate[u]
    BY <2>2, <2>4 DEF FateAfterHead, Accepted, IInv, QueueTyped
  <2> HIDE DEF q
  <2>7. CASE TakesTask(q)
    <3>1. /\ taskQueue' = <<>>
          /\ workers' = {[task |-> t, stage |-> "preparing", outcome |-> NoOutcome]}
      BY <2>2, <2>4, <2>7 DEF LoopHead, Shifted
    <3>2. InExecutor' = {t}
      BY <3>1, EmptyQueue DEF InExecutor
    <3>. QED BY <1>1, <2>3, <2>5, <2>6, <3>1, <3>2, EmptyQueue
  <2>8. CASE ~TakesTask(q)
    <3>1. taskQueue' = <<>> /\ workers' = {} /\ cancelRequested
      BY <2>2, <2>4, <2>8 DEF LoopHead, TakesTask
    <3>. QED BY <1>1, <2>3, <2>5, <2>6, <3>1, EmptyQueue
  <2>. QED BY <2>7, <2>8
<1>3. CASE ~StartsLoop
  <2>1. taskQueue' = q /\ fate' = Accepted(t) /\ workers' = workers
    BY <1>3 DEF Enqueue
  <2>2. Range(q) = Range(taskQueue) \cup {t}
    BY <1>1, AppendedQueue DEF IInv, NoTaskTwice, Distinct, InExecutor
  <2>3. \A ts : Started(t, ts) = ts
    BY <1>3 DEF Started
  <2>4. \A u \in Task : fate'[u] = IF u = t THEN "accepted" ELSE fate[u]
    BY <2>1 DEF Accepted, IInv, QueueTyped
  <2>5. InExecutor' = InExecutor \cup {t}
    BY <2>1, <2>2 DEF InExecutor
  <2>. QED BY <1>1, <2>1, <2>2, <2>3, <2>4, <2>5
<1>. QED BY <1>2, <1>3

\* What handing a task over leaves in the ledger, whichever comes first.
LEMMA HandedOverEntries ==
  ASSUME RecordsIInv, NEW t \in Task, Dispatch(t) \/ Forward(t)
  PROVE  /\ Enqueue(t) /\ GoodList(tasks') /\ dirty' = TRUE /\ UNCHANGED <<file, slipped>>
         /\ \A r \in Range(tasks') :
              \/ r.id = t /\ r.status \in Live
              \/ r \in Range(tasks) /\ r.id # t
<1>1. Enqueue(t) /\ dirty' = TRUE /\ UNCHANGED <<file, slipped>>
  BY DEF Dispatch, Forward
<1>2. GoodList(tasks) /\ "RUNNING" \in Status /\ "PENDING" \in Live /\ "RUNNING" \in Live
  BY DEF RecordsIInv, LedgerHolds, Status, Live
<1>3. \A ts : Started(t, ts) \in {ts, Updated(ts, t, "RUNNING")}
  BY <1>1, EnqueueEffect DEF RecordsIInv
<1>4. CASE Dispatch(t)
  <2> DEFINE ts == Recorded(tasks, t)
  <2>1. GoodList(ts)
    BY <1>2, RecordedIsLedger
  <2>2. \A r \in Range(ts) :
          (r.id = t /\ r.status \in Live) \/ (r \in Range(tasks) /\ r.id # t)
    BY <1>2, RecordedEntries DEF GoodList
  <2>3. tasks' \in {ts, Updated(ts, t, "RUNNING")}
    BY <1>3, <1>4 DEF Dispatch
  <2> HIDE DEF ts
  <2>4. GoodList(Updated(ts, t, "RUNNING"))
    BY <1>2, <2>1, UpdatedIsLedger
  <2>5. \A r \in Range(Updated(ts, t, "RUNNING")) :
          (r.id = t /\ r.status = "RUNNING") \/ (r \in Range(ts) /\ r.id # t)
    BY <1>2, <2>1, UpdatedEntries DEF GoodList
  <2>. QED BY <1>1, <1>2, <2>1, <2>2, <2>3, <2>4, <2>5
<1>5. CASE Forward(t)
  <2> DEFINE ts == Started(t, tasks)
  <2>1. GoodList(ts)
    BY <1>2, <1>3, UpdatedIsLedger
  <2>2. \A r \in Range(ts) : r \in Range(tasks) \/ r.id = t
    BY <1>2, <1>3, UpdatedEntries DEF GoodList
  <2>3. tasks' = Recorded(ts, t)
    BY <1>5 DEF Forward
  <2> HIDE DEF ts
  <2>4. GoodList(tasks')
    BY <2>1, <2>3, RecordedIsLedger
  <2>5. \A r \in Range(tasks') :
          (r.id = t /\ r.status = "PENDING") \/ (r \in Range(ts) /\ r.id # t)
    BY <2>1, <2>3, RecordedEntries DEF GoodList
  <2>. QED BY <1>1, <1>2, <2>2, <2>4, <2>5
<1>. QED BY <1>4, <1>5

\* What a step of a run that is not its report leaves in the ledger: the record
\* of the task was in flight, and agrees with the run's new stage.
LEMMA StageEntries ==
  ASSUME RecordsIInv, NEW w \in workers, Run(w), ~Report(w)
  PROVE  \E v \in Worker :
           /\ Moves(w) /\ v.task = w.task /\ workers = {w} /\ workers' = {v}
           /\ LedgerHolds' /\ Loaded(file') \in {Loaded(file), tasks', <<>>}
           /\ \A r \in Range(tasks) : r.id = w.task => r.status \in Live
           /\ \A r \in Range(tasks') :
                \/ r.id = w.task /\ Follows(r, {v})
                \/ r \in Range(tasks) /\ r.id # w.task
<1>1. Moves(w)
  BY RunMovesOrReports
<1>2. /\ workers = {w} /\ w \in Worker /\ w.task \in Task
      /\ w.stage \in Stage /\ w.outcome \in Outcome \cup {NoOutcome}
      /\ GoodList(tasks) /\ tasks \in Seq(Record)
  BY DEF RecordsIInv, IInv, SerialExecution, QueueTyped, Worker, LedgerHolds, GoodList
<1>3. \A r \in Range(tasks) : Follows(r, {w})
  BY <1>2, RecordsAsASet DEF RecordsIInv
<1>4. ASSUME NEW stage \in Stage, NEW outcome \in Outcome \cup {NoOutcome},
             workers' = Moved(w, stage, outcome)
      PROVE  \E v \in Worker : /\ v.task = w.task /\ v.stage = stage
                               /\ v.outcome = outcome /\ workers' = {v}
  <2> DEFINE v == [w EXCEPT !.stage = stage, !.outcome = outcome]
  <2>1. v \in Worker /\ v.task = w.task /\ v.stage = stage /\ v.outcome = outcome
    BY <1>2, <1>4 DEF Worker
  <2>2. workers' = {v}
    BY <1>2, <1>4 DEF Moved
  <2>. QED BY <2>1, <2>2
<1>5. ASSUME NEW st \in Status, w.stage # "finalizing",
             \/ Ledger!UpdateTask(w.task, st)
             \/ ~Has(tasks, w.task) /\ UNCHANGED ledger
      PROVE  /\ LedgerHolds' /\ Loaded(file') \in {Loaded(file), tasks', <<>>}
             /\ \A r \in Range(tasks') :
                  \/ r.id = w.task /\ r.status = st
                  \/ r \in Range(tasks) /\ r.id # w.task
  <2>1. CASE Ledger!UpdateTask(w.task, st)
    <3>1. /\ LedgerHolds' /\ tasks' = Updated(tasks, w.task, st)
          /\ Loaded(file') \in {Loaded(file), tasks', <<>>}
      BY <1>2, <2>1, UpdateTaskKeeps DEF RecordsIInv
    <3>. QED BY <1>2, <3>1, UpdatedEntries
  <2>2. CASE ~Has(tasks, w.task) /\ UNCHANGED ledger
    BY <1>2, <2>2 DEF ledger, RecordsIInv, LedgerHolds, Has, Range, GoodList, Loaded
  <2>. QED BY <1>5, <2>1, <2>2
<1>6. CASE Prepare(w)
  <2>1. workers' = Moved(w, "acquiring", NoOutcome) /\ UNCHANGED ledger
        /\ w.stage = "preparing"
    BY <1>6 DEF Prepare, ledger
  <2>2. PICK v \in Worker : v.task = w.task /\ v.stage = "acquiring" /\ workers' = {v}
    BY <1>4, <2>1 DEF Stage
  <2>3. \A r \in Range(tasks) : r.id = w.task => r.status \in Live /\ Follows(r, {v})
    BY <1>3, <2>1, <2>2 DEF Follows
  <2>4. LedgerHolds' /\ tasks' = tasks /\ Loaded(file') = Loaded(file)
    BY <2>1 DEF RecordsIInv, ledger, LedgerHolds, GoodList, Loaded
  <2>. QED BY <1>1, <1>2, <2>2, <2>3, <2>4
<1>7. CASE BeginSession(w)
  <2>1. workers' = Moved(w, "session", NoOutcome) /\ w.stage = "acquiring"
        /\ MarkRunning(w.task)
    BY <1>7 DEF BeginSession
  <2>2. PICK v \in Worker : v.task = w.task /\ v.stage = "session" /\ workers' = {v}
    BY <1>4, <2>1 DEF Stage
  <2>3. \A r \in Range(tasks) : r.id = w.task => r.status \in Live
    BY <1>3, <2>1 DEF Follows
  <2>4. /\ LedgerHolds' /\ Loaded(file') \in {Loaded(file), tasks', <<>>}
        /\ \A r \in Range(tasks') : (r.id = w.task /\ r.status = "RUNNING")
                                      \/ (r \in Range(tasks) /\ r.id # w.task)
    BY <1>5, <2>1 DEF MarkRunning, ledger, Status, Live
  <2>5. \A r \in Range(tasks') : r.status = "RUNNING" => Follows(r, {v})
    BY <2>2 DEF Follows
  <2>. QED BY <1>1, <1>2, <2>2, <2>3, <2>4, <2>5
<1>8. ASSUME NEW outcome \in Outcome, w.stage # "finalizing",
             workers' = Moved(w, "finalizing", outcome), SettleRecord(w.task, outcome)
      PROVE  \E v \in Worker :
               /\ v.task = w.task /\ workers' = {v}
               /\ LedgerHolds' /\ Loaded(file') \in {Loaded(file), tasks', <<>>}
               /\ \A r \in Range(tasks) : r.id = w.task => r.status \in Live
               /\ \A r \in Range(tasks') :
                    \/ r.id = w.task /\ Follows(r, {v})
                    \/ r \in Range(tasks) /\ r.id # w.task
  <2>1. PICK v \in Worker : /\ v.task = w.task /\ v.stage = "finalizing"
                            /\ v.outcome = outcome /\ workers' = {v}
    BY <1>4, <1>8 DEF Stage
  <2>2. \A r \in Range(tasks) : r.id = w.task => r.status \in Live
    BY <1>2, <1>3, <1>8 DEF Follows, Live
  <2>3. /\ LedgerHolds' /\ Loaded(file') \in {Loaded(file), tasks', <<>>}
        /\ \A r \in Range(tasks') : (r.id = w.task /\ r.status = outcome)
                                      \/ (r \in Range(tasks) /\ r.id # w.task)
    BY <1>5, <1>8 DEF SettleRecord, ledger, Status, Terminal, Outcome
  <2>4. \A r \in Range(tasks') : r.status = outcome => Follows(r, {v})
    BY <2>1 DEF Follows
  <2>. QED BY <2>1, <2>2, <2>3, <2>4
<1>9. CASE Throw(w)
  <2> DEFINE outcome == IF cancelRequested THEN "SKIPPED" ELSE "ERROR"
  <2>1. /\ outcome \in Outcome /\ w.stage # "finalizing"
        /\ workers' = Moved(w, "finalizing", outcome) /\ SettleRecord(w.task, outcome)
    BY <1>9 DEF Throw, Outcome
  <2> HIDE DEF outcome
  <2>. QED BY <1>1, <1>2, <1>8, <2>1
<1>10. ASSUME NEW outcome \in {"COMPLETED", "ERROR"}, EndSession(w, outcome)
       PROVE  /\ outcome \in Outcome /\ w.stage # "finalizing"
              /\ workers' = Moved(w, "finalizing", outcome)
              /\ SettleRecord(w.task, outcome)
  BY <1>10 DEF EndSession, Outcome
<1>. QED BY <1>1, <1>2, <1>6, <1>7, <1>8, <1>9, <1>10 DEF Run

\* What a report, and the turn of the loop after it, leave in the ledger.
LEMMA ReportEntries ==
  ASSUME RecordsIInv, NEW w \in workers, Report(w)
  PROVE  /\ workers = {w}
         /\ LedgerHolds' /\ UNCHANGED file
         /\ \A r \in Range(tasks') :
              \/ r \in Range(tasks) /\ (TakesTask(taskQueue) => r.id # Head(taskQueue))
              \/ /\ TakesTask(taskQueue) /\ r.id = Head(taskQueue)
                 /\ r.status = "RUNNING" /\ Has(tasks, r.id)
<1>1. /\ workers = {w} /\ taskQueue \in Seq(Task)
      /\ GoodList(tasks) /\ tasks \in Seq(Record)
  BY DEF RecordsIInv, IInv, SerialExecution, QueueTyped, LedgerHolds, GoodList
<1>2. /\ tasks' = AfterHead(taskQueue, tasks)
      /\ dirty' = (dirty \/ tasks' # tasks) /\ UNCHANGED <<file, slipped>>
  BY DEF Report
<1>3. "RUNNING" \in Status
  BY DEF Status, Live
<1>4. CASE TakesTask(taskQueue)
  <2>1. tasks' = Updated(tasks, Head(taskQueue), "RUNNING") /\ Head(taskQueue) \in Task
    BY <1>1, <1>2, <1>4 DEF AfterHead, TakesTask
  <2>2. GoodList(tasks')
    BY <1>1, <1>3, <2>1, UpdatedIsLedger
  <2>3. LedgerHolds'
    BY <1>2, <2>2, UnsavedKeeps DEF RecordsIInv, LedgerHolds
  <2>. QED BY <1>1, <1>2, <1>3, <1>4, <2>1, <2>3, UpdatedEntries
<1>5. CASE ~TakesTask(taskQueue)
  <2>1. tasks' = tasks
    BY <1>2, <1>5 DEF AfterHead
  <2>2. LedgerHolds'
    BY <1>1, <1>2, <2>1, UnsavedKeeps DEF RecordsIInv, LedgerHolds
  <2>. QED BY <1>1, <1>2, <1>5, <2>1, <2>2
<1>. QED BY <1>4, <1>5

\* Nothing new gets into memory or the file unrecorded.
LEMMA KnownKeeps ==
  ASSUME RecordsIInv,
         Loaded(file') \in {Loaded(file), tasks', <<>>},
         \A u \in Task : fate'[u] = "new" => fate[u] = "new",
         \A r \in Range(tasks') :
           \/ r.id \in Task /\ fate'[r.id] # "new"
           \/ \E s \in Range(tasks) \cup Range(Loaded(file)) : s.id = r.id
  PROVE  RecordedIsKnown'
<1>1. \A r \in Range(tasks) \cup Range(Loaded(file)) :
        r.id \in Task /\ fate[r.id] # "new" /\ fate'[r.id] # "new"
  BY RecordsAreTyped DEF RecordsIInv, RecordedIsKnown
<1>2. Range(Loaded(file')) \subseteq Range(Loaded(file)) \cup Range(tasks')
  BY DEF Range
<1>. QED BY <1>1, <1>2 DEF RecordedIsKnown

\* A step that is not a restart writes only records that were not settled: of
\* tasks that had none, or one in flight.
OpenRecordsOnly ==
  \A r \in Range(tasks') :
    \/ r \in Range(tasks)
    \/ \A s \in Range(tasks) : s.id = r.id => s.status \in Live

\* Handing a task over keeps the ledger true.
LEMMA HandOverIsTrue ==
  ASSUME RecordsIInv, IInv', NEW t \in Task, Dispatch(t) \/ Forward(t)
  PROVE  RecordsIInv' /\ OpenRecordsOnly
<1>1. /\ Enqueue(t) /\ GoodList(tasks') /\ dirty' = TRUE /\ UNCHANGED <<file, slipped>>
      /\ \A r \in Range(tasks') :
           (r.id = t /\ r.status \in Live) \/ (r \in Range(tasks) /\ r.id # t)
  BY HandedOverEntries
<1>2. /\ fate[t] = "new" /\ t \notin InExecutor
      /\ \A w \in workers' : w \in workers \/ (w.task = t /\ w.stage = "preparing")
      /\ InExecutor \subseteq InExecutor'
      /\ Range(taskQueue') \subseteq Range(taskQueue) \cup {t}
      /\ t \in InExecutor' \/ fate'[t] = "swallowed"
      /\ fate'[t] # "new" /\ \A u \in Task : u # t => fate'[u] = fate[u]
  BY <1>1, EnqueueEffect DEF RecordsIInv
<1>3. \A r \in Range(tasks) : r.id \in Task /\ r.id # t
  BY <1>2, RecordsAreTyped DEF RecordsIInv, RecordedIsKnown
<1>4. LedgerHolds'
  BY <1>1, UnsavedKeeps DEF RecordsIInv
<1>5. \A r \in Range(tasks') : Follows(r, workers')
  <2>1. \A r \in Range(tasks) : Follows(r, workers)
    BY RecordsAsASet DEF RecordsIInv
  <2>2. \A w \in workers : w.task # t
    BY <1>2 DEF InExecutor
  <2>3. ASSUME NEW r \in Range(tasks'), NEW w \in workers', r.id = w.task
        PROVE  CASE w.stage = "session"    -> r.status = "RUNNING"
                 [] w.stage = "finalizing" -> r.status = w.outcome
                 [] OTHER                  -> r.status \in Live
    <3>1. CASE r.id = t
      BY <1>1, <1>2, <1>3, <2>2, <2>3, <3>1
    <3>2. CASE r.id # t
      BY <1>1, <1>2, <2>1, <2>3, <3>2 DEF Follows
    <3>. QED BY <3>1, <3>2
  <2>. QED BY <2>3 DEF Follows
<1>6. \A r \in Range(tasks') : Owned(r)'
  <2>1. \A r \in Range(tasks) : Owned(r)
    BY RecordsAsASet DEF RecordsIInv
  <2>. QED BY <1>1, <1>2, <1>3, <2>1 DEF Owned
<1>7. QueuedIsLive'
  BY <1>1, <1>2 DEF RecordsIInv, QueuedIsLive
<1>8. RecordedIsKnown'
  <2>1. \A u \in Task : fate'[u] = "new" => fate[u] = "new"
    BY <1>2
  <2>2. Loaded(file') = Loaded(file)
    BY <1>1
  <2>. QED BY <1>1, <1>2, <2>1, <2>2, KnownKeeps
<1>9. OpenRecordsOnly
  BY <1>1, <1>3 DEF OpenRecordsOnly
<1>. QED BY <1>4, <1>5, <1>6, <1>7, <1>8, <1>9, RecordsAsASetNext DEF RecordsIInv

\* So does a dispatch that fails after its record.
LEMMA FailedDispatchIsTrue ==
  ASSUME RecordsIInv, IInv', NEW t \in Task, DispatchFails(t)
  PROVE  RecordsIInv' /\ OpenRecordsOnly
<1>1. /\ fate[t] = "new" /\ fate' = [fate EXCEPT ![t] = "unsent"]
      /\ Ledger!RecordTask(t)
      /\ UNCHANGED <<taskQueue, processing, cancelRequested, workers, reports>>
  BY DEF DispatchFails
<1>2. LedgerHolds' /\ tasks' = Recorded(tasks, t) /\ UNCHANGED file
  BY <1>1, RecordTaskKeeps DEF RecordsIInv
<1>3. \A r \in Range(tasks') :
        (r.id = t /\ r.status = "PENDING") \/ (r \in Range(tasks) /\ r.id # t)
  BY <1>2, RecordedEntries DEF RecordsIInv, LedgerHolds, GoodList
<1>4. /\ \A r \in Range(tasks) : r.id \in Task /\ r.id # t
      /\ t \notin InExecutor /\ InExecutor' = InExecutor
  BY <1>1, RecordsAreTyped
  DEF RecordsIInv, RecordedIsKnown, IInv, NewIsNowhere, InExecutor
<1>5. fate'[t] = "unsent" /\ \A u \in Task : u # t => fate'[u] = fate[u]
  BY <1>1 DEF RecordsIInv, IInv, QueueTyped
<1>6. /\ \A r \in Range(tasks) : Follows(r, workers)
      /\ \A r \in Range(tasks) : Owned(r)
  BY RecordsAsASet DEF RecordsIInv
<1>7. \A r \in Range(tasks') : Follows(r, workers')
  BY <1>1, <1>3, <1>4, <1>6 DEF Follows, InExecutor
<1>8. \A r \in Range(tasks') : Owned(r)'
  BY <1>3, <1>4, <1>5, <1>6 DEF Owned
<1>9. QueuedIsLive'
  BY <1>1, <1>3 DEF RecordsIInv, QueuedIsLive, Live
<1>10. RecordedIsKnown'
  <2>1. \A u \in Task : fate'[u] = "new" => fate[u] = "new"
    BY <1>1, <1>5
  <2>2. Loaded(file') = Loaded(file)
    BY <1>2
  <2>. QED BY <1>3, <1>5, <2>1, <2>2, KnownKeeps
<1>11. OpenRecordsOnly
  BY <1>3, <1>4 DEF OpenRecordsOnly
<1>. QED
  BY <1>2, <1>7, <1>8, <1>9, <1>10, <1>11, RecordsAsASetNext DEF RecordsIInv

\* A cancel takes tasks away without a word to the ledger.
LEMMA CancelIsTrue ==
  ASSUME RecordsIInv, IInv', Cancel
  PROVE  RecordsIInv' /\ OpenRecordsOnly
<1>1. /\ UNCHANGED <<tasks, file, dirty, slipped, workers>> /\ taskQueue' = <<>>
      /\ \A u \in Task : fate'[u] = IF u \in InExecutor THEN "cancelled" ELSE fate[u]
  BY DEF Cancel, ledger
<1>2. LedgerHolds'
  BY <1>1 DEF RecordsIInv, LedgerHolds, GoodList, Loaded
<1>3. \A r \in Range(tasks) : r.id \in Task /\ Follows(r, workers) /\ Owned(r)
  BY RecordsAsASet, RecordsAreTyped DEF RecordsIInv
<1>4. \A r \in Range(tasks') : Follows(r, workers') /\ Owned(r)'
  BY <1>1, <1>3 DEF Owned
<1>5. QueuedIsLive'
  BY <1>1, EmptyQueue DEF QueuedIsLive
<1>6. RecordedIsKnown'
  BY <1>1, KnownKeeps
<1>7. OpenRecordsOnly
  BY <1>1 DEF OpenRecordsOnly
<1>. QED BY <1>2, <1>4, <1>5, <1>6, <1>7, RecordsAsASetNext DEF RecordsIInv

\* The stages of a run keep the ledger true of it.
LEMMA StageIsTrue ==
  ASSUME RecordsIInv, IInv', NEW w \in workers, Run(w), ~Report(w)
  PROVE  RecordsIInv' /\ OpenRecordsOnly
<1>1. PICK v \in Worker :
         /\ Moves(w) /\ v.task = w.task /\ workers = {w} /\ workers' = {v}
         /\ LedgerHolds' /\ Loaded(file') \in {Loaded(file), tasks', <<>>}
         /\ \A r \in Range(tasks) : r.id = w.task => r.status \in Live
         /\ \A r \in Range(tasks') :
              \/ r.id = w.task /\ Follows(r, {v})
              \/ r \in Range(tasks) /\ r.id # w.task
  BY StageEntries
<1>2. UNCHANGED <<taskQueue, fate>> /\ InExecutor' = InExecutor
      /\ w.task \in InExecutor /\ w.task \notin Range(taskQueue)
  BY <1>1 DEF Moves, InExecutor, RecordsIInv, IInv, NoTaskTwice
<1>3. \A r \in Range(tasks) : Owned(r)
  BY RecordsAsASet DEF RecordsIInv
<1>4. \A r \in Range(tasks') : Follows(r, workers')
  BY <1>1 DEF Follows
<1>5. \A r \in Range(tasks') : Owned(r)'
  BY <1>1, <1>2, <1>3 DEF Owned
<1>6. QueuedIsLive'
  BY <1>1, <1>2 DEF RecordsIInv, QueuedIsLive
<1>7. RecordedIsKnown'
  <2>1. w.task \in Task /\ fate'[w.task] # "new"
    BY <1>2 DEF RecordsIInv, IInv, NewIsNowhere, QueueTyped, Worker
  <2>. QED BY <1>1, <1>2, <2>1, KnownKeeps
<1>8. OpenRecordsOnly
  BY <1>1 DEF OpenRecordsOnly
<1>. QED BY <1>1, <1>4, <1>5, <1>6, <1>7, <1>8, RecordsAsASetNext DEF RecordsIInv

\* When a callback is handed on its record is settled, and the next one is made
\* RUNNING.
LEMMA ReportIsTrue ==
  ASSUME RecordsIInv, IInv', NEW w \in workers, Report(w)
  PROVE  RecordsIInv' /\ OpenRecordsOnly
<1>1. /\ workers = {w} /\ LedgerHolds' /\ UNCHANGED file
      /\ \A r \in Range(tasks') :
           \/ r \in Range(tasks) /\ (TakesTask(taskQueue) => r.id # Head(taskQueue))
           \/ /\ TakesTask(taskQueue) /\ r.id = Head(taskQueue)
              /\ r.status = "RUNNING" /\ Has(tasks, r.id)
  BY ReportEntries
<1>2. /\ w.stage = "finalizing" /\ w.outcome \in Outcome \cup {NoOutcome}
      /\ LoopHead(taskQueue, {}) /\ fate' = FateAfterHead(taskQueue, fate)
      /\ taskQueue \in Seq(Task) /\ Distinct(taskQueue)
  <2>1. w \in Worker /\ taskQueue \in Seq(Task) /\ Distinct(taskQueue)
    BY DEF RecordsIInv, IInv, QueueTyped, NoTaskTwice, Distinct
  <2>2. w.outcome \in Outcome \cup {NoOutcome}
    BY <2>1 DEF Worker
  <2>. QED BY <1>1, <2>1, <2>2 DEF Report
<1>3. \A r \in Range(tasks) :
        /\ r.id \in Task /\ Owned(r)
        /\ r.id = w.task => r.status \notin Live
  <2>1. \A r \in Range(tasks) : r.id \in Task /\ Owned(r) /\ Follows(r, {w})
    BY <1>1, RecordsAsASet, RecordsAreTyped DEF RecordsIInv
  <2>2. \A r \in Range(tasks) : r.id = w.task => r.status = w.outcome
    BY <1>2, <2>1 DEF Follows
  <2>3. w.outcome \notin Live
    BY <1>2 DEF Outcome, NoOutcome, Live
  <2>. QED BY <2>1, <2>2, <2>3
<1>4. \A u \in Task :
        fate'[u] = IF taskQueue # <<>> /\ cancelRequested /\ u \in Range(taskQueue)
                   THEN "swallowed" ELSE fate[u]
  BY <1>2 DEF FateAfterHead
<1>5. InExecutor = Range(taskQueue) \cup {w.task}
  BY <1>1 DEF InExecutor
<1>6. /\ \A r \in Range(tasks') : Follows(r, workers') /\ Owned(r)'
      /\ QueuedIsLive'
  <2>1. CASE TakesTask(taskQueue)
    <3>1. /\ Range(taskQueue) = Range(taskQueue') \cup {Head(taskQueue)}
          /\ Head(taskQueue) \in Range(taskQueue)
          /\ workers' = {[task |-> Head(taskQueue), stage |-> "preparing",
                          outcome |-> NoOutcome]}
      BY <1>2, <2>1, ShiftedQueue DEF TakesTask, LoopHead
    <3>2. InExecutor' = Range(taskQueue)
      BY <3>1 DEF InExecutor
    <3>3. \A r \in Range(tasks') : Follows(r, workers')
      BY <1>1, <2>1, <3>1 DEF Follows, Live
    <3>4. \A r \in Range(tasks') : Owned(r)'
      BY <1>1, <1>3, <1>4, <1>5, <2>1, <3>1, <3>2 DEF Owned, TakesTask
    <3>5. QueuedIsLive'
      BY <1>1, <3>1 DEF RecordsIInv, QueuedIsLive, Live
    <3>. QED BY <3>3, <3>4, <3>5
  <2>2. CASE ~TakesTask(taskQueue)
    <3>1. taskQueue' = <<>> /\ workers' = {} /\ Range(tasks') \subseteq Range(tasks)
      BY <1>1, <1>2, <2>2 DEF LoopHead
    <3>2. QueuedIsLive' /\ \A r \in Range(tasks') : Follows(r, workers')
      BY <3>1, EmptyQueue DEF QueuedIsLive, Follows
    <3>3. taskQueue = <<>> \/ cancelRequested
      BY <2>2 DEF TakesTask
    <3>4. ASSUME NEW r \in Range(tasks'), r.status \in Live
          PROVE  fate'[r.id] \in {"cancelled", "swallowed", "unsent"}
      <4>1. r \in Range(tasks) /\ r.id # w.task /\ r.id \in Task
        BY <1>3, <3>1, <3>4
      <4>2. \/ r.id \in Range(taskQueue) /\ taskQueue # <<>> /\ cancelRequested
            \/ fate[r.id] \in {"cancelled", "swallowed", "unsent"}
        BY <1>3, <1>5, <3>3, <3>4, <4>1, EmptyQueue DEF Owned
      <4>. QED BY <1>4, <4>1, <4>2
    <3>. QED BY <3>2, <3>4 DEF Owned
  <2>. QED BY <2>1, <2>2
<1>7. RecordedIsKnown'
  <2>1. \A u \in Task : fate'[u] = "new" => fate[u] = "new"
    BY <1>4
  <2>2. \A r \in Range(tasks') : \E s \in Range(tasks) : s.id = r.id
    BY <1>1 DEF Has, Range
  <2>. QED BY <1>1, <2>1, <2>2, KnownKeeps
<1>8. OpenRecordsOnly
  <2>1. TakesTask(taskQueue) => Head(taskQueue) \in Range(taskQueue)
    BY <1>2, ShiftedQueue DEF TakesTask
  <2>. QED BY <1>1, <2>1 DEF OpenRecordsOnly, RecordsIInv, QueuedIsLive
<1>. QED BY <1>1, <1>6, <1>7, <1>8, RecordsAsASetNext DEF RecordsIInv

\* A save changes no record.
LEMMA SaveIsTrue ==
  ASSUME RecordsIInv, IInv', SaveState \/ UNCHANGED vars
  PROVE  RecordsIInv' /\ OpenRecordsOnly
<1>1. /\ LedgerHolds' /\ tasks' = tasks
      /\ Loaded(file') \in {Loaded(file), tasks', <<>>}
      /\ UNCHANGED <<taskQueue, workers, fate>>
  BY SaveStateKeeps DEF SaveState, vars, RecordsIInv, LedgerHolds, GoodList, Loaded
<1>2. LedgerFollowsRun' /\ LiveRecordIsOwned' /\ QueuedIsLive'
  BY <1>1
  DEF RecordsIInv, LedgerFollowsRun, LiveRecordIsOwned, QueuedIsLive, InExecutor
<1>3. RecordedIsKnown'
  BY <1>1, KnownKeeps
<1>. QED BY <1>1, <1>2, <1>3 DEF RecordsIInv, OpenRecordsOnly

\* After a restart nothing is in flight, in the ledger or the executor.
LEMMA RestartIsTrue ==
  ASSUME RecordsIInv, IInv', Restart
  PROVE  RecordsIInv'
<1>1. /\ LedgerHolds' /\ tasks' = Reconciled(Loaded(file))
      /\ Loaded(file') \in {Loaded(file), tasks', <<>>}
      /\ workers' = {}
      /\ \A u \in Task : fate'[u] \in {fate[u], "crashed"}
  BY RestartKeeps DEF Restart, RecordsIInv
<1>2. \A r \in Range(tasks') :
        r.status \notin Live /\ \E s \in Range(Loaded(file)) : s.id = r.id
  BY <1>1, ReconciledEntries DEF RecordsIInv, LedgerHolds, GoodList
<1>3. taskQueue' = <<>>
  BY DEF Restart
<1>4. /\ \A r \in Range(tasks') : Follows(r, workers') /\ Owned(r)'
      /\ QueuedIsLive'
  BY <1>1, <1>2, <1>3, EmptyQueue DEF Follows, Owned, QueuedIsLive
<1>5. RecordedIsKnown'
  BY <1>1, <1>2, KnownKeeps
<1>. QED BY <1>1, <1>4, <1>5, RecordsAsASetNext DEF RecordsIInv

\* An empty ledger is true of an empty executor.
LEMMA RecordsInit == Init => RecordsIInv
<1> SUFFICES ASSUME Init PROVE RecordsIInv
  OBVIOUS
<1>1. IInv /\ LedgerHolds
  BY InitIInv, LedgerInit DEF Init
<1>2. tasks = <<>> /\ file = <<>>
  BY DEF Init, Ledger!Init
<1>3. Range(tasks) = {} /\ Range(Loaded(file)) = {}
  BY <1>2, EmptyQueue DEF Loaded
<1>. QED
  BY <1>1, <1>3, RecordsAsASet DEF RecordsIInv, QueuedIsLive, RecordedIsKnown

\* Every step keeps the ledger true, and writes only open records unless the
\* process restarts.
LEMMA RecordsNext ==
  RecordsIInv /\ [Next]_vars => RecordsIInv' /\ (OpenRecordsOnly \/ Restart)
<1> SUFFICES ASSUME RecordsIInv, [Next]_vars
             PROVE  RecordsIInv' /\ (OpenRecordsOnly \/ Restart)
  OBVIOUS
<1>1. IInv'
  BY NextIInv DEF RecordsIInv
<1>2. ASSUME NEW w \in workers, Run(w)
      PROVE  RecordsIInv' /\ OpenRecordsOnly
  BY <1>1, <1>2, StageIsTrue, ReportIsTrue
<1>. QED
  BY <1>1, <1>2, HandOverIsTrue, FailedDispatchIsTrue, CancelIsTrue, SaveIsTrue,
     RestartIsTrue
  DEF Next

\* In every reachable state the ledger is true.
LEMMA RecordsInvariant == Spec => []RecordsIInv
BY RecordsInit, RecordsNext, PTL DEF Spec

\* The ledger is well formed, in memory and in the file, never contradicts the
\* run, and shows in flight only what somebody will settle, for every cap,
\* every set of tasks, and every order of dispatches, forwards, cancels, failed
\* saves and restarts.
THEOREM LedgerTellsTheTruth == Spec => []LedgerIsTrue
<1>1. RecordsIInv => TypeOK
  <2>1. RecordsIInv => Ledger!TypeOK
    BY LedgerHoldsIsConsistent DEF RecordsIInv, Ledger!LedgerConsistent
  <2>. QED BY <2>1 DEF RecordsIInv, IInv, QueueTyped, TypeOK
<1>2. RecordsIInv => LedgerIsTrue
  BY <1>1, LedgerHoldsIsConsistent DEF RecordsIInv, LedgerIsTrue
<1>. QED BY <1>2, RecordsInvariant, PTL

\* The status a task has is that of its only record.
LEMMA StatusOfRecord ==
  ASSUME LedgerHolds, NEW r \in Range(tasks)
  PROVE  StatusOf(r.id) = r.status
<1>1. Has(tasks, r.id)
  BY DEF Has, Range
<1>2. \A s \in Range(tasks) : s.id = r.id => s = r
  BY DEF LedgerHolds, GoodList, Ledger!UniqueIds, Range
<1>. QED BY <1>1, <1>2 DEF StatusOf

\* The same after a step.
LEMMA StatusOfRecordNext ==
  ASSUME LedgerHolds', NEW r \in Range(tasks')
  PROVE  StatusOf(r.id)' = r.status
<1>1. Has(tasks', r.id)
  BY DEF Has, Range
<1>2. \A s \in Range(tasks') : s.id = r.id => s = r
  BY DEF LedgerHolds, GoodList, Ledger!UniqueIds, Range
<1>. QED BY <1>1, <1>2 DEF StatusOf

\* A terminal status is irreversible: no dispatch, run, late outcome or cancel
\* changes it while the record is kept, and the process lives.
THEOREM TerminalStatusIsIrreversible == Spec => TerminalIsFinal
<1>1. ASSUME RecordsIInv, RecordsIInv', OpenRecordsOnly, NEW t \in Task,
             StatusOf(t) \in Terminal
      PROVE  StatusOf(t)' \in {StatusOf(t), "absent"}
  <2>1. PICK s \in Range(tasks) : s.id = t
    BY <1>1 DEF StatusOf, Terminal, Has, Range
  <2>2. s.status = StatusOf(t)
    BY <1>1, <2>1, StatusOfRecord DEF RecordsIInv
  <2>3. CASE Has(tasks', t)
    <3>1. PICK r \in Range(tasks') : r.id = t
      BY <2>3 DEF Has, Range
    <3>2. r \in Range(tasks)
      BY <1>1, <2>1, <2>2, <3>1 DEF OpenRecordsOnly, Live, Terminal
    <3>3. StatusOf(t) = r.status /\ StatusOf(t)' = r.status
      BY <1>1, <3>1, <3>2, StatusOfRecord, StatusOfRecordNext DEF RecordsIInv
    <3>. QED BY <3>3
  <2>4. CASE ~Has(tasks', t)
    BY <2>4 DEF StatusOf
  <2>. QED BY <2>3, <2>4
<1>2. RecordsIInv /\ [Next]_vars
        => [\A t \in Task : StatusOf(t) \in Terminal =>
              StatusOf(t)' \in {StatusOf(t), "absent"} \/ Restart]_vars
  BY <1>1, RecordsNext
<1>. QED BY <1>2, RecordsInvariant, PTL DEF Spec, TerminalIsFinal
=====
