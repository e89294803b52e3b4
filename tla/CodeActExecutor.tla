---------------------------- MODULE CodeActExecutor ----------------------------
(***************************************************************************)
(* The executor of one chat (subagent/code-act-executor.ts): a queue of    *)
(* tasks (Q4), a loop that runs them one after the other across many       *)
(* awaits, the status each leaves in the dispatched-task ledger, the       *)
(* callback it hands on, and the user's cancel, which clears the queue and *)
(* raises a flag the loop looks at between tasks.                          *)
(*                                                                         *)
(* `processing` is the only thing that keeps a second loop from starting,  *)
(* so the loops are modelled as a set of workers, each with the task it    *)
(* has taken and the await it is in.  A cancelled sandbox makes the run    *)
(* fail or not, depending on what it was doing: both outcomes are open.    *)
(***************************************************************************)
EXTENDS TaskRecords, FiniteSets

CONSTANT Idle   \* no task; a task id is used once

VARIABLES
  tasks, file, dirty, slipped,   \* the ledger in GlobalState
  taskQueue,            \* Q4
  processing,           \* a processNext loop is running
  cancelRequested,
  workers,              \* processNext loops, with the task each is executing
  fate,                 \* history: what became of each task
  reports               \* history: callbacks handed on for each task

Ledger == INSTANCE TaskLedger

ASSUME IdleIsNoTask == Idle \notin Task

ledger == <<tasks, file, dirty, slipped>>
vars == <<tasks, file, dirty, slipped, taskQueue, processing, cancelRequested,
          workers, fate, reports>>

Outcome == {"COMPLETED", "ERROR", "SKIPPED"}
NoOutcome == "none"

\* preparing: refreshing messages, compacting, rendering the prompt;
\* acquiring: waiting for the sandbox and setting it up;
\* session: runCodeActSession; finalizing: the ledger is written, the session
\* is being compacted and saved, and the callback is not handed on yet.
Stage == {"preparing", "acquiring", "session", "finalizing"}

Worker == [task : Task, stage : Stage, outcome : Outcome \cup {NoOutcome}]

\* accepted: handed to the executor; cancelled: in its queue or running when
\* the user cancelled; swallowed: handed over after a cancel and dropped by
\* the flag; crashed: in the queue or running when the process ended; unsent:
\* recorded by a dispatch that failed before it handed the task over.
Fate == {"new", "accepted", "cancelled", "swallowed", "crashed", "unsent"}

Range(q) == {q[i] : i \in DOMAIN q}
InExecutor == Range(taskQueue) \cup {w.task : w \in workers}

-----------------------------------------------------------------------------
(* The loop of processNext                                                  *)

\* Fault: the loop does not look at the flag.
TakesRegardless(q) == q # <<>>

\* The loop takes the head of the queue q; under the flag it drops the queue.
TakesTask(q) == q # <<>> /\ ~cancelRequested

\* Fault: the head is read, not shifted.
Peeked(q) == q

\* taskQueue.shift().
Shifted(q) == Tail(q)

\* Fault: the loop ends without another look at the queue.
LoopEnds(q, W) ==
  /\ taskQueue' = q /\ workers' = W
  /\ processing' = FALSE /\ cancelRequested' = FALSE

\* One turn of the loop's head, with the queue q and W the other workers: the
\* next task is taken and executed up to its first await, or the loop ends and
\* resets both flags.
LoopHead(q, W) ==
  IF TakesTask(q)
  THEN /\ taskQueue' = Shifted(q)
       /\ workers' = W \cup {[task |-> Head(q), stage |-> "preparing",
                              outcome |-> NoOutcome]}
       /\ processing' = TRUE
       /\ UNCHANGED cancelRequested
  ELSE /\ taskQueue' = <<>> /\ workers' = W
       /\ processing' = FALSE /\ cancelRequested' = FALSE

\* The ledger when the loop's head has marked what it took as RUNNING.
AfterHead(q, ts) ==
  IF TakesTask(q) THEN Updated(ts, Head(q), "RUNNING") ELSE ts

\* What the loop's head means for tasks that are not taken.
FateAfterHead(q, f) ==
  [t \in Task |-> IF q # <<>> /\ cancelRequested /\ t \in Range(q)
                  THEN "swallowed" ELSE f[t]]

\* Fault: every enqueue starts a loop.
AlwaysStarts == TRUE

\* processNext() returns at once while a loop is running.
StartsLoop == ~processing

Accepted(t) == [fate EXCEPT ![t] = "accepted"]

\* enqueue(t), up to the first await of the loop it may start.
Enqueue(t) ==
  /\ fate[t] = "new"
  /\ IF StartsLoop
     THEN /\ LoopHead(Append(taskQueue, t), workers)
          /\ fate' = FateAfterHead(Append(taskQueue, t), Accepted(t))
     ELSE /\ taskQueue' = Append(taskQueue, t)
          /\ fate' = Accepted(t)
          /\ UNCHANGED <<workers, processing, cancelRequested>>
  /\ UNCHANGED reports

\* The ledger after the part of enqueue(t) that marks a task as RUNNING.
Started(t, ts) == IF StartsLoop THEN AfterHead(Append(taskQueue, t), ts) ELSE ts

-----------------------------------------------------------------------------
(* Who hands over tasks                                                     *)

\* The end of dispatch.taskToGroup, and a shell wake: the task is recorded,
\* then handed over.
Dispatch(t) ==
  /\ Enqueue(t)
  /\ tasks' = Started(t, Recorded(tasks, t))
  /\ dirty' = TRUE
  /\ UNCHANGED <<file, slipped>>

\* addSessionDigest, between the two, can throw: the task stays recorded.
DispatchFails(t) ==
  /\ fate[t] = "new"
  /\ fate' = [fate EXCEPT ![t] = "unsent"]
  /\ Ledger!RecordTask(t)
  /\ UNCHANGED <<taskQueue, processing, cancelRequested, workers, reports>>

\* A message forwarded from the post-task window: handed over, then recorded,
\* so that the first RUNNING finds no record.
Forward(t) ==
  /\ Enqueue(t)
  /\ tasks' = Recorded(Started(t, tasks), t)
  /\ dirty' = TRUE
  /\ UNCHANGED <<file, slipped>>

\* cancelCurrentRun, before it waits for the sandbox to be destroyed.
Cancel ==
  /\ cancelRequested' = TRUE
  /\ taskQueue' = <<>>
  /\ fate' = [t \in Task |-> IF t \in InExecutor THEN "cancelled" ELSE fate[t]]
  /\ UNCHANGED <<ledger, processing, workers, reports>>

-----------------------------------------------------------------------------
(* The stages of execute()                                                  *)

Moved(w, stage, outcome) ==
  (workers \ {w}) \cup {[w EXCEPT !.stage = stage, !.outcome = outcome]}

\* The prompt is ready and the sandbox has been asked for.
Prepare(w) ==
  /\ w.stage = "preparing"
  /\ workers' = Moved(w, "acquiring", NoOutcome)
  /\ UNCHANGED <<ledger, taskQueue, processing, cancelRequested, fate, reports>>

\* Fault: the status is left to the loop's head.
AlreadyMarked(t) == UNCHANGED ledger

\* The session starts and marks the task once more.
MarkRunning(t) ==
  IF Has(tasks, t) THEN Ledger!UpdateTask(t, "RUNNING")
  ELSE UNCHANGED ledger

BeginSession(w) ==
  /\ w.stage = "acquiring"
  /\ workers' = Moved(w, "session", NoOutcome)
  /\ MarkRunning(w.task)
  /\ UNCHANGED <<taskQueue, processing, cancelRequested, fate, reports>>

\* Fault: the outcome goes to the callback only.
LeaveRecord(t, outcome) == UNCHANGED ledger

\* The terminal update, saved at once.
SettleRecord(t, outcome) ==
  IF Has(tasks, t) THEN Ledger!UpdateTask(t, outcome)
  ELSE UNCHANGED ledger

\* Outside the session an exception is the user's doing or an error.
Throw(w) ==
  LET outcome == IF cancelRequested THEN "SKIPPED" ELSE "ERROR" IN
  /\ w.stage # "finalizing"
  /\ workers' = Moved(w, "finalizing", outcome)
  /\ SettleRecord(w.task, outcome)
  /\ UNCHANGED <<taskQueue, processing, cancelRequested, fate, reports>>

\* runCodeActSession returns: end_turn, or error and max_turns.
EndSession(w, outcome) ==
  /\ w.stage = "session"
  /\ workers' = Moved(w, "finalizing", outcome)
  /\ SettleRecord(w.task, outcome)
  /\ UNCHANGED <<taskQueue, processing, cancelRequested, fate, reports>>

\* The callback is handed on and the loop goes on, in one step.
Report(w) ==
  /\ w.stage = "finalizing"
  /\ reports' = [reports EXCEPT ![w.task] = @ + 1]
  /\ LoopHead(taskQueue, workers \ {w})
  /\ tasks' = AfterHead(taskQueue, tasks)
  /\ dirty' = (dirty \/ tasks' # tasks)
  /\ fate' = FateAfterHead(taskQueue, fate)
  /\ UNCHANGED <<file, slipped>>

-----------------------------------------------------------------------------

SaveState ==
  /\ Ledger!SaveState
  /\ UNCHANGED <<taskQueue, processing, cancelRequested, workers, fate, reports>>

\* The process ends, in whatever state, and another one starts.
Restart ==
  /\ Ledger!Restart
  /\ taskQueue' = <<>> /\ workers' = {}
  /\ processing' = FALSE /\ cancelRequested' = FALSE
  /\ fate' = [t \in Task |-> IF t \in InExecutor THEN "crashed" ELSE fate[t]]
  /\ UNCHANGED reports

Init ==
  /\ Ledger!Init
  /\ taskQueue = <<>> /\ workers = {}
  /\ processing = FALSE /\ cancelRequested = FALSE
  /\ fate = [t \in Task |-> "new"]
  /\ reports = [t \in Task |-> 0]

Run(w) ==
  \/ Prepare(w)
  \/ BeginSession(w)
  \/ Throw(w)
  \/ \E outcome \in {"COMPLETED", "ERROR"} : EndSession(w, outcome)
  \/ Report(w)

Next ==
  \/ \E t \in Task : Dispatch(t) \/ DispatchFails(t) \/ Forward(t)
  \/ Cancel
  \/ \E w \in workers : Run(w)
  \/ SaveState
  \/ Restart

Spec == Init /\ [][Next]_vars

\* Every await of a run ends: LLM calls and sandbox calls have time limits; and
\* so does every session.  The code sees to that only as far as the agent's code
\* does not extend its turns for ever (SessionEnds in CodeActSession).
FairSpec == Spec /\ WF_vars(\E w \in workers : Run(w))

-----------------------------------------------------------------------------
(* Properties                                                               *)

TypeOK ==
  /\ Ledger!TypeOK
  /\ taskQueue \in Seq(Task)
  /\ workers \subseteq Worker
  /\ processing \in BOOLEAN /\ cancelRequested \in BOOLEAN
  /\ fate \in [Task -> Fate]
  /\ reports \in [Task -> Nat]

\* A chat's tasks run one at a time: no two loops are ever in execute() at
\* once, although enqueue() can be called at every await.
SerialExecution == \A v, w \in workers : v = w

\* No lost wake-up: a queued task always has a loop that will come to it, and
\* the flag `processing` is up exactly while there is one.
QueueHasWorker ==
  /\ taskQueue # <<>> => workers # {}
  /\ processing <=> workers # {}

\* A task is in one place, once: a queued task is not running, none is queued
\* twice, and one that was reported is neither queued nor run again.
NoTaskTwice ==
  /\ \A i, j \in DOMAIN taskQueue : taskQueue[i] = taskQueue[j] => i = j
  /\ \A w \in workers : w.task \notin Range(taskQueue)
  /\ \A t \in Task : reports[t] <= (IF t \in InExecutor THEN 0 ELSE 1)

\* The ledger never shows a session that is under way as anything but RUNNING,
\* nor a different outcome than the callback will carry, whichever way the
\* task was handed over (unless its record was dropped).
LedgerFollowsRun ==
  \A w \in workers, i \in DOMAIN tasks : tasks[i].id = w.task =>
    CASE w.stage = "session"    -> tasks[i].status = "RUNNING"
      [] w.stage = "finalizing" -> tasks[i].status = w.outcome
      [] OTHER                  -> tasks[i].status \in Live

\* A record in flight has someone to settle it: its task is queued or running,
\* or the user cancelled, or the flag swallowed it, or its dispatch failed.
LiveRecordIsOwned ==
  \A i \in DOMAIN tasks : tasks[i].status \in Live =>
    \/ tasks[i].id \in InExecutor
    \/ fate[tasks[i].id] \in {"cancelled", "swallowed", "unsent"}

\* The queue is worked off by one loop, which is there when it is needed and takes
\* each task once.
ServedInTurn == SerialExecution /\ QueueHasWorker /\ NoTaskTwice

\* The ledger is well formed, in memory and in the file, tells what the run does,
\* and what it shows in flight somebody will settle.
LedgerIsTrue ==
  TypeOK /\ Ledger!LedgerConsistent /\ LedgerFollowsRun /\ LiveRecordIsOwned

StatusOf(t) ==
  IF Has(tasks, t)
  THEN (CHOOSE r \in Range(tasks) : r.id = t).status ELSE "absent"

\* global-state.ts: a terminal status is irreversible.  No later step of any
\* caller changes it while the record is kept and the process lives.
TerminalIsFinal ==
  [][ \A t \in Task : StatusOf(t) \in Terminal =>
        StatusOf(t)' \in {StatusOf(t), "absent"} \/ Restart ]_vars

\* A task handed over is run and reported, cancelled, swallowed by a pending
\* cancel, or ended by a crash: none waits for ever.
EveryTaskSettles ==
  \A t \in Task :
    (fate[t] = "accepted") ~> (reports[t] > 0 \/ fate[t] # "accepted")

\* The executor is a serial server.
Server == INSTANCE TaskServer WITH
  waiting  <- taskQueue,
  serving  <- IF workers = {} THEN Idle ELSE (CHOOSE w \in workers : TRUE).task,
  answered <- {t \in Task : reports[t] > 0},
  halting  <- cancelRequested

ImplementsServer == Server!Spec

-----------------------------------------------------------------------------
(* What the comments say, and the code does not do: it does not hold, and   *)
(* no run lists it (README, section 5).                                     *)

\* code-act-executor.ts, on cancelRequested: "whether the user requested to
\* cancel the current execution".  Tasks handed over later are not concerned.
CancelConcernsCurrentRun == \A t \in Task : fate[t] # "swallowed"
=============================================================================
