---------------------------- MODULE HarnessManager ----------------------------
(***************************************************************************)
(* The background agent (harness/manager.ts): notifications queue up, a    *)
(* harness process is launched with all of them, and the next one waits    *)
(* until it has ended.  The process is external: it ends with code 0 or    *)
(* another, after it has given a result or not.                            *)
(*                                                                         *)
(* launch() starts the process within one turn of the event loop, so it is *)
(* one step, which also tells how the start came out.  A start can throw,  *)
(* or spawn() reports an error by an event.  launch() listens for it after *)
(* an await: when a timer or an input event has called it, the event comes *)
(* first, and only the launcher's own clean-up hears it                    *)
(* (launchers/claude-code.ts:62-66); called from a promise, launch() hears *)
(* it, which is the same to the queue as a start that throws.              *)
(*                                                                         *)
(* A run is named by the number of its start, which stands for its time.   *)
(***************************************************************************)
EXTENDS Naturals, Sequences, SequencesExt, FiniteSets, FiniteSetsExt

CONSTANTS
  MaxNotifies,     \* bound on the notifications
  MaxFailures,     \* bound on the runs that fail
  MaxRestarts,     \* bound on the restarts of the program
  RetryLimit,      \* failures in a row after which there is no retry: 3
  MaxHistory,      \* runs kept in memory: 50
  MaxJournals      \* runs kept on disk: 10

ASSUME HarnessAssumption ==
  /\ {MaxNotifies, MaxFailures, MaxRestarts, RetryLimit} \subseteq Nat
  /\ MaxJournals \in Nat \ {0} /\ MaxHistory \in Nat
  /\ MaxJournals <= MaxHistory

VARIABLES
  enqueued,              \* notifications so far
  pendingQueue,
  currentRun,            \* the run and its batch, or NoRun (running = FALSE)
  relaunchTimer,         \* the relaunch timer is set
  retryTimers,           \* retry timers to fire; nothing clears them
  consecutiveFailures,
  dreamingSinceOverride, \* a start of the digest is given for the next run
  history,               \* starts of the runs in memory; 0 for a failed run
  persistedLastSuccessAt,
  lastSuccessFile,       \* harness-last-success.json
  shuttingDown,
  elapsed,               \* time since the last start, of a failed run too: less
                         \* than both intervals, only the idle one, or more
  handled, lost,         \* history: notifications of runs that ended well or in
                         \* part; notifications that ended with the program
  starts,                \* runs so far
  lastSuccess,           \* history: start of the last run with exit code 0
  failures, restarts     \* bounded

queueing == <<pendingQueue, relaunchTimer, retryTimers, consecutiveFailures>>
persisted == <<persistedLastSuccessAt, lastSuccessFile, lastSuccess>>
ledger == <<handled, lost>>
vars == <<enqueued, queueing, currentRun, dreamingSinceOverride, history,
          persisted, shuttingDown, elapsed, ledger, starts, failures, restarts>>

Source == {"meta", "dashboard", "scheduler", "proactive-idle"}
Notify == [id : 1..MaxNotifies, source : Source, tried : BOOLEAN]
NoRun == [startedAt |-> 0, pending |-> <<>>, since |-> 0, overridden |-> FALSE,
          child |-> "none"]
running == currentRun # NoRun
Ids(q) == {q[i].id : i \in DOMAIN q}

Init ==
  /\ enqueued = 0
  /\ pendingQueue = <<>> /\ relaunchTimer = FALSE /\ retryTimers = 0
  /\ consecutiveFailures = 0
  /\ currentRun = NoRun
  /\ dreamingSinceOverride = FALSE
  /\ history = <<>>
  /\ persistedLastSuccessAt = 0 /\ lastSuccessFile = 0 /\ lastSuccess = 0
  /\ shuttingDown = FALSE
  /\ elapsed = "long"
  /\ handled = {} /\ lost = {}
  /\ starts = 0 /\ failures = 0 /\ restarts = 0

-----------------------------------------------------------------------------
(* Launching                                                                *)

\* Fault: the newest run is the start of the digest, whether it failed or not.
SinceLastRun == starts
\* The start of the digest: the last successful run of the history, or the
\* persisted one, or everything (0).
SinceLastSuccess ==
  IF \E start \in ToSet(history) : start # 0 THEN Max(ToSet(history))
  ELSE persistedLastSuccessAt

\* Fault: one run too many is kept.
OneMore(h, limit) ==
  SubSeq(h, 1 + Len(h) - Min({limit + 1, Len(h)}), Len(h))
Newest(h, limit) == SubSeq(h, 1 + Len(h) - Min({limit, Len(h)}), Len(h))
Remembered(start) == Newest(Append(history, start), MaxHistory)

Tried(q) == [i \in DOMAIN q |-> [q[i] EXCEPT !.tried = TRUE]]

\* Fault: a run's batch is put back behind what has come since.
PutBehind(batch, q) == q \o batch
PutBack(batch, q) == batch \o q

\* Fault: the last retry is missed.
RetriesLess(n) == n < RetryLimit
Retries(n) == n <= RetryLimit

\* handleSpawnFailure(), with q in the queue and some retry timers.
handleSpawnFailure(q, timers) ==
  LET n == consecutiveFailures + 1 IN
  /\ failures < MaxFailures
  /\ failures' = failures + 1
  /\ pendingQueue' = q
  /\ consecutiveFailures' = n
  /\ retryTimers' = IF ~shuttingDown /\ Retries(n) THEN timers + 1 ELSE timers
  /\ history' = Remembered(0)
  /\ currentRun' = NoRun

\* Fault: the start of the digest that is given stays for later runs.
OverrideKept(override) == override
OverrideAfterLaunch(override) == FALSE

\* launch() with q in the queue, a start of the digest given or not, and some
\* retry timers.
launch(q, override, timers) ==
  LET run == [startedAt |-> starts + 1, pending |-> Tried(q),
              since |-> IF override THEN 0 ELSE SinceLastSuccess,
              overridden |-> override, child |-> "alive"]
  IN
  /\ starts' = starts + 1
  /\ elapsed' = "short"
  /\ dreamingSinceOverride' = OverrideAfterLaunch(override)
  /\ \/ handleSpawnFailure(Tried(q), timers)
     \/ /\ pendingQueue' = <<>>
        /\ retryTimers' = timers
        /\ UNCHANGED <<consecutiveFailures, history>>
        /\ \/ /\ currentRun' = run
              /\ UNCHANGED failures
           \/ /\ failures < MaxFailures
              /\ failures' = failures + 1
              /\ currentRun' = [run EXCEPT !.child = "unheard"]

StayQueued(q, override, timers) ==
  /\ pendingQueue' = q
  /\ dreamingSinceOverride' = override
  /\ retryTimers' = timers
  /\ UNCHANGED <<currentRun, consecutiveFailures, history, starts, elapsed,
                 failures>>

\* Fault: the scheduler has the idle round's interval.
PassesEarly(source) ==
  CASE source \in {"scheduler", "proactive-idle"} -> elapsed # "short"
    [] OTHER -> TRUE
\* The intervals that two sources keep from the last start.
PassesThrottle(source) ==
  CASE source = "scheduler" -> elapsed = "long"
    [] source = "proactive-idle" -> elapsed # "short"
    [] OTHER -> TRUE

\* enqueue() and the triggers that call it; a manual one may give the start of
\* the digest.
Enqueue(source, since) ==
  LET q == Append(pendingQueue, [id |-> enqueued + 1, source |-> source,
                                 tried |-> FALSE])
      override == dreamingSinceOverride \/ since
  IN
  /\ enqueued < MaxNotifies
  /\ ~shuttingDown
  /\ since => source = "dashboard"
  /\ PassesThrottle(source)
  /\ enqueued' = enqueued + 1
  /\ IF running \/ relaunchTimer THEN StayQueued(q, override, retryTimers)
     ELSE launch(q, override, retryTimers)
  /\ UNCHANGED <<relaunchTimer, persisted, shuttingDown, ledger, restarts>>

\* Fault: a timer launches after shutdown() was called.
MayLaunchLate == ~running /\ pendingQueue # <<>>
MayLaunch == ~shuttingDown /\ ~running /\ pendingQueue # <<>>

\* The callback of a timer.
LaunchIfIdle(timers) ==
  IF MayLaunch THEN launch(pendingQueue, dreamingSinceOverride, timers)
  ELSE StayQueued(pendingQueue, dreamingSinceOverride, timers)

RelaunchFires ==
  /\ relaunchTimer
  /\ relaunchTimer' = FALSE
  /\ LaunchIfIdle(retryTimers)
  /\ UNCHANGED <<enqueued, persisted, shuttingDown, ledger, restarts>>

RetryFires ==
  /\ retryTimers > 0
  /\ LaunchIfIdle(retryTimers - 1)
  /\ UNCHANGED <<enqueued, relaunchTimer, persisted, shuttingDown, ledger,
                 restarts>>

-----------------------------------------------------------------------------
(* The end of a run                                                         *)

\* persistLastSuccess(): the file may not get written.
PersistLastSuccess(start) ==
  /\ persistedLastSuccessAt' = Max({persistedLastSuccessAt, start})
  /\ lastSuccessFile' \in {lastSuccessFile, persistedLastSuccessAt'}
  /\ lastSuccess' = start

\* Fault: what has come during a run waits for the next notification.
RelaunchNever == FALSE
Relaunches == ~shuttingDown /\ pendingQueue # <<>>

\* The run ends with code 0, or has given a result before it ended otherwise, or
\* is ended by shutdown().
Exit(ok) ==
  /\ currentRun.child = "alive"
  /\ currentRun' = NoRun
  /\ history' = Remembered(IF ok THEN currentRun.startedAt ELSE 0)
  /\ IF ok THEN PersistLastSuccess(currentRun.startedAt) ELSE UNCHANGED persisted
  /\ consecutiveFailures' = 0
  /\ IF ok \/ ~shuttingDown
     THEN handled' = handled \cup Ids(currentRun.pending) /\ UNCHANGED lost
     ELSE lost' = lost \cup Ids(currentRun.pending) /\ UNCHANGED handled
  /\ relaunchTimer' = (relaunchTimer \/ Relaunches)
  /\ UNCHANGED <<enqueued, pendingQueue, retryTimers, dreamingSinceOverride,
                 shuttingDown, elapsed, starts, failures, restarts>>

ExitFails ==
  /\ currentRun.child = "alive" /\ ~shuttingDown
  /\ handleSpawnFailure(PutBack(currentRun.pending, pendingQueue), retryTimers)
  /\ UNCHANGED <<enqueued, relaunchTimer, dreamingSinceOverride, persisted,
                 shuttingDown, elapsed, ledger, starts, restarts>>

\* elapsed counts from the start of the last run of the history, which is on
\* disk, too.
TimePasses ==
  /\ elapsed' = CASE elapsed = "short" -> "idle" [] OTHER -> "long"
  /\ elapsed # "long"
  /\ UNCHANGED <<enqueued, queueing, currentRun, dreamingSinceOverride, history,
                 persisted, shuttingDown, ledger, starts, failures, restarts>>

-----------------------------------------------------------------------------
(* The end of the program                                                   *)

shutdown ==
  /\ ~shuttingDown
  /\ shuttingDown' = TRUE
  /\ relaunchTimer' = FALSE
  /\ UNCHANGED <<enqueued, pendingQueue, retryTimers, consecutiveFailures,
                 currentRun, dreamingSinceOverride, history, persisted, elapsed,
                 ledger, starts, failures, restarts>>

\* What the journal of the run under way says of it: after a result with code 0
\* it counts as a successful run when it is read again.
Journalled(told) ==
  IF told /\ currentRun.child = "alive" THEN currentRun.startedAt ELSE 0

\* The harness has not ended ten seconds after the signal.  The program ends, so
\* that of the history only the journals matter.
ShutdownKills ==
  /\ shuttingDown /\ running
  /\ \E told \in BOOLEAN :
       /\ history' = Remembered(Journalled(told))
       /\ lastSuccess' = Max({lastSuccess, Journalled(told)})
  /\ currentRun' = NoRun
  /\ lost' = lost \cup Ids(currentRun.pending)
  /\ UNCHANGED <<enqueued, queueing, dreamingSinceOverride, lastSuccessFile,
                 persistedLastSuccessAt, shuttingDown, elapsed, handled, starts,
                 failures, restarts>>

\* Fault: the baseline of the digest is not read from the disk.
ReadNothing == 0
ReadLastSuccess == lastSuccessFile

\* The program ends, or crashes, and starts again: the queue is gone, and the
\* history is read from the newest journals.
Restart ==
  /\ restarts < MaxRestarts
  /\ restarts' = restarts + 1
  /\ \E told \in BOOLEAN :
       LET start == Journalled(told)
           runs == IF running THEN Append(history, start) ELSE history
       IN /\ history' = Newest(runs, MaxJournals)
          /\ lastSuccess' = Max({lastSuccess, start})
  /\ persistedLastSuccessAt' = ReadLastSuccess
  /\ pendingQueue' = <<>> /\ currentRun' = NoRun
  /\ relaunchTimer' = FALSE /\ retryTimers' = 0 /\ consecutiveFailures' = 0
  /\ dreamingSinceOverride' = FALSE
  /\ shuttingDown' = FALSE
  /\ lost' = lost \cup Ids(currentRun.pending \o pendingQueue)
  /\ UNCHANGED <<enqueued, lastSuccessFile, elapsed, handled, starts, failures>>

Next ==
  \/ \E source \in Source, since \in BOOLEAN : Enqueue(source, since)
  \/ RelaunchFires \/ RetryFires
  \/ \E ok \in BOOLEAN : Exit(ok)
  \/ ExitFails \/ TimePasses
  \/ shutdown \/ ShutdownKills \/ Restart

\* Timers fire, and a harness ends at some time: its command line gives it one
\* task, and nothing in the manager limits its time.
Fairness ==
  /\ WF_vars(RelaunchFires)
  /\ WF_vars(RetryFires)
  /\ WF_vars(ExitFails \/ \E ok \in BOOLEAN : Exit(ok))

Spec == Init /\ [][Next]_vars /\ Fairness
-----------------------------------------------------------------------------
TypeOK ==
  /\ enqueued \in 0..MaxNotifies
  /\ pendingQueue \in Seq(Notify)
  /\ relaunchTimer \in BOOLEAN
  /\ retryTimers \in 0..MaxFailures
  /\ consecutiveFailures \in 0..MaxFailures
  /\ currentRun \in [startedAt : 0..starts, pending : Seq(Notify),
                     since : 0..starts, overridden : BOOLEAN,
                     child : {"none", "alive", "unheard"}]
  /\ dreamingSinceOverride \in BOOLEAN
  /\ history \in Seq(0..starts) /\ Len(history) <= MaxHistory
  /\ {persistedLastSuccessAt, lastSuccessFile, lastSuccess} \subseteq 0..starts
  /\ shuttingDown \in BOOLEAN
  /\ elapsed \in {"short", "idle", "long"}
  /\ handled \subseteq 1..MaxNotifies /\ lost \subseteq 1..MaxNotifies
  /\ starts \in 0..(MaxNotifies + MaxFailures)
  /\ failures \in 0..MaxFailures /\ restarts \in 0..MaxRestarts

Waiting == currentRun.pending \o pendingQueue

\* Each notification is in one place, whatever fails or retries: it waits in the
\* queue or with the run, or it has been told, or it was lost with the program.
\* Those that wait are in the order in which they came (manager.ts:260, 390).
EachInOnePlace ==
  /\ \A i, j \in DOMAIN Waiting : i < j => Waiting[i].id < Waiting[j].id
  /\ 1..enqueued = Ids(Waiting) \cup handled \cup lost
  /\ Ids(Waiting) \cap (handled \cup lost) = {}
  /\ handled \cap lost = {}

\* A queue that nothing works on has a timer that will, unless the failures in a
\* row are over the limit (manager.ts:360, 403): an enqueue() that finds the
\* relaunch timer, or a run, relies on it.
QueueIsPolled ==
  (pendingQueue # <<>> /\ ~running /\ ~shuttingDown) =>
    relaunchTimer \/ retryTimers > 0 \/ consecutiveFailures > RetryLimit

\* The digest of a run goes back to the start of the last successful run, or
\* further, so that no task is left out of all digests; it goes back to just
\* there if the file could be written, whatever has failed, has been rotated out
\* of the history, or was forgotten by a restart (manager.ts:479-483).
DigestsMeet ==
  (running /\ ~currentRun.overridden) =>
    /\ currentRun.since <= lastSuccess
    /\ (lastSuccessFile = lastSuccess) => (currentRun.since = lastSuccess)

\* The start of the digest that a manual trigger gives is used by the run that
\* the trigger asked for, and by no other (manager.ts:122, 126, 484).
OverrideWaitsWithItsTrigger ==
  dreamingSinceOverride =>
    \E n \in ToSet(pendingQueue) : n.source = "dashboard" /\ ~n.tried

\* A dream of the schedule is never launched for the first time within the
\* interval of an earlier start, nor an idle round within its own: what passes
\* the throttle while a run is under way is still taken by the next launch
\* (manager.ts:22-23, 130-175).
DreamsAreApart ==
  \A n \in ToSet(pendingQueue) :
    ~n.tried =>
      /\ n.source = "scheduler" => elapsed = "long"
      /\ n.source = "proactive-idle" => elapsed # "short"

\* No harness is started once shutdown() has been called, although retry timers
\* are left (manager.ts:257, 380, 407), until the program starts again.
NoStartAfterShutdown == [][shuttingDown => starts' = starts]_vars

\* Told, or lost with the program, or waiting for the next notification after
\* too many failures, or behind a process whose failure to start nobody heard.
Over(id) ==
  \/ id \in handled \cup lost
  \/ consecutiveFailures > RetryLimit
  \/ currentRun.child = "unheard"
  \/ shuttingDown

\* Each notification is told at last, whatever fails up to the limit: a failed
\* batch is retried, and what came during a run is relaunched
\* (manager.ts:364, 406).
NotificationsAreTold ==
  \A id \in 1..MaxNotifies : id \in Ids(Waiting) ~> Over(id)

\* A start that fails is retried (manager.ts:481), so a run whose process has
\* not started does not stay the current one.
FailedStartIsRetried == currentRun.child # "unheard"

\* The notifications are all accounted for, each in one place and in order, with
\* a timer for those that wait; the override waits with its trigger, and what a
\* throttle let pass still satisfies it.
NotificationsAccountedFor ==
  TypeOK /\ EachInOnePlace /\ QueueIsPolled /\ OverrideWaitsWithItsTrigger
         /\ DreamsAreApart
===============================================================================
