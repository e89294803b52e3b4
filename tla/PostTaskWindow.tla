---------------------------- MODULE PostTaskWindow ----------------------------
(***************************************************************************)
(* What happens in one chat after the agent has spoken there               *)
(* (subagent/post-task-window.ts), composed with what it touches: the      *)
(* chat's executor and its buffer of pending messages, the callback queue  *)
(* (Q5), the attention accumulator and the main loop's tick.               *)
(*                                                                         *)
(* Sending a message opens a window and blocks the chat.  While it is open *)
(* messages are kept in it; one that addresses the agent is handed to the  *)
(* executor at once, or to the running session through the buffer, and the *)
(* others are judged in batches by an LLM.  The callbacks of tasks that    *)
(* end meanwhile wait in the window, until it is flushed to Q5.            *)
(*                                                                         *)
(* The executor is its abstract specification, TaskServer, with the stages *)
(* of a run added.  Time is abstracted: a timer that is set may fire at    *)
(* any moment, and a window's time limit may pass at any moment.  Windows  *)
(* are configured (windowMs > 0) and a follow-up judge is set.             *)
(***************************************************************************)
EXTENDS Integers, Sequences, FiniteSets

CONSTANTS
  Message,    \* messages that may arrive, each once
  Task,       \* task ids, each used once; it bounds the tasks handed over
  Idle,       \* no task
  NoWindow, NoRun,
  MayCancel   \* the user may cancel from the dashboard

VARIABLES
  window,           \* the chat's entry in PostTaskWindowManager.windows
  blocked,          \* the chat is in the accumulator's blockedChatIds
  mentions,         \* DIRECT_ADDRESS items of the chat in the accumulator
  callbacks,        \* CALLBACK items of the chat in the accumulator
  q5,               \* callbacks in the CallbackQueue
  waiting, serving, answered, halting,   \* the executor
  run,              \* the run of the task being served
  pendingMessages,  \* the executor's buffer
  cancelling,       \* a dashboard cancel waits for the sandbox to be destroyed
  brief,            \* tasks used, with the messages a continuation carries
  arrived, direct,  \* history: messages so far, and those to the agent
  drained,          \* history: messages the session took from the buffer
  heard,            \* history: mentions a session or Meta has been shown
  completed,        \* history: tasks whose callback phase 1 has matched
  attended          \* history: tasks whose callback was handed to Meta

executor == <<waiting, serving, answered, halting>>
attention == <<blocked, mentions, callbacks>>
history == <<arrived, direct, drained, heard, completed, attended>>
vars == <<window, attention, q5, executor, run, pendingMessages, cancelling,
          brief, history>>

Executor == INSTANCE TaskServer

Range(s) == {s[i] : i \in DOMAIN s}

Stage == {"starting", "session", "ending"}
Run == [stage : Stage, sent : BOOLEAN, view : SUBSET Message]

\* A callback as it leaves the window: the first one carries the others.
Callback == [tasks : Seq(Task), messages : SUBSET Message]

\* timer, followUpTimer: set; judging: the batch of the check in flight;
\* expired: maxFlushAtMs has passed.
Window == [callbacks : Seq(Task), messages : SUBSET Message,
           delivered : SUBSET Message, triaged : SUBSET Message,
           judging : SUBSET Message, timer : BOOLEAN,
           followUpTimer : BOOLEAN, expired : BOOLEAN]

ASSUME Markers ==
  /\ Idle \notin Task /\ NoWindow \notin Window /\ NoRun \notin Run
  /\ MayCancel \in BOOLEAN

TasksOf(S) == UNION {Range(c.tasks) : c \in S}
MessagesOf(S) == UNION {c.messages : c \in S}
InWindow == IF window = NoWindow THEN {} ELSE Range(window.callbacks)

-----------------------------------------------------------------------------
(* The executor                                                             *)

Busy == serving # Idle \/ waiting # <<>>

\* An executor is created by the first dispatch and never removed.
HasExecutor == DOMAIN brief # {}

Fresh(t) == t \notin DOMAIN brief

Briefed(t, S) ==
  [u \in DOMAIN brief \cup {t} |-> IF u = t THEN S ELSE brief[u]]

\* Fault: the loop does not look at the cancel.
TakenAnyway(q, br, stored) ==
  IF q = <<>> THEN NoRun
  ELSE [stage |-> "starting", sent |-> FALSE, view |-> stored]

\* The run of the task the loop's head takes from q, given the briefs br and
\* the messages in the database.  A continuation's prompt has its own
\* messages, the prompt of any other task has been refreshed.
TakenFrom(q, br, stored) ==
  IF q = <<>> \/ halting THEN NoRun
  ELSE [stage |-> "starting", sent |-> FALSE,
        view |-> IF br[Head(q)] = {} THEN stored ELSE br[Head(q)]]

\* enqueue(task), whose brief is S.
Enqueue(t, S, stored) ==
  /\ Fresh(t)
  /\ Executor!Submit(t)
  /\ brief' = Briefed(t, S)
  /\ run' = IF serving = Idle
            THEN TakenFrom(Append(waiting, t), Briefed(t, S), stored) ELSE run

\* taskToGroup, or a shell wake, hands over a task.
Dispatch(t) ==
  /\ Enqueue(t, {}, arrived)
  /\ UNCHANGED <<window, attention, q5, pendingMessages, cancelling, history>>

-----------------------------------------------------------------------------
(* The window                                                               *)

Opened(cbs) ==
  [callbacks |-> cbs, messages |-> {}, delivered |-> {}, triaged |-> {},
   judging |-> {}, timer |-> TRUE, followUpTimer |-> FALSE, expired |-> FALSE]

\* accumulator.block(chatId): what is pending for the chat is dropped.
Block == blocked' = TRUE /\ mentions' = {} /\ callbacks' = {}

Untriaged(w) == w.messages \ (w.delivered \cup w.triaged)

\* scheduleFollowUpCheck, which does nothing once the window has expired.
CheckScheduled(w) == [w EXCEPT !.followUpTimer = @ \/ ~w.expired]

\* Fault: what was forwarded is only marked as judged.
OnlyTriaged(w, S) == [w EXCEPT !.triaged = @ \cup S]

Delivered(w, S) ==
  [w EXCEPT !.delivered = @ \cup S, !.triaged = @ \cup S]

\* The messages forwarded with trigger m: all that are not delivered, and m.
Forwarded(w, m) == (w.messages \ w.delivered) \cup {m}

\* Fault: the messages count as delivered although nobody took them.
MarkedAnyway(w, m) == Delivered(w, Forwarded(w, m))

\* forwardWindowMessages: the executor, if there is one, gets a continuation
\* task t with the messages.  With no executor nothing is forwarded.
AfterForward(w, m) ==
  IF HasExecutor THEN Delivered(w, Forwarded(w, m)) ELSE w

Forward(w, m, t, stored) ==
  IF HasExecutor THEN Enqueue(t, Forwarded(w, m), stored)
  ELSE UNCHANGED <<executor, run, brief>>

\* Fault: the timer that fired is not set again.
TimerSpent(w) == [w EXCEPT !.timer = FALSE]

\* scheduleFlush replaces the timer.
FlushScheduled(w) == [w EXCEPT !.timer = TRUE]

\* handleSentMessage: the agent's message appears in the chat, sent by the
\* session of this chat's executor or by one of another chat.
SendMessage(own) ==
  /\ own => serving # Idle /\ run.stage = "session"
  /\ run' = IF own THEN [run EXCEPT !.sent = TRUE] ELSE run
  /\ IF window = NoWindow
     THEN window' = Opened(<<>>) /\ Block
     ELSE window' = FlushScheduled(window) /\ UNCHANGED attention
  /\ UNCHANGED <<q5, executor, pendingMessages, cancelling, brief, history>>

-----------------------------------------------------------------------------
(* A message arrives (the notification hook of main.ts)                     *)

\* recordMessage.
Recorded(m) ==
  IF window = NoWindow THEN NoWindow
  ELSE CheckScheduled([window EXCEPT !.messages = @ \cup {m}])

\* accumulator.ingest(0, DIRECT_ADDRESS).
Ingest(m) ==
  /\ mentions' = IF blocked THEN mentions ELSE mentions \cup {m}
  /\ UNCHANGED <<blocked, callbacks>>

Arrived(m, isDirect) ==
  /\ m \notin arrived
  /\ arrived' = arrived \cup {m}
  /\ direct' = IF isDirect THEN direct \cup {m} ELSE direct
  /\ UNCHANGED <<drained, heard, completed, attended, q5, cancelling>>

\* Not addressed to the agent: recorded only.
ChatMessage(m) ==
  /\ Arrived(m, FALSE)
  /\ window' = Recorded(m)
  /\ UNCHANGED <<attention, executor, run, pendingMessages, brief>>

\* Addressed to the agent while a run is under way: the session is given the
\* message, and Meta too when no window is open.
MentionWhileProcessing(m) ==
  /\ serving # Idle
  /\ Arrived(m, TRUE)
  /\ window' = Recorded(m)
  /\ IF window = NoWindow THEN Ingest(m) ELSE UNCHANGED attention
  /\ pendingMessages' = pendingMessages \cup {m}
  /\ UNCHANGED <<executor, run, brief>>

\* Addressed to the agent, and nothing runs: forwarded by the open window,
\* else it is Meta's.
MentionWhileIdle(m, t) ==
  /\ serving = Idle
  /\ Arrived(m, TRUE)
  /\ IF window = NoWindow
     THEN window' = NoWindow /\ UNCHANGED <<executor, run, brief>>
     ELSE /\ window' = AfterForward(Recorded(m), m)
          /\ Forward(Recorded(m), m, t, arrived')
  /\ IF window = NoWindow \/ ~HasExecutor THEN Ingest(m) ELSE UNCHANGED attention
  /\ UNCHANGED pendingMessages

-----------------------------------------------------------------------------
(* The stages of a run                                                      *)

\* The buffer is cleared and the session starts with the prompt.
BeginSession ==
  /\ serving # Idle /\ run.stage = "starting"
  /\ run' = [run EXCEPT !.stage = "session"]
  /\ pendingMessages' = {}
  /\ heard' = heard \cup (run.view \cap direct)
  /\ UNCHANGED <<window, attention, q5, executor, cancelling, brief, arrived,
                 direct, drained, completed, attended>>

\* markMessagesInjected.
MarkedInjected(w, S) ==
  IF w = NoWindow THEN w
  ELSE [w EXCEPT !.delivered = @ \cup S, !.triaged = @ \cup S]

\* drainPendingMessages, at the start of a turn, in an observation, before the
\* session ends, and when a message interrupts the LLM or a send.
Drain ==
  /\ serving # Idle /\ run.stage = "session" /\ pendingMessages # {}
  /\ pendingMessages' = {}
  /\ window' = MarkedInjected(window, pendingMessages)
  /\ drained' = drained \cup pendingMessages
  /\ heard' = heard \cup pendingMessages
  /\ UNCHANGED <<attention, q5, executor, run, cancelling, brief, arrived,
                 direct, completed, attended>>

\* The session returns, or something before it throws.
EndRun ==
  /\ serving # Idle /\ run.stage # "ending"
  /\ run' = [run EXCEPT !.stage = "ending"]
  /\ UNCHANGED <<window, attention, q5, executor, pendingMessages, cancelling,
                 brief, history>>

\* handleCallback of the run's task, and the loop goes on.
HandleCallback ==
  /\ serving # Idle /\ run.stage = "ending"
  /\ IF window # NoWindow
     THEN /\ window' = [window EXCEPT !.callbacks = Append(@, serving)]
          /\ UNCHANGED <<attention, q5>>
     ELSE IF run.sent
     THEN /\ window' = Opened(<<serving>>)
          /\ Block
          /\ UNCHANGED q5
     ELSE /\ q5' = q5 \cup {[tasks |-> <<serving>>, messages |-> {}]}
          /\ blocked' = FALSE
          /\ UNCHANGED <<window, mentions, callbacks>>
  /\ Executor!Answer
  /\ run' = TakenFrom(waiting, brief, arrived)
  /\ UNCHANGED <<pendingMessages, cancelling, brief, history>>

\* The dashboard's cancel: cancelCurrentRun, if there is an executor, up to its
\* await ...
CancelRun ==
  /\ MayCancel
  /\ IF HasExecutor THEN Executor!Cancel ELSE UNCHANGED executor
  /\ pendingMessages' = {}
  /\ cancelling' = TRUE
  /\ UNCHANGED <<window, attention, q5, run, brief, history>>

\* ... and accumulator.unblock when the sandbox has been destroyed.
CancelReturns ==
  /\ cancelling
  /\ cancelling' = FALSE
  /\ blocked' = FALSE
  /\ UNCHANGED <<window, mentions, callbacks, q5, executor, run,
                 pendingMessages, brief, history>>

-----------------------------------------------------------------------------
(* The timers of the window                                                 *)

Rescheduled(w) == IF Untriaged(w) = {} THEN w ELSE CheckScheduled(w)

PendingDirect(w) == (w.messages \cap direct) \ w.delivered

\* Fault: a check that comes too early is given up.
CheckGivenUp(w) == w

\* scheduleFollowUpCheck(window, IDLE_RECHECK_MS).
CheckPostponed(w) == CheckScheduled(w)

\* Fault: the classifier judges mentions as well.
NoneFirst(w) == {}

\* The mentions checkFollowUpBatch forwards before it asks the classifier.
ForwardsFirst(w) == PendingDirect(w)

\* checkFollowUpBatch, up to its await.
CheckFollowUpBatch(t) ==
  /\ window # NoWindow /\ window.followUpTimer
  /\ LET w == [window EXCEPT !.followUpTimer = FALSE] IN
     IF w.judging # {} \/ Busy
     THEN window' = CheckPostponed(w) /\ UNCHANGED <<executor, run, brief>>
     ELSE IF ForwardsFirst(w) # {}
     THEN \E m \in PendingDirect(w) :
            /\ window' = Rescheduled(AfterForward(w, m))
            /\ Forward(w, m, t, arrived)
     ELSE /\ window' = [w EXCEPT !.judging = Untriaged(w)]
          /\ UNCHANGED <<executor, run, brief>>
  /\ UNCHANGED <<attention, q5, pendingMessages, cancelling, history>>

Judged ==
  [window EXCEPT !.triaged = @ \cup window.judging, !.judging = {}]

\* The judge finds no follow-up, or fails.
NoFollowUp ==
  /\ window # NoWindow /\ window.judging # {}
  /\ window' = Rescheduled(Judged)
  /\ UNCHANGED <<attention, q5, executor, run, pendingMessages, cancelling,
                 brief, history>>

\* The judge names a message of its batch.  What it returns for a window that
\* is closed is ignored.
FollowUp(m, t) ==
  /\ window # NoWindow /\ m \in window.judging
  /\ window' = Rescheduled(AfterForward(Judged, m))
  /\ Forward(Judged, m, t, arrived)
  /\ UNCHANGED <<attention, q5, pendingMessages, cancelling, history>>

\* maxFlushAtMs passes.
Expire ==
  /\ window # NoWindow /\ ~window.expired
  /\ window' = [window EXCEPT !.expired = TRUE]
  /\ UNCHANGED <<attention, q5, executor, run, pendingMessages, cancelling,
                 brief, history>>

\* Fault: the chat stays blocked.
StaysBlocked == blocked

\* accumulator.unblock.
Unblocked == FALSE

\* flushIfIdle: until the window expires it waits for the executor to rest and
\* for a callback.  A window without callbacks leaves nothing behind.
FlushIfIdle ==
  /\ window # NoWindow /\ window.timer
  /\ IF ~window.expired /\ (Busy \/ window.callbacks = <<>>)
     THEN window' = FlushScheduled(window) /\ UNCHANGED <<blocked, q5>>
     ELSE /\ window' = NoWindow
          /\ blocked' = Unblocked
          /\ q5' = IF window.callbacks = <<>> THEN q5
                   ELSE q5 \cup {[tasks |-> window.callbacks,
                                  messages |-> window.messages]}
  /\ UNCHANGED <<mentions, callbacks, executor, run, pendingMessages,
                 cancelling, brief, history>>

-----------------------------------------------------------------------------
(* The main loop                                                            *)

\* Fault: the queue is read, not drained.
Peeked == q5

\* callbackQueue.drain().
Emptied == {}

\* Phase 1 of a tick takes the callbacks from Q5: each unblocks the chat,
\* matches its own task id, and becomes an item in the accumulator.  Phase 3
\* hands at most one item of a chat to Meta: a mention when the executor
\* rests, a callback when no mention comes before it.
Tick ==
  LET items == callbacks \cup q5 IN
  /\ q5' = Emptied
  /\ blocked' = (blocked /\ q5 = {})
  /\ completed' = completed \cup {Head(c.tasks) : c \in q5}
  /\ \/ /\ callbacks' = items
        /\ UNCHANGED <<mentions, heard, attended>>
     \/ \E m \in mentions :
          /\ ~Busy
          /\ mentions' = mentions \ {m} /\ callbacks' = items
          /\ heard' = heard \cup {m}
          /\ UNCHANGED attended
     \/ \E c \in items :
          /\ Busy \/ mentions = {}
          /\ callbacks' = items \ {c}
          /\ attended' = attended \cup Range(c.tasks)
          /\ heard' = heard \cup (c.messages \cap direct)
          /\ UNCHANGED mentions
  /\ UNCHANGED <<window, executor, run, pendingMessages, cancelling, brief,
                 arrived, direct, drained>>

-----------------------------------------------------------------------------

Init ==
  /\ window = NoWindow
  /\ blocked = FALSE /\ mentions = {} /\ callbacks = {} /\ q5 = {}
  /\ Executor!Init
  /\ run = NoRun /\ pendingMessages = {} /\ cancelling = FALSE
  /\ brief = [t \in {} |-> {}]
  /\ arrived = {} /\ direct = {} /\ drained = {} /\ heard = {}
  /\ completed = {} /\ attended = {}

Arrival ==
  \E m \in Message :
    ChatMessage(m) \/ MentionWhileProcessing(m)
    \/ \E t \in Task : MentionWhileIdle(m, t)

RunStep ==
  BeginSession \/ Drain \/ EndRun \/ HandleCallback

Cancel == CancelRun \/ CancelReturns

WindowTimers ==
  \/ \E t \in Task : CheckFollowUpBatch(t)
  \/ NoFollowUp
  \/ \E m \in Message, t \in Task : FollowUp(m, t)
  \/ Expire
  \/ FlushIfIdle

Next ==
  \/ \E t \in Task : Dispatch(t)
  \/ \E own \in BOOLEAN : SendMessage(own)
  \/ Arrival
  \/ RunStep
  \/ Cancel
  \/ WindowTimers
  \/ Tick

Spec == Init /\ [][Next]_vars

\* Timers fire, time passes, and the loop ticks.  Nothing is assumed of the
\* runs: a session may go on for ever.
FairSpec ==
  Spec /\ WF_vars(FlushIfIdle) /\ WF_vars(Expire) /\ WF_vars(Tick)

-----------------------------------------------------------------------------
(* Properties                                                               *)

TypeOK ==
  /\ window \in Window \cup {NoWindow}
  /\ blocked \in BOOLEAN /\ mentions \subseteq Message
  /\ callbacks \subseteq Callback /\ q5 \subseteq Callback
  /\ Executor!TypeOK
  /\ run \in Run \cup {NoRun} /\ (run = NoRun <=> serving = Idle)
  /\ pendingMessages \subseteq Message /\ cancelling \in BOOLEAN
  /\ DOMAIN brief \subseteq Task
  /\ \A t \in DOMAIN brief : brief[t] \subseteq Message
  /\ arrived \subseteq Message
  /\ direct \subseteq arrived /\ drained \subseteq arrived /\ heard \subseteq direct
  /\ completed \subseteq Task /\ attended \subseteq Task

\* A chat is only blocked while its window is open: block() comes with a
\* window whose flush, whichever way it ends, lifts it.  Otherwise the chat
\* would be deaf for the rest of the process, since ingest() ignores it.
BlockedOnlyInWindow == blocked => window # NoWindow

\* A message the window holds that was neither forwarded nor judged has a
\* check coming, however checks, judgements and a busy executor interleave,
\* until the window expires and is flushed.
UntriagedIsScheduled ==
  window # NoWindow /\ Untriaged(window) # {} =>
    window.followUpTimer \/ window.judging # {} \/ window.expired

\* The classifier never has the last word on a message that addresses the
\* agent: one it has judged away was delivered.
MentionsAreNotJudged ==
  window # NoWindow =>
    window.messages \cap direct \cap window.triaged \subseteq window.delivered

\* What the window counts as delivered was delivered: a continuation that the
\* executor accepted carries it, or a session has taken it from the buffer.
DeliveredIsCarried ==
  window # NoWindow =>
    window.delivered \subseteq drained \cup UNION {brief[t] : t \in DOMAIN brief}

\* A message that addresses the agent is in one continuation at most, whether
\* it was forwarded on arrival, by a check, or along with other messages.
MentionForwardedOnce ==
  \A s, t \in DOMAIN brief : s # t => brief[s] \cap brief[t] \cap direct = {}

\* The callback of a task is in one place at most on its way from the run to
\* Meta, and it is there once.
CallbackInOnePlace ==
  /\ window # NoWindow =>
       \A i, j \in DOMAIN window.callbacks :
         window.callbacks[i] = window.callbacks[j] => i = j
  /\ InWindow \cap (TasksOf(q5) \cup TasksOf(callbacks) \cup attended) = {}
  /\ TasksOf(q5) \cap (TasksOf(callbacks) \cup attended) = {}
  /\ TasksOf(callbacks) \cap attended = {}

\* The parts are of their types, each callback is in one place, and a mention is
\* forwarded once.
WindowConsistent == TypeOK /\ CallbackInOnePlace /\ MentionForwardedOnce

\* A window closes, although every message the agent sends extends it, and
\* although a run may never end.
WindowCloses == (window # NoWindow) ~> (window = NoWindow)

\* The callback of a task that has ended comes to the main loop.
CallbackIsCollected ==
  \A t \in Task :
    (t \in answered) ~> (t \notin InWindow \cup TasksOf(q5))

-----------------------------------------------------------------------------
(* What the docs, comments and tests say, and the code does not do: none of *)
(* these holds, and no run lists them (README, section 5).                  *)

\* tests/post-task-window.test.ts: messages already forwarded are not sent
\* again, nor those the session got in mid-turn.
ToldOnce ==
  \A s \in DOMAIN brief :
    /\ brief[s] \cap drained = {}
    /\ \A t \in DOMAIN brief : s # t => brief[s] \cap brief[t] = {}

\* architecture_v4.md, Callback Flow: the callback goes through Q5 to Meta's
\* next session.
MetaSeesEveryCallback ==
  answered \subseteq
    InWindow \cup TasksOf(q5) \cup TasksOf(callbacks) \cup attended

\* Meta_CodeAct.md: callback_received listens to Q5 for its task.
EveryCallbackIsMatched ==
  answered \subseteq InWindow \cup TasksOf(q5) \cup completed

\* main.ts: a message that addresses the agent is injected as layer 0 at once;
\* in a window the subagent of the chat gets it.  It stays where one of them
\* will find it, until one has.
InExecutor ==
  {t \in DOMAIN brief : t = serving \/ t \in Range(waiting)}

MentionIsKept ==
  direct \subseteq
    heard \cup mentions \cup pendingMessages
    \cup (IF window = NoWindow THEN {} ELSE window.messages)
    \cup (IF run = NoRun THEN {} ELSE run.view)
    \cup UNION {brief[t] : t \in InExecutor}
    \cup MessagesOf(q5 \cup callbacks)
=============================================================================
