----------------------------- MODULE Conversation -----------------------------
(***************************************************************************)
(* Deleting one conversation (core/conversation-manager.ts) while others   *)
(* work on it: messages come in (main.ts), its recording flushes           *)
(* (pipeline/recording-pipeline.ts), tasks are dispatched to it            *)
(* (meta-sandbox/meta-api/dispatch.ts) and run                             *)
(* (subagent/code-act-executor.ts), missed messages are fetched            *)
(* (adapter/backfill.ts), and the program restarts                         *)
(* (subagent/subagent-manager.ts).                                         *)
(*                                                                         *)
(* What a run sends opens the chat's post-task window                      *)
(* (subagent/post-task-window.ts), and the tasks that it dispatches to     *)
(* other chats report to it (main-agent/main-agent-loop.ts): both put what *)
(* they have into the executor that the chat has by then.                  *)
(*                                                                         *)
(* The runtime instance is what SubagentManager holds for the chat.  Those *)
(* that have been removed live on while something of them is under way:    *)
(* any number of them, of which only what they still do is kept.           *)
(*                                                                         *)
(* Of what is stored anywhere only its age is modelled: nothing, what has  *)
(* come since the last deletion, or also what a deletion was to remove.  A *)
(* deletion turns all that it leaves anywhere into old, so that what       *)
(* removed instances work on is always old.                                *)
(***************************************************************************)
EXTENDS Naturals

CONSTANT Delete   \* calls of delete() that may be under way at a time

VARIABLES
  held,         \* the instance that SubagentManager holds, or NoInstance
  removed,      \* what removed instances still do
  log,          \* the rows of message_log, and those of topics: flushes store
                \* both
  session,      \* the session file
  target,       \* a deletion under way: the instance it waits for is held
                \* still, or has been removed by another
  backfill,     \* the chat is listed for it, or will be woken by it
  elsewhere,    \* what the post-task window holds of the chat, and the tasks
                \* that its runs have dispatched to others
  left,         \* history: what the last deletion did not stop, and a backfill
                \* since that lists the chat though no message of it is known
  touched       \* history: a message or a dispatch since the last deletion

stores == <<log, session>>
history == <<left, touched>>
vars == <<held, removed, stores, target, backfill, elsewhere, history>>

None == 0
New == 1
Old == 2
Age == {None, New, Old}
Older(x, y) == IF x > y THEN x ELSE y
Aged(x) == IF x = None THEN None ELSE Old

\* The recording has messages in its buffer, or in a batch that it flushes; knows
\* is the executor's session and its tasks, or None without an executor;
\* dispatches and queued: there are calls of taskToGroup that await, and tasks
\* that wait.
NoInstance == [exists |-> FALSE, buffer |-> FALSE,
               knows |-> None, running |-> FALSE, queued |-> FALSE,
               cancelled |-> FALSE, dispatches |-> FALSE]

\* getOrCreate()
Got == [held EXCEPT !.exists = TRUE]

Init ==
  /\ held = NoInstance
  /\ removed = {}
  /\ log = None /\ session = None
  /\ target = [d \in Delete |-> "none"]
  /\ backfill = "no"
  /\ elsewhere = None
  /\ left = {} /\ touched = FALSE

-----------------------------------------------------------------------------
(* Messages                                                                 *)

Stored(x) == log' = Older(log, x)

\* A message of age x, or a task for another chat of a run that knows x, is kept
\* elsewhere, or not.
Told(x) == elsewhere' \in {elsewhere, Older(elsewhere, x)}

\* A message is stored at once and then taken up by the instance; one of a
\* quiet chat, or too old a one, is not recorded.
Arrives(x) ==
  /\ Stored(x)
  /\ held' \in {Got, [Got EXCEPT !.buffer = TRUE]}

\* The window, if open, gets it too.
Message ==
  /\ Arrives(New)
  /\ Told(New)
  /\ touched' = TRUE
  /\ UNCHANGED <<removed, session, target, backfill, left>>

\* A message that the chat filter blocks is stored, and no more; one that an agent
\* sends opens the window, and makes no instance.
MessageMakesNone ==
  /\ Stored(New)
  /\ Told(New)
  /\ touched' = TRUE
  /\ UNCHANGED <<held, removed, session, target, backfill, left>>

\* run(): the known chats are listed, and by an adapter those with unread messages.
BackfillLists ==
  /\ backfill = "no"
  /\ backfill' = "listed"
  /\ left' = IF log = None THEN left \cup {"unread"} ELSE left
  /\ UNCHANGED <<held, removed, stores, target, elsewhere, touched>>

\* Later, when it is the chat's turn, the watermark is read.  With one, only
\* what is newer is delivered: that is a Message.
BackfillContinues ==
  /\ backfill = "listed" /\ log # None
  /\ backfill' = "no"
  /\ UNCHANGED <<held, removed, stores, target, elsewhere, history>>

\* Without one, all that the platform still has of the last hours is; the chat
\* is woken if the agent is spoken to in it.
BackfillStartsOver ==
  /\ backfill = "listed" /\ log = None
  /\ backfill' \in {"no", "wake"}
  /\ Arrives(Old)
  /\ UNCHANGED <<removed, session, target, elsewhere, history>>

\* flushWakes(), when backfill has been quiet for a while.
WakeFires ==
  /\ backfill = "wake"
  /\ backfill' = "no"
  /\ held' = Got
  /\ UNCHANGED <<removed, stores, target, elsewhere, history>>

-----------------------------------------------------------------------------
(* The recording                                                            *)

\* A flush takes the oldest of the buffer, and succeeds, or puts them back.  All
\* its messages are stored since they have arrived.
Flush ==
  /\ held.buffer
  /\ held' = [held EXCEPT !.buffer = FALSE]
  /\ UNCHANGED <<removed, stores, target, backfill, elsewhere, history>>

\* Something that removed instances do ends, and maybe not all of it.
Ends(what) == removed' \in {removed, removed \ {what}}

\* A removed instance's flush, or its drain timer's, which dispose() leaves
\* set: it succeeds, or fails at one of its writes.
RemovedFlushes ==
  /\ "flush" \in removed
  /\ Ends("flush")
  /\ log' \in {log, Old}
  /\ UNCHANGED <<held, session, target, backfill, elsewhere, history>>

-----------------------------------------------------------------------------
(* Dispatching a task, and running it                                       *)

\* taskToGroup(): the instance and its executor are fixed before the awaits; a
\* new executor reads the session file.
DispatchBegins ==
  /\ held' = [Got EXCEPT !.dispatches = TRUE,
                !.knows = Older(New, IF @ = None THEN session ELSE @)]
  /\ touched' = TRUE
  /\ UNCHANGED <<removed, stores, target, backfill, elsewhere, left>>

\* processNext() with a task: a run, which reads the recent messages, or, with
\* the cancel flag set, nothing.
Started(r) ==
  IF r.cancelled THEN [r EXCEPT !.cancelled = FALSE, !.queued = FALSE]
  ELSE [r EXCEPT !.running = TRUE, !.queued = FALSE, !.knows = Older(@, log)]

\* enqueue(): a task waits for the run under way, or begins.
Enqueued(r) == IF r.running THEN [r EXCEPT !.queued = TRUE] ELSE Started(r)

DispatchEnds ==
  /\ held.dispatches
  /\ \E others, fails \in BOOLEAN :
       LET r == [held EXCEPT !.dispatches = others] IN
       held' = IF fails THEN r ELSE Enqueued(r)
  /\ UNCHANGED <<removed, stores, target, backfill, elsewhere, history>>

\* A run reads more messages, and may save its session on the way.
RunGoesOn ==
  /\ held.running
  /\ held' = [held EXCEPT !.knows = Older(@, log)]
  /\ session' \in {session, held'.knows}
  /\ Told(held'.knows)
  /\ UNCHANGED <<removed, log, target, backfill, history>>

\* It saves its session at the end, even if it has been cancelled, and its callback
\* may open the window; then the next task, or idle.
RunEnds ==
  /\ held.running
  /\ session' = held.knows
  /\ LET r == [held EXCEPT !.running = FALSE] IN
     held' = IF r.queued THEN Started(r) ELSE [r EXCEPT !.cancelled = FALSE]
  /\ Told(held.knows)
  /\ UNCHANGED <<removed, log, target, backfill, history>>

\* The window forwards the messages that it holds, with the last callbacks, or a
\* task of another chat has ended: the executor that the chat has now, if any,
\* gets a task that tells of it.
ElsewhereForwards ==
  /\ elsewhere # None /\ held.knows # None
  /\ held' = Enqueued([held EXCEPT !.knows = Older(@, elsewhere)])
  /\ UNCHANGED <<removed, stores, target, backfill, elsewhere, history>>

\* The window closes, and all tasks have reported.
ElsewhereCloses ==
  /\ elsewhere # None
  /\ elsewhere' = None
  /\ UNCHANGED <<held, removed, stores, target, backfill, history>>

\* A dispatch that got the executor of an instance removed since: the executor
\* takes the task, or fails or drops it.
RemovedDispatchEnds ==
  /\ "dispatch" \in removed
  /\ \E started \in {{}, {"run"}}, over \in {{}, {"dispatch"}} :
       removed' = (removed \ over) \cup started
  /\ UNCHANGED <<held, stores, target, backfill, elsewhere, history>>

\* A removed instance's run saves its session on the way or at its end, and sends.
RemovedRunSaves ==
  /\ "run" \in removed
  /\ Ends("run")
  /\ session' = Old
  /\ Told(Old)
  /\ UNCHANGED <<held, log, target, backfill, history>>

-----------------------------------------------------------------------------
(* Deleting                                                                 *)

Waiting(d) == target[d] # "none"
Steps == {"messages", "session"}

\* What an instance still does once it has been removed, if a flush of it is under
\* way, or a drain timer is set for its buffer, or not.
StillDoes(r, flushes) ==
  (IF flushes THEN {"flush"} ELSE {})
    \cup (IF r.running THEN {"run"} ELSE {})
    \cup (IF r.dispatches THEN {"dispatch"} ELSE {})

\* The deletions whose target has been removed by another.
Overtaken(d) ==
  [e \in Delete |->
     IF e = d THEN "none" ELSE IF target[e] = "held" THEN "removed"
     ELSE target[e]]

\* Fault: the instance is disposed of, but not taken out of the map.
RemainsDisposed(d) == held
\* Fault: only the instance that was asked to stop is removed.
RemainsUnlessTarget(d) == IF target[d] = "removed" THEN held ELSE NoInstance
\* runtime.remove(): whatever instance the chat has by now.
Remains(d) == NoInstance

\* Fault: the messages are not deleted.
KeepsMessages(x, name, failed) ==
  IF name \in failed \cup {"messages"} THEN Aged(x) ELSE None
\* A step of the deletion: a store is emptied, unless the step fails.
Emptied(x, name, failed) == IF name \in failed THEN Aged(x) ELSE None

\* The steps after the wait, all in one turn.  One that fails is noted, and the
\* others go on.
Cascade(d) ==
  \E failed \in SUBSET Steps, flushes \in {FALSE, held.buffer} :
    /\ removed' = removed \cup StillDoes(held, flushes)
    /\ held' = Remains(d)
    /\ log' = Emptied(log, "messages", failed)
    /\ session' = Emptied(session, "session", failed)
    /\ target' = Overtaken(d)
    /\ left' = (IF "flush" \in removed' THEN {"flush"} ELSE {})
         \cup (IF removed' \cap {"run", "dispatch"} # {} THEN {"work"} ELSE {})
         \cup (IF backfill # "no" THEN {"backfill"} ELSE {})
         \cup (IF elsewhere # None THEN {"elsewhere"} ELSE {})
         \cup (IF failed # {} THEN {"step"} ELSE {})
    /\ elsewhere' = Aged(elsewhere)
    /\ touched' = FALSE
    /\ UNCHANGED backfill

\* Without an executor there is nothing to wait for.
DeleteAtOnce(d) ==
  /\ ~Waiting(d)
  /\ held.knows = None
  /\ Cascade(d)

\* cancelCurrentRun(): the flag is set and the queue dropped before the await.
Cancelled(r) == [r EXCEPT !.cancelled = TRUE, !.queued = FALSE]

\* Fault: the instance is removed first, and then waited for.
RemovesFirst(d) ==
  /\ ~Waiting(d)
  /\ held.knows # None
  /\ removed' = removed \cup StillDoes(held, FALSE)
  /\ held' = NoInstance
  /\ target' = [target EXCEPT ![d] = "removed"]
  /\ UNCHANGED <<stores, backfill, elsewhere, history>>

DeleteCalled(d) ==
  /\ ~Waiting(d)
  /\ held.knows # None
  /\ held' = Cancelled(held)
  /\ target' = [target EXCEPT ![d] = "held"]
  /\ UNCHANGED <<removed, stores, backfill, elsewhere, history>>

\* The dashboard cancels what the chat's agent does.
CancelCalled ==
  /\ held.knows # None
  /\ held' = Cancelled(held)
  /\ UNCHANGED <<removed, stores, target, backfill, elsewhere, history>>

\* waitUntilIdle(): the run has ended, or five seconds have passed, so that nothing
\* is known of it; there is no wait when the sandbox cannot be destroyed.
DeleteGoesOn(d) ==
  /\ Waiting(d)
  /\ Cascade(d)

\* restoreAll(): an instance is made of a session file.
Restored ==
  IF session = None THEN NoInstance
  ELSE [NoInstance EXCEPT !.exists = TRUE, !.knows = session]

Restart ==
  /\ held' = Restored
  /\ removed' = {}
  /\ target' = [d \in Delete |-> "none"]
  /\ backfill' = "no"
  /\ elsewhere' = None
  /\ UNCHANGED <<stores, history>>

-----------------------------------------------------------------------------

Next ==
  \/ Message \/ MessageMakesNone
  \/ BackfillLists \/ BackfillContinues \/ BackfillStartsOver \/ WakeFires
  \/ Flush \/ RemovedFlushes
  \/ DispatchBegins \/ DispatchEnds \/ RemovedDispatchEnds
  \/ RunGoesOn \/ RunEnds \/ RemovedRunSaves
  \/ ElsewhereForwards \/ ElsewhereCloses \/ CancelCalled
  \/ \E d \in Delete : DeleteAtOnce(d) \/ DeleteCalled(d) \/ DeleteGoesOn(d)
  \/ Restart

Spec == Init /\ [][Next]_vars

-----------------------------------------------------------------------------
(* Properties                                                               *)

\* Every part is of its type.
TypeOK ==
  /\ held \in [exists : BOOLEAN, buffer : BOOLEAN,
               knows : Age, running : BOOLEAN, queued : BOOLEAN,
               cancelled : BOOLEAN, dispatches : BOOLEAN]
  /\ removed \subseteq {"flush", "run", "dispatch"}
  /\ {log, session, elsewhere} \subseteq Age
  /\ target \in [Delete -> {"none", "held", "removed"}]
  /\ backfill \in {"no", "listed", "wake"}
  /\ left \subseteq {"flush", "work", "backfill", "unread", "elsewhere", "step"}
  /\ touched \in BOOLEAN

\* What a deletion was to remove is in a store again, or still, only if a step
\* of the last deletion failed, or it found a flush, a run, a dispatch, a backfill,
\* a post-task window or a task of another chat that it does not stop, or the chat
\* is fetched as an unread one; and in a store only through those that write to
\* it.  With none of them the deletion is final (the order of the steps in
\* delete(), and why the wait comes first).
OldDataHasASource ==
  /\ log = Old => left \cap {"flush", "backfill", "unread", "step"} # {}
  /\ session = Old => left # {}

\* With no message and no dispatch since, a deleted conversation is not held
\* again, now or after a restart, and has no session file, unless a run, a
\* dispatch or a backfill outlived the deletion, a step of it failed, or the chat is
\* fetched as an unread one.  The window and the tasks of others make no instance.
StaysDeleted ==
  /\ held.exists /\ ~touched =>
       left \cap {"work", "backfill", "unread", "step"} # {}
  /\ session # None /\ ~touched => left \cap {"work", "step"} # {}

\* Two agents work on one chat at the same time only if the last deletion gave
\* up waiting for a run, or a dispatch it does not know of started one.
OneRunPerChat ==
  held.running /\ "run" \in removed => "work" \in left

\* The parts are of their types, and two agents work on the chat only for the
\* reasons OneRunPerChat names.
ConversationConsistent == TypeOK /\ OneRunPerChat

\* What has been deleted is gone, and the chat with it, for all that is not
\* named in left.
DeletionHolds == OldDataHasASource /\ StaysDeleted
=============================================================================
