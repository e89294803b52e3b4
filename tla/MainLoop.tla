------------------------------- MODULE MainLoop -------------------------------
(***************************************************************************)
(* The tick of the main loop (main-agent/main-agent-loop.ts), which joins  *)
(* the chats' executors to Meta: it drains the callback queue Q5, decides  *)
(* who is told of each result, releases what waits in the accumulator,     *)
(* hands back what belongs to a busy chat, and awaits one Meta session for *)
(* the rest.  The session may throw, and a quota error opens a circuit     *)
(* breaker.                                                                *)
(*                                                                         *)
(* Around it stand, reduced to what the tick sees of them, the executors   *)
(* (CodeActExecutor), the post-task windows, which block a chat and fold   *)
(* its callbacks into one (PostTaskWindow), and the accumulator, whose     *)
(* clock is left open (AttentionAccumulator).                              *)
(***************************************************************************)
EXTENDS Integers, Sequences, FiniteSets, Functions

CONSTANTS
  Chat,       \* chats
  MaxDispatches, \* bound: tasks dispatched, numbered in that order
  Message,    \* messages for the agent, each arriving once
  MaxTasks,   \* cap of the dispatched-task ledger
  TopNs,      \* values of topN that are configured
  Meta, Harness, Nobody

Task == 1..MaxDispatches

ASSUME LoopAssumption ==
  /\ MaxDispatches \in Nat
  /\ MaxTasks \in Nat \ {0} /\ TopNs \subseteq Nat \ {0}
  /\ Chat \cap {Meta, Harness, Nobody} = {}
  /\ Meta # Harness /\ Meta # Nobody /\ Harness # Nobody

VARIABLES
  queue,      \* per chat: the job its executor runs, and Q4 behind it
  author,     \* who dispatched a task, Nobody while it is new
  records,    \* dispatchedSubagentTasks, oldest first
  open,       \* chats with an open post-task window
  held,       \* per chat: callbacks the window holds back
  q5,         \* CallbackQueue
  topN,       \* configured: items released by one flush (maxWindowItems)
  blocked,    \* blockedChatIds
  pending,    \* the accumulator's layers 0 and 1, oldest first
  signals,    \* chats with a topic signal in the pool
  batch,      \* the entries of the Meta session the tick awaits
  timer,      \* the next tick is scheduled
  breaker,    \* the circuit breaker is open
  told,       \* history: <<job, party>>, who was told of a result
  settled,    \* history: jobs whose callback was disposed of
  folded,     \* history: jobs whose callback was folded into another's
  fate        \* history: what became of each message

chats   == <<queue, author, records, open, held>>
waiting == <<topN, blocked, pending, signals>>
loop    == <<batch, timer, breaker>>
outcome == <<told, settled, folded, fate>>
loopVars    == <<chats, q5, waiting, loop, outcome>>

\* What an executor runs: a dispatched task, or the notification of its author
\* that it has returned (a task id with the prefix "dispatch-notify:").
Job     == [task : Task, note : BOOLEAN]
Of(t)   == [task |-> t, note |-> FALSE]
Note(t) == [task |-> t, note |-> TRUE]

\* A callback has the id of the first of its jobs: the window folds the others
\* into it.
Callback == [chat : Chat, jobs : Seq(Job)]

Item ==
       [source : {"WAKE_CONDITION"}, chat : {Meta}, about : Message]
  \cup [source : {"DIRECT_ADDRESS"}, chat : Chat, about : Message]
  \cup [source : {"CALLBACK"}, chat : Chat, about : Seq(Job)]
  \cup [source : {"PROACTIVE_IDLE"}, chat : {Meta}, about : {Nobody}]
Signal == [source : {"TOPIC_SIGNAL"}, chat : Chat, about : {Nobody}]

SignalOf(c) == [source |-> "TOPIC_SIGNAL", chat |-> c, about |-> Nobody]
Patrol == [source |-> "PROACTIVE_IDLE", chat |-> Meta, about |-> Nobody]

JobsOf(items)     == UNION {Range(i.about) : i \in {j \in items : j.source = "CALLBACK"}}
IsMessage(item)   == item.source \in {"WAKE_CONDITION", "DIRECT_ADDRESS"}
MessagesOf(items) == {i.about : i \in {j \in items : IsMessage(j)}}

\* What s has of S, in its order.
Only(s, S) ==
  LET rest[n \in 0..Len(s)] ==
        IF n = 0 THEN <<>>
        ELSE IF s[n] \in S THEN Append(rest[n - 1], s[n]) ELSE rest[n - 1]
  IN rest[Len(s)]

Busy(c) == c \in Chat /\ queue[c] # <<>>

-----------------------------------------------------------------------------
(* What arrives                                                             *)

\* ingest(): a blocked chat is ignored.
MessageArrives(m, source, chat) ==
  /\ fate[m] = "new"
  /\ IF chat \in blocked
     THEN fate' = [fate EXCEPT ![m] = "lost"] /\ UNCHANGED pending
     ELSE /\ fate' = [fate EXCEPT ![m] = "waiting"]
          /\ pending' = Append(pending, [source |-> source, chat |-> chat, about |-> m])
  /\ UNCHANGED <<chats, q5, topN, blocked, signals, loop, told, settled, folded>>

\* The notification hook puts a direct message into layer 0.
Address(m, c) == MessageArrives(m, "DIRECT_ADDRESS", c)

\* runtime.elevate, called by a session.
Elevate(m) ==
  /\ \E c \in Chat : Busy(c)
  /\ MessageArrives(m, "WAKE_CONDITION", Meta)

\* The recording pipeline reports a topic, which an open window suppresses; one
\* that is in the pool is merged.
TopicSignal(c) ==
  /\ c \notin open \cup blocked
  /\ signals' = signals \cup {c}
  /\ UNCHANGED <<chats, q5, topN, blocked, pending, loop, outcome>>

\* recordDispatchedSubagentTask: the oldest record goes when the cap is passed.
RecordsWith(t) ==
  LET rs == Append(records, t) IN
  IF Len(rs) > MaxTasks THEN Tail(rs) ELSE rs

\* dispatch.taskToGroup: by Meta in its session, by the harness, or by the
\* session of another chat.
Dispatch(t, c, from) ==
  /\ author[t] = Nobody /\ \A s \in 1..(t - 1) : author[s] # Nobody
  /\ \/ from = Meta /\ batch # <<>>
     \/ from = Harness
     \/ from \in Chat \ {c} /\ Busy(from)
  /\ author' = [author EXCEPT ![t] = from]
  /\ records' = RecordsWith(t)
  /\ queue' = [queue EXCEPT ![c] = Append(@, Of(t))]
  /\ UNCHANGED <<open, held, q5, waiting, loop, outcome>>

-----------------------------------------------------------------------------
(* The executors and the windows                                            *)

Outside(items, c) == Only(items, {i \in Range(items) : i.chat # c})

\* The first message a run sends opens the window, which blocks the chat and
\* drops what waits for it.
Speak(c) ==
  LET gone == Range(pending) \ Range(Outside(pending, c)) IN
  /\ Busy(c) /\ c \notin open
  /\ open' = open \cup {c}
  /\ blocked' = blocked \cup {c}
  /\ pending' = Outside(pending, c)
  /\ signals' = signals \ {c}
  /\ settled' = settled \cup JobsOf(gone)
  /\ fate' = [m \in Message |-> IF m \in MessagesOf(gone) THEN "lost" ELSE fate[m]]
  /\ UNCHANGED <<queue, author, records, held, q5, topN, loop, told, folded>>

\* The run ends and its callback is handed on; an open window keeps it.
EndRun(c) ==
  /\ Busy(c)
  /\ queue' = [queue EXCEPT ![c] = Tail(@)]
  /\ IF c \in open
     THEN held' = [held EXCEPT ![c] = Append(@, Head(queue[c]))] /\ UNCHANGED q5
     ELSE q5' = Append(q5, [chat |-> c, jobs |-> <<Head(queue[c])>>])
          /\ UNCHANGED held
  /\ UNCHANGED <<author, records, open, waiting, loop, outcome>>

\* The window unblocks the chat and passes on its callbacks as one.
CloseWindow(c) ==
  /\ c \in open
  /\ open' = open \ {c}
  /\ blocked' = blocked \ {c}
  /\ held' = [held EXCEPT ![c] = <<>>]
  /\ q5' = IF held[c] = <<>> THEN q5
           ELSE Append(q5, [chat |-> c, jobs |-> held[c]])
  /\ folded' = folded \cup {held[c][i] : i \in DOMAIN held[c] \ {1}}
  /\ UNCHANGED <<queue, author, records, topN, pending, signals, loop, told, settled, fate>>

-----------------------------------------------------------------------------
(* Phase 1: the callbacks                                                   *)

HeadJob(cb) == Head(cb.jobs)

\* Fault: the callback of a notification is treated as that of its task.
RecordOfAny(cb) == HeadJob(cb).task \in Range(records)

\* getDispatchedSubagentTask, which is not asked about a notification.
HasRecord(cb) == ~HeadJob(cb).note /\ HeadJob(cb).task \in Range(records)

AuthorOf(cb) == author[HeadJob(cb).task]

FromSubagent(cb) == HasRecord(cb) /\ AuthorOf(cb) \in Chat
FromHarness(cb)  == HasRecord(cb) /\ AuthorOf(cb) = Harness

\* Fault: all results come to Meta.
AnyResult(cb) == ~HeadJob(cb).note

\* What becomes an item of layer 1.
GoesToMeta(cb) == ~HeadJob(cb).note /\ ~FromSubagent(cb)

\* enqueueDispatchSourceNotification: the executor of the author's chat gets
\* one more job for each.
NotesFor(c) ==
  LET mine == Only(q5, {cb \in Range(q5) : FromSubagent(cb) /\ AuthorOf(cb) = c}) IN
  [i \in DOMAIN mine |-> Note(HeadJob(mine[i]).task)]

Notified == [c \in Chat |-> queue[c] \o NotesFor(c)]

ItemOf(cb) == [source |-> "CALLBACK", chat |-> cb.chat, about |-> cb.jobs]

\* The accumulator's layers when Q5 is drained: each chat is unblocked first.
Collected ==
  LET ours == Only(q5, {cb \in Range(q5) : GoesToMeta(cb)}) IN
  pending \o [i \in DOMAIN ours |-> ItemOf(ours[i])]

\* Who is told in phase 1, and whose callbacks end there.
ToldAtOnce ==
  {<<HeadJob(cb), AuthorOf(cb)>> : cb \in {d \in Range(q5) :
                                            FromSubagent(d) \/ FromHarness(d)}}
SettledAtOnce ==
  UNION {Range(cb.jobs) : cb \in {d \in Range(q5) : ~GoesToMeta(d)}}

-----------------------------------------------------------------------------
(* Phase 3: the attention                                                   *)

\* The order of a flush: elevations bear pressure, messages for the agent are in
\* layer 0 with none, the rest is in layer 1.
Rank(item) ==
  CASE item.source = "WAKE_CONDITION" -> 1
    [] item.source = "DIRECT_ADDRESS" -> 2
    [] OTHER -> 3

OfRank(items, r) == Only(items, {i \in Range(items) : Rank(i) = r})

First(items, n) == SubSeq(items, 1, IF Len(items) < n THEN Len(items) ELSE n)

ReleasedPending(items) ==
  First(OfRank(items, 1) \o OfRank(items, 2) \o OfRank(items, 3), topN)

\* What is not for now: a subagent sees its new messages while it works.  The
\* executors that phase 1 has given a notification are at work already.
WaitsForExecutor(item) ==
  item.source # "CALLBACK" /\ item.chat \in Chat /\ Notified[item.chat] # <<>>

\* What becomes an entry of the session: the first that need not wait, of each
\* chat.
Entries(r) ==
  {r[k] : k \in {n \in DOMAIN r :
     /\ ~WaitsForExecutor(r[n])
     /\ \A j \in 1..(n - 1) : r[j].chat = r[n].chat => WaitsForExecutor(r[j])}}

\* Fault: what belongs to a busy chat is skipped, not handed back.
OnlySecondsReturn(r) == {i \in Range(r) \ Entries(r) : ~WaitsForExecutor(i)}

\* requeue(): a signal is dropped, and the second signal of a chat is merged
\* into its entry.
HandedBack(r) == {i \in Range(r) \ Entries(r) : i.source # "TOPIC_SIGNAL"}

NoFlush(items) ==
  /\ pending' = items /\ batch' = <<>> /\ timer' = TRUE
  /\ UNCHANGED signals

\* The batch: the pending items, then the signals that fill the spare slots.
Flush(items, filling) ==
  \E r \in {ReleasedPending(items) \o filling} :
    LET session == Only(r, Entries(r)) IN
    /\ pending' = Only(items, (Range(items) \ Range(r)) \cup HandedBack(r))
    /\ signals' = signals \ {i.chat : i \in Range(filling)}
    /\ batch' = session
    /\ timer' = (session = <<>>)

\* The signals that may fill n slots: their pressures are left open.
Fillings(n) ==
  LET k == IF Cardinality(signals) < n THEN Cardinality(signals) ELSE n IN
  {s \in [1..k -> {SignalOf(c) : c \in signals}] : Cardinality(Range(s)) = k}

Spare(items) == topN - Len(ReleasedPending(items))

-----------------------------------------------------------------------------
(* The tick                                                                 *)

\* Phase 1, common to all ticks.
Drain ==
  /\ q5' = <<>>
  /\ queue' = Notified
  /\ blocked' = blocked \ {cb.chat : cb \in Range(q5)}
  /\ told' = told \cup ToldAtOnce
  /\ settled' = settled \cup SettledAtOnce
  /\ UNCHANGED <<author, records, open, held, topN, breaker, folded, fate>>

\* A tick without a flush: the breaker is open, the window still runs, or
\* nothing waits.  After a delay that is left open, a tick with nothing at all
\* starts a patrol: the harness takes it, or Meta gets it as an item.
TickOnly ==
  /\ timer
  /\ Drain
  /\ breaker \/ Collected # <<>> \/ signals = {}
  /\ \/ NoFlush(Collected)
     \/ q5 = <<>> /\ pending = <<>> /\ signals = {} /\ NoFlush(<<Patrol>>)

\* A tick that flushes and, if an entry is left, awaits a Meta session.
TickFlush ==
  /\ timer /\ ~breaker
  /\ Drain
  /\ Collected # <<>> \/ signals # {}
  /\ \E items \in {Collected} :
       \E filling \in Fillings(Spare(items)) : Flush(items, filling)

\* The session returns: it has had all its entries.
SessionReturns ==
  /\ batch # <<>>
  /\ batch' = <<>> /\ timer' = TRUE /\ breaker' = FALSE
  /\ told' = told \cup (JobsOf(Range(batch)) \X {Meta})
  /\ settled' = settled \cup JobsOf(Range(batch))
  /\ fate' = [m \in Message |->
               IF m \in MessagesOf(Range(batch)) THEN "attended" ELSE fate[m]]
  /\ UNCHANGED <<chats, q5, waiting, folded>>

\* Fault: a tick that throws does not schedule the next one.
LoopStops == UNCHANGED timer

\* scheduleNext, after whatever the tick did.
LoopGoesOn == timer' = TRUE

\* The session throws: its entries are gone, and a quota error trips the
\* breaker.
SessionThrows(quota) ==
  /\ batch # <<>>
  /\ batch' = <<>> /\ LoopGoesOn /\ breaker' = quota
  /\ settled' = settled \cup JobsOf(Range(batch))
  /\ fate' = [m \in Message |->
               IF m \in MessagesOf(Range(batch)) THEN "lost" ELSE fate[m]]
  /\ UNCHANGED <<chats, q5, waiting, told, folded>>

\* circuitBreakerOpenUntil passes.
BreakerCloses ==
  /\ breaker /\ breaker' = FALSE
  /\ UNCHANGED <<chats, q5, waiting, batch, timer, outcome>>

-----------------------------------------------------------------------------

LoopInit ==
  /\ queue = [c \in Chat |-> <<>>] /\ held = [c \in Chat |-> <<>>]
  /\ author = [t \in Task |-> Nobody] /\ records = <<>>
  /\ open = {} /\ topN \in TopNs /\ blocked = {} /\ signals = {}
  /\ q5 = <<>> /\ pending = <<>> /\ batch = <<>>
  /\ timer = TRUE /\ breaker = FALSE
  /\ told = {} /\ settled = {} /\ folded = {}
  /\ fate = [m \in Message |-> "new"]

Arrival ==
  \/ \E m \in Message : Elevate(m) \/ \E c \in Chat : Address(m, c)
  \/ \E c \in Chat : TopicSignal(c)
  \/ \E t \in Task, c \in Chat, from \in Chat \cup {Meta, Harness} : Dispatch(t, c, from)

RunEnds == \E c \in Chat : EndRun(c)

WindowCloses == \E c \in Chat : CloseWindow(c)

Tick == TickOnly \/ TickFlush

SessionEnds == SessionReturns \/ \E quota \in BOOLEAN : SessionThrows(quota)

LoopNext ==
  \/ Arrival
  \/ \E c \in Chat : Speak(c)
  \/ RunEnds \/ WindowCloses \/ Tick \/ SessionEnds \/ BreakerCloses

LoopSpec == LoopInit /\ [][LoopNext]_loopVars

\* Some run ends, because its session has limits of time and turns, or some window
\* closes, because it expires; the loop's timer fires, and the batching window
\* ends in spite of new arrivals (AttentionAccumulator); a Meta session has
\* limits as well; the breaker's time passes.  Nothing is assumed of arrivals.
FairLoopSpec ==
  /\ LoopSpec
  /\ WF_loopVars(RunEnds) /\ WF_loopVars(WindowCloses) /\ WF_loopVars(Tick)
  /\ WF_loopVars(SessionEnds) /\ WF_loopVars(BreakerCloses)

-----------------------------------------------------------------------------
(* Properties                                                               *)

LoopTypeOK ==
  /\ queue \in [Chat -> Seq(Job)] /\ held \in [Chat -> Seq(Job)]
  /\ author \in [Task -> Chat \cup {Meta, Harness, Nobody}]
  /\ records \in Seq(Task) /\ Len(records) <= MaxTasks
  /\ open \subseteq Chat /\ topN \in TopNs /\ blocked \subseteq Chat /\ signals \subseteq Chat
  /\ q5 \in Seq(Callback) /\ pending \in Seq(Item)
  /\ batch \in Seq(Item \cup Signal) /\ Len(batch) <= topN
  /\ timer \in BOOLEAN /\ breaker \in BOOLEAN
  /\ told \subseteq Job \X (Chat \cup {Meta, Harness})
  /\ settled \subseteq Job /\ folded \subseteq Job
  /\ fate \in [Message -> {"new", "waiting", "attended", "lost"}]

At(s, j)       == {i \in DOMAIN s : s[i] = j}
Folding(s, j)  == {i \in DOMAIN s : j \in Range(s[i].jobs)}
Carrying(s, j) == {i \in DOMAIN s : s[i].source = "CALLBACK" /\ j \in Range(s[i].about)}
Telling(s, m)  == {i \in DOMAIN s : IsMessage(s[i]) /\ s[i].about = m}

PlacesOf(j) ==
  (UNION {{<<"executor", c, i>> : i \in At(queue[c], j)} : c \in Chat})
    \cup (UNION {{<<"window", c, i>> : i \in At(held[c], j)} : c \in Chat})
    \cup {<<"q5", Nobody, i>> : i \in Folding(q5, j)}
    \cup {<<"accumulator", Nobody, i>> : i \in Carrying(pending, j)}
    \cup {<<"session", Nobody, i>> : i \in Carrying(batch, j)}
    \cup {<<"settled", Nobody, 0>> : x \in {j} \cap settled}

Exists(j) ==
  IF j.note THEN \E c \in Chat : <<Of(j.task), c>> \in told
  ELSE author[j.task] # Nobody

\* A dispatched task and the notification of its author are in one place from
\* the executor's queue through window, Q5, accumulator and Meta's session to
\* where its callback is disposed of: none is lost between two of them, told
\* twice or run again, and a notification is not itself announced.
EachJobInOnePlace ==
  \A j \in Job : Cardinality(PlacesOf(j)) = IF Exists(j) THEN 1 ELSE 0

\* A message waits in the accumulator or is with Meta's session, once, however
\* often it was released and handed back for a busy chat.
EachMessageInOnePlace ==
  \A m \in Message :
    Cardinality(Telling(pending \o batch, m)) = IF fate[m] = "waiting" THEN 1 ELSE 0

\* Patrols do not pile up: a second one does not begin while one waits or runs.
OnePatrol ==
  Cardinality({i \in DOMAIN (pending \o batch) : (pending \o batch)[i] = Patrol}) <= 1

\* While a session is awaited there is no other tick, and its entries are of
\* different chats.
OneSession ==
  /\ timer <=> batch = <<>>
  /\ \A i, j \in DOMAIN batch : batch[i].chat = batch[j].chat => i = j

\* The tick neither loses nor doubles what passes through it.
LoopConsistent ==
  LoopTypeOK /\ EachJobInOnePlace /\ EachMessageInOnePlace /\ OnePatrol /\ OneSession

\* A result whose record is kept, and which no window has folded into another,
\* has been announced to the chat or the harness that asked for it by the time
\* its callback is disposed of.
AuthorsAreTold ==
  \A t \in Range(records) :
    Of(t) \in settled \ folded /\ author[t] \in Chat \cup {Harness}
      => <<Of(t), author[t]>> \in told

\* main-agent-loop.ts, phase 1: what a subagent asked of another comes back to
\* it alone, and the callback of a notification ends the exchange: neither is
\* shown to Meta, whatever batch or retry it goes through.
ExchangesStayPrivate ==
  /\ \A t \in Range(records) :
       author[t] \in Chat /\ Of(t) \notin folded => <<Of(t), Meta>> \notin told
  /\ \A t \in Task : Note(t) \notin folded => <<Note(t), Meta>> \notin told

ResultsFindTheirAuthor == AuthorsAreTold /\ ExchangesStayPrivate

Rests ==
  /\ \A t \in Task : author[t] # Nobody => Of(t) \in settled
  /\ \A m \in Message : fate[m] # "waiting"

\* Whatever has been dispatched is run and its callback disposed of in the end,
\* and a message that waits is had by a session or given up, although busy chats
\* are the first of every batch and any session may throw.
EverythingIsDealtWith == []<>Rests
=============================================================================
