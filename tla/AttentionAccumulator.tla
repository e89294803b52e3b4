------------------------- MODULE AttentionAccumulator -------------------------
(***************************************************************************)
(* The batching queue between everything that wants the Meta agent's       *)
(* attention and the main loop (accumulator/attention-accumulator.ts).     *)
(*                                                                         *)
(* Layer 0 (direct address) and layer 1 (callbacks, reminders, wake        *)
(* conditions) wait in `pending`; layer 2 topic signals wait in a          *)
(* persisted `signalPool`.  A flush releases at most MaxWindowItems of     *)
(* them, and only after the batching window of the oldest pending item     *)
(* has closed.  A chat can be blocked: its items are dropped and refused.  *)
(*                                                                         *)
(* Time is kept relative: an item carries its age, Date.now() minus        *)
(* enqueuedAt, and the window carries its own age, Date.now() minus        *)
(* windowStartedAt.  Ages stop growing at MaxAge (the window at WindowMs,  *)
(* the only value it is compared with).                                    *)
(***************************************************************************)
EXTENDS Integers, FiniteSets

CONSTANTS
  Chat,             \* chat ids, "__meta__" included
  Topic,            \* topic ids
  Weight,           \* participant volume times stickiness of a pressureInput
  Item,             \* identities of the AttentionItem objects of layers 0 and 1
  WindowMs,         \* config.windowMs, in clock ticks
  MaxWindowItems,   \* config.topN
  MaxAge,           \* bound: ages saturate here
  MaxIgnored,       \* bound: ignoredCount saturates here
  InitialPools,     \* signal pools an earlier process may have left on disk
  None              \* windowStartedAt = null

ASSUME ConstantsAssumption ==
  /\ Weight \subseteq Nat
  /\ WindowMs \in Nat \ {0}
  /\ MaxWindowItems \in Nat \ {0}
  /\ MaxAge \in Nat /\ MaxAge >= WindowMs
  /\ MaxIgnored \in Nat \ {0}
  /\ None \notin Nat

VARIABLES
  pending,          \* layer 0/1 items waiting for a flush
  signalPool,       \* layer 2 topic signals
  windowAge,        \* None, or the time since windowStartedAt
  blockedChatIds,   \* chats whose items are refused
  inHand,           \* the items of the AttentionSet the main loop is working on
  sorting,          \* the tick is deciding which of them it hands back
  gsPool,           \* GlobalState's copy of the pool (setSignalPool)
  diskPool,         \* the pool in the state file
  shown             \* history: topics released to the agent and not acted on since

vars == <<pending, signalPool, windowAge, blockedChatIds, inHand, sorting,
          gsPool, diskPool, shown>>

Age == 0..MaxAge

PendingItem == [id : Item, layer : {0, 1}, chat : Chat, age : Age]

Signal == [chat : Chat, topic : Topic, weight : Weight, age : Age,
           ignored : 0..MaxIgnored]

ASSUME PoolsAssumption ==
  \A pool \in InitialPools : pool \subseteq Signal /\ IsFiniteSet(pool)

MaxOf(a, b) == IF a >= b THEN a ELSE b
MinOf(a, b) == IF a <= b THEN a ELSE b

-----------------------------------------------------------------------------
(* Pressure and merging                                                     *)

\* calculatePressure, scaled by 500: ageFactor = 1 + 0.02 age, penalty 0.3.
Pressure(s) == s.weight * (50 + s.age) * (IF s.ignored > 0 THEN 3 ELSE 10)

Key(s) == <<s.chat, s.topic>>

\* Same chat and topic: keep the longer wait and the higher ignoredCount, and
\* the pressure input of whichever of the two presses harder now.
MergeTopicSignal(old, new) ==
  [old EXCEPT !.age     = MaxOf(old.age, new.age),
              !.ignored = MaxOf(old.ignored, new.ignored),
              !.weight  = IF Pressure(new) >= Pressure(old)
                          THEN new.weight ELSE old.weight]

\* Pools of at most two entries per key are restored; which of the two the
\* file lists first is not modelled.
MergeDuplicates(D) ==
  LET first == CHOOSE s \in D : TRUE
      rest  == D \ {first}
  IN  IF rest = {} THEN first
      ELSE MergeTopicSignal(first, CHOOSE s \in rest : TRUE)

\* Fault: the pool is restored as it was written.
RestoredUnmerged(pool) == pool

\* restoreSignalPool.
Restored(pool) ==
  { MergeDuplicates({o \in pool : Key(o) = Key(s)}) : s \in pool }

\* compareAttentionItemsAt: layer, then pressure, then the earlier enqueuedAt.
\* An item of the layers 0 and 1 has the pressure its sender gave it, or none
\* (runtime.elevate gives one); the order within a layer is left open.
ItemBefore(a, b) == a.layer < b.layer

SignalBefore(a, b) ==
  \/ Pressure(a) > Pressure(b)
  \/ Pressure(a) = Pressure(b) /\ a.age > b.age

\* The n first elements of S; what the order leaves open is left open here.
FirstOf(S, n, Before(_, _)) ==
  { T \in SUBSET S :
      /\ Cardinality(T) = MinOf(n, Cardinality(S))
      /\ \A i \in T, o \in S \ T : ~Before(o, i) }

-----------------------------------------------------------------------------
(* Operations                                                               *)

\* Fault: a caller that forgets to persist.
PersistNothing == UNCHANGED gsPool

\* persistSignalPool: every caller hands GlobalState the pool it leaves.
PersistSignalPool == gsPool' = signalPool'

\* Fault: every arrival restarts the window.
WindowRestarted == 0

\* The window ingest() leaves: started by the first item, not moved by others.
WindowAfterIngest == IF windowAge = None THEN 0 ELSE windowAge

\* Fault: requeue() forgets that the window may be unset.
WindowNotRearmed(i) == windowAge

\* The window requeue() leaves: as old as the oldest item in it.
WindowAfterRequeue(i) ==
  IF windowAge = None THEN MinOf(i.age, WindowMs)
                      ELSE MaxOf(windowAge, MinOf(i.age, WindowMs))

\* requeue() returns early on a blocked chat.
TakesBack(i) == i.chat \notin blockedChatIds

\* Fault: released items stay in the queue.
NothingLeaves(P) == pending

\* What a flush leaves pending after releasing P.
Unreleased(P) == pending \ P

\* Fault: signals get a full set of slots of their own.
FullSlots(P) == MaxWindowItems

\* The slots released pending items leave to the signals.
SpareSlots(P) == MaxWindowItems - Cardinality(P)

FreshItem(id) == \A i \in pending \cup inHand : i.id # id

Ingest(id, layer, c) ==
  /\ ~sorting
  /\ FreshItem(id)
  /\ c \notin blockedChatIds
  /\ pending' = pending \cup {[id |-> id, layer |-> layer, chat |-> c, age |-> 0]}
  /\ windowAge' = WindowAfterIngest
  /\ UNCHANGED <<signalPool, blockedChatIds, inHand, sorting, gsPool, diskPool,
                 shown>>

IngestSignal(c, t, w) ==
  LET entry == [chat |-> c, topic |-> t, weight |-> w, age |-> 0, ignored |-> 0]
      same  == {s \in signalPool : Key(s) = Key(entry)}
  IN
  /\ ~sorting
  /\ c \notin blockedChatIds
  /\ signalPool' = IF same = {} THEN signalPool \cup {entry}
                   ELSE LET existing == CHOOSE s \in same : TRUE
                        IN  (signalPool \ {existing})
                              \cup {MergeTopicSignal(existing, entry)}
  /\ PersistSignalPool
  /\ UNCHANGED <<pending, windowAge, blockedChatIds, inHand, sorting, diskPool,
                 shown>>

\* The main loop hands an item back because the chat's executor is busy, or has
\* an item of the chat already.  It goes through the whole set before anything
\* else runs.  A signal is not taken back: requeue returns early on layer 2.
Requeue(i) ==
  /\ sorting
  /\ i \in inHand
  /\ inHand' = inHand \ {i}
  /\ IF TakesBack(i)
     THEN /\ pending' = pending \cup {i}
          /\ windowAge' = WindowAfterRequeue(i)
     ELSE UNCHANGED <<pending, windowAge>>
  /\ UNCHANGED <<signalPool, blockedChatIds, sorting, gsPool, diskPool, shown>>

\* The rest of the set goes to the agent, in a session the loop awaits.
Sorted ==
  /\ sorting
  /\ sorting' = FALSE
  /\ UNCHANGED <<pending, signalPool, windowAge, blockedChatIds, inHand, gsPool,
                 diskPool, shown>>

\* The main loop is done with an item.
Attend(i) ==
  /\ ~sorting
  /\ i \in inHand
  /\ inHand' = inHand \ {i}
  /\ UNCHANGED <<pending, signalPool, windowAge, blockedChatIds, sorting, gsPool,
                 diskPool, shown>>

\* Fault: the signals of the chat stay in the pool.
DropItems(c) ==
  /\ pending' = {i \in pending : i.chat # c}
  /\ windowAge' = IF pending' = {} THEN None ELSE windowAge
  /\ UNCHANGED <<signalPool, gsPool, inHand, sorting, diskPool, shown>>

DropChat(c) ==
  /\ pending' = {i \in pending : i.chat # c}
  /\ signalPool' = {s \in signalPool : s.chat # c}
  /\ windowAge' = IF pending' = {} THEN None ELSE windowAge
  /\ IF signalPool' # signalPool THEN PersistSignalPool ELSE UNCHANGED gsPool
  /\ UNCHANGED <<inHand, sorting, diskPool, shown>>

Block(c) ==
  /\ ~sorting
  /\ blockedChatIds' = blockedChatIds \cup {c}
  /\ DropChat(c)

Unblock(c) ==
  /\ ~sorting
  /\ blockedChatIds' = blockedChatIds \ {c}
  /\ UNCHANGED <<pending, signalPool, windowAge, inHand, sorting, gsPool,
                 diskPool, shown>>

Remove(c) ==
  /\ ~sorting
  /\ blockedChatIds' = blockedChatIds \ {c}
  /\ DropChat(c)

\* flush() returns null: something is pending and its window is still open.
HeldByWindow == pending # {} /\ windowAge # None /\ windowAge < WindowMs

\* The loop's ticks do not overlap, so the previous set has been worked off.
Flush ==
  /\ ~sorting /\ inHand = {}
  /\ pending # {} \/ signalPool # {}
  /\ ~HeldByWindow
  /\ \E P \in FirstOf(pending, MaxWindowItems, ItemBefore) :
     \E S \in FirstOf(signalPool, SpareSlots(P), SignalBefore) :
       /\ pending' = Unreleased(P)
       /\ signalPool' = signalPool \ S
       /\ inHand' = P
       /\ sorting' = (P # {})
       /\ shown' = shown \cup {Key(s) : s \in S}
  /\ windowAge' = IF pending' = {} THEN None ELSE 0
  /\ PersistSignalPool
  /\ UNCHANGED <<blockedChatIds, diskPool>>

\* dispatch.taskToGroup acted on the chat.
MarkActioned(c) ==
  /\ ~sorting
  /\ signalPool' = { IF s.chat = c THEN [s EXCEPT !.ignored = 0] ELSE s :
                     s \in signalPool }
  /\ IF signalPool' # signalPool THEN PersistSignalPool ELSE UNCHANGED gsPool
  /\ shown' = {k \in shown : k[1] # c}
  /\ UNCHANGED <<pending, windowAge, blockedChatIds, inHand, sorting, diskPool>>

\* GlobalState.save, from the autosave timer or the end of a tick.
SaveState ==
  /\ ~sorting
  /\ diskPool' = gsPool
  /\ UNCHANGED <<pending, signalPool, windowAge, blockedChatIds, inHand, sorting,
                 gsPool, shown>>

\* A crash, and restoreSignalPool in the next process.
Restart ==
  /\ pending' = {} /\ inHand' = {} /\ blockedChatIds' = {}
  /\ sorting' = FALSE
  /\ windowAge' = None
  /\ signalPool' = Restored(diskPool)
  /\ gsPool' = signalPool'
  /\ UNCHANGED <<diskPool, shown>>

Older(S) == { [x EXCEPT !.age = MinOf(x.age + 1, MaxAge)] : x \in S }

Tick ==
  /\ ~sorting
  /\ pending' = Older(pending)
  /\ signalPool' = Older(signalPool)
  /\ gsPool' = Older(gsPool)
  /\ diskPool' = Older(diskPool)
  /\ inHand' = Older(inHand)
  /\ windowAge' = IF windowAge = None THEN None ELSE MinOf(windowAge + 1, WindowMs)
  /\ UNCHANGED <<blockedChatIds, sorting, shown>>

-----------------------------------------------------------------------------

Init ==
  /\ pending = {} /\ inHand = {} /\ blockedChatIds = {} /\ shown = {}
  /\ sorting = FALSE
  /\ windowAge = None
  /\ diskPool \in InitialPools
  /\ signalPool = Restored(diskPool)
  /\ gsPool = signalPool

Next ==
  \/ \E id \in Item, layer \in {0, 1}, c \in Chat : Ingest(id, layer, c)
  \/ \E c \in Chat, t \in Topic, w \in Weight : IngestSignal(c, t, w)
  \/ \E i \in inHand : Requeue(i) \/ Attend(i)
  \/ \E c \in Chat : Block(c) \/ Unblock(c) \/ Remove(c) \/ MarkActioned(c)
  \/ Flush
  \/ Sorted
  \/ SaveState
  \/ Tick
  \/ Restart

Spec == Init /\ [][Next]_vars

\* The clock advances, the main loop keeps polling (scheduleNext), and a tick
\* ends by disposing of every item it was given.
Fairness ==
  /\ WF_vars(Tick)
  /\ WF_vars(Flush)
  /\ WF_vars(Sorted)
  /\ WF_vars(\E i \in inHand : Attend(i))

FairSpec == Spec /\ Fairness

-----------------------------------------------------------------------------
(* Properties                                                               *)

\* Every variable holds values of its type, and the ids of the items in the
\* accumulator and in the loop's hands are distinct.
TypeOK ==
  /\ pending \subseteq PendingItem
  /\ inHand \subseteq PendingItem
  /\ signalPool \subseteq Signal
  /\ gsPool \subseteq Signal
  /\ diskPool \subseteq Signal
  /\ windowAge \in 0..WindowMs \cup {None}
  /\ blockedChatIds \subseteq Chat
  /\ shown \subseteq Chat \X Topic
  /\ sorting \in BOOLEAN
  /\ \A i, j \in pending \cup inHand : i.id = j.id => i = j
  /\ pending \cap inHand = {}

\* While a chat is blocked nothing of it can be released: block() drops what
\* is queued and ingest() and requeue() refuse what comes later.
BlockedChatsSilent ==
  \A c \in blockedChatIds :
    /\ \A i \in pending : i.chat # c
    /\ \A s \in signalPool : s.chat # c

\* The batching window runs exactly while something is pending.  Were it unset
\* with items pending, they would be released unbatched; were it left over
\* from dropped items, the next item would not wait its window.
WindowArmed == pending # {} <=> windowAge # None

\* A topic has at most one signal in the pool, whatever the recording
\* pipeline's overlapping flushes send and whatever pool is restored.
OneSignalPerTopic ==
  \A s, o \in signalPool : Key(s) = Key(o) => s = o

\* What the next save writes is the pool as it stands: no operation changes
\* the pool without handing it to GlobalState.
PoolIsPersisted == gsPool = signalPool

\* The state of the accumulator hangs together: its parts are of their types,
\* the batching window goes with what is pending, the pool has one signal for a
\* topic, whatever pool was restored, and the next save writes that pool.
AccumulatorConsistent == TypeOK /\ WindowArmed /\ OneSignalPerTopic /\ PoolIsPersisted

\* Signals only use the slots the pending items leave: a flush that releases a
\* signal leaves no pending item behind.
SignalsFillSpareSlots ==
  [][ (\E k \in (Chat \X Topic) \ shown : k \in shown') => pending' = {} ]_vars

\* Items that keep arriving or being requeued cannot hold the window open:
\* whatever is pending, a batch is released (or the pending items dropped).
BatchEventuallyFlushed == pending # {} ~> (inHand # {} \/ pending = {})

-----------------------------------------------------------------------------
(* What the docs say, and the code does not do: it does not hold, and no    *)
(* run lists it (README, section 5).                                        *)

\* docs/Meta_CodeAct.md: a signal released to the agent that took no action
\* weighs less the next time: it is in the pool with a positive ignoredCount.
ShownSignalIsPenalised ==
  \A s \in signalPool : Key(s) \in shown => s.ignored > 0
=============================================================================
