----------------------- MODULE AttentionAccumulatorProofs -----------------------
(***************************************************************************)
(* Safety of the attention accumulator for every set of chats, topics and  *)
(* items, every window and every cap.                                      *)
(***************************************************************************)
EXTENDS AttentionAccumulator, FiniteSetTheorems, TLAPS

\* The inductive invariant: the safety properties hold each other up only
\* through TypeOK, but they are proved together, one action at a time.
IInv ==
  /\ TypeOK
  /\ BlockedChatsSilent
  /\ WindowArmed
  /\ OneSignalPerTopic
  /\ PoolIsPersisted

\* Merging two signals gives a signal of the older one's topic.
LEMMA MergeKeepsKey ==
  ASSUME NEW s \in Signal, NEW o \in Signal
  PROVE  /\ MergeTopicSignal(s, o) \in Signal
         /\ Key(MergeTopicSignal(s, o)) = Key(s)
<1>1. MaxOf(s.age, o.age) \in Age
  BY DEF Signal, MaxOf, Age
<1>2. MaxOf(s.ignored, o.ignored) \in 0..MaxIgnored
  BY DEF Signal, MaxOf
<1>3. (IF Pressure(o) >= Pressure(s) THEN o.weight ELSE s.weight) \in Weight
  BY DEF Signal
<1>. QED
  BY <1>1, <1>2, <1>3 DEF Signal, MergeTopicSignal, Key

\* Restoring a pool yields signals, one per topic.
LEMMA RestoredIsUnique ==
  ASSUME NEW pool \in SUBSET Signal
  PROVE  /\ Restored(pool) \subseteq Signal
         /\ \A s, o \in Restored(pool) : Key(s) = Key(o) => s = o
<1> DEFINE Same(s) == {o \in pool : Key(o) = Key(s)}
<1>1. ASSUME NEW s \in pool
      PROVE  MergeDuplicates(Same(s)) \in Signal /\ Key(MergeDuplicates(Same(s))) = Key(s)
  <2> DEFINE first == CHOOSE o \in Same(s) : TRUE
             rest  == Same(s) \ {first}
             other == CHOOSE o \in rest : TRUE
  <2>1. first \in Same(s)
    <3>1. s \in Same(s)
      OBVIOUS
    <3>. QED BY <3>1
  <2>2. rest # {} => other \in rest
    OBVIOUS
  <2>3. first \in Signal /\ Key(first) = Key(s)
    BY <2>1
  <2>4. CASE rest = {}
    <3>1. MergeDuplicates(Same(s)) = first
      BY <2>4 DEF MergeDuplicates
    <3>. QED BY <3>1, <2>3
  <2>5. CASE rest # {}
    <3>1. MergeDuplicates(Same(s)) = MergeTopicSignal(first, other)
      BY <2>5 DEF MergeDuplicates
    <3>2. other \in Signal
      BY <2>2, <2>5
    <3> HIDE DEF first, other
    <3>. QED BY <3>1, <3>2, <2>3, MergeKeepsKey
  <2>. QED BY <2>4, <2>5
<1>2. Restored(pool) = {MergeDuplicates(Same(s)) : s \in pool}
  BY DEF Restored
<1>3. \A s, o \in pool : Key(s) = Key(o) => Same(s) = Same(o)
  OBVIOUS
<1> HIDE DEF Same
<1>. QED BY <1>1, <1>2, <1>3

\* The initial states satisfy the invariant.
LEMMA InitIInv == Init => IInv
<1> SUFFICES ASSUME Init PROVE IInv
  OBVIOUS
<1>1. diskPool \in SUBSET Signal
  BY PoolsAssumption DEF Init
<1>2. /\ signalPool \subseteq Signal
      /\ OneSignalPerTopic
  BY <1>1, RestoredIsUnique DEF Init, OneSignalPerTopic
<1>. QED
  BY <1>1, <1>2, ConstantsAssumption
  DEF Init, IInv, TypeOK, BlockedChatsSilent, WindowArmed, PoolIsPersisted


\* Ageing every element of a set of signals keeps keys and types.
LEMMA OlderSignals ==
  ASSUME NEW S \in SUBSET Signal
  PROVE  /\ Older(S) \subseteq Signal
         /\ \A s \in Older(S) : \E o \in S :
               Key(s) = Key(o) /\ s = [o EXCEPT !.age = MinOf(o.age + 1, MaxAge)]
<1>1. \A s \in S : MinOf(s.age + 1, MaxAge) \in Age
  BY ConstantsAssumption DEF Signal, MinOf, Age
<1>. QED BY <1>1 DEF Older, Signal, Key

\* Ageing every item of a set keeps ids, chats and types.
LEMMA OlderItems ==
  ASSUME NEW S \in SUBSET PendingItem
  PROVE  /\ Older(S) \subseteq PendingItem
         /\ \A i \in Older(S) : \E o \in S :
               /\ i.id = o.id /\ i.chat = o.chat
               /\ i = [o EXCEPT !.age = MinOf(o.age + 1, MaxAge)]
<1>1. \A s \in S : MinOf(s.age + 1, MaxAge) \in Age
  BY ConstantsAssumption DEF PendingItem, MinOf, Age
<1>. QED BY <1>1 DEF Older, PendingItem

\* Every step preserves the invariant.
LEMMA NextIInv == IInv /\ [Next]_vars => IInv'
<1> SUFFICES ASSUME IInv, [Next]_vars PROVE IInv'
  OBVIOUS
<1> USE DEF IInv
<1>1. ASSUME NEW id \in Item, NEW layer \in {0, 1}, NEW c \in Chat, Ingest(id, layer, c)
      PROVE  IInv'
  <2> DEFINE new == [id |-> id, layer |-> layer, chat |-> c, age |-> 0]
  <2>1. new \in PendingItem
    BY ConstantsAssumption DEF PendingItem, Age
  <2>2. /\ pending' = pending \cup {new}
        /\ \A i \in pending \cup inHand : i.id # new.id
        /\ new.chat \notin blockedChatIds
    BY <1>1 DEF Ingest, FreshItem
  <2>3. windowAge' \in 0..WindowMs
    BY <1>1, ConstantsAssumption DEF Ingest, WindowAfterIngest, TypeOK
  <2>4. TypeOK'
    BY <1>1, <2>1, <2>2, <2>3 DEF Ingest, TypeOK
  <2>5. WindowArmed'
    <3>1. windowAge' # None
      BY <2>3, ConstantsAssumption
    <3>2. pending' # {}
      BY <2>2
    <3>. QED BY <3>1, <3>2 DEF WindowArmed
  <2>6. BlockedChatsSilent'
    BY <1>1, <2>2 DEF Ingest, BlockedChatsSilent
  <2>. QED
    BY <1>1, <2>4, <2>5, <2>6 DEF Ingest, OneSignalPerTopic, PoolIsPersisted
<1>2. ASSUME NEW c \in Chat, NEW t \in Topic, NEW w \in Weight, IngestSignal(c, t, w)
      PROVE  IInv'
  <2> DEFINE entry == [chat |-> c, topic |-> t, weight |-> w, age |-> 0, ignored |-> 0]
             same  == {s \in signalPool : Key(s) = Key(entry)}
             old   == CHOOSE s \in same : TRUE
  <2>1. entry \in Signal
    BY ConstantsAssumption DEF Signal, Age
  <2>2. CASE same = {}
    <3>1. signalPool' = signalPool \cup {entry}
      BY <1>2, <2>2 DEF IngestSignal
    <3>2. signalPool' \subseteq Signal /\ OneSignalPerTopic'
      BY <2>1, <2>2, <3>1 DEF TypeOK, OneSignalPerTopic
    <3>3. BlockedChatsSilent'
      BY <1>2, <3>1 DEF IngestSignal, BlockedChatsSilent
    <3>. QED
      BY <1>2, <3>2, <3>3
      DEF IngestSignal, PersistSignalPool, TypeOK, WindowArmed, PoolIsPersisted
  <2>3. CASE same # {}
    <3> DEFINE merged == MergeTopicSignal(old, entry)
    <3>1. old \in signalPool /\ Key(old) = Key(entry)
      BY <2>3
    <3>2. signalPool' = (signalPool \ {old}) \cup {merged}
      BY <1>2, <2>3 DEF IngestSignal
    <3>3. merged \in Signal /\ Key(merged) = Key(old)
      BY <2>1, <3>1, MergeKeepsKey DEF TypeOK
    <3> HIDE DEF merged, old, same
    <3>4. signalPool' \subseteq Signal /\ OneSignalPerTopic'
      BY <3>1, <3>2, <3>3 DEF TypeOK, OneSignalPerTopic
    <3>5. merged.chat = c
      BY <3>1, <3>3 DEF Key
    <3>6. BlockedChatsSilent'
      BY <1>2, <3>2, <3>5 DEF IngestSignal, BlockedChatsSilent
    <3>. QED
      BY <1>2, <3>4, <3>6
      DEF IngestSignal, PersistSignalPool, TypeOK, WindowArmed, PoolIsPersisted
  <2>. QED BY <2>2, <2>3
<1>3. ASSUME NEW i \in inHand, Requeue(i)
      PROVE  IInv'
  <2>1. i \in PendingItem /\ i \notin pending
    BY DEF TypeOK
  <2>2. MinOf(i.age, WindowMs) \in 0..WindowMs
    BY <2>1, ConstantsAssumption DEF PendingItem, Age, MinOf
  <2>3. CASE TakesBack(i)
    <3>1. windowAge' \in 0..WindowMs
      BY <1>3, <2>2, <2>3, ConstantsAssumption
      DEF Requeue, WindowAfterRequeue, MaxOf, TypeOK
    <3>2. pending' = pending \cup {i} /\ inHand' = inHand \ {i}
      BY <1>3, <2>3 DEF Requeue
    <3>3. TypeOK'
      BY <1>3, <2>1, <3>1, <3>2 DEF Requeue, TypeOK
    <3>4. BlockedChatsSilent'
      BY <1>3, <2>3, <3>2 DEF Requeue, TakesBack, BlockedChatsSilent
    <3>. QED
      BY <1>3, <3>1, <3>2, <3>3, <3>4, ConstantsAssumption
      DEF Requeue, WindowArmed, OneSignalPerTopic, PoolIsPersisted
  <2>4. CASE ~TakesBack(i)
    BY <1>3, <2>4 DEF Requeue, TypeOK, BlockedChatsSilent, WindowArmed,
       OneSignalPerTopic, PoolIsPersisted
  <2>. QED BY <2>3, <2>4
<1>4. ASSUME NEW i \in inHand, Attend(i)
      PROVE  IInv'
  BY <1>4 DEF Attend, TypeOK, BlockedChatsSilent, WindowArmed, OneSignalPerTopic,
     PoolIsPersisted
<1>5. ASSUME NEW c \in Chat, Block(c) \/ Remove(c)
      PROVE  IInv'
  <2>1. /\ pending' = {i \in pending : i.chat # c}
        /\ signalPool' = {s \in signalPool : s.chat # c}
        /\ DropChat(c)
        /\ blockedChatIds' \in {blockedChatIds \cup {c}, blockedChatIds \ {c}}
    BY <1>5 DEF Block, Remove, DropChat
  <2>2. gsPool' = signalPool'
    BY <2>1 DEF DropChat, PersistSignalPool, PoolIsPersisted
  <2>3. WindowArmed' /\ windowAge' \in 0..WindowMs \cup {None}
    BY <2>1 DEF DropChat, WindowArmed, TypeOK
  <2>4. TypeOK'
    BY <2>1, <2>2, <2>3 DEF DropChat, TypeOK
  <2>5. BlockedChatsSilent'
    BY <2>1 DEF BlockedChatsSilent
  <2>. QED
    BY <2>1, <2>2, <2>3, <2>4, <2>5 DEF OneSignalPerTopic, PoolIsPersisted
<1>6. ASSUME NEW c \in Chat, Unblock(c)
      PROVE  IInv'
  BY <1>6 DEF Unblock, TypeOK, BlockedChatsSilent, WindowArmed, OneSignalPerTopic,
     PoolIsPersisted
<1>7. ASSUME NEW c \in Chat, MarkActioned(c)
      PROVE  IInv'
  <2> DEFINE fresh(s) == IF s.chat = c THEN [s EXCEPT !.ignored = 0] ELSE s
  <2>1. \A s \in signalPool : fresh(s) \in Signal /\ Key(fresh(s)) = Key(s)
    BY ConstantsAssumption DEF TypeOK, Signal, Key
  <2>2. signalPool' = {fresh(s) : s \in signalPool}
    BY <1>7 DEF MarkActioned
  <2>3. gsPool' = signalPool'
    BY <1>7 DEF MarkActioned, PersistSignalPool, PoolIsPersisted
  <2> HIDE DEF fresh
  <2>4. signalPool' \subseteq Signal /\ OneSignalPerTopic'
    BY <2>1, <2>2 DEF OneSignalPerTopic
  <2>5. \A s \in signalPool : fresh(s).chat = s.chat
    BY <2>1 DEF Key
  <2>6. BlockedChatsSilent'
    BY <1>7, <2>2, <2>5 DEF MarkActioned, BlockedChatsSilent
  <2>. QED
    BY <1>7, <2>3, <2>4, <2>6 DEF MarkActioned, TypeOK, WindowArmed, PoolIsPersisted
<1>8. ASSUME Flush
      PROVE  IInv'
  <2>1. PICK P \in SUBSET pending, S \in SUBSET signalPool :
               /\ pending' = pending \ P
               /\ signalPool' = signalPool \ S
               /\ inHand' = P
               /\ shown' = shown \cup {Key(s) : s \in S}
    BY <1>8 DEF Flush, Unreleased, FirstOf
  <2>2. P \subseteq pending /\ S \subseteq signalPool
    OBVIOUS
  <2>3. {Key(s) : s \in S} \subseteq Chat \X Topic
    BY <2>2 DEF TypeOK, Signal, Key
  <2>4. windowAge' = IF pending' = {} THEN None ELSE 0
    BY <1>8 DEF Flush
  <2>5. TypeOK'
    BY <1>8, <2>1, <2>2, <2>3, <2>4, ConstantsAssumption
    DEF Flush, TypeOK, PersistSignalPool
  <2>6. WindowArmed'
    BY <2>4, ConstantsAssumption DEF WindowArmed
  <2>. QED
    BY <1>8, <2>1, <2>2, <2>5, <2>6
    DEF Flush, PersistSignalPool, BlockedChatsSilent, OneSignalPerTopic, PoolIsPersisted
<1>9. ASSUME SaveState
      PROVE  IInv'
  BY <1>9 DEF SaveState, TypeOK, BlockedChatsSilent, WindowArmed, OneSignalPerTopic,
     PoolIsPersisted
<1>10. ASSUME Restart
       PROVE  IInv'
  <2>1. signalPool' \subseteq Signal /\ OneSignalPerTopic'
    BY <1>10, RestoredIsUnique DEF Restart, TypeOK, OneSignalPerTopic
  <2>. QED
    BY <1>10, <2>1 DEF Restart, TypeOK, BlockedChatsSilent, WindowArmed, PoolIsPersisted
<1>11. ASSUME Tick
       PROVE  IInv'
  <2>1. signalPool' \subseteq Signal /\ gsPool' \subseteq Signal /\ diskPool' \subseteq Signal
    BY <1>11, OlderSignals DEF Tick, TypeOK
  <2>2. pending' \subseteq PendingItem /\ inHand' \subseteq PendingItem
    BY <1>11, OlderItems DEF Tick, TypeOK
  <2>3. windowAge' \in 0..WindowMs \cup {None} /\ (windowAge' = None <=> windowAge = None)
    BY <1>11, ConstantsAssumption DEF Tick, TypeOK, MinOf
  <2>4. \A i, j \in pending' \cup inHand' : i.id = j.id => i = j
    BY <1>11, OlderItems DEF Tick, TypeOK
  <2>5. pending' \cap inHand' = {}
    <3> SUFFICES ASSUME NEW i \in pending' \cap inHand' PROVE FALSE
      OBVIOUS
    <3>1. PICK p \in pending : i.id = p.id
      BY <1>11, OlderItems DEF Tick, TypeOK
    <3>2. PICK h \in inHand : i.id = h.id
      BY <1>11, OlderItems DEF Tick, TypeOK
    <3>. QED BY <3>1, <3>2 DEF TypeOK
  <2>6. TypeOK'
    BY <1>11, <2>1, <2>2, <2>3, <2>4, <2>5 DEF Tick, TypeOK
  <2>7. OneSignalPerTopic'
    BY <1>11, OlderSignals DEF Tick, TypeOK, OneSignalPerTopic
  <2>8. \A s \in signalPool' : \E o \in signalPool : s.chat = o.chat
    BY <1>11, OlderSignals DEF Tick, TypeOK, Key
  <2>9. \A i \in pending' : \E o \in pending : i.chat = o.chat
    BY <1>11, OlderItems DEF Tick, TypeOK
  <2>10. BlockedChatsSilent'
    BY <1>11, <2>8, <2>9 DEF Tick, BlockedChatsSilent
  <2>11. pending' = {} <=> pending = {}
    BY <1>11 DEF Tick, Older
  <2>. QED
    BY <1>11, <2>3, <2>6, <2>7, <2>10, <2>11 DEF Tick, WindowArmed, PoolIsPersisted
<1>12. ASSUME UNCHANGED vars
       PROVE  IInv'
  BY <1>12 DEF vars, TypeOK, BlockedChatsSilent, WindowArmed, OneSignalPerTopic,
     PoolIsPersisted
<1>13. ASSUME Sorted
       PROVE  IInv'
  BY <1>13 DEF Sorted, TypeOK, BlockedChatsSilent, WindowArmed, OneSignalPerTopic,
     PoolIsPersisted
<1>. QED
  BY <1>1, <1>2, <1>3, <1>4, <1>5, <1>6, <1>7, <1>8, <1>9, <1>10, <1>11, <1>12, <1>13
  DEF Next

\* In every reachable state the invariant holds.
THEOREM AccumulatorInvariant == Spec => []IInv
BY InitIInv, NextIInv, PTL DEF Spec

\* Types, and distinct identities of the items that are queued or being handled.
THEOREM AccumulatorTypeCorrect == Spec => []TypeOK
<1>1. IInv => TypeOK
  BY DEF IInv
<1>. QED BY <1>1, AccumulatorInvariant, PTL

\* A blocked chat has nothing queued, whatever was ingested, requeued or restored.
THEOREM BlockedChatsStaySilent == Spec => []BlockedChatsSilent
<1>1. IInv => BlockedChatsSilent
  BY DEF IInv
<1>. QED BY <1>1, AccumulatorInvariant, PTL

\* The batching window is armed exactly while items are pending.
THEOREM WindowIsArmed == Spec => []WindowArmed
<1>1. IInv => WindowArmed
  BY DEF IInv
<1>. QED BY <1>1, AccumulatorInvariant, PTL

\* The signal pool never holds two signals of a topic.
THEOREM TopicsAreMerged == Spec => []OneSignalPerTopic
<1>1. IInv => OneSignalPerTopic
  BY DEF IInv
<1>. QED BY <1>1, AccumulatorInvariant, PTL

\* No operation leaves GlobalState with a stale copy of the pool.
THEOREM PoolAlwaysPersisted == Spec => []PoolIsPersisted
<1>1. IInv => PoolIsPersisted
  BY DEF IInv
<1>. QED BY <1>1, AccumulatorInvariant, PTL

-----------------------------------------------------------------------------
(* Slots                                                                    *)

\* Counting slots makes sense because every collection stays finite.
AllFinite ==
  /\ IsFiniteSet(pending) /\ IsFiniteSet(inHand)
  /\ IsFiniteSet(signalPool) /\ IsFiniteSet(gsPool) /\ IsFiniteSet(diskPool)

\* Ageing a set element by element leaves it finite.
LEMMA OlderIsFinite ==
  ASSUME NEW S, IsFiniteSet(S)
  PROVE  IsFiniteSet(Older(S))
<1> DEFINE f == [x \in S |-> [x EXCEPT !.age = MinOf(x.age + 1, MaxAge)]]
<1>1. f \in Surjection(S, Older(S))
  BY DEF Older, Surjection
<1>. QED BY <1>1, FS_Surjection

\* So does merging the duplicates of a pool.
LEMMA RestoredIsFinite ==
  ASSUME NEW pool, IsFiniteSet(pool)
  PROVE  IsFiniteSet(Restored(pool))
<1> DEFINE f == [s \in pool |-> MergeDuplicates({o \in pool : Key(o) = Key(s)})]
<1>1. f \in Surjection(pool, Restored(pool))
  BY DEF Restored, Surjection
<1>. QED BY <1>1, FS_Surjection

\* The first process starts with finite collections.
LEMMA InitAllFinite == Init => AllFinite
<1> SUFFICES ASSUME Init PROVE AllFinite
  OBVIOUS
<1>1. IsFiniteSet(diskPool)
  BY PoolsAssumption DEF Init
<1>. QED
  BY <1>1, RestoredIsFinite, FS_EmptySet DEF Init, AllFinite

\* No step makes a collection infinite.
LEMMA NextAllFinite == AllFinite /\ [Next]_vars => AllFinite'
<1> SUFFICES ASSUME AllFinite, [Next]_vars PROVE AllFinite'
  OBVIOUS
<1> USE DEF AllFinite
<1>1. ASSUME NEW id \in Item, NEW layer \in {0, 1}, NEW c \in Chat, Ingest(id, layer, c)
      PROVE  AllFinite'
  BY <1>1, FS_AddElement DEF Ingest
<1>2. ASSUME NEW c \in Chat, NEW t \in Topic, NEW w \in Weight, IngestSignal(c, t, w)
      PROVE  AllFinite'
  <2>1. PICK old, new : \/ signalPool' = signalPool \cup {new}
                         \/ signalPool' = (signalPool \ {old}) \cup {new}
    BY <1>2 DEF IngestSignal
  <2>2. IsFiniteSet(signalPool \ {old})
    BY FS_RemoveElement
  <2>3. IsFiniteSet(signalPool \cup {new})
    BY FS_AddElement
  <2>4. IsFiniteSet((signalPool \ {old}) \cup {new})
    BY <2>2, FS_AddElement
  <2>5. IsFiniteSet(signalPool')
    BY <2>1, <2>3, <2>4
  <2>. QED BY <1>2, <2>5 DEF IngestSignal, PersistSignalPool
<1>3. ASSUME NEW i \in inHand, Requeue(i) \/ Attend(i)
      PROVE  AllFinite'
  <2>1. pending' \in {pending, pending \cup {i}} /\ inHand' = inHand \ {i}
    BY <1>3 DEF Requeue, Attend
  <2>2. IsFiniteSet(pending') /\ IsFiniteSet(inHand')
    BY <2>1, FS_AddElement, FS_RemoveElement
  <2>. QED BY <1>3, <2>2 DEF Requeue, Attend
<1>4. ASSUME NEW c \in Chat, Block(c) \/ Remove(c)
      PROVE  AllFinite'
  <2>1. DropChat(c)
    BY <1>4 DEF Block, Remove
  <2>2. pending' \in SUBSET pending /\ signalPool' \in SUBSET signalPool
    BY <2>1 DEF DropChat
  <2>3. IsFiniteSet(pending') /\ IsFiniteSet(signalPool')
    BY <2>2, FS_Subset
  <2>. QED BY <2>1, <2>3 DEF DropChat, PersistSignalPool
<1>5. ASSUME NEW c \in Chat, Unblock(c)
      PROVE  AllFinite'
  BY <1>5 DEF Unblock
<1>6. ASSUME NEW c \in Chat, MarkActioned(c)
      PROVE  AllFinite'
  <2> DEFINE f == [s \in signalPool |->
                     IF s.chat = c THEN [s EXCEPT !.ignored = 0] ELSE s]
  <2>1. f \in Surjection(signalPool, signalPool')
    BY <1>6 DEF MarkActioned, Surjection
  <2>2. IsFiniteSet(signalPool')
    BY <2>1, FS_Surjection
  <2>. QED BY <1>6, <2>2 DEF MarkActioned, PersistSignalPool
<1>7. ASSUME Flush
      PROVE  AllFinite'
  <2>1. /\ pending' \in SUBSET pending /\ signalPool' \in SUBSET signalPool
        /\ inHand' \in SUBSET pending
    BY <1>7 DEF Flush, FirstOf, Unreleased
  <2>2. IsFiniteSet(pending') /\ IsFiniteSet(signalPool') /\ IsFiniteSet(inHand')
    BY <2>1, FS_Subset
  <2>. QED BY <1>7, <2>2 DEF Flush, PersistSignalPool
<1>8. ASSUME SaveState \/ Sorted \/ UNCHANGED vars
      PROVE  AllFinite'
  BY <1>8 DEF SaveState, Sorted, vars
<1>9. ASSUME Restart
      PROVE  AllFinite'
  BY <1>9, RestoredIsFinite, FS_EmptySet DEF Restart
<1>10. ASSUME Tick
       PROVE  AllFinite'
  BY <1>10, OlderIsFinite DEF Tick
<1>. QED
  BY <1>1, <1>2, <1>3, <1>4, <1>5, <1>6, <1>7, <1>8, <1>9, <1>10 DEF Next

\* A flush that leaves an item pending has no slot for a signal.
LEMMA FullFlushShowsNothing ==
  ASSUME AllFinite, Flush, pending' # {}
  PROVE  shown' = shown
<1>1. PICK P \in SUBSET pending, S \in SUBSET signalPool :
             /\ Cardinality(P) = MinOf(MaxWindowItems, Cardinality(pending))
             /\ Cardinality(S) = MinOf(SpareSlots(P), Cardinality(signalPool))
             /\ pending' = pending \ P
             /\ shown' = shown \cup {Key(s) : s \in S}
  BY DEF Flush, FirstOf, Unreleased
<1>2. Cardinality(P) # Cardinality(pending)
  BY <1>1, FS_Subset DEF AllFinite
<1>3. /\ Cardinality(pending) \in Nat /\ Cardinality(signalPool) \in Nat
      /\ MaxWindowItems \in Nat
  BY FS_CardinalityType, ConstantsAssumption DEF AllFinite
<1>4. Cardinality(P) = MaxWindowItems
  BY <1>1, <1>2, <1>3 DEF MinOf
<1>5. Cardinality(S) = 0
  BY <1>1, <1>3, <1>4 DEF SpareSlots, MinOf
<1>6. S = {}
  BY <1>5, FS_Subset, FS_EmptySet DEF AllFinite
<1>. QED BY <1>1, <1>6

\* Every other step releases no signal.
LEMMA OnlyFlushShows ==
  ASSUME [Next]_vars, ~Flush
  PROVE  shown' \subseteq shown
BY DEF Next, vars, Ingest, IngestSignal, Requeue, Attend, Block, Unblock, Remove,
   DropChat, MarkActioned, Sorted, SaveState, Restart, Tick

\* Signals are released only by a flush that leaves no pending item behind, so
\* that the agent's attention is never taken from someone who waits for it.
THEOREM SignalsOnlyFillSlots == Spec => SignalsFillSpareSlots
<1>1. AllFinite /\ [Next]_vars =>
        [(\E k \in (Chat \X Topic) \ shown : k \in shown') => pending' = {}]_vars
  BY FullFlushShowsNothing, OnlyFlushShows
<1>. QED
  BY <1>1, InitAllFinite, NextAllFinite, PTL DEF Spec, SignalsFillSpareSlots

\* The parts of the accumulator's state hang together, for all constants.
THEOREM AccumulatorIsConsistent == Spec => []AccumulatorConsistent
BY AccumulatorTypeCorrect, WindowIsArmed, TopicsAreMerged, PoolAlwaysPersisted, PTL
DEF AccumulatorConsistent
=============================================================================
