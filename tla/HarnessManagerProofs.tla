------------------------- MODULE HarnessManagerProofs -------------------------
(***************************************************************************)
(* Theorems about HarnessManager, for any number of notifications,         *)
(* failures and restarts, and all limits; and about MainLoop, whose tick   *)
(* hands the harness the results of what it has dispatched, for any number *)
(* of chats, tasks and messages, and all caps.                             *)
(***************************************************************************)
EXTENDS HarnessManager, MainLoop, SequenceTheorems, FiniteSetTheorems, FunctionTheorems,
        WellFoundedInduction, TLAPS

\* The ids of q are those that follow n.
Numbered(q, n) == \A i \in 1..Len(q) : q[i].id = n + i

\* The notifications that are over.
done == enqueued - Len(pendingQueue) - Len(currentRun.pending)

\* Notifications are over in the order in which they came: those that wait are
\* the last ones, those of the run before those of the queue.
InTurn ==
  /\ done >= 0
  /\ Numbered(currentRun.pending, done)
  /\ Numbered(pendingQueue, done + Len(currentRun.pending))
  /\ handled \cup lost = 1..done
  /\ handled \cap lost = {}

\* The run under way is the one that was started last, with a batch whose
\* notifications are all marked as tried.
RunIsNewest ==
  \/ currentRun = NoRun
  \/ /\ currentRun.child \in {"alive", "unheard"}
     /\ currentRun.startedAt = starts /\ starts >= 1
     /\ currentRun.pending # <<>>
     /\ \A i \in 1..Len(currentRun.pending) : currentRun.pending[i].tried

\* Each start has failed, or has finished with a notification, or is under way.
StartsCounted ==
  /\ retryTimers <= failures /\ consecutiveFailures <= failures
  /\ starts <= failures + done + (IF currentRun.child = "alive" THEN 1 ELSE 0)

\* A history that has any successful run has the last one, behind it.
HasLast(h, last) ==
  \A i \in 1..Len(h) :
    /\ h[i] <= last
    /\ h[i] # 0 => \E j \in i..Len(h) : h[j] = last

\* The file may be behind what was persisted in memory, and that behind the last
\* success, never ahead of it.
FileBehind ==
  /\ lastSuccessFile <= persistedLastSuccessAt
  /\ persistedLastSuccessAt <= lastSuccess

IInv ==
  /\ TypeOK
  /\ InTurn /\ RunIsNewest /\ StartsCounted
  /\ HasLast(history, lastSuccess) /\ FileBehind
  /\ QueueIsPolled /\ OverrideWaitsWithItsTrigger /\ DreamsAreApart
  /\ DigestsMeet

-----------------------------------------------------------------------------
(* The operators                                                            *)

\* The greatest element of a set is the one that is as great as all of them.
LEMMA MaxIs ==
  ASSUME NEW S \in SUBSET Nat, NEW x \in S, \A y \in S : y <= x
  PROVE  Max(S) = x
<1>1. \A z \in S : (\A y \in S : z >= y) => z = x
  OBVIOUS
<1>2. \A y \in S : x >= y
  OBVIOUS
<1>. QED BY <1>1, <1>2 DEF Max

\* The greater of two numbers.
LEMMA MaxOfTwo ==
  ASSUME NEW x \in Nat, NEW y \in Nat
  PROVE  /\ Max({x, y}) \in {x, y} /\ Max({x, y}) \in Nat
         /\ Max({x, y}) >= x /\ Max({x, y}) >= y
<1>1. CASE x <= y
  BY <1>1, MaxIs
<1>2. CASE y <= x
  BY <1>2, MaxIs
<1>. QED BY <1>1, <1>2

\* The smaller of two numbers.
LEMMA MinOfTwo ==
  ASSUME NEW x \in Nat, NEW y \in Nat
  PROVE  Min({x, y}) = IF x <= y THEN x ELSE y
<1> DEFINE m == IF x <= y THEN x ELSE y
<1>1. m \in {x, y} /\ \A z \in {x, y} : m <= z
  OBVIOUS
<1>2. \A w \in {x, y} : (\A z \in {x, y} : w <= z) => w = m
  OBVIOUS
<1> HIDE DEF m
<1>3. Min({x, y}) = m
  BY <1>1, <1>2 DEF Min
<1>. QED BY <1>3 DEF m

\* A sequence with one more entry.
LEMMA AppendedIs ==
  ASSUME NEW S, NEW s \in Seq(S), NEW x \in S
  PROVE  /\ Append(s, x) \in Seq(S) /\ Append(s, x) # <<>>
         /\ Len(Append(s, x)) = Len(s) + 1 /\ Len(s) \in Nat
         /\ \A i \in 1..Len(s) : Append(s, x)[i] = s[i]
         /\ Append(s, x)[Len(s) + 1] = x
OBVIOUS

\* The newest entries are the end of a sequence.
LEMMA NewestIs ==
  ASSUME NEW S, NEW h \in Seq(S), NEW limit \in Nat
  PROVE  /\ Newest(h, limit) \in Seq(S)
         /\ Len(Newest(h, limit)) \in Nat /\ Len(h) \in Nat
         /\ Len(Newest(h, limit)) <= limit /\ Len(Newest(h, limit)) <= Len(h)
         /\ \A i \in 1..Len(Newest(h, limit)) :
              Newest(h, limit)[i] = h[i + (Len(h) - Len(Newest(h, limit)))]
<1> DEFINE m == Min({limit, Len(h)})
           k == 1 + Len(h) - m
<1>1. Len(h) \in Nat /\ \A i \in 1..Len(h) : h[i] \in S
  BY LenProperties, ElementOfSeq
<1>2. m = (IF limit <= Len(h) THEN limit ELSE Len(h))
  BY <1>1, MinOfTwo
<1> HIDE DEF m
<1>3. m \in Nat /\ m <= limit /\ m <= Len(h)
  BY <1>1, <1>2
<1>4. k \in Int /\ Len(h) \in Int /\ \A i \in k..Len(h) : h[i] \in S
  BY <1>1, <1>3
<1>5. Newest(h, limit) = SubSeq(h, k, Len(h))
  BY DEF Newest, m
<1>6. /\ SubSeq(h, k, Len(h)) \in Seq(S)
      /\ Len(SubSeq(h, k, Len(h))) = IF k <= Len(h) THEN Len(h) - k + 1 ELSE 0
      /\ \A i \in 1..(Len(h) - k + 1) : SubSeq(h, k, Len(h))[i] = h[k + i - 1]
  BY <1>4, SubSeqProperties
<1>7. Len(SubSeq(h, k, Len(h))) = m /\ Len(h) - k + 1 = m
  BY <1>1, <1>3, <1>6
<1>8. \A i \in 1..m : k + i - 1 = i + (Len(h) - m)
  BY <1>1, <1>3
<1>. QED BY <1>1, <1>3, <1>5, <1>6, <1>7, <1>8

\* A batch that is tried is the same batch, but for the mark.
LEMMA TriedIs ==
  ASSUME NEW q \in Seq(Notify)
  PROVE  /\ Tried(q) \in Seq(Notify) /\ Len(Tried(q)) = Len(q) /\ Len(q) \in Nat
         /\ \A i \in 1..Len(q) : /\ Tried(q)[i].id = q[i].id
                                 /\ Tried(q)[i].source = q[i].source
                                 /\ Tried(q)[i].tried
         /\ \A n : Numbered(q, n) => Numbered(Tried(q), n)
         /\ q # <<>> => Tried(q) # <<>>
<1>1. Len(q) \in Nat /\ DOMAIN q = 1..Len(q) /\ \A i \in 1..Len(q) : q[i] \in Notify
  BY LenProperties, ElementOfSeq
<1>2. \A i \in 1..Len(q) : /\ [q[i] EXCEPT !.tried = TRUE] \in Notify
                           /\ [q[i] EXCEPT !.tried = TRUE].id = q[i].id
                           /\ [q[i] EXCEPT !.tried = TRUE].source = q[i].source
                           /\ [q[i] EXCEPT !.tried = TRUE].tried
  BY <1>1 DEF Notify
<1>3. Tried(q) = [i \in 1..Len(q) |-> [q[i] EXCEPT !.tried = TRUE]]
  BY <1>1 DEF Tried
<1>4. Tried(q) \in Seq(Notify) /\ Len(Tried(q)) = Len(q)
  BY <1>1, <1>2, <1>3
<1>5. q # <<>> => Tried(q) # <<>>
  BY <1>1, <1>4, EmptySeq
<1>. QED BY <1>1, <1>2, <1>3, <1>4, <1>5 DEF Numbered

\* The ids of a numbered sequence are a range.
LEMMA IdsOfNumbered ==
  ASSUME NEW S, NEW q \in Seq(S), NEW n \in Int, Numbered(q, n)
  PROVE  Ids(q) = (n + 1)..(n + Len(q))
<1>1. Len(q) \in Nat /\ DOMAIN q = 1..Len(q)
  BY LenProperties
<1>2. Ids(q) \subseteq (n + 1)..(n + Len(q))
  BY <1>1 DEF Ids, Numbered
<1>3. ASSUME NEW x \in (n + 1)..(n + Len(q)) PROVE x \in Ids(q)
  <2>1. x - n \in 1..Len(q) /\ n + (x - n) = x
    BY <1>1
  <2>2. q[x - n].id = x
    BY <2>1 DEF Numbered
  <2>. QED BY <1>1, <2>1, <2>2 DEF Ids
<1>. QED BY <1>2, <1>3

\* A batch that is numbered before the queue is put back before it.
LEMMA PutBackIsNumbered ==
  ASSUME NEW S, NEW b \in Seq(S), NEW q \in Seq(S), NEW n \in Int,
         Numbered(b, n), Numbered(q, n + Len(b))
  PROVE  /\ b \o q \in Seq(S) /\ Len(b \o q) = Len(b) + Len(q)
         /\ Len(b) \in Nat /\ Len(q) \in Nat
         /\ Numbered(b \o q, n)
         /\ \A j \in 1..Len(q) : Len(b) + j \in 1..Len(b \o q) /\ (b \o q)[Len(b) + j] = q[j]
         /\ \A j \in 1..Len(b \o q) :
              \/ j \in 1..Len(b) /\ (b \o q)[j] = b[j]
              \/ j - Len(b) \in 1..Len(q) /\ (b \o q)[j] = q[j - Len(b)]
<1>1. /\ b \o q \in Seq(S) /\ Len(b \o q) = Len(b) + Len(q)
      /\ Len(b) \in Nat /\ Len(q) \in Nat
      /\ \A i \in 1..(Len(b) + Len(q)) :
           (b \o q)[i] = IF i <= Len(b) THEN b[i] ELSE q[i - Len(b)]
  BY ConcatProperties, LenProperties
<1>2. \A j \in 1..Len(b \o q) :
        \/ j \in 1..Len(b) /\ (b \o q)[j] = b[j]
        \/ j - Len(b) \in 1..Len(q) /\ (b \o q)[j] = q[j - Len(b)]
  BY <1>1
<1>3. \A j \in 1..Len(q) : Len(b) + j \in 1..Len(b \o q) /\ (b \o q)[Len(b) + j] = q[j]
  <2> SUFFICES ASSUME NEW j \in 1..Len(q)
               PROVE  Len(b) + j \in 1..Len(b \o q) /\ (b \o q)[Len(b) + j] = q[j]
    OBVIOUS
  <2>1. /\ Len(b) + j \in 1..(Len(b) + Len(q)) /\ ~(Len(b) + j <= Len(b))
        /\ (Len(b) + j) - Len(b) = j
    BY <1>1
  <2>. QED BY <1>1, <2>1
<1>4. ASSUME NEW j \in 1..Len(b \o q) PROVE (b \o q)[j].id = n + j
  <2>1. CASE j \in 1..Len(b) /\ (b \o q)[j] = b[j]
    BY <2>1 DEF Numbered
  <2>2. CASE j - Len(b) \in 1..Len(q) /\ (b \o q)[j] = q[j - Len(b)]
    <3>1. q[j - Len(b)].id = n + Len(b) + (j - Len(b))
      BY <2>2 DEF Numbered
    <3>. QED BY <1>1, <2>2, <3>1
  <2>. QED BY <1>2, <2>1, <2>2
<1>. QED BY <1>1, <1>2, <1>3, <1>4 DEF Numbered

-----------------------------------------------------------------------------
(* The history                                                              *)

\* The oldest runs may be forgotten.
LEMMA NewestHasLast ==
  ASSUME NEW h \in Seq(Nat), NEW last \in Nat, NEW limit \in Nat, HasLast(h, last)
  PROVE  HasLast(Newest(h, limit), last)
<1> DEFINE t == Newest(h, limit)
           d == Len(h) - Len(t)
<1>1. /\ Len(t) \in Nat /\ Len(h) \in Nat /\ Len(t) <= Len(h)
      /\ \A i \in 1..Len(t) : t[i] = h[i + d]
  BY NewestIs
<1> HIDE DEF t
<1>2. ASSUME NEW i \in 1..Len(t)
      PROVE  t[i] <= last /\ (t[i] # 0 => \E j \in i..Len(t) : t[j] = last)
  <2>1. i + d \in 1..Len(h) /\ t[i] = h[i + d]
    BY <1>1
  <2>2. t[i] <= last
    BY <2>1 DEF HasLast
  <2>3. ASSUME t[i] # 0 PROVE \E j \in i..Len(t) : t[j] = last
    <3>1. PICK j \in (i + d)..Len(h) : h[j] = last
      BY <2>1, <2>3 DEF HasLast
    <3>2. j - d \in i..Len(t) /\ j - d \in 1..Len(t) /\ (j - d) + d = j
      BY <1>1
    <3>3. t[j - d] = h[j]
      BY <1>1, <3>2
    <3>. QED BY <3>1, <3>2, <3>3
  <2>. QED BY <2>2, <2>3
<1>. QED BY <1>2 DEF HasLast, t

\* A run that fails hides no success, and one that succeeds is the last.
LEMMA AppendedHasLast ==
  ASSUME NEW h \in Seq(Nat), NEW last \in Nat, NEW x \in Nat, HasLast(h, last),
         x = 0 \/ x >= last
  PROVE  HasLast(Append(h, x), IF x = 0 THEN last ELSE x)
<1> DEFINE t == Append(h, x)
<1>1. /\ t \in Seq(Nat) /\ Len(t) = Len(h) + 1 /\ Len(h) \in Nat
      /\ \A i \in 1..Len(h) : t[i] = h[i]
      /\ t[Len(h) + 1] = x
  BY AppendedIs
<1>2. \A i \in 1..Len(h) : h[i] \in Nat
  BY ElementOfSeq
<1> HIDE DEF t
<1>3. CASE x = 0
  <2> SUFFICES ASSUME NEW i \in 1..Len(t)
               PROVE  t[i] <= last /\ (t[i] # 0 => \E j \in i..Len(t) : t[j] = last)
    BY <1>3 DEF HasLast, t
  <2>1. CASE i = Len(h) + 1
    BY <1>1, <1>3, <2>1
  <2>2. CASE i \in 1..Len(h)
    <3>1. t[i] = h[i] /\ t[i] <= last
      BY <1>1, <2>2 DEF HasLast
    <3>2. ASSUME t[i] # 0 PROVE \E j \in i..Len(t) : t[j] = last
      <4>1. PICK j \in i..Len(h) : h[j] = last
        BY <2>2, <3>1, <3>2 DEF HasLast
      <4>2. j \in i..Len(t) /\ j \in 1..Len(h)
        BY <1>1, <2>2
      <4>. QED BY <1>1, <4>1, <4>2
    <3>. QED BY <3>1, <3>2
  <2>. QED BY <1>1, <2>1, <2>2
<1>4. CASE x # 0
  <2> SUFFICES ASSUME NEW i \in 1..Len(t)
               PROVE  t[i] <= x /\ (t[i] # 0 => \E j \in i..Len(t) : t[j] = x)
    BY <1>4 DEF HasLast, t
  <2>1. Len(h) + 1 \in i..Len(t)
    BY <1>1
  <2>2. CASE i = Len(h) + 1
    BY <1>1, <2>2
  <2>3. CASE i \in 1..Len(h)
    <3>1. t[i] \in Nat /\ t[i] <= last
      BY <1>1, <1>2, <2>3 DEF HasLast
    <3>2. t[i] <= x
      BY <1>4, <3>1
    <3>3. \E j \in i..Len(t) : t[j] = x
      BY <1>1, <2>1
    <3>. QED BY <3>2, <3>3
  <2>. QED BY <1>1, <2>2, <2>3
<1>. QED BY <1>3, <1>4

\* So does what is remembered of them.
LEMMA RememberedHasLast ==
  ASSUME NEW n \in Nat, history \in Seq(0..n), NEW last \in Nat, NEW x \in 0..n,
         HasLast(history, last), x = 0 \/ x >= last
  PROVE  /\ Remembered(x) \in Seq(0..n) /\ Len(Remembered(x)) <= MaxHistory
         /\ HasLast(Remembered(x), IF x = 0 THEN last ELSE x)
<1> DEFINE t == Append(history, x)
<1>1. t \in Seq(0..n) /\ MaxHistory \in Nat
  BY AppendedIs, HarnessAssumption
<1>2. history \in Seq(Nat) /\ t \in Seq(Nat) /\ x \in Nat
  BY <1>1, SeqMonotonic
<1>3. HasLast(t, IF x = 0 THEN last ELSE x)
  BY <1>2, AppendedHasLast
<1>4. (IF x = 0 THEN last ELSE x) \in Nat
  BY <1>2
<1> HIDE DEF t
<1>. QED BY <1>1, <1>2, <1>3, <1>4, NewestIs, NewestHasLast DEF Remembered, t

\* The digest of a run that starts now begins with the last success, if the
\* file knows of it, or before.
LEMMA DigestBegins ==
  ASSUME history \in Seq(0..starts), starts \in Nat, lastSuccess \in Nat,
         lastSuccess <= starts, persistedLastSuccessAt \in Nat, lastSuccessFile \in Nat,
         HasLast(history, lastSuccess), FileBehind
  PROVE  /\ SinceLastSuccess \in 0..starts
         /\ SinceLastSuccess <= lastSuccess
         /\ lastSuccessFile = lastSuccess => SinceLastSuccess = lastSuccess
<1>1. Len(history) \in Nat /\ DOMAIN history = 1..Len(history)
      /\ \A i \in 1..Len(history) : history[i] \in 0..starts
  BY LenProperties, ElementOfSeq
<1>2. CASE \E start \in ToSet(history) : start # 0
  <2>1. PICK i \in 1..Len(history) : history[i] # 0
    BY <1>1, <1>2 DEF ToSet
  <2>2. PICK j \in i..Len(history) : history[j] = lastSuccess
    BY <2>1 DEF HasLast
  <2>3. lastSuccess \in ToSet(history)
    <3>1. j \in 1..Len(history)
      BY <1>1, <2>1, <2>2
    <3>. QED BY <1>1, <2>2, <3>1 DEF ToSet
  <2>4. ToSet(history) \in SUBSET Nat /\ \A y \in ToSet(history) : y <= lastSuccess
    BY <1>1 DEF ToSet, HasLast
  <2>5. Max(ToSet(history)) = lastSuccess
    BY <2>3, <2>4, MaxIs
  <2>. QED BY <1>2, <2>5 DEF SinceLastSuccess
<1>3. CASE ~\E start \in ToSet(history) : start # 0
  BY <1>3 DEF SinceLastSuccess, FileBehind
<1>. QED BY <1>2, <1>3

-----------------------------------------------------------------------------
(* The steps                                                                *)

\* The type invariant of what is queued and run.
LEMMA QueueTyped ==
  ASSUME TypeOK
  PROVE  /\ pendingQueue \in Seq(Notify) /\ Len(pendingQueue) \in Nat
         /\ currentRun.pending \in Seq(Notify) /\ Len(currentRun.pending) \in Nat
         /\ enqueued \in 0..MaxNotifies /\ enqueued \in Nat /\ done \in Int
<1>1. /\ pendingQueue \in Seq(Notify) /\ currentRun.pending \in Seq(Notify)
      /\ enqueued \in 0..MaxNotifies
  BY DEF TypeOK
<1>2. Len(pendingQueue) \in Nat /\ Len(currentRun.pending) \in Nat
  BY <1>1, LenProperties
<1>3. enqueued \in Nat
  BY <1>1, HarnessAssumption
<1>. QED BY <1>1, <1>2, <1>3 DEF done

\* The type invariant of what is counted.
LEMMA NumbersTyped ==
  ASSUME TypeOK
  PROVE  /\ starts \in Nat /\ starts <= MaxNotifies + MaxFailures
         /\ failures \in Nat /\ failures <= MaxFailures
         /\ retryTimers \in Nat /\ consecutiveFailures \in Nat
         /\ MaxFailures \in Nat /\ MaxNotifies \in Nat /\ MaxRestarts \in Nat
         /\ RetryLimit \in Nat /\ MaxHistory \in Nat /\ MaxJournals \in Nat
<1>1. /\ MaxFailures \in Nat /\ MaxNotifies \in Nat /\ MaxRestarts \in Nat
      /\ RetryLimit \in Nat /\ MaxHistory \in Nat /\ MaxJournals \in Nat
  BY HarnessAssumption
<1>2. /\ starts \in 0..(MaxNotifies + MaxFailures) /\ failures \in 0..MaxFailures
      /\ retryTimers \in 0..MaxFailures /\ consecutiveFailures \in 0..MaxFailures
  BY DEF TypeOK
<1>. QED BY <1>1, <1>2

\* The type invariant of what the digests depend on.
LEMMA HistoryTyped ==
  ASSUME TypeOK
  PROVE  /\ history \in Seq(0..starts) /\ Len(history) <= MaxHistory
         /\ persistedLastSuccessAt \in Nat /\ persistedLastSuccessAt <= starts
         /\ lastSuccessFile \in Nat /\ lastSuccessFile <= starts
         /\ lastSuccess \in Nat /\ lastSuccess <= starts
<1>1. starts \in Nat
  BY NumbersTyped
<1>2. /\ history \in Seq(0..starts) /\ Len(history) <= MaxHistory
      /\ persistedLastSuccessAt \in 0..starts /\ lastSuccessFile \in 0..starts
      /\ lastSuccess \in 0..starts
  BY DEF TypeOK
<1>. QED BY <1>1, <1>2

\* The record of no run.
LEMMA NoRunIs ==
  /\ NoRun.pending = <<>> /\ NoRun.child = "none" /\ NoRun.startedAt = 0
  /\ Len(<<>>) = 0 /\ \A n : Numbered(<<>>, n)
  /\ \A n \in Nat : NoRun \in [startedAt : 0..n, pending : Seq(Notify), since : 0..n,
                               overridden : BOOLEAN,
                               child : {"none", "alive", "unheard"}]
<1>1. <<>> \in Seq(Notify) /\ Len(<<>>) = 0
  BY EmptySeq
<1>. QED BY <1>1 DEF NoRun, Numbered

\* What is at most a sum is at most the sum of the bounds.
LEMMA SumIsBounded ==
  ASSUME NEW s \in Nat, NEW x \in Nat, NEW y \in Int, NEW M \in Nat, NEW N \in Nat,
         x <= M, y <= N, s <= x + y
  PROVE  s <= N + M
OBVIOUS

\* What a start needs of the queue q that it takes, with which all are numbered.
Takes(q) ==
  /\ ~running /\ ~shuttingDown
  /\ q \in Seq(Notify) /\ q # <<>> /\ Numbered(q, done)
  /\ enqueued' \in 0..MaxNotifies /\ Len(q) = enqueued' - done
  /\ relaunchTimer' \in BOOLEAN
  /\ UNCHANGED <<persisted, shuttingDown, ledger, restarts>>

\* A start that fails puts its batch back, marked, and leaves a timer for it
\* unless there were too many in a row.
LEMMA FailedStartKeeps ==
  ASSUME IInv, NEW q, Takes(q), NEW timers \in Nat, timers <= retryTimers,
         handleSpawnFailure(Tried(q), timers),
         starts' = starts + 1, elapsed' = "short", dreamingSinceOverride' = FALSE
  PROVE  IInv'
<1>1. TypeOK /\ currentRun = NoRun /\ currentRun' = NoRun
  BY DEF IInv, Takes, running, handleSpawnFailure
<1>a. /\ starts \in Nat /\ failures \in Nat /\ MaxFailures \in Nat /\ MaxNotifies \in Nat
      /\ retryTimers \in Nat /\ consecutiveFailures \in Nat
  BY NumbersTyped DEF IInv
<1>b. done \in Int /\ enqueued \in Nat
  BY QueueTyped DEF IInv
<1>2. /\ Tried(q) \in Seq(Notify) /\ Len(Tried(q)) = Len(q) /\ Len(q) \in Nat
      /\ Numbered(Tried(q), done) /\ Tried(q) # <<>>
      /\ \A i \in 1..Len(q) : Tried(q)[i].tried
      /\ DOMAIN Tried(q) = 1..Len(q)
  BY TriedIs, LenProperties DEF Takes
<1>3. pendingQueue' = Tried(q) /\ done' = done
  <2>1. pendingQueue' = Tried(q)
    BY DEF handleSpawnFailure
  <2>. QED BY <1>1, <1>2, <2>1, QueueTyped, NoRunIs DEF done, Takes
<1>4. InTurn' /\ RunIsNewest'
  BY <1>1, <1>2, <1>3, NoRunIs, QueueTyped DEF IInv, InTurn, RunIsNewest, Takes, ledger
<1>5. /\ failures' = failures + 1 /\ failures' \in 0..MaxFailures
      /\ consecutiveFailures' = consecutiveFailures + 1
      /\ retryTimers' = (IF Retries(consecutiveFailures') THEN timers + 1 ELSE timers)
  <2>1. /\ failures < MaxFailures /\ failures' = failures + 1
        /\ consecutiveFailures' = consecutiveFailures + 1
        /\ retryTimers' = (IF ~shuttingDown /\ Retries(consecutiveFailures + 1)
                           THEN timers + 1 ELSE timers)
    BY DEF handleSpawnFailure
  <2>2. ~shuttingDown
    BY DEF Takes
  <2>3. failures' \in 0..MaxFailures
    BY <1>1, <2>1, NumbersTyped
  <2>. QED BY <2>1, <2>2, <2>3
<1>6. StartsCounted'
  <2>1. /\ retryTimers <= failures /\ consecutiveFailures <= failures
        /\ starts <= failures + done
    BY <1>1, NoRunIs, NumbersTyped, QueueTyped DEF IInv, StartsCounted
  <2>2. retryTimers' <= failures' /\ consecutiveFailures' <= failures'
    BY <1>1, <1>5, <2>1, NumbersTyped
  <2>3. starts' <= failures' + done' /\ currentRun'.child = "none"
    BY <1>1, <1>a, <1>b, <1>3, <1>5, <2>1, NoRunIs
  <2>4. failures' \in Nat /\ done' \in Int
    BY <1>a, <1>b, <1>3, <1>5
  <2>. QED BY <2>2, <2>3, <2>4 DEF StartsCounted
<1>7. starts' \in 0..(MaxNotifies + MaxFailures)
  <2>1. starts' <= failures' + done' /\ failures' \in Nat /\ failures' <= MaxFailures
    BY <1>1, <1>a, <1>b, <1>3, <1>5, <1>6, NoRunIs DEF StartsCounted
  <2>2. done' <= MaxNotifies /\ done' \in Int
    BY <1>a, <1>b, <1>2, <1>3 DEF Takes
  <2>3. starts' \in Nat
    BY <1>a
  <2>4. starts' <= MaxNotifies + MaxFailures
    BY <1>a, <2>1, <2>2, <2>3, SumIsBounded
  <2>. QED BY <1>a, <2>3, <2>4
<1>8. /\ history' = Remembered(0) /\ history' \in Seq(0..starts')
      /\ Len(history') <= MaxHistory /\ HasLast(history', lastSuccess')
  <2>1. history \in Seq(0..starts') /\ starts' \in Nat /\ 0 \in 0..starts'
    <3>1. starts \in Nat /\ history \in Seq(0..starts)
      BY <1>1, HistoryTyped, NumbersTyped
    <3>2. 0..starts \subseteq 0..starts' /\ starts' \in Nat
      BY <3>1
    <3>. QED BY <3>1, <3>2, SeqMonotonic
  <2>2. HasLast(history, lastSuccess) /\ lastSuccess \in Nat
    BY <1>1, HistoryTyped DEF IInv
  <2>3. history' = Remembered(0) /\ lastSuccess' = lastSuccess
    BY DEF handleSpawnFailure, Takes, persisted
  <2>. QED BY <2>1, <2>2, <2>3, RememberedHasLast
<1>9. TypeOK'
  <2>1. enqueued' \in 0..MaxNotifies /\ pendingQueue' \in Seq(Notify)
    BY <1>2, <1>3 DEF Takes
  <2>2. retryTimers' \in 0..MaxFailures /\ consecutiveFailures' \in 0..MaxFailures
    BY <1>1, <1>5, <1>6, NumbersTyped DEF StartsCounted
  <2>3. currentRun' \in [startedAt : 0..starts', pending : Seq(Notify), since : 0..starts',
                        overridden : BOOLEAN, child : {"none", "alive", "unheard"}]
    BY <1>1, <1>7, NoRunIs, NumbersTyped
  <2>4. {persistedLastSuccessAt', lastSuccessFile', lastSuccess'} \subseteq 0..starts'
    <3>1. /\ lastSuccess \in 0..starts /\ persistedLastSuccessAt \in 0..starts
          /\ lastSuccessFile \in 0..starts
      BY <1>1, <1>a, HistoryTyped
    <3>2. 0..starts \subseteq 0..starts'
      BY <1>a
    <3>. QED BY <3>1, <3>2 DEF Takes, persisted
  <2>. QED
    BY <1>1, <1>5, <1>7, <1>8, <2>1, <2>2, <2>3, <2>4 DEF TypeOK, Takes, ledger
<1>10. FileBehind' /\ DigestsMeet'
  BY <1>1 DEF IInv, FileBehind, DigestsMeet, running, Takes, persisted
<1>11. QueueIsPolled' /\ OverrideWaitsWithItsTrigger' /\ DreamsAreApart'
  <2>1. \A n \in ToSet(pendingQueue') : n.tried
    BY <1>2, <1>3 DEF ToSet
  <2>2. retryTimers' > 0 \/ consecutiveFailures' > RetryLimit
    BY <1>1, <1>5, NumbersTyped DEF Retries
  <2>. QED BY <2>1, <2>2 DEF QueueIsPolled, OverrideWaitsWithItsTrigger, DreamsAreApart
<1>. QED BY <1>4, <1>6, <1>8, <1>9, <1>10, <1>11 DEF IInv

\* A start that has its process takes the whole queue, and its digest goes back
\* to the last success.
LEMMA StartKeeps ==
  ASSUME IInv, NEW q, Takes(q), NEW override \in BOOLEAN,
         NEW timers \in Nat, timers <= retryTimers,
         NEW child \in {"alive", "unheard"},
         currentRun' = [startedAt |-> starts + 1, pending |-> Tried(q),
                        since |-> IF override THEN 0 ELSE SinceLastSuccess,
                        overridden |-> override, child |-> child],
         failures' \in 0..MaxFailures,
         failures' = failures + (IF child = "alive" THEN 0 ELSE 1),
         pendingQueue' = <<>>, retryTimers' = timers,
         UNCHANGED <<consecutiveFailures, history>>,
         starts' = starts + 1, elapsed' = "short", dreamingSinceOverride' = FALSE
  PROVE  IInv'
<1>1. TypeOK /\ currentRun = NoRun
  BY DEF IInv, Takes, running
<1>a. /\ starts \in Nat /\ failures \in Nat /\ MaxFailures \in Nat /\ MaxNotifies \in Nat
      /\ retryTimers \in Nat /\ consecutiveFailures \in Nat
  BY NumbersTyped DEF IInv
<1>b. done \in Int /\ enqueued \in Nat
  BY QueueTyped DEF IInv
<1>2. /\ Tried(q) \in Seq(Notify) /\ Len(Tried(q)) = Len(q) /\ Len(q) \in Nat
      /\ Numbered(Tried(q), done) /\ Tried(q) # <<>> /\ Len(q) >= 1
      /\ \A i \in 1..Len(q) : Tried(q)[i].tried
  BY TriedIs, EmptySeq DEF Takes
<1>3. /\ currentRun'.startedAt = starts + 1 /\ currentRun'.pending = Tried(q)
      /\ currentRun'.since = (IF override THEN 0 ELSE SinceLastSuccess)
      /\ currentRun'.overridden = override /\ currentRun'.child = child
  OBVIOUS
<1>4. done' = done
  BY <1>1, <1>2, <1>3, QueueTyped, NoRunIs DEF done, Takes
<1>5. InTurn' /\ RunIsNewest'
  <2>1. /\ Len(pendingQueue') = 0 /\ \A n : Numbered(pendingQueue', n)
        /\ Len(currentRun'.pending) \in Nat
    BY <1>2, <1>3, NoRunIs
  <2>2. InTurn'
    BY <1>2, <1>3, <1>4, <2>1 DEF IInv, InTurn, Takes, ledger
  <2>3. starts' >= 1
    BY <1>1, NumbersTyped
  <2>. QED BY <1>2, <1>3, <2>2, <2>3 DEF RunIsNewest
<1>6. StartsCounted'
  <2>1. /\ retryTimers <= failures /\ consecutiveFailures <= failures
        /\ starts <= failures + done
    BY <1>1, NoRunIs, NumbersTyped, QueueTyped DEF IInv, StartsCounted
  <2>2. failures \in Nat /\ failures' \in Nat /\ failures <= failures'
    BY <1>a
  <2>3. retryTimers' <= failures' /\ consecutiveFailures' <= failures'
    BY <1>a, <2>1, <2>2
  <2>4. starts' <= failures' + done' + (IF currentRun'.child = "alive" THEN 1 ELSE 0)
    <3>1. CASE child = "alive"
      BY <1>a, <1>b, <1>3, <1>4, <2>1, <3>1
    <3>2. CASE child # "alive"
      BY <1>a, <1>b, <1>3, <1>4, <2>1, <3>2
    <3>. QED BY <3>1, <3>2
  <2>. QED BY <2>3, <2>4 DEF StartsCounted
<1>7. starts' \in 0..(MaxNotifies + MaxFailures) /\ starts' \in Nat
  <2>1. /\ starts' <= failures' + (done' + 1) /\ failures' \in Nat /\ failures' <= MaxFailures
    BY <1>a, <1>b, <1>3, <1>4, <1>6 DEF StartsCounted
  <2>2. done' + 1 <= MaxNotifies /\ done' + 1 \in Int
    BY <1>a, <1>b, <1>2, <1>4 DEF Takes
  <2>3. starts' \in Nat
    BY <1>a
  <2>4. starts' <= MaxNotifies + MaxFailures
    BY <1>a, <2>1, <2>2, <2>3, SumIsBounded
  <2>. QED BY <1>a, <2>3, <2>4
<1>8. /\ SinceLastSuccess \in 0..starts'
      /\ SinceLastSuccess <= lastSuccess
      /\ lastSuccessFile = lastSuccess => SinceLastSuccess = lastSuccess
  BY <1>1, HistoryTyped, NumbersTyped, DigestBegins DEF IInv
<1>9. history' \in Seq(0..starts') /\ Len(history') <= MaxHistory
  <2>1. /\ starts \in Nat /\ history \in Seq(0..starts) /\ history' = history
        /\ Len(history) <= MaxHistory
    BY <1>1, HistoryTyped, NumbersTyped
  <2>2. 0..starts \subseteq 0..starts'
    BY <2>1
  <2>. QED BY <2>1, <2>2, SeqMonotonic
<1>10. currentRun' \in [startedAt : 0..starts', pending : Seq(Notify),
                        since : 0..starts', overridden : BOOLEAN,
                        child : {"none", "alive", "unheard"}]
  BY <1>2, <1>7, <1>8
<1>11. TypeOK'
  <2>1. enqueued' \in 0..MaxNotifies /\ pendingQueue' \in Seq(Notify)
    BY EmptySeq DEF Takes
  <2>2. retryTimers' \in 0..MaxFailures /\ consecutiveFailures' \in 0..MaxFailures
    BY <1>1, <1>6, NumbersTyped DEF StartsCounted
  <2>3. {persistedLastSuccessAt', lastSuccessFile', lastSuccess'} \subseteq 0..starts'
    <3>1. /\ lastSuccess \in 0..starts /\ persistedLastSuccessAt \in 0..starts
          /\ lastSuccessFile \in 0..starts
      BY <1>1, <1>a, HistoryTyped
    <3>2. 0..starts \subseteq 0..starts'
      BY <1>a
    <3>. QED BY <3>1, <3>2 DEF Takes, persisted
  <2>. QED BY <1>1, <1>7, <1>9, <1>10, <2>1, <2>2, <2>3 DEF TypeOK, Takes, ledger
<1>12. HasLast(history', lastSuccess') /\ FileBehind' /\ DigestsMeet'
  BY <1>3, <1>8 DEF IInv, FileBehind, DigestsMeet, Takes, persisted
<1>13. QueueIsPolled' /\ OverrideWaitsWithItsTrigger' /\ DreamsAreApart'
  BY NoRunIs, EmptySeq DEF QueueIsPolled, OverrideWaitsWithItsTrigger, DreamsAreApart, ToSet
<1>. QED BY <1>5, <1>6, <1>11, <1>12, <1>13 DEF IInv

\* So launch() keeps IInv, however the start comes out.
LEMMA LaunchKeeps ==
  ASSUME IInv, NEW q, Takes(q), NEW override \in BOOLEAN,
         NEW timers \in Nat, timers <= retryTimers, launch(q, override, timers)
  PROVE  IInv'
<1>1. starts' = starts + 1 /\ elapsed' = "short" /\ dreamingSinceOverride' = FALSE
  BY DEF launch, OverrideAfterLaunch
<1>2. CASE handleSpawnFailure(Tried(q), timers)
  BY <1>1, <1>2, FailedStartKeeps
<1>3. CASE ~handleSpawnFailure(Tried(q), timers)
  <2> DEFINE run(child) == [startedAt |-> starts + 1, pending |-> Tried(q),
                            since |-> IF override THEN 0 ELSE SinceLastSuccess,
                            overridden |-> override, child |-> child]
  <2>1. /\ pendingQueue' = <<>> /\ retryTimers' = timers
        /\ UNCHANGED <<consecutiveFailures, history>>
        /\ \/ currentRun' = run("alive") /\ failures' = failures
           \/ /\ failures < MaxFailures /\ failures' = failures + 1
              /\ currentRun' = run("unheard")
    BY <1>3 DEF launch
  <2>2. failures \in 0..MaxFailures /\ MaxFailures \in Nat
    BY NumbersTyped DEF IInv
  <2>3. CASE currentRun' = run("alive") /\ failures' = failures
    <3>1. failures' = failures + 0 /\ failures' \in 0..MaxFailures
      BY <2>2, <2>3
    <3>. QED BY <1>1, <2>1, <2>3, <3>1, StartKeeps
  <2>4. CASE /\ failures < MaxFailures /\ failures' = failures + 1
             /\ currentRun' = run("unheard")
    <3>1. failures' \in 0..MaxFailures
      BY <2>2, <2>4
    <3>. QED BY <1>1, <2>1, <2>4, <3>1, StartKeeps
  <2>. QED BY <2>1, <2>3, <2>4
<1>. QED BY <1>2, <1>3

\* What is unchanged of the run leaves what depends on it alone.
LEMMA RunRests ==
  ASSUME IInv, UNCHANGED <<currentRun, starts, persisted, history>>
  PROVE  RunIsNewest' /\ HasLast(history', lastSuccess') /\ FileBehind' /\ DigestsMeet'
BY DEF IInv, RunIsNewest, FileBehind, DigestsMeet, persisted, running

\* A notification goes to the end of the queue, and is launched with it if
\* nothing is under way.
LEMMA EnqueueKeeps ==
  ASSUME IInv, NEW source \in Source, NEW since \in BOOLEAN, Enqueue(source, since)
  PROVE  IInv'
<1> DEFINE n == [id |-> enqueued + 1, source |-> source, tried |-> FALSE]
           q == Append(pendingQueue, n)
           override == dreamingSinceOverride \/ since
<1>1. TypeOK /\ InTurn /\ RunIsNewest
  BY DEF IInv
<1>a. /\ done \in Int /\ enqueued \in Nat /\ pendingQueue \in Seq(Notify)
      /\ Len(pendingQueue) \in Nat /\ Len(currentRun.pending) \in Nat
      /\ done + Len(currentRun.pending) + Len(pendingQueue) = enqueued
  BY <1>1, QueueTyped DEF done
<1>2. /\ enqueued + 1 \in 1..MaxNotifies /\ enqueued + 1 \in 0..MaxNotifies
      /\ enqueued' = enqueued + 1 /\ ~shuttingDown
      /\ UNCHANGED <<relaunchTimer, persisted, shuttingDown, ledger, restarts>>
  BY <1>1, <1>a, NumbersTyped DEF Enqueue
<1>3. n \in Notify /\ n.id = enqueued + 1 /\ ~n.tried /\ n.source = source
  BY <1>2 DEF Notify
<1> HIDE DEF n
<1>4. /\ q \in Seq(Notify) /\ q # <<>> /\ Len(q) = Len(pendingQueue) + 1
      /\ \A i \in 1..Len(pendingQueue) : q[i] = pendingQueue[i]
      /\ q[Len(pendingQueue) + 1] = n
  BY <1>a, <1>3, AppendedIs
<1>5. Numbered(q, done + Len(currentRun.pending))
  <2> SUFFICES ASSUME NEW i \in 1..Len(q)
               PROVE  q[i].id = done + Len(currentRun.pending) + i
    BY DEF Numbered
  <2>1. CASE i = Len(pendingQueue) + 1
    <3>1. enqueued + 1 = done + Len(currentRun.pending) + (Len(pendingQueue) + 1)
      <4> DEFINE d == done
                 l == Len(pendingQueue)
                 b == Len(currentRun.pending)
                 e == enqueued
      <4>1. d \in Int /\ b \in Nat /\ l \in Nat /\ e \in Nat /\ d + b + l = e
        BY <1>a
      <4> HIDE DEF d, l, b, e
      <4>2. e + 1 = d + b + (l + 1)
        BY <4>1
      <4>. QED BY <4>2 DEF d, l, b, e
    <3>. QED BY <1>3, <1>4, <2>1, <3>1
  <2>2. CASE i \in 1..Len(pendingQueue)
    BY <1>1, <1>4, <2>2 DEF InTurn, Numbered
  <2>. QED BY <1>a, <1>4, <2>1, <2>2
<1>6. override \in BOOLEAN
  BY <1>1 DEF TypeOK
<1>7. CASE ~(running \/ relaunchTimer)
  <2>1. launch(q, override, retryTimers)
    BY <1>7 DEF Enqueue, n
  <2>2. Len(currentRun.pending) = 0
    BY <1>7, NoRunIs DEF running
  <2>3. relaunchTimer' \in BOOLEAN
    BY <1>1, <1>2 DEF TypeOK
  <2>4. Numbered(q, done) /\ Len(q) = enqueued' - done
    BY <1>a, <1>2, <1>4, <1>5, <2>2
  <2>5. Takes(q)
    BY <1>2, <1>4, <1>7, <2>3, <2>4 DEF Takes
  <2>6. retryTimers \in Nat /\ retryTimers <= retryTimers
    BY <1>1, NumbersTyped
  <2> HIDE DEF q, override
  <2>. QED BY <1>6, <2>1, <2>5, <2>6, LaunchKeeps
<1>8. CASE running \/ relaunchTimer
  <2>1. /\ pendingQueue' = q /\ dreamingSinceOverride' = override
        /\ UNCHANGED <<retryTimers, currentRun, consecutiveFailures, history, starts,
                       elapsed, failures>>
    BY <1>8 DEF Enqueue, StayQueued, n
  <2> HIDE DEF override
  <2>2. TypeOK'
    BY <1>1, <1>2, <1>4, <1>6, <2>1 DEF TypeOK, persisted, ledger
  <2> HIDE DEF q
  <2>3. done' = done
    BY <1>a, <1>2, <1>4, <2>1 DEF done
  <2>4. InTurn' /\ StartsCounted'
    BY <1>2, <1>5, <2>1, <2>3 DEF IInv, InTurn, StartsCounted, ledger
  <2>5. QueueIsPolled'
    BY <1>2, <1>8, <2>1 DEF QueueIsPolled, running
  <2>6. \A m \in ToSet(q) : m \in ToSet(pendingQueue) \/ m = n
    <3>1. DOMAIN q = 1..Len(q) /\ DOMAIN pendingQueue = 1..Len(pendingQueue)
      BY <1>4, <1>a, LenProperties
    <3>2. \A i \in 1..Len(q) : i \in 1..Len(pendingQueue) \/ i = Len(pendingQueue) + 1
      BY <1>a, <1>4
    <3>. QED BY <1>4, <3>1, <3>2 DEF ToSet
  <2>7. n \in ToSet(q) /\ ToSet(pendingQueue) \subseteq ToSet(q)
    <3>1. DOMAIN q = 1..Len(q) /\ DOMAIN pendingQueue = 1..Len(pendingQueue)
      BY <1>4, <1>a, LenProperties
    <3>2. Len(pendingQueue) + 1 \in 1..Len(q) /\ 1..Len(pendingQueue) \subseteq 1..Len(q)
      BY <1>a, <1>4
    <3>. QED BY <1>4, <3>1, <3>2 DEF ToSet
  <2>8. OverrideWaitsWithItsTrigger'
    <3>1. CASE since
      <4>1. n.source = "dashboard"
        BY <1>3, <3>1 DEF Enqueue
      <4>. QED BY <1>3, <2>1, <2>7, <4>1 DEF OverrideWaitsWithItsTrigger
    <3>2. CASE ~since
      BY <2>1, <2>7, <3>2 DEF override, IInv, OverrideWaitsWithItsTrigger
    <3>. QED BY <3>1, <3>2
  <2>9. DreamsAreApart'
    BY <1>3, <2>1, <2>6 DEF Enqueue, PassesThrottle, IInv, DreamsAreApart
  <2>. QED BY <1>2, <2>1, <2>2, <2>4, <2>5, <2>8, <2>9, RunRests DEF IInv
<1>. QED BY <1>7, <1>8

\* A timer launches what is queued, unless there is nothing to do for it.
LEMMA TimersKeep ==
  ASSUME IInv, RelaunchFires \/ RetryFires
  PROVE  IInv'
<1>1. TypeOK /\ InTurn /\ RunIsNewest
  BY DEF IInv
<1>2. PICK timers \in Nat : /\ timers <= retryTimers /\ LaunchIfIdle(timers)
                            /\ timers = retryTimers \/ UNCHANGED relaunchTimer
  <2>1. CASE RelaunchFires
    <3>1. retryTimers \in Nat /\ retryTimers <= retryTimers
      BY <1>1, NumbersTyped
    <3>. QED BY <2>1, <3>1 DEF RelaunchFires
  <2>2. CASE RetryFires
    <3>1. retryTimers - 1 \in Nat /\ retryTimers - 1 <= retryTimers
      BY <1>1, <2>2, NumbersTyped DEF RetryFires
    <3>. QED BY <2>2, <3>1 DEF RetryFires
  <2>. QED BY <2>1, <2>2
<1>3. /\ relaunchTimer' \in BOOLEAN
      /\ UNCHANGED <<enqueued, persisted, shuttingDown, ledger, restarts>>
  BY <1>1 DEF RelaunchFires, RetryFires, TypeOK
<1>4. CASE MayLaunch
  <2>1. launch(pendingQueue, dreamingSinceOverride, timers)
    BY <1>2, <1>4 DEF LaunchIfIdle
  <2>2. Len(currentRun.pending) = 0
    BY <1>4, NoRunIs DEF MayLaunch, running
  <2>3. Numbered(pendingQueue, done) /\ Len(pendingQueue) = enqueued' - done
    BY <1>1, <1>3, <2>2, QueueTyped DEF InTurn, done
  <2>4. Takes(pendingQueue)
    BY <1>1, <1>3, <1>4, <2>3, QueueTyped DEF Takes, MayLaunch
  <2>5. dreamingSinceOverride \in BOOLEAN
    BY <1>1 DEF TypeOK
  <2>. QED BY <1>2, <2>1, <2>4, <2>5, LaunchKeeps
<1>5. CASE ~MayLaunch
  <2>1. /\ retryTimers' = timers
        /\ UNCHANGED <<pendingQueue, dreamingSinceOverride, currentRun,
                       consecutiveFailures, history, starts, elapsed, failures>>
    BY <1>2, <1>5 DEF LaunchIfIdle, StayQueued
  <2>2. retryTimers' \in 0..MaxFailures /\ retryTimers' <= failures'
    <3>1. /\ retryTimers \in Nat /\ failures \in Nat /\ MaxFailures \in Nat
          /\ failures <= MaxFailures /\ retryTimers <= failures
      BY <1>1, NumbersTyped DEF IInv, StartsCounted
    <3>2. timers <= failures /\ timers <= MaxFailures
      BY <1>2, <3>1
    <3>. QED BY <2>1, <3>1, <3>2
  <2>3. TypeOK'
    BY <1>1, <1>3, <2>1, <2>2 DEF TypeOK, persisted, ledger
  <2>4. InTurn' /\ StartsCounted' /\ OverrideWaitsWithItsTrigger' /\ DreamsAreApart'
    BY <1>3, <2>1, <2>2 DEF IInv, InTurn, StartsCounted, done, ledger,
       OverrideWaitsWithItsTrigger, DreamsAreApart
  <2>5. QueueIsPolled'
    BY <1>3, <1>5, <2>1 DEF MayLaunch, QueueIsPolled, running
  <2>. QED BY <1>3, <2>1, <2>3, <2>4, <2>5, RunRests DEF IInv
<1>. QED BY <1>4, <1>5

\* A run that is over takes its batch with it: told, or lost with the program.
LEMMA BatchIsOver ==
  ASSUME TypeOK, InTurn, currentRun' = NoRun, UNCHANGED <<enqueued, pendingQueue>>,
         \/ handled' = handled \cup Ids(currentRun.pending) /\ lost' = lost
         \/ lost' = lost \cup Ids(currentRun.pending) /\ handled' = handled
  PROVE  /\ InTurn' /\ done' = done + Len(currentRun.pending)
         /\ handled' \subseteq 1..MaxNotifies /\ lost' \subseteq 1..MaxNotifies
<1> DEFINE b == Len(currentRun.pending)
<1>1. /\ done \in Int /\ done >= 0 /\ b \in Nat /\ Len(pendingQueue) \in Nat
      /\ enqueued \in Nat /\ MaxNotifies \in Nat /\ enqueued <= MaxNotifies
      /\ done = enqueued - Len(pendingQueue) - b
      /\ currentRun.pending \in Seq(Notify)
  <2>1. enqueued \in 0..MaxNotifies /\ MaxNotifies \in Nat
    BY NumbersTyped, QueueTyped
  <2>. QED BY <2>1, QueueTyped DEF InTurn, done
<1>2. Ids(currentRun.pending) = (done + 1)..(done + b)
  BY <1>1, IdsOfNumbered DEF InTurn
<1>3. Len(currentRun'.pending) = 0 /\ \A n : Numbered(currentRun'.pending, n)
  BY NoRunIs
<1>4. done' = done + b
  BY <1>1, <1>3 DEF done
<1> HIDE DEF b
<1>5. /\ (1..done) \cup ((done + 1)..(done + b)) = 1..(done + b)
      /\ (1..done) \cap ((done + 1)..(done + b)) = {}
      /\ 1..(done + b) \subseteq 1..MaxNotifies
  BY <1>1
<1>6. handled \cup lost = 1..done /\ handled \cap lost = {}
  BY DEF InTurn
<1>7. /\ handled' \cup lost' = 1..(done + b) /\ handled' \cap lost' = {}
      /\ handled' \subseteq 1..(done + b) /\ lost' \subseteq 1..(done + b)
  BY <1>2, <1>5, <1>6
<1>8. Numbered(pendingQueue', done' + Len(currentRun'.pending)) /\ done' >= 0
  <2>1. done' + Len(currentRun'.pending) = done + b
    BY <1>1, <1>3, <1>4
  <2>2. Numbered(pendingQueue', done + b) /\ done' >= 0
    BY <1>1, <1>4 DEF InTurn, b
  <2>. QED BY <2>1, <2>2
<1>9. InTurn'
  BY <1>3, <1>4, <1>7, <1>8 DEF InTurn
<1>. QED BY <1>4, <1>5, <1>7, <1>9 DEF b

\* A start is counted still when its run is over: its batch is, too.
LEMMA OverIsCounted ==
  ASSUME TypeOK, InTurn, RunIsNewest, StartsCounted, running,
         done' = done + Len(currentRun.pending), currentRun' = NoRun,
         UNCHANGED <<starts, failures>>,
         retryTimers' \in {retryTimers, 0}, consecutiveFailures' \in {consecutiveFailures, 0}
  PROVE  StartsCounted'
<1>1. /\ starts \in Nat /\ failures \in Nat /\ retryTimers \in Nat
      /\ consecutiveFailures \in Nat /\ done \in Int
  BY NumbersTyped, QueueTyped
<1>2. Len(currentRun.pending) \in Nat /\ Len(currentRun.pending) >= 1
  <2>1. currentRun.pending # <<>> /\ currentRun.pending \in Seq(Notify)
    BY QueueTyped DEF RunIsNewest, running
  <2>. QED BY <2>1, EmptySeq
<1>3. starts <= failures + done + 1
  BY <1>1 DEF StartsCounted
<1>4. starts <= failures + (done + Len(currentRun.pending))
  BY <1>1, <1>2, <1>3
<1>5. starts' <= failures' + done' + 0 /\ currentRun'.child # "alive"
  BY <1>1, <1>2, <1>4, NoRunIs
<1>6. retryTimers' <= failures' /\ consecutiveFailures' <= failures'
  BY <1>1 DEF StartsCounted
<1>. QED BY <1>5, <1>6 DEF StartsCounted

\* A successful run is the newest, so it becomes the last success.
LEMMA SuccessIsLast ==
  ASSUME TypeOK, RunIsNewest, HasLast(history, lastSuccess), running,
         NEW start \in {0, currentRun.startedAt}
  PROVE  /\ Remembered(start) \in Seq(0..starts) /\ Len(Remembered(start)) <= MaxHistory
         /\ HasLast(Remembered(start), Max({lastSuccess, start}))
         /\ Max({lastSuccess, start}) = (IF start = 0 THEN lastSuccess ELSE start)
         /\ Max({lastSuccess, start}) \in 0..starts
         /\ start \in 0..starts /\ (start = 0 \/ start >= lastSuccess)
<1>1. /\ starts \in Nat /\ lastSuccess \in Nat /\ lastSuccess <= starts
      /\ history \in Seq(0..starts)
  BY NumbersTyped, HistoryTyped
<1>2. start = 0 \/ start = starts
  BY DEF RunIsNewest, running
<1>3. start \in 0..starts /\ start \in Nat /\ (start = 0 \/ start >= lastSuccess)
  BY <1>1, <1>2
<1>4. Max({lastSuccess, start}) = (IF start = 0 THEN lastSuccess ELSE start)
  BY <1>1, <1>3, MaxOfTwo
<1>5. Max({lastSuccess, start}) \in 0..starts
  BY <1>1, <1>3, <1>4
<1>. QED BY <1>1, <1>3, <1>4, <1>5, RememberedHasLast

\* A run that ends has told its notifications, or the program that ends it loses
\* them; what has come meanwhile is launched later.
LEMMA ExitKeeps ==
  ASSUME IInv, NEW ok \in BOOLEAN, Exit(ok)
  PROVE  IInv'
<1> DEFINE start == IF ok THEN currentRun.startedAt ELSE 0
<1>1. TypeOK /\ InTurn /\ RunIsNewest /\ StartsCounted
  BY DEF IInv
<1>2. /\ running /\ currentRun' = NoRun /\ history' = Remembered(start)
      /\ consecutiveFailures' = 0 /\ relaunchTimer' = (relaunchTimer \/ Relaunches)
      /\ UNCHANGED <<enqueued, pendingQueue, retryTimers, dreamingSinceOverride,
                     shuttingDown, elapsed, starts, failures, restarts>>
  BY NoRunIs DEF Exit, running
<1>3. /\ InTurn' /\ done' = done + Len(currentRun.pending)
      /\ handled' \subseteq 1..MaxNotifies /\ lost' \subseteq 1..MaxNotifies
  <2>1. \/ handled' = handled \cup Ids(currentRun.pending) /\ lost' = lost
        \/ lost' = lost \cup Ids(currentRun.pending) /\ handled' = handled
    BY DEF Exit
  <2>. QED BY <1>1, <1>2, <2>1, BatchIsOver
<1>4. StartsCounted' /\ RunIsNewest'
  BY <1>1, <1>2, <1>3, OverIsCounted DEF RunIsNewest
<1>5. start \in {0, currentRun.startedAt}
  OBVIOUS
<1> HIDE DEF start
<1>6. /\ history' \in Seq(0..starts) /\ Len(history') <= MaxHistory
      /\ HasLast(history', Max({lastSuccess, start}))
      /\ Max({lastSuccess, start}) = (IF start = 0 THEN lastSuccess ELSE start)
      /\ Max({lastSuccess, start}) \in 0..starts
      /\ start \in 0..starts /\ (start = 0 \/ start >= lastSuccess)
  BY <1>1, <1>2, <1>5, SuccessIsLast DEF IInv
<1>7. /\ lastSuccess' = Max({lastSuccess, start}) /\ FileBehind'
      /\ persistedLastSuccessAt' \in 0..starts /\ lastSuccessFile' \in 0..starts
  <2>1. /\ persistedLastSuccessAt \in Nat /\ persistedLastSuccessAt <= lastSuccess
        /\ lastSuccessFile \in Nat /\ lastSuccessFile <= persistedLastSuccessAt
        /\ starts \in Nat /\ lastSuccess <= starts /\ lastSuccess \in Nat
    BY <1>1, HistoryTyped, NumbersTyped DEF IInv, FileBehind
  <2>2. CASE ok
    <3>1. /\ start = currentRun.startedAt
          /\ persistedLastSuccessAt' = Max({persistedLastSuccessAt, start})
          /\ lastSuccessFile' \in {lastSuccessFile, persistedLastSuccessAt'}
          /\ lastSuccess' = start
      BY <2>2 DEF Exit, PersistLastSuccess, start
    <3>2. start >= 1 /\ start \in Nat /\ start <= starts
      BY <1>1, <1>2, <1>6, <2>1, <3>1 DEF RunIsNewest, running
    <3>3. persistedLastSuccessAt <= start
      BY <1>6, <2>1, <3>2
    <3>4. Max({persistedLastSuccessAt, start}) = start
      <4> DEFINE p == persistedLastSuccessAt
      <4>1. p \in Nat /\ p <= start /\ start \in Nat
        BY <2>1, <3>2, <3>3
      <4> HIDE DEF p
      <4>2. \A y \in {p, start} : y <= start
        BY <4>1
      <4>3. {p, start} \in SUBSET Nat /\ start \in {p, start}
        BY <4>1
      <4>4. Max({p, start}) = start
        BY <4>2, <4>3, MaxIs
      <4>. QED BY <4>4 DEF p
    <3>5. persistedLastSuccessAt' = start /\ lastSuccess' = start
      BY <3>1, <3>4
    <3>6. lastSuccess' = Max({lastSuccess, start})
      BY <1>6, <3>2, <3>5
    <3>7. lastSuccessFile' \in 0..start /\ start \in 0..starts
      BY <2>1, <3>1, <3>2, <3>3, <3>5
    <3>8. lastSuccessFile' <= start /\ start <= start /\ lastSuccessFile' \in 0..starts
      BY <2>1, <3>2, <3>7
    <3>. QED BY <3>5, <3>6, <3>7, <3>8 DEF FileBehind
  <2>3. CASE ~ok
    <3>1. start = 0 /\ UNCHANGED persisted
      BY <2>3 DEF Exit, start
    <3>. QED BY <1>6, <2>1, <3>1 DEF FileBehind, persisted
  <2>. QED BY <2>2, <2>3
<1>8. TypeOK'
  <2>1. 0 \in 0..MaxFailures /\ relaunchTimer' \in BOOLEAN
    BY <1>1, <1>2, NumbersTyped DEF TypeOK, Relaunches
  <2>2. currentRun' \in [startedAt : 0..starts', pending : Seq(Notify), since : 0..starts',
                        overridden : BOOLEAN, child : {"none", "alive", "unheard"}]
    BY <1>1, <1>2, NoRunIs, NumbersTyped
  <2>. QED BY <1>1, <1>2, <1>3, <1>6, <1>7, <2>1, <2>2 DEF TypeOK
<1>9. OverrideWaitsWithItsTrigger' /\ DreamsAreApart' /\ DigestsMeet'
  BY <1>2 DEF IInv, OverrideWaitsWithItsTrigger, DreamsAreApart, DigestsMeet, running
<1>10. QueueIsPolled'
  BY <1>2 DEF QueueIsPolled, Relaunches
<1>. QED BY <1>2, <1>3, <1>4, <1>6, <1>7, <1>8, <1>9, <1>10 DEF IInv


\* A run that fails puts its batch back, before what has come since, and leaves a
\* timer for it unless there were too many in a row.
LEMMA ExitFailsKeeps ==
  ASSUME IInv, ExitFails
  PROVE  IInv'
<1> DEFINE b == currentRun.pending
           q == PutBack(b, pendingQueue)
<1>1. TypeOK /\ InTurn /\ RunIsNewest /\ StartsCounted
  BY DEF IInv
<1>a. /\ b \in Seq(Notify) /\ pendingQueue \in Seq(Notify) /\ done \in Int
      /\ Len(b) \in Nat /\ Len(pendingQueue) \in Nat /\ enqueued \in Nat
      /\ done + Len(b) + Len(pendingQueue) = enqueued
  BY <1>1, QueueTyped DEF done
<1>b. /\ starts \in Nat /\ failures \in Nat /\ MaxFailures \in Nat
      /\ retryTimers \in Nat /\ consecutiveFailures \in Nat
  BY <1>1, NumbersTyped
<1>2. /\ running /\ ~shuttingDown /\ currentRun' = NoRun /\ history' = Remembered(0)
      /\ failures < MaxFailures /\ failures' = failures + 1 /\ pendingQueue' = q
      /\ consecutiveFailures' = consecutiveFailures + 1
      /\ retryTimers' = (IF Retries(consecutiveFailures + 1) THEN retryTimers + 1
                         ELSE retryTimers)
      /\ UNCHANGED <<enqueued, relaunchTimer, dreamingSinceOverride, persisted,
                     shuttingDown, elapsed, ledger, starts, restarts>>
  BY NoRunIs DEF ExitFails, handleSpawnFailure, running
<1>3. /\ q \in Seq(Notify) /\ Len(q) = Len(b) + Len(pendingQueue) /\ Numbered(q, done)
      /\ \A j \in 1..Len(pendingQueue) :
           Len(b) + j \in 1..Len(q) /\ q[Len(b) + j] = pendingQueue[j]
      /\ \A j \in 1..Len(q) :
           \/ j \in 1..Len(b) /\ q[j] = b[j]
           \/ j - Len(b) \in 1..Len(pendingQueue) /\ q[j] = pendingQueue[j - Len(b)]
  <2>1. Numbered(b, done) /\ Numbered(pendingQueue, done + Len(b)) /\ q = b \o pendingQueue
    BY <1>1 DEF PutBack, InTurn
  <2> HIDE DEF b, q
  <2>. QED BY <1>a, <2>1, PutBackIsNumbered
<1> HIDE DEF q
<1>4. done' = done /\ Len(currentRun'.pending) = 0
  <2>1. Len(currentRun'.pending) = 0
    BY <1>2, NoRunIs
  <2>2. enqueued - (Len(b) + Len(pendingQueue)) - 0 = done
    BY <1>a DEF done
  <2>. QED BY <1>2, <1>3, <2>1, <2>2 DEF done
<1>5. InTurn' /\ RunIsNewest'
  <2>1. Numbered(currentRun'.pending, done') /\ Numbered(pendingQueue', done' + 0)
    BY <1>a, <1>2, <1>3, <1>4, NoRunIs
  <2>. QED BY <1>1, <1>2, <1>4, <2>1 DEF InTurn, RunIsNewest, ledger
<1>6. StartsCounted'
  <2>1. /\ retryTimers <= failures /\ consecutiveFailures <= failures
        /\ starts <= failures + done + 1
    BY <1>1, <1>a, <1>b DEF StartsCounted
  <2>2. retryTimers' <= failures' /\ consecutiveFailures' <= failures'
    BY <1>b, <1>2, <2>1
  <2>3. starts' <= failures' + done' /\ currentRun'.child = "none"
    BY <1>a, <1>b, <1>2, <1>4, <2>1, NoRunIs
  <2>4. failures' \in Nat /\ done' \in Int
    BY <1>a, <1>b, <1>2, <1>4
  <2>. QED BY <2>2, <2>3, <2>4 DEF StartsCounted
<1>7. /\ history' \in Seq(0..starts) /\ Len(history') <= MaxHistory
      /\ HasLast(history', lastSuccess)
  <2>1. /\ history \in Seq(0..starts) /\ lastSuccess \in Nat /\ 0 \in 0..starts
        /\ HasLast(history, lastSuccess)
    BY <1>1, <1>b, HistoryTyped DEF IInv
  <2>. QED BY <1>b, <1>2, <2>1, RememberedHasLast
<1>8. TypeOK'
  <2>1. /\ failures' \in 0..MaxFailures /\ retryTimers' \in 0..MaxFailures
        /\ consecutiveFailures' \in 0..MaxFailures
    BY <1>b, <1>2, <1>6 DEF StartsCounted
  <2>2. currentRun' \in [startedAt : 0..starts, pending : Seq(Notify), since : 0..starts,
                        overridden : BOOLEAN, child : {"none", "alive", "unheard"}]
    BY <1>b, <1>2, NoRunIs
  <2>. QED BY <1>1, <1>2, <1>3, <1>7, <2>1, <2>2 DEF TypeOK, persisted, ledger
<1>9. FileBehind' /\ DigestsMeet'
  BY <1>2 DEF IInv, FileBehind, DigestsMeet, running, persisted
<1>10. QueueIsPolled'
  <2>1. retryTimers' > 0 \/ consecutiveFailures' > RetryLimit
    BY <1>1, <1>b, <1>2, NumbersTyped DEF Retries
  <2>. QED BY <2>1 DEF QueueIsPolled
<1>c. /\ DOMAIN q = 1..Len(q) /\ DOMAIN pendingQueue = 1..Len(pendingQueue)
      /\ \A i \in 1..Len(b) : b[i].tried
  BY <1>a, <1>1, <1>2, <1>3, LenProperties DEF RunIsNewest, running
<1>11. ToSet(pendingQueue) \subseteq ToSet(q)
  BY <1>3, <1>c DEF ToSet
<1>12. \A n \in ToSet(q) : n.tried \/ n \in ToSet(pendingQueue)
  <2> SUFFICES ASSUME NEW j \in 1..Len(q)
               PROVE  q[j].tried \/ q[j] \in ToSet(pendingQueue)
    BY <1>c DEF ToSet
  <2>1. CASE j \in 1..Len(b) /\ q[j] = b[j]
    BY <1>c, <2>1
  <2>2. CASE j - Len(b) \in 1..Len(pendingQueue) /\ q[j] = pendingQueue[j - Len(b)]
    BY <1>c, <2>2 DEF ToSet
  <2>. QED BY <1>3, <2>1, <2>2
<1>13. OverrideWaitsWithItsTrigger' /\ DreamsAreApart'
  BY <1>2, <1>11, <1>12 DEF IInv, OverrideWaitsWithItsTrigger, DreamsAreApart
<1>. QED BY <1>2, <1>5, <1>6, <1>7, <1>8, <1>9, <1>10, <1>13 DEF IInv, persisted

\* Time only makes the throttles passable.
LEMMA TimeKeeps ==
  ASSUME IInv, TimePasses
  PROVE  IInv'
<1>1. /\ elapsed \in {"short", "idle"} /\ elapsed' \in {"idle", "long"}
      /\ elapsed = "idle" => elapsed' = "long"
      /\ UNCHANGED <<enqueued, queueing, currentRun, dreamingSinceOverride, history,
                     persisted, shuttingDown, ledger, starts, failures, restarts>>
  BY DEF TimePasses, IInv, TypeOK
<1>2. TypeOK'
  BY <1>1 DEF IInv, TypeOK, queueing, persisted, ledger
<1>3. InTurn' /\ StartsCounted' /\ QueueIsPolled' /\ OverrideWaitsWithItsTrigger'
  BY <1>1 DEF IInv, InTurn, StartsCounted, QueueIsPolled, OverrideWaitsWithItsTrigger,
     done, queueing, ledger, running
<1>4. DreamsAreApart'
  BY <1>1 DEF IInv, DreamsAreApart, queueing
<1>. QED BY <1>1, <1>2, <1>3, <1>4, RunRests DEF IInv

\* A manager that shuts down polls no more.
LEMMA ShutdownKeeps ==
  ASSUME IInv, shutdown
  PROVE  IInv'
<1>1. /\ shuttingDown' /\ relaunchTimer' = FALSE /\ shuttingDown' \in BOOLEAN
      /\ UNCHANGED <<enqueued, pendingQueue, retryTimers, consecutiveFailures,
                     currentRun, dreamingSinceOverride, history, persisted, elapsed,
                     ledger, starts, failures, restarts>>
  BY DEF shutdown
<1>2. TypeOK'
  BY <1>1 DEF IInv, TypeOK, persisted, ledger
<1>3. InTurn' /\ StartsCounted' /\ OverrideWaitsWithItsTrigger' /\ DreamsAreApart'
  BY <1>1 DEF IInv, InTurn, StartsCounted, OverrideWaitsWithItsTrigger, DreamsAreApart,
     done, ledger
<1>4. QueueIsPolled'
  BY <1>1 DEF QueueIsPolled
<1>. QED BY <1>1, <1>2, <1>3, <1>4, RunRests DEF IInv

\* The program ends while its harness runs: the batch is lost, the journal stays.
LEMMA ShutdownKillsKeeps ==
  ASSUME IInv, ShutdownKills
  PROVE  IInv'
<1>1. TypeOK /\ InTurn /\ RunIsNewest /\ StartsCounted
  BY DEF IInv
<1>2. /\ running /\ shuttingDown /\ currentRun' = NoRun
      /\ lost' = lost \cup Ids(currentRun.pending)
      /\ UNCHANGED <<enqueued, queueing, dreamingSinceOverride, lastSuccessFile,
                     persistedLastSuccessAt, shuttingDown, elapsed, handled, starts,
                     failures, restarts>>
  BY DEF ShutdownKills
<1>3. PICK wrote \in BOOLEAN : /\ history' = Remembered(Journalled(wrote))
                              /\ lastSuccess' = Max({lastSuccess, Journalled(wrote)})
  BY DEF ShutdownKills
<1> DEFINE start == Journalled(wrote)
<1>4. start \in {0, currentRun.startedAt}
  BY DEF Journalled
<1> HIDE DEF start
<1>5. /\ history' \in Seq(0..starts) /\ Len(history') <= MaxHistory
      /\ HasLast(history', lastSuccess')
      /\ lastSuccess' = (IF start = 0 THEN lastSuccess ELSE start)
      /\ lastSuccess' \in 0..starts /\ (start = 0 \/ start >= lastSuccess)
      /\ start \in 0..starts
  BY <1>1, <1>2, <1>3, <1>4, SuccessIsLast DEF IInv, start
<1>6. FileBehind'
  <2>1. /\ starts \in Nat /\ lastSuccess \in Nat /\ persistedLastSuccessAt \in Nat
        /\ persistedLastSuccessAt <= lastSuccess
        /\ lastSuccessFile <= persistedLastSuccessAt
    BY <1>1, NumbersTyped, HistoryTyped DEF IInv, FileBehind
  <2>2. lastSuccess' >= lastSuccess /\ lastSuccess' \in Nat
    BY <1>5, <2>1
  <2>3. persistedLastSuccessAt <= lastSuccess'
    BY <2>1, <2>2
  <2>. QED BY <1>2, <2>1, <2>3 DEF FileBehind
<1>7. /\ InTurn' /\ done' = done + Len(currentRun.pending)
      /\ handled' \subseteq 1..MaxNotifies /\ lost' \subseteq 1..MaxNotifies
  BY <1>1, <1>2, BatchIsOver DEF queueing
<1>8. StartsCounted' /\ RunIsNewest'
  BY <1>1, <1>2, <1>7, OverIsCounted DEF RunIsNewest, queueing
<1>9. TypeOK'
  <2>1. currentRun' \in [startedAt : 0..starts, pending : Seq(Notify), since : 0..starts,
                        overridden : BOOLEAN, child : {"none", "alive", "unheard"}]
    BY <1>1, <1>2, NoRunIs, NumbersTyped
  <2>. QED BY <1>1, <1>2, <1>5, <1>7, <2>1 DEF TypeOK, queueing
<1>10. /\ QueueIsPolled' /\ OverrideWaitsWithItsTrigger' /\ DreamsAreApart'
       /\ DigestsMeet'
  BY <1>2 DEF IInv, QueueIsPolled, OverrideWaitsWithItsTrigger, DreamsAreApart,
     DigestsMeet, queueing, running
<1>. QED BY <1>5, <1>6, <1>7, <1>8, <1>9, <1>10 DEF IInv

\* The program starts again: what waited is lost, and the newest journals and
\* the file are what is left of the runs.
LEMMA RestartKeeps ==
  ASSUME IInv, Restart
  PROVE  IInv'
<1> DEFINE b == currentRun.pending
           w == b \o pendingQueue
<1>1. TypeOK /\ InTurn /\ RunIsNewest /\ StartsCounted
  BY DEF IInv
<1>a. /\ b \in Seq(Notify) /\ pendingQueue \in Seq(Notify) /\ done \in Int
      /\ Len(b) \in Nat /\ Len(pendingQueue) \in Nat /\ enqueued \in Nat
      /\ done + Len(b) + Len(pendingQueue) = enqueued
      /\ enqueued <= MaxNotifies /\ MaxNotifies \in Nat
  <2>1. enqueued \in 0..MaxNotifies /\ MaxNotifies \in Nat
    BY <1>1, QueueTyped, NumbersTyped
  <2>. QED BY <1>1, <2>1, QueueTyped DEF done
<1>b. /\ starts \in Nat /\ failures \in Nat /\ MaxFailures \in Nat /\ MaxRestarts \in Nat
      /\ MaxHistory \in Nat /\ MaxJournals \in Nat
  BY <1>1, NumbersTyped
<1>2. /\ restarts < MaxRestarts /\ restarts' = restarts + 1
      /\ persistedLastSuccessAt' = lastSuccessFile /\ lastSuccessFile' = lastSuccessFile
      /\ pendingQueue' = <<>> /\ currentRun' = NoRun
      /\ relaunchTimer' = FALSE /\ retryTimers' = 0 /\ consecutiveFailures' = 0
      /\ dreamingSinceOverride' = FALSE /\ shuttingDown' = FALSE
      /\ lost' = lost \cup Ids(w)
      /\ UNCHANGED <<enqueued, elapsed, handled, starts, failures>>
  BY DEF Restart, ReadLastSuccess
<1>3. PICK wrote \in BOOLEAN :
        /\ history' = Newest(IF running THEN Append(history, Journalled(wrote))
                             ELSE history, MaxJournals)
        /\ lastSuccess' = Max({lastSuccess, Journalled(wrote)})
  BY DEF Restart
<1> DEFINE start == Journalled(wrote)
           runs == IF running THEN Append(history, start) ELSE history
           last == IF start = 0 THEN lastSuccess ELSE start
<1>c. /\ lastSuccess \in Nat /\ lastSuccess <= starts /\ history \in Seq(0..starts)
      /\ lastSuccessFile \in Nat /\ lastSuccessFile <= persistedLastSuccessAt
      /\ persistedLastSuccessAt \in Nat /\ persistedLastSuccessAt <= lastSuccess
      /\ HasLast(history, lastSuccess)
  BY <1>1, HistoryTyped DEF IInv, FileBehind
<1>4. start \in 0..starts /\ (start = 0 \/ start >= lastSuccess) /\ (~running => start = 0)
  <2>1. start \in {0, currentRun.startedAt}
    BY DEF Journalled
  <2>2. ~running => start = 0
    BY <2>1, NoRunIs DEF running
  <2>3. running => start \in {0, starts}
    BY <1>1, <2>1 DEF RunIsNewest, running
  <2>. QED BY <1>b, <1>c, <2>2, <2>3
<1> HIDE DEF start
<1>5. /\ runs \in Seq(0..starts) /\ runs \in Seq(Nat)
      /\ last \in 0..starts /\ last \in Nat /\ last >= lastSuccess
      /\ HasLast(runs, last)
  <2>1. start \in Nat /\ last \in 0..starts /\ last \in Nat /\ last >= lastSuccess
    BY <1>b, <1>c, <1>4
  <2>2. runs \in Seq(0..starts)
    BY <1>c, <1>4, AppendedIs
  <2>3. 0..starts \subseteq Nat
    BY <1>b
  <2>4. runs \in Seq(Nat) /\ history \in Seq(Nat)
    BY <1>c, <2>2, <2>3, SeqMonotonic
  <2>5. CASE running
    BY <1>c, <1>4, <2>1, <2>4, <2>5, AppendedHasLast
  <2>6. CASE ~running
    <3>1. runs = history /\ last = lastSuccess
      BY <1>4, <2>6
    <3> HIDE DEF runs, last
    <3>. QED BY <1>c, <2>1, <2>2, <2>4, <3>1
  <2>. QED BY <2>1, <2>2, <2>4, <2>5, <2>6
<1>6. lastSuccess' = last
  <2>1. lastSuccess' = Max({lastSuccess, start})
    BY <1>3 DEF start
  <2>2. start \in Nat
    BY <1>b, <1>4
  <2>. QED BY <1>c, <1>4, <2>1, <2>2, MaxOfTwo
<1>7. history' = Newest(runs, MaxJournals)
  BY <1>3 DEF start
<1> HIDE DEF runs, last
<1>8. /\ history' \in Seq(0..starts) /\ Len(history') <= MaxHistory
      /\ HasLast(history', lastSuccess')
  <2>1. Newest(runs, MaxJournals) \in Seq(0..starts)
    BY <1>b, <1>5, NewestIs
  <2>2. Len(Newest(runs, MaxJournals)) \in Nat /\ Len(Newest(runs, MaxJournals)) <= MaxJournals
    BY <1>b, <1>5, NewestIs
  <2>3. Len(Newest(runs, MaxJournals)) <= MaxHistory
    BY <1>b, <2>2, HarnessAssumption
  <2>4. HasLast(Newest(runs, MaxJournals), last)
    BY <1>b, <1>5, NewestHasLast
  <2>. QED BY <1>6, <1>7, <2>1, <2>3, <2>4
<1>9. FileBehind'
  <2>1. lastSuccessFile <= last
    BY <1>c, <1>5
  <2>. QED BY <1>2, <1>6, <1>c, <2>1 DEF FileBehind
<1>10. /\ Len(currentRun'.pending) = 0 /\ Len(pendingQueue') = 0
       /\ \A n : Numbered(currentRun'.pending, n) /\ Numbered(pendingQueue', n)
       /\ done' = enqueued
  <2>1. /\ Len(currentRun'.pending) = 0 /\ Len(pendingQueue') = 0
        /\ \A n : Numbered(currentRun'.pending, n) /\ Numbered(pendingQueue', n)
    BY <1>2, NoRunIs
  <2>. QED BY <1>a, <1>2, <2>1 DEF done
<1>11. Ids(w) = (done + 1)..enqueued
  <2>1. Numbered(b, done) /\ Numbered(pendingQueue, done + Len(b))
    BY <1>1 DEF InTurn
  <2> HIDE DEF b
  <2>2. w \in Seq(Notify) /\ Len(w) = Len(b) + Len(pendingQueue) /\ Numbered(w, done)
    BY <1>a, <2>1, PutBackIsNumbered
  <2> HIDE DEF w
  <2>3. Ids(w) = (done + 1)..(done + Len(w))
    BY <1>a, <2>2, IdsOfNumbered
  <2>4. done + Len(w) = enqueued
    BY <1>a, <2>2
  <2>. QED BY <2>3, <2>4
<1>12. /\ handled' \cup lost' = 1..enqueued /\ handled' \cap lost' = {}
       /\ handled' \subseteq 1..MaxNotifies /\ lost' \subseteq 1..MaxNotifies
  <2>1. handled \cup lost = 1..done /\ handled \cap lost = {} /\ done >= 0
    BY <1>1 DEF InTurn
  <2>2. /\ (1..done) \cup ((done + 1)..enqueued) = 1..enqueued
        /\ (1..done) \cap ((done + 1)..enqueued) = {}
        /\ 1..enqueued \subseteq 1..MaxNotifies
    <3> DEFINE d == done
    <3>1. /\ d \in Int /\ d >= 0 /\ d <= enqueued /\ enqueued \in Nat
          /\ enqueued <= MaxNotifies /\ MaxNotifies \in Nat
      BY <1>a, <2>1
    <3> HIDE DEF d
    <3>2. /\ (1..d) \cup ((d + 1)..enqueued) = 1..enqueued
          /\ (1..d) \cap ((d + 1)..enqueued) = {}
          /\ 1..enqueued \subseteq 1..MaxNotifies
      BY <3>1
    <3>. QED BY <3>2 DEF d
  <2>. QED BY <1>2, <1>11, <2>1, <2>2
<1>13. InTurn' /\ RunIsNewest'
  BY <1>a, <1>2, <1>10, <1>12 DEF InTurn, RunIsNewest
<1>14. StartsCounted'
  <2>1. starts <= failures + done + 1
    BY <1>1, <1>a, <1>b DEF StartsCounted
  <2>2. starts <= failures + enqueued
    <3>1. CASE currentRun.child = "alive"
      <4>1. b # <<>>
        BY <1>1, <3>1, NoRunIs DEF RunIsNewest
      <4>2. Len(b) >= 1
        BY <1>a, <4>1, EmptySeq
      <4> HIDE DEF b
      <4>. QED BY <1>a, <1>b, <2>1, <4>2
    <3>2. CASE currentRun.child # "alive"
      <4>1. starts <= failures + done
        BY <1>1, <1>a, <1>b, <3>2 DEF StartsCounted
      <4> HIDE DEF b
      <4>. QED BY <1>a, <1>b, <4>1
    <3>. QED BY <3>1, <3>2
  <2>3. currentRun'.child = "none" /\ starts' <= failures' + done' + 0
    BY <1>a, <1>b, <1>2, <1>10, <2>2, NoRunIs
  <2>4. retryTimers' <= failures' /\ consecutiveFailures' <= failures'
    BY <1>b, <1>2
  <2>. QED BY <2>3, <2>4 DEF StartsCounted
<1>15. TypeOK'
  <2>1. currentRun' \in [startedAt : 0..starts, pending : Seq(Notify), since : 0..starts,
                        overridden : BOOLEAN, child : {"none", "alive", "unheard"}]
    BY <1>b, <1>2, NoRunIs
  <2>2. restarts' \in 0..MaxRestarts /\ 0 \in 0..MaxFailures
    BY <1>1, <1>b, <1>2 DEF TypeOK
  <2>3. pendingQueue' \in Seq(Notify)
    BY <1>2, EmptySeq
  <2>4. /\ lastSuccess' \in 0..starts /\ lastSuccessFile' \in 0..starts
        /\ persistedLastSuccessAt' \in 0..starts
    BY <1>b, <1>c, <1>2, <1>5, <1>6
  <2>. QED BY <1>1, <1>2, <1>8, <1>12, <2>1, <2>2, <2>3, <2>4 DEF TypeOK
<1>16. /\ QueueIsPolled' /\ OverrideWaitsWithItsTrigger' /\ DreamsAreApart'
       /\ DigestsMeet'
  BY <1>2, EmptySeq DEF QueueIsPolled, OverrideWaitsWithItsTrigger, DreamsAreApart,
     DigestsMeet, running, ToSet
<1>. QED BY <1>8, <1>9, <1>13, <1>14, <1>15, <1>16 DEF IInv

-----------------------------------------------------------------------------
(* The theorems                                                             *)

\* The initial states satisfy IInv.
LEMMA InitIInv ==
  ASSUME Init
  PROVE  IInv
<1>1. /\ MaxNotifies \in Nat /\ MaxFailures \in Nat /\ MaxRestarts \in Nat
      /\ MaxHistory \in Nat
  BY HarnessAssumption
<1>2. <<>> \in Seq(Notify) /\ <<>> \in Seq(0..0) /\ Len(<<>>) = 0 /\ DOMAIN <<>> = {}
  BY EmptySeq, LenProperties
<1>3. /\ Len(currentRun.pending) = 0 /\ Len(pendingQueue) = 0 /\ Len(history) = 0
      /\ \A n : Numbered(currentRun.pending, n) /\ Numbered(pendingQueue, n)
      /\ currentRun.child = "none" /\ ~running
  BY NoRunIs DEF Init, running
<1>4. done = 0
  <2>1. enqueued = 0 /\ 0 - 0 - 0 = 0
    BY DEF Init
  <2>. QED BY <1>3, <2>1 DEF done
<1>5. TypeOK
  <2>1. currentRun \in [startedAt : 0..starts, pending : Seq(Notify), since : 0..starts,
                       overridden : BOOLEAN, child : {"none", "alive", "unheard"}]
    BY NoRunIs DEF Init
  <2>2. /\ 0 \in 0..MaxNotifies /\ 0 \in 0..MaxFailures /\ 0 \in 0..MaxRestarts
        /\ 0 \in 0..(MaxNotifies + MaxFailures) /\ 0 \in 0..0 /\ Len(history) <= MaxHistory
    BY <1>1, <1>3
  <2>. QED BY <1>2, <2>1, <2>2 DEF Init, TypeOK
<1>6. InTurn /\ RunIsNewest /\ StartsCounted
  BY <1>3, <1>4 DEF Init, InTurn, RunIsNewest, StartsCounted
<1>7. HasLast(history, lastSuccess) /\ FileBehind
  BY <1>3 DEF Init, HasLast, FileBehind
<1>. QED
  BY <1>2, <1>3, <1>5, <1>6, <1>7 DEF Init, IInv, QueueIsPolled,
     OverrideWaitsWithItsTrigger, DreamsAreApart, DigestsMeet, ToSet

\* Each step keeps it.
LEMMA NextIInv ==
  ASSUME IInv, [Next]_vars
  PROVE  IInv'
<1>1. ASSUME NEW source \in Source, NEW since \in BOOLEAN, Enqueue(source, since)
      PROVE  IInv'
  BY <1>1, EnqueueKeeps
<1>2. CASE RelaunchFires \/ RetryFires
  BY <1>2, TimersKeep
<1>3. ASSUME NEW ok \in BOOLEAN, Exit(ok) PROVE IInv'
  BY <1>3, ExitKeeps
<1>4. CASE ExitFails
  BY <1>4, ExitFailsKeeps
<1>5. CASE TimePasses
  BY <1>5, TimeKeeps
<1>6. CASE shutdown
  BY <1>6, ShutdownKeeps
<1>7. CASE ShutdownKills
  BY <1>7, ShutdownKillsKeeps
<1>8. CASE Restart
  BY <1>8, RestartKeeps
<1>9. CASE UNCHANGED vars
  <2>1. UNCHANGED <<currentRun, starts, persisted, history>>
    BY <1>9 DEF vars
  <2>2. RunIsNewest' /\ HasLast(history', lastSuccess') /\ FileBehind' /\ DigestsMeet'
    BY <2>1, RunRests
  <2>. QED
    BY <1>9, <2>2 DEF vars, queueing, persisted, ledger, IInv, TypeOK, InTurn,
       StartsCounted, done, QueueIsPolled, OverrideWaitsWithItsTrigger, DreamsAreApart,
       running
<1>. QED BY <1>1, <1>2, <1>3, <1>4, <1>5, <1>6, <1>7, <1>8, <1>9 DEF Next

\* IInv is invariant.
THEOREM Invariance == Spec => []IInv
<1>. QED BY InitIInv, NextIInv, PTL DEF Spec

\* What is numbered is each in one place.
LEMMA NumberedIsAccountedFor ==
  ASSUME IInv
  PROVE  EachInOnePlace
<1>1. TypeOK /\ InTurn
  BY DEF IInv
<1>2. /\ currentRun.pending \in Seq(Notify) /\ pendingQueue \in Seq(Notify)
      /\ done \in Int /\ enqueued \in Nat /\ Len(currentRun.pending) \in Nat
      /\ Len(pendingQueue) \in Nat
      /\ done + Len(currentRun.pending) + Len(pendingQueue) = enqueued
  BY <1>1, QueueTyped DEF done
<1>3. /\ Waiting \in Seq(Notify) /\ Numbered(Waiting, done)
      /\ Len(Waiting) = Len(currentRun.pending) + Len(pendingQueue)
  <2> DEFINE b == currentRun.pending
  <2>1. /\ Numbered(b, done) /\ Numbered(pendingQueue, done + Len(b))
        /\ Waiting = b \o pendingQueue
    BY <1>1 DEF Waiting, InTurn
  <2> HIDE DEF b
  <2>2. b \in Seq(Notify)
    BY <1>2 DEF b
  <2>3. /\ Waiting \in Seq(Notify) /\ Numbered(Waiting, done)
        /\ Len(Waiting) = Len(b) + Len(pendingQueue)
    BY <1>2, <2>1, <2>2, PutBackIsNumbered
  <2>. QED BY <2>3 DEF b
<1>4. DOMAIN Waiting = 1..Len(Waiting)
  BY <1>3, LenProperties
<1>5. Ids(Waiting) = (done + 1)..(done + Len(Waiting))
  BY <1>2, <1>3, IdsOfNumbered
<1>6. \A i, j \in DOMAIN Waiting : i < j => Waiting[i].id < Waiting[j].id
  <2> SUFFICES ASSUME NEW i \in 1..Len(Waiting), NEW j \in 1..Len(Waiting), i < j
               PROVE  Waiting[i].id < Waiting[j].id
    BY <1>4
  <2>1. Waiting[i].id = done + i /\ Waiting[j].id = done + j
    BY <1>3 DEF Numbered
  <2>. QED BY <1>2, <1>3, <2>1
<1>7. /\ 1..enqueued = Ids(Waiting) \cup handled \cup lost
      /\ Ids(Waiting) \cap (handled \cup lost) = {} /\ handled \cap lost = {}
  <2> DEFINE d == done
             l == Len(Waiting)
  <2>1. /\ d \in Int /\ d >= 0 /\ l \in Nat /\ d + l = enqueued
        /\ Ids(Waiting) = (d + 1)..(d + l)
        /\ handled \cup lost = 1..d /\ handled \cap lost = {}
    BY <1>1, <1>2, <1>3, <1>5 DEF InTurn
  <2> HIDE DEF d, l
  <2>2. /\ 1..enqueued = ((d + 1)..(d + l)) \cup (1..d)
        /\ ((d + 1)..(d + l)) \cap (1..d) = {}
    BY <2>1
  <2>. QED BY <2>1, <2>2
<1>. QED BY <1>6, <1>7 DEF EachInOnePlace

\* The notifications are all accounted for, each in one place and in order, with
\* a timer for those that wait, whatever fails, is retried, or ends; the override
\* waits with its trigger, and no dream is launched within the interval of an
\* earlier one.
THEOREM NothingIsForgotten == Spec => []NotificationsAccountedFor
<1>1. IInv => NotificationsAccountedFor
  BY NumberedIsAccountedFor DEF IInv, NotificationsAccountedFor
<1>. QED BY <1>1, Invariance, PTL

\* The digest of a run goes back to the start of the last successful run, or
\* further, so that no task is left out of all digests, whatever has failed, has
\* been rotated out of the history, or was forgotten by a restart.
THEOREM DigestsLeaveNoGap == Spec => []DigestsMeet
<1>1. IInv => DigestsMeet
  BY DEF IInv
<1>. QED BY <1>1, Invariance, PTL

\* No step of a manager that shuts down starts a harness, although retry timers
\* are left, until the program starts again.
THEOREM ShutdownIsQuiet == Spec => NoStartAfterShutdown
<1>1. [Next]_vars => [shuttingDown => starts' = starts]_vars
  <2> SUFFICES ASSUME Next, shuttingDown PROVE starts' = starts
    BY DEF vars
  <2>1. ASSUME NEW source \in Source, NEW since \in BOOLEAN, Enqueue(source, since)
        PROVE  FALSE
    BY <2>1 DEF Enqueue
  <2>2. CASE RelaunchFires \/ RetryFires
    BY <2>2 DEF RelaunchFires, RetryFires, LaunchIfIdle, MayLaunch, StayQueued
  <2>3. CASE \/ \E ok \in BOOLEAN : Exit(ok)
             \/ ExitFails \/ TimePasses \/ shutdown \/ ShutdownKills \/ Restart
    BY <2>3 DEF Exit, ExitFails, TimePasses, shutdown, ShutdownKills, Restart
  <2>. QED BY <2>1, <2>2, <2>3 DEF Next
<1>. QED BY <1>1, PTL DEF Spec, NoStartAfterShutdown

-----------------------------------------------------------------------------
(* The results of the harness come from the main loop: sequences first.      *)

Once(s) == \A i, j \in 1..Len(s) : s[i] = s[j] => i = j

\* A set of numbers has a least one.
LEMMA LeastNatural ==
  ASSUME NEW T \in SUBSET Nat, T # {}
  PROVE  \E m \in T : \A k \in T : m <= k
<1> DEFINE R == OpToRel(<, Nat)
<1>1. IsWellFoundedOn(R, Nat)
  BY NatLessThanWellFounded, Zenon
<1> HIDE DEF R
<1>2. PICK m \in T : \A k \in T : ~(<<k, m>> \in R)
  BY <1>1, WFMin
<1>3. \A k \in T : ~(k < m)
  BY <1>2, Zenon DEF R, OpToRel
<1>4. \A k \in T : m <= k
  BY <1>3
<1>. QED BY <1>4

\* What the first entries of s have of S.
Some(f, n, s, S) ==
  IF n = 0 THEN <<>>
  ELSE IF s[n] \in S THEN Append(f[n - 1], s[n]) ELSE f[n - 1]

IsSome(f, N, s, S) == f = [n \in 0..N |-> Some(f, n, s, S)]

\* There is such a function: a shortest one that is missing would be one entry
\* longer than one that is there.
LEMMA SomeExists ==
  ASSUME NEW N \in Nat, NEW s, NEW S
  PROVE  \E f : IsSome(f, N, s, S)
<1> DEFINE Missing == {k \in Nat : ~\E f : IsSome(f, k, s, S)}
<1>1. Missing = {}
  <2> SUFFICES ASSUME Missing # {} PROVE FALSE
    OBVIOUS
  <2>1. PICK m \in Missing : \A k \in Missing : m <= k
    BY LeastNatural
  <2>2. m # 0
    <3>1. IsSome([n \in 0..0 |-> <<>>], 0, s, S)
      BY DEF IsSome, Some
    <3>. QED BY <3>1
  <2>3. m \in Nat /\ m - 1 \in Nat /\ m - 1 \notin Missing
    BY <2>1, <2>2
  <2>4. PICK f : IsSome(f, m - 1, s, S)
    BY <2>3
  <2> DEFINE g == [n \in 0..m |-> IF n <= m - 1 THEN f[n] ELSE Some(f, m, s, S)]
  <2>5. ASSUME NEW n \in 0..m
        PROVE  g[n] = Some(g, n, s, S)
    <3>1. CASE n = m
      <4>1. g[n] = Some(f, m, s, S) /\ g[m - 1] = f[m - 1]
        BY <2>3, <2>2, <3>1
      <4>. QED BY <4>1, <3>1 DEF Some
    <3>2. CASE n # m
      <4>1. n \in 0..(m - 1)
        BY <2>3, <3>2
      <4>2. f[n] = Some(f, n, s, S)
        BY <2>4, <4>1 DEF IsSome
      <4>3. g[n] = f[n] /\ (n # 0 => g[n - 1] = f[n - 1])
        BY <2>3, <4>1
      <4>. QED BY <4>2, <4>3 DEF Some
    <3>. QED BY <3>1, <3>2
  <2>6. IsSome(g, m, s, S)
    BY <2>5 DEF IsSome
  <2>. QED BY <2>6
<1>. QED BY <1>1

\* What Only() returns is the last of the values of its function.
LEMMA OnlyIs ==
  ASSUME NEW T, NEW s \in Seq(T), NEW S
  PROVE  \E f : /\ Only(s, S) = f[Len(s)]
                /\ \A n \in 0..Len(s) : f[n] = Some(f, n, s, S)
<1> DEFINE F == CHOOSE f : IsSome(f, Len(s), s, S)
<1>1. Len(s) \in Nat
  BY LenProperties
<1>2. IsSome(F, Len(s), s, S)
  BY <1>1, SomeExists
<1>3. Only(s, S) = F[Len(s)]
  BY Zenon DEF Only, IsSome, Some
<1> HIDE DEF F
<1>. QED BY <1>1, <1>2, <1>3 DEF IsSome

\* What a sequence has.
LEMMA RangeIs ==
  ASSUME NEW T, NEW s \in Seq(T)
  PROVE  /\ Len(s) \in Nat /\ DOMAIN s = 1..Len(s) /\ Range(s) \in SUBSET T
         /\ \A i \in 1..Len(s) : s[i] \in T /\ s[i] \in Range(s)
         /\ \A x \in Range(s) : \E i \in 1..Len(s) : s[i] = x
         /\ s = <<>> <=> Len(s) = 0
         /\ s = <<>> <=> Range(s) = {}
BY LenProperties, ElementOfSeq, EmptySeq DEF Range

\* A sequence with one more entry.
LEMMA AppendedHas ==
  ASSUME NEW T, NEW s \in Seq(T), NEW x \in T
  PROVE  /\ Append(s, x) \in Seq(T) /\ Len(Append(s, x)) = Len(s) + 1
         /\ Range(Append(s, x)) = Range(s) \cup {x}
         /\ Once(s) /\ x \notin Range(s) => Once(Append(s, x))
<1> DEFINE t == Append(s, x)
<1>1. /\ t \in Seq(T) /\ Len(t) = Len(s) + 1 /\ t[Len(s) + 1] = x
      /\ \A i \in 1..Len(s) : t[i] = s[i]
      /\ Len(s) \in Nat
  BY AppendProperties, LenProperties
<1>2. /\ \A i \in 1..Len(s) : s[i] \in Range(s)
      /\ \A y \in Range(s) : \E i \in 1..Len(s) : s[i] = y
      /\ \A i \in 1..Len(t) : t[i] \in Range(t)
      /\ \A y \in Range(t) : \E i \in 1..Len(t) : t[i] = y
  BY <1>1, RangeIs
<1> HIDE DEF t
<1>3. Range(t) = Range(s) \cup {x}
  BY <1>1, <1>2
<1>4. Once(s) /\ x \notin Range(s) => Once(t)
  BY <1>1, <1>2 DEF Once
<1>. QED BY <1>1, <1>3, <1>4 DEF t

\* Two sequences, one after the other.
LEMMA ConcatHas ==
  ASSUME NEW T, NEW s \in Seq(T), NEW t \in Seq(T)
  PROVE  /\ s \o t \in Seq(T) /\ Len(s \o t) = Len(s) + Len(t)
         /\ Range(s \o t) = Range(s) \cup Range(t)
         /\ Once(s) /\ Once(t) /\ Range(s) \cap Range(t) = {} => Once(s \o t)
<1> DEFINE r == s \o t
<1>1. /\ r \in Seq(T) /\ Len(r) = Len(s) + Len(t)
      /\ Len(s) \in Nat /\ Len(t) \in Nat
      /\ \A i \in 1..Len(r) : r[i] = IF i <= Len(s) THEN s[i] ELSE t[i - Len(s)]
  BY ConcatProperties, LenProperties
<1>2. /\ \A i \in 1..Len(s) : s[i] \in Range(s)
      /\ \A y \in Range(s) : \E i \in 1..Len(s) : s[i] = y
      /\ \A i \in 1..Len(t) : t[i] \in Range(t)
      /\ \A y \in Range(t) : \E i \in 1..Len(t) : t[i] = y
      /\ \A i \in 1..Len(r) : r[i] \in Range(r)
      /\ \A y \in Range(r) : \E i \in 1..Len(r) : r[i] = y
  BY <1>1, RangeIs
<1> HIDE DEF r
<1>3. /\ \A i \in 1..Len(s) : i \in 1..Len(r) /\ r[i] = s[i]
      /\ \A i \in 1..Len(t) : i + Len(s) \in 1..Len(r) /\ r[i + Len(s)] = t[i]
      /\ \A i \in 1..Len(r) : i \in 1..Len(s) \/ (i - Len(s) \in 1..Len(t) /\ r[i] = t[i - Len(s)])
  BY <1>1
<1>4. Range(r) = Range(s) \cup Range(t)
  <2>1. ASSUME NEW y \in Range(r) PROVE y \in Range(s) \cup Range(t)
    <3>1. PICK i \in 1..Len(r) : r[i] = y
      BY <1>2
    <3>2. CASE i \in 1..Len(s)
      BY <1>2, <1>3, <3>1, <3>2
    <3>3. CASE i - Len(s) \in 1..Len(t) /\ r[i] = t[i - Len(s)]
      BY <1>2, <3>1, <3>3
    <3>. QED BY <1>3, <3>2, <3>3
  <2>2. ASSUME NEW y \in Range(s) PROVE y \in Range(r)
    BY <1>2, <1>3
  <2>3. ASSUME NEW y \in Range(t) PROVE y \in Range(r)
    <3>1. PICK i \in 1..Len(t) : t[i] = y
      BY <1>2
    <3>. QED BY <1>2, <1>3, <3>1
  <2>. QED BY <2>1, <2>2, <2>3
<1>5. ASSUME Once(s), Once(t), Range(s) \cap Range(t) = {} PROVE Once(r)
  <2> SUFFICES ASSUME NEW i \in 1..Len(r), NEW j \in 1..Len(r), r[i] = r[j] PROVE i = j
    BY DEF Once
  <2>1. CASE i \in 1..Len(s) /\ j \in 1..Len(s)
    BY <1>3, <1>5, <2>1 DEF Once
  <2>2. CASE i \notin 1..Len(s) /\ j \notin 1..Len(s)
    <3>1. i - Len(s) = j - Len(s)
      BY <1>3, <1>5, <2>2 DEF Once
    <3>. QED BY <1>1, <3>1
  <2>3. CASE ~(i \in 1..Len(s) <=> j \in 1..Len(s))
    BY <1>2, <1>3, <1>5, <2>3
  <2>. QED BY <2>1, <2>2, <2>3
<1>. QED BY <1>1, <1>4, <1>5 DEF r

\* The head of a sequence, and the rest.
LEMMA TailHas ==
  ASSUME NEW T, NEW s \in Seq(T), s # <<>>
  PROVE  /\ Head(s) \in T /\ Head(s) \in Range(s) /\ Head(s) = s[1]
         /\ Tail(s) \in Seq(T) /\ Len(Tail(s)) = Len(s) - 1
         /\ Range(s) = Range(Tail(s)) \cup {Head(s)}
         /\ Once(s) => Once(Tail(s)) /\ Head(s) \notin Range(Tail(s))
<1> DEFINE t == Tail(s)
<1>1. /\ Head(s) = s[1] /\ t \in Seq(T) /\ Len(t) = Len(s) - 1
      /\ \A i \in 1..Len(t) : t[i] = s[i + 1]
      /\ Len(s) \in Nat /\ Len(s) >= 1
  BY HeadTailProperties, LenProperties, EmptySeq
<1>2. /\ \A i \in 1..Len(s) : s[i] \in Range(s) /\ s[i] \in T
      /\ \A y \in Range(s) : \E i \in 1..Len(s) : s[i] = y
      /\ \A i \in 1..Len(t) : t[i] \in Range(t)
      /\ \A y \in Range(t) : \E i \in 1..Len(t) : t[i] = y
  BY <1>1, RangeIs
<1> HIDE DEF t
<1>3. /\ \A i \in 1..Len(t) : i + 1 \in 1..Len(s) /\ i + 1 # 1
      /\ \A i \in 1..Len(s) : i = 1 \/ (i - 1 \in 1..Len(t) /\ t[i - 1] = s[i])
      /\ 1 \in 1..Len(s)
  BY <1>1
<1>4. Range(s) = Range(t) \cup {s[1]}
  <2>1. ASSUME NEW y \in Range(s) PROVE y \in Range(t) \cup {s[1]}
    <3>1. PICK i \in 1..Len(s) : s[i] = y
      BY <1>2
    <3>2. CASE i - 1 \in 1..Len(t) /\ t[i - 1] = s[i]
      BY <1>2, <3>1, <3>2
    <3>. QED BY <1>3, <3>1, <3>2
  <2>2. ASSUME NEW y \in Range(t) PROVE y \in Range(s)
    <3>1. PICK i \in 1..Len(t) : t[i] = y
      BY <1>2
    <3>. QED BY <1>1, <1>2, <1>3, <3>1
  <2>. QED BY <1>2, <1>3, <2>1, <2>2
<1>5. ASSUME Once(s) PROVE Once(t) /\ s[1] \notin Range(t)
  <2>1. s[1] \notin Range(t)
    BY <1>1, <1>2, <1>3, <1>5 DEF Once
  <2>2. ASSUME NEW i \in 1..Len(t), NEW j \in 1..Len(t), t[i] = t[j] PROVE i = j
    <3>1. i + 1 = j + 1
      BY <1>1, <1>3, <1>5, <2>2 DEF Once
    <3>. QED BY <1>1, <3>1
  <2>. QED BY <2>1, <2>2 DEF Once
<1>. QED BY <1>1, <1>2, <1>3, <1>4, <1>5 DEF t

\* Only(s, S) has what s has of S, as often.
LEMMA OnlyHas ==
  ASSUME NEW T, NEW s \in Seq(T), NEW S
  PROVE  /\ Only(s, S) \in Seq(T) /\ Len(Only(s, S)) <= Len(s)
         /\ Range(Only(s, S)) = Range(s) \cap S
         /\ Once(s) => Once(Only(s, S))
<1> DEFINE Upto(n) == {x \in T : \E i \in 1..n : s[i] = x}
<1>1. /\ Len(s) \in Nat /\ \A i \in 1..Len(s) : s[i] \in T
      /\ Range(s) = Upto(Len(s))
  BY RangeIs
<1>2. PICK f : /\ Only(s, S) = f[Len(s)]
               /\ \A n \in 0..Len(s) : f[n] = Some(f, n, s, S)
  BY OnlyIs
<1> DEFINE Good(n) == /\ f[n] \in Seq(T) /\ Len(f[n]) <= n
                      /\ Range(f[n]) = Upto(n) \cap S
                      /\ Once(s) => Once(f[n])
           Bad == {n \in 0..Len(s) : ~Good(n)}
<1>3. Good(0)
  <2>1. f[0] = <<>> /\ Len(<<>>) = 0 /\ <<>> \in Seq(T) /\ Range(<<>>) = {}
    BY <1>1, <1>2, EmptySeq DEF Some, Range
  <2>2. Upto(0) = {}
    OBVIOUS
  <2>. QED BY <2>1, <2>2 DEF Once
<1>4. ASSUME NEW n \in 1..Len(s), Good(n - 1) PROVE Good(n)
  <2> DEFINE p == f[n - 1]
             q == f[n]
  <2>1. n \in Nat /\ n - 1 \in Nat /\ n \in 0..Len(s) /\ n # 0 /\ s[n] \in T
    BY <1>1
  <2>2. Upto(n) = Upto(n - 1) \cup {s[n]}
    <3>1. 1..n = 1..(n - 1) \cup {n}
      BY <2>1
    <3>. QED BY <2>1, <3>1
  <2>3. Once(s) => s[n] \notin Upto(n - 1)
    BY <1>1, <2>1 DEF Once
  <2>4. p \in Seq(T) /\ Len(p) <= n - 1 /\ Range(p) = Upto(n - 1) \cap S /\ (Once(s) => Once(p))
    BY <1>4
  <2>5. Len(p) \in Nat
    BY <2>4, LenProperties
  <2> HIDE DEF Upto
  <2>6. CASE s[n] \notin S
    <3>1. q = p
      BY <1>2, <2>1, <2>6 DEF Some
    <3>. QED BY <2>1, <2>2, <2>4, <2>5, <2>6, <3>1
  <2>7. CASE s[n] \in S
    <3>1. q = Append(p, s[n])
      BY <1>2, <2>1, <2>7 DEF Some
    <3>2. /\ q \in Seq(T) /\ Len(q) = Len(p) + 1 /\ Range(q) = Range(p) \cup {s[n]}
          /\ Once(p) /\ s[n] \notin Range(p) => Once(q)
      BY <2>1, <2>4, <3>1, AppendedHas
    <3>. QED BY <2>1, <2>2, <2>3, <2>4, <2>5, <2>7, <3>2
  <2>. QED BY <2>6, <2>7
<1> HIDE DEF Good
<1>5. Bad = {}
  <2> SUFFICES ASSUME Bad # {} PROVE FALSE
    OBVIOUS
  <2>1. PICK m \in Bad : \A k \in Bad : m <= k
    <3>1. Bad \in SUBSET Nat
      BY <1>1
    <3>. QED BY <3>1, LeastNatural
  <2>2. m \in 1..Len(s) /\ m - 1 \in 0..Len(s) /\ m - 1 \notin Bad
    BY <1>1, <1>3, <2>1
  <2>. QED BY <1>4, <2>1, <2>2
<1>6. Good(Len(s))
  BY <1>1, <1>5
<1>. QED BY <1>1, <1>2, <1>6 DEF Good


\* The first n entries of s.
LEMMA FirstHas ==
  ASSUME NEW T, NEW s \in Seq(T), NEW n \in Nat
  PROVE  /\ First(s, n) \in Seq(T) /\ Len(First(s, n)) <= n
         /\ Range(First(s, n)) \subseteq Range(s)
         /\ Once(s) => Once(First(s, n))
<1> DEFINE k == IF Len(s) < n THEN Len(s) ELSE n
           t == First(s, n)
<1>1. /\ Len(s) \in Nat /\ \A i \in 1..Len(s) : s[i] \in T /\ s[i] \in Range(s)
  BY RangeIs
<1>2. k \in Nat /\ k <= n /\ k <= Len(s)
  BY <1>1
<1>3. t = SubSeq(s, 1, k)
  BY DEF First
<1> HIDE DEF t, k
<1>4. /\ t \in Seq(T) /\ Len(t) = k /\ \A i \in 1..k : t[i] = s[i]
  <2>1. \A i \in 1..k : s[i] \in T
    BY <1>1, <1>2
  <2>2. /\ SubSeq(s, 1, k) \in Seq(T)
        /\ Len(SubSeq(s, 1, k)) = IF 1 <= k THEN k - 1 + 1 ELSE 0
        /\ \A i \in 1..(k - 1 + 1) : SubSeq(s, 1, k)[i] = s[1 + i - 1]
    BY <1>2, <2>1, SubSeqProperties
  <2>3. \A i \in 1..k : i \in 1..(k - 1 + 1) /\ 1 + i - 1 = i
    BY <1>2
  <2>. QED BY <1>2, <1>3, <2>2, <2>3
<1>5. \A y \in Range(t) : \E i \in 1..k : t[i] = y
  BY <1>4, RangeIs
<1>6. \A i \in 1..k : i \in 1..Len(s)
  BY <1>1, <1>2
<1>7. Range(t) \subseteq Range(s)
  BY <1>1, <1>4, <1>5, <1>6
<1>8. Once(s) => Once(t)
  BY <1>4, <1>6 DEF Once
<1>. QED BY <1>2, <1>4, <1>7, <1>8 DEF t


Carries(x, j) == x.source = "CALLBACK" /\ j \in Range(x.about)

\* Where the jobs are.
Listed(f) == UNION {Range(f[c]) : c \in Chat}
InQueues  == Listed(queue)
InWindows == Listed(held)
InQ5      == UNION {Range(cb.jobs) : cb \in Range(q5)}
InLayers  == JobsOf(Range(pending))
InSession == JobsOf(Range(batch))

JobsHold ==
  \A j \in Job :
    /\ j \in InQueues => j \notin InWindows \cup InQ5 \cup InLayers \cup InSession \cup settled
    /\ j \in InWindows => j \notin InQ5 \cup InLayers \cup InSession \cup settled
    /\ j \in InQ5 => j \notin InLayers \cup InSession \cup settled
    /\ j \in InLayers => j \notin InSession \cup settled
    /\ j \in InSession => j \notin settled
    /\ Exists(j) <=> j \in InQueues \cup InWindows \cup InQ5 \cup InLayers \cup InSession \cup settled

\* No list of jobs has one twice, or one of another chat's list.
ListsHold(q) ==
  /\ \A c \in Chat : Once(q[c])
  /\ \A c, d \in Chat : Range(q[c]) \cap Range(q[d]) # {} => c = d

\* All jobs of a callback but the first have been folded into it.
Folds(jobs, fs) == jobs # <<>> /\ \A j \in Range(jobs) : j = Head(jobs) \/ j \in fs

Q5Holds ==
  /\ \A k \in DOMAIN q5 : Folds(q5[k].jobs, folded)
  /\ \A k, n \in DOMAIN q5 : Range(q5[k].jobs) \cap Range(q5[n].jobs) # {} => k = n

\* A callback that is for Meta is no notification's and of no other chat's task,
\* and the harness knows of its own.
ForMeta(x) ==
  LET h == Head(x.about) IN
  /\ Folds(x.about, folded) /\ ~h.note
  /\ h.task \in Range(records) =>
       /\ author[h.task] \notin Chat
       /\ author[h.task] = Harness => <<h, Harness>> \in told

\* Two items that are about the same.
Meet(x, y) ==
  \/ \E j \in Job : Carries(x, j) /\ Carries(y, j)
  \/ IsMessage(x) /\ IsMessage(y) /\ x.about = y.about

Items == Range(pending) \cup Range(batch)

ItemsHold ==
  /\ Once(pending) /\ Once(batch) /\ Range(pending) \cap Range(batch) = {}
  /\ \A x \in Items : x.source = "CALLBACK" => ForMeta(x)
  /\ \A x, y \in Items : Meet(x, y) => x = y

MessagesHold ==
  \A m \in Message : fate[m] = "waiting" <=> \E x \in Items : IsMessage(x) /\ x.about = m

\* Who is told when a callback is disposed of, and of what Meta is not told.
HistoryHolds ==
  /\ \A t \in Range(records) : author[t] # Nobody
  /\ \A j \in Job, p \in Chat \cup {Meta} : <<j, p>> \in told => j \in settled
  /\ \A j \in Job : <<j, Meta>> \in told /\ j \notin folded =>
       ~j.note /\ (j.task \in Range(records) => author[j.task] \notin Chat)
  /\ \A j \in settled \ folded :
       ~j.note /\ j.task \in Range(records) /\ author[j.task] \in Chat \cup {Harness}
         => <<j, author[j.task]>> \in told

SessionHolds ==
  /\ OneSession /\ Len(batch) <= topN
  /\ IsFiniteSet(signals)

LoopTypes ==
  /\ queue \in [Chat -> Seq(Job)] /\ held \in [Chat -> Seq(Job)]
  /\ author \in [Task -> Chat \cup {Meta, Harness, Nobody}]
  /\ records \in Seq(Task) /\ Len(records) <= MaxTasks
  /\ open \subseteq Chat /\ topN \in TopNs /\ blocked \subseteq Chat /\ signals \subseteq Chat
  /\ q5 \in Seq(Callback) /\ pending \in Seq(Item)
  /\ batch \in Seq(Item \cup Signal)
  /\ timer \in BOOLEAN /\ breaker \in BOOLEAN
  /\ told \subseteq Job \X (Chat \cup {Meta, Harness})
  /\ settled \subseteq Job /\ folded \subseteq Job
  /\ fate \in [Message -> {"new", "waiting", "attended", "lost"}]

LoopInv ==
  /\ LoopTypes
  /\ ListsHold(queue) /\ ListsHold(held) /\ Q5Holds /\ ItemsHold /\ JobsHold
  /\ MessagesHold /\ HistoryHolds /\ SessionHolds


-----------------------------------------------------------------------------
(* What the invariant says of sets                                          *)

\* A job is among those of the items if one of them carries it.
LEMMA JobsOfIs ==
  ASSUME NEW A, NEW j
  PROVE  j \in JobsOf(A) <=> \E x \in A : Carries(x, j)
BY DEF JobsOf, Carries

\* The message of an item.
LEMMA MessagesOfIs ==
  ASSUME NEW A, NEW m
  PROVE  m \in MessagesOf(A) <=> \E x \in A : IsMessage(x) /\ x.about = m
BY DEF MessagesOf

\* An item of layer 0 carries no jobs, a callback is no message, and a signal
\* is neither.
LEMMA ItemIs ==
  ASSUME NEW x \in Item \cup Signal
  PROVE  /\ x.source = "CALLBACK" => x \in Item /\ x.about \in Seq(Job) /\ ~IsMessage(x)
         /\ IsMessage(x) => x.source # "CALLBACK" /\ x \in Item /\ x.about \in Message
         /\ x \in Signal <=> x.source = "TOPIC_SIGNAL"
         /\ x.chat \in Chat \cup {Meta}
BY DEF Item, Signal, IsMessage

\* A job is known by its task and by whether it is a notification.
LEMMA JobIs ==
  ASSUME NEW j \in Job
  PROVE  /\ j.task \in Task /\ j.note \in BOOLEAN
         /\ ~j.note => j = Of(j.task)
         /\ j.note => j = Note(j.task)
BY DEF Job, Of, Note

\* The two jobs of a task.
LEMMA JobsOfTask ==
  ASSUME NEW t \in Task
  PROVE  /\ Of(t) \in Job /\ Of(t).task = t /\ ~Of(t).note
         /\ Note(t) \in Job /\ Note(t).task = t /\ Note(t).note
BY DEF Job, Of, Note

\* What the invariant says of a callback, wherever it is.
LEMMA CarriedIs ==
  ASSUME LoopInv, NEW x \in Items, x.source = "CALLBACK"
  PROVE  /\ x \in Item \cup Signal /\ x.about \in Seq(Job) /\ x.about # <<>>
         /\ Range(x.about) \subseteq Job /\ Head(x.about) \in Range(x.about)
         /\ ForMeta(x)
<1>1. pending \in Seq(Item) /\ batch \in Seq(Item \cup Signal) /\ ForMeta(x)
  BY DEF LoopInv, LoopTypes, ItemsHold
<1>2. x \in Item \cup Signal
  BY <1>1, RangeIs DEF Items
<1>3. x.about \in Seq(Job) /\ x.about # <<>>
  BY <1>1, <1>2, ItemIs DEF ForMeta, Folds
<1>. QED BY <1>1, <1>2, <1>3, RangeIs, TailHas


-----------------------------------------------------------------------------
(* The steps between ticks                                                  *)

\* What depends on nothing a step changes is as before: the lists of jobs,
LEMMA ListsStay ==
  ASSUME UNCHANGED <<queue, held, q5, folded>>
  PROVE  /\ ListsHold(queue) => ListsHold(queue')
         /\ ListsHold(held) => ListsHold(held')
         /\ Q5Holds => Q5Holds'
BY DEF ListsHold, Q5Holds

\* where the jobs are that no list has moved,
LEMMA JobsStay ==
  ASSUME UNCHANGED <<queue, author, held, q5, pending, batch, told, settled>>, JobsHold
  PROVE  JobsHold'
<1>1. InQueues' = InQueues /\ InWindows' = InWindows /\ InQ5' = InQ5
  BY DEF InQueues, InWindows, Listed, InQ5
<1>2. InLayers' = InLayers /\ InSession' = InSession
  BY DEF InLayers, InSession
<1>3. \A j : Exists(j)' <=> Exists(j)
  BY DEF Exists
<1>. QED BY <1>1, <1>2, <1>3 DEF JobsHold

\* and the items.
LEMMA ItemsStay ==
  ASSUME UNCHANGED <<author, records, pending, batch, told, folded>>, ItemsHold
  PROVE  ItemsHold'
<1>1. \A x : ForMeta(x)' <=> ForMeta(x)
  BY DEF ForMeta
<1>2. Items' = Items
  BY DEF Items
<1>. QED BY <1>1, <1>2 DEF ItemsHold

\* A topic signal is no item yet.
LEMMA TopicSignalKeeps ==
  ASSUME LoopInv, NEW c \in Chat, TopicSignal(c)
  PROVE  LoopInv'
<1>u. UNCHANGED <<queue, author, records, open, held, q5, topN, blocked, pending,
                  batch, timer, breaker, told, settled, folded, fate>>
  BY DEF TopicSignal, chats, loop, outcome
<1>1. signals' = signals \cup {c}
  BY DEF TopicSignal
<1>2. LoopTypes' /\ SessionHolds'
  BY <1>u, <1>1, FS_AddElement DEF LoopInv, LoopTypes, SessionHolds, OneSession
<1>3. ListsHold(queue') /\ ListsHold(held') /\ Q5Holds' /\ ItemsHold' /\ JobsHold'
  BY <1>u, ListsStay, JobsStay, ItemsStay DEF LoopInv
<1>4. MessagesHold' /\ HistoryHolds'
  BY <1>u DEF LoopInv, MessagesHold, HistoryHolds, Items
<1>. QED BY <1>2, <1>3, <1>4 DEF LoopInv, ListsHold

\* A message comes to wait, once.
LEMMA MessageArrivesKeeps ==
  ASSUME LoopInv, NEW m \in Message, NEW source, NEW chat, MessageArrives(m, source, chat),
         \/ source = "WAKE_CONDITION" /\ chat = Meta
         \/ source = "DIRECT_ADDRESS" /\ chat \in Chat
  PROVE  LoopInv'
<1>u. UNCHANGED <<queue, author, records, open, held, q5, topN, blocked, signals,
                  batch, timer, breaker, told, settled, folded>>
  BY DEF MessageArrives, chats, loop
<1> DEFINE x == [source |-> source, chat |-> chat, about |-> m]
<1>1. /\ fate[m] = "new"
      /\ \/ fate' = [fate EXCEPT ![m] = "lost"] /\ pending' = pending
         \/ fate' = [fate EXCEPT ![m] = "waiting"] /\ pending' = Append(pending, x)
  BY DEF MessageArrives
<1>2. x \in Item /\ IsMessage(x) /\ x.about = m
  BY DEF Item, IsMessage
<1> HIDE DEF x
<1>3. fate \in [Message -> {"new", "waiting", "attended", "lost"}] /\ pending \in Seq(Item)
  BY DEF LoopInv, LoopTypes
<1>4. /\ fate' \in [Message -> {"new", "waiting", "attended", "lost"}]
      /\ \A o \in Message : o # m => fate'[o] = fate[o]
      /\ \/ fate'[m] = "lost" /\ pending' = pending
         \/ fate'[m] = "waiting" /\ pending' = Append(pending, x)
  BY <1>1, <1>3
<1>5. \A y \in Items : ~(IsMessage(y) /\ y.about = m)
  BY <1>1 DEF LoopInv, MessagesHold
<1>6. /\ pending' \in Seq(Item) /\ Once(pending') /\ Range(pending') \cap Range(batch) = {}
      /\ \/ fate'[m] = "lost" /\ Range(pending') = Range(pending)
         \/ fate'[m] = "waiting" /\ Range(pending') = Range(pending) \cup {x}
  <2>1. x \notin Range(pending) \cup Range(batch)
    BY <1>2, <1>5 DEF Items
  <2>2. Once(pending) /\ Range(pending) \cap Range(batch) = {}
    BY DEF LoopInv, ItemsHold
  <2>3. /\ Append(pending, x) \in Seq(Item) /\ Once(Append(pending, x))
        /\ Range(Append(pending, x)) = Range(pending) \cup {x}
    BY <1>2, <1>3, <2>1, <2>2, AppendedHas
  <2>4. CASE fate'[m] = "lost" /\ pending' = pending
    BY <1>3, <2>2, <2>4
  <2>5. CASE fate'[m] = "waiting" /\ pending' = Append(pending, x)
    BY <2>1, <2>2, <2>3, <2>5
  <2>. QED BY <1>4, <2>4, <2>5
<1>7. /\ Items' \subseteq Items \cup {x} /\ Items \subseteq Items'
      /\ \/ fate'[m] = "lost" /\ Items' = Items
         \/ fate'[m] = "waiting" /\ Items' = Items \cup {x}
  <2>1. Items' = Range(pending') \cup Range(batch)
    BY <1>u DEF Items
  <2>. QED BY <1>6, <2>1 DEF Items
<1>8. \A j : ~Carries(x, j)
  BY <1>2 DEF IsMessage, Carries
<1>9. InLayers' = InLayers
  <2>1. InLayers' = JobsOf(Range(pending'))
    BY DEF InLayers, JobsOf
  <2>2. \A j : (\E y \in Range(pending') : Carries(y, j)) <=> \E y \in Range(pending) : Carries(y, j)
    BY <1>6, <1>8
  <2>. QED BY <2>1, <2>2, JobsOfIs DEF InLayers
<1>10. LoopTypes'
  BY <1>u, <1>4, <1>6 DEF LoopInv, LoopTypes
<1>11. ListsHold(queue') /\ ListsHold(held') /\ Q5Holds' /\ JobsHold'
  <2>1. InQueues' = InQueues /\ InWindows' = InWindows /\ InQ5' = InQ5
    BY <1>u DEF InQueues, InWindows, Listed, InQ5
  <2>2. InSession' = InSession /\ \A j : Exists(j)' <=> Exists(j)
    BY <1>u DEF InSession, Exists
  <2>3. JobsHold'
    BY <1>u, <1>9, <2>1, <2>2 DEF LoopInv, JobsHold
  <2>. QED BY <1>u, <2>3, ListsStay DEF LoopInv
<1>12. ItemsHold'
  <2>1. \A y \in Items : y.source = "CALLBACK" => ForMeta(y)'
    BY <1>u DEF LoopInv, ItemsHold, ForMeta
  <2>2. \A y, z \in Items : Meet(y, z) => y = z
    BY DEF LoopInv, ItemsHold
  <2>3. \A y \in Items : ~Meet(x, y) /\ ~Meet(y, x)
    BY <1>2, <1>5, <1>8 DEF Meet
  <2>4. x.source # "CALLBACK"
    BY <1>2 DEF IsMessage
  <2>5. \A y, z \in Items' : Meet(y, z) => y = z
    BY <1>7, <2>2, <2>3
  <2>6. \A y \in Items' : y.source = "CALLBACK" => ForMeta(y)'
    BY <1>7, <2>1, <2>4
  <2>7. Once(batch')
    BY <1>u DEF LoopInv, ItemsHold
  <2>. QED BY <1>u, <1>6, <2>5, <2>6, <2>7 DEF ItemsHold, Meet
<1>13. MessagesHold'
  BY <1>1, <1>2, <1>4, <1>5, <1>7 DEF LoopInv, MessagesHold
<1>14. HistoryHolds' /\ SessionHolds'
  BY <1>u DEF LoopInv, HistoryHolds, SessionHolds, OneSession
<1>. QED BY <1>10, <1>11, <1>12, <1>13, <1>14 DEF LoopInv, ListsHold

\* The breaker counts for nothing else.
LEMMA BreakerClosesKeeps ==
  ASSUME LoopInv, BreakerCloses
  PROVE  LoopInv'
<1>u. UNCHANGED <<queue, author, records, open, held, q5, topN, blocked, pending, signals,
                  batch, timer, told, settled, folded, fate>>
  BY DEF BreakerCloses, chats, waiting, outcome
<1>1. LoopTypes' /\ SessionHolds'
  <2>1. breaker' \in BOOLEAN
    BY DEF BreakerCloses
  <2>. QED BY <1>u, <2>1 DEF LoopInv, LoopTypes, SessionHolds, OneSession
<1>2. ListsHold(queue') /\ ListsHold(held') /\ Q5Holds' /\ ItemsHold' /\ JobsHold'
  BY <1>u, ListsStay, JobsStay, ItemsStay DEF LoopInv
<1>3. MessagesHold' /\ HistoryHolds'
  BY <1>u DEF LoopInv, MessagesHold, HistoryHolds, Items
<1>. QED BY <1>1, <1>2, <1>3 DEF LoopInv, ListsHold


\* The ledger gets one record more, and may lose its oldest.
LEMMA RecordsWithHas ==
  ASSUME LoopAssumption, records \in Seq(Task), Len(records) <= MaxTasks, NEW t \in Task
  PROVE  /\ RecordsWith(t) \in Seq(Task) /\ Len(RecordsWith(t)) <= MaxTasks
         /\ Range(RecordsWith(t)) \subseteq Range(records) \cup {t}
<1> DEFINE rs == Append(records, t)
<1>1. rs \in Seq(Task) /\ Len(rs) = Len(records) + 1 /\ Range(rs) = Range(records) \cup {t}
  BY AppendedHas
<1>2. Len(records) \in Nat /\ MaxTasks \in Nat
  BY LenProperties DEF LoopAssumption
<1>3. RecordsWith(t) = IF Len(rs) > MaxTasks THEN Tail(rs) ELSE rs
  BY DEF RecordsWith
<1> HIDE DEF rs
<1>4. CASE Len(rs) > MaxTasks
  <2>1. rs # <<>>
    BY <1>1, <1>2, RangeIs
  <2>2. /\ Tail(rs) \in Seq(Task) /\ Len(Tail(rs)) = Len(rs) - 1
        /\ Range(Tail(rs)) \subseteq Range(rs)
    BY <1>1, <2>1, TailHas
  <2>. QED BY <1>1, <1>2, <1>3, <1>4, <2>2
<1>5. CASE ~(Len(rs) > MaxTasks)
  BY <1>1, <1>2, <1>3, <1>5
<1>. QED BY <1>4, <1>5

\* What the lists of the chats have.
LEMMA ListedIs ==
  ASSUME NEW f, NEW y
  PROVE  y \in Listed(f) <=> \E d \in Chat : y \in Range(f[d])
BY DEF Listed

\* A list that gets a job which was nowhere.
LEMMA ListGrows ==
  ASSUME NEW f \in [Chat -> Seq(Job)], ListsHold(f), NEW c \in Chat, NEW j \in Job,
         j \notin Listed(f),
         NEW g \in [Chat -> Seq(Job)], g[c] = Append(f[c], j),
         \A d \in Chat : d # c => g[d] = f[d]
  PROVE  /\ ListsHold(g)
         /\ \A y : y \in Listed(g) <=> y \in Listed(f) \/ y = j
<1>1. \A d \in Chat : j \notin Range(f[d])
  BY ListedIs
<1>2. /\ \A d \in Chat : Once(f[d])
      /\ \A d, e \in Chat : Range(f[d]) \cap Range(f[e]) # {} => d = e
  BY DEF ListsHold
<1>3. /\ Append(f[c], j) \in Seq(Job) /\ Once(Append(f[c], j))
      /\ Range(Append(f[c], j)) = Range(f[c]) \cup {j}
  BY <1>1, <1>2, AppendedHas
<1>5. /\ Range(g[c]) = Range(f[c]) \cup {j} /\ \A d \in Chat : Once(g[d])
      /\ \A d \in Chat : d # c => Range(g[d]) = Range(f[d])
  BY <1>2, <1>3
<1>6. ASSUME NEW d \in Chat, NEW e \in Chat, Range(g[d]) \cap Range(g[e]) # {}
      PROVE  d = e
  <2>1. PICK y : y \in Range(g[d]) /\ y \in Range(g[e])
    BY <1>6
  <2>2. d # c /\ e # c => d = e
    BY <1>2, <1>5, <2>1
  <2>3. d = c /\ e # c => FALSE
    BY <1>1, <1>2, <1>5, <2>1
  <2>4. d # c /\ e = c => FALSE
    BY <1>1, <1>2, <1>5, <2>1
  <2>. QED BY <2>2, <2>3, <2>4
<1>7. \A y : (\E d \in Chat : y \in Range(g[d])) <=> (\E d \in Chat : y \in Range(f[d])) \/ y = j
  BY <1>5
<1>8. \A y : y \in Listed(g) <=> y \in Listed(f) \/ y = j
  BY <1>7, ListedIs
<1>. QED BY <1>5, <1>6, <1>8 DEF ListsHold

\* A dispatched task is new, so it was nowhere, and no record is of it.
LEMMA DispatchKeeps ==
  ASSUME LoopAssumption, LoopInv, NEW t \in Task, NEW c \in Chat,
         NEW from \in Chat \cup {Meta, Harness}, Dispatch(t, c, from)
  PROVE  LoopInv'
<1>u. UNCHANGED <<open, held, q5, topN, blocked, pending, signals, batch, timer, breaker,
                  told, settled, folded, fate>>
  BY DEF Dispatch, waiting, loop, outcome
<1>1. /\ author[t] = Nobody /\ author' = [author EXCEPT ![t] = from]
      /\ records' = RecordsWith(t) /\ queue' = [queue EXCEPT ![c] = Append(queue[c], Of(t))]
  BY DEF Dispatch
<1>2. /\ LoopTypes /\ ListsHold(queue) /\ ListsHold(held) /\ Q5Holds /\ ItemsHold /\ JobsHold
      /\ MessagesHold /\ HistoryHolds /\ SessionHolds
  BY DEF LoopInv
<1>3. /\ queue \in [Chat -> Seq(Job)] /\ author \in [Task -> Chat \cup {Meta, Harness, Nobody}]
      /\ records \in Seq(Task) /\ Len(records) <= MaxTasks
  BY <1>2 DEF LoopTypes
<1>4. Of(t) \in Job /\ Of(t).task = t /\ ~Of(t).note
  BY JobsOfTask
<1>5. /\ ~Exists(Of(t)) /\ Of(t) \notin InQueues /\ Of(t) \notin InWindows /\ Of(t) \notin InQ5
      /\ Of(t) \notin InLayers /\ Of(t) \notin InSession /\ Of(t) \notin settled
  <2>1. ~Exists(Of(t))
    BY <1>1, <1>4 DEF Exists
  <2>. QED BY <1>2, <1>4, <2>1 DEF JobsHold
<1>6. /\ author' \in [Task -> Chat \cup {Meta, Harness, Nobody}] /\ author'[t] = from
      /\ \A s \in Task : s # t => author'[s] = author[s]
  BY <1>1, <1>3
<1>7. /\ queue' \in [Chat -> Seq(Job)] /\ ListsHold(queue') /\ InQueues' = InQueues \cup {Of(t)}
  <2>1. queue' = [queue EXCEPT ![c] = Append(queue[c], Of(t))]
    BY DEF Dispatch
  <2>2. /\ queue' \in [Chat -> Seq(Job)] /\ queue'[c] = Append(queue[c], Of(t))
        /\ \A d \in Chat : d # c => queue'[d] = queue[d]
    BY <1>3, <1>4, <2>1, AppendedHas
  <2>3. InQueues' = Listed(queue')
    BY DEF InQueues, Listed
  <2>4. Of(t) \in Job /\ Of(t) \notin Listed(queue)
    BY <1>4, <1>5 DEF InQueues
  <2>5. queue \in [Chat -> Seq(Job)] /\ ListsHold(queue)
    BY <1>2, <1>3
  <2>6. /\ ListsHold(queue')
        /\ \A y : y \in Listed(queue') <=> y \in Listed(queue) \/ y = Of(t)
    BY <2>2, <2>4, <2>5, ListGrows
  <2>. QED BY <2>2, <2>3, <2>6 DEF InQueues
<1>8. /\ records' \in Seq(Task) /\ Len(records') <= MaxTasks
      /\ Range(records') \subseteq Range(records) \cup {t}
  BY <1>1, <1>3, RecordsWithHas
<1>9. LoopTypes'
  BY <1>u, <1>2, <1>6, <1>7, <1>8 DEF LoopTypes
<1>10. ListsHold(held') /\ Q5Holds'
  BY <1>u, <1>2 DEF ListsHold, Q5Holds
<1>11. from # Nobody
  BY DEF LoopAssumption
<1>12. ASSUME NEW j \in Job
       PROVE  Exists(j)' <=> Exists(j) \/ j = Of(t)
  <2>1. CASE j.note
    BY <1>u, <1>4, <2>1 DEF Exists
  <2>2. CASE ~j.note /\ j.task = t
    BY <1>6, <1>11, <2>2, JobIs DEF Exists
  <2>3. CASE ~j.note /\ j.task # t
    BY <1>4, <1>6, <2>3, JobIs DEF Exists
  <2>. QED BY <2>1, <2>2, <2>3
<1>13. JobsHold'
  <2>1. InWindows' = InWindows /\ InQ5' = InQ5 /\ InLayers' = InLayers /\ InSession' = InSession
    BY <1>u DEF InWindows, InQ5, InLayers, InSession
  <2>. QED BY <1>u, <1>2, <1>5, <1>7, <1>12, <2>1 DEF JobsHold
<1>14. ASSUME NEW j \in Job, ~j.note, j # Of(t)
       PROVE  /\ author'[j.task] = author[j.task]
              /\ j.task \in Range(records') => j.task \in Range(records)
  BY <1>6, <1>8, <1>14, JobIs
<1>15. ItemsHold'
  <2>1. ASSUME NEW x \in Items, x.source = "CALLBACK"
        PROVE  ForMeta(x)'
    <3> DEFINE h == Head(x.about)
    <3>1. h \in Job /\ Carries(x, h) /\ ForMeta(x)
      BY <2>1, CarriedIs DEF Carries
    <3>2. h # Of(t)
      BY <1>5, <2>1, <3>1, JobsOfIs DEF Items, InLayers, InSession
    <3>. QED BY <1>u, <1>14, <3>1, <3>2 DEF ForMeta
  <2>2. Items' = Items
    BY <1>u DEF Items
  <2>. QED BY <1>u, <1>2, <2>1, <2>2 DEF ItemsHold
<1>16. MessagesHold' /\ SessionHolds'
  BY <1>u, <1>2 DEF MessagesHold, SessionHolds, OneSession, Items
<1>17. HistoryHolds'
  <2>1. \A s \in Range(records') : author'[s] # Nobody
    <3>1. Range(records') \subseteq Task
      BY <1>8, RangeIs
    <3>. QED BY <1>2, <1>6, <1>8, <1>11, <3>1 DEF HistoryHolds
  <2>2. \A j \in settled : j \in Job /\ j # Of(t)
    BY <1>2, <1>5 DEF LoopTypes
  <2>3. \A j \in Job, p \in Chat \cup {Meta} : <<j, p>> \in told' => j \in settled'
    BY <1>u, <1>2 DEF HistoryHolds
  <2>4. \A j \in Job : <<j, Meta>> \in told' /\ j \notin folded' =>
          ~j.note /\ (j.task \in Range(records') => author'[j.task] \notin Chat)
    BY <1>u, <1>2, <1>14, <2>2, <2>3 DEF HistoryHolds
  <2>5. \A j \in settled' \ folded' :
          ~j.note /\ j.task \in Range(records') /\ author'[j.task] \in Chat \cup {Harness}
            => <<j, author'[j.task]>> \in told'
    BY <1>u, <1>2, <1>14, <2>2 DEF HistoryHolds
  <2>. QED BY <2>1, <2>3, <2>4, <2>5 DEF HistoryHolds
<1>. QED BY <1>7, <1>9, <1>10, <1>13, <1>15, <1>16, <1>17 DEF LoopInv, ListsHold


\* Items go: their jobs are settled, Meta may be told of them, and their
\* messages wait no longer.
LEMMA ItemsGo ==
  ASSUME LoopAssumption, LoopInv,
         UNCHANGED <<queue, author, records, held, q5, folded>>,
         NEW gone,
         pending' \in Seq(Item), Once(pending'), Range(pending') \subseteq Range(pending),
         batch' \in Seq(Item \cup Signal), Once(batch'), Range(batch') \subseteq Range(batch),
         \A x : x \in Items' <=> x \in Items /\ x \notin gone, gone \subseteq Items,
         \A j : j \in settled' <=> j \in settled \/ j \in JobsOf(gone),
         \A x : x \in told => x \in told',
         \A x \in told' : x \in told \/ \E j \in JobsOf(gone) : x = <<j, Meta>>,
         \A m \in Message : fate'[m] = "waiting" <=>
                              fate[m] = "waiting" /\ m \notin MessagesOf(gone)
  PROVE  /\ ListsHold(queue') /\ ListsHold(held') /\ Q5Holds' /\ ItemsHold' /\ JobsHold'
         /\ MessagesHold' /\ HistoryHolds'
<1>1. /\ LoopTypes /\ ListsHold(queue) /\ ListsHold(held) /\ Q5Holds /\ ItemsHold /\ JobsHold
      /\ MessagesHold /\ HistoryHolds
  BY DEF LoopInv
<1>2. ListsHold(queue') /\ ListsHold(held') /\ Q5Holds'
  BY <1>1, ListsStay
<1>3. ASSUME NEW j \in JobsOf(gone)
      PROVE  \E x \in gone : x \in Items /\ x.source = "CALLBACK" /\ Carries(x, j)
  <2>1. PICK x \in gone : Carries(x, j)
    BY <1>3, JobsOfIs
  <2>. QED BY <2>1 DEF Carries
<1>4. ASSUME NEW j \in JobsOf(gone)
      PROVE  /\ j \in Job /\ (j \in InLayers \/ j \in InSession)
             /\ ~\E x \in Items' : Carries(x, j)
  <2>1. PICK x \in gone : x \in Items /\ x.source = "CALLBACK" /\ Carries(x, j)
    BY <1>3
  <2>2. j \in Job
    BY <2>1, CarriedIs DEF Carries
  <2>3. j \in InLayers \/ j \in InSession
    BY <2>1, JobsOfIs DEF Items, InLayers, InSession
  <2>4. ASSUME NEW y \in Items', Carries(y, j) PROVE FALSE
    <3>1. y \in Items /\ y \notin gone
      BY <2>4
    <3>2. Meet(x, y)
      BY <2>1, <2>2, <2>4 DEF Meet
    <3>. QED BY <1>1, <2>1, <3>1, <3>2 DEF ItemsHold
  <2>. QED BY <2>2, <2>3, <2>4
<1>5. /\ \A j : j \in InLayers' => j \in InLayers /\ \E x \in Items' : Carries(x, j)
      /\ \A j : j \in InSession' => j \in InSession /\ \E x \in Items' : Carries(x, j)
      /\ \A j : j \in InLayers \/ j \in InSession =>
           j \in InLayers' \/ j \in InSession' \/ j \in JobsOf(gone)
  <2>1. /\ \A j : j \in InLayers' <=> \E x \in Range(pending') : Carries(x, j)
        /\ \A j : j \in InSession' <=> \E x \in Range(batch') : Carries(x, j)
        /\ \A j : j \in InLayers <=> \E x \in Range(pending) : Carries(x, j)
        /\ \A j : j \in InSession <=> \E x \in Range(batch) : Carries(x, j)
    <3>1. InLayers' = JobsOf(Range(pending')) /\ InSession' = JobsOf(Range(batch'))
      BY DEF InLayers, InSession, JobsOf
    <3>. QED BY <3>1, JobsOfIs DEF InLayers, InSession
  <2>2. Items' = Range(pending') \cup Range(batch') /\ Items = Range(pending) \cup Range(batch)
    BY DEF Items
  <2>3. ASSUME NEW j, j \in InLayers \/ j \in InSession
        PROVE  j \in InLayers' \/ j \in InSession' \/ j \in JobsOf(gone)
    <3>1. PICK x \in Items : Carries(x, j)
      BY <2>1, <2>2, <2>3
    <3>2. CASE x \in gone
      BY <3>1, <3>2, JobsOfIs
    <3>3. CASE x \in Items'
      BY <2>1, <2>2, <3>1, <3>3
    <3>. QED BY <3>1, <3>2, <3>3
  <2>. QED BY <2>1, <2>2, <2>3
<1>6. \A j \in Job : Exists(j)' <=> Exists(j)
  <2>1. \A j, c : c \in Chat => (<<j, c>> \in told' <=> <<j, c>> \in told)
    <3>1. Meta \notin Chat
      BY DEF LoopAssumption
    <3>. QED BY <3>1
  <2>. QED BY <2>1 DEF Exists
<1>7. JobsHold'
  <2>1. InQueues' = InQueues /\ InWindows' = InWindows /\ InQ5' = InQ5
    BY DEF InQueues, InWindows, Listed, InQ5
  <2> SUFFICES ASSUME NEW j \in Job
      PROVE  /\ j \in InQueues => j \notin InWindows \cup InQ5 \cup InLayers' \cup InSession' \cup settled'
             /\ j \in InWindows => j \notin InQ5 \cup InLayers' \cup InSession' \cup settled'
             /\ j \in InQ5 => j \notin InLayers' \cup InSession' \cup settled'
             /\ j \in InLayers' => j \notin InSession' \cup settled'
             /\ j \in InSession' => j \notin settled'
             /\ Exists(j) <=> j \in InQueues \cup InWindows \cup InQ5 \cup InLayers'
                                \cup InSession' \cup settled'
    BY <1>6, <2>1 DEF JobsHold
  <2>. QED BY <1>1, <1>4, <1>5 DEF JobsHold
<1>8. ItemsHold'
  <2>1. \A x \in Items' : x.source = "CALLBACK" => ForMeta(x)'
    BY <1>1 DEF ItemsHold, ForMeta
  <2>2. \A x, y \in Items' : Meet(x, y) => x = y
    BY <1>1 DEF ItemsHold
  <2>3. Range(pending') \cap Range(batch') = {}
    BY <1>1 DEF ItemsHold
  <2>. QED BY <2>1, <2>2, <2>3 DEF ItemsHold, Meet
<1>9. MessagesHold'
  <2> SUFFICES ASSUME NEW m \in Message
      PROVE  fate'[m] = "waiting" <=> \E x \in Items' : IsMessage(x) /\ x.about = m
    BY DEF MessagesHold
  <2>1. fate[m] = "waiting" <=> \E x \in Items : IsMessage(x) /\ x.about = m
    BY <1>1 DEF MessagesHold
  <2>2. m \in MessagesOf(gone) <=> \E x \in gone : IsMessage(x) /\ x.about = m
    BY MessagesOfIs
  <2>3. \A x, y \in Items : IsMessage(x) /\ x.about = m /\ IsMessage(y) /\ y.about = m => x = y
    BY <1>1 DEF ItemsHold, Meet
  <2>. QED BY <2>1, <2>2, <2>3
<1>10. ASSUME NEW j \in JobsOf(gone), j \notin folded
       PROVE  /\ ~j.note
              /\ j.task \in Range(records) =>
                   /\ author[j.task] \notin Chat
                   /\ author[j.task] = Harness => <<j, Harness>> \in told
  <2>1. PICK x \in gone : x \in Items /\ x.source = "CALLBACK" /\ Carries(x, j)
    BY <1>3
  <2>2. ForMeta(x) /\ j \in Range(x.about)
    BY <2>1, CarriedIs DEF Carries
  <2>3. j = Head(x.about)
    BY <1>10, <2>2 DEF ForMeta, Folds
  <2>. QED BY <2>2, <2>3 DEF ForMeta
<1>11. HistoryHolds'
  <2>1. \A t \in Range(records') : author'[t] # Nobody
    BY <1>1 DEF HistoryHolds
  <2>2. ASSUME NEW j \in Job, NEW p \in Chat \cup {Meta}, <<j, p>> \in told'
        PROVE  j \in settled'
    BY <1>1, <2>2 DEF HistoryHolds
  <2>3. ASSUME NEW j \in Job, <<j, Meta>> \in told', j \notin folded'
        PROVE  ~j.note /\ (j.task \in Range(records') => author'[j.task] \notin Chat)
    <3>1. CASE <<j, Meta>> \in told
      BY <1>1, <2>3, <3>1 DEF HistoryHolds
    <3>2. CASE j \in JobsOf(gone)
      BY <1>10, <2>3, <3>2
    <3>. QED BY <2>3, <3>1, <3>2
  <2>4. ASSUME NEW j \in settled' \ folded', ~j.note, j.task \in Range(records'),
               author'[j.task] \in Chat \cup {Harness}
        PROVE  <<j, author'[j.task]>> \in told'
    <3>1. CASE j \in settled
      BY <1>1, <2>4, <3>1 DEF HistoryHolds
    <3>2. CASE j \in JobsOf(gone)
      BY <1>10, <2>4, <3>2
    <3>. QED BY <2>4, <3>1, <3>2
  <2>. QED BY <2>1, <2>2, <2>3, <2>4 DEF HistoryHolds
<1>. QED BY <1>2, <1>7, <1>8, <1>9, <1>11


\* What is outside a chat.
LEMMA OutsideHas ==
  ASSUME NEW s \in Seq(Item), NEW c
  PROVE  /\ Outside(s, c) \in Seq(Item) /\ (Once(s) => Once(Outside(s, c)))
         /\ \A x : x \in Range(Outside(s, c)) <=> x \in Range(s) /\ x.chat # c
<1> DEFINE S == {i \in Range(s) : i.chat # c}
<1>1. \A x : x \in S <=> x \in Range(s) /\ x.chat # c
  OBVIOUS
<1>2. Outside(s, c) = Only(s, S)
  BY DEF Outside
<1> HIDE DEF S
<1>. QED BY <1>1, <1>2, OnlyHas

\* A window opens: what the chat has in the accumulator is dropped.
LEMMA SpeakKeeps ==
  ASSUME LoopAssumption, LoopInv, NEW c \in Chat, Speak(c)
  PROVE  LoopInv'
<1>u. UNCHANGED <<queue, author, records, held, q5, topN, batch, timer, breaker, told, folded>>
  BY DEF Speak, loop
<1> DEFINE gone == Range(pending) \ Range(Outside(pending, c))
<1>1. /\ open' = open \cup {c} /\ blocked' = blocked \cup {c}
      /\ pending' = Outside(pending, c) /\ signals' = signals \ {c}
      /\ settled' = settled \cup JobsOf(gone)
  BY DEF Speak
<1>2. fate' = [m \in Message |-> IF m \in MessagesOf(gone) THEN "lost" ELSE fate[m]]
  BY DEF Speak
<1>3. LoopTypes /\ ItemsHold /\ SessionHolds
  BY DEF LoopInv
<1>4. /\ pending \in Seq(Item) /\ batch \in Seq(Item \cup Signal) /\ settled \subseteq Job
      /\ fate \in [Message -> {"new", "waiting", "attended", "lost"}]
  BY <1>3 DEF LoopTypes
<1>5. /\ pending' \in Seq(Item) /\ Once(pending')
      /\ \A x : x \in Range(pending') <=> x \in Range(pending) /\ x.chat # c
  BY <1>1, <1>3, <1>4, OutsideHas DEF ItemsHold
<1>6. \A x : x \in gone <=> x \in Range(pending) /\ x \notin Range(pending')
  BY <1>1
<1>7. /\ fate' \in [Message -> {"new", "waiting", "attended", "lost"}]
      /\ \A m \in Message : fate'[m] = "waiting" <=>
                              fate[m] = "waiting" /\ m \notin MessagesOf(gone)
  BY <1>2, <1>4
<1>8. \A j : j \in settled' <=> j \in settled \/ j \in JobsOf(gone)
  BY <1>1
<1> HIDE DEF gone
<1>9. Items' = Range(pending') \cup Range(batch) /\ Items = Range(pending) \cup Range(batch)
  BY <1>u DEF Items
<1>10. gone \subseteq Items /\ \A x : x \in Items' <=> x \in Items /\ x \notin gone
  BY <1>3, <1>5, <1>6, <1>9 DEF ItemsHold
<1>11. settled' \subseteq Job
  <2>1. ASSUME NEW j \in JobsOf(gone) PROVE j \in Job
    <3>1. PICK x \in gone : Carries(x, j)
      BY JobsOfIs
    <3>. QED BY <1>10, <3>1, CarriedIs DEF Carries
  <2>. QED BY <1>4, <1>8, <2>1
<1>12. LoopTypes'
  <2>1. open' \subseteq Chat /\ blocked' \subseteq Chat /\ signals' \subseteq Chat
    BY <1>1, <1>3 DEF LoopTypes
  <2>. QED BY <1>u, <1>3, <1>5, <1>7, <1>11, <2>1 DEF LoopTypes
<1>13. SessionHolds'
  <2>1. IsFiniteSet(signals')
    BY <1>1, <1>3, FS_RemoveElement DEF SessionHolds
  <2>. QED BY <1>u, <1>3, <2>1 DEF SessionHolds, OneSession
<1>14. /\ ListsHold(queue') /\ ListsHold(held') /\ Q5Holds' /\ ItemsHold' /\ JobsHold'
       /\ MessagesHold' /\ HistoryHolds'
  <2>1. /\ Once(batch') /\ Range(batch') \subseteq Range(batch) /\ batch' \in Seq(Item \cup Signal)
        /\ Range(pending') \subseteq Range(pending)
    BY <1>u, <1>3, <1>4, <1>5 DEF ItemsHold
  <2>2. /\ \A x : x \in told => x \in told'
        /\ \A x \in told' : x \in told \/ \E j \in JobsOf(gone) : x = <<j, Meta>>
    BY <1>u
  <2>. QED BY <1>u, <1>5, <1>7, <1>8, <1>10, <2>1, <2>2, ItemsGo
<1>. QED BY <1>12, <1>13, <1>14 DEF LoopInv, ListsHold

\* The session has had its entries: they are gone.
LEMMA SessionKeeps ==
  ASSUME LoopAssumption, LoopInv,
         UNCHANGED <<queue, author, records, open, held, q5, topN, blocked, pending, signals,
                     folded>>,
         batch' = <<>>, timer' = TRUE, breaker' \in BOOLEAN,
         settled' = settled \cup JobsOf(Range(batch)),
         told' = told \/ told' = told \cup (JobsOf(Range(batch)) \X {Meta}),
         NEW end \in {"attended", "lost"},
         fate' = [m \in Message |-> IF m \in MessagesOf(Range(batch)) THEN end ELSE fate[m]]
  PROVE  LoopInv'
<1> DEFINE gone == Range(batch)
<1>1. LoopTypes /\ ItemsHold /\ SessionHolds
  BY DEF LoopInv
<1>2. /\ pending \in Seq(Item) /\ batch \in Seq(Item \cup Signal) /\ settled \subseteq Job
      /\ fate \in [Message -> {"new", "waiting", "attended", "lost"}]
      /\ told \subseteq Job \X (Chat \cup {Meta, Harness})
  BY <1>1 DEF LoopTypes
<1>3. /\ fate' \in [Message -> {"new", "waiting", "attended", "lost"}]
      /\ \A m \in Message : fate'[m] = "waiting" <=>
                              fate[m] = "waiting" /\ m \notin MessagesOf(gone)
  BY <1>2
<1>4. \A j : j \in settled' <=> j \in settled \/ j \in JobsOf(gone)
  OBVIOUS
<1>5. /\ \A x : x \in told => x \in told'
      /\ \A x \in told' : x \in told \/ \E j \in JobsOf(gone) : x = <<j, Meta>>
  OBVIOUS
<1>6. /\ batch' \in Seq(Item \cup Signal) /\ Len(batch') = 0 /\ Range(batch') = {}
      /\ Once(batch')
  BY RangeIs, EmptySeq DEF Once
<1>7. Items' = Range(pending) /\ Items = Range(pending) \cup gone
  BY <1>6 DEF Items
<1> HIDE DEF gone
<1>8. gone \subseteq Items /\ \A x : x \in Items' <=> x \in Items /\ x \notin gone
  BY <1>1, <1>7 DEF ItemsHold, gone
<1>9. ASSUME NEW j \in JobsOf(gone) PROVE j \in Job
  <2>1. PICK x \in gone : Carries(x, j)
    BY JobsOfIs
  <2>. QED BY <1>8, <2>1, CarriedIs DEF Carries
<1>10. settled' \subseteq Job
  BY <1>2, <1>4, <1>9
<1>11. told' \subseteq Job \X (Chat \cup {Meta, Harness})
  BY <1>2, <1>5, <1>9
<1>12. LoopTypes'
  BY <1>1, <1>3, <1>6, <1>10, <1>11 DEF LoopTypes
<1>13. SessionHolds'
  <2>1. OneSession'
    BY <1>6, RangeIs DEF OneSession
  <2>2. Len(batch') <= topN'
    BY <1>1, <1>6 DEF LoopTypes, LoopAssumption
  <2>. QED BY <1>1, <2>1, <2>2 DEF SessionHolds
<1>14. /\ ListsHold(queue') /\ ListsHold(held') /\ Q5Holds' /\ ItemsHold' /\ JobsHold'
       /\ MessagesHold' /\ HistoryHolds'
  <2>1. /\ Range(batch') \subseteq Range(batch) /\ Range(pending') \subseteq Range(pending)
        /\ pending' \in Seq(Item) /\ Once(pending')
    BY <1>1, <1>2, <1>6 DEF ItemsHold
  <2>. QED BY <1>3, <1>4, <1>5, <1>6, <1>8, <2>1, ItemsGo
<1>. QED BY <1>12, <1>13, <1>14 DEF LoopInv, ListsHold

\* However the session ends.
LEMMA SessionEndsKeeps ==
  ASSUME LoopAssumption, LoopInv, SessionEnds
  PROVE  LoopInv'
<1>1. CASE SessionReturns
  <2>u. UNCHANGED <<queue, author, records, open, held, q5, topN, blocked, pending, signals,
                    folded>>
    BY <1>1 DEF SessionReturns, chats, waiting
  <2>1. /\ batch' = <<>> /\ timer' = TRUE /\ breaker' \in BOOLEAN
        /\ settled' = settled \cup JobsOf(Range(batch))
        /\ told' = told \cup (JobsOf(Range(batch)) \X {Meta})
    BY <1>1 DEF SessionReturns
  <2>2. fate' = [m \in Message |->
                  IF m \in MessagesOf(Range(batch)) THEN "attended" ELSE fate[m]]
    BY <1>1 DEF SessionReturns
  <2>. QED BY <2>u, <2>1, <2>2, SessionKeeps
<1>2. ASSUME NEW quota \in BOOLEAN, SessionThrows(quota)
      PROVE  LoopInv'
  <2>u. UNCHANGED <<queue, author, records, open, held, q5, topN, blocked, pending, signals,
                    folded>>
    BY <1>2 DEF SessionThrows, chats, waiting
  <2>1. /\ batch' = <<>> /\ timer' = TRUE /\ breaker' \in BOOLEAN
        /\ settled' = settled \cup JobsOf(Range(batch)) /\ told' = told
    BY <1>2 DEF SessionThrows, LoopGoesOn
  <2>2. fate' = [m \in Message |->
                  IF m \in MessagesOf(Range(batch)) THEN "lost" ELSE fate[m]]
    BY <1>2 DEF SessionThrows
  <2>. QED BY <2>u, <2>1, <2>2, SessionKeeps
<1>. QED BY <1>1, <1>2 DEF SessionEnds


\* A list that loses some of its jobs.
LEMMA ListDrops ==
  ASSUME NEW f \in [Chat -> Seq(Job)], ListsHold(f), NEW c \in Chat,
         NEW g \in [Chat -> Seq(Job)], Once(g[c]), Range(g[c]) \subseteq Range(f[c]),
         \A d \in Chat : d # c => g[d] = f[d]
  PROVE  /\ ListsHold(g)
         /\ \A y : y \in Listed(g) <=>
              y \in Listed(f) /\ (y \in Range(f[c]) => y \in Range(g[c]))
<1>1. /\ \A d \in Chat : Once(f[d])
      /\ \A d, e \in Chat : Range(f[d]) \cap Range(f[e]) # {} => d = e
  BY DEF ListsHold
<1>2. \A d \in Chat : Once(g[d]) /\ Range(g[d]) \subseteq Range(f[d])
  BY <1>1
<1>3. ASSUME NEW d \in Chat, NEW e \in Chat, Range(g[d]) \cap Range(g[e]) # {}
      PROVE  d = e
  BY <1>1, <1>2, <1>3
<1>4. ASSUME NEW y
      PROVE  (\E d \in Chat : y \in Range(g[d])) <=>
               (\E d \in Chat : y \in Range(f[d])) /\ (y \in Range(f[c]) => y \in Range(g[c]))
  <2>1. ASSUME NEW d \in Chat, y \in Range(g[d])
        PROVE  y \in Range(f[d]) /\ (y \in Range(f[c]) => y \in Range(g[c]))
    BY <1>1, <1>2, <2>1
  <2>2. ASSUME NEW d \in Chat, y \in Range(f[d]), y \in Range(f[c]) => y \in Range(g[c])
        PROVE  \E e \in Chat : y \in Range(g[e])
    BY <2>2
  <2>. QED BY <2>1, <2>2
<1>. QED BY <1>2, <1>3, <1>4, ListedIs DEF ListsHold

\* Q5 gets a callback whose jobs it has not.
LEMMA Q5Grows ==
  ASSUME q5 \in Seq(Callback), Q5Holds, NEW cb \in Callback, q5' = Append(q5, cb),
         Folds(cb.jobs, folded'), folded \subseteq folded', \A j \in Range(cb.jobs) : j \notin InQ5
  PROVE  /\ q5' \in Seq(Callback) /\ Q5Holds'
         /\ \A y : y \in InQ5' <=> y \in InQ5 \/ y \in Range(cb.jobs)
<1>1. /\ q5' \in Seq(Callback) /\ Len(q5') = Len(q5) + 1 /\ Range(q5') = Range(q5) \cup {cb}
      /\ Len(q5) \in Nat /\ q5'[Len(q5) + 1] = cb /\ \A k \in 1..Len(q5) : q5'[k] = q5[k]
  BY AppendedHas, AppendProperties, LenProperties
<1>2. DOMAIN q5 = 1..Len(q5) /\ DOMAIN q5' = 1..Len(q5')
  BY <1>1, RangeIs
<1>3. \A k \in DOMAIN q5' : (k \in DOMAIN q5 /\ q5'[k] = q5[k])
                          \/ (k = Len(q5) + 1 /\ q5'[k] = cb)
  BY <1>1, <1>2
<1>4. \A y : y \in InQ5 <=> \E d \in Range(q5) : y \in Range(d.jobs)
  BY DEF InQ5
<1>5. \A y : y \in InQ5' <=> \E d \in Range(q5') : y \in Range(d.jobs)
  BY DEF InQ5
<1>6. \A y : y \in InQ5' <=> y \in InQ5 \/ y \in Range(cb.jobs)
  BY <1>1, <1>4, <1>5
<1>7. \A k \in DOMAIN q5 : \A y \in Range(q5[k].jobs) : y \in InQ5
  BY <1>2, <1>4, RangeIs
<1>8. \A k \in DOMAIN q5' : Folds(q5'[k].jobs, folded')
  BY <1>3 DEF Q5Holds, Folds
<1>9. ASSUME NEW k \in DOMAIN q5', NEW n \in DOMAIN q5',
             Range(q5'[k].jobs) \cap Range(q5'[n].jobs) # {}
      PROVE  k = n
  <2>1. PICK y : y \in Range(q5'[k].jobs) /\ y \in Range(q5'[n].jobs)
    BY <1>9
  <2>2. CASE k \in DOMAIN q5 /\ q5'[k] = q5[k] /\ n \in DOMAIN q5 /\ q5'[n] = q5[n]
    BY <2>1, <2>2 DEF Q5Holds
  <2>3. CASE k = Len(q5) + 1 /\ n = Len(q5) + 1
    BY <2>3
  <2>4. CASE k \in DOMAIN q5 /\ q5'[k] = q5[k] /\ q5'[n] = cb
    BY <1>7, <2>1, <2>4
  <2>5. CASE n \in DOMAIN q5 /\ q5'[n] = q5[n] /\ q5'[k] = cb
    BY <1>7, <2>1, <2>5
  <2>. QED BY <1>3, <2>2, <2>3, <2>4, <2>5
<1>. QED BY <1>1, <1>6, <1>8, <1>9 DEF Q5Holds

\* What holds of callbacks holds when more of them are folded.
LEMMA FoldedGrows ==
  ASSUME UNCHANGED <<author, records, pending, batch, told, settled, fate>>,
         folded \subseteq folded', ItemsHold, MessagesHold, HistoryHolds
  PROVE  ItemsHold' /\ MessagesHold' /\ HistoryHolds'
<1>1. Items' = Items
  BY DEF Items
<1>2. ASSUME NEW x, ForMeta(x) PROVE ForMeta(x)'
  BY <1>2 DEF ForMeta, Folds
<1>3. ItemsHold'
  BY <1>1, <1>2 DEF ItemsHold
<1>4. MessagesHold'
  BY <1>1 DEF MessagesHold
<1>5. HistoryHolds'
  BY DEF HistoryHolds
<1>. QED BY <1>3, <1>4, <1>5

\* A run ends: its job goes to the window or into Q5.
LEMMA EndRunKeeps ==
  ASSUME LoopInv, NEW c \in Chat, EndRun(c)
  PROVE  LoopInv'
<1>u. UNCHANGED <<author, records, open, topN, blocked, pending, signals, batch, timer,
                  breaker, told, settled, folded, fate>>
  BY DEF EndRun, waiting, loop, outcome
<1> DEFINE j == Head(queue[c])
<1>1. /\ LoopTypes /\ ListsHold(queue) /\ ListsHold(held) /\ Q5Holds /\ ItemsHold /\ JobsHold
      /\ MessagesHold /\ HistoryHolds /\ SessionHolds
  BY DEF LoopInv
<1>2. queue \in [Chat -> Seq(Job)] /\ held \in [Chat -> Seq(Job)] /\ q5 \in Seq(Callback)
  BY <1>1 DEF LoopTypes
<1>3. queue[c] \in Seq(Job) /\ queue[c] # <<>> /\ Once(queue[c])
  BY <1>1, <1>2 DEF EndRun, Busy, ListsHold
<1>4. /\ Tail(queue[c]) \in Seq(Job) /\ Once(Tail(queue[c])) /\ j \in Job /\ j \in Range(queue[c])
      /\ Range(queue[c]) = Range(Tail(queue[c])) \cup {j} /\ j \notin Range(Tail(queue[c]))
  BY <1>3, TailHas
<1>5. /\ queue' \in [Chat -> Seq(Job)] /\ queue'[c] = Tail(queue[c])
      /\ \A d \in Chat : d # c => queue'[d] = queue[d]
  <2>1. queue' = [queue EXCEPT ![c] = Tail(queue[c])]
    BY DEF EndRun
  <2>. QED BY <1>2, <1>4, <2>1
<1> HIDE DEF j
<1>6. /\ ListsHold(queue')
      /\ \A y : y \in Listed(queue') <=> y \in Listed(queue) /\ y # j
  <2>1. Once(queue'[c]) /\ Range(queue'[c]) \subseteq Range(queue[c])
    BY <1>4, <1>5
  <2>2. /\ ListsHold(queue')
        /\ \A y : y \in Listed(queue') <=>
             y \in Listed(queue) /\ (y \in Range(queue[c]) => y \in Range(queue'[c]))
    BY <1>1, <1>2, <1>5, <2>1, ListDrops
  <2>. QED BY <1>4, <1>5, <2>2
<1>7. j \in InQueues
  BY <1>4, ListedIs DEF InQueues
<1>8. \A y : y \in InQueues' <=> y \in InQueues /\ y # j
  <2>1. InQueues' = Listed(queue')
    BY DEF InQueues, Listed
  <2>. QED BY <1>6, <2>1 DEF InQueues
<1>9. j \notin InWindows /\ j \notin InQ5
  BY <1>1, <1>4, <1>7 DEF JobsHold
<1>10. /\ held' \in [Chat -> Seq(Job)] /\ ListsHold(held') /\ q5' \in Seq(Callback) /\ Q5Holds'
       /\ \A y : y \in InWindows' \/ y \in InQ5' <=> y \in InWindows \/ y \in InQ5 \/ y = j
       /\ \A y : y \in InWindows' => y \in InWindows \/ y = j
       /\ \A y : y \in InQ5' => y \in InQ5 \/ y = j
       /\ ~(j \in InWindows' /\ j \in InQ5')
  <2>1. CASE c \in open
    <3>1. held' = [held EXCEPT ![c] = Append(held[c], j)] /\ q5' = q5
      BY <2>1 DEF EndRun, j
    <3>2. /\ held' \in [Chat -> Seq(Job)] /\ held'[c] = Append(held[c], j)
          /\ \A d \in Chat : d # c => held'[d] = held[d]
      BY <1>2, <1>4, <3>1, AppendedHas
    <3>3. j \notin Listed(held)
      BY <1>9 DEF InWindows
    <3>4. /\ ListsHold(held')
          /\ \A y : y \in Listed(held') <=> y \in Listed(held) \/ y = j
      BY <1>1, <1>2, <1>4, <3>2, <3>3, ListGrows
    <3>5. InWindows' = Listed(held') /\ InQ5' = InQ5 /\ Q5Holds'
      BY <1>u, <1>1, <3>1 DEF InWindows, Listed, InQ5, Q5Holds
    <3>. QED BY <1>2, <1>9, <3>1, <3>2, <3>4, <3>5 DEF InWindows
  <2>2. CASE c \notin open
    <3> DEFINE cb == [chat |-> c, jobs |-> <<j>>]
    <3>1. q5' = Append(q5, cb) /\ held' = held
      BY <2>2 DEF EndRun, j
    <3>2. <<j>> \in Seq(Job) /\ Range(<<j>>) = {j} /\ Head(<<j>>) = j /\ <<j>> # <<>>
      BY <1>4 DEF Range
    <3>3. cb \in Callback /\ cb.jobs = <<j>>
      BY <3>2 DEF Callback
    <3> HIDE DEF cb
    <3>4. Folds(cb.jobs, folded') /\ \A y \in Range(cb.jobs) : y \notin InQ5
      BY <1>9, <3>2, <3>3 DEF Folds
    <3>5. /\ q5' \in Seq(Callback) /\ Q5Holds'
          /\ \A y : y \in InQ5' <=> y \in InQ5 \/ y \in Range(cb.jobs)
      BY <1>u, <1>1, <1>2, <3>1, <3>3, <3>4, Q5Grows
    <3>6. InWindows' = InWindows /\ ListsHold(held')
      BY <1>1, <3>1 DEF InWindows, Listed, ListsHold
    <3>. QED BY <1>2, <1>9, <3>1, <3>2, <3>3, <3>5, <3>6
  <2>. QED BY <2>1, <2>2
<1>11. JobsHold'
  <2>1. InLayers' = InLayers /\ InSession' = InSession /\ \A y : Exists(y)' <=> Exists(y)
    BY <1>u DEF InLayers, InSession, Exists
  <2> SUFFICES ASSUME NEW y \in Job
      PROVE  /\ y \in InQueues' => y \notin InWindows' \cup InQ5' \cup InLayers \cup InSession \cup settled
             /\ y \in InWindows' => y \notin InQ5' \cup InLayers \cup InSession \cup settled
             /\ y \in InQ5' => y \notin InLayers \cup InSession \cup settled
             /\ y \in InLayers => y \notin InSession \cup settled
             /\ y \in InSession => y \notin settled
             /\ Exists(y) <=> y \in InQueues' \cup InWindows' \cup InQ5' \cup InLayers
                                \cup InSession \cup settled
    BY <1>u, <2>1 DEF JobsHold
  <2>. QED BY <1>1, <1>7, <1>8, <1>10 DEF JobsHold
<1>12. ItemsHold' /\ MessagesHold' /\ HistoryHolds'
  BY <1>u, <1>1, FoldedGrows
<1>13. LoopTypes' /\ SessionHolds'
  BY <1>u, <1>1, <1>5, <1>10 DEF LoopTypes, SessionHolds, OneSession
<1>. QED BY <1>6, <1>10, <1>11, <1>12, <1>13 DEF LoopInv, ListsHold


\* A window closes: its jobs go into Q5 as one callback.
LEMMA CloseWindowKeeps ==
  ASSUME LoopInv, NEW c \in Chat, CloseWindow(c)
  PROVE  LoopInv'
<1>u. UNCHANGED <<queue, author, records, topN, pending, signals, batch, timer, breaker, told,
                  settled, fate>>
  BY DEF CloseWindow, loop
<1> DEFINE jobs == held[c]
<1>1. /\ LoopTypes /\ ListsHold(queue) /\ ListsHold(held) /\ Q5Holds /\ ItemsHold /\ JobsHold
      /\ MessagesHold /\ HistoryHolds /\ SessionHolds
  BY DEF LoopInv
<1>2. held \in [Chat -> Seq(Job)] /\ q5 \in Seq(Callback) /\ folded \subseteq Job
  BY <1>1 DEF LoopTypes
<1>3. /\ folded' = folded \cup {jobs[i] : i \in DOMAIN jobs \ {1}}
      /\ q5' = IF jobs = <<>> THEN q5 ELSE Append(q5, [chat |-> c, jobs |-> jobs])
      /\ open' = open \ {c} /\ blocked' = blocked \ {c}
  BY DEF CloseWindow
<1>4. /\ held' \in [Chat -> Seq(Job)] /\ held'[c] = <<>>
      /\ \A d \in Chat : d # c => held'[d] = held[d]
  <2>1. held' = [held EXCEPT ![c] = <<>>]
    BY DEF CloseWindow
  <2>. QED BY <1>2, <2>1, EmptySeq
<1>5. /\ jobs \in Seq(Job) /\ DOMAIN jobs = 1..Len(jobs) /\ Len(jobs) \in Nat
      /\ Range(jobs) \subseteq Job
      /\ \A y \in Range(jobs) : \E i \in 1..Len(jobs) : jobs[i] = y
      /\ \A i \in 1..Len(jobs) : jobs[i] \in Range(jobs)
      /\ jobs = <<>> <=> Range(jobs) = {}
      /\ \A y \in Range(jobs) : y \in InWindows
  <2>1. jobs \in Seq(Job)
    BY <1>2
  <2>2. \A y \in Range(jobs) : y \in InWindows
    BY ListedIs DEF InWindows
  <2>. QED BY <2>1, <2>2, RangeIs
<1> HIDE DEF jobs
<1>6. folded \subseteq folded' /\ folded' \subseteq Job
  BY <1>2, <1>3, <1>5
<1>7. /\ ListsHold(held')
      /\ \A y : y \in InWindows' <=> y \in InWindows /\ y \notin Range(jobs)
  <2>1. Once(held'[c]) /\ Range(held'[c]) = {} /\ Range(held'[c]) \subseteq Range(held[c])
    BY <1>4, RangeIs, EmptySeq DEF Once
  <2>2. /\ ListsHold(held')
        /\ \A y : y \in Listed(held') <=>
             y \in Listed(held) /\ (y \in Range(held[c]) => y \in Range(held'[c]))
    BY <1>1, <1>2, <1>4, <2>1, ListDrops
  <2>3. InWindows' = Listed(held')
    BY DEF InWindows, Listed
  <2>. QED BY <2>1, <2>2, <2>3 DEF InWindows, jobs
<1>8. /\ q5' \in Seq(Callback) /\ Q5Holds'
      /\ \A y : y \in InQ5' <=> y \in InQ5 \/ y \in Range(jobs)
  <2>1. CASE jobs = <<>>
    <3>1. q5' = q5 /\ Range(jobs) = {}
      BY <1>3, <1>5, <2>1
    <3>2. InQ5' = InQ5
      BY <3>1 DEF InQ5
    <3>3. Q5Holds'
      BY <1>1, <1>6, <3>1 DEF Q5Holds, Folds
    <3>. QED BY <1>2, <3>1, <3>2, <3>3
  <2>2. CASE jobs # <<>>
    <3> DEFINE cb == [chat |-> c, jobs |-> jobs]
    <3>1. q5' = Append(q5, cb) /\ cb \in Callback /\ cb.jobs = jobs
      BY <1>3, <1>5, <2>2 DEF Callback
    <3> HIDE DEF cb
    <3>2. Head(jobs) = jobs[1]
      BY <1>5, <2>2, TailHas
    <3>3. \A y \in Range(jobs) : y = Head(jobs) \/ y \in folded'
      BY <1>3, <1>5, <3>2
    <3>4. Folds(cb.jobs, folded') /\ \A y \in Range(cb.jobs) : y \notin InQ5
      BY <1>1, <1>5, <2>2, <3>1, <3>3 DEF Folds, JobsHold
    <3>. QED BY <1>1, <1>2, <1>6, <3>1, <3>4, Q5Grows
  <2>. QED BY <2>1, <2>2
<1>9. JobsHold'
  <2>1. InLayers' = InLayers /\ InSession' = InSession /\ \A y : Exists(y)' <=> Exists(y)
    BY <1>u DEF InLayers, InSession, Exists
  <2>2. InQueues' = InQueues
    BY <1>u DEF InQueues, Listed
  <2> SUFFICES ASSUME NEW y \in Job
      PROVE  /\ y \in InQueues => y \notin InWindows' \cup InQ5' \cup InLayers \cup InSession \cup settled
             /\ y \in InWindows' => y \notin InQ5' \cup InLayers \cup InSession \cup settled
             /\ y \in InQ5' => y \notin InLayers \cup InSession \cup settled
             /\ y \in InLayers => y \notin InSession \cup settled
             /\ y \in InSession => y \notin settled
             /\ Exists(y) <=> y \in InQueues \cup InWindows' \cup InQ5' \cup InLayers
                                \cup InSession \cup settled
    BY <1>u, <2>1, <2>2 DEF JobsHold
  <2>. QED BY <1>1, <1>5, <1>7, <1>8 DEF JobsHold
<1>10. ItemsHold' /\ MessagesHold' /\ HistoryHolds'
  BY <1>u, <1>1, <1>6, FoldedGrows
<1>11. LoopTypes' /\ SessionHolds'
  <2>1. open' \subseteq Chat /\ blocked' \subseteq Chat
    BY <1>1, <1>3 DEF LoopTypes
  <2>. QED BY <1>u, <1>1, <1>4, <1>6, <1>8, <2>1 DEF LoopTypes, SessionHolds, OneSession
<1>12. ListsHold(queue')
  BY <1>u, <1>1
<1>. QED BY <1>7, <1>8, <1>9, <1>10, <1>11, <1>12 DEF LoopInv, ListsHold


-----------------------------------------------------------------------------
(* Phase 1 of the tick                                                      *)

\* A sequence made of another, entry by entry.
LEMMA MadeOfHas ==
  ASSUME NEW T, NEW U, NEW s \in Seq(T), NEW t \in [DOMAIN s -> U]
  PROVE  /\ t \in Seq(U) /\ Len(t) = Len(s)
         /\ \A y : y \in Range(t) <=> \E i \in 1..Len(s) : t[i] = y
<1>1. Len(s) \in Nat /\ DOMAIN s = 1..Len(s)
  BY RangeIs
<1>2. t \in Seq(U) /\ DOMAIN t = 1..Len(s)
  BY <1>1, IsASeq
<1>3. Len(t) = Len(s)
  BY <1>1, <1>2, LenProperties
<1>. QED BY <1>2, <1>3 DEF Range

\* A callback in Q5.
LEMMA CallbackIs ==
  ASSUME LoopInv, NEW cb \in Range(q5)
  PROVE  /\ cb \in Callback /\ cb.chat \in Chat /\ cb.jobs \in Seq(Job) /\ Range(cb.jobs) \subseteq Job
         /\ cb.jobs # <<>> /\ HeadJob(cb) \in Range(cb.jobs) /\ Folds(cb.jobs, folded)
         /\ HeadJob(cb) \in Job /\ HeadJob(cb).task \in Task
         /\ \A y \in Range(cb.jobs) : y \in InQ5
<1>1. q5 \in Seq(Callback) /\ Q5Holds
  BY DEF LoopInv, LoopTypes
<1>2. PICK k \in DOMAIN q5 : q5[k] = cb
  BY <1>1, RangeIs
<1>3. cb \in Callback /\ Folds(cb.jobs, folded)
  BY <1>1, <1>2, RangeIs DEF Q5Holds
<1>4. cb.chat \in Chat /\ cb.jobs \in Seq(Job) /\ cb.jobs # <<>>
  BY <1>3 DEF Callback, Folds
<1>5. Range(cb.jobs) \subseteq Job /\ HeadJob(cb) \in Range(cb.jobs)
  BY <1>4, RangeIs, TailHas DEF HeadJob
<1>6. \A y \in Range(cb.jobs) : y \in InQ5
  BY DEF InQ5
<1>. QED BY <1>3, <1>4, <1>5, <1>6, JobIs

\* Callbacks do not share jobs, and Q5 has none twice.
LEMMA CallbacksDiffer ==
  ASSUME LoopInv
  PROVE  /\ Once(q5)
         /\ \A cb, d \in Range(q5) : \A y : y \in Range(cb.jobs) /\ y \in Range(d.jobs) => cb = d
<1>1. q5 \in Seq(Callback) /\ Q5Holds
  BY DEF LoopInv, LoopTypes
<1>2. /\ DOMAIN q5 = 1..Len(q5) /\ \A i \in 1..Len(q5) : q5[i] \in Range(q5)
      /\ \A x \in Range(q5) : \E i \in 1..Len(q5) : q5[i] = x
  BY <1>1, RangeIs
<1>3. ASSUME NEW i \in 1..Len(q5), NEW k \in 1..Len(q5), q5[i] = q5[k] PROVE i = k
  <2>1. HeadJob(q5[i]) \in Range(q5[i].jobs) \cap Range(q5[k].jobs)
    BY <1>2, <1>3, CallbackIs
  <2>. QED BY <1>1, <1>2, <2>1 DEF Q5Holds
<1>4. ASSUME NEW cb \in Range(q5), NEW d \in Range(q5), NEW y, y \in Range(cb.jobs), y \in Range(d.jobs)
      PROVE  cb = d
  <2>1. PICK i \in 1..Len(q5) : q5[i] = cb
    BY <1>2
  <2>2. PICK k \in 1..Len(q5) : q5[k] = d
    BY <1>2
  <2>3. Range(q5[i].jobs) \cap Range(q5[k].jobs) # {}
    BY <1>4, <2>1, <2>2
  <2>4. i = k
    BY <1>1, <1>2, <2>3 DEF Q5Holds
  <2>. QED BY <2>1, <2>2, <2>4
<1>. QED BY <1>3, <1>4 DEF Once

\* Callbacks with the same notification are the same.
LEMMA NotesDiffer ==
  ASSUME LoopInv, NEW cb \in Range(q5), NEW d \in Range(q5), FromSubagent(cb), FromSubagent(d),
         HeadJob(cb).task = HeadJob(d).task
  PROVE  cb = d
<1>1. HeadJob(cb) = Of(HeadJob(cb).task) /\ HeadJob(d) = Of(HeadJob(d).task)
  BY CallbackIs, JobIs DEF FromSubagent, HasRecord
<1>2. HeadJob(cb) = HeadJob(d)
  BY <1>1
<1>. QED BY <1>2, CallbackIs, CallbacksDiffer

\* The notifications for a chat.
LEMMA NotesForHas ==
  ASSUME LoopInv, NEW c \in Chat
  PROVE  /\ NotesFor(c) \in Seq(Job) /\ Once(NotesFor(c))
         /\ \A y : y \in Range(NotesFor(c)) <=>
              \E cb \in Range(q5) : /\ FromSubagent(cb) /\ AuthorOf(cb) = c
                                    /\ y = Note(HeadJob(cb).task)
<1> DEFINE S == {cb \in Range(q5) : FromSubagent(cb) /\ AuthorOf(cb) = c}
           mine == Only(q5, S)
           t == NotesFor(c)
<1>1. \A cb : cb \in S <=> cb \in Range(q5) /\ FromSubagent(cb) /\ AuthorOf(cb) = c
  OBVIOUS
<1>2. t = [i \in DOMAIN mine |-> Note(HeadJob(mine[i]).task)]
  BY DEF NotesFor
<1>3. q5 \in Seq(Callback)
  BY DEF LoopInv, LoopTypes
<1> HIDE DEF S
<1>4. /\ mine \in Seq(Callback) /\ Once(mine)
      /\ \A cb : cb \in Range(mine) <=> cb \in Range(q5) /\ cb \in S
  BY <1>3, OnlyHas, CallbacksDiffer
<1> HIDE DEF mine, t
<1>5. /\ DOMAIN mine = 1..Len(mine) /\ \A i \in 1..Len(mine) : mine[i] \in Range(mine)
      /\ \A cb \in Range(mine) : \E i \in 1..Len(mine) : mine[i] = cb
  BY <1>4, RangeIs
<1>6. \A i \in 1..Len(mine) : t[i] = Note(HeadJob(mine[i]).task) /\ t[i] \in Job
  <2>1. \A i \in 1..Len(mine) : HeadJob(mine[i]).task \in Task
    BY <1>4, <1>5, CallbackIs
  <2>. QED BY <1>2, <1>5, <2>1, JobsOfTask
<1>7. /\ t \in Seq(Job) /\ Len(t) = Len(mine)
      /\ \A y : y \in Range(t) <=> \E i \in 1..Len(mine) : t[i] = y
  <2>1. t \in [DOMAIN mine -> Job]
    BY <1>2, <1>5, <1>6
  <2>. QED BY <1>4, <2>1, MadeOfHas
<1>8. ASSUME NEW i \in 1..Len(t), NEW k \in 1..Len(t), t[i] = t[k] PROVE i = k
  <2>1. /\ mine[i] \in Range(q5) /\ FromSubagent(mine[i])
        /\ mine[k] \in Range(q5) /\ FromSubagent(mine[k])
    BY <1>1, <1>4, <1>5, <1>7
  <2>2. HeadJob(mine[i]).task = HeadJob(mine[k]).task
    BY <1>6, <1>7, <1>8, <2>1, CallbackIs, JobsOfTask
  <2>3. mine[i] = mine[k]
    BY <2>1, <2>2, NotesDiffer
  <2>. QED BY <1>4, <1>7, <2>3 DEF Once
<1>9. ASSUME NEW y
      PROVE  y \in Range(t) <=>
              \E cb \in Range(q5) : /\ FromSubagent(cb) /\ AuthorOf(cb) = c
                                    /\ y = Note(HeadJob(cb).task)
  BY <1>1, <1>4, <1>5, <1>6, <1>7
<1>. QED BY <1>7, <1>8, <1>9 DEF Once, t

\* The notifications of a tick, and the job of each.
Noted(y) == \E cb \in Range(q5) : FromSubagent(cb) /\ y = Note(HeadJob(cb).task)

\* A notification is new: the author has not been told before.
LEMMA NotedIsNew ==
  ASSUME LoopInv, NEW y, Noted(y)
  PROVE  y \in Job /\ ~Exists(y)
<1>1. PICK cb \in Range(q5) : FromSubagent(cb) /\ y = Note(HeadJob(cb).task)
  BY DEF Noted
<1>2. /\ HeadJob(cb) = Of(HeadJob(cb).task) /\ HeadJob(cb) \in InQ5 /\ HeadJob(cb) \in Job
      /\ HeadJob(cb).task \in Task
  BY <1>1, CallbackIs, JobIs DEF FromSubagent, HasRecord
<1>3. y \in Job /\ y.note /\ y.task = HeadJob(cb).task
  BY <1>1, <1>2, JobsOfTask
<1>4. HeadJob(cb) \notin settled
  BY <1>2 DEF LoopInv, JobsHold
<1>5. \A c \in Chat : <<Of(y.task), c>> \notin told
  BY <1>2, <1>3, <1>4 DEF LoopInv, HistoryHolds
<1>. QED BY <1>3, <1>5 DEF Exists

\* The executors after phase 1.
LEMMA NotifiedHas ==
  ASSUME LoopInv
  PROVE  /\ Notified \in [Chat -> Seq(Job)] /\ ListsHold(Notified)
         /\ \A y : y \in Listed(Notified) <=> y \in InQueues \/ Noted(y)
<1> DEFINE f == Notified
<1>1. queue \in [Chat -> Seq(Job)] /\ ListsHold(queue) /\ JobsHold
  BY DEF LoopInv, LoopTypes
<1>2. /\ \A c \in Chat : Once(queue[c]) /\ queue[c] \in Seq(Job)
      /\ \A c, d \in Chat : Range(queue[c]) \cap Range(queue[d]) # {} => c = d
  BY <1>1 DEF ListsHold
<1>3. f \in [Chat -> Seq(Job)] /\ \A c \in Chat : f[c] = queue[c] \o NotesFor(c)
  BY <1>2, NotesForHas, ConcatHas DEF Notified
<1> HIDE DEF f
<1>4. ASSUME NEW c \in Chat, NEW y, y \in Range(NotesFor(c))
      PROVE  Noted(y) /\ \A d \in Chat : y \notin Range(queue[d])
  <2>1. Noted(y)
    BY <1>4, NotesForHas DEF Noted
  <2>2. y \notin InQueues
    BY <1>1, <2>1, NotedIsNew DEF JobsHold
  <2>. QED BY <2>1, <2>2, ListedIs DEF InQueues
<1>5. ASSUME NEW c \in Chat
      PROVE  Once(f[c]) /\ \A y : y \in Range(f[c]) <=> y \in Range(queue[c]) \/ y \in Range(NotesFor(c))
  <2>1. NotesFor(c) \in Seq(Job) /\ Once(NotesFor(c)) /\ queue[c] \in Seq(Job) /\ Once(queue[c])
    BY <1>2, NotesForHas
  <2>2. Range(queue[c]) \cap Range(NotesFor(c)) = {}
    BY <1>4
  <2>3. /\ Range(queue[c] \o NotesFor(c)) = Range(queue[c]) \cup Range(NotesFor(c))
        /\ Once(queue[c] \o NotesFor(c))
    BY <2>1, <2>2, ConcatHas
  <2>4. f[c] = queue[c] \o NotesFor(c)
    BY <1>3
  <2>. QED BY <2>3, <2>4
<1>6. ASSUME NEW c \in Chat, NEW d \in Chat, NEW y, y \in Range(NotesFor(c)), y \in Range(NotesFor(d))
      PROVE  c = d
  <2>1. PICK cb \in Range(q5) : FromSubagent(cb) /\ AuthorOf(cb) = c /\ y = Note(HeadJob(cb).task)
    BY <1>6, NotesForHas
  <2>2. PICK e \in Range(q5) : FromSubagent(e) /\ AuthorOf(e) = d /\ y = Note(HeadJob(e).task)
    BY <1>6, NotesForHas
  <2>3. HeadJob(cb).task = HeadJob(e).task
    BY <2>1, <2>2, CallbackIs, JobsOfTask
  <2>. QED BY <2>1, <2>2, <2>3, NotesDiffer
<1>7. ASSUME NEW c \in Chat, NEW d \in Chat, Range(f[c]) \cap Range(f[d]) # {} PROVE c = d
  <2>1. PICK y : y \in Range(f[c]) /\ y \in Range(f[d])
    BY <1>7
  <2>2. CASE y \in Range(queue[c]) /\ y \in Range(queue[d])
    BY <1>2, <2>2
  <2>3. CASE y \in Range(NotesFor(c)) /\ y \in Range(NotesFor(d))
    BY <1>6, <2>3
  <2>4. CASE ~(y \in Range(queue[c]) <=> y \in Range(queue[d]))
    BY <1>4, <1>5, <2>1, <2>4
  <2>. QED BY <1>5, <2>1, <2>2, <2>3, <2>4
<1>8. ASSUME NEW y PROVE y \in Listed(f) <=> y \in InQueues \/ Noted(y)
  <2>1. y \in Listed(f) <=> \E c \in Chat : y \in Range(queue[c]) \/ y \in Range(NotesFor(c))
    BY <1>5, ListedIs
  <2>2. y \in InQueues <=> \E c \in Chat : y \in Range(queue[c])
    BY ListedIs DEF InQueues
  <2>3. Noted(y) => \E c \in Chat : y \in Range(NotesFor(c))
    <3>1. ASSUME NEW cb \in Range(q5), FromSubagent(cb), y = Note(HeadJob(cb).task)
          PROVE  \E c \in Chat : y \in Range(NotesFor(c))
      <4>1. AuthorOf(cb) \in Chat
        BY <3>1 DEF FromSubagent
      <4>. QED BY <3>1, <4>1, NotesForHas
    <3>. QED BY <3>1 DEF Noted
  <2>. QED BY <1>4, <2>1, <2>2, <2>3
<1>. QED BY <1>3, <1>5, <1>7, <1>8 DEF ListsHold, f


\* The item of a callback.
LEMMA ItemOfIs ==
  ASSUME LoopInv, NEW cb \in Range(q5)
  PROVE  /\ ItemOf(cb) \in Item /\ ItemOf(cb).source = "CALLBACK" /\ ItemOf(cb).about = cb.jobs
         /\ ~IsMessage(ItemOf(cb)) /\ \A j : Carries(ItemOf(cb), j) <=> j \in Range(cb.jobs)
         /\ Carries(ItemOf(cb), HeadJob(cb))
<1>1. ItemOf(cb).source = "CALLBACK" /\ ItemOf(cb).about = cb.jobs
  BY DEF ItemOf
<1>2. ItemOf(cb) \in Item
  BY CallbackIs DEF ItemOf, Item
<1>. QED BY <1>1, <1>2, CallbackIs DEF IsMessage, Carries

\* A job of a callback in Q5 is carried by no item.
LEMMA NotYetCarried ==
  ASSUME LoopInv, NEW cb \in Range(q5), NEW j \in Range(cb.jobs), NEW x \in Range(pending)
  PROVE  ~Carries(x, j)
<1>1. j \in Job /\ j \in InQ5
  BY CallbackIs
<1>2. j \notin InLayers
  BY <1>1 DEF LoopInv, JobsHold
<1>. QED BY <1>2, JobsOfIs DEF InLayers

\* What waits in the accumulator after phase 1.
LEMMA CollectedHas ==
  ASSUME LoopInv
  PROVE  /\ Collected \in Seq(Item) /\ Once(Collected)
         /\ \A x : x \in Range(Collected) <=>
              \/ x \in Range(pending)
              \/ \E cb \in Range(q5) : GoesToMeta(cb) /\ x = ItemOf(cb)
<1> DEFINE S == {cb \in Range(q5) : GoesToMeta(cb)}
           ours == Only(q5, S)
           t == [i \in DOMAIN ours |-> ItemOf(ours[i])]
<1>1. \A cb : cb \in S <=> cb \in Range(q5) /\ GoesToMeta(cb)
  OBVIOUS
<1>2. Collected = pending \o t
  BY DEF Collected
<1>3. q5 \in Seq(Callback) /\ pending \in Seq(Item) /\ Once(pending)
  BY DEF LoopInv, LoopTypes, ItemsHold
<1> HIDE DEF S
<1>4. /\ ours \in Seq(Callback) /\ Once(ours)
      /\ \A cb : cb \in Range(ours) <=> cb \in Range(q5) /\ cb \in S
  BY <1>3, OnlyHas, CallbacksDiffer
<1> HIDE DEF ours
<1>5. /\ DOMAIN ours = 1..Len(ours) /\ \A i \in 1..Len(ours) : ours[i] \in Range(ours)
      /\ \A cb \in Range(ours) : \E i \in 1..Len(ours) : ours[i] = cb
  BY <1>4, RangeIs
<1>6. \A i \in 1..Len(ours) : t[i] = ItemOf(ours[i]) /\ t[i] \in Item /\ ours[i] \in Range(q5)
  BY <1>4, <1>5, ItemOfIs
<1>7. t \in [DOMAIN ours -> Item]
  BY <1>5, <1>6
<1> HIDE DEF t
<1>8. /\ t \in Seq(Item) /\ Len(t) = Len(ours)
      /\ \A y : y \in Range(t) <=> \E i \in 1..Len(ours) : t[i] = y
  <2>1. ours \in Seq(Callback)
    BY <1>4
  <2>2. t \in Seq(Item)
    BY <1>7, <2>1, MadeOfHas
  <2>3. Len(t) = Len(ours)
    BY <1>7, <2>1, MadeOfHas
  <2>4. ASSUME NEW y
        PROVE  y \in Range(t) <=> \E i \in 1..Len(ours) : t[i] = y
    BY <2>2, <2>3, RangeIs
  <2>. QED BY <2>2, <2>3, <2>4
<1>9. ASSUME NEW i \in 1..Len(t), NEW k \in 1..Len(t), t[i] = t[k] PROVE i = k
  <2>1. ours[i] \in Range(q5) /\ ours[k] \in Range(q5) /\ ItemOf(ours[i]) = ItemOf(ours[k])
    BY <1>6, <1>8, <1>9
  <2>2. ours[i].jobs = ours[k].jobs
    BY <2>1, ItemOfIs
  <2>3. ours[i] = ours[k]
    BY <2>1, <2>2, CallbackIs, CallbacksDiffer
  <2>. QED BY <1>4, <1>8, <2>3 DEF Once
<1>10. ASSUME NEW x PROVE x \in Range(t) <=> \E cb \in Range(q5) : GoesToMeta(cb) /\ x = ItemOf(cb)
  BY <1>1, <1>4, <1>5, <1>6, <1>8
<1>11. Range(pending) \cap Range(t) = {}
  <2>1. ASSUME NEW x \in Range(pending), x \in Range(t) PROVE FALSE
    <3>1. PICK cb \in Range(q5) : x = ItemOf(cb)
      BY <1>10, <2>1
    <3>. QED BY <3>1, CallbackIs, ItemOfIs, NotYetCarried
  <2>. QED BY <2>1
<1>12. /\ pending \o t \in Seq(Item) /\ Range(pending \o t) = Range(pending) \cup Range(t)
       /\ Once(pending \o t)
  <2>1. Once(t)
    BY <1>9 DEF Once
  <2>. QED BY <1>3, <1>8, <1>11, <2>1, ConcatHas
<1>. QED BY <1>2, <1>10, <1>12

\* What holds of them, once those have been told who are told at once.
LEMMA CollectedHolds ==
  ASSUME LoopAssumption, LoopInv, Drain, batch = <<>>
  PROVE  /\ \A x \in Range(Collected) : x.source = "CALLBACK" => ForMeta(x)'
         /\ \A x, y \in Range(Collected) : Meet(x, y) => x = y
         /\ \A m \in Message : fate[m] = "waiting" <=>
              \E x \in Range(Collected) : IsMessage(x) /\ x.about = m
         /\ \A j : (\E x \in Range(Collected) : Carries(x, j)) <=>
              \/ j \in InLayers
              \/ \E cb \in Range(q5) : GoesToMeta(cb) /\ j \in Range(cb.jobs)
<1>1. \A x : x \in Items <=> x \in Range(pending)
  BY RangeIs, EmptySeq DEF Items
<1>2. /\ \A x \in Range(pending) : x.source = "CALLBACK" => ForMeta(x)
      /\ \A x, y \in Range(pending) : Meet(x, y) => x = y
      /\ \A m \in Message : fate[m] = "waiting" <=>
           \E x \in Range(pending) : IsMessage(x) /\ x.about = m
  BY <1>1 DEF LoopInv, ItemsHold, MessagesHold
<1>3. \A x : x \in Range(Collected) <=>
        \/ x \in Range(pending)
        \/ \E cb \in Range(q5) : GoesToMeta(cb) /\ x = ItemOf(cb)
  BY CollectedHas
<1>u. UNCHANGED <<author, records, folded>>
  BY DEF Drain
<1>4. told' = told \cup ToldAtOnce
  BY DEF Drain
<1>5. ASSUME NEW x, ForMeta(x) PROVE ForMeta(x)'
  BY <1>u, <1>4, <1>5 DEF ForMeta
<1>6. ASSUME NEW cb \in Range(q5), GoesToMeta(cb) PROVE ForMeta(ItemOf(cb))'
  <2> DEFINE h == HeadJob(cb)
  <2>1. ItemOf(cb).about = cb.jobs /\ Head(cb.jobs) = h /\ Folds(cb.jobs, folded)
    BY ItemOfIs, CallbackIs DEF HeadJob
  <2>2. ~h.note /\ ~FromSubagent(cb)
    BY <1>6 DEF GoesToMeta
  <2>3. ASSUME h.task \in Range(records)
        PROVE  author[h.task] \notin Chat /\ (author[h.task] = Harness => <<h, Harness>> \in told')
    <3>1. HasRecord(cb) /\ AuthorOf(cb) = author[h.task]
      BY <2>2, <2>3 DEF HasRecord, AuthorOf
    <3>2. author[h.task] \notin Chat
      BY <2>2, <3>1 DEF FromSubagent
    <3>3. ASSUME author[h.task] = Harness PROVE <<h, Harness>> \in ToldAtOnce
      <4>1. FromHarness(cb) /\ <<HeadJob(cb), AuthorOf(cb)>> = <<h, Harness>>
        BY <3>1, <3>3 DEF FromHarness
      <4>. QED BY <4>1 DEF ToldAtOnce
    <3>. QED BY <1>4, <3>2, <3>3
  <2> HIDE DEF h
  <2>. QED BY <1>u, <2>1, <2>2, <2>3 DEF ForMeta
<1>7. \A x \in Range(Collected) : x.source = "CALLBACK" => ForMeta(x)'
  BY <1>2, <1>3, <1>5, <1>6
<1>8. ASSUME NEW x \in Range(Collected), NEW y \in Range(Collected), Meet(x, y)
      PROVE  x = y
  <2>1. CASE x \in Range(pending) /\ y \in Range(pending)
    BY <1>2, <1>8, <2>1
  <2>2. CASE x \in Range(pending) /\ y \notin Range(pending)
    <3>1. PICK cb \in Range(q5) : y = ItemOf(cb)
      BY <1>3, <2>2
    <3>. QED BY <1>8, <2>2, <3>1, ItemOfIs, NotYetCarried DEF Meet
  <2>3. CASE x \notin Range(pending) /\ y \in Range(pending)
    <3>1. PICK cb \in Range(q5) : x = ItemOf(cb)
      BY <1>3, <2>3
    <3>. QED BY <1>8, <2>3, <3>1, ItemOfIs, NotYetCarried DEF Meet
  <2>4. CASE x \notin Range(pending) /\ y \notin Range(pending)
    <3>1. PICK cb \in Range(q5) : x = ItemOf(cb)
      BY <1>3, <2>4
    <3>2. PICK d \in Range(q5) : y = ItemOf(d)
      BY <1>3, <2>4
    <3>3. PICK j : j \in Range(cb.jobs) /\ j \in Range(d.jobs)
      BY <1>8, <3>1, <3>2, ItemOfIs DEF Meet
    <3>. QED BY <3>1, <3>2, <3>3, CallbacksDiffer
  <2>. QED BY <2>1, <2>2, <2>3, <2>4
<1>9. \A m \in Message : fate[m] = "waiting" <=>
        \E x \in Range(Collected) : IsMessage(x) /\ x.about = m
  BY <1>2, <1>3, ItemOfIs
<1>10. ASSUME NEW j
       PROVE  (\E x \in Range(Collected) : Carries(x, j)) <=>
                \/ j \in InLayers
                \/ \E cb \in Range(q5) : GoesToMeta(cb) /\ j \in Range(cb.jobs)
  BY <1>3, ItemOfIs, JobsOfIs DEF InLayers
<1>. QED BY <1>7, <1>8, <1>9, <1>10


-----------------------------------------------------------------------------
(* Phase 3 of the tick                                                      *)

\* A sequence of some things is one of more things.
LEMMA SeqOfMore ==
  ASSUME NEW T, NEW U, T \subseteq U, NEW s \in Seq(T)
  PROVE  s \in Seq(U)
<1>1. Len(s) \in Nat /\ s \in [1..Len(s) -> T]
  BY LenProperties
<1>2. s \in [1..Len(s) -> U]
  BY <1>1
<1>. QED BY <1>1, <1>2, IsASeq

\* What is released of the items.
LEMMA ReleasedHas ==
  ASSUME NEW items \in Seq(Item), Once(items), topN \in Nat
  PROVE  LET p == ReleasedPending(items) IN
         /\ p \in Seq(Item) /\ Once(p) /\ Len(p) <= topN /\ Len(p) \in Nat
         /\ Range(p) \subseteq Range(items)
<1>1. ASSUME NEW k
      PROVE  /\ OfRank(items, k) \in Seq(Item) /\ Once(OfRank(items, k))
             /\ \A x : x \in Range(OfRank(items, k)) <=> x \in Range(items) /\ Rank(x) = k
  <2> DEFINE S == {i \in Range(items) : Rank(i) = k}
  <2>1. \A x : x \in S <=> x \in Range(items) /\ Rank(x) = k
    OBVIOUS
  <2>2. OfRank(items, k) = Only(items, S)
    BY DEF OfRank
  <2> HIDE DEF S
  <2>. QED BY <2>1, <2>2, OnlyHas
<1> DEFINE a == OfRank(items, 1)
           b == OfRank(items, 2)
           c == OfRank(items, 3)
<1>2. /\ a \in Seq(Item) /\ Once(a) /\ b \in Seq(Item) /\ Once(b) /\ c \in Seq(Item) /\ Once(c)
      /\ \A x : x \in Range(a) => x \in Range(items) /\ Rank(x) = 1
      /\ \A x : x \in Range(b) => x \in Range(items) /\ Rank(x) = 2
      /\ \A x : x \in Range(c) => x \in Range(items) /\ Rank(x) = 3
  BY <1>1
<1>3. ReleasedPending(items) = First(a \o b \o c, topN)
  BY DEF ReleasedPending
<1> HIDE DEF a, b, c
<1>4. /\ a \o b \in Seq(Item) /\ Range(a \o b) = Range(a) \cup Range(b) /\ Once(a \o b)
  <2>1. Range(a) \cap Range(b) = {}
    BY <1>2
  <2>. QED BY <1>2, <2>1, ConcatHas
<1>5. /\ a \o b \o c \in Seq(Item) /\ Range(a \o b \o c) = Range(a \o b) \cup Range(c)
      /\ Once(a \o b \o c)
  <2> DEFINE d == a \o b
  <2>1. Range(d) \cap Range(c) = {}
    BY <1>2, <1>4
  <2>2. d \in Seq(Item) /\ Once(d) /\ c \in Seq(Item) /\ Once(c)
    BY <1>2, <1>4
  <2> HIDE DEF d
  <2>3. d \o c \in Seq(Item) /\ Range(d \o c) = Range(d) \cup Range(c) /\ Once(d \o c)
    BY <2>1, <2>2, ConcatHas
  <2>. QED BY <2>3 DEF d
<1> DEFINE s == a \o b \o c
           p == ReleasedPending(items)
<1>6. Range(s) \subseteq Range(items)
  BY <1>2, <1>4, <1>5
<1>7. s \in Seq(Item) /\ Once(s) /\ p = First(s, topN)
  BY <1>3, <1>5
<1> HIDE DEF s, p
<1>8. p \in Seq(Item) /\ Once(p) /\ Len(p) <= topN /\ Range(p) \subseteq Range(s)
  BY <1>7, FirstHas
<1>9. Len(p) \in Nat
  BY <1>8, LenProperties
<1>. QED BY <1>6, <1>8, <1>9 DEF p

\* The signals that fill the spare slots are as many, and different.
LEMMA FillingHas ==
  ASSUME signals \subseteq Chat, IsFiniteSet(signals), NEW n \in Nat, NEW f \in Fillings(n)
  PROVE  /\ f \in Seq(Signal) /\ Once(f) /\ Len(f) <= n /\ Len(f) \in Nat
         /\ \A x \in Range(f) : x.chat \in signals
<1> DEFINE k == IF Cardinality(signals) < n THEN Cardinality(signals) ELSE n
           T == {SignalOf(c) : c \in signals}
<1>1. k \in Nat /\ k <= n
  BY FS_CardinalityType
<1>2. f \in [1..k -> T] /\ Cardinality(Range(f)) = k
  BY DEF Fillings
<1>3. \A x \in T : x \in Signal /\ x.chat \in signals
  BY DEF SignalOf, Signal
<1> HIDE DEF k, T
<1>4. f \in [1..k -> Signal] /\ f \in Seq(Signal)
  BY <1>1, <1>2, <1>3, IsASeq
<1>5. Len(f) = k
  BY <1>1, <1>4, LenProperties
<1>6. f \in Surjection(1..k, Range(f))
  BY <1>2, Fun_RangeProperties
<1>7. IsFiniteSet(1..k) /\ Cardinality(1..k) = k
  BY <1>1, FS_Interval
<1>8. f \in Injection(1..k, Range(f))
  BY <1>2, <1>6, <1>7, FS_SurjSameCardinalityImpliesInj
<1>9. Once(f)
  BY <1>5, <1>8 DEF Injection, IsInjective, Once
<1>10. \A x \in Range(f) : x \in T
  BY <1>2 DEF Range
<1>. QED BY <1>1, <1>3, <1>4, <1>5, <1>9, <1>10


\* What a tick makes of the items it has collected: each goes back into the
\* accumulator or into the session, and only signals come from elsewhere.
Dealt(items) ==
  /\ pending' \in Seq(Item) /\ Once(pending')
  /\ batch' \in Seq(Item \cup Signal) /\ Once(batch') /\ Len(batch') <= topN
  /\ Range(pending') \cap Range(batch') = {}
  /\ \A x \in Range(items) : x \in Range(pending') \/ x \in Range(batch')
  /\ \A x : x \in Range(pending') \/ x \in Range(batch') => x \in Range(items) \/ x \in Signal
  /\ signals' \subseteq signals /\ timer' \in BOOLEAN /\ (timer' <=> batch' = <<>>)
  /\ \A i, j \in 1..Len(batch') : batch'[i].chat = batch'[j].chat => i = j

\* Without a flush they all stay.
LEMMA NoFlushDeals ==
  ASSUME LoopAssumption, topN \in TopNs, NEW items \in Seq(Item), Once(items), NoFlush(items)
  PROVE  Dealt(items)
<1>1. pending' = items /\ batch' = <<>> /\ timer' = TRUE /\ signals' = signals
  BY DEF NoFlush
<1>2. /\ batch' \in Seq(Item \cup Signal) /\ Len(batch') = 0 /\ Range(batch') = {} /\ Once(batch')
  BY <1>1, EmptySeq, RangeIs DEF Once
<1>3. topN \in Nat
  BY DEF LoopAssumption
<1>. QED BY <1>1, <1>2, <1>3 DEF Dealt

\* The entries of a session are of different chats: a second would be handed
\* back.
LEMMA EntriesHave ==
  ASSUME NEW T, NEW r \in Seq(T), Once(r), NEW session, session = Only(r, Entries(r))
  PROVE  /\ session \in Seq(T) /\ Once(session) /\ Len(session) <= Len(r)
         /\ \A x : x \in Range(session) <=> x \in Entries(r)
         /\ \A x \in Entries(r) : x \in Range(r)
         /\ \A i, j \in 1..Len(session) : session[i].chat = session[j].chat => i = j
<1>1. /\ Len(r) \in Nat /\ DOMAIN r = 1..Len(r)
      /\ \A i \in 1..Len(r) : r[i] \in Range(r)
  BY RangeIs
<1>2. \A x : x \in Entries(r) <=>
        \E k \in 1..Len(r) : /\ x = r[k] /\ ~WaitsForExecutor(r[k])
                             /\ \A j \in 1..(k - 1) :
                                  r[j].chat = r[k].chat => WaitsForExecutor(r[j])
  BY <1>1 DEF Entries
<1>3. \A x \in Entries(r) : x \in Range(r)
  BY <1>1, <1>2
<1>4. /\ session \in Seq(T) /\ Once(session) /\ Len(session) <= Len(r)
      /\ \A x : x \in Range(session) <=> x \in Range(r) /\ x \in Entries(r)
  BY OnlyHas
<1>5. \A i \in 1..Len(session) : session[i] \in Entries(r)
  BY <1>4, RangeIs
<1>6. ASSUME NEW x \in Entries(r), NEW y \in Entries(r), x.chat = y.chat PROVE x = y
  <2>1. PICK k \in 1..Len(r) :
          /\ x = r[k] /\ ~WaitsForExecutor(r[k])
          /\ \A j \in 1..(k - 1) : r[j].chat = r[k].chat => WaitsForExecutor(r[j])
    BY <1>2
  <2>2. PICK n \in 1..Len(r) :
          /\ y = r[n] /\ ~WaitsForExecutor(r[n])
          /\ \A j \in 1..(n - 1) : r[j].chat = r[n].chat => WaitsForExecutor(r[j])
    BY <1>2
  <2>3. ~(n < k)
    <3>1. n < k => n \in 1..(k - 1)
      BY <1>1
    <3>. QED BY <1>6, <2>1, <2>2, <3>1
  <2>4. ~(k < n)
    <3>1. k < n => k \in 1..(n - 1)
      BY <1>1
    <3>. QED BY <1>6, <2>1, <2>2, <3>1
  <2>5. k = n
    BY <1>1, <2>3, <2>4
  <2>. QED BY <2>1, <2>2, <2>5
<1>7. ASSUME NEW i \in 1..Len(session), NEW j \in 1..Len(session), session[i].chat = session[j].chat
      PROVE  i = j
  <2>1. session[i] = session[j]
    BY <1>5, <1>6, <1>7
  <2>. QED BY <1>4, <2>1 DEF Once
<1>. QED BY <1>3, <1>4, <1>7

\* With a flush they are in the session, or not released, or handed back.
LEMMA FlushDeals ==
  ASSUME LoopAssumption, topN \in TopNs, signals \subseteq Chat, IsFiniteSet(signals),
         NEW items \in Seq(Item), Once(items),
         NEW filling \in Fillings(Spare(items)), Flush(items, filling)
  PROVE  Dealt(items)
<1> DEFINE p == ReleasedPending(items)
           r == p \o filling
           session == Only(r, Entries(r))
           left == Only(items, (Range(items) \ Range(r)) \cup HandedBack(r))
<1>1. /\ pending' = left /\ batch' = session /\ timer' = (session = <<>>)
      /\ signals' \subseteq signals
  BY DEF Flush
<1>2. topN \in Nat
  BY DEF LoopAssumption
<1>3. /\ p \in Seq(Item) /\ Once(p) /\ Len(p) <= topN /\ Len(p) \in Nat
      /\ Range(p) \subseteq Range(items)
  BY <1>2, ReleasedHas
<1>4. Spare(items) = topN - Len(p) /\ Spare(items) \in Nat
  BY <1>2, <1>3 DEF Spare
<1>5. filling \in Seq(Signal) /\ Once(filling) /\ Len(filling) <= Spare(items) /\ Len(filling) \in Nat
  BY <1>4, FillingHas
<1> HIDE DEF p
<1>6. /\ \A x \in Range(items) : x \in Item
      /\ \A x \in Range(filling) : x \in Signal
      /\ \A x \in Item : x \notin Signal /\ x.source # "TOPIC_SIGNAL"
      /\ \A x \in Signal : x.source = "TOPIC_SIGNAL"
  <2>1. Range(items) \subseteq Item /\ Range(filling) \subseteq Signal
    BY <1>5, RangeIs
  <2>2. /\ \A x \in Item : x.source # "TOPIC_SIGNAL"
        /\ \A x \in Signal : x.source = "TOPIC_SIGNAL"
    BY DEF Item, Signal
  <2>. QED BY <2>1, <2>2
<1>7. /\ r \in Seq(Item \cup Signal) /\ Once(r) /\ Len(r) = Len(p) + Len(filling)
      /\ Range(r) = Range(p) \cup Range(filling)
  <2>1. p \in Seq(Item \cup Signal) /\ filling \in Seq(Item \cup Signal)
    BY <1>3, <1>5, SeqOfMore
  <2>2. Range(p) \cap Range(filling) = {}
    BY <1>3, <1>6
  <2>. QED BY <1>3, <1>5, <2>1, <2>2, ConcatHas
<1>8. Len(r) <= topN /\ Len(r) \in Nat
  BY <1>2, <1>3, <1>4, <1>5, <1>7
<1> HIDE DEF r
<1>9. /\ session \in Seq(Item \cup Signal) /\ Once(session) /\ Len(session) <= Len(r)
      /\ \A x : x \in Range(session) <=> x \in Entries(r)
      /\ \A x \in Entries(r) : x \in Range(r)
      /\ \A i, j \in 1..Len(session) : session[i].chat = session[j].chat => i = j
  BY <1>7, EntriesHave
<1>10. \A x : x \in HandedBack(r) <=>
                x \in Range(r) /\ x \notin Entries(r) /\ x.source # "TOPIC_SIGNAL"
  BY DEF HandedBack
<1>11. /\ left \in Seq(Item) /\ Once(left)
       /\ \A x : x \in Range(left) <=>
            x \in Range(items) /\ (x \notin Range(r) \/ x \in HandedBack(r))
  <2> DEFINE S == (Range(items) \ Range(r)) \cup HandedBack(r)
  <2>1. \A x : x \in S <=> (x \in Range(items) /\ x \notin Range(r)) \/ x \in HandedBack(r)
    OBVIOUS
  <2> HIDE DEF S
  <2>2. /\ Only(items, S) \in Seq(Item) /\ Once(Only(items, S))
        /\ Range(Only(items, S)) = Range(items) \cap S
    BY OnlyHas
  <2>3. left = Only(items, S)
    BY DEF S
  <2>. QED BY <2>1, <2>2, <2>3
<1> HIDE DEF session, left
<1>12. Len(session) <= topN
  <2>1. Len(session) \in Nat
    BY <1>9, LenProperties
  <2>. QED BY <1>2, <1>8, <1>9, <2>1
<1>13. Range(left) \cap Range(session) = {}
  BY <1>9, <1>10, <1>11
<1>14. \A x \in Range(items) : x \in Range(left) \/ x \in Range(session)
  BY <1>6, <1>9, <1>10, <1>11
<1>15. \A x : x \in Range(left) \/ x \in Range(session) => x \in Range(items) \/ x \in Signal
  BY <1>3, <1>6, <1>7, <1>9, <1>11
<1>16. timer' \in BOOLEAN /\ (timer' <=> batch' = <<>>)
  BY <1>1
<1>. QED BY <1>1, <1>9, <1>11, <1>12, <1>13, <1>14, <1>15, <1>16 DEF Dealt


-----------------------------------------------------------------------------
(* The tick                                                                 *)

\* What is true of all jobs when phase 1 has ended: the callbacks' jobs are
\* settled or in what has been collected, and the notifications exist.
LEMMA DrainMoves ==
  ASSUME LoopAssumption, LoopInv, Drain
  PROVE  /\ queue' \in [Chat -> Seq(Job)] /\ ListsHold(queue')
         /\ \A y : y \in InQueues' <=> y \in InQueues \/ Noted(y)
         /\ \A y : y \in settled' <=>
              y \in settled \/ \E cb \in Range(q5) : ~GoesToMeta(cb) /\ y \in Range(cb.jobs)
         /\ \A y : y \in InQ5 <=> \E cb \in Range(q5) : y \in Range(cb.jobs)
         /\ \A x \in told' : x \in told \/ \E cb \in Range(q5) :
              /\ FromSubagent(cb) \/ FromHarness(cb)
              /\ ~HeadJob(cb).note /\ x = <<HeadJob(cb), AuthorOf(cb)>>
         /\ \A x \in told : x \in told'
         /\ \A cb \in Range(q5) :
              FromSubagent(cb) \/ FromHarness(cb) => <<HeadJob(cb), AuthorOf(cb)>> \in told'
         /\ \A y \in Job : Exists(y)' <=> Exists(y) \/ Noted(y)
<1>1. /\ queue' = Notified /\ told' = told \cup ToldAtOnce /\ settled' = settled \cup SettledAtOnce
      /\ author' = author
  BY DEF Drain
<1>2. InQueues' = Listed(queue')
  BY DEF InQueues, Listed
<1>3. /\ queue' \in [Chat -> Seq(Job)] /\ ListsHold(queue')
      /\ \A y : y \in InQueues' <=> y \in InQueues \/ Noted(y)
  BY <1>1, <1>2, NotifiedHas
<1>4. \A y : y \in settled' <=>
        y \in settled \/ \E cb \in Range(q5) : ~GoesToMeta(cb) /\ y \in Range(cb.jobs)
  BY <1>1 DEF SettledAtOnce
<1>5. \A y : y \in InQ5 <=> \E cb \in Range(q5) : y \in Range(cb.jobs)
  BY DEF InQ5
<1>6. \A x : x \in ToldAtOnce <=> \E cb \in Range(q5) :
        /\ FromSubagent(cb) \/ FromHarness(cb)
        /\ x = <<HeadJob(cb), AuthorOf(cb)>>
  BY DEF ToldAtOnce
<1>7. \A cb : FromSubagent(cb) \/ FromHarness(cb) => ~HeadJob(cb).note
  BY DEF FromSubagent, FromHarness, HasRecord
<1>8. /\ \A x \in told' : x \in told \/ \E cb \in Range(q5) :
           /\ FromSubagent(cb) \/ FromHarness(cb)
           /\ ~HeadJob(cb).note /\ x = <<HeadJob(cb), AuthorOf(cb)>>
      /\ \A x \in told : x \in told'
      /\ \A cb \in Range(q5) :
           FromSubagent(cb) \/ FromHarness(cb) => <<HeadJob(cb), AuthorOf(cb)>> \in told'
  BY <1>1, <1>6, <1>7
<1>9. ASSUME NEW y \in Job PROVE Exists(y)' <=> Exists(y) \/ Noted(y)
  <2>1. CASE ~y.note
    <3>1. ~Noted(y)
      BY <2>1, CallbackIs, JobsOfTask DEF Noted
    <3>. QED BY <1>1, <2>1, <3>1 DEF Exists
  <2>2. CASE y.note
    <3>1. Exists(y)' <=> \E c \in Chat : <<Of(y.task), c>> \in told'
      BY <2>2 DEF Exists
    <3>2. Exists(y) <=> \E c \in Chat : <<Of(y.task), c>> \in told
      BY <2>2 DEF Exists
    <3>3. ASSUME NEW c \in Chat, <<Of(y.task), c>> \in told', <<Of(y.task), c>> \notin told
          PROVE  Noted(y)
      <4>1. PICK cb \in Range(q5) : /\ FromSubagent(cb) \/ FromHarness(cb)
                                    /\ <<Of(y.task), c>> = <<HeadJob(cb), AuthorOf(cb)>>
        BY <1>8, <3>3
      <4>2. HeadJob(cb) = Of(y.task) /\ AuthorOf(cb) = c
        BY <4>1
      <4>3. FromSubagent(cb)
        BY <4>1, <4>2 DEF FromHarness, LoopAssumption
      <4>4. HeadJob(cb).task = y.task /\ y = Note(y.task)
        BY <2>2, <4>2, JobIs, JobsOfTask
      <4>. QED BY <4>3, <4>4 DEF Noted
    <3>4. ASSUME Noted(y)
          PROVE  \E c \in Chat : <<Of(y.task), c>> \in told'
      <4>1. PICK cb \in Range(q5) : FromSubagent(cb) /\ y = Note(HeadJob(cb).task)
        BY <3>4 DEF Noted
      <4>2. /\ HeadJob(cb) = Of(HeadJob(cb).task) /\ y.task = HeadJob(cb).task
        BY <1>7, <4>1, CallbackIs, JobIs, JobsOfTask
      <4>3. AuthorOf(cb) \in Chat /\ <<HeadJob(cb), AuthorOf(cb)>> \in told'
        BY <1>8, <4>1 DEF FromSubagent
      <4>. QED BY <4>2, <4>3
    <3>. QED BY <1>8, <3>1, <3>2, <3>3, <3>4
  <2>. QED BY <2>1, <2>2
<1>. QED BY <1>3, <1>4, <1>5, <1>8, <1>9


\* Whatever a tick does with what it has collected, the invariant holds: what a
\* patrol adds to it is neither a callback nor a message.
LEMMA DealtKeeps ==
  ASSUME LoopAssumption, LoopInv, Drain, timer, NEW items, Dealt(items),
         \A x \in Range(Collected) : x \in Range(items),
         \A x \in Range(items) : x \in Range(Collected) \/ x = Patrol
  PROVE  LoopInv'
<1>u. UNCHANGED <<author, records, open, held, topN, breaker, folded, fate>>
  BY DEF Drain
<1>1. /\ LoopTypes /\ ListsHold(queue) /\ ListsHold(held) /\ Q5Holds /\ ItemsHold /\ JobsHold
      /\ MessagesHold /\ HistoryHolds /\ SessionHolds
  BY DEF LoopInv
<1>2. batch = <<>> /\ InSession = {}
  <2>1. batch = <<>> /\ batch \in Seq(Item \cup Signal)
    BY <1>1 DEF SessionHolds, OneSession, LoopTypes
  <2>2. Range(batch) = {}
    BY <2>1, RangeIs
  <2>3. \A j : j \notin InSession
    BY <2>2, JobsOfIs DEF InSession
  <2>. QED BY <2>1, <2>3
<1>3. /\ q5' = <<>> /\ q5' \in Seq(Callback) /\ Len(q5') = 0 /\ DOMAIN q5' = {} /\ Range(q5') = {}
  <2>1. q5' = <<>> /\ q5' \in Seq(Callback)
    BY EmptySeq DEF Drain
  <2>2. Len(q5') = 0 /\ DOMAIN q5' = 1..Len(q5') /\ Range(q5') = {}
    BY <2>1, RangeIs
  <2>. QED BY <2>1, <2>2
<1>4. /\ \A x : x \in Items' => x \in Range(items) \/ x \in Signal
      /\ \A x \in Range(items) : x \in Items'
      /\ \A x : x \in Items' <=> x \in Range(pending') \/ x \in Range(batch')
  BY DEF Items, Dealt
<1>5. ASSUME NEW x, x.source = "CALLBACK" \/ IsMessage(x)
      PROVE  x \in Items' <=> x \in Range(Collected)
  <2>1. x # Patrol /\ x \notin Signal
    BY <1>5 DEF Patrol, Signal, IsMessage
  <2>. QED BY <1>4, <2>1
<1>6. /\ \A x \in Range(Collected) : x.source = "CALLBACK" => ForMeta(x)'
      /\ \A x, y \in Range(Collected) : Meet(x, y) => x = y
      /\ \A m \in Message : fate[m] = "waiting" <=>
           \E x \in Range(Collected) : IsMessage(x) /\ x.about = m
      /\ \A j : (\E x \in Range(Collected) : Carries(x, j)) <=>
           \/ j \in InLayers
           \/ \E cb \in Range(q5) : GoesToMeta(cb) /\ j \in Range(cb.jobs)
  BY <1>2, CollectedHolds
<1>7. /\ queue' \in [Chat -> Seq(Job)] /\ ListsHold(queue')
      /\ \A y : y \in InQueues' <=> y \in InQueues \/ Noted(y)
      /\ \A y : y \in settled' <=>
           y \in settled \/ \E cb \in Range(q5) : ~GoesToMeta(cb) /\ y \in Range(cb.jobs)
      /\ \A y : y \in InQ5 <=> \E cb \in Range(q5) : y \in Range(cb.jobs)
      /\ \A x \in told' : x \in told \/ \E cb \in Range(q5) :
           /\ FromSubagent(cb) \/ FromHarness(cb)
           /\ ~HeadJob(cb).note /\ x = <<HeadJob(cb), AuthorOf(cb)>>
      /\ \A x \in told : x \in told'
      /\ \A cb \in Range(q5) :
           FromSubagent(cb) \/ FromHarness(cb) => <<HeadJob(cb), AuthorOf(cb)>> \in told'
      /\ \A y \in Job : Exists(y)' <=> Exists(y) \/ Noted(y)
  BY DrainMoves
<1>8. ItemsHold'
  <2>1. \A x \in Items' : x.source = "CALLBACK" => ForMeta(x)'
    BY <1>5, <1>6
  <2>2. ASSUME NEW x \in Items', NEW y \in Items', Meet(x, y) PROVE x = y
    BY <1>5, <1>6, <2>2 DEF Meet, Carries
  <2>3. Once(pending') /\ Once(batch') /\ Range(pending') \cap Range(batch') = {}
    BY DEF Dealt
  <2>. QED BY <2>1, <2>2, <2>3 DEF ItemsHold, Meet
<1>9. MessagesHold'
  BY <1>u, <1>5, <1>6 DEF MessagesHold
<1>10. ASSUME NEW j
       PROVE  j \in InLayers' \/ j \in InSession' <=>
                \/ j \in InLayers
                \/ \E cb \in Range(q5) : GoesToMeta(cb) /\ j \in Range(cb.jobs)
  <2>1. InLayers' = JobsOf(Range(pending')) /\ InSession' = JobsOf(Range(batch'))
    BY DEF InLayers, InSession, JobsOf
  <2>2. j \in InLayers' \/ j \in InSession' <=> \E x \in Items' : Carries(x, j)
    BY <1>4, <2>1, JobsOfIs
  <2>3. (\E x \in Items' : Carries(x, j)) <=> \E x \in Range(Collected) : Carries(x, j)
    BY <1>5 DEF Carries
  <2>. QED BY <1>6, <2>2, <2>3
<1>11. \A j \in Job : ~(j \in InLayers' /\ j \in InSession')
  <2>1. InLayers' = JobsOf(Range(pending')) /\ InSession' = JobsOf(Range(batch'))
    BY DEF InLayers, InSession, JobsOf
  <2>2. ASSUME NEW j \in Job, NEW x \in Range(pending'), NEW y \in Range(batch'),
               Carries(x, j), Carries(y, j)
        PROVE  FALSE
    <3>1. x \in Range(Collected) /\ y \in Range(Collected) /\ Meet(x, y)
      BY <1>4, <1>5, <2>2 DEF Carries, Meet
    <3>2. x = y
      BY <1>6, <3>1
    <3>. QED BY <3>2 DEF Dealt
  <2>. QED BY <2>1, <2>2, JobsOfIs
<1>12. JobsHold'
  <2>1. InQ5' = {} /\ InWindows' = InWindows
    BY <1>u, <1>3 DEF InQ5, InWindows, Listed
  <2> SUFFICES ASSUME NEW j \in Job
      PROVE  /\ j \in InQueues' => j \notin InWindows \cup {} \cup InLayers' \cup InSession' \cup settled'
             /\ j \in InWindows => j \notin {} \cup InLayers' \cup InSession' \cup settled'
             /\ j \in {} => j \notin InLayers' \cup InSession' \cup settled'
             /\ j \in InLayers' => j \notin InSession' \cup settled'
             /\ j \in InSession' => j \notin settled'
             /\ Exists(j)' <=> j \in InQueues' \cup InWindows \cup {} \cup InLayers'
                                \cup InSession' \cup settled'
    BY <2>1 DEF JobsHold
  <2>2. Noted(j) => ~Exists(j)
    BY NotedIsNew
  <2>3. ~(\E cb \in Range(q5) : GoesToMeta(cb) /\ j \in Range(cb.jobs))
          \/ ~(\E cb \in Range(q5) : ~GoesToMeta(cb) /\ j \in Range(cb.jobs))
    BY CallbacksDiffer
  <2>. QED BY <1>1, <1>2, <1>7, <1>10, <1>11, <2>2, <2>3 DEF JobsHold
<1>13. HistoryHolds'
  <2>1. Harness \notin Chat /\ Harness # Meta /\ Meta \notin Chat
    BY DEF LoopAssumption
  <2>2. \A cb : FromSubagent(cb) => AuthorOf(cb) \in Chat /\ ~GoesToMeta(cb)
    BY DEF FromSubagent, GoesToMeta
  <2>3. \A cb : FromHarness(cb) => AuthorOf(cb) = Harness
    BY DEF FromHarness
  <2>4. ASSUME NEW j \in Job, NEW q \in Chat \cup {Meta}, <<j, q>> \in told', <<j, q>> \notin told
        PROVE  j \in settled' /\ q # Meta
    <3>1. PICK cb \in Range(q5) : /\ FromSubagent(cb) \/ FromHarness(cb)
                                  /\ j = HeadJob(cb) /\ q = AuthorOf(cb)
      BY <1>7, <2>4
    <3>2. FromSubagent(cb)
      BY <2>1, <2>3, <3>1
    <3>. QED BY <1>7, <2>1, <2>2, <3>1, <3>2, CallbackIs
  <2>5. \A t \in Range(records') : author'[t] # Nobody
    BY <1>u, <1>1 DEF HistoryHolds
  <2>6. \A j \in Job, q \in Chat \cup {Meta} : <<j, q>> \in told' => j \in settled'
    BY <1>1, <1>7, <2>4 DEF HistoryHolds
  <2>7. \A j \in Job : <<j, Meta>> \in told' /\ j \notin folded' =>
          ~j.note /\ (j.task \in Range(records') => author'[j.task] \notin Chat)
    BY <1>u, <1>1, <2>4 DEF HistoryHolds
  <2>8. ASSUME NEW j \in settled' \ folded', ~j.note, j.task \in Range(records'),
               author'[j.task] \in Chat \cup {Harness}
        PROVE  <<j, author'[j.task]>> \in told'
    <3>1. CASE j \in settled
      BY <1>u, <1>1, <1>7, <2>8, <3>1 DEF HistoryHolds
    <3>2. CASE j \notin settled
      <4>1. PICK cb \in Range(q5) : ~GoesToMeta(cb) /\ j \in Range(cb.jobs)
        BY <1>7, <2>8, <3>2
      <4>2. j = HeadJob(cb)
        BY <1>u, <2>8, <4>1, CallbackIs DEF Folds, HeadJob
      <4>3. FromSubagent(cb) /\ AuthorOf(cb) = author[j.task]
        BY <2>8, <4>1, <4>2 DEF GoesToMeta, AuthorOf
      <4>. QED BY <1>u, <1>7, <4>2, <4>3
    <3>. QED BY <3>1, <3>2
  <2>. QED BY <2>5, <2>6, <2>7, <2>8 DEF HistoryHolds
<1>14. LoopTypes'
  <2>1. blocked' \subseteq Chat
    BY <1>1, CallbackIs DEF Drain, LoopTypes
  <2>2. settled' \subseteq Job
    BY <1>1, <1>7, CallbackIs DEF LoopTypes
  <2>3. ASSUME NEW x \in told' PROVE x \in Job \X (Chat \cup {Meta, Harness})
    <3>1. CASE x \in told
      BY <1>1, <3>1 DEF LoopTypes
    <3>2. ASSUME NEW cb \in Range(q5), FromSubagent(cb) \/ FromHarness(cb),
                 x = <<HeadJob(cb), AuthorOf(cb)>>
          PROVE  x \in Job \X (Chat \cup {Meta, Harness})
      <4>1. HeadJob(cb) \in Job /\ AuthorOf(cb) \in Chat \cup {Meta, Harness}
        BY <3>2, CallbackIs DEF FromSubagent, FromHarness
      <4>. QED BY <3>2, <4>1
    <3>. QED BY <1>7, <3>1, <3>2
  <2>4. told' \subseteq Job \X (Chat \cup {Meta, Harness})
    BY <2>3
  <2>5. /\ pending' \in Seq(Item) /\ batch' \in Seq(Item \cup Signal) /\ timer' \in BOOLEAN
        /\ signals' \subseteq Chat
    BY <1>1 DEF Dealt, LoopTypes
  <2>. QED BY <1>u, <1>1, <1>3, <1>7, <2>1, <2>2, <2>4, <2>5 DEF LoopTypes
<1>15. SessionHolds'
  <2>1. IsFiniteSet(signals')
    BY <1>1, FS_Subset DEF Dealt, SessionHolds
  <2>2. OneSession'
    <3>1. DOMAIN batch' = 1..Len(batch')
      BY RangeIs DEF Dealt
    <3>. QED BY <3>1 DEF Dealt, OneSession
  <2>. QED BY <1>u, <2>1, <2>2 DEF SessionHolds, Dealt
<1>16. Q5Holds' /\ ListsHold(held')
  BY <1>u, <1>1, <1>3 DEF Q5Holds
<1>. QED BY <1>7, <1>8, <1>9, <1>12, <1>13, <1>14, <1>15, <1>16 DEF LoopInv, ListsHold

\* Each of the ticks.
LEMMA TickKeeps ==
  ASSUME LoopAssumption, LoopInv, Tick
  PROVE  LoopInv'
<1>1. /\ topN \in TopNs /\ signals \subseteq Chat /\ IsFiniteSet(signals)
  BY DEF LoopInv, LoopTypes, SessionHolds
<1>2. Collected \in Seq(Item) /\ Once(Collected)
  BY CollectedHas
<1>3. timer /\ Drain
  BY DEF Tick, TickOnly, TickFlush
<1>4. CASE NoFlush(Collected)
  BY <1>1, <1>2, <1>3, <1>4, NoFlushDeals, DealtKeeps
<1>5. CASE q5 = <<>> /\ pending = <<>> /\ NoFlush(<<Patrol>>)
  <2>1. Range(q5) = {} /\ Range(pending) = {}
    BY <1>5, RangeIs, EmptySeq
  <2>2. \A x \in Range(Collected) : x \in Range(<<Patrol>>)
    BY <2>1, CollectedHas
  <2>3. /\ <<Patrol>> \in Seq(Item) /\ Once(<<Patrol>>)
        /\ \A x \in Range(<<Patrol>>) : x = Patrol
    BY DEF Patrol, Item, Once, Range
  <2>. QED BY <1>1, <1>3, <1>5, <2>2, <2>3, NoFlushDeals, DealtKeeps
<1>6. ASSUME NEW filling \in Fillings(Spare(Collected)), Flush(Collected, filling)
      PROVE  LoopInv'
  BY <1>1, <1>2, <1>3, <1>6, FlushDeals, DealtKeeps
<1>. QED BY <1>4, <1>5, <1>6 DEF Tick, TickOnly, TickFlush


-----------------------------------------------------------------------------
(* The theorems about the loop                                              *)

\* At first nothing waits anywhere.
LEMMA LoopInitIInv ==
  ASSUME LoopAssumption, LoopInit
  PROVE  LoopInv
<1>1. /\ \A c \in Chat : queue[c] = <<>> /\ held[c] = <<>>
      /\ queue \in [Chat -> Seq(Job)] /\ held \in [Chat -> Seq(Job)]
      /\ author \in [Task -> Chat \cup {Meta, Harness, Nobody}]
      /\ \A t \in Task : author[t] = Nobody
      /\ fate \in [Message -> {"new", "waiting", "attended", "lost"}]
      /\ \A m \in Message : fate[m] # "waiting"
  BY EmptySeq DEF LoopInit
<1>2. /\ records = <<>> /\ q5 = <<>> /\ pending = <<>> /\ batch = <<>>
      /\ open = {} /\ topN \in TopNs /\ blocked = {} /\ signals = {} /\ timer = TRUE
      /\ breaker = FALSE /\ told = {} /\ settled = {} /\ folded = {}
  BY DEF LoopInit
<1>3. Len(<<>>) = 0 /\ Range(<<>>) = {} /\ DOMAIN <<>> = {}
  <2>1. <<>> \in Seq(Job)
    BY EmptySeq
  <2>2. Len(<<>>) = 0 /\ Range(<<>>) = {} /\ DOMAIN <<>> = 1..Len(<<>>)
    BY <2>1, RangeIs
  <2>. QED BY <2>2
<1>4. Once(<<>>)
  BY <1>3 DEF Once
<1>5. MaxTasks \in Nat /\ topN \in Nat
  BY <1>2 DEF LoopAssumption
<1>6. LoopTypes
  <2>1. /\ records \in Seq(Task) /\ Len(records) <= MaxTasks /\ q5 \in Seq(Callback)
        /\ pending \in Seq(Item) /\ batch \in Seq(Item \cup Signal)
    BY <1>2, <1>3, <1>5, EmptySeq
  <2>2. /\ open \subseteq Chat /\ blocked \subseteq Chat /\ signals \subseteq Chat
        /\ told \subseteq Job \X (Chat \cup {Meta, Harness})
        /\ settled \subseteq Job /\ folded \subseteq Job
        /\ timer \in BOOLEAN /\ breaker \in BOOLEAN
    BY <1>2
  <2>. QED BY <1>1, <1>2, <2>1, <2>2 DEF LoopTypes
<1>7. ListsHold(queue) /\ ListsHold(held)
  BY <1>1, <1>3, <1>4 DEF ListsHold
<1>8. Q5Holds
  BY <1>2, <1>3 DEF Q5Holds
<1>9. \A x : x \notin Items
  BY <1>2, <1>3 DEF Items
<1>10. ItemsHold /\ MessagesHold
  BY <1>1, <1>2, <1>3, <1>4, <1>9 DEF ItemsHold, MessagesHold
<1>11. JobsHold
  <2>1. \A j : j \notin InQueues /\ j \notin InWindows
    BY <1>1, <1>3, ListedIs DEF InQueues, InWindows
  <2>2. \A j : j \notin InQ5 /\ j \notin InLayers /\ j \notin InSession
    BY <1>2, <1>3, JobsOfIs DEF InQ5, InLayers, InSession
  <2>3. \A j \in Job : ~Exists(j)
    BY <1>1, <1>2, JobIs DEF Exists
  <2>. QED BY <1>2, <2>1, <2>2, <2>3 DEF JobsHold
<1>12. HistoryHolds
  BY <1>2, <1>3 DEF HistoryHolds
<1>13. SessionHolds
  <2>1. IsFiniteSet(signals)
    BY <1>2, FS_EmptySet
  <2>. QED BY <1>2, <1>3, <1>5, <2>1 DEF SessionHolds, OneSession
<1>. QED BY <1>6, <1>7, <1>8, <1>10, <1>11, <1>12, <1>13 DEF LoopInv

\* Every step keeps the invariant.
LEMMA LoopNextIInv ==
  ASSUME LoopAssumption, LoopInv, [LoopNext]_loopVars
  PROVE  LoopInv'
<1>1. CASE LoopNext
  <2>1. ASSUME NEW m \in Message, Elevate(m) PROVE LoopInv'
    BY <2>1, MessageArrivesKeeps DEF Elevate
  <2>2. ASSUME NEW m \in Message, NEW c \in Chat, Address(m, c) PROVE LoopInv'
    BY <2>2, MessageArrivesKeeps DEF Address
  <2>. QED
    BY <1>1, <2>1, <2>2, TopicSignalKeeps, DispatchKeeps, SpeakKeeps, EndRunKeeps,
       CloseWindowKeeps, TickKeeps, SessionEndsKeeps, BreakerClosesKeeps
       DEF LoopNext, Arrival, RunEnds, WindowCloses
<1>2. CASE UNCHANGED loopVars
  <2>u. UNCHANGED <<queue, author, records, open, held, q5, topN, blocked, pending, signals,
                    batch, timer, breaker, told, settled, folded, fate>>
    BY <1>2 DEF loopVars, chats, waiting, loop, outcome
  <2>1. LoopTypes' /\ SessionHolds'
    BY <2>u DEF LoopInv, LoopTypes, SessionHolds, OneSession
  <2>2. ListsHold(queue') /\ ListsHold(held') /\ Q5Holds' /\ ItemsHold' /\ JobsHold'
    BY <2>u, ListsStay, JobsStay, ItemsStay DEF LoopInv
  <2>3. MessagesHold' /\ HistoryHolds'
    BY <2>u DEF LoopInv, MessagesHold, HistoryHolds, Items
  <2>. QED BY <2>1, <2>2, <2>3 DEF LoopInv, ListsHold
<1>. QED BY <1>1, <1>2

\* What a tick's disposing of jobs, items and messages rests on.
THEOREM LoopInvariance == LoopSpec => []LoopInv
<1>1. LoopAssumption
  BY LoopAssumption
<1>2. LoopInit => LoopInv
  BY <1>1, LoopInitIInv
<1>3. LoopInv /\ [LoopNext]_loopVars => LoopInv'
  BY <1>1, LoopNextIInv
<1>. QED BY <1>2, <1>3, PTL DEF LoopSpec

\* Chats and the harness are told what they have asked for before its callback
\* is disposed of, and what chats have between them Meta is not told.
THEOREM ResultsAreTold == LoopSpec => []ResultsFindTheirAuthor
<1>1. LoopInv => ResultsFindTheirAuthor
  <2> SUFFICES ASSUME LoopInv PROVE AuthorsAreTold /\ ExchangesStayPrivate
    BY DEF ResultsFindTheirAuthor
  <2>1. HistoryHolds /\ Range(records) \subseteq Task
    BY RangeIs DEF LoopInv, LoopTypes
  <2>2. AuthorsAreTold
    BY <2>1, JobsOfTask DEF AuthorsAreTold, HistoryHolds
  <2>3. ExchangesStayPrivate
    BY <2>1, JobsOfTask DEF ExchangesStayPrivate, HistoryHolds
  <2>. QED BY <2>2, <2>3
<1>. QED BY <1>1, LoopInvariance, PTL


\* A job is at most once in the lists of the chats.
LEMMA ListAt ==
  ASSUME NEW f \in [Chat -> Seq(Job)], ListsHold(f), NEW j
  PROVE  /\ (\E c \in Chat : \E i \in At(f[c], j) : TRUE) <=> j \in Listed(f)
         /\ \A c, d \in Chat : \A i \in At(f[c], j), k \in At(f[d], j) : c = d /\ i = k
<1>1. ASSUME NEW c \in Chat
      PROVE  /\ \A i : i \in At(f[c], j) <=> i \in 1..Len(f[c]) /\ f[c][i] = j
             /\ j \in Range(f[c]) <=> \E i \in At(f[c], j) : TRUE
  <2>1. /\ DOMAIN f[c] = 1..Len(f[c]) /\ \A i \in 1..Len(f[c]) : f[c][i] \in Range(f[c])
        /\ \A y \in Range(f[c]) : \E i \in 1..Len(f[c]) : f[c][i] = y
    BY RangeIs
  <2>2. \A i : i \in At(f[c], j) <=> i \in 1..Len(f[c]) /\ f[c][i] = j
    BY <2>1 DEF At
  <2>. QED BY <2>1, <2>2
<1>2. ASSUME NEW c \in Chat, NEW d \in Chat, NEW i \in At(f[c], j), NEW k \in At(f[d], j)
      PROVE  c = d /\ i = k
  <2>1. j \in Range(f[c]) /\ j \in Range(f[d])
    BY <1>1
  <2>2. c = d
    BY <2>1 DEF ListsHold
  <2>3. Once(f[c])
    BY DEF ListsHold
  <2>. QED BY <1>1, <2>2, <2>3 DEF Once
<1>. QED BY <1>1, <1>2, ListedIs

\* A job is at most once in Q5.
LEMMA FoldingAt ==
  ASSUME LoopInv, NEW j
  PROVE  /\ (\E i \in Folding(q5, j) : TRUE) <=> j \in InQ5
         /\ \A i, k \in Folding(q5, j) : i = k
<1>1. q5 \in Seq(Callback) /\ Q5Holds
  BY DEF LoopInv, LoopTypes
<1>2. /\ DOMAIN q5 = 1..Len(q5) /\ \A i \in 1..Len(q5) : q5[i] \in Range(q5)
      /\ \A y \in Range(q5) : \E i \in 1..Len(q5) : q5[i] = y
  BY <1>1, RangeIs
<1>3. \A i : i \in Folding(q5, j) <=> i \in DOMAIN q5 /\ j \in Range(q5[i].jobs)
  BY DEF Folding
<1>4. j \in InQ5 <=> \E cb \in Range(q5) : j \in Range(cb.jobs)
  BY DEF InQ5
<1>5. \A i, k \in Folding(q5, j) : i = k
  BY <1>1, <1>3 DEF Q5Holds
<1>. QED BY <1>2, <1>3, <1>4, <1>5

\* A job is carried by at most one item, which is at one place.
LEMMA CarryingAt ==
  ASSUME LoopInv, NEW s, s = pending \/ s = batch, NEW j \in Job
  PROVE  /\ (\E i \in Carrying(s, j) : TRUE) <=> j \in JobsOf(Range(s))
         /\ \A i, k \in Carrying(s, j) : i = k
<1>1. s \in Seq(Item \cup Signal) /\ Once(s) /\ \A x \in Range(s) : x \in Items
  <2>1. pending \in Seq(Item) /\ batch \in Seq(Item \cup Signal) /\ ItemsHold
    BY DEF LoopInv, LoopTypes
  <2>2. pending \in Seq(Item \cup Signal)
    BY <2>1, SeqOfMore
  <2>. QED BY <2>1, <2>2 DEF ItemsHold, Items
<1>2. /\ DOMAIN s = 1..Len(s) /\ \A i \in 1..Len(s) : s[i] \in Range(s)
      /\ \A y \in Range(s) : \E i \in 1..Len(s) : s[i] = y
  BY <1>1, RangeIs
<1>3. \A i : i \in Carrying(s, j) <=> i \in 1..Len(s) /\ Carries(s[i], j)
  BY <1>2 DEF Carrying, Carries
<1>4. ASSUME NEW i \in Carrying(s, j), NEW k \in Carrying(s, j) PROVE i = k
  <2>1. s[i] \in Items /\ s[k] \in Items /\ Meet(s[i], s[k])
    BY <1>1, <1>2, <1>3 DEF Meet
  <2>2. s[i] = s[k]
    BY <2>1 DEF LoopInv, ItemsHold
  <2>. QED BY <1>1, <1>3, <2>2 DEF Once
<1>. QED BY <1>2, <1>3, <1>4, JobsOfIs

\* Each job in one place.
LEMMA JobsAreInOnePlace ==
  ASSUME LoopInv
  PROVE  EachJobInOnePlace
<1> SUFFICES ASSUME NEW j \in Job
             PROVE  Cardinality(PlacesOf(j)) = IF Exists(j) THEN 1 ELSE 0
  BY DEF EachJobInOnePlace
<1> DEFINE P == PlacesOf(j)
<1>1. \A x : x \in P <=>
        \/ \E c \in Chat : \E i \in At(queue[c], j) : x = <<"executor", c, i>>
        \/ \E c \in Chat : \E i \in At(held[c], j) : x = <<"window", c, i>>
        \/ \E i \in Folding(q5, j) : x = <<"q5", Nobody, i>>
        \/ \E i \in Carrying(pending, j) : x = <<"accumulator", Nobody, i>>
        \/ \E i \in Carrying(batch, j) : x = <<"session", Nobody, i>>
        \/ j \in settled /\ x = <<"settled", Nobody, 0>>
  BY DEF PlacesOf
<1>2. /\ queue \in [Chat -> Seq(Job)] /\ held \in [Chat -> Seq(Job)]
      /\ ListsHold(queue) /\ ListsHold(held) /\ JobsHold
  BY DEF LoopInv, LoopTypes
<1>3. /\ (\E c \in Chat : \E i \in At(queue[c], j) : TRUE) <=> j \in InQueues
      /\ \A c, d \in Chat : \A i \in At(queue[c], j), k \in At(queue[d], j) : c = d /\ i = k
  BY <1>2, ListAt DEF InQueues
<1>4. /\ (\E c \in Chat : \E i \in At(held[c], j) : TRUE) <=> j \in InWindows
      /\ \A c, d \in Chat : \A i \in At(held[c], j), k \in At(held[d], j) : c = d /\ i = k
  BY <1>2, ListAt DEF InWindows
<1>5. /\ (\E i \in Folding(q5, j) : TRUE) <=> j \in InQ5
      /\ \A i, k \in Folding(q5, j) : i = k
  BY FoldingAt
<1>6. /\ (\E i \in Carrying(pending, j) : TRUE) <=> j \in InLayers
      /\ \A i, k \in Carrying(pending, j) : i = k
  BY CarryingAt DEF InLayers
<1>7. /\ (\E i \in Carrying(batch, j) : TRUE) <=> j \in InSession
      /\ \A i, k \in Carrying(batch, j) : i = k
  BY CarryingAt DEF InSession
<1>8. /\ j \in InQueues => j \notin InWindows \cup InQ5 \cup InLayers \cup InSession \cup settled
      /\ j \in InWindows => j \notin InQ5 \cup InLayers \cup InSession \cup settled
      /\ j \in InQ5 => j \notin InLayers \cup InSession \cup settled
      /\ j \in InLayers => j \notin InSession \cup settled
      /\ j \in InSession => j \notin settled
      /\ Exists(j) <=> j \in InQueues \cup InWindows \cup InQ5 \cup InLayers \cup InSession \cup settled
  BY <1>2 DEF JobsHold
<1> HIDE DEF P
<1>9. ~Exists(j) => P = {}
  BY <1>1, <1>3, <1>4, <1>5, <1>6, <1>7, <1>8
<1>10. Exists(j) => \E x : P = {x}
  <2>1. CASE j \in InQueues
    <3>1. PICK c \in Chat : \E i \in At(queue[c], j) : TRUE
      BY <1>3, <2>1
    <3>2. PICK i \in At(queue[c], j) : TRUE
      BY <3>1
    <3>3. \A x : x \in P <=> x = <<"executor", c, i>>
      BY <1>1, <1>3, <1>4, <1>5, <1>6, <1>7, <1>8, <2>1, <3>2
    <3>4. P = {<<"executor", c, i>>}
      BY <3>3
    <3>. QED BY <3>4
  <2>2. CASE j \in InWindows
    <3>1. PICK c \in Chat : \E i \in At(held[c], j) : TRUE
      BY <1>4, <2>2
    <3>2. PICK i \in At(held[c], j) : TRUE
      BY <3>1
    <3>3. \A x : x \in P <=> x = <<"window", c, i>>
      BY <1>1, <1>3, <1>4, <1>5, <1>6, <1>7, <1>8, <2>2, <3>2
    <3>4. P = {<<"window", c, i>>}
      BY <3>3
    <3>. QED BY <3>4
  <2>3. CASE j \in InQ5
    <3>1. PICK i \in Folding(q5, j) : TRUE
      BY <1>5, <2>3
    <3>2. \A x : x \in P <=> x = <<"q5", Nobody, i>>
      BY <1>1, <1>3, <1>4, <1>5, <1>6, <1>7, <1>8, <2>3, <3>1
    <3>3. P = {<<"q5", Nobody, i>>}
      BY <3>2
    <3>. QED BY <3>3
  <2>4. CASE j \in InLayers
    <3>1. PICK i \in Carrying(pending, j) : TRUE
      BY <1>6, <2>4
    <3>2. \A x : x \in P <=> x = <<"accumulator", Nobody, i>>
      BY <1>1, <1>3, <1>4, <1>5, <1>6, <1>7, <1>8, <2>4, <3>1
    <3>3. P = {<<"accumulator", Nobody, i>>}
      BY <3>2
    <3>. QED BY <3>3
  <2>5. CASE j \in InSession
    <3>1. PICK i \in Carrying(batch, j) : TRUE
      BY <1>7, <2>5
    <3>2. \A x : x \in P <=> x = <<"session", Nobody, i>>
      BY <1>1, <1>3, <1>4, <1>5, <1>6, <1>7, <1>8, <2>5, <3>1
    <3>3. P = {<<"session", Nobody, i>>}
      BY <3>2
    <3>. QED BY <3>3
  <2>6. CASE j \in settled
    <3>1. \A x : x \in P <=> x = <<"settled", Nobody, 0>>
      BY <1>1, <1>3, <1>4, <1>5, <1>6, <1>7, <1>8, <2>6
    <3>2. P = {<<"settled", Nobody, 0>>}
      BY <3>1
    <3>. QED BY <3>2
  <2>. QED BY <1>8, <2>1, <2>2, <2>3, <2>4, <2>5, <2>6
<1>. QED BY <1>9, <1>10, FS_EmptySet, FS_Singleton DEF P

\* What is once in pending and batch has one place there.
LEMMA PendingThenBatch ==
  ASSUME LoopInv
  PROVE  LET s == pending \o batch IN
         /\ DOMAIN s = 1..Len(s) /\ Len(s) \in Nat /\ Once(s)
         /\ \A i \in DOMAIN s : s[i] \in Items
         /\ \A x \in Items : \E i \in DOMAIN s : s[i] = x
<1> DEFINE s == pending \o batch
<1>1. pending \in Seq(Item) /\ batch \in Seq(Item \cup Signal) /\ ItemsHold
  BY DEF LoopInv, LoopTypes
<1>2. pending \in Seq(Item \cup Signal)
  BY <1>1, SeqOfMore
<1>3. s \in Seq(Item \cup Signal) /\ Once(s) /\ Range(s) = Range(pending) \cup Range(batch)
  BY <1>1, <1>2, ConcatHas DEF ItemsHold
<1> HIDE DEF s
<1>4. /\ DOMAIN s = 1..Len(s) /\ Len(s) \in Nat
      /\ \A i \in 1..Len(s) : s[i] \in Range(s)
      /\ \A x \in Range(s) : \E i \in 1..Len(s) : s[i] = x
  BY <1>3, RangeIs
<1>. QED BY <1>3, <1>4 DEF Items, s

\* Each message in one place, and one patrol.
LEMMA ItemsAreInOnePlace ==
  ASSUME LoopInv
  PROVE  EachMessageInOnePlace /\ OnePatrol
<1> DEFINE s == pending \o batch
<1>1. /\ DOMAIN s = 1..Len(s) /\ Once(s) /\ \A i \in DOMAIN s : s[i] \in Items
      /\ \A x \in Items : \E i \in DOMAIN s : s[i] = x
  BY PendingThenBatch
<1>2. /\ \A x, y \in Items : Meet(x, y) => x = y
      /\ \A m \in Message : fate[m] = "waiting" <=> \E x \in Items : IsMessage(x) /\ x.about = m
  BY DEF LoopInv, ItemsHold, MessagesHold
<1> HIDE DEF s
<1>3. ASSUME NEW m \in Message
      PROVE  Cardinality(Telling(s, m)) = IF fate[m] = "waiting" THEN 1 ELSE 0
  <2> DEFINE T == Telling(s, m)
  <2>1. \A i : i \in T <=> i \in DOMAIN s /\ IsMessage(s[i]) /\ s[i].about = m
    BY DEF Telling
  <2>2. ASSUME NEW i \in T, NEW k \in T PROVE i = k
    <3>1. Meet(s[i], s[k]) /\ s[i] \in Items /\ s[k] \in Items
      BY <1>1, <2>1 DEF Meet
    <3>. QED BY <1>1, <1>2, <2>1, <3>1 DEF Once
  <2>3. fate[m] = "waiting" <=> \E i : i \in T
    BY <1>1, <1>2, <2>1
  <2> HIDE DEF T
  <2>4. (\E i : i \in T) => \E i : T = {i}
    BY <2>2
  <2>5. ~(\E i : i \in T) => T = {}
    OBVIOUS
  <2>. QED BY <2>3, <2>4, <2>5, FS_EmptySet, FS_Singleton DEF T
<1>4. Cardinality({i \in DOMAIN s : s[i] = Patrol}) <= 1
  <2> DEFINE T == {i \in DOMAIN s : s[i] = Patrol}
  <2>1. \A i, k \in T : i = k
    BY <1>1 DEF Once
  <2> HIDE DEF T
  <2>2. T = {} \/ \E i : T = {i}
    BY <2>1
  <2>3. Cardinality(T) = 0 \/ Cardinality(T) = 1
    BY <2>2, FS_EmptySet, FS_Singleton
  <2>. QED BY <2>3 DEF T
<1>. QED BY <1>3, <1>4 DEF EachMessageInOnePlace, OnePatrol, s

\* The tick neither loses nor doubles what passes through it.
THEOREM LoopIsConsistent == LoopSpec => []LoopConsistent
<1>1. LoopInv => LoopConsistent
  <2> SUFFICES ASSUME LoopInv PROVE LoopTypeOK /\ OneSession
    BY JobsAreInOnePlace, ItemsAreInOnePlace DEF LoopConsistent
  <2>. QED BY DEF LoopInv, LoopTypes, LoopTypeOK, SessionHolds
<1>. QED BY <1>1, LoopInvariance, PTL
=============================================================================
