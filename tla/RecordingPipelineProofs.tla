----------------------- MODULE RecordingPipelineProofs -----------------------
(***************************************************************************)
(* Theorems about RecordingPipeline, for any number of messages, failures  *)
(* and topics, and all thresholds.                                         *)
(***************************************************************************)
EXTENDS RecordingPipeline, SequenceTheorems, FiniteSetTheorems,
        FunctionTheorems, TLAPS

\* The messages of q are those that follow n.
Numbered(q, n) == \A i \in 1..Len(q) : q[i] = n + i

\* The messages that are recorded or dropped.
over == arrived - Len(flushing.batch) - Len(buffer)

\* Messages are over in the order in which they came: those that wait are the
\* last ones, those of the batch before those of the buffer.
InTurn ==
  /\ over >= 0
  /\ Numbered(flushing.batch, over)
  /\ Numbered(buffer, over + Len(flushing.batch))
  /\ done \cup dropped = 1..over
  /\ done \cap dropped = {}

\* Each drain timer is left from a flush that has recorded something, or failed.
TimersCounted == drainTimers <= over + failures

\* A flush that fails has published nothing yet.
NonePublished == published = {}

\* The last flush takes all there is.
LastIsAll ==
  /\ closing = "awaited" => isFlushing /\ buffer = <<>>
  /\ closing = "over" => ~isFlushing /\ buffer = <<>>

\* A topic that the flush was shown, and that has been archived meanwhile, for the
\* first time, was archived after the messages of the flush had come.
ArchivedMeanwhile ==
  \A t \in flushing.seen :
    (registry[t].state = "ARCHIVED" /\ ~registry[t].revived) =>
      \A i \in 1..Len(flushing.batch) : flushing.batch[i] <= registry[t].ended

\* What is known of a topic, and that it gets messages from after its end only if
\* it has been brought back.
TopicRecord == [state : State, ended : 0..MaxMessages, revived : BOOLEAN, late : BOOLEAN]
Kept(r) == r.late => r.revived

\* The invariant of all but the end of the program.
Core ==
  /\ TypeOK
  /\ InTurn /\ TimersCounted /\ BacklogIsPolled
  /\ NonePublished
  /\ ArchivedMeanwhile /\ ArchivedKeepsItsEnd

IInv == Core /\ LastIsAll

-----------------------------------------------------------------------------
(* The operators                                                            *)

\* The smaller of two numbers.
LEMMA MinOfTwo ==
  ASSUME NEW x \in Nat, NEW y \in Nat
  PROVE  Min({x, y}) = IF x <= y THEN x ELSE y
<1> DEFINE m == IF x <= y THEN x ELSE y
<1>1. m \in {x, y} /\ \A z \in {x, y} : m <= z
  OBVIOUS
<1>2. \A w \in {x, y} : (\A z \in {x, y} : w <= z) => w = m
  OBVIOUS
<1> HIDE DEF m
<1>3. Min({x, y}) = m
  BY <1>1, <1>2 DEF Min
<1>. QED BY <1>3 DEF m

\* The bounded sequences are the sequences within the bound.
LEMMA BoundedIs ==
  ASSUME NEW S, NEW n \in Nat, NEW q
  PROVE  q \in BoundedSeq(S, n) <=> q \in Seq(S) /\ Len(q) <= n
<1>1. ASSUME q \in BoundedSeq(S, n) PROVE q \in Seq(S) /\ Len(q) <= n
  <2>1. PICK m \in 0..n : q \in [1..m -> S]
    BY <1>1 DEF BoundedSeq, SeqOf
  <2>. QED BY <2>1
<1>2. ASSUME q \in Seq(S), Len(q) <= n PROVE q \in BoundedSeq(S, n)
  <2>1. Len(q) \in 0..n /\ q \in [1..Len(q) -> S]
    BY <1>2
  <2>. QED BY <2>1 DEF BoundedSeq, SeqOf
<1>. QED BY <1>1, <1>2

\* The messages of a numbered sequence are a range.
LEMMA SetOfNumbered ==
  ASSUME NEW S, NEW q \in Seq(S), NEW n \in Int, Numbered(q, n)
  PROVE  ToSet(q) = (n + 1)..(n + Len(q))
<1>1. Len(q) \in Nat /\ DOMAIN q = 1..Len(q)
  BY LenProperties
<1>2. ToSet(q) \subseteq (n + 1)..(n + Len(q))
  BY <1>1 DEF ToSet, Numbered
<1>3. ASSUME NEW x \in (n + 1)..(n + Len(q)) PROVE x \in ToSet(q)
  <2>1. x - n \in 1..Len(q) /\ n + (x - n) = x
    BY <1>1
  <2>2. q[x - n] = x
    BY <2>1 DEF Numbered
  <2>. QED BY <1>1, <2>1, <2>2 DEF ToSet
<1>. QED BY <1>2, <1>3

\* A part of a numbered sequence is numbered.
LEMMA PartIsNumbered ==
  ASSUME NEW S, NEW q \in Seq(S), NEW n \in Int, Numbered(q, n),
         NEW i \in Nat \ {0}, NEW j \in Nat, j <= Len(q)
  PROVE  /\ SubSeq(q, i, j) \in Seq(S)
         /\ Len(SubSeq(q, i, j)) = IF i <= j THEN j - i + 1 ELSE 0
         /\ Numbered(SubSeq(q, i, j), n + i - 1)
<1>1. Len(q) \in Nat /\ \A k \in 1..Len(q) : q[k] \in S
  BY LenProperties, ElementOfSeq
<1>2. i \in Int /\ j \in Int /\ \A k \in i..j : q[k] \in S
  BY <1>1
<1>3. /\ SubSeq(q, i, j) \in Seq(S)
      /\ Len(SubSeq(q, i, j)) = IF i <= j THEN j - i + 1 ELSE 0
      /\ \A k \in 1..(j - i + 1) : SubSeq(q, i, j)[k] = q[i + k - 1]
  BY <1>2, SubSeqProperties
<1>4. ASSUME NEW k \in 1..Len(SubSeq(q, i, j))
      PROVE  SubSeq(q, i, j)[k] = n + i - 1 + k
  <2>1. k \in 1..(j - i + 1) /\ i + k - 1 \in 1..Len(q)
    BY <1>1, <1>3
  <2>2. SubSeq(q, i, j)[k] = q[i + k - 1] /\ q[i + k - 1] = n + (i + k - 1)
    BY <1>3, <2>1 DEF Numbered
  <2>. QED BY <2>1, <2>2
<1>. QED BY <1>3, <1>4 DEF Numbered

\* A batch and the rest make up the buffer.
LEMMA TakeAndRest ==
  ASSUME NEW b \in Seq(Message), NEW n \in Int, Numbered(b, n)
  PROVE  /\ Take(b) \in Seq(Message) /\ Take(b) \in BoundedSeq(Message, maxFlushBatch)
         /\ Rest(b) \in Seq(Message)
         /\ Len(Take(b)) \in Nat /\ Len(Rest(b)) \in Nat /\ Len(b) \in Nat
         /\ Len(Take(b)) + Len(Rest(b)) = Len(b)
         /\ Numbered(Take(b), n) /\ Numbered(Rest(b), n + Len(Take(b)))
         /\ b # <<>> => Take(b) # <<>>
         /\ Len(b) <= maxFlushBatch => Rest(b) = <<>>
<1> DEFINE m == IF maxFlushBatch <= Len(b) THEN maxFlushBatch ELSE Len(b)
<1>1. maxFlushBatch \in Nat \ {0} /\ Len(b) \in Nat
  BY LenProperties, PipelineAssumption
<1>2. Min({maxFlushBatch, Len(b)}) = m
  BY <1>1, MinOfTwo
<1>3. m \in Nat /\ m <= Len(b) /\ m <= maxFlushBatch /\ (Len(b) > 0 => m > 0)
  BY <1>1
<1>4. Take(b) = SubSeq(b, 1, m)
  BY <1>2 DEF Take
<1>5. Take(b) \in Seq(Message) /\ Len(Take(b)) = m /\ Numbered(Take(b), n)
  <2> HIDE DEF m
  <2>1. /\ SubSeq(b, 1, m) \in Seq(Message)
        /\ Len(SubSeq(b, 1, m)) = IF 1 <= m THEN m - 1 + 1 ELSE 0
        /\ Numbered(SubSeq(b, 1, m), n + 1 - 1)
    BY <1>3, PartIsNumbered
  <2>2. n + 1 - 1 = n /\ (IF 1 <= m THEN m - 1 + 1 ELSE 0) = m
    BY <1>3
  <2>. QED BY <1>4, <2>1, <2>2
<1>6. Take(b) \in BoundedSeq(Message, maxFlushBatch)
  BY <1>1, <1>3, <1>5, BoundedIs
<1>7. /\ Rest(b) \in Seq(Message)
      /\ Len(Rest(b)) = IF maxFlushBatch + 1 <= Len(b) THEN Len(b) - maxFlushBatch ELSE 0
      /\ Numbered(Rest(b), n + maxFlushBatch)
  <2> DEFINE i == maxFlushBatch + 1
  <2>1. i \in Nat \ {0} /\ Len(b) <= Len(b)
    BY <1>1
  <2> HIDE DEF i
  <2>2. /\ SubSeq(b, i, Len(b)) \in Seq(Message)
        /\ Len(SubSeq(b, i, Len(b))) = IF i <= Len(b) THEN Len(b) - i + 1 ELSE 0
        /\ Numbered(SubSeq(b, i, Len(b)), n + i - 1)
    BY <1>1, <2>1, PartIsNumbered
  <2>3. n + i - 1 = n + maxFlushBatch /\ Len(b) - i + 1 = Len(b) - maxFlushBatch
    BY <1>1 DEF i
  <2>. QED BY <2>2, <2>3 DEF Rest, i
<1>8. CASE maxFlushBatch <= Len(b)
  <2>1. m = maxFlushBatch /\ Len(Rest(b)) = Len(b) - maxFlushBatch
    BY <1>1, <1>7, <1>8
  <2>2. /\ Numbered(Rest(b), n + Len(Take(b))) /\ Len(Rest(b)) \in Nat
        /\ Len(Take(b)) + Len(Rest(b)) = Len(b)
    BY <1>1, <1>5, <1>7, <1>8, <2>1
  <2>3. Len(b) <= maxFlushBatch => Rest(b) = <<>>
    BY <1>1, <1>7, <1>8, <2>1, EmptySeq
  <2>4. Take(b) # <<>>
    BY <1>1, <1>5, <2>1, EmptySeq
  <2>. QED BY <1>1, <1>3, <1>5, <1>6, <1>7, <2>2, <2>3, <2>4
<1>9. CASE ~(maxFlushBatch <= Len(b))
  <2>1. m = Len(b) /\ Len(Rest(b)) = 0
    BY <1>1, <1>7, <1>9
  <2>2. Rest(b) = <<>> /\ (b # <<>> => Take(b) # <<>>)
    BY <1>5, <1>7, <2>1, EmptySeq
  <2>3. Numbered(Rest(b), n + Len(Take(b)))
    BY <2>1 DEF Numbered
  <2>4. Len(Take(b)) + Len(Rest(b)) = Len(b)
    BY <1>1, <1>5, <2>1
  <2>. QED BY <1>1, <1>3, <1>5, <1>6, <1>7, <2>1, <2>2, <2>3, <2>4
<1>. QED BY <1>8, <1>9

\* The cap drops the oldest messages.
LEMMA CappedIs ==
  ASSUME NEW b \in Seq(Message), NEW n \in Int, Numbered(b, n)
  PROVE  /\ Capped(b) \in Seq(Message) /\ Len(Capped(b)) \in Nat /\ Len(b) \in Nat
         /\ Len(Capped(b)) <= Len(b)
         /\ Numbered(Capped(b), n + (Len(b) - Len(Capped(b))))
<1>1. maxBufferSize \in Nat \ {0} /\ Len(b) \in Nat
  BY LenProperties, PipelineAssumption
<1>2. CASE Len(b) > maxBufferSize
  <2> DEFINE i == Len(b) - maxBufferSize + 1
  <2>1. i \in Nat \ {0} /\ Len(b) <= Len(b)
    BY <1>1, <1>2
  <2>2. Capped(b) = SubSeq(b, i, Len(b))
    BY <1>2 DEF Capped
  <2> HIDE DEF i
  <2>3. /\ SubSeq(b, i, Len(b)) \in Seq(Message)
        /\ Len(SubSeq(b, i, Len(b))) = IF i <= Len(b) THEN Len(b) - i + 1 ELSE 0
        /\ Numbered(SubSeq(b, i, Len(b)), n + i - 1)
    BY <1>1, <2>1, PartIsNumbered
  <2>4. /\ (IF i <= Len(b) THEN Len(b) - i + 1 ELSE 0) = maxBufferSize
        /\ n + i - 1 = n + (Len(b) - maxBufferSize)
    BY <1>1, <1>2 DEF i
  <2>5. /\ Capped(b) \in Seq(Message) /\ Len(Capped(b)) = maxBufferSize
        /\ Numbered(Capped(b), n + (Len(b) - maxBufferSize))
    BY <2>2, <2>3, <2>4
  <2>. QED BY <1>1, <1>2, <2>5
<1>3. CASE ~(Len(b) > maxBufferSize)
  <2>1. Capped(b) = b /\ n + (Len(b) - Len(b)) = n
    BY <1>1, <1>3 DEF Capped
  <2>. QED BY <1>1, <2>1
<1>. QED BY <1>2, <1>3

\* A batch that is numbered before the buffer is put back before it.
LEMMA PutBackIsNumbered ==
  ASSUME NEW S, NEW b \in Seq(S), NEW q \in Seq(S), NEW n \in Int,
         Numbered(b, n), Numbered(q, n + Len(b))
  PROVE  /\ b \o q \in Seq(S) /\ Len(b \o q) = Len(b) + Len(q)
         /\ Len(b) \in Nat /\ Len(q) \in Nat
         /\ Numbered(b \o q, n)
<1>1. /\ b \o q \in Seq(S) /\ Len(b \o q) = Len(b) + Len(q)
      /\ Len(b) \in Nat /\ Len(q) \in Nat
      /\ \A i \in 1..(Len(b) + Len(q)) :
           (b \o q)[i] = IF i <= Len(b) THEN b[i] ELSE q[i - Len(b)]
  BY ConcatProperties, LenProperties
<1>2. ASSUME NEW j \in 1..Len(b \o q) PROVE (b \o q)[j] = n + j
  <2>1. CASE j <= Len(b)
    BY <1>1, <2>1 DEF Numbered
  <2>2. CASE ~(j <= Len(b))
    <3>1. j - Len(b) \in 1..Len(q) /\ (b \o q)[j] = q[j - Len(b)]
      BY <1>1, <2>2
    <3>2. q[j - Len(b)] = n + Len(b) + (j - Len(b))
      BY <3>1 DEF Numbered
    <3>. QED BY <1>1, <3>1, <3>2
  <2>. QED BY <2>1, <2>2
<1>. QED BY <1>1, <1>2 DEF Numbered

\* There is an injection into a set that is not smaller.
LEMMA InjectionExists ==
  ASSUME NEW S, NEW T, IsFiniteSet(S), IsFiniteSet(T), Cardinality(S) <= Cardinality(T)
  PROVE  Injection(S, T) # {}
<1> DEFINE n == Cardinality(S)
           m == Cardinality(T)
<1>1. n \in Nat /\ m \in Nat /\ ExistsBijection(1..n, S) /\ ExistsBijection(1..m, T)
  BY FS_CardinalityType
<1>2. ExistsBijection(S, 1..n)
  BY <1>1, Fun_ExistsBijSymmetric
<1>3. ExistsInjection(S, 1..n) /\ ExistsInjection(1..m, T)
  BY <1>1, <1>2 DEF ExistsInjection, ExistsBijection, Bijection
<1>4. ExistsInjection(1..n, 1..m)
  <2> DEFINE id == [i \in 1..n |-> i]
  <2>1. 1..n \subseteq 1..m
    BY <1>1
  <2> HIDE DEF n, m
  <2>2. id \in [1..n -> 1..m] /\ IsInjective(id)
    BY <2>1 DEF IsInjective
  <2>3. id \in Injection(1..n, 1..m)
    BY <2>2 DEF Injection
  <2>. QED BY <2>3 DEF ExistsInjection
<1>5. ExistsInjection(S, T)
  BY <1>3, <1>4, Fun_ExistsInjTransitive
<1>. QED BY <1>5 DEF ExistsInjection

-----------------------------------------------------------------------------
(* The buffer                                                               *)

\* The type invariant of what is buffered and flushed.
LEMMA BufferTyped ==
  ASSUME TypeOK
  PROVE  /\ buffer \in Seq(Message) /\ Len(buffer) \in Nat
         /\ flushing.batch \in Seq(Message) /\ Len(flushing.batch) \in Nat
         /\ flushing.batch \in BoundedSeq(Message, maxFlushBatch)
         /\ flushing.seen \subseteq Topic /\ flushing.clusterOnly \in BOOLEAN
         /\ arrived \in 0..MaxMessages /\ arrived \in Nat /\ over \in Int
         /\ over + Len(flushing.batch) + Len(buffer) = arrived
<1>1. /\ buffer \in Seq(Message) /\ flushing.batch \in BoundedSeq(Message, maxFlushBatch)
      /\ flushing.seen \subseteq Topic /\ flushing.clusterOnly \in BOOLEAN
      /\ arrived \in 0..MaxMessages
  BY DEF TypeOK
<1>2. arrived \in Nat /\ maxFlushBatch \in Nat
  BY <1>1, PipelineAssumption
<1>3. flushing.batch \in Seq(Message)
  BY <1>1, <1>2, BoundedIs
<1>4. Len(buffer) \in Nat /\ Len(flushing.batch) \in Nat
  BY <1>1, <1>3, LenProperties
<1>. QED BY <1>1, <1>2, <1>3, <1>4 DEF over

\* The type invariant of what is counted.
LEMMA NumbersTyped ==
  ASSUME TypeOK
  PROVE  /\ failures \in Nat /\ failures <= MaxFailures /\ drainTimers \in Nat
         /\ MaxMessages \in Nat /\ MaxFailures \in Nat
<1>1. MaxMessages \in Nat /\ MaxFailures \in Nat
  BY PipelineAssumption
<1>2. failures \in 0..MaxFailures /\ drainTimers \in 0..(MaxMessages + MaxFailures)
  BY DEF TypeOK
<1>. QED BY <1>1, <1>2

\* The record of no flush.
LEMMA IdleIs ==
  /\ Idle.batch = <<>> /\ Idle.seen = {} /\ Len(<<>>) = 0 /\ <<>> \in Seq(Message)
  /\ \A n : Numbered(<<>>, n)
  /\ Idle \in [batch : BoundedSeq(Message, maxFlushBatch), seen : SUBSET Topic,
               clusterOnly : BOOLEAN]
<1>1. <<>> \in Seq(Message) /\ Len(<<>>) = 0
  BY EmptySeq
<1>2. <<>> \in BoundedSeq(Message, maxFlushBatch)
  <2>1. maxFlushBatch \in Nat /\ Len(<<>>) <= maxFlushBatch
    BY <1>1, PipelineAssumption
  <2>. QED BY <1>1, <2>1, BoundedIs
<1>. QED BY <1>1, <1>2 DEF Idle, Numbered

\* The type invariant of a topic.
LEMMA EntryTyped ==
  ASSUME TypeOK, ArchivedKeepsItsEnd, NEW t \in Topic
  PROVE  registry[t] \in TopicRecord /\ Kept(registry[t])
BY DEF TypeOK, ArchivedKeepsItsEnd, TopicRecord, Kept

\* Topics that do not exist, are made, or restored.
LEMMA EntryIs ==
  /\ NoTopic \in TopicRecord /\ Kept(NoTopic)
  /\ [NoTopic EXCEPT !.state = "live"] \in TopicRecord
  /\ Kept([NoTopic EXCEPT !.state = "live"])
  /\ \A closed \in BOOLEAN :
       /\ [NoTopic EXCEPT !.state = "live", !.revived = closed] \in TopicRecord
       /\ Kept([NoTopic EXCEPT !.state = "live", !.revived = closed])
<1>1. 0 \in 0..MaxMessages
  BY PipelineAssumption
<1>. QED BY <1>1 DEF NoTopic, State, TopicRecord, Kept

\* As many timers as are counted are not too many.
LEMMA TimersTyped ==
  ASSUME NEW d \in Nat, NEW o \in Int, NEW f \in Nat, NEW a \in Nat,
         MaxMessages \in Nat, MaxFailures \in Nat,
         d <= o + f, o <= a, a <= MaxMessages, f <= MaxFailures
  PROVE  d \in 0..(MaxMessages + MaxFailures)
OBVIOUS

\* What a step has of the buffer b that it works on: the old one, and what has
\* come; nothing is over.
Comes(b) ==
  /\ b \in Seq(Message) /\ Numbered(b, over + Len(flushing.batch))
  /\ arrived' \in 0..MaxMessages /\ over + Len(flushing.batch) + Len(b) = arrived'
  /\ drainTimers' \in Nat /\ drainTimers' <= drainTimers
  /\ closing' \in {"no", "awaited", "over", "cut"}
  /\ UNCHANGED <<disposed, registry, outcome, failures>>

\* The buffer itself, when nothing comes.
LEMMA NothingComes ==
  ASSUME Core, UNCHANGED <<arrived, disposed, registry, outcome, failures>>,
         drainTimers' \in Nat, drainTimers' <= drainTimers,
         closing' \in {"no", "awaited", "over", "cut"}
  PROVE  Comes(buffer)
<1>1. TypeOK /\ InTurn
  BY DEF Core
<1>. QED BY <1>1, BufferTyped DEF Comes, InTurn

\* What is not over, is recorded or dropped does not change when nothing is.
LEMMA OverStays ==
  ASSUME Core, NEW b, Comes(b), over' = over,
         buffer' \in Seq(Message), flushing'.batch \in Seq(Message),
         Numbered(flushing'.batch, over), Numbered(buffer', over + Len(flushing'.batch)),
         flushing' \in [batch : BoundedSeq(Message, maxFlushBatch), seen : SUBSET Topic,
                        clusterOnly : BOOLEAN],
         isEagerMode' \in BOOLEAN, silenceTimer' \in BOOLEAN
  PROVE  TypeOK' /\ InTurn' /\ TimersCounted' /\ NonePublished' /\ ArchivedKeepsItsEnd'
<1>1. TypeOK /\ InTurn /\ TimersCounted /\ NonePublished /\ ArchivedKeepsItsEnd
  BY DEF Core
<1>2. InTurn'
  BY <1>1 DEF InTurn, Comes, outcome
<1>3. drainTimers' <= over' + failures' /\ failures' = failures
  <2>1. drainTimers <= over + failures /\ drainTimers \in Nat /\ failures \in Nat /\ over \in Int
    BY <1>1, NumbersTyped, BufferTyped DEF TimersCounted
  <2>. QED BY <2>1 DEF Comes
<1>4. drainTimers' \in 0..(MaxMessages + MaxFailures)
  <2>1. /\ over' \in Int /\ failures' \in Nat /\ failures' <= MaxFailures
        /\ drainTimers' \in Nat /\ MaxMessages \in Nat /\ MaxFailures \in Nat
    BY <1>1, <1>3, NumbersTyped, BufferTyped DEF Comes
  <2>2. arrived' \in Nat /\ arrived' <= MaxMessages /\ over' <= arrived'
    <3>1. /\ over + Len(flushing.batch) + Len(b) = arrived' /\ arrived' \in 0..MaxMessages
          /\ Len(flushing.batch) \in Nat /\ Len(b) \in Nat /\ over \in Int
      BY <1>1, BufferTyped, LenProperties DEF Comes
    <3>. QED BY <2>1, <3>1
  <2>. QED BY <1>3, <2>1, <2>2, TimersTyped
<1>5. TypeOK'
  BY <1>1, <1>4 DEF TypeOK, Comes, outcome
<1>. QED BY <1>1, <1>2, <1>3, <1>5
     DEF TimersCounted, NonePublished, ArchivedKeepsItsEnd, Comes, outcome

\* A flush takes its batch off the front; the topics it is shown are live.
LEMMA BeginKeeps ==
  ASSUME Core, NEW b, Comes(b), ~isFlushing, b # <<>>, NEW timer \in BOOLEAN,
         NEW clusterOnly \in BOOLEAN, Begin(b, timer, clusterOnly)
  PROVE  Core'
<1>1. TypeOK /\ Len(flushing.batch) = 0 /\ over \in Int
  BY BufferTyped, EmptySeq DEF Core, isFlushing
<1>2. b \in Seq(Message) /\ Numbered(b, over) /\ over + Len(b) = arrived'
  <2>1. over + 0 = over
    BY <1>1
  <2>. QED BY <1>1, <2>1 DEF Comes
<1>3. /\ Take(b) \in Seq(Message) /\ Take(b) \in BoundedSeq(Message, maxFlushBatch)
      /\ Rest(b) \in Seq(Message)
      /\ Len(Take(b)) \in Nat /\ Len(Rest(b)) \in Nat /\ Len(b) \in Nat
      /\ Len(Take(b)) + Len(Rest(b)) = Len(b)
      /\ Numbered(Take(b), over) /\ Numbered(Rest(b), over + Len(Take(b)))
      /\ Take(b) # <<>>
  BY <1>1, <1>2, TakeAndRest
<1>4. /\ flushing'.batch = Take(b) /\ flushing'.seen = getByChat
      /\ flushing'.clusterOnly = clusterOnly /\ buffer' = Rest(b)
      /\ isEagerMode' = FALSE /\ silenceTimer' = timer
      /\ flushing' = [batch |-> Take(b), seen |-> getByChat, clusterOnly |-> clusterOnly]
  BY DEF Begin
<1>5. over' = over
  <2>1. over' = arrived' - Len(flushing'.batch) - Len(buffer')
    BY DEF over
  <2> DEFINE a == arrived'
             x == Len(Take(b))
             y == Len(Rest(b))
             o == over
  <2>2. over' = a - x - y
    BY <1>4, <2>1
  <2>3. a = o + Len(b) /\ x + y = Len(b) /\ x \in Nat /\ y \in Nat /\ o \in Int
        /\ Len(b) \in Nat
    BY <1>1, <1>2, <1>3
  <2> HIDE DEF a, x, y, o
  <2>4. a - x - y = o
    BY <2>3
  <2>. QED BY <2>2, <2>4 DEF o
<1>6. flushing' \in [batch : BoundedSeq(Message, maxFlushBatch), seen : SUBSET Topic,
                     clusterOnly : BOOLEAN]
  BY <1>3, <1>4 DEF getByChat
<1>7. /\ buffer' \in Seq(Message) /\ flushing'.batch \in Seq(Message)
      /\ Numbered(flushing'.batch, over)
      /\ Numbered(buffer', over + Len(flushing'.batch))
      /\ isEagerMode' \in BOOLEAN /\ silenceTimer' \in BOOLEAN
  BY <1>3, <1>4
<1>8. TypeOK' /\ InTurn' /\ TimersCounted' /\ NonePublished' /\ ArchivedKeepsItsEnd'
  BY <1>5, <1>6, <1>7, OverStays
<1>9. ArchivedMeanwhile'
  <2>1. \A t \in flushing'.seen : registry'[t].state = "live"
    BY <1>4 DEF getByChat, Comes
  <2>. QED BY <2>1 DEF ArchivedMeanwhile
<1>10. BacklogIsPolled'
  BY <1>3, <1>4 DEF BacklogIsPolled, isFlushing
<1>. QED BY <1>8, <1>9, <1>10 DEF Core

\* A message, or a timer, leaves the buffer to a later flush, with a timer.
LEMMA KeepKeeps ==
  ASSUME Core, NEW b, Comes(b), NEW eager \in BOOLEAN, NEW timer \in BOOLEAN,
         Keep(b, eager, timer),
         (b # <<>> /\ Len(b) >= minFlushSize /\ ~isFlushing /\ ~disposed) =>
           timer \/ drainTimers' > 0
  PROVE  Core'
<1>1. TypeOK /\ InTurn /\ ArchivedMeanwhile
  BY DEF Core
<1>2. /\ buffer' = b /\ isEagerMode' = eager /\ silenceTimer' = timer
      /\ flushing' = flushing
  BY DEF Keep
<1>3. b \in Seq(Message) /\ Len(b) \in Nat
  BY LenProperties DEF Comes
<1>4. over' = over
  <2>1. over' = arrived' - Len(flushing.batch) - Len(b)
    BY <1>2 DEF over
  <2> DEFINE a == arrived'
             x == Len(flushing.batch)
             y == Len(b)
             o == over
  <2>2. o + x + y = a /\ x \in Nat /\ y \in Nat /\ o \in Int
    BY <1>1, <1>3, BufferTyped DEF Comes
  <2>3. over' = a - x - y
    BY <2>1
  <2> HIDE DEF a, x, y, o
  <2>4. a - x - y = o
    BY <2>2
  <2>. QED BY <2>3, <2>4 DEF o
<1>5. flushing' \in [batch : BoundedSeq(Message, maxFlushBatch), seen : SUBSET Topic,
                     clusterOnly : BOOLEAN]
  BY <1>1, <1>2 DEF TypeOK
<1>6. /\ buffer' \in Seq(Message) /\ flushing'.batch \in Seq(Message)
      /\ Numbered(flushing'.batch, over)
      /\ Numbered(buffer', over + Len(flushing'.batch))
      /\ isEagerMode' \in BOOLEAN /\ silenceTimer' \in BOOLEAN
  BY <1>1, <1>2, <1>3, BufferTyped DEF Comes, InTurn
<1>7. TypeOK' /\ InTurn' /\ TimersCounted' /\ NonePublished' /\ ArchivedKeepsItsEnd'
  BY <1>4, <1>5, <1>6, OverStays
<1>8. ArchivedMeanwhile'
  BY <1>1, <1>2 DEF ArchivedMeanwhile, Comes
<1>9. BacklogIsPolled'
  BY <1>2 DEF BacklogIsPolled, Backlog, isFlushing, Comes
<1>. QED BY <1>7, <1>8, <1>9 DEF Core

\* Nothing begins in the program's last flush, or after it.
LEMMA LastStays ==
  ASSUME LastIsAll, UNCHANGED closing,
         (~isFlushing /\ buffer # <<>>) \/ UNCHANGED <<buffer, flushing>>
  PROVE  LastIsAll'
BY DEF LastIsAll, isFlushing

\* triggerFlush() keeps Core.
LEMMA TriggerKeeps ==
  ASSUME Core, NEW b, Comes(b), NEW timer \in BOOLEAN, triggerFlush(b, timer)
  PROVE  Core'
<1>1. isEagerMode \in BOOLEAN
  BY DEF Core, TypeOK
<1>2. b \in Seq(Message) /\ Len(b) \in Nat /\ minFlushSize \in Nat
  BY LenProperties, PipelineAssumption DEF Comes
<1>3. CASE isFlushing \/ b = <<>>
  BY <1>1, <1>3, KeepKeeps DEF triggerFlush
<1>4. CASE ~(isFlushing \/ b = <<>>) /\ Len(b) < minFlushSize
  <2>1. Keep(b, isEagerMode, TRUE)
    BY <1>4 DEF triggerFlush
  <2>. QED BY <1>1, <2>1, KeepKeeps
<1>5. CASE ~(isFlushing \/ b = <<>>) /\ ~(Len(b) < minFlushSize)
  <2>1. Begin(b, timer, FALSE)
    BY <1>5 DEF triggerFlush
  <2>. QED BY <1>5, <2>1, BeginKeeps
<1>. QED BY <1>3, <1>4, <1>5

-----------------------------------------------------------------------------
(* The steps before the end of a flush                                      *)

\* A message is the newest of all.
LEMMA MessageKeeps ==
  ASSUME IInv, NEW strong \in BOOLEAN, onMessage(strong)
  PROVE  IInv'
<1> DEFINE m == arrived + 1
           b == Append(buffer, m)
<1>1. Core /\ TypeOK /\ InTurn /\ LastIsAll
  BY DEF IInv, Core
<1>2. /\ closing = "no" /\ closing' = "no" /\ arrived < MaxMessages /\ arrived' = m
      /\ UNCHANGED <<drainTimers, disposed, registry, outcome, failures>>
  BY DEF onMessage
<1>a. /\ buffer \in Seq(Message) /\ Len(buffer) \in Nat /\ Len(flushing.batch) \in Nat
      /\ arrived \in Nat /\ over \in Int
      /\ over + Len(flushing.batch) + Len(buffer) = arrived
      /\ MaxMessages \in Nat /\ drainTimers \in Nat
  BY <1>1, BufferTyped, NumbersTyped
<1>3. m \in Message /\ m \in 0..MaxMessages
  BY <1>a, <1>2 DEF Message
<1>4. /\ b \in Seq(Message) /\ Len(b) = Len(buffer) + 1
      /\ \A i \in 1..Len(buffer) : b[i] = buffer[i]
      /\ b[Len(buffer) + 1] = m
  BY <1>a, <1>3
<1>5. over + Len(flushing.batch) + Len(b) = m
  <2> DEFINE o == over
             x == Len(flushing.batch)
             y == Len(buffer)
             a == arrived
  <2>1. o \in Int /\ x \in Nat /\ y \in Nat /\ a \in Nat /\ o + x + y = a
    BY <1>a
  <2>2. Len(b) = y + 1 /\ m = a + 1
    BY <1>4
  <2> HIDE DEF o, x, y, a, b, m
  <2>3. o + x + (y + 1) = a + 1
    BY <2>1
  <2>. QED BY <2>2, <2>3 DEF o, x
<1>6. Numbered(b, over + Len(flushing.batch))
  <2> SUFFICES ASSUME NEW i \in 1..Len(b)
               PROVE  b[i] = over + Len(flushing.batch) + i
    BY DEF Numbered
  <2>1. CASE i = Len(buffer) + 1
    BY <1>4, <1>5, <2>1
  <2>2. CASE i \in 1..Len(buffer)
    BY <1>1, <1>4, <2>2 DEF InTurn, Numbered
  <2>. QED BY <1>a, <1>4, <2>1, <2>2
<1>7. Comes(b)
  <2>1. drainTimers' \in Nat /\ drainTimers' <= drainTimers
    BY <1>a, <1>2
  <2> HIDE DEF b, m
  <2>2. arrived' \in 0..MaxMessages /\ over + Len(flushing.batch) + Len(b) = arrived'
    BY <1>2, <1>3, <1>5
  <2>. QED BY <1>2, <1>4, <1>6, <2>1, <2>2 DEF Comes
<1>8. isEagerMode \/ strong \in BOOLEAN
  BY <1>1 DEF TypeOK
<1>9. Core'
  <2>1. CASE Len(b) >= Threshold
    <3>1. triggerFlush(b, TRUE)
      BY <2>1 DEF onMessage
    <3> HIDE DEF b
    <3>. QED BY <1>1, <1>7, <3>1, TriggerKeeps
  <2>2. CASE ~(Len(b) >= Threshold)
    <3>1. Keep(b, isEagerMode \/ strong, TRUE)
      BY <2>2 DEF onMessage
    <3> HIDE DEF b
    <3>2. (isEagerMode \/ strong) \in BOOLEAN
      BY <1>1 DEF TypeOK
    <3>. QED BY <1>1, <1>7, <3>1, <3>2, KeepKeeps
  <2>. QED BY <2>1, <2>2
<1>10. LastIsAll'
  BY <1>2 DEF LastIsAll
<1>. QED BY <1>9, <1>10 DEF IInv

\* A timer that fires is not missed: it begins a flush, or there are too few
\* messages, or a flush is under way that will set a timer.
LEMMA SilenceKeeps ==
  ASSUME IInv, SilenceFires
  PROVE  IInv'
<1>1. Core /\ TypeOK /\ LastIsAll
  BY DEF IInv, Core
<1>2. /\ triggerFlush(buffer, FALSE)
      /\ UNCHANGED <<arrived, drainTimers, disposed, closing, registry, outcome,
                     failures>>
  BY DEF SilenceFires
<1>3. Comes(buffer)
  <2>1. drainTimers' \in Nat /\ drainTimers' <= drainTimers
    BY <1>1, <1>2, NumbersTyped
  <2>2. closing' \in {"no", "awaited", "over", "cut"}
    BY <1>1, <1>2 DEF TypeOK
  <2>. QED BY <1>1, <1>2, <2>1, <2>2, NothingComes
<1>4. Core'
  BY <1>1, <1>2, <1>3, TriggerKeeps
<1>5. LastIsAll'
  <2>1. (~isFlushing /\ buffer # <<>>) \/ UNCHANGED <<buffer, flushing>>
    BY <1>2 DEF triggerFlush, Keep
  <2>. QED BY <1>1, <1>2, <2>1, LastStays
<1>. QED BY <1>4, <1>5 DEF IInv

\* A flush that is called begins if there is something for it and none is under
\* way.
LEMMA CalledKeeps ==
  ASSUME Core, NEW clusterOnly \in BOOLEAN, Called(clusterOnly), Comes(buffer)
  PROVE  /\ Core'
         /\ (~isFlushing /\ buffer # <<>>) \/ UNCHANGED <<buffer, flushing>>
<1>1. isEagerMode \in BOOLEAN /\ silenceTimer \in BOOLEAN
  BY DEF Core, TypeOK
<1>2. CASE isFlushing \/ buffer = <<>>
  <2>1. Keep(buffer, isEagerMode, silenceTimer)
    BY <1>2 DEF Called, Keep
  <2>2. Core'
    BY <1>1, <1>2, <2>1, KeepKeeps
  <2>. QED BY <2>1, <2>2 DEF Keep
<1>3. CASE ~(isFlushing \/ buffer = <<>>)
  <2>1. Begin(buffer, silenceTimer, clusterOnly)
    BY <1>3 DEF Called
  <2>. QED BY <1>1, <1>3, <2>1, BeginKeeps
<1>. QED BY <1>2, <1>3

\* The drain timer and the callers of flush() keep IInv.
LEMMA FlushesKeep ==
  ASSUME IInv, DrainFires \/ \E clusterOnly \in BOOLEAN : FlushCalled(clusterOnly)
  PROVE  IInv'
<1>1. Core /\ TypeOK /\ LastIsAll
  BY DEF IInv, Core
<1>2. PICK clusterOnly \in BOOLEAN : Called(clusterOnly)
  BY DEF DrainFires, FlushCalled
<1>3. /\ drainTimers' \in Nat /\ drainTimers' <= drainTimers
      /\ UNCHANGED <<arrived, disposed, closing, registry, outcome, failures>>
  <2>1. drainTimers \in Nat
    BY <1>1, NumbersTyped
  <2>2. CASE DrainFires
    BY <2>1, <2>2 DEF DrainFires
  <2>3. CASE \E c \in BOOLEAN : FlushCalled(c)
    BY <2>1, <2>3 DEF FlushCalled
  <2>. QED BY <2>2, <2>3
<1>4. Comes(buffer)
  <2>1. closing' \in {"no", "awaited", "over", "cut"}
    BY <1>1, <1>3 DEF TypeOK
  <2>. QED BY <1>1, <1>3, <2>1, NothingComes
<1>5. Core' /\ ((~isFlushing /\ buffer # <<>>) \/ UNCHANGED <<buffer, flushing>>)
  BY <1>1, <1>2, <1>4, CalledKeeps
<1>. QED BY <1>1, <1>3, <1>5, LastStays DEF IInv

\* The program's last flush takes the whole buffer, or it is known to be cut
\* short.
LEMMA ShutdownKeeps ==
  ASSUME IInv, Shutdown
  PROVE  IInv'
<1>1. Core /\ TypeOK /\ InTurn
  BY DEF IInv, Core
<1>2. /\ Called(FALSE)
      /\ closing' = IF isFlushing \/ Len(buffer) > maxFlushBatch THEN "cut"
                    ELSE IF buffer = <<>> THEN "over" ELSE "awaited"
      /\ UNCHANGED <<arrived, drainTimers, disposed, registry, outcome, failures>>
  BY DEF Shutdown
<1>3. Comes(buffer)
  <2>1. drainTimers' \in Nat /\ drainTimers' <= drainTimers
    BY <1>1, <1>2, NumbersTyped
  <2>2. closing' \in {"no", "awaited", "over", "cut"}
    BY <1>2
  <2>. QED BY <1>1, <1>2, <2>1, <2>2, NothingComes
<1>4. Core'
  BY <1>1, <1>2, <1>3, CalledKeeps
<1>5. LastIsAll'
  <2>1. CASE isFlushing \/ Len(buffer) > maxFlushBatch
    BY <1>2, <2>1 DEF LastIsAll
  <2>2. CASE ~(isFlushing \/ Len(buffer) > maxFlushBatch) /\ buffer = <<>>
    BY <1>2, <2>2 DEF LastIsAll, Called, isFlushing
  <2>3. CASE ~(isFlushing \/ Len(buffer) > maxFlushBatch) /\ buffer # <<>>
    <3>1. closing' = "awaited" /\ Begin(buffer, silenceTimer, FALSE)
      BY <1>2, <2>3 DEF Called
    <3>2. Len(buffer) <= maxFlushBatch
      BY <1>1, <2>3, BufferTyped, PipelineAssumption
    <3>3. Rest(buffer) = <<>> /\ Take(buffer) # <<>>
      <4>1. /\ buffer \in Seq(Message) /\ over + Len(flushing.batch) \in Int
            /\ Numbered(buffer, over + Len(flushing.batch))
        BY <1>1, BufferTyped DEF InTurn
      <4>. QED BY <2>3, <3>2, <4>1, TakeAndRest
    <3>4. buffer' = <<>> /\ flushing'.batch # <<>>
      BY <3>1, <3>3 DEF Begin
    <3>. QED BY <3>1, <3>4 DEF LastIsAll, isFlushing
  <2>. QED BY <2>1, <2>2, <2>3
<1>. QED BY <1>4, <1>5 DEF IInv

\* A pipeline that is disposed of polls no more.
LEMMA DisposeKeeps ==
  ASSUME IInv, dispose
  PROVE  IInv'
<1>1. /\ disposed' = TRUE /\ silenceTimer' = FALSE
      /\ UNCHANGED <<arrived, buffer, isEagerMode, drainTimers, flushing, closing,
                     registry, outcome, failures>>
  BY DEF dispose
<1>2. TypeOK'
  BY <1>1 DEF IInv, Core, TypeOK, outcome
<1>3. /\ InTurn' /\ TimersCounted' /\ NonePublished' /\ ArchivedMeanwhile'
      /\ ArchivedKeepsItsEnd' /\ LastIsAll'
  BY <1>1 DEF IInv, Core, InTurn, over, TimersCounted, NonePublished, outcome,
     ArchivedMeanwhile, ArchivedKeepsItsEnd, LastIsAll, isFlushing
<1>4. BacklogIsPolled'
  BY <1>1 DEF BacklogIsPolled
<1>. QED BY <1>2, <1>3, <1>4 DEF IInv, Core

\* The clean-up archives topics after all that has come.
LEMMA CleanupKeeps ==
  ASSUME IInv, cleanup
  PROVE  IInv'
<1>1. TypeOK /\ InTurn /\ ArchivedMeanwhile /\ ArchivedKeepsItsEnd
  BY DEF IInv, Core
<1>2. PICK next \in [Topic -> State] :
        /\ \A t \in Topic : next[t] \in After(registry[t].state)
        /\ registry' = [t \in Topic |-> Aged(t, next[t])]
  BY DEF cleanup
<1>3. UNCHANGED <<arrived, flow, disposed, closing, outcome, failures>>
  BY DEF cleanup
<1>4. ASSUME NEW t \in Topic
      PROVE  /\ registry'[t] \in TopicRecord /\ Kept(registry'[t])
             /\ registry'[t].state = "ARCHIVED" =>
                  \/ registry'[t] = registry[t]
                  \/ registry'[t].revived
                  \/ registry'[t].ended = arrived
  <2>1. registry[t] \in TopicRecord /\ Kept(registry[t]) /\ arrived \in 0..MaxMessages
    BY <1>1, EntryTyped DEF TypeOK
  <2>2. registry'[t] = Aged(t, next[t]) /\ next[t] \in State
    BY <1>2
  <2>3. NoTopic \in TopicRecord /\ Kept(NoTopic) /\ NoTopic.state = "none"
    BY EntryIs DEF NoTopic
  <2>4. CASE next[t] = registry[t].state
    BY <2>1, <2>2, <2>4 DEF Aged
  <2>5. CASE next[t] # registry[t].state /\ next[t] = "ARCHIVED"
    <3>1. registry'[t] = [registry[t] EXCEPT !.state = "ARCHIVED",
                            !.ended = IF registry[t].revived THEN @ ELSE arrived]
      BY <2>2, <2>5 DEF Aged
    <3>. QED BY <2>1, <3>1 DEF State, TopicRecord, Kept
  <2>6. CASE next[t] # registry[t].state /\ next[t] # "ARCHIVED"
    <3>1. registry'[t] = NoTopic
      BY <2>2, <2>6 DEF Aged
    <3>. QED BY <2>3, <3>1
  <2>. QED BY <2>4, <2>5, <2>6
<1>5. registry' \in [Topic -> TopicRecord]
  BY <1>2, <1>4
<1>6. TypeOK'
  BY <1>1, <1>3, <1>5 DEF TypeOK, flow, outcome, TopicRecord
<1>7. ArchivedKeepsItsEnd'
  BY <1>4 DEF ArchivedKeepsItsEnd, Kept
<1>8. \A i \in 1..Len(flushing.batch) : flushing.batch[i] <= arrived
  <2> SUFFICES ASSUME NEW i \in 1..Len(flushing.batch) PROVE flushing.batch[i] <= arrived
    OBVIOUS
  <2>1. flushing.batch[i] = over + i
    BY <1>1 DEF InTurn, Numbered
  <2> DEFINE o == over
             x == Len(flushing.batch)
             y == Len(buffer)
  <2>2. o \in Int /\ x \in Nat /\ y \in Nat /\ o + x + y = arrived /\ i \in 1..x
    BY <1>1, BufferTyped
  <2> HIDE DEF o, x, y
  <2>3. o + i <= arrived
    BY <2>2
  <2>. QED BY <2>1, <2>3 DEF o
<1>9. ArchivedMeanwhile'
  <2>1. flushing' = flushing /\ flushing.seen \subseteq Topic
    BY <1>1, <1>3, BufferTyped DEF flow
  <2>2. ASSUME NEW t \in flushing.seen, registry'[t].state = "ARCHIVED",
               ~registry'[t].revived, NEW i \in 1..Len(flushing.batch)
        PROVE  flushing.batch[i] <= registry'[t].ended
    <3>1. CASE registry'[t] = registry[t]
      BY <1>1, <2>2, <3>1 DEF ArchivedMeanwhile
    <3>2. CASE registry'[t].ended = arrived
      BY <1>8, <3>2
    <3>. QED BY <1>4, <2>1, <2>2, <3>1, <3>2
  <2>. QED BY <2>1, <2>2 DEF ArchivedMeanwhile
<1>10. /\ InTurn' /\ TimersCounted' /\ NonePublished' /\ LastIsAll' /\ BacklogIsPolled'
  BY <1>3 DEF IInv, Core, InTurn, over, TimersCounted, NonePublished, outcome, flow,
     LastIsAll, isFlushing, BacklogIsPolled, Backlog
<1>. QED BY <1>6, <1>7, <1>9, <1>10 DEF IInv, Core

-----------------------------------------------------------------------------
(* The end of a flush                                                       *)

\* The registry takes the messages of a batch, and no topic that was archived
\* gets a message from after its end: a flush knows of a topic that has been
\* archived only if its own messages came before.
LEMMA RegistryUpdated ==
  ASSUME Core, NEW f \in Clusterings, RoomFor(f)
  PROVE  /\ UpdatedRegistry(f) \in [Topic -> TopicRecord]
         /\ \A t \in Topic : Kept(UpdatedRegistry(f)[t])
<1> DEFINE home == CHOOSE g \in Injection(Unknown(f), Fresh) : TRUE
           joins(t) == {m \in Batch :
                          t = IF f[m] \in Unknown(f) THEN home[f[m]] ELSE f[m]}
           after(t) ==
             IF joins(t) = {} THEN registry[t]
             ELSE IF registry[t].state = "none"
             THEN [NoTopic EXCEPT !.state = "live"]
             ELSE [registry[t] EXCEPT
                     !.late = @ \/ /\ HasEnd(t)
                                   /\ \E m \in joins(t) : m > registry[t].ended]
<1>1. TypeOK /\ ArchivedMeanwhile /\ ArchivedKeepsItsEnd
  BY DEF Core
<1>2. UpdatedRegistry(f) = [t \in Topic |-> after(t)]
  BY DEF UpdatedRegistry
<1>3. /\ Batch = {flushing.batch[i] : i \in 1..Len(flushing.batch)}
      /\ IsFiniteSet(Batch)
  <2>1. /\ DOMAIN flushing.batch = 1..Len(flushing.batch) /\ MaxMessages \in Nat
        /\ \A i \in 1..Len(flushing.batch) : flushing.batch[i] \in Message
    BY <1>1, BufferTyped, NumbersTyped, LenProperties, ElementOfSeq
  <2>2. Batch \in SUBSET (1..MaxMessages)
    BY <2>1 DEF Batch, ToSet, Message
  <2>3. IsFiniteSet(1..MaxMessages)
    BY <2>1, FS_Interval
  <2>4. IsFiniteSet(Batch)
    BY <2>2, <2>3, FS_Subset
  <2>. QED BY <2>1, <2>4 DEF Batch, ToSet
<1>4. home \in Injection(Unknown(f), Fresh)
  <2> DEFINE image == {f[m] : m \in Batch}
  <2>1. f \in Surjection(Batch, image)
    BY DEF Clusterings, Surjection
  <2>2. IsFiniteSet(image)
    BY <1>3, <2>1, FS_Surjection
  <2>3. Unknown(f) \in SUBSET image /\ Fresh \in SUBSET Topic
    BY DEF Unknown, Fresh
  <2>4. IsFiniteSet(Topic)
    BY PipelineAssumption
  <2> HIDE DEF image
  <2>5. IsFiniteSet(Unknown(f)) /\ IsFiniteSet(Fresh)
    BY <2>2, <2>3, <2>4, FS_Subset
  <2>6. Injection(Unknown(f), Fresh) # {}
    BY <2>5, InjectionExists DEF RoomFor
  <2>. QED BY <2>6
<1> HIDE DEF home
<1>5. \A k \in Unknown(f) : home[k] \in Fresh
  BY <1>4 DEF Injection
<1>6. ASSUME NEW t \in Topic, registry[t].state = "ARCHIVED", ~registry[t].revived,
             NEW m \in joins(t)
      PROVE  m <= registry[t].ended
  <2>1. PICK i \in 1..Len(flushing.batch) : m = flushing.batch[i]
    BY <1>3, <1>6
  <2>2. m \in Batch /\ t = (IF f[m] \in Unknown(f) THEN home[f[m]] ELSE f[m])
    BY <1>6
  <2>3. f[m] \notin Unknown(f)
    <3>1. ASSUME f[m] \in Unknown(f) PROVE registry[t].state = "none"
      BY <1>5, <2>2, <3>1 DEF Fresh
    <3>. QED BY <1>6, <3>1
  <2>4. f[m] = t /\ f[m] # New
    BY <2>2, <2>3 DEF Unknown
  <2>5. t \in flushing.seen
    BY <2>2, <2>4 DEF Clusterings
  <2>. QED BY <1>1, <1>6, <2>1, <2>5 DEF ArchivedMeanwhile
<1>7. ASSUME NEW t \in Topic PROVE after(t) \in TopicRecord /\ Kept(after(t))
  <2>1. registry[t] \in TopicRecord /\ Kept(registry[t])
    BY <1>1, EntryTyped
  <2>2. CASE joins(t) = {}
    BY <2>1, <2>2
  <2>3. CASE joins(t) # {} /\ registry[t].state = "none"
    <3>1. after(t) = [NoTopic EXCEPT !.state = "live"]
      BY <2>3
    <3> HIDE DEF after
    <3>. QED BY <3>1, EntryIs
  <2>4. CASE joins(t) # {} /\ registry[t].state # "none"
    <3> DEFINE newer == /\ HasEnd(t)
                        /\ \E m \in joins(t) : m > registry[t].ended
    <3>1. after(t) = [registry[t] EXCEPT !.late = @ \/ newer]
      BY <2>4
    <3>2. newer => registry[t].revived
      <4>1. ASSUME registry[t].state = "ARCHIVED", ~registry[t].revived,
                   NEW m \in joins(t), m > registry[t].ended
            PROVE  FALSE
        <5>1. m <= registry[t].ended
          BY <1>6, <4>1
        <5>2. registry[t].ended \in Nat /\ m \in Nat
          <6>1. m \in Message
            BY <1>1, <1>3, BufferTyped, ElementOfSeq
          <6>. QED BY <2>1, <6>1 DEF Message, TopicRecord
        <5>. QED BY <4>1, <5>1, <5>2
      <4>. QED BY <4>1 DEF HasEnd
    <3>3. newer \in BOOLEAN
      OBVIOUS
    <3> HIDE DEF newer, after
    <3>. QED BY <2>1, <3>1, <3>2, <3>3 DEF TopicRecord, Kept
  <2>. QED BY <2>2, <2>3, <2>4
<1> HIDE DEF after
<1>. QED BY <1>2, <1>7

\* The end of a flush, however it ends: b is left in the buffer, n messages are
\* over with it.
LEMMA SettleKeeps ==
  ASSUME IInv, isFlushing, NEW hadError \in BOOLEAN, NEW b \in Seq(Message),
         NEW n \in Int, n >= over, Numbered(b, n), n + Len(b) = arrived,
         Settle(hadError, b), ~hadError => b = buffer /\ n > over,
         UNCHANGED published,
         done' \cup dropped' = 1..n, done' \cap dropped' = {},
         registry' \in [Topic -> TopicRecord], \A t \in Topic : Kept(registry'[t]),
         failures' \in 0..MaxFailures,
         failures' = failures + (IF hadError THEN 1 ELSE 0)
  PROVE  IInv'
<1>1. TypeOK /\ InTurn /\ TimersCounted /\ NonePublished /\ LastIsAll
  BY DEF IInv, Core
<1>2. /\ buffer' = b /\ flushing' = Idle
      /\ drainTimers' = (IF ~disposed /\ Rearm(hadError, b) THEN drainTimers + 1
                         ELSE drainTimers)
      /\ closing' = (IF closing # "awaited" THEN closing
                     ELSE IF hadError THEN "cut" ELSE "over")
      /\ UNCHANGED <<arrived, isEagerMode, silenceTimer, disposed>>
  BY DEF Settle
<1>3. /\ Len(b) \in Nat /\ arrived \in Nat /\ arrived <= MaxMessages /\ over \in Int
      /\ over >= 0 /\ failures \in Nat /\ drainTimers \in Nat
      /\ MaxMessages \in Nat /\ MaxFailures \in Nat /\ n \in Nat /\ n <= arrived
  <2>1. /\ Len(b) \in Nat /\ arrived \in 0..MaxMessages /\ over \in Int /\ over >= 0
        /\ failures \in Nat /\ drainTimers \in Nat /\ MaxMessages \in Nat
        /\ MaxFailures \in Nat
    BY <1>1, BufferTyped, NumbersTyped, LenProperties DEF InTurn
  <2>. QED BY <2>1
<1>4. over' = n /\ Len(flushing'.batch) = 0
  <2>1. Len(flushing'.batch) = 0
    BY <1>2, IdleIs
  <2>2. over' = arrived - 0 - Len(b)
    BY <1>2, <2>1 DEF over
  <2>3. arrived - 0 - Len(b) = n
    BY <1>3
  <2>. QED BY <2>1, <2>2, <2>3
<1>5. InTurn'
  <2>1. Numbered(flushing'.batch, n) /\ Numbered(buffer', n + 0)
    BY <1>2, <1>3, IdleIs
  <2>. QED BY <1>3, <1>4, <2>1 DEF InTurn
<1>6. drainTimers' <= over' + failures' /\ drainTimers' \in Nat /\ failures' \in Nat
  <2>1. drainTimers <= over + failures
    BY <1>1 DEF TimersCounted
  <2>2. drainTimers' <= drainTimers + 1 /\ drainTimers' \in Nat
    BY <1>2, <1>3
  <2>3. CASE hadError
    <3>1. failures' = failures + 1
      BY <2>3
    <3>. QED BY <1>3, <1>4, <2>1, <2>2, <3>1
  <2>4. CASE ~hadError
    <3>1. failures' = failures /\ n >= over + 1
      BY <1>3, <2>4
    <3>. QED BY <1>3, <1>4, <2>1, <2>2, <3>1
  <2>. QED BY <2>3, <2>4
<1>7. TypeOK'
  <2>1. drainTimers' \in 0..(MaxMessages + MaxFailures)
    <3>1. over' \in Int /\ over' <= arrived /\ failures' <= MaxFailures
      BY <1>3, <1>4
    <3>. QED BY <1>3, <1>6, <3>1, TimersTyped
  <2>2. done' \subseteq Message /\ dropped' \subseteq Message
    <3>1. 1..n \subseteq Message
      BY <1>3 DEF Message
    <3>. QED BY <3>1
  <2>3. /\ flushing' \in [batch : BoundedSeq(Message, maxFlushBatch),
                          seen : SUBSET Topic, clusterOnly : BOOLEAN]
        /\ closing' \in {"no", "awaited", "over", "cut"}
    BY <1>1, <1>2, IdleIs DEF TypeOK
  <2>. QED BY <1>1, <1>2, <2>1, <2>2, <2>3 DEF TypeOK, TopicRecord
<1>8. TimersCounted' /\ NonePublished' /\ ArchivedKeepsItsEnd' /\ ArchivedMeanwhile'
  BY <1>1, <1>2, <1>6, IdleIs
     DEF TimersCounted, NonePublished, ArchivedKeepsItsEnd, ArchivedMeanwhile, Kept
<1>9. BacklogIsPolled'
  <2>1. ASSUME b # <<>>, Len(b) >= minFlushSize, ~disposed PROVE drainTimers' > 0
    <3>1. Rearm(hadError, b)
      BY <2>1 DEF Rearm
    <3>. QED BY <1>2, <1>3, <2>1, <3>1
  <2>. QED BY <1>2, <2>1 DEF BacklogIsPolled, Backlog
<1>10. LastIsAll'
  <2>1. flushing'.batch = <<>>
    BY <1>2, IdleIs
  <2>2. closing # "over"
    BY <1>1 DEF LastIsAll
  <2>3. closing = "awaited" => buffer = <<>>
    BY <1>1 DEF LastIsAll
  <2>4. closing' # "awaited" /\ (closing' = "over" => closing = "awaited" /\ ~hadError)
    BY <1>2, <2>2
  <2>5. closing' = "over" => buffer' = <<>>
    BY <1>2, <2>3, <2>4
  <2>. QED BY <2>1, <2>4, <2>5 DEF LastIsAll, isFlushing
<1>. QED BY <1>5, <1>7, <1>8, <1>9, <1>10 DEF IInv, Core

\* What is flushed is a range, too.
LEMMA BatchIs ==
  ASSUME TypeOK, InTurn
  PROVE  Batch = (over + 1)..(over + Len(flushing.batch))
BY BufferTyped, SetOfNumbered DEF InTurn, Batch

\* A batch that is recorded is over.
LEMMA SuccessKeeps ==
  ASSUME IInv, FlushSucceeds
  PROVE  IInv'
<1> DEFINE x == Len(flushing.batch)
           n == over + x
<1>1. Core /\ TypeOK /\ InTurn /\ NonePublished
  BY DEF IInv, Core
<1>2. /\ isFlushing /\ done' = done \cup Batch /\ Settle(FALSE, buffer)
      /\ published' = published \ Batch /\ UNCHANGED <<dropped, failures>>
  BY DEF FlushSucceeds
<1>3. /\ x \in Nat /\ x >= 1 /\ over \in Int /\ over >= 0 /\ buffer \in Seq(Message)
      /\ over + x + Len(buffer) = arrived /\ Len(buffer) \in Nat
  <2>1. flushing.batch # <<>> /\ flushing.batch \in Seq(Message)
    BY <1>1, <1>2, BufferTyped DEF isFlushing
  <2>2. x \in Nat /\ x >= 1
    BY <2>1, EmptySeq
  <2>. QED BY <1>1, <2>2, BufferTyped DEF InTurn
<1>4. PICK f \in Clusterings : RoomFor(f) /\ registry' = UpdatedRegistry(f)
  BY DEF FlushSucceeds
<1>5. registry' \in [Topic -> TopicRecord] /\ \A t \in Topic : Kept(registry'[t])
  BY <1>1, <1>4, RegistryUpdated
<1>6. done' \cup dropped' = 1..n /\ done' \cap dropped' = {}
  <2>1. Batch = (over + 1)..n
    BY <1>1, BatchIs
  <2>2. done \cup dropped = 1..over /\ done \cap dropped = {}
    BY <1>1 DEF InTurn
  <2> DEFINE o == over
  <2>3. o \in Int /\ o >= 0
    BY <1>3
  <2> HIDE DEF o, x
  <2>4. /\ (1..o) \cup ((o + 1)..(o + x)) = 1..(o + x)
        /\ (1..o) \cap ((o + 1)..(o + x)) = {}
    BY <1>3, <2>3
  <2>. QED BY <1>2, <2>1, <2>2, <2>4 DEF o
<1>7. Numbered(buffer, n)
  BY <1>1 DEF InTurn
<1>8. published' = published
  BY <1>1, <1>2 DEF NonePublished
<1>9. failures' \in 0..MaxFailures /\ failures' = failures + 0
  BY <1>1, <1>2, NumbersTyped
<1>10. n \in Int /\ n >= over /\ n > over /\ n + Len(buffer) = arrived
  BY <1>3
<1> HIDE DEF n, x
<1>. QED BY <1>2, <1>3, <1>5, <1>6, <1>7, <1>8, <1>9, <1>10, SettleKeeps

\* A batch that fails is put back, unless the cap drops the oldest messages.
LEMMA FailureKeeps ==
  ASSUME IInv, FlushFails
  PROVE  IInv'
<1> DEFINE back == PutBack(flushing.batch, buffer)
           b == Capped(back)
           k == Len(back) - Len(b)
           n == over + k
<1>1. Core /\ TypeOK /\ InTurn /\ NonePublished
  BY DEF IInv, Core
<1>2. /\ isFlushing /\ failures < MaxFailures /\ failures' = failures + 1
      /\ Settle(TRUE, b) /\ dropped' = dropped \cup (ToSet(back) \ ToSet(b))
      /\ UNCHANGED done
  BY DEF FlushFails
<1>3. /\ flushing.batch \in Seq(Message) /\ buffer \in Seq(Message) /\ over \in Int
      /\ over >= 0 /\ over + Len(flushing.batch) + Len(buffer) = arrived
      /\ Numbered(flushing.batch, over) /\ Numbered(buffer, over + Len(flushing.batch))
  BY <1>1, BufferTyped DEF InTurn
<1>4. /\ back \in Seq(Message) /\ Len(back) \in Nat /\ Numbered(back, over)
      /\ over + Len(back) = arrived
  <2>1. /\ back \in Seq(Message) /\ Len(back) = Len(flushing.batch) + Len(buffer)
        /\ Len(flushing.batch) \in Nat /\ Len(buffer) \in Nat /\ Numbered(back, over)
    BY <1>3, PutBackIsNumbered DEF PutBack
  <2> HIDE DEF back
  <2>. QED BY <1>3, <2>1
<1> HIDE DEF back
<1>5. /\ b \in Seq(Message) /\ Len(b) \in Nat /\ Len(b) <= Len(back) /\ Numbered(b, n)
  BY <1>3, <1>4, CappedIs
<1> HIDE DEF b
<1>6. k \in Nat /\ n \in Int /\ n >= over /\ n + Len(b) = arrived
  BY <1>3, <1>4, <1>5
<1>7. done' \cup dropped' = 1..n /\ done' \cap dropped' = {}
  <2>1. ToSet(back) = (over + 1)..(over + Len(back)) /\ ToSet(b) = (n + 1)..(n + Len(b))
    BY <1>3, <1>4, <1>5, <1>6, SetOfNumbered
  <2>2. done \cup dropped = 1..over /\ done \cap dropped = {}
    BY <1>1 DEF InTurn
  <2> DEFINE o == over
             a == arrived
  <2>3. /\ o \in Int /\ o >= 0 /\ o + Len(back) = a /\ n + Len(b) = a
        /\ n \in Int /\ n >= o /\ n <= a
    BY <1>3, <1>4, <1>5, <1>6
  <2> HIDE DEF o, a, n
  <2>4. ToSet(back) = (o + 1)..a /\ ToSet(b) = (n + 1)..a
    BY <2>1, <2>3 DEF o
  <2>5. ((o + 1)..a) \ ((n + 1)..a) = (o + 1)..n
    BY <2>3
  <2>6. /\ (1..o) \cup ((o + 1)..n) = 1..n
        /\ (1..o) \cap ((o + 1)..n) = {}
    BY <2>3
  <2>7. done \cup dropped = 1..o
    BY <2>2 DEF o
  <2>. QED BY <1>2, <2>2, <2>4, <2>5, <2>6, <2>7
<1>8. PICK j \in 1..Len(Writes), f \in Clusterings :
        LET made == {Writes[i] : i \in 1..(j - 1)} IN
        /\ RoomFor(f)
        /\ registry' \in IF "topics" \in made THEN {UpdatedRegistry(f)} ELSE Partly(f)
        /\ \E ms \in IF "signals" \in made THEN Signalled(f) ELSE {{}} :
             published' = published \cup ms
  BY DEF FlushFails
<1>9. registry' \in [Topic -> TopicRecord] /\ \A t \in Topic : Kept(registry'[t])
  <2>1. /\ UpdatedRegistry(f) \in [Topic -> TopicRecord]
        /\ \A t \in Topic : Kept(UpdatedRegistry(f)[t])
    BY <1>1, <1>8, RegistryUpdated
  <2>2. CASE registry' = UpdatedRegistry(f)
    BY <2>1, <2>2
  <2>3. CASE registry' \in Partly(f)
    <3>1. PICK part \in SUBSET Topic :
            registry' = [t \in Topic |->
              IF t \in part THEN UpdatedRegistry(f)[t] ELSE registry[t]]
      BY <2>3 DEF Partly
    <3>2. \A t \in Topic : registry[t] \in TopicRecord /\ Kept(registry[t])
      BY <1>1, EntryTyped DEF Core
    <3>3. \A t \in Topic : registry'[t] \in TopicRecord /\ Kept(registry'[t])
      BY <2>1, <3>1, <3>2
    <3>. QED BY <3>1, <3>3
  <2>. QED BY <1>8, <2>2, <2>3
<1>10. published' = published
  <2>1. \A i \in 1..(j - 1) : Writes[i] # "signals"
    <3>1. Len(Writes) = 4 /\ j \in 1..4
      BY DEF Writes
    <3>2. \A i \in 1..(j - 1) : i = 1 \/ i = 2 \/ i = 3
      BY <3>1
    <3>. QED BY <3>2 DEF Writes
  <2>2. "signals" \notin {Writes[i] : i \in 1..(j - 1)}
    BY <2>1
  <2>3. \E ms \in {{}} : published' = published \cup ms
    BY <1>8, <2>2
  <2>. QED BY <2>3
<1>11. failures' \in 0..MaxFailures
  BY <1>1, <1>2, NumbersTyped
<1> HIDE DEF n
<1>. QED BY <1>2, <1>5, <1>6, <1>7, <1>9, <1>10, <1>11, SettleKeeps

-----------------------------------------------------------------------------
(* The theorems                                                             *)

\* The initial states satisfy IInv.
LEMMA InitIInv ==
  ASSUME Init
  PROVE  IInv
<1>1. MaxMessages \in Nat /\ MaxFailures \in Nat
  BY PipelineAssumption
<1>2. /\ flushing.batch = <<>> /\ flushing.seen = {} /\ Len(flushing.batch) = 0
      /\ Len(buffer) = 0 /\ ~isFlushing
      /\ \A n : Numbered(flushing.batch, n) /\ Numbered(buffer, n)
  BY IdleIs DEF Init, isFlushing
<1>3. over = 0
  <2>1. arrived = 0 /\ 0 - 0 - 0 = 0
    BY DEF Init
  <2>. QED BY <1>2, <2>1 DEF over
<1>4. registry \in [Topic -> TopicRecord] /\ \A t \in Topic : Kept(registry[t])
  <2>1. PICK restored \in SUBSET Topic, closed \in BOOLEAN :
          registry = [t \in Topic |-> Restored(t \in restored, closed)]
    BY DEF Init
  <2>2. \A t \in Topic : registry[t] \in TopicRecord /\ Kept(registry[t])
    BY <2>1, EntryIs DEF Restored
  <2>. QED BY <2>1, <2>2
<1>6. TypeOK
  <2>1. 0 \in 0..MaxMessages /\ 0 \in 0..MaxFailures /\ 0 \in 0..(MaxMessages + MaxFailures)
    BY <1>1
  <2>. QED BY <1>4, <2>1, IdleIs DEF Init, TypeOK, TopicRecord
<1>7. InTurn /\ TimersCounted
  BY <1>2, <1>3 DEF Init, InTurn, TimersCounted
<1>8. /\ BacklogIsPolled /\ NonePublished /\ ArchivedMeanwhile /\ ArchivedKeepsItsEnd
      /\ LastIsAll
  BY <1>2, <1>4 DEF Init, BacklogIsPolled, Backlog, NonePublished, ArchivedMeanwhile,
     ArchivedKeepsItsEnd, LastIsAll, Kept
<1>. QED BY <1>6, <1>7, <1>8 DEF IInv, Core

\* A new process starts as the first one did, with what it restores.
LEMMA RestartKeeps ==
  ASSUME IInv, Restart
  PROVE  IInv'
<1>1. MaxMessages \in Nat /\ MaxFailures \in Nat
  BY PipelineAssumption
<1>2. /\ arrived' = 0 /\ buffer' = <<>> /\ flushing' = Idle
      /\ isEagerMode' = FALSE /\ silenceTimer' = FALSE /\ drainTimers' = 0
      /\ disposed' = FALSE /\ closing' = "no"
      /\ done' = {} /\ dropped' = {} /\ published' = {} /\ failures' = 0
  BY DEF Restart
<1>3. /\ flushing'.batch = <<>> /\ flushing'.seen = {} /\ Len(flushing'.batch) = 0
      /\ Len(buffer') = 0 /\ ~isFlushing'
      /\ \A n : Numbered(flushing'.batch, n) /\ Numbered(buffer', n)
  BY <1>2, IdleIs DEF isFlushing
<1>4. over' = 0
  <2>1. arrived' = 0 /\ 0 - 0 - 0 = 0
    BY <1>2
  <2>. QED BY <1>3, <2>1 DEF over
<1>5. registry' \in [Topic -> TopicRecord] /\ \A t \in Topic : Kept(registry'[t])
  <2>1. PICK restored \in SUBSET Topic :
          registry' = [t \in Topic |-> Restored(t \in restored, HasEnd(t))]
    BY DEF Restart
  <2>2. \A t \in Topic : HasEnd(t) \in BOOLEAN
    BY EntryTyped DEF IInv, Core, HasEnd, TopicRecord
  <2>3. \A t \in Topic : registry'[t] \in TopicRecord /\ Kept(registry'[t])
    BY <2>1, <2>2, EntryIs DEF Restored
  <2>. QED BY <2>1, <2>3
<1>6. TypeOK'
  <2>1. 0 \in 0..MaxMessages /\ 0 \in 0..MaxFailures /\ 0 \in 0..(MaxMessages + MaxFailures)
    BY <1>1
  <2>. QED BY <1>2, <1>5, <2>1, IdleIs DEF TypeOK, TopicRecord
<1>7. InTurn' /\ TimersCounted'
  BY <1>2, <1>3, <1>4 DEF InTurn, TimersCounted
<1>8. /\ BacklogIsPolled' /\ NonePublished' /\ ArchivedMeanwhile' /\ ArchivedKeepsItsEnd'
      /\ LastIsAll'
  BY <1>2, <1>3, <1>5 DEF BacklogIsPolled, Backlog, NonePublished, ArchivedMeanwhile,
     ArchivedKeepsItsEnd, LastIsAll, Kept
<1>. QED BY <1>6, <1>7, <1>8 DEF IInv, Core

\* Each step keeps it.
LEMMA NextIInv ==
  ASSUME IInv, [Next]_vars
  PROVE  IInv'
<1>1. ASSUME NEW strong \in BOOLEAN, onMessage(strong) PROVE IInv'
  BY <1>1, MessageKeeps
<1>2. CASE DrainFires \/ \E clusterOnly \in BOOLEAN : FlushCalled(clusterOnly)
  BY <1>2, FlushesKeep
<1>3. CASE SilenceFires
  BY <1>3, SilenceKeeps
<1>4. CASE FlushSucceeds
  BY <1>4, SuccessKeeps
<1>5. CASE FlushFails
  BY <1>5, FailureKeeps
<1>6. CASE cleanup
  BY <1>6, CleanupKeeps
<1>7. CASE Shutdown
  BY <1>7, ShutdownKeeps
<1>8. CASE dispose
  BY <1>8, DisposeKeeps
<1>9. CASE Restart
  BY <1>9, RestartKeeps
<1>10. CASE UNCHANGED vars
  BY <1>10 DEF vars, flow, outcome, IInv, Core, TypeOK, InTurn, over, TimersCounted,
     BacklogIsPolled, Backlog, NonePublished, ArchivedMeanwhile, ArchivedKeepsItsEnd,
     LastIsAll, isFlushing
<1>. QED BY <1>1, <1>2, <1>3, <1>4, <1>5, <1>6, <1>7, <1>8, <1>9, <1>10 DEF Next

\* IInv is invariant.
THEOREM Invariance == Spec => []IInv
<1>. QED BY InitIInv, NextIInv, PTL DEF Spec

\* What is numbered is in one place and in order, and older messages are over.
LEMMA NumberedIsAccountedFor ==
  ASSUME IInv
  PROVE  NothingLost /\ InArrivalOrder /\ DropsOldest
<1> DEFINE o == over
           l == Len(Waiting)
<1>1. TypeOK /\ InTurn
  BY DEF IInv, Core
<1>2. /\ Waiting \in Seq(Message) /\ Numbered(Waiting, o) /\ l \in Nat
      /\ o \in Int /\ o >= 0 /\ o + l = arrived
  <2>1. /\ flushing.batch \in Seq(Message) /\ buffer \in Seq(Message) /\ over \in Int
        /\ over >= 0 /\ over + Len(flushing.batch) + Len(buffer) = arrived
        /\ Len(flushing.batch) \in Nat /\ Len(buffer) \in Nat
        /\ Numbered(flushing.batch, over) /\ Numbered(buffer, over + Len(flushing.batch))
    BY <1>1, BufferTyped DEF InTurn
  <2>2. /\ Waiting \in Seq(Message) /\ Numbered(Waiting, over)
        /\ Len(Waiting) = Len(flushing.batch) + Len(buffer)
    BY <2>1, PutBackIsNumbered DEF Waiting
  <2>. QED BY <2>1, <2>2
<1>3. done \cup dropped = 1..o /\ done \cap dropped = {}
  BY <1>1 DEF InTurn
<1> HIDE DEF o
<1>4. ToSet(Waiting) = (o + 1)..(o + l) /\ DOMAIN Waiting = 1..l
  BY <1>2, SetOfNumbered, LenProperties
<1>5. \A i \in 1..l : Waiting[i] = o + i
  BY <1>2 DEF Numbered
<1> HIDE DEF l
<1>6. NothingLost
  <2>1. 1..arrived = ((o + 1)..(o + l)) \cup (1..o) /\ ((o + 1)..(o + l)) \cap (1..o) = {}
    BY <1>2
  <2>. QED BY <1>3, <1>4, <2>1 DEF NothingLost
<1>7. InArrivalOrder
  BY <1>2, <1>4, <1>5 DEF InArrivalOrder
<1>8. DropsOldest
  <2>1. \A d \in 1..o, m \in (o + 1)..(o + l) : d < m
    BY <1>2
  <2>. QED BY <1>3, <1>4, <2>1 DEF DropsOldest
<1>. QED BY <1>6, <1>7, <1>8

\* Messages are all accounted for, each in one place and in order, whatever
\* fails, fires or is called while a flush waits; what the cap drops is the
\* oldest, and the last flush of the program leaves none behind.
THEOREM NoMessageIsLost == Spec => []MessagesAccountedFor
<1>1. IInv => MessagesAccountedFor
  <2> SUFFICES ASSUME IInv PROVE MessagesAccountedFor
    OBVIOUS
  <2>1. TypeOK /\ BacklogIsPolled /\ SignalledOnce
    BY DEF IInv, Core, NonePublished, SignalledOnce
  <2>2. LastFlushRecords
    <3>1. closing = "over" => flushing.batch = <<>> /\ buffer = <<>>
      BY DEF IInv, LastIsAll, isFlushing
    <3>2. <<>> \o <<>> = <<>>
      BY IdleIs, ConcatEmptySeq
    <3>. QED BY <3>1, <3>2 DEF LastFlushRecords, Waiting
  <2>. QED BY <2>1, <2>2, NumberedIsAccountedFor DEF MessagesAccountedFor
<1>. QED BY <1>1, Invariance, PTL

\* A topic that a process has archived gets no message from after its end as long
\* as this process lasts, although the clean-up archives topics while a flush that
\* was shown them waits; only one that a restart has brought back does.
THEOREM ArchivedTopicsStayClosed == Spec => []ArchivedKeepsItsEnd
<1>1. IInv => ArchivedKeepsItsEnd
  BY DEF IInv, Core
<1>. QED BY <1>1, Invariance, PTL
===============================================================================
