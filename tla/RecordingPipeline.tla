--------------------------- MODULE RecordingPipeline ---------------------------
(***************************************************************************)
(* The recording of one chat (pipeline/recording-pipeline.ts) and its      *)
(* registry of topics (pipeline/topic-registry.ts): messages are buffered, *)
(* and flushed in batches when there are enough of them, when the chat     *)
(* falls silent, or when somebody asks.                                    *)
(*                                                                         *)
(* A flush takes its batch and the list of topics, waits (enrichment,      *)
(* clustering and triage change nothing in between, so their awaits are    *)
(* one), and then records the batch in one step, which may fail at any of  *)
(* its writes.  Messages, the registry's clean-up and timers come in while *)
(* it waits.  Messages are numbered as they arrive.  What triage decides   *)
(* is left out, but for which topics it signals.                           *)
(*                                                                         *)
(* The process may end at any point.  The buffer dies with it; of the      *)
(* topics, the next one restores those of the last six hours from the      *)
(* memory, as live ones, the archived ones among them.                     *)
(***************************************************************************)
EXTENDS Naturals, Sequences, SequencesExt, FiniteSets, FiniteSetsExt

CONSTANTS
  MaxMessages,      \* bound on the messages of a process
  MaxFailures,      \* bound on the flushes that fail in it
  Topic,            \* topics that may be made
  normalThreshold, eagerThreshold, minFlushSize, maxFlushBatch, maxBufferSize

ASSUME PipelineAssumption ==
  /\ {MaxMessages, MaxFailures, normalThreshold, eagerThreshold,
      minFlushSize, maxFlushBatch, maxBufferSize} \subseteq Nat
  /\ maxFlushBatch > 0 /\ maxBufferSize > 0
  /\ IsFiniteSet(Topic)

VARIABLES
  arrived,       \* messages so far, in this process
  buffer,
  isEagerMode,
  silenceTimer,  \* the silence timer is set
  drainTimers,   \* drain timers that have been set and have not fired
  flushing,      \* the flush under way, if its batch is not empty
  disposed,
  closing,       \* the program's last flush: not called, awaited, over, or cut
                 \* short
  registry,      \* the topics; the rest is history: ended, when this process
                 \* archived it; revived, it was restored although the memory
                 \* has an end for it; late, it got a message from after its end
  done,          \* messages that a flush has recorded to its end
  dropped,       \* messages that the cap on the buffer has dropped
  published,     \* history: messages still to be recorded whose signal is out
  failures       \* bounded

flow == <<buffer, isEagerMode, silenceTimer, drainTimers, flushing>>
outcome == <<done, dropped, published>>
vars == <<arrived, flow, disposed, closing, registry, outcome, failures>>

Message == 1..MaxMessages
\* ACTIVE and STALE topics are offered to the clustering alike and differ in the
\* time until they are archived: both are "live".
State == {"none", "live", "ARCHIVED"}
NoTopic == [state |-> "none", ended |-> 0, revived |-> FALSE, late |-> FALSE]
Idle == [batch |-> <<>>, seen |-> {}, clusterOnly |-> FALSE]
Waiting == flushing.batch \o buffer
isFlushing == flushing.batch # <<>>

\* A topic that is restored or not, and has an end in the memory or not.
Restored(back, closed) ==
  IF back THEN [NoTopic EXCEPT !.state = "live", !.revived = closed] ELSE NoTopic
HasEnd(t) == registry[t].state = "ARCHIVED" \/ registry[t].revived

\* Topics of an earlier run of the program have been restored.
Init ==
  /\ arrived = 0
  /\ buffer = <<>>
  /\ isEagerMode = FALSE
  /\ silenceTimer = FALSE
  /\ drainTimers = 0
  /\ flushing = Idle
  /\ disposed = FALSE
  /\ closing = "no"
  /\ \E restored \in SUBSET Topic, closed \in BOOLEAN :
       /\ Cardinality(restored) <= 1
       /\ registry = [t \in Topic |-> Restored(t \in restored, closed)]
  /\ done = {} /\ dropped = {} /\ published = {}
  /\ failures = 0

-----------------------------------------------------------------------------
(* The buffer and its timers                                                *)

\* Fault: archived topics are offered too.
AllByChat == {t \in Topic : registry[t].state # "none"}
getByChat == {t \in Topic : registry[t].state = "live"}

\* Fault: the whole buffer is taken.
TakeAll(b) == b
Take(b) == SubSeq(b, 1, Min({maxFlushBatch, Len(b)}))

\* Fault: the last message of a full batch stays in the buffer.
RestOverlaps(b) == SubSeq(b, maxFlushBatch, Len(b))
Rest(b) == SubSeq(b, maxFlushBatch + 1, Len(b))

\* flush(), with b in the buffer and a timer or not, when no flush is under way.
Begin(b, timer, clusterOnly) ==
  /\ flushing' = [batch |-> Take(b), seen |-> getByChat,
                  clusterOnly |-> clusterOnly]
  /\ buffer' = Rest(b)
  /\ isEagerMode' = FALSE
  /\ silenceTimer' = timer

Keep(b, eager, timer) ==
  /\ buffer' = b
  /\ isEagerMode' = eager
  /\ silenceTimer' = timer
  /\ UNCHANGED flushing

\* triggerFlush(): with too few messages the silence timer is set again.
triggerFlush(b, timer) ==
  IF isFlushing \/ b = <<>> THEN Keep(b, isEagerMode, timer)
  ELSE IF Len(b) < minFlushSize THEN Keep(b, isEagerMode, TRUE)
  ELSE Begin(b, timer, FALSE)

Threshold == IF isEagerMode THEN eagerThreshold ELSE normalThreshold

\* A message, with a strong signal or not.
onMessage(strong) ==
  LET m == arrived + 1
      b == Append(buffer, m)
  IN
  /\ ~disposed /\ closing = "no"
  /\ arrived < MaxMessages
  /\ arrived' = m
  /\ IF Len(b) >= Threshold
     THEN triggerFlush(b, TRUE)
     ELSE Keep(b, isEagerMode \/ strong, TRUE)
  /\ UNCHANGED <<drainTimers, disposed, closing, registry, outcome, failures>>

SilenceFires ==
  /\ silenceTimer
  /\ triggerFlush(buffer, FALSE)
  /\ UNCHANGED <<arrived, drainTimers, disposed, closing, registry, outcome, failures>>

Called(clusterOnly) ==
  IF isFlushing \/ buffer = <<>>
  THEN UNCHANGED <<buffer, isEagerMode, silenceTimer, flushing>>
  ELSE Begin(buffer, silenceTimer, clusterOnly)

\* The drain timer is not cleared by anything, dispose() included.
DrainFires ==
  /\ drainTimers > 0
  /\ drainTimers' = drainTimers - 1
  /\ Called(FALSE)
  /\ UNCHANGED <<arrived, disposed, closing, registry, outcome, failures>>

\* The dashboard, the main loop (clustering only), or the callback of a task a
\* minute later.
FlushCalled(clusterOnly) ==
  /\ ~disposed /\ ~isFlushing /\ buffer # <<>>
  /\ Called(clusterOnly)
  /\ UNCHANGED <<arrived, drainTimers, disposed, closing, registry, outcome, failures>>

-----------------------------------------------------------------------------
(* The end of a flush                                                       *)

Batch == ToSet(flushing.batch)

\* Where the clustering puts a message: a topic it was shown, or a new one.
New == "new"
Clusterings == [Batch -> flushing.seen \cup {New}]

\* A topic that has been removed meanwhile is made anew, as any id is that the
\* registry does not know.
Unknown(f) ==
  {k \in {f[m] : m \in Batch} : k = New \/ registry[k].state = "none"}
Fresh == {t \in Topic \ flushing.seen : registry[t].state = "none"}
RoomFor(f) == Cardinality(Unknown(f)) <= Cardinality(Fresh)

\* The topics after updateRegistry for the clustering f.  An archived topic keeps
\* its end in the memory, and so does one that was restored in spite of it.
UpdatedRegistry(f) ==
  LET home == CHOOSE g \in Injection(Unknown(f), Fresh) : TRUE
      joins(t) == {m \in Batch :
                     t = IF f[m] \in Unknown(f) THEN home[f[m]] ELSE f[m]}
  IN
  [t \in Topic |->
     IF joins(t) = {} THEN registry[t]
     ELSE IF registry[t].state = "none"
     THEN [NoTopic EXCEPT !.state = "live"]
     ELSE [registry[t] EXCEPT
             !.late = @ \/ /\ HasEnd(t)
                           /\ \E m \in joins(t) : m > registry[t].ended]]

\* Fault: the signals are published before the profiles are written.
SignalsEarly == <<"topics", "log", "signals", "profiles">>
\* What a flush does with its batch, in order; each may fail.
Writes == <<"topics", "log", "profiles", "signals">>

\* Messages of topics that triage wants signalled.
Signalled(f) ==
  IF flushing.clusterOnly THEN {{}}
  ELSE {{m \in Batch : f[m] \in ks} : ks \in SUBSET {f[m] : m \in Batch}}

\* Fault: the newest messages are dropped.
CappedNewest(b) ==
  IF Len(b) > maxBufferSize THEN SubSeq(b, 1, maxBufferSize) ELSE b
Capped(b) ==
  IF Len(b) > maxBufferSize
  THEN SubSeq(b, Len(b) - maxBufferSize + 1, Len(b)) ELSE b

\* Fault: what could not be recorded goes behind the newer messages.
PutLast(batch, b) == b \o batch
\* Fault: what could not be recorded is not kept.
PutNowhere(batch, b) == b
PutBack(batch, b) == batch \o b

\* Fault: after a failure the rest waits for the next message.
RearmOnSuccess(hadError, b) == b # <<>> /\ ~hadError
\* Fault: a batch that was cut off is left to the silence timer.
RearmBacklog(hadError, b) == Len(b) >= minFlushSize /\ hadError
Rearm(hadError, b) ==
  IF hadError THEN b # <<>> /\ Len(b) >= minFlushSize ELSE b # <<>>

\* The finally block: b is the buffer.
Settle(hadError, b) ==
  /\ buffer' = b
  /\ flushing' = Idle
  /\ drainTimers' =
       IF ~disposed /\ Rearm(hadError, b) THEN drainTimers + 1 ELSE drainTimers
  /\ closing' = IF closing # "awaited" THEN closing
                ELSE IF hadError THEN "cut" ELSE "over"
  /\ UNCHANGED <<arrived, isEagerMode, silenceTimer, disposed>>

FlushSucceeds ==
  /\ isFlushing
  /\ \E f \in Clusterings :
       /\ RoomFor(f)
       /\ registry' = UpdatedRegistry(f)
  /\ done' = done \cup Batch
  /\ published' = published \ Batch
  /\ Settle(FALSE, buffer)
  /\ UNCHANGED <<dropped, failures>>

\* The registry when the update of it is cut short: some of the topics have
\* their messages.
Partly(f) ==
  {[t \in Topic |-> IF t \in part THEN UpdatedRegistry(f)[t] ELSE registry[t]] :
     part \in SUBSET Topic}

\* The flush fails in enrichment, before the first write, or in the n-th.
FlushFails ==
  LET back == PutBack(flushing.batch, buffer) IN
  /\ isFlushing
  /\ failures < MaxFailures
  /\ failures' = failures + 1
  /\ \E n \in 1..Len(Writes), f \in Clusterings :
       LET made == {Writes[i] : i \in 1..(n - 1)} IN
       /\ RoomFor(f)
       /\ registry' \in IF "topics" \in made THEN {UpdatedRegistry(f)} ELSE Partly(f)
       /\ \E ms \in IF "signals" \in made THEN Signalled(f) ELSE {{}} :
            published' = published \cup ms
  /\ Settle(TRUE, Capped(back))
  /\ dropped' = dropped \cup (ToSet(back) \ ToSet(Capped(back)))
  /\ UNCHANGED done

-----------------------------------------------------------------------------
(* The registry's clean-up and the end                                      *)

\* The states cleanup() may leave a topic in, by the time since its last
\* activity.
After(st) ==
  CASE st = "live" -> {"live", "ARCHIVED", "none"}
    [] st = "ARCHIVED" -> {"ARCHIVED", "none"}
    [] st = "none" -> {"none"}

\* An archived topic gets its end in the memory, unless it has one already.
Aged(t, st) ==
  IF st = registry[t].state THEN registry[t]
  ELSE IF st = "ARCHIVED"
  THEN [registry[t] EXCEPT !.state = st,
                           !.ended = IF registry[t].revived THEN @ ELSE arrived]
  ELSE NoTopic

cleanup ==
  /\ ~disposed /\ closing = "no"
  /\ \E next \in [Topic -> State] :
       /\ \A t \in Topic : next[t] \in After(registry[t].state)
       /\ \E t \in Topic : next[t] # registry[t].state
       \* bound: a flush under way will find a topic
       /\ \E t \in Topic :
            \/ next[t] = "live"
            \/ next[t] = "none" /\ t \notin flushing.seen
       /\ registry' = [t \in Topic |-> Aged(t, next[t])]
  /\ UNCHANGED <<arrived, flow, disposed, closing, outcome, failures>>

\* The program ends: platforms are stopped, and the buffer is flushed once.
Shutdown ==
  /\ ~disposed /\ closing = "no"
  /\ Called(FALSE)
  /\ closing' = IF isFlushing \/ Len(buffer) > maxFlushBatch THEN "cut"
                ELSE IF buffer = <<>> THEN "over" ELSE "awaited"
  /\ UNCHANGED <<arrived, drainTimers, disposed, registry, outcome, failures>>

\* The conversation is removed, or the program has made its last flush, or has
\* waited long enough for it.
dispose ==
  /\ ~disposed
  /\ disposed' = TRUE
  /\ silenceTimer' = FALSE
  /\ UNCHANGED <<arrived, buffer, isEagerMode, drainTimers, flushing, closing,
                registry, outcome, failures>>

\* The process ends, in whatever state, and another one starts: what waited is
\* lost to the recording, and messages are counted anew.  A topic is restored if
\* it began in the last six hours and the chat's session was saved; it comes back
\* live, whether or not the memory has its end.  (A process that ends between two
\* writes of a flush: the flush fails, first.)
Restart ==
  /\ arrived' = 0 /\ buffer' = <<>> /\ flushing' = Idle
  /\ isEagerMode' = FALSE /\ silenceTimer' = FALSE /\ drainTimers' = 0
  /\ disposed' = FALSE /\ closing' = "no"
  /\ \E restored \in SUBSET {t \in Topic : registry[t].state # "none"} :
       registry' = [t \in Topic |-> Restored(t \in restored, HasEnd(t))]
  /\ done' = {} /\ dropped' = {} /\ published' = {}
  /\ failures' = 0

Next ==
  \/ \E strong \in BOOLEAN : onMessage(strong)
  \/ \E clusterOnly \in BOOLEAN : FlushCalled(clusterOnly)
  \/ SilenceFires \/ DrainFires
  \/ FlushSucceeds \/ FlushFails
  \/ cleanup \/ Shutdown \/ dispose
  \/ Restart

\* Timers fire, and a flush ends: each of its calls has a time-out.
Fairness ==
  /\ WF_vars(SilenceFires)
  /\ WF_vars(DrainFires)
  /\ WF_vars(FlushSucceeds \/ FlushFails)

Spec == Init /\ [][Next]_vars /\ Fairness
-----------------------------------------------------------------------------
TypeOK ==
  /\ arrived \in 0..MaxMessages
  /\ buffer \in Seq(Message)
  /\ isEagerMode \in BOOLEAN /\ silenceTimer \in BOOLEAN
  /\ drainTimers \in 0..(MaxMessages + MaxFailures)
  /\ flushing \in [batch : BoundedSeq(Message, maxFlushBatch),
                   seen : SUBSET Topic, clusterOnly : BOOLEAN]
  /\ disposed \in BOOLEAN
  /\ closing \in {"no", "awaited", "over", "cut"}
  /\ registry \in [Topic -> [state : State, ended : 0..MaxMessages,
                              revived : BOOLEAN, late : BOOLEAN]]
  /\ done \subseteq Message /\ dropped \subseteq Message
  /\ published \subseteq Message
  /\ failures \in 0..MaxFailures

\* The messages of the batch and the buffer, and what a failed flush puts back,
\* stay in the order in which they came, each once (recording-pipeline.ts:236,
\* 417): a topic's context and its newest message are read off the order.
InArrivalOrder ==
  \A i, j \in DOMAIN Waiting : i < j => Waiting[i] < Waiting[j]

\* Every message of a process is in one place: waiting, recorded by a flush to its
\* end, or dropped by the cap; no failure, timer or order of flushes loses one, or
\* has two flushes record it to their end (recording-pipeline.ts:212, 231, 417).
NothingLost ==
  /\ 1..arrived = ToSet(Waiting) \cup done \cup dropped
  /\ ToSet(Waiting) \cap done = {}
  /\ (ToSet(Waiting) \cup done) \cap dropped = {}

\* What the cap drops is older than all that waits (recording-pipeline.ts:422).
DropsOldest == \A d \in dropped, m \in ToSet(Waiting) : d < m

\* Enough messages for a flush.
Backlog == buffer # <<>> /\ Len(buffer) >= minFlushSize

\* Enough messages for a flush never lie in the buffer without a timer that
\* will look at them: the silence timer may fire for nothing while a flush is
\* under way (recording-pipeline.ts:212, 445).
BacklogIsPolled ==
  (Backlog /\ ~isFlushing /\ ~disposed) => silenceTimer \/ drainTimers > 0

\* The batch of a failed flush is tried again as a whole, so its messages must
\* not have been published in a signal already: they would be signalled twice
\* (recording-pipeline.ts:362, 417).
SignalledOnce == published \cap ToSet(Waiting) = {}

\* The flush that the end of the program waits for leaves nothing behind, unless
\* it fails, another one was under way, or there was more than a batch
\* (main.ts:1800-1808; recording-pipeline.ts:231, 236).
LastFlushRecords == closing = "over" => Waiting = <<>>

\* A topic that has been archived, and so has its end in the memory, gets no
\* message from after that end in the process that archived it, although a flush
\* may add to a topic that was archived while it waited (recording-pipeline.ts:250,
\* 1111): only one that a later process has brought back does.
ArchivedKeepsItsEnd == \A t \in Topic : registry[t].late => registry[t].revived

\* A buffer with enough messages for a flush is worked off, whatever has failed
\* before, unless the pipeline is disposed of.
BacklogDrains == Backlog ~> ~Backlog \/ disposed

\* The messages are all accounted for, each in one place and in order, with a
\* timer for those that are enough for a flush; none that waits has been
\* published already, and the end of the program leaves none behind.
MessagesAccountedFor ==
  TypeOK /\ NothingLost /\ InArrivalOrder /\ DropsOldest /\ BacklogIsPolled
         /\ SignalledOnce /\ LastFlushRecords
=============================================================================
