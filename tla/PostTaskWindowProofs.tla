-------------------------- MODULE PostTaskWindowProofs --------------------------
(***************************************************************************)
(* Theorems about PostTaskWindow, for every set of messages and tasks.     *)
(***************************************************************************)
EXTENDS PostTaskWindow, TLAPS

\* The messages a continuation or the buffer has brought to the executor.
Carried == drained \cup UNION {brief[t] : t \in DOMAIN brief}

\* What a window holds, with A the messages that arrived, D those that address
\* the agent, and C those that were carried to the executor.  A batch the
\* classifier is looking at holds no undelivered mention: that is what keeps
\* its answer from judging one away.
InOrder(w, A, D, C) ==
  /\ w \in Window
  /\ w.messages \subseteq A /\ w.triaged \subseteq A /\ w.judging \subseteq A
  /\ w.judging \cap D \subseteq w.delivered
  /\ w.messages \cap D \cap w.triaged \subseteq w.delivered
  /\ w.delivered \subseteq C

\* Something will look at the messages that nobody has looked at.
Scheduled(w) ==
  Untriaged(w) # {} => w.followUpTimer \/ w.judging # {} \/ w.expired

Good(w, A, D, C) == InOrder(w, A, D, C) /\ Scheduled(w)

Typed ==
  /\ Executor!TypeOK
  /\ arrived \subseteq Message /\ direct \subseteq arrived
  /\ pendingMessages \subseteq arrived
  /\ \A t \in DOMAIN brief : brief[t] \subseteq Message

IInv ==
  /\ Typed
  /\ BlockedOnlyInWindow
  /\ window # NoWindow => Good(window, arrived, direct, Carried)

-----------------------------------------------------------------------------
(* What the operations do to a window                                       *)

\* A window that was just opened is in order.
LEMMA OpenedIsGood ==
  ASSUME NEW cbs \in Seq(Task), NEW A, NEW D, NEW C
  PROVE  Good(Opened(cbs), A, D, C)
BY DEF Good, InOrder, Scheduled, Untriaged, Opened, Window

\* Carrying more messages does no harm.
LEMMA CarriedMayGrow ==
  ASSUME NEW w, NEW A, NEW D, NEW C, NEW B, C \subseteq B
  PROVE  /\ InOrder(w, A, D, C) => InOrder(w, A, D, B)
         /\ Good(w, A, D, C) => Good(w, A, D, B)
BY DEF Good, InOrder

\* Nor does the arrival of a new message, whether it addresses the agent or not.
LEMMA ArrivalKeeps ==
  ASSUME NEW w, NEW A, NEW D, NEW C, Good(w, A, D, C), NEW m, m \notin A
  PROVE  Good(w, A \cup {m}, D, C) /\ Good(w, A \cup {m}, D \cup {m}, C)
BY DEF Good, InOrder

\* Recording a message schedules a check, or the window has expired.
LEMMA RecordedIsGood ==
  ASSUME NEW w, NEW A, NEW D, NEW C, InOrder(w, A, D, C), NEW m \in A \cap Message,
         m \notin w.triaged, m \notin w.judging
  PROVE  Good(CheckScheduled([w EXCEPT !.messages = @ \cup {m}]), A, D, C)
BY DEF Good, InOrder, Scheduled, Untriaged, CheckScheduled, Window

\* Messages may be marked as delivered once they are carried.
LEMMA DeliveredIsGood ==
  ASSUME NEW w, NEW A, NEW D, NEW C, InOrder(w, A, D, C), NEW S \in SUBSET Message,
         S \subseteq A, S \subseteq C
  PROVE  /\ InOrder(Delivered(w, S), A, D, C)
         /\ Scheduled(w) => Scheduled(Delivered(w, S))
BY DEF InOrder, Scheduled, Untriaged, Delivered, Window

\* A window in order is scheduled again before a check is left.
LEMMA RescheduledIsGood ==
  ASSUME NEW w, NEW A, NEW D, NEW C, InOrder(w, A, D, C)
  PROVE  /\ Good(Rescheduled(w), A, D, C)
         /\ Good(CheckScheduled(w), A, D, C)
<1>1. Good(CheckScheduled(w), A, D, C)
  BY DEF Good, InOrder, Scheduled, Untriaged, CheckScheduled, Window
<1>2. Untriaged(w) = {} => Good(w, A, D, C)
  BY DEF Good, Scheduled
<1>. QED BY <1>1, <1>2 DEF Rescheduled

-----------------------------------------------------------------------------
(* What handing over a task does                                            *)

\* The loop's head keeps the executor's types.
LEMMA TakeNextTyped ==
  ASSUME NEW q \in Seq(Task), halting \in BOOLEAN, Executor!TakeNext(q)
  PROVE  waiting' \in Seq(Task) /\ serving' \in Task \cup {Idle} /\ halting' \in BOOLEAN
<1>1. CASE q = <<>> \/ halting
  <2>1. serving' = Idle /\ waiting' = <<>> /\ halting' = FALSE
    BY <1>1 DEF Executor!TakeNext
  <2>2. waiting' \in Seq(Task) /\ serving' \in Task \cup {Idle}
    BY <2>1
  <2>3. halting' \in BOOLEAN
    BY <2>1
  <2>. QED BY <2>2, <2>3
<1>2. CASE ~(q = <<>> \/ halting)
  <2>1. serving' = Head(q) /\ waiting' = Tail(q) /\ halting' = halting
    BY <1>2 DEF Executor!TakeNext
  <2>2. Head(q) \in Task /\ Tail(q) \in Seq(Task)
    BY <1>2
  <2>3. halting' \in BOOLEAN
    BY <2>1
  <2>. QED BY <2>1, <2>2, <2>3
<1>. QED BY <1>1, <1>2

\* Handing over a task carries its messages.
LEMMA EnqueueCarries ==
  ASSUME Typed, NEW t \in Task, NEW S \in SUBSET Message, NEW stored,
         Enqueue(t, S, stored), drained' = drained
  PROVE  /\ Carried' = Carried \cup S
         /\ Executor!TypeOK'
         /\ \A u \in DOMAIN brief' : brief'[u] \subseteq Message
<1>1. /\ t \notin DOMAIN brief
      /\ brief' = [u \in DOMAIN brief \cup {t} |-> IF u = t THEN S ELSE brief[u]]
      /\ Executor!Submit(t)
  BY DEF Enqueue, Fresh, Briefed
<1>2. /\ DOMAIN brief' = DOMAIN brief \cup {t}
      /\ brief'[t] = S
      /\ \A u \in DOMAIN brief : brief'[u] = brief[u]
  BY <1>1
<1>3. Carried' = Carried \cup S
  BY <1>2 DEF Carried
<1>4. Executor!TypeOK'
  <2>1. Append(waiting, t) \in Seq(Task)
    BY DEF Typed, Executor!TypeOK
  <2>2. CASE Executor!TakeNext(Append(waiting, t)) /\ UNCHANGED answered
    BY <2>1, <2>2, TakeNextTyped DEF Typed, Executor!TypeOK
  <2>3. CASE waiting' = Append(waiting, t) /\ UNCHANGED <<serving, halting, answered>>
    BY <2>1, <2>3 DEF Typed, Executor!TypeOK
  <2>. QED BY <1>1, <2>2, <2>3 DEF Executor!Submit
<1>. QED BY <1>2, <1>3, <1>4 DEF Typed

\* The end of a run keeps the executor's types.
LEMMA AnswerTyped ==
  ASSUME Typed, Executor!Answer
  PROVE  Executor!TypeOK' /\ serving \in Task
<1>1. serving \in Task
  BY DEF Executor!Answer, Typed, Executor!TypeOK
<1>2. answered' \subseteq Task
  BY <1>1 DEF Executor!Answer, Typed, Executor!TypeOK
<1>3. waiting \in Seq(Task) /\ halting \in BOOLEAN
  BY DEF Typed, Executor!TypeOK
<1>4. Executor!TakeNext(waiting)
  BY DEF Executor!Answer
<1>5. waiting' \in Seq(Task) /\ serving' \in Task \cup {Idle} /\ halting' \in BOOLEAN
  BY <1>3, <1>4, TakeNextTyped
<1>. QED BY <1>1, <1>2, <1>5 DEF Executor!TypeOK

\* Forwarding leaves a window in order: what is marked as delivered is in the
\* brief of the task handed over.
LEMMA ForwardKeeps ==
  ASSUME Typed, NEW A \in SUBSET Message, NEW D, NEW w, InOrder(w, A, D, Carried),
         drained' = drained, NEW m \in A, NEW t \in Task, NEW stored,
         Forward(w, m, t, stored)
  PROVE  /\ InOrder(AfterForward(w, m), A, D, Carried')
         /\ Scheduled(w) => Scheduled(AfterForward(w, m))
         /\ Executor!TypeOK'
         /\ \A u \in DOMAIN brief' : brief'[u] \subseteq Message
<1> DEFINE S == Forwarded(w, m)
<1>1. S \subseteq A /\ S \in SUBSET Message
  BY DEF Forwarded, InOrder, Typed
<1>2. CASE HasExecutor
  <2>1. Enqueue(t, S, stored)
    BY <1>2 DEF Forward
  <2> HIDE DEF S
  <2>2. /\ Carried' = Carried \cup S
        /\ Executor!TypeOK'
        /\ \A u \in DOMAIN brief' : brief'[u] \subseteq Message
    BY <1>1, <2>1, EnqueueCarries
  <2>3. InOrder(w, A, D, Carried')
    BY <2>2, CarriedMayGrow
  <2>4. /\ InOrder(Delivered(w, S), A, D, Carried')
        /\ Scheduled(w) => Scheduled(Delivered(w, S))
    BY <1>1, <2>2, <2>3, DeliveredIsGood
  <2>. QED BY <1>2, <2>2, <2>4 DEF AfterForward, S
<1>3. CASE ~HasExecutor
  <2>1. UNCHANGED <<executor, run, brief>> /\ AfterForward(w, m) = w
    BY <1>3 DEF Forward, AfterForward
  <2>2. Carried' = Carried
    BY <2>1 DEF Carried
  <2>3. Executor!TypeOK'
    BY <2>1 DEF executor, Typed, Executor!TypeOK
  <2>. QED BY <2>1, <2>2, <2>3 DEF Typed
<1>. QED BY <1>2, <1>3

-----------------------------------------------------------------------------
(* The invariant                                                            *)

\* A step that leaves the executor, its briefs and the messages alone.
Quiet == UNCHANGED <<executor, brief, arrived, direct, drained>>

\* Such a step keeps the types and what was carried.
LEMMA QuietKeeps ==
  ASSUME Typed, Quiet, pendingMessages' \subseteq arrived
  PROVE  Typed' /\ Carried' = Carried /\ arrived' = arrived /\ direct' = direct
<1>1. Executor!TypeOK'
  BY DEF Quiet, executor, Typed, Executor!TypeOK
<1>. QED BY <1>1 DEF Quiet, Typed, Carried

\* Before the first message the invariant holds.
LEMMA InitIInv == Init => IInv
<1> SUFFICES ASSUME Init PROVE IInv
  OBVIOUS
<1>1. Executor!TypeOK
  <2>1. waiting = <<>> /\ serving = Idle /\ answered = {} /\ halting = FALSE
    BY DEF Init, Executor!Init
  <2>2. waiting \in Seq(Task)
    BY <2>1
  <2>. QED BY <2>1, <2>2 DEF Executor!TypeOK
<1>2. DOMAIN brief = {}
  BY DEF Init
<1>. QED BY <1>1, <1>2 DEF Init, IInv, Typed, BlockedOnlyInWindow

\* Opening a window, or extending one, keeps it.
LEMMA SendKeeps ==
  ASSUME IInv, NEW own \in BOOLEAN, SendMessage(own)
  PROVE  IInv'
<1>1. Typed' /\ Carried' = Carried /\ arrived' = arrived /\ direct' = direct
  BY QuietKeeps DEF SendMessage, history, Quiet, IInv, Typed
<1>2. CASE window = NoWindow
  <2>1. window' = Opened(<<>>)
    BY <1>2 DEF SendMessage
  <2>2. Good(window', arrived, direct, Carried)
    <3>1. <<>> \in Seq(Task)
      OBVIOUS
    <3>. QED BY <2>1, <3>1, OpenedIsGood
  <2>3. window' # NoWindow
    BY <2>2, Markers DEF Good, InOrder
  <2>. QED BY <1>1, <2>2, <2>3 DEF IInv, BlockedOnlyInWindow
<1>3. CASE window # NoWindow
  <2>1. window' = FlushScheduled(window) /\ Good(window, arrived, direct, Carried)
    BY <1>3 DEF SendMessage, IInv
  <2>2. Good(window', arrived, direct, Carried)
    BY <2>1 DEF Good, InOrder, Scheduled, Untriaged, FlushScheduled, Window
  <2>3. window' # NoWindow
    BY <2>2, Markers DEF Good, InOrder
  <2>. QED BY <1>1, <2>2, <2>3 DEF IInv, BlockedOnlyInWindow
<1>. QED BY <1>2, <1>3

\* A message is recorded in the open window, whatever else becomes of it.
LEMMA ArrivalIsRecorded ==
  ASSUME IInv, NEW m \in Message, NEW E \in {direct, direct \cup {m}}, m \notin arrived,
         window # NoWindow
  PROVE  Good(Recorded(m), arrived \cup {m}, E, Carried)
<1>1. Good(window, arrived \cup {m}, E, Carried)
  <2>1. Good(window, arrived, direct, Carried)
    BY DEF IInv
  <2>2. /\ Good(window, arrived \cup {m}, direct, Carried)
        /\ Good(window, arrived \cup {m}, direct \cup {m}, Carried)
    BY <2>1, ArrivalKeeps
  <2>3. CASE E = direct
    BY <2>2, <2>3
  <2>4. CASE E = direct \cup {m}
    BY <2>2, <2>4
  <2>. QED BY <2>3, <2>4
<1>2. m \notin window.triaged /\ m \notin window.judging
  BY DEF IInv, Good, InOrder
<1>. QED BY <1>1, <1>2, RecordedIsGood DEF Good, Recorded

\* Any arrival keeps it.
LEMMA ArrivalKeepsIInv ==
  ASSUME IInv, NEW m \in Message,
         ChatMessage(m) \/ MentionWhileProcessing(m)
           \/ \E t \in Task : MentionWhileIdle(m, t)
  PROVE  IInv'
<1>1. /\ m \notin arrived /\ arrived' = arrived \cup {m} /\ drained' = drained
      /\ direct' \in {direct, direct \cup {m}}
  BY DEF ChatMessage, MentionWhileProcessing, MentionWhileIdle, Arrived
<1>2. blocked' = blocked
  BY DEF ChatMessage, MentionWhileProcessing, MentionWhileIdle, Ingest, attention
<1>3. arrived' \subseteq Message /\ direct' \subseteq arrived'
  BY <1>1 DEF IInv, Typed
<1>4. CASE ChatMessage(m) \/ MentionWhileProcessing(m)
  <2>1. /\ window' = Recorded(m) /\ UNCHANGED <<executor, brief>>
        /\ pendingMessages' \subseteq arrived'
    BY <1>1, <1>4 DEF ChatMessage, MentionWhileProcessing, IInv, Typed
  <2>2. Typed' /\ Carried' = Carried
    <3>1. Executor!TypeOK'
      BY <2>1 DEF executor, IInv, Typed, Executor!TypeOK
    <3>. QED BY <1>1, <1>3, <2>1, <3>1 DEF IInv, Typed, Carried
  <2>3. window = NoWindow => window' = NoWindow
    BY <2>1 DEF Recorded
  <2>4. window # NoWindow => Good(window', arrived', direct', Carried')
    BY <1>1, <2>1, <2>2, ArrivalIsRecorded
  <2>5. window # NoWindow => window' # NoWindow
    BY <2>4, Markers DEF Good, InOrder
  <2>. QED BY <1>2, <2>2, <2>3, <2>4, <2>5 DEF IInv, BlockedOnlyInWindow
<1>5. ASSUME NEW t \in Task, MentionWhileIdle(m, t)
      PROVE  IInv'
  <2>1. pendingMessages' \subseteq arrived'
    BY <1>1, <1>5 DEF MentionWhileIdle, IInv, Typed
  <2>2. CASE window = NoWindow
    <3>1. window' = NoWindow /\ UNCHANGED <<executor, brief>>
      BY <1>5, <2>2 DEF MentionWhileIdle
    <3>2. Executor!TypeOK'
      BY <3>1 DEF executor, IInv, Typed, Executor!TypeOK
    <3>3. Typed'
      BY <1>3, <2>1, <3>1, <3>2 DEF IInv, Typed
    <3>. QED BY <1>2, <2>2, <3>1, <3>3 DEF IInv, BlockedOnlyInWindow
  <2>3. CASE window # NoWindow
    <3> DEFINE w == Recorded(m)
    <3>1. window' = AfterForward(w, m) /\ Forward(w, m, t, arrived')
      BY <1>5, <2>3 DEF MentionWhileIdle
    <3>2. Good(w, arrived', direct', Carried)
      BY <1>1, <2>3, ArrivalIsRecorded
    <3> HIDE DEF w
    <3>3. /\ Good(window', arrived', direct', Carried')
          /\ Executor!TypeOK'
          /\ \A u \in DOMAIN brief' : brief'[u] \subseteq Message
      BY <1>1, <1>3, <3>1, <3>2, ForwardKeeps DEF IInv, Good
    <3>4. window' # NoWindow
      BY <3>3, Markers DEF Good, InOrder
    <3>. QED
      BY <1>3, <2>1, <3>3, <3>4 DEF IInv, Typed, BlockedOnlyInWindow
  <2>. QED BY <2>2, <2>3
<1>. QED BY <1>4, <1>5

\* So does a task that carries no message.
LEMMA DispatchKeeps ==
  ASSUME IInv, NEW t \in Task, Dispatch(t)
  PROVE  IInv'
<1>1. /\ Enqueue(t, {}, arrived)
      /\ UNCHANGED <<window, blocked, pendingMessages, arrived, direct, drained>>
  BY DEF Dispatch, attention, history
<1>2. /\ Carried' = Carried \cup {}
      /\ Executor!TypeOK'
      /\ \A u \in DOMAIN brief' : brief'[u] \subseteq Message
  BY <1>1, EnqueueCarries DEF IInv
<1>3. Typed' /\ Carried' = Carried
  BY <1>1, <1>2 DEF IInv, Typed
<1>. QED BY <1>1, <1>3 DEF IInv, BlockedOnlyInWindow

\* So does every stage of a run: the drained buffer counts as carried.
LEMMA RunStepKeeps ==
  ASSUME IInv, RunStep
  PROVE  IInv'
<1>1. CASE BeginSession \/ EndRun
  <2>1. /\ UNCHANGED <<window, blocked>> /\ Quiet
        /\ pendingMessages' \subseteq arrived
    BY <1>1 DEF BeginSession, EndRun, attention, history, Quiet, IInv, Typed
  <2>2. Typed' /\ Carried' = Carried /\ arrived' = arrived /\ direct' = direct
    BY <2>1, QuietKeeps DEF IInv
  <2>. QED BY <2>1, <2>2 DEF IInv, BlockedOnlyInWindow
<1>2. CASE Drain
  <2>1. /\ UNCHANGED <<blocked, executor, brief, arrived, direct>>
        /\ pendingMessages' = {} /\ drained' = drained \cup pendingMessages
        /\ window' = MarkedInjected(window, pendingMessages)
    BY <1>2 DEF Drain, attention
  <2>2. Executor!TypeOK'
    BY <2>1 DEF executor, IInv, Typed, Executor!TypeOK
  <2>3. Typed' /\ Carried' = Carried \cup pendingMessages
    BY <2>1, <2>2 DEF IInv, Typed, Carried
  <2>4. CASE window = NoWindow
    BY <2>1, <2>3, <2>4 DEF MarkedInjected, IInv, BlockedOnlyInWindow
  <2>5. CASE window # NoWindow
    <3>1. window' = Delivered(window, pendingMessages)
      BY <2>1, <2>5 DEF MarkedInjected, Delivered
    <3>2. Good(window, arrived, direct, Carried')
      BY <2>3, <2>5, CarriedMayGrow DEF IInv
    <3>3. Good(window', arrived, direct, Carried')
      <4>1. pendingMessages \in SUBSET Message /\ pendingMessages \subseteq arrived
        BY DEF IInv, Typed
      <4>. QED BY <2>3, <3>1, <3>2, <4>1, DeliveredIsGood DEF Good
    <3>4. window' # NoWindow
      BY <3>3, Markers DEF Good, InOrder
    <3>. QED BY <2>1, <2>3, <3>3, <3>4 DEF IInv, BlockedOnlyInWindow
  <2>. QED BY <2>4, <2>5
<1>3. CASE HandleCallback
  <2>1. /\ UNCHANGED <<brief, arrived, direct, drained, pendingMessages>>
        /\ Executor!Answer
    BY <1>3 DEF HandleCallback, history
  <2>2. Executor!TypeOK' /\ serving \in Task
    BY <2>1, AnswerTyped DEF IInv
  <2>3. Typed' /\ Carried' = Carried
    BY <2>1, <2>2 DEF IInv, Typed, Carried
  <2>4. CASE window # NoWindow
    <3>1. /\ window' = [window EXCEPT !.callbacks = Append(@, serving)]
          /\ blocked' = blocked
      BY <1>3, <2>4 DEF HandleCallback, attention
    <3>2. Good(window, arrived, direct, Carried)
      BY <2>4 DEF IInv
    <3>3. Append(window.callbacks, serving) \in Seq(Task)
      BY <2>2, <3>2 DEF Good, InOrder, Window
    <3>4. Good(window', arrived, direct, Carried)
      BY <3>1, <3>2, <3>3 DEF Good, InOrder, Scheduled, Untriaged, Window
    <3>5. window' # NoWindow
      BY <3>4, Markers DEF Good, InOrder
    <3>. QED BY <2>1, <2>3, <3>1, <3>4, <3>5 DEF IInv, BlockedOnlyInWindow
  <2>5. CASE window = NoWindow /\ run.sent
    <3>1. window' = Opened(<<serving>>)
      BY <1>3, <2>5 DEF HandleCallback
    <3>2. <<serving>> \in Seq(Task)
      BY <2>2
    <3>3. Good(window', arrived, direct, Carried)
      BY <3>1, <3>2, OpenedIsGood
    <3>4. window' # NoWindow
      BY <3>3, Markers DEF Good, InOrder
    <3>. QED BY <2>1, <2>3, <3>3, <3>4 DEF IInv, BlockedOnlyInWindow
  <2>6. CASE window = NoWindow /\ ~run.sent
    <3>1. window' = window /\ blocked' = FALSE
      BY <1>3, <2>6 DEF HandleCallback
    <3>. QED BY <2>1, <2>3, <2>6, <3>1 DEF IInv, BlockedOnlyInWindow
  <2>. QED BY <2>4, <2>5, <2>6
<1>. QED BY <1>1, <1>2, <1>3 DEF RunStep

\* So does a cancel, which touches no window.
LEMMA CancelKeeps ==
  ASSUME IInv, Cancel
  PROVE  IInv'
<1>1. /\ UNCHANGED <<window, brief, arrived, direct, drained>>
      /\ pendingMessages' \subseteq arrived
      /\ blocked' => blocked
  BY DEF Cancel, CancelRun, CancelReturns, attention, history, IInv, Typed
<1>2. Executor!TypeOK'
  <2>1. UNCHANGED executor \/ Executor!Cancel
    BY DEF Cancel, CancelRun, CancelReturns
  <2>2. CASE UNCHANGED executor
    BY <2>2 DEF executor, IInv, Typed, Executor!TypeOK
  <2>3. CASE Executor!Cancel
    <3>1. <<>> \in Seq(Task)
      OBVIOUS
    <3>. QED BY <2>3, <3>1 DEF Executor!Cancel, IInv, Typed, Executor!TypeOK
  <2>. QED BY <2>1, <2>2, <2>3
<1>3. Typed' /\ Carried' = Carried
  BY <1>1, <1>2 DEF IInv, Typed, Carried
<1>. QED BY <1>1, <1>3 DEF IInv, BlockedOnlyInWindow

\* What the classifier has judged holds no undelivered mention.
LEMMA JudgedIsInOrder ==
  ASSUME IInv, window # NoWindow
  PROVE  InOrder(Judged, arrived, direct, Carried)
<1>1. InOrder(window, arrived, direct, Carried)
  BY DEF IInv, Good
<1>. QED BY <1>1 DEF InOrder, Judged, Window

\* A check keeps it: the batch it starts holds no undelivered mention.
LEMMA CheckKeeps ==
  ASSUME IInv, NEW t \in Task, CheckFollowUpBatch(t)
  PROVE  IInv'
<1> DEFINE w == [window EXCEPT !.followUpTimer = FALSE]
<1>1. window # NoWindow /\ InOrder(window, arrived, direct, Carried)
  BY DEF CheckFollowUpBatch, IInv, Good
<1>2. InOrder(w, arrived, direct, Carried)
  BY <1>1 DEF InOrder, Window
<1>3. UNCHANGED <<blocked, pendingMessages, arrived, direct, drained>>
  BY DEF CheckFollowUpBatch, attention, history
<1>4. ASSUME window' = CheckPostponed(w), UNCHANGED <<executor, run, brief>>
      PROVE  IInv'
  <2>1. Good(window', arrived, direct, Carried)
    BY <1>2, <1>4, RescheduledIsGood DEF CheckPostponed
  <2>2. Typed' /\ Carried' = Carried
    BY <1>3, <1>4, QuietKeeps DEF Quiet, IInv, Typed
  <2>3. window' # NoWindow
    BY <2>1, Markers DEF Good, InOrder
  <2>. QED BY <1>3, <2>1, <2>2, <2>3 DEF IInv, BlockedOnlyInWindow
<1>5. ASSUME NEW m \in PendingDirect(w), window' = Rescheduled(AfterForward(w, m)),
             Forward(w, m, t, arrived)
      PROVE  IInv'
  <2>1. m \in arrived
    BY <1>2 DEF PendingDirect, InOrder
  <2>2. arrived \in SUBSET Message /\ Typed
    BY DEF IInv, Typed
  <2> HIDE DEF w
  <2>3. /\ InOrder(AfterForward(w, m), arrived, direct, Carried')
        /\ Executor!TypeOK'
        /\ \A u \in DOMAIN brief' : brief'[u] \subseteq Message
    BY <1>2, <1>3, <1>5, <2>1, <2>2, ForwardKeeps
  <2>4. Good(window', arrived, direct, Carried')
    BY <1>5, <2>3, RescheduledIsGood
  <2>5. window' # NoWindow
    BY <2>4, Markers DEF Good, InOrder
  <2>. QED BY <1>3, <2>2, <2>3, <2>4, <2>5 DEF IInv, Typed, BlockedOnlyInWindow
<1>6. ASSUME ForwardsFirst(w) = {}, w.judging = {},
             window' = [w EXCEPT !.judging = Untriaged(w)],
             UNCHANGED <<executor, run, brief>>
      PROVE  IInv'
  <2>1. Untriaged(w) \cap direct \subseteq w.delivered /\ Untriaged(w) \subseteq arrived
    BY <1>2, <1>6 DEF ForwardsFirst, PendingDirect, Untriaged, InOrder
  <2>2. Untriaged(w) \subseteq Message
    BY <1>2 DEF Untriaged, InOrder, Window
  <2>3. InOrder(window', arrived, direct, Carried)
    BY <1>2, <1>6, <2>1, <2>2 DEF InOrder, Window
  <2>4. window'.judging = Untriaged(w) /\ Untriaged(window') = Untriaged(w)
    BY <1>2, <1>6 DEF InOrder, Window, Untriaged
  <2>5. Good(window', arrived, direct, Carried)
    BY <2>3, <2>4 DEF Good, Scheduled
  <2>6. Typed' /\ Carried' = Carried
    BY <1>3, <1>6, QuietKeeps DEF Quiet, IInv, Typed
  <2>7. window' # NoWindow
    BY <2>3, Markers DEF InOrder
  <2>. QED BY <1>3, <2>5, <2>6, <2>7 DEF IInv, BlockedOnlyInWindow
<1>. QED
  BY <1>4, <1>5, <1>6 DEF CheckFollowUpBatch

\* The classifier's answer keeps it.
LEMMA JudgementKeeps ==
  ASSUME IInv, NoFollowUp \/ \E m \in Message, t \in Task : FollowUp(m, t)
  PROVE  IInv'
<1>1. window # NoWindow
  BY DEF NoFollowUp, FollowUp
<1>2. InOrder(Judged, arrived, direct, Carried)
  BY <1>1, JudgedIsInOrder
<1>3. UNCHANGED <<blocked, pendingMessages, arrived, direct, drained>>
  BY DEF NoFollowUp, FollowUp, attention, history
<1>4. CASE NoFollowUp
  <2>1. window' = Rescheduled(Judged) /\ UNCHANGED <<executor, brief>>
    BY <1>4 DEF NoFollowUp
  <2>2. Good(window', arrived, direct, Carried)
    BY <1>2, <2>1, RescheduledIsGood
  <2>3. Typed' /\ Carried' = Carried
    BY <1>3, <2>1, QuietKeeps DEF Quiet, IInv, Typed
  <2>4. window' # NoWindow
    BY <2>2, Markers DEF Good, InOrder
  <2>. QED BY <1>3, <2>2, <2>3, <2>4 DEF IInv, BlockedOnlyInWindow
<1>5. ASSUME NEW m \in Message, NEW t \in Task, FollowUp(m, t)
      PROVE  IInv'
  <2>1. /\ window' = Rescheduled(AfterForward(Judged, m))
        /\ Forward(Judged, m, t, arrived)
        /\ m \in arrived
    BY <1>5 DEF FollowUp, IInv, Good, InOrder
  <2>2. arrived \in SUBSET Message /\ Typed
    BY DEF IInv, Typed
  <2>3. /\ InOrder(AfterForward(Judged, m), arrived, direct, Carried')
        /\ Executor!TypeOK'
        /\ \A u \in DOMAIN brief' : brief'[u] \subseteq Message
    BY <1>2, <1>3, <2>1, <2>2, ForwardKeeps
  <2>4. Good(window', arrived, direct, Carried')
    BY <2>1, <2>3, RescheduledIsGood
  <2>5. window' # NoWindow
    BY <2>4, Markers DEF Good, InOrder
  <2>. QED BY <1>3, <2>2, <2>3, <2>4, <2>5 DEF IInv, Typed, BlockedOnlyInWindow
<1>. QED BY <1>4, <1>5

\* So do the timers and the tick.
LEMMA TimersKeep ==
  ASSUME IInv, Expire \/ FlushIfIdle \/ Tick
  PROVE  IInv'
<1>1. Quiet /\ pendingMessages' = pendingMessages
  BY DEF Expire, FlushIfIdle, Tick, Quiet, history
<1>2. Typed' /\ Carried' = Carried /\ arrived' = arrived /\ direct' = direct
  BY <1>1, QuietKeeps DEF IInv, Typed
<1>3. CASE Expire
  <2>1. /\ window # NoWindow /\ window' = [window EXCEPT !.expired = TRUE]
        /\ blocked' = blocked
    BY <1>3 DEF Expire, attention
  <2>2. Good(window', arrived, direct, Carried)
    BY <2>1 DEF IInv, Good, InOrder, Scheduled, Window
  <2>3. window' # NoWindow
    BY <2>2, Markers DEF Good, InOrder
  <2>. QED BY <1>2, <2>2, <2>3 DEF IInv, BlockedOnlyInWindow
<1>4. CASE FlushIfIdle
  <2>1. window # NoWindow
        /\ \/ window' = FlushScheduled(window) /\ blocked' = blocked
           \/ window' = NoWindow /\ blocked' = FALSE
    BY <1>4 DEF FlushIfIdle, Unblocked
  <2>2. CASE window' = FlushScheduled(window) /\ blocked' = blocked
    <3>1. Good(window', arrived, direct, Carried)
      BY <2>1, <2>2
      DEF IInv, Good, InOrder, Scheduled, Untriaged, FlushScheduled, Window
    <3>2. window' # NoWindow
      BY <3>1, Markers DEF Good, InOrder
    <3>. QED BY <1>2, <3>1, <3>2 DEF IInv, BlockedOnlyInWindow
  <2>3. CASE window' = NoWindow /\ blocked' = FALSE
    BY <1>2, <2>3 DEF IInv, BlockedOnlyInWindow
  <2>. QED BY <2>1, <2>2, <2>3
<1>5. CASE Tick
  <2>1. window' = window /\ (blocked' => blocked)
    BY <1>5 DEF Tick
  <2>. QED BY <1>2, <2>1 DEF IInv, BlockedOnlyInWindow
<1>. QED BY <1>3, <1>4, <1>5

\* Every step keeps the invariant.
LEMMA NextIInv == IInv /\ [Next]_vars => IInv'
<1> SUFFICES ASSUME IInv, [Next]_vars PROVE IInv'
  OBVIOUS
<1>1. CASE UNCHANGED vars
  <2>1. Quiet /\ UNCHANGED <<window, blocked, pendingMessages>>
    BY <1>1 DEF vars, Quiet, attention, history
  <2>2. Typed' /\ Carried' = Carried /\ arrived' = arrived /\ direct' = direct
    BY <2>1, QuietKeeps DEF IInv, Typed
  <2>. QED BY <2>1, <2>2 DEF IInv, BlockedOnlyInWindow
<1>2. CASE Next
  BY <1>2, DispatchKeeps, SendKeeps, ArrivalKeepsIInv, RunStepKeeps, CancelKeeps,
     CheckKeeps, JudgementKeeps, TimersKeep
  DEF Next, Arrival, WindowTimers
<1>. QED BY <1>1, <1>2

\* In every reachable state the invariant holds.
LEMMA WindowInvariant == Spec => []IInv
BY InitIInv, NextIInv, PTL DEF Spec

\* No chat is left blocked without a window whose flush will unblock it.
THEOREM NoChatStaysDeaf == Spec => []BlockedOnlyInWindow
<1>1. IInv => BlockedOnlyInWindow
  BY DEF IInv
<1>. QED BY <1>1, WindowInvariant, PTL

\* No message of an open window is forgotten: one that was neither forwarded
\* nor judged has a check coming, until the window has expired.
THEOREM NoMessageIsForgotten == Spec => []UntriagedIsScheduled
<1>1. IInv => UntriagedIsScheduled
  BY DEF IInv, Good, Scheduled, UntriagedIsScheduled
<1>. QED BY <1>1, WindowInvariant, PTL

\* The classifier never decides about a message that addresses the agent.
THEOREM ClassifierSparesMentions == Spec => []MentionsAreNotJudged
<1>1. IInv => MentionsAreNotJudged
  BY DEF IInv, Good, InOrder, MentionsAreNotJudged
<1>. QED BY <1>1, WindowInvariant, PTL

\* What a window counts as delivered was handed to the executor.
THEOREM DeliveredMeansDelivered == Spec => []DeliveredIsCarried
<1>1. IInv => DeliveredIsCarried
  BY DEF IInv, Good, InOrder, Carried, DeliveredIsCarried
<1>. QED BY <1>1, WindowInvariant, PTL

-----------------------------------------------------------------------------
(* Callbacks and mentions                                                   *)

Disjoint(S) == \A c, d \in S : c # d => Range(c.tasks) \cap Range(d.tasks) = {}

\* A task is in one place of the executor, and a queued one has its brief.
ServedOnce ==
  /\ \A i, j \in DOMAIN waiting : waiting[i] = waiting[j] => i = j
  /\ serving \notin Range(waiting) \cup answered
  /\ Range(waiting) \cap answered = {}
  /\ Range(waiting) \subseteq DOMAIN brief

RunTyped ==
  /\ run \in Run \cup {NoRun} /\ (run = NoRun <=> serving = Idle)
  /\ DOMAIN brief \subseteq Task

\* Callbacks are of tasks that were answered, which is why the next one to be
\* answered has none yet, and no two callbacks share a task.
CallbacksTracked ==
  /\ callbacks \subseteq Callback /\ q5 \subseteq Callback
  /\ \A c \in q5 : c.tasks # <<>>
  /\ Disjoint(callbacks \cup q5)
  /\ InWindow \cup TasksOf(callbacks \cup q5) \cup attended \subseteq answered
  /\ completed \subseteq Task

\* A mention that a brief carries and the window holds was delivered, and the
\* classifier's batch has none: a forward takes only what no brief carries.
Told(w, br, D) ==
  /\ w.judging \cap D = {}
  /\ \A t \in DOMAIN br : br[t] \cap w.messages \cap D \subseteq w.delivered

OnceIn(br, D) == \A s, t \in DOMAIN br : s # t => br[s] \cap br[t] \cap D = {}

MentionsTracked ==
  /\ \A t \in DOMAIN brief : brief[t] \subseteq arrived
  /\ pendingMessages \subseteq direct /\ mentions \subseteq direct
  /\ heard \subseteq direct /\ drained \subseteq arrived
  /\ OnceIn(brief, direct)
  /\ window # NoWindow => Told(window, brief, direct)

FullIInv ==
  /\ IInv
  /\ blocked \in BOOLEAN /\ cancelling \in BOOLEAN
  /\ ServedOnce
  /\ RunTyped
  /\ CallbacksTracked
  /\ CallbackInOnePlace
  /\ MentionsTracked

\* A queue without its head holds what it held, but for that task.
LEMMA TailOfQueue ==
  ASSUME NEW q \in Seq(Task), q # <<>>,
         \A i, j \in DOMAIN q : q[i] = q[j] => i = j
  PROVE  /\ Tail(q) \in Seq(Task) /\ Head(q) \in Range(q)
         /\ Range(Tail(q)) \subseteq Range(q)
         /\ Head(q) \notin Range(Tail(q))
         /\ \A i, j \in DOMAIN Tail(q) : Tail(q)[i] = Tail(q)[j] => i = j
<1>1. /\ Tail(q) \in Seq(Task)
      /\ Head(q) = q[1] /\ 1 \in 1..Len(q)
      /\ Len(Tail(q)) = Len(q) - 1 /\ Len(q) \in Nat
      /\ \A i \in 1..Len(Tail(q)) : Tail(q)[i] = q[i + 1] /\ i + 1 \in 1..Len(q)
  OBVIOUS
<1>. QED BY <1>1 DEF Range

\* A queue with one more entry holds what it held and that entry.
LEMMA AppendedToQueue ==
  ASSUME NEW T, NEW q \in Seq(T), NEW t \in T, t \notin Range(q),
         \A i, j \in DOMAIN q : q[i] = q[j] => i = j
  PROVE  /\ Append(q, t) \in Seq(T) /\ Append(q, t) # <<>>
         /\ Range(Append(q, t)) = Range(q) \cup {t}
         /\ \A i, j \in DOMAIN Append(q, t) :
              Append(q, t)[i] = Append(q, t)[j] => i = j
<1>1. /\ Append(q, t) \in Seq(T)
      /\ Len(Append(q, t)) = Len(q) + 1 /\ Len(q) \in Nat
      /\ \A i \in 1..Len(q) : Append(q, t)[i] = q[i]
      /\ Append(q, t)[Len(q) + 1] = t
  OBVIOUS
<1>. QED BY <1>1 DEF Range

\* The loop's head takes a task of the queue, and its run is of its type.
LEMMA TakeNextServes ==
  ASSUME NEW q \in Seq(Task), halting \in BOOLEAN, Executor!TakeNext(q),
         \A i, j \in DOMAIN q : q[i] = q[j] => i = j,
         NEW br, Range(q) \subseteq DOMAIN br,
         \A t \in DOMAIN br : br[t] \subseteq Message,
         NEW stored \in SUBSET Message
  PROVE  /\ \A i, j \in DOMAIN waiting' : waiting'[i] = waiting'[j] => i = j
         /\ serving' \notin Range(waiting')
         /\ serving' \in Range(q) \cup {Idle} /\ Range(waiting') \subseteq Range(q)
         /\ TakenFrom(q, br, stored) \in Run \cup {NoRun}
         /\ TakenFrom(q, br, stored) = NoRun <=> serving' = Idle
<1>1. CASE q = <<>> \/ halting
  <2>1. serving' = Idle /\ waiting' = <<>>
    BY <1>1 DEF Executor!TakeNext
  <2>. QED BY <1>1, <2>1 DEF TakenFrom, Range
<1>2. CASE ~(q = <<>> \/ halting)
  <2>1. serving' = Head(q) /\ waiting' = Tail(q)
    BY <1>2 DEF Executor!TakeNext
  <2>2. Head(q) \in Task /\ Head(q) # Idle /\ Head(q) \in DOMAIN br
    BY <1>2, TailOfQueue, Markers
  <2>3. TakenFrom(q, br, stored) \in Run
    <3>1. TakenFrom(q, br, stored) =
            [stage |-> "starting", sent |-> FALSE,
             view |-> IF br[Head(q)] = {} THEN stored ELSE br[Head(q)]]
      BY <1>2 DEF TakenFrom
    <3>. QED BY <2>2, <3>1 DEF Run, Stage
  <2>. QED BY <1>2, <2>1, <2>2, <2>3, TailOfQueue, Markers
<1>. QED BY <1>1, <1>2

\* Handing over a task adds its brief and leaves what was answered alone.
LEMMA EnqueueServes ==
  ASSUME Typed, ServedOnce, RunTyped, NEW t \in Task, NEW S \in SUBSET Message,
         NEW stored \in SUBSET Message, Enqueue(t, S, stored)
  PROVE  /\ ServedOnce' /\ RunTyped' /\ answered' = answered
         /\ t \notin DOMAIN brief /\ DOMAIN brief' = DOMAIN brief \cup {t}
         /\ brief'[t] = S /\ \A u \in DOMAIN brief : brief'[u] = brief[u]
<1> DEFINE q == Append(waiting, t)
<1>1. /\ t \notin DOMAIN brief /\ brief' = Briefed(t, S)
      /\ Executor!Submit(t) /\ answered' = answered
      /\ run' = IF serving = Idle THEN TakenFrom(q, Briefed(t, S), stored) ELSE run
  BY DEF Enqueue, Fresh, Executor!Submit
<1>2. /\ DOMAIN brief' = DOMAIN brief \cup {t}
      /\ brief'[t] = S /\ \A u \in DOMAIN brief : brief'[u] = brief[u]
  BY <1>1 DEF Briefed
<1>3. t # serving /\ t \notin answered /\ t \notin Range(waiting)
  BY <1>1 DEF Executor!Submit, Executor!Known, Range
<1>4. /\ waiting \in Seq(Task) /\ halting \in BOOLEAN
      /\ serving \in Task \cup {Idle} /\ answered \subseteq Task
  BY DEF Typed, Executor!TypeOK
<1>5. /\ q \in Seq(Task) /\ Range(q) = Range(waiting) \cup {t}
      /\ \A i, j \in DOMAIN q : q[i] = q[j] => i = j
  BY <1>3, <1>4, AppendedToQueue DEF ServedOnce
<1>6. DOMAIN brief' \subseteq Task /\ Range(q) \subseteq DOMAIN brief'
  BY <1>2, <1>5 DEF RunTyped, ServedOnce
<1>7. CASE serving = Idle
  <2>1. Executor!TakeNext(q)
    BY <1>1, <1>7 DEF Executor!Submit
  <2>2. \A u \in DOMAIN brief' : brief'[u] \subseteq Message
    BY <1>2 DEF Typed
  <2> HIDE DEF q
  <2>3. /\ \A i, j \in DOMAIN waiting' : waiting'[i] = waiting'[j] => i = j
        /\ serving' \notin Range(waiting')
        /\ serving' \in Range(q) \cup {Idle} /\ Range(waiting') \subseteq Range(q)
        /\ TakenFrom(q, brief', stored) \in Run \cup {NoRun}
        /\ TakenFrom(q, brief', stored) = NoRun <=> serving' = Idle
    BY <1>4, <1>5, <1>6, <2>1, <2>2, TakeNextServes
  <2>4. run' = TakenFrom(q, brief', stored)
    BY <1>1, <1>7
  <2>5. RunTyped'
    BY <1>6, <2>3, <2>4 DEF RunTyped
  <2>6. Idle \notin answered
    BY <1>4, Markers
  <2>7. Range(q) \cap answered = {}
    BY <1>3, <1>5 DEF ServedOnce
  <2>8. ServedOnce'
    BY <1>1, <1>6, <2>3, <2>6, <2>7 DEF ServedOnce
  <2>. QED BY <1>1, <1>2, <2>5, <2>8
<1>8. CASE serving # Idle
  <2>1. waiting' = q /\ serving' = serving /\ run' = run
    BY <1>1, <1>8 DEF Executor!Submit
  <2> HIDE DEF q
  <2>2. ServedOnce'
    BY <1>1, <1>3, <1>5, <1>6, <2>1 DEF ServedOnce
  <2>3. RunTyped'
    BY <1>6, <2>1 DEF RunTyped
  <2>. QED BY <1>1, <1>2, <2>2, <2>3
<1>. QED BY <1>7, <1>8

\* The end of a run answers its task.
LEMMA AnswerServes ==
  ASSUME Typed, ServedOnce, RunTyped, Executor!Answer, UNCHANGED brief,
         run' = TakenFrom(waiting, brief, arrived)
  PROVE  /\ ServedOnce' /\ RunTyped'
         /\ serving \in Task /\ serving \notin answered
         /\ answered' = answered \cup {serving}
<1>1. /\ waiting \in Seq(Task) /\ halting \in BOOLEAN /\ answered \subseteq Task
      /\ serving \in Task /\ arrived \in SUBSET Message
      /\ \A u \in DOMAIN brief : brief[u] \subseteq Message
  BY DEF Typed, Executor!TypeOK, Executor!Answer
<1>2. answered' = answered \cup {serving} /\ Executor!TakeNext(waiting)
  BY DEF Executor!Answer
<1>3. /\ \A i, j \in DOMAIN waiting' : waiting'[i] = waiting'[j] => i = j
      /\ serving' \notin Range(waiting')
      /\ serving' \in Range(waiting) \cup {Idle} /\ Range(waiting') \subseteq Range(waiting)
      /\ TakenFrom(waiting, brief, arrived) \in Run \cup {NoRun}
      /\ TakenFrom(waiting, brief, arrived) = NoRun <=> serving' = Idle
  BY <1>1, <1>2, TakeNextServes DEF ServedOnce
<1>4. Idle \notin answered \cup {serving}
  BY <1>1, Markers
<1>5. ServedOnce'
  BY <1>2, <1>3, <1>4 DEF ServedOnce
<1>6. RunTyped'
  BY <1>3 DEF RunTyped
<1>. QED BY <1>1, <1>2, <1>5, <1>6 DEF ServedOnce

\* Fields of a window that its timers do not change.
SameFields(v, w) ==
  /\ v.callbacks = w.callbacks /\ v.messages = w.messages
  /\ v.delivered = w.delivered /\ v.judging = w.judging

\* What the operations leave of a window's fields.
LEMMA WindowFields ==
  ASSUME NEW w \in Window
  PROVE  /\ SameFields(CheckScheduled(w), w) /\ SameFields(Rescheduled(w), w)
         /\ SameFields(FlushScheduled(w), w)
         /\ SameFields([w EXCEPT !.followUpTimer = FALSE], w)
         /\ SameFields([w EXCEPT !.expired = TRUE], w)
         /\ \A S : /\ Delivered(w, S).callbacks = w.callbacks
                   /\ Delivered(w, S).messages = w.messages
                   /\ Delivered(w, S).judging = w.judging
                   /\ Delivered(w, S).delivered = w.delivered \cup S
BY DEF SameFields, CheckScheduled, Rescheduled, FlushScheduled, Delivered, Window

\* The open window keeps its callbacks, and a closed one stays closed.
KeepsCallbacks ==
  IF window = NoWindow THEN window' = NoWindow
  ELSE window' # NoWindow /\ window'.callbacks = window.callbacks

\* Steps that leave callbacks where they are.
LEMMA CallbacksRest ==
  ASSUME CallbacksTracked, CallbackInOnePlace, KeepsCallbacks,
         UNCHANGED <<callbacks, q5, attended, completed>>, answered \subseteq answered'
  PROVE  CallbacksTracked' /\ CallbackInOnePlace'
<1>1. InWindow' = InWindow
  BY DEF InWindow, KeepsCallbacks
<1>2. CallbacksTracked'
  BY <1>1 DEF CallbacksTracked
<1>3. CallbackInOnePlace'
  BY <1>1 DEF CallbackInOnePlace, KeepsCallbacks
<1>. QED BY <1>2, <1>3

\* Opening a window for a message the agent sent drops the items of the chat.
LEMMA SendTracks ==
  ASSUME FullIInv, IInv', NEW own \in BOOLEAN, SendMessage(own)
  PROVE  CallbacksTracked' /\ CallbackInOnePlace'
<1>1. UNCHANGED <<q5, attended, completed, answered>>
  BY DEF SendMessage, executor, history
<1>2. CASE window = NoWindow
  <2>1. window' = Opened(<<>>) /\ callbacks' = {}
    BY <1>2 DEF SendMessage, Block
  <2>2. window'.callbacks = <<>>
    BY <2>1 DEF Opened
  <2>3. InWindow' = {}
    BY <2>2 DEF InWindow, Range
  <2>4. TasksOf(callbacks') = {} /\ TasksOf(callbacks' \cup q5') \subseteq TasksOf(callbacks \cup q5)
    BY <1>1, <2>1 DEF TasksOf
  <2>5. CallbacksTracked'
    BY <1>1, <2>1, <2>3, <2>4 DEF FullIInv, CallbacksTracked, Disjoint
  <2>6. CallbackInOnePlace'
    BY <1>1, <2>2, <2>3, <2>4 DEF FullIInv, CallbackInOnePlace
  <2>. QED BY <2>5, <2>6
<1>3. CASE window # NoWindow
  <2>1. window' = FlushScheduled(window) /\ UNCHANGED callbacks
    BY <1>3 DEF SendMessage, attention
  <2>2. window \in Window
    BY <1>3 DEF FullIInv, IInv, Good, InOrder
  <2>3. window' # NoWindow
    BY <2>1, <2>2, Markers DEF FlushScheduled, Window
  <2>4. KeepsCallbacks
    BY <1>3, <2>1, <2>2, <2>3, WindowFields DEF KeepsCallbacks, SameFields
  <2>. QED BY <1>1, <2>1, <2>4, CallbacksRest DEF FullIInv
<1>. QED BY <1>2, <1>3

\* The callback of the run that ends goes to one place, and it was nowhere.
LEMMA HandleCallbackTracks ==
  ASSUME FullIInv, HandleCallback
  PROVE  CallbacksTracked' /\ CallbackInOnePlace'
<1>1. UNCHANGED <<attended, completed>> /\ Executor!Answer
  BY DEF HandleCallback, history
<1>2. serving \in Task /\ serving \notin answered /\ answered' = answered \cup {serving}
  BY <1>1, AnswerServes DEF FullIInv, IInv, HandleCallback
<1>3. serving \notin InWindow \cup TasksOf(callbacks \cup q5) \cup attended
  BY <1>2 DEF FullIInv, CallbacksTracked
<1>4. Range(<<serving>>) = {serving} /\ <<serving>> \in Seq(Task) /\ <<serving>> # <<>>
  BY <1>2 DEF Range
<1>5. CASE window # NoWindow
  <2>1. /\ window' = [window EXCEPT !.callbacks = Append(@, serving)]
        /\ UNCHANGED <<callbacks, q5>>
    BY <1>5 DEF HandleCallback, attention
  <2>2. window \in Window /\ window.callbacks \in Seq(Task)
    BY <1>5 DEF FullIInv, IInv, Good, InOrder, Window
  <2>3. window'.callbacks = Append(window.callbacks, serving) /\ window' \in Window
    <3> DEFINE cbs == Append(window.callbacks, serving)
    <3>1. cbs \in Seq(Task) /\ window' = [window EXCEPT !.callbacks = cbs]
      BY <1>2, <2>1, <2>2
    <3> HIDE DEF cbs
    <3>2. window'.callbacks = cbs /\ window' \in Window
      BY <2>2, <3>1 DEF Window
    <3>. QED BY <3>2 DEF cbs
  <2>4. window' # NoWindow
    BY <2>3, Markers
  <2>5. /\ InWindow' = InWindow \cup {serving}
        /\ \A i, j \in DOMAIN window'.callbacks :
             window'.callbacks[i] = window'.callbacks[j] => i = j
    <3>1. InWindow = Range(window.callbacks) /\ InWindow' = Range(window'.callbacks)
      BY <1>5, <2>4 DEF InWindow
    <3>2. \A i, j \in DOMAIN window.callbacks :
             window.callbacks[i] = window.callbacks[j] => i = j
      BY <1>5 DEF FullIInv, CallbackInOnePlace
    <3>. QED BY <1>2, <1>3, <2>2, <2>3, <3>1, <3>2, AppendedToQueue
  <2>6. CallbacksTracked'
    BY <1>1, <1>2, <2>1, <2>5 DEF FullIInv, CallbacksTracked
  <2>7. CallbackInOnePlace'
    BY <1>1, <1>3, <2>1, <2>5 DEF FullIInv, CallbackInOnePlace, TasksOf
  <2>. QED BY <2>6, <2>7
<1>6. CASE window = NoWindow /\ run.sent
  <2>1. window' = Opened(<<serving>>) /\ callbacks' = {} /\ UNCHANGED q5
    BY <1>6 DEF HandleCallback, Block
  <2>2. window'.callbacks = <<serving>> /\ window' \in Window
    BY <1>4, <2>1 DEF Opened, Window
  <2>3. InWindow' = {serving}
    BY <1>4, <2>2, Markers DEF InWindow
  <2>4. /\ TasksOf(callbacks') = {}
        /\ TasksOf(callbacks' \cup q5') \subseteq TasksOf(callbacks \cup q5)
        /\ TasksOf(q5) \subseteq TasksOf(callbacks \cup q5)
    BY <2>1 DEF TasksOf
  <2>5. CallbacksTracked'
    BY <1>1, <1>2, <2>1, <2>3, <2>4 DEF FullIInv, CallbacksTracked, Disjoint
  <2>6. CallbackInOnePlace'
    <3>1. \A i, j \in DOMAIN window'.callbacks : i = j
      BY <2>2
    <3>. QED
      BY <1>1, <1>3, <2>1, <2>3, <2>4, <3>1 DEF FullIInv, CallbackInOnePlace
  <2>. QED BY <2>5, <2>6
<1>7. CASE window = NoWindow /\ ~run.sent
  <2> DEFINE c == [tasks |-> <<serving>>, messages |-> {}]
  <2>1. window' = NoWindow /\ UNCHANGED callbacks /\ q5' = q5 \cup {c}
    BY <1>7 DEF HandleCallback
  <2>2. c \in Callback /\ Range(c.tasks) = {serving} /\ c.tasks # <<>>
    BY <1>4 DEF Callback
  <2> HIDE DEF c
  <2>3. InWindow' = {} /\ InWindow = {}
    BY <1>7, <2>1 DEF InWindow
  <2>4. /\ TasksOf(q5') = TasksOf(q5) \cup {serving}
        /\ TasksOf(callbacks' \cup q5') = TasksOf(callbacks \cup q5) \cup {serving}
        /\ TasksOf(callbacks) \subseteq TasksOf(callbacks \cup q5)
    BY <2>1, <2>2 DEF TasksOf
  <2>5. Disjoint(callbacks' \cup q5')
    <3>1. \A d \in callbacks \cup q5 : Range(d.tasks) \cap Range(c.tasks) = {}
      BY <1>3, <2>2 DEF TasksOf
    <3>. QED BY <2>1, <3>1 DEF FullIInv, CallbacksTracked, Disjoint
  <2>6. CallbacksTracked'
    BY <1>1, <1>2, <2>1, <2>2, <2>3, <2>4, <2>5 DEF FullIInv, CallbacksTracked
  <2>7. CallbackInOnePlace'
    BY <1>1, <1>3, <2>1, <2>3, <2>4 DEF FullIInv, CallbackInOnePlace
  <2>. QED BY <2>6, <2>7
<1>. QED BY <1>5, <1>6, <1>7

\* A flush moves the callbacks of the window to Q5, as one.
LEMMA FlushTracks ==
  ASSUME FullIInv, FlushIfIdle
  PROVE  CallbacksTracked' /\ CallbackInOnePlace'
<1>1. window # NoWindow /\ window \in Window /\ window.callbacks \in Seq(Task)
  BY DEF FlushIfIdle, FullIInv, IInv, Good, InOrder, Window
<1>2. UNCHANGED <<callbacks, attended, completed, answered>>
  BY DEF FlushIfIdle, executor, history
<1>3. CASE window' = FlushScheduled(window) /\ UNCHANGED q5
  <2>1. window' # NoWindow
    BY <1>1, <1>3, Markers DEF FlushScheduled, Window
  <2>2. KeepsCallbacks
    BY <1>1, <1>3, <2>1, WindowFields DEF KeepsCallbacks, SameFields
  <2>. QED BY <1>2, <1>3, <2>2, CallbacksRest DEF FullIInv
<1>4. CASE window' = NoWindow /\ window.callbacks = <<>> /\ UNCHANGED q5
  <2>1. InWindow' = {}
    BY <1>4 DEF InWindow
  <2>2. CallbacksTracked'
    BY <1>2, <1>4, <2>1 DEF FullIInv, CallbacksTracked
  <2>3. CallbackInOnePlace'
    BY <1>2, <1>4, <2>1 DEF FullIInv, CallbackInOnePlace
  <2>. QED BY <2>2, <2>3
<1>5. ASSUME window' = NoWindow, window.callbacks # <<>>,
             q5' = q5 \cup {[tasks |-> window.callbacks, messages |-> window.messages]}
      PROVE  CallbacksTracked' /\ CallbackInOnePlace'
  <2> DEFINE c == [tasks |-> window.callbacks, messages |-> window.messages]
  <2>1. c \in Callback /\ Range(c.tasks) = InWindow /\ c.tasks # <<>>
    BY <1>1, <1>5 DEF Callback, Window, InWindow
  <2>2. q5' = q5 \cup {c}
    BY <1>5
  <2> HIDE DEF c
  <2>3. InWindow' = {}
    BY <1>5 DEF InWindow
  <2>4. /\ TasksOf(q5') = TasksOf(q5) \cup InWindow
        /\ TasksOf(callbacks' \cup q5') = TasksOf(callbacks \cup q5) \cup InWindow
        /\ TasksOf(callbacks \cup q5) = TasksOf(callbacks) \cup TasksOf(q5)
    BY <1>2, <2>1, <2>2 DEF TasksOf
  <2>5. Disjoint(callbacks' \cup q5')
    <3>1. InWindow \cap TasksOf(callbacks \cup q5) = {}
      BY <2>4 DEF FullIInv, CallbackInOnePlace
    <3>2. \A d \in callbacks \cup q5 : Range(d.tasks) \cap Range(c.tasks) = {}
      BY <2>1, <3>1 DEF TasksOf
    <3>. QED BY <1>2, <2>2, <3>2 DEF FullIInv, CallbacksTracked, Disjoint
  <2>6. CallbacksTracked'
    BY <1>2, <2>1, <2>2, <2>3, <2>4, <2>5 DEF FullIInv, CallbacksTracked
  <2>7. CallbackInOnePlace'
    BY <1>2, <1>5, <2>3, <2>4 DEF FullIInv, CallbackInOnePlace
  <2>. QED BY <2>6, <2>7
<1>. QED BY <1>3, <1>4, <1>5 DEF FlushIfIdle

\* A tick empties Q5 into the accumulator and hands on one callback at most.
LEMMA TickTracks ==
  ASSUME FullIInv, Tick
  PROVE  CallbacksTracked' /\ CallbackInOnePlace'
<1> DEFINE items == callbacks \cup q5
<1>1. /\ q5' = {} /\ UNCHANGED <<window, answered>>
      /\ completed' = completed \cup {Head(c.tasks) : c \in q5}
  BY DEF Tick, Emptied, executor
<1>2. InWindow' = InWindow /\ TasksOf({}) = {}
      /\ TasksOf(items) = TasksOf(callbacks) \cup TasksOf(q5)
  BY <1>1 DEF InWindow, TasksOf
<1>3. completed' \subseteq Task
  <2>1. \A c \in q5 : c.tasks \in Seq(Task) /\ c.tasks # <<>>
    BY DEF FullIInv, CallbacksTracked, Callback
  <2>2. \A c \in q5 : Head(c.tasks) \in Task
    BY <2>1
  <2>. QED BY <1>1, <2>2 DEF FullIInv, CallbacksTracked
<1>4. CASE callbacks' = items /\ UNCHANGED attended
  <2>1. callbacks' \cup q5' = items
    BY <1>1, <1>4
  <2>2. CallbacksTracked'
    BY <1>1, <1>2, <1>3, <1>4, <2>1 DEF FullIInv, CallbacksTracked
  <2>3. CallbackInOnePlace'
    BY <1>1, <1>2, <1>4 DEF FullIInv, CallbackInOnePlace
  <2>. QED BY <2>2, <2>3
<1>5. ASSUME NEW c \in items, callbacks' = items \ {c},
             attended' = attended \cup Range(c.tasks)
      PROVE  CallbacksTracked' /\ CallbackInOnePlace'
  <2>1. callbacks' \cup q5' = items \ {c}
    BY <1>1, <1>5
  <2>2. Disjoint(items)
    BY DEF FullIInv, CallbacksTracked
  <2>3. /\ Range(c.tasks) \subseteq TasksOf(items)
        /\ TasksOf(items \ {c}) \subseteq TasksOf(items)
        /\ TasksOf(items \ {c}) \cap Range(c.tasks) = {}
    BY <1>5, <2>2 DEF TasksOf, Disjoint
  <2>4. CallbacksTracked'
    BY <1>1, <1>2, <1>3, <1>5, <2>1, <2>3 DEF FullIInv, CallbacksTracked, Disjoint
  <2>5. CallbackInOnePlace'
    BY <1>1, <1>2, <1>5, <2>3 DEF FullIInv, CallbackInOnePlace
  <2>. QED BY <2>4, <2>5
<1>. QED BY <1>4, <1>5 DEF Tick

\* What a brief carries besides, once S is handed over as the brief of t.
LEMMA BriefsTold ==
  ASSUME NEW t, t \notin DOMAIN brief, NEW S, DOMAIN brief' = DOMAIN brief \cup {t},
         brief'[t] = S, \A u \in DOMAIN brief : brief'[u] = brief[u],
         NEW D, OnceIn(brief, D), \A u \in DOMAIN brief : brief[u] \cap S \cap D = {}
  PROVE  /\ OnceIn(brief', D)
         /\ \A w, v : /\ Told(w, brief, D) /\ v.judging = w.judging
                      /\ v.messages = w.messages /\ v.delivered = w.delivered \cup S
                      => Told(v, brief', D)
<1>1. OnceIn(brief', D)
  BY DEF OnceIn
<1>2. ASSUME NEW w, NEW v, Told(w, brief, D), v.judging = w.judging,
             v.messages = w.messages, v.delivered = w.delivered \cup S
      PROVE  Told(v, brief', D)
  <2>1. ASSUME NEW u \in DOMAIN brief'
        PROVE  brief'[u] \cap v.messages \cap D \subseteq v.delivered
    BY <1>2, <2>1 DEF Told
  <2>. QED BY <1>2, <2>1 DEF Told
<1>. QED BY <1>1, <1>2

\* Forwarding m, when no brief carries it, or it does not address the agent.
LEMMA ForwardTells ==
  ASSUME Typed, ServedOnce, RunTyped, NEW A \in SUBSET Message, NEW D,
         NEW w \in Window, w.messages \subseteq A, Told(w, brief, D), OnceIn(brief, D),
         \A u \in DOMAIN brief : brief[u] \subseteq A,
         NEW m \in A, m \in D => \A u \in DOMAIN brief : m \notin brief[u],
         NEW t \in Task, Forward(w, m, t, A)
  PROVE  /\ ServedOnce' /\ RunTyped' /\ answered' = answered
         /\ OnceIn(brief', D) /\ Told(AfterForward(w, m), brief', D)
         /\ \A u \in DOMAIN brief' : brief'[u] \subseteq A
         /\ AfterForward(w, m) \in Window /\ AfterForward(w, m).callbacks = w.callbacks
<1> DEFINE S == Forwarded(w, m)
<1>1. CASE HasExecutor
  <2>1. S \subseteq A /\ S \in SUBSET Message
    BY DEF Forwarded
  <2>2. \A u \in DOMAIN brief : brief[u] \cap S \cap D = {}
    BY DEF Forwarded, Told
  <2>3. Enqueue(t, S, A) /\ AfterForward(w, m) = Delivered(w, S)
    BY <1>1 DEF Forward, AfterForward
  <2> HIDE DEF S
  <2>4. /\ ServedOnce' /\ RunTyped' /\ answered' = answered
        /\ t \notin DOMAIN brief /\ DOMAIN brief' = DOMAIN brief \cup {t}
        /\ brief'[t] = S /\ \A u \in DOMAIN brief : brief'[u] = brief[u]
    BY <2>1, <2>3, EnqueueServes
  <2>5. /\ Delivered(w, S).callbacks = w.callbacks
        /\ Delivered(w, S).messages = w.messages
        /\ Delivered(w, S).judging = w.judging
        /\ Delivered(w, S).delivered = w.delivered \cup S
    BY WindowFields
  <2>6. OnceIn(brief', D) /\ Told(Delivered(w, S), brief', D)
    BY <2>2, <2>4, <2>5, BriefsTold
  <2>7. Delivered(w, S) \in Window
    BY <2>1 DEF Delivered, Window
  <2>. QED BY <2>1, <2>3, <2>4, <2>5, <2>6, <2>7
<1>2. CASE ~HasExecutor
  <2>1. UNCHANGED <<executor, run, brief>> /\ AfterForward(w, m) = w
    BY <1>2 DEF Forward, AfterForward
  <2>. QED BY <2>1 DEF executor, ServedOnce, RunTyped
<1>. QED BY <1>1, <1>2

\* Steps that leave the mentions and the briefs where they are.
LEMMA MentionsRest ==
  ASSUME MentionsTracked, UNCHANGED <<brief, arrived, direct>>,
         pendingMessages' \subseteq direct, mentions' \subseteq direct,
         heard' \subseteq direct, drained' \subseteq arrived,
         window' # NoWindow => Told(window', brief, direct)
  PROVE  MentionsTracked'
BY DEF MentionsTracked

\* A task without messages changes nothing for the mentions.
LEMMA DispatchTracks ==
  ASSUME FullIInv, NEW t \in Task, Dispatch(t)
  PROVE  ServedOnce' /\ RunTyped' /\ answered' = answered /\ MentionsTracked'
<1>1. /\ Enqueue(t, {}, arrived) /\ arrived \in SUBSET Message
      /\ UNCHANGED <<window, mentions, pendingMessages, arrived, direct, heard, drained>>
  BY DEF Dispatch, attention, history, FullIInv, IInv, Typed
<1>2. /\ ServedOnce' /\ RunTyped' /\ answered' = answered
      /\ t \notin DOMAIN brief /\ DOMAIN brief' = DOMAIN brief \cup {t}
      /\ brief'[t] = {} /\ \A u \in DOMAIN brief : brief'[u] = brief[u]
  BY <1>1, EnqueueServes DEF FullIInv, IInv
<1>3. OnceIn(brief', direct)
  BY <1>2 DEF FullIInv, MentionsTracked, OnceIn
<1>4. window # NoWindow => Told(window, brief', direct)
  BY <1>2 DEF FullIInv, MentionsTracked, Told
<1>5. \A u \in DOMAIN brief' : brief'[u] \subseteq arrived
  BY <1>2 DEF FullIInv, MentionsTracked
<1>. QED BY <1>1, <1>2, <1>3, <1>4, <1>5 DEF FullIInv, MentionsTracked

\* A message that arrives is in no brief, and recorded in the window.
LEMMA ArrivalTold ==
  ASSUME FullIInv, NEW m \in Message, m \notin arrived,
         NEW E \in {direct, direct \cup {m}}
  PROVE  /\ \A u \in DOMAIN brief : m \notin brief[u]
         /\ OnceIn(brief, E)
         /\ window # NoWindow =>
              /\ Recorded(m) \in Window /\ Recorded(m).callbacks = window.callbacks
              /\ Recorded(m).messages \subseteq arrived \cup {m}
              /\ Told(Recorded(m), brief, E)
<1>1. \A u \in DOMAIN brief : m \notin brief[u]
  BY DEF FullIInv, MentionsTracked
<1>2. OnceIn(brief, E)
  BY <1>1 DEF FullIInv, MentionsTracked, OnceIn
<1>3. ASSUME window # NoWindow
      PROVE  /\ Recorded(m) \in Window /\ Recorded(m).callbacks = window.callbacks
             /\ Recorded(m).messages \subseteq arrived \cup {m}
             /\ Told(Recorded(m), brief, E)
  <2> DEFINE w == [window EXCEPT !.messages = @ \cup {m}]
  <2>1. /\ window \in Window /\ window.messages \subseteq arrived
        /\ window.judging \subseteq arrived
    BY <1>3 DEF FullIInv, IInv, Good, InOrder
  <2>2. /\ w \in Window /\ w.callbacks = window.callbacks
        /\ w.messages = window.messages \cup {m} /\ w.judging = window.judging
        /\ w.delivered = window.delivered
    BY <2>1 DEF Window
  <2>3. Recorded(m) = CheckScheduled(w)
    BY <1>3 DEF Recorded
  <2> HIDE DEF w
  <2>4. SameFields(Recorded(m), w) /\ Recorded(m) \in Window
    <3>1. CheckScheduled(w) \in Window
      BY <2>2 DEF CheckScheduled, Window
    <3>. QED BY <2>2, <2>3, <3>1, WindowFields
  <2>5. Told(window, brief, direct)
    BY <1>3 DEF FullIInv, MentionsTracked
  <2>6. Told(Recorded(m), brief, E)
    BY <1>1, <2>1, <2>2, <2>4, <2>5 DEF Told, SameFields
  <2>. QED BY <2>1, <2>2, <2>4, <2>6 DEF SameFields
<1>. QED BY <1>1, <1>2, <1>3

\* Whatever becomes of an arrival, mentions stay in place.
LEMMA ArrivalTracks ==
  ASSUME FullIInv, NEW m \in Message,
         ChatMessage(m) \/ MentionWhileProcessing(m)
           \/ \E t \in Task : MentionWhileIdle(m, t)
  PROVE  /\ ServedOnce' /\ RunTyped' /\ answered' = answered
         /\ MentionsTracked' /\ KeepsCallbacks
<1>1. /\ m \notin arrived /\ arrived' = arrived \cup {m} /\ UNCHANGED <<drained, heard>>
      /\ direct' \in {direct, direct \cup {m}}
  BY DEF ChatMessage, MentionWhileProcessing, MentionWhileIdle, Arrived
<1>2. /\ \A u \in DOMAIN brief : m \notin brief[u]
      /\ OnceIn(brief, direct')
      /\ window # NoWindow =>
           /\ Recorded(m) \in Window /\ Recorded(m).callbacks = window.callbacks
           /\ Recorded(m).messages \subseteq arrived'
           /\ Told(Recorded(m), brief, direct')
  BY <1>1, ArrivalTold
<1>3. mentions' \subseteq direct' /\ pendingMessages' \subseteq direct'
  BY DEF ChatMessage, MentionWhileProcessing, MentionWhileIdle, Arrived, Ingest,
         attention, FullIInv, MentionsTracked
<1>4. heard' \subseteq direct' /\ drained' \subseteq arrived'
  BY <1>1 DEF FullIInv, MentionsTracked
<1>5. CASE ChatMessage(m) \/ MentionWhileProcessing(m)
  <2>1. window' = Recorded(m) /\ UNCHANGED <<executor, run, brief>>
    BY <1>5 DEF ChatMessage, MentionWhileProcessing
  <2>2. ServedOnce' /\ RunTyped' /\ answered' = answered
    BY <2>1 DEF executor, FullIInv, ServedOnce, RunTyped
  <2>3. KeepsCallbacks
    BY <1>2, <2>1, Markers DEF KeepsCallbacks, Recorded
  <2>4. MentionsTracked'
    BY <1>1, <1>2, <1>3, <1>4, <2>1, <2>3 DEF FullIInv, MentionsTracked, KeepsCallbacks
  <2>. QED BY <2>2, <2>3, <2>4
<1>6. ASSUME NEW t \in Task, MentionWhileIdle(m, t)
      PROVE  /\ ServedOnce' /\ RunTyped' /\ answered' = answered
             /\ MentionsTracked' /\ KeepsCallbacks
  <2>1. CASE window = NoWindow
    <3>1. window' = NoWindow /\ UNCHANGED <<executor, run, brief>>
      BY <1>6, <2>1 DEF MentionWhileIdle
    <3>2. ServedOnce' /\ RunTyped' /\ answered' = answered
      BY <3>1 DEF executor, FullIInv, ServedOnce, RunTyped
    <3>. QED
      BY <1>1, <1>2, <1>3, <1>4, <2>1, <3>1, <3>2
      DEF FullIInv, MentionsTracked, KeepsCallbacks
  <2>2. CASE window # NoWindow
    <3> DEFINE w == Recorded(m)
    <3>1. window' = AfterForward(w, m) /\ Forward(w, m, t, arrived')
      BY <1>6, <2>2 DEF MentionWhileIdle
    <3>2. arrived' \in SUBSET Message /\ m \in arrived'
      BY <1>1 DEF FullIInv, IInv, Typed
    <3>3. \A u \in DOMAIN brief : brief[u] \subseteq arrived'
      BY <1>1 DEF FullIInv, MentionsTracked
    <3> HIDE DEF w
    <3>4. w \in Window /\ w.callbacks = window.callbacks /\ w.messages \subseteq arrived'
          /\ Told(w, brief, direct')
      BY <1>2, <2>2 DEF w
    <3>5. /\ ServedOnce' /\ RunTyped' /\ answered' = answered
          /\ OnceIn(brief', direct') /\ Told(AfterForward(w, m), brief', direct')
          /\ \A u \in DOMAIN brief' : brief'[u] \subseteq arrived'
          /\ AfterForward(w, m) \in Window
          /\ AfterForward(w, m).callbacks = w.callbacks
      <4> DEFINE A == arrived'
                 D == direct'
      <4>1. Typed /\ ServedOnce /\ RunTyped
        BY DEF FullIInv, IInv
      <4>2. OnceIn(brief, D) /\ (m \in D => \A u \in DOMAIN brief : m \notin brief[u])
        BY <1>2
      <4>3. A \in SUBSET Message /\ m \in A /\ \A u \in DOMAIN brief : brief[u] \subseteq A
        BY <3>2, <3>3
      <4>4. w \in Window /\ w.messages \subseteq A /\ Told(w, brief, D) /\ Forward(w, m, t, A)
        BY <3>1, <3>4
      <4> HIDE DEF A, D
      <4>5. /\ ServedOnce' /\ RunTyped' /\ answered' = answered
            /\ OnceIn(brief', D) /\ Told(AfterForward(w, m), brief', D)
            /\ \A u \in DOMAIN brief' : brief'[u] \subseteq A
            /\ AfterForward(w, m) \in Window
            /\ AfterForward(w, m).callbacks = w.callbacks
        BY <4>1, <4>2, <4>3, <4>4, ForwardTells
      <4>. QED BY <4>5 DEF A, D
    <3>6. KeepsCallbacks
      BY <2>2, <3>1, <3>4, <3>5, Markers DEF KeepsCallbacks
    <3>7. MentionsTracked'
      BY <1>3, <1>4, <3>1, <3>5 DEF MentionsTracked
    <3>. QED BY <3>5, <3>6, <3>7
  <2>. QED BY <2>1, <2>2
<1>. QED BY <1>5, <1>6

\* So do the stages of a run but its end, and the cancel.
LEMMA StagesTrack ==
  ASSUME FullIInv, BeginSession \/ Drain \/ EndRun \/ Cancel
  PROVE  /\ ServedOnce' /\ RunTyped' /\ answered' = answered
         /\ MentionsTracked' /\ KeepsCallbacks
<1>1. UNCHANGED <<brief, arrived, direct, answered, mentions, serving>>
  BY DEF BeginSession, Drain, EndRun, Cancel, CancelRun, CancelReturns,
         Executor!Cancel, executor, attention, history
<1>2. UNCHANGED waiting \/ waiting' = <<>>
  BY DEF BeginSession, Drain, EndRun, Cancel, CancelRun, CancelReturns,
         Executor!Cancel, executor
<1>3. ServedOnce'
  <2>1. Range(<<>>) = {} /\ DOMAIN <<>> = {}
    BY DEF Range
  <2>. QED BY <1>1, <1>2, <2>1 DEF FullIInv, ServedOnce
<1>4. RunTyped'
  <2>1. CASE UNCHANGED run
    BY <1>1, <2>1 DEF FullIInv, RunTyped
  <2>2. ASSUME serving # Idle, NEW stage \in Stage,
               run' = [run EXCEPT !.stage = stage]
        PROVE  RunTyped'
    <3>1. run \in Run
      BY <2>2 DEF FullIInv, RunTyped
    <3>2. run' \in Run
      BY <2>2, <3>1 DEF Run
    <3>. QED BY <1>1, <2>2, <3>2, Markers DEF FullIInv, RunTyped
  <2>3. CASE BeginSession
    BY <2>2, <2>3 DEF BeginSession, Stage
  <2>4. CASE EndRun
    BY <2>2, <2>4 DEF EndRun, Stage
  <2>5. Drain \/ Cancel => UNCHANGED run
    BY DEF Drain, Cancel, CancelRun, CancelReturns
  <2>. QED BY <2>1, <2>3, <2>4, <2>5
<1>5. pendingMessages' \subseteq direct /\ heard' \subseteq direct /\ drained' \subseteq arrived
  BY DEF BeginSession, Drain, EndRun, Cancel, CancelRun, CancelReturns, history,
         FullIInv, MentionsTracked, IInv, Typed
<1>6. \/ window' = window
      \/ /\ window # NoWindow /\ pendingMessages \subseteq Message
         /\ window' = Delivered(window, pendingMessages)
  BY DEF BeginSession, Drain, EndRun, Cancel, CancelRun, CancelReturns,
         MarkedInjected, Delivered, FullIInv, IInv, Typed
<1>7. /\ KeepsCallbacks
      /\ window' # NoWindow => Told(window', brief, direct)
  <2>1. CASE window' = window
    BY <2>1 DEF KeepsCallbacks, FullIInv, MentionsTracked
  <2>2. CASE /\ window # NoWindow /\ pendingMessages \subseteq Message
             /\ window' = Delivered(window, pendingMessages)
    <3>1. window \in Window /\ Told(window, brief, direct)
      BY <2>2 DEF FullIInv, IInv, Good, InOrder, MentionsTracked
    <3>2. Delivered(window, pendingMessages) \in Window
      BY <2>2, <3>1 DEF Delivered, Window
    <3> DEFINE v == Delivered(window, pendingMessages)
    <3>3. /\ v.callbacks = window.callbacks /\ v.messages = window.messages
          /\ v.judging = window.judging
          /\ v.delivered = window.delivered \cup pendingMessages
      BY <3>1, WindowFields
    <3> HIDE DEF v
    <3>4. Told(v, brief, direct)
      BY <3>1, <3>3 DEF Told
    <3>5. window' = v /\ v # NoWindow
      BY <2>2, <3>2, Markers DEF v
    <3>. QED BY <2>2, <3>3, <3>4, <3>5 DEF KeepsCallbacks
  <2>. QED BY <1>6, <2>1, <2>2
<1>8. MentionsTracked'
  BY <1>1, <1>5, <1>7, MentionsRest DEF FullIInv, MentionsTracked
<1>. QED BY <1>1, <1>3, <1>4, <1>7, <1>8

\* A check forwards mentions that no brief carries, or starts a batch without any.
LEMMA CheckTracks ==
  ASSUME FullIInv, NEW t \in Task, CheckFollowUpBatch(t)
  PROVE  /\ ServedOnce' /\ RunTyped' /\ answered' = answered
         /\ MentionsTracked' /\ KeepsCallbacks
<1> DEFINE w == [window EXCEPT !.followUpTimer = FALSE]
<1>1. /\ window # NoWindow /\ window \in Window /\ window.messages \subseteq arrived
      /\ Told(window, brief, direct)
  BY DEF CheckFollowUpBatch, FullIInv, IInv, Good, InOrder, MentionsTracked
<1>2. w \in Window /\ SameFields(w, window)
  BY <1>1, WindowFields DEF Window
<1>3. Told(w, brief, direct) /\ w.messages \subseteq arrived
  BY <1>1, <1>2 DEF Told, SameFields
<1>4. UNCHANGED <<mentions, pendingMessages, arrived, direct, drained, heard>>
  BY DEF CheckFollowUpBatch, attention, history
<1>5. ASSUME NEW v \in Window, window' = v, v.callbacks = window.callbacks,
             Told(v, brief, direct), UNCHANGED <<executor, run, brief>>
      PROVE  /\ ServedOnce' /\ RunTyped' /\ answered' = answered
             /\ MentionsTracked' /\ KeepsCallbacks
  <2>1. ServedOnce' /\ RunTyped' /\ answered' = answered
    BY <1>5 DEF executor, FullIInv, ServedOnce, RunTyped
  <2>2. MentionsTracked'
    BY <1>4, <1>5, MentionsRest DEF FullIInv, MentionsTracked
  <2>. QED BY <1>1, <1>5, <2>1, <2>2, Markers DEF KeepsCallbacks
<1>6. CASE window' = CheckPostponed(w) /\ UNCHANGED <<executor, run, brief>>
  <2> DEFINE v == CheckScheduled(w)
  <2>1. SameFields(v, w) /\ v \in Window
    BY <1>2, WindowFields DEF CheckScheduled, Window
  <2> HIDE DEF v
  <2>2. Told(v, brief, direct) /\ v.callbacks = window.callbacks
    BY <1>2, <1>3, <2>1 DEF Told, SameFields
  <2>3. window' = v
    BY <1>6 DEF CheckPostponed, v
  <2>. QED BY <1>5, <1>6, <2>1, <2>2, <2>3
<1>7. ASSUME NEW m \in PendingDirect(w), window' = Rescheduled(AfterForward(w, m)),
             Forward(w, m, t, arrived)
      PROVE  /\ ServedOnce' /\ RunTyped' /\ answered' = answered
             /\ MentionsTracked' /\ KeepsCallbacks
  <2>1. m \in arrived /\ \A u \in DOMAIN brief : m \notin brief[u]
    BY <1>3 DEF PendingDirect, Told
  <2>2. /\ Typed /\ ServedOnce /\ RunTyped /\ OnceIn(brief, direct)
        /\ arrived \in SUBSET Message /\ \A u \in DOMAIN brief : brief[u] \subseteq arrived
    BY DEF FullIInv, IInv, Typed, MentionsTracked
  <2> HIDE DEF w
  <2>3. /\ ServedOnce' /\ RunTyped' /\ answered' = answered
        /\ OnceIn(brief', direct) /\ Told(AfterForward(w, m), brief', direct)
        /\ \A u \in DOMAIN brief' : brief'[u] \subseteq arrived
        /\ AfterForward(w, m) \in Window
        /\ AfterForward(w, m).callbacks = w.callbacks
    BY <1>2, <1>3, <1>7, <2>1, <2>2, ForwardTells
  <2>4. SameFields(window', AfterForward(w, m)) /\ window' \in Window
    BY <1>7, <2>3, WindowFields DEF Rescheduled, CheckScheduled, Window
  <2>5. Told(window', brief', direct) /\ window'.callbacks = window.callbacks
    BY <1>2, <2>3, <2>4 DEF Told, SameFields
  <2>6. MentionsTracked'
    BY <1>4, <2>3, <2>5 DEF FullIInv, MentionsTracked
  <2>. QED BY <1>1, <2>3, <2>4, <2>5, <2>6, Markers DEF KeepsCallbacks
<1>8. ASSUME ForwardsFirst(w) = {}, window' = [w EXCEPT !.judging = Untriaged(w)],
             UNCHANGED <<executor, run, brief>>
      PROVE  /\ ServedOnce' /\ RunTyped' /\ answered' = answered
             /\ MentionsTracked' /\ KeepsCallbacks
  <2>1. Untriaged(w) \cap direct = {}
    BY <1>8 DEF ForwardsFirst, PendingDirect, Untriaged
  <2>2. Untriaged(w) \in SUBSET Message
    BY <1>2 DEF Untriaged, Window
  <2> HIDE DEF w
  <2>3. /\ window' \in Window /\ window'.judging = Untriaged(w)
        /\ window'.messages = w.messages /\ window'.delivered = w.delivered
        /\ window'.callbacks = w.callbacks
    BY <1>2, <1>8, <2>2 DEF Window
  <2>4. Told(window', brief, direct) /\ window'.callbacks = window.callbacks
    BY <1>2, <1>3, <2>1, <2>3 DEF Told, SameFields
  <2>. QED BY <1>5, <1>8, <2>3, <2>4
<1>. QED BY <1>6, <1>7, <1>8 DEF CheckFollowUpBatch

\* The classifier names messages that do not address the agent.
LEMMA JudgementTracks ==
  ASSUME FullIInv, NoFollowUp \/ \E m \in Message, t \in Task : FollowUp(m, t)
  PROVE  /\ ServedOnce' /\ RunTyped' /\ answered' = answered
         /\ MentionsTracked' /\ KeepsCallbacks
<1>1. /\ window # NoWindow /\ window \in Window /\ window.messages \subseteq arrived
      /\ window.judging \subseteq arrived /\ Told(window, brief, direct)
  BY DEF NoFollowUp, FollowUp, FullIInv, IInv, Good, InOrder, MentionsTracked
<1>2. /\ Judged \in Window /\ Judged.judging = {}
      /\ Judged.messages = window.messages /\ Judged.delivered = window.delivered
      /\ Judged.callbacks = window.callbacks
  BY <1>1 DEF Judged, Window
<1>3. Told(Judged, brief, direct)
  BY <1>1, <1>2 DEF Told
<1>4. UNCHANGED <<mentions, pendingMessages, arrived, direct, drained, heard>>
  BY DEF NoFollowUp, FollowUp, attention, history
<1>5. CASE NoFollowUp
  <2>1. window' = Rescheduled(Judged) /\ UNCHANGED <<executor, run, brief>>
    BY <1>5 DEF NoFollowUp
  <2>2. SameFields(window', Judged) /\ window' \in Window
    BY <1>2, <2>1, WindowFields DEF Rescheduled, CheckScheduled, Window
  <2>3. Told(window', brief, direct) /\ window'.callbacks = window.callbacks
    BY <1>2, <1>3, <2>2 DEF Told, SameFields
  <2>4. ServedOnce' /\ RunTyped' /\ answered' = answered
    BY <2>1 DEF executor, FullIInv, ServedOnce, RunTyped
  <2>5. MentionsTracked'
    BY <1>4, <2>1, <2>3, MentionsRest DEF FullIInv, MentionsTracked
  <2>. QED BY <1>1, <2>2, <2>3, <2>4, <2>5, Markers DEF KeepsCallbacks
<1>6. ASSUME NEW m \in Message, NEW t \in Task, FollowUp(m, t)
      PROVE  /\ ServedOnce' /\ RunTyped' /\ answered' = answered
             /\ MentionsTracked' /\ KeepsCallbacks
  <2> DEFINE v == Judged
  <2>1. window' = Rescheduled(AfterForward(v, m)) /\ Forward(v, m, t, arrived)
    BY <1>6 DEF FollowUp
  <2>2. m \in arrived /\ (m \in direct => \A u \in DOMAIN brief : m \notin brief[u])
    BY <1>1, <1>6 DEF FollowUp, Told
  <2>3. /\ Typed /\ ServedOnce /\ RunTyped /\ OnceIn(brief, direct)
        /\ arrived \in SUBSET Message /\ \A u \in DOMAIN brief : brief[u] \subseteq arrived
    BY DEF FullIInv, IInv, Typed, MentionsTracked
  <2>4. /\ v \in Window /\ v.messages \subseteq arrived /\ Told(v, brief, direct)
        /\ v.callbacks = window.callbacks
    BY <1>1, <1>2, <1>3
  <2> HIDE DEF v
  <2>5. /\ ServedOnce' /\ RunTyped' /\ answered' = answered
        /\ OnceIn(brief', direct) /\ Told(AfterForward(v, m), brief', direct)
        /\ \A u \in DOMAIN brief' : brief'[u] \subseteq arrived
        /\ AfterForward(v, m) \in Window
        /\ AfterForward(v, m).callbacks = v.callbacks
    BY <2>1, <2>2, <2>3, <2>4, ForwardTells
  <2>6. SameFields(window', AfterForward(v, m)) /\ window' \in Window
    BY <2>1, <2>5, WindowFields DEF Rescheduled, CheckScheduled, Window
  <2>7. Told(window', brief', direct) /\ window'.callbacks = window.callbacks
    BY <2>4, <2>5, <2>6 DEF Told, SameFields
  <2>8. MentionsTracked'
    BY <1>4, <2>5, <2>7 DEF FullIInv, MentionsTracked
  <2>. QED BY <1>1, <2>5, <2>6, <2>7, <2>8, Markers DEF KeepsCallbacks
<1>. QED BY <1>5, <1>6

\* The remaining steps start, end or extend a window, or move callbacks.
LEMMA OthersTrack ==
  ASSUME FullIInv, IInv',
         HandleCallback \/ Expire \/ FlushIfIdle \/ Tick
           \/ \E own \in BOOLEAN : SendMessage(own)
  PROVE  ServedOnce' /\ RunTyped' /\ MentionsTracked'
<1>1. /\ UNCHANGED <<brief, arrived, direct, drained, pendingMessages>>
      /\ mentions' \subseteq direct
  BY DEF HandleCallback, Expire, FlushIfIdle, Tick, SendMessage, Block, attention,
         history, FullIInv, MentionsTracked
<1>2. heard' \subseteq direct
  BY DEF HandleCallback, Expire, FlushIfIdle, Tick, SendMessage, history, FullIInv,
         MentionsTracked
<1>3. ServedOnce' /\ RunTyped'
  <2>1. CASE HandleCallback
    BY <1>1, <2>1, AnswerServes DEF HandleCallback, FullIInv, IInv
  <2>2. CASE Expire \/ FlushIfIdle \/ Tick
    BY <1>1, <2>2 DEF Expire, FlushIfIdle, Tick, executor, FullIInv, ServedOnce, RunTyped
  <2>3. ASSUME NEW own \in BOOLEAN, SendMessage(own)
        PROVE  ServedOnce' /\ RunTyped'
    <3>1. UNCHANGED executor
      BY <2>3 DEF SendMessage
    <3>2. CASE own
      <4>1. serving # Idle /\ run' = [run EXCEPT !.sent = TRUE] /\ run \in Run
        BY <2>3, <3>2 DEF SendMessage, FullIInv, RunTyped
      <4>2. run' \in Run
        BY <4>1 DEF Run
      <4>. QED
        BY <1>1, <3>1, <4>1, <4>2, Markers DEF executor, FullIInv, ServedOnce, RunTyped
    <3>3. CASE ~own
      BY <1>1, <2>3, <3>1, <3>3 DEF SendMessage, executor, FullIInv, ServedOnce, RunTyped
    <3>. QED BY <3>2, <3>3
  <2>. QED BY <2>1, <2>2, <2>3
<1>4. ASSUME NEW cbs, window' = Opened(cbs)
      PROVE  Told(window', brief, direct)
  BY <1>4 DEF Opened, Told
<1>5. ASSUME window # NoWindow, SameFields(window', window)
             \/ \E cbs \in Seq(Task) : window' = [window EXCEPT !.callbacks = cbs]
      PROVE  Told(window', brief, direct)
  <2>1. window \in Window /\ Told(window, brief, direct)
    BY <1>5 DEF FullIInv, IInv, Good, InOrder, MentionsTracked
  <2>. QED BY <1>5, <2>1 DEF SameFields, Told, Window
<1>6. window' # NoWindow => Told(window', brief, direct)
  <2>1. CASE window' = window
    BY <2>1 DEF FullIInv, MentionsTracked
  <2>2. CASE HandleCallback
    <3>1. window # NoWindow =>
            \E cbs \in Seq(Task) : window' = [window EXCEPT !.callbacks = cbs]
      <4>1. ASSUME window # NoWindow
            PROVE  Append(window.callbacks, serving) \in Seq(Task)
        <5>1. window.callbacks \in Seq(Task)
          BY <4>1 DEF FullIInv, IInv, Good, InOrder, Window
        <5>2. serving \in Task
          BY <2>2 DEF HandleCallback, Executor!Answer, FullIInv, IInv, Typed, Executor!TypeOK
        <5>. QED BY <5>1, <5>2
      <4>2. window # NoWindow => window' = [window EXCEPT !.callbacks = Append(@, serving)]
        BY <2>2 DEF HandleCallback
      <4>. QED BY <4>1, <4>2
    <3>2. window = NoWindow => window' = window \/ window' = Opened(<<serving>>)
      BY <2>2 DEF HandleCallback
    <3>. QED BY <1>4, <1>5, <2>1, <3>1, <3>2
  <2>3. CASE Expire
    <3>1. window # NoWindow /\ window \in Window /\ window' = [window EXCEPT !.expired = TRUE]
      BY <2>3 DEF Expire, FullIInv, IInv, Good, InOrder
    <3>. QED BY <1>5, <3>1, WindowFields
  <2>4. CASE FlushIfIdle
    <3>1. window # NoWindow /\ window \in Window
      BY <2>4 DEF FlushIfIdle, FullIInv, IInv, Good, InOrder
    <3>2. window' = FlushScheduled(window) \/ window' = NoWindow
      BY <2>4 DEF FlushIfIdle
    <3>. QED BY <1>5, <3>1, <3>2, WindowFields
  <2>5. ASSUME NEW own \in BOOLEAN, SendMessage(own)
        PROVE  window' # NoWindow => Told(window', brief, direct)
    <3>1. window = NoWindow => window' = Opened(<<>>)
      BY <2>5 DEF SendMessage
    <3>2. window # NoWindow => window \in Window /\ window' = FlushScheduled(window)
      BY <2>5 DEF SendMessage, FullIInv, IInv, Good, InOrder
    <3>. QED BY <1>4, <1>5, <3>1, <3>2, WindowFields
  <2>6. Tick => window' = window
    BY DEF Tick
  <2>. QED BY <2>1, <2>2, <2>3, <2>4, <2>5, <2>6
<1>7. MentionsTracked'
  BY <1>1, <1>2, <1>6, MentionsRest DEF FullIInv, MentionsTracked
<1>. QED BY <1>3, <1>7

\* Before the first message nothing is anywhere.
LEMMA FullInit == Init => FullIInv
<1> SUFFICES ASSUME Init PROVE FullIInv
  OBVIOUS
<1>1. Range(<<>>) = {} /\ DOMAIN <<>> = {} /\ TasksOf({}) = {} /\ {} \cup {} = {}
  BY DEF Range, TasksOf
<1>2. /\ window = NoWindow /\ blocked = FALSE /\ mentions = {} /\ callbacks = {}
      /\ q5 = {} /\ waiting = <<>> /\ serving = Idle /\ answered = {}
      /\ run = NoRun /\ pendingMessages = {} /\ cancelling = FALSE
      /\ DOMAIN brief = {} /\ heard = {} /\ drained = {} /\ completed = {}
      /\ attended = {}
  BY DEF Init, Executor!Init
<1>3. ServedOnce /\ RunTyped
  BY <1>1, <1>2 DEF ServedOnce, RunTyped
<1>4. InWindow = {}
  BY <1>2 DEF InWindow
<1>5. CallbacksTracked /\ CallbackInOnePlace
  BY <1>1, <1>2, <1>4 DEF CallbacksTracked, CallbackInOnePlace, Disjoint
<1>6. MentionsTracked
  BY <1>2 DEF MentionsTracked, OnceIn
<1>. QED BY <1>2, <1>3, <1>5, <1>6, InitIInv DEF FullIInv

\* Every step keeps the whole invariant.
LEMMA FullNext == FullIInv /\ [Next]_vars => FullIInv'
<1> SUFFICES ASSUME FullIInv, [Next]_vars PROVE FullIInv'
  OBVIOUS
<1>1. IInv'
  BY NextIInv DEF FullIInv
<1>2. ASSUME KeepsCallbacks, UNCHANGED <<callbacks, q5, attended, completed, answered>>
      PROVE  CallbacksTracked' /\ CallbackInOnePlace'
  BY <1>2, CallbacksRest DEF FullIInv
<1>3. CASE UNCHANGED vars
  <2>1. UNCHANGED <<window, blocked, mentions, callbacks, q5, waiting, serving,
                    answered, run, pendingMessages, cancelling, brief, arrived,
                    direct, drained, heard, completed, attended>>
    BY <1>3 DEF vars, attention, executor, history
  <2>. QED
    BY <1>1, <2>1
    DEF FullIInv, ServedOnce, RunTyped, CallbacksTracked, CallbackInOnePlace,
        MentionsTracked, InWindow
<1>4. ASSUME NEW t \in Task, Dispatch(t)
      PROVE  FullIInv'
  <2>1. ServedOnce' /\ RunTyped' /\ answered' = answered /\ MentionsTracked'
    BY <1>4, DispatchTracks
  <2>2. UNCHANGED <<window, blocked, cancelling, callbacks, q5, attended, completed>>
    BY <1>4 DEF Dispatch, attention, history
  <2>3. KeepsCallbacks
    BY <2>2 DEF KeepsCallbacks
  <2>. QED BY <1>1, <1>2, <2>1, <2>2, <2>3 DEF FullIInv
<1>5. CASE Arrival
  <2>1. PICK m \in Message : ChatMessage(m) \/ MentionWhileProcessing(m)
                               \/ \E t \in Task : MentionWhileIdle(m, t)
    BY <1>5 DEF Arrival
  <2>2. /\ ServedOnce' /\ RunTyped' /\ answered' = answered
        /\ MentionsTracked' /\ KeepsCallbacks
    BY <2>1, ArrivalTracks
  <2>3. UNCHANGED <<blocked, cancelling, callbacks, q5, attended, completed>>
    BY <2>1 DEF ChatMessage, MentionWhileProcessing, MentionWhileIdle, Arrived, Ingest,
                attention
  <2>. QED BY <1>1, <1>2, <2>2, <2>3 DEF FullIInv
<1>6. CASE BeginSession \/ Drain \/ EndRun \/ Cancel
  <2>1. /\ ServedOnce' /\ RunTyped' /\ answered' = answered
        /\ MentionsTracked' /\ KeepsCallbacks
    BY <1>6, StagesTrack
  <2>2. /\ UNCHANGED <<callbacks, q5, attended, completed>>
        /\ blocked' \in BOOLEAN /\ cancelling' \in BOOLEAN
    BY <1>6 DEF BeginSession, Drain, EndRun, Cancel, CancelRun, CancelReturns,
                attention, history, FullIInv
  <2>. QED BY <1>1, <1>2, <2>1, <2>2 DEF FullIInv
<1>7. CASE NoFollowUp \/ (\E m \in Message, t \in Task : FollowUp(m, t))
             \/ \E t \in Task : CheckFollowUpBatch(t)
  <2>1. /\ ServedOnce' /\ RunTyped' /\ answered' = answered
        /\ MentionsTracked' /\ KeepsCallbacks
    BY <1>7, CheckTracks, JudgementTracks
  <2>2. UNCHANGED <<blocked, cancelling, callbacks, q5, attended, completed>>
    BY <1>7 DEF NoFollowUp, FollowUp, CheckFollowUpBatch, attention, history
  <2>. QED BY <1>1, <1>2, <2>1, <2>2 DEF FullIInv
<1>8. CASE HandleCallback \/ Expire \/ FlushIfIdle \/ Tick
             \/ \E own \in BOOLEAN : SendMessage(own)
  <2>1. ServedOnce' /\ RunTyped' /\ MentionsTracked'
    BY <1>1, <1>8, OthersTrack
  <2>2. blocked' \in BOOLEAN /\ cancelling' \in BOOLEAN
    BY <1>8 DEF HandleCallback, Expire, FlushIfIdle, Tick, SendMessage, Block,
                Unblocked, attention, FullIInv
  <2>3. CallbacksTracked' /\ CallbackInOnePlace'
    <3>1. CASE Expire
      <4>1. /\ window # NoWindow /\ window \in Window
            /\ window' = [window EXCEPT !.expired = TRUE]
            /\ UNCHANGED <<callbacks, q5, attended, completed, answered>>
        BY <3>1 DEF Expire, attention, executor, history, FullIInv, IInv, Good, InOrder
      <4>2. window' \in Window
        BY <4>1 DEF Window
      <4>3. KeepsCallbacks
        BY <4>1, <4>2, WindowFields, Markers DEF KeepsCallbacks, SameFields
      <4>. QED BY <1>2, <4>1, <4>3
    <3>. QED
      BY <1>1, <1>8, <3>1, HandleCallbackTracks, FlushTracks, TickTracks, SendTracks
  <2>. QED BY <1>1, <2>1, <2>2, <2>3 DEF FullIInv
<1>. QED
  BY <1>3, <1>4, <1>5, <1>6, <1>7, <1>8 DEF Next, RunStep, WindowTimers

\* In every reachable state the whole invariant holds.
LEMMA FullInvariant == Spec => []FullIInv
BY FullInit, FullNext, PTL DEF Spec

\* The callback of a task is on its way to Meta in one place at most, and a
\* message that addresses the agent is in one continuation at most, for any
\* number of messages and tasks, and whatever the timers, the classifier and
\* the user's cancels do.
THEOREM CallbacksAndMentionsArriveOnce == Spec => []WindowConsistent
<1>1. FullIInv => TypeOK
  <2> SUFFICES ASSUME FullIInv PROVE TypeOK
    OBVIOUS
  <2>1. /\ Executor!TypeOK /\ arrived \subseteq Message /\ direct \subseteq arrived
        /\ pendingMessages \subseteq arrived
        /\ \A t \in DOMAIN brief : brief[t] \subseteq Message
    BY DEF FullIInv, IInv, Typed
  <2>2. window \in Window \cup {NoWindow}
    BY DEF FullIInv, IInv, Good, InOrder
  <2>3. /\ callbacks \subseteq Callback /\ q5 \subseteq Callback
        /\ attended \subseteq Task /\ completed \subseteq Task
    BY <2>1 DEF FullIInv, CallbacksTracked, Executor!TypeOK
  <2>. QED
    BY <2>1, <2>2, <2>3 DEF FullIInv, RunTyped, MentionsTracked, TypeOK
<1>2. FullIInv => MentionForwardedOnce
  BY DEF FullIInv, MentionsTracked, OnceIn, MentionForwardedOnce
<1>3. FullIInv => WindowConsistent
  BY <1>1, <1>2 DEF FullIInv, WindowConsistent
<1>. QED BY <1>3, FullInvariant, PTL
=====
