---------------------------- MODULE CodeActSession ----------------------------
(***************************************************************************)
(* One run of a task, seen from inside: the turns of runCodeActSession     *)
(* (sandbox/session-runner.ts) while messages to the agent keep coming in. *)
(* They wait in the executor's buffer (subagent/code-act-executor.ts) and  *)
(* interrupt what is under way: an inference of the LLM after a short      *)
(* delay, a send that the host holds back to look human at once            *)
(* (sandbox/send-interrupt.ts, sandbox/host-call-handler.ts).              *)
(*                                                                         *)
(* Messages are numbered in the order they come, from 1 on since the       *)
(* buffer was last emptied for a new session.  main.ts only hands over     *)
(* messages that address the agent, so the drain for an observation, which *)
(* wants one of these, takes whatever there is, as the other drain does.   *)
(* A drain that finds nothing is over within the step that asks for it.    *)
(* Sends are delayed, as telegram.humanizedDelay.enabled has it.  What the *)
(* budget of tokens later cuts from the context is left out.               *)
(***************************************************************************)
EXTENDS Naturals, Sequences, Functions

CONSTANTS
  MaxMessages,            \* bound: messages between the starts of two sessions
  MaxTurns,               \* config.maxTurns
  MaxLeft,                \* bound: turns a session has left, however many the
                          \* code adds (runtime.extendSteps)
  MAX_TOOL_FORMAT_ERRORS,
  Send                    \* sends the host may hold back at a time

ASSUME SessionAssumption ==
  /\ MaxMessages \in Nat /\ MaxLeft \in Nat
  /\ MaxTurns \in 1..MaxLeft /\ MAX_TOOL_FORMAT_ERRORS \in Nat \ {0}

VARIABLES
  pendingMessages,  \* the executor's buffer
  drained,          \* taken from it, and being enriched
  messages,         \* the chat messages in the context of the session
  stage,            \* what the executor awaits
  next,             \* where the session goes on after the enrichment
  turns,            \* effectiveMaxTurns - turnNum
  formatErrors,     \* toolFormatErrors
  abort,            \* the interruption of the inference under way
  sends,            \* the sends that the host holds back; a stray one is of a
                    \* code that is over
  alive,            \* the sandbox of the session is alive
  endReason,
  arrived,          \* history: the messages so far
  dropped,          \* history: those a cancel has removed from the buffer
  shown             \* history: how many of the context the LLM was last given

turn == <<next, turns, formatErrors>>
history == <<arrived, dropped, shown>>
vars == <<pendingMessages, drained, messages, stage, turn, abort, sends, alive,
          endReason, history>>

Init ==
  /\ pendingMessages = <<>> /\ drained = <<>> /\ messages = <<>>
  /\ stage = "idle" /\ endReason = "none"
  /\ next = "call" /\ turns = MaxTurns
  /\ formatErrors = 0
  /\ abort = "none" /\ alive = FALSE
  /\ sends = [s \in Send |-> "no"]
  /\ arrived = 0 /\ dropped = {} /\ shown = 0

-----------------------------------------------------------------------------
(* From outside                                                             *)

\* Fault: a message does not wake the sends.
StillWaiting(s) == sends[s]

\* The listeners of waitForChange: what waits gives up.
GivesUp(s) == "no"

\* pushPendingMessage, while the executor is processing.
MessageArrives ==
  /\ stage # "idle" /\ arrived < MaxMessages
  /\ arrived' = arrived + 1
  /\ pendingMessages' = Append(pendingMessages, arrived + 1)
  /\ abort' = IF abort = "armed" THEN "debounce" ELSE abort
  /\ sends' = [s \in Send |-> GivesUp(s)]
  /\ UNCHANGED <<drained, messages, stage, turn, alive, endReason, dropped, shown>>

\* cancelCurrentRun, up to the await of the pool, which will stop the sandbox.
CancelCurrentRun ==
  /\ pendingMessages # <<>>
  /\ pendingMessages' = <<>>
  /\ dropped' = dropped \cup Range(pendingMessages)
  /\ UNCHANGED <<drained, messages, stage, turn, abort, sends, alive, endReason,
                 arrived, shown>>

\* The worker exits: stopped by the pool or by itself.
SandboxDies ==
  /\ alive
  /\ alive' = FALSE
  /\ UNCHANGED <<pendingMessages, drained, messages, stage, turn, abort, sends,
                 endReason, history>>

-----------------------------------------------------------------------------
(* From one session to the next (executeWithSandbox)                        *)

\* A task is taken from the queue: its messages are refreshed, its prompt is
\* built, the history may be compacted.
TakeTask ==
  /\ stage = "idle"
  /\ stage' = "starting"
  /\ UNCHANGED <<pendingMessages, drained, messages, turn, abort, sends, alive,
                 endReason, history>>

\* The buffer is emptied before the sandbox is acquired.
EmptyBuffer ==
  /\ stage = "starting"
  /\ stage' = "acquiring"
  /\ pendingMessages' = <<>> /\ messages' = <<>>
  /\ arrived' = 0 /\ dropped' = {} /\ shown' = 0
  /\ endReason' = "none"
  /\ UNCHANGED <<drained, turn, abort, sends, alive>>

Acquired ==
  /\ stage = "acquiring"
  /\ stage' = "top"
  /\ turns' = MaxTurns /\ formatErrors' = 0
  /\ alive' = TRUE
  /\ UNCHANGED <<pendingMessages, drained, messages, next, abort, sends,
                 endReason, history>>

\* The session returns and its result is recorded, or something before it has
\* thrown; the loop takes the next task or stops.
Finish ==
  /\ stage \in {"starting", "acquiring", "ending"}
  /\ stage' \in {"idle", "starting"}
  /\ UNCHANGED <<pendingMessages, drained, messages, turn, abort, sends, alive,
                 endReason, history>>

-----------------------------------------------------------------------------
(* The turns                                                                *)

End(reason) ==
  /\ stage' = "ending"
  /\ endReason' = reason

\* Fault: a turn without code is not one.
NotCounted == stage' = "top" /\ UNCHANGED <<turns, endReason>>

\* The loop goes on with one turn less, and those that the code has asked for.
NextTurn(more) ==
  /\ turns' = turns + more - 1
  /\ IF turns' = 0 THEN End("max_turns")
     ELSE stage' = "top" /\ UNCHANGED endReason

\* Fault: the buffer is read, not spliced.
ReadOnly == pendingMessages

\* What a drain leaves in the buffer.
Spliced == <<>>

\* drainPendingMessages, up to the await of the enrichment.
Drain(goOn) ==
  /\ drained' = pendingMessages
  /\ pendingMessages' = Spliced
  /\ stage' = "draining"
  /\ next' = goOn

\* Fault: every inference may be interrupted.
AlwaysArmed == "armed"

\* An inference may be interrupted unless messages wait already when it begins.
Armed == IF pendingMessages = <<>> THEN "armed" ELSE "none"

\* The context is given to the LLM.
Call(context) ==
  /\ messages' = context
  /\ shown' = Len(context)
  /\ stage' = "calling"
  /\ abort' = Armed

TurnBegins ==
  /\ stage = "top"
  /\ IF pendingMessages = <<>>
     THEN Call(messages) /\ UNCHANGED <<pendingMessages, drained, next>>
     ELSE Drain("call") /\ UNCHANGED <<messages, shown, abort>>
  /\ UNCHANGED <<turns, formatErrors, sends, alive, endReason, arrived,
                 dropped>>

\* The enriched messages are put into the context.
DrainEnds ==
  /\ stage = "draining"
  /\ drained' = <<>>
  /\ IF next = "call"
     THEN Call(messages \o drained) /\ UNCHANGED <<turns, endReason>>
     ELSE /\ messages' = messages \o drained
          /\ NextTurn(0)
          /\ UNCHANGED <<shown, abort>>
  /\ UNCHANGED <<pendingMessages, next, formatErrors, sends, alive, arrived,
                 dropped>>

\* What the turn has led to goes into the context, together with the messages
\* that wait.
Observe(more) ==
  IF pendingMessages = <<>>
  THEN NextTurn(more) /\ UNCHANGED <<pendingMessages, drained, next>>
  ELSE Drain("turn") /\ turns' = turns + more /\ UNCHANGED endReason

-----------------------------------------------------------------------------
(* The inference                                                            *)

\* LLM_PENDING_ABORT_DEBOUNCE_MS after the first message.
AbortFires ==
  /\ stage = "calling" /\ abort = "debounce"
  /\ abort' = "fired"
  /\ UNCHANGED <<pendingMessages, drained, messages, stage, turn, sends, alive,
                 endReason, history>>

\* The call is over: neither timer nor listener is left of it.
CallReturns ==
  /\ stage = "calling"
  /\ abort' = "none"
  /\ UNCHANGED <<messages, sends, alive, history>>

\* The interrupted call costs a turn; without a message it is a failed one.
CallInterrupted ==
  /\ CallReturns
  /\ abort = "fired"
  /\ IF pendingMessages = <<>>
     THEN End("error") /\ UNCHANGED <<pendingMessages, drained, next>>
     ELSE Drain("turn") /\ UNCHANGED endReason
  /\ UNCHANGED <<turns, formatErrors>>

CallFails ==
  /\ CallReturns
  /\ End("error")
  /\ UNCHANGED <<pendingMessages, drained, turn>>

\* The answer calls for a tool that does not exist.
AnswersInWrongFormat ==
  /\ CallReturns
  /\ formatErrors' = formatErrors + 1
  /\ IF formatErrors' >= MAX_TOOL_FORMAT_ERRORS
     THEN End("error") /\ UNCHANGED turns
     ELSE NextTurn(0)
  /\ UNCHANGED <<pendingMessages, drained, next>>

\* Fault: the session ends whatever has come in.
EndsAtOnce ==
  /\ CallReturns
  /\ End("end_turn")
  /\ UNCHANGED <<pendingMessages, drained, turn>>

\* The answer ends the task: not before new messages have been looked at, and
\* not without a digest of the session.
AnswersEndOfTask ==
  /\ CallReturns
  /\ \/ Observe(0)
     \/ /\ pendingMessages = <<>>
        /\ End("end_turn")
        /\ UNCHANGED <<pendingMessages, drained, next, turns>>
  /\ UNCHANGED formatErrors

\* Fault: a text-only answer is asked again in the same turn.
AnswersForFree ==
  /\ CallReturns
  /\ NotCounted
  /\ UNCHANGED <<pendingMessages, drained, next, formatErrors>>

AnswersWithText ==
  /\ CallReturns
  /\ Observe(0)
  /\ UNCHANGED formatErrors

\* Only the first block of code is kept, and no end of the task beside it.
AnswersWithCode ==
  /\ CallReturns
  /\ stage' = "code"
  /\ UNCHANGED <<pendingMessages, drained, turn, endReason>>

-----------------------------------------------------------------------------
(* The code                                                                 *)

\* Fault: the delay begins whatever waits.
WhateverWaits(s) == sends[s] = "no"

\* getPendingCount() before the delay.
MayBegin(s) == sends[s] = "no" /\ pendingMessages = <<>>

\* applyInterruptibleHumanizedDelay: with messages that wait the send is
\* refused, without it is held back.
HoldBack(s) ==
  /\ stage = "code" /\ alive
  /\ MayBegin(s)
  /\ sends' = [sends EXCEPT ![s] = "waiting"]
  /\ UNCHANGED <<pendingMessages, drained, messages, stage, turn, abort, alive,
                 endReason, history>>

\* The delay is over and the message goes out.
SendsOut(s) ==
  /\ sends[s] # "no"
  /\ sends' = [sends EXCEPT ![s] = "no"]
  /\ UNCHANGED <<pendingMessages, drained, messages, stage, turn, abort, alive,
                 endReason, history>>

\* The host goes on with what the code that is over has asked for.
LeftAlone ==
  sends' = [s \in Send |-> IF sends[s] = "no" THEN "no" ELSE "stray"]

\* runtime.extendSteps: as many calls of it as the code likes, each with up to 100
\* turns.
Extensions == 0..(MaxLeft - turns)

\* The worker returns when the calls nobody awaits have settled, too.
CodeEnds ==
  /\ stage = "code" /\ alive
  /\ \A s \in Send : sends[s] # "waiting"
  /\ \E more \in Extensions : Observe(more)
  /\ UNCHANGED <<messages, formatErrors, abort, sends, alive, history>>

\* An error, the refusal or interruption of a send among others, leaves the
\* code at once.
CodeThrows ==
  /\ stage = "code" /\ alive
  /\ LeftAlone
  /\ \E more \in Extensions : Observe(more)
  /\ UNCHANGED <<messages, formatErrors, abort, alive, history>>

\* The code has run out of time, for which its sandbox is stopped, or the
\* sandbox is dead.
CodeAborted ==
  /\ stage = "code"
  /\ LeftAlone
  /\ alive' = FALSE
  /\ End("error")
  /\ UNCHANGED <<pendingMessages, drained, messages, turn, abort, history>>

CallOver ==
  \/ CallInterrupted \/ CallFails \/ AnswersInWrongFormat \/ AnswersEndOfTask
  \/ AnswersWithText \/ AnswersWithCode

CodeOver == CodeEnds \/ CodeThrows \/ CodeAborted

Next ==
  \/ MessageArrives \/ CancelCurrentRun \/ SandboxDies
  \/ TakeTask \/ EmptyBuffer \/ Acquired \/ Finish
  \/ TurnBegins \/ DrainEnds
  \/ AbortFires \/ CallOver
  \/ CodeOver
  \/ \E s \in Send : HoldBack(s) \/ SendsOut(s)

\* An inference and a code have time limits, and so have the calls of the
\* enrichment; the head of the loop runs at once.
Spec ==
  /\ Init /\ [][Next]_vars
  /\ WF_vars(TurnBegins) /\ WF_vars(DrainEnds)
  /\ WF_vars(CallOver) /\ WF_vars(CodeOver)

-----------------------------------------------------------------------------
(* Properties                                                               *)

TypeOK ==
  /\ arrived \in 0..MaxMessages /\ dropped \subseteq 1..arrived
  /\ {pendingMessages, drained, messages} \subseteq Seq(1..arrived)
  /\ stage \in {"idle", "starting", "acquiring", "top", "draining", "calling",
                "code", "ending"}
  /\ next \in {"call", "turn"}
  /\ turns \in 0..MaxLeft
  /\ formatErrors \in 0..MAX_TOOL_FORMAT_ERRORS
  /\ abort \in {"none", "armed", "debounce", "fired"}
  /\ sends \in [Send -> {"no", "waiting", "stray"}]
  /\ alive \in BOOLEAN
  /\ endReason \in {"none", "end_turn", "max_turns", "error"}
  /\ shown \in 0..Len(messages)

\* The context, a batch in enrichment and the buffer are, one after the other,
\* the messages in the order they have come, each once, but for those that a
\* cancel has removed.
Line == messages \o drained \o pendingMessages

InLine ==
  /\ Range(Line) = (1..arrived) \ dropped
  /\ \A i, j \in DOMAIN Line : i < j => Line[i] < Line[j]

\* The run: types, and every message is in one place and in its turn, through
\* drains that end while others come in.
SessionConsistent == TypeOK /\ InLine

\* The last answer of the LLM knows all messages, but for those that have been
\* removed.
NothingUnseen ==
  pendingMessages = <<>> /\ drained = <<>> /\ shown = Len(messages)

\* While a send of the running code is held back no message has come in that
\* the LLM had not seen when it wrote that code: what goes out is not overtaken.
NoBlindSend == (\E s \in Send : sends[s] = "waiting") => NothingUnseen

\* While the LLM works, messages wait exactly when its call is to be
\* interrupted or cannot be: no call is thrown away for nothing, unless a
\* cancel has removed the messages, and none of the others keeps them waiting.
InterruptedForAReason ==
  stage = "calling" =>
    /\ abort = "armed" => pendingMessages = <<>>
    /\ abort # "armed" => pendingMessages # <<>> \/ dropped # {}

\* What is under way is interrupted when something has come in, and only then:
\* a send that has been held back, and the inference.
InterruptedInTime == NoBlindSend /\ InterruptedForAReason

\* A session that ends because the agent says so has shown it every message.
EndsKnowingAll ==
  [][endReason # "end_turn" /\ endReason' = "end_turn" => NothingUnseen]_vars

\* The code adds turns to its session.
Extends == stage = "code" /\ \E more \in Extensions \ {0} : Observe(more)

\* A session ends, however often it is interrupted, unless its code goes on adding
\* turns to it for ever (session-runner.ts:574, 1065).
SessionEnds == []<><<Extends>>_vars \/ (stage = "top" ~> stage = "ending")
=============================================================================
