------------------------- MODULE CodeActSessionProofs -------------------------
(***************************************************************************)
(* Theorems about CodeActSession, for any number of messages, turns and    *)
(* sends; and about SandboxPool, from which a session gets the sandbox it  *)
(* runs its code in, for any number of chats, users and instances.         *)
(***************************************************************************)
EXTENDS CodeActSession, SandboxPool, SequenceTheorems, FiniteSetTheorems, FunctionTheorems,
        WellFoundedInduction, TLAPS

Working == {"top", "draining", "calling", "code"}

\* Only a drain holds messages; a session that goes on has a turn left and an
\* error in format to spare; and the LLM knows the context while it works and
\* while its code runs.
StageHolds ==
  /\ stage # "draining" => drained = <<>>
  /\ stage \in Working => turns >= 1 /\ formatErrors < MAX_TOOL_FORMAT_ERRORS
  /\ stage \in {"calling", "code"} => shown = Len(messages)

\* A send that is held back is one of the code that runs, and nothing waits.
HeldBackInCode ==
  \A s \in Send : sends[s] = "waiting" => stage = "code" /\ pendingMessages = <<>>

IInv ==
  /\ TypeOK /\ InLine
  /\ StageHolds
  /\ HeldBackInCode
  /\ InterruptedForAReason

-----------------------------------------------------------------------------
(* Three sequences, one after the other                                     *)

\* The numbers up to n, but for those of D, in their order and each once.
Ordered(s, n, D) ==
  /\ Range(s) = (1..n) \ D
  /\ \A i, j \in DOMAIN s : i < j => s[i] < s[j]

\* A sequence with one more entry.
LEMMA AppendedIs ==
  ASSUME NEW S, NEW s \in Seq(S), NEW x \in S
  PROVE  /\ Append(s, x) \in Seq(S)
         /\ Len(Append(s, x)) = Len(s) + 1
         /\ \A i \in 1..Len(s) : Append(s, x)[i] = s[i]
         /\ Append(s, x)[Len(s) + 1] = x
OBVIOUS

\* Two sequences are one, and its elements are those of the two.
LEMMA RangeOfConcat ==
  ASSUME NEW S, NEW s \in Seq(S), NEW t \in Seq(S)
  PROVE  Range(s \o t) = Range(s) \cup Range(t)
<1>1. /\ s \o t \in Seq(S) /\ Len(s \o t) = Len(s) + Len(t)
      /\ Len(s) \in Nat /\ Len(t) \in Nat
      /\ DOMAIN s = 1..Len(s) /\ DOMAIN t = 1..Len(t) /\ DOMAIN (s \o t) = 1..(Len(s) + Len(t))
      /\ \A i \in 1..(Len(s) + Len(t)) :
           (s \o t)[i] = IF i <= Len(s) THEN s[i] ELSE t[i - Len(s)]
  BY ConcatProperties, LenProperties
<1>2. Range(s) \subseteq Range(s \o t)
  BY <1>1 DEF Range
<1>3. Range(t) \subseteq Range(s \o t)
  <2> SUFFICES ASSUME NEW j \in 1..Len(t)
               PROVE  \E i \in 1..(Len(s) + Len(t)) : (s \o t)[i] = t[j]
    BY <1>1 DEF Range
  <2>1. Len(s) + j \in 1..(Len(s) + Len(t)) /\ ~(Len(s) + j <= Len(s)) /\ Len(s) + j - Len(s) = j
    BY <1>1
  <2>. QED BY <1>1, <2>1
<1>4. Range(s \o t) \subseteq Range(s) \cup Range(t)
  BY <1>1 DEF Range
<1>. QED BY <1>2, <1>3, <1>4

\* A number that is one more comes last.
LEMMA OneMoreInOrder ==
  ASSUME NEW n \in Nat, NEW s \in Seq(1..n), NEW D \in SUBSET (1..n), Ordered(s, n, D)
  PROVE  Ordered(Append(s, n + 1), n + 1, D)
<1> DEFINE a == Append(s, n + 1)
<1>1. s \in Seq(1..(n + 1)) /\ n + 1 \in 1..(n + 1)
  BY SeqMonotonic
<1>2. /\ a \in Seq(1..(n + 1)) /\ Len(a) = Len(s) + 1 /\ Len(s) \in Nat
      /\ \A i \in 1..Len(s) : a[i] = s[i] /\ s[i] \in 1..n
      /\ a[Len(s) + 1] = n + 1
      /\ DOMAIN s = 1..Len(s) /\ DOMAIN a = 1..(Len(s) + 1)
  BY <1>1, AppendedIs, LenProperties, ElementOfSeq
<1> HIDE DEF a
<1>3. Range(a) = Range(s) \cup {n + 1}
  <2>1. Len(s) + 1 \in DOMAIN a /\ \A i \in 1..Len(s) : i \in DOMAIN a
    BY <1>2
  <2>2. Range(s) \cup {n + 1} \subseteq Range(a)
    BY <1>2, <2>1 DEF Range
  <2>3. \A i \in DOMAIN a : i \in 1..Len(s) \/ i = Len(s) + 1
    BY <1>2
  <2>4. Range(a) \subseteq Range(s) \cup {n + 1}
    BY <1>2, <2>3 DEF Range
  <2>. QED BY <2>2, <2>4
<1>4. (1..(n + 1)) \ D = ((1..n) \ D) \cup {n + 1}
  OBVIOUS
<1>5. ASSUME NEW i \in DOMAIN a, NEW j \in DOMAIN a, i < j PROVE a[i] < a[j]
  <2>1. i \in 1..Len(s) /\ a[i] = s[i] /\ s[i] <= n
    BY <1>2, <1>5
  <2>2. CASE j = Len(s) + 1
    BY <1>2, <2>1, <2>2
  <2>3. CASE j # Len(s) + 1
    <3>1. j \in 1..Len(s) /\ a[j] = s[j]
      BY <1>2, <2>3
    <3>. QED BY <1>2, <1>5, <2>1, <3>1 DEF Ordered
  <2>. QED BY <2>2, <2>3
<1>. QED BY <1>3, <1>4, <1>5 DEF Ordered, a

\* Without its last part a sequence is in order still.
LEMMA LessInOrder ==
  ASSUME NEW n \in Nat, NEW s \in Seq(1..n), NEW t \in Seq(1..n), NEW D,
         Ordered(s \o t, n, D)
  PROVE  Ordered(s, n, D \cup Range(t))
<1>1. /\ Len(s) \in Nat /\ Len(t) \in Nat
      /\ DOMAIN s = 1..Len(s) /\ DOMAIN t = 1..Len(t) /\ DOMAIN (s \o t) = 1..(Len(s) + Len(t))
      /\ \A i \in 1..(Len(s) + Len(t)) :
           (s \o t)[i] = IF i <= Len(s) THEN s[i] ELSE t[i - Len(s)]
      /\ \A i \in 1..Len(s) : s[i] \in 1..n
      /\ \A i \in 1..Len(t) : t[i] \in 1..n
  BY ConcatProperties, LenProperties, ElementOfSeq
<1>2. Range(s) \cup Range(t) = (1..n) \ D
  BY RangeOfConcat DEF Ordered
<1>3. Range(s) \cap Range(t) = {}
  <2> SUFFICES ASSUME NEW i \in 1..Len(s), NEW j \in 1..Len(t), s[i] = t[j]
               PROVE  FALSE
    BY <1>1 DEF Range
  <2>1. /\ i \in 1..(Len(s) + Len(t)) /\ Len(s) + j \in 1..(Len(s) + Len(t)) /\ i < Len(s) + j
        /\ ~(Len(s) + j <= Len(s)) /\ Len(s) + j - Len(s) = j /\ i <= Len(s)
    BY <1>1
  <2>2. (s \o t)[i] = s[i] /\ (s \o t)[Len(s) + j] = t[j]
    BY <1>1, <2>1
  <2>3. (s \o t)[i] < (s \o t)[Len(s) + j]
    BY <1>1, <2>1 DEF Ordered
  <2>. QED BY <1>1, <2>2, <2>3
<1>4. \A i, j \in DOMAIN s : i < j => s[i] < s[j]
  <2> SUFFICES ASSUME NEW i \in 1..Len(s), NEW j \in 1..Len(s), i < j
               PROVE  s[i] < s[j]
    BY <1>1
  <2>1. i \in 1..(Len(s) + Len(t)) /\ j \in 1..(Len(s) + Len(t)) /\ i <= Len(s) /\ j <= Len(s)
    BY <1>1
  <2>2. (s \o t)[i] = s[i] /\ (s \o t)[j] = s[j]
    BY <1>1, <2>1
  <2>. QED BY <1>1, <2>1, <2>2 DEF Ordered
<1>. QED BY <1>2, <1>3, <1>4 DEF Ordered

\* An empty part may stand anywhere, and the first two parts may be one.
LEMMA PartsMove ==
  ASSUME NEW S, NEW m \in Seq(S), NEW d \in Seq(S), NEW p \in Seq(S)
  PROVE  /\ m \o <<>> \o p = m \o p \o <<>>
         /\ (m \o d) \o <<>> \o p = m \o d \o p
         /\ m \o d \o <<>> = m \o d
         /\ m \o d \in Seq(S) /\ m \o d \o p \in Seq(S)
<1>1. m \o d \in Seq(S) /\ m \o p \in Seq(S) /\ m \o d \o p \in Seq(S)
  BY ConcatProperties
<1>. QED BY <1>1, ConcatEmptySeq

\* One more at the end of the last part is one more at the end.
LEMMA LastPartGrows ==
  ASSUME NEW S, NEW q \in Seq(S), NEW p \in Seq(S), NEW x \in S
  PROVE  q \o Append(p, x) = Append(q \o p, x)
<1>1. /\ Append(p, x) \in Seq(S) /\ Len(Append(p, x)) = Len(p) + 1
      /\ \A i \in 1..Len(p) : Append(p, x)[i] = p[i]
      /\ Append(p, x)[Len(p) + 1] = x
  BY AppendedIs
<1> DEFINE b == Append(p, x)
           c == q \o p
<1>2. /\ c \in Seq(S) /\ Len(c) = Len(q) + Len(p)
      /\ \A i \in 1..(Len(q) + Len(p)) : c[i] = IF i <= Len(q) THEN q[i] ELSE p[i - Len(q)]
  BY ConcatProperties
<1>3. /\ Append(c, x) \in Seq(S) /\ Len(Append(c, x)) = Len(c) + 1
      /\ \A i \in 1..Len(c) : Append(c, x)[i] = c[i]
      /\ Append(c, x)[Len(c) + 1] = x
  BY <1>2, AppendedIs
<1>4. /\ q \o b \in Seq(S) /\ Len(q \o b) = Len(q) + Len(b)
      /\ \A i \in 1..(Len(q) + Len(b)) : (q \o b)[i] = IF i <= Len(q) THEN q[i] ELSE b[i - Len(q)]
  BY <1>1, ConcatProperties
<1>5. Len(q) \in Nat /\ Len(p) \in Nat
  BY LenProperties
<1> HIDE DEF b, c
<1>6. ASSUME NEW i \in 1..(Len(q) + Len(p) + 1) PROVE (q \o b)[i] = Append(c, x)[i]
  <2>1. CASE i <= Len(q)
    BY <1>1, <1>2, <1>3, <1>4, <1>5, <2>1 DEF b
  <2>2. CASE i > Len(q) /\ i <= Len(q) + Len(p)
    BY <1>1, <1>2, <1>3, <1>4, <1>5, <2>2 DEF b
  <2>3. CASE i = Len(q) + Len(p) + 1
    BY <1>1, <1>2, <1>3, <1>4, <1>5, <2>3 DEF b
  <2>4. \/ i <= Len(q)
        \/ i > Len(q) /\ i <= Len(q) + Len(p)
        \/ i = Len(q) + Len(p) + 1
    BY <1>5
  <2>. QED BY <2>1, <2>2, <2>3, <2>4
<1>7. q \o b = Append(c, x)
  BY <1>1, <1>2, <1>3, <1>4, <1>5, <1>6, SeqEqual DEF b
<1>. QED BY <1>7 DEF b, c

-----------------------------------------------------------------------------
(* The messages                                                             *)

Arranged ==
  /\ arrived \in 0..MaxMessages /\ dropped \subseteq 1..arrived
  /\ pendingMessages \in Seq(1..arrived) /\ drained \in Seq(1..arrived)
  /\ messages \in Seq(1..arrived)
  /\ Ordered(messages \o drained \o pendingMessages, arrived, dropped)

\* What a turn does to the messages: nothing, a drain, or the end of one.
Moves ==
  \/ UNCHANGED <<pendingMessages, drained, messages>>
  \/ /\ drained = <<>> /\ drained' = pendingMessages /\ pendingMessages' = <<>>
     /\ messages' = messages
  \/ /\ messages' = messages \o drained /\ drained' = <<>>
     /\ pendingMessages' = pendingMessages

\* The order of the messages survives a drain and its end.
LEMMA MovesKeepOrder ==
  ASSUME Arranged, Moves, UNCHANGED <<arrived, dropped>>
  PROVE  Arranged'
<1> DEFINE S == 1..arrived
<1>1. /\ messages \o <<>> \o pendingMessages = messages \o pendingMessages \o <<>>
      /\ (messages \o drained) \o <<>> \o pendingMessages
           = messages \o drained \o pendingMessages
      /\ messages \o drained \in Seq(S) /\ <<>> \in Seq(S)
  BY PartsMove, EmptySeq DEF Arranged
<1>2. /\ messages' \o drained' \o pendingMessages' = messages \o drained \o pendingMessages
      /\ messages' \in Seq(S) /\ drained' \in Seq(S) /\ pendingMessages' \in Seq(S)
  BY <1>1 DEF Arranged, Moves
<1>. QED BY <1>2 DEF Arranged

\* A message that comes in is the last of the line.
LEMMA ArrivalIsLast ==
  ASSUME Arranged, MessageArrives
  PROVE  Arranged'
<1> DEFINE S == 1..(arrived + 1)
           q == messages \o drained
<1>1. /\ arrived \in Nat /\ arrived + 1 \in 0..MaxMessages /\ arrived + 1 \in S
      /\ 1..arrived \subseteq S
  BY SessionAssumption DEF Arranged, MessageArrives
<1>2. /\ messages \in Seq(S) /\ drained \in Seq(S) /\ pendingMessages \in Seq(S)
      /\ q \in Seq(1..arrived) /\ q \o pendingMessages \in Seq(1..arrived)
  BY <1>1, SeqMonotonic, PartsMove DEF Arranged
<1>3. q \in Seq(S)
  BY <1>1, <1>2, SeqMonotonic
<1> HIDE DEF q
<1>4. q \o Append(pendingMessages, arrived + 1) = Append(q \o pendingMessages, arrived + 1)
  BY <1>1, <1>2, <1>3, LastPartGrows
<1>5. Ordered(Append(q \o pendingMessages, arrived + 1), arrived + 1, dropped)
  BY <1>1, <1>2, OneMoreInOrder DEF Arranged, q
<1>6. Append(pendingMessages, arrived + 1) \in Seq(S)
  BY <1>1, <1>2, AppendedIs
<1>. QED BY <1>1, <1>2, <1>4, <1>5, <1>6 DEF Arranged, MessageArrives, q

\* A cancel takes the last part of the line away.
LEMMA CancelTakesTheLast ==
  ASSUME Arranged, CancelCurrentRun
  PROVE  Arranged'
<1> DEFINE q == messages \o drained
<1>1. /\ q \in Seq(1..arrived) /\ q \o <<>> = q /\ <<>> \in Seq(1..arrived)
      /\ arrived \in Nat
  BY PartsMove, EmptySeq, SessionAssumption DEF Arranged
<1>2. Ordered(q, arrived, dropped \cup Range(pendingMessages))
  BY <1>1, LessInOrder DEF Arranged
<1>3. Range(pendingMessages) \subseteq 1..arrived
  BY ElementOfSeq, LenProperties DEF Arranged, Range
<1>. QED BY <1>1, <1>2, <1>3 DEF Arranged, CancelCurrentRun

\* The buffer is emptied for a new session, and the context begins anew.
LEMMA EmptyIsOrdered ==
  ASSUME Arranged, drained = <<>>, EmptyBuffer
  PROVE  Arranged'
<1>1. <<>> \in Seq(1..0) /\ <<>> \o <<>> \o <<>> = <<>>
  BY EmptySeq, PartsMove
<1>2. Ordered(<<>>, 0, {})
  BY DEF Ordered, Range
<1>. QED BY <1>1, <1>2, SessionAssumption DEF Arranged, EmptyBuffer

\* Every other step of the session moves messages, or leaves them alone.
LEMMA OthersMove ==
  ASSUME StageHolds,
         \/ SandboxDies \/ TakeTask \/ Acquired \/ Finish \/ TurnBegins \/ DrainEnds
         \/ AbortFires \/ CallOver \/ CodeOver
         \/ \E s \in Send : HoldBack(s) \/ SendsOut(s)
  PROVE  Moves /\ UNCHANGED <<arrived, dropped>>
<1>1. CASE SandboxDies \/ TakeTask \/ Acquired \/ Finish
  BY <1>1 DEF SandboxDies, TakeTask, Acquired, Finish, Moves, history
<1>2. CASE TurnBegins \/ DrainEnds
  BY <1>2 DEF TurnBegins, DrainEnds, Drain, Spliced, Call, Moves, StageHolds, history
<1>3. CASE AbortFires \/ CallOver
  BY <1>3 DEF AbortFires, CallOver, CallReturns, CallInterrupted, CallFails,
     AnswersInWrongFormat, AnswersEndOfTask, AnswersWithText, AnswersWithCode, Observe,
     Drain, Spliced, Moves, StageHolds, history
<1>4. CASE CodeOver
  BY <1>4 DEF CodeOver, CodeEnds, CodeThrows, CodeAborted, Observe, Drain, Spliced, Moves,
     StageHolds, history
<1>5. CASE \E s \in Send : HoldBack(s) \/ SendsOut(s)
  BY <1>5 DEF HoldBack, SendsOut, Moves, history
<1>. QED BY <1>1, <1>2, <1>3, <1>4, <1>5

\* So the messages stay in line.
LEMMA MessagesStayInLine ==
  ASSUME Arranged, StageHolds, Next
  PROVE  Arranged'
<1>1. CASE EmptyBuffer
  BY <1>1, EmptyIsOrdered DEF EmptyBuffer, StageHolds
<1>2. CASE MessageArrives \/ CancelCurrentRun
  BY <1>2, ArrivalIsLast, CancelTakesTheLast
<1>3. CASE \/ SandboxDies \/ TakeTask \/ Acquired \/ Finish \/ TurnBegins \/ DrainEnds
           \/ AbortFires \/ CallOver \/ CodeOver
           \/ \E s \in Send : HoldBack(s) \/ SendsOut(s)
  BY <1>3, OthersMove, MovesKeepOrder
<1>. QED BY <1>1, <1>2, <1>3 DEF Next

-----------------------------------------------------------------------------
(* The stages                                                               *)

Kinds ==
  /\ stage \in {"idle", "starting", "acquiring", "top", "draining", "calling",
                "code", "ending"}
  /\ next \in {"call", "turn"}
  /\ turns \in 0..MaxLeft
  /\ formatErrors \in 0..MAX_TOOL_FORMAT_ERRORS
  /\ abort \in {"none", "armed", "debounce", "fired"}
  /\ sends \in [Send -> {"no", "waiting", "stray"}]
  /\ alive \in BOOLEAN
  /\ endReason \in {"none", "end_turn", "max_turns", "error"}
  /\ shown \in 0..Len(messages)

\* The type invariant is that the messages are in line and the rest of its kind.
LEMMA TypedIs == TypeOK /\ InLine <=> Arranged /\ Kinds
BY DEF TypeOK, InLine, Arranged, Kinds, Line, Ordered

\* The same of the next state.
LEMMA TypedNext == (TypeOK /\ InLine)' <=> Arranged' /\ Kinds'
BY DEF TypeOK, InLine, Arranged, Kinds, Line, Ordered

\* What comes from outside changes no stage; a message sets the timer of an
\* inference that may be interrupted and wakes the sends, and a cancel leaves a
\* trace of what it removes.
LEMMA OutsideHolds ==
  ASSUME Arranged, Kinds, StageHolds, HeldBackInCode, InterruptedForAReason,
         MessageArrives \/ CancelCurrentRun \/ SandboxDies
  PROVE  Kinds' /\ StageHolds' /\ HeldBackInCode' /\ InterruptedForAReason'
<1>1. CASE MessageArrives
  <2>1. arrived + 1 \in 1..(arrived + 1) /\ pendingMessages \in Seq(1..(arrived + 1))
    BY SeqMonotonic, SessionAssumption DEF Arranged
  <2>2. Append(pendingMessages, arrived + 1) # <<>>
    BY <2>1, AppendedIs, LenProperties, EmptySeq
  <2>. QED
    BY <1>1, <2>2 DEF MessageArrives, GivesUp, Kinds, StageHolds, HeldBackInCode,
       InterruptedForAReason, turn
<1>2. CASE CancelCurrentRun
  <2>1. Range(pendingMessages) # {}
    <3>1. Len(pendingMessages) \in Nat \ {0} /\ DOMAIN pendingMessages = 1..Len(pendingMessages)
      BY <1>2, LenProperties, EmptySeq DEF CancelCurrentRun, Arranged
    <3>2. 1 \in DOMAIN pendingMessages
      BY <3>1
    <3>. QED BY <3>2 DEF Range
  <2>. QED
    BY <1>2, <2>1 DEF CancelCurrentRun, Kinds, StageHolds, HeldBackInCode,
       InterruptedForAReason, turn
<1>3. CASE SandboxDies
  BY <1>3 DEF SandboxDies, Kinds, StageHolds, HeldBackInCode, InterruptedForAReason, turn,
     history
<1>. QED BY <1>1, <1>2, <1>3

\* A session starts with all its turns, and with nothing held back.
LEMMA SessionsHold ==
  ASSUME Arranged, Kinds, StageHolds, HeldBackInCode, InterruptedForAReason,
         TakeTask \/ EmptyBuffer \/ Acquired \/ Finish
  PROVE  Kinds' /\ StageHolds' /\ HeldBackInCode' /\ InterruptedForAReason'
<1>1. Len(<<>>) = 0
  BY EmptySeq
<1>2. CASE TakeTask \/ Finish
  BY <1>2 DEF TakeTask, Finish, Kinds, StageHolds, HeldBackInCode, InterruptedForAReason,
     turn, history, Working
<1>3. CASE EmptyBuffer
  BY <1>1, <1>3 DEF EmptyBuffer, Kinds, StageHolds, HeldBackInCode, InterruptedForAReason,
     turn, Working
<1>4. CASE Acquired
  <2>1. /\ turns' = MaxTurns /\ MaxTurns \in 0..MaxLeft /\ MaxTurns >= 1
        /\ formatErrors' = 0 /\ 0 < MAX_TOOL_FORMAT_ERRORS
        /\ 0 \in 0..MAX_TOOL_FORMAT_ERRORS
    BY <1>4, SessionAssumption DEF Acquired
  <2>2. Kinds'
    BY <1>4, <2>1 DEF Acquired, Kinds, history
  <2>. QED
    BY <1>4, <2>1, <2>2 DEF Acquired, StageHolds, HeldBackInCode, InterruptedForAReason
<1>. QED BY <1>2, <1>3, <1>4

\* The LLM is called with all of the context, and may be interrupted unless
\* messages wait.
LEMMA TurnsHold ==
  ASSUME Arranged, Kinds, StageHolds, HeldBackInCode, TurnBegins \/ DrainEnds
  PROVE  Kinds' /\ StageHolds' /\ HeldBackInCode' /\ InterruptedForAReason'
<1>1. /\ Len(messages) \in Nat /\ Len(messages \o drained) \in Nat
      /\ Len(messages) <= Len(messages \o drained)
  BY ConcatProperties, LenProperties DEF Arranged
<1>2. \A s \in Send : sends[s] # "waiting"
  BY DEF HeldBackInCode, TurnBegins, DrainEnds
<1>3. CASE TurnBegins
  BY <1>1, <1>2, <1>3 DEF TurnBegins, Call, Armed, Drain, Spliced, Kinds, StageHolds,
     HeldBackInCode, InterruptedForAReason, Working
<1>4. CASE DrainEnds
  BY <1>1, <1>2, <1>4, SessionAssumption DEF DrainEnds, Call, Armed, NextTurn, End, Kinds,
     StageHolds, HeldBackInCode, InterruptedForAReason, Working
<1>. QED BY <1>3, <1>4

\* An answer takes a turn, or is followed by a drain that will.
LEMMA AnswersHold ==
  ASSUME Arranged, Kinds, StageHolds, HeldBackInCode, InterruptedForAReason,
         AbortFires \/ CallOver
  PROVE  Kinds' /\ StageHolds' /\ HeldBackInCode' /\ InterruptedForAReason'
<1>1. Len(messages) \in Nat
  BY LenProperties DEF Arranged
<1>2. \A s \in Send : sends[s] # "waiting"
  BY DEF HeldBackInCode, AbortFires, CallOver, CallReturns, CallInterrupted, CallFails,
     AnswersInWrongFormat, AnswersEndOfTask, AnswersWithText, AnswersWithCode
<1>3. CASE AbortFires
  BY <1>3 DEF AbortFires, Kinds, StageHolds, HeldBackInCode, InterruptedForAReason, turn,
     history
<1>4. CASE CallInterrupted \/ CallFails \/ AnswersWithCode
  BY <1>1, <1>2, <1>4 DEF CallReturns, CallInterrupted, CallFails, AnswersWithCode, Drain,
     Spliced, End, Kinds, StageHolds, HeldBackInCode, InterruptedForAReason, turn, history,
     Working
<1>5. CASE AnswersInWrongFormat
  BY <1>1, <1>2, <1>5, SessionAssumption DEF CallReturns, AnswersInWrongFormat, NextTurn, End,
     Kinds, StageHolds, HeldBackInCode, InterruptedForAReason, history, Working
<1>6. CASE AnswersEndOfTask \/ AnswersWithText
  BY <1>1, <1>2, <1>6, SessionAssumption DEF CallReturns, AnswersEndOfTask, AnswersWithText,
     Observe, NextTurn, Drain, Spliced, End, Kinds, StageHolds, HeldBackInCode,
     InterruptedForAReason, history, Working
<1>. QED BY <1>3, <1>4, <1>5, <1>6 DEF CallOver

\* A code ends with none of its sends held back, and the session with it unless it
\* has a turn left.
LEMMA CodesHold ==
  ASSUME Arranged, Kinds, StageHolds, HeldBackInCode, CodeOver
  PROVE  Kinds' /\ StageHolds' /\ HeldBackInCode' /\ InterruptedForAReason'
<1>1. Len(messages) \in Nat
  BY LenProperties DEF Arranged
<1>2. /\ \A s \in Send : sends'[s] # "waiting"
      /\ sends' \in [Send -> {"no", "waiting", "stray"}]
  BY DEF CodeOver, CodeEnds, CodeThrows, CodeAborted, LeftAlone, Kinds
<1>3. CASE CodeEnds \/ CodeThrows
  <2>1. PICK more \in Nat : Observe(more) /\ turns + more <= MaxLeft
    BY <1>3, SessionAssumption DEF CodeEnds, CodeThrows, Extensions, Kinds
  <2>2. /\ UNCHANGED <<messages, formatErrors, abort, shown>> /\ alive' \in BOOLEAN
        /\ stage = "code"
    BY <1>3 DEF CodeEnds, CodeThrows, history, Kinds
  <2>. QED
    BY <1>1, <1>2, <2>1, <2>2, SessionAssumption DEF Observe, NextTurn, Drain,
       Spliced, End, Kinds, StageHolds, HeldBackInCode, InterruptedForAReason, Working
<1>4. CASE CodeAborted
  BY <1>1, <1>2, <1>4 DEF CodeAborted, End, Kinds, StageHolds, HeldBackInCode,
     InterruptedForAReason, turn, history, Working
<1>. QED BY <1>3, <1>4 DEF CodeOver

\* A send is held back only while the code runs and nothing waits.
LEMMA SendsHold ==
  ASSUME Kinds, StageHolds, HeldBackInCode, InterruptedForAReason,
         NEW s \in Send, HoldBack(s) \/ SendsOut(s)
  PROVE  Kinds' /\ StageHolds' /\ HeldBackInCode' /\ InterruptedForAReason'
BY DEF HoldBack, SendsOut, MayBegin, Kinds, StageHolds, HeldBackInCode,
   InterruptedForAReason, turn, history

\* IInv is inductive.
LEMMA SessionInvariant == Spec => []IInv
<1>1. Init => IInv
  <2> SUFFICES ASSUME Init PROVE IInv
    OBVIOUS
  <2>1. /\ <<>> \in Seq(1..0) /\ <<>> \o <<>> \o <<>> = <<>> /\ Len(<<>>) = 0
    BY EmptySeq, PartsMove
  <2>2. Arranged
    BY <2>1, SessionAssumption DEF Init, Arranged, Ordered, Range
  <2>3. Kinds /\ StageHolds /\ HeldBackInCode /\ InterruptedForAReason
    <3>1. /\ MaxTurns \in 0..MaxLeft
          /\ 0 \in 0..MAX_TOOL_FORMAT_ERRORS /\ 0 \in 0..0
      BY SessionAssumption
    <3>2. Kinds
      BY <2>1, <3>1 DEF Init, Kinds
    <3>. QED
      BY <3>1, <3>2 DEF Init, StageHolds, HeldBackInCode, InterruptedForAReason, Working
  <2>. QED BY <2>2, <2>3, TypedIs DEF IInv
<1>2. IInv /\ [Next]_vars => IInv'
  <2> SUFFICES ASSUME IInv, [Next]_vars PROVE IInv'
    OBVIOUS
  <2>1. Arranged /\ Kinds /\ StageHolds /\ HeldBackInCode /\ InterruptedForAReason
    BY TypedIs DEF IInv
  <2>2. CASE UNCHANGED vars
    BY <2>1, <2>2, TypedNext DEF vars, turn, history, IInv, Arranged, Kinds, StageHolds,
       HeldBackInCode, InterruptedForAReason
  <2>3. CASE Next
    <3>1. Arranged'
      BY <2>1, <2>3, MessagesStayInLine
    <3>2. Kinds' /\ StageHolds' /\ HeldBackInCode' /\ InterruptedForAReason'
      BY <2>1, <2>3, OutsideHolds, SessionsHold, TurnsHold, AnswersHold, CodesHold, SendsHold
      DEF Next
    <3>. QED BY <3>1, <3>2, TypedNext DEF IInv
  <2>. QED BY <2>2, <2>3
<1>. QED BY <1>1, <1>2, PTL DEF Spec

-----------------------------------------------------------------------------

\* The messages are in one place each and in the order they came, through
\* drains that end while others come in: the conjunction the run checks, for
\* any number of messages and turns.
THEOREM MessagesAreInLine == Spec => []SessionConsistent
<1>1. IInv => SessionConsistent
  BY DEF IInv, SessionConsistent
<1>. QED BY <1>1, SessionInvariant, PTL

\* No send that is held back has been overtaken by a message, and no inference
\* is interrupted, or left to go on, against the buffer.
THEOREM InterruptionIsInTime == Spec => []InterruptedInTime
<1>1. IInv => InterruptedInTime
  BY DEF IInv, InterruptedInTime, NoBlindSend, NothingUnseen, HeldBackInCode, StageHolds
<1>. QED BY <1>1, SessionInvariant, PTL

\* A session that ends because the agent says so has shown it every message.
THEOREM AgentHasSeenAll == Spec => EndsKnowingAll
<1>1. IInv /\ [Next]_vars =>
        [endReason # "end_turn" /\ endReason' = "end_turn" => NothingUnseen]_vars
  <2> SUFFICES ASSUME IInv, Next, endReason # "end_turn", endReason' = "end_turn"
               PROVE  NothingUnseen
    BY DEF vars
  <2>1. CASE AnswersEndOfTask
    BY <2>1 DEF AnswersEndOfTask, CallReturns, Observe, NextTurn, End, NothingUnseen, IInv,
       StageHolds
  <2>2. CASE ~AnswersEndOfTask
    BY <2>2 DEF Next, MessageArrives, CancelCurrentRun, SandboxDies, TakeTask, EmptyBuffer,
       Acquired, Finish, TurnBegins, DrainEnds, AbortFires, CallOver, CallInterrupted,
       CallFails, AnswersInWrongFormat, AnswersWithText, AnswersWithCode, CallReturns,
       CodeOver, CodeEnds, CodeThrows, CodeAborted, Call, Drain, Observe, NextTurn, End,
       HoldBack, SendsOut, history, turn
  <2>. QED BY <2>1, <2>2
<1>. QED BY <1>1, SessionInvariant, PTL DEF Spec, EndsKnowingAll

-----------------------------------------------------------------------------
(* The sandbox of a session comes from the pool.                            *)

\* A set of numbers has a least one.
LEMMA LeastNatural ==
  ASSUME NEW T \in SUBSET Nat, T # {}
  PROVE  \E m \in T : \A k \in T : m <= k
<1> DEFINE R == OpToRel(<, Nat)
<1>1. IsWellFoundedOn(R, Nat)
  BY NatLessThanWellFounded, Zenon
<1> HIDE DEF R
<1>2. PICK m \in T : \A k \in T : ~(<<k, m>> \in R)
  BY <1>1, WFMin
<1>3. \A k \in T : ~(k < m)
  BY <1>2, Zenon DEF R, OpToRel
<1>4. \A k \in T : m <= k
  BY <1>3
<1>. QED BY <1>4

\* What is left of the first entries of s without those of S.
Left(f, n, s, S) ==
  IF n = 0 THEN <<>>
  ELSE IF s[n] \in S THEN f[n - 1] ELSE Append(f[n - 1], s[n])

IsRest(f, N, s, S) == f = [n \in 0..N |-> Left(f, n, s, S)]

\* There is such a function: a shortest one that is missing would be one entry
\* longer than one that is there.
LEMMA RestExists ==
  ASSUME NEW N \in Nat, NEW s, NEW S
  PROVE  \E f : IsRest(f, N, s, S)
<1> DEFINE Missing == {k \in Nat : ~\E f : IsRest(f, k, s, S)}
<1>1. Missing = {}
  <2> SUFFICES ASSUME Missing # {} PROVE FALSE
    OBVIOUS
  <2>1. PICK m \in Missing : \A k \in Missing : m <= k
    BY LeastNatural
  <2>2. m # 0
    <3>1. IsRest([n \in 0..0 |-> <<>>], 0, s, S)
      BY DEF IsRest, Left
    <3>. QED BY <3>1
  <2>3. m \in Nat /\ m - 1 \in Nat /\ m - 1 \notin Missing
    BY <2>1, <2>2
  <2>4. PICK f : IsRest(f, m - 1, s, S)
    BY <2>3
  <2> DEFINE g == [n \in 0..m |-> IF n <= m - 1 THEN f[n] ELSE Left(f, m, s, S)]
  <2>5. ASSUME NEW n \in 0..m
        PROVE  g[n] = Left(g, n, s, S)
    <3>1. CASE n = m
      <4>1. g[n] = Left(f, m, s, S) /\ g[m - 1] = f[m - 1]
        BY <2>3, <2>2, <3>1
      <4>. QED BY <4>1, <3>1 DEF Left
    <3>2. CASE n # m
      <4>1. n \in 0..(m - 1)
        BY <2>3, <3>2
      <4>2. f[n] = Left(f, n, s, S)
        BY <2>4, <4>1 DEF IsRest
      <4>3. g[n] = f[n] /\ (n # 0 => g[n - 1] = f[n - 1])
        BY <2>3, <4>1
      <4>. QED BY <4>2, <4>3 DEF Left
    <3>. QED BY <3>1, <3>2
  <2>6. IsRest(g, m, s, S)
    BY <2>5 DEF IsRest
  <2>. QED BY <2>6
<1>. QED BY <1>1

\* What Without() returns is the last of the values of its function.
LEMMA WithoutIs ==
  ASSUME NEW T, NEW s \in Seq(T), NEW S
  PROVE  \E f : /\ Without(s, S) = f[Len(s)]
                /\ \A n \in 0..Len(s) : f[n] = Left(f, n, s, S)
<1> DEFINE F == CHOOSE f : IsRest(f, Len(s), s, S)
<1>1. Len(s) \in Nat
  BY LenProperties
<1>2. IsRest(F, Len(s), s, S)
  BY <1>1, RestExists
<1>3. Without(s, S) = F[Len(s)]
  BY Zenon DEF Without, IsRest, Left
<1> HIDE DEF F
<1>. QED BY <1>1, <1>2, <1>3 DEF IsRest

Once(s) == \A i, j \in 1..Len(s) : s[i] = s[j] => i = j

Has(s, n, x) == \E i \in 1..n : s[i] = x

\* Without(s, S) has what s has outside S, as often.
LEMMA WithoutHolds ==
  ASSUME NEW T, NEW s \in Seq(T), Once(s), NEW S
  PROVE  /\ Without(s, S) \in Seq(T) /\ Once(Without(s, S))
         /\ \A x : Has(Without(s, S), Len(Without(s, S)), x)
                     <=> Has(s, Len(s), x) /\ x \notin S
<1>1. Len(s) \in Nat /\ \A i \in 1..Len(s) : s[i] \in T
  BY LenProperties, ElementOfSeq
<1>2. PICK f : /\ Without(s, S) = f[Len(s)]
               /\ \A n \in 0..Len(s) : f[n] = Left(f, n, s, S)
  BY WithoutIs
<1> DEFINE Good(n) == /\ f[n] \in Seq(T) /\ Once(f[n])
                      /\ \A x : Has(f[n], Len(f[n]), x) <=> Has(s, n, x) /\ x \notin S
           Bad == {n \in 0..Len(s) : ~Good(n)}
<1>3. Good(0)
  <2>1. f[0] = <<>> /\ Len(<<>>) = 0 /\ <<>> \in Seq(T)
    BY <1>1, <1>2, EmptySeq DEF Left
  <2>. QED BY <2>1 DEF Once, Has
<1>4. ASSUME NEW n \in 1..Len(s), Good(n - 1) PROVE Good(n)
  <2>1. n \in Nat /\ n - 1 \in Nat /\ n \in 0..Len(s) /\ n # 0
    BY <1>1
  <2>2. \A x : Has(s, n, x) <=> Has(s, n - 1, x) \/ s[n] = x
    BY <2>1 DEF Has
  <2>3. CASE s[n] \in S
    <3>1. f[n] = f[n - 1]
      BY <1>2, <2>1, <2>3 DEF Left
    <3>. QED BY <1>4, <2>2, <2>3, <3>1
  <2>4. CASE s[n] \notin S
    <3>1. f[n] = Append(f[n - 1], s[n])
      BY <1>2, <2>1, <2>4 DEF Left
    <3> DEFINE p == f[n - 1]
               q == f[n]
    <3>2. p \in Seq(T) /\ Once(p) /\ s[n] \in T /\ Len(p) \in Nat
      BY <1>1, <1>4, LenProperties
    <3>3. /\ q \in Seq(T) /\ Len(q) = Len(p) + 1 /\ q[Len(p) + 1] = s[n]
          /\ \A i \in 1..Len(p) : q[i] = p[i]
      BY <3>1, <3>2, AppendProperties
    <3>4. ~Has(p, Len(p), s[n])
      <4>1. ~Has(s, n - 1, s[n])
        BY <1>1, <2>1 DEF Once, Has
      <4>. QED BY <1>4, <4>1
    <3>5. \A x : Has(q, Len(q), x) <=> Has(p, Len(p), x) \/ s[n] = x
      <4> HIDE DEF p, q
      <4>. QED BY <3>2, <3>3 DEF Has
    <3>6. Once(q)
      <4> HIDE DEF p, q
      <4>. QED BY <3>2, <3>3, <3>4 DEF Has, Once
    <3>. QED BY <1>4, <2>2, <2>4, <3>3, <3>5, <3>6
  <2>. QED BY <2>3, <2>4
<1> HIDE DEF Good
<1>5. Bad = {}
  <2> SUFFICES ASSUME Bad # {} PROVE FALSE
    OBVIOUS
  <2>1. PICK m \in Bad : \A k \in Bad : m <= k
    <3>1. Bad \in SUBSET Nat
      BY <1>1
    <3>. QED BY <3>1, LeastNatural
  <2>2. m \in 1..Len(s) /\ m - 1 \in 0..Len(s) /\ m - 1 \notin Bad
    BY <1>1, <1>3, <2>1
  <2>. QED BY <1>4, <2>1, <2>2
<1>6. Good(Len(s))
  BY <1>1, <1>5
<1>. QED BY <1>2, <1>6 DEF Good

\* The order of use has each chat that has an entry, once.
InOrder(rec, p) ==
  /\ rec \in Seq(Chat) /\ Once(rec)
  /\ \A c \in Chat : Has(rec, Len(rec), c) <=> p[c] # NoEntry

\* Entries that are dropped leave the order.
LEMMA DropKeepsOrder ==
  ASSUME InOrder(recency, pool), NEW S, NEW p,
         \A c \in Chat : p[c] # NoEntry <=> pool[c] # NoEntry /\ c \notin S
  PROVE  InOrder(Without(recency, S), p)
<1>1. recency \in Seq(Chat) /\ Once(recency)
  BY DEF InOrder
<1>2. /\ Without(recency, S) \in Seq(Chat) /\ Once(Without(recency, S))
      /\ \A x : Has(Without(recency, S), Len(Without(recency, S)), x)
                  <=> Has(recency, Len(recency), x) /\ x \notin S
  BY <1>1, WithoutHolds
<1>. QED BY <1>2 DEF InOrder

\* An entry that is used comes last.
LEMMA TouchKeepsOrder ==
  ASSUME InOrder(recency, pool), NEW c \in Chat, NEW p,
         \A d \in Chat : p[d] # NoEntry <=> pool[d] # NoEntry \/ d = c
  PROVE  InOrder(Touched(c), p)
<1> DEFINE w == Without(recency, {c})
           t == Touched(c)
<1>1. recency \in Seq(Chat) /\ Once(recency)
  BY DEF InOrder
<1>2. /\ w \in Seq(Chat) /\ Once(w)
      /\ \A x : Has(w, Len(w), x) <=> Has(recency, Len(recency), x) /\ x # c
  BY <1>1, WithoutHolds
<1>3. t = Append(w, c)
  BY DEF Touched
<1> HIDE DEF w, t
<1>4. Len(w) \in Nat /\ Len(t) = Len(w) + 1 /\ t \in Seq(Chat) /\ t[Len(w) + 1] = c
      /\ \A i \in 1..Len(w) : t[i] = w[i]
  BY <1>2, <1>3, LenProperties, AppendProperties
<1>5. \A x : Has(t, Len(t), x) <=> Has(w, Len(w), x) \/ x = c
  BY <1>4 DEF Has
<1>6. Once(t)
  <2>1. \A i \in 1..Len(w) : w[i] # c
    BY <1>2 DEF Has
  <2>. QED BY <1>2, <1>4, <2>1 DEF Once
<1>7. \A d \in Chat : Has(t, Len(t), d) <=> p[d] # NoEntry
  BY <1>2, <1>5 DEF InOrder
<1>. QED BY <1>4, <1>6, <1>7 DEF InOrder, t

\* The oldest of some chats with an entry is one of them.
LEMMA OldestIsOne ==
  ASSUME InOrder(recency, pool), NEW S \in SUBSET Chat, S # {},
         \A c \in S : pool[c] # NoEntry
  PROVE  OldestOf(S) \in S
<1> DEFINE K == {k \in DOMAIN recency : recency[k] \in S}
<1>1. DOMAIN recency = 1..Len(recency) /\ Len(recency) \in Nat
  BY LenProperties DEF InOrder
<1>2. K \in SUBSET Nat /\ K # {}
  BY <1>1 DEF InOrder, Has
<1>3. \E k \in K : \A j \in K : k <= j
  BY <1>2, LeastNatural
<1> DEFINE m == CHOOSE k \in K : \A j \in K : k <= j
<1>4. m \in K
  BY <1>3
<1>. QED BY <1>4 DEF OldestOf

-----------------------------------------------------------------------------
(* The invariant of the pool                                                *)

PoolTypes ==
  /\ pool \in [Chat -> Entry \cup {NoEntry}]
  /\ InOrder(recency, pool)
  /\ proc \in [Instance -> Process]
  /\ background \in [Instance -> BOOLEAN]
  /\ skills \in [Instance -> Skills]
  /\ home \in [Instance -> Chat \cup {NoChat}]
  /\ phase \in [User -> Phase]
  /\ destroying \in [Chat -> Instance \cup {None}]
  /\ disposing \in [called : BOOLEAN, await : SUBSET Instance]
  /\ overlapped \subseteq Chat

\* A worker that is starting is the one of the user who waits for it.
StartIsOwn(u) ==
  LET i == phase[u].inst IN
  /\ proc[i] = "starting" /\ home[i] = ChatOf[u]
  /\ \A v \in User : phase[v].inst = i => v = u

\* Nothing else happens to the chat in the meantime.
StartsAlone(u) ==
  LET c == ChatOf[u] IN
  /\ pool[c] = NoEntry /\ destroying[c] = None
  /\ \A v \in User : phase[v].at = "starting" /\ ChatOf[v] = c => v = u

\* A sole user's entry is in use.
SoleUseIsKnown(u) ==
  /\ phase[u].at = "using" /\ UsersOf(ChatOf[u]) = {u}
  /\ pool[ChatOf[u]] # NoEntry /\ pool[ChatOf[u]].inst = phase[u].inst
  => pool[ChatOf[u]].inUse

UsersHold ==
  \A u \in User :
    /\ phase[u].at # "out" => phase[u].inst \in Instance
    /\ phase[u].at = "starting" =>
         StartIsOwn(u) /\ (ChatOf[u] \notin overlapped => StartsAlone(u))
    /\ SoleUseIsKnown(u)

\* An entry has a worker of its chat that has started.
EntryHolds(c) ==
  LET i == pool[c].inst IN
  /\ proc[i] # "starting" /\ (proc[i] # "dead" => home[i] = c)
  /\ skills[i] = "old" => pool[c].stale

\* What destroy() waits for has been stopped, and is the worker of the entry that
\* will go.
DestroyHolds(c) ==
  /\ proc[destroying[c]] \in {"stopping", "dead"}
  /\ c \notin overlapped /\ pool[c] # NoEntry => pool[c].inst = destroying[c]

ChatsHold ==
  \A c \in Chat :
    /\ pool[c] # NoEntry => EntryHolds(c)
    /\ destroying[c] # None => DestroyHolds(c)

\* A worker that is up is in an entry, but for the chats named.
Watched(i) ==
  proc[i] = "up" /\ home[i] \notin overlapped /\ Open =>
    \E c \in Chat : pool[c] # NoEntry /\ pool[c].inst = i

WorkersHold ==
  \A i \in Instance :
    /\ proc[i] = "dead" => skills[i] = "current"
    /\ proc[i] = "starting" => skills[i] # "old"
    /\ Watched(i)

\* The starts in flight are counted by the peak.
CountsHold ==
  /\ peak \in 0..Cardinality(User) /\ Cardinality(InFlight) <= peak
  /\ OvershootBounded

PoolInv == PoolTypes /\ UsersHold /\ ChatsHold /\ WorkersHold /\ CountsHold

-----------------------------------------------------------------------------
(* Each step keeps the invariant                                            *)

\* What the constants are.
LEMMA PoolConstants ==
  /\ IsFiniteSet(Chat) /\ IsFiniteSet(User)
  /\ \A u \in User : ChatOf[u] \in Chat
  /\ MaxInstances \in Nat \ {0} /\ None \notin Instance
  /\ NoEntry \notin Entry
BY PoolAssumption DEF Entry

\* An entry has an instance.
LEMMA EntryIs ==
  ASSUME PoolTypes, NEW c \in Chat, pool[c] # NoEntry
  PROVE  /\ pool[c] \in Entry /\ pool[c].inst \in Instance
         /\ pool[c].inUse \in BOOLEAN /\ pool[c].stale \in BOOLEAN
BY DEF PoolTypes, Entry

\* Fewer entries and starts are within the bounds.
LEMMA CountsStay ==
  ASSUME CountsHold, UNCHANGED peak,
         \A c \in Chat : pool'[c] # NoEntry => pool[c] # NoEntry,
         \A u \in User : phase'[u].at = "starting" => phase[u].at = "starting"
  PROVE  CountsHold'
<1> DEFINE P == Pooled(pool)
           Q == Pooled(pool')
           I == InFlight
           J == {u \in User : phase'[u].at = "starting"}
<1>1. /\ P \in SUBSET Chat /\ I \in SUBSET User
      /\ Q \in SUBSET P /\ J \in SUBSET I
  BY DEF Pooled, InFlight
<1>2. InFlight' = J
  BY DEF InFlight
<1> HIDE DEF P, Q, I, J
<1>3. /\ IsFiniteSet(P) /\ IsFiniteSet(I) /\ IsFiniteSet(User)
  BY <1>1, PoolConstants, FS_Subset
<1>4. /\ Cardinality(P) \in Nat /\ Cardinality(Q) \in Nat /\ Cardinality(Q) <= Cardinality(P)
      /\ Cardinality(I) \in Nat /\ Cardinality(J) \in Nat /\ Cardinality(J) <= Cardinality(I)
      /\ Cardinality(User) \in Nat
  BY <1>1, <1>3, FS_Subset, FS_CardinalityType
<1>5. /\ peak \in 0..Cardinality(User) /\ Cardinality(I) <= peak
      /\ Cardinality(P) + Cardinality(I) <= MaxInstances + (IF peak = 0 THEN 0 ELSE peak - 1)
  BY DEF CountsHold, OvershootBounded, P, I
<1>6. /\ Cardinality(J) <= peak'
      /\ Cardinality(Q) + Cardinality(J) <= MaxInstances + (IF peak' = 0 THEN 0 ELSE peak' - 1)
  BY <1>4, <1>5, PoolConstants
<1>. QED BY <1>2, <1>5, <1>6 DEF CountsHold, OvershootBounded, Q

\* A worker exits.
LEMMA ExitKeeps ==
  ASSUME PoolInv, NEW i \in Instance, Exit(i)
  PROVE  PoolInv'
<1>1. /\ proc[i] \in {"up", "stopping"}
      /\ proc' = [proc EXCEPT ![i] = "dead"]
      /\ skills' = [skills EXCEPT ![i] = "current"]
      /\ home' = [home EXCEPT ![i] = NoChat]
      /\ UNCHANGED <<pool, recency, background, phase, destroying, disposing, overlapped, peak>>
  BY DEF Exit, Forget
<1>2. PoolTypes'
  BY <1>1 DEF PoolInv, PoolTypes, Process, Skills
<1>3. /\ \A j \in Instance : j # i => proc'[j] = proc[j] /\ skills'[j] = skills[j] /\ home'[j] = home[j]
      /\ proc'[i] = "dead" /\ skills'[i] = "current"
  BY <1>1 DEF PoolInv, PoolTypes
<1>4. UsersHold'
  BY <1>1, <1>3 DEF PoolInv, UsersHold, StartIsOwn, StartsAlone, SoleUseIsKnown, UsersOf
<1>5. ChatsHold'
  BY <1>1, <1>3, EntryIs DEF PoolInv, PoolTypes, ChatsHold, EntryHolds, DestroyHolds
<1>6. WorkersHold'
  BY <1>1, <1>3 DEF PoolInv, WorkersHold, Watched, Open
<1>7. CountsHold'
  BY <1>1, CountsStay DEF PoolInv
<1>. QED BY <1>2, <1>4, <1>5, <1>6, <1>7 DEF PoolInv

\* Only workers that are up are stopped, and nothing else changes.
Stopping(p) ==
  \A j \in Instance : p[j] = proc[j] \/ (proc[j] = "up" /\ p[j] = "stopping")

\* What stop() leaves of the workers it is called for, and of their tabs.
LEMMA StoppedIs ==
  ASSUME PoolTypes, NEW S
  PROVE  /\ Stopped(S) \in [Instance -> Process]
         /\ Stopping(Stopped(S))
         /\ \A i \in S \cap Instance : Stopped(S)[i] # "up"
         /\ \A i \in Instance \ S : Stopped(S)[i] = proc[i]
         /\ Silenced(S) \in [Instance -> BOOLEAN]
BY DEF PoolTypes, Stopped, Silenced, Stopping, Process

\* Workers are stopped, and the entries stay.
LEMMA StopKeeps ==
  ASSUME PoolInv, Stopping(proc'),
         proc' \in [Instance -> Process], background' \in [Instance -> BOOLEAN],
         UNCHANGED <<pool, recency, skills, home, phase, destroying, overlapped, peak>>,
         \/ UNCHANGED disposing
         \/ ~Open' /\ disposing' \in [called : BOOLEAN, await : SUBSET Instance]
  PROVE  PoolInv'
<1>1. PoolTypes'
  BY DEF PoolInv, PoolTypes
<1>2. UsersHold'
  BY DEF PoolInv, UsersHold, StartIsOwn, StartsAlone, SoleUseIsKnown, UsersOf, Stopping
<1>3. ChatsHold'
  <2> SUFFICES ASSUME NEW c \in Chat
               PROVE  /\ pool[c] # NoEntry => EntryHolds(c)'
                      /\ destroying[c] # None => DestroyHolds(c)'
    BY DEF ChatsHold
  <2>1. destroying[c] # None => destroying[c] \in Instance
    BY DEF PoolInv, PoolTypes
  <2>. QED BY <2>1, EntryIs DEF PoolInv, ChatsHold, EntryHolds, DestroyHolds, Stopping
<1>4. WorkersHold'
  BY DEF PoolInv, WorkersHold, Watched, Open, Stopping
<1>5. CountsHold'
  BY CountsStay DEF PoolInv
<1>. QED BY <1>1, <1>2, <1>3, <1>4, <1>5 DEF PoolInv

\* A background command starts or ends, a worker is stopped under it, or the
\* pool is disposed of.
LEMMA StopsKeep ==
  ASSUME PoolInv,
         \/ \E u \in User : runBackground(u) \/ ExecuteTimesOut(u)
         \/ \E i \in Instance : BackgroundEnds(i)
         \/ dispose
  PROVE  PoolInv'
<1>a. PoolTypes
  BY DEF PoolInv
<1>1. ASSUME NEW u \in User, runBackground(u) PROVE PoolInv'
  <2>1. background' \in [Instance -> BOOLEAN] /\ proc' \in [Instance -> Process] /\ Stopping(proc')
    BY <1>a, <1>1 DEF PoolTypes, runBackground, Stopping
  <2>2. /\ UNCHANGED <<pool, recency, skills, home, phase, destroying, overlapped, peak>>
        /\ UNCHANGED disposing
    BY <1>1 DEF runBackground
  <2>. QED BY <2>1, <2>2, StopKeeps
<1>2. ASSUME NEW i \in Instance, BackgroundEnds(i) PROVE PoolInv'
  <2>1. background' \in [Instance -> BOOLEAN] /\ proc' \in [Instance -> Process] /\ Stopping(proc')
    BY <1>a, <1>2 DEF PoolTypes, BackgroundEnds, Stopping
  <2>2. /\ UNCHANGED <<pool, recency, skills, home, phase, destroying, overlapped, peak>>
        /\ UNCHANGED disposing
    BY <1>2 DEF BackgroundEnds
  <2>. QED BY <2>1, <2>2, StopKeeps
<1>3. ASSUME NEW u \in User, ExecuteTimesOut(u) PROVE PoolInv'
  <2>1. background' \in [Instance -> BOOLEAN] /\ proc' \in [Instance -> Process] /\ Stopping(proc')
    BY <1>a, <1>3, StoppedIs DEF ExecuteTimesOut
  <2>2. /\ UNCHANGED <<pool, recency, skills, home, phase, destroying, overlapped, peak>>
        /\ UNCHANGED disposing
    BY <1>3 DEF ExecuteTimesOut
  <2>. QED BY <2>1, <2>2, StopKeeps
<1>4. CASE dispose
  <2>1. background' \in [Instance -> BOOLEAN] /\ proc' \in [Instance -> Process] /\ Stopping(proc')
    BY <1>a, <1>4, StoppedIs DEF dispose
  <2>2. disposing' = [called |-> TRUE, await |-> {pool[c].inst : c \in Pooled(pool)}]
    BY <1>4 DEF dispose
  <2>3. {pool[c].inst : c \in Pooled(pool)} \in SUBSET Instance
    BY <1>a, EntryIs DEF Pooled
  <2>4. ~Open' /\ disposing' \in [called : BOOLEAN, await : SUBSET Instance]
    BY <2>2, <2>3 DEF Open
  <2>5. UNCHANGED <<pool, recency, skills, home, phase, destroying, overlapped, peak>>
    BY <1>4 DEF dispose
  <2>. QED BY <2>1, <2>4, <2>5, StopKeeps
<1>. QED BY <1>1, <1>2, <1>3, <1>4

\* destroy() stops the worker of the chat's entry.
LEMMA DestroyKeeps ==
  ASSUME PoolInv, NEW c \in Chat, destroy(c)
  PROVE  PoolInv'
<1>a. PoolTypes /\ pool[c] # NoEntry /\ pool[c].inst \in Instance
  BY EntryIs DEF PoolInv, destroy
<1>u. UNCHANGED <<pool, recency, skills, home, phase, disposing, overlapped, peak>>
  BY DEF destroy
<1> DEFINE i == pool[c].inst
<1>b. /\ proc' \in [Instance -> Process] /\ Stopping(proc') /\ proc'[i] # "up"
      /\ background' \in [Instance -> BOOLEAN]
  <2>1. proc' = Stopped({i}) /\ background' = Silenced({i})
    BY DEF destroy
  <2>. QED BY <1>a, <2>1, StoppedIs
<1>c. /\ destroying' \in [Chat -> Instance \cup {None}] /\ destroying'[c] = i
      /\ \A d \in Chat : d # c => destroying'[d] = destroying[d]
  <2>1. destroying' = [destroying EXCEPT ![c] = i]
    BY DEF destroy
  <2>. QED BY <1>a, <2>1 DEF PoolTypes
<1>1. PoolTypes'
  BY <1>a, <1>u, <1>b, <1>c DEF PoolTypes
<1>2. UsersHold'
  <2>1. ASSUME NEW u \in User, phase[u].at = "starting", ChatOf[u] \notin overlapped
        PROVE  ChatOf[u] # c
    BY <1>a, <2>1 DEF PoolInv, UsersHold, StartsAlone
  <2>2. ASSUME NEW u \in User, phase[u].at = "starting" PROVE StartIsOwn(u)'
    <3>1. StartIsOwn(u) /\ phase[u].inst \in Instance
      BY <2>2 DEF PoolInv, UsersHold
    <3>. QED BY <3>1, <1>u, <1>b DEF StartIsOwn, Stopping
  <2>3. ASSUME NEW u \in User, phase[u].at = "starting", ChatOf[u] \notin overlapped
        PROVE  StartsAlone(u)'
    <3>1. StartsAlone(u) /\ ChatOf[u] \in Chat /\ ChatOf[u] # c
      BY <2>1, <2>3, PoolConstants DEF PoolInv, UsersHold
    <3>. QED BY <3>1, <1>u, <1>c DEF StartsAlone
  <2>4. \A u \in User : SoleUseIsKnown(u)' /\ (phase[u].at # "out" => phase[u].inst \in Instance)
    BY <1>u DEF PoolInv, UsersHold, SoleUseIsKnown, UsersOf
  <2>. QED BY <1>u, <2>2, <2>3, <2>4 DEF UsersHold
<1>3. ChatsHold'
  <2>1. proc[i] # "starting"
    BY <1>a DEF PoolInv, ChatsHold, EntryHolds
  <2>2. proc'[i] \in {"stopping", "dead"}
    BY <1>a, <1>b, <2>1 DEF Stopping, PoolTypes, Process
  <2> HIDE DEF i
  <2> SUFFICES ASSUME NEW d \in Chat
               PROVE  /\ pool[d] # NoEntry => EntryHolds(d)'
                      /\ destroying'[d] # None => DestroyHolds(d)'
    BY <1>u DEF ChatsHold
  <2>3. pool[d] # NoEntry => EntryHolds(d)'
    BY <1>a, <1>b, <1>u, EntryIs DEF PoolInv, ChatsHold, EntryHolds, Stopping
  <2>4. CASE d = c
    BY <1>c, <1>u, <2>2, <2>3, <2>4 DEF DestroyHolds, i
  <2>5. CASE d # c
    <3>1. destroying'[d] = destroying[d] /\ (destroying[d] # None => destroying[d] \in Instance)
      BY <1>a, <1>c, <2>5 DEF PoolTypes
    <3>. QED BY <1>b, <1>u, <2>3, <3>1 DEF PoolInv, ChatsHold, DestroyHolds, Stopping
  <2>. QED BY <2>4, <2>5
<1>4. WorkersHold'
  <2> HIDE DEF i
  <2>. QED BY <1>u, <1>b DEF PoolInv, WorkersHold, Watched, Open, Stopping
<1>5. CountsHold'
  BY <1>u, CountsStay DEF PoolInv
<1>. QED BY <1>1, <1>2, <1>3, <1>4, <1>5 DEF PoolInv

\* Some entries go and the workers of some are stopped: a worker that is up and
\* of no other entry is one of these, but for the chats named.
Gone(S, p) ==
  /\ \A c \in Chat : p[c] # NoEntry <=> pool[c] # NoEntry /\ c \notin S
  /\ \A c \in Chat : p[c] # NoEntry =>
       /\ p[c].inst = pool[c].inst /\ (pool[c].inUse => p[c].inUse)
       /\ p[c] \in Entry
  /\ \A c \in Chat : c \in S /\ pool[c] # NoEntry /\ c \notin overlapped =>
       proc'[pool[c].inst] # "up" \/ ~Open

\* What is left as it is when entries go.
LEMMA EntriesGo ==
  ASSUME PoolInv, NEW S, Gone(S, pool'),
         pool' \in [Chat -> Entry \cup {NoEntry}],
         recency' = Without(recency, S), Stopping(proc'),
         proc' \in [Instance -> Process], background' \in [Instance -> BOOLEAN],
         skills' \in [Instance -> Skills],
         \A i \in Instance : /\ proc[i] = "dead" => skills'[i] = skills[i]
                             /\ proc[i] = "starting" => skills'[i] # "old",
         \A c \in Chat : pool'[c] # NoEntry =>
           (skills'[pool'[c].inst] = "old" => pool'[c].stale),
         destroying' \in [Chat -> Instance \cup {None}],
         \A c \in Chat : destroying'[c] = destroying[c] \/ destroying'[c] = None,
         disposing' \in [called : BOOLEAN, await : SUBSET Instance],
         disposing'.called = disposing.called,
         UNCHANGED <<home, phase, overlapped, peak>>
  PROVE  PoolInv'
<1>a. PoolTypes
  BY DEF PoolInv
<1>1. PoolTypes'
  <2>1. InOrder(recency', pool')
    BY <1>a, DropKeepsOrder DEF PoolTypes, Gone
  <2>. QED BY <1>a, <2>1 DEF PoolTypes
<1>2. UsersHold'
  <2>1. ASSUME NEW u \in User, phase[u].at = "starting" PROVE StartIsOwn(u)'
    <3>1. StartIsOwn(u) /\ phase[u].inst \in Instance
      BY <2>1 DEF PoolInv, UsersHold
    <3>. QED BY <3>1 DEF StartIsOwn, Stopping
  <2>2. ASSUME NEW u \in User, phase[u].at = "starting", ChatOf[u] \notin overlapped
        PROVE  StartsAlone(u)'
    <3>1. StartsAlone(u) /\ ChatOf[u] \in Chat
      BY <2>2, PoolConstants DEF PoolInv, UsersHold
    <3>. QED BY <3>1 DEF StartsAlone, Gone
  <2>3. ASSUME NEW u \in User PROVE SoleUseIsKnown(u)'
    <3>1. SoleUseIsKnown(u) /\ ChatOf[u] \in Chat
      BY PoolConstants DEF PoolInv, UsersHold
    <3>. QED BY <3>1 DEF SoleUseIsKnown, Gone, UsersOf
  <2>. QED BY <2>1, <2>2, <2>3 DEF UsersHold, PoolInv
<1>3. ChatsHold'
  <2> SUFFICES ASSUME NEW c \in Chat
               PROVE  /\ pool'[c] # NoEntry => EntryHolds(c)'
                      /\ destroying'[c] # None => DestroyHolds(c)'
    BY DEF ChatsHold
  <2>1. ASSUME pool'[c] # NoEntry PROVE EntryHolds(c)'
    <3>1. pool[c] # NoEntry /\ pool'[c].inst = pool[c].inst
      BY <2>1 DEF Gone
    <3>2. EntryHolds(c) /\ pool[c].inst \in Instance
      BY <1>a, <3>1, EntryIs DEF PoolInv, ChatsHold
    <3>. QED BY <2>1, <3>1, <3>2 DEF EntryHolds, Stopping
  <2>2. ASSUME destroying'[c] # None PROVE DestroyHolds(c)'
    <3>1. destroying'[c] = destroying[c] /\ DestroyHolds(c) /\ destroying[c] \in Instance
      BY <1>a, <2>2 DEF PoolInv, ChatsHold, PoolTypes
    <3>. QED BY <3>1 DEF DestroyHolds, Stopping, Gone
  <2>. QED BY <2>1, <2>2
<1>4. WorkersHold'
  <2>1. ASSUME NEW i \in Instance PROVE Watched(i)'
    <3> SUFFICES ASSUME proc'[i] = "up", home[i] \notin overlapped, Open'
                 PROVE  \E c \in Chat : pool'[c] # NoEntry /\ pool'[c].inst = i
      BY DEF Watched
    <3>1. proc[i] = "up" /\ Open
      BY DEF Stopping, Open
    <3>2. PICK c \in Chat : pool[c] # NoEntry /\ pool[c].inst = i
      BY <3>1 DEF PoolInv, WorkersHold, Watched
    <3>3. home[i] = c
      BY <3>1, <3>2 DEF PoolInv, ChatsHold, EntryHolds
    <3>4. c \notin S
      BY <3>1, <3>2, <3>3 DEF Gone
    <3>. QED BY <3>2, <3>4 DEF Gone
  <2>2. ASSUME NEW i \in Instance
        PROVE  /\ proc'[i] = "dead" => skills'[i] = "current"
               /\ proc'[i] = "starting" => skills'[i] # "old"
    BY DEF PoolInv, WorkersHold, Stopping
  <2>. QED BY <2>1, <2>2 DEF WorkersHold
<1>5. CountsHold'
  <2>1. \A c \in Chat : pool'[c] # NoEntry => pool[c] # NoEntry
    BY DEF Gone
  <2>. QED BY <2>1, CountsStay DEF PoolInv
<1>. QED BY <1>1, <1>2, <1>3, <1>4, <1>5 DEF PoolInv

\* No instance can be had: the chat's own entry is gone all the same, and its
\* worker stopped.
LEMMA RefusalKeeps ==
  ASSUME PoolInv, NEW u \in User, AcquireRefused(u)
  PROVE  PoolInv'
<1> DEFINE c == ChatOf[u]
<1>a. PoolTypes /\ c \in Chat
  BY PoolConstants DEF PoolInv
<1>u. /\ UNCHANGED <<home, phase, overlapped, peak>> /\ UNCHANGED <<background, skills, destroying, disposing>>
      /\ recency' = Without(recency, {c})
  BY DEF AcquireRefused
<1>b. /\ proc' \in [Instance -> Process] /\ Stopping(proc')
      /\ \A i \in Recycled(c) \cap Instance : proc'[i] # "up"
  <2>1. proc' = Stopped(Recycled(c))
    BY DEF AcquireRefused
  <2>. QED BY <1>a, <2>1, StoppedIs
<1>c. /\ pool' \in [Chat -> Entry \cup {NoEntry}] /\ pool'[c] = NoEntry
      /\ \A d \in Chat : d # c => pool'[d] = pool[d]
  <2>1. pool' = [pool EXCEPT ![c] = NoEntry]
    BY DEF AcquireRefused
  <2>. QED BY <1>a, <2>1 DEF PoolTypes
<1>d. pool[c] # NoEntry => proc'[pool[c].inst] # "up"
  <2> SUFFICES ASSUME pool[c] # NoEntry PROVE proc'[pool[c].inst] # "up"
    OBVIOUS
  <2>1. pool[c].inst \in Instance
    BY <1>a, EntryIs
  <2>2. ~Reusable(c)
    BY DEF AcquireRefused
  <2>3. pool[c].inst \in Recycled(c) \/ proc[pool[c].inst] # "up"
    BY <2>2 DEF Reusable, Recycled, isAlive
  <2>. QED BY <1>b, <2>1, <2>3 DEF Stopping
<1> HIDE DEF c
<1>e. Gone({c}, pool')
  BY <1>a, <1>c, <1>d, EntryIs DEF Gone
<1>f. /\ \A i \in Instance : proc[i] = "starting" => skills[i] # "old"
      /\ \A d \in Chat : pool'[d] # NoEntry => (skills[pool'[d].inst] = "old" => pool'[d].stale)
  BY <1>c DEF PoolInv, WorkersHold, ChatsHold, EntryHolds
<1>g. /\ skills' = skills /\ background' \in [Instance -> BOOLEAN]
      /\ skills' \in [Instance -> Skills]
      /\ destroying' = destroying /\ destroying' \in [Chat -> Instance \cup {None}]
      /\ disposing' = disposing /\ disposing' \in [called : BOOLEAN, await : SUBSET Instance]
  BY <1>a, <1>u DEF PoolTypes
<1>. QED BY <1>u, <1>b, <1>c, <1>e, <1>f, <1>g, EntriesGo

\* destroy() ends: the entry that goes is of the worker it has stopped.
LEMMA DestroyedKeeps ==
  ASSUME PoolInv, NEW c \in Chat, Destroyed(c)
  PROVE  PoolInv'
<1>a. PoolTypes /\ destroying[c] # None /\ destroying[c] \in Instance
  BY DEF PoolInv, PoolTypes, Destroyed
<1>u. /\ UNCHANGED <<home, phase, overlapped, peak>>
      /\ UNCHANGED <<proc, background, skills, disposing>>
      /\ recency' = Without(recency, {c})
  BY DEF Destroyed
<1>c. /\ pool' \in [Chat -> Entry \cup {NoEntry}] /\ pool'[c] = NoEntry
      /\ \A d \in Chat : d # c => pool'[d] = pool[d]
  <2>1. pool' = [pool EXCEPT ![c] = NoEntry]
    BY DEF Destroyed
  <2>. QED BY <1>a, <2>1 DEF PoolTypes
<1>d. /\ destroying' \in [Chat -> Instance \cup {None}]
      /\ \A d \in Chat : destroying'[d] = destroying[d] \/ destroying'[d] = None
  <2>1. destroying' = [destroying EXCEPT ![c] = None]
    BY DEF Destroyed
  <2>. QED BY <1>a, <2>1 DEF PoolTypes
<1>e. Gone({c}, pool')
  <2>1. pool[c] # NoEntry /\ c \notin overlapped => proc[pool[c].inst] # "up"
    BY <1>a DEF PoolInv, ChatsHold, DestroyHolds
  <2>. QED BY <1>a, <1>u, <1>c, <2>1, EntryIs DEF Gone
<1>f. /\ \A i \in Instance : proc[i] = "starting" => skills[i] # "old"
      /\ \A d \in Chat : pool'[d] # NoEntry => (skills[pool'[d].inst] = "old" => pool'[d].stale)
  BY <1>c DEF PoolInv, WorkersHold, ChatsHold, EntryHolds
<1>g. /\ skills' = skills /\ background' \in [Instance -> BOOLEAN]
      /\ skills' \in [Instance -> Skills]
      /\ proc' \in [Instance -> Process] /\ Stopping(proc')
      /\ disposing' = disposing /\ disposing' \in [called : BOOLEAN, await : SUBSET Instance]
  BY <1>a, <1>u DEF PoolTypes, Stopping
<1>. QED BY <1>u, <1>c, <1>d, <1>e, <1>f, <1>g, EntriesGo

\* dispose() ends, and the pool is cleared.
LEMMA DisposedKeeps ==
  ASSUME PoolInv, Disposed
  PROVE  PoolInv'
<1>a. PoolTypes /\ ~Open /\ disposing.called = TRUE
  BY DEF PoolInv, Disposed, Open
<1>u. /\ UNCHANGED <<home, phase, overlapped, peak>>
      /\ UNCHANGED <<proc, background, skills, destroying>>
      /\ recency' = <<>> /\ pool' = [c \in Chat |-> NoEntry]
  BY DEF Disposed
<1>b. /\ disposing' \in [called : BOOLEAN, await : SUBSET Instance]
      /\ disposing'.called = disposing.called
  BY <1>a DEF Disposed
<1>c. PoolTypes'
  <2>1. InOrder(<<>>, [c \in Chat |-> NoEntry])
    BY EmptySeq DEF InOrder, Once, Has
  <2>. QED BY <1>a, <1>u, <1>b, <2>1 DEF PoolTypes
<1>d. \A c \in Chat : pool'[c] = NoEntry
  BY <1>u
<1>1. UsersHold'
  <2>1. ASSUME NEW u \in User
        PROVE  /\ phase[u].at = "starting" => StartIsOwn(u)'
               /\ phase[u].at = "starting" /\ ChatOf[u] \notin overlapped => StartsAlone(u)'
               /\ SoleUseIsKnown(u)'
    BY <1>u, <1>d, PoolConstants DEF PoolInv, UsersHold, StartIsOwn, StartsAlone, SoleUseIsKnown
  <2>. QED BY <1>u, <2>1 DEF PoolInv, UsersHold
<1>2. ChatsHold'
  BY <1>u, <1>d DEF PoolInv, ChatsHold, DestroyHolds
<1>3. WorkersHold'
  BY <1>a, <1>u, <1>b DEF PoolInv, WorkersHold, Watched, Open
<1>4. CountsHold'
  BY <1>u, <1>d, CountsStay DEF PoolInv
<1>. QED BY <1>c, <1>1, <1>2, <1>3, <1>4 DEF PoolInv

\* The idle entries go, by the clock.
LEMMA CleanupKeeps ==
  ASSUME PoolInv, cleanupIdle
  PROVE  PoolInv'
<1>a. PoolTypes
  BY DEF PoolInv
<1>1. PICK S : /\ S \in SUBSET Pooled(pool)
               /\ pool' = [c \in Chat |-> IF c \in S THEN NoEntry ELSE pool[c]]
               /\ recency' = Without(recency, S)
               /\ proc' = Stopped({pool[c].inst : c \in S})
               /\ background' = Silenced({pool[c].inst : c \in S})
  BY DEF cleanupIdle, Drop, Kept, Reclaimable, Idle, Evictable
<1>u. /\ UNCHANGED <<home, phase, overlapped, peak>>
      /\ UNCHANGED <<skills, destroying, disposing>>
  BY DEF cleanupIdle
<1> DEFINE I == {pool[c].inst : c \in S}
<1>b. /\ proc' \in [Instance -> Process] /\ Stopping(proc')
      /\ \A i \in I \cap Instance : proc'[i] # "up"
      /\ background' \in [Instance -> BOOLEAN]
  BY <1>a, <1>1, StoppedIs
<1>c. /\ pool' \in [Chat -> Entry \cup {NoEntry}]
      /\ \A d \in Chat : pool'[d] = IF d \in S THEN NoEntry ELSE pool[d]
  BY <1>a, <1>1 DEF PoolTypes
<1>d. \A c \in Chat : c \in S /\ pool[c] # NoEntry => proc'[pool[c].inst] # "up"
  BY <1>a, <1>b, EntryIs
<1>r. recency' = Without(recency, S)
  BY <1>1
<1>e. Gone(S, pool')
  BY <1>a, <1>c, <1>d, EntryIs DEF Gone
<1>f. /\ \A i \in Instance : proc[i] = "starting" => skills[i] # "old"
      /\ \A d \in Chat : pool'[d] # NoEntry => (skills[pool'[d].inst] = "old" => pool'[d].stale)
  BY <1>c DEF PoolInv, WorkersHold, ChatsHold, EntryHolds
<1>g. /\ skills' = skills
      /\ skills' \in [Instance -> Skills]
      /\ destroying' = destroying /\ destroying' \in [Chat -> Instance \cup {None}]
      /\ disposing' = disposing /\ disposing' \in [called : BOOLEAN, await : SUBSET Instance]
  BY <1>a, <1>u DEF PoolTypes
<1>. QED BY <1>u, <1>r, <1>b, <1>c, <1>e, <1>f, <1>g, EntriesGo

\* The skills are reloaded: the idle entries go, the others are marked.
LEMMA InvalidationKeeps ==
  ASSUME PoolInv, invalidateSkills
  PROVE  PoolInv'
<1>a. PoolTypes
  BY DEF PoolInv
<1> DEFINE S == Reclaimable(Pooled(pool))
           I == {pool[c].inst : c \in S}
<1>1. /\ pool' = [c \in Chat |-> IF c \in S THEN NoEntry ELSE Marked(pool[c])]
      /\ recency' = Without(recency, S)
      /\ proc' = Stopped(I)
      /\ background' = Silenced(I)
  BY DEF invalidateSkills, Drop
<1>2. PICK late \in SUBSET {i \in Instance : proc[i] = "starting"} :
        skills' = [i \in Instance |-> IF proc[i] = "up" THEN "old"
                                      ELSE IF i \in late THEN "unnoticed" ELSE skills[i]]
  BY DEF invalidateSkills
<1>u. /\ UNCHANGED <<home, phase, overlapped, peak>>
      /\ UNCHANGED <<destroying, disposing>>
  BY DEF invalidateSkills
<1>b. /\ proc' \in [Instance -> Process] /\ Stopping(proc')
      /\ \A i \in I \cap Instance : proc'[i] # "up"
      /\ background' \in [Instance -> BOOLEAN]
  BY <1>a, <1>1, StoppedIs
<1>r. recency' = Without(recency, S)
  BY <1>1
<1>3. ASSUME NEW d \in Chat, pool[d] # NoEntry
      PROVE  /\ Marked(pool[d]) \in Entry /\ Marked(pool[d]) # NoEntry
             /\ Marked(pool[d]).inst = pool[d].inst
             /\ Marked(pool[d]).inUse = pool[d].inUse
             /\ Marked(pool[d]).stale = TRUE
  BY <1>a, <1>3, EntryIs, PoolConstants DEF Marked, Entry
<1>c. /\ pool' \in [Chat -> Entry \cup {NoEntry}]
      /\ \A d \in Chat : pool'[d] = IF d \in S THEN NoEntry ELSE Marked(pool[d])
  <2>1. \A d \in Chat : pool[d] = NoEntry => Marked(pool[d]) = NoEntry
    BY DEF Marked
  <2>. QED BY <1>1, <1>3, <2>1
<1>d. \A c \in Chat : c \in S /\ pool[c] # NoEntry => proc'[pool[c].inst] # "up"
  BY <1>a, <1>b, EntryIs
<1>n. \A c \in Chat : pool[c] = NoEntry => Marked(pool[c]) = NoEntry
  BY DEF Marked
<1> HIDE DEF S
<1>e. Gone(S, pool')
  <2>1. ASSUME NEW c \in Chat
        PROVE  /\ pool'[c] # NoEntry <=> pool[c] # NoEntry /\ c \notin S
               /\ pool'[c] # NoEntry => pool'[c] = Marked(pool[c])
    BY <1>3, <1>n, <1>c
  <2>. QED BY <1>3, <1>d, <2>1 DEF Gone
<1>g. skills' \in [Instance -> Skills]
  BY <1>a, <1>2 DEF PoolTypes, Skills
<1>f. /\ \A i \in Instance : /\ proc[i] = "dead" => skills'[i] = skills[i]
                             /\ proc[i] = "starting" => skills'[i] # "old"
      /\ \A d \in Chat : pool'[d] # NoEntry => (skills'[pool'[d].inst] = "old" => pool'[d].stale)
  <2>1. \A i \in Instance : /\ proc[i] = "dead" => skills'[i] = skills[i]
                            /\ proc[i] = "starting" => skills'[i] # "old"
    BY <1>2 DEF PoolInv, WorkersHold
  <2>2. \A d \in Chat : pool'[d] # NoEntry => pool'[d].stale
    BY <1>c, <1>3, <1>n
  <2>. QED BY <2>1, <2>2
<1>h. /\ destroying' = destroying /\ destroying' \in [Chat -> Instance \cup {None}]
      /\ disposing' = disposing /\ disposing' \in [called : BOOLEAN, await : SUBSET Instance]
  BY <1>a, <1>u DEF PoolTypes
<1>. QED BY <1>u, <1>r, <1>b, <1>c, <1>e, <1>f, <1>g, <1>h, EntriesGo

\* Entries are used or released, and are still there; one user begins or ends its
\* use.
LEMMA EntriesStay ==
  ASSUME PoolInv, NEW u \in User,
         phase' \in [User -> Phase],
         \A v \in User : v # u => phase'[v] = phase[v],
         phase[u].at # "starting", phase'[u].at # "starting",
         phase'[u].at # "out" => phase'[u].inst \in Instance,
         phase'[u].inst \in Instance => proc[phase'[u].inst] # "starting",
         pool' \in [Chat -> Entry \cup {NoEntry}],
         \A d \in Chat : pool'[d] # NoEntry <=> pool[d] # NoEntry,
         \A d \in Chat : pool[d] # NoEntry =>
           pool'[d].inst = pool[d].inst /\ pool'[d].stale = pool[d].stale,
         \A d \in Chat : d # ChatOf[u] => pool'[d] = pool[d],
         pool[ChatOf[u]] # NoEntry /\ phase'[u].at = "using" => pool'[ChatOf[u]].inUse,
         InOrder(recency', pool'),
         UNCHANGED <<proc, background, skills, home, destroying, disposing, overlapped, peak>>
  PROVE  PoolInv'
<1>a. PoolTypes
  BY DEF PoolInv
<1>1. PoolTypes'
  BY <1>a DEF PoolTypes
<1>2. UsersHold'
  <2> SUFFICES ASSUME NEW v \in User
               PROVE  /\ phase'[v].at # "out" => phase'[v].inst \in Instance
                      /\ phase'[v].at = "starting" =>
                           StartIsOwn(v)' /\ (ChatOf[v] \notin overlapped => StartsAlone(v)')
                      /\ SoleUseIsKnown(v)'
    BY DEF UsersHold
  <2>1. ASSUME phase'[v].at = "starting"
        PROVE  StartIsOwn(v)' /\ (ChatOf[v] \notin overlapped => StartsAlone(v)')
    <3>1. /\ v # u /\ phase[v].inst \in Instance
          /\ StartIsOwn(v) /\ (ChatOf[v] \notin overlapped => StartsAlone(v))
          /\ ChatOf[v] \in Chat
      BY <2>1, PoolConstants DEF PoolInv, UsersHold
    <3>2. StartIsOwn(v)'
      BY <3>1 DEF StartIsOwn
    <3>3. ChatOf[v] \notin overlapped => StartsAlone(v)'
      BY <3>1 DEF StartsAlone
    <3>. QED BY <3>2, <3>3
  <2>2. SoleUseIsKnown(v)'
    <3>1. CASE ChatOf[v] = ChatOf[u]
      <4>1. UsersOf(ChatOf[v]) = {v} => v = u
        BY <3>1 DEF UsersOf
      <4>. QED BY <4>1, <3>1, PoolConstants DEF SoleUseIsKnown, UsersOf
    <3>2. CASE ChatOf[v] # ChatOf[u]
      <4>1. SoleUseIsKnown(v) /\ v # u /\ ChatOf[v] \in Chat
        BY <3>2, PoolConstants DEF PoolInv, UsersHold
      <4>. QED BY <4>1, <3>2 DEF SoleUseIsKnown, UsersOf
    <3>. QED BY <3>1, <3>2
  <2>3. phase'[v].at # "out" => phase'[v].inst \in Instance
    BY DEF PoolInv, UsersHold
  <2>. QED BY <2>1, <2>2, <2>3
<1>3. ChatsHold'
  <2> SUFFICES ASSUME NEW c \in Chat
               PROVE  /\ pool'[c] # NoEntry => EntryHolds(c)'
                      /\ destroying[c] # None => DestroyHolds(c)'
    BY DEF ChatsHold
  <2>1. /\ pool[c] # NoEntry => EntryHolds(c)
        /\ destroying[c] # None => DestroyHolds(c)
    BY DEF PoolInv, ChatsHold
  <2>2. pool'[c] # NoEntry => EntryHolds(c)'
    BY <2>1 DEF EntryHolds
  <2>3. destroying[c] # None => DestroyHolds(c)'
    BY <2>1 DEF DestroyHolds
  <2>. QED BY <2>2, <2>3
<1>4. WorkersHold'
  <2>1. ASSUME NEW i \in Instance PROVE Watched(i)'
    <3>1. Watched(i)
      BY DEF PoolInv, WorkersHold
    <3>. QED BY <3>1 DEF Watched, Open
  <2>. QED BY <2>1 DEF PoolInv, WorkersHold
<1>5. CountsHold'
  BY CountsStay DEF PoolInv
<1>. QED BY <1>1, <1>2, <1>3, <1>4, <1>5 DEF PoolInv

\* acquire() hands out the live instance there is.
LEMMA AcquireLiveKeeps ==
  ASSUME PoolInv, NEW u \in User, AcquireLive(u)
  PROVE  PoolInv'
<1> DEFINE c == ChatOf[u]
           i == pool[c].inst
<1>a. PoolTypes /\ c \in Chat
  BY PoolConstants DEF PoolInv
<1>b. /\ pool[c] # NoEntry /\ proc[i] = "up" /\ phase[u].at = "out"
      /\ pool[c] \in Entry /\ i \in Instance
  BY <1>a, EntryIs DEF AcquireLive, Reusable, isAlive, Out
<1>u. UNCHANGED <<proc, background, skills, home, destroying, disposing, overlapped, peak>>
  BY DEF AcquireLive
<1>c. /\ phase' \in [User -> Phase] /\ phase'[u].at = "using" /\ phase'[u].inst = i
      /\ \A v \in User : v # u => phase'[v] = phase[v]
  <2>1. phase' = [phase EXCEPT ![u] = [at |-> "using", inst |-> i]]
    BY DEF AcquireLive
  <2>. QED BY <1>a, <1>b, <2>1 DEF PoolTypes, Phase
<1>d. /\ pool' \in [Chat -> Entry \cup {NoEntry}]
      /\ pool'[c] \in Entry /\ pool'[c].inUse
      /\ pool'[c].inst = i /\ pool'[c].stale = pool[c].stale
      /\ \A d \in Chat : d # c => pool'[d] = pool[d]
  <2>1. pool' = [pool EXCEPT ![c] = [pool[c] EXCEPT !.inUse = TRUE]]
    BY DEF AcquireLive
  <2>2. /\ [pool[c] EXCEPT !.inUse = TRUE] \in Entry
        /\ [pool[c] EXCEPT !.inUse = TRUE].inUse
        /\ [pool[c] EXCEPT !.inUse = TRUE].inst = i
        /\ [pool[c] EXCEPT !.inUse = TRUE].stale = pool[c].stale
    BY <1>b DEF Entry
  <2>. QED BY <1>a, <2>1, <2>2 DEF PoolTypes
<1>r. recency' = Touched(c)
  BY DEF AcquireLive
<1> HIDE DEF c, i
<1>e. \A d \in Chat : pool'[d] # NoEntry <=> pool[d] # NoEntry
  BY <1>b, <1>d, PoolConstants
<1>f. InOrder(recency', pool')
  BY <1>a, <1>b, <1>e, <1>r, TouchKeepsOrder DEF PoolTypes
<1>g. \A d \in Chat : pool[d] # NoEntry =>
        pool'[d].inst = pool[d].inst /\ pool'[d].stale = pool[d].stale
  BY <1>d DEF i
<1>. QED BY <1>b, <1>u, <1>c, <1>d, <1>e, <1>f, <1>g, EntriesStay DEF c

\* release() leaves the entry for others.
LEMMA ReleaseKeeps ==
  ASSUME PoolInv, NEW u \in User, release(u)
  PROVE  PoolInv'
<1> DEFINE c == ChatOf[u]
<1>a. PoolTypes /\ c \in Chat /\ phase[u].at # "starting"
  BY PoolConstants DEF PoolInv, release
<1>u. UNCHANGED <<proc, background, skills, home, destroying, disposing, overlapped, peak>>
  BY DEF release
<1>c. /\ phase' \in [User -> Phase] /\ phase'[u].at = "out" /\ phase'[u].inst = None
      /\ \A v \in User : v # u => phase'[v] = phase[v]
  <2>1. phase' = [phase EXCEPT ![u] = Out]
    BY DEF release
  <2>2. Out \in Phase /\ Out.at = "out" /\ Out.inst = None
    BY DEF Out, Phase
  <2>. QED BY <1>a, <2>1, <2>2 DEF PoolTypes
<1>d. /\ pool' \in [Chat -> Entry \cup {NoEntry}]
      /\ pool[c] = NoEntry => pool'[c] = NoEntry
      /\ pool[c] # NoEntry =>
           /\ pool'[c] \in Entry
           /\ pool'[c].inst = pool[c].inst /\ pool'[c].stale = pool[c].stale
      /\ \A d \in Chat : d # c => pool'[d] = pool[d]
  <2>1. pool' = [pool EXCEPT ![c] = Released(pool[c])]
    BY DEF release
  <2>2. pool[c] # NoEntry =>
        /\ Released(pool[c]) \in Entry
        /\ Released(pool[c]).inst = pool[c].inst
        /\ Released(pool[c]).stale = pool[c].stale
    BY <1>a, EntryIs DEF Entry, Released
  <2>3. pool[c] = NoEntry => Released(pool[c]) = NoEntry
    BY DEF Released
  <2>. QED BY <1>a, <2>1, <2>2, <2>3 DEF PoolTypes
<1>r. recency' = IF pool[c] = NoEntry THEN recency ELSE Touched(c)
  BY DEF release
<1> HIDE DEF c
<1>e. \A d \in Chat : pool'[d] # NoEntry <=> pool[d] # NoEntry
  BY <1>d, PoolConstants
<1>f. InOrder(recency', pool')
  <2>1. CASE pool[c] = NoEntry
    BY <1>a, <1>e, <1>r, <2>1 DEF PoolTypes, InOrder
  <2>2. CASE pool[c] # NoEntry
    BY <1>a, <1>e, <1>r, <2>2, TouchKeepsOrder DEF PoolTypes
  <2>. QED BY <2>1, <2>2
<1>g. \A d \in Chat : pool[d] # NoEntry =>
        pool'[d].inst = pool[d].inst /\ pool'[d].stale = pool[d].stale
  BY <1>d
<1>h. phase'[u].inst \notin Instance
  BY <1>c, PoolConstants
<1>. QED BY <1>a, <1>u, <1>c, <1>d, <1>e, <1>f, <1>g, <1>h, EntriesStay DEF c

\* One more in a set, or one less.
LEMMA OneMore ==
  ASSUME NEW S, IsFiniteSet(S), NEW x
  PROVE  /\ Cardinality(S) \in Nat
         /\ IsFiniteSet(S \cup {x}) /\ Cardinality(S \cup {x}) \in Nat
         /\ Cardinality(S \cup {x}) <= Cardinality(S) + 1
         /\ Cardinality(S \cup {x}) >= Cardinality(S)
         /\ x \notin S => Cardinality(S \cup {x}) = Cardinality(S) + 1
         /\ IsFiniteSet(S \ {x}) /\ Cardinality(S \ {x}) \in Nat
         /\ Cardinality(S \ {x}) <= Cardinality(S)
         /\ x \in S => Cardinality(S \ {x}) = Cardinality(S) - 1
BY FS_CardinalityType, FS_AddElement, FS_RemoveElement

\* The start of a worker is over, and its entry is there.
LEMMA StartedKeeps ==
  ASSUME PoolInv, NEW u \in User, Started(u)
  PROVE  PoolInv'
<1> DEFINE c == ChatOf[u]
           i == phase[u].inst
           E == [inst |-> i, inUse |-> TRUE, stale |-> FALSE]
<1>a. PoolTypes /\ c \in Chat /\ phase[u].at = "starting"
  BY PoolConstants DEF PoolInv, Started
<1>b. /\ i \in Instance /\ StartIsOwn(u) /\ (c \notin overlapped => StartsAlone(u))
      /\ proc[i] = "starting" /\ home[i] = c /\ skills[i] # "old"
  BY <1>a DEF PoolInv, UsersHold, WorkersHold, StartIsOwn
<1>u. UNCHANGED <<background, skills, home, destroying, disposing, overlapped, peak>>
  BY DEF Started
<1>c. /\ phase' \in [User -> Phase] /\ phase'[u].at = "using" /\ phase'[u].inst = i
      /\ \A v \in User : v # u => phase'[v] = phase[v]
  <2>1. phase' = [phase EXCEPT ![u] = [phase[u] EXCEPT !.at = "using"]]
    BY DEF Started
  <2>2. phase[u] \in Phase
    BY <1>a DEF PoolTypes
  <2>3. /\ [phase[u] EXCEPT !.at = "using"] \in Phase
        /\ [phase[u] EXCEPT !.at = "using"].at = "using"
        /\ [phase[u] EXCEPT !.at = "using"].inst = i
    BY <2>2 DEF Phase
  <2>. QED BY <1>a, <2>1, <2>3 DEF PoolTypes
<1>d. /\ pool' \in [Chat -> Entry \cup {NoEntry}] /\ E \in Entry
      /\ pool'[c] = E /\ E # NoEntry /\ \A d \in Chat : d # c => pool'[d] = pool[d]
  <2>1. pool' = [pool EXCEPT ![c] = E]
    BY DEF Started
  <2>2. E \in Entry
    BY <1>b DEF Entry
  <2>3. E # NoEntry
    BY <2>2, PoolConstants
  <2> HIDE DEF E
  <2>. QED BY <1>a, <2>1, <2>2, <2>3 DEF PoolTypes
<1>p. /\ proc' \in [Instance -> Process] /\ proc'[i] = "up"
      /\ \A j \in Instance : j # i => proc'[j] = proc[j]
  <2>1. proc' = [proc EXCEPT ![i] = "up"]
    BY DEF Started
  <2>. QED BY <1>a, <1>b, <2>1 DEF PoolTypes, Process
<1>r. recency' = Touched(c)
  BY DEF Started
<1>s. pool'[c].inst = i /\ pool'[c].inUse
  BY <1>d
<1> HIDE DEF c, i, E
<1>1. PoolTypes'
  <2>1. \A d \in Chat : pool'[d] # NoEntry <=> pool[d] # NoEntry \/ d = c
    BY <1>d
  <2>2. InOrder(recency', pool')
    BY <1>a, <1>r, <2>1, TouchKeepsOrder DEF PoolTypes
  <2>. QED BY <1>a, <1>u, <1>c, <1>d, <1>p, <2>2 DEF PoolTypes
<1>2. UsersHold'
  <2> SUFFICES ASSUME NEW v \in User
               PROVE  /\ phase'[v].at # "out" => phase'[v].inst \in Instance
                      /\ phase'[v].at = "starting" =>
                           StartIsOwn(v)' /\ (ChatOf[v] \notin overlapped => StartsAlone(v)')
                      /\ SoleUseIsKnown(v)'
    BY <1>u DEF UsersHold
  <2>1. ASSUME phase'[v].at = "starting"
        PROVE  StartIsOwn(v)' /\ (ChatOf[v] \notin overlapped => StartsAlone(v)')
    <3>1. /\ v # u /\ phase[v].at = "starting" /\ phase[v].inst \in Instance
          /\ StartIsOwn(v) /\ (ChatOf[v] \notin overlapped => StartsAlone(v))
          /\ ChatOf[v] \in Chat
      BY <1>c, <2>1, PoolConstants DEF PoolInv, UsersHold
    <3>2. phase[v].inst # i
      BY <1>b, <3>1 DEF StartIsOwn, i
    <3>3. StartIsOwn(v)'
      BY <3>1, <3>2, <1>u, <1>c, <1>p DEF StartIsOwn
    <3>4. ASSUME ChatOf[v] \notin overlapped PROVE StartsAlone(v)'
      <4>1. ChatOf[v] # c
        BY <1>a, <3>1, <3>4 DEF StartsAlone, c
      <4>. QED BY <3>1, <3>4, <4>1, <1>u, <1>c, <1>d DEF StartsAlone
    <3>. QED BY <3>3, <3>4
  <2>2. SoleUseIsKnown(v)'
    <3>1. CASE ChatOf[v] = c
      BY <3>1, <1>s DEF SoleUseIsKnown
    <3>2. CASE ChatOf[v] # c
      <4>1. SoleUseIsKnown(v) /\ v # u /\ ChatOf[v] \in Chat
        BY <3>2, PoolConstants DEF PoolInv, UsersHold, c
      <4>. QED BY <4>1, <3>2, <1>c, <1>d DEF SoleUseIsKnown, UsersOf
    <3>. QED BY <3>1, <3>2
  <2>3. phase'[v].at # "out" => phase'[v].inst \in Instance
    BY <1>b, <1>c DEF PoolInv, UsersHold
  <2>. QED BY <2>1, <2>2, <2>3
<1>3. ChatsHold'
  <2> SUFFICES ASSUME NEW d \in Chat
               PROVE  /\ pool'[d] # NoEntry => EntryHolds(d)'
                      /\ destroying[d] # None => DestroyHolds(d)'
    BY <1>u DEF ChatsHold
  <2>1. ASSUME d = c PROVE EntryHolds(d)'
    <3>1. home'[i] = c /\ skills'[i] # "old"
      BY <1>u, <1>b
    <3>. QED BY <1>p, <1>s, <2>1, <3>1 DEF EntryHolds
  <2>2. ASSUME d # c, pool[d] # NoEntry PROVE EntryHolds(d)'
    <3>1. EntryHolds(d) /\ pool[d].inst \in Instance
      BY <1>a, <2>2, EntryIs DEF PoolInv, ChatsHold
    <3>2. pool[d].inst # i
      BY <3>1, <1>b DEF EntryHolds
    <3>. QED BY <1>u, <1>d, <1>p, <2>2, <3>1, <3>2 DEF EntryHolds
  <2>3. ASSUME destroying[d] # None PROVE DestroyHolds(d)'
    <3>1. DestroyHolds(d) /\ destroying[d] \in Instance
      BY <1>a, <2>3 DEF PoolInv, ChatsHold, PoolTypes
    <3>2. destroying[d] # i
      BY <3>1, <1>b DEF DestroyHolds
    <3>3. d = c => c \in overlapped
      BY <1>b, <2>3 DEF StartsAlone, c
    <3>. QED BY <1>u, <1>d, <1>p, <3>1, <3>2, <3>3 DEF DestroyHolds
  <2>. QED BY <1>d, <2>1, <2>2, <2>3
<1>4. WorkersHold'
  <2>1. ASSUME NEW j \in Instance PROVE Watched(j)'
    <3>1. CASE j = i
      BY <1>a, <1>d, <1>s, <3>1 DEF Watched
    <3>2. CASE j # i
      <4> SUFFICES ASSUME proc[j] = "up", home[j] \notin overlapped, Open
                   PROVE  \E d \in Chat : pool'[d] # NoEntry /\ pool'[d].inst = j
        BY <1>u, <1>p, <3>2 DEF Watched, Open
      <4>1. PICK d \in Chat : pool[d] # NoEntry /\ pool[d].inst = j
        BY DEF PoolInv, WorkersHold, Watched
      <4>2. home[j] = d
        BY <4>1 DEF PoolInv, ChatsHold, EntryHolds
      <4>3. d # c
        BY <4>1, <4>2, <1>b DEF StartsAlone, c
      <4>. QED BY <1>d, <4>1, <4>3
    <3>. QED BY <3>1, <3>2
  <2>2. ASSUME NEW j \in Instance
        PROVE  /\ proc'[j] = "dead" => skills'[j] = "current"
               /\ proc'[j] = "starting" => skills'[j] # "old"
    BY <1>u, <1>p DEF PoolInv, WorkersHold
  <2>. QED BY <2>1, <2>2 DEF WorkersHold
<1>5. CountsHold'
  <2> DEFINE P == Pooled(pool)
             I == InFlight
  <2>1. Pooled(pool') = P \cup {c}
    BY <1>a, <1>d DEF Pooled
  <2>2. InFlight' = I \ {u} /\ u \in I
    BY <1>a, <1>c DEF InFlight
  <2>3. P \in SUBSET Chat /\ I \in SUBSET User
    BY DEF Pooled, InFlight
  <2>4. /\ peak \in 0..Cardinality(User) /\ Cardinality(I) <= peak
        /\ Cardinality(P) + Cardinality(I) <= MaxInstances + (IF peak = 0 THEN 0 ELSE peak - 1)
    BY DEF PoolInv, CountsHold, OvershootBounded
  <2> HIDE DEF P, I
  <2>5. IsFiniteSet(P) /\ IsFiniteSet(I)
    BY <2>3, PoolConstants, FS_Subset
  <2>6. /\ Cardinality(P) \in Nat /\ Cardinality(I) \in Nat /\ Cardinality(User) \in Nat
        /\ Cardinality(P \cup {c}) \in Nat /\ Cardinality(P \cup {c}) <= Cardinality(P) + 1
        /\ Cardinality(I \ {u}) = Cardinality(I) - 1
    BY <2>2, <2>5, OneMore, PoolConstants, FS_CardinalityType
  <2>7. Cardinality(I \ {u}) <= peak
    BY <2>4, <2>6
  <2>8. Cardinality(P \cup {c}) + Cardinality(I \ {u})
          <= MaxInstances + (IF peak = 0 THEN 0 ELSE peak - 1)
    BY <2>4, <2>6, PoolConstants
  <2>9. peak' = peak
    BY <1>u
  <2>. QED BY <2>1, <2>2, <2>4, <2>7, <2>8, <2>9 DEF CountsHold, OvershootBounded
<1>. QED BY <1>1, <1>2, <1>3, <1>4, <1>5 DEF PoolInv

\* The start fails, and its worker is no more.
LEMMA StartFailsKeeps ==
  ASSUME PoolInv, NEW u \in User, StartFails(u)
  PROVE  PoolInv'
<1> DEFINE i == phase[u].inst
<1>a. PoolTypes /\ phase[u].at = "starting"
  BY DEF PoolInv, StartFails
<1>b. i \in Instance /\ StartIsOwn(u) /\ proc[i] = "starting"
  BY <1>a DEF PoolInv, UsersHold, StartIsOwn
<1>u. UNCHANGED <<pool, recency, background, destroying, disposing, overlapped, peak>>
  BY DEF StartFails
<1>c. /\ phase' \in [User -> Phase] /\ phase'[u].at = "out" /\ phase'[u].inst = None
      /\ \A v \in User : v # u => phase'[v] = phase[v]
  <2>1. phase' = [phase EXCEPT ![u] = Out]
    BY DEF StartFails
  <2>2. Out \in Phase /\ Out.at = "out" /\ Out.inst = None
    BY DEF Out, Phase
  <2>. QED BY <1>a, <2>1, <2>2 DEF PoolTypes
<1>p. /\ proc' \in [Instance -> Process] /\ proc'[i] = "dead"
      /\ skills' \in [Instance -> Skills] /\ skills'[i] = "current"
      /\ home' \in [Instance -> Chat \cup {NoChat}]
      /\ \A j \in Instance : j # i => proc'[j] = proc[j] /\ skills'[j] = skills[j] /\ home'[j] = home[j]
  <2>1. /\ proc' = [proc EXCEPT ![i] = "dead"]
        /\ skills' = [skills EXCEPT ![i] = "current"]
        /\ home' = [home EXCEPT ![i] = NoChat]
    BY DEF StartFails, Forget
  <2>. QED BY <1>a, <1>b, <2>1 DEF PoolTypes, Process, Skills
<1> HIDE DEF i
<1>1. PoolTypes'
  BY <1>a, <1>u, <1>c, <1>p DEF PoolTypes
<1>2. UsersHold'
  <2> SUFFICES ASSUME NEW v \in User
               PROVE  /\ phase'[v].at # "out" => phase'[v].inst \in Instance
                      /\ phase'[v].at = "starting" =>
                           StartIsOwn(v)' /\ (ChatOf[v] \notin overlapped => StartsAlone(v)')
                      /\ SoleUseIsKnown(v)'
    BY <1>u DEF UsersHold
  <2>1. ASSUME phase'[v].at = "starting"
        PROVE  StartIsOwn(v)' /\ (ChatOf[v] \notin overlapped => StartsAlone(v)')
    <3>1. /\ v # u /\ phase[v].at = "starting" /\ phase[v].inst \in Instance
          /\ StartIsOwn(v) /\ (ChatOf[v] \notin overlapped => StartsAlone(v))
      BY <1>c, <2>1 DEF PoolInv, UsersHold
    <3>2. phase[v].inst # i
      BY <1>b, <3>1 DEF StartIsOwn, i
    <3>3. StartIsOwn(v)'
      BY <3>1, <3>2, <1>u, <1>b, <1>c, <1>p, PoolConstants DEF StartIsOwn
    <3>. QED BY <3>1, <3>3, <1>u, <1>c DEF StartsAlone
  <2>2. SoleUseIsKnown(v)'
    BY <1>u, <1>c DEF PoolInv, UsersHold, SoleUseIsKnown, UsersOf
  <2>3. phase'[v].at # "out" => phase'[v].inst \in Instance
    BY <1>c DEF PoolInv, UsersHold
  <2>. QED BY <2>1, <2>2, <2>3
<1>3. ChatsHold'
  <2> SUFFICES ASSUME NEW d \in Chat
               PROVE  /\ pool[d] # NoEntry => EntryHolds(d)'
                      /\ destroying[d] # None => DestroyHolds(d)'
    BY <1>u DEF ChatsHold
  <2>2. ASSUME pool[d] # NoEntry PROVE EntryHolds(d)'
    <3>1. EntryHolds(d) /\ pool[d].inst \in Instance
      BY <1>a, <2>2, EntryIs DEF PoolInv, ChatsHold
    <3>2. pool[d].inst # i
      BY <3>1, <1>b DEF EntryHolds
    <3>. QED BY <1>u, <1>p, <2>2, <3>1, <3>2 DEF EntryHolds
  <2>3. ASSUME destroying[d] # None PROVE DestroyHolds(d)'
    <3>1. DestroyHolds(d) /\ destroying[d] \in Instance
      BY <1>a, <2>3 DEF PoolInv, ChatsHold, PoolTypes
    <3>. QED BY <1>u, <1>p, <3>1 DEF DestroyHolds
  <2>. QED BY <2>2, <2>3
<1>4. WorkersHold'
  BY <1>u, <1>p DEF PoolInv, WorkersHold, Watched, Open
<1>5. CountsHold'
  BY <1>u, <1>c, CountsStay DEF PoolInv
<1>. QED BY <1>1, <1>2, <1>3, <1>4, <1>5 DEF PoolInv

\* What acquire() evicts: nothing, or an entry without a background command, an
\* idle one if there is any.
LEMMA EvictedIs ==
  ASSUME PoolInv, NEW c \in Chat,
         IsFull(Cardinality(Pooled(pool) \ {c})) => Evictable \ {c} # {}
  PROVE  \/ /\ Evicted(c) = {}
            /\ Cardinality(Pooled(pool) \ {c}) < MaxInstances
         \/ \E e \in Evictable \ {c} :
              /\ Evicted(c) = {e}
              /\ Cardinality(Pooled(pool) \ {c}) >= MaxInstances
              /\ (Evictable \ {c}) \cap Idle # {} => e \in Idle
<1> DEFINE n == Cardinality(Pooled(pool) \ {c})
           E == Evictable \ {c}
           C == Candidates(E)
<1>1. n \in Nat
  <2>1. Pooled(pool) \ {c} \in SUBSET Chat
    BY DEF Pooled
  <2>. QED BY <2>1, PoolConstants, FS_Subset, FS_CardinalityType
<1>3. CASE n < MaxInstances
  <2>1. ~IsFull(n)
    BY <1>1, <1>3, PoolConstants DEF IsFull
  <2>. QED BY <1>3, <2>1 DEF Evicted
<1>4. CASE ~(n < MaxInstances)
  <2>1. IsFull(n) /\ n >= MaxInstances
    BY <1>1, <1>4, PoolConstants DEF IsFull
  <2>2. E # {} /\ Evicted(c) = {OldestOf(C)}
    BY <2>1 DEF Evicted
  <2>3. C # {} /\ C \in SUBSET E /\ (E \cap Idle # {} => C \in SUBSET Idle)
    BY <2>2 DEF Candidates
  <2>4. C \in SUBSET Chat /\ \A d \in C : pool[d] # NoEntry
    BY <2>3 DEF Evictable, Pooled
  <2>5. InOrder(recency, pool)
    BY DEF PoolInv, PoolTypes
  <2> HIDE DEF C, E, n
  <2>6. OldestOf(C) \in C
    BY <2>3, <2>4, <2>5, OldestIsOne
  <2>. QED BY <2>1, <2>2, <2>3, <2>6 DEF E, n
<1>. QED BY <1>3, <1>4

\* acquire() makes room and starts a worker.
LEMMA AcquireKeeps ==
  ASSUME PoolInv, NEW u \in User, Acquire(u)
  PROVE  PoolInv'
<1> DEFINE c == ChatOf[u]
           D == Evicted(c)
           stop == Recycled(c) \cup StopsEvicted(D)
           P == Pooled(pool)
           I == InFlight
<1>a. PoolTypes /\ c \in Chat /\ phase[u].at = "out"
  BY PoolConstants DEF PoolInv, Acquire, Out
<1>u. UNCHANGED <<skills, destroying, disposing>>
  BY DEF Acquire
<1>i. PICK i \in Instance :
        /\ Unused(i)
        /\ proc' = [Stopped(stop) EXCEPT ![i] = "starting"]
        /\ home' = [home EXCEPT ![i] = c]
        /\ phase' = [phase EXCEPT ![u] = [at |-> "starting", inst |-> i]]
  BY DEF Acquire
<1>n. /\ proc[i] = "dead" /\ skills[i] = "current"
      /\ \A d \in Chat : pool[d] # NoEntry => pool[d].inst # i
      /\ \A v \in User : phase[v].inst # i
      /\ \A d \in Chat : destroying[d] # i
  BY <1>i DEF Unused, Pooled, PoolInv, WorkersHold
<1>v. \/ D = {} /\ Cardinality(P \ {c}) < MaxInstances
      \/ \E e \in P \ {c} : D = {e}
  <2>1. IsFull(Cardinality(P \ {c})) => Evictable \ {c} # {}
    BY DEF Acquire
  <2>. QED BY <1>a, <2>1, EvictedIs DEF Evictable
<1>d. D \in SUBSET (P \ {c})
  BY <1>v
<1>c. /\ pool' \in [Chat -> Entry \cup {NoEntry}]
      /\ \A d \in Chat : pool'[d] = IF d \in {c} \cup D THEN NoEntry ELSE pool[d]
  <2>1. pool' = [d \in Chat |-> IF d \in {c} \cup D THEN NoEntry ELSE pool[d]]
    BY DEF Acquire
  <2>. QED BY <1>a, <2>1 DEF PoolTypes
<1>p. /\ proc' \in [Instance -> Process] /\ proc'[i] = "starting"
      /\ \A j \in Instance : j # i =>
           /\ proc'[j] = proc[j] \/ (proc[j] = "up" /\ proc'[j] = "stopping")
           /\ j \in stop => proc'[j] # "up"
  <2> DEFINE Q == Stopped(stop)
  <2>1. proc' = [Q EXCEPT ![i] = "starting"]
    BY <1>i
  <2>2. /\ Q \in [Instance -> Process] /\ Stopping(Q)
        /\ \A j \in stop \cap Instance : Q[j] # "up"
    BY <1>a, StoppedIs
  <2> HIDE DEF Q, stop
  <2>3. \A j \in Instance : j # i => proc'[j] = Q[j]
    BY <2>1, <2>2
  <2>4. proc'[i] = "starting" /\ proc' \in [Instance -> Process]
    BY <2>1, <2>2 DEF Process
  <2>. QED BY <2>2, <2>3, <2>4 DEF Stopping
<1>h. /\ home' \in [Instance -> Chat \cup {NoChat}] /\ home'[i] = c
      /\ \A j \in Instance : j # i => home'[j] = home[j]
  <2>1. home' = [home EXCEPT ![i] = c]
    BY <1>i
  <2>. QED BY <1>a, <2>1 DEF PoolTypes
<1>f. /\ phase' \in [User -> Phase] /\ phase'[u].at = "starting" /\ phase'[u].inst = i
      /\ \A v \in User : v # u => phase'[v] = phase[v]
  <2>1. phase' = [phase EXCEPT ![u] = [at |-> "starting", inst |-> i]]
    BY <1>i
  <2>2. [at |-> "starting", inst |-> i] \in Phase
    BY DEF Phase
  <2>. QED BY <1>a, <2>1, <2>2 DEF PoolTypes
<1>b. background' \in [Instance -> BOOLEAN]
  <2>1. background' = Silenced(stop)
    BY DEF Acquire
  <2>. QED BY <1>a, <2>1, StoppedIs
<1>r. recency' = Without(recency, {c} \cup D)
  BY DEF Acquire
<1>o. /\ overlapped \in SUBSET overlapped' /\ overlapped' \in SUBSET Chat
      /\ c \notin overlapped' => /\ destroying[c] = None
                                 /\ \A v \in User : phase[v].at = "starting" => ChatOf[v] # c
  <2>1. overlapped' = IF Starting(c) # {} \/ destroying[c] # None
                      THEN overlapped \cup {c} ELSE overlapped
    BY DEF Acquire
  <2>2. (\A v \in User : phase[v].at = "starting" => ChatOf[v] # c) \/ Starting(c) # {}
    BY DEF Starting, UsersOf
  <2>. QED BY <1>a, <2>1, <2>2 DEF PoolTypes
<1>g. \A d \in Chat : d \in {c} \cup D /\ pool[d] # NoEntry /\ proc[pool[d].inst] = "up"
                        => pool[d].inst \in stop
  <2> SUFFICES ASSUME NEW d \in Chat, d \in {c} \cup D, pool[d] # NoEntry, proc[pool[d].inst] = "up"
               PROVE  pool[d].inst \in stop
    OBVIOUS
  <2>1. CASE d = c
    <3>1. ~Reusable(c)
      BY DEF Acquire
    <3>2. pool[c].inst \in Recycled(c)
      BY <2>1, <3>1 DEF Reusable, Recycled, isAlive
    <3>. QED BY <2>1, <3>2
  <2>2. CASE d \in D
    BY <2>2 DEF StopsEvicted
  <2>. QED BY <2>1, <2>2
<1>k. peak' = IF Cardinality(I) = peak THEN peak + 1 ELSE peak
  BY DEF Acquire
<1>m. InOrder(recency', pool')
  <2>1. \A d \in Chat : pool'[d] # NoEntry <=> pool[d] # NoEntry /\ d \notin {c} \cup D
    BY <1>c
  <2>2. InOrder(recency, pool)
    BY <1>a DEF PoolTypes
  <2>. QED BY <1>r, <2>1, <2>2, DropKeepsOrder
<1>s. c = ChatOf[u]
  OBVIOUS
<1> HIDE DEF c, D, stop
<1>1. PoolTypes'
  BY <1>a, <1>u, <1>c, <1>p, <1>h, <1>f, <1>b, <1>o, <1>m DEF PoolTypes
<1>2. UsersHold'
  <2> SUFFICES ASSUME NEW v \in User
               PROVE  /\ phase'[v].at # "out" => phase'[v].inst \in Instance
                      /\ phase'[v].at = "starting" =>
                           StartIsOwn(v)' /\ (ChatOf[v] \notin overlapped' => StartsAlone(v)')
                      /\ SoleUseIsKnown(v)'
    BY DEF UsersHold
  <2>1. CASE v = u
    <3>1. StartIsOwn(u)'
      BY <1>f, <1>h, <1>n, <1>p, <1>s DEF StartIsOwn
    <3>2. c \notin overlapped' => StartsAlone(u)'
      BY <1>a, <1>c, <1>f, <1>o, <1>u, <1>s DEF StartsAlone
    <3>. QED BY <1>f, <1>s, <2>1, <3>1, <3>2 DEF SoleUseIsKnown
  <2>2. CASE v # u
    <3>0. ChatOf[v] \in Chat /\ phase'[v] = phase[v]
      BY <1>f, <2>2, PoolConstants
    <3>1. ASSUME phase[v].at = "starting"
          PROVE  StartIsOwn(v)' /\ (ChatOf[v] \notin overlapped' => StartsAlone(v)')
      <4>1. /\ phase[v].inst \in Instance /\ phase[v].inst # i
            /\ StartIsOwn(v) /\ (ChatOf[v] \notin overlapped => StartsAlone(v))
        BY <3>1, <1>n DEF PoolInv, UsersHold
      <4>2. StartIsOwn(v)'
        BY <3>0, <4>1, <1>f, <1>h, <1>p DEF StartIsOwn
      <4>3. ASSUME ChatOf[v] \notin overlapped' PROVE StartsAlone(v)'
        <5>1. StartsAlone(v) /\ ChatOf[v] # c
          BY <3>1, <4>1, <4>3, <1>o
        <5>. QED BY <3>0, <5>1, <1>c, <1>f, <1>u, <1>s DEF StartsAlone
      <4>. QED BY <4>2, <4>3
    <3>2. SoleUseIsKnown(v)'
      BY <3>0, <1>c DEF PoolInv, UsersHold, SoleUseIsKnown, UsersOf
    <3>3. phase'[v].at # "out" => phase'[v].inst \in Instance
      BY <3>0 DEF PoolInv, UsersHold
    <3>. QED BY <3>0, <3>1, <3>2, <3>3
  <2>. QED BY <2>1, <2>2
<1>3. ChatsHold'
  <2> SUFFICES ASSUME NEW d \in Chat
               PROVE  /\ pool'[d] # NoEntry => EntryHolds(d)'
                      /\ destroying[d] # None => DestroyHolds(d)'
    BY <1>u DEF ChatsHold
  <2>1. ASSUME pool'[d] # NoEntry PROVE EntryHolds(d)'
    <3>1. pool[d] # NoEntry /\ pool'[d] = pool[d]
      BY <1>c, <2>1
    <3>2. EntryHolds(d) /\ pool[d].inst \in Instance /\ pool[d].inst # i
      BY <1>a, <1>n, <3>1, EntryIs DEF PoolInv, ChatsHold
    <3>. QED BY <1>u, <1>p, <1>h, <3>1, <3>2 DEF EntryHolds
  <2>2. ASSUME destroying[d] # None PROVE DestroyHolds(d)'
    <3>1. DestroyHolds(d) /\ destroying[d] \in Instance /\ destroying[d] # i
      BY <1>a, <1>n, <2>2 DEF PoolInv, ChatsHold, PoolTypes
    <3>. QED BY <1>u, <1>c, <1>p, <1>o, <3>1 DEF DestroyHolds
  <2>. QED BY <2>1, <2>2
<1>4. WorkersHold'
  <2>1. ASSUME NEW j \in Instance PROVE Watched(j)'
    <3> SUFFICES ASSUME proc'[j] = "up", home'[j] \notin overlapped', Open'
                 PROVE  \E d \in Chat : pool'[d] # NoEntry /\ pool'[d].inst = j
      BY DEF Watched
    <3>1. j # i /\ proc[j] = "up" /\ j \notin stop /\ home[j] \notin overlapped /\ Open
      BY <1>u, <1>p, <1>h, <1>o DEF Open
    <3>2. PICK d \in Chat : pool[d] # NoEntry /\ pool[d].inst = j
      BY <3>1 DEF PoolInv, WorkersHold, Watched
    <3>3. d \notin {c} \cup D
      BY <1>g, <3>1, <3>2
    <3>. QED BY <1>c, <3>2, <3>3
  <2>2. ASSUME NEW j \in Instance
        PROVE  /\ proc'[j] = "dead" => skills'[j] = "current"
               /\ proc'[j] = "starting" => skills'[j] # "old"
    BY <1>u, <1>n, <1>p DEF PoolInv, WorkersHold
  <2>. QED BY <2>1, <2>2 DEF WorkersHold
<1>5. CountsHold'
  <2> DEFINE Q == Pooled(pool')
             J == I \cup {u}
  <2>1. /\ Q \in SUBSET (P \ {c})
        /\ \A e \in D : Q \in SUBSET ((P \ {c}) \ {e})
    BY <1>c DEF Pooled
  <2>2. InFlight' = J /\ u \notin I /\ J \in SUBSET User
    BY <1>a, <1>f DEF InFlight
  <2>3. P \in SUBSET Chat /\ I \in SUBSET User
    BY DEF Pooled, InFlight
  <2>4. /\ peak \in 0..Cardinality(User) /\ Cardinality(I) <= peak
        /\ Cardinality(P) + Cardinality(I) <= MaxInstances + (IF peak = 0 THEN 0 ELSE peak - 1)
    BY DEF PoolInv, CountsHold, OvershootBounded
  <2>o. InFlight' = J /\ Pooled(pool') = Q
    BY <2>2
  <2>5. IsFiniteSet(P) /\ IsFiniteSet(I) /\ IsFiniteSet(User) /\ IsFiniteSet(P \ {c})
    BY <2>3, PoolConstants, FS_Subset
  <2> HIDE DEF P, I, Q
  <2>6. /\ Cardinality(P) \in Nat /\ Cardinality(I) \in Nat /\ Cardinality(User) \in Nat
        /\ Cardinality(P \ {c}) \in Nat /\ Cardinality(P \ {c}) <= Cardinality(P)
        /\ Cardinality(J) = Cardinality(I) + 1 /\ Cardinality(J) <= Cardinality(User)
    <3>1. Cardinality(J) <= Cardinality(User)
      BY <2>2, <2>5, FS_Subset
    <3>. QED BY <2>2, <2>5, <3>1, OneMore, FS_CardinalityType
  <2>7. /\ Cardinality(Q) \in Nat
        /\ Cardinality(Q) <= MaxInstances - 1 \/ Cardinality(Q) <= Cardinality(P) - 1
    <3>1. CASE D = {} /\ Cardinality(P \ {c}) < MaxInstances
      <4>1. Cardinality(Q) \in Nat /\ Cardinality(Q) <= Cardinality(P \ {c})
        BY <2>1, <2>5, FS_Subset, FS_CardinalityType
      <4>. QED BY <2>6, <3>1, <4>1, PoolConstants
    <3>2. ASSUME NEW e \in P \ {c}, D = {e}
          PROVE  Cardinality(Q) \in Nat /\ Cardinality(Q) <= Cardinality(P) - 1
      <4>1. Q \in SUBSET ((P \ {c}) \ {e})
        BY <2>1, <3>2
      <4>2. /\ IsFiniteSet((P \ {c}) \ {e}) /\ Cardinality((P \ {c}) \ {e}) \in Nat
            /\ Cardinality((P \ {c}) \ {e}) = Cardinality(P \ {c}) - 1
        BY <2>5, <3>2, OneMore
      <4>3. Cardinality(Q) \in Nat /\ Cardinality(Q) <= Cardinality((P \ {c}) \ {e})
        BY <4>1, <4>2, FS_Subset, FS_CardinalityType
      <4>. QED BY <2>6, <4>2, <4>3
    <3>. QED BY <1>v, <3>1, <3>2
  <2> HIDE DEF J
  <2>8. /\ peak' \in 0..Cardinality(User) /\ Cardinality(J) <= peak'
        /\ Cardinality(Q) + Cardinality(J) <= MaxInstances + (IF peak' = 0 THEN 0 ELSE peak' - 1)
    BY <1>k, <2>4, <2>6, <2>7, PoolConstants
  <2>. QED BY <2>o, <2>8 DEF CountsHold, OvershootBounded
<1>. QED BY <1>1, <1>2, <1>3, <1>4, <1>5 DEF PoolInv

\* The pool starts empty.
LEMMA PoolStarts ==
  ASSUME PoolInit
  PROVE  PoolInv
<1>1. /\ pool = [c \in Chat |-> NoEntry] /\ recency = <<>>
      /\ proc = [i \in Instance |-> "dead"]
      /\ background = [i \in Instance |-> FALSE]
      /\ skills = [i \in Instance |-> "current"]
      /\ home = [i \in Instance |-> NoChat]
      /\ phase = [u \in User |-> Out]
      /\ destroying = [c \in Chat |-> None]
      /\ disposing = [called |-> FALSE, await |-> {}]
      /\ overlapped = {} /\ peak = 0
  BY DEF PoolInit
<1>2. Out \in Phase /\ Out.at = "out" /\ Out.inst = None
  BY DEF Out, Phase
<1>3. InOrder(recency, pool)
  <2>1. recency \in Seq(Chat) /\ Len(recency) = 0
    BY <1>1, EmptySeq
  <2>. QED BY <1>1, <2>1 DEF InOrder, Once, Has
<1>4. PoolTypes
  BY <1>1, <1>2, <1>3 DEF PoolTypes, Process, Skills
<1>5. UsersHold
  BY <1>1, <1>2 DEF UsersHold, SoleUseIsKnown
<1>6. ChatsHold
  BY <1>1 DEF ChatsHold
<1>7. WorkersHold
  BY <1>1 DEF WorkersHold, Watched
<1>8. CountsHold
  <2>1. Pooled(pool) = {} /\ InFlight = {}
    BY <1>1, <1>2 DEF Pooled, InFlight
  <2>2. Cardinality({}) = 0 /\ Cardinality(User) \in Nat
    BY FS_EmptySet, PoolConstants, FS_CardinalityType
  <2>3. peak \in 0..Cardinality(User) /\ Cardinality(InFlight) <= peak
    BY <1>1, <2>1, <2>2
  <2>4. OvershootBounded
    <3>1. peak = 0 /\ 0 + 0 <= MaxInstances
      BY <1>1, PoolConstants
    <3>2. Cardinality(Pooled(pool)) = 0 /\ Cardinality(InFlight) = 0
      BY <2>1, <2>2
    <3>. QED BY <3>1, <3>2, PoolConstants DEF OvershootBounded
  <2>. QED BY <2>3, <2>4 DEF CountsHold
<1>. QED BY <1>4, <1>5, <1>6, <1>7, <1>8 DEF PoolInv

\* What does not change keeps the invariant.
LEMMA PoolStutter ==
  ASSUME PoolInv, UNCHANGED poolVars
  PROVE  PoolInv'
<1>1. UNCHANGED <<pool, recency, proc, background, skills, home, phase, destroying,
                  disposing, overlapped, peak>>
  BY DEF poolVars
<1>2. PoolTypes' /\ CountsHold'
  BY <1>1 DEF PoolInv, PoolTypes, CountsHold, InFlight, OvershootBounded, Pooled
<1>3. UsersHold'
  BY <1>1 DEF PoolInv, UsersHold, StartIsOwn, StartsAlone, SoleUseIsKnown
<1>4. ChatsHold' /\ WorkersHold'
  BY <1>1 DEF PoolInv, ChatsHold, EntryHolds, DestroyHolds, WorkersHold, Watched, Open
<1>. QED BY <1>2, <1>3, <1>4 DEF PoolInv

\* The invariant is inductive.
LEMMA PoolSteps ==
  ASSUME PoolInv, [PoolNext]_(poolVars)
  PROVE  PoolInv'
<1>1. ASSUME NEW u \in User,
             \/ AcquireLive(u) \/ Acquire(u) \/ AcquireRefused(u)
             \/ Started(u) \/ StartFails(u) \/ release(u)
             \/ runBackground(u) \/ ExecuteTimesOut(u)
      PROVE  PoolInv'
  BY <1>1, AcquireLiveKeeps, AcquireKeeps, RefusalKeeps, StartedKeeps, StartFailsKeeps,
     ReleaseKeeps, StopsKeep
<1>2. ASSUME NEW i \in Instance, Exit(i) \/ BackgroundEnds(i) PROVE PoolInv'
  BY <1>2, ExitKeeps, StopsKeep
<1>3. ASSUME NEW c \in Chat, destroy(c) \/ Destroyed(c) PROVE PoolInv'
  BY <1>3, DestroyKeeps, DestroyedKeeps
<1>4. CASE cleanupIdle \/ invalidateSkills \/ dispose \/ Disposed
  BY <1>4, CleanupKeeps, InvalidationKeeps, StopsKeep, DisposedKeeps
<1>5. CASE UNCHANGED poolVars
  BY <1>5, PoolStutter
<1>. QED BY <1>1, <1>2, <1>3, <1>4, <1>5 DEF PoolNext

\* Whatever the users do, and in whatever order the awaits of start(), destroy()
\* and dispose() end: the invariant of the pool holds.
THEOREM PoolInvariance == PoolSpec => []PoolInv
<1>1. PoolInit => PoolInv
  BY PoolStarts
<1>2. PoolInv /\ [PoolNext]_(poolVars) => PoolInv'
  BY PoolSteps
<1>. QED BY <1>1, <1>2, PTL DEF PoolSpec

-----------------------------------------------------------------------------
(* What the invariant says of the pool                                      *)

\* The order of use is as long as there are entries: it counts them.
LEMMA OrderCounts ==
  ASSUME PoolTypes
  PROVE  /\ {recency[k] : k \in DOMAIN recency} = Pooled(pool)
         /\ Len(recency) = Cardinality(Pooled(pool))
<1> DEFINE P == Pooled(pool)
<1>1. /\ recency \in Seq(Chat) /\ Once(recency)
      /\ \A c \in Chat : Has(recency, Len(recency), c) <=> c \in P
  BY DEF PoolTypes, InOrder, Pooled
<1>2. /\ Len(recency) \in Nat /\ DOMAIN recency = 1..Len(recency)
      /\ \A k \in 1..Len(recency) : recency[k] \in Chat
  BY <1>1, LenProperties, ElementOfSeq
<1>3. P \in SUBSET Chat
  BY DEF Pooled
<1> HIDE DEF P
<1>4. \A k \in 1..Len(recency) : recency[k] \in P
  BY <1>1, <1>2 DEF Has
<1>5. \A c \in P : \E k \in 1..Len(recency) : recency[k] = c
  BY <1>1, <1>3 DEF Has
<1>6. {recency[k] : k \in DOMAIN recency} = P
  BY <1>2, <1>4, <1>5
<1> DEFINE f == [k \in 1..Len(recency) |-> recency[k]]
<1>7. ExistsBijection(1..Len(recency), P)
  <2>1. f \in [1..Len(recency) -> P]
    BY <1>4
  <2>2. \A i, j \in 1..Len(recency) : f[i] = f[j] => i = j
    BY <1>1 DEF Once
  <2>3. \A c \in P : \E k \in 1..Len(recency) : f[k] = c
    BY <1>5
  <2> HIDE DEF f
  <2>4. f \in Bijection(1..Len(recency), P)
    BY <2>1, <2>2, <2>3, Fun_IsBij
  <2>. QED BY <2>4 DEF ExistsBijection
<1>8. Cardinality(P) = Len(recency)
  BY <1>2, <1>7, FS_CountingElements
<1>. QED BY <1>6, <1>8 DEF P

\* The types of the pool, with its order of use.
LEMMA PoolTypesHold ==
  ASSUME PoolTypes, CountsHold
  PROVE  PoolTypeOK
BY OrderCounts DEF PoolTypes, CountsHold, PoolTypeOK

\* The pool's bookkeeping is right for any number of chats, users and instances:
\* the entries and the order of their use agree; the cap is exceeded only by the
\* starts that have been in flight together; an entry with old skills is marked;
\* and a worker that is up outside the pool is of a chat whose start met another
\* start or a destroy (sandbox-pool.ts:122-147, 173).
THEOREM PoolIsAccountedFor == PoolSpec => []PoolConsistent
<1>1. ASSUME PoolInv PROVE PoolConsistent
  <2>1. PoolTypeOK
    BY <1>1, PoolTypesHold DEF PoolInv
  <2>2. OvershootBounded
    BY <1>1 DEF PoolInv, CountsHold
  <2>3. OldSkillsAreMarked
    BY <1>1 DEF PoolInv, ChatsHold, EntryHolds, OldSkillsAreMarked, Pooled
  <2>4. LeakNeedsOverlap
    BY <1>1 DEF PoolInv, WorkersHold, Watched, LeakNeedsOverlap, Pooled
  <2>. QED BY <2>1, <2>2, <2>3, <2>4 DEF PoolConsistent
<1>2. PoolInv => PoolConsistent
  BY <1>1
<1>. QED BY <1>2, PoolInvariance, PTL

-----------------------------------------------------------------------------
(* What makes room spares what is at work                                   *)

\* An entry goes with its chat's destroy() or the pool, because it is idle, because
\* its own chat asks for an instance, or because it is evicted for another one.
LEMMA WhyAnEntryGoes ==
  ASSUME PoolInv, [PoolNext]_(poolVars),
         NEW c \in Chat, pool[c] # NoEntry, pool'[c] = NoEntry
  PROVE  \/ destroying' # destroying
         \/ disposing' # disposing
         \/ ~pool[c].inUse
         \/ \E v \in User : ChatOf[v] = c /\ phase[v] = Out
         \/ \E v \in User : Acquire(v) /\ c \in Evicted(ChatOf[v])
<1>a. PoolTypes /\ pool[c] \in Entry
  BY EntryIs DEF PoolInv
<1>b. pool \in [Chat -> Entry \cup {NoEntry}] /\ NoEntry \notin Entry
  BY <1>a, PoolConstants DEF PoolTypes
<1>1. ASSUME NEW v \in User, AcquireLive(v) PROVE FALSE
  <2>1. /\ pool[ChatOf[v]] # NoEntry /\ ChatOf[v] \in Chat
        /\ pool' = [pool EXCEPT ![ChatOf[v]] = [pool[ChatOf[v]] EXCEPT !.inUse = TRUE]]
    BY <1>1, PoolConstants DEF AcquireLive, Reusable
  <2>2. [pool[ChatOf[v]] EXCEPT !.inUse = TRUE] \in Entry
    BY <1>a, <2>1, EntryIs DEF Entry
  <2>. QED BY <1>b, <2>1, <2>2
<1>2. ASSUME NEW v \in User, AcquireRefused(v)
      PROVE  ChatOf[v] = c /\ phase[v] = Out
  <2>1. pool' = [pool EXCEPT ![ChatOf[v]] = NoEntry] /\ phase[v] = Out
    BY <1>2 DEF AcquireRefused
  <2>. QED BY <1>b, <2>1
<1>3. ASSUME NEW v \in User, Acquire(v)
      PROVE  \/ ChatOf[v] = c /\ phase[v] = Out
             \/ c \in Evicted(ChatOf[v])
  <2>1. /\ pool' = [d \in Chat |-> IF d \in {ChatOf[v]} \cup Evicted(ChatOf[v])
                                   THEN NoEntry ELSE pool[d]]
        /\ phase[v] = Out
    BY <1>3 DEF Acquire
  <2>. QED BY <2>1
<1>4. ASSUME NEW v \in User, Started(v) PROVE FALSE
  <2>1. pool' = [pool EXCEPT ![ChatOf[v]] =
                   [inst |-> phase[v].inst, inUse |-> TRUE, stale |-> FALSE]]
    BY <1>4 DEF Started
  <2>2. [inst |-> phase[v].inst, inUse |-> TRUE, stale |-> FALSE] \in Entry
    BY <1>4 DEF Started, Entry, PoolInv, UsersHold
  <2>. QED BY <1>b, <2>1, <2>2
<1>5. ASSUME NEW v \in User, release(v) PROVE FALSE
  <2>1. pool' = [pool EXCEPT ![ChatOf[v]] = Released(pool[ChatOf[v]])]
    BY <1>5 DEF release
  <2>2. Released(pool[c]) \in Entry
    BY <1>a DEF Entry, Released
  <2>. QED BY <1>b, <2>1, <2>2
<1>6. ASSUME NEW d \in Chat, Destroyed(d) PROVE destroying' # destroying
  BY <1>a, <1>6 DEF Destroyed, PoolTypes
<1>7. CASE cleanupIdle
  <2>1. PICK S : S \in SUBSET Idle /\ Drop(S, Kept)
    BY <1>7 DEF cleanupIdle, Reclaimable
  <2>2. pool' = [d \in Chat |-> IF d \in S THEN NoEntry ELSE pool[d]]
    BY <2>1 DEF Drop, Kept
  <2>. QED BY <2>1, <2>2 DEF Idle
<1>8. CASE invalidateSkills
  <2> DEFINE S == Reclaimable(Pooled(pool))
  <2>1. pool' = [d \in Chat |-> IF d \in S THEN NoEntry ELSE Marked(pool[d])]
    BY <1>8 DEF invalidateSkills, Drop
  <2>2. Marked(pool[c]) \in Entry
    BY <1>a DEF Entry, Marked
  <2>3. c \in S
    BY <1>b, <2>1, <2>2
  <2>. QED BY <2>3 DEF Reclaimable, Idle
<1>9. CASE Disposed
  BY <1>9 DEF Disposed
<1>10. ASSUME UNCHANGED pool PROVE FALSE
  BY <1>10
<1>11. ASSUME NEW v \in User, StartFails(v) \/ runBackground(v) \/ ExecuteTimesOut(v)
       PROVE  UNCHANGED pool
  BY <1>11 DEF StartFails, runBackground, ExecuteTimesOut
<1>12. ASSUME NEW i \in Instance, Exit(i) \/ BackgroundEnds(i) PROVE UNCHANGED pool
  BY <1>12 DEF Exit, BackgroundEnds
<1>13. ASSUME \/ \E d \in Chat : destroy(d)
              \/ dispose \/ UNCHANGED poolVars
       PROVE  UNCHANGED pool
  BY <1>13 DEF destroy, dispose, poolVars
<1>. QED
  BY <1>1, <1>2, <1>3, <1>4, <1>5, <1>6, <1>7, <1>8, <1>9, <1>10, <1>11, <1>12, <1>13
  DEF PoolNext

\* A step that takes a sole user's entry from it, in use.
LEMMA InUseGoesLast ==
  ASSUME PoolInv, [PoolNext]_(poolVars), NEW u \in User,
         SoleUser(u), phase[u].at = "using", pool[ChatOf[u]] # NoEntry,
         pool[ChatOf[u]].inst = phase[u].inst, pool'[ChatOf[u]] = NoEntry
  PROVE  \/ destroying' # destroying
         \/ disposing' # disposing
         \/ /\ Cardinality(Pooled(pool)) >= MaxInstances
            /\ \E v \in User : phase[v] = Out /\ phase'[v].at = "starting"
            /\ Pooled(pool') \cap Idle \cap Evictable = {}
<1> DEFINE c == ChatOf[u]
           P == Pooled(pool)
<1>a. c \in Chat /\ PoolTypes
  BY PoolConstants DEF PoolInv
<1>b. pool[c].inUse
  BY DEF PoolInv, UsersHold, SoleUseIsKnown, SoleUser
<1>c. \A v \in User : ChatOf[v] = c => v = u
  BY DEF SoleUser, UsersOf
<1>d. phase[u] # Out
  BY DEF Out
<1>1. \/ destroying' # destroying
      \/ disposing' # disposing
      \/ \E v \in User : Acquire(v) /\ c \in Evicted(ChatOf[v])
  BY <1>a, <1>b, <1>c, <1>d, WhyAnEntryGoes
<1>2. ASSUME NEW v \in User, Acquire(v), c \in Evicted(ChatOf[v])
      PROVE  /\ Cardinality(P) >= MaxInstances
             /\ phase[v] = Out /\ phase'[v].at = "starting"
             /\ Pooled(pool') \cap Idle \cap Evictable = {}
  <2> DEFINE k == ChatOf[v]
             E == Evictable \ {k}
  <2>1. k \in Chat /\ phase[v] = Out
    BY <1>2, PoolConstants DEF Acquire
  <2>2. phase'[v].at = "starting"
    <3>1. PICK i \in Instance : phase' = [phase EXCEPT ![v] = [at |-> "starting", inst |-> i]]
      BY <1>2 DEF Acquire
    <3>. QED BY <1>a, <3>1 DEF PoolTypes
  <2>3. IsFull(Cardinality(P \ {k})) => E # {}
    BY <1>2 DEF Acquire
  <2>4. /\ Cardinality(P \ {k}) >= MaxInstances
        /\ E \cap Idle # {} => c \in Idle
    BY <1>2, <2>1, <2>3, EvictedIs
  <2>5. Cardinality(P) >= MaxInstances
    <3>1. P \in SUBSET Chat
      BY DEF Pooled
    <3>2. IsFiniteSet(P)
      BY <3>1, PoolConstants, FS_Subset
    <3> HIDE DEF P, k
    <3>3. /\ Cardinality(P) \in Nat /\ Cardinality(P \ {k}) \in Nat
          /\ Cardinality(P \ {k}) <= Cardinality(P)
      BY <3>2, OneMore
    <3>4. Cardinality(P) >= MaxInstances
      BY <2>4, <3>3, PoolConstants
    <3>. QED BY <3>4
  <2>6. E \cap Idle = {}
    BY <1>b, <2>4 DEF Idle
  <2>7. \A d \in Chat : pool'[d] # NoEntry => d # k
    <3>1. pool' = [d \in Chat |-> IF d \in {k} \cup Evicted(k) THEN NoEntry ELSE pool[d]]
      BY <1>2 DEF Acquire
    <3>. QED BY <3>1
  <2>8. Pooled(pool') \cap Idle \cap Evictable = {}
    BY <2>6, <2>7 DEF Pooled
  <2>. QED BY <2>1, <2>2, <2>5, <2>8
<1>. QED BY <1>1, <1>2

\* A worker that stop() leaves stopping, and was up before, is one it was called for.
LEMMA WasStopped ==
  ASSUME PoolTypes, NEW c \in Chat, pool[c] # NoEntry, background[pool[c].inst],
         proc[pool[c].inst] = "up", NEW S, Stopped(S)[pool[c].inst] = "stopping"
  PROVE  pool[c].inst \in S
<1>1. pool[c].inst \in Instance
  BY EntryIs
<1>. QED BY <1>1 DEF Stopped

\* A worker is stopped under a background command by destroy() or dispose(), or
\* under an execution that times out.
LEMMA WhyAWorkerIsStopped ==
  ASSUME PoolInv, [PoolNext]_(poolVars),
         NEW c \in Chat, pool[c] # NoEntry, background[pool[c].inst],
         proc[pool[c].inst] = "up", proc'[pool[c].inst] = "stopping"
  PROVE  \/ destroying' # destroying
         \/ disposing' # disposing
         \/ \E u \in User : /\ phase[u] = [at |-> "using", inst |-> pool[c].inst]
                            /\ pool' = pool
<1> DEFINE i == pool[c].inst
<1>a. PoolTypes /\ i \in Instance
  BY EntryIs DEF PoolInv
<1>b. \A d \in Evictable : pool[d].inst # i
  BY DEF Evictable
<1>1. ASSUME NEW v \in User, AcquireRefused(v) PROVE FALSE
  <2>1. proc' = Stopped(Recycled(ChatOf[v]))
    BY <1>1 DEF AcquireRefused
  <2>2. i \in Recycled(ChatOf[v])
    BY <1>a, <2>1, WasStopped
  <2>. QED BY <2>2 DEF Recycled
<1>2. ASSUME NEW v \in User, Acquire(v) PROVE FALSE
  <2> DEFINE k == ChatOf[v]
             stop == Recycled(k) \cup StopsEvicted(Evicted(k))
  <2>1. PICK j \in Instance : proc' = [Stopped(stop) EXCEPT ![j] = "starting"]
    BY <1>2 DEF Acquire
  <2>2. Stopped(stop) \in [Instance -> Process]
    BY <1>a, StoppedIs
  <2>3. Stopped(stop)[i] = "stopping"
    <3> HIDE DEF stop
    <3>. QED BY <1>a, <2>1, <2>2
  <2>4. i \in stop
    <3> HIDE DEF stop
    <3>. QED BY <1>a, <2>3, WasStopped
  <2>5. i \notin Recycled(k)
    BY DEF Recycled
  <2>6. k \in Chat /\ (IsFull(Cardinality(Pooled(pool) \ {k})) => Evictable \ {k} # {})
    BY <1>2, PoolConstants DEF Acquire
  <2>7. Evicted(k) \in SUBSET Evictable
    BY <2>6, EvictedIs
  <2>. QED BY <1>b, <2>4, <2>5, <2>7 DEF StopsEvicted
<1>3. ASSUME NEW v \in User, Started(v) \/ StartFails(v) PROVE FALSE
  <2>1. \E s \in {"up", "dead"} : proc' = [proc EXCEPT ![phase[v].inst] = s]
    BY <1>3 DEF Started, StartFails
  <2>. QED BY <1>a, <2>1 DEF PoolTypes
<1>4. ASSUME NEW j \in Instance, Exit(j) PROVE FALSE
  BY <1>a, <1>4 DEF Exit, PoolTypes
<1>5. ASSUME NEW v \in User, ExecuteTimesOut(v)
      PROVE  phase[v] = [at |-> "using", inst |-> i] /\ pool' = pool
  <2>1. proc' = Stopped({phase[v].inst}) /\ phase[v].at = "using" /\ pool' = pool
    BY <1>5 DEF ExecuteTimesOut
  <2>2. i \in {phase[v].inst}
    BY <1>a, <2>1, WasStopped
  <2>3. phase[v] \in Phase
    BY <1>a DEF PoolTypes
  <2>. QED BY <2>1, <2>2, <2>3 DEF Phase
<1>6. ASSUME NEW d \in Chat, destroy(d) PROVE destroying' # destroying
  <2>1. /\ destroying[d] = None /\ pool[d] # NoEntry
        /\ destroying' = [destroying EXCEPT ![d] = pool[d].inst]
    BY <1>6 DEF destroy
  <2>2. pool[d].inst # None
    BY <1>a, <2>1, EntryIs, PoolConstants
  <2>. QED BY <1>a, <2>1, <2>2 DEF PoolTypes
<1>7. ASSUME cleanupIdle \/ invalidateSkills PROVE FALSE
  <2>1. PICK S : S \in SUBSET Evictable /\ proc' = Stopped({pool[d].inst : d \in S})
    BY <1>7 DEF cleanupIdle, invalidateSkills, Drop, Reclaimable
  <2>2. i \in {pool[d].inst : d \in S}
    BY <1>a, <2>1, WasStopped
  <2>. QED BY <1>b, <2>1, <2>2
<1>8. CASE dispose
  BY <1>8 DEF dispose, Open
<1>9. ASSUME UNCHANGED proc PROVE FALSE
  BY <1>9
<1>10. ASSUME \/ \E v \in User : AcquireLive(v) \/ release(v) \/ runBackground(v)
              \/ \E j \in Instance : BackgroundEnds(j)
              \/ \E d \in Chat : Destroyed(d)
              \/ Disposed \/ UNCHANGED poolVars
       PROVE  UNCHANGED proc
  BY <1>10 DEF AcquireLive, release, runBackground, BackgroundEnds,
     Destroyed, Disposed, poolVars
<1>. QED
  BY <1>1, <1>2, <1>3, <1>4, <1>5, <1>6, <1>7, <1>8, <1>9, <1>10 DEF PoolNext

\* Making room spares what is at work, for any number of chats, users and instances:
\* a sole user's entry goes in use only when the pool is full and nothing idle can
\* go instead, and no background command is ended by an eviction, a cleaning, a
\* reload or a replacement (sandbox-pool.ts:265-345).
THEOREM PoolSparesWork == PoolSpec => EvictionSparesWork
<1> DEFINE Lasts(u) ==
      LET c == ChatOf[u] IN
      /\ SoleUser(u) /\ phase[u].at = "using" /\ phase'[u] = phase[u]
      /\ pool[c] # NoEntry /\ pool[c].inst = phase[u].inst
      /\ pool'[c] = NoEntry
      => \/ destroying' # destroying
         \/ disposing' # disposing
         \/ /\ Cardinality(Pooled(pool)) >= MaxInstances
            /\ \E v \in User : phase[v] = Out /\ phase'[v].at = "starting"
            /\ Pooled(pool') \cap Idle \cap Evictable = {}
    Woken(c) ==
      LET i == pool[c].inst IN
      background[i] /\ proc[i] = "up" /\ proc'[i] = "stopping"
        => \/ destroying' # destroying
           \/ disposing' # disposing
           \/ \E u \in User : phase[u] = [at |-> "using", inst |-> i]
                              /\ pool' = pool
<1>1. PoolInv /\ [PoolNext]_(poolVars) => [\A u \in User : Lasts(u)]_(poolVars)
  BY InUseGoesLast
<1>2. PoolInv /\ [PoolNext]_(poolVars) => [\A c \in Pooled(pool) : Woken(c)]_(poolVars)
  BY WhyAWorkerIsStopped DEF Pooled
<1>3. PoolSpec => [][\A u \in User : Lasts(u)]_(poolVars)
  BY <1>1, PoolInvariance, PTL DEF PoolSpec
<1>4. PoolSpec => [][\A c \in Pooled(pool) : Woken(c)]_(poolVars)
  BY <1>2, PoolInvariance, PTL DEF PoolSpec
<1>. QED BY <1>3, <1>4 DEF EvictionSparesWork, InUseEvictedLast, WakeNotKill
===============================================================================
