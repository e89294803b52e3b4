------------------------------ MODULE TaskServer ------------------------------
(***************************************************************************)
(* What an executor promises to those who hand it tasks: it serves them    *)
(* one at a time, in the order they came, and answers each it has started  *)
(* once.  A task it has not started is only given up when the user         *)
(* cancels, or until the run he cancelled has been answered.               *)
(***************************************************************************)
EXTENDS Sequences

CONSTANTS Task, Idle

VARIABLES
  waiting,     \* tasks handed over and not started, in order
  serving,     \* the task being run, or Idle
  answered,    \* tasks whose callback has been handed on
  halting      \* the user cancelled and the executor has not reset yet

serverVars == <<waiting, serving, answered, halting>>

TypeOK ==
  /\ waiting \in Seq(Task)
  /\ serving \in Task \cup {Idle}
  /\ answered \subseteq Task
  /\ halting \in BOOLEAN

Known(t) ==
  t = serving \/ t \in answered \/ \E i \in DOMAIN waiting : waiting[i] = t

Init == waiting = <<>> /\ serving = Idle /\ answered = {} /\ halting = FALSE

\* With the queue q and nothing running, take the next task or rest.
TakeNext(q) ==
  IF q = <<>> \/ halting
  THEN serving' = Idle /\ waiting' = <<>> /\ halting' = FALSE
  ELSE serving' = Head(q) /\ waiting' = Tail(q) /\ UNCHANGED halting

Submit(t) ==
  /\ ~Known(t)
  /\ IF serving = Idle THEN TakeNext(Append(waiting, t))
     ELSE waiting' = Append(waiting, t) /\ UNCHANGED <<serving, halting>>
  /\ UNCHANGED answered

Answer ==
  /\ serving # Idle
  /\ answered' = answered \cup {serving}
  /\ TakeNext(waiting)

Cancel ==
  /\ waiting' = <<>> /\ halting' = TRUE
  /\ UNCHANGED <<serving, answered>>

Crash ==
  /\ waiting' = <<>> /\ serving' = Idle /\ halting' = FALSE
  /\ UNCHANGED answered

Next == (\E t \in Task : Submit(t)) \/ Answer \/ Cancel \/ Crash

\* A task that is being served is answered, unless the process ends first.
Spec == Init /\ [][Next]_serverVars /\ WF_serverVars(Answer)
=============================================================================
