------------------------------ MODULE TaskRecords ------------------------------
(***************************************************************************)
(* The records of dispatched subagent tasks that GlobalState keeps         *)
(* (main-agent/global-state.ts), as a list: what its operations make of    *)
(* one.  Of a record only the id and the status are kept.                  *)
(***************************************************************************)
EXTENDS Integers, Sequences

CONSTANTS
  Task,       \* task ids
  MaxTasks,   \* MAX_DISPATCHED_SUBAGENT_TASKS
  Torn        \* a state file that does not parse

Live     == {"PENDING", "RUNNING"}
Terminal == {"COMPLETED", "ERROR", "SKIPPED", "TIMEOUT"}
Record   == [id : Task, status : Live \cup Terminal]

ASSUME LedgerAssumption == MaxTasks \in Nat \ {0} /\ Torn \notin Seq(Record)

Has(ts, t) == \E i \in DOMAIN ts : ts[i].id = t

-----------------------------------------------------------------------------

\* The records after the status of t is replaced, if t is still recorded.
Updated(ts, t, st) ==
  [i \in DOMAIN ts |-> IF ts[i].id = t THEN [id |-> t, status |-> st] ELSE ts[i]]

\* Fault: the cap is not enforced.
Everything(ts) == ts

\* The newest MaxTasks records: the others are shifted out.
Newest(ts) ==
  IF Len(ts) > MaxTasks THEN SubSeq(ts, Len(ts) - MaxTasks + 1, Len(ts)) ELSE ts

\* recordDispatchedSubagentTask: replace in place, or append.
Recorded(ts, t) ==
  Newest(IF Has(ts, t) THEN Updated(ts, t, "PENDING")
         ELSE Append(ts, [id |-> t, status |-> "PENDING"]))

\* load(): a file that does not parse is replaced by the default state.
Loaded(f) == IF f = Torn THEN <<>> ELSE f

\* reconcileLeakedDispatchedTasks.
Reconciled(ts) ==
  [i \in DOMAIN ts |-> IF ts[i].status \in Live
                       THEN [id |-> ts[i].id, status |-> "TIMEOUT"] ELSE ts[i]]
=============================================================================
