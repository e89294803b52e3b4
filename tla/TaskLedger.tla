------------------------------ MODULE TaskLedger ------------------------------
(***************************************************************************)
(* The ledger of dispatched subagent tasks that GlobalState keeps          *)
(* (main-agent/global-state.ts): one record per task, the oldest dropped   *)
(* beyond a cap, the whole state rewritten to one file, and the records an *)
(* exited process left in flight reconciled to TIMEOUT by the next one.    *)
(*                                                                         *)
(* The state file holds the other collections too; here it is the list of  *)
(* records.                                                                *)
(***************************************************************************)
EXTENDS TaskRecords

VARIABLES
  tasks,      \* state.dispatchedSubagentTasks, oldest first
  file,       \* what load() would read: the records, or Torn
  dirty,      \* a change is due to be saved
  slipped     \* history: a save of which nothing was due has failed since the
              \* file last had what memory has

ledgerVars == <<tasks, file, dirty, slipped>>

\* Fault: the dirty flag is cleared whatever became of the write.
SaveAssumedGood(ts, due) ==
  /\ file' \in {ts, file, Torn}
  /\ dirty' = FALSE
  /\ UNCHANGED slipped

\* save(), with the dirty flag it finds.  writeFileSync truncates and writes; an
\* error leaves the old file or a part of the new one, is logged, and leaves the
\* flag as it was.
Save(ts, due) ==
  \/ file' = ts /\ dirty' = FALSE /\ slipped' = FALSE
  \/ /\ file' \in {file, Torn}
     /\ dirty' = due
     /\ slipped' = (slipped \/ ~due)

RecordTask(t) ==
  /\ tasks' = Recorded(tasks, t)
  /\ dirty' = TRUE
  /\ UNCHANGED <<file, slipped>>

\* updateDispatchedSubagentTask: a record that was dropped is not touched; a
\* change is marked as due, and a terminal status is saved at once.
UpdateTask(t, st) ==
  /\ Has(tasks, t)
  /\ tasks' = Updated(tasks, t, st)
  /\ IF st \in Terminal THEN Save(tasks', TRUE)
     ELSE dirty' = TRUE /\ UNCHANGED <<file, slipped>>

\* The end of a main-loop tick and the dashboard's settings save whether or not
\* a change is due; the autosave timer and dispose() when one is.
SaveState ==
  /\ Save(tasks, dirty)
  /\ UNCHANGED tasks

\* The process exits, unsaved changes are gone; the constructor of the next
\* one loads the file and saves what it had to reconcile, which it marks as due
\* nowhere.
Restart ==
  /\ tasks' = Reconciled(Loaded(file))
  /\ IF tasks' # Loaded(file)
     THEN Save(tasks', FALSE)
     ELSE dirty' = FALSE /\ slipped' = FALSE /\ UNCHANGED file

Init == tasks = <<>> /\ file = <<>> /\ dirty = FALSE /\ slipped = FALSE

\* Any caller, in any order.
Next ==
  \/ \E t \in Task : RecordTask(t)
  \/ \E t \in Task, st \in (Live \cup Terminal) \ {"TIMEOUT"} : UpdateTask(t, st)
  \/ SaveState
  \/ Restart

Spec == Init /\ [][Next]_ledgerVars

-----------------------------------------------------------------------------

\* Records have their types, and the list never outgrows the cap, in memory
\* or in the file.
TypeOK ==
  /\ tasks \in Seq(Record) /\ Len(tasks) <= MaxTasks
  /\ file \in Seq(Record) \cup {Torn} /\ Len(Loaded(file)) <= MaxTasks
  /\ dirty \in BOOLEAN /\ slipped \in BOOLEAN

\* One record per task, in memory and in the file, whatever order records are
\* added, replaced, dropped and reloaded in.
UniqueIds(ts) == \A i, j \in DOMAIN ts : ts[i].id = ts[j].id => i = j

OneRecordPerTask == UniqueIds(tasks) /\ UniqueIds(Loaded(file))

\* A change stays due until the file has it, however many saves fail: the file
\* can differ from memory with nothing due only after the failure of a save of
\* which nothing was due (the one at start-up, the one that ends a tick).
CleanMeansSaved == ~dirty /\ ~slipped => Loaded(file) = tasks

\* The list and the file are well formed: within the cap, and with one record
\* for a task, whatever was replaced, dropped, reloaded or torn; and no change is
\* forgotten that the file does not have.
LedgerConsistent == TypeOK /\ OneRecordPerTask /\ CleanMeansSaved
=============================================================================
