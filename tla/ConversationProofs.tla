-------------------------- MODULE ConversationProofs --------------------------
(***************************************************************************)
(* Theorems about Conversation, for any number of deletions at a time.     *)
(***************************************************************************)
EXTENDS Conversation, TLAPS

Instance ==
  [exists : BOOLEAN, buffer : BOOLEAN, knows : Age,
   running : BOOLEAN, queued : BOOLEAN, cancelled : BOOLEAN, dispatches : BOOLEAN]

\* What removed instances still do is what the last deletion did not stop, or a
\* run that a dispatch it did not stop has started.
RemovedIsLeft ==
  /\ "flush" \in removed => "flush" \in left
  /\ removed \cap {"run", "dispatch"} # {} => "work" \in left

\* Works(r): the instance has an executor, or a call that is to give it one.
Works(r) == r.knows # None \/ r.running \/ r.queued \/ r.dispatches

\* An instance knows of old data, or works at all, only for the reasons there
\* are for the session file; what is kept elsewhere is old for the same.
KnowledgeHasASource ==
  /\ held.knows = Old \/ elsewhere = Old => left # {}
  /\ Works(held) /\ ~touched => left \cap {"work", "step"} # {}

\* Backfill wakes the chat, or is about to fetch it anew, only if it was under
\* way when the chat was deleted, or has listed it since as an unread one.
BackfillHasASource ==
  backfill = "wake" \/ (backfill = "listed" /\ log = None) =>
    left \cap {"backfill", "unread"} # {}

IInv == TypeOK /\ RemovedIsLeft

Deleted ==
  KnowledgeHasASource /\ BackfillHasASource /\ OldDataHasASource /\ StaysDeleted

-----------------------------------------------------------------------------
(* What a step does to the instance that is held                            *)

\* The older of two ages is one of them, and old if one is.
LEMMA OlderIs ==
  ASSUME NEW x \in Age, NEW y \in Age
  PROVE  /\ Older(x, y) \in {x, y}
         /\ Older(x, y) = Old <=> (x = Old \/ y = Old)
         /\ Older(x, y) = None => x = None /\ y = None
BY DEF Older, Age, None, New, Old

\* An instance that begins the next task, or drops it, is one that works on.
LEMMA StartedIs ==
  ASSUME NEW r \in Instance, log \in Age
  PROVE  /\ Started(r) \in Instance
         /\ Started(r).exists = r.exists
         /\ Started(r).knows \in {r.knows, Older(r.knows, log)}
<1>1. Older(r.knows, log) \in Age
  BY OlderIs DEF Instance
<1>. QED BY <1>1 DEF Started, Instance

\* So is one that a task is handed to.
LEMMA EnqueuedIs ==
  ASSUME NEW r \in Instance, log \in Age
  PROVE  /\ Enqueued(r) \in Instance
         /\ Enqueued(r).exists = r.exists
         /\ Enqueued(r).knows \in {r.knows, Older(r.knows, log)}
<1>1. /\ [r EXCEPT !.queued = TRUE] \in Instance
      /\ [r EXCEPT !.queued = TRUE].exists = r.exists
      /\ [r EXCEPT !.queued = TRUE].knows = r.knows
  BY DEF Instance
<1>. QED BY <1>1, StartedIs DEF Enqueued

\* There is no instance.
LEMMA NoInstanceIs ==
  /\ NoInstance \in Instance /\ ~NoInstance.exists /\ ~Works(NoInstance)
  /\ NoInstance.knows = None
BY DEF NoInstance, Instance, Works, Age, None, New, Old

\* Typed: TypeOK with the instance by its name.
LEMMA TypedIs ==
  TypeOK <=>
    /\ held \in Instance
    /\ removed \subseteq {"flush", "run", "dispatch"}
    /\ log \in Age /\ session \in Age /\ elsewhere \in Age
    /\ target \in [Delete -> {"none", "held", "removed"}]
    /\ backfill \in {"no", "listed", "wake"}
    /\ left \subseteq {"flush", "work", "backfill", "unread", "elsewhere", "step"}
    /\ touched \in BOOLEAN
BY DEF TypeOK, Instance

\* The same of the next state.
LEMMA TypedNext ==
  TypeOK' <=>
    /\ held' \in Instance
    /\ removed' \subseteq {"flush", "run", "dispatch"}
    /\ log' \in Age /\ session' \in Age /\ elsewhere' \in Age
    /\ target' \in [Delete -> {"none", "held", "removed"}]
    /\ backfill' \in {"no", "listed", "wake"}
    /\ left' \subseteq {"flush", "work", "backfill", "unread", "elsewhere", "step"}
    /\ touched' \in BOOLEAN
BY DEF TypeOK, Instance

\* Messages and backfill leave what removed instances do alone.
LEMMA MessagesKeep ==
  ASSUME IInv, \/ Message \/ MessageMakesNone \/ BackfillLists
               \/ BackfillContinues \/ BackfillStartsOver \/ WakeFires
  PROVE  IInv'
<1>1. /\ UNCHANGED <<removed, session, target>> /\ touched' \in {touched, TRUE}
      /\ left' \in {left, left \cup {"unread"}} /\ held' \in Instance
      /\ log' \in Age /\ elsewhere' \in Age /\ backfill' \in {"no", "listed", "wake"}
  <2>1. held \in Instance /\ {log, elsewhere} \subseteq Age /\ {New, Old} \subseteq Age
    BY TypedIs DEF IInv, Age
  <2>2. /\ Older(log, New) \in Age /\ Older(log, Old) \in Age
        /\ Older(elsewhere, New) \in Age
    BY <2>1, OlderIs
  <2>. QED
    BY <2>1, <2>2, TypedIs DEF IInv, Message, MessageMakesNone, BackfillLists, BackfillContinues,
       BackfillStartsOver, WakeFires, Arrives, Stored, Told, Got, stores, history, Instance
<1>. QED BY <1>1, TypedIs, TypedNext DEF IInv, RemovedIsLeft

\* A flush of the recording ends with the instance as it was, but for what it
\* buffers; one of a removed instance starts nothing.
LEMMA FlushesKeep ==
  ASSUME IInv, Flush \/ RemovedFlushes
  PROVE  IInv'
<1>1. /\ UNCHANGED <<session, target, backfill, elsewhere, left, touched>>
      /\ removed' \subseteq removed
      /\ held' \in Instance
      /\ log' \in Age
  BY TypedIs DEF IInv, Flush, RemovedFlushes, Ends, stores, history,
     Instance, Age
<1>. QED BY <1>1, TypedIs, TypedNext DEF IInv, RemovedIsLeft

\* A call of taskToGroup makes the instance exist, with what the session file
\* knows.
LEMMA DispatchBeginsIs ==
  ASSUME TypeOK, DispatchBegins
  PROVE  /\ held' \in Instance
         /\ held'.knows = Old => held.knows = Old \/ session = Old
         /\ UNCHANGED <<removed, log, session, target, backfill, elsewhere, left>>
         /\ touched' = TRUE
<1> DEFINE k == IF held.knows = None THEN session ELSE held.knows
<1>1. held \in Instance /\ session \in Age /\ New \in Age
  BY TypedIs DEF Age
<1>2. k \in Age
  BY <1>1 DEF Instance
<1>3. Older(New, k) \in Age /\ (Older(New, k) = Old => k = Old)
  BY <1>1, <1>2, OlderIs DEF New, Old
<1>4. held' = [held EXCEPT !.exists = TRUE, !.dispatches = TRUE, !.knows = Older(New, k)]
  BY <1>1 DEF DispatchBegins, Got, Instance
<1>5. held' \in Instance /\ held'.knows = Older(New, k)
  BY <1>1, <1>3, <1>4 DEF Instance
<1>. QED BY <1>3, <1>5 DEF DispatchBegins, stores

\* A dispatch that ends, a run that goes on or ends and a task from elsewhere come
\* to an instance at work; what it knows then, saves and tells, it knew, reads in the
\* log or is told.
LEMMA WorkIs ==
  ASSUME TypeOK, DispatchEnds \/ RunGoesOn \/ RunEnds \/ ElsewhereForwards
  PROVE  /\ Works(held)
         /\ held' \in Instance /\ held'.exists = held.exists
         /\ session' \in Age /\ elsewhere' \in Age
         /\ held'.knows = Old \/ session' = Old \/ elsewhere' = Old =>
              held.knows = Old \/ log = Old \/ session = Old \/ elsewhere = Old
         /\ UNCHANGED <<removed, log, target, backfill, left, touched>>
<1>1. held \in Instance /\ {log, session, elsewhere} \subseteq Age /\ held.knows \in Age
  BY TypedIs DEF Instance
<1>2. /\ Works(held)
      /\ UNCHANGED <<removed, log, target, backfill, left, touched>>
  BY DEF DispatchEnds, RunGoesOn, RunEnds, ElsewhereForwards, Works, stores, history
<1>3. ASSUME NEW x \in Age PROVE Older(x, log) \in Age /\ (Older(x, log) = Old => x = Old \/ log = Old)
  BY <1>1, OlderIs
<1>4. ASSUME NEW x \in Age, Told(x)
      PROVE  elsewhere' \in Age /\ (elsewhere' = Old => elsewhere = Old \/ x = Old)
  <2>1. Older(elsewhere, x) \in Age /\ (Older(elsewhere, x) = Old => elsewhere = Old \/ x = Old)
    BY <1>1, OlderIs
  <2>. QED BY <1>1, <1>4, <2>1 DEF Told
<1>5. ASSUME NEW r \in Instance, r.exists = held.exists,
             r.knows = Old => held.knows = Old \/ elsewhere = Old,
             held' \in {r, Started(r), Enqueued(r)}
      PROVE  /\ held' \in Instance /\ held'.exists = held.exists
             /\ held'.knows = Old => held.knows = Old \/ log = Old \/ elsewhere = Old
  <2>1. r.knows \in Age
    BY DEF Instance
  <2>. QED BY <1>1, <1>3, <1>5, <2>1, StartedIs, EnqueuedIs
<1>6. CASE DispatchEnds
  <2>1. PICK others \in BOOLEAN, fails \in BOOLEAN :
          LET r == [held EXCEPT !.dispatches = others] IN
          held' = IF fails THEN r ELSE Enqueued(r)
    BY <1>6 DEF DispatchEnds
  <2> DEFINE r == [held EXCEPT !.dispatches = others]
  <2>2. r \in Instance /\ r.exists = held.exists /\ r.knows = held.knows
    BY <1>1 DEF Instance
  <2>3. held' \in {r, Started(r), Enqueued(r)}
    BY <2>1
  <2> HIDE DEF r
  <2>4. UNCHANGED <<session, elsewhere>>
    BY <1>6 DEF DispatchEnds, stores
  <2>. QED BY <1>1, <1>2, <1>5, <2>2, <2>3, <2>4
<1>7. CASE RunGoesOn
  <2> DEFINE k == Older(held.knows, log)
  <2>1. k \in Age /\ (k = Old => held.knows = Old \/ log = Old)
    BY <1>1, <1>3
  <2>2. held' = [held EXCEPT !.knows = k]
    BY <1>1, <1>7 DEF RunGoesOn, Instance
  <2> HIDE DEF k
  <2>3. held' \in Instance /\ held'.exists = held.exists /\ held'.knows = k
    BY <1>1, <2>1, <2>2 DEF Instance
  <2>4. session' \in {session, k} /\ Told(k)
    BY <1>7, <2>3 DEF RunGoesOn
  <2>. QED BY <1>1, <1>2, <1>4, <2>1, <2>3, <2>4
<1>8. CASE RunEnds
  <2> DEFINE r == [held EXCEPT !.running = FALSE]
             idle == [r EXCEPT !.cancelled = FALSE]
  <2>1. /\ r \in Instance /\ r.exists = held.exists /\ r.knows = held.knows
        /\ idle \in Instance /\ idle.exists = held.exists /\ idle.knows = held.knows
    BY <1>1 DEF Instance
  <2>2. session' = held.knows /\ held' \in {Started(r), idle} /\ Told(held.knows)
    BY <1>8 DEF RunEnds
  <2> HIDE DEF r, idle
  <2>3. CASE held' = Started(r)
    BY <1>1, <1>2, <1>4, <1>5, <2>1, <2>2, <2>3
  <2>4. CASE held' = idle
    BY <1>1, <1>2, <1>4, <2>1, <2>2, <2>4
  <2>. QED BY <2>2, <2>3, <2>4
<1>9. CASE ElsewhereForwards
  <2> DEFINE k == Older(held.knows, elsewhere)
             r == [held EXCEPT !.knows = k]
  <2>1. k \in Age /\ (k = Old => held.knows = Old \/ elsewhere = Old)
    BY <1>1, OlderIs
  <2>2. held' = Enqueued(r)
    BY <1>1, <1>9 DEF ElsewhereForwards, Instance
  <2> HIDE DEF k
  <2>3. r \in Instance /\ r.exists = held.exists /\ r.knows = k
    BY <1>1, <2>1 DEF Instance
  <2> HIDE DEF r
  <2>4. UNCHANGED <<session, elsewhere>>
    BY <1>9 DEF ElsewhereForwards, stores
  <2>. QED BY <1>1, <1>2, <1>5, <2>1, <2>2, <2>3, <2>4
<1>. QED BY <1>6, <1>7, <1>8, <1>9

\* A dispatch or a run that goes on changes the instance, the session file and
\* what is kept elsewhere.
LEMMA RunsKeep ==
  ASSUME IInv, \/ DispatchBegins \/ DispatchEnds \/ RunGoesOn \/ RunEnds
               \/ ElsewhereForwards \/ ElsewhereCloses
  PROVE  IInv'
<1>1. CASE DispatchBegins
  BY <1>1, DispatchBeginsIs, TypedIs, TypedNext DEF IInv, RemovedIsLeft
<1>2. CASE DispatchEnds \/ RunGoesOn \/ RunEnds \/ ElsewhereForwards
  BY <1>2, WorkIs, TypedIs, TypedNext DEF IInv, RemovedIsLeft
<1>3. CASE ElsewhereCloses
  BY <1>3, TypedIs, TypedNext DEF IInv, RemovedIsLeft, ElsewhereCloses, stores, history, Age
<1>. QED BY <1>1, <1>2, <1>3

\* What removed instances do starts a run only where a dispatch was left.
LEMMA RemovedKeep ==
  ASSUME IInv, RemovedDispatchEnds \/ RemovedRunSaves
  PROVE  IInv'
<1>1. /\ UNCHANGED <<held, log, target, backfill, left, touched>>
      /\ session' \in Age /\ elsewhere' \in Age
  BY TypedIs DEF IInv, RemovedDispatchEnds, RemovedRunSaves, Told, Older, stores, history, Age,
     None, New, Old
<1>2. /\ removed' \subseteq removed \cup {"run"}
      /\ removed \cap {"run", "dispatch"} # {}
  BY DEF RemovedDispatchEnds, RemovedRunSaves, Ends
<1>. QED BY <1>1, <1>2, TypedIs, TypedNext DEF IInv, RemovedIsLeft

\* The cascade leaves no instance and records what it does not stop.
LEMMA CascadeKeeps ==
  ASSUME IInv, NEW d \in Delete, Cascade(d)
  PROVE  IInv'
<1>1. /\ held' = NoInstance /\ touched' = FALSE /\ backfill' = backfill
      /\ left' \subseteq {"flush", "work", "backfill", "unread", "elsewhere", "step"}
      /\ "flush" \in removed' => "flush" \in left'
      /\ removed' \cap {"run", "dispatch"} # {} => "work" \in left'
  BY DEF Cascade, Remains
<1>2. removed' \subseteq {"flush", "run", "dispatch"}
  BY TypedIs DEF IInv, Cascade, StillDoes
<1>3. log' \in Age /\ session' \in Age /\ elsewhere' \in Age
  BY TypedIs DEF IInv, Cascade, Emptied, Aged, Age
<1>4. target' \in [Delete -> {"none", "held", "removed"}]
  BY TypedIs DEF IInv, Cascade, Overtaken
<1>. QED BY <1>1, <1>2, <1>3, <1>4, TypedIs, TypedNext, NoInstanceIs DEF IInv, RemovedIsLeft

\* A cancelled instance is one.
LEMMA CancelledIs ==
  ASSUME NEW r \in Instance
  PROVE  /\ Cancelled(r) \in Instance
         /\ Cancelled(r).knows = r.knows /\ Cancelled(r).exists = r.exists
         /\ Works(Cancelled(r)) => Works(r)
BY DEF Cancelled, Instance, Works

\* A deletion raises the flag of an instance that it then waits for; so does the
\* dashboard.
LEMMA DeletionsKeep ==
  ASSUME IInv, \/ CancelCalled
               \/ \E d \in Delete : DeleteAtOnce(d) \/ DeleteCalled(d) \/ DeleteGoesOn(d)
  PROVE  IInv'
<1>1. CASE \E d \in Delete : DeleteAtOnce(d) \/ DeleteGoesOn(d)
  BY <1>1, CascadeKeeps DEF DeleteAtOnce, DeleteGoesOn
<1>2. CASE CancelCalled \/ \E d \in Delete : DeleteCalled(d)
  <2>1. /\ UNCHANGED <<removed, log, session, backfill, elsewhere, left, touched>>
        /\ held' \in Instance
        /\ target' \in [Delete -> {"none", "held", "removed"}]
    BY <1>2, TypedIs, CancelledIs DEF IInv, DeleteCalled, CancelCalled, stores, history
  <2>. QED BY <2>1, TypedIs, TypedNext DEF IInv, RemovedIsLeft
<1>. QED BY <1>1, <1>2

\* A restart forgets what was removed, and makes an instance of a session file.
LEMMA RestartKeeps ==
  ASSUME IInv, Restart
  PROVE  IInv'
<1>1. /\ UNCHANGED <<log, session, left, touched>> /\ removed' = {} /\ backfill' = "no"
      /\ target' \in [Delete -> {"none", "held", "removed"}] /\ elsewhere' = None
  BY DEF Restart, stores, history
<1>2. held' \in Instance /\ None \in Age
  BY TypedIs, NoInstanceIs DEF IInv, Restart, Restored, Instance, Age
<1>. QED BY <1>1, <1>2, TypedIs, TypedNext DEF IInv, RemovedIsLeft

\* IInv is inductive.
LEMMA ConversationInvariant == Spec => []IInv
<1>1. Init => IInv
  <2> SUFFICES ASSUME Init PROVE IInv
    OBVIOUS
  <2>. QED BY TypedIs, NoInstanceIs DEF Init, IInv, RemovedIsLeft, Age
<1>2. IInv /\ [Next]_vars => IInv'
  <2> SUFFICES ASSUME IInv, [Next]_vars PROVE IInv'
    OBVIOUS
  <2>1. CASE UNCHANGED vars
    BY <2>1, TypedIs, TypedNext DEF vars, stores, history, IInv, RemovedIsLeft
  <2>2. CASE Next
    BY <2>2, MessagesKeep, FlushesKeep, RunsKeep, RemovedKeep, DeletionsKeep, RestartKeeps
    DEF Next
  <2>. QED BY <2>1, <2>2
<1>. QED BY <1>1, <1>2, PTL DEF Spec

-----------------------------------------------------------------------------
(* What has been deleted stays deleted                                      *)

DInv == IInv /\ Deleted

\* A message is something new; what backfill fetches without a watermark is old,
\* but it was under way when the chat was deleted, or has listed it as an unread
\* one.
LEMMA MessagesStayTrue ==
  ASSUME DInv,
         \/ Message \/ MessageMakesNone \/ BackfillLists
         \/ BackfillContinues \/ BackfillStartsOver \/ WakeFires
  PROVE  Deleted'
<1>1. /\ held \in Instance /\ {log, elsewhere} \subseteq Age
      /\ {New, Old} \subseteq Age /\ New # Old
  BY TypedIs DEF DInv, IInv, Age, New, Old
<1>2. /\ UNCHANGED <<removed, session, target>>
      /\ elsewhere' \in {elsewhere, Older(elsewhere, New)}
      /\ touched' \in {touched, TRUE} /\ left \subseteq left'
      /\ held'.knows = held.knows /\ Works(held') = Works(held)
  BY <1>1 DEF Told, Message, MessageMakesNone, BackfillLists, BackfillContinues,
     BackfillStartsOver, WakeFires, Arrives, Got, stores, history, Instance, Works
<1>3. /\ Older(log, New) = Old <=> log = Old
      /\ Older(log, New) # None /\ Older(log, Old) # None
      /\ Older(elsewhere, New) = Old <=> elsewhere = Old
  BY <1>1, OlderIs DEF None, New, Old
<1>4. KnowledgeHasASource' /\ (session' # None /\ ~touched' => left' \cap {"work", "step"} # {})
  <2>1. ~touched' => ~touched
    BY <1>2, TypedIs DEF DInv, IInv
  <2>2. left # {} => left' # {}
    BY <1>2
  <2>3. left \cap {"work", "step"} # {} => left' \cap {"work", "step"} # {}
    BY <1>2
  <2>4. elsewhere' = Old => elsewhere = Old
    BY <1>2, <1>3
  <2>. QED BY <1>2, <2>1, <2>2, <2>3, <2>4 DEF DInv, Deleted, KnowledgeHasASource, StaysDeleted
<1>5. BackfillHasASource'
  BY <1>2, <1>3 DEF DInv, Deleted, BackfillHasASource, Message, MessageMakesNone,
     BackfillLists, BackfillContinues, BackfillStartsOver, WakeFires, Arrives, Stored, stores
<1>6. OldDataHasASource'
  <2>1. log' = Old => left' \cap {"flush", "backfill", "unread", "step"} # {}
    BY <1>3 DEF DInv, Deleted, BackfillHasASource, OldDataHasASource, Message, MessageMakesNone,
       BackfillLists, BackfillContinues, BackfillStartsOver, WakeFires, Arrives, Stored, stores, history
  <2>. QED BY <1>2, <2>1 DEF DInv, Deleted, OldDataHasASource
<1>7. held'.exists /\ ~touched' => left' \cap {"work", "backfill", "unread", "step"} # {}
  <2>1. CASE Message \/ MessageMakesNone
    BY <2>1 DEF Message, MessageMakesNone
  <2>2. CASE BackfillLists \/ BackfillContinues
    BY <1>2, <2>2 DEF BackfillLists, BackfillContinues, history, stores, DInv, Deleted, StaysDeleted
  <2>3. CASE BackfillStartsOver \/ WakeFires
    BY <1>2, <2>3 DEF BackfillStartsOver, WakeFires, DInv, Deleted, BackfillHasASource
  <2>. QED BY <2>1, <2>2, <2>3
<1>. QED BY <1>4, <1>5, <1>6, <1>7 DEF Deleted, StaysDeleted

\* A flush of the held recording stores nothing that was not; one of a removed
\* instance was left by the deletion.
LEMMA FlushesStayTrue ==
  ASSUME DInv, Flush \/ RemovedFlushes
  PROVE  Deleted'
<1>1. held \in Instance
  BY TypedIs DEF DInv, IInv
<1>2. /\ UNCHANGED <<session, backfill, elsewhere, left, touched>>
      /\ held'.knows = held.knows /\ held'.exists = held.exists
      /\ Works(held') = Works(held)
  BY <1>1 DEF Flush, RemovedFlushes, stores, history, Instance, Works
<1>3. log' = log \/ (log' = Old /\ "flush" \in left)
  BY DEF Flush, RemovedFlushes, stores, DInv, IInv, RemovedIsLeft
<1>. QED
  BY <1>2, <1>3 DEF DInv, Deleted, KnowledgeHasASource, BackfillHasASource,
     OldDataHasASource, StaysDeleted, Old, None

\* A dispatch is something new; a run saves and tells what its instance knows, and
\* that had a source already.
LEMMA RunsStayTrue ==
  ASSUME DInv, \/ DispatchBegins \/ DispatchEnds \/ RunGoesOn \/ RunEnds
               \/ ElsewhereForwards \/ ElsewhereCloses
  PROVE  Deleted'
<1>1. CASE DispatchBegins
  BY <1>1, DispatchBeginsIs
  DEF DInv, IInv, Deleted, KnowledgeHasASource, BackfillHasASource, OldDataHasASource,
      StaysDeleted
<1>2. CASE DispatchEnds \/ RunGoesOn \/ RunEnds \/ ElsewhereForwards
  <2>1. /\ held'.knows = Old \/ session' = Old \/ elsewhere' = Old =>
             held.knows = Old \/ log = Old \/ session = Old \/ elsewhere = Old
        /\ UNCHANGED <<log, backfill, left, touched>> /\ Works(held)
        /\ held'.exists = held.exists
    BY <1>2, WorkIs DEF DInv, IInv
  <2>2. held'.knows = Old \/ session' = Old \/ elsewhere' = Old => left # {}
    BY <2>1 DEF DInv, Deleted, KnowledgeHasASource, OldDataHasASource
  <2>. QED
    BY <2>1, <2>2 DEF DInv, Deleted, KnowledgeHasASource, BackfillHasASource,
       OldDataHasASource, StaysDeleted
<1>3. CASE ElsewhereCloses
  BY <1>3 DEF ElsewhereCloses, stores, history, DInv, Deleted, KnowledgeHasASource,
     BackfillHasASource, OldDataHasASource, StaysDeleted, None, Old
<1>. QED BY <1>1, <1>2, <1>3

\* A removed instance writes the session file, and tells, only if the deletion left
\* its run or its dispatch.
LEMMA RemovedStayTrue ==
  ASSUME DInv, RemovedDispatchEnds \/ RemovedRunSaves
  PROVE  Deleted'
<1>1. /\ UNCHANGED <<held, log, backfill, left, touched>>
      /\ (session' = session /\ elsewhere' = elsewhere) \/ "work" \in left
  BY DEF RemovedDispatchEnds, RemovedRunSaves, stores, history, DInv, IInv, RemovedIsLeft
<1>. QED
  BY <1>1 DEF DInv, Deleted, KnowledgeHasASource, BackfillHasASource,
     OldDataHasASource, StaysDeleted

\* After the cascade nothing old is stored, unless a step of it failed, and nothing
\* is kept elsewhere that it has not found.
LEMMA CascadeDeletes ==
  ASSUME IInv, NEW d \in Delete, Cascade(d)
  PROVE  Deleted'
<1>1. /\ held' = NoInstance /\ touched' = FALSE /\ backfill' = backfill
      /\ backfill # "no" => "backfill" \in left'
      /\ log' # None \/ session' # None => "step" \in left'
      /\ elsewhere' # None => "elsewhere" \in left'
  BY DEF Cascade, Remains, Emptied, Aged
<1>. QED
  BY <1>1, NoInstanceIs
  DEF Deleted, KnowledgeHasASource, BackfillHasASource, OldDataHasASource, StaysDeleted,
      None, Old

\* A deletion that begins only sets the flag and drops the queue.
LEMMA DeletionsStayTrue ==
  ASSUME DInv, \/ CancelCalled
               \/ \E d \in Delete : DeleteAtOnce(d) \/ DeleteCalled(d) \/ DeleteGoesOn(d)
  PROVE  Deleted'
<1>1. CASE \E d \in Delete : DeleteAtOnce(d) \/ DeleteGoesOn(d)
  BY <1>1, CascadeDeletes DEF DeleteAtOnce, DeleteGoesOn, DInv
<1>2. CASE CancelCalled \/ \E d \in Delete : DeleteCalled(d)
  <2>1. held \in Instance
    BY TypedIs DEF DInv, IInv
  <2>2. /\ UNCHANGED <<log, session, backfill, elsewhere, left, touched>>
        /\ held'.knows = held.knows /\ held'.exists = held.exists
        /\ Works(held') => Works(held)
    BY <1>2, <2>1, CancelledIs DEF DeleteCalled, CancelCalled, stores, history
  <2>. QED
    BY <2>2 DEF DInv, Deleted, KnowledgeHasASource, BackfillHasASource,
       OldDataHasASource, StaysDeleted
<1>. QED BY <1>1, <1>2

\* What a restart restores it restores from the session file.
LEMMA RestartStaysTrue ==
  ASSUME DInv, Restart
  PROVE  Deleted'
<1>1. /\ UNCHANGED <<log, session, left, touched>> /\ backfill' = "no"
      /\ elsewhere' = None
  BY DEF Restart, stores, history
<1>2. /\ held'.knows = session
      /\ held'.exists => session # None
      /\ Works(held') => session # None
  BY DEF Restart, Restored, NoInstance, Works, None
<1>. QED
  BY <1>1, <1>2 DEF DInv, Deleted, KnowledgeHasASource, BackfillHasASource,
     OldDataHasASource, StaysDeleted, None, Old

\* DInv is inductive.
LEMMA DeletionInvariant == Spec => []DInv
<1>1. Init => Deleted
  <2> SUFFICES ASSUME Init PROVE Deleted
    OBVIOUS
  <2>. QED
    BY NoInstanceIs DEF Init, Deleted, KnowledgeHasASource, BackfillHasASource,
       OldDataHasASource, StaysDeleted, None, Old
<1>2. IInv /\ Deleted /\ [Next]_vars => Deleted'
  <2> SUFFICES ASSUME DInv, [Next]_vars PROVE Deleted'
    BY DEF DInv
  <2>1. CASE UNCHANGED vars
    BY <2>1 DEF vars, stores, history, DInv, Deleted, KnowledgeHasASource,
       BackfillHasASource, OldDataHasASource, StaysDeleted
  <2>2. CASE Next
    BY <2>2, MessagesStayTrue, FlushesStayTrue, RunsStayTrue, RemovedStayTrue,
       DeletionsStayTrue, RestartStaysTrue
    DEF Next
  <2>. QED BY <2>1, <2>2
<1>. QED BY <1>1, <1>2, ConversationInvariant, PTL DEF Spec, DInv

-----------------------------------------------------------------------------

\* Two agents work on one chat at a time only if the last deletion gave up
\* waiting for a run, or there is a dispatch that it does not know of: the
\* conjunction the run checks, for any number of deletions.
THEOREM OneAgentAtATime == Spec => []ConversationConsistent
<1>1. IInv => ConversationConsistent
  BY DEF IInv, RemovedIsLeft, ConversationConsistent, OneRunPerChat
<1>. QED BY <1>1, ConversationInvariant, PTL

\* What has been deleted is gone from the stores, and the chat with it, but for what
\* the deletion does not stop: work under way, the chat's post-task window, tasks of
\* other chats that report to it, and a backfill of unread chats; for any number of
\* deletions at a time.
THEOREM DeletedIsGone == Spec => []DeletionHolds
<1>1. DInv => DeletionHolds
  BY DEF DInv, Deleted, DeletionHolds
<1>. QED BY <1>1, DeletionInvariant, PTL
=============================================================================
