------------------------------ MODULE SandboxPool ------------------------------
(***************************************************************************)
(* The pool of code sandboxes (sandbox/sandbox-pool.ts) composed with the  *)
(* life of the worker processes it holds (sandbox/sandbox.ts) and with its *)
(* users: the executor of each chat, the dashboard's debug console, which  *)
(* shares an executor's sandbox, and the MCP tool with a chat of its own.  *)
(*                                                                         *)
(* acquire() is synchronous up to the await of start(), and continues when *)
(* the worker is ready: Acquire and Started.  stop() is awaited by         *)
(* destroy() and dispose() only.  Time is abstracted: what has been idle   *)
(* too long is any number of the least recently used entries.              *)
(***************************************************************************)
EXTENDS Naturals, Sequences, FiniteSets

CONSTANTS
  Chat, User, Instance,
  ChatOf,        \* the chat each user works for
  MaxInstances,  \* config.maxInstances
  NoEntry, NoChat, None

ASSUME PoolAssumption ==
  /\ IsFiniteSet(Chat) /\ IsFiniteSet(User)
  /\ ChatOf \in [User -> Chat]
  /\ MaxInstances \in Nat \ {0}
  /\ None \notin Instance
  /\ \A e \in [inst : Instance, inUse : BOOLEAN, stale : BOOLEAN] : e # NoEntry

VARIABLES
  pool,        \* the entry of each chat
  recency,     \* the chats of the pool, least recently used first
  proc,        \* the worker process of each instance
  background,  \* it runs a shell.runBackground command (a tab has a monitor)
  skills,      \* the skills its worker has loaded
  home,        \* the chat it was created for
  phase,       \* what each user is doing, with which instance
  destroying,  \* the instance each chat's destroy() is waiting for
  disposing,   \* dispose() has been called, and the instances it waits for
  overlapped,  \* history: chats whose start met another start or a destroy
  peak         \* history: the most starts in flight at once so far

poolVars == <<pool, recency, proc, background, skills, home, phase, destroying,
              disposing, overlapped, peak>>

Entry == [inst : Instance, inUse : BOOLEAN, stale : BOOLEAN]
Process == {"starting", "up", "stopping", "dead"}
\* Old skills of a worker that was starting when they changed are "unnoticed".
Skills == {"current", "old", "unnoticed"}
Phase == [at : {"out", "starting", "using"}, inst : Instance \cup {None}]
Out == [at |-> "out", inst |-> None]

Pooled(p) == {c \in Chat : p[c] # NoEntry}

\* The bound on dispose(): the program ends with it, so what is asked of the
\* pool while it is awaited is left out.
Open == ~disposing.called

UsersOf(c) == {u \in User : ChatOf[u] = c}
InFlight == {u \in User : phase[u].at = "starting"}
Starting(c) == {u \in UsersOf(c) : phase[u].at = "starting"}

PoolInit ==
  /\ pool = [c \in Chat |-> NoEntry]
  /\ recency = <<>>
  /\ proc = [i \in Instance |-> "dead"]
  /\ background = [i \in Instance |-> FALSE]
  /\ skills = [i \in Instance |-> "current"]
  /\ home = [i \in Instance |-> NoChat]
  /\ phase = [u \in User |-> Out]
  /\ destroying = [c \in Chat |-> None]
  /\ disposing = [called |-> FALSE, await |-> {}]
  /\ overlapped = {}
  /\ peak = 0

-----------------------------------------------------------------------------
(* The worker of an instance                                                *)

isAlive(i) == proc[i] = "up"

\* What stop() leaves of the process of each instance of S, and of its tabs.
Stopped(S) ==
  [i \in Instance |->
     IF i \in S /\ proc[i] = "up" THEN "stopping" ELSE proc[i]]
Silenced(S) == [i \in Instance |-> background[i] /\ i \notin S]

\* No one refers to an instance whose process is gone: it stands for a new one.
Unused(i) ==
  /\ proc[i] = "dead"
  /\ ~background[i]
  /\ \A c \in Pooled(pool) : pool[c].inst # i
  /\ \A u \in User : phase[u].inst # i
  /\ \A c \in Chat : destroying[c] # i

\* What is remembered of a worker goes with it.
Forget(i) ==
  /\ skills' = [skills EXCEPT ![i] = "current"]
  /\ home' = [home EXCEPT ![i] = NoChat]

\* The worker exits: by SIGTERM or SIGKILL after stop(), or by itself.  Its
\* shells are not its children and go on.
Exit(i) ==
  /\ proc[i] \in {"up", "stopping"}
  /\ proc' = [proc EXCEPT ![i] = "dead"]
  /\ Forget(i)
  /\ UNCHANGED <<pool, recency, background, phase, destroying, disposing,
                 overlapped, peak>>

-----------------------------------------------------------------------------
(* The pool                                                                 *)

Without(s, S) ==
  LET rest[n \in 0..Len(s)] ==
        IF n = 0 THEN <<>>
        ELSE IF s[n] \in S THEN rest[n - 1] ELSE Append(rest[n - 1], s[n])
  IN rest[Len(s)]
\* Fault: the chat is not moved to the end, but added again.
TouchedTwice(c) == Append(recency, c)
Touched(c) == Append(Without(recency, {c}), c)

Evictable == {c \in Pooled(pool) : ~background[pool[c].inst]}
Idle == {c \in Pooled(pool) : ~pool[c].inUse}

\* The chats evictLRU chooses the oldest of, when E may be evicted.
Candidates(E) == IF E \cap Idle # {} THEN E \cap Idle ELSE E

OldestOf(S) ==
  LET K == {k \in DOMAIN recency : recency[k] \in S} IN
  recency[CHOOSE k \in K : \A j \in K : k <= j]

\* Fault: the comparison lets one more in.
IsFullLate(n) == n > MaxInstances
IsFull(n) == n >= MaxInstances

\* acquire() finds a live instance that it may hand out as it is: a stale one
\* is replaced, unless a background command runs in it.
Reusable(c) ==
  /\ pool[c] # NoEntry
  /\ ~pool[c].stale \/ background[pool[c].inst]
  /\ isAlive(pool[c].inst)

AcquireLive(u) ==
  LET c == ChatOf[u] IN
  /\ Open
  /\ phase[u] = Out
  /\ Reusable(c)
  /\ pool' = [pool EXCEPT ![c].inUse = TRUE]
  /\ recency' = Touched(c)
  /\ phase' = [phase EXCEPT ![u] = [at |-> "using", inst |-> pool[c].inst]]
  /\ UNCHANGED <<proc, background, skills, home, destroying, disposing,
                 overlapped, peak>>

\* A stale instance is stopped, a dead one is forgotten.
Recycled(c) ==
  IF pool[c] # NoEntry /\ pool[c].stale /\ ~background[pool[c].inst]
  THEN {pool[c].inst} ELSE {}

\* The chat evicted for c, if the pool is full without it.
Evicted(c) ==
  IF IsFull(Cardinality(Pooled(pool) \ {c}))
  THEN {OldestOf(Candidates(Evictable \ {c}))} ELSE {}

\* Every instance runs a background command: acquire() throws.
AcquireRefused(u) ==
  LET c == ChatOf[u] IN
  /\ Open
  /\ phase[u] = Out
  /\ ~Reusable(c)
  /\ IsFull(Cardinality(Pooled(pool) \ {c}))
  /\ Evictable \ {c} = {}
  /\ pool' = [pool EXCEPT ![c] = NoEntry]
  /\ recency' = Without(recency, {c})
  /\ proc' = Stopped(Recycled(c))
  /\ UNCHANGED <<background, skills, home, phase, destroying, disposing,
                 overlapped, peak>>

\* Fault: an evicted instance is forgotten and goes on.
StopsNone(S) == {}
StopsEvicted(S) == {pool[d].inst : d \in S}

\* acquire() makes room, creates an instance and waits for its start().
Acquire(u) ==
  LET c == ChatOf[u]
      gone == {c} \cup Evicted(c)
      stop == Recycled(c) \cup StopsEvicted(Evicted(c))
  IN
  /\ Open
  /\ phase[u] = Out
  /\ ~Reusable(c)
  /\ IsFull(Cardinality(Pooled(pool) \ {c})) => Evictable \ {c} # {}
  /\ \E i \in Instance :
       /\ Unused(i)
       /\ proc' = [Stopped(stop) EXCEPT ![i] = "starting"]
       /\ home' = [home EXCEPT ![i] = c]
       /\ phase' = [phase EXCEPT ![u] = [at |-> "starting", inst |-> i]]
  /\ background' = Silenced(stop)
  /\ pool' = [d \in Chat |-> IF d \in gone THEN NoEntry ELSE pool[d]]
  /\ recency' = Without(recency, gone)
  /\ overlapped' = IF Starting(c) # {} \/ destroying[c] # None
                   THEN overlapped \cup {c} ELSE overlapped
  /\ peak' = IF Cardinality(InFlight) = peak THEN peak + 1 ELSE peak
  /\ UNCHANGED <<skills, destroying, disposing>>

\* start() resolves, and the entry takes the place of any other of its chat.
Started(u) ==
  LET c == ChatOf[u] i == phase[u].inst IN
  /\ phase[u].at = "starting"
  /\ proc' = [proc EXCEPT ![i] = "up"]
  /\ pool' = [pool EXCEPT ![c] = [inst |-> i, inUse |-> TRUE, stale |-> FALSE]]
  /\ recency' = Touched(c)
  /\ phase' = [phase EXCEPT ![u].at = "using"]
  /\ UNCHANGED <<background, skills, home, destroying, disposing, overlapped,
                 peak>>

\* start() rejects: the worker has exited, or it is not ready in time.  It is
\* not stopped then, but no one knows it: here it is gone in both cases.
StartFails(u) ==
  /\ phase[u].at = "starting"
  /\ proc' = [proc EXCEPT ![phase[u].inst] = "dead"]
  /\ Forget(phase[u].inst)
  /\ phase' = [phase EXCEPT ![u] = Out]
  /\ UNCHANGED <<pool, recency, background, destroying, disposing, overlapped,
                 peak>>

\* Fault: release() leaves the entry in use.
StillUsed(e) == e
Released(e) == IF e = NoEntry THEN e ELSE [e EXCEPT !.inUse = FALSE]

release(u) ==
  LET c == ChatOf[u] IN
  /\ phase[u].at = "using"
  /\ pool' = [pool EXCEPT ![c] = Released(pool[c])]
  /\ recency' = IF pool[c] = NoEntry THEN recency ELSE Touched(c)
  /\ phase' = [phase EXCEPT ![u] = Out]
  /\ UNCHANGED <<proc, background, skills, home, destroying, disposing,
                 overlapped, peak>>

-----------------------------------------------------------------------------
(* What a user does with the instance it holds                              *)

runBackground(u) ==
  LET i == phase[u].inst IN
  /\ Open
  /\ phase[u].at = "using" /\ proc[i] = "up" /\ ~background[i]
  /\ background' = [background EXCEPT ![i] = TRUE]
  /\ UNCHANGED <<pool, recency, proc, skills, home, phase, destroying,
                 disposing, overlapped, peak>>

\* The command ends and wakes the chat.
BackgroundEnds(i) ==
  /\ background[i]
  /\ background' = [background EXCEPT ![i] = FALSE]
  /\ UNCHANGED <<pool, recency, proc, skills, home, phase, destroying,
                 disposing, overlapped, peak>>

\* execute() times out and stops the worker under it.
ExecuteTimesOut(u) ==
  LET i == phase[u].inst IN
  /\ phase[u].at = "using" /\ proc[i] = "up"
  /\ proc' = Stopped({i})
  /\ background' = Silenced({i})
  /\ UNCHANGED <<pool, recency, skills, home, phase, destroying, disposing,
                 overlapped, peak>>

-----------------------------------------------------------------------------
(* Destruction, cleaning and reloading                                      *)

\* cancelCurrentRun(), or the dashboard's cancel of a chat: the instance the
\* chat has now is stopped.  One destroy() of a chat at a time.
destroy(c) ==
  /\ Open
  /\ pool[c] # NoEntry /\ destroying[c] = None
  /\ destroying' = [destroying EXCEPT ![c] = pool[c].inst]
  /\ proc' = Stopped({pool[c].inst})
  /\ background' = Silenced({pool[c].inst})
  /\ UNCHANGED <<pool, recency, skills, home, phase, disposing, overlapped,
                 peak>>

\* stop() resolves, and the entry the chat has by then is deleted.
Destroyed(c) ==
  /\ destroying[c] # None /\ proc[destroying[c]] # "stopping"
  /\ destroying' = [destroying EXCEPT ![c] = None]
  /\ pool' = [pool EXCEPT ![c] = NoEntry]
  /\ recency' = Without(recency, {c})
  /\ UNCHANGED <<proc, background, skills, home, phase, disposing, overlapped,
                 peak>>

\* The entries of S are stopped and dropped together; Rest(e) is what becomes
\* of any other.
Drop(S, Rest(_)) ==
  /\ pool' = [c \in Chat |-> IF c \in S THEN NoEntry ELSE Rest(pool[c])]
  /\ recency' = Without(recency, S)
  /\ proc' = Stopped({pool[c].inst : c \in S})
  /\ background' = Silenced({pool[c].inst : c \in S})

Kept(e) == e

\* Fault: the background commands are not looked at.
AnyReclaimable(S) == S \cap Idle
\* Fault: the use is not looked at.
UsedReclaimable(S) == S \cap Evictable
Reclaimable(S) == S \cap Idle \cap Evictable

\* The timer finds the k least recently used entries past idleTimeout.
cleanupIdle ==
  /\ Open
  /\ \E k \in 1..Len(recency) :
       LET S == Reclaimable({recency[j] : j \in 1..k}) IN
       S # {} /\ Drop(S, Kept)
  /\ UNCHANGED <<skills, home, phase, destroying, disposing, overlapped, peak>>

\* Fault: the entries in use keep their generation.
MarkedNone(e) == e
Marked(e) == IF e = NoEntry THEN e ELSE [e EXCEPT !.stale = TRUE]

\* The skills have been reloaded: the idle entries go, the others are out of
\* date.  A worker that is starting may have read the old skills already.
invalidateSkills ==
  LET S == Reclaimable(Pooled(pool))
      loading == {i \in Instance : proc[i] = "starting"}
  IN
  /\ Open
  /\ Drop(S, Marked)
  /\ \E late \in SUBSET loading :
       skills' = [i \in Instance |->
                    IF proc[i] = "up" THEN "old"
                    ELSE IF i \in late THEN "unnoticed" ELSE skills[i]]
  /\ UNCHANGED <<home, phase, destroying, disposing, overlapped, peak>>

\* Shutdown: every entry's instance is stopped, and the pool is cleared when
\* they have exited.
dispose ==
  /\ Open
  /\ LET S == {pool[c].inst : c \in Pooled(pool)} IN
     /\ disposing' = [called |-> TRUE, await |-> S]
     /\ proc' = Stopped(S)
     /\ background' = Silenced(S)
  /\ UNCHANGED <<pool, recency, skills, home, phase, destroying, overlapped,
                 peak>>

Disposed ==
  /\ disposing.called /\ disposing.await # {}
  /\ \A i \in disposing.await : proc[i] # "stopping"
  /\ disposing' = [called |-> TRUE, await |-> {}]
  /\ pool' = [c \in Chat |-> NoEntry]
  /\ recency' = <<>>
  /\ UNCHANGED <<proc, background, skills, home, phase, destroying, overlapped,
                 peak>>

-----------------------------------------------------------------------------
PoolNext ==
  \/ \E u \in User : \/ AcquireLive(u) \/ Acquire(u) \/ AcquireRefused(u)
                     \/ Started(u) \/ StartFails(u) \/ release(u)
                     \/ runBackground(u) \/ ExecuteTimesOut(u)
  \/ \E i \in Instance : Exit(i) \/ BackgroundEnds(i)
  \/ \E c \in Chat : destroy(c) \/ Destroyed(c)
  \/ cleanupIdle \/ invalidateSkills \/ dispose \/ Disposed

\* The cleaning timer is a setInterval, so it fires again and again; a stopped
\* worker is killed after 3 s; start() gives up after 10 s; stop() settles.
Fairness ==
  /\ WF_poolVars(cleanupIdle)
  /\ \A i \in Instance : WF_poolVars(Exit(i) /\ proc[i] = "stopping")
  /\ \A u \in User : WF_poolVars(Started(u) \/ StartFails(u))
  /\ \A c \in Chat : WF_poolVars(Destroyed(c))
  /\ WF_poolVars(Disposed)

PoolSpec == PoolInit /\ [][PoolNext]_poolVars /\ Fairness

-----------------------------------------------------------------------------
PoolTypeOK ==
  /\ pool \in [Chat -> Entry \cup {NoEntry}]
  /\ {recency[k] : k \in DOMAIN recency} = Pooled(pool)
  /\ Len(recency) = Cardinality(Pooled(pool))
  /\ proc \in [Instance -> Process]
  /\ background \in [Instance -> BOOLEAN]
  /\ skills \in [Instance -> Skills]
  /\ home \in [Instance -> Chat \cup {NoChat}]
  /\ phase \in [User -> Phase]
  /\ destroying \in [Chat -> Instance \cup {None}]
  /\ disposing \in [called : BOOLEAN, await : SUBSET Instance]
  /\ overlapped \subseteq Chat
  /\ peak \in 0..Cardinality(User)

\* maxInstances is checked before the await of start() and the entry is added
\* after it (sandbox-pool.ts:122, 142).  The pool, with the instances that are
\* starting, exceeds it only by the starts that have been in flight together:
\* one less than the most there have been.
OvershootBounded ==
  Cardinality(Pooled(pool)) + Cardinality(InFlight)
    <= MaxInstances + (IF peak = 0 THEN 0 ELSE peak - 1)

\* A ready worker that is in no entry goes on unwatched: nothing will ever stop
\* it.  That happens only to a chat for which an acquire() has run while
\* another one's start() or a destroy() was being awaited (sandbox-pool.ts:142,
\* 173): every eviction, cleaning and replacement stops what it drops.
LeakNeedsOverlap ==
  \A i \in Instance :
    proc[i] = "up" /\ home[i] \notin overlapped /\ Open
      => \E c \in Pooled(pool) : pool[c].inst = i

\* An entry whose worker has old skills is marked stale, so that the next
\* acquire() replaces it, unless the skills changed while it was starting: the
\* entry is then given the new generation (sandbox-pool.ts:147).
OldSkillsAreMarked ==
  \A c \in Pooled(pool) : skills[pool[c].inst] = "old" => pool[c].stale

SoleUser(u) == UsersOf(ChatOf[u]) = {u}

\* The user of a chat that no one else uses keeps its entry, in use, for as
\* long as it holds the instance: it loses it only when the chat is destroyed,
\* the pool disposed, or the pool is full and no idle entry could go instead.
InUseEvictedLast ==
  [][\A u \in User :
       LET c == ChatOf[u] IN
       /\ SoleUser(u) /\ phase[u].at = "using" /\ phase'[u] = phase[u]
       /\ pool[c] # NoEntry /\ pool[c].inst = phase[u].inst
       /\ pool'[c] = NoEntry
       => \/ destroying' # destroying
          \/ disposing' # disposing
          \/ /\ Cardinality(Pooled(pool)) >= MaxInstances
             /\ \E v \in User : phase[v] = Out /\ phase'[v].at = "starting"
             /\ Pooled(pool') \cap Idle \cap Evictable = {}]_poolVars

\* Wake, not kill (sandbox-pool.ts:265-273): making room, cleaning, reloading
\* and replacing never end a live instance's background command; only
\* destroy(), dispose() and a timed out execution do.
WakeNotKill ==
  [][\A c \in Pooled(pool) :
       LET i == pool[c].inst IN
       background[i] /\ proc[i] = "up" /\ proc'[i] = "stopping"
         => \/ destroying' # destroying
            \/ disposing' # disposing
            \/ \E u \in User : phase[u] = [at |-> "using", inst |-> i]
                               /\ pool' = pool]_poolVars

\* An entry whose instance no one holds, with nothing in the background, is
\* used again or reclaimed (sandbox-pool.ts:338): no worker stays for ever.
Abandoned(c) ==
  /\ c \in Evictable
  /\ \A u \in User : phase[u].inst # pool[c].inst
IdleIsReclaimed == \A c \in Chat : Abandoned(c) ~> (~Abandoned(c) \/ ~Open)

\* The pool's bookkeeping is right: the entries and the order of their use
\* agree, the cap is exceeded and a worker left outside only by overlapping
\* starts, and an entry with old skills is known as such.
PoolConsistent ==
  PoolTypeOK /\ OvershootBounded /\ OldSkillsAreMarked /\ LeakNeedsOverlap

\* What makes room spares what is at work: a sole user's instance goes only if
\* no idle one can, and no instance goes under a background command.
EvictionSparesWork == InUseEvictedLast /\ WakeNotKill
=============================================================================
