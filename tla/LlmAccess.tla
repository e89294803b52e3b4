------------------------------- MODULE LlmAccess -------------------------------
(***************************************************************************)
(* How a call reaches an LLM: the chain of fallback profiles and the       *)
(* retries (core/llm.ts), the pool of API keys of a profile                *)
(* (core/llm-pool.ts) and the rate limiter they all pass                   *)
(* (core/llm-rate-limiter.ts), composed.                                   *)
(*                                                                         *)
(* A call takes a key of its profile's pool, then a slot of the limiter,   *)
(* sends, retries within the slot, gives the slot back and then the key.   *)
(* Each await is a step of its own: other calls run between the limiter's  *)
(* check and the recording of the slot, and between the return of the slot *)
(* and that of the key.  Time is abstracted: a cool-down may end, a minute *)
(* may pass and the limiter's timer may fire at any moment.  The strategy  *)
(* of a pool is any choice of an available key.                            *)
(***************************************************************************)
EXTENDS Naturals, Sequences, FiniteSets

CONSTANTS
  Call,         \* calls, each made once
  KeysOf,       \* the keys of each profile of the chain; {} is a single key
  Config,       \* the configurations of the limiter that may be saved
  MaxErrors,    \* MAX_CONSECUTIVE_ERRORS
  MaxReloads,   \* bound on the reloads of the configuration
  NoKey

Profile == DOMAIN KeysOf
Key == UNION {KeysOf[p] : p \in Profile}
Global == 0
Scope == {Global} \cup Profile

ASSUME AccessAssumption ==
  /\ IsFiniteSet(Call)
  /\ KeysOf \in Seq(SUBSET Key) /\ KeysOf # <<>>
  /\ MaxErrors \in Nat \ {0} /\ MaxReloads \in Nat
  /\ NoKey \notin Key
  /\ Config \subseteq [enabled : BOOLEAN, concurrency : [Scope -> Nat],
                       rpm : [Scope -> Nat]]

VARIABLES
  call,        \* what each call is doing
  member,      \* the keys of each generation of the pools
  generation,  \* the pools in the registry: a reload makes new ones
  config,      \* the limiter's configuration
  active,      \* _activeConcurrency and _profileActive
  recent,      \* the timestamps in the minute's window
  queue,       \* calls waiting for a slot
  drainTimer,  \* the drain timer is set
  excused      \* history: how the limits may have been exceeded

limiter == <<config, active, recent, queue, drainTimer>>
vars == <<call, member, generation, limiter, excused>>

Generation == 0..MaxReloads
Outcome == {"ok", "quota", "auth", "other", "interrupted"}
Stage == {"choosing", "passed", "queued", "sending", "settled", "done"}
CallState == [at : Stage, profile : Profile, tries : Nat, 
              gen : Generation, key : Key \cup {NoKey}, slot : BOOLEAN,
              outcome : Outcome \cup {"none"}]
Member == [pending : 0..Cardinality(Call), errors : 0..(MaxErrors - 1),
           cooling : BOOLEAN, disabled : BOOLEAN]

Pooled(p) == KeysOf[p] # {}

\* A pooled call runs with a configuration of its own, in which the profile is
\* not recognised: only the global limits are applied to it.
ScopesOf(p) == IF Pooled(p) THEN {Global} ELSE {Global, p}

At(st) == {c \in Call : call[c].at = st}
Holders(s) == {c \in Call : call[c].slot /\ s \in ScopesOf(call[c].profile)}

New == [at |-> "choosing", profile |-> 1, tries |-> 0, gen |-> 0,
        key |-> NoKey, slot |-> FALSE, outcome |-> "none"]
NewPool ==
  [k \in Key |->
     [pending |-> 0, errors |-> 0, cooling |-> FALSE, disabled |-> FALSE]]
Done == [New EXCEPT !.at = "done"]

Init ==
  /\ call = [c \in Call |-> New]
  /\ member = [g \in Generation |-> NewPool]
  /\ generation = 0
  /\ config \in Config
  /\ active = [s \in Scope |-> 0]
  /\ recent = [s \in Scope |-> 0]
  /\ queue = <<>>
  /\ drainTimer = FALSE
  /\ excused = FALSE

-----------------------------------------------------------------------------
(* The rate limiter                                                         *)

\* Fault: the limit itself may be taken.
UpTo(n, max) == max = 0 \/ n <= max

\* 0 is no limit.
Under(n, max) == max = 0 \/ n < max

canProceed(p, cfg, act, rec) ==
  \A s \in ScopesOf(p) :
    Under(act[s], cfg.concurrency[s]) /\ Under(rec[s], cfg.rpm[s])

Counted(f, p) == [s \in Scope |-> IF s \in ScopesOf(p) THEN f[s] + 1 ELSE f[s]]

\* A window is counted only where some configuration limits it.
Windowed == {s \in Scope : \E cfg \in Config : cfg.rpm[s] > 0}
Stamped(f, p) ==
  [s \in Scope |-> IF s \in ScopesOf(p) \cap Windowed THEN f[s] + 1 ELSE f[s]]

\* Fault: the slot is not given back.
StillCounted(f, p) == f
\* Fault: the profile's counter is not given back.
GlobalUncounted(f, p) == [f EXCEPT ![Global] = IF @ > 0 THEN @ - 1 ELSE 0]
Uncounted(f, p) ==
  [s \in Scope |-> IF s \in ScopesOf(p) /\ f[s] > 0 THEN f[s] - 1 ELSE f[s]]

\* Fault: the queue is judged by the counters from before the slot's return.
ScanStale(acc, c) ==
  LET p == call[c].profile IN
  IF canProceed(p, acc.config, active, recent)
  THEN [acc EXCEPT !.active = Counted(@, p), !.recent = Stamped(@, p),
                   !.granted = @ \cup {c}]
  ELSE [acc EXCEPT !.left = Append(@, c)]

\* drain(): the queue is scanned from its head, and every call that may proceed
\* has its slot recorded; a call held by its profile does not hold the others.
Scan(acc, c) ==
  LET p == call[c].profile IN
  IF canProceed(p, acc.config, acc.active, acc.recent)
  THEN [acc EXCEPT !.active = Counted(@, p), !.recent = Stamped(@, p),
                   !.granted = @ \cup {c}]
  ELSE [acc EXCEPT !.left = Append(@, c)]

\* Fault: the timer is stopped with one call still in the queue.
TimerStopped(d) == Len(d.left) > 1
TimerAfter(d) == d.left # <<>>

Drained(cfg, act) ==
  LET scanned[n \in 0..Len(queue)] ==
        IF n = 0
        THEN [config |-> cfg, active |-> act, recent |-> recent,
              left |-> <<>>, granted |-> {}]
        ELSE Scan(scanned[n - 1], queue[n])
  IN scanned[Len(queue)]

\* The limiter after drain() has run with the counters act; calls is what the
\* calls are without it.
Drain(cfg, act, calls) ==
  LET d == Drained(cfg, act) IN
  /\ active' = d.active
  /\ recent' = d.recent
  /\ queue' = d.left
  /\ drainTimer' = (drainTimer /\ TimerAfter(d))
  /\ call' = [c \in Call |->
                IF c \in d.granted
                THEN [calls[c] EXCEPT !.at = "sending", !.slot = TRUE]
                ELSE calls[c]]

\* Slots are recorded while another call is past the check.
Meets == queue' # queue /\ At("passed") # {}

\* acquire() up to its first await, by a call that has become r.
Admit(c, r) ==
  LET pass == canProceed(r.profile, config, active, recent) IN
  \/ /\ ~config.enabled
     /\ call' = [call EXCEPT ![c] = [r EXCEPT !.at = "sending"]]
     /\ UNCHANGED <<queue, drainTimer, excused>>
  \/ /\ config.enabled /\ pass
     /\ call' = [call EXCEPT ![c] = [r EXCEPT !.at = "passed"]]
     /\ excused' = (excused \/ At("passed") # {})
     /\ UNCHANGED <<queue, drainTimer>>
  \/ /\ config.enabled /\ ~pass
     /\ call' = [call EXCEPT ![c] = [r EXCEPT !.at = "queued"]]
     /\ queue' = Append(queue, c)
     /\ drainTimer' = TRUE
     /\ UNCHANGED excused

\* The call goes on after the await and records its slot.
RecordSlot(c) ==
  /\ call[c].at = "passed"
  /\ call' = [call EXCEPT ![c].at = "sending", ![c].slot = TRUE]
  /\ active' = Counted(active, call[c].profile)
  /\ recent' = Stamped(recent, call[c].profile)
  /\ UNCHANGED <<member, generation, config, queue, drainTimer, excused>>

TimerFires ==
  /\ drainTimer
  /\ Drain(config, active, call)
  /\ excused' = (excused \/ Meets)
  /\ UNCHANGED <<member, generation, config>>

\* A minute has passed since the oldest request that the window counts.
MinutePasses ==
  \E s \in Scope :
    /\ recent[s] > 0
    /\ recent' = [recent EXCEPT ![s] = @ - 1]
    /\ UNCHANGED <<call, member, generation, config, active, queue, drainTimer,
                   excused>>

\* A configuration is saved: what is in flight under the old one may be more
\* than the new one allows.
updateConfig ==
  \E cfg \in Config \ {config} :
    /\ config' = cfg
    /\ Drain(cfg, active, call)
    /\ excused' = TRUE
    /\ UNCHANGED <<member, generation>>

-----------------------------------------------------------------------------
(* The pool of keys                                                         *)

Usable(m) == ~m.disabled /\ ~m.cooling

Available(mem, g, p) == {k \in KeysOf[p] : Usable(mem[g][k])}

\* Nothing brings a disabled key back, so the rest of its state is dropped.
Disabled(m) == [m EXCEPT !.disabled = TRUE, !.errors = 0, !.cooling = FALSE]

\* release(handle, ...), whose handle belongs to the pool it was taken from.
ReleasedKey(m, outcome) ==
  LET n == [m EXCEPT !.pending = IF @ > 0 THEN @ - 1 ELSE 0] IN
  IF m.disabled \/ outcome \in {"other", "interrupted"} THEN n
  ELSE CASE outcome = "ok" -> [n EXCEPT !.errors = 0, !.cooling = FALSE]
         [] outcome = "auth" -> Disabled(n)
         [] outcome = "quota" ->
              IF m.errors + 1 >= MaxErrors THEN Disabled(n)
              ELSE [n EXCEPT !.errors = @ + 1, !.cooling = TRUE]

\* Fault: the count of requests is not brought down by a failure.
KeptOnFailure(m, outcome) ==
  IF outcome = "ok" THEN ReleasedKey(m, outcome)
  ELSE [ReleasedKey(m, outcome) EXCEPT !.pending = m.pending]
\* Fault: a quota error does not start the cool-down.
WithoutCoolDown(m, outcome) ==
  [ReleasedKey(m, outcome) EXCEPT !.cooling = m.cooling /\ outcome # "ok"]
\* Fault: one quota error more is let pass.
DisabledLate(m, outcome) ==
  IF outcome = "quota" /\ ~m.disabled /\ m.errors + 1 = MaxErrors
  THEN [ReleasedKey(m, outcome) EXCEPT
          !.disabled = FALSE, !.errors = MaxErrors, !.cooling = TRUE]
  ELSE ReleasedKey(m, outcome)
Returned(m, outcome) == ReleasedKey(m, outcome)

CoolDownEnds ==
  \E g \in Generation, k \in Key :
    /\ member[g][k].cooling
    /\ member' = [member EXCEPT ![g][k].cooling = FALSE]
    /\ UNCHANGED <<call, generation, limiter, excused>>

\* A pool that is not in the registry and has no call is gone.
Swept(mem, current) ==
  [g \in Generation |->
     IF g < current /\ \A k \in Key : mem[g][k].pending = 0
     THEN NewPool ELSE mem[g]]

\* clearAllPools(): the next call finds a new pool, one under way keeps its own.
Reload ==
  /\ generation < MaxReloads
  /\ generation' = generation + 1
  /\ member' = Swept(member, generation + 1)
  /\ UNCHANGED <<call, limiter, excused>>

-----------------------------------------------------------------------------
(* A call                                                                   *)

\* The call r, as it leaves profile p, that has failed there.
NextProfile(r) ==
  IF r.profile < Len(KeysOf)
  THEN [New EXCEPT !.profile = r.profile + 1]
  ELSE Done

\* callLLMWithPool's loop: take a key of pool g, whose keys are in state mem,
\* and go to the limiter; without one, leave the profile.
TakeKey(c, r, mem) ==
  LET avail == Available(mem, r.gen, r.profile) IN
  \/ \E k \in avail :
       /\ member' = Swept([mem EXCEPT ![r.gen][k].pending = @ + 1], generation)
       /\ Admit(c, [r EXCEPT !.key = k, !.outcome = "none"])
  \/ /\ avail = {}
     /\ member' = Swept(mem, generation)
     /\ call' = [call EXCEPT ![c] = NextProfile(r)]
     /\ UNCHANGED <<queue, drainTimer, excused>>

\* callLLM with the profile the chain has come to.
Choose(c) ==
  /\ call[c].at = "choosing"
  /\ IF Pooled(call[c].profile)
     THEN TakeKey(c, [call[c] EXCEPT !.gen = generation], member)
     ELSE UNCHANGED member /\ Admit(c, call[c])
  /\ UNCHANGED <<generation, config, active, recent>>

\* The request ends, after at most MAX_RETRIES repetitions in the same slot (for
\* a server or network error, a timeout, an empty answer or the user's wish),
\* and the slot, if the call has one, is given back.
Answer(c, outcome) ==
  LET r == call[c]
      calls == [call EXCEPT ![c] = [r EXCEPT !.at = "settled", !.slot = FALSE,
                                             !.outcome = outcome]]
  IN
  /\ r.at = "sending"
  /\ IF r.slot
     THEN /\ Drain(config, Uncounted(active, r.profile), calls)
          /\ excused' = (excused \/ Meets)
     ELSE /\ call' = calls
          /\ UNCHANGED <<active, recent, queue, drainTimer, excused>>
  /\ UNCHANGED <<member, generation, config>>

\* The call gives its key back, and with the next key, or the next profile, goes
\* on at once if the failure is one that another key may not have.
Settle(c) ==
  LET r == call[c]
      pooled == Pooled(r.profile)
      mem == IF pooled
             THEN [member EXCEPT ![r.gen][r.key] = Returned(@, r.outcome)]
             ELSE member
      another == pooled /\ r.outcome \in {"quota", "auth"}
                 /\ r.tries + 1 < Cardinality(KeysOf[r.profile])
  IN
  /\ r.at = "settled"
  /\ \/ /\ r.outcome \in {"ok", "interrupted"}
        /\ call' = [call EXCEPT ![c] = Done]
        /\ member' = Swept(mem, generation)
        /\ UNCHANGED <<queue, drainTimer, excused>>
     \/ /\ another
        /\ TakeKey(c, [r EXCEPT !.tries = @ + 1], mem)
     \/ /\ r.outcome \notin {"ok", "interrupted"} /\ ~another
        /\ call' = [call EXCEPT ![c] = NextProfile(r)]
        /\ member' = Swept(mem, generation)
        /\ UNCHANGED <<queue, drainTimer, excused>>
  /\ UNCHANGED <<generation, config, active, recent>>

Continue(c) ==
  \/ Choose(c) \/ RecordSlot(c) \/ Settle(c)
  \/ \E o \in Outcome : Answer(c, o)

Next ==
  \/ \E c \in Call : Continue(c)
  \/ TimerFires \/ MinutePasses \/ updateConfig \/ CoolDownEnds \/ Reload

\* Awaits go on and requests end by their timeout, so some call moves on as
\* long as one can; the timer is an interval; minutes pass.
Fairness ==
  /\ WF_vars(\E c \in Call : Continue(c))
  /\ WF_vars(TimerFires)
  /\ WF_vars(MinutePasses)

Spec == Init /\ [][Next]_vars /\ Fairness

-----------------------------------------------------------------------------
TypeOK ==
  /\ call \in [Call -> CallState]
  /\ member \in [Generation -> [Key -> Member]]
  /\ generation \in Generation
  /\ config \in Config
  /\ active \in [Scope -> 0..Cardinality(Call)]
  /\ recent \in [Scope -> Nat]
  /\ queue \in Seq(Call)
  /\ drainTimer \in BOOLEAN
  /\ excused \in BOOLEAN

\* The limiter's counters are the slots that are held: each path through
\* retries, failures, the drain's grants and changes of configuration records a
\* slot once and gives it back once (llm-rate-limiter.ts:127, 226; llm.ts:477).
\* A counter that stays up would stop every call in the end.
SlotsCounted == \A s \in Scope : active[s] = Cardinality(Holders(s))

HasKey(c, g, k) ==
  call[c].key = k /\ call[c].gen = g /\ call[c].at \notin {"choosing", "done"}

\* The requests pending on a key are the calls that hold it, in the pool they
\* took it from, whatever their outcome and although a reload has replaced the
\* pool in the registry meanwhile (llm-pool.ts:172; llm.ts:423, 428).
PendingCounted ==
  \A g \in Generation, k \in Key :
    member[g][k].pending = Cardinality({c \in Call : HasKey(c, g, k)})

\* A call that waits for a slot is in the queue once, and the timer that will
\* look at the queue again is set (llm-rate-limiter.ts:181, 240).
QueueIsPolled ==
  /\ {queue[n] : n \in DOMAIN queue} = At("queued")
  /\ Len(queue) = Cardinality(At("queued"))
  /\ queue # <<>> => drainTimer

\* Where no limit per minute is set, a call waits only while its slots are all
\* taken: whoever gives a slot back, or raises the limit, hands it on at once
\* (llm-rate-limiter.ts:82, 140).
NoIdleSlot ==
  \A c \in At("queued") :
    LET p == call[c].profile IN
    \E s \in ScopesOf(p) :
      config.rpm[s] > 0 \/ ~Under(active[s], config.concurrency[s])

\* The concurrency is exceeded only if two calls have been past the check at
\* once, the queue has been drained while one was, or the configuration has
\* been changed (llm-rate-limiter.ts:123-127): no other order of steps does it.
LimitsHold ==
  ~excused =>
    \A s \in Scope :
      config.concurrency[s] > 0 => active[s] <= config.concurrency[s]

\* A call that goes on with another key of its pool after a quota or an
\* authentication error never gets the one it was just refused with
\* (llm.ts:432): its attempts are not spent on one key.
RotationChangesKey ==
  [][\A c \in Call :
       /\ call'[c].tries = call[c].tries + 1
       /\ call'[c].key # NoKey
       => call'[c].key # call[c].key]_vars

\* Every call returns or throws: it is not forgotten in the queue, and the chain
\* of profiles, keys and retries ends.
CallsSettle == \A c \in Call : <>(call[c].at = "done")

\* What is counted is what is held: the slots of the limiter and the requests
\* pending on the keys, on every path and across every reload; and it stays
\* within the limits.
CountsConsistent == TypeOK /\ SlotsCounted /\ PendingCounted /\ LimitsHold

\* A call in the queue will be looked at, and waits for a slot that is taken.
QueueIsServed == QueueIsPolled /\ NoIdleSlot
=============================================================================
