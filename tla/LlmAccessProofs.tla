---------------------------- MODULE LlmAccessProofs ----------------------------
(***************************************************************************)
(* Theorems about LlmAccess, for any number of calls, profiles, keys and   *)
(* reloads, and all configurations of the limiter.                         *)
(***************************************************************************)
EXTENDS LlmAccess, FiniteSetTheorems, SequenceTheorems, FunctionTheorems,
        WellFoundedInduction, TLAPS

\* A call that is neither before nor after its time with a profile.
Underway(r) == r.at \notin {"choosing", "done"}

\* Only a request that is sent has a slot; a call under way has a key exactly if
\* its profile has a pool, and one that is over its request has an outcome.
CallIsSound(r) ==
  /\ r \in CallState
  /\ r.slot => r.at = "sending"
  /\ IF Underway(r) /\ Pooled(r.profile) THEN r.key \in KeysOf[r.profile]
     ELSE r.key = NoKey
  /\ r.at = "settled" => r.outcome \in Outcome

CallsAreSound(calls) ==
  /\ calls = [c \in Call |-> calls[c]]
  /\ \A c \in Call : CallIsSound(calls[c])

\* The calls with a slot that counts for s.
Slots(calls, s) ==
  {c \in Call : calls[c].slot /\ s \in ScopesOf(calls[c].profile)}

SlotsMatch(calls, act) ==
  /\ act \in [Scope -> Nat]
  /\ \A s \in Scope : act[s] = Cardinality(Slots(calls, s))

\* A key, but for the bound on what is pending on it.
KeyState == [pending : Nat, errors : 0..(MaxErrors - 1),
             cooling : BOOLEAN, disabled : BOOLEAN]

Pools == [Generation -> [Key -> KeyState]]

\* The calls that have key k of generation g.
Users(calls, g, k) ==
  {c \in Call : calls[c].key = k /\ calls[c].gen = g /\ Underway(calls[c])}

KeysMatch(calls, mem) ==
  /\ mem \in Pools
  /\ \A g \in Generation, k \in Key :
       mem[g][k].pending = Cardinality(Users(calls, g, k))

\* The queue has each call that waits, once.
QueueMatches(calls, q) ==
  /\ q \in Seq(Call)
  /\ \A i, j \in 1..Len(q) : q[i] = q[j] => i = j
  /\ \A c \in Call : calls[c].at = "queued" <=> \E i \in 1..Len(q) : q[i] = c

\* Something holds a call of profile p back.
HeldBack(p, act, cfg) ==
  \E s \in ScopesOf(p) :
    cfg.rpm[s] > 0 \/ ~Under(act[s], cfg.concurrency[s])

NoneIdle(calls, act, cfg) ==
  \A c \in Call : calls[c].at = "queued" => HeldBack(calls[c].profile, act, cfg)

WithinLimits(act, cfg) ==
  \A s \in Scope : cfg.concurrency[s] > 0 => act[s] <= cfg.concurrency[s]

\* The call that is past the check is the only one, and its slot is free.
PassedFits(calls, act, cfg) ==
  \A c \in Call :
    calls[c].at = "passed" =>
      /\ \A d \in Call : calls[d].at = "passed" => d = c
      /\ \A s \in ScopesOf(calls[c].profile) : Under(act[s], cfg.concurrency[s])

LimiterHolds ==
  /\ config \in Config /\ recent \in [Scope -> Nat]
  /\ drainTimer \in BOOLEAN /\ excused \in BOOLEAN
  /\ CallsAreSound(call)
  /\ SlotsMatch(call, active)
  /\ QueueMatches(call, queue) /\ (queue # <<>> => drainTimer)
  /\ NoneIdle(call, active, config)
  /\ ~excused => WithinLimits(active, config) /\ PassedFits(call, active, config)

IInv ==
  /\ LimiterHolds
  /\ generation \in Generation /\ KeysMatch(call, member)

-----------------------------------------------------------------------------
(* The constants                                                            *)

\* The profiles are numbers, each with the limits of its own and the global ones,
\* and their keys are keys.
LEMMA Constants ==
  /\ Len(KeysOf) \in Nat /\ Profile = 1..Len(KeysOf) /\ 1 \in Profile
  /\ Scope \subseteq Nat /\ \A p \in Profile : ScopesOf(p) \subseteq Scope
  /\ \A p \in Profile : KeysOf[p] \subseteq Key
  /\ NoKey \notin Key /\ 0 \in Generation
  /\ MaxErrors \in Nat \ {0} /\ MaxReloads \in Nat
  /\ \A cfg \in Config : /\ cfg.concurrency \in [Scope -> Nat]
                         /\ cfg.rpm \in [Scope -> Nat]
                         /\ cfg.enabled \in BOOLEAN
<1>1. Len(KeysOf) \in Nat /\ Profile = 1..Len(KeysOf) /\ Len(KeysOf) # 0
  BY AccessAssumption DEF Profile
<1>2. 1 \in Profile
  BY <1>1
<1>3. Scope \subseteq Nat /\ \A p \in Profile : ScopesOf(p) \subseteq Scope
  BY <1>1 DEF Scope, Global, ScopesOf
<1>4. \A p \in Profile : KeysOf[p] \subseteq Key
  BY DEF Key
<1>5. MaxErrors \in Nat \ {0} /\ MaxReloads \in Nat /\ NoKey \notin Key
  BY AccessAssumption
<1>6. 0 \in Generation
  BY <1>5 DEF Generation
<1>7. \A cfg \in Config : /\ cfg.concurrency \in [Scope -> Nat]
                          /\ cfg.rpm \in [Scope -> Nat]
                          /\ cfg.enabled \in BOOLEAN
  BY AccessAssumption
<1>. QED BY <1>1, <1>2, <1>3, <1>4, <1>5, <1>6, <1>7

\* A set of calls with one call more, or less.
LEMMA OneMore ==
  ASSUME NEW S \in SUBSET Call, NEW c \in Call
  PROVE  /\ Cardinality(S) \in Nat /\ Cardinality(S) <= Cardinality(Call)
         /\ c \notin S => Cardinality(S \cup {c}) = Cardinality(S) + 1
         /\ c \in S => /\ Cardinality(S) > 0
                       /\ Cardinality(S \ {c}) = Cardinality(S) - 1
<1>1. IsFiniteSet(S) /\ Cardinality(S) <= Cardinality(Call)
  BY AccessAssumption, FS_Subset
<1>2. Cardinality(S) \in Nat
  BY <1>1, FS_CardinalityType
<1>3. c \notin S => Cardinality(S \cup {c}) = Cardinality(S) + 1
  BY <1>1, FS_AddElement
<1>4. c \in S => Cardinality(S \ {c}) = Cardinality(S) - 1
  BY <1>1, FS_RemoveElement
<1>5. c \in S => Cardinality(S) > 0
  BY <1>1, <1>2, FS_EmptySet
<1>. QED BY <1>1, <1>2, <1>3, <1>4, <1>5

-----------------------------------------------------------------------------
(* The slots                                                                *)

\* A call takes a slot.
LEMMA SlotTaken ==
  ASSUME NEW calls, NEW after, NEW act, NEW c \in Call, NEW p \in Profile,
         SlotsMatch(calls, act),
         ~calls[c].slot, after[c].slot, after[c].profile = p,
         \A d \in Call : d # c => after[d] = calls[d]
  PROVE  SlotsMatch(after, Counted(act, p))
<1>1. act \in [Scope -> Nat] /\ Counted(act, p) \in [Scope -> Nat]
  BY DEF SlotsMatch, Counted
<1>2. ASSUME NEW s \in Scope
      PROVE  Counted(act, p)[s] = Cardinality(Slots(after, s))
  <2>1. Slots(calls, s) \in SUBSET Call /\ c \notin Slots(calls, s)
    BY DEF Slots
  <2>2. CASE s \in ScopesOf(p)
    <3>1. Slots(after, s) = Slots(calls, s) \cup {c}
      BY <2>2 DEF Slots
    <3>2. Cardinality(Slots(after, s)) = Cardinality(Slots(calls, s)) + 1
      BY <2>1, <3>1, OneMore
    <3>. QED BY <3>2, <2>2 DEF SlotsMatch, Counted
  <2>3. CASE s \notin ScopesOf(p)
    <3>1. Slots(after, s) = Slots(calls, s)
      BY <2>3 DEF Slots
    <3>. QED BY <3>1, <2>3 DEF SlotsMatch, Counted
  <2>. QED BY <2>2, <2>3
<1>. QED BY <1>1, <1>2 DEF SlotsMatch

\* A call gives its slot back.
LEMMA SlotReturned ==
  ASSUME NEW calls, NEW after, NEW act, NEW c \in Call, NEW p \in Profile,
         SlotsMatch(calls, act),
         calls[c].slot, ~after[c].slot, calls[c].profile = p,
         \A d \in Call : d # c => after[d] = calls[d]
  PROVE  /\ SlotsMatch(after, Uncounted(act, p))
         /\ \A s \in Scope : Uncounted(act, p)[s] <= act[s]
<1>1. act \in [Scope -> Nat] /\ Uncounted(act, p) \in [Scope -> Nat]
  BY DEF SlotsMatch, Uncounted
<1>2. ASSUME NEW s \in Scope
      PROVE  Uncounted(act, p)[s] = Cardinality(Slots(after, s))
  <2>1. Slots(calls, s) \in SUBSET Call
    BY DEF Slots
  <2>2. CASE s \in ScopesOf(p)
    <3>1. Slots(after, s) = Slots(calls, s) \ {c} /\ c \in Slots(calls, s)
      BY <2>2 DEF Slots
    <3>2. /\ Cardinality(Slots(after, s)) = Cardinality(Slots(calls, s)) - 1
          /\ Cardinality(Slots(calls, s)) > 0
      BY <2>1, <3>1, OneMore
    <3>. QED BY <3>2, <2>2 DEF SlotsMatch, Uncounted
  <2>3. CASE s \notin ScopesOf(p)
    <3>1. Slots(after, s) = Slots(calls, s)
      BY <2>3 DEF Slots
    <3>. QED BY <3>1, <2>3 DEF SlotsMatch, Uncounted
  <2>. QED BY <2>2, <2>3
<1>3. \A s \in Scope : Uncounted(act, p)[s] <= act[s]
  BY <1>1 DEF Uncounted
<1>. QED BY <1>1, <1>2, <1>3 DEF SlotsMatch

\* The calls with slots are the same.
LEMMA SlotsStay ==
  ASSUME NEW calls, NEW after, NEW act, SlotsMatch(calls, act),
         \A c \in Call : /\ after[c].slot = calls[c].slot
                         /\ calls[c].slot => after[c].profile = calls[c].profile
  PROVE  SlotsMatch(after, act)
<1>1. \A s : Slots(after, s) = Slots(calls, s)
  BY DEF Slots
<1>. QED BY <1>1 DEF SlotsMatch

-----------------------------------------------------------------------------
(* The keys                                                                 *)

\* A call takes a key.
LEMMA KeyTaken ==
  ASSUME NEW calls, NEW after, NEW mem, NEW c \in Call,
         NEW g \in Generation, NEW k \in Key, KeysMatch(calls, mem),
         ~Underway(calls[c]) \/ calls[c].key \notin Key,
         Underway(after[c]), after[c].key = k, after[c].gen = g,
         \A d \in Call : d # c => after[d] = calls[d]
  PROVE  KeysMatch(after, [mem EXCEPT ![g][k].pending = @ + 1])
<1> DEFINE new == [mem EXCEPT ![g][k].pending = @ + 1]
<1>1. mem \in Pools
  BY DEF KeysMatch
<1>2. new \in Pools
  BY <1>1 DEF Pools, KeyState
<1>3. \A h \in Generation, l \in Key :
        new[h][l].pending =
          IF h = g /\ l = k THEN mem[h][l].pending + 1 ELSE mem[h][l].pending
  BY <1>1 DEF Pools, KeyState
<1> HIDE DEF new
<1>4. ASSUME NEW h \in Generation, NEW l \in Key
      PROVE  new[h][l].pending = Cardinality(Users(after, h, l))
  <2>1. Users(calls, h, l) \in SUBSET Call /\ c \notin Users(calls, h, l)
    BY DEF Users
  <2>2. mem[h][l].pending = Cardinality(Users(calls, h, l))
    BY DEF KeysMatch
  <2>3. CASE h = g /\ l = k
    <3>1. Users(after, h, l) = Users(calls, h, l) \cup {c}
      BY <2>3 DEF Users
    <3>2. Cardinality(Users(after, h, l)) = Cardinality(Users(calls, h, l)) + 1
      BY <2>1, <3>1, OneMore
    <3>. QED BY <3>2, <2>2, <2>3, <1>3
  <2>4. CASE ~(h = g /\ l = k)
    <3>1. Users(after, h, l) = Users(calls, h, l)
      BY <2>4 DEF Users
    <3>. QED BY <3>1, <2>2, <2>4, <1>3
  <2>. QED BY <2>3, <2>4
<1>. QED BY <1>2, <1>4 DEF KeysMatch, new

\* What release() does to a key: one request less is pending on it, and after a
\* quota or authentication error it is not usable.
LEMMA ReturnedIs ==
  ASSUME NEW m \in KeyState, NEW o \in Outcome
  PROVE  /\ Returned(m, o) \in KeyState
         /\ Returned(m, o).pending = IF m.pending > 0 THEN m.pending - 1 ELSE 0
         /\ o \in {"quota", "auth"} => ~Usable(Returned(m, o))
<1> DEFINE n == [m EXCEPT !.pending = IF @ > 0 THEN @ - 1 ELSE 0]
<1>1. MaxErrors \in Nat \ {0}
  BY Constants
<1>2. /\ n \in KeyState /\ n.errors = m.errors /\ n.disabled = m.disabled
      /\ n.pending = IF m.pending > 0 THEN m.pending - 1 ELSE 0
  BY DEF KeyState
<1>3. Returned(m, o) =
        IF m.disabled \/ o \in {"other", "interrupted"} THEN n
        ELSE CASE o = "ok" -> [n EXCEPT !.errors = 0, !.cooling = FALSE]
               [] o = "auth" -> Disabled(n)
               [] o = "quota" ->
                    IF m.errors + 1 >= MaxErrors THEN Disabled(n)
                    ELSE [n EXCEPT !.errors = @ + 1, !.cooling = TRUE]
  BY DEF Returned, ReleasedKey
<1> HIDE DEF n
<1>4. Disabled(n) \in KeyState /\ Disabled(n).pending = n.pending /\ Disabled(n).disabled
  <2>1. 0 \in 0..(MaxErrors - 1)
    BY <1>1
  <2> DEFINE E == 0..(MaxErrors - 1)
  <2> HIDE DEF E
  <2>2. n \in [pending : Nat, errors : E, cooling : BOOLEAN, disabled : BOOLEAN]
    BY <1>2 DEF KeyState, E
  <2>3. 0 \in E
    BY <2>1 DEF E
  <2>4. /\ Disabled(n) \in [pending : Nat, errors : E, cooling : BOOLEAN, disabled : BOOLEAN]
        /\ Disabled(n).pending = n.pending /\ Disabled(n).disabled
    BY <2>2, <2>3 DEF Disabled
  <2>. QED BY <2>4 DEF KeyState, E
<1>5. CASE m.disabled \/ o \in {"other", "interrupted"}
  <2>1. Returned(m, o) = n
    BY <1>3, <1>5
  <2>. QED BY <2>1, <1>2, <1>5 DEF Usable
<1>6. CASE ~m.disabled /\ o = "ok"
  <2>1. Returned(m, o) = [n EXCEPT !.errors = 0, !.cooling = FALSE]
    BY <1>3, <1>6
  <2>2. 0 \in 0..(MaxErrors - 1)
    BY <1>1
  <2>3. Returned(m, o) \in KeyState /\ Returned(m, o).pending = n.pending
    BY <2>1, <2>2, <1>2 DEF KeyState
  <2>. QED BY <2>3, <1>2, <1>6
<1>7. CASE ~m.disabled /\ o = "auth"
  <2>1. Returned(m, o) = Disabled(n)
    BY <1>3, <1>7
  <2>. QED BY <2>1, <1>2, <1>4 DEF Usable
<1>8. CASE ~m.disabled /\ o = "quota" /\ m.errors + 1 >= MaxErrors
  <2>1. Returned(m, o) = Disabled(n)
    BY <1>3, <1>8
  <2>. QED BY <2>1, <1>2, <1>4 DEF Usable
<1>9. CASE ~m.disabled /\ o = "quota" /\ ~(m.errors + 1 >= MaxErrors)
  <2>1. Returned(m, o) = [n EXCEPT !.errors = @ + 1, !.cooling = TRUE]
    BY <1>3, <1>9
  <2>2. n.errors + 1 \in 0..(MaxErrors - 1)
    BY <1>1, <1>2, <1>9 DEF KeyState
  <2>. QED BY <2>1, <2>2, <1>2 DEF KeyState, Usable
<1>. QED BY <1>5, <1>6, <1>7, <1>8, <1>9 DEF Outcome

\* A call gives its key back.
LEMMA KeyReturned ==
  ASSUME NEW calls, NEW after, NEW mem, NEW c \in Call,
         NEW g \in Generation, NEW k \in Key, NEW o \in Outcome,
         KeysMatch(calls, mem),
         Underway(calls[c]), calls[c].key = k, calls[c].gen = g,
         ~Underway(after[c]) \/ after[c].key \notin Key,
         \A d \in Call : d # c => after[d] = calls[d]
  PROVE  KeysMatch(after, [mem EXCEPT ![g][k] = Returned(@, o)])
<1> DEFINE m == mem[g][k]
           new == [mem EXCEPT ![g][k] = Returned(@, o)]
<1>1. mem \in Pools /\ m \in KeyState
  BY DEF KeysMatch, Pools
<1>2. Returned(m, o) \in KeyState
  BY <1>1, ReturnedIs
<1>3. new \in Pools
  BY <1>1, <1>2 DEF Pools
<1>4. \A h \in Generation, l \in Key :
        new[h][l] = IF h = g /\ l = k THEN Returned(m, o) ELSE mem[h][l]
  BY <1>1 DEF Pools
<1>5. Returned(m, o).pending = IF m.pending > 0 THEN m.pending - 1 ELSE 0
  BY <1>1, ReturnedIs
<1> HIDE DEF new
<1>6. ASSUME NEW h \in Generation, NEW l \in Key
      PROVE  new[h][l].pending = Cardinality(Users(after, h, l))
  <2>1. Users(calls, h, l) \in SUBSET Call
    BY DEF Users
  <2>2. mem[h][l].pending = Cardinality(Users(calls, h, l))
    BY DEF KeysMatch
  <2>3. CASE h = g /\ l = k
    <3>1. Users(after, h, l) = Users(calls, h, l) \ {c} /\ c \in Users(calls, h, l)
      BY <2>3 DEF Users
    <3>2. /\ Cardinality(Users(after, h, l)) = Cardinality(Users(calls, h, l)) - 1
          /\ Cardinality(Users(calls, h, l)) > 0
      BY <2>1, <3>1, OneMore
    <3>3. new[h][l].pending = IF m.pending > 0 THEN m.pending - 1 ELSE 0
      BY <1>4, <1>5, <2>3
    <3>. QED BY <3>2, <3>3, <2>2, <2>3
  <2>4. CASE ~(h = g /\ l = k)
    <3>1. Users(after, h, l) = Users(calls, h, l)
      BY <2>4 DEF Users
    <3>2. new[h][l] = mem[h][l]
      BY <2>4, <1>4
    <3>. QED BY <3>1, <3>2, <2>2
  <2>. QED BY <2>3, <2>4
<1>. QED BY <1>3, <1>6 DEF KeysMatch, new

\* The calls with keys are the same.
LEMMA KeysStay ==
  ASSUME NEW calls, NEW after, NEW mem, KeysMatch(calls, mem),
         \A c \in Call :
           \/ after[c].key = calls[c].key /\ after[c].gen = calls[c].gen
              /\ (Underway(after[c]) <=> Underway(calls[c]))
           \/ /\ ~Underway(after[c]) \/ after[c].key \notin Key
              /\ ~Underway(calls[c]) \/ calls[c].key \notin Key
  PROVE  KeysMatch(after, mem)
<1>1. \A g \in Generation, k \in Key : Users(after, g, k) = Users(calls, g, k)
  BY DEF Users
<1>. QED BY <1>1 DEF KeysMatch

\* Pools without calls are dropped.
LEMMA KeysSwept ==
  ASSUME NEW calls, NEW mem, NEW current, KeysMatch(calls, mem)
  PROVE  KeysMatch(calls, Swept(mem, current))
<1>1. mem \in Pools
  BY DEF KeysMatch
<1>2. NewPool \in [Key -> KeyState] /\ \A k \in Key : NewPool[k].pending = 0
  BY Constants DEF NewPool, KeyState
<1>3. Swept(mem, current) \in Pools
  BY <1>1, <1>2 DEF Swept, Pools
<1>4. \A g \in Generation, k \in Key : Swept(mem, current)[g][k].pending = mem[g][k].pending
  BY <1>2 DEF Swept
<1>. QED BY <1>3, <1>4 DEF KeysMatch

-----------------------------------------------------------------------------
(* The scan of the queue                                                    *)

\* A set of numbers has a least one.
LEMMA LeastNatural ==
  ASSUME NEW T \in SUBSET Nat, T # {}
  PROVE  \E m \in T : \A k \in T : m <= k
<1> DEFINE R == OpToRel(<, Nat)
<1>1. IsWellFoundedOn(R, Nat)
  BY NatLessThanWellFounded, Zenon
<1> HIDE DEF R
<1>2. PICK m \in T : \A k \in T : ~(<<k, m>> \in R)
  BY <1>1, WFMin
<1>3. \A k \in T : ~(k < m)
  BY <1>2, Zenon DEF R, OpToRel
<1>4. \A k \in T : m <= k
  BY <1>3
<1>. QED BY <1>4

\* f is the states of a scan of the first N calls of q, from base on.
IsScan(f, N, base, q) ==
  f = [n \in 0..N |-> IF n = 0 THEN base ELSE Scan(f[n - 1], q[n])]

\* There is a scan: a shortest one that is missing would be one step of Scan
\* longer than one that is there.
LEMMA ScanExists ==
  ASSUME NEW N \in Nat, NEW base, NEW q
  PROVE  \E f : IsScan(f, N, base, q)
<1> DEFINE Def(f, k) == [n \in 0..k |-> IF n = 0 THEN base ELSE Scan(f[n - 1], q[n])]
           Missing == {k \in Nat : ~\E f : f = Def(f, k)}
<1>1. Missing = {}
  <2> SUFFICES ASSUME Missing # {} PROVE FALSE
    OBVIOUS
  <2>1. PICK m \in Missing : \A k \in Missing : m <= k
    BY LeastNatural
  <2>2. m # 0
    <3>1. [n \in 0..0 |-> base] = Def([n \in 0..0 |-> base], 0)
      OBVIOUS
    <3>. QED BY <3>1
  <2>3. m \in Nat /\ m - 1 \in Nat /\ m - 1 \notin Missing
    BY <2>1, <2>2
  <2>4. PICK f : f = Def(f, m - 1)
    BY <2>3
  <2> DEFINE g == [n \in 0..m |-> IF n <= m - 1 THEN f[n] ELSE Scan(f[m - 1], q[m])]
  <2>5. ASSUME NEW n \in 0..m
        PROVE  g[n] = IF n = 0 THEN base ELSE Scan(g[n - 1], q[n])
    <3>1. CASE n = m
      BY <2>3, <2>2, <3>1
    <3>2. CASE n # m
      <4>1. n \in 0..(m - 1)
        BY <2>3, <3>2
      <4>2. f[n] = IF n = 0 THEN base ELSE Scan(f[n - 1], q[n])
        BY <2>4, <4>1
      <4>3. g[n] = f[n] /\ (n # 0 => g[n - 1] = f[n - 1])
        BY <2>3, <4>1
      <4>. QED BY <4>2, <4>3
    <3>. QED BY <3>1, <3>2
  <2>6. g = Def(g, m)
    BY <2>5
  <2>. QED BY <2>1, <2>6
<1>. QED BY <1>1 DEF IsScan

Unscanned(cfg, act) ==
  [config |-> cfg, active |-> act, recent |-> recent, left |-> <<>>, granted |-> {}]

\* What drain() comes to is the last of the states of its scan.
LEMMA DrainedIs ==
  ASSUME NEW cfg, NEW act, queue \in Seq(Call)
  PROVE  \E f : /\ Drained(cfg, act) = f[Len(queue)]
                /\ f[0] = Unscanned(cfg, act)
                /\ \A n \in 1..Len(queue) : f[n] = Scan(f[n - 1], queue[n])
<1> DEFINE F == CHOOSE f : IsScan(f, Len(queue), Unscanned(cfg, act), queue)
<1>1. Len(queue) \in Nat
  BY LenProperties
<1>2. IsScan(F, Len(queue), Unscanned(cfg, act), queue)
  BY <1>1, ScanExists
<1>3. Drained(cfg, act) = F[Len(queue)]
  BY Zenon DEF Drained, Unscanned, IsScan
<1> HIDE DEF F
<1>4. F[0] = Unscanned(cfg, act)
  BY <1>1, <1>2 DEF IsScan
<1>5. \A n \in 1..Len(queue) : F[n] = Scan(F[n - 1], queue[n])
  BY <1>1, <1>2 DEF IsScan
<1>. QED BY <1>3, <1>4, <1>5

\* The calls, when those that the scan has granted a slot have it.
Granted(calls, S) ==
  [c \in Call |->
     IF c \in S THEN [calls[c] EXCEPT !.at = "sending", !.slot = TRUE]
     ELSE calls[c]]

\* What drain() is called with: the queue, the calls and the counters fit.
Fit(calls, cfg, act) ==
  /\ cfg \in Config /\ recent \in [Scope -> Nat]
  /\ CallsAreSound(calls)
  /\ SlotsMatch(calls, act)
  /\ QueueMatches(calls, queue)
  /\ \A c \in Call : call[c].at = "queued" \/ calls[c].at = "queued" => calls[c] = call[c]

\* After the scan of n calls: each of them is left in the queue, held back by
\* something, or has its slot; the counters are those of the slots that are
\* held, and within the limits they were within.
ScanHolds(d, n, calls, cfg, act) ==
  /\ d.config = cfg /\ d.recent \in [Scope -> Nat]
  /\ d.left \in Seq(Call) /\ d.granted \in SUBSET Call
  /\ \A i, j \in 1..Len(d.left) : d.left[i] = d.left[j] => i = j
  /\ \A c \in Call :
       (\E i \in 1..n : queue[i] = c) <=>
         c \in d.granted \/ \E i \in 1..Len(d.left) : d.left[i] = c
  /\ \A i \in 1..Len(d.left) :
       d.left[i] \notin d.granted /\ HeldBack(call[d.left[i]].profile, d.active, cfg)
  /\ SlotsMatch(Granted(calls, d.granted), d.active)
  /\ WithinLimits(act, cfg) => WithinLimits(d.active, cfg)
  /\ d.granted = {} => d.active = act

\* A counter that goes up leaves held back what was.
LEMMA StillHeldBack ==
  ASSUME NEW p \in Profile, NEW q \in Profile, NEW cfg \in Config,
         NEW act \in [Scope -> Nat], HeldBack(p, act, cfg)
  PROVE  HeldBack(p, Counted(act, q), cfg)
<1>1. PICK s \in ScopesOf(p) : cfg.rpm[s] > 0 \/ ~Under(act[s], cfg.concurrency[s])
  BY DEF HeldBack
<1>2. s \in Scope /\ act[s] \in Nat /\ cfg.concurrency[s] \in Nat
  BY Constants
<1>3. Counted(act, q)[s] \in Nat /\ Counted(act, q)[s] >= act[s]
  BY <1>2 DEF Counted
<1>4. ~Under(act[s], cfg.concurrency[s]) => ~Under(Counted(act, q)[s], cfg.concurrency[s])
  BY <1>2, <1>3 DEF Under
<1>. QED BY <1>1, <1>4 DEF HeldBack

\* A call that may not proceed is held back by something.
LEMMA RefusedIsHeldBack ==
  ASSUME NEW p \in Profile, NEW cfg \in Config, NEW act, NEW rec,
         ~canProceed(p, cfg, act, rec)
  PROVE  HeldBack(p, act, cfg)
<1>1. PICK s \in ScopesOf(p) :
         ~Under(act[s], cfg.concurrency[s]) \/ ~Under(rec[s], cfg.rpm[s])
  BY DEF canProceed
<1>2. s \in Scope /\ cfg.rpm[s] \in Nat
  BY Constants
<1>3. ~Under(rec[s], cfg.rpm[s]) => cfg.rpm[s] > 0
  BY <1>2 DEF Under
<1>. QED BY <1>1, <1>3 DEF HeldBack

\* A call that may proceed keeps the counters within their limits.
LEMMA GrantedIsWithin ==
  ASSUME NEW p \in Profile, NEW cfg \in Config, NEW act \in [Scope -> Nat],
         \A s \in ScopesOf(p) : Under(act[s], cfg.concurrency[s]),
         WithinLimits(act, cfg)
  PROVE  WithinLimits(Counted(act, p), cfg)
<1> SUFFICES ASSUME NEW s \in Scope, cfg.concurrency[s] > 0
             PROVE  Counted(act, p)[s] <= cfg.concurrency[s]
  BY DEF WithinLimits
<1>1. act[s] \in Nat /\ cfg.concurrency[s] \in Nat /\ act[s] <= cfg.concurrency[s]
  BY Constants DEF WithinLimits
<1>2. s \in ScopesOf(p) => act[s] < cfg.concurrency[s]
  BY <1>1 DEF Under
<1>. QED BY <1>1, <1>2 DEF Counted

\* One step of the scan.
LEMMA ScanStep ==
  ASSUME NEW calls, NEW cfg, NEW act, Fit(calls, cfg, act),
         NEW n \in 1..Len(queue), NEW d, ScanHolds(d, n - 1, calls, cfg, act),
         DOMAIN d = {"config", "active", "recent", "left", "granted"}
  PROVE  ScanHolds(Scan(d, queue[n]), n, calls, cfg, act)
<1> DEFINE c == queue[n]
           p == call[c].profile
           new == Scan(d, c)
<1>1. /\ c \in Call /\ n \in Nat /\ n >= 1
      /\ \A i \in 1..(n - 1) : queue[i] # c /\ i \in 1..Len(queue)
      /\ \A i \in 1..n : i = n \/ i \in 1..(n - 1)
      /\ \A i \in 1..(n - 1) : i \in 1..n
      /\ n \in 1..n
  BY LenProperties, ElementOfSeq DEF Fit, QueueMatches
<1>2. /\ calls[c].at = "queued" /\ calls[c] = call[c] /\ CallIsSound(calls[c])
  BY <1>1 DEF Fit, QueueMatches, CallsAreSound
<1>3. ~calls[c].slot /\ calls[c].profile = p /\ p \in Profile /\ calls[c] \in CallState
  BY <1>2 DEF CallIsSound, CallState
<1>4. c \notin d.granted /\ \A i \in 1..Len(d.left) : d.left[i] # c
  BY <1>1 DEF ScanHolds
<1>5. cfg \in Config /\ d.config = cfg /\ d.active \in [Scope -> Nat]
  BY DEF Fit, ScanHolds, SlotsMatch
<1>6. CASE canProceed(p, d.config, d.active, d.recent)
  <2>1. /\ new.config = cfg /\ new.left = d.left /\ new.granted = d.granted \cup {c}
        /\ new.active = Counted(d.active, p) /\ new.recent = Stamped(d.recent, p)
    BY <1>5, <1>6 DEF Scan
  <2> HIDE DEF new, c, p
  <2>2. new.recent \in [Scope -> Nat]
    BY <2>1 DEF Stamped, ScanHolds
  <2>3. \A e \in Call :
          (\E i \in 1..n : queue[i] = e) <=>
            e \in new.granted \/ \E i \in 1..Len(new.left) : new.left[i] = e
    BY <1>1, <2>1 DEF ScanHolds, c
  <2>4. \A i \in 1..Len(new.left) :
          new.left[i] \notin new.granted /\ HeldBack(call[new.left[i]].profile, new.active, cfg)
    <3> SUFFICES ASSUME NEW i \in 1..Len(new.left)
                 PROVE  new.left[i] \notin new.granted
                        /\ HeldBack(call[new.left[i]].profile, new.active, cfg)
      OBVIOUS
    <3>1. /\ d.left[i] \in Call /\ d.left[i] \notin d.granted /\ d.left[i] # c
          /\ HeldBack(call[d.left[i]].profile, d.active, cfg)
      BY <2>1, <1>4, ElementOfSeq DEF ScanHolds
    <3>2. calls[d.left[i]].at = "queued"
      <4>1. \E k \in 1..(n - 1) : queue[k] = d.left[i]
        BY <3>1, <2>1 DEF ScanHolds
      <4>. QED BY <4>1, <1>1, <3>1 DEF Fit, QueueMatches
    <3>3. call[d.left[i]].profile \in Profile
      BY <3>1, <3>2 DEF Fit, CallsAreSound, CallIsSound, CallState
    <3>4. HeldBack(call[d.left[i]].profile, Counted(d.active, p), cfg)
      BY <3>1, <3>3, <1>3, <1>5, StillHeldBack
    <3>. QED BY <3>1, <3>4, <2>1
  <2>5. SlotsMatch(Granted(calls, new.granted), new.active)
    <3> DEFINE before == Granted(calls, d.granted)
               after == Granted(calls, new.granted)
    <3>1. before[c] = calls[c] /\ after[c] = [calls[c] EXCEPT !.at = "sending", !.slot = TRUE]
      BY <1>1, <1>4, <2>1 DEF Granted
    <3>2. after[c].slot /\ after[c].profile = p /\ ~before[c].slot
      BY <3>1, <1>3 DEF CallState
    <3>3. \A e \in Call : e # c => after[e] = before[e]
      BY <2>1 DEF Granted
    <3>4. SlotsMatch(before, d.active)
      BY DEF ScanHolds
    <3> HIDE DEF before, after
    <3>5. SlotsMatch(after, Counted(d.active, p))
      BY <1>1, <1>3, <3>2, <3>3, <3>4, SlotTaken
    <3>. QED BY <3>5, <2>1 DEF after
  <2>6. WithinLimits(act, cfg) => WithinLimits(new.active, cfg)
    <3>1. \A s \in ScopesOf(p) : Under(d.active[s], cfg.concurrency[s])
      BY <1>5, <1>6 DEF canProceed
    <3>2. WithinLimits(d.active, cfg) => WithinLimits(new.active, cfg)
      BY <3>1, <1>3, <1>5, <2>1, GrantedIsWithin
    <3>. QED BY <3>2 DEF ScanHolds
  <2>7. new.left \in Seq(Call) /\ new.granted \in SUBSET Call /\ new.granted # {}
    BY <1>1, <2>1 DEF ScanHolds
  <2>8. \A i, j \in 1..Len(new.left) : new.left[i] = new.left[j] => i = j
    BY <2>1 DEF ScanHolds
  <2>9. ScanHolds(new, n, calls, cfg, act)
    BY <2>1, <2>2, <2>3, <2>4, <2>5, <2>6, <2>7, <2>8 DEF ScanHolds
  <2>. QED BY <2>9 DEF new, c
<1>7. CASE ~canProceed(p, d.config, d.active, d.recent)
  <2>1. /\ new.config = cfg /\ new.left = Append(d.left, c) /\ new.granted = d.granted
        /\ new.active = d.active /\ new.recent = d.recent
    BY <1>5, <1>7 DEF Scan
  <2> HIDE DEF new, c, p
  <2> DEFINE m == Len(d.left)
  <2>2. /\ new.left \in Seq(Call) /\ m \in Nat /\ Len(new.left) = m + 1
        /\ \A i \in 1..m : new.left[i] = d.left[i]
        /\ new.left[m + 1] = c
    BY <1>1, <2>1, LenProperties DEF ScanHolds
  <2>3. /\ m + 1 \in 1..Len(new.left) /\ \A i \in 1..m : i \in 1..Len(new.left)
        /\ \A i \in 1..Len(new.left) : i \in 1..m \/ i = m + 1
    BY <2>2
  <2>4. \A e \in Call : (\E i \in 1..Len(new.left) : new.left[i] = e) <=>
                          (\E i \in 1..m : d.left[i] = e) \/ e = c
    <3> HIDE DEF m
    <3>. QED BY <2>2, <2>3
  <2>5. \A e \in Call :
          (\E i \in 1..n : queue[i] = e) <=>
            e \in new.granted \/ \E i \in 1..Len(new.left) : new.left[i] = e
    <3>1. \A e \in Call : (\E i \in 1..n : queue[i] = e) <=>
                            (\E i \in 1..(n - 1) : queue[i] = e) \/ e = c
      BY <1>1 DEF c
    <3>2. \A e \in Call : (\E i \in 1..(n - 1) : queue[i] = e) <=>
                            e \in d.granted \/ \E i \in 1..m : d.left[i] = e
      BY DEF ScanHolds
    <3>. QED BY <3>1, <3>2, <2>4, <2>1
  <2>6. HeldBack(p, new.active, cfg)
    BY <1>3, <1>5, <1>7, <2>1, RefusedIsHeldBack
  <2>7. \A i \in 1..Len(new.left) :
          new.left[i] \notin new.granted /\ HeldBack(call[new.left[i]].profile, new.active, cfg)
    <3>1. \A i \in 1..m : d.left[i] \notin d.granted /\ HeldBack(call[d.left[i]].profile, d.active, cfg)
      BY DEF ScanHolds
    <3>. QED BY <3>1, <2>1, <2>2, <2>3, <2>6, <1>4 DEF p
  <2>8. \A i, j \in 1..Len(new.left) : new.left[i] = new.left[j] => i = j
    <3>1. \A i, j \in 1..m : d.left[i] = d.left[j] => i = j
      BY DEF ScanHolds
    <3> HIDE DEF m
    <3>. QED BY <3>1, <2>2, <2>3, <1>4 DEF m
  <2>9. /\ SlotsMatch(Granted(calls, new.granted), new.active)
        /\ WithinLimits(act, cfg) => WithinLimits(new.active, cfg)
        /\ new.granted = {} => new.active = act
        /\ new.recent \in [Scope -> Nat] /\ new.granted \in SUBSET Call
    BY <2>1 DEF ScanHolds
  <2>10. ScanHolds(new, n, calls, cfg, act)
    BY <2>1, <2>2, <2>5, <2>7, <2>8, <2>9 DEF ScanHolds
  <2>. QED BY <2>10 DEF new, c
<1>. QED BY <1>6, <1>7

\* What drain() comes to holds for the whole of the queue: a first call at which
\* it failed would have one before it, at which ScanStep says that it does not.
LEMMA DrainedHolds ==
  ASSUME NEW calls, NEW cfg, NEW act, Fit(calls, cfg, act)
  PROVE  ScanHolds(Drained(cfg, act), Len(queue), calls, cfg, act)
<1> DEFINE Fields == {"config", "active", "recent", "left", "granted"}
<1>1. queue \in Seq(Call) /\ Len(queue) \in Nat
  BY LenProperties DEF Fit, QueueMatches
<1>2. PICK f : /\ Drained(cfg, act) = f[Len(queue)]
               /\ f[0] = Unscanned(cfg, act)
               /\ \A n \in 1..Len(queue) : f[n] = Scan(f[n - 1], queue[n])
  BY <1>1, DrainedIs
<1> DEFINE Good(n) == ScanHolds(f[n], n, calls, cfg, act) /\ DOMAIN f[n] = Fields
           Bad == {n \in 0..Len(queue) : ~Good(n)}
<1>3. Good(0)
  <2>1. /\ f[0].config = cfg /\ f[0].active = act /\ f[0].recent = recent
        /\ f[0].left = <<>> /\ f[0].granted = {} /\ DOMAIN f[0] = Fields
    BY <1>2 DEF Unscanned
  <2>2. Granted(calls, {}) = [c \in Call |-> calls[c]]
    BY DEF Granted
  <2>3. SlotsMatch(Granted(calls, {}), act)
    <3>1. \A c \in Call : Granted(calls, {})[c] = calls[c]
      BY <2>2
    <3>. QED BY <3>1, SlotsStay DEF Fit
  <2>4. Len(<<>>) = 0 /\ <<>> \in Seq(Call)
    BY EmptySeq
  <2>5. ScanHolds(f[0], 0, calls, cfg, act)
    BY <2>1, <2>3, <2>4 DEF ScanHolds, Fit
  <2>. QED BY <2>1, <2>5
<1>4. ASSUME NEW n \in 1..Len(queue), Good(n - 1) PROVE Good(n)
  <2>1. f[n] = Scan(f[n - 1], queue[n])
    BY <1>2
  <2>2. ScanHolds(f[n], n, calls, cfg, act)
    BY <1>4, <2>1, ScanStep
  <2>3. DOMAIN f[n] = Fields
    BY <1>4, <2>1 DEF Scan
  <2>. QED BY <2>2, <2>3
<1>5. Bad = {}
  <2> HIDE DEF Good
  <2> SUFFICES ASSUME Bad # {} PROVE FALSE
    OBVIOUS
  <2>1. Bad \in SUBSET Nat
    BY <1>1
  <2>2. PICK n \in Bad : \A k \in Bad : n <= k
    BY <2>1, LeastNatural
  <2>3. n \in 1..Len(queue) /\ n - 1 \in 0..Len(queue) /\ n - 1 < n
    BY <1>1, <1>3, <2>2
  <2>4. Good(n - 1)
    BY <2>1, <2>2, <2>3
  <2>. QED BY <1>4, <2>2, <2>3, <2>4
<1>6. Good(Len(queue))
  BY <1>1, <1>5
<1>. QED BY <1>2, <1>6

\* What drain() does.
LEMMA DrainKeeps ==
  ASSUME NEW cfg, NEW act, NEW calls, Fit(calls, cfg, act),
         drainTimer \in BOOLEAN, queue # <<>> => drainTimer,
         Drain(cfg, act, calls)
  PROVE  /\ CallsAreSound(call') /\ SlotsMatch(call', active')
         /\ QueueMatches(call', queue') /\ recent' \in [Scope -> Nat]
         /\ drainTimer' \in BOOLEAN /\ (queue' # <<>> => drainTimer')
         /\ NoneIdle(call', active', cfg)
         /\ WithinLimits(act, cfg) => WithinLimits(active', cfg)
         /\ queue' = queue => active' = act
         /\ \A c \in Call :
              /\ call'[c].key = calls[c].key /\ call'[c].gen = calls[c].gen
              /\ call'[c].tries = calls[c].tries
              /\ call'[c].profile = calls[c].profile
              /\ Underway(call'[c]) <=> Underway(calls[c])
              /\ call'[c].at = "passed" <=> calls[c].at = "passed"
<1> DEFINE d == Drained(cfg, act)
           N == Len(queue)
<1>1. ScanHolds(d, N, calls, cfg, act)
  BY DrainedHolds
<1>2. /\ active' = d.active /\ recent' = d.recent /\ queue' = d.left
      /\ drainTimer' = (drainTimer /\ d.left # <<>>)
      /\ call' = Granted(calls, d.granted)
  BY DEF Drain, Granted, TimerAfter
<1> HIDE DEF d
<1>3. queue \in Seq(Call) /\ N \in Nat /\ DOMAIN calls = Call
  BY LenProperties DEF Fit, QueueMatches, CallsAreSound
<1>4. \A c \in Call : CallIsSound(calls[c]) /\ calls[c] \in CallState
  BY DEF Fit, CallsAreSound, CallIsSound
<1>5. \A c \in Call : calls[c].at = "queued" <=> \E i \in 1..N : queue[i] = c
  BY DEF Fit, QueueMatches
<1>6. \A c \in d.granted : c \in Call /\ calls[c].at = "queued"
  BY <1>1, <1>5 DEF ScanHolds
<1>7. ASSUME NEW c \in d.granted
      PROVE  /\ call'[c] \in CallState /\ call'[c].at = "sending" /\ call'[c].slot
             /\ call'[c].key = calls[c].key /\ call'[c].gen = calls[c].gen
             /\ call'[c].tries = calls[c].tries /\ call'[c].profile = calls[c].profile
  <2>1. call'[c] = [calls[c] EXCEPT !.at = "sending", !.slot = TRUE]
    BY <1>2, <1>6 DEF Granted
  <2>2. calls[c] \in CallState
    BY <1>4, <1>6
  <2>3. "sending" \in Stage
    BY DEF Stage
  <2>. QED BY <2>1, <2>2, <2>3 DEF CallState
<1>8. \A c \in Call \ d.granted : call'[c] = calls[c]
  BY <1>2 DEF Granted
<1>9. CallsAreSound(call')
  <2>1. call' = [c \in Call |-> call'[c]]
    BY <1>2 DEF Granted
  <2>2. ASSUME NEW c \in d.granted PROVE CallIsSound(call'[c])
    <3>1. CallIsSound(calls[c]) /\ Underway(calls[c])
      BY <1>4, <1>6 DEF Underway
    <3>. QED BY <3>1, <1>7 DEF CallIsSound, Underway
  <2>. QED BY <2>1, <2>2, <1>4, <1>8 DEF CallsAreSound
<1>10. SlotsMatch(call', active')
  BY <1>1, <1>2 DEF ScanHolds
<1>11. QueueMatches(call', queue')
  <2>1. queue' \in Seq(Call) /\ \A i, j \in 1..Len(queue') : queue'[i] = queue'[j] => i = j
    BY <1>1, <1>2 DEF ScanHolds
  <2>2. \A i \in 1..Len(queue') : queue'[i] \in Call /\ queue'[i] \notin d.granted
    BY <1>1, <1>2, <2>1, ElementOfSeq DEF ScanHolds
  <2>3. \A c \in Call : calls[c].at = "queued" <=>
                          c \in d.granted \/ \E i \in 1..Len(queue') : queue'[i] = c
    BY <1>1, <1>2, <1>5 DEF ScanHolds
  <2>4. \A c \in Call : call'[c].at = "queued" <=> calls[c].at = "queued" /\ c \notin d.granted
    BY <1>7, <1>8
  <2>5. \A c \in Call : call'[c].at = "queued" <=> \E i \in 1..Len(queue') : queue'[i] = c
    BY <2>2, <2>3, <2>4
  <2>. QED BY <2>1, <2>5 DEF QueueMatches
<1>12. recent' \in [Scope -> Nat]
  BY <1>1, <1>2 DEF ScanHolds
<1>13. drainTimer' \in BOOLEAN /\ (queue' # <<>> => drainTimer')
  <2>1. queue' # <<>> => queue # <<>>
    <3> SUFFICES ASSUME queue = <<>>, queue' # <<>> PROVE FALSE
      OBVIOUS
    <3>1. d.left \in Seq(Call) /\ d.left # <<>>
      BY <1>1, <1>2 DEF ScanHolds
    <3>2. 1 \in 1..Len(d.left) /\ d.left[1] \in Call
      BY <3>1, EmptySeq, LenProperties, ElementOfSeq
    <3>3. N = 0
      BY EmptySeq
    <3>4. \E i \in 1..N : queue[i] = d.left[1]
      BY <1>1, <3>2 DEF ScanHolds
    <3>. QED BY <3>3, <3>4
  <2>. QED BY <2>1, <1>2
<1>14. NoneIdle(call', active', cfg)
  <2> SUFFICES ASSUME NEW c \in Call, call'[c].at = "queued"
               PROVE  HeldBack(call'[c].profile, active', cfg)
    BY DEF NoneIdle
  <2>1. call'[c] = calls[c] /\ calls[c] = call[c]
    BY <1>7, <1>8 DEF Fit
  <2>2. PICK i \in 1..Len(queue') : queue'[i] = c
    BY <1>11 DEF QueueMatches
  <2>3. HeldBack(call[c].profile, d.active, cfg)
    BY <1>1, <1>2, <2>2 DEF ScanHolds
  <2>. QED BY <2>1, <2>3, <1>2
<1>15. WithinLimits(act, cfg) => WithinLimits(active', cfg)
  BY <1>1, <1>2 DEF ScanHolds
<1>16. queue' = queue => active' = act
  <2> SUFFICES ASSUME queue' = queue PROVE d.granted = {}
    BY <1>1, <1>2 DEF ScanHolds
  <2>1. ASSUME NEW c \in d.granted PROVE FALSE
    <3>1. PICK i \in 1..N : queue[i] = c
      BY <1>1, <1>6 DEF ScanHolds
    <3>2. d.left[i] = c /\ i \in 1..Len(d.left)
      BY <1>2, <3>1
    <3>. QED BY <1>1, <3>2 DEF ScanHolds
  <2>. QED BY <2>1
<1>17. ASSUME NEW c \in Call
       PROVE  /\ call'[c].key = calls[c].key /\ call'[c].gen = calls[c].gen
              /\ call'[c].tries = calls[c].tries
              /\ call'[c].profile = calls[c].profile
              /\ Underway(call'[c]) <=> Underway(calls[c])
              /\ call'[c].at = "passed" <=> calls[c].at = "passed"
  <2>1. CASE c \in d.granted
    BY <2>1, <1>6, <1>7 DEF Underway
  <2>2. CASE c \notin d.granted
    BY <2>2, <1>8
  <2>. QED BY <2>1, <2>2
<1>. QED BY <1>9, <1>10, <1>11, <1>12, <1>13, <1>14, <1>15, <1>16, <1>17

-----------------------------------------------------------------------------
(* The limiter under each step                                              *)

\* Call c becomes r.
Becomes(c, r) == call' = [call EXCEPT ![c] = r]

\* The calls are still sound when one becomes another that is.
LEMMA CallReplaced ==
  ASSUME CallsAreSound(call), NEW c \in Call, NEW r, CallIsSound(r), Becomes(c, r)
  PROVE  /\ CallsAreSound(call') /\ call'[c] = r
         /\ \A d \in Call : d # c => call'[d] = call[d]
BY DEF CallsAreSound, Becomes

\* A call moves on that neither has nor waits for a slot, before or after.
LEMMA Moved ==
  ASSUME LimiterHolds, NEW c \in Call, NEW r, CallIsSound(r),
         ~call[c].slot, call[c].at \notin {"passed", "queued"},
         ~r.slot, r.at \notin {"passed", "queued"},
         Becomes(c, r), UNCHANGED <<limiter, excused>>
  PROVE  LimiterHolds'
<1>a. CallsAreSound(call) /\ SlotsMatch(call, active)
  BY DEF LimiterHolds
<1>1. /\ CallsAreSound(call') /\ call'[c] = r
      /\ \A d \in Call : d # c => call'[d] = call[d]
  BY <1>a, CallReplaced
<1>2. \A d \in Call : /\ call'[d].at = "queued" <=> call[d].at = "queued"
                      /\ call'[d].at = "passed" <=> call[d].at = "passed"
                      /\ call[d].at \in {"queued", "passed"} => call'[d] = call[d]
  BY <1>1
<1>3. SlotsMatch(call', active)
  <2>1. \A d \in Call : /\ call'[d].slot = call[d].slot
                        /\ call[d].slot => call'[d].profile = call[d].profile
    <3> SUFFICES ASSUME NEW d \in Call
                 PROVE  /\ call'[d].slot = call[d].slot
                        /\ call[d].slot => call'[d].profile = call[d].profile
      OBVIOUS
    <3>1. CASE d # c
      BY <3>1, <1>1
    <3>2. CASE d = c
      <4>1. call[c].slot = FALSE /\ r.slot = FALSE
        BY <3>2 DEF LimiterHolds, CallsAreSound, CallIsSound, CallState
      <4>. QED BY <3>2, <4>1, <1>1
    <3>. QED BY <3>1, <3>2
  <2>. QED BY <2>1, <1>a, SlotsStay
<1>4. QueueMatches(call', queue)
  BY <1>2 DEF LimiterHolds, QueueMatches
<1>5. NoneIdle(call', active, config)
  BY <1>2 DEF LimiterHolds, NoneIdle
<1>6. ~excused => WithinLimits(active, config) /\ PassedFits(call', active, config)
  BY <1>2 DEF LimiterHolds, PassedFits
<1>7. UNCHANGED <<config, active, recent, queue, drainTimer, excused>>
  BY DEF limiter
<1>8. /\ config \in Config /\ recent \in [Scope -> Nat] /\ drainTimer \in BOOLEAN
      /\ excused \in BOOLEAN /\ (queue # <<>> => drainTimer)
  BY DEF LimiterHolds
<1>. QED BY <1>1, <1>3, <1>4, <1>5, <1>6, <1>7, <1>8 DEF LimiterHolds

\* A call that has taken its key, or needs none, comes to the limiter.
ComesWith(r) ==
  /\ r \in CallState /\ ~r.slot
  /\ IF Pooled(r.profile) THEN r.key \in KeysOf[r.profile] ELSE r.key = NoKey

\* admit() keeps the limiter right: the call is sent without a limit, goes past the
\* check, where its slots are free unless there is an excuse, or joins the queue.
LEMMA Admitted ==
  ASSUME LimiterHolds, NEW c \in Call, NEW r, ComesWith(r),
         ~call[c].slot, call[c].at \notin {"passed", "queued"},
         Admit(c, r), UNCHANGED <<config, active, recent>>
  PROVE  /\ LimiterHolds'
         /\ \E st \in {"sending", "passed", "queued"} :
              Becomes(c, [r EXCEPT !.at = st])
<1>1. ASSUME NEW st \in {"sending", "passed", "queued"}
      PROVE  /\ CallIsSound([r EXCEPT !.at = st])
             /\ [r EXCEPT !.at = st].at = st /\ ~[r EXCEPT !.at = st].slot
             /\ [r EXCEPT !.at = st].profile = r.profile
  <2> DEFINE e == [r EXCEPT !.at = st]
  <2>1. /\ e \in CallState /\ e.at = st /\ e.slot = r.slot
        /\ e.profile = r.profile /\ e.key = r.key
    BY DEF ComesWith, CallState, Stage
  <2> HIDE DEF e
  <2>2. CallIsSound(e) /\ e.at = st /\ ~e.slot /\ e.profile = r.profile
    BY <2>1 DEF CallIsSound, ComesWith, Underway
  <2>. QED BY <2>2 DEF e
<1>2. CASE ~config.enabled /\ Becomes(c, [r EXCEPT !.at = "sending"])
           /\ UNCHANGED <<queue, drainTimer, excused>>
  <2>1. LimiterHolds'
    BY <1>1, <1>2, Moved DEF limiter
  <2>. QED BY <2>1, <1>2
<1> DEFINE pass == canProceed(r.profile, config, active, recent)
<1>a. /\ config \in Config /\ recent \in [Scope -> Nat] /\ drainTimer \in BOOLEAN
      /\ excused \in BOOLEAN /\ active \in [Scope -> Nat]
      /\ r.profile \in Profile /\ call[c].slot = FALSE /\ call[c].at \notin {"passed", "queued"}
  BY DEF LimiterHolds, SlotsMatch, ComesWith, CallState, CallsAreSound, CallIsSound
<1>b. ASSUME NEW st \in {"passed", "queued"}, Becomes(c, [r EXCEPT !.at = st])
      PROVE  /\ CallsAreSound(call') /\ call'[c].at = st /\ call'[c].profile = r.profile
             /\ \A d \in Call : d # c => call'[d] = call[d]
             /\ SlotsMatch(call', active)
  <2>1. /\ CallsAreSound(call') /\ call'[c] = [r EXCEPT !.at = st]
        /\ \A d \in Call : d # c => call'[d] = call[d]
    <3>1. CallsAreSound(call) /\ CallIsSound([r EXCEPT !.at = st])
      BY <1>1, <1>b DEF LimiterHolds
    <3>. QED BY <3>1, <1>b, CallReplaced
  <2>2. call'[c].at = st /\ call'[c].profile = r.profile /\ call'[c].slot = FALSE
    BY <2>1, <1>1 DEF CallsAreSound, CallIsSound, CallState
  <2>3. \A d \in Call : /\ call'[d].slot = call[d].slot
                        /\ call[d].slot => call'[d].profile = call[d].profile
    BY <2>1, <2>2, <1>a
  <2>4. SlotsMatch(call', active)
    <3>1. SlotsMatch(call, active)
      BY DEF LimiterHolds
    <3>. QED BY <2>3, <3>1, SlotsStay
  <2>. QED BY <2>1, <2>2, <2>4
<1>3. CASE /\ config.enabled /\ pass
           /\ Becomes(c, [r EXCEPT !.at = "passed"])
           /\ excused' = (excused \/ At("passed") # {})
           /\ UNCHANGED <<queue, drainTimer>>
  <2>1. /\ CallsAreSound(call') /\ call'[c].at = "passed" /\ call'[c].profile = r.profile
        /\ \A d \in Call : d # c => call'[d] = call[d]
        /\ SlotsMatch(call', active)
    BY <1>3, <1>b
  <2>2. QueueMatches(call', queue)
    BY <2>1, <1>a DEF LimiterHolds, QueueMatches
  <2>3. NoneIdle(call', active, config)
    BY <2>1 DEF LimiterHolds, NoneIdle
  <2>4. ~excused' => WithinLimits(active, config) /\ PassedFits(call', active, config)
    <3> SUFFICES ASSUME ~excused'
                 PROVE  WithinLimits(active, config) /\ PassedFits(call', active, config)
      OBVIOUS
    <3>1. ~excused /\ \A d \in Call : call[d].at # "passed"
      BY <1>3 DEF At
    <3>2. \A s \in ScopesOf(r.profile) : Under(active[s], config.concurrency[s])
      BY <1>3 DEF canProceed
    <3>3. \A d \in Call : call'[d].at = "passed" => d = c
      BY <3>1, <2>1
    <3>4. PassedFits(call', active, config)
      BY <3>2, <3>3, <2>1 DEF PassedFits
    <3>. QED BY <3>1, <3>4 DEF LimiterHolds
  <2>5. excused' \in BOOLEAN /\ (queue # <<>> => drainTimer)
    BY <1>3 DEF LimiterHolds
  <2>6. LimiterHolds'
    BY <2>1, <2>2, <2>3, <2>4, <2>5, <1>3, <1>a DEF LimiterHolds
  <2>. QED BY <2>6, <1>3
<1>4. CASE /\ config.enabled /\ ~pass
           /\ Becomes(c, [r EXCEPT !.at = "queued"])
           /\ queue' = Append(queue, c) /\ drainTimer' = TRUE
           /\ UNCHANGED excused
  <2>1. /\ CallsAreSound(call') /\ call'[c].at = "queued" /\ call'[c].profile = r.profile
        /\ \A d \in Call : d # c => call'[d] = call[d]
        /\ SlotsMatch(call', active)
    BY <1>4, <1>b
  <2>2. QueueMatches(call', queue')
    <3> DEFINE n == Len(queue)
    <3>1. queue \in Seq(Call) /\ n \in Nat
      BY LenProperties DEF LimiterHolds, QueueMatches
    <3>2. /\ queue' \in Seq(Call) /\ Len(queue') = n + 1 /\ queue'[n + 1] = c
          /\ \A i \in 1..n : queue'[i] = queue[i]
      BY <3>1, <1>4
    <3>3. /\ \A i, j \in 1..n : queue[i] = queue[j] => i = j
          /\ \A d \in Call : call[d].at = "queued" <=> \E i \in 1..n : queue[i] = d
      BY DEF LimiterHolds, QueueMatches
    <3> HIDE DEF n
    <3>4. /\ n + 1 \in 1..(n + 1) /\ \A i \in 1..n : i \in 1..(n + 1)
          /\ \A i \in 1..(n + 1) : i \in 1..n \/ i = n + 1
      BY <3>1
    <3>5. \A i \in 1..n : queue[i] # c
      BY <3>3, <1>a
    <3>6. \A i, j \in 1..(n + 1) : queue'[i] = queue'[j] => i = j
      BY <3>2, <3>3, <3>4, <3>5
    <3>7. \A d \in Call : call'[d].at = "queued" <=> \E i \in 1..(n + 1) : queue'[i] = d
      <4> SUFFICES ASSUME NEW d \in Call
                   PROVE  call'[d].at = "queued" <=> \E i \in 1..(n + 1) : queue'[i] = d
        OBVIOUS
      <4>1. CASE d = c
        BY <4>1, <3>2, <3>4, <2>1
      <4>2. CASE d # c
        BY <4>2, <3>2, <3>3, <3>4, <2>1
      <4>. QED BY <4>1, <4>2
    <3>. QED BY <3>2, <3>6, <3>7 DEF QueueMatches
  <2>3. NoneIdle(call', active, config)
    <3>1. HeldBack(r.profile, active, config)
      BY <1>4, <1>a, RefusedIsHeldBack
    <3>. QED BY <3>1, <2>1 DEF LimiterHolds, NoneIdle
  <2>4. ~excused => WithinLimits(active, config) /\ PassedFits(call', active, config)
    <3>1. \A d \in Call : /\ call'[d].at = "passed" => call'[d] = call[d]
                          /\ call[d].at = "passed" => call'[d] = call[d]
      BY <2>1, <1>a
    <3>. QED BY <3>1 DEF LimiterHolds, PassedFits
  <2>5. LimiterHolds'
    BY <2>1, <2>2, <2>3, <2>4, <1>4, <1>a DEF LimiterHolds
  <2>. QED BY <2>5, <1>4
<1>. QED BY <1>2, <1>3, <1>4 DEF Admit, Becomes

\* A call records its slot.
LEMMA RecordSlotKeeps ==
  ASSUME LimiterHolds, NEW c \in Call, RecordSlot(c)
  PROVE  LimiterHolds' /\ \A g \in Generation, k \in Key : Users(call', g, k) = Users(call, g, k)
<1> DEFINE r == [call[c] EXCEPT !.at = "sending", !.slot = TRUE]
           p == call[c].profile
<1>a. CallsAreSound(call) /\ SlotsMatch(call, active) /\ config \in Config
  BY DEF LimiterHolds
<1>b. CallIsSound(call[c]) /\ call[c] \in CallState /\ call[c].at = "passed" /\ p \in Profile
  BY <1>a DEF CallsAreSound, CallIsSound, CallState, RecordSlot
<1>c. /\ r \in CallState /\ r.at = "sending" /\ r.slot
      /\ r.key = call[c].key /\ r.profile = p /\ r.gen = call[c].gen
  BY <1>b DEF CallState, Stage
<1>d. Becomes(c, r)
  BY <1>a DEF RecordSlot, Becomes, CallsAreSound
<1>e. /\ active' = Counted(active, p) /\ recent' = Stamped(recent, p)
      /\ UNCHANGED <<config, queue, drainTimer, excused>>
  BY DEF RecordSlot
<1>f. active \in [Scope -> Nat] /\ ~call[c].slot
  BY <1>b, <1>a DEF CallIsSound, SlotsMatch
<1> HIDE DEF r, p
<1>g. CallIsSound(r)
  BY <1>b, <1>c DEF CallIsSound, Underway, p
<1>1. /\ CallsAreSound(call') /\ call'[c] = r
      /\ \A d \in Call : d # c => call'[d] = call[d]
  BY <1>a, <1>d, <1>g, CallReplaced
<1>2. SlotsMatch(call', active')
  BY <1>1, <1>a, <1>b, <1>c, <1>e, <1>f, SlotTaken
<1>3. recent' \in [Scope -> Nat]
  BY <1>e DEF LimiterHolds, Stamped
<1>4. QueueMatches(call', queue)
  BY <1>1, <1>b, <1>c DEF LimiterHolds, QueueMatches
<1>5. NoneIdle(call', active', config)
  <2> SUFFICES ASSUME NEW d \in Call, call'[d].at = "queued"
               PROVE  HeldBack(call'[d].profile, active', config)
    BY DEF NoneIdle
  <2>1. call'[d] = call[d] /\ call[d].profile \in Profile
    BY <1>1, <1>c, <1>a DEF CallsAreSound, CallIsSound, CallState
  <2>2. HeldBack(call[d].profile, active, config)
    BY <2>1 DEF LimiterHolds, NoneIdle
  <2>. QED BY <2>1, <2>2, <1>a, <1>b, <1>e, <1>f, StillHeldBack
<1>6. ~excused => WithinLimits(active', config) /\ PassedFits(call', active', config)
  <2> SUFFICES ASSUME ~excused
               PROVE  WithinLimits(active', config) /\ PassedFits(call', active', config)
    OBVIOUS
  <2>1. WithinLimits(active, config) /\ PassedFits(call, active, config)
    BY DEF LimiterHolds
  <2>2. \A s \in ScopesOf(p) : Under(active[s], config.concurrency[s])
    BY <2>1, <1>b DEF PassedFits, p
  <2>3. WithinLimits(active', config)
    BY <2>1, <2>2, <1>a, <1>b, <1>e, <1>f, GrantedIsWithin
  <2>4. \A d \in Call : call[d].at = "passed" => d = c
    BY <2>1, <1>b DEF PassedFits
  <2>5. \A d \in Call : call'[d].at # "passed"
    BY <2>4, <1>1, <1>c
  <2>. QED BY <2>3, <2>5 DEF PassedFits
<1>7. LimiterHolds'
  BY <1>1, <1>2, <1>3, <1>4, <1>5, <1>6, <1>e DEF LimiterHolds
<1>8. \A d \in Call : /\ call'[d].key = call[d].key /\ call'[d].gen = call[d].gen
                      /\ Underway(call'[d]) <=> Underway(call[d])
  BY <1>1, <1>b, <1>c DEF Underway
<1>9. \A g \in Generation, k \in Key : Users(call', g, k) = Users(call, g, k)
  BY <1>8 DEF Users
<1>. QED BY <1>7, <1>9

\* The queue is drained, with counters no higher than those the limits held for:
\* if slots were recorded while a call was past the check, that is an excuse.
LEMMA DrainedFits ==
  ASSUME LimiterHolds, NEW act, NEW calls, Fit(calls, config, act),
         \A c \in Call : calls[c].at = "passed" <=> call[c].at = "passed",
         \A c \in Call : calls[c].profile = call[c].profile,
         \A s \in Scope : act[s] <= active[s],
         Drain(config, act, calls), UNCHANGED config,
         excused' = (excused \/ Meets)
  PROVE  LimiterHolds'
<1>a. /\ config \in Config /\ drainTimer \in BOOLEAN /\ excused \in BOOLEAN
      /\ queue # <<>> => drainTimer
      /\ active \in [Scope -> Nat] /\ act \in [Scope -> Nat]
  BY DEF LimiterHolds, SlotsMatch, Fit
<1>b. config.concurrency \in [Scope -> Nat] /\ \A p \in Profile : ScopesOf(p) \subseteq Scope
  BY <1>a, Constants
<1>1. /\ CallsAreSound(call') /\ SlotsMatch(call', active')
      /\ QueueMatches(call', queue') /\ recent' \in [Scope -> Nat]
      /\ drainTimer' \in BOOLEAN /\ (queue' # <<>> => drainTimer')
      /\ NoneIdle(call', active', config)
      /\ WithinLimits(act, config) => WithinLimits(active', config)
      /\ queue' = queue => active' = act
  BY <1>a, DrainKeeps
<1>2. \A c \in Call : /\ call'[c].profile = calls[c].profile
                      /\ call'[c].at = "passed" <=> calls[c].at = "passed"
  BY <1>a, DrainKeeps
<1>3. ASSUME ~excused' PROVE WithinLimits(active', config) /\ PassedFits(call', active', config)
  <2>1. /\ ~excused /\ (queue' = queue \/ \A c \in Call : call[c].at # "passed")
        /\ WithinLimits(active, config) /\ PassedFits(call, active, config)
    BY <1>3 DEF Meets, At, LimiterHolds
  <2>2. WithinLimits(act, config)
    BY <2>1, <1>a, <1>b DEF WithinLimits
  <2>3. PassedFits(call', active', config)
    <3> SUFFICES ASSUME NEW c \in Call, call'[c].at = "passed"
                 PROVE  /\ \A d \in Call : call'[d].at = "passed" => d = c
                        /\ \A s \in ScopesOf(call'[c].profile) :
                             Under(active'[s], config.concurrency[s])
      BY DEF PassedFits
    <3>1. call[c].at = "passed" /\ call'[c].profile = call[c].profile
      BY <1>2
    <3>2. active' = act
      BY <2>1, <3>1, <1>1
    <3>3. \A d \in Call : call'[d].at = "passed" => d = c
      BY <1>2, <2>1, <3>1 DEF PassedFits
    <3>4. call[c].profile \in Profile
      BY DEF LimiterHolds, CallsAreSound, CallIsSound, CallState
    <3>5. ASSUME NEW s \in ScopesOf(call[c].profile)
          PROVE  Under(act[s], config.concurrency[s])
      <4>1. Under(active[s], config.concurrency[s])
        BY <2>1, <3>1 DEF PassedFits
      <4>2. s \in Scope
        BY <3>4, <1>b
      <4>3. act[s] \in Nat /\ active[s] \in Nat /\ act[s] <= active[s] /\ config.concurrency[s] \in Nat
        BY <4>2, <1>a, <1>b
      <4>. QED BY <4>1, <4>3 DEF Under
    <3>. QED BY <3>1, <3>2, <3>3, <3>5
  <2>. QED BY <1>1, <2>2, <2>3
<1>4. excused' \in BOOLEAN
  BY <1>a DEF Meets
<1>. QED BY <1>1, <1>3, <1>4, <1>a DEF LimiterHolds

\* The timer fires.
LEMMA TimerKeeps ==
  ASSUME LimiterHolds, TimerFires
  PROVE  LimiterHolds' /\ \A g \in Generation, k \in Key : Users(call', g, k) = Users(call, g, k)
<1>1. Fit(call, config, active)
  BY DEF Fit, LimiterHolds
<1>2. active \in [Scope -> Nat] /\ drainTimer \in BOOLEAN /\ (queue # <<>> => drainTimer)
  BY DEF LimiterHolds, SlotsMatch
<1>3. /\ Drain(config, active, call) /\ UNCHANGED config
      /\ excused' = (excused \/ Meets)
  BY DEF TimerFires
<1>4. \A s \in Scope : active[s] <= active[s]
  BY <1>2
<1>5. LimiterHolds'
  BY <1>1, <1>3, <1>4, DrainedFits
<1>6. \A c \in Call : /\ call'[c].key = call[c].key /\ call'[c].gen = call[c].gen
                      /\ Underway(call'[c]) <=> Underway(call[c])
  BY <1>1, <1>2, <1>3, DrainKeeps
<1>. QED BY <1>5, <1>6 DEF Users

\* The configuration is replaced.
LEMMA UpdateKeeps ==
  ASSUME LimiterHolds, updateConfig
  PROVE  LimiterHolds' /\ \A g \in Generation, k \in Key : Users(call', g, k) = Users(call, g, k)
<1>1. PICK cfg \in Config : config' = cfg /\ Drain(cfg, active, call) /\ excused' = TRUE
  BY DEF updateConfig
<1>2. Fit(call, cfg, active)
  BY DEF Fit, LimiterHolds
<1>3. drainTimer \in BOOLEAN /\ (queue # <<>> => drainTimer)
  BY DEF LimiterHolds
<1>4. /\ CallsAreSound(call') /\ SlotsMatch(call', active')
      /\ QueueMatches(call', queue') /\ recent' \in [Scope -> Nat]
      /\ drainTimer' \in BOOLEAN /\ (queue' # <<>> => drainTimer')
      /\ NoneIdle(call', active', cfg)
  BY <1>1, <1>2, <1>3, DrainKeeps
<1>5. LimiterHolds'
  BY <1>1, <1>4 DEF LimiterHolds
<1>6. \A c \in Call : /\ call'[c].key = call[c].key /\ call'[c].gen = call[c].gen
                      /\ Underway(call'[c]) <=> Underway(call[c])
  BY <1>1, <1>2, <1>3, DrainKeeps
<1>. QED BY <1>5, <1>6 DEF Users

\* A minute passes.
LEMMA MinuteKeeps ==
  ASSUME LimiterHolds, MinutePasses
  PROVE  LimiterHolds'
<1>1. PICK s \in Scope : recent[s] > 0 /\ recent' = [recent EXCEPT ![s] = @ - 1]
  BY DEF MinutePasses
<1>2. UNCHANGED <<call, config, active, queue, drainTimer, excused>>
  BY DEF MinutePasses
<1>3. recent' \in [Scope -> Nat]
  BY <1>1 DEF LimiterHolds
<1>. QED BY <1>2, <1>3 DEF LimiterHolds

\* A request ends.
LEMMA AnswerKeeps ==
  ASSUME LimiterHolds, NEW c \in Call, NEW o \in Outcome, Answer(c, o)
  PROVE  /\ LimiterHolds'
         /\ \A g \in Generation, k \in Key : Users(call', g, k) = Users(call, g, k)
         /\ \A d \in Call : call'[d].tries = call[d].tries
<1> DEFINE r == call[c]
           e == [r EXCEPT !.at = "settled", !.slot = FALSE, !.outcome = o]
           calls == [call EXCEPT ![c] = e]
           p == r.profile
<1>a. /\ CallsAreSound(call) /\ SlotsMatch(call, active) /\ config \in Config
      /\ drainTimer \in BOOLEAN /\ (queue # <<>> => drainTimer)
      /\ recent \in [Scope -> Nat] /\ QueueMatches(call, queue)
  BY DEF LimiterHolds
<1>b. CallIsSound(r) /\ r \in CallState /\ p \in Profile /\ r.at = "sending"
  BY <1>a DEF CallsAreSound, CallIsSound, CallState, Answer
<1>c. /\ e \in CallState /\ e.at = "settled" /\ e.slot = FALSE /\ e.outcome = o
      /\ e.key = r.key /\ e.gen = r.gen /\ e.profile = p /\ e.tries = r.tries
  BY <1>b DEF CallState, Stage
<1>d. /\ DOMAIN calls = Call /\ calls = [d \in Call |-> calls[d]]
      /\ calls[c] = e /\ \A d \in Call : d # c => calls[d] = call[d]
  BY <1>a DEF CallsAreSound
<1>e. \/ /\ r.slot /\ Drain(config, Uncounted(active, p), calls)
         /\ excused' = (excused \/ Meets)
      \/ /\ ~r.slot /\ Becomes(c, e)
         /\ UNCHANGED <<active, recent, queue, drainTimer, excused>>
  BY DEF Answer, Becomes
<1>f. UNCHANGED config
  BY DEF Answer
<1> HIDE DEF e, calls
<1>g. CallIsSound(e)
  BY <1>b, <1>c DEF CallIsSound, Underway
<1>h. /\ CallsAreSound(calls)
      /\ \A d \in Call : /\ calls[d].at = "passed" <=> call[d].at = "passed"
                         /\ calls[d].at = "queued" <=> call[d].at = "queued"
                         /\ calls[d].at = "queued" => calls[d] = call[d]
                         /\ calls[d].profile = call[d].profile
                         /\ calls[d].tries = call[d].tries
                         /\ calls[d].key = call[d].key /\ calls[d].gen = call[d].gen
                         /\ Underway(calls[d]) <=> Underway(call[d])
  BY <1>a, <1>b, <1>c, <1>d, <1>g DEF CallsAreSound, Underway
<1>1. CASE /\ r.slot /\ Drain(config, Uncounted(active, p), calls)
           /\ excused' = (excused \/ Meets)
  <2>1. ~calls[c].slot
    BY <1>c, <1>d
  <2>2. /\ SlotsMatch(calls, Uncounted(active, p))
        /\ \A s \in Scope : Uncounted(active, p)[s] <= active[s]
    BY <1>1, <1>a, <1>b, <1>d, <2>1, SlotReturned
  <2>3. QueueMatches(calls, queue)
    BY <1>a, <1>h DEF QueueMatches
  <2>4. Fit(calls, config, Uncounted(active, p))
    BY <1>a, <1>h, <2>2, <2>3 DEF Fit
  <2>5. LimiterHolds'
    BY <1>1, <1>f, <1>h, <2>2, <2>4, DrainedFits
  <2>6. \A d \in Call : /\ call'[d].key = call[d].key /\ call'[d].gen = call[d].gen
                        /\ call'[d].tries = call[d].tries
                        /\ Underway(call'[d]) <=> Underway(call[d])
    <3>1. \A d \in Call : /\ call'[d].key = calls[d].key /\ call'[d].gen = calls[d].gen
                          /\ call'[d].tries = calls[d].tries
                          /\ Underway(call'[d]) <=> Underway(calls[d])
      BY <1>1, <1>a, <2>4, DrainKeeps
    <3>. QED BY <3>1, <1>h
  <2>. QED BY <2>5, <2>6 DEF Users
<1>2. CASE /\ ~r.slot /\ Becomes(c, e)
           /\ UNCHANGED <<active, recent, queue, drainTimer, excused>>
  <2>1. /\ call'[c] = e /\ \A d \in Call : d # c => call'[d] = call[d]
    BY <1>2, <1>a, <1>g, CallReplaced
  <2>2. LimiterHolds'
    BY <1>2, <1>b, <1>c, <1>f, <1>g, Moved DEF limiter
  <2>3. \A d \in Call : /\ call'[d].key = call[d].key /\ call'[d].gen = call[d].gen
                        /\ call'[d].tries = call[d].tries
                        /\ Underway(call'[d]) <=> Underway(call[d])
    BY <2>1, <1>b, <1>c DEF Underway
  <2>. QED BY <2>2, <2>3 DEF Users
<1>. QED BY <1>e, <1>1, <1>2

-----------------------------------------------------------------------------
(* The steps of a call that take or return a key                            *)

\* Before or after its time with a profile a call has nothing.
Idle(r) ==
  /\ CallIsSound(r) /\ ~Underway(r) /\ ~r.slot /\ r.at \notin {"passed", "queued"}
  /\ r.key = NoKey /\ r.tries = 0

\* A call that goes on to the next profile of the chain, or is over, has nothing.
LEMMA NextIsIdle ==
  ASSUME NEW r, r.profile \in Profile
  PROVE  Idle(NextProfile(r)) /\ Idle(Done)
<1>1. New \in CallState
  BY Constants DEF New, CallState, Stage
<1>2. /\ Done \in CallState /\ Done.at = "done" /\ ~Done.slot
      /\ Done.key = NoKey /\ Done.tries = 0
  BY <1>1 DEF Done, New, CallState, Stage
<1>3. Idle(Done)
  BY <1>2 DEF Idle, CallIsSound, Underway
<1>4. ASSUME r.profile < Len(KeysOf)
      PROVE  Idle([New EXCEPT !.profile = r.profile + 1])
  <2> DEFINE n == [New EXCEPT !.profile = r.profile + 1]
  <2>1. r.profile + 1 \in Profile
    BY <1>4, Constants
  <2>2. /\ n \in CallState /\ n.at = "choosing" /\ n.slot = FALSE
        /\ n.key = NoKey /\ n.tries = 0
    BY <1>1, <2>1 DEF New, CallState, Stage
  <2> HIDE DEF n
  <2>3. Idle(n)
    BY <2>2 DEF Idle, CallIsSound, Underway
  <2>. QED BY <2>3 DEF n
<1>. QED BY <1>3, <1>4 DEF NextProfile

\* A call has left its profile, with its key returned: mem counts the keys of
\* the calls free, in which it has none.
HasReturned(c, free, mem) ==
  /\ KeysMatch(free, mem)
  /\ ~Underway(free[c]) \/ free[c].key \notin Key
  /\ \A d \in Call : d # c => free[d] = call[d]
  /\ ~call[c].slot /\ call[c].at \notin {"passed", "queued"}

\* A call that has returned its key leaves the profile.
LEMMA LeavesProfile ==
  ASSUME LimiterHolds, NEW c \in Call, NEW free, NEW mem, HasReturned(c, free, mem),
         NEW r, Idle(r), Becomes(c, r), UNCHANGED <<limiter, excused>>,
         member' = Swept(mem, generation)
  PROVE  /\ LimiterHolds' /\ KeysMatch(call', member')
         /\ call'[c] = r /\ \A d \in Call : d # c => call'[d] = call[d]
<1>1. LimiterHolds'
  BY Moved DEF Idle, HasReturned
<1>2. CallsAreSound(call)
  BY DEF LimiterHolds
<1>3. call'[c] = r /\ \A d \in Call : d # c => call'[d] = call[d]
  BY <1>2, CallReplaced DEF Idle
<1>4. \A d \in Call : \/ d # c /\ call'[d] = free[d]
                      \/ d = c /\ ~Underway(call'[d])
                         /\ (~Underway(free[d]) \/ free[d].key \notin Key)
  BY <1>3 DEF HasReturned, Idle
<1>5. KeysMatch(call', mem)
  BY <1>4, KeysStay DEF HasReturned
<1>6. KeysMatch(call', Swept(mem, generation))
  BY <1>5, KeysSwept
<1>. QED BY <1>1, <1>3, <1>6

\* A call takes a key that can be had, or leaves a profile that has none.
LEMMA TakeKeyKeeps ==
  ASSUME LimiterHolds, NEW c \in Call, NEW free, NEW mem, HasReturned(c, free, mem),
         NEW r \in CallState, ~r.slot, Pooled(r.profile),
         TakeKey(c, r, mem), UNCHANGED <<config, active, recent>>
  PROVE  /\ LimiterHolds' /\ KeysMatch(call', member')
         /\ \A d \in Call : d # c => call'[d] = call[d]
         /\ \/ call'[c].tries = 0 /\ call'[c].key = NoKey
            \/ call'[c].tries = r.tries /\ Usable(mem[r.gen][call'[c].key])
<1> DEFINE avail == Available(mem, r.gen, r.profile)
<1>a. r.profile \in Profile /\ r.gen \in Generation /\ CallsAreSound(call)
  BY DEF CallState, LimiterHolds
<1>1. CASE /\ avail = {} /\ member' = Swept(mem, generation)
           /\ Becomes(c, NextProfile(r))
           /\ UNCHANGED <<queue, drainTimer, excused>>
  <2>1. Idle(NextProfile(r))
    BY <1>a, NextIsIdle
  <2>2. UNCHANGED <<limiter, excused>>
    BY <1>1 DEF limiter
  <2>. QED BY <1>1, <2>1, <2>2, LeavesProfile DEF Idle
<1>2. ASSUME NEW k \in avail,
             member' = Swept([mem EXCEPT ![r.gen][k].pending = @ + 1], generation),
             Admit(c, [r EXCEPT !.key = k, !.outcome = "none"])
      PROVE  /\ LimiterHolds' /\ KeysMatch(call', member')
             /\ \A d \in Call : d # c => call'[d] = call[d]
             /\ call'[c].tries = r.tries /\ Usable(mem[r.gen][call'[c].key])
  <2> DEFINE e == [r EXCEPT !.key = k, !.outcome = "none"]
             more == [mem EXCEPT ![r.gen][k].pending = @ + 1]
  <2>1. k \in KeysOf[r.profile] /\ k \in Key /\ Usable(mem[r.gen][k])
    BY <1>a, Constants DEF Available
  <2>2. /\ e \in CallState /\ e.key = k /\ e.slot = r.slot /\ e.profile = r.profile
        /\ e.gen = r.gen /\ e.tries = r.tries
    BY <2>1 DEF CallState
  <2>3. Admit(c, e) /\ member' = Swept(more, generation)
    BY <1>2
  <2> HIDE DEF e
  <2>4. ComesWith(e)
    BY <2>1, <2>2 DEF ComesWith
  <2>5. ~call[c].slot /\ call[c].at \notin {"passed", "queued"}
    BY DEF HasReturned
  <2>6. PICK st \in {"sending", "passed", "queued"} : Becomes(c, [e EXCEPT !.at = st])
    BY <2>3, <2>4, <2>5, Admitted
  <2>7. LimiterHolds'
    BY <2>3, <2>4, <2>5, Admitted
  <2> DEFINE x == [e EXCEPT !.at = st]
  <2>8. /\ x.at = st /\ x.key = k /\ x.gen = r.gen /\ x.tries = r.tries
        /\ x.profile = r.profile /\ x.slot = FALSE /\ x \in CallState
    BY <2>2 DEF CallState, Stage
  <2>9. Becomes(c, x)
    BY <2>6
  <2> HIDE DEF x
  <2>10. CallIsSound(x)
    BY <2>1, <2>8 DEF CallIsSound, Underway
  <2>11. call'[c] = x /\ \A d \in Call : d # c => call'[d] = call[d]
    BY <1>a, <2>9, <2>10, CallReplaced
  <2>12. \A d \in Call : d # c => call'[d] = free[d]
    BY <2>11 DEF HasReturned
  <2>13. Underway(call'[c]) /\ call'[c].key = k /\ call'[c].gen = r.gen
    BY <2>8, <2>11 DEF Underway
  <2>14. KeysMatch(call', more)
    <3>1. KeysMatch(free, mem) /\ (~Underway(free[c]) \/ free[c].key \notin Key)
      BY DEF HasReturned
    <3>. QED BY <3>1, <1>a, <2>1, <2>12, <2>13, KeyTaken
  <2> HIDE DEF more
  <2>15. KeysMatch(call', member')
    BY <2>14, <2>3, KeysSwept
  <2>. QED BY <2>1, <2>7, <2>8, <2>11, <2>15
<1>. QED BY <1>1, <1>2 DEF TakeKey, Becomes

\* A call comes to a profile.
LEMMA ChooseKeeps ==
  ASSUME IInv, NEW c \in Call, Choose(c)
  PROVE  /\ IInv'
         /\ \A d \in Call : d # c => call'[d] = call[d]
         /\ call'[c].tries \in {call[c].tries, 0}
<1> DEFINE r == call[c]
           e == [r EXCEPT !.gen = generation]
<1>a. /\ LimiterHolds /\ KeysMatch(call, member) /\ generation \in Generation
      /\ CallsAreSound(call) /\ UNCHANGED <<generation, config, active, recent>>
  BY DEF IInv, LimiterHolds, Choose
<1>b. /\ CallIsSound(r) /\ r \in CallState /\ r.at = "choosing" /\ r.profile \in Profile
      /\ r.slot = FALSE /\ ~Underway(r)
  BY <1>a DEF CallsAreSound, CallIsSound, CallState, Choose, Underway
<1>1. CASE Pooled(r.profile) /\ TakeKey(c, e, member)
  <2>1. /\ e \in CallState /\ e.slot = FALSE /\ e.profile = r.profile
        /\ e.gen = generation /\ e.tries = r.tries
    BY <1>a, <1>b DEF CallState
  <2> HIDE DEF e
  <2>2. HasReturned(c, call, member)
    BY <1>a, <1>b DEF HasReturned
  <2>3. /\ LimiterHolds' /\ KeysMatch(call', member')
        /\ \A d \in Call : d # c => call'[d] = call[d]
        /\ \/ call'[c].tries = 0 /\ call'[c].key = NoKey
           \/ call'[c].tries = e.tries /\ Usable(member[e.gen][call'[c].key])
    BY <1>1, <1>a, <2>1, <2>2, TakeKeyKeeps
  <2>. QED BY <2>1, <2>3, <1>a DEF IInv
<1>2. CASE ~Pooled(r.profile) /\ UNCHANGED member /\ Admit(c, r)
  <2>1. ComesWith(r) /\ ~r.slot /\ r.at \notin {"passed", "queued"}
    BY <1>2, <1>b DEF ComesWith, CallIsSound
  <2>2. LimiterHolds'
    BY <1>2, <1>a, <2>1, Admitted
  <2>3. PICK st \in {"sending", "passed", "queued"} : Becomes(c, [r EXCEPT !.at = st])
    BY <1>2, <1>a, <2>1, Admitted
  <2> DEFINE x == [r EXCEPT !.at = st]
  <2>4. /\ x \in CallState /\ x.key = r.key /\ x.tries = r.tries /\ x.at = st
        /\ x.profile = r.profile /\ x.slot = FALSE
    BY <1>b DEF CallState, Stage
  <2>5. Becomes(c, x)
    BY <2>3
  <2> HIDE DEF x
  <2>6. r.key = NoKey /\ NoKey \notin Key
    BY <1>b, Constants DEF CallIsSound
  <2>7. CallIsSound(x)
    BY <1>2, <2>4, <2>6 DEF CallIsSound
  <2>8. call'[c] = x /\ \A d \in Call : d # c => call'[d] = call[d]
    BY <1>a, <2>5, <2>7, CallReplaced
  <2>9. \A d \in Call : \/ call'[d] = call[d]
                        \/ call'[d].key \notin Key /\ call[d].key \notin Key
    BY <2>4, <2>6, <2>8
  <2>10. KeysMatch(call', member)
    BY <1>a, <2>9, KeysStay
  <2>. QED BY <1>2, <1>a, <2>2, <2>4, <2>8, <2>10 DEF IInv
<1>. QED BY <1>1, <1>2 DEF Choose

\* A call that has its answer goes on: it is over, comes to the next profile, or
\* has another key, and that only after a quota or authentication error, which
\* has left its key unusable.
LEMMA SettleKeeps ==
  ASSUME IInv, NEW c \in Call, Settle(c)
  PROVE  /\ IInv'
         /\ \A d \in Call : d # c => call'[d] = call[d]
         /\ \/ call'[c].tries = 0
            \/ call'[c].key # call[c].key
<1> DEFINE r == call[c]
           pooled == Pooled(r.profile)
           mem == IF pooled
                  THEN [member EXCEPT ![r.gen][r.key] = Returned(@, r.outcome)]
                  ELSE member
           free == [call EXCEPT ![c] = Done]
           e == [r EXCEPT !.tries = @ + 1]
<1>a. /\ LimiterHolds /\ KeysMatch(call, member) /\ generation \in Generation
      /\ CallsAreSound(call) /\ UNCHANGED <<generation, config, active, recent>>
  BY DEF IInv, LimiterHolds, Settle
<1>b. /\ CallIsSound(r) /\ r \in CallState /\ r.at = "settled" /\ r.profile \in Profile
      /\ r.slot = FALSE /\ Underway(r) /\ r.outcome \in Outcome /\ r.gen \in Generation
  BY <1>a DEF CallsAreSound, CallIsSound, CallState, Settle, Underway
<1>c. pooled => r.key \in KeysOf[r.profile] /\ r.key \in Key
  BY <1>b, Constants DEF CallIsSound
<1>d. ~pooled => r.key \notin Key
  BY <1>b, Constants DEF CallIsSound
<1>e. free[c] = Done /\ \A d \in Call : d # c => free[d] = call[d]
  BY <1>a DEF CallsAreSound
<1>f. Idle(Done) /\ Idle(NextProfile(r))
  BY <1>b, NextIsIdle
<1>g. ~Underway(free[c])
  BY <1>e, <1>f DEF Idle
<1> HIDE DEF free
<1>h. HasReturned(c, free, mem)
  <2>1. CASE pooled
    <3>1. KeysMatch(free, [member EXCEPT ![r.gen][r.key] = Returned(@, r.outcome)])
      BY <2>1, <1>a, <1>b, <1>c, <1>e, <1>g, KeyReturned
    <3>. QED BY <2>1, <3>1, <1>b, <1>e, <1>g DEF HasReturned
  <2>2. CASE ~pooled
    <3>1. \A d \in Call : \/ free[d] = call[d]
                          \/ ~Underway(free[d]) /\ call[d].key \notin Key
      BY <2>2, <1>d, <1>e, <1>g
    <3>2. KeysMatch(free, member)
      BY <3>1, <1>a, KeysStay
    <3>. QED BY <2>2, <3>2, <1>b, <1>e, <1>g DEF HasReturned
  <2>. QED BY <2>1, <2>2
<1>1. ASSUME NEW x, Idle(x), Becomes(c, x), member' = Swept(mem, generation),
             UNCHANGED <<queue, drainTimer, excused>>
      PROVE  IInv' /\ call'[c].tries = 0 /\ \A d \in Call : d # c => call'[d] = call[d]
  <2>1. UNCHANGED <<limiter, excused>>
    BY <1>1, <1>a DEF limiter
  <2> HIDE DEF mem
  <2>2. /\ LimiterHolds' /\ KeysMatch(call', member')
        /\ call'[c] = x /\ \A d \in Call : d # c => call'[d] = call[d]
    BY <1>1, <1>a, <1>h, <2>1, LeavesProfile
  <2>. QED BY <2>2, <1>1, <1>a DEF IInv, Idle
<1>2. CASE Becomes(c, Done) /\ member' = Swept(mem, generation)
           /\ UNCHANGED <<queue, drainTimer, excused>>
  BY <1>1, <1>2, <1>f
<1>3. CASE Becomes(c, NextProfile(r)) /\ member' = Swept(mem, generation)
           /\ UNCHANGED <<queue, drainTimer, excused>>
  BY <1>1, <1>3, <1>f
<1>4. CASE pooled /\ r.outcome \in {"quota", "auth"} /\ TakeKey(c, e, mem)
  <2>1. /\ e \in CallState /\ e.slot = FALSE /\ e.profile = r.profile /\ e.gen = r.gen
    BY <1>b DEF CallState
  <2> HIDE DEF e
  <2>2. ~Usable(mem[r.gen][r.key])
    <3>1. member[r.gen][r.key] \in KeyState
      BY <1>4, <1>a, <1>b, <1>c DEF KeysMatch, Pools
    <3>2. ~Usable(Returned(member[r.gen][r.key], r.outcome))
      BY <3>1, <1>4, <1>b, ReturnedIs
    <3>3. mem[r.gen][r.key] = Returned(member[r.gen][r.key], r.outcome)
      BY <1>4, <1>a, <1>b, <1>c DEF KeysMatch, Pools
    <3>. QED BY <3>2, <3>3
  <2> HIDE DEF mem
  <2>3. /\ LimiterHolds' /\ KeysMatch(call', member')
        /\ \A d \in Call : d # c => call'[d] = call[d]
        /\ \/ call'[c].tries = 0 /\ call'[c].key = NoKey
           \/ call'[c].tries = e.tries /\ Usable(mem[e.gen][call'[c].key])
    BY <1>4, <1>a, <1>h, <2>1, TakeKeyKeeps
  <2>. QED BY <2>1, <2>2, <2>3, <1>a DEF IInv
<1>. QED BY <1>2, <1>3, <1>4 DEF Settle, Becomes

-----------------------------------------------------------------------------
(* The invariant                                                            *)

\* At first no call has anything, and nothing is counted.
LEMMA InitHolds == Init => IInv
<1> SUFFICES ASSUME Init PROVE IInv
  OBVIOUS
<1>1. New \in CallState /\ New.at = "choosing" /\ New.slot = FALSE /\ New.key = NoKey
  BY Constants DEF New, CallState, Stage
<1>2. \A c \in Call : call[c] = New
  BY DEF Init
<1>3. CallsAreSound(call)
  BY <1>1, <1>2 DEF CallsAreSound, CallIsSound, Underway, Init
<1>4. Cardinality({}) = 0
  BY FS_EmptySet
<1>5. SlotsMatch(call, active)
  <2>1. \A s \in Scope : Slots(call, s) = {}
    BY <1>1, <1>2 DEF Slots
  <2>. QED BY <2>1, <1>4 DEF SlotsMatch, Init
<1>6. KeysMatch(call, member)
  <2>1. \A g, k : Users(call, g, k) = {}
    BY <1>1, <1>2 DEF Users, Underway
  <2>2. NewPool \in [Key -> KeyState] /\ \A k \in Key : NewPool[k].pending = 0
    BY Constants DEF NewPool, KeyState
  <2>3. member = [g \in Generation |-> NewPool]
    BY DEF Init
  <2>4. member \in Pools
    BY <2>2, <2>3 DEF Pools
  <2>5. \A g \in Generation, k \in Key : member[g][k].pending = 0
    BY <2>2, <2>3
  <2>. QED BY <2>1, <2>4, <2>5, <1>4 DEF KeysMatch
<1>7. QueueMatches(call, queue)
  <2>1. queue = <<>> /\ Len(<<>>) = 0 /\ <<>> \in Seq(Call)
    BY EmptySeq DEF Init
  <2>. QED BY <2>1, <1>1, <1>2 DEF QueueMatches
<1>8. NoneIdle(call, active, config) /\ PassedFits(call, active, config)
  BY <1>1, <1>2 DEF NoneIdle, PassedFits
<1>9. WithinLimits(active, config)
  <2>1. config \in Config /\ active = [s \in Scope |-> 0]
    BY DEF Init
  <2>2. \A s \in Scope : active[s] = 0 /\ config.concurrency[s] \in Nat
    BY <2>1, Constants
  <2>. QED BY <2>2 DEF WithinLimits
<1>10. /\ config \in Config /\ recent \in [Scope -> Nat] /\ generation \in Generation
       /\ drainTimer = FALSE /\ excused = FALSE /\ queue = <<>>
  BY Constants DEF Init
<1>. QED BY <1>3, <1>5, <1>6, <1>7, <1>8, <1>9, <1>10 DEF IInv, LimiterHolds

\* A step that leaves the limiter and the calls alone.
LEMMA LimiterStays ==
  ASSUME LimiterHolds, UNCHANGED <<call, limiter, excused>>
  PROVE  LimiterHolds'
BY DEF LimiterHolds, limiter

\* A step after which the same calls have keys.
LEMMA UsersStay ==
  ASSUME KeysMatch(call, member), UNCHANGED member,
         \A g \in Generation, k \in Key : Users(call', g, k) = Users(call, g, k)
  PROVE  KeysMatch(call', member')
BY DEF KeysMatch

\* A key's cool-down ends.
LEMMA CoolDownKeeps ==
  ASSUME IInv, CoolDownEnds
  PROVE  IInv'
<1>1. PICK g \in Generation, k \in Key : member' = [member EXCEPT ![g][k].cooling = FALSE]
  BY DEF CoolDownEnds
<1>2. UNCHANGED <<call, generation, limiter, excused>>
  BY DEF CoolDownEnds
<1>3. LimiterHolds'
  BY <1>2, LimiterStays DEF IInv
<1>4. member \in Pools
  BY DEF IInv, KeysMatch
<1>5. member' \in Pools
  <2>1. member[g][k] \in KeyState
    BY <1>4 DEF Pools
  <2>2. [member[g][k] EXCEPT !.cooling = FALSE] \in KeyState
    <3> DEFINE Errors == 0..(MaxErrors - 1)
    <3>1. member[g][k] \in [pending : Nat, errors : Errors,
                            cooling : BOOLEAN, disabled : BOOLEAN]
      BY <2>1 DEF KeyState
    <3> HIDE DEF Errors
    <3>2. [member[g][k] EXCEPT !.cooling = FALSE] \in
            [pending : Nat, errors : Errors, cooling : BOOLEAN, disabled : BOOLEAN]
      BY <3>1
    <3>. QED BY <3>2 DEF KeyState, Errors
  <2>3. member' = [member EXCEPT ![g] =
                    [member[g] EXCEPT ![k] = [member[g][k] EXCEPT !.cooling = FALSE]]]
    BY <1>1
  <2>. QED BY <1>4, <2>2, <2>3 DEF Pools
<1>6. \A h \in Generation, l \in Key : member'[h][l].pending = member[h][l].pending
  BY <1>1, <1>4 DEF Pools, KeyState
<1>7. KeysMatch(call, member')
  BY <1>5, <1>6 DEF IInv, KeysMatch
<1>. QED BY <1>2, <1>3, <1>7 DEF IInv

\* The pools are replaced.
LEMMA ReloadKeeps ==
  ASSUME IInv, Reload
  PROVE  IInv'
<1>1. /\ generation' = generation + 1 /\ generation < MaxReloads
      /\ member' = Swept(member, generation + 1)
      /\ UNCHANGED <<call, limiter, excused>>
  BY DEF Reload
<1>2. LimiterHolds'
  BY <1>1, LimiterStays DEF IInv
<1>3. generation' \in Generation
  BY <1>1, Constants DEF IInv, Generation
<1>4. KeysMatch(call, Swept(member, generation + 1))
  BY KeysSwept DEF IInv
<1>. QED BY <1>1, <1>2, <1>3, <1>4 DEF IInv

\* The invariant is inductive.
LEMMA NextKeeps == IInv /\ [Next]_vars => IInv'
<1> SUFFICES ASSUME IInv, [Next]_vars PROVE IInv'
  OBVIOUS
<1>a. LimiterHolds /\ generation \in Generation /\ KeysMatch(call, member)
  BY DEF IInv
<1>1. CASE \E c \in Call : Choose(c)
  BY <1>1, ChooseKeeps
<1>2. ASSUME NEW c \in Call, RecordSlot(c) PROVE IInv'
  <2>1. UNCHANGED <<member, generation>>
    BY <1>2 DEF RecordSlot
  <2>2. /\ LimiterHolds'
        /\ \A g \in Generation, k \in Key : Users(call', g, k) = Users(call, g, k)
    BY <1>a, <1>2, RecordSlotKeeps
  <2>. QED BY <1>a, <2>1, <2>2, UsersStay DEF IInv
<1>3. CASE \E c \in Call : Settle(c)
  BY <1>3, SettleKeeps
<1>4. ASSUME NEW c \in Call, NEW o \in Outcome, Answer(c, o) PROVE IInv'
  <2>1. UNCHANGED <<member, generation>>
    BY <1>4 DEF Answer
  <2>2. /\ LimiterHolds'
        /\ \A g \in Generation, k \in Key : Users(call', g, k) = Users(call, g, k)
    BY <1>a, <1>4, AnswerKeeps
  <2>. QED BY <1>a, <2>1, <2>2, UsersStay DEF IInv
<1>5. CASE TimerFires
  <2>1. UNCHANGED <<member, generation>>
    BY <1>5 DEF TimerFires
  <2>2. /\ LimiterHolds'
        /\ \A g \in Generation, k \in Key : Users(call', g, k) = Users(call, g, k)
    BY <1>a, <1>5, TimerKeeps
  <2>. QED BY <1>a, <2>1, <2>2, UsersStay DEF IInv
<1>6. CASE updateConfig
  <2>1. UNCHANGED <<member, generation>>
    BY <1>6 DEF updateConfig
  <2>2. /\ LimiterHolds'
        /\ \A g \in Generation, k \in Key : Users(call', g, k) = Users(call, g, k)
    BY <1>a, <1>6, UpdateKeeps
  <2>. QED BY <1>a, <2>1, <2>2, UsersStay DEF IInv
<1>7. CASE MinutePasses
  <2>1. UNCHANGED <<call, member, generation>>
    BY <1>7 DEF MinutePasses
  <2>2. LimiterHolds'
    BY <1>a, <1>7, MinuteKeeps
  <2>. QED BY <1>a, <2>1, <2>2 DEF IInv
<1>8. CASE CoolDownEnds
  BY <1>8, CoolDownKeeps
<1>9. CASE Reload
  BY <1>9, ReloadKeeps
<1>10. CASE UNCHANGED vars
  <2>1. UNCHANGED <<call, member, generation>> /\ UNCHANGED <<call, limiter, excused>>
    BY <1>10 DEF vars
  <2>2. LimiterHolds'
    BY <1>a, <2>1, LimiterStays
  <2>. QED BY <1>a, <2>1, <2>2 DEF IInv
<1>. QED BY <1>1, <1>2, <1>3, <1>4, <1>5, <1>6, <1>7, <1>8, <1>9, <1>10 DEF Next, Continue

\* The calls, the counters, the keys and the queue hang together at all times.
THEOREM Invariance == Spec => []IInv
<1>1. Init => IInv
  BY InitHolds
<1>2. IInv /\ [Next]_vars => IInv'
  BY NextKeeps
<1>. QED BY <1>1, <1>2, PTL DEF Spec

-----------------------------------------------------------------------------
(* The theorems                                                             *)

\* The types follow: no counter is higher than the number of calls.
LEMMA TypesFollow ==
  ASSUME IInv
  PROVE  TypeOK
<1>1. call \in [Call -> CallState]
  <2>1. \A c \in Call : call[c] \in CallState
    BY DEF IInv, LimiterHolds, CallsAreSound, CallIsSound
  <2>2. call = [c \in Call |-> call[c]]
    BY DEF IInv, LimiterHolds, CallsAreSound
  <2>. QED BY <2>1, <2>2
<1>2. active \in [Scope -> 0..Cardinality(Call)]
  <2>1. active \in [Scope -> Nat] /\ \A s \in Scope : active[s] = Cardinality(Slots(call, s))
    BY DEF IInv, LimiterHolds, SlotsMatch
  <2>2. \A s \in Scope : active[s] \in 0..Cardinality(Call)
    <3> SUFFICES ASSUME NEW s \in Scope PROVE active[s] \in 0..Cardinality(Call)
      OBVIOUS
    <3>1. Slots(call, s) \in SUBSET Call
      BY DEF Slots
    <3>2. Cardinality(Slots(call, s)) \in Nat /\ Cardinality(Slots(call, s)) <= Cardinality(Call)
      BY <3>1, AccessAssumption, FS_Subset, FS_CardinalityType
    <3>3. Cardinality(Call) \in Nat
      BY AccessAssumption, FS_CardinalityType
    <3>. QED BY <2>1, <3>2, <3>3
  <2>. QED BY <2>1, <2>2
<1>3. member \in [Generation -> [Key -> Member]]
  <2>1. /\ member \in Pools
        /\ \A g \in Generation, k \in Key : member[g][k].pending = Cardinality(Users(call, g, k))
    BY DEF IInv, KeysMatch
  <2>2. ASSUME NEW g \in Generation, NEW k \in Key PROVE member[g][k] \in Member
    <3>1. Users(call, g, k) \in SUBSET Call
      BY DEF Users
    <3>2. /\ Cardinality(Users(call, g, k)) \in Nat
          /\ Cardinality(Users(call, g, k)) <= Cardinality(Call)
          /\ Cardinality(Call) \in Nat
      BY <3>1, AccessAssumption, FS_Subset, FS_CardinalityType
    <3>3. member[g][k].pending \in 0..Cardinality(Call)
      BY <2>1, <3>2
    <3>4. member[g][k] \in KeyState
      BY <2>1 DEF Pools
    <3>. QED BY <3>3, <3>4 DEF KeyState, Member
  <2>. QED BY <2>1, <2>2 DEF Pools
<1>4. /\ generation \in Generation /\ config \in Config /\ recent \in [Scope -> Nat]
      /\ queue \in Seq(Call) /\ drainTimer \in BOOLEAN /\ excused \in BOOLEAN
  BY DEF IInv, LimiterHolds, QueueMatches
<1>. QED BY <1>1, <1>2, <1>3, <1>4 DEF TypeOK

\* The queue is as long as there are calls that wait.
LEMMA QueueIsAllThatWait ==
  ASSUME IInv
  PROVE  QueueIsPolled
<1>1. /\ queue \in Seq(Call) /\ Len(queue) \in Nat /\ DOMAIN queue = 1..Len(queue)
      /\ \A i \in 1..Len(queue) : queue[i] \in Call
      /\ \A i, j \in 1..Len(queue) : queue[i] = queue[j] => i = j
      /\ \A c \in Call : call[c].at = "queued" <=> \E i \in 1..Len(queue) : queue[i] = c
  BY LenProperties, ElementOfSeq DEF IInv, LimiterHolds, QueueMatches
<1>2. {queue[n] : n \in DOMAIN queue} = At("queued")
  BY <1>1 DEF At
<1>3. Len(queue) = Cardinality(At("queued"))
  <2>1. queue = [i \in 1..Len(queue) |-> queue[i]]
    BY <1>1
  <2>2. queue \in Bijection(1..Len(queue), At("queued"))
    BY <1>1, <1>2, <2>1, Fun_IsBij
  <2>3. ExistsBijection(1..Len(queue), At("queued"))
    BY <2>2 DEF ExistsBijection
  <2>. QED BY <1>1, <2>3, FS_CountingElements
<1>. QED BY <1>2, <1>3 DEF QueueIsPolled, IInv, LimiterHolds

\* The limiter's counters are the slots that are held, what is pending on a key
\* are the calls that have it, and the concurrency is within its limits but for
\* the excuses there are, for any number of calls, through retries, reloads and
\* changes of the configuration (llm-rate-limiter.ts:127, 226; llm-pool.ts:172).
THEOREM CountsAreTrue == Spec => []CountsConsistent
<1>1. IInv => CountsConsistent
  <2> SUFFICES ASSUME IInv PROVE CountsConsistent
    OBVIOUS
  <2>1. SlotsCounted
    BY DEF IInv, LimiterHolds, SlotsMatch, SlotsCounted, Slots, Holders
  <2>2. PendingCounted
    <3>1. \A g, k : Users(call, g, k) = {c \in Call : HasKey(c, g, k)}
      BY DEF Users, HasKey, Underway
    <3>. QED BY <3>1 DEF IInv, KeysMatch, PendingCounted
  <2>3. LimitsHold
    BY DEF IInv, LimiterHolds, WithinLimits, LimitsHold
  <2>. QED BY <2>1, <2>2, <2>3, TypesFollow DEF CountsConsistent
<1>. QED BY <1>1, Invariance, PTL

\* A call that waits is in the queue once, with the timer set, and there is
\* something that holds it back: no slot is idle while a call waits for it
\* (llm-rate-limiter.ts:82, 140, 181, 240).
THEOREM QueueIsLookedAfter == Spec => []QueueIsServed
<1>1. IInv => QueueIsServed
  <2> SUFFICES ASSUME IInv PROVE QueueIsServed
    OBVIOUS
  <2>1. NoIdleSlot
    BY DEF IInv, LimiterHolds, NoneIdle, HeldBack, NoIdleSlot, At
  <2>. QED BY <2>1, QueueIsAllThatWait DEF QueueIsServed
<1>. QED BY <1>1, Invariance, PTL

\* A call that goes on with another key after a quota or authentication error
\* never gets the one it was refused with (llm.ts:432): release() comes first,
\* and leaves a key that acquire() passes over.
THEOREM RefusedKeyIsNotRetried == Spec => RotationChangesKey
<1> DEFINE Changes == \A c \in Call :
             /\ call'[c].tries = call[c].tries + 1
             /\ call'[c].key # NoKey
             => call'[c].key # call[c].key
<1>1. IInv /\ [Next]_vars => [Changes]_vars
  <2> SUFFICES ASSUME IInv, Next, NEW c \in Call,
                      call'[c].tries = call[c].tries + 1
               PROVE  call'[c].key # call[c].key
    OBVIOUS
  <2>a. call[c].tries \in Nat
    BY DEF IInv, LimiterHolds, CallsAreSound, CallIsSound, CallState
  <2>b. call'[c].tries # call[c].tries /\ call'[c].tries # 0
    BY <2>a
  <2>1. ASSUME NEW d \in Call, Settle(d) PROVE call'[c].key # call[c].key
    <3>1. d = c
      BY <2>1, <2>b, SettleKeeps
    <3>. QED BY <2>1, <2>b, <3>1, SettleKeeps
  <2>2. ASSUME NEW d \in Call, Choose(d) PROVE FALSE
    <3>1. d = c
      BY <2>2, <2>b, ChooseKeeps
    <3>. QED BY <2>2, <2>b, <3>1, ChooseKeeps
  <2>3. ASSUME NEW d \in Call, RecordSlot(d) PROVE FALSE
    <3>1. call[d] \in CallState /\ DOMAIN call = Call
      BY DEF IInv, LimiterHolds, CallsAreSound, CallIsSound
    <3>2. call'[c].tries = call[c].tries
      BY <2>3, <3>1 DEF RecordSlot, CallState
    <3>. QED BY <3>2, <2>b
  <2>4. ASSUME NEW d \in Call, NEW o \in Outcome, Answer(d, o) PROVE FALSE
    BY <2>4, <2>b, AnswerKeeps DEF IInv
  <2>5. CASE TimerFires
    <3>1. /\ Fit(call, config, active) /\ Drain(config, active, call)
          /\ drainTimer \in BOOLEAN /\ (queue # <<>> => drainTimer)
      BY <2>5 DEF TimerFires, IInv, LimiterHolds, Fit
    <3>2. call'[c].tries = call[c].tries
      BY <3>1, DrainKeeps
    <3>. QED BY <3>2, <2>b
  <2>6. CASE updateConfig
    <3>1. PICK cfg \in Config : Drain(cfg, active, call)
      BY <2>6 DEF updateConfig
    <3>2. /\ Fit(call, cfg, active)
          /\ drainTimer \in BOOLEAN /\ (queue # <<>> => drainTimer)
      BY DEF IInv, LimiterHolds, Fit
    <3>3. call'[c].tries = call[c].tries
      BY <3>1, <3>2, DrainKeeps
    <3>. QED BY <3>3, <2>b
  <2>7. CASE MinutePasses \/ CoolDownEnds \/ Reload
    <3>1. UNCHANGED call
      BY <2>7 DEF MinutePasses, CoolDownEnds, Reload
    <3>. QED BY <3>1, <2>b
  <2>. QED BY <2>1, <2>2, <2>3, <2>4, <2>5, <2>6, <2>7 DEF Next, Continue
<1>2. Spec => [][Changes]_vars
  BY <1>1, Invariance, PTL DEF Spec
<1>. QED BY <1>2 DEF RotationChangesKey
===============================================================================
