--------------------------- MODULE L1Cache_proofs ---------------------------
(***************************************************************************)
(* Proofs about L1Cache and L1Stats, for every set of keys, every number   *)
(* of shards, capacity and TTL, and any number of goroutines.              *)
(***************************************************************************)
EXTENDS L1Stats, TLAPS, FiniteSetTheorems, WellFoundedInduction

\* Every slot of a shard holds a key that hashes to it.
SlotsOfShard ==
  \A s \in Shards : \A i \in 1 .. Len(keys[s]) : getShard(keys[s][i]) = s

\* The inductive invariant.  SizeBound alone is not inductive: the eviction
\* must find a victim, which needs a slot for every entry, which in turn needs
\* the slots of a shard to hold its own keys only.
IInv == TypeOK /\ SlotsOfShard /\ SlotsAhead /\ SizeBound

LEMMA PerShardType == perShard \in Nat \ {0}
<1>1. MaxSize \div NumShards \in Int
  BY L1Assumption
<1> QED BY <1>1, L1Assumption DEF perShard

LEMMA LiveFinite ==
  ASSUME NEW s
  PROVE  /\ IsFiniteSet(Live(s)) /\ Cardinality(Live(s)) \in Nat
         /\ IsFiniteSet(Live(s)') /\ Cardinality(Live(s)') \in Nat
<1>1. IsFiniteSet(Keys) BY L1Assumption
<1>2. Live(s) \in SUBSET Keys /\ Live(s)' \in SUBSET Keys BY DEF Live
<1>3. IsFiniteSet(Live(s)) /\ IsFiniteSet(Live(s)') BY <1>1, <1>2, FS_Subset
<1> QED BY <1>3, FS_CardinalityType

\* A non-empty set of naturals has a least element.
LEMMA LeastNat ==
  ASSUME NEW T, T \subseteq Nat, T # {}
  PROVE  \E x \in T : \A y \in T : x <= y
<1>1. PICK x \in T : \A y \in T : ~(<<y, x>> \in OpToRel(<, Nat))
  BY NatLessThanWellFounded, WFMin
<1>2. \A y \in T : x <= y
  <2> TAKE y \in T
  <2>1. x \in Nat /\ y \in Nat OBVIOUS
  <2>2. ~(y < x) BY <2>1, <1>1 DEF OpToRel
  <2> QED BY <2>1, <2>2
<1> QED BY <1>2

LEMMA SmallMod ==
  ASSUME NEW x \in Nat, NEW y \in Nat, x < y
  PROVE  x % y = x
OBVIOUS

LEMMA ModRange ==
  ASSUME NEW x \in Nat, NEW y \in Nat \ {0}
  PROVE  x % y \in Nat /\ x % y < y
OBVIOUS

-----------------------------------------------------------------------------
\* evictOne, from a shard that has entries, deletes the entry with the first
\* live slot i after evictIdx and moves evictIdx just past it, to 0 at the end.
LEMMA EvictOneFinds ==
  ASSUME TypeOK, SlotsOfShard, SlotsAhead, NEW s \in Shards, Live(s) # {}
  PROVE  \E i \in 1 .. Len(keys[s]) :
           /\ i > evictIdx[s]
           /\ keys[s][i] \in Live(s)
           /\ \A j \in 1 .. Len(keys[s]) :
                evictIdx[s] < j /\ j < i => ~Present(keys[s][j])
           /\ evictOne(s) = [victims |-> {keys[s][i]},
                             idx |-> i % Len(keys[s])]
<1> DEFINE e == evictIdx[s]
           L == Len(keys[s])
<1>1. keys[s] \in Seq(Keys) /\ L \in Nat /\ e \in Nat
  BY DEF TypeOK
<1>2. PICK k \in Live(s) : TRUE
  OBVIOUS
<1>3. PICK m \in 1 .. L : m > e /\ keys[s][m] = k
  BY <1>2 DEF SlotsAhead
<1> HIDE DEF e, L
<1>4. \A n \in Nat : e + n < L => ProbeIdx(s, n) = e + n
  BY <1>1, SmallMod DEF ProbeIdx, e, L
<1>5. m - 1 - e \in LiveProbes(s)
  <2>1. m - 1 - e \in 0 .. L - 1 /\ e + (m - 1 - e) < L
    BY <1>1, <1>3
  <2>2. ProbeIdx(s, m - 1 - e) = m - 1
    BY <2>1, <1>1, <1>3, <1>4
  <2>3. ProbeKey(s, m - 1 - e) = k
    BY <2>2, <1>3 DEF ProbeKey
  <2>4. Present(k)
    BY <1>2 DEF Live
  <2> QED BY <2>1, <2>3, <2>4 DEF LiveProbes, L
<1>6. LiveProbes(s) \subseteq Nat
  BY <1>1 DEF LiveProbes, L
<1>7. \E x \in LiveProbes(s) : \A y \in LiveProbes(s) : x <= y
  BY <1>5, <1>6, LeastNat
<1> DEFINE f == FirstLive(s)
<1>8. f \in LiveProbes(s) /\ \A y \in LiveProbes(s) : f <= y
  BY <1>7 DEF FirstLive
<1> HIDE DEF f
<1>9. f \in Nat /\ f <= m - 1 - e /\ e + f < L
  BY <1>1, <1>3, <1>5, <1>6, <1>8
<1>10. ProbeIdx(s, f) = e + f /\ ProbeKey(s, f) = keys[s][e + f + 1]
  BY <1>4, <1>9 DEF ProbeKey
<1>11. e + f + 1 \in 1 .. L /\ e + f + 1 > e
  BY <1>1, <1>9
<1>12. keys[s][e + f + 1] \in Live(s)
  <2>1. Present(keys[s][e + f + 1])
    BY <1>8, <1>10 DEF LiveProbes
  <2>2. keys[s][e + f + 1] \in Keys
    BY <1>1, <1>11 DEF L
  <2>3. getShard(keys[s][e + f + 1]) = s
    BY <1>11 DEF SlotsOfShard, L
  <2> QED BY <2>1, <2>2, <2>3 DEF Live
<1>13. ASSUME NEW j \in 1 .. L, e < j, j < e + f + 1
       PROVE  ~Present(keys[s][j])
  <2>1. j - 1 - e \in 0 .. L - 1 /\ j - 1 - e < f /\ e + (j - 1 - e) < L
    BY <1>1, <1>9, <1>13
  <2>2. ProbeIdx(s, j - 1 - e) = j - 1
    BY <2>1, <1>1, <1>4
  <2>3. ProbeKey(s, j - 1 - e) = keys[s][j]
    BY <2>2, <1>1 DEF ProbeKey
  <2>4. j - 1 - e \notin LiveProbes(s)
    BY <2>1, <1>8, <1>9, <1>1
  <2> QED BY <2>1, <2>3, <2>4 DEF LiveProbes, L
<1>14. evictOne(s) = [victims |-> {keys[s][e + f + 1]}, idx |-> (e + f + 1) % L]
  BY <1>5, <1>10 DEF evictOne, f, L
<1> QED BY <1>11, <1>12, <1>13, <1>14 DEF e, L

-----------------------------------------------------------------------------
(* Steps that add no entry and leave the slots alone *)

LEMMA ShrinkPreserves ==
  ASSUME SlotsOfShard, SlotsAhead, SizeBound, UNCHANGED <<keys, evictIdx>>,
         \A k \in Keys : Present(k)' => Present(k)
  PROVE  SlotsOfShard' /\ SlotsAhead' /\ SizeBound'
<1>1. \A s : Live(s)' \subseteq Live(s)
  BY DEF Live, getShard
<1>2. SlotsOfShard'
  BY DEF SlotsOfShard, getShard
<1>3. SlotsAhead'
  BY <1>1 DEF SlotsAhead
<1>4. SizeBound'
  <2> SUFFICES ASSUME NEW s \in Shards
               PROVE  Cardinality(Live(s)') <= perShard
    BY DEF SizeBound, perShard
  <2>1. Cardinality(Live(s)') <= Cardinality(Live(s))
    BY <1>1, LiveFinite, FS_Subset
  <2>2. Cardinality(Live(s)) <= perShard
    BY DEF SizeBound
  <2> QED BY <2>1, <2>2, LiveFinite, PerShardType
<1> QED BY <1>2, <1>3, <1>4

LEMMA EntryFacts ==
  /\ NoEntry \in Entry
  /\ NoEntry.value = None
  /\ NoGet = [pc |-> "idle", key |-> None, entry |-> NoEntry]
  /\ NoGet.pc = "idle"
  /\ NoGet \in [pc : {"idle", "check", "expired"},
                key : Keys \cup {None}, entry : Entry]
BY DEF NoEntry, Entry, NoGet

-----------------------------------------------------------------------------
(* Set *)

\* What Set's eviction may do to shard s = getShard(k).
LEMMA EvictionCases ==
  ASSUME IInv, NEW k \in Keys
  PROVE  LET s == getShard(k)  ev == Eviction(k)
         IN  \/ /\ ev = [victims |-> {}, idx |-> evictIdx[s]]
                /\ ~Present(k) => Cardinality(Live(s)) < perShard
             \/ /\ ~Present(k)
                /\ \E i \in 1 .. Len(keys[s]) :
                     /\ i > evictIdx[s]
                     /\ keys[s][i] \in Live(s)
                     /\ \A j \in 1 .. Len(keys[s]) :
                          evictIdx[s] < j /\ j < i => ~Present(keys[s][j])
                     /\ ev = [victims |-> {keys[s][i]},
                              idx |-> i % Len(keys[s])]
<1> DEFINE s == getShard(k)
<1>1. s \in Shards
  BY L1Assumption DEF getShard
<1>2. CASE Full(s) /\ ~Present(k)
  <2>1. Live(s) # {}
    <3>1. Cardinality(Live(s)) > 0
      BY <1>2, LiveFinite, PerShardType DEF Full
    <3> QED BY <3>1, FS_EmptySet
  <2>2. Eviction(k) = evictOne(s)
    BY <1>2 DEF Eviction
  <2> QED BY <1>1, <1>2, <2>1, <2>2, EvictOneFinds DEF IInv
<1>3. CASE ~(Full(s) /\ ~Present(k))
  <2>1. Eviction(k) = [victims |-> {}, idx |-> evictIdx[s]]
    BY <1>3 DEF Eviction
  <2>2. ~Present(k) => Cardinality(Live(s)) < perShard
    BY <1>3, LiveFinite, PerShardType DEF Full
  <2> QED BY <2>1, <2>2
<1> QED BY <1>2, <1>3

LEMMA SetPreserves ==
  ASSUME IInv, NEW p \in Procs, NEW k \in Keys, NEW v \in Values, Set(p, k, v)
  PROVE  IInv'
<1> DEFINE s == getShard(k)
           ev == Eviction(k)
           e == evictIdx[s]
           L == Len(keys[s])
<1>1. s \in Shards /\ k \in Keys /\ getShard(k) = s
  BY L1Assumption DEF getShard
<1>2. /\ items' = [x \in Keys |->
                     IF x = k THEN [value |-> v, expiresAt |-> now + TTL]
                     ELSE IF x \in ev.victims THEN NoEntry ELSE items[x]]
      /\ evictIdx' = [evictIdx EXCEPT ![s] = ev.idx]
      /\ keys' = IF Present(k) THEN keys
                 ELSE [keys EXCEPT ![s] = Append(keys[s], k)]
      /\ UNCHANGED <<now, get, ret, stat>>
  BY DEF Set
<1>3. TypeOK /\ SlotsOfShard /\ SlotsAhead /\ SizeBound
  BY DEF IInv
<1>4. /\ keys \in [Shards -> Seq(Keys)] /\ evictIdx \in [Shards -> Nat]
      /\ keys[s] \in Seq(Keys) /\ L \in Nat /\ e \in Nat
      /\ items \in [Keys -> Entry] /\ now \in Nat
      /\ e = 0 \/ e < L
  BY <1>1, <1>3, L1Assumption DEF TypeOK
<1>5. v # None /\ NoEntry.value = None /\ now + TTL \in Nat
  BY <1>4, L1Assumption DEF NoEntry
<1> HIDE DEF ev
<1>6. \/ /\ ev.victims = {} /\ ev.idx = e
         /\ ~Present(k) => Cardinality(Live(s)) < perShard
      \/ /\ ~Present(k)
         /\ \E i \in 1 .. L :
              /\ i > e
              /\ keys[s][i] \in Live(s)
              /\ \A j \in 1 .. L : e < j /\ j < i => ~Present(keys[s][j])
              /\ ev.victims = {keys[s][i]} /\ ev.idx = i % L
  <2>1. CASE /\ ev = [victims |-> {}, idx |-> e]
             /\ ~Present(k) => Cardinality(Live(s)) < perShard
    <3>1. ev.victims = {} /\ ev.idx = e BY <2>1
    <3> QED BY <2>1, <3>1
  <2>2. ASSUME ~Present(k), NEW i \in 1 .. L, i > e, keys[s][i] \in Live(s),
               \A j \in 1 .. L : e < j /\ j < i => ~Present(keys[s][j]),
               ev = [victims |-> {keys[s][i]}, idx |-> i % L]
        PROVE  <1>6!2
    <3>1. ev.victims = {keys[s][i]} /\ ev.idx = i % L BY <2>2
    <3> QED BY <2>2, <3>1
  <2> QED BY <2>1, <2>2, EvictionCases DEF ev
\* the new maps
<1>7. \A t \in Shards : t # s => Live(t)' = Live(t)
  <2> SUFFICES ASSUME NEW t \in Shards, t # s, NEW x \in Keys, getShard(x) = t
               PROVE  Present(x)' <=> Present(x)
    BY DEF Live, getShard
  <2>1. x # k
    BY <1>1
  <2>2. x \notin ev.victims
    BY <1>6 DEF Live
  <2> QED BY <1>2, <2>1, <2>2 DEF Present
<1>8. Live(s)' = (Live(s) \ ev.victims) \cup {k}
  <2>1. ASSUME NEW x \in Keys
        PROVE  Present(x)' <=> x = k \/ (Present(x) /\ x \notin ev.victims)
    BY <1>2, <1>5 DEF Present
  <2> QED BY <2>1, <1>1 DEF Live, getShard
<1>9. \A t \in Shards : t # s => keys'[t] = keys[t] /\ evictIdx'[t] = evictIdx[t]
  BY <1>2, <1>4
<1>10. /\ keys'[s] = IF Present(k) THEN keys[s] ELSE Append(keys[s], k)
       /\ evictIdx'[s] = ev.idx
       /\ keys' \in [Shards -> Seq(Keys)]
  BY <1>1, <1>2, <1>4
<1>11. /\ Len(keys'[s]) = IF Present(k) THEN L ELSE L + 1
       /\ \A i \in 1 .. L : keys'[s][i] = keys[s][i]
       /\ ~Present(k) => keys'[s][L + 1] = k
  BY <1>4, <1>10
<1>12. ev.idx \in Nat /\ (ev.idx = 0 \/ ev.idx < L)
  <2>1. CASE ev.idx = e
    BY <2>1, <1>4
  <2>2. ASSUME NEW i \in 1 .. L, ev.idx = i % L
        PROVE  ev.idx \in Nat /\ (ev.idx = 0 \/ ev.idx < L)
    <3>1. i \in Nat /\ L \in Nat \ {0}
      BY <1>4
    <3>2. i % L \in Nat /\ i % L < L
      BY <3>1, ModRange
    <3> QED BY <3>1, <3>2, <2>2
  <2> QED BY <1>6, <2>1, <2>2
\* the conjuncts of the invariant
<1>13. TypeOK'
  <2>1. items' \in [Keys -> Entry]
    BY <1>2, <1>4, <1>5, EntryFacts DEF Entry
  <2>2. evictIdx' \in [Shards -> Nat]
    BY <1>2, <1>4, <1>12
  <2>3. \A t \in Shards : evictIdx'[t] = 0 \/ evictIdx'[t] < Len(keys'[t])
    <3> TAKE t \in Shards
    <3>1. CASE t = s BY <3>1, <1>4, <1>10, <1>11, <1>12
    <3>2. CASE t # s BY <3>2, <1>3, <1>9 DEF TypeOK
    <3> QED BY <3>1, <3>2
  <2> QED BY <1>2, <1>3, <1>10, <2>1, <2>2, <2>3 DEF TypeOK
<1>14. SlotsOfShard'
  <2> SUFFICES ASSUME NEW t \in Shards, NEW i \in 1 .. Len(keys'[t])
               PROVE  getShard(keys'[t][i]) = t
    BY DEF SlotsOfShard, getShard
  <2>1. CASE t # s
    BY <2>1, <1>3, <1>9 DEF SlotsOfShard
  <2>2. CASE t = s
    <3>1. i \in 1 .. L \/ (~Present(k) /\ i = L + 1)
      BY <2>2, <1>4, <1>11
    <3>2. CASE i \in 1 .. L
      BY <3>2, <2>2, <1>3, <1>11 DEF SlotsOfShard
    <3>3. CASE ~Present(k) /\ i = L + 1
      BY <3>3, <2>2, <1>1, <1>11
    <3> QED BY <3>1, <3>2, <3>3
  <2> QED BY <2>1, <2>2
<1>15. SlotsAhead'
  <2> SUFFICES ASSUME NEW t \in Shards, NEW x \in Live(t)'
               PROVE  \E i \in 1 .. Len(keys'[t]) :
                        i > evictIdx'[t] /\ keys'[t][i] = x
    BY DEF SlotsAhead
  <2>1. CASE t # s
    BY <2>1, <1>3, <1>7, <1>9 DEF SlotsAhead
  <2>2. CASE t = s /\ x = k /\ ~Present(k)
    BY <2>2, <1>4, <1>10, <1>11, <1>12
  <2>3. CASE t = s /\ ~(x = k /\ ~Present(k))
    <3>1. x \in Live(s) /\ x \notin ev.victims
      BY <2>3, <1>1, <1>6, <1>8 DEF Live
    <3>2. PICK m \in 1 .. L : m > e /\ keys[s][m] = x
      BY <3>1, <1>1, <1>3 DEF SlotsAhead
    <3>3. m > ev.idx
      <4>1. CASE ev.idx = e
        BY <4>1, <3>2
      <4>2. ASSUME NEW i \in 1 .. L, ev.victims = {keys[s][i]}, ev.idx = i % L,
                   \A j \in 1 .. L : e < j /\ j < i => ~Present(keys[s][j])
            PROVE  m > ev.idx
        <5>1. m # i
          BY <4>2, <3>1, <3>2
        <5>2. ~(m < i)
          BY <4>2, <3>1, <3>2 DEF Live
        <5>3. i < m /\ i < L /\ i \in Nat
          BY <5>1, <5>2, <1>4
        <5>4. i % L = i
          BY <5>3, <1>4, SmallMod
        <5> QED BY <4>2, <5>3, <5>4
      <4> QED BY <1>6, <4>1, <4>2
    <3> QED BY <2>3, <3>2, <3>3, <1>4, <1>10, <1>11
  <2> QED BY <2>1, <2>2, <2>3
<1>16. SizeBound'
  <2> SUFFICES ASSUME NEW t \in Shards
               PROVE  Cardinality(Live(t)') <= perShard
    BY DEF SizeBound, perShard
  <2>1. CASE t # s
    BY <2>1, <1>3, <1>7 DEF SizeBound
  <2>2. CASE t = s
    <3>1. Cardinality(Live(s)) <= perShard
      BY <1>1, <1>3 DEF SizeBound
    <3>2. CASE Present(k)
      <4>1. ev.victims = {} /\ k \in Live(s)
        BY <3>2, <1>1, <1>6 DEF Live
      <4>2. Live(s)' = Live(s)
        BY <4>1, <1>8
      <4> QED BY <4>2, <3>1, <2>2
    <3>3. CASE ~Present(k) /\ ev.victims = {}
      <4>1. Cardinality(Live(s)) < perShard
        BY <3>3, <1>6
      <4>2. Live(s)' = Live(s) \cup {k} /\ k \notin Live(s)
        BY <3>3, <1>8 DEF Live
      <4>3. Cardinality(Live(s)') = Cardinality(Live(s)) + 1
        BY <4>2, LiveFinite, FS_AddElement
      <4> QED BY <4>1, <4>3, <2>2, LiveFinite, PerShardType
    <3>4. CASE ~Present(k) /\ ev.victims # {}
      <4>1. PICK w \in Live(s) : ev.victims = {w}
        BY <3>4, <1>6
      <4>2. Live(s)' = (Live(s) \ {w}) \cup {k} /\ k \notin Live(s) \ {w}
        BY <3>4, <4>1, <1>8 DEF Live
      <4>3. /\ IsFiniteSet(Live(s) \ {w})
            /\ Cardinality(Live(s) \ {w}) = Cardinality(Live(s)) - 1
        BY LiveFinite, FS_RemoveElement, <4>1
      <4>4. Cardinality(Live(s)') = Cardinality(Live(s) \ {w}) + 1
        BY <4>2, <4>3, FS_AddElement
      <4> QED BY <4>3, <4>4, <3>1, <2>2, LiveFinite, PerShardType
    <3> QED BY <3>2, <3>3, <3>4
  <2> QED BY <2>1, <2>2
<1> QED BY <1>13, <1>14, <1>15, <1>16 DEF IInv

-----------------------------------------------------------------------------
(* The other steps *)

LEMMA InitIInv == Init => IInv
<1> SUFFICES ASSUME Init PROVE IInv
  OBVIOUS
<1>1. \A s : Live(s) = {}
  BY EntryFacts DEF Init, Live, Present
<1>2. TypeOK
  BY L1Assumption, EntryFacts DEF Init, TypeOK
<1>3. SlotsOfShard
  BY DEF Init, SlotsOfShard
<1>4. SlotsAhead
  BY <1>1 DEF SlotsAhead
<1>5. SizeBound
  BY <1>1, FS_EmptySet, PerShardType DEF SizeBound
<1> QED BY <1>2, <1>3, <1>4, <1>5 DEF IInv

LEMMA TickPreserves == IInv /\ Tick => IInv'
<1> SUFFICES ASSUME IInv, Tick PROVE IInv'
  OBVIOUS
<1>1. TypeOK'
  BY L1Assumption DEF IInv, TypeOK, Tick
<1>2. SlotsOfShard' /\ SlotsAhead' /\ SizeBound'
  BY ShrinkPreserves DEF IInv, Tick, Present
<1> QED BY <1>1, <1>2 DEF IInv

LEMMA GetPreserves ==
  ASSUME IInv, NEW p \in Procs, NEW k \in Keys,
         GetRead(p, k) \/ GetCheck(p) \/ GetDelete(p)
  PROVE  IInv'
<1>1. CASE GetRead(p, k)
  <2>1. get' \in [Procs -> [pc : {"idle", "check", "expired"},
                            key : Keys \cup {None}, entry : Entry]]
    BY <1>1 DEF GetRead, IInv, TypeOK
  <2>2. ASSUME NEW q \in Procs
        PROVE  IF get'[q].pc = "idle" THEN get'[q] = NoGet
               ELSE get'[q].key \in Keys /\ get'[q].entry.value # None
    <3>1. CASE q # p \/ ~Present(k)
      BY <3>1, <1>1 DEF GetRead, IInv, TypeOK
    <3>2. CASE q = p /\ Present(k)
      <4>1. get'[q] = [pc |-> "check", key |-> k, entry |-> items[k]]
        BY <3>2, <1>1 DEF GetRead, IInv, TypeOK
      <4> QED BY <4>1, <3>2 DEF Present
    <3> QED BY <3>1, <3>2
  <2>3. ret' \in [Procs -> Values \cup {None}]
    BY <1>1 DEF GetRead, IInv, TypeOK
  <2>4. TypeOK'
    BY <1>1, <2>1, <2>2, <2>3 DEF GetRead, IInv, TypeOK
  <2>5. SlotsOfShard' /\ SlotsAhead' /\ SizeBound'
    BY <1>1, ShrinkPreserves DEF IInv, GetRead, Present
  <2> QED BY <2>4, <2>5 DEF IInv
<1>2. CASE GetCheck(p)
  <2>1. get[p].key \in Keys /\ get[p].entry.value # None /\ get[p].entry \in Entry
    BY <1>2 DEF GetCheck, IInv, TypeOK
  <2>2. \/ /\ get' = [get EXCEPT ![p].pc = "expired"]
           /\ UNCHANGED ret
        \/ /\ get' = [get EXCEPT ![p] = NoGet]
           /\ ret' = [ret EXCEPT ![p] = get[p].entry.value]
    BY <1>2 DEF GetCheck
  <2>3. /\ get' \in [Procs -> [pc : {"idle", "check", "expired"},
                               key : Keys \cup {None}, entry : Entry]]
        /\ \A q \in Procs :
             IF get'[q].pc = "idle" THEN get'[q] = NoGet
             ELSE get'[q].key \in Keys /\ get'[q].entry.value # None
        /\ ret' \in [Procs -> Values \cup {None}]
    <3>1. CASE /\ get' = [get EXCEPT ![p].pc = "expired"]
               /\ UNCHANGED ret
      <4>1. get'[p] = [get[p] EXCEPT !.pc = "expired"]
        BY <3>1 DEF IInv, TypeOK
      <4>2. \A q \in Procs : q # p => get'[q] = get[q]
        BY <3>1 DEF IInv, TypeOK
      <4>3. get'[p].pc = "expired" /\ get'[p].key = get[p].key
            /\ get'[p].entry = get[p].entry
        BY <4>1 DEF IInv, TypeOK
      <4> DEFINE G == [pc : {"idle", "check", "expired"},
                       key : Keys \cup {None}, entry : Entry]
      <4>4. get' \in [Procs -> G]
        <5>1. get \in [Procs -> G] /\ get[p] \in G
          BY DEF IInv, TypeOK
        <5>2. [get[p] EXCEPT !.pc = "expired"] \in G
          BY <5>1
        <5>3. get' = [get EXCEPT ![p] = [get[p] EXCEPT !.pc = "expired"]]
          BY <3>1
        <5> HIDE DEF G
        <5> QED BY <5>1, <5>2, <5>3
      <4>5. \A q \in Procs :
              IF get'[q].pc = "idle" THEN get'[q] = NoGet
              ELSE get'[q].key \in Keys /\ get'[q].entry.value # None
        BY <4>2, <4>3, <2>1 DEF IInv, TypeOK
      <4> QED BY <3>1, <4>4, <4>5 DEF IInv, TypeOK
    <3>2. CASE /\ get' = [get EXCEPT ![p] = NoGet]
               /\ ret' = [ret EXCEPT ![p] = get[p].entry.value]
      BY <3>2, <2>1, EntryFacts DEF IInv, TypeOK, Entry
    <3> QED BY <2>2, <3>1, <3>2
  <2>4. TypeOK'
    BY <1>2, <2>3 DEF GetCheck, IInv, TypeOK
  <2>5. SlotsOfShard' /\ SlotsAhead' /\ SizeBound'
    BY <1>2, ShrinkPreserves DEF IInv, GetCheck, Present
  <2> QED BY <2>4, <2>5 DEF IInv
<1>3. CASE GetDelete(p)
  <2>1. TypeOK'
    BY <1>3, EntryFacts DEF GetDelete, IInv, TypeOK
  <2>2. \A x \in Keys : Present(x)' => Present(x)
    BY <1>3, EntryFacts DEF GetDelete, Present, IInv, TypeOK
  <2>3. SlotsOfShard' /\ SlotsAhead' /\ SizeBound'
    BY <1>3, <2>2, ShrinkPreserves DEF IInv, GetDelete
  <2> QED BY <2>1, <2>3 DEF IInv
<1> QED BY <1>1, <1>2, <1>3

LEMMA DeletePreserves ==
  ASSUME IInv, NEW p \in Procs, NEW k \in Keys, Delete(p, k)
  PROVE  IInv'
<1>1. TypeOK'
  BY EntryFacts DEF Delete, IInv, TypeOK
<1>2. \A x \in Keys : Present(x)' => Present(x)
  BY EntryFacts DEF Delete, Present, IInv, TypeOK
<1>3. SlotsOfShard' /\ SlotsAhead' /\ SizeBound'
  BY <1>2, ShrinkPreserves DEF IInv, Delete
<1> QED BY <1>1, <1>3 DEF IInv

LEMMA StatsPreserves ==
  ASSUME IInv, NEW p \in Procs, StatsBegin(p) \/ StatsShard(p)
  PROVE  IInv'
<1>1. UNCHANGED <<now, items, keys, evictIdx, get, ret>>
  BY DEF StatsBegin, StatsShard
<1>2. stat' \in [Procs -> [next : 0 .. NumShards, total : Nat]]
  <2>1. CASE StatsBegin(p)
    BY <2>1, L1Assumption DEF StatsBegin, IInv, TypeOK
  <2>2. CASE StatsShard(p)
    <3>1. Cardinality(Live(stat[p].next)) \in Nat
      BY LiveFinite
    <3> QED BY <2>2, <3>1, L1Assumption DEF StatsShard, IInv, TypeOK
  <2> QED BY <2>1, <2>2
<1>3. TypeOK'
  BY <1>1, <1>2 DEF IInv, TypeOK
<1>4. SlotsOfShard' /\ SlotsAhead' /\ SizeBound'
  BY <1>1, ShrinkPreserves DEF IInv, Present
<1> QED BY <1>3, <1>4 DEF IInv

LEMMA NextPreserves == IInv /\ [Next]_vars => IInv'
<1> SUFFICES ASSUME IInv, [Next]_vars PROVE IInv'
  OBVIOUS
<1>1. CASE Tick
  BY <1>1, TickPreserves
<1>2. ASSUME NEW p \in Procs, NEW k \in Keys, GetRead(p, k) PROVE IInv'
  BY <1>2, GetPreserves
<1>3. ASSUME NEW p \in Procs, NEW k \in Keys, Delete(p, k) PROVE IInv'
  BY <1>3, DeletePreserves
<1>4. ASSUME NEW p \in Procs, NEW k \in Keys, NEW v \in Values, Set(p, k, v)
      PROVE  IInv'
  BY <1>4, SetPreserves
<1>5. ASSUME NEW p \in Procs, GetCheck(p) \/ GetDelete(p) PROVE IInv'
  <2>1. get[p].key \in Keys
    BY <1>5 DEF GetCheck, GetDelete, IInv, TypeOK
  <2> QED BY <1>5, <2>1, GetPreserves
<1>6. ASSUME NEW p \in Procs, StatsBegin(p) \/ StatsShard(p) PROVE IInv'
  BY <1>6, StatsPreserves
<1>7. CASE UNCHANGED vars
  <2>1. TypeOK'
    BY <1>7 DEF IInv, TypeOK, vars
  <2>2. SlotsOfShard' /\ SlotsAhead' /\ SizeBound'
    BY <1>7, ShrinkPreserves DEF IInv, vars, Present
  <2> QED BY <2>1, <2>2 DEF IInv
<1> QED BY <1>1, <1>2, <1>3, <1>4, <1>5, <1>6, <1>7 DEF Next

\* The inductive invariant holds in every reachable state.
THEOREM L1Invariant == Spec => []IInv
<1>1. Init => IInv
  BY InitIInv
<1>2. IInv /\ [Next]_vars => IInv'
  BY NextPreserves
<1> QED BY <1>1, <1>2, PTL DEF Spec

\* l1.go never leaves its types; a Get never carries on with a nil entry.
THEOREM L1TypeCorrect == Spec => []TypeOK
<1>1. IInv => TypeOK
  BY DEF IInv
<1> QED BY <1>1, L1Invariant, PTL

\* No interleaving of Sets, Gets (with their lazy deletes) and Deletes takes a
\* shard past its maxSize, however many stale slots shard.keys has collected.
THEOREM L1SizeBound == Spec => []SizeBound
<1>1. IInv => SizeBound
  BY DEF IInv
<1> QED BY <1>1, L1Invariant, PTL

\* evictOne can reach every entry of the shard, and without wrapping around.
THEOREM L1SlotsAhead == Spec => []SlotsAhead
<1>1. IInv => SlotsAhead
  BY DEF IInv
<1> QED BY <1>1, L1Invariant, PTL

-----------------------------------------------------------------------------
(* What Stats returns: invariants of SSpec, which adds histories to Spec *)

\* A set counted piece by piece: two disjoint pieces make up the whole.
LEMMA CountPieces ==
  ASSUME NEW S, NEW T, NEW U, S \subseteq Keys, T \subseteq Keys,
         U = S \cup T, S \cap T = {}
  PROVE  /\ Cardinality(S) \in Nat /\ Cardinality(T) \in Nat
         /\ Cardinality(U) = Cardinality(S) + Cardinality(T)
<1>1. IsFiniteSet(S) /\ IsFiniteSet(T)
  BY L1Assumption, FS_Subset
<1>2. Cardinality(S) \in Nat /\ Cardinality(T) \in Nat
  BY <1>1, FS_CardinalityType
<1>3. Cardinality(S \cup T) = Cardinality(S) + Cardinality(T) - Cardinality(S \cap T)
  BY <1>1, FS_Union
<1>4. Cardinality(S \cap T) = 0
  BY FS_EmptySet
<1> QED BY <1>2, <1>3, <1>4

LEMMA CountSubset ==
  ASSUME NEW S, NEW T, T \subseteq Keys, S \subseteq T
  PROVE  /\ Cardinality(S) \in Nat /\ Cardinality(T) \in Nat
         /\ Cardinality(S) <= Cardinality(T)
<1>1. IsFiniteSet(T)
  BY L1Assumption, FS_Subset
<1>2. IsFiniteSet(S)
  BY <1>1, FS_Subset
<1> QED BY <1>1, <1>2, FS_Subset, FS_CardinalityType

\* While a Stats runs, what was there all the time is there now, and what is
\* there now was there at some moment.
Histories ==
  /\ always \in [Procs -> SUBSET Keys]
  /\ ever \in [Procs -> SUBSET Keys]
  /\ \A p \in Procs : Runs(p) => always[p] \subseteq Here /\ Here \subseteq ever[p]

StatsInv == IInv /\ Histories /\ StatsWithin

LEMMA StatsFacts ==
  ASSUME IInv
  PROVE  /\ stat \in [Procs -> [next : 0 .. NumShards, total : Nat]]
         /\ NumShards \in Nat \ {0}
         /\ \A k \in Keys : getShard(k) \in 0 .. NumShards - 1
BY L1Assumption DEF IInv, TypeOK, getShard, Shards

LEMMA HistoriesStep ==
  ASSUME StatsInv, SNext
  PROVE  Histories'
<1>1. always' \in [Procs -> SUBSET Keys]
  BY DEF SNext, Observe, StatsInv, Histories, Here
<1>2. ever' \in [Procs -> SUBSET Keys]
  BY DEF SNext, Observe, StatsInv, Histories, Here
<1>3. ASSUME NEW p \in Procs, Runs(p)'
      PROVE  always'[p] \subseteq Here' /\ Here' \subseteq ever'[p]
  <2>1. Begins(p) \/ Runs(p)
    <3>1. ASSUME NEW q \in Procs, StatsBegin(q) PROVE Begins(p) \/ Runs(p)
      <4>1. CASE q = p
        BY <3>1, <4>1, StatsFacts DEF StatsBegin, Idle, Begins, StatsInv
      <4>2. CASE q # p
        BY <1>3, <3>1, <4>2, StatsFacts DEF StatsBegin, Runs, StatsInv
      <4> QED BY <4>1, <4>2
    <3>2. ASSUME NEW q \in Procs, StatsShard(q) PROVE Runs(p)
      <4>1. CASE q = p
        BY <3>2, <4>1, StatsFacts DEF StatsShard, Runs
      <4>2. CASE q # p
        BY <1>3, <3>2, <4>2, StatsFacts DEF StatsShard, Runs, StatsInv
      <4> QED BY <4>1, <4>2
    <3>3. ASSUME UNCHANGED stat PROVE Runs(p)
      BY <1>3, <3>3 DEF Runs
    <3> QED
      BY <3>1, <3>2, <3>3 DEF SNext, Next, Tick, GetRead, GetCheck, GetDelete, Delete, Set
  <2>2. CASE Begins(p)
    BY <2>2 DEF SNext, Observe
  <2>3. CASE ~Begins(p) /\ Runs(p)
    BY <2>3 DEF SNext, Observe
  <2> QED BY <2>1, <2>2, <2>3
<1> QED BY <1>1, <1>2, <1>3 DEF Histories

\* A step that reads a shard adds the size of a set between what both histories
\* hold of that shard; any other step of a running Stats can only shrink the one
\* history and grow the other.
LEMMA WithinStep ==
  ASSUME StatsInv, SNext, NEW p \in Procs
  PROVE  /\ Cardinality(always'[p] \cap Read(p)') <= stat'[p].total
         /\ stat'[p].total <= Cardinality(ever'[p] \cap Read(p)')
<1>1. /\ always[p] \subseteq Keys /\ ever[p] \subseteq Keys
      /\ always'[p] \subseteq Keys /\ ever'[p] \subseteq Keys
  BY HistoriesStep DEF StatsInv, Histories
<1>2. /\ stat \in [Procs -> [next : 0 .. NumShards, total : Nat]]
      /\ NumShards \in Nat \ {0}
      /\ \A k \in Keys : getShard(k) \in 0 .. NumShards - 1
  BY StatsFacts DEF StatsInv
<1>3. /\ Cardinality(always[p] \cap Read(p)) <= stat[p].total
      /\ stat[p].total <= Cardinality(ever[p] \cap Read(p))
  BY DEF StatsInv, StatsWithin
<1>4. ASSUME StatsBegin(p)
      PROVE  /\ Cardinality(always'[p] \cap Read(p)') <= stat'[p].total
             /\ stat'[p].total <= Cardinality(ever'[p] \cap Read(p)')
  <2>1. stat'[p].next = 0 /\ stat'[p].total = 0
    BY <1>2, <1>4 DEF StatsBegin
  <2>2. Read(p)' = {}
    BY <1>2, <2>1 DEF Read, getShard
  <2>3. always'[p] \cap Read(p)' = {} /\ ever'[p] \cap Read(p)' = {}
    BY <2>2
  <2> QED BY <2>1, <2>3, FS_EmptySet
<1>5. ASSUME StatsShard(p)
      PROVE  /\ Cardinality(always'[p] \cap Read(p)') <= stat'[p].total
             /\ stat'[p].total <= Cardinality(ever'[p] \cap Read(p)')
  <2> DEFINE n == stat[p].next
             shard == {k \in Keys : getShard(k) = n}
  <2>1. /\ n \in Nat /\ n < NumShards /\ n \in Shards
        /\ stat[p].total \in Nat
        /\ stat'[p].next = n + 1
        /\ stat'[p].total = stat[p].total + Cardinality(Live(n))
        /\ Here' = Here
    BY <1>2, <1>5 DEF StatsShard, Shards, Here, Present
  <2>2. always[p] \subseteq Here /\ Here \subseteq ever[p]
    BY <2>1 DEF Runs, StatsInv, Histories
  <2>3. always'[p] = always[p] /\ ever'[p] = ever[p]
    <3>1. ~Begins(p) /\ Runs(p)
      BY <2>1 DEF Begins, Runs
    <3> QED BY <2>1, <2>2, <3>1 DEF SNext, Observe
  <2>4. Read(p)' = Read(p) \cup shard /\ Read(p) \cap shard = {}
    BY <1>2, <2>1 DEF Read, getShard
  <2>5. Live(n) = Here \cap shard
    BY DEF Live, Here
  <2> DEFINE alwaysIn == always[p] \cap shard
             everIn == ever[p] \cap shard
  <2>6. /\ Cardinality(alwaysIn) \in Nat /\ Cardinality(Live(n)) \in Nat
        /\ Cardinality(everIn) \in Nat
        /\ Cardinality(alwaysIn) <= Cardinality(Live(n))
        /\ Cardinality(Live(n)) <= Cardinality(everIn)
    <3>1. alwaysIn \subseteq Live(n) /\ Live(n) \subseteq everIn
      BY <2>2, <2>5
    <3>2. Live(n) \subseteq Keys /\ everIn \subseteq Keys
      BY <1>1 DEF Live
    <3> HIDE DEF alwaysIn, everIn, n
    <3> QED BY <3>1, <3>2, CountSubset
  <2>7. /\ Cardinality(always[p] \cap Read(p)) \in Nat
        /\ Cardinality(always'[p] \cap Read(p)')
             = Cardinality(always[p] \cap Read(p)) + Cardinality(alwaysIn)
    <3>1. /\ always'[p] \cap Read(p)' = (always[p] \cap Read(p)) \cup alwaysIn
          /\ (always[p] \cap Read(p)) \cap alwaysIn = {}
      BY <2>3, <2>4
    <3>2. always[p] \cap Read(p) \subseteq Keys /\ alwaysIn \subseteq Keys
      BY <1>1
    <3> HIDE DEF alwaysIn
    <3> QED BY <3>1, <3>2, CountPieces
  <2>8. /\ Cardinality(ever[p] \cap Read(p)) \in Nat
        /\ Cardinality(ever'[p] \cap Read(p)')
             = Cardinality(ever[p] \cap Read(p)) + Cardinality(everIn)
    <3>1. /\ ever'[p] \cap Read(p)' = (ever[p] \cap Read(p)) \cup everIn
          /\ (ever[p] \cap Read(p)) \cap everIn = {}
      BY <2>3, <2>4
    <3>2. ever[p] \cap Read(p) \subseteq Keys /\ everIn \subseteq Keys
      BY <1>1
    <3> HIDE DEF everIn
    <3> QED BY <3>1, <3>2, CountPieces
  <2> HIDE DEF n, alwaysIn, everIn
  <2> QED BY <1>3, <2>1, <2>6, <2>7, <2>8
<1>6. ASSUME stat'[p] = stat[p]
      PROVE  /\ Cardinality(always'[p] \cap Read(p)') <= stat'[p].total
             /\ stat'[p].total <= Cardinality(ever'[p] \cap Read(p)')
  <2>1. Read(p)' = Read(p)
    BY <1>6 DEF Read, getShard
  <2>2. ~Begins(p)
    BY <1>2, <1>6 DEF Begins
  <2>3. always'[p] \subseteq always[p] /\ ever[p] \subseteq ever'[p]
    BY <2>2 DEF SNext, Observe
  <2>4. /\ always'[p] \cap Read(p)' \subseteq always[p] \cap Read(p)
        /\ ever[p] \cap Read(p) \subseteq ever'[p] \cap Read(p)'
        /\ always[p] \cap Read(p) \subseteq Keys
        /\ ever'[p] \cap Read(p)' \subseteq Keys
    BY <1>1, <2>1, <2>3
  <2>5. /\ Cardinality(always'[p] \cap Read(p)') \in Nat
        /\ Cardinality(always[p] \cap Read(p)) \in Nat
        /\ Cardinality(always'[p] \cap Read(p)')
             <= Cardinality(always[p] \cap Read(p))
    BY <2>4, CountSubset
  <2>6. /\ Cardinality(ever'[p] \cap Read(p)') \in Nat
        /\ Cardinality(ever[p] \cap Read(p)) \in Nat
        /\ Cardinality(ever[p] \cap Read(p))
             <= Cardinality(ever'[p] \cap Read(p)')
    BY <2>4, CountSubset
  <2>7. stat[p].total \in Nat
    BY <1>2
  <2> QED BY <1>3, <1>6, <2>5, <2>6, <2>7
<1>7. ASSUME NEW q \in Procs, q # p, StatsBegin(q) \/ StatsShard(q)
      PROVE  stat'[p] = stat[p]
  BY <1>2, <1>7 DEF StatsBegin, StatsShard
<1> QED
  BY <1>4, <1>5, <1>6, <1>7
     DEF SNext, Next, Tick, GetRead, GetCheck, GetDelete, Delete, Set

\* Stats never misses a key that was there while it ran, and never counts one
\* that was not, though it adds up sizes the shards had at different moments.
THEOREM L1StatsWithin == SSpec => []StatsWithin
<1>1. SInit => StatsInv
  <2> SUFFICES ASSUME SInit PROVE StatsInv
    OBVIOUS
  <2>1. IInv
    BY InitIInv DEF SInit
  <2>2. Histories
    BY L1Assumption DEF SInit, Init, Histories, Runs
  <2>3. StatsWithin
    <3>1. ASSUME NEW p \in Procs
          PROVE  /\ always[p] \cap Read(p) = {} /\ ever[p] \cap Read(p) = {}
                 /\ stat[p].total = 0
      BY DEF SInit, Init
    <3> QED BY <3>1, FS_EmptySet DEF StatsWithin
  <2> QED BY <2>1, <2>2, <2>3 DEF StatsInv
<1>2. StatsInv /\ [SNext]_<<vars, statsVars>> => StatsInv'
  <2> SUFFICES ASSUME StatsInv, [SNext]_<<vars, statsVars>> PROVE StatsInv'
    OBVIOUS
  <2>1. CASE SNext
    <3>1. IInv'
      BY <2>1, NextPreserves DEF SNext, StatsInv
    <3>2. Histories'
      BY <2>1, HistoriesStep
    <3>3. StatsWithin'
      BY <2>1, WithinStep DEF StatsWithin
    <3> QED BY <3>1, <3>2, <3>3 DEF StatsInv
  <2>2. CASE UNCHANGED <<vars, statsVars>>
    <3>1. UNCHANGED vars /\ always' = always /\ ever' = ever
      BY <2>2 DEF statsVars
    <3>2. IInv'
      BY <3>1, NextPreserves DEF StatsInv
    <3>3. stat' = stat /\ items' = items
      BY <3>1 DEF vars
    <3>4. Histories'
      BY <3>1, <3>3 DEF StatsInv, Histories, Runs, Here, Present
    <3>5. StatsWithin'
      BY <3>1, <3>3 DEF StatsInv, StatsWithin, Read, getShard
    <3> QED BY <3>2, <3>4, <3>5 DEF StatsInv
  <2> QED BY <2>1, <2>2
<1>3. StatsInv => StatsWithin
  BY DEF StatsInv
<1> QED BY <1>1, <1>2, <1>3, PTL DEF SSpec

-----------------------------------------------------------------------------
(* Refinement *)

LEMMA RefinesInit == Init => Abs!LossyInit
BY EntryFacts DEF Init, Abs!LossyInit, Abs!NoHold

LEMMA RefinesNext == IInv /\ [Next]_vars => [Abs!LossyNext]_(Abs!lossyVars)
<1> SUFFICES ASSUME IInv, [Next]_vars
             PROVE  Abs!LossyNext \/ UNCHANGED Abs!lossyVars
  OBVIOUS
<1> DEFINE amap == [k \in Keys |-> items[k].value]
           aheld == [p \in Procs |-> [key |-> get[p].key,
                                     value |-> get[p].entry.value]]
<1>1. ASSUME UNCHANGED <<items, get, ret>>
      PROVE  UNCHANGED Abs!lossyVars
  BY <1>1 DEF Abs!lossyVars
<1>2. ASSUME NEW p \in Procs, NEW k \in Keys, GetRead(p, k)
      PROVE  Abs!Hold(p, k) \/ Abs!MissNow(p, k)
  <2>1. aheld[p] = Abs!NoHold
    BY <1>2, EntryFacts DEF GetRead, Idle, IInv, TypeOK, Abs!NoHold
  <2>2. CASE Present(k)
    <3>1. get' = [get EXCEPT ![p] = [pc |-> "check", key |-> k,
                                     entry |-> items[k]]]
      BY <1>2, <2>2 DEF GetRead
    <3>2. aheld' = [aheld EXCEPT ![p] = [key |-> k, value |-> amap[k]]]
      BY <3>1 DEF IInv, TypeOK
    <3>3. Abs!Hold(p, k)
      BY <1>2, <2>1, <2>2, <3>2 DEF GetRead, Abs!Hold, Present
    <3> QED BY <3>3
  <2>3. CASE ~Present(k)
    BY <1>2, <2>1, <2>3 DEF GetRead, Abs!MissNow, Present
  <2> QED BY <2>2, <2>3
<1>3. ASSUME NEW p \in Procs, GetCheck(p)
      PROVE  Abs!Hit(p) \/ UNCHANGED Abs!lossyVars
  <2>1. CASE now > get[p].entry.expiresAt
    <3>1. get' = [get EXCEPT ![p].pc = "expired"] /\ UNCHANGED <<items, ret>>
      BY <1>3, <2>1 DEF GetCheck
    <3>2. aheld' = aheld
      BY <3>1 DEF IInv, TypeOK
    <3> QED BY <3>1, <3>2 DEF Abs!lossyVars
  <2>2. CASE ~(now > get[p].entry.expiresAt)
    <3>1. /\ get' = [get EXCEPT ![p] = NoGet] /\ UNCHANGED items
          /\ ret' = [ret EXCEPT ![p] = get[p].entry.value]
      BY <1>3, <2>2 DEF GetCheck
    <3>2. aheld' = [aheld EXCEPT ![p] = Abs!NoHold]
      BY <3>1, EntryFacts DEF IInv, TypeOK, Abs!NoHold
    <3>3. aheld[p] # Abs!NoHold /\ aheld[p].value = get[p].entry.value
      BY <1>3, L1Assumption DEF GetCheck, IInv, TypeOK, Abs!NoHold
    <3>4. Abs!Hit(p)
      BY <3>1, <3>2, <3>3 DEF Abs!Hit
    <3> QED BY <3>4
  <2> QED BY <2>1, <2>2
<1>4. ASSUME NEW p \in Procs, GetDelete(p)
      PROVE  Abs!MissLate(p)
  <2>1. get[p].key \in Keys
    BY <1>4 DEF GetDelete, IInv, TypeOK
  <2>2. aheld' = [aheld EXCEPT ![p] = Abs!NoHold]
    BY <1>4, EntryFacts DEF GetDelete, IInv, TypeOK, Abs!NoHold
  <2>3. aheld[p] # Abs!NoHold /\ aheld[p].key = get[p].key
    BY <1>4, L1Assumption DEF GetDelete, IInv, TypeOK, Abs!NoHold
  <2>4. amap' = Abs!Forget({get[p].key})
    BY <1>4, EntryFacts DEF GetDelete, IInv, TypeOK, Abs!Forget
  <2> QED BY <1>4, <2>2, <2>3, <2>4 DEF GetDelete, Abs!MissLate
<1>5. ASSUME NEW p \in Procs, NEW k \in Keys, NEW v \in Values, Set(p, k, v)
      PROVE  Abs!Put(k, v)
  <2> DEFINE D == Eviction(k).victims \cap Keys
  <2>1. items' = [x \in Keys |->
                   IF x = k THEN [value |-> v, expiresAt |-> now + TTL]
                   ELSE IF x \in Eviction(k).victims THEN NoEntry ELSE items[x]]
    BY <1>5 DEF Set
  <2>2. amap' = [Abs!Forget(D) EXCEPT ![k] = v]
    BY <2>1, EntryFacts DEF Abs!Forget
  <2>3. UNCHANGED <<get, ret>>
    BY <1>5 DEF Set
  <2> QED BY <2>2, <2>3 DEF Abs!Put
<1>6. ASSUME NEW p \in Procs, NEW k \in Keys, Delete(p, k)
      PROVE  Abs!Lose({k})
  BY <1>6, EntryFacts DEF Delete, Abs!Lose, Abs!Forget, IInv, TypeOK
<1>7. CASE Tick
  BY <1>7, <1>1 DEF Tick
<1>8. ASSUME NEW p \in Procs, StatsBegin(p) \/ StatsShard(p)
      PROVE  UNCHANGED Abs!lossyVars
  BY <1>8, <1>1 DEF StatsBegin, StatsShard
<1>9. CASE UNCHANGED vars
  BY <1>9, <1>1 DEF vars
<1> QED
  BY <1>2, <1>3, <1>4, <1>5, <1>6, <1>7, <1>8, <1>9 DEF Next, Abs!LossyNext

\* L1Cache implements LossyMap: a Get that hits returns the value its key had
\* when Get read the map, and one that misses leaves the key absent; eviction,
\* expiry and concurrent writers can make the cache forget, never lie.
THEOREM L1ImplementsLossyMap == Spec => ImplementsLossyMap
<1>1. Init => Abs!LossyInit
  BY RefinesInit
<1>2. IInv /\ [Next]_vars => [Abs!LossyNext]_(Abs!lossyVars)
  BY RefinesNext
<1> QED BY <1>1, <1>2, L1Invariant, PTL DEF Spec, ImplementsLossyMap, Abs!LossySpec
=============================================================================
