------------------------------ MODULE L1Cache ------------------------------
(***************************************************************************)
(* internal/cache/l1.go: the sharded, TTL-aware in-process cache.          *)
(*                                                                         *)
(* A step is what one goroutine does inside one critical section of a      *)
(* shard's mutex, so Set and Delete are one step each and Get is up to     *)
(* three: the map read under RLock, the expiry check outside any lock, and *)
(* the lazy delete under Lock.                                             *)
(*                                                                         *)
(* Every key hashes to one shard, so the shards' maps are kept as one      *)
(* function items on Keys; Live(s) is the map of shard s.  Slots of        *)
(* shard.keys are numbered from 0 in the code and from 1 here.             *)
(***************************************************************************)
EXTENDS Integers, Sequences, FiniteSets, Functions

CONSTANTS Keys, Values, Procs, None,
          NumShards,    \* numShards, 256 in the code
          MinPerShard,  \* the floor on a shard's capacity, 64 in the code
          MaxSize,      \* NewL1's maxSize (L1_MAX_SIZE)
          TTL,          \* NewL1's ttl (L1_TTL)
          ShardOf,      \* the shard FNV-1a sends each key to
          MaxTime,      \* bound: the clock stops here
          MaxSlots      \* bound: the longest shard.keys explored

Shards == 0 .. NumShards - 1

ASSUME L1Assumption ==
  /\ NumShards \in Nat \ {0}
  /\ MinPerShard \in Nat \ {0}
  /\ MaxSize \in Int
  /\ TTL \in Nat
  /\ ShardOf \in [Keys -> Shards]
  /\ MaxTime \in Nat
  /\ MaxSlots \in Nat
  /\ IsFiniteSet(Keys)
  /\ None \notin Values
  /\ None \notin Keys

VARIABLES
  now,       \* time.Now(); monotonic
  items,     \* items[k]: the l1Entry of k, NoEntry when k is not in the map
  keys,      \* keys[s]: shard s's slots, in the order of insertion
  evictIdx,  \* evictIdx[s]: where shard s's next eviction starts looking
  get,       \* get[p]: p's Get in progress
  ret,       \* ret[p]: the value p's last Get returned, None for a miss
  stat       \* stat[p]: p's Stats in progress: next shard to read and sum

vars == <<now, items, keys, evictIdx, get, ret, stat>>

Entry == [value : Values \cup {None}, expiresAt : Nat]
NoEntry == [value |-> None, expiresAt |-> 0]
NoGet == [pc |-> "idle", key |-> None, entry |-> NoEntry]

\* NewL1: a shard's maxSize
perShard == IF MaxSize \div NumShards < MinPerShard
            THEN MinPerShard ELSE MaxSize \div NumShards

getShard(k) == ShardOf[k]

Present(k) == items[k].value # None
Live(s) == {k \in Keys : getShard(k) = s /\ Present(k)}

Idle(p) == get[p].pc = "idle" /\ stat[p].next = NumShards

-----------------------------------------------------------------------------
Init ==
  /\ now = 0
  /\ items = [k \in Keys |-> NoEntry]
  /\ keys = [s \in Shards |-> << >>]
  /\ evictIdx = [s \in Shards |-> 0]
  /\ get = [p \in Procs |-> NoGet]
  /\ ret = [p \in Procs |-> None]
  /\ stat = [p \in Procs |-> [next |-> NumShards, total |-> 0]]

Tick ==
  /\ now < MaxTime
  /\ now' = now + 1
  /\ UNCHANGED <<items, keys, evictIdx, get, ret, stat>>

-----------------------------------------------------------------------------
(* Get.  The entry is a pointer: what GetCheck looks at is the entry read, *)
(* whatever happened to the key since.                                     *)

\* A mutant: the presence check is dropped and a nil entry is carried on.
GetReadUnchecked(p, k) ==
  /\ Idle(p)
  /\ get' = [get EXCEPT ![p] = [pc |-> "check", key |-> k, entry |-> items[k]]]
  /\ UNCHANGED <<now, items, keys, evictIdx, ret, stat>>

GetRead(p, k) ==
  /\ Idle(p)
  /\ IF Present(k)
     THEN /\ get' = [get EXCEPT ![p] = [pc |-> "check", key |-> k,
                                        entry |-> items[k]]]
          /\ UNCHANGED ret
     ELSE /\ ret' = [ret EXCEPT ![p] = None]
          /\ UNCHANGED get
  /\ UNCHANGED <<now, items, keys, evictIdx, stat>>

\* A mutant: the value is looked up again instead of taken from the entry.
GetCheckRereads(p) ==
  /\ get[p].pc = "check"
  /\ IF now > get[p].entry.expiresAt
     THEN /\ get' = [get EXCEPT ![p].pc = "expired"]
          /\ UNCHANGED ret
     ELSE /\ get' = [get EXCEPT ![p] = NoGet]
          /\ ret' = [ret EXCEPT ![p] = items[get[p].key].value]
  /\ UNCHANGED <<now, items, keys, evictIdx, stat>>

GetCheck(p) ==
  /\ get[p].pc = "check"
  /\ IF now > get[p].entry.expiresAt
     THEN /\ get' = [get EXCEPT ![p].pc = "expired"]
          /\ UNCHANGED ret
     ELSE /\ get' = [get EXCEPT ![p] = NoGet]
          /\ ret' = [ret EXCEPT ![p] = get[p].entry.value]
  /\ UNCHANGED <<now, items, keys, evictIdx, stat>>

GetDelete(p) ==
  /\ get[p].pc = "expired"
  /\ items' = [items EXCEPT ![get[p].key] = NoEntry]
  /\ get' = [get EXCEPT ![p] = NoGet]
  /\ ret' = [ret EXCEPT ![p] = None]
  /\ UNCHANGED <<now, keys, evictIdx, stat>>

-----------------------------------------------------------------------------
(* Set and evictOne *)

\* evictOne's i-th probe: the slot it looks at, and the key in it
ProbeIdx(s, i) == (evictIdx[s] + i) % Len(keys[s])
ProbeKey(s, i) == keys[s][ProbeIdx(s, i) + 1]

\* the probes that find a key still in the map; evictOne stops at the first
LiveProbes(s) == {i \in 0 .. Len(keys[s]) - 1 : Present(ProbeKey(s, i))}
FirstLive(s) == CHOOSE i \in LiveProbes(s) : \A j \in LiveProbes(s) : i <= j

\* A mutant: only the slot at evictIdx is tried, live or stale.
evictOneGivesUp(s) ==
  IF 0 \notin LiveProbes(s)
  THEN [victims |-> {}, idx |-> evictIdx[s]]
  ELSE [victims |-> {ProbeKey(s, 0)},
        idx |-> (ProbeIdx(s, 0) + 1) % Len(keys[s])]

\* evictOne: the keys it deletes and where it leaves evictIdx
evictOne(s) ==
  IF LiveProbes(s) = {}
  THEN [victims |-> {}, idx |-> evictIdx[s]]
  ELSE [victims |-> {ProbeKey(s, FirstLive(s))},
        idx |-> (ProbeIdx(s, FirstLive(s)) + 1) % Len(keys[s])]

Full(s) == Cardinality(Live(s)) >= perShard

Eviction(k) ==
  IF Full(getShard(k)) /\ ~Present(k)
  THEN evictOne(getShard(k))
  ELSE [victims |-> {}, idx |-> evictIdx[getShard(k)]]

\* A mutant: a Set that evicted reuses the victim's slot and appends none.
SetNoSlot(p, k, v) ==
  LET s == getShard(k)
      ev == Eviction(k)
  IN  /\ Idle(p)
      /\ items' = [x \in Keys |->
                     IF x = k THEN [value |-> v, expiresAt |-> now + TTL]
                     ELSE IF x \in ev.victims THEN NoEntry ELSE items[x]]
      /\ evictIdx' = [evictIdx EXCEPT ![s] = ev.idx]
      /\ keys' = IF Present(k) \/ ev.victims # {} \/ Len(keys[s]) = MaxSlots
                 THEN keys ELSE [keys EXCEPT ![s] = Append(@, k)]
      /\ UNCHANGED <<now, get, ret, stat>>

Set(p, k, v) ==
  LET s == getShard(k)
      ev == Eviction(k)
  IN  /\ Idle(p)
      /\ ~Present(k) => Len(keys[s]) < MaxSlots
      /\ items' = [x \in Keys |->
                     IF x = k THEN [value |-> v, expiresAt |-> now + TTL]
                     ELSE IF x \in ev.victims THEN NoEntry ELSE items[x]]
      /\ evictIdx' = [evictIdx EXCEPT ![s] = ev.idx]
      /\ keys' = IF Present(k) THEN keys
                 ELSE [keys EXCEPT ![s] = Append(@, k)]
      /\ UNCHANGED <<now, get, ret, stat>>

Delete(p, k) ==
  /\ Idle(p)
  /\ items' = [items EXCEPT ![k] = NoEntry]
  /\ UNCHANGED <<now, keys, evictIdx, get, ret, stat>>

-----------------------------------------------------------------------------
(* Stats adds the shards' sizes one RLock at a time, while others write.     *)
(* What that sum means is in L1Stats.                                        *)

StatsBegin(p) ==
  /\ Idle(p)
  /\ stat' = [stat EXCEPT ![p] = [next |-> 0, total |-> 0]]
  /\ UNCHANGED <<now, items, keys, evictIdx, get, ret>>

\* A mutant: the slots are counted, stale ones too.
StatsShardSlots(p) ==
  LET s == stat[p].next
  IN  /\ s < NumShards
      /\ stat' = [stat EXCEPT ![p] = [next |-> s + 1,
                                     total |-> stat[p].total + Len(keys[s])]]
      /\ UNCHANGED <<now, items, keys, evictIdx, get, ret>>

StatsShard(p) ==
  LET s == stat[p].next
  IN  /\ s < NumShards
      /\ stat' = [stat EXCEPT ![p] =
                    [next |-> s + 1,
                     total |-> stat[p].total + Cardinality(Live(s))]]
      /\ UNCHANGED <<now, items, keys, evictIdx, get, ret>>

-----------------------------------------------------------------------------
Next ==
  \/ Tick
  \/ \E p \in Procs, k \in Keys :
       \/ GetRead(p, k)
       \/ Delete(p, k)
       \/ \E v \in Values : Set(p, k, v)
  \/ \E p \in Procs :
       GetCheck(p) \/ GetDelete(p) \/ StatsBegin(p) \/ StatsShard(p)

Spec == Init /\ [][Next]_vars

-----------------------------------------------------------------------------
(* What makes the cache correct *)

\* The values the variables range over.  A Get past its map read holds an
\* entry that was in the map, never a nil pointer; evictIdx is a slot of the
\* shard, or 0 while it has none.
TypeOK ==
  /\ now \in 0 .. MaxTime
  /\ items \in [Keys -> Entry]
  /\ keys \in [Shards -> Seq(Keys)]
  /\ evictIdx \in [Shards -> Nat]
  /\ \A s \in Shards : evictIdx[s] = 0 \/ evictIdx[s] < Len(keys[s])
  /\ get \in [Procs -> [pc : {"idle", "check", "expired"},
                        key : Keys \cup {None}, entry : Entry]]
  /\ \A p \in Procs :
       IF get[p].pc = "idle" THEN get[p] = NoGet
       ELSE get[p].key \in Keys /\ get[p].entry.value # None
  /\ ret \in [Procs -> Values \cup {None}]
  /\ stat \in [Procs -> [next : 0 .. NumShards, total : Nat]]

\* Set's eviction keeps every shard within its maxSize, whatever lazy deletes,
\* Deletes and reinsertions have left in shard.keys (l1.go, Set and evictOne).
SizeBound == \A s \in Shards : Cardinality(Live(s)) <= perShard

\* Every key in a shard's map has a slot at or after evictIdx: evictOne, which
\* knows the map only through those slots, reaches every entry without ever
\* wrapping around, and the slots before evictIdx are never used again.
SlotsAhead ==
  \A s \in Shards : \A k \in Live(s) :
    \E i \in 1 .. Len(keys[s]) : i > evictIdx[s] /\ keys[s][i] = k

\* The cache implements the abstract lossy map: a Get returns the value its key
\* had at the moment of the map read, or misses because the key is absent then
\* or is removed by that very Get.
Abs == INSTANCE LossyMap WITH
  map <- [k \in Keys |-> items[k].value],
  held <- [p \in Procs |-> [key |-> get[p].key, value |-> get[p].entry.value]],
  ret <- ret

ImplementsLossyMap == Abs!LossySpec

=============================================================================
