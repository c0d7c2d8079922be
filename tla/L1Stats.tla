------------------------------ MODULE L1Stats ------------------------------
(***************************************************************************)
(* What the sum that Stats (internal/cache/l1.go) returns is worth.  Stats *)
(* locks one shard after the other, so the sizes it adds up may be of      *)
(* different moments, and the sum a size the cache never had.              *)
(*                                                                         *)
(* Two histories say what was in the cache while a Stats ran.              *)
(***************************************************************************)
EXTENDS L1Cache

VARIABLES
  always,  \* always[p]: the keys in the cache at every moment of p's Stats
  ever     \* ever[p]: the keys in the cache at some moment of p's Stats

statsVars == <<always, ever>>

Here == {k \in Keys : Present(k)}

Begins(p) == stat[p].next = NumShards /\ stat'[p].next = 0
Runs(p) == stat[p].next < NumShards

SInit ==
  /\ Init
  /\ always = [p \in Procs |-> {}]
  /\ ever = [p \in Procs |-> {}]

Observe ==
  /\ always' = [p \in Procs |-> IF Begins(p) THEN Here'
                                ELSE IF Runs(p) THEN always[p] \cap Here'
                                ELSE always[p]]
  /\ ever' = [p \in Procs |-> IF Begins(p) THEN Here'
                              ELSE IF Runs(p) THEN ever[p] \cup Here'
                              ELSE ever[p]]

SNext == Next /\ Observe

SSpec == SInit /\ [][SNext]_<<vars, statsVars>>

-----------------------------------------------------------------------------
\* the keys of the shards p's Stats has read
Read(p) == {k \in Keys : getShard(k) < stat[p].next}

\* Stats reads the shards one lock at a time while others insert, delete and
\* evict (l1.go, Stats): a key may be counted though it is gone by the end, and
\* one that moved in after its shard was read is not.  But every key that was
\* there all the time is counted, and none that was never there.
StatsWithin ==
  \A p \in Procs :
    /\ Cardinality(always[p] \cap Read(p)) <= stat[p].total
    /\ stat[p].total <= Cardinality(ever[p] \cap Read(p))

=============================================================================
