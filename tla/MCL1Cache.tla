----------------------------- MODULE MCL1Cache -----------------------------
(* Instances of L1Cache for TLC: two keys that collide in the first of two *)
(* shards, and a maxSize that only the floor makes room for.               *)
EXTENDS L1Cache, TLC

CONSTANTS a, b, p1, p2, u, v

Collide == [k \in Keys |-> 0]

Alike == Permutations({a, b}) \cup Permutations({p1, p2}) \cup Permutations({u, v})
=============================================================================
