------------------------------ MODULE LossyMap ------------------------------
(***************************************************************************)
(* What a cache tier promises its callers, and no more: a map that may     *)
(* forget any key at any time but never invents, mixes up or resurrects a  *)
(* value.  A lookup takes two steps: it takes hold of the value the key    *)
(* has now, and later either returns exactly that value or forgets the key *)
(* and misses.  L1Cache implements this specification; Manager uses its    *)
(* L1 tier through it.                                                     *)
(***************************************************************************)
CONSTANTS Keys, Values, Procs,
          None        \* the absence of a value, and the result of a miss

VARIABLES map,   \* map[k]: the value of k, or None
          held,  \* held[p]: what p's lookup took hold of, or NoHold
          ret    \* ret[p]: the result of p's last lookup

lossyVars == <<map, held, ret>>

NoHold == [key |-> None, value |-> None]

LossyInit ==
  /\ map = [k \in Keys |-> None]
  /\ held = [p \in Procs |-> NoHold]
  /\ ret = [p \in Procs |-> None]

Forget(D) == [k \in Keys |-> IF k \in D THEN None ELSE map[k]]

\* Storing a value may push any set of other keys out.
Put(k, v) ==
  /\ \E D \in SUBSET Keys : map' = [Forget(D) EXCEPT ![k] = v]
  /\ UNCHANGED <<held, ret>>

Lose(D) ==
  /\ map' = Forget(D)
  /\ UNCHANGED <<held, ret>>

Hold(p, k) ==
  /\ held[p] = NoHold
  /\ map[k] # None
  /\ held' = [held EXCEPT ![p] = [key |-> k, value |-> map[k]]]
  /\ UNCHANGED <<map, ret>>

\* A lookup of a key that is absent misses at once.
MissNow(p, k) ==
  /\ held[p] = NoHold
  /\ map[k] = None
  /\ ret' = [ret EXCEPT ![p] = None]
  /\ UNCHANGED <<map, held>>

Hit(p) ==
  /\ held[p] # NoHold
  /\ ret' = [ret EXCEPT ![p] = held[p].value]
  /\ held' = [held EXCEPT ![p] = NoHold]
  /\ UNCHANGED map

\* A lookup that took hold of a value may still miss, but then the key is gone.
MissLate(p) ==
  /\ held[p] # NoHold
  /\ ret' = [ret EXCEPT ![p] = None]
  /\ held' = [held EXCEPT ![p] = NoHold]
  /\ map' = Forget({held[p].key})

LossyNext ==
  \/ \E k \in Keys, v \in Values : Put(k, v)
  \/ \E D \in SUBSET Keys : Lose(D)
  \/ \E p \in Procs, k \in Keys : Hold(p, k) \/ MissNow(p, k)
  \/ \E p \in Procs : Hit(p) \/ MissLate(p)

LossySpec == LossyInit /\ [][LossyNext]_lossyVars
=============================================================================
