----------------------------- MODULE AssetCache -----------------------------
(***************************************************************************)
(* assetCache of internal/binaryhandler/handler.go: the in-memory cache of *)
(* binary assets, bounded by the bytes it holds.  set and remove each run  *)
(* under the write lock, so each is one step; get changes nothing but the  *)
(* hit counters and is left out.                                           *)
(*                                                                         *)
(* The caller reads the clock (cachedAt) before it takes the lock, so the  *)
(* times may arrive in any order.                                          *)
(***************************************************************************)
EXTENDS Integers, FiniteSets

CONSTANTS Keys,
          Sizes,     \* the lengths of the assets
          Times,     \* the cachedAt times
          maxBytes,  \* newAssetCache's budget, 512 MB in the code
          MaxDrift   \* bound: how far below zero curBytes is followed

ASSUME AssetAssumption ==
  /\ IsFiniteSet(Keys)
  /\ Sizes \subseteq Nat
  /\ Times \subseteq Nat
  /\ maxBytes \in Nat
  /\ MaxDrift \in Nat
  /\ \A n \in Sizes : n <= maxBytes   \* an upload is cut at 100 MB

VARIABLES
  items,    \* items[k]: size and cachedAt of the asset, NoAsset if not cached
  curBytes  \* the bytes the cache believes it holds

vars == <<items, curBytes>>

NoAsset == [size |-> 0, at |-> 0, in |-> FALSE]
Asset == [size : Sizes, at : Times, in : {TRUE}]

Cached == {k \in Keys : items[k].in}

\* the bytes of the assets S of f, counted one by one: no asset exceeds maxBytes
Bytes(f, S) == {b \in S \X (1 .. maxBytes) : b[2] <= f[b[1]].size}
BytesOf(S) == Cardinality(Bytes(items, S))

\* the bytes the cache really holds
Held == BytesOf(Cached)

-----------------------------------------------------------------------------
\* curBytes once set(k, ...) has subtracted the size of the asset it replaces,
\* which stays in the map while set evicts
Reduced(k) == curBytes - (IF items[k].in THEN items[k].size ELSE 0)

\* A mutant: an "if" in place of the "for": at most one asset is evicted.
EvictionsOnce(cur, size) ==
  IF cur + size <= maxBytes \/ Cached = {} THEN {{}}
  ELSE {{x} : x \in {y \in Cached : \A z \in Cached : items[y].at <= items[z].at}}

\* The sets of keys the eviction loop may delete, from curBytes = cur, to make
\* room for size bytes: it takes the oldest asset each time, any of them when
\* cachedAt ties, and stops as soon as size fits or nothing is left.
Evictions(cur, size) ==
  {E \in SUBSET Cached :
     /\ \A x \in E, y \in Cached \ E : items[x].at <= items[y].at
     /\ E = Cached \/ cur - BytesOf(E) + size <= maxBytes
     /\ E # {} => \E last \in E :
                    /\ \A x \in E : items[x].at <= items[last].at
                    /\ cur - BytesOf(E \ {last}) + size > maxBytes}

set(k, size, at) ==
  \E E \in Evictions(Reduced(k), size) :
    /\ items' = [x \in Keys |-> IF x = k THEN [size |-> size, at |-> at, in |-> TRUE]
                               ELSE IF x \in E THEN NoAsset ELSE items[x]]
    /\ curBytes' = Reduced(k) - BytesOf(E) + size
    /\ curBytes' >= -MaxDrift

\* A mutant: curBytes is not given back.
removeKeepsBytes(k) ==
  /\ items[k].in
  /\ items' = [items EXCEPT ![k] = NoAsset]
  /\ UNCHANGED curBytes

remove(k) ==
  /\ items[k].in
  /\ items' = [items EXCEPT ![k] = NoAsset]
  /\ curBytes' = curBytes - items[k].size

Init ==
  /\ items = [k \in Keys |-> NoAsset]
  /\ curBytes = 0

Next ==
  \E k \in Keys :
    \/ remove(k)
    \/ \E size \in Sizes, at \in Times : set(k, size, at)

Spec == Init /\ [][Next]_vars

-----------------------------------------------------------------------------
\* The cache never believes it holds more than it does, whatever overwrites,
\* evictions of the asset being overwritten and removals come before: it never
\* evicts for want of room it has.
NeverOvercounts == curBytes <= Held

\* By its own count the cache stays within its budget.
CountWithinBudget == curBytes <= maxBytes

\* handler.go:24 "In-memory LRU cache (up to 512MB)": the assets in memory fit
\* the budget.
HeldWithinBudget == Held <= maxBytes
=============================================================================
