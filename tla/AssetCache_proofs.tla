------------------------- MODULE AssetCache_proofs -------------------------
(***************************************************************************)
(* Proofs about AssetCache, for every set of names, every budget and every *)
(* size of an asset within it.                                             *)
(***************************************************************************)
EXTENDS AssetCache, FiniteSetTheorems, TLAPS

TypeOK ==
  /\ items \in [Keys -> Asset \cup {NoAsset}]
  /\ curBytes \in Int

\* a cache, as a function from names to assets
Contents == [Keys -> Asset \cup {NoAsset}]

-----------------------------------------------------------------------------
(* Counting bytes *)

LEMMA SizeType ==
  ASSUME NEW f \in Contents, NEW k \in Keys
  PROVE  f[k].size \in Nat /\ f[k].size <= maxBytes /\ f[k].in \in BOOLEAN
<1>1. f[k] \in Asset \/ f[k] = NoAsset
  BY DEF Contents
<1>2. CASE f[k] = NoAsset
  BY <1>2, AssetAssumption DEF NoAsset
<1>3. CASE f[k] \in Asset
  <2>1. f[k].size \in Sizes /\ f[k].in = TRUE
    BY <1>3 DEF Asset
  <2> QED BY <2>1, AssetAssumption
<1> QED BY <1>1, <1>2, <1>3

LEMMA BytesFinite ==
  ASSUME NEW f, NEW S \in SUBSET Keys
  PROVE  IsFiniteSet(Bytes(f, S)) /\ Cardinality(Bytes(f, S)) \in Nat
<1>1. IsFiniteSet(S)
  BY AssetAssumption, FS_Subset
<1>2. IsFiniteSet(1 .. maxBytes)
  BY AssetAssumption, FS_Interval
<1>3. IsFiniteSet(S \X (1 .. maxBytes))
  BY <1>1, <1>2, FS_Product
<1>4. Bytes(f, S) \in SUBSET (S \X (1 .. maxBytes))
  BY DEF Bytes
<1>5. IsFiniteSet(Bytes(f, S))
  BY <1>3, <1>4, FS_Subset
<1> QED BY <1>5, FS_CardinalityType

\* One asset has as many bytes as its size.
LEMMA BytesOfOne ==
  ASSUME NEW f \in Contents, NEW k \in Keys
  PROVE  Cardinality(Bytes(f, {k})) = f[k].size
<1> DEFINE s == f[k].size
           g == [i \in 1 .. s |-> <<k, i>>]
<1>1. s \in Nat /\ s <= maxBytes /\ maxBytes \in Nat
  BY SizeType, AssetAssumption
<1>2. \A b : b \in Bytes(f, {k}) <=> \E i \in 1 .. maxBytes : b = <<k, i>> /\ i <= s
  BY DEF Bytes
<1>3. \A i \in 1 .. s : i \in 1 .. maxBytes /\ i <= s
  BY <1>1
<1>4. \A i \in 1 .. maxBytes : i <= s => i \in 1 .. s
  BY <1>1
<1> HIDE DEF s
<1>5. g \in Bijection(1 .. s, Bytes(f, {k}))
  BY <1>2, <1>3, <1>4 DEF Bijection, Injection, Surjection, IsInjective
<1>6. ExistsBijection(1 .. s, Bytes(f, {k}))
  BY <1>5 DEF ExistsBijection
<1>7. Cardinality(Bytes(f, {k})) = s
  BY <1>1, <1>6, FS_CountingElements
<1> QED BY <1>7 DEF s

LEMMA BytesOfUnion ==
  ASSUME NEW f, NEW S \in SUBSET Keys, NEW T \in SUBSET Keys
  PROVE  /\ Cardinality(Bytes(f, S \cup T))
              <= Cardinality(Bytes(f, S)) + Cardinality(Bytes(f, T))
         /\ S \cap T = {} => Cardinality(Bytes(f, S \cup T))
                               = Cardinality(Bytes(f, S)) + Cardinality(Bytes(f, T))
<1> DEFINE B == Bytes(f, S)
           C == Bytes(f, T)
<1>1. /\ IsFiniteSet(B) /\ Cardinality(B) \in Nat
      /\ IsFiniteSet(C) /\ Cardinality(C) \in Nat
  BY BytesFinite
<1>2. Bytes(f, S \cup T) = B \cup C
  BY DEF Bytes
<1>3. S \cap T = {} => B \cap C = {}
  BY DEF Bytes
<1> HIDE DEF B, C
<1>4. Cardinality(B \cup C) = Cardinality(B) + Cardinality(C) - Cardinality(B \cap C)
  BY <1>1, FS_Union
<1>5. IsFiniteSet(B \cap C) /\ Cardinality(B \cap C) \in Nat
  BY <1>1, FS_Intersection, FS_CardinalityType
<1>6. S \cap T = {} => Cardinality(B \cap C) = 0
  BY <1>3, FS_EmptySet
<1>7. /\ Cardinality(B \cup C) <= Cardinality(B) + Cardinality(C)
      /\ S \cap T = {} => Cardinality(B \cup C) = Cardinality(B) + Cardinality(C)
  BY <1>1, <1>4, <1>5, <1>6
<1> QED BY <1>2, <1>7 DEF B, C

\* Only the assets of S count.
LEMMA BytesOfSame ==
  ASSUME NEW f, NEW g, NEW S, \A k \in S : f[k] = g[k]
  PROVE  Bytes(f, S) = Bytes(g, S)
BY DEF Bytes

-----------------------------------------------------------------------------
(* set and remove *)

\* what curBytes says is at most what the cache holds, and within the budget
AInv == TypeOK /\ NeverOvercounts /\ CountWithinBudget

LEMMA HeldParts ==
  ASSUME TypeOK, NEW S \in SUBSET Cached, NEW T \in SUBSET Cached
  PROVE  /\ BytesOf(S) \in Nat
         /\ BytesOf(S \cup T) <= BytesOf(S) + BytesOf(T)
         /\ S \cap T = {} => BytesOf(S \cup T) = BytesOf(S) + BytesOf(T)
<1>1. S \in SUBSET Keys /\ T \in SUBSET Keys
  BY DEF Cached
<1> QED BY <1>1, BytesFinite, BytesOfUnion DEF BytesOf

LEMMA BytesOfKey ==
  ASSUME TypeOK, NEW k \in Keys
  PROVE  BytesOf({k}) = items[k].size
BY BytesOfOne DEF TypeOK, BytesOf, Contents

\* What the cache holds after set, from what it held: the evicted assets and the
\* one that was overwritten are gone, each once.
LEMMA HeldAfterSet ==
  ASSUME TypeOK, NEW k \in Keys, NEW size \in Sizes, NEW t \in Times, NEW E \in SUBSET Cached,
         items' = [x \in Keys |-> IF x = k THEN [size |-> size, at |-> t, in |-> TRUE]
                                 ELSE IF x \in E THEN NoAsset ELSE items[x]]
  PROVE  /\ items' \in [Keys -> Asset \cup {NoAsset}]
         /\ Held' \in Nat
         /\ Held' >= Held - BytesOf(E) - (IF items[k].in THEN items[k].size ELSE 0) + size
<1> DEFINE new == [size |-> size, at |-> t, in |-> TRUE]
           Old == {x \in {k} : items[x].in}
           Rest == Cached \ (E \cup Old)
<1>1. /\ items' \in [Keys -> Asset \cup {NoAsset}]
      /\ items'[k] = new /\ new.in /\ new.size = size
      /\ \A x \in Keys \ {k} : items'[x] = IF x \in E THEN NoAsset ELSE items[x]
  <2>1. new \in Asset /\ new.in /\ new.size = size
    BY DEF Asset
  <2>2. \A x \in Keys : items[x] \in Asset \cup {NoAsset}
    BY DEF TypeOK
  <2>3. items' = [x \in Keys |-> IF x = k THEN new ELSE IF x \in E THEN NoAsset ELSE items[x]]
    OBVIOUS
  <2> HIDE DEF new
  <2> QED BY <2>1, <2>2, <2>3
<1>2. Old \in SUBSET Cached /\ Rest \in SUBSET Cached /\ E \cup Old \in SUBSET Cached
  BY DEF Cached
<1>3. Cached' = Rest \cup {k} /\ Rest \cap {k} = {}
  <2>1. Cached' = {x \in Keys : items'[x].in}
    BY DEF Cached
  <2>2. ASSUME NEW x \in Keys
        PROVE  items'[x].in <=> x = k \/ x \in Rest
    <3>1. CASE x = k
      BY <1>1, <3>1
    <3>2. CASE x # k
      BY <1>1, <3>2 DEF Cached, NoAsset
    <3> QED BY <3>1, <3>2
  <2>3. \A x \in Rest : x \in Keys /\ x # k
    BY DEF Cached
  <2> HIDE DEF Rest
  <2> QED BY <2>1, <2>2, <2>3
<1>4. \A x \in Rest : items'[x] = items[x]
  BY <1>1, <1>3 DEF Cached
<1>5. BytesOf(Old) = IF items[k].in THEN items[k].size ELSE 0
  <2>1. CASE items[k].in
    <3>1. Old = {k}
      BY <2>1
    <3> QED BY <2>1, <3>1, BytesOfKey
  <2>2. CASE ~items[k].in
    <3>1. Bytes(items, Old) = {}
      BY <2>2 DEF Bytes
    <3> QED BY <2>2, <3>1, FS_EmptySet DEF BytesOf
  <2> QED BY <2>1, <2>2
<1> HIDE DEF Old
<1>6. BytesOf(Rest) \in Nat /\ BytesOf(Rest) >= Held - BytesOf(E) - BytesOf(Old)
  <2> DEFINE Gone == E \cup Old
  <2>1. Gone \in SUBSET Cached /\ Rest \cup Gone = Cached /\ Rest \cap Gone = {}
    BY <1>2
  <2>2. /\ BytesOf(Gone) <= BytesOf(E) + BytesOf(Old)
        /\ BytesOf(Gone) \in Nat /\ BytesOf(E) \in Nat /\ BytesOf(Old) \in Nat
    <3>1. BytesOf(Gone) <= BytesOf(E) + BytesOf(Old)
      BY <1>2, HeldParts
    <3> HIDE DEF Gone
    <3> QED BY <1>2, <2>1, <3>1, HeldParts
  <2> HIDE DEF Gone, Rest
  <2>3. BytesOf(Rest) \in Nat /\ BytesOf(Rest \cup Gone) = BytesOf(Rest) + BytesOf(Gone)
    BY <1>2, <2>1, HeldParts
  <2>4. Held = BytesOf(Rest) + BytesOf(Gone)
    BY <2>1, <2>3 DEF Held
  <2> QED BY <2>2, <2>3, <2>4
<1> HIDE DEF Rest, new
<1>7. Held' = BytesOf(Rest) + size
  <2>1. Rest \in SUBSET Keys /\ {k} \in SUBSET Keys /\ items' \in Contents
    BY <1>1, <1>2 DEF Cached, Contents
  <2>2. Held' = Cardinality(Bytes(items', Rest \cup {k}))
    BY <1>3 DEF Held, BytesOf
  <2>3. Cardinality(Bytes(items', Rest \cup {k}))
          = Cardinality(Bytes(items', Rest)) + Cardinality(Bytes(items', {k}))
    BY <1>3, <2>1, BytesOfUnion
  <2>4. Bytes(items', Rest) = Bytes(items, Rest)
    BY <1>4, BytesOfSame
  <2>5. Cardinality(Bytes(items', {k})) = size
    BY <1>1, <2>1, BytesOfOne
  <2> QED BY <2>2, <2>3, <2>4, <2>5 DEF BytesOf
<1>8. size \in Nat /\ Held \in Nat /\ BytesOf(E) \in Nat /\ BytesOf(Old) \in Nat
  <2>1. Cached \in SUBSET Cached
    OBVIOUS
  <2> QED BY <1>2, <2>1, HeldParts, AssetAssumption DEF Held
<1>9. Held' \in Nat /\ Held' >= Held - BytesOf(E) - BytesOf(Old) + size
  BY <1>6, <1>7, <1>8
<1> QED BY <1>1, <1>5, <1>9

LEMMA SetStep ==
  ASSUME AInv, NEW k \in Keys, NEW size \in Sizes, NEW t \in Times, set(k, size, t)
  PROVE  AInv'
<1> DEFINE old == IF items[k].in THEN items[k].size ELSE 0
<1>1. PICK E \in Evictions(Reduced(k), size) :
        /\ items' = [x \in Keys |-> IF x = k THEN [size |-> size, at |-> t, in |-> TRUE]
                                   ELSE IF x \in E THEN NoAsset ELSE items[x]]
        /\ curBytes' = Reduced(k) - BytesOf(E) + size
  BY DEF set
<1>2. /\ E \in SUBSET Cached
      /\ E = Cached \/ Reduced(k) - BytesOf(E) + size <= maxBytes
  BY <1>1 DEF Evictions
<1>3. /\ items' \in [Keys -> Asset \cup {NoAsset}]
      /\ Held' \in Nat /\ Held' >= Held - BytesOf(E) - old + size
  BY <1>1, <1>2, HeldAfterSet DEF AInv
<1>4. old \in Nat /\ Reduced(k) = curBytes - old
  BY SizeType DEF AInv, TypeOK, Contents, Reduced
<1>5. size \in Nat /\ size <= maxBytes /\ maxBytes \in Nat /\ curBytes \in Int
  BY AssetAssumption DEF AInv, TypeOK
<1>6. BytesOf(E) \in Nat /\ Held \in Nat
  BY <1>2, HeldParts DEF AInv, Held
<1> HIDE DEF old
<1>7. curBytes' \in Int /\ curBytes' <= Held'
  BY <1>1, <1>3, <1>4, <1>5, <1>6 DEF AInv, NeverOvercounts
<1>8. curBytes' <= maxBytes
  <2>1. CASE E = Cached
    BY <1>1, <1>4, <1>5, <1>6, <2>1 DEF AInv, NeverOvercounts, Held
  <2>2. CASE Reduced(k) - BytesOf(E) + size <= maxBytes
    BY <1>1, <2>2
  <2> QED BY <1>2, <2>1, <2>2
<1> QED BY <1>3, <1>7, <1>8 DEF AInv, TypeOK, NeverOvercounts, CountWithinBudget

LEMMA RemoveStep ==
  ASSUME AInv, NEW k \in Keys, remove(k)
  PROVE  AInv'
<1> DEFINE Rest == Cached \ {k}
<1>1. items[k].in /\ items' = [items EXCEPT ![k] = NoAsset] /\ curBytes' = curBytes - items[k].size
  BY DEF remove
<1>2. /\ items' \in [Keys -> Asset \cup {NoAsset}]
      /\ Cached' = Rest /\ \A x \in Rest : items'[x] = items[x]
  BY <1>1 DEF AInv, TypeOK, Cached, NoAsset
<1>3. /\ Rest \in SUBSET Cached /\ {k} \in SUBSET Cached
      /\ Rest \cup {k} = Cached /\ Rest \cap {k} = {}
  BY <1>1 DEF Cached
<1> HIDE DEF Rest
<1>4. Held = BytesOf(Rest) + items[k].size /\ BytesOf(Rest) \in Nat /\ items[k].size \in Nat
  <2>1. TypeOK /\ items \in Contents
    BY DEF AInv, TypeOK, Contents
  <2>2. BytesOf(Rest \cup {k}) = BytesOf(Rest) + BytesOf({k}) /\ BytesOf(Rest) \in Nat
    BY <1>3, <2>1, HeldParts
  <2>3. BytesOf({k}) = items[k].size /\ items[k].size \in Nat
    BY <2>1, BytesOfKey, SizeType
  <2> QED BY <1>3, <2>2, <2>3 DEF Held
<1>5. Held' = BytesOf(Rest)
  <2>1. Held' = Cardinality(Bytes(items', Rest))
    BY <1>2 DEF Held, BytesOf
  <2> QED BY <1>2, <2>1, BytesOfSame DEF BytesOf
<1>6. curBytes \in Int /\ maxBytes \in Nat
  BY AssetAssumption DEF AInv, TypeOK
<1> QED BY <1>1, <1>2, <1>4, <1>5, <1>6 DEF AInv, TypeOK, NeverOvercounts, CountWithinBudget

LEMMA AInvInit == Init => AInv
<1> SUFFICES ASSUME Init PROVE AInv
  OBVIOUS
<1>1. TypeOK /\ curBytes = 0 /\ maxBytes \in Nat
  BY AssetAssumption DEF Init, TypeOK
<1>2. Held \in Nat
  BY <1>1, HeldParts DEF Held
<1> QED BY <1>1, <1>2 DEF AInv, NeverOvercounts, CountWithinBudget

LEMMA AInvStep == AInv /\ [Next]_vars => AInv'
<1>1. ASSUME AInv, UNCHANGED vars PROVE AInv'
  BY <1>1 DEF AInv, vars, TypeOK, NeverOvercounts, CountWithinBudget, Held, BytesOf, Cached
<1> QED BY <1>1, SetStep, RemoveStep DEF Next

LEMMA AInvAlways == Spec => []AInv
BY AInvInit, AInvStep, PTL DEF Spec

\* curBytes never exceeds the bytes in the map, whatever set overwrites and
\* evicts: the cache never evicts for want of room it has.
THEOREM AssetNeverOvercounts == Spec => []NeverOvercounts
<1>1. AInv => NeverOvercounts
  BY DEF AInv
<1> QED BY <1>1, AInvAlways, PTL

\* The eviction loop always makes room: when it has emptied the map, curBytes is
\* not above zero.
THEOREM AssetCountWithinBudget == Spec => []CountWithinBudget
<1>1. AInv => CountWithinBudget
  BY DEF AInv
<1> QED BY <1>1, AInvAlways, PTL
==========================================================================
