--------------------------- MODULE Metrics_proofs ---------------------------
(***************************************************************************)
(* Proofs about Metrics, for every number of requests and keys and every   *)
(* length of a run.  The properties relate counters to the numbers of      *)
(* requests at certain places; a step moves one request, but for the end   *)
(* of a singleflight call, which moves all who joined it.                  *)
(***************************************************************************)
EXTENDS Metrics, FiniteSetTheorems, TLAPS

-----------------------------------------------------------------------------
(* Counting *)

Has(S, x) == IF x \in S THEN 1 ELSE 0

\* A set of requests that gains or loses at most r.
LEMMA OneChanges ==
  ASSUME NEW r \in Reqs, NEW S \in SUBSET Reqs, NEW T \in SUBSET Reqs,
         \A q \in Reqs \ {r} : q \in S <=> q \in T
  PROVE  /\ Cardinality(S) \in Nat /\ Cardinality(T) \in Nat
         /\ Cardinality(T) = Cardinality(S) + Has(T, r) - Has(S, r)
<1>1. IsFiniteSet(S) /\ IsFiniteSet(T) /\ IsFiniteSet(S \ {r})
  BY MetricsAssumption, FS_Subset
<1>2. Cardinality(S) \in Nat /\ Cardinality(T) \in Nat /\ Cardinality(S \ {r}) \in Nat
  BY <1>1, FS_CardinalityType
<1>3. Cardinality(S \ {r}) = Cardinality(S) - Has(S, r)
  BY <1>1, <1>2, FS_RemoveElement DEF Has
<1>4. Cardinality(T \ {r}) = Cardinality(T) - Has(T, r)
  <2>1. Cardinality(T \ {r}) = IF r \in T THEN Cardinality(T) - 1 ELSE Cardinality(T)
    BY <1>1, FS_RemoveElement
  <2> QED BY <1>2, <2>1 DEF Has
<1>5. S \ {r} = T \ {r}
  OBVIOUS
<1>6. Has(S, r) \in Int /\ Has(T, r) \in Int
  BY DEF Has
<1> QED BY <1>2, <1>3, <1>4, <1>5, <1>6

\* The requests at the places P, when only r may come or leave.
LEMMA NumberChanges ==
  ASSUME NEW r \in Reqs, NEW P,
         \A q \in Reqs \ {r} : req'[q].pc \in P <=> req[q].pc \in P
  PROVE  /\ Number(P) \in Nat /\ Number(P)' \in Nat
         /\ Number(P)' = Number(P) + Has(P, req'[r].pc) - Has(P, req[r].pc)
<1> DEFINE S == {q \in Reqs : req[q].pc \in P}
           T == {q \in Reqs : req'[q].pc \in P}
<1>1. /\ S \in SUBSET Reqs /\ T \in SUBSET Reqs /\ \A q \in Reqs \ {r} : q \in S <=> q \in T
      /\ Has(T, r) = Has(P, req'[r].pc) /\ Has(S, r) = Has(P, req[r].pc)
  BY DEF Has
<1>2. Number(P) = Cardinality(S) /\ Number(P)' = Cardinality(T)
  BY DEF Number
<1> HIDE DEF S, T
<1> QED BY <1>1, <1>2, OneChanges

LEMMA NumberType == \A P : Number(P) \in Nat /\ Number(P)' \in Nat
<1> TAKE P
<1>1. {q \in Reqs : req[q].pc \in P} \in SUBSET Reqs /\ {q \in Reqs : req'[q].pc \in P} \in SUBSET Reqs
  OBVIOUS
<1> QED BY <1>1, MetricsAssumption, FS_Subset, FS_CardinalityType DEF Number

\* When nobody comes or leaves.
LEMMA NumberKept ==
  ASSUME NEW P, \A q \in Reqs : req'[q].pc \in P <=> req[q].pc \in P
  PROVE  Number(P)' = Number(P)
<1>1. {q \in Reqs : req'[q].pc \in P} = {q \in Reqs : req[q].pc \in P}
  OBVIOUS
<1> QED BY <1>1 DEF Number

-----------------------------------------------------------------------------
(* What a step of a request may do *)

\* r alone moves
Move(r, from, to) ==
  /\ req[r].pc = from /\ req'[r].pc = to
  /\ \A q \in Reqs \ {r} : req'[q] = req[q]

\* r's Get and RPC stay the same
Same(r) == req'[r].api = req[r].api /\ (req'[r].key = req[r].key \/ req[r].pc = "next")

Adds(c) == n'[c] = n[c] + 1 /\ \A d \in Counters \ {c} : n'[d] = n[d]

\* the places where r adds to a counter
Counting(r) ==
  /\ came' = came /\ Same(r)
  /\ \/ Move(r, "l1", "lat") /\ Adds("L1Hits")
     \/ Move(r, "l1", "l2") /\ Adds("L1Misses")
     \/ Move(r, "l2", "lat") /\ Adds("L2Hits")
     \/ Move(r, "l2", "do") /\ Adds("L2Misses")
     \/ Move(r, "l2", "l2err") /\ Adds("OriginErrors")
     \/ Move(r, "l2err", "do") /\ Adds("L2Misses")
     \/ Move(r, "call", "origin") /\ Adds("OriginCalls")
     \/ Move(r, "origin", "end") /\ Adds("OriginErrors") /\ jitter > 0
     \/ Move(r, "shared", "lat") /\ Adds("CoalescedCalls")
     \/ Move(r, "lat", "total") /\ Adds("TotalLatencyNs")
     \/ Move(r, "total", "next") /\ Adds("TotalRequests")
     \/ Move(r, "plat", "ptotal") /\ Adds("TotalLatencyNs")
     \/ Move(r, "ptotal", "unwound") /\ Adds("TotalRequests")
     \/ Move(r, "rpclat", "rpctotal") /\ Adds("TotalLatencyNs")
     \/ Move(r, "rpctotal", "idle") /\ Adds("TotalRequests")

\* the others
Going(r) ==
  /\ came' = came /\ n' = n /\ Same(r)
  /\ \/ Move(r, "next", "l1")
     \/ Move(r, "next", "rpclat") /\ req[r].api = "grpc"
     \/ Move(r, "next", "idle") /\ req[r].api # "grpc"
     \/ Move(r, "do", "call")
     \/ Move(r, "do", "wait") /\ UseSF
     \/ Move(r, "origin", "end") /\ jitter > 0
     \/ Move(r, "unwound", "idle") /\ req[r].api # "grpc"

Coming(r) ==
  /\ n' = n /\ Move(r, "idle", "next")
  /\ \/ req'[r].api = "grpc" /\ came'["grpc"] = came["grpc"] + 1
     \/ req'[r].api = "http" /\ came'["grpc"] = came["grpc"]

\* r's call ends, for r and all who joined
Ending(r) ==
  /\ came' = came /\ n' = n /\ req[r].pc = "end"
  /\ \/ /\ Joined(r) = {}
        /\ req'[r].pc = "lat" /\ Same(r)
        /\ \A q \in Reqs \ {r} : req'[q] = req[q]
     \/ /\ Joined(r) # {}
        /\ \A q \in Reqs : req'[q].api = req[q].api /\ req'[q].key = req[q].key
        /\ \A q \in Joined(r) \cup {r} : req'[q].pc = "shared"
        /\ \A q \in Reqs \ (Joined(r) \cup {r}) : req'[q] = req[q]

\* r's call panics, for r and all who joined
Panicking(r) ==
  /\ came' = came /\ n' = n /\ req[r].pc = "origin" /\ jitter <= 0
  /\ \A q \in Reqs : req'[q].api = req[q].api /\ req'[q].key = req[q].key
  /\ \A q \in Joined(r) \cup {r} : req'[q].pc = "plat"
  /\ \A q \in Reqs \ (Joined(r) \cup {r}) : req'[q] = req[q]

StepEffect(r) ==
  /\ Counting(r) \/ Going(r) \/ Coming(r) \/ Ending(r) \/ Panicking(r)
  /\ snap' = snap /\ at' = at /\ jitter' = jitter

LEMMA GotoFacts ==
  ASSUME TypeOK, NEW r \in Reqs, NEW pc \in PCs, req' = Goto(r, pc)
  PROVE  /\ req' \in [Reqs -> Request]
         /\ Move(r, req[r].pc, pc) /\ Same(r)
<1> DEFINE x == [req[r] EXCEPT !.pc = pc]
<1>1. req[r] \in Request /\ req \in [Reqs -> Request]
  BY DEF TypeOK
<1>2. x \in Request /\ x.pc = pc /\ x.api = req[r].api /\ x.key = req[r].key
  BY <1>1 DEF Request
<1>3. req' = [req EXCEPT ![r] = x]
  BY DEF Goto
<1> HIDE DEF Request, x
<1> QED BY <1>1, <1>2, <1>3 DEF Move, Same

LEMMA LookupFacts ==
  ASSUME TypeOK, NEW r \in Reqs, NEW from, NEW c \in Counters, NEW to \in PCs,
         Lookup(r, from, c, to)
  PROVE  /\ TypeOK' /\ Move(r, from, to) /\ Same(r) /\ Adds(c)
         /\ UNCHANGED <<came, snap, at, jitter>>
<1>1. req' \in [Reqs -> Request] /\ Move(r, from, to) /\ Same(r)
  BY GotoFacts DEF Lookup, At
<1>2. n' \in [Counters -> Nat] /\ Adds(c)
  BY DEF Lookup, Count, TypeOK, Adds
<1> QED BY <1>1, <1>2 DEF Lookup, TypeOK

LEMMA CountingFacts ==
  ASSUME TypeOK, NEW r \in Reqs,
         \/ L1Hit(r) \/ L1Miss(r) \/ L2Hit(r) \/ L2Nil(r) \/ L2Error(r) \/ L2Miss(r)
         \/ OriginCall(r) \/ OriginFail(r) \/ Coalesced(r) \/ RecordLatency(r)
  PROVE  TypeOK' /\ StepEffect(r)
<1> USE LookupFacts DEF Counters, PCs, InGet, Counting, StepEffect
<1>1. CASE L1Hit(r)
  BY <1>1 DEF L1Hit
<1>2. CASE L1Miss(r)
  BY <1>2 DEF L1Miss
<1>3. CASE L2Hit(r)
  BY <1>3 DEF L2Hit
<1>4. CASE L2Nil(r)
  BY <1>4 DEF L2Nil
<1>5. CASE L2Error(r)
  BY <1>5 DEF L2Error
<1>6. CASE L2Miss(r)
  BY <1>6 DEF L2Miss
<1>7. CASE OriginCall(r)
  BY <1>7 DEF OriginCall
<1>8. CASE OriginFail(r)
  <2>1. jitter > 0 /\ Lookup(r, "origin", "OriginErrors", "end")
    BY <1>8 DEF OriginFail
  <2> QED BY <2>1
<1>9. CASE Coalesced(r)
  BY <1>9 DEF Coalesced
<1>10. CASE RecordLatency(r)
  <2>1. CASE Lookup(r, "lat", "TotalLatencyNs", "total")
    BY <2>1
  <2>2. CASE Lookup(r, "total", "TotalRequests", "next")
    BY <2>2
  <2>3. CASE Lookup(r, "rpclat", "TotalLatencyNs", "rpctotal")
    BY <2>3
  <2>4. CASE Lookup(r, "rpctotal", "TotalRequests", "idle")
    BY <2>4
  <2>5. CASE Lookup(r, "plat", "TotalLatencyNs", "ptotal")
    BY <2>5
  <2>6. CASE Lookup(r, "ptotal", "TotalRequests", "unwound")
    BY <2>6
  <2> QED BY <1>10, <2>1, <2>2, <2>3, <2>4, <2>5, <2>6 DEF RecordLatency, Record
<1> QED BY <1>1, <1>2, <1>3, <1>4, <1>5, <1>6, <1>7, <1>8, <1>9, <1>10

LEMMA GoingFacts ==
  ASSUME TypeOK, NEW r \in Reqs,
         \/ Handled(r) \/ Lead(r) \/ Join(r) \/ OriginReturn(r) \/ Recovered(r)
         \/ \E k \in Keys : NextGet(r, k)
  PROVE  TypeOK' /\ StepEffect(r)
<1> USE DEF Going, StepEffect
<1>0. "wait" \in PCs /\ "call" \in PCs /\ "end" \in PCs /\ "rpclat" \in PCs /\ "idle" \in PCs
  BY DEF PCs, InGet
<1>1. CASE Handled(r)
  <2>1. /\ req[r].pc = "next" /\ UNCHANGED <<n, flight, came, snap, at, jitter>>
        /\ req' = Goto(r, IF req[r].api = "grpc" THEN "rpclat" ELSE "idle")
    BY <1>1 DEF Handled, At
  <2>2. CASE req[r].api = "grpc"
    <3>1. req' = Goto(r, "rpclat")
      BY <2>1, <2>2
    <3>2. req' \in [Reqs -> Request] /\ Move(r, "next", "rpclat") /\ Same(r)
      BY <1>0, <2>1, <3>1, GotoFacts
    <3> QED BY <2>1, <2>2, <3>2 DEF TypeOK
  <2>3. CASE req[r].api # "grpc"
    <3>1. req' = Goto(r, "idle")
      BY <2>1, <2>3
    <3>2. req' \in [Reqs -> Request] /\ Move(r, "next", "idle") /\ Same(r)
      BY <1>0, <2>1, <3>1, GotoFacts
    <3> QED BY <2>1, <2>3, <3>2 DEF TypeOK
  <2> QED BY <2>2, <2>3
<1>2. CASE Lead(r)
  <2>1. req' \in [Reqs -> Request] /\ Move(r, "do", "call") /\ Same(r)
    BY <1>0, <1>2, GotoFacts DEF Lead, At
  <2>2. flight' \in [Keys -> Reqs \cup {NoReq}] /\ UNCHANGED <<n, came, snap, at, jitter>>
    BY <1>2 DEF Lead, TypeOK
  <2> QED BY <2>1, <2>2 DEF TypeOK
<1>3. CASE Join(r)
  <2>1. req' \in [Reqs -> Request] /\ Move(r, "do", "wait") /\ Same(r)
    BY <1>0, <1>3, GotoFacts DEF Join, At
  <2> QED BY <1>3, <2>1 DEF Join, TypeOK
<1>4. CASE OriginReturn(r)
  <2>1. req' \in [Reqs -> Request] /\ Move(r, "origin", "end") /\ Same(r)
    BY <1>0, <1>4, GotoFacts DEF OriginReturn, At
  <2> QED BY <1>4, <2>1 DEF OriginReturn, TypeOK
<1>5. ASSUME NEW k \in Keys, NextGet(r, k)
      PROVE  TypeOK' /\ StepEffect(r)
  <2> DEFINE x == [req[r] EXCEPT !.key = k, !.gets = @ - 1, !.pc = "l1"]
  <2>1. req[r] \in Request /\ req \in [Reqs -> Request] /\ "l1" \in PCs
    BY DEF TypeOK, PCs, InGet
  <2>2. req[r].pc = "next" /\ req[r].gets > 0 /\ UNCHANGED <<n, flight, came, snap, at, jitter>>
    BY <1>5 DEF NextGet, At
  <2>3. x \in Request /\ x.pc = "l1" /\ x.api = req[r].api
    <3> DEFINE g == req[r].gets - 1
    <3>1. g \in Nat
      BY <2>1, <2>2 DEF Request
    <3>2. x = [req[r] EXCEPT !.key = k, !.gets = g, !.pc = "l1"]
      OBVIOUS
    <3> HIDE DEF g, x
    <3> QED BY <2>1, <3>1, <3>2 DEF Request
  <2>4. req' = [req EXCEPT ![r] = x]
    BY <1>5 DEF NextGet
  <2> HIDE DEF x
  <2>5. req' \in [Reqs -> Request] /\ Move(r, "next", "l1") /\ Same(r)
    BY <2>1, <2>2, <2>3, <2>4 DEF Move, Same
  <2> QED BY <2>2, <2>5 DEF TypeOK
<1>6. CASE Recovered(r)
  <2> DEFINE x == [req[r] EXCEPT !.gets = 0, !.pc = "idle"]
  <2>1. req[r] \in Request /\ req \in [Reqs -> Request]
    BY DEF TypeOK
  <2>2. req[r].pc = "unwound" /\ req[r].api = "http" /\ UNCHANGED <<n, flight, came, snap, at, jitter>>
    BY <1>6 DEF Recovered, At
  <2>3. x \in Request /\ x.pc = "idle" /\ x.api = req[r].api /\ x.key = req[r].key
    BY <1>0, <2>1 DEF Request
  <2>4. req' = [req EXCEPT ![r] = x]
    BY <1>6 DEF Recovered
  <2> HIDE DEF x
  <2>5. req' \in [Reqs -> Request] /\ Move(r, "unwound", "idle") /\ Same(r)
    BY <2>1, <2>2, <2>3, <2>4 DEF Move, Same
  <2> QED BY <2>2, <2>5 DEF TypeOK
<1> QED BY <1>1, <1>2, <1>3, <1>4, <1>5, <1>6

LEMMA ComingFacts ==
  ASSUME TypeOK, NEW r \in Reqs, NEW api \in APIs, NEW gets \in Nat, Arrive(r, api, gets)
  PROVE  TypeOK' /\ StepEffect(r)
<1> DEFINE x == [req[r] EXCEPT !.api = api, !.gets = gets, !.pc = "next"]
<1>1. req[r] \in Request /\ req \in [Reqs -> Request] /\ "next" \in PCs
  BY DEF TypeOK, PCs
<1>2. x \in Request /\ x.pc = "next" /\ x.api = api
  BY <1>1 DEF Request
<1>3. /\ req' = [req EXCEPT ![r] = x] /\ req[r].pc = "idle"
      /\ UNCHANGED <<n, flight, snap, at, jitter>>
  BY DEF Arrive, Active
<1> HIDE DEF x
<1>4. req' \in [Reqs -> Request] /\ Move(r, "idle", "next") /\ req'[r].api = api
  BY <1>1, <1>2, <1>3 DEF Move
<1>5. /\ came' \in [APIs -> Nat]
      /\ \/ api = "grpc" /\ came'["grpc"] = came["grpc"] + 1
         \/ api = "http" /\ came'["grpc"] = came["grpc"]
  BY DEF Arrive, TypeOK, APIs
<1> QED BY <1>3, <1>4, <1>5 DEF TypeOK, StepEffect, Coming

LEMMA CallEndsFacts ==
  ASSUME TypeOK, NEW r \in Reqs, NEW pc \in PCs, CallEnds(r, pc)
  PROVE  /\ TypeOK' /\ UNCHANGED <<n, came, snap, at, jitter>>
         /\ \A q \in Reqs : req'[q].api = req[q].api /\ req'[q].key = req[q].key
         /\ \A q \in Joined(r) \cup {r} : req'[q].pc = pc
         /\ \A q \in Reqs \ (Joined(r) \cup {r}) : req'[q] = req[q]
<1> DEFINE G == {r} \cup Joined(r)
<1>1. /\ req' = [q \in Reqs |-> IF q \in G THEN [req[q] EXCEPT !.pc = pc] ELSE req[q]]
      /\ UNCHANGED <<n, came, snap, at, jitter>>
  BY DEF CallEnds
<1>2. flight' \in [Keys -> Reqs \cup {NoReq}]
  BY DEF CallEnds, TypeOK
<1>3. G \subseteq Reqs /\ G = Joined(r) \cup {r}
  BY DEF Joined
<1>4. ASSUME NEW q \in Reqs
      PROVE  /\ req'[q] \in Request /\ req'[q].api = req[q].api /\ req'[q].key = req[q].key
             /\ q \in G => req'[q].pc = pc
             /\ q \notin G => req'[q] = req[q]
  <2> HIDE DEF G
  <2>1. req[q] \in Request
    BY DEF TypeOK
  <2>2. CASE q \in G
    <3>1. req'[q] = [req[q] EXCEPT !.pc = pc]
      BY <1>1, <2>2
    <3> QED BY <2>1, <2>2, <3>1 DEF Request
  <2>3. CASE q \notin G
    BY <1>1, <2>1, <2>3
  <2> QED BY <2>2, <2>3
<1>5. req' \in [Reqs -> Request]
  <2>1. req' = [q \in Reqs |-> req'[q]]
    BY <1>1
  <2> QED BY <1>4, <2>1
<1>6. TypeOK'
  BY <1>1, <1>2, <1>5 DEF TypeOK
<1> HIDE DEF G
<1> QED BY <1>1, <1>3, <1>4, <1>6

LEMMA EndingFacts ==
  ASSUME TypeOK, NEW r \in Reqs, End(r)
  PROVE  TypeOK' /\ StepEffect(r)
<1>1. req[r].pc = "end"
  BY DEF End, At
<1>2. CASE Joined(r) = {}
  <2>1. CallEnds(r, "lat") /\ "lat" \in PCs
    BY <1>2 DEF End, PCs, InGet
  <2>2. /\ TypeOK' /\ UNCHANGED <<n, came, snap, at, jitter>>
        /\ req'[r].pc = "lat" /\ Same(r)
        /\ \A q \in Reqs \ {r} : req'[q] = req[q]
    BY <1>2, <2>1, CallEndsFacts DEF Same
  <2> QED BY <1>1, <1>2, <2>2 DEF StepEffect, Ending
<1>3. CASE Joined(r) # {}
  <2>1. CallEnds(r, "shared") /\ "shared" \in PCs
    BY <1>3 DEF End, PCs, InGet
  <2>2. /\ TypeOK' /\ UNCHANGED <<n, came, snap, at, jitter>>
        /\ \A q \in Reqs : req'[q].api = req[q].api /\ req'[q].key = req[q].key
        /\ \A q \in Joined(r) \cup {r} : req'[q].pc = "shared"
        /\ \A q \in Reqs \ (Joined(r) \cup {r}) : req'[q] = req[q]
    BY <2>1, CallEndsFacts
  <2> QED BY <1>1, <1>3, <2>2 DEF StepEffect, Ending
<1> QED BY <1>2, <1>3

LEMMA PanickingFacts ==
  ASSUME TypeOK, NEW r \in Reqs, OriginPanic(r)
  PROVE  TypeOK' /\ StepEffect(r)
<1>1. req[r].pc = "origin" /\ jitter <= 0 /\ CallEnds(r, "plat") /\ "plat" \in PCs
  BY DEF OriginPanic, At, PCs, InGet
<1> QED BY <1>1, CallEndsFacts DEF StepEffect, Panicking

LEMMA StepFacts ==
  ASSUME TypeOK, NEW r \in Reqs, Step(r)
  PROVE  TypeOK' /\ StepEffect(r)
<1>1. 0 .. MaxBatch \subseteq Nat
  BY MetricsAssumption
<1> QED BY <1>1, CountingFacts, GoingFacts, ComingFacts, EndingFacts, PanickingFacts DEF Step

-----------------------------------------------------------------------------
(* Snapshot *)

SnapEffect ==
  /\ n' = n /\ req' = req /\ came' = came /\ jitter' = jitter
  /\ \/ at <= 4 /\ at' = at + 1
        /\ snap' = [snap EXCEPT ![LoadOrder[at]] = n[LoadOrder[at]]]
     \/ at = 4 /\ at' = 5 /\ snap' = snap /\ snap["TotalRequests"] = 0
     \/ at' = 1 /\ snap' = NoLoads

LEMMA SnapFacts ==
  ASSUME TypeOK, Load \/ SkipLatency \/ Report
  PROVE  TypeOK' /\ SnapEffect
<1>1. /\ Len(LoadOrder) = 4 /\ at \in 1 .. 5
      /\ \A i \in 1 .. 4 : LoadOrder[i] \in Loaded /\ LoadOrder[i] \in Counters
      /\ \A i \in 1 .. 4 : LoadOrder[i] = "TotalLatencyNs" => i = 4
  BY DEF TypeOK, LoadOrder, Loaded, Counters
<1>2. CASE Load
  <2>1. /\ at \in 1 .. 4 /\ at' = at + 1
        /\ snap' = [snap EXCEPT ![LoadOrder[at]] = n[LoadOrder[at]]]
        /\ UNCHANGED <<n, req, flight, came, jitter>>
    BY <1>1, <1>2 DEF Load, SnapshotDone
  <2>2. snap' \in [Loaded -> Nat]
    BY <1>1, <2>1 DEF TypeOK
  <2> QED BY <1>1, <2>1, <2>2 DEF TypeOK, SnapEffect
<1>3. CASE SkipLatency
  BY <1>1, <1>3 DEF SkipLatency, SnapshotDone, TypeOK, SnapEffect
<1>4. CASE Report
  <2>1. NoLoads \in [Loaded -> Nat]
    BY DEF NoLoads
  <2> QED BY <1>1, <1>4, <2>1 DEF Report, TypeOK, SnapEffect
<1> QED BY <1>2, <1>3, <1>4

-----------------------------------------------------------------------------
(* The inductive invariant *)

\* only RPCs come to the interceptor's RecordLatency
RpcOnly == \A r \in Reqs : req[r].pc \in {"rpclat", "rpctotal"} => req[r].api = "grpc"

\* TiersBalance, with the fetches that may yet fail
ErrorsBalance ==
  n["OriginErrors"] + Number({"origin"})
    <= n["L2Misses"] + n["OriginCalls"] + Number({"l2err"})

\* the keys somebody waits for: each of their leaders will count once
WaitedKeys == {k \in Keys : \E q \in Reqs : req[q].pc = "wait" /\ req[q].key = k}

SpareBound ==
  n["CoalescedCalls"] + Number({"wait", "shared"}) + Cardinality(WaitedKeys)
    <= 2 * (n["L2Misses"] - n["OriginCalls"] - Number({"do", "call"}))

HitsBound == n["L1Hits"] + n["L2Hits"] <= n["TotalRequests"] + Number({"lat", "total"})

LatencyBound ==
  n["TotalLatencyNs"] >= n["TotalRequests"] + Number({"total", "ptotal", "rpctotal"})

\* With an origin that panics no call returns.
NoReturns == jitter <= 0 => \A r \in Reqs : req[r].pc \notin {"end", "shared"}

SnapBounds ==
  /\ \A c \in Loaded : snap[c] <= n[c]
  /\ at > 3 => snap["L1Hits"] + snap["L2Hits"] <= snap["TotalRequests"] + Cardinality(Reqs)
  /\ at > 4 => snap["TotalLatencyNs"] >= snap["TotalRequests"]

MInv ==
  /\ TypeOK /\ TiersBalance /\ ErrorsBalance /\ RpcOnly /\ RequestsBalance
  /\ CoalescedBounds /\ SpareBound /\ HitsBound /\ LatencyBound /\ SnapBounds
  /\ NoReturns

-----------------------------------------------------------------------------
(* One step of a request, part by part *)

\* the places a step moves requests between one at a time
LEMMA StepCounts ==
  ASSUME NEW r \in Reqs, StepEffect(r), NEW P, "wait" \in P <=> "shared" \in P,
         Panicking(r) => ("wait" \in P <=> "plat" \in P)
  PROVE  /\ Number(P) \in Nat /\ Number(P)' \in Nat
         /\ Number(P)' = Number(P) + Has(P, req'[r].pc) - Has(P, req[r].pc)
<1>1. ASSUME NEW q \in Reqs \ {r}
      PROVE  req'[q].pc \in P <=> req[q].pc \in P
  <2>1. CASE req'[q] = req[q]
    BY <2>1
  <2>2. CASE req[q].pc = "wait" /\ req'[q].pc = "shared"
    BY <2>2
  <2>3. (\A x \in Reqs \ {r} : req'[x] = req[x]) \/ Ending(r) \/ Panicking(r)
    BY DEF StepEffect, Counting, Going, Coming, Move
  <2>4. CASE Ending(r)
    <3>1. CASE q \in Joined(r)
      <4>1. req[q].pc = "wait" /\ req'[q].pc = "shared"
        <5>1. req'[q].pc = "shared"
          BY <2>4, <3>1 DEF Ending
        <5>2. req[q].pc = "wait"
          BY <3>1 DEF Joined, At
        <5> QED BY <5>1, <5>2
      <4> QED BY <2>2, <4>1
    <3>2. CASE q \notin Joined(r)
      BY <2>1, <2>4, <3>2 DEF Ending
    <3> QED BY <3>1, <3>2
  <2>5. CASE Panicking(r)
    <3>1. CASE q \in Joined(r)
      <4>1. req[q].pc = "wait" /\ req'[q].pc = "plat"
        <5>1. req'[q].pc = "plat"
          BY <2>5, <3>1 DEF Panicking
        <5>2. req[q].pc = "wait"
          BY <3>1 DEF Joined, At
        <5> QED BY <5>1, <5>2
      <4> QED BY <2>5, <4>1
    <3>2. CASE q \notin Joined(r)
      BY <2>1, <2>5, <3>2 DEF Panicking
    <3> QED BY <3>1, <3>2
  <2> QED BY <2>1, <2>3, <2>4, <2>5
<1> QED BY <1>1, NumberChanges

\* A step moves r alone, but for the end of a call, which takes all who joined
\* from "wait" to one place.
LEMMA OthersMove ==
  ASSUME NEW r \in Reqs, StepEffect(r), NEW q \in Reqs \ {r}, req'[q] # req[q]
  PROVE  /\ req[q].pc = "wait" /\ req'[q].api = req[q].api
         /\ req'[q].pc \in {"shared", "plat"}
<1>1. CASE Ending(r)
  <2>1. q \in Joined(r) /\ Joined(r) # {}
    BY <1>1 DEF Ending
  <2> QED BY <1>1, <2>1 DEF Ending, Joined, At
<1>2. CASE Panicking(r)
  <2>1. q \in Joined(r)
    BY <1>2 DEF Panicking
  <2> QED BY <1>2, <2>1 DEF Panicking, Joined, At
<1> QED BY <1>1, <1>2 DEF StepEffect, Counting, Going, Coming, Move

\* the counters after a count
LEMMA AddsFacts ==
  ASSUME n \in [Counters -> Nat], NEW c, Adds(c)
  PROVE  \A d \in Counters : n[d] \in Nat /\ n'[d] = IF d = c THEN n[d] + 1 ELSE n[d]
BY DEF Adds

LEMMA TiersStep ==
  ASSUME TypeOK, TiersBalance, ErrorsBalance, NEW r \in Reqs, StepEffect(r)
  PROVE  TiersBalance' /\ ErrorsBalance'
<1> DEFINE A == {"l2", "l2err"}
           B == {"origin"}
           C == {"l2err"}
           a == Number(A)
           b == Number(B)
           c == Number(C)
<1>0. \A x : /\ Has(A, x) = IF x \in {"l2", "l2err"} THEN 1 ELSE 0
             /\ Has(B, x) = IF x = "origin" THEN 1 ELSE 0
             /\ Has(C, x) = IF x = "l2err" THEN 1 ELSE 0
             /\ x \in {"wait", "shared", "plat"} => x \notin A /\ x \notin B /\ x \notin C
  BY DEF Has
<1>5. /\ n["L1Misses"] = n["L2Hits"] + n["L2Misses"] + a
      /\ n["OriginErrors"] + b <= n["L2Misses"] + n["OriginCalls"] + c
  BY DEF TiersBalance, ErrorsBalance
<1>6. /\ ErrorsBalance' <=> n'["OriginErrors"] + b' <= n'["L2Misses"] + n'["OriginCalls"] + c'
      /\ TiersBalance' <=> /\ n'["L1Misses"] = n'["L2Hits"] + n'["L2Misses"] + a'
                           /\ n'["OriginErrors"] <= n'["L2Misses"] + n'["OriginCalls"] + c'
  BY DEF TiersBalance, ErrorsBalance
<1> HIDE DEF A, B, C
<1>1. /\ a \in Nat /\ a' \in Nat /\ a' = a + Has(A, req'[r].pc) - Has(A, req[r].pc)
      /\ b \in Nat /\ b' \in Nat /\ b' = b + Has(B, req'[r].pc) - Has(B, req[r].pc)
      /\ c \in Nat /\ c' \in Nat /\ c' = c + Has(C, req'[r].pc) - Has(C, req[r].pc)
  BY <1>0, StepCounts
<1> HIDE DEF a, b, c
<1>4. n \in [Counters -> Nat]
  BY DEF TypeOK
<1>7. /\ n'["L1Misses"] = n'["L2Hits"] + n'["L2Misses"] + a'
      /\ n'["OriginErrors"] + b' <= n'["L2Misses"] + n'["OriginCalls"] + c'
      /\ n'["OriginErrors"] \in Nat /\ n'["L2Misses"] \in Nat /\ n'["OriginCalls"] \in Nat
  <2>1. CASE Counting(r)
    BY <1>0, <1>1, <1>4, <1>5, <2>1, AddsFacts DEF Counting, Move, Counters
  <2>2. CASE Going(r) \/ Coming(r) \/ Ending(r) \/ Panicking(r)
    <3>1. n' = n /\ a' = a /\ b' <= b /\ c' = c
      BY <1>0, <1>1, <2>2 DEF Going, Coming, Ending, Panicking, Move
    <3> QED BY <1>1, <1>4, <1>5, <3>1 DEF Counters
  <2> QED BY <2>1, <2>2 DEF StepEffect
<1>8. n'["OriginErrors"] <= n'["L2Misses"] + n'["OriginCalls"] + c'
  BY <1>1, <1>7
<1> QED BY <1>6, <1>7, <1>8

LEMMA RatesStep ==
  ASSUME TypeOK, HitsBound, LatencyBound, NEW r \in Reqs, StepEffect(r)
  PROVE  HitsBound' /\ LatencyBound'
<1> DEFINE A == {"lat", "total"}
           B == {"total", "ptotal", "rpctotal"}
           a == Number(A)
           b == Number(B)
<1>0. \A x : /\ Has(A, x) = IF x \in {"lat", "total"} THEN 1 ELSE 0
             /\ Has(B, x) = IF x \in {"total", "ptotal", "rpctotal"} THEN 1 ELSE 0
             /\ x \in {"wait", "shared", "plat"} => x \notin A /\ x \notin B
  BY DEF Has
<1>1. /\ n["L1Hits"] + n["L2Hits"] <= n["TotalRequests"] + a
      /\ n["TotalLatencyNs"] >= n["TotalRequests"] + b
  BY DEF HitsBound, LatencyBound
<1>2. /\ HitsBound' <=> n'["L1Hits"] + n'["L2Hits"] <= n'["TotalRequests"] + a'
      /\ LatencyBound' <=> n'["TotalLatencyNs"] >= n'["TotalRequests"] + b'
  BY DEF HitsBound, LatencyBound
<1> HIDE DEF A, B
<1>3. /\ a \in Nat /\ a' \in Nat /\ a' = a + Has(A, req'[r].pc) - Has(A, req[r].pc)
      /\ b \in Nat /\ b' \in Nat /\ b' = b + Has(B, req'[r].pc) - Has(B, req[r].pc)
  BY <1>0, StepCounts
<1> HIDE DEF a, b
<1>4. n \in [Counters -> Nat]
  BY DEF TypeOK
<1>5. /\ n'["L1Hits"] + n'["L2Hits"] <= n'["TotalRequests"] + a'
      /\ n'["TotalLatencyNs"] >= n'["TotalRequests"] + b'
  <2>1. CASE Counting(r)
    BY <1>0, <1>1, <1>3, <1>4, <2>1, AddsFacts DEF Counting, Move, Counters
  <2>2. CASE Going(r) \/ Coming(r) \/ Ending(r) \/ Panicking(r)
    <3>1. n' = n /\ a' >= a /\ b' = b
      BY <1>0, <1>3, <2>2 DEF Going, Coming, Ending, Panicking, Move
    <3> QED BY <1>1, <1>3, <1>4, <3>1 DEF Counters
  <2> QED BY <2>1, <2>2 DEF StepEffect
<1> QED BY <1>2, <1>5

LEMMA RpcOnlyStep ==
  ASSUME RpcOnly, NEW r \in Reqs, StepEffect(r)
  PROVE  RpcOnly'
<1> SUFFICES ASSUME NEW q \in Reqs, req'[q].pc \in {"rpclat", "rpctotal"}
             PROVE  req'[q].api = "grpc"
  BY DEF RpcOnly
<1>1. CASE req'[q] = req[q]
  BY <1>1 DEF RpcOnly
<1>2. CASE q = r /\ (Counting(r) \/ Going(r) \/ Coming(r))
  BY <1>2 DEF RpcOnly, Counting, Going, Coming, Move, Same
<1>3. CASE q = r /\ (Ending(r) \/ Panicking(r))
  <2>1. req'[q].pc \in {"lat", "shared", "plat"}
    BY <1>3 DEF Ending, Panicking
  <2> QED BY <2>1
<1>4. CASE q # r /\ req'[q] # req[q]
  <2>1. req'[q].pc \in {"shared", "plat"}
    BY <1>4, OthersMove
  <2> QED BY <2>1
<1> QED BY <1>1, <1>2, <1>3, <1>4 DEF StepEffect

\* the RPCs in progress
LEMMA GrpcCounts ==
  ASSUME NEW r \in Reqs, StepEffect(r)
  PROVE  LET g == Cardinality({q \in Reqs : Active(q) /\ req[q].api = "grpc"})
             In(p) == IF p.pc # "idle" /\ p.api = "grpc" THEN 1 ELSE 0
         IN  g \in Nat /\ g' \in Nat /\ g' = g + In(req'[r]) - In(req[r])
<1> DEFINE In(p) == IF p.pc # "idle" /\ p.api = "grpc" THEN 1 ELSE 0
           S == {q \in Reqs : req[q].pc # "idle" /\ req[q].api = "grpc"}
           T == {q \in Reqs : req'[q].pc # "idle" /\ req'[q].api = "grpc"}
<1>1. ASSUME NEW q \in Reqs \ {r}
      PROVE  q \in S <=> q \in T
  <2>1. CASE req'[q] = req[q]
    BY <2>1
  <2>2. CASE req'[q] # req[q]
    <3>1. /\ req[q].pc = "wait" /\ req'[q].api = req[q].api
          /\ req'[q].pc \in {"shared", "plat"}
      BY <2>2, OthersMove
    <3> QED BY <3>1
  <2> QED BY <2>1, <2>2
<1>2. S \in SUBSET Reqs /\ T \in SUBSET Reqs /\ Has(T, r) = In(req'[r]) /\ Has(S, r) = In(req[r])
  BY DEF Has
<1>3. /\ {q \in Reqs : Active(q) /\ req[q].api = "grpc"} = S
      /\ {q \in Reqs : Active(q) /\ req[q].api = "grpc"}' = T
  BY DEF Active
<1> DEFINE g == Cardinality({q \in Reqs : Active(q) /\ req[q].api = "grpc"})
<1>4. g = Cardinality(S) /\ g' = Cardinality(T)
  BY <1>3
<1> HIDE DEF S, T, In, g
<1>5. g \in Nat /\ g' \in Nat /\ g' = g + In(req'[r]) - In(req[r])
  BY <1>1, <1>2, <1>4, OneChanges
<1> QED BY <1>5 DEF In, g

LEMMA RequestsStep ==
  ASSUME TypeOK, RequestsBalance, RpcOnly, NEW r \in Reqs, StepEffect(r)
  PROVE  RequestsBalance'
<1> DEFINE A == InGet \ {"l1"}
           In(p) == IF p.pc # "idle" /\ p.api = "grpc" THEN 1 ELSE 0
           a == Number(A)
           g == Cardinality({q \in Reqs : Active(q) /\ req[q].api = "grpc"})
<1>0. \A x : /\ Has(A, x) = IF x \in {"l2", "l2err", "do", "call", "origin", "end", "wait",
                                      "shared", "lat", "total", "plat", "ptotal"}
                              THEN 1 ELSE 0
             /\ x \in {"wait", "shared", "plat"} => x \in A
  BY DEF Has, InGet
<1>1. n["TotalRequests"] + a + g = n["L1Hits"] + n["L1Misses"] + came["grpc"]
  BY DEF RequestsBalance
<1>2. RequestsBalance' <=>
        n'["TotalRequests"] + a' + g' = n'["L1Hits"] + n'["L1Misses"] + came'["grpc"]
  BY DEF RequestsBalance
<1>3. g \in Nat /\ g' \in Nat /\ g' = g + In(req'[r]) - In(req[r])
  BY GrpcCounts
<1> HIDE DEF A
<1>4. a \in Nat /\ a' \in Nat /\ a' = a + Has(A, req'[r].pc) - Has(A, req[r].pc)
  BY <1>0, StepCounts
<1> HIDE DEF a, g
<1>5. n \in [Counters -> Nat] /\ came["grpc"] \in Nat
  BY DEF TypeOK, APIs
<1>6. n'["TotalRequests"] + a' + g' = n'["L1Hits"] + n'["L1Misses"] + came'["grpc"]
  <2>1. CASE Counting(r)
    <3>1. req'[r].api = req[r].api /\ (req[r].pc = "rpctotal" => req[r].api = "grpc")
      BY <2>1 DEF Counting, Same, RpcOnly
    <3>2. came' = came
      BY <2>1 DEF Counting
    <3> QED BY <1>0, <1>1, <1>3, <1>4, <1>5, <2>1, <3>1, <3>2, AddsFacts
            DEF Counting, Move, Counters
  <2>2. CASE Going(r) \/ Ending(r) \/ Panicking(r)
    <3>1. n' = n /\ came' = came /\ req'[r].api = req[r].api
      BY <2>2 DEF Going, Ending, Panicking, Same
    <3>2. a' = a
      BY <1>0, <1>4, <2>2 DEF Going, Ending, Panicking, Move
    <3>3. g' = g
      BY <1>3, <2>2, <3>1 DEF Going, Ending, Panicking, Move
    <3> QED BY <1>1, <3>1, <3>2, <3>3
  <2>3. CASE Coming(r)
    <3>1. n' = n /\ a' = a
      BY <1>0, <1>4, <2>3 DEF Coming, Move
    <3>2. g' - g = came'["grpc"] - came["grpc"]
      BY <1>3, <1>5, <2>3 DEF Coming, Move
    <3>3. came'["grpc"] \in Nat
      BY <1>5, <2>3 DEF Coming
    <3> QED BY <1>1, <1>3, <1>4, <1>5, <3>1, <3>2, <3>3 DEF Counters
  <2> QED BY <2>1, <2>2, <2>3 DEF StepEffect
<1> QED BY <1>2, <1>6

\* No more keys are waited for than requests wait.
LEMMA WaitedFinite == IsFiniteSet(WaitedKeys) /\ Cardinality(WaitedKeys) \in Nat
<1> DEFINE W == {q \in Reqs : req[q].pc = "wait" /\ req[q].key \in Keys}
           f == [q \in W |-> req[q].key]
<1>1. IsFiniteSet(W)
  BY MetricsAssumption, FS_Subset
<1>2. f \in Surjection(W, WaitedKeys)
  BY DEF Surjection, WaitedKeys
<1> HIDE DEF W, f
<1>3. IsFiniteSet(WaitedKeys)
  BY <1>1, <1>2, FS_Surjection
<1> QED BY <1>3, FS_CardinalityType

\* A step adds at most the key of one who joins, and takes away that of a call
\* that ends.
LEMMA WaitedStep ==
  ASSUME TypeOK, NEW r \in Reqs, StepEffect(r)
  PROVE  LET w == Cardinality(WaitedKeys)
         IN  /\ w \in Nat /\ w' \in Nat
             /\ w' <= w \/ (Going(r) /\ Move(r, "do", "wait") /\ w' <= w + 1)
             /\ Ending(r) /\ Joined(r) # {} => w' <= w - 1
<1> DEFINE w == Cardinality(WaitedKeys)
           k == req[r].key
<1>1. IsFiniteSet(WaitedKeys) /\ w \in Nat
  BY WaitedFinite
<1>2. k \in Keys
  BY DEF TypeOK, Request
<1>3. ASSUME NEW S, WaitedKeys' \subseteq S, IsFiniteSet(S)
      PROVE  Cardinality(WaitedKeys') \in Nat /\ Cardinality(WaitedKeys') <= Cardinality(S)
  <2>1. IsFiniteSet(WaitedKeys')
    BY <1>3, FS_Subset
  <2> QED BY <1>3, <2>1, FS_Subset, FS_CardinalityType
<1>4. CASE Ending(r) /\ Joined(r) # {}
  <2>1. k \in WaitedKeys /\ UseSF
    BY <1>2, <1>4 DEF Joined, WaitedKeys, At
  <2>2. WaitedKeys' \subseteq WaitedKeys \ {k}
    <3> SUFFICES ASSUME NEW j \in Keys, NEW q \in Reqs, req'[q].pc = "wait", req'[q].key = j
                 PROVE  j \in WaitedKeys /\ j # k
      BY DEF WaitedKeys
    <3>1. q \notin Joined(r) \cup {r}
      BY <1>4 DEF Ending
    <3>2. req'[q] = req[q]
      BY <1>4, <3>1 DEF Ending
    <3> QED BY <2>1, <3>1, <3>2 DEF WaitedKeys, Joined, At
  <2>3. IsFiniteSet(WaitedKeys \ {k}) /\ Cardinality(WaitedKeys \ {k}) = w - 1
    BY <1>1, <2>1, FS_RemoveElement
  <2> QED BY <1>1, <1>3, <2>2, <2>3
<1>5. CASE Going(r) /\ Move(r, "do", "wait")
  <2>1. req'[r].key = k
    BY <1>5 DEF Going, Same, Move
  <2>2. WaitedKeys' \subseteq WaitedKeys \cup {k}
    BY <1>5, <2>1 DEF WaitedKeys, Move
  <2>3. IsFiniteSet(WaitedKeys \cup {k}) /\ Cardinality(WaitedKeys \cup {k}) <= w + 1
    BY <1>1, FS_AddElement
  <2>4. Cardinality(WaitedKeys \cup {k}) \in Nat
    BY <2>3, FS_CardinalityType
  <2>5. ~Ending(r)
    BY <1>5 DEF Move, Ending
  <2> QED BY <1>1, <1>3, <1>5, <2>2, <2>3, <2>4, <2>5
<1>6. CASE ~(Ending(r) /\ Joined(r) # {}) /\ ~(Going(r) /\ Move(r, "do", "wait"))
  <2>1. req'[r].pc # "wait"
    BY <1>6 DEF StepEffect, Counting, Going, Coming, Ending, Panicking, Move
  <2>2. \A q \in Reqs : req'[q].pc = "wait" => req'[q] = req[q]
    BY <2>1, OthersMove
  <2>3. WaitedKeys' \subseteq WaitedKeys
    BY <2>2 DEF WaitedKeys
  <2> QED BY <1>1, <1>3, <1>6, <2>3
<1> QED BY <1>4, <1>5, <1>6

\* The requests at the places P, when nobody comes there.
LEMMA NumberShrinks ==
  ASSUME NEW P, \A q \in Reqs : req'[q].pc \in P => req[q].pc \in P
  PROVE  Number(P) \in Nat /\ Number(P)' \in Nat /\ Number(P)' <= Number(P)
<1> DEFINE S == {q \in Reqs : req[q].pc \in P}
           T == {q \in Reqs : req'[q].pc \in P}
<1>1. S \in SUBSET Reqs /\ T \in SUBSET S
  OBVIOUS
<1>2. Number(P) = Cardinality(S) /\ Number(P)' = Cardinality(T)
  BY DEF Number
<1> HIDE DEF S, T
<1>3. IsFiniteSet(S) /\ IsFiniteSet(T)
  BY <1>1, MetricsAssumption, FS_Subset
<1> QED BY <1>1, <1>2, <1>3, FS_Subset, FS_CardinalityType

LEMMA NoReturnsStep ==
  ASSUME TypeOK, NoReturns, NEW r \in Reqs, StepEffect(r)
  PROVE  NoReturns'
<1> SUFFICES ASSUME jitter <= 0, NEW q \in Reqs
             PROVE  req'[q].pc \notin {"end", "shared"}
  BY DEF NoReturns, StepEffect
<1>1. jitter \in Int /\ ~(jitter > 0)
  BY DEF TypeOK
<1>2. \A x \in Reqs : req[x].pc \notin {"end", "shared"}
  BY DEF NoReturns
<1>3. ~Ending(r)
  BY <1>2 DEF Ending
<1>4. req'[r].pc \notin {"end", "shared"}
  BY <1>1, <1>2, <1>3 DEF StepEffect, Counting, Going, Coming, Panicking, Move
<1>5. CASE q # r /\ req'[q] # req[q]
  BY <1>1, <1>3, <1>5 DEF StepEffect, Counting, Going, Coming, Panicking, Move
<1> QED BY <1>2, <1>4, <1>5

LEMMA CoalescedStep ==
  ASSUME TypeOK, CoalescedBounds, SpareBound, NoReturns, NEW r \in Reqs, StepEffect(r)
  PROVE  CoalescedBounds' /\ SpareBound'
<1> DEFINE A == {"do", "call"}
           B == {"wait", "shared"}
           a == Number(A)
           b == Number(B)
           w == Cardinality(WaitedKeys)
<1>0. \A x : /\ Has(A, x) = IF x \in {"do", "call"} THEN 1 ELSE 0
             /\ Has(B, x) = IF x \in {"wait", "shared"} THEN 1 ELSE 0
             /\ x \in {"wait", "shared"} => x \notin A /\ x \in B
             /\ x = "plat" => x \notin A /\ x \notin B
  BY DEF Has
<1>1. /\ jitter > 0 => n["L2Misses"] - n["OriginCalls"] - a <= n["CoalescedCalls"] + b
      /\ jitter <= 0 => n["CoalescedCalls"] = 0
      /\ n["CoalescedCalls"] + b + w <= 2 * (n["L2Misses"] - n["OriginCalls"] - a)
  BY DEF CoalescedBounds, SpareBound
<1>2. /\ SpareBound' <=>
           n'["CoalescedCalls"] + b' + w' <= 2 * (n'["L2Misses"] - n'["OriginCalls"] - a')
      /\ CoalescedBounds' <=>
           /\ n'["CoalescedCalls"] <= 2 * (n'["L2Misses"] - n'["OriginCalls"] - a')
           /\ jitter > 0 =>
                n'["L2Misses"] - n'["OriginCalls"] - a' <= n'["CoalescedCalls"] + b'
           /\ jitter <= 0 => n'["CoalescedCalls"] = 0
  BY DEF CoalescedBounds, SpareBound, StepEffect
<1> HIDE DEF A, B
<1>3. /\ a \in Nat /\ a' \in Nat /\ a' = a + Has(A, req'[r].pc) - Has(A, req[r].pc)
      /\ b \in Nat /\ b' \in Nat
  BY <1>0, StepCounts, NumberType
<1>4. /\ w \in Nat /\ w' \in Nat
      /\ w' <= w \/ (Going(r) /\ Move(r, "do", "wait") /\ w' <= w + 1)
      /\ Ending(r) /\ Joined(r) # {} => w' <= w - 1
  BY WaitedStep
<1>5. ~Panicking(r) => b' = b + Has(B, req'[r].pc) - Has(B, req[r].pc)
  BY <1>0, StepCounts
<1>6. Panicking(r) => b' <= b /\ a' = a /\ w' <= w /\ n' = n
  <2> SUFFICES ASSUME Panicking(r) PROVE b' <= b /\ a' = a /\ w' <= w /\ n' = n
    OBVIOUS
  <2>1. req'[r].pc = "plat" /\ req[r].pc = "origin" /\ n' = n
    BY DEF Panicking
  <2>2. a' = a
    BY <1>0, <1>3, <2>1
  <2>3. w' <= w
    BY <1>4, <2>1 DEF Move
  <2>4. \A q \in Reqs : req'[q].pc \in B => req[q].pc \in B
    <3> SUFFICES ASSUME NEW q \in Reqs, req'[q].pc \in B PROVE req[q].pc \in B
      OBVIOUS
    <3>1. req'[q].pc # "plat"
      BY <1>0
    <3>2. req'[q] = req[q]
      BY <3>1 DEF Panicking
    <3> QED BY <3>2
  <2>5. b' <= b
    BY <2>4, NumberShrinks
  <2> QED BY <2>1, <2>2, <2>3, <2>5
<1>7. Counting(r) /\ jitter <= 0 => req[r].pc # "shared"
  BY DEF NoReturns
<1> HIDE DEF a, b, w
<1>8. n \in [Counters -> Nat] /\ jitter \in Int
  BY DEF TypeOK
<1>9. /\ jitter > 0 => n'["L2Misses"] - n'["OriginCalls"] - a' <= n'["CoalescedCalls"] + b'
      /\ jitter <= 0 => n'["CoalescedCalls"] = 0
      /\ n'["CoalescedCalls"] + b' + w' <= 2 * (n'["L2Misses"] - n'["OriginCalls"] - a')
      /\ n'["CoalescedCalls"] \in Nat /\ n'["L2Misses"] \in Nat /\ n'["OriginCalls"] \in Nat
  <2>1. CASE Counting(r)
    <3>1. w' <= w
      BY <1>4, <2>1 DEF Counting, Move
    <3>2. ~Panicking(r)
      BY <2>1 DEF Counting, Move, Panicking
    <3>3. b' = b + Has(B, req'[r].pc) - Has(B, req[r].pc)
      BY <1>5, <3>2
    <3> QED BY <1>0, <1>1, <1>3, <1>4, <1>7, <1>8, <2>1, <3>1, <3>3, AddsFacts
            DEF Counting, Move, Counters
  <2>2. CASE Going(r) \/ Coming(r)
    <3>1. n' = n
      BY <2>2 DEF Going, Coming
    <3>2. ~Panicking(r)
      BY <2>2 DEF Going, Coming, Move, Panicking
    <3>3. b' = b + Has(B, req'[r].pc) - Has(B, req[r].pc)
      BY <1>5, <3>2
    <3>4. CASE Move(r, "do", "wait")
      <4>1. a' = a - 1 /\ b' = b + 1 /\ w' <= w + 1
        BY <1>0, <1>3, <1>4, <3>3, <3>4 DEF Move
      <4> QED BY <1>1, <1>3, <1>4, <1>8, <3>1, <4>1 DEF Counters
    <3>5. CASE ~Move(r, "do", "wait")
      <4>1. a' = a /\ b' = b /\ w' <= w
        BY <1>0, <1>3, <1>4, <2>2, <3>3, <3>5 DEF Going, Coming, Move
      <4> QED BY <1>1, <1>3, <1>4, <1>8, <3>1, <4>1 DEF Counters
    <3> QED BY <3>4, <3>5
  <2>3. CASE Ending(r)
    <3>0. ~Panicking(r)
      BY <2>3 DEF Ending, Panicking
    <3>1. n' = n /\ a' = a
      BY <1>0, <1>3, <2>3 DEF Ending
    <3>2. (b' = b /\ w' <= w) \/ (b' = b + 1 /\ w' <= w - 1)
      BY <1>0, <1>3, <1>4, <1>5, <2>3, <3>0 DEF Ending, Move
    <3> QED BY <1>1, <1>3, <1>4, <1>8, <3>1, <3>2 DEF Counters
  <2>4. CASE Panicking(r)
    <3>1. ~(jitter > 0)
      BY <1>8, <2>4 DEF Panicking
    <3> QED BY <1>1, <1>3, <1>4, <1>6, <1>8, <2>4, <3>1 DEF Counters
  <2> QED BY <2>1, <2>2, <2>3, <2>4 DEF StepEffect
<1>10. n'["CoalescedCalls"] <= 2 * (n'["L2Misses"] - n'["OriginCalls"] - a')
  BY <1>3, <1>4, <1>9
<1> QED BY <1>2, <1>9, <1>10

\* Counters never go down, so what was loaded stays below them.
LEMMA SnapBoundsStep ==
  ASSUME TypeOK, SnapBounds, NEW r \in Reqs, StepEffect(r)
  PROVE  SnapBounds'
<1>1. n \in [Counters -> Nat] /\ snap \in [Loaded -> Nat] /\ Loaded \subseteq Counters
  BY DEF TypeOK, Loaded, Counters
<1>2. \A c \in Counters : n'[c] >= n[c] /\ n'[c] \in Nat
  <2>1. ASSUME NEW d \in Counters, Adds(d) PROVE \A c \in Counters : n'[c] >= n[c] /\ n'[c] \in Nat
    BY <1>1, <2>1 DEF Adds
  <2>2. CASE Counting(r)
    <3>1. \E d \in Counters : Adds(d)
      BY <2>2 DEF Counting, Counters
    <3> QED BY <2>1, <3>1
  <2>3. CASE n' = n
    BY <1>1, <2>3
  <2> QED BY <2>2, <2>3 DEF StepEffect, Going, Coming, Ending, Panicking
<1>3. snap' = snap /\ at' = at
  BY DEF StepEffect
<1>4. \A c \in Loaded : snap'[c] <= n'[c]
  BY <1>1, <1>2, <1>3 DEF SnapBounds
<1> QED BY <1>3, <1>4 DEF SnapBounds

-----------------------------------------------------------------------------
(* One step of Snapshot *)

\* What Snapshot does not touch.
LEMMA CountersKept ==
  ASSUME n' = n, req' = req, came' = came, jitter' = jitter
  PROVE  /\ TiersBalance' = TiersBalance /\ ErrorsBalance' = ErrorsBalance
         /\ RpcOnly' = RpcOnly /\ RequestsBalance' = RequestsBalance
         /\ CoalescedBounds' = CoalescedBounds /\ SpareBound' = SpareBound
         /\ HitsBound' = HitsBound /\ LatencyBound' = LatencyBound
         /\ NoReturns' = NoReturns
<1>1. \A P : Number(P)' = Number(P)
  BY DEF Number
<1>2. WaitedKeys' = WaitedKeys
  BY DEF WaitedKeys
<1>3. {q \in Reqs : Active(q) /\ req[q].api = "grpc"}'
        = {q \in Reqs : Active(q) /\ req[q].api = "grpc"}
  BY DEF Active
<1>4. TiersBalance' = TiersBalance /\ ErrorsBalance' = ErrorsBalance
  BY <1>1 DEF TiersBalance, ErrorsBalance
<1>5. RpcOnly' = RpcOnly /\ RequestsBalance' = RequestsBalance
  BY <1>1, <1>3 DEF RpcOnly, RequestsBalance
<1>6. CoalescedBounds' = CoalescedBounds /\ SpareBound' = SpareBound
  BY <1>1, <1>2 DEF CoalescedBounds, SpareBound
<1>7. HitsBound' = HitsBound /\ LatencyBound' = LatencyBound
  BY <1>1 DEF HitsBound, LatencyBound
<1>8. NoReturns' = NoReturns
  BY DEF NoReturns
<1> QED BY <1>4, <1>5, <1>6, <1>7, <1>8

LEMMA SnapshotStep ==
  ASSUME TypeOK, HitsBound, LatencyBound, SnapBounds, SnapEffect
  PROVE  SnapBounds'
<1>1. /\ n \in [Counters -> Nat] /\ snap \in [Loaded -> Nat] /\ at \in 1 .. 5
      /\ n' = n /\ Loaded \subseteq Counters
  BY DEF TypeOK, LoadOrder, Loaded, Counters, SnapEffect
<1>2. Number({"lat", "total"}) \in Nat /\ Number({"lat", "total"}) <= Cardinality(Reqs)
  <2> DEFINE S == {r \in Reqs : req[r].pc \in {"lat", "total"}}
  <2>1. S \in SUBSET Reqs
    OBVIOUS
  <2>2. Number({"lat", "total"}) = Cardinality(S)
    BY DEF Number
  <2> HIDE DEF S
  <2> QED BY <2>1, <2>2, MetricsAssumption, FS_Subset, FS_CardinalityType
<1>3. Number({"total", "ptotal", "rpctotal"}) \in Nat
  <2> DEFINE S == {r \in Reqs : req[r].pc \in {"total", "ptotal", "rpctotal"}}
  <2>1. S \in SUBSET Reqs
    OBVIOUS
  <2>2. Number({"total", "ptotal", "rpctotal"}) = Cardinality(S)
    BY DEF Number
  <2> HIDE DEF S
  <2> QED BY <2>1, <2>2, MetricsAssumption, FS_Subset, FS_CardinalityType
<1>4. Cardinality(Reqs) \in Nat
  BY MetricsAssumption, FS_CardinalityType
<1>5. /\ n["L1Hits"] + n["L2Hits"] <= n["TotalRequests"] + Cardinality(Reqs)
      /\ n["TotalLatencyNs"] >= n["TotalRequests"]
  BY <1>1, <1>2, <1>3, <1>4 DEF HitsBound, LatencyBound, Counters
<1>6. /\ snap["L1Hits"] <= n["L1Hits"] /\ snap["L2Hits"] <= n["L2Hits"]
      /\ snap["TotalRequests"] <= n["TotalRequests"]
  BY DEF SnapBounds, Loaded
<1>7. CASE at <= 4 /\ at' = at + 1 /\ snap' = [snap EXCEPT ![LoadOrder[at]] = n[LoadOrder[at]]]
  <2>1. \A c \in Loaded : snap'[c] <= n'[c]
    BY <1>1, <1>7 DEF SnapBounds
  <2>2. CASE at < 3
    BY <1>1, <1>7, <2>1, <2>2 DEF SnapBounds
  <2>3. CASE at = 3
    <3>1. /\ LoadOrder[3] = "TotalRequests" /\ at' = 4
          /\ snap'["TotalRequests"] = n["TotalRequests"]
          /\ snap'["L1Hits"] = snap["L1Hits"] /\ snap'["L2Hits"] = snap["L2Hits"]
      BY <1>1, <1>7, <2>3 DEF LoadOrder, Loaded
    <3>2. snap'["L1Hits"] + snap'["L2Hits"] <= snap'["TotalRequests"] + Cardinality(Reqs)
      BY <1>1, <1>4, <1>5, <1>6, <3>1 DEF Loaded, Counters
    <3> QED BY <2>1, <3>1, <3>2 DEF SnapBounds
  <2>4. CASE at = 4
    <3>1. /\ LoadOrder[4] = "TotalLatencyNs" /\ at' = 5
          /\ snap'["TotalLatencyNs"] = n["TotalLatencyNs"]
          /\ snap'["TotalRequests"] = snap["TotalRequests"]
          /\ snap'["L1Hits"] = snap["L1Hits"] /\ snap'["L2Hits"] = snap["L2Hits"]
      BY <1>1, <1>7, <2>4 DEF LoadOrder, Loaded
    <3>2. snap'["TotalLatencyNs"] >= snap'["TotalRequests"]
      BY <1>1, <1>5, <1>6, <3>1 DEF Loaded, Counters
    <3> QED BY <2>1, <2>4, <3>1, <3>2 DEF SnapBounds
  <2> QED BY <1>1, <1>7, <2>2, <2>3, <2>4
<1>8. CASE at = 4 /\ at' = 5 /\ snap' = snap /\ snap["TotalRequests"] = 0
  BY <1>1, <1>8 DEF SnapBounds, Loaded
<1>9. CASE at' = 1 /\ snap' = NoLoads
  BY <1>1, <1>9 DEF SnapBounds, NoLoads, Loaded, Counters
<1> QED BY <1>7, <1>8, <1>9 DEF SnapEffect

-----------------------------------------------------------------------------
\* The state of a process that has just started.
Started ==
  /\ req \in [Reqs -> Request] /\ \A r \in Reqs : req[r].pc = "idle"
  /\ n = NoCounts /\ came = [api \in APIs |-> 0]
  /\ snap = NoLoads /\ at = 1 /\ flight = [k \in Keys |-> NoReq]
  /\ jitter \in Int

LEMMA MInvStarted == Started => MInv
<1> SUFFICES ASSUME Started PROVE MInv
  OBVIOUS
<1>1. req \in [Reqs -> Request] /\ \A r \in Reqs : req[r].pc = "idle"
  BY DEF Started
<1>2. /\ n = [c \in Counters |-> 0] /\ came = [api \in APIs |-> 0]
      /\ snap = [c \in Loaded |-> 0] /\ at = 1 /\ flight = [k \in Keys |-> NoReq]
      /\ jitter \in Int
  BY DEF Started, NoLoads, NoCounts
<1>3. TypeOK
  BY <1>1, <1>2 DEF TypeOK, LoadOrder
<1>4. \A P : "idle" \notin P => Number(P) = 0
  <2> SUFFICES ASSUME NEW P, "idle" \notin P PROVE Number(P) = 0
    OBVIOUS
  <2>1. {r \in Reqs : req[r].pc \in P} = {}
    BY <1>1
  <2> QED BY <2>1, FS_EmptySet DEF Number
<1>5. Cardinality(WaitedKeys) = 0 /\ Cardinality({r \in Reqs : Active(r) /\ req[r].api = "grpc"}) = 0
  <2>1. WaitedKeys = {} /\ {r \in Reqs : Active(r) /\ req[r].api = "grpc"} = {}
    BY <1>1 DEF WaitedKeys, Active
  <2> QED BY <2>1, FS_EmptySet
<1>6. /\ Number({"l2", "l2err"}) = 0 /\ Number({"origin"}) = 0 /\ Number({"l2err"}) = 0
      /\ Number({"do", "call"}) = 0 /\ Number({"wait", "shared"}) = 0
      /\ Number({"lat", "total"}) = 0 /\ Number({"total", "ptotal", "rpctotal"}) = 0
      /\ Number(InGet \ {"l1"}) = 0
  BY <1>4 DEF InGet
<1>7. TiersBalance /\ ErrorsBalance /\ RequestsBalance
  BY <1>2, <1>5, <1>6 DEF TiersBalance, ErrorsBalance, RequestsBalance, Counters, APIs
<1>8. CoalescedBounds /\ SpareBound /\ HitsBound /\ LatencyBound
  BY <1>2, <1>5, <1>6 DEF CoalescedBounds, SpareBound, HitsBound, LatencyBound, Counters
<1>9. RpcOnly /\ SnapBounds /\ NoReturns
  BY <1>1, <1>2 DEF RpcOnly, SnapBounds, Loaded, Counters, NoReturns
<1> QED BY <1>3, <1>7, <1>8, <1>9 DEF MInv

LEMMA IdleRequest ==
  ASSUME NEW k \in Keys
  PROVE  [api |-> "http", key |-> k, gets |-> 0, pc |-> "idle"] \in Request
<1>1. "http" \in APIs /\ "idle" \in PCs /\ 0 \in Nat
  BY DEF APIs, PCs
<1> QED BY <1>1 DEF Request

LEMMA InitStarted == Init => Started
<1> SUFFICES ASSUME Init PROVE Started
  OBVIOUS
<1> DEFINE First == {[api |-> "http", key |-> k, gets |-> 0, pc |-> "idle"] : k \in Keys}
<1>1. req \in [Reqs -> First]
  BY DEF Init
<1>2. \A x \in First : x \in Request /\ x.pc = "idle"
  BY IdleRequest
<1> HIDE DEF First
<1>3. req \in [Reqs -> Request] /\ \A r \in Reqs : req[r].pc = "idle"
  BY <1>1, <1>2
<1>4. jitter \in Int
  <2>1. PICK latency \in Latencies : jitter = latency \div 4
    BY DEF Init
  <2>2. latency \in Int
    BY MetricsAssumption
  <2> QED BY <2>1, <2>2
<1> QED BY <1>3, <1>4 DEF Init, Started

LEMMA DiesStarted ==
  ASSUME TypeOK, NEW r \in Reqs, Dies(r)
  PROVE  Started'
<1>1. ASSUME NEW q \in Reqs
      PROVE  [req[q] EXCEPT !.api = "http", !.gets = 0, !.pc = "idle"] \in Request
  <2>1. req[q] \in Request /\ "http" \in APIs /\ "idle" \in PCs
    BY DEF TypeOK, APIs, PCs
  <2> QED BY <2>1 DEF Request
<1>2. req' = [q \in Reqs |-> [req[q] EXCEPT !.api = "http", !.gets = 0, !.pc = "idle"]]
  BY DEF Dies
<1>3. \A q \in Reqs : req'[q].pc = "idle"
  <2> TAKE q \in Reqs
  <2>1. req[q] \in Request
    BY DEF TypeOK
  <2> QED BY <1>2, <2>1 DEF Request
<1>4. req' \in [Reqs -> Request]
  BY <1>1, <1>2
<1> QED BY <1>3, <1>4 DEF Dies, TypeOK, Started

LEMMA MInvStep == MInv /\ [Next]_vars => MInv'
<1>1. ASSUME MInv, NEW r \in Reqs, Step(r) PROVE MInv'
  <2>1. TypeOK' /\ StepEffect(r)
    BY <1>1, StepFacts DEF MInv
  <2> QED BY <1>1, <2>1, TiersStep, RatesStep, RpcOnlyStep, RequestsStep, CoalescedStep,
             NoReturnsStep, SnapBoundsStep DEF MInv
<1>2. ASSUME MInv, Load \/ SkipLatency \/ Report PROVE MInv'
  <2>1. TypeOK' /\ SnapEffect
    BY <1>2, SnapFacts DEF MInv
  <2>2. SnapBounds'
    BY <1>2, <2>1, SnapshotStep DEF MInv
  <2> QED BY <1>2, <2>1, <2>2, CountersKept DEF MInv, SnapEffect
<1>3. ASSUME MInv, UNCHANGED vars PROVE MInv'
  <2>1. TypeOK'
    BY <1>3 DEF MInv, TypeOK, vars
  <2>2. SnapBounds'
    BY <1>3 DEF MInv, SnapBounds, vars
  <2> QED BY <1>3, <2>1, <2>2, CountersKept DEF MInv, vars
<1>4. ASSUME MInv, NEW r \in Reqs, Dies(r) PROVE MInv'
  <2>1. Started'
    BY <1>4, DiesStarted DEF MInv
  <2>2. Started' => MInv'
    BY MInvStarted, PTL
  <2> QED BY <2>1, <2>2
<1> QED BY <1>1, <1>2, <1>3, <1>4 DEF Next

LEMMA MInvAlways == Spec => []MInv
BY InitStarted, MInvStarted, MInvStep, PTL DEF Spec

\* The counters never go negative and Snapshot never loads past its last.
THEOREM MetricsTypeCorrect == Spec => []TypeOK
<1>1. MInv => TypeOK
  BY DEF MInv
<1> QED BY <1>1, MInvAlways, PTL

\* Every L1 miss is one Redis lookup, and every origin error a failed lookup or
\* a failed fetch, at every moment and however many requests count at once.
THEOREM MetricsTiersBalance == Spec => []TiersBalance
<1>1. MInv => TiersBalance
  BY DEF MInv
<1> QED BY <1>1, MInvAlways, PTL

\* RecordLatency of Manager.Get and of metricsInterceptor together count every
\* Get once and every RPC once.
THEOREM MetricsRequestsBalance == Spec => []RequestsBalance
<1>1. MInv => RequestsBalance
  BY DEF MInv
<1> QED BY <1>1, MInvAlways, PTL

\* CoalescedCalls is at most twice the Gets that joined a call of the singleflight
\* group, and at least as many unless the origin panics: then it stays at zero,
\* however many joined.
THEOREM MetricsCoalescedBounds == Spec => []CoalescedBounds
<1>1. MInv => CoalescedBounds
  BY DEF MInv
<1> QED BY <1>1, MInvAlways, PTL

\* Snapshot, loading one counter after another, shows at most as many hits too
\* many as there are requests at once.
THEOREM MetricsHitsWithinRequests == Spec => []HitsWithinRequests
<1>1. MInv => HitsWithinRequests
  BY DEF MInv, SnapBounds, HitsWithinRequests, SnapshotDone, LoadOrder, TypeOK
<1> QED BY <1>1, MInvAlways, PTL

\* A snapshot that counts a request has that request's latency in its sum.
THEOREM MetricsAverageCovers == Spec => []AverageCovers
<1>1. MInv => AverageCovers
  BY DEF MInv, SnapBounds, AverageCovers, SnapshotDone, LoadOrder, TypeOK
<1> QED BY <1>1, MInvAlways, PTL
=============================================================================
