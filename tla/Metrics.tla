------------------------------ MODULE Metrics ------------------------------
(***************************************************************************)
(* internal/metrics/metrics.go and the places that count: l1.go, l2.go,    *)
(* manager.go and the gRPC metricsInterceptor, for one process.            *)
(*                                                                         *)
(* The counters are atomic, but each is its own atom: a request adds to    *)
(* them one at a time, and Snapshot loads them one at a time, in between.  *)
(* What the tiers hold is left out: a lookup hits or misses.  A request is *)
(* a batch of Gets (an HTTP or gRPC Get is a batch of one) or, with none,  *)
(* an RPC that looks nothing up.                                           *)
(***************************************************************************)
EXTENDS Integers, FiniteSets, Sequences

CONSTANTS Reqs, Keys, NoReq,
          UseSF,     \* NewManager's useSingleflight
          Latencies, \* the values ORIGIN_LATENCY may have, in nanoseconds
          MaxBatch,  \* bound: the Gets of a batch
          MaxReqs    \* bound: the requests that come in

ASSUME MetricsAssumption ==
  /\ IsFiniteSet(Reqs)
  /\ NoReq \notin Reqs
  /\ UseSF \in BOOLEAN
  /\ Latencies \subseteq Int
  /\ MaxBatch \in Nat
  /\ MaxReqs \in Nat

VARIABLES
  n,       \* n[c]: the counter c; TotalLatencyNs as the number of terms in the sum
  req,     \* req[r]: where request r is
  flight,  \* flight[k]: the leader of the singleflight call for k, or NoReq
  came,    \* came[api]: the requests that came in
  snap,    \* what Snapshot has loaded so far
  at,      \* the position in LoadOrder that Snapshot loads next
  jitter   \* the origin's jitter

vars == <<n, req, flight, came, snap, at, jitter>>

Counters == {"L1Hits", "L1Misses", "L2Hits", "L2Misses", "OriginCalls",
             "OriginErrors", "CoalescedCalls", "TotalRequests", "TotalLatencyNs"}

APIs == {"http", "grpc"}

\* within Manager.Get, in "plat" and "ptotal" with a panic on its way up
InGet == {"l1", "l2", "l2err", "do", "call", "origin", "end", "wait", "shared",
          "lat", "total", "plat", "ptotal"}
PCs == InGet \cup {"idle", "next", "rpclat", "rpctotal", "unwound"}
Request == [api : APIs, key : Keys, gets : Nat, pc : PCs]

Active(r) == req[r].pc # "idle"
At(r, pc) == req[r].pc = pc
Goto(r, pc) == [req EXCEPT ![r].pc = pc]
Count(c) == [n EXCEPT ![c] = @ + 1]

Loaded == {"L1Hits", "L2Hits", "TotalRequests", "TotalLatencyNs"}
NoLoads == [c \in Loaded |-> 0]
NoCounts == [c \in Counters |-> 0]

Init ==
  /\ n = NoCounts
  /\ req \in [Reqs -> {[api |-> "http", key |-> k, gets |-> 0, pc |-> "idle"] : k \in Keys}]
  /\ flight = [k \in Keys |-> NoReq]
  /\ came = [api \in APIs |-> 0]
  /\ snap = NoLoads
  /\ at = 1
  /\ jitter \in {latency \div 4 : latency \in Latencies}

-----------------------------------------------------------------------------
(* A request *)

\* an HTTP request that looks nothing up counts nothing
Arrive(r, api, gets) ==
  /\ ~Active(r)
  /\ came["http"] + came["grpc"] < MaxReqs
  /\ api = "grpc" \/ gets > 0
  /\ came' = [came EXCEPT ![api] = @ + 1]
  /\ req' = [req EXCEPT ![r].api = api, ![r].gets = gets, ![r].pc = "next"]
  /\ UNCHANGED <<n, flight, snap, at, jitter>>

\* A mutant: the end of the batch is not noticed.
NextGetAnyway(r, k) ==
  /\ At(r, "next")
  /\ req' = [req EXCEPT ![r].key = k, ![r].gets = @ - 1, ![r].pc = "l1"]
  /\ UNCHANGED <<n, flight, came, snap, at, jitter>>

\* the next Get of the batch
NextGet(r, k) ==
  /\ At(r, "next") /\ req[r].gets > 0
  /\ req' = [req EXCEPT ![r].key = k, ![r].gets = @ - 1, ![r].pc = "l1"]
  /\ UNCHANGED <<n, flight, came, snap, at, jitter>>

\* no Get is left: an RPC returns to its interceptor
Handled(r) ==
  /\ At(r, "next") /\ req[r].gets = 0
  /\ req' = Goto(r, IF req[r].api = "grpc" THEN "rpclat" ELSE "idle")
  /\ UNCHANGED <<n, flight, came, snap, at, jitter>>

\* one lookup that adds to counter c
Lookup(r, from, c, to) ==
  /\ At(r, from)
  /\ n' = Count(c)
  /\ req' = Goto(r, to)
  /\ UNCHANGED <<flight, came, snap, at, jitter>>

L1Hit(r) == Lookup(r, "l1", "L1Hits", "lat")
L1Miss(r) == Lookup(r, "l1", "L1Misses", "l2")

L2Hit(r) == Lookup(r, "l2", "L2Hits", "lat")

\* redis.Nil
L2Nil(r) == Lookup(r, "l2", "L2Misses", "do")

\* A mutant: an error is not counted as a miss.
L2ErrorOnly(r) == Lookup(r, "l2", "OriginErrors", "do")

\* any other error counts twice, as an origin error first
L2Error(r) == Lookup(r, "l2", "OriginErrors", "l2err")
L2Miss(r) == Lookup(r, "l2err", "L2Misses", "do")

-----------------------------------------------------------------------------
(* fetchFromOrigin *)

Lead(r) ==
  /\ At(r, "do")
  /\ UseSF => flight[req[r].key] = NoReq
  /\ flight' = IF UseSF THEN [flight EXCEPT ![req[r].key] = r] ELSE flight
  /\ req' = Goto(r, "call")
  /\ UNCHANGED <<n, came, snap, at, jitter>>

Join(r) ==
  /\ At(r, "do") /\ UseSF
  /\ flight[req[r].key] # NoReq
  /\ req' = Goto(r, "wait")
  /\ UNCHANGED <<n, flight, came, snap, at, jitter>>

OriginCall(r) == Lookup(r, "call", "OriginCalls", "origin")

\* Fetch's rand.Int63n panics unless the jitter is positive.
OriginFail(r) == jitter > 0 /\ Lookup(r, "origin", "OriginErrors", "end")

OriginReturn(r) ==
  /\ At(r, "origin") /\ jitter > 0
  /\ req' = Goto(r, "end")
  /\ UNCHANGED <<n, flight, came, snap, at, jitter>>

Joined(r) == {q \in Reqs : UseSF /\ At(q, "wait") /\ req[q].key = req[r].key}

\* the call of r ends, and r and those who joined go on at pc
CallEnds(r, pc) ==
  /\ req' = [q \in Reqs |-> IF q \in {r} \cup Joined(r) THEN [req[q] EXCEPT !.pc = pc]
                            ELSE req[q]]
  /\ flight' = IF UseSF THEN [flight EXCEPT ![req[r].key] = NoReq] ELSE flight
  /\ UNCHANGED <<n, came, snap, at, jitter>>

\* A mutant: the result of a call is always taken for shared.
EndShared(r) == At(r, "end") /\ CallEnds(r, "shared")

\* The call returns.  group.Do tells those who joined, and the leader if anybody
\* joined, that the result was shared.
End(r) == At(r, "end") /\ CallEnds(r, IF Joined(r) = {} THEN "lat" ELSE "shared")

\* The call panics, and group.Do panics in everyone who joined too: nobody gets
\* to see that it was shared, and only deferred calls are made from here on.
OriginPanic(r) == At(r, "origin") /\ jitter <= 0 /\ CallEnds(r, "plat")

Coalesced(r) == Lookup(r, "shared", "CoalescedCalls", "lat")

-----------------------------------------------------------------------------
(* RecordLatency: the deferred call of Manager.Get, and metricsInterceptor's *)

Record(r, first, second) == \/ Lookup(r, "lat", first, "total")
                            \/ Lookup(r, "total", second, "next")
                            \/ Lookup(r, "plat", first, "ptotal")
                            \/ Lookup(r, "ptotal", second, "unwound")
                            \/ Lookup(r, "rpclat", first, "rpctotal")
                            \/ Lookup(r, "rpctotal", second, "idle")

\* A mutant: the request is counted before its latency is added.
RecordTotalFirst(r) == Record(r, "TotalRequests", "TotalLatencyNs")

\* A mutant: metricsInterceptor skips what Manager.Get has recorded.
RecordGetOnly(r) == \/ Lookup(r, "lat", "TotalLatencyNs", "total")
                    \/ Lookup(r, "total", "TotalRequests",
                              IF req[r].api = "grpc" /\ req[r].gets = 0 THEN "idle" ELSE "next")
                    \/ Lookup(r, "plat", "TotalLatencyNs", "ptotal")
                    \/ Lookup(r, "ptotal", "TotalRequests", "unwound")
                    \/ Lookup(r, "rpclat", "TotalLatencyNs", "rpctotal")
                    \/ Lookup(r, "rpctotal", "TotalRequests", "idle")

RecordLatency(r) == Record(r, "TotalLatencyNs", "TotalRequests")

-----------------------------------------------------------------------------
(* Where a panic ends *)

\* RecoveryMiddleware answers for the HTTP handler; the rest of a batch is given up.
Recovered(r) ==
  /\ At(r, "unwound") /\ req[r].api = "http"
  /\ req' = [req EXCEPT ![r].gets = 0, ![r].pc = "idle"]
  /\ UNCHANGED <<n, flight, came, snap, at, jitter>>

\* Nothing recovers a panic in an RPC: the process dies and another one starts.
Dies(r) ==
  /\ At(r, "unwound") /\ req[r].api = "grpc"
  /\ n' = NoCounts
  /\ req' = [q \in Reqs |-> [req[q] EXCEPT !.api = "http", !.gets = 0, !.pc = "idle"]]
  /\ flight' = [k \in Keys |-> NoReq]
  /\ came' = [api \in APIs |-> 0]
  /\ snap' = NoLoads
  /\ at' = 1
  /\ UNCHANGED jitter

-----------------------------------------------------------------------------
(* Snapshot.  One call is followed at a time: calls do not affect each other. *)

\* A mutant: the requests are loaded before the hits.
LoadTotalFirst == <<"TotalRequests", "L1Hits", "L2Hits", "TotalLatencyNs">>

\* The loads of the other five counters, between these, are left out: nothing is
\* computed from one of them and a counter loaded at another moment but the two
\* rates hits / (hits + misses), which are at most one whatever was loaded.
LoadOrder == <<"L1Hits", "L2Hits", "TotalRequests", "TotalLatencyNs">>

SnapshotDone == at > Len(LoadOrder)

\* the latencies are loaded only if there was a request
Load ==
  /\ ~SnapshotDone
  /\ LoadOrder[at] = "TotalLatencyNs" => snap["TotalRequests"] > 0
  /\ snap' = [snap EXCEPT ![LoadOrder[at]] = n[LoadOrder[at]]]
  /\ at' = at + 1
  /\ UNCHANGED <<n, req, flight, came, jitter>>

SkipLatency ==
  /\ ~SnapshotDone
  /\ LoadOrder[at] = "TotalLatencyNs" /\ snap["TotalRequests"] = 0
  /\ at' = at + 1
  /\ UNCHANGED <<n, req, flight, came, snap, jitter>>

Report ==
  /\ SnapshotDone
  /\ at' = 1
  /\ snap' = NoLoads
  /\ UNCHANGED <<n, req, flight, came, jitter>>

-----------------------------------------------------------------------------
Step(r) ==
  \/ \E api \in APIs, gets \in 0 .. MaxBatch : Arrive(r, api, gets)
  \/ \E k \in Keys : NextGet(r, k)
  \/ Handled(r)
  \/ L1Hit(r) \/ L1Miss(r) \/ L2Hit(r) \/ L2Nil(r) \/ L2Error(r) \/ L2Miss(r)
  \/ Lead(r) \/ Join(r) \/ OriginCall(r) \/ OriginReturn(r) \/ OriginFail(r)
  \/ End(r) \/ OriginPanic(r)
  \/ Coalesced(r)
  \/ RecordLatency(r)
  \/ Recovered(r)

Next == (\E r \in Reqs : Step(r) \/ Dies(r)) \/ Load \/ SkipLatency \/ Report

Spec == Init /\ [][Next]_vars

-----------------------------------------------------------------------------
(* What the numbers mean *)

TypeOK ==
  /\ n \in [Counters -> Nat]
  /\ req \in [Reqs -> Request]
  /\ flight \in [Keys -> Reqs \cup {NoReq}]
  /\ came \in [APIs -> Nat]
  /\ snap \in [Loaded -> Nat]
  /\ at \in 1 .. Len(LoadOrder) + 1
  /\ jitter \in Int

Number(pcs) == Cardinality({r \in Reqs : req[r].pc \in pcs})

\* The tiers' counters fit together whatever fails: every L1 miss is a Redis
\* lookup, which is a hit or a miss, an error being a miss too; OriginErrors
\* counts failed Redis lookups and failed fetches, and nothing twice.
TiersBalance ==
  /\ n["L1Misses"] = n["L2Hits"] + n["L2Misses"] + Number({"l2", "l2err"})
  /\ n["OriginErrors"] <= n["L2Misses"] + n["OriginCalls"] + Number({"l2err"})

\* TotalRequests counts Gets, batched ones singly, and RPCs, so that an RPC that
\* gets is counted once more than its Gets.
RequestsBalance ==
  n["TotalRequests"] + Number(InGet \ {"l1"})
    + Cardinality({r \in Reqs : Active(r) /\ req[r].api = "grpc"})
  = n["L1Hits"] + n["L1Misses"] + came["grpc"]

\* CoalescedCalls says within a factor of two how many Gets were spared a call
\* of the origin: it counts every Get that joined a call, and the leader of a
\* call that somebody joined.  But a call that panics is counted for nobody
\* (manager.go:87 is not reached): with an origin that panics it says nothing.
CoalescedBounds ==
  LET joined == n["L2Misses"] - n["OriginCalls"] - Number({"do", "call"})
  IN  /\ n["CoalescedCalls"] <= 2 * joined
      /\ jitter > 0 => joined <= n["CoalescedCalls"] + Number({"wait", "shared"})
      /\ jitter <= 0 => n["CoalescedCalls"] = 0

\* A snapshot is no "point-in-time copy" (metrics.go:26).  It may report more hits
\* than requests, and an OverallHitRate above one, but by no more than the requests
\* in progress: the hits are loaded first.
HitsWithinRequests ==
  SnapshotDone => snap["L1Hits"] + snap["L2Hits"] <= snap["TotalRequests"] + Cardinality(Reqs)

\* AvgLatencyUs never divides by a request whose latency it has not read:
\* latencies are added before the request is counted and loaded after.
AverageCovers == SnapshotDone => snap["TotalLatencyNs"] >= snap["TotalRequests"]
=============================================================================
