--------------------------- MODULE BinaryHandler ---------------------------
(***************************************************************************)
(* The handlers of internal/binaryhandler/handler.go, run by several       *)
(* servers that share one MinIO bucket and one Redis.  upload, serveAsset  *)
(* and deleteAsset are sequences of calls, one step each; getMeta and      *)
(* listAssets only read.                                                   *)
(*                                                                         *)
(* The bytes of an asset are a version number, new with every upload; 0    *)
(* stands for no asset, and version 1 for what was stored before.  A       *)
(* server's asset cache is used through what AssetCache shows: set stores  *)
(* the asset and may evict any others, and nothing expires.                *)
(*                                                                         *)
(* Any call to MinIO or Redis may fail: a timeout, a broken connection, a  *)
(* client that went away.  A call that failed, or that the client library  *)
(* retried, may be lost or still take effect later: such calls are in      *)
(* pending.                                                                *)
(***************************************************************************)
EXTENDS Integers, FiniteSets

CONSTANTS Servers, Reqs, Keys,
          Home,      \* Home[r]: the server that handles request r
          MaxClock,  \* bound: the versions uploaded in a run
          MaxLate    \* bound: the late calls followed at a time

ASSUME BinaryAssumption ==
  /\ Home \in [Reqs -> Servers]
  /\ MaxClock \in Nat
  /\ MaxLate \in Nat

VARIABLES
  obj,      \* obj[k]: the version MinIO stores
  meta,     \* meta[k]: the version the hash "asset:k" in Redis describes
  index,    \* the Redis set "assets:index"
  cache,    \* cache[s][k]: the version in server s's asset cache
  pending,  \* calls nobody waits for that may still take effect
  clock,    \* the last version uploaded
  req       \* req[r]: where request r is

vars == <<obj, meta, index, cache, pending, clock, req>>

Absent == 0
Version == 0 .. clock

Puts == {"put", "hset", "sadd"}    \* upload's calls
Dels == {"rem", "del", "srem"}     \* deleteAsset's calls
Call == [op : Puts \cup Dels, key : Keys, val : Nat]

PCs == Puts \cup Dels \cup {"idle", "keep", "forget", "lookup", "stat", "read", "store"}
Request == [key : Keys, pc : PCs, val : Nat, err : BOOLEAN]

\* A mutant: deleteAsset leaves the index alone.
AfterNoSrem == [put |-> "hset", hset |-> "sadd", sadd |-> "keep",
                rem |-> "del", del |-> "forget", srem |-> "forget"]

\* the order of the calls
After == [put |-> "hset", hset |-> "sadd", sadd |-> "keep",
          rem |-> "del", del |-> "srem", srem |-> "forget"]

Active(r) == req[r].pc # "idle"
At(r, pc) == req[r].pc = pc
Goto(r, pc) == [req EXCEPT ![r].pc = pc]
Cached(r) == cache[Home[r]][req[r].key]

\* r answers; failed stands for a status of 400 or more
Reply(r, failed) == [req EXCEPT ![r].pc = "idle", ![r].val = Absent, ![r].err = failed]

-----------------------------------------------------------------------------
Init ==
  /\ obj \in [Keys -> {Absent, 1}]
  /\ meta = obj
  /\ index = {k \in Keys : obj[k] # Absent}
  /\ cache = [s \in Servers |-> [k \in Keys |-> Absent]]
  /\ pending = {}
  /\ clock = 1
  /\ req \in [Reqs -> {[key |-> k, pc |-> "idle",
                        val |-> Absent, err |-> FALSE] : k \in Keys}]

\* r comes in, its first call being pc
Arrive(r, k, pc, v) ==
  /\ ~Active(r)
  /\ req' = [req EXCEPT ![r] = [key |-> k, pc |-> pc, val |-> v, err |-> FALSE]]
  /\ UNCHANGED <<obj, meta, index, cache, pending>>

\* An upload brings a new version in its body.
StartUpload(r, k) ==
  /\ clock < MaxClock
  /\ clock' = clock + 1
  /\ Arrive(r, k, "put", clock + 1)

StartServe(r, k) == Arrive(r, k, "lookup", Absent) /\ UNCHANGED clock

StartDelete(r, k) == Arrive(r, k, "rem", Absent) /\ UNCHANGED clock

-----------------------------------------------------------------------------
(* upload and deleteAsset: calls to MinIO, then Redis, then the cache *)

\* what a call does once it reaches MinIO or Redis
Apply(c) ==
  /\ obj' = IF c.op \in {"put", "rem"} THEN [obj EXCEPT ![c.key] = c.val] ELSE obj
  /\ meta' = IF c.op \in {"hset", "del"} THEN [meta EXCEPT ![c.key] = c.val] ELSE meta
  /\ index' = CASE c.op = "sadd" -> index \cup {c.key}
                [] c.op = "srem" -> index \ {c.key}
                [] OTHER -> index

\* the call r is making; a deletion carries Absent
CallOf(r) == [op |-> req[r].pc, key |-> req[r].key, val |-> req[r].val]

\* a call nobody waits for: it is lost, or on its way
Leave(c) ==
  \/ pending' = pending
  \/ Cardinality(pending) < MaxLate /\ pending' = pending \cup {c}

\* The call succeeds, perhaps at the second attempt, in which case the first may
\* still be on its way.
CallOk(r) ==
  /\ req[r].pc \in Puts \cup Dels
  /\ Apply(CallOf(r))
  /\ req' = Goto(r, After[req[r].pc])
  /\ Leave(CallOf(r))
  /\ UNCHANGED <<cache, clock>>

\* A mutant: the failure of PutObject is logged and ignored like the others.
PutFailsIgnored(r) ==
  /\ At(r, "put")
  /\ req' = Goto(r, "hset")
  /\ Leave(CallOf(r))
  /\ UNCHANGED <<obj, meta, index, cache, clock>>

\* PutObject fails: 502, and nothing else is done.
PutFails(r) ==
  /\ At(r, "put")
  /\ req' = Reply(r, TRUE)
  /\ Leave(CallOf(r))
  /\ UNCHANGED <<obj, meta, index, cache, clock>>

\* Every other failure, RemoveObject's included, is logged and ignored.
CallFails(r) ==
  /\ req[r].pc \in (Puts \cup Dels) \ {"put"}
  /\ req' = Goto(r, After[req[r].pc])
  /\ Leave(CallOf(r))
  /\ UNCHANGED <<obj, meta, index, cache, clock>>

\* cache.set on r's server, which may evict any other assets
CacheSet(r, evicted) ==
  cache' = [cache EXCEPT ![Home[r]] =
              [k \in Keys |-> IF k = req[r].key THEN req[r].val
                              ELSE IF k \in evicted THEN Absent ELSE @[k]]]

Keep(r, evicted) ==
  /\ At(r, "keep")
  /\ CacheSet(r, evicted)
  /\ req' = Reply(r, FALSE)
  /\ UNCHANGED <<obj, meta, index, pending, clock>>

\* A mutant: the asset stays in memory.
ForgetNot(r) ==
  /\ At(r, "forget")
  /\ req' = Reply(r, FALSE)
  /\ UNCHANGED <<obj, meta, index, cache, pending, clock>>

Forget(r) ==
  /\ At(r, "forget")
  /\ cache' = [cache EXCEPT ![Home[r]][req[r].key] = Absent]
  /\ req' = Reply(r, FALSE)
  /\ UNCHANGED <<obj, meta, index, pending, clock>>

-----------------------------------------------------------------------------
(* serveAsset: the cache, then MinIO *)

CacheHit(r) ==
  /\ At(r, "lookup")
  /\ Cached(r) # Absent
  /\ req' = Reply(r, FALSE)
  /\ UNCHANGED <<obj, meta, index, cache, pending, clock>>

CacheMiss(r) ==
  /\ At(r, "lookup")
  /\ Cached(r) = Absent
  /\ req' = Goto(r, "stat")
  /\ UNCHANGED <<obj, meta, index, cache, pending, clock>>

\* A mutant: the error of Stat is not looked at.
StatFoundAnyway(r) ==
  /\ At(r, "stat")
  /\ req' = [req EXCEPT ![r].pc = "read", ![r].val = obj[req[r].key]]
  /\ UNCHANGED <<obj, meta, index, cache, pending, clock>>

\* GetObject sends nothing: obj.Stat is the first to ask MinIO.
StatFound(r) ==
  /\ At(r, "stat")
  /\ obj[req[r].key] # Absent
  /\ req' = [req EXCEPT ![r].pc = "read", ![r].val = obj[req[r].key]]
  /\ UNCHANGED <<obj, meta, index, cache, pending, clock>>

\* Any error of GetObject or Stat is answered as "not found" (404).
StatFails(r) ==
  /\ At(r, "stat")
  /\ req' = Reply(r, TRUE)
  /\ UNCHANGED <<obj, meta, index, cache, pending, clock>>

\* The client library reads the object it has asked about, or fails.
ReadAll(r) ==
  /\ At(r, "read")
  /\ obj[req[r].key] = req[r].val
  /\ req' = Goto(r, "store")
  /\ UNCHANGED <<obj, meta, index, cache, pending, clock>>

\* 500
ReadFails(r) ==
  /\ At(r, "read")
  /\ req' = Reply(r, TRUE)
  /\ UNCHANGED <<obj, meta, index, cache, pending, clock>>

Store(r, evicted) ==
  /\ At(r, "store")
  /\ CacheSet(r, evicted)
  /\ req' = Reply(r, FALSE)
  /\ UNCHANGED <<obj, meta, index, pending, clock>>

-----------------------------------------------------------------------------
(* The surroundings *)

LateArrives(c) ==
  /\ c \in pending
  /\ Apply(c)
  /\ pending' = pending \ {c}
  /\ UNCHANGED <<cache, clock, req>>

LateLost(c) ==
  /\ c \in pending
  /\ pending' = pending \ {c}
  /\ UNCHANGED <<obj, meta, index, cache, clock, req>>

\* Redis runs with allkeys-lfu: the hash of an asset and the index may go.
DropMeta(k) ==
  /\ meta[k] # Absent
  /\ meta' = [meta EXCEPT ![k] = Absent]
  /\ UNCHANGED <<obj, index, cache, pending, clock, req>>

DropIndex ==
  /\ index # {}
  /\ index' = {}
  /\ UNCHANGED <<obj, meta, cache, pending, clock, req>>

\* A server dies and restarts with an empty cache; its requests break off.
Crash(s) ==
  /\ cache' = [cache EXCEPT ![s] = [k \in Keys |-> Absent]]
  /\ req' = [r \in Reqs |-> IF Home[r] = s /\ Active(r)
                            THEN [req[r] EXCEPT !.pc = "idle", !.val = Absent, !.err = TRUE]
                            ELSE req[r]]
  /\ UNCHANGED <<obj, meta, index, pending, clock>>

-----------------------------------------------------------------------------
Step(r) ==
  \/ CallOk(r) \/ PutFails(r) \/ CallFails(r) \/ Forget(r)
  \/ CacheHit(r) \/ CacheMiss(r)
  \/ StatFound(r) \/ StatFails(r) \/ ReadAll(r) \/ ReadFails(r)
  \/ \E evicted \in SUBSET (Keys \ {req[r].key}) : Keep(r, evicted) \/ Store(r, evicted)

Environment ==
  \/ \E r \in Reqs, k \in Keys : StartUpload(r, k) \/ StartServe(r, k) \/ StartDelete(r, k)
  \/ \E c \in pending : LateArrives(c) \/ LateLost(c)
  \/ \E k \in Keys : DropMeta(k)
  \/ DropIndex
  \/ \E s \in Servers : Crash(s)

Next == Environment \/ \E r \in Reqs : Step(r)

Spec == Init /\ [][Next]_vars

-----------------------------------------------------------------------------
\* the request holds the bytes of an asset
Carrying(r) == req[r].pc \in Puts \cup {"keep", "read", "store"}

\* The values the variables range over; nothing holds a version that was never
\* uploaded, and exactly the requests that handle an asset hold one.
TypeOK ==
  /\ clock \in Nat
  /\ obj \in [Keys -> Version]
  /\ meta \in [Keys -> Version]
  /\ index \subseteq Keys
  /\ cache \in [Servers -> [Keys -> Version]]
  /\ pending \subseteq Call
  /\ \A c \in pending : c.val \in Version /\ (c.op \in Puts <=> c.val # Absent)
  /\ req \in [Reqs -> Request]
  /\ \A r \in Reqs : req[r].val \in Version /\ (Carrying(r) <=> req[r].val # Absent)
=============================================================================
