-------------------------- MODULE BinaryCoherence --------------------------
(***************************************************************************)
(* What a client of the binary handlers may rely on.  History variables,   *)
(* which change nothing of BinaryHandler, note which versions MinIO has    *)
(* stored, and what the last upload or deletion that ran alone on its key, *)
(* none of its calls failing, has established.                             *)
(***************************************************************************)
EXTENDS BinaryHandler

VARIABLES
  stored,  \* the versions MinIO has stored
  iso,     \* iso[r]: r has been alone on its key, and none of its calls failed
  clean,   \* clean[k]: k's last upload or deletion ran alone to its end
  floor    \* floor[s][k]: server s must serve nothing older for k

bvars == <<obj, meta, index, cache, pending, clock, req, stored, iso, clean, floor>>

Writing(r, k) == req[r].key = k /\ req[r].pc \in Puts \cup Dels \cup {"keep", "forget"}

\* nobody else works on r's key, and no call on it is on its way
Alone(r) ==
  /\ \A q \in Reqs \ {r} : Active(q) => req[q].key # req[r].key
  /\ \A c \in pending : c.key # req[r].key

\* r, an upload or a deletion that ran alone, answers in this step
Completes(r) == iso[r] /\ (At(r, "keep") \/ At(r, "forget")) /\ ~Active(r)' /\ ~req'[r].err

\* the oldest version that may be served once r has answered: the one it
\* uploaded, or one uploaded after its deletion
NewFloor(r) == IF At(r, "keep") THEN req[r].val ELSE clock + 1

BInit ==
  /\ Init
  /\ stored = {obj[k] : k \in Keys}
  /\ iso = [r \in Reqs |-> FALSE]
  /\ clean = [k \in Keys |-> TRUE]
  /\ floor = [s \in Servers |-> [k \in Keys |-> 0]]

HistoryNext ==
  /\ stored' = stored \cup {obj'[k] : k \in Keys}
  /\ iso' = [r \in Reqs |-> /\ Active(r)' /\ (~Active(r) \/ iso[r])
                          /\ Alone(r)' /\ ~CallFails(r)]
  /\ clean' = [k \in Keys |-> \/ \E r \in Reqs : Completes(r) /\ req[r].key = k
                              \/ clean[k] /\ \A r \in Reqs : ~Writing(r, k)']
  /\ floor' = [s \in Servers |-> [k \in Keys |->
                 LET R == {r \in Reqs : Completes(r) /\ Home[r] = s /\ req[r].key = k}
                 IN  IF R = {} THEN floor[s][k] ELSE NewFloor(CHOOSE r \in R : TRUE)]]

BSpec == BInit /\ [][Next /\ HistoryNext]_bvars

-----------------------------------------------------------------------------
\* No cache and no metadata ever shows an asset that MinIO did not store: an
\* upload goes on to Redis and to the cache only once PutObject succeeded, and
\* serveAsset keeps only what it read.
OnlyStored ==
  /\ \A s \in Servers, k \in Keys : cache[s][k] \in stored \cup {Absent}
  /\ \A k \in Keys : meta[k] \in stored \cup {Absent}
  /\ \A c \in pending : c.op \in {"hset", "sadd"} => c.val \in stored

NotOlder(v, low) == v = Absent \/ v >= low

\* Once an upload or a deletion that ran alone on its key has answered, the
\* server that handled it holds no older version, and neither do MinIO, a call
\* on its way to it or any request: whatever comes later, in whatever order and
\* with whatever failures, that server never goes back.
NeverGoesBack ==
  \A s \in Servers, k \in Keys :
    LET low == floor[s][k]
    IN  /\ NotOlder(cache[s][k], low)
        /\ NotOlder(obj[k], low)
        /\ \A c \in pending : c.key = k => NotOlder(c.val, low)
        /\ \A r \in Reqs : req[r].key = k => NotOlder(req[r].val, low)

\* After an upload or a deletion that ran alone, and whatever disorder earlier
\* failures and races left behind, Redis describes the asset MinIO has and no
\* other: no metadata of another version, no name in the list without an asset.
\* (Redis may have evicted the metadata or the list.)
WriteRepairs ==
  \A k \in Keys : clean[k] =>
    /\ meta[k] \in {Absent, obj[k]}
    /\ k \in index => obj[k] # Absent

-----------------------------------------------------------------------------
\* handler_test.go:162-163 "expected 404 after delete": a request that comes in
\* after an asset was deleted, every call of the deletion succeeding and nobody
\* uploading it since, does not find it.
GoneAfterDelete ==
  [][\A r \in Reqs :
       At(r, "lookup") /\ clean[req[r].key] /\ obj[req[r].key] = Absent
         => ~CacheHit(r)]_bvars
=============================================================================
