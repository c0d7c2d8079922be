------------------------ MODULE BinaryHandler_proofs ------------------------
(***************************************************************************)
(* Proofs about BinaryHandler, for every number of servers, requests and   *)
(* assets.                                                                 *)
(*                                                                         *)
(* What one step may do to each place a version can be in, and to each     *)
(* request, is summed up once (Effect).  Type correctness follows from     *)
(* the summary, and so does what BinaryCoherence_proofs shows.             *)
(***************************************************************************)
EXTENDS BinaryHandler, TLAPS

\* Each variable has its form, versions being any numbers.
Forms ==
  /\ clock \in Nat
  /\ obj \in [Keys -> Nat]
  /\ meta \in [Keys -> Nat]
  /\ index \subseteq Keys
  /\ cache \in [Servers -> [Keys -> Nat]]
  /\ pending \subseteq Call
  /\ req \in [Reqs -> Request]

-----------------------------------------------------------------------------
(* What a step may do *)

\* a call on k with value v, one of ops, is on its way or being made
Sent(k, ops, v) ==
  \/ \E c \in pending : c.key = k /\ c.op \in ops /\ c.val = v
  \/ \E q \in Reqs : req[q].key = k /\ req[q].pc \in ops /\ req[q].val = v

ObjEffect == \A k \in Keys : obj'[k] = obj[k] \/ Sent(k, {"put", "rem"}, obj'[k])

MetaEffect ==
  \A k \in Keys : meta'[k] \in {meta[k], Absent} \/ Sent(k, {"hset", "del"}, meta'[k])

IndexEffect == \A k \in index' : k \in index \/ \E v \in Nat : Sent(k, {"sadd"}, v)

CacheEffect ==
  \A s \in Servers, k \in Keys :
    \/ cache'[s][k] \in {cache[s][k], Absent}
    \/ \E q \in Reqs : /\ Home[q] = s /\ req[q].key = k
                       /\ req[q].pc \in {"keep", "store"} /\ cache'[s][k] = req[q].val

PendingEffect ==
  \A c \in pending' :
    c \in pending \/ \E q \in Reqs : req[q].pc \in Puts \cup Dels /\ c = CallOf(q)

StoreEffect == ObjEffect /\ MetaEffect /\ IndexEffect /\ PendingEffect

\* r answers, or breaks off with its server
Ends(r) ==
  /\ Active(r) /\ req'[r].key = req[r].key
  /\ req'[r].pc = "idle" /\ req'[r].val = Absent

Comes(r) ==
  /\ ~Active(r)
  /\ \A q \in Reqs \ {r} : req'[q] = req[q]
  /\ \/ req'[r].pc \in {"lookup", "rem"} /\ req'[r].val = Absent
     \/ req'[r].pc = "put" /\ clock' = clock + 1 /\ req'[r].val = clock + 1

\* r has made a call, which took effect or failed
Calls(r) ==
  /\ req[r].pc \in Puts \cup Dels
  /\ req'[r].key = req[r].key /\ req'[r].val = req[r].val
  /\ req'[r].pc = After[req[r].pc]
  /\ \/ CallFails(r)
     \/ /\ req[r].pc \in {"put", "rem"} => obj'[req[r].key] = req[r].val
        /\ req[r].pc \in {"hset", "del"} => meta'[req[r].key] = req[r].val
        /\ req[r].pc = "srem" => req[r].key \notin index'

Reads(r) ==
  /\ req'[r].key = req[r].key
  /\ \/ req[r].pc = "lookup" /\ req'[r].pc = "stat" /\ req'[r].val = req[r].val
     \/ /\ req[r].pc = "stat" /\ req'[r].pc = "read"
        /\ req'[r].val = obj[req[r].key] /\ req'[r].val # Absent
     \/ req[r].pc = "read" /\ req'[r].pc = "store" /\ req'[r].val = req[r].val

ReqEffect == \A r \in Reqs : req'[r] = req[r] \/ Ends(r) \/ Comes(r) \/ Calls(r) \/ Reads(r)

\* An upload or deletion that answers has put its result into the cache.
AnswerEffect ==
  \A r \in Reqs :
    /\ req[r].pc \in {"keep", "forget"} /\ req'[r].pc = "idle" /\ ~req'[r].err
    => cache'[Home[r]][req[r].key] = req[r].val

Effect ==
  /\ StoreEffect /\ CacheEffect /\ ReqEffect /\ AnswerEffect
  /\ clock' = clock \/ clock' = clock + 1

-----------------------------------------------------------------------------
(* How requests move *)

LEMMA TypeForms == TypeOK => Forms
<1> SUFFICES ASSUME TypeOK PROVE Forms
  OBVIOUS
<1>1. clock \in Nat /\ Version \subseteq Nat
  BY DEF TypeOK, Version
<1> QED BY <1>1 DEF TypeOK, Forms

LEMMA GotoFacts ==
  ASSUME req \in [Reqs -> Request], NEW r \in Reqs, NEW pc \in PCs, req' = Goto(r, pc)
  PROVE  /\ req' \in [Reqs -> Request]
         /\ \A q \in Reqs \ {r} : req'[q] = req[q]
         /\ req'[r].pc = pc /\ req'[r].val = req[r].val /\ req'[r].key = req[r].key
<1> DEFINE x == [req[r] EXCEPT !.pc = pc]
<1>1. x \in Request /\ x.pc = pc /\ x.val = req[r].val /\ x.key = req[r].key
  BY DEF Request
<1>2. req' = [req EXCEPT ![r] = x]
  BY DEF Goto
<1> HIDE DEF Request, x
<1> QED BY <1>1, <1>2

LEMMA ReplyFacts ==
  ASSUME req \in [Reqs -> Request], NEW r \in Reqs, NEW f \in BOOLEAN, req' = Reply(r, f)
  PROVE  /\ req' \in [Reqs -> Request]
         /\ \A q \in Reqs \ {r} : req'[q] = req[q]
         /\ req'[r].pc = "idle" /\ req'[r].val = Absent /\ req'[r].key = req[r].key
         /\ req'[r].err = f
<1> DEFINE x == [req[r] EXCEPT !.pc = "idle", !.val = Absent, !.err = f]
<1>1. "idle" \in PCs /\ Absent \in Nat
  BY DEF PCs, Absent
<1>2. /\ x \in Request /\ x.pc = "idle" /\ x.val = Absent
      /\ x.key = req[r].key /\ x.err = f
  BY <1>1 DEF Request
<1>3. req' = [req EXCEPT ![r] = x]
  BY DEF Reply
<1> HIDE DEF Request, x
<1> QED BY <1>2, <1>3

LEMMA ArriveFacts ==
  ASSUME req \in [Reqs -> Request], NEW r \in Reqs, NEW k \in Keys, NEW pc \in PCs,
         NEW v \in Nat, Arrive(r, k, pc, v)
  PROVE  /\ req' \in [Reqs -> Request]
         /\ \A q \in Reqs \ {r} : req'[q] = req[q]
         /\ req'[r].pc = pc /\ req'[r].val = v /\ req'[r].key = k
<1> DEFINE x == [key |-> k, pc |-> pc, val |-> v, err |-> FALSE]
<1>1. x \in Request /\ x.pc = pc /\ x.val = v /\ x.key = k
  BY DEF Request
<1>2. req' = [req EXCEPT ![r] = x]
  BY DEF Arrive
<1> HIDE DEF Request, x
<1> QED BY <1>1, <1>2

\* Steps that touch nothing but the requests.
LEMMA StoresKept ==
  ASSUME Forms, UNCHANGED <<obj, meta, index, cache, pending>>
  PROVE  StoreEffect /\ CacheEffect
BY DEF StoreEffect, ObjEffect, MetaEffect, IndexEffect, PendingEffect, CacheEffect

\* One request moves, and answers no upload or deletion.
LEMMA OneMoves ==
  ASSUME NEW r \in Reqs,
         \A q \in Reqs \ {r} : req'[q] = req[q],
         Ends(r) \/ Comes(r) \/ Calls(r) \/ Reads(r),
         \/ req'[r].pc # "idle"
         \/ req[r].pc \notin {"keep", "forget"}
         \/ cache'[Home[r]][req[r].key] = req[r].val
  PROVE  ReqEffect /\ AnswerEffect
<1>1. ReqEffect
  BY DEF ReqEffect
<1>2. ASSUME NEW q \in Reqs \ {r}
      PROVE  req[q].pc \in {"keep", "forget"} => req'[q].pc # "idle"
  OBVIOUS
<1> QED BY <1>1, <1>2 DEF AnswerEffect

-----------------------------------------------------------------------------
(* What each action does *)

LEMMA AfterFacts ==
  ASSUME NEW pc \in Puts \cup Dels
  PROVE  After[pc] \in PCs /\ After[pc] # "idle"
BY DEF After, Puts, Dels, PCs

\* A call left behind is r's.
LEMMA LeaveFacts ==
  ASSUME Forms, NEW r \in Reqs, req[r].pc \in Puts \cup Dels, Leave(CallOf(r))
  PROVE  PendingEffect /\ pending' \subseteq Call
<1>1. CallOf(r) \in Call
  BY DEF Forms, CallOf, Call, Request
<1>2. pending' \subseteq pending \cup {CallOf(r)}
  BY DEF Leave
<1> QED BY <1>1, <1>2 DEF PendingEffect, Forms

\* What a call of r does to MinIO and Redis.
LEMMA ApplyFacts ==
  ASSUME Forms, NEW c \in Call, Apply(c),
         \/ c \in pending
         \/ \E q \in Reqs : req[q].pc \in Puts \cup Dels /\ c = CallOf(q)
  PROVE  /\ ObjEffect /\ MetaEffect /\ IndexEffect
         /\ obj' \in [Keys -> Nat] /\ meta' \in [Keys -> Nat] /\ index' \subseteq Keys
         /\ c.op \in {"put", "rem"} => obj'[c.key] = c.val
         /\ c.op \in {"hset", "del"} => meta'[c.key] = c.val
         /\ c.op = "srem" => c.key \notin index'
<1>1. c.key \in Keys /\ c.val \in Nat
  BY DEF Call
<1>2. \A ops : c.op \in ops => Sent(c.key, ops, c.val)
  BY DEF Sent, CallOf
<1>3. /\ obj' \in [Keys -> Nat]
      /\ \A k \in Keys : \/ obj'[k] = obj[k]
                         \/ c.op \in {"put", "rem"} /\ k = c.key /\ obj'[k] = c.val
      /\ c.op \in {"put", "rem"} => obj'[c.key] = c.val
  BY <1>1 DEF Apply, Forms
<1>4. /\ meta' \in [Keys -> Nat]
      /\ \A k \in Keys : \/ meta'[k] = meta[k]
                         \/ c.op \in {"hset", "del"} /\ k = c.key /\ meta'[k] = c.val
      /\ c.op \in {"hset", "del"} => meta'[c.key] = c.val
  BY <1>1 DEF Apply, Forms
<1>5. /\ index' \subseteq Keys
      /\ \A k \in index' : k \in index \/ (c.op \in {"sadd"} /\ k = c.key)
      /\ c.op = "srem" => c.key \notin index'
  BY <1>1 DEF Apply, Forms
<1>6. ObjEffect
  BY <1>2, <1>3 DEF ObjEffect
<1>7. MetaEffect
  BY <1>2, <1>4 DEF MetaEffect
<1>8. IndexEffect
  BY <1>1, <1>2, <1>5 DEF IndexEffect
<1> QED BY <1>3, <1>4, <1>5, <1>6, <1>7, <1>8

LEMMA CallOkEffect ==
  ASSUME Forms, NEW r \in Reqs, CallOk(r)
  PROVE  Effect /\ Forms'
<1>1. req[r].pc \in Puts \cup Dels /\ CallOf(r) \in Call
  BY DEF CallOk, Forms, CallOf, Call, Request
<1>2. /\ CallOf(r).op = req[r].pc
      /\ CallOf(r).key = req[r].key /\ CallOf(r).val = req[r].val
  BY DEF CallOf
<1>3. PendingEffect /\ pending' \subseteq Call
  BY <1>1, LeaveFacts DEF CallOk
<1>4. /\ ObjEffect /\ MetaEffect /\ IndexEffect
      /\ obj' \in [Keys -> Nat] /\ meta' \in [Keys -> Nat] /\ index' \subseteq Keys
      /\ req[r].pc \in {"put", "rem"} => obj'[req[r].key] = req[r].val
      /\ req[r].pc \in {"hset", "del"} => meta'[req[r].key] = req[r].val
      /\ req[r].pc = "srem" => req[r].key \notin index'
  <2>1. Apply(CallOf(r)) /\ \E q \in Reqs : req[q].pc \in Puts \cup Dels /\ CallOf(r) = CallOf(q)
    BY <1>1 DEF CallOk
  <2> DEFINE c == CallOf(r)
  <2>2. c \in Call /\ Apply(c) /\ \E q \in Reqs : req[q].pc \in Puts \cup Dels /\ c = CallOf(q)
    BY <1>1, <2>1
  <2>3. c.op = req[r].pc /\ c.key = req[r].key /\ c.val = req[r].val
    BY <1>2
  <2> HIDE DEF c
  <2> QED BY <2>2, <2>3, ApplyFacts
<1>5. After[req[r].pc] \in PCs /\ After[req[r].pc] # "idle"
  BY <1>1, AfterFacts
<1>6. /\ req' \in [Reqs -> Request]
      /\ \A q \in Reqs \ {r} : req'[q] = req[q]
      /\ req'[r].pc = After[req[r].pc] /\ req'[r].val = req[r].val /\ req'[r].key = req[r].key
  <2> DEFINE pc == After[req[r].pc]
  <2>1. pc \in PCs /\ req' = Goto(r, pc) /\ req \in [Reqs -> Request]
    BY <1>5 DEF CallOk, Forms
  <2> HIDE DEF pc
  <2>2. /\ req' \in [Reqs -> Request]
        /\ \A q \in Reqs \ {r} : req'[q] = req[q]
        /\ req'[r].pc = pc /\ req'[r].val = req[r].val /\ req'[r].key = req[r].key
    BY <2>1, GotoFacts
  <2> QED BY <2>2 DEF pc
<1>7. Calls(r)
  BY <1>1, <1>4, <1>6 DEF Calls
<1>8. ReqEffect /\ AnswerEffect
  BY <1>5, <1>6, <1>7, OneMoves
<1>9. cache' = cache /\ clock' = clock
  BY DEF CallOk
<1>10. CacheEffect
  BY <1>9 DEF CacheEffect
<1> QED BY <1>3, <1>4, <1>6, <1>8, <1>9, <1>10 DEF Effect, StoreEffect, Forms

LEMMA PutFailsEffect ==
  ASSUME Forms, NEW r \in Reqs, PutFails(r)
  PROVE  Effect /\ Forms'
<1>1. req[r].pc = "put" /\ req[r].pc \in Puts \cup Dels
  BY DEF PutFails, At, Puts
<1>2. PendingEffect /\ pending' \subseteq Call
  BY <1>1, LeaveFacts DEF PutFails
<1>3. req' = Reply(r, TRUE) /\ UNCHANGED <<obj, meta, index, cache, clock>>
  BY DEF PutFails
<1>4. /\ req' \in [Reqs -> Request]
      /\ \A q \in Reqs \ {r} : req'[q] = req[q]
      /\ req'[r].pc = "idle" /\ req'[r].val = Absent /\ req'[r].key = req[r].key
  BY <1>3, ReplyFacts DEF Forms
<1>5. Ends(r)
  BY <1>1, <1>4 DEF Ends, Active
<1>6. ReqEffect /\ AnswerEffect
  BY <1>1, <1>4, <1>5, OneMoves
<1>7. ObjEffect /\ MetaEffect /\ IndexEffect /\ CacheEffect
  BY <1>3 DEF ObjEffect, MetaEffect, IndexEffect, CacheEffect
<1> QED BY <1>2, <1>3, <1>4, <1>6, <1>7 DEF Effect, StoreEffect, Forms

LEMMA CallFailsEffect ==
  ASSUME Forms, NEW r \in Reqs, CallFails(r)
  PROVE  Effect /\ Forms'
<1>1. req[r].pc \in Puts \cup Dels
  BY DEF CallFails
<1>2. PendingEffect /\ pending' \subseteq Call
  BY <1>1, LeaveFacts DEF CallFails
<1> DEFINE pc == After[req[r].pc]
<1>3. /\ pc \in PCs /\ pc # "idle" /\ req' = Goto(r, pc)
      /\ UNCHANGED <<obj, meta, index, cache, clock>>
  BY <1>1, AfterFacts DEF CallFails
<1> HIDE DEF pc
<1>4. /\ req' \in [Reqs -> Request]
      /\ \A q \in Reqs \ {r} : req'[q] = req[q]
      /\ req'[r].pc = pc /\ req'[r].val = req[r].val /\ req'[r].key = req[r].key
  BY <1>3, GotoFacts DEF Forms
<1>5. Calls(r)
  BY <1>1, <1>4 DEF Calls, pc
<1>6. ReqEffect /\ AnswerEffect
  BY <1>3, <1>4, <1>5, OneMoves
<1>7. ObjEffect /\ MetaEffect /\ IndexEffect /\ CacheEffect
  BY <1>3 DEF ObjEffect, MetaEffect, IndexEffect, CacheEffect
<1> QED BY <1>2, <1>3, <1>4, <1>6, <1>7 DEF Effect, StoreEffect, Forms

\* A step that changes nothing but request r.
LEMMA OnlyMoves ==
  ASSUME Forms, NEW r \in Reqs, UNCHANGED <<obj, meta, index, cache, pending, clock>>,
         req' \in [Reqs -> Request],
         \A q \in Reqs \ {r} : req'[q] = req[q],
         Ends(r) \/ Reads(r),
         req[r].pc \notin {"keep", "forget"}
  PROVE  Effect /\ Forms'
<1>1. StoreEffect /\ CacheEffect
  BY StoresKept
<1>2. ReqEffect /\ AnswerEffect
  BY OneMoves
<1> QED BY <1>1, <1>2 DEF Effect, Forms

\* the steps of serveAsset that answer
LEMMA AnswersEffect ==
  ASSUME Forms, NEW r \in Reqs, CacheHit(r) \/ StatFails(r) \/ ReadFails(r)
  PROVE  Effect /\ Forms'
<1>1. /\ req[r].pc \in {"lookup", "stat", "read"}
      /\ UNCHANGED <<obj, meta, index, cache, pending, clock>>
      /\ req' = Reply(r, TRUE) \/ req' = Reply(r, FALSE)
  BY DEF CacheHit, StatFails, ReadFails, At
<1>2. /\ req' \in [Reqs -> Request]
      /\ \A q \in Reqs \ {r} : req'[q] = req[q]
      /\ req'[r].pc = "idle" /\ req'[r].val = Absent /\ req'[r].key = req[r].key
  <2>1. CASE req' = Reply(r, TRUE)
    BY <2>1, ReplyFacts DEF Forms
  <2>2. CASE req' = Reply(r, FALSE)
    BY <2>2, ReplyFacts DEF Forms
  <2> QED BY <1>1, <2>1, <2>2
<1>3. Ends(r)
  BY <1>1, <1>2 DEF Ends, Active
<1> QED BY <1>1, <1>2, <1>3, OnlyMoves

\* the steps of serveAsset that go on
LEMMA ReadsEffect ==
  ASSUME Forms, NEW r \in Reqs, CacheMiss(r) \/ StatFound(r) \/ ReadAll(r)
  PROVE  Effect /\ Forms'
<1>1. /\ req[r].pc \in {"lookup", "stat", "read"}
      /\ UNCHANGED <<obj, meta, index, cache, pending, clock>>
  BY DEF CacheMiss, StatFound, ReadAll, At
<1>2. /\ req' \in [Reqs -> Request]
      /\ \A q \in Reqs \ {r} : req'[q] = req[q]
      /\ Reads(r)
  <2>1. CASE CacheMiss(r)
    <3>1. /\ req' = Goto(r, "stat") /\ "stat" \in PCs /\ req[r].pc = "lookup"
          /\ req \in [Reqs -> Request]
      BY <2>1 DEF CacheMiss, At, PCs, Forms
    <3> QED BY <3>1, GotoFacts DEF Reads
  <2>2. CASE ReadAll(r)
    <3>1. /\ req' = Goto(r, "store") /\ "store" \in PCs /\ req[r].pc = "read"
          /\ req \in [Reqs -> Request]
      BY <2>2 DEF ReadAll, At, PCs, Forms
    <3> QED BY <3>1, GotoFacts DEF Reads
  <2>3. CASE StatFound(r)
    <3> DEFINE v == obj[req[r].key]
               x == [req[r] EXCEPT !.pc = "read", !.val = v]
    <3>1. req \in [Reqs -> Request] /\ req[r].key \in Keys /\ v \in Nat /\ "read" \in PCs
      BY DEF Forms, Request, PCs
    <3>2. /\ req' = [req EXCEPT ![r] = x]
          /\ req[r].pc = "stat" /\ v # Absent
      BY <2>3 DEF StatFound, At
    <3>3. x \in Request /\ x.pc = "read" /\ x.val = v /\ x.key = req[r].key
      BY <3>1 DEF Request
    <3> HIDE DEF x
    <3>4. req' \in [Reqs -> Request] /\ req'[r] = x /\ \A q \in Reqs \ {r} : req'[q] = req[q]
      BY <3>1, <3>2, <3>3
    <3> QED BY <3>2, <3>3, <3>4 DEF Reads
  <2> QED BY <2>1, <2>2, <2>3
<1> QED BY <1>1, <1>2, OnlyMoves

\* The last step of upload, deleteAsset and serveAsset changes r's server's cache.
LEMMA LastEffect ==
  ASSUME Forms, NEW r \in Reqs, Absent \in Nat,
         req[r].pc \in {"keep", "store", "forget"},
         req' = Reply(r, FALSE), UNCHANGED <<obj, meta, index, pending, clock>>,
         cache' \in [Servers -> [Keys -> Nat]], CacheEffect,
         req[r].pc \in {"keep", "forget"} => cache'[Home[r]][req[r].key] = req[r].val
  PROVE  Effect /\ Forms'
<1>1. /\ req' \in [Reqs -> Request]
      /\ \A q \in Reqs \ {r} : req'[q] = req[q]
      /\ req'[r].pc = "idle" /\ req'[r].val = Absent /\ req'[r].key = req[r].key
  BY ReplyFacts DEF Forms
<1>2. Ends(r)
  BY <1>1 DEF Ends, Active
<1>3. ReqEffect /\ AnswerEffect
  BY <1>1, <1>2, OneMoves
<1>4. StoreEffect
  BY DEF StoreEffect, ObjEffect, MetaEffect, IndexEffect, PendingEffect
<1> QED BY <1>1, <1>3, <1>4 DEF Effect, Forms

\* what cache.set leaves in the caches
LEMMA CacheSetFacts ==
  ASSUME Forms, NEW r \in Reqs, NEW evicted, CacheSet(r, evicted),
         req[r].pc \in {"keep", "store"}
  PROVE  /\ cache' \in [Servers -> [Keys -> Nat]]
         /\ CacheEffect
         /\ cache'[Home[r]][req[r].key] = req[r].val
<1>1. /\ Home[r] \in Servers /\ req[r].key \in Keys /\ req[r].val \in Nat /\ Absent \in Nat
      /\ cache \in [Servers -> [Keys -> Nat]]
  BY BinaryAssumption DEF Forms, Request, Absent
<1> DEFINE row == [k \in Keys |-> IF k = req[r].key THEN req[r].val
                                  ELSE IF k \in evicted THEN Absent ELSE cache[Home[r]][k]]
<1>2. /\ row \in [Keys -> Nat] /\ row[req[r].key] = req[r].val
      /\ \A k \in Keys : \/ row[k] \in {cache[Home[r]][k], Absent}
                         \/ k = req[r].key /\ row[k] = req[r].val
  BY <1>1
<1>3. cache' = [cache EXCEPT ![Home[r]] = row]
  BY DEF CacheSet
<1> HIDE DEF row
<1>4. /\ cache' \in [Servers -> [Keys -> Nat]] /\ cache'[Home[r]] = row
      /\ \A s \in Servers \ {Home[r]} : cache'[s] = cache[s]
  BY <1>1, <1>2, <1>3
<1> QED BY <1>2, <1>4 DEF CacheEffect

LEMMA KeepStoreEffect ==
  ASSUME Forms, NEW r \in Reqs, NEW evicted, Keep(r, evicted) \/ Store(r, evicted)
  PROVE  Effect /\ Forms'
<1>1. /\ req[r].pc \in {"keep", "store"} /\ CacheSet(r, evicted)
      /\ req' = Reply(r, FALSE) /\ UNCHANGED <<obj, meta, index, pending, clock>>
  BY DEF Keep, Store, At
<1>2. /\ cache' \in [Servers -> [Keys -> Nat]] /\ CacheEffect
      /\ cache'[Home[r]][req[r].key] = req[r].val
  BY <1>1, CacheSetFacts
<1>3. Absent \in Nat
  BY DEF Absent
<1> QED BY <1>1, <1>2, <1>3, LastEffect

LEMMA ForgetEffect ==
  ASSUME Forms, NEW r \in Reqs, req[r].val = Absent, Forget(r)
  PROVE  Effect /\ Forms'
<1>1. /\ req[r].pc = "forget"
      /\ req' = Reply(r, FALSE) /\ UNCHANGED <<obj, meta, index, pending, clock>>
      /\ cache' = [cache EXCEPT ![Home[r]][req[r].key] = Absent]
  BY DEF Forget, At
<1>2. /\ Home[r] \in Servers /\ req[r].key \in Keys /\ Absent \in Nat
      /\ cache \in [Servers -> [Keys -> Nat]]
  BY BinaryAssumption DEF Forms, Request, Absent
<1>3. /\ cache' \in [Servers -> [Keys -> Nat]]
      /\ cache'[Home[r]][req[r].key] = Absent
      /\ \A s \in Servers, k \in Keys : cache'[s][k] \in {cache[s][k], Absent}
  BY <1>1, <1>2
<1>4. CacheEffect
  BY <1>3 DEF CacheEffect
<1> QED BY <1>1, <1>2, <1>3, <1>4, LastEffect

LEMMA StartEffect ==
  ASSUME Forms, NEW r \in Reqs, NEW k \in Keys,
         StartUpload(r, k) \/ StartServe(r, k) \/ StartDelete(r, k)
  PROVE  Effect /\ Forms'
<1>1. UNCHANGED <<obj, meta, index, cache, pending>> /\ ~Active(r)
  BY DEF StartUpload, StartServe, StartDelete, Arrive
<1>2. /\ clock \in Nat /\ Absent \in Nat /\ req \in [Reqs -> Request]
      /\ "put" \in PCs /\ "lookup" \in PCs /\ "rem" \in PCs
  BY DEF Forms, Absent, PCs, Puts, Dels
<1>3. /\ req' \in [Reqs -> Request] /\ \A q \in Reqs \ {r} : req'[q] = req[q]
      /\ \/ req'[r].pc \in {"lookup", "rem"} /\ req'[r].val = Absent /\ clock' = clock
         \/ req'[r].pc = "put" /\ clock' = clock + 1 /\ req'[r].val = clock + 1
  <2>1. CASE StartUpload(r, k)
    <3> DEFINE v == clock + 1
    <3>1. v \in Nat /\ Arrive(r, k, "put", v) /\ clock' = v
      BY <1>2, <2>1 DEF StartUpload
    <3> HIDE DEF v
    <3>2. /\ req' \in [Reqs -> Request] /\ \A q \in Reqs \ {r} : req'[q] = req[q]
          /\ req'[r].pc = "put" /\ req'[r].val = v
      BY <1>2, <3>1, ArriveFacts
    <3> QED BY <3>1, <3>2 DEF v
  <2>2. CASE StartServe(r, k)
    BY <1>2, <2>2, ArriveFacts DEF StartServe
  <2>3. CASE StartDelete(r, k)
    BY <1>2, <2>3, ArriveFacts DEF StartDelete
  <2> QED BY <2>1, <2>2, <2>3
<1>4. Comes(r) /\ req'[r].pc # "idle"
  BY <1>1, <1>3 DEF Comes
<1>5. ReqEffect /\ AnswerEffect
  BY <1>3, <1>4, OneMoves
<1>6. StoreEffect /\ CacheEffect
  BY <1>1, StoresKept
<1>7. clock' \in Nat /\ (clock' = clock \/ clock' = clock + 1)
  BY <1>2, <1>3
<1> QED BY <1>1, <1>3, <1>5, <1>6, <1>7 DEF Effect, Forms

\* Steps that leave the requests and the caches alone.
LEMMA NobodyMoves ==
  ASSUME Forms, UNCHANGED <<cache, clock, req>>
  PROVE  /\ CacheEffect /\ ReqEffect /\ AnswerEffect
         /\ cache' \in [Servers -> [Keys -> Nat]]
         /\ clock' \in Nat /\ req' \in [Reqs -> Request]
<1>1. CacheEffect /\ ReqEffect
  BY DEF CacheEffect, ReqEffect
<1>2. AnswerEffect
  BY DEF AnswerEffect
<1> QED BY <1>1, <1>2 DEF Forms

LEMMA LateEffect ==
  ASSUME Forms, NEW c \in pending, LateArrives(c) \/ LateLost(c)
  PROVE  Effect /\ Forms'
<1>1. UNCHANGED <<cache, clock, req>> /\ pending' = pending \ {c} /\ c \in Call
  BY DEF LateArrives, LateLost, Forms
<1>2. PendingEffect /\ pending' \subseteq Call
  BY <1>1 DEF PendingEffect, Forms
<1>3. /\ ObjEffect /\ MetaEffect /\ IndexEffect
      /\ obj' \in [Keys -> Nat] /\ meta' \in [Keys -> Nat] /\ index' \subseteq Keys
  <2>1. CASE LateArrives(c)
    BY <1>1, <2>1, ApplyFacts DEF LateArrives
  <2>2. CASE LateLost(c)
    BY <2>2 DEF LateLost, ObjEffect, MetaEffect, IndexEffect, Forms
  <2> QED BY <2>1, <2>2
<1> QED BY <1>1, <1>2, <1>3, NobodyMoves DEF Effect, StoreEffect, Forms

LEMMA DropEffect ==
  ASSUME Forms, DropIndex \/ \E k \in Keys : DropMeta(k)
  PROVE  Effect /\ Forms'
<1>1. UNCHANGED <<obj, pending, cache, clock, req>>
  BY DEF DropIndex, DropMeta
<1>2. meta' \in [Keys -> Nat] /\ \A k \in Keys : meta'[k] \in {meta[k], Absent}
  BY DEF DropIndex, DropMeta, Forms, Absent
<1>3. index' \subseteq index
  BY DEF DropIndex, DropMeta
<1>4. StoreEffect
  BY <1>1, <1>2, <1>3 DEF StoreEffect, ObjEffect, MetaEffect, IndexEffect, PendingEffect
<1> QED BY <1>1, <1>2, <1>3, <1>4, NobodyMoves DEF Effect, Forms

LEMMA CrashEffect ==
  ASSUME Forms, NEW s \in Servers, Crash(s)
  PROVE  Effect /\ Forms'
<1>1. /\ Absent \in Nat /\ "idle" \in PCs
      /\ cache \in [Servers -> [Keys -> Nat]] /\ req \in [Reqs -> Request]
  BY DEF Forms, Absent, PCs
<1>2. /\ cache' \in [Servers -> [Keys -> Nat]]
      /\ \A t \in Servers, k \in Keys : cache'[t][k] \in {cache[t][k], Absent}
  BY <1>1 DEF Crash
<1>3. ASSUME NEW r \in Reqs
      PROVE  /\ req'[r] \in Request
             /\ req'[r] = req[r] \/ (Ends(r) /\ req'[r].err)
  <2>1. CASE Home[r] = s /\ Active(r)
    <3>1. req'[r] = [req[r] EXCEPT !.pc = "idle", !.val = Absent, !.err = TRUE]
      BY <2>1 DEF Crash
    <3> QED BY <1>1, <2>1, <3>1 DEF Request, Ends
  <2>2. CASE ~(Home[r] = s /\ Active(r))
    BY <1>1, <2>2 DEF Crash
  <2> QED BY <2>1, <2>2
<1>4. req' = [r \in Reqs |-> req'[r]]
  BY DEF Crash
<1>5. req' \in [Reqs -> Request]
  BY <1>3, <1>4
<1>6. ReqEffect
  BY <1>3 DEF ReqEffect
<1>7. AnswerEffect
  BY <1>3 DEF AnswerEffect
<1>8. CacheEffect
  BY <1>2 DEF CacheEffect
<1>9. UNCHANGED <<obj, meta, index, pending, clock>>
  BY DEF Crash
<1>10. StoreEffect
  BY <1>9 DEF StoreEffect, ObjEffect, MetaEffect, IndexEffect, PendingEffect
<1> QED BY <1>2, <1>5, <1>6, <1>7, <1>8, <1>9, <1>10 DEF Effect, Forms

-----------------------------------------------------------------------------
(* Type correctness *)

LEMMA NextEffect ==
  ASSUME TypeOK, Next
  PROVE  Effect /\ Forms'
<1> USE TypeForms
<1>1. CASE Environment
  <2>1. CASE \E r \in Reqs, k \in Keys : StartUpload(r, k) \/ StartServe(r, k) \/ StartDelete(r, k)
    BY <2>1, StartEffect
  <2>2. CASE \E c \in pending : LateArrives(c) \/ LateLost(c)
    BY <2>2, LateEffect
  <2>3. CASE DropIndex \/ \E k \in Keys : DropMeta(k)
    BY <2>3, DropEffect
  <2>4. CASE \E s \in Servers : Crash(s)
    BY <2>4, CrashEffect
  <2> QED BY <1>1, <2>1, <2>2, <2>3, <2>4 DEF Environment
<1>2. ASSUME NEW r \in Reqs, Step(r)
      PROVE  Effect /\ Forms'
  <2>1. CASE CallOk(r)
    BY <2>1, CallOkEffect
  <2>2. CASE PutFails(r)
    BY <2>2, PutFailsEffect
  <2>3. CASE CallFails(r)
    BY <2>3, CallFailsEffect
  <2>4. CASE Forget(r)
    <3>1. req[r].val = Absent
      BY <2>4 DEF TypeOK, Carrying, Forget, At, Puts
    <3> QED BY <2>4, <3>1, ForgetEffect
  <2>5. CASE CacheHit(r) \/ StatFails(r) \/ ReadFails(r)
    BY <2>5, AnswersEffect
  <2>6. CASE CacheMiss(r) \/ StatFound(r) \/ ReadAll(r)
    BY <2>6, ReadsEffect
  <2>7. CASE \E evicted \in SUBSET (Keys \ {req[r].key}) : Keep(r, evicted) \/ Store(r, evicted)
    BY <2>7, KeepStoreEffect
  <2> QED BY <1>2, <2>1, <2>2, <2>3, <2>4, <2>5, <2>6, <2>7 DEF Step
<1> QED BY <1>1, <1>2 DEF Next

\* What is sent was uploaded before.
LEMMA SentVersions ==
  ASSUME TypeOK, NEW k, NEW ops, NEW v, Sent(k, ops, v)
  PROVE  v \in Version
BY DEF TypeOK, Sent

\* A request carries a version on exactly the steps that need one.
LEMMA RequestVersions ==
  ASSUME TypeOK, Effect, Forms', NEW r \in Reqs
  PROVE  req'[r].val \in 0 .. clock' /\ (Carrying(r)' <=> req'[r].val # Absent)
<1>1. /\ clock \in Nat /\ clock' \in Nat /\ Absent = 0 /\ (clock' = clock \/ clock' = clock + 1)
      /\ req[r].val \in 0 .. clock /\ (Carrying(r) <=> req[r].val # Absent)
      /\ req[r].key \in Keys /\ obj[req[r].key] \in 0 .. clock
  BY DEF TypeOK, Effect, Forms, Version, Absent, Request
<1>2. Carrying(r)' <=> req'[r].pc \in {"put", "hset", "sadd", "keep", "read", "store"}
  BY DEF Carrying, Puts
<1>3. Carrying(r) <=> req[r].pc \in {"put", "hset", "sadd", "keep", "read", "store"}
  BY DEF Carrying, Puts
<1>4. CASE req'[r] = req[r]
  BY <1>1, <1>2, <1>3, <1>4
<1>5. CASE Ends(r)
  BY <1>1, <1>2, <1>5 DEF Ends
<1>6. CASE Comes(r)
  BY <1>1, <1>2, <1>6 DEF Comes
<1>7. CASE Calls(r)
  <2>1. req'[r].val = req[r].val /\ req'[r].pc = After[req[r].pc] /\ req[r].pc \in Puts \cup Dels
    BY <1>7 DEF Calls
  <2>2. Carrying(r)' <=> Carrying(r)
    BY <1>2, <1>3, <2>1 DEF After, Puts, Dels
  <2> QED BY <1>1, <2>1, <2>2
<1>8. CASE Reads(r)
  BY <1>1, <1>2, <1>3, <1>8 DEF Reads
<1> QED BY <1>4, <1>5, <1>6, <1>7, <1>8 DEF Effect, ReqEffect

LEMMA TypeStep ==
  ASSUME TypeOK, Effect, Forms'
  PROVE  TypeOK'
<1>1. /\ clock \in Nat /\ clock' \in Nat /\ (clock' = clock \/ clock' = clock + 1)
  BY DEF TypeOK, Effect, Forms
<1>2. /\ \A v \in Version : v \in 0 .. clock'
      /\ Absent \in 0 .. clock' /\ \A v : v \in Version' <=> v \in 0 .. clock'
  BY <1>1 DEF Version, Absent
<1>3. \A k \in Keys : obj'[k] \in 0 .. clock'
  BY <1>2, SentVersions DEF TypeOK, Effect, StoreEffect, ObjEffect
<1>4. \A k \in Keys : meta'[k] \in 0 .. clock'
  BY <1>2, SentVersions DEF TypeOK, Effect, StoreEffect, MetaEffect
<1>5. \A s \in Servers, k \in Keys : cache'[s][k] \in 0 .. clock'
  BY <1>2 DEF TypeOK, Effect, CacheEffect
<1>6. \A c \in pending' : c.val \in 0 .. clock' /\ (c.op \in Puts <=> c.val # Absent)
  <2> SUFFICES ASSUME NEW c \in pending'
               PROVE  c.val \in 0 .. clock' /\ (c.op \in Puts <=> c.val # Absent)
    OBVIOUS
  <2>1. CASE c \in pending
    BY <1>2, <2>1 DEF TypeOK
  <2>2. CASE \E q \in Reqs : req[q].pc \in Puts \cup Dels /\ c = CallOf(q)
    <3>1. PICK q \in Reqs : req[q].pc \in Puts \cup Dels /\ c = CallOf(q)
      BY <2>2
    <3>2. c.op = req[q].pc /\ c.val = req[q].val
      BY <3>1 DEF CallOf
    <3>3. req[q].pc \in Puts <=> Carrying(q)
      BY <3>1 DEF Carrying, Puts, Dels
    <3> QED BY <1>2, <3>2, <3>3 DEF TypeOK
  <2> QED BY <2>1, <2>2 DEF Effect, StoreEffect, PendingEffect
<1>7. \A r \in Reqs : req'[r].val \in 0 .. clock' /\ (Carrying(r)' <=> req'[r].val # Absent)
  BY RequestVersions
<1>8. /\ obj' \in [Keys -> Version'] /\ meta' \in [Keys -> Version']
      /\ cache' \in [Servers -> [Keys -> Version']]
  BY <1>2, <1>3, <1>4, <1>5 DEF Forms
<1> QED BY <1>1, <1>2, <1>6, <1>7, <1>8 DEF TypeOK, Forms

LEMMA TypeInit == Init => TypeOK
<1> SUFFICES ASSUME Init PROVE TypeOK
  OBVIOUS
<1> DEFINE First == {[key |-> k, pc |-> "idle", val |-> Absent, err |-> FALSE] : k \in Keys}
<1>1. \A x \in First : x \in Request /\ x.val = 0 /\ x.pc = "idle"
  <2> SUFFICES ASSUME NEW k \in Keys, NEW x,
                      x = [key |-> k, pc |-> "idle", val |-> Absent, err |-> FALSE]
               PROVE  x \in Request /\ x.val = 0 /\ x.pc = "idle"
    OBVIOUS
  <2>1. "idle" \in PCs /\ Absent = 0
    BY DEF PCs, Absent
  <2> QED BY <2>1 DEF Request
<1>2. req \in [Reqs -> First]
  BY DEF Init
<1> HIDE DEF First
<1>3. req \in [Reqs -> Request] /\ \A r \in Reqs : req[r].val = 0 /\ req[r].pc = "idle"
  BY <1>1, <1>2
<1>4. /\ clock = 1 /\ Version = 0 .. 1 /\ Absent = 0 /\ pending = {}
      /\ obj \in [Keys -> {0, 1}] /\ meta = obj /\ index \subseteq Keys
      /\ cache = [s \in Servers |-> [k \in Keys |-> 0]]
  BY DEF Init, Version, Absent
<1>5. \A r \in Reqs : ~Carrying(r)
  BY <1>3 DEF Carrying, Puts
<1> QED BY <1>3, <1>4, <1>5 DEF TypeOK

\* Whatever calls fail, come late or are repeated, nothing holds a version that
\* was never uploaded, and a handler has an asset in hand exactly on the steps
\* that pass one on.
THEOREM BinaryTypeCorrect == Spec => []TypeOK
<1>1. TypeOK /\ [Next]_vars => TypeOK'
  <2>1. CASE TypeOK /\ Next
    BY <2>1, NextEffect, TypeStep
  <2>2. ASSUME TypeOK, UNCHANGED vars PROVE TypeOK'
    BY <2>2 DEF TypeOK, vars, Version, Carrying
  <2> QED BY <2>1, <2>2
<1> QED BY <1>1, TypeInit, PTL DEF Spec
=============================================================================
