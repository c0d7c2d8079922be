----------------------- MODULE BinaryCoherence_proofs -----------------------
(***************************************************************************)
(* Proofs about BinaryCoherence.  Everything rests on what a step may do   *)
(* (Effect, of BinaryHandler_proofs) and on one fact: while a request is   *)
(* alone on its key, nobody but the request itself changes what MinIO and  *)
(* Redis have for it, except that Redis may evict.                         *)
(***************************************************************************)
EXTENDS BinaryCoherence, BinaryHandler_proofs

-----------------------------------------------------------------------------
(* The inductive invariant *)

\* no floor above the next version to be uploaded
FloorsReached ==
  /\ iso \in [Reqs -> BOOLEAN]
  /\ clean \in [Keys -> BOOLEAN]
  /\ floor \in [Servers -> [Keys -> Nat]]
  /\ \A s \in Servers, k \in Keys : floor[s][k] <= clock + 1

IsoAlone == \A r \in Reqs : iso[r] => Active(r) /\ Alone(r)

\* The calls such a request has made have had their effect, and keep it.
Progress ==
  \A r \in Reqs : iso[r] =>
    /\ req[r].pc \in {"hset", "sadd", "keep", "del", "srem", "forget"}
         => obj[req[r].key] = req[r].val
    /\ req[r].pc \in {"sadd", "keep", "srem", "forget"}
         => meta[req[r].key] \in {Absent, req[r].val}
    /\ req[r].pc = "forget" => req[r].key \notin index

\* Since the last write that ran alone, nobody has begun another, and no call is
\* on its way.
Quiet ==
  \A k \in Keys : clean[k] =>
    /\ \A r \in Reqs : ~Writing(r, k)
    /\ \A c \in pending : c.key # k

\* What a request holds after PutObject or Stat is an asset MinIO stored.
HeldStored ==
  /\ \A k \in Keys : obj[k] \in stored
  /\ \A r \in Reqs : req[r].pc \in {"hset", "sadd", "keep", "read", "store"}
                       => req[r].val \in stored

BInv ==
  /\ TypeOK /\ FloorsReached /\ IsoAlone /\ Progress /\ Quiet /\ HeldStored
  /\ OnlyStored /\ NeverGoesBack /\ WriteRepairs

-----------------------------------------------------------------------------
(* What a request finds that is alone on its key *)

LEMMA KeyOf == ASSUME TypeOK, NEW r \in Reqs
               PROVE  req[r].key \in Keys /\ req[r].val \in Nat
BY TypeForms DEF Forms, Request

\* Nobody but r changes anything for r's key.
LEMMA AloneKeeps ==
  ASSUME TypeOK, Effect, NEW r \in Reqs, Alone(r)
  PROVE  /\ req[r].pc \notin {"put", "rem"} => obj'[req[r].key] = obj[req[r].key]
         /\ req[r].pc \notin {"hset", "del"}
              => meta'[req[r].key] \in {meta[req[r].key], Absent}
         /\ req[r].pc # "sadd" /\ req[r].key \in index' => req[r].key \in index
         /\ req[r].pc \notin Puts \cup Dels => \A c \in pending' : c.key # req[r].key
<1> DEFINE k == req[r].key
<1>1. k \in Keys
  BY KeyOf
<1>2. \A q \in Reqs : req[q].key = k /\ req[q].pc # "idle" => q = r
  BY DEF Alone, Active
<1>3. \A c \in pending : c.key # k
  BY DEF Alone
<1>4. \A ops, v : Sent(k, ops, v) /\ "idle" \notin ops => req[r].pc \in ops
  BY <1>2, <1>3 DEF Sent
<1>5. req[r].pc \notin {"put", "rem"} => obj'[k] = obj[k]
  BY <1>1, <1>4 DEF Effect, StoreEffect, ObjEffect
<1>6. req[r].pc \notin {"hset", "del"} => meta'[k] \in {meta[k], Absent}
  BY <1>1, <1>4 DEF Effect, StoreEffect, MetaEffect
<1>7. req[r].pc # "sadd" /\ k \in index' => k \in index
  BY <1>1, <1>4 DEF Effect, StoreEffect, IndexEffect
<1>8. ASSUME req[r].pc \notin Puts \cup Dels, NEW c \in pending'
      PROVE  c.key # k
  <2>1. CASE c \in pending
    BY <1>3, <2>1
  <2>2. CASE \E q \in Reqs : req[q].pc \in Puts \cup Dels /\ c = CallOf(q)
    <3>1. PICK q \in Reqs : req[q].pc \in Puts \cup Dels /\ c = CallOf(q)
      BY <2>2
    <3>2. c.key = req[q].key /\ req[q].pc # "idle" /\ q # r
      BY <1>8, <3>1 DEF CallOf, Puts, Dels
    <3> QED BY <1>2, <3>2
  <2> QED BY <2>1, <2>2 DEF Effect, StoreEffect, PendingEffect
<1> QED BY <1>5, <1>6, <1>7, <1>8

\* A write that ran alone answers: its result is everywhere, and nobody else is
\* there.
LEMMA Completing ==
  ASSUME BInv, Effect, TypeOK', NEW r \in Reqs, Completes(r), NEW k, k = req[r].key
  PROVE  /\ k \in Keys /\ obj'[k] = req[r].val /\ meta'[k] \in {Absent, req[r].val}
         /\ cache'[Home[r]][k] = req[r].val
         /\ \A c \in pending' : c.key # k
         /\ \A q \in Reqs : req'[q].key = k => req'[q].pc = "idle" /\ req'[q].val = Absent
         /\ \/ req[r].pc = "keep" /\ req[r].val # Absent
            \/ req[r].pc = "forget" /\ req[r].val = Absent /\ k \notin index'
<1>1. /\ TypeOK /\ iso[r] /\ Alone(r) /\ req'[r].pc = "idle" /\ ~req'[r].err
      /\ req[r].pc \in {"keep", "forget"}
  BY DEF BInv, IsoAlone, Completes, At, Active
<1>2. k \in Keys
  BY <1>1, KeyOf
<1>3. /\ obj[k] = req[r].val /\ meta[k] \in {Absent, req[r].val}
      /\ req[r].pc = "forget" => k \notin index
  BY <1>1 DEF BInv, Progress
<1>4. /\ obj'[k] = obj[k] /\ meta'[k] \in {meta[k], Absent} /\ (k \in index' => k \in index)
      /\ \A c \in pending' : c.key # k
  BY <1>1, AloneKeeps DEF Puts, Dels
<1>5. cache'[Home[r]][k] = req[r].val
  BY <1>1 DEF Effect, AnswerEffect
<1>6. req[r].pc = "keep" <=> req[r].val # Absent
  BY <1>1 DEF TypeOK, Carrying, Puts
<1>7. ASSUME NEW q \in Reqs, req'[q].key = k
      PROVE  req'[q].pc = "idle" /\ req'[q].val = Absent
  <2>1. req'[q].pc = "idle"
    <3>1. CASE q = r
      BY <1>1, <3>1
    <3>2. CASE q # r
      <4>1. ~Comes(q)
        BY <1>1, <3>2 DEF Comes
      <4>2. req'[q].key = req[q].key \/ Ends(q)
        BY <4>1 DEF Effect, ReqEffect, Calls, Reads
      <4>3. CASE Ends(q)
        BY <4>3 DEF Ends
      <4>4. CASE ~Ends(q)
        <5>1. req[q].pc = "idle"
          BY <1>1, <1>7, <3>2, <4>2, <4>4 DEF Alone, Active
        <5>2. ~Calls(q) /\ ~Reads(q)
          BY <5>1 DEF Calls, Reads, Puts, Dels
        <5> QED BY <4>1, <4>4, <5>1, <5>2 DEF Effect, ReqEffect
      <4> QED BY <4>3, <4>4
    <3> QED BY <3>1, <3>2
  <2> QED BY <2>1 DEF TypeOK, Carrying, Puts
<1> QED BY <1>1, <1>2, <1>3, <1>4, <1>5, <1>6, <1>7

-----------------------------------------------------------------------------
(* One step, part by part *)

LEMMA HeldStoredStep ==
  ASSUME BInv, Effect, HistoryNext
  PROVE  HeldStored'
<1>1. TypeOK /\ stored \subseteq stored' /\ \A k \in Keys : obj'[k] \in stored'
  BY DEF HistoryNext, BInv
<1>2. ASSUME NEW r \in Reqs, req'[r].pc \in {"hset", "sadd", "keep", "read", "store"}
      PROVE  req'[r].val \in stored'
  <2>1. CASE req'[r] = req[r]
    BY <1>1, <1>2, <2>1 DEF BInv, HeldStored
  <2>2. ~Ends(r) /\ ~Comes(r)
    BY <1>2 DEF Ends, Comes
  <2>3. CASE Calls(r)
    <3>1. CASE req[r].pc = "put"
      <4>1. req[r].key \in Keys /\ ~CallFails(r)
        BY <1>1, <3>1, KeyOf DEF CallFails
      <4> QED BY <1>1, <2>3, <3>1, <4>1 DEF Calls
    <3>2. CASE req[r].pc # "put"
      <4>1. req[r].pc \in {"hset", "sadd"} /\ req'[r].val = req[r].val
        BY <1>2, <2>3, <3>2 DEF Calls, After, Puts, Dels
      <4> QED BY <1>1, <4>1 DEF BInv, HeldStored
    <3> QED BY <3>1, <3>2
  <2>4. CASE Reads(r)
    BY <1>1, <1>2, <2>4, KeyOf DEF Reads, BInv, HeldStored
  <2> QED BY <2>1, <2>2, <2>3, <2>4 DEF Effect, ReqEffect
<1> QED BY <1>1, <1>2 DEF HeldStored

LEMMA OnlyStoredStep ==
  ASSUME BInv, Effect, HistoryNext
  PROVE  OnlyStored'
<1>1. TypeOK /\ HeldStored /\ OnlyStored /\ stored \subseteq stored'
  BY DEF HistoryNext, BInv
<1>2. \A s \in Servers, k \in Keys : cache'[s][k] \in stored' \cup {Absent}
  BY <1>1 DEF Effect, CacheEffect, HeldStored, OnlyStored
<1>3. ASSUME NEW k \in Keys
      PROVE  meta'[k] \in stored' \cup {Absent}
  <2>1. CASE meta'[k] \in {meta[k], Absent}
    BY <1>1, <2>1 DEF OnlyStored
  <2>2. CASE Sent(k, {"hset", "del"}, meta'[k])
    <3>1. \A c \in pending : c.op \in {"hset", "del"} => c.val \in stored \cup {Absent}
      BY <1>1 DEF TypeOK, OnlyStored, Puts
    <3>2. \A q \in Reqs : req[q].pc \in {"hset", "del"} => req[q].val \in stored \cup {Absent}
      BY <1>1 DEF TypeOK, HeldStored, Carrying, Puts
    <3> QED BY <1>1, <2>2, <3>1, <3>2 DEF Sent
  <2> QED BY <2>1, <2>2 DEF Effect, StoreEffect, MetaEffect
<1>4. ASSUME NEW c \in pending', c.op \in {"hset", "sadd"}
      PROVE  c.val \in stored'
  <2>1. CASE c \in pending
    BY <1>1, <1>4, <2>1 DEF OnlyStored
  <2>2. CASE \E q \in Reqs : req[q].pc \in Puts \cup Dels /\ c = CallOf(q)
    <3>1. PICK q \in Reqs : c.op = req[q].pc /\ c.val = req[q].val
      BY <2>2 DEF CallOf
    <3> QED BY <1>1, <1>4, <3>1 DEF HeldStored
  <2> QED BY <2>1, <2>2 DEF Effect, StoreEffect, PendingEffect
<1> QED BY <1>2, <1>3, <1>4 DEF OnlyStored

\* What the history variables become.
LEMMA HistoryFacts ==
  ASSUME HistoryNext
  PROVE  /\ \A r \in Reqs : iso'[r] => /\ Active(r)' /\ (~Active(r) \/ iso[r])
                                       /\ Alone(r)' /\ ~CallFails(r)
         /\ \A k \in Keys : clean'[k] =>
              \/ \E r \in Reqs : Completes(r) /\ req[r].key = k
              \/ clean[k] /\ \A r \in Reqs : ~Writing(r, k)'
         /\ iso' \in [Reqs -> BOOLEAN] /\ clean' \in [Keys -> BOOLEAN]
<1>1. ASSUME NEW r \in Reqs, iso'[r]
      PROVE  Active(r)' /\ (~Active(r) \/ iso[r]) /\ Alone(r)' /\ ~CallFails(r)
  BY <1>1 DEF HistoryNext
<1>2. ASSUME NEW k \in Keys, clean'[k]
      PROVE  \/ \E r \in Reqs : Completes(r) /\ req[r].key = k
             \/ clean[k] /\ \A r \in Reqs : ~Writing(r, k)'
  BY <1>2 DEF HistoryNext
<1>3. iso' \in [Reqs -> BOOLEAN] /\ clean' \in [Keys -> BOOLEAN]
  BY DEF HistoryNext
<1> QED BY <1>1, <1>2, <1>3

\* The floor is the old one, or that of a write on k that answers.
LEMMA FloorFacts ==
  ASSUME HistoryNext, NEW s \in Servers, NEW k \in Keys
  PROVE  \/ floor'[s][k] = floor[s][k]
         \/ \E r \in Reqs : /\ Completes(r) /\ Home[r] = s /\ req[r].key = k
                            /\ floor'[s][k] = NewFloor(r)
<1> DEFINE R == {r \in Reqs : Completes(r) /\ Home[r] = s /\ req[r].key = k}
<1>1. floor'[s][k] = IF R = {} THEN floor[s][k] ELSE NewFloor(CHOOSE r \in R : TRUE)
  BY DEF HistoryNext
<1>2. CASE R = {}
  BY <1>1, <1>2
<1>3. CASE R # {}
  <2>1. (CHOOSE r \in R : TRUE) \in R
    BY <1>3
  <2> QED BY <1>1, <1>3, <2>1
<1> QED BY <1>2, <1>3

LEMMA FloorsStep ==
  ASSUME BInv, Effect, TypeOK', HistoryNext
  PROVE  FloorsReached'
<1>1. /\ clock \in Nat /\ clock' \in Nat /\ (clock' = clock \/ clock' = clock + 1)
      /\ FloorsReached
  BY DEF BInv, TypeOK, Effect
<1>2. ASSUME NEW s \in Servers, NEW k \in Keys
      PROVE  floor'[s][k] \in Nat /\ floor'[s][k] <= clock' + 1
  <2>1. CASE floor'[s][k] = floor[s][k]
    BY <1>1, <2>1 DEF FloorsReached
  <2>2. ASSUME NEW r \in Reqs, floor'[s][k] = NewFloor(r)
        PROVE  floor'[s][k] \in Nat /\ floor'[s][k] <= clock' + 1
    <3>1. req[r].val \in 0 .. clock
      BY DEF BInv, TypeOK, Version
    <3> QED BY <1>1, <2>2, <3>1 DEF NewFloor
  <2> QED BY <2>1, <2>2, FloorFacts
<1>3. floor' = [s \in Servers |-> [k \in Keys |-> floor'[s][k]]]
  BY DEF HistoryNext
<1>4. floor' \in [Servers -> [Keys -> Nat]]
  BY <1>2, <1>3
<1> QED BY <1>2, <1>4, HistoryFacts DEF FloorsReached

LEMMA IsoAloneStep == ASSUME HistoryNext PROVE IsoAlone'
BY HistoryFacts DEF IsoAlone

LEMMA ProgressStep ==
  ASSUME BInv, Effect, HistoryNext
  PROVE  Progress'
<1> SUFFICES ASSUME NEW r \in Reqs, iso'[r]
             PROVE  /\ req'[r].pc \in {"hset", "sadd", "keep", "del", "srem", "forget"}
                         => obj'[req'[r].key] = req'[r].val
                    /\ req'[r].pc \in {"sadd", "keep", "srem", "forget"}
                         => meta'[req'[r].key] \in {Absent, req'[r].val}
                    /\ req'[r].pc = "forget" => req'[r].key \notin index'
  BY DEF Progress
<1>1. req'[r].pc # "idle" /\ (req[r].pc = "idle" \/ iso[r]) /\ ~CallFails(r)
  BY HistoryFacts DEF Active
<1>2. ~Ends(r)
  BY <1>1 DEF Ends
<1>3. CASE Comes(r) \/ Reads(r)
  BY <1>3 DEF Comes, Reads
<1>4. CASE ~Comes(r) /\ ~Reads(r)
  <2>1. req'[r] = req[r] \/ Calls(r)
    BY <1>2, <1>4 DEF Effect, ReqEffect
  <2>2. iso[r] /\ Alone(r) /\ TypeOK
    BY <1>1, <2>1 DEF BInv, IsoAlone, Calls, Puts, Dels
  <2>3. /\ req[r].pc \notin {"put", "rem"} => obj'[req[r].key] = obj[req[r].key]
        /\ req[r].pc \notin {"hset", "del"} => meta'[req[r].key] \in {meta[req[r].key], Absent}
        /\ req[r].pc # "sadd" /\ req[r].key \in index' => req[r].key \in index
    BY <2>2, AloneKeeps
  <2>4. /\ req[r].pc \in {"hset", "sadd", "keep", "del", "srem", "forget"}
             => obj[req[r].key] = req[r].val
        /\ req[r].pc \in {"sadd", "keep", "srem", "forget"}
             => meta[req[r].key] \in {Absent, req[r].val}
        /\ req[r].pc = "forget" => req[r].key \notin index
    BY <2>2 DEF BInv, Progress
  <2>5. CASE req'[r] = req[r]
    BY <2>3, <2>4, <2>5
  <2>6. CASE Calls(r)
    <3>1. /\ req'[r].key = req[r].key /\ req'[r].val = req[r].val
          /\ req[r].pc \in {"put", "rem"} => obj'[req[r].key] = req[r].val
          /\ req[r].pc \in {"hset", "del"} => meta'[req[r].key] = req[r].val
          /\ req[r].pc = "srem" => req[r].key \notin index'
      BY <1>1, <2>6 DEF Calls
    <3>2. \/ req[r].pc = "put" /\ req'[r].pc = "hset"
          \/ req[r].pc = "hset" /\ req'[r].pc = "sadd"
          \/ req[r].pc = "sadd" /\ req'[r].pc = "keep"
          \/ req[r].pc = "rem" /\ req'[r].pc = "del"
          \/ req[r].pc = "del" /\ req'[r].pc = "srem"
          \/ req[r].pc = "srem" /\ req'[r].pc = "forget"
      BY <2>6 DEF Calls, After, Puts, Dels
    <3> QED BY <2>3, <2>4, <3>1, <3>2
  <2> QED BY <2>1, <2>5, <2>6
<1> QED BY <1>3, <1>4

\* On a key nobody writes, MinIO and Redis keep what they have.
LEMMA QuietKeeps ==
  ASSUME Effect, NEW k \in Keys,
         \A r \in Reqs : ~Writing(r, k), \A c \in pending : c.key # k
  PROVE  /\ obj'[k] = obj[k] /\ meta'[k] \in {meta[k], Absent}
         /\ k \in index' => k \in index
         /\ \A c \in pending' : c.key # k
<1>1. \A v : ~Sent(k, {"put", "rem"}, v) /\ ~Sent(k, {"hset", "del"}, v) /\ ~Sent(k, {"sadd"}, v)
  BY DEF Sent, Writing, Puts, Dels
<1>2. ASSUME NEW c \in pending' PROVE c.key # k
  <2>1. CASE c \in pending
    BY <2>1
  <2>2. CASE \E q \in Reqs : req[q].pc \in Puts \cup Dels /\ c = CallOf(q)
    BY <2>2 DEF CallOf, Writing
  <2> QED BY <2>1, <2>2 DEF Effect, StoreEffect, PendingEffect
<1> QED BY <1>1, <1>2 DEF Effect, StoreEffect, ObjEffect, MetaEffect, IndexEffect

LEMMA QuietStep ==
  ASSUME BInv, Effect, TypeOK', HistoryNext
  PROVE  Quiet' /\ WriteRepairs'
<1> SUFFICES ASSUME NEW k \in Keys, clean'[k]
             PROVE  /\ \A r \in Reqs : ~Writing(r, k)'
                    /\ \A c \in pending' : c.key # k
                    /\ meta'[k] \in {Absent, obj'[k]}
                    /\ k \in index' => obj'[k] # Absent
  BY DEF Quiet, WriteRepairs
<1>1. ASSUME NEW r \in Reqs, Completes(r), req[r].key = k
      PROVE  /\ \A q \in Reqs : ~Writing(q, k)'
             /\ \A c \in pending' : c.key # k
             /\ meta'[k] \in {Absent, obj'[k]}
             /\ k \in index' => obj'[k] # Absent
  <2>1. /\ obj'[k] = req[r].val /\ meta'[k] \in {Absent, req[r].val}
        /\ \A c \in pending' : c.key # k
        /\ \A q \in Reqs : req'[q].key = k => req'[q].pc = "idle"
        /\ \/ req[r].pc = "keep" /\ req[r].val # Absent
           \/ req[r].pc = "forget" /\ req[r].val = Absent /\ k \notin index'
    BY <1>1, Completing
  <2>2. \A q \in Reqs : ~Writing(q, k)'
    BY <2>1 DEF Writing, Puts, Dels
  <2> QED BY <2>1, <2>2
<1>2. CASE clean[k] /\ \A r \in Reqs : ~Writing(r, k)'
  <2>1. /\ \A r \in Reqs : ~Writing(r, k)
        /\ \A c \in pending : c.key # k
        /\ meta[k] \in {Absent, obj[k]} /\ (k \in index => obj[k] # Absent)
    BY <1>2 DEF BInv, Quiet, WriteRepairs
  <2>2. /\ obj'[k] = obj[k] /\ meta'[k] \in {meta[k], Absent} /\ (k \in index' => k \in index)
        /\ \A c \in pending' : c.key # k
    BY <2>1, QuietKeeps
  <2> QED BY <1>2, <2>1, <2>2
<1> QED BY <1>1, <1>2, HistoryFacts

LEMMA NeverGoesBackStep ==
  ASSUME BInv, Effect, TypeOK', HistoryNext
  PROVE  NeverGoesBack'
<1> SUFFICES ASSUME NEW s \in Servers, NEW k \in Keys
             PROVE  /\ NotOlder(cache'[s][k], floor'[s][k])
                    /\ NotOlder(obj'[k], floor'[s][k])
                    /\ \A c \in pending' : c.key = k => NotOlder(c.val, floor'[s][k])
                    /\ \A r \in Reqs : req'[r].key = k => NotOlder(req'[r].val, floor'[s][k])
  BY DEF NeverGoesBack, NotOlder
<1>0. NotOlder(Absent, floor'[s][k])
  BY DEF NotOlder
<1>1. CASE floor'[s][k] = floor[s][k]
  <2> DEFINE low == floor[s][k]
             Ok(v) == NotOlder(v, low)
  <2>1. /\ Ok(cache[s][k]) /\ Ok(obj[k]) /\ Ok(Absent)
        /\ \A c \in pending : c.key = k => Ok(c.val)
        /\ \A r \in Reqs : req[r].key = k => Ok(req[r].val)
    BY DEF BInv, NeverGoesBack, NotOlder
  <2>2. Ok(clock + 1)
    BY DEF BInv, FloorsReached, TypeOK, NotOlder
  <2> HIDE DEF Ok
  <2>3. Ok(cache'[s][k])
    BY <2>1 DEF Effect, CacheEffect
  <2>4. Ok(obj'[k])
    BY <2>1 DEF Effect, StoreEffect, ObjEffect, Sent
  <2>5. ASSUME NEW c \in pending', c.key = k PROVE Ok(c.val)
    <3>1. CASE c \in pending
      BY <2>1, <2>5, <3>1
    <3>2. CASE \E q \in Reqs : c = CallOf(q)
      BY <2>1, <2>5, <3>2 DEF CallOf
    <3> QED BY <3>1, <3>2 DEF Effect, StoreEffect, PendingEffect
  <2>6. ASSUME NEW r \in Reqs, req'[r].key = k PROVE Ok(req'[r].val)
    <3>1. CASE Comes(r)
      BY <2>1, <2>2, <3>1 DEF Comes
    <3>2. CASE Reads(r)
      BY <2>1, <2>6, <3>2 DEF Reads
    <3>3. CASE req'[r] = req[r] \/ Ends(r) \/ Calls(r)
      BY <2>1, <2>6, <3>3 DEF Ends, Calls
    <3> QED BY <3>1, <3>2, <3>3 DEF Effect, ReqEffect
  <2> QED BY <1>1, <2>3, <2>4, <2>5, <2>6 DEF Ok
<1>2. ASSUME NEW r \in Reqs, Completes(r), Home[r] = s, req[r].key = k,
             floor'[s][k] = NewFloor(r)
      PROVE  /\ NotOlder(cache'[s][k], floor'[s][k])
             /\ NotOlder(obj'[k], floor'[s][k])
             /\ \A c \in pending' : c.key = k => NotOlder(c.val, floor'[s][k])
             /\ \A q \in Reqs : req'[q].key = k => NotOlder(req'[q].val, floor'[s][k])
  <2>1. /\ obj'[k] = req[r].val /\ cache'[s][k] = req[r].val
        /\ \A c \in pending' : c.key # k
        /\ \A q \in Reqs : req'[q].key = k => req'[q].val = Absent
        /\ \/ req[r].pc = "keep"
           \/ req[r].pc = "forget" /\ req[r].val = Absent
    BY <1>2, Completing
  <2>2. NotOlder(req[r].val, floor'[s][k])
    <3>1. CASE req[r].pc = "keep"
      <4>1. req[r].val \in Nat
        BY KeyOf DEF BInv
      <4> QED BY <1>2, <3>1, <4>1 DEF NewFloor, NotOlder, At
    <3>2. CASE req[r].val = Absent
      BY <1>0, <3>2
    <3> QED BY <2>1, <3>1, <3>2
  <2> QED BY <1>0, <2>1, <2>2
<1> QED BY <1>1, <1>2, FloorFacts

-----------------------------------------------------------------------------
LEMMA BInvInit == BInit => BInv
<1> SUFFICES ASSUME BInit PROVE BInv
  OBVIOUS
<1>1. TypeOK
  BY TypeInit DEF BInit
<1>2. /\ stored = {obj[k] : k \in Keys} /\ iso = [r \in Reqs |-> FALSE]
      /\ clean = [k \in Keys |-> TRUE] /\ floor = [s \in Servers |-> [k \in Keys |-> 0]]
  BY DEF BInit
<1>3. /\ clock = 1 /\ Absent = 0 /\ pending = {} /\ meta = obj
      /\ index = {k \in Keys : obj[k] # Absent}
      /\ cache = [s \in Servers |-> [k \in Keys |-> Absent]]
  BY DEF BInit, Init, Absent
<1>4. \A r \in Reqs : req[r].pc = "idle" /\ req[r].val = 0
  <2> DEFINE First == {[key |-> k, pc |-> "idle", val |-> Absent, err |-> FALSE] : k \in Keys}
  <2>1. req \in [Reqs -> First]
    BY DEF BInit, Init
  <2>2. \A x \in First : x.pc = "idle" /\ x.val = 0
    BY <1>3
  <2> HIDE DEF First
  <2> QED BY <2>1, <2>2
<1>5. FloorsReached /\ IsoAlone /\ Progress
  BY <1>2, <1>3 DEF FloorsReached, IsoAlone, Progress
<1>6. Quiet
  BY <1>3, <1>4 DEF Quiet, Writing, Puts, Dels
<1>7. HeldStored /\ OnlyStored
  BY <1>2, <1>3, <1>4 DEF HeldStored, OnlyStored
<1>8. NeverGoesBack
  <2>1. \A k \in Keys : obj[k] \in Nat
    BY <1>1, TypeForms DEF Forms
  <2> QED BY <1>2, <1>3, <1>4, <2>1 DEF NeverGoesBack, NotOlder
<1>9. WriteRepairs
  BY <1>3 DEF WriteRepairs
<1> QED BY <1>1, <1>5, <1>6, <1>7, <1>8, <1>9 DEF BInv

LEMMA BInvStep == BInv /\ [Next /\ HistoryNext]_bvars => BInv'
<1>1. ASSUME BInv, Next, HistoryNext PROVE BInv'
  <2>1. Effect /\ TypeOK'
    BY <1>1, NextEffect, TypeStep DEF BInv
  <2> QED BY <1>1, <2>1, HeldStoredStep, OnlyStoredStep, FloorsStep, IsoAloneStep,
             ProgressStep, QuietStep, NeverGoesBackStep DEF BInv
<1>2. ASSUME BInv, UNCHANGED bvars PROVE BInv'
  <2>1. /\ UNCHANGED <<obj, meta, index, cache, pending, clock, req>>
        /\ UNCHANGED <<stored, iso, clean, floor>>
    BY <1>2 DEF bvars
  <2>2. TypeOK' /\ FloorsReached'
    BY <1>2, <2>1 DEF BInv, TypeOK, Version, Carrying, FloorsReached
  <2>3. IsoAlone' /\ Progress' /\ Quiet'
    BY <1>2, <2>1 DEF BInv, IsoAlone, Active, Alone, Progress, Quiet, Writing
  <2>4. HeldStored' /\ OnlyStored'
    BY <1>2, <2>1 DEF BInv, HeldStored, OnlyStored
  <2>5. NeverGoesBack' /\ WriteRepairs'
    BY <1>2, <2>1 DEF BInv, NeverGoesBack, NotOlder, WriteRepairs
  <2> QED BY <2>2, <2>3, <2>4, <2>5 DEF BInv
<1> QED BY <1>1, <1>2

LEMMA BInvAlways == BSpec => []BInv
BY BInvInit, BInvStep, PTL DEF BSpec

\* Caches and metadata show only what MinIO stored: upload puts nothing into
\* Redis or a cache before PutObject succeeded, serveAsset only what it read.
THEOREM BinaryOnlyStored == BSpec => []OnlyStored
<1>1. BInv => OnlyStored
  BY DEF BInv
<1> QED BY <1>1, BInvAlways, PTL

\* After an upload or deletion that ran alone, its server never serves, and
\* nobody can bring back, an older version: any number of servers, any failures.
THEOREM BinaryNeverGoesBack == BSpec => []NeverGoesBack
<1>1. BInv => NeverGoesBack
  BY DEF BInv
<1> QED BY <1>1, BInvAlways, PTL

\* An upload or deletion that ran alone leaves Redis describing what MinIO has,
\* whatever earlier failures and races left there.
THEOREM BinaryWriteRepairs == BSpec => []WriteRepairs
<1>1. BInv => WriteRepairs
  BY DEF BInv
<1> QED BY <1>1, BInvAlways, PTL
=============================================================================
