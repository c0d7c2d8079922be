------------------------------ MODULE Manager ------------------------------
(***************************************************************************)
(* internal/cache/manager.go: the two-tier cache-aside orchestrator, run   *)
(* by several server processes that share one Redis (internal/cache/l2.go) *)
(* and one origin (internal/origin/origin.go).                             *)
(*                                                                         *)
(* A value is a version number: every origin fetch and every Set brings a  *)
(* new one, and 0 is the absence of a value.  Version 1 is what Redis held *)
(* before the servers started.                                             *)
(*                                                                         *)
(* The L1 tier is used through what LossyMap promises: a lookup returns    *)
(* the value of its key or misses, and DropL1 makes it forget (expiry,     *)
(* eviction, and the lazy delete that may hit a fresh entry).              *)
(*                                                                         *)
(* Redis may fail, or answer too late, at any command.  A command that was *)
(* sent but not acknowledged, a retried one, and the fire-and-forget       *)
(* back-population stay in pending, to take effect later or never.         *)
(***************************************************************************)
EXTENDS Integers, FiniteSets

CONSTANTS Servers, Reqs, Keys, NoReq,
          Home,          \* Home[r]: the server that handles request r
          UseSF,         \* NewManager's useSingleflight
          ReadReplicas,  \* cluster mode: reads may go to a lagging replica
          MaxClock       \* bound: versions created in a run

ASSUME ManagerAssumption ==
  /\ Home \in [Reqs -> Servers]
  /\ NoReq \notin Reqs
  /\ UseSF \in BOOLEAN
  /\ ReadReplicas \in BOOLEAN
  /\ MaxClock \in Nat

VARIABLES
  l1,       \* l1[s][k]: the version server s has in process
  l2,       \* l2[k]: the version Redis has (on the shard's master)
  rep,      \* rep[k]: the version a Redis replica has
  pending,  \* Redis commands in flight whose caller no longer waits
  clock,    \* the last version created
  req,      \* req[r]: where request r is
  live,     \* live[r]: r's context is not cancelled
  flight    \* flight[s][k]: the leader of the singleflight call, or NoReq

vars == <<l1, l2, rep, pending, clock, req, live, flight>>

Ops == {"get", "set", "inval"}
Absent == 0
Version == 0 .. clock            \* the versions created so far, and Absent
Cmd == [key : Keys, val : Nat]   \* SET key val, or DEL key when val is Absent

PCs == {"idle", "l1", "l2", "fill", "flight", "origin", "backfill", "land",
        "wait", "setl1", "l2set", "dell1", "l2del"}
Request == [op : Ops, key : Keys, pc : PCs, val : Nat, err : BOOLEAN]

FirstPc == [get |-> "l1", set |-> "setl1", inval |-> "dell1"]

Active(r) == req[r].pc # "idle"
At(r, pc) == req[r].pc = pc
Goto(r, pc) == [req EXCEPT ![r].pc = pc]
Carry(r, pc, v) == [req EXCEPT ![r].pc = pc, ![r].val = v]

\* The requests of R return, with an error or not.
Finish(R, failed) ==
  [r \in Reqs |-> IF r \in R
                  THEN [req[r] EXCEPT !.pc = "idle", !.val = Absent, !.err = failed]
                  ELSE req[r]]

SetL1Entry(s, k, v) == [l1 EXCEPT ![s][k] = v]

\* the requests blocked in group.Do behind the call for k on s
Waiters(s, k) == {q \in Reqs : Home[q] = s /\ req[q].key = k /\ At(q, "wait")}

\* what a read of k from Redis may see
Readable(k) == {l2[k]} \cup (IF ReadReplicas THEN {rep[k]} ELSE {})

-----------------------------------------------------------------------------
Init ==
  /\ l2 \in [Keys -> {Absent, 1}]
  /\ rep = l2
  /\ clock = 1
  /\ l1 = [s \in Servers |-> [k \in Keys |-> Absent]]
  /\ pending = {}
  /\ req \in [Reqs -> {[op |-> "get", key |-> k, pc |-> "idle",
                        val |-> Absent, err |-> FALSE] : k \in Keys}]
  /\ live = [r \in Reqs |-> TRUE]
  /\ flight = [s \in Servers |-> [k \in Keys |-> NoReq]]

\* the requests that may still create a version
Minting == {r \in Reqs : \E pc \in {"l1", "l2", "flight", "wait", "origin", "setl1"} :
                           At(r, pc)}

Start(r, op, k) ==
  /\ ~Active(r)
  /\ op # "inval" => clock + Cardinality(Minting) < MaxClock
  /\ req' = [req EXCEPT ![r] = [op |-> op, key |-> k, pc |-> FirstPc[op],
                                val |-> Absent, err |-> FALSE]]
  /\ live' = [live EXCEPT ![r] = TRUE]
  /\ UNCHANGED <<l1, l2, rep, pending, clock, flight>>

\* The client goes away: the request's context is cancelled.
Cancel(r) ==
  /\ Active(r) /\ live[r]
  /\ live' = [live EXCEPT ![r] = FALSE]
  /\ UNCHANGED <<l1, l2, rep, pending, clock, req, flight>>

-----------------------------------------------------------------------------
(* Get *)

L1Hit(r) ==
  /\ At(r, "l1")
  /\ l1[Home[r]][req[r].key] # Absent
  /\ req' = Finish({r}, FALSE)
  /\ UNCHANGED <<l1, l2, rep, pending, clock, live, flight>>

L1Miss(r) ==
  /\ At(r, "l1")
  /\ l1[Home[r]][req[r].key] = Absent
  /\ req' = Goto(r, "l2")
  /\ UNCHANGED <<l1, l2, rep, pending, clock, live, flight>>

\* A mutant: redis.Nil is taken for a hit.
L2HitNil(r) ==
  /\ At(r, "l2")
  /\ \E v \in Readable(req[r].key) :
       req' = Carry(r, "fill", v)
  /\ UNCHANGED <<l1, l2, rep, pending, clock, live, flight>>

L2Hit(r) ==
  /\ At(r, "l2")
  /\ \E v \in Readable(req[r].key) \ {Absent} :
       req' = Carry(r, "fill", v)
  /\ UNCHANGED <<l1, l2, rep, pending, clock, live, flight>>

\* A mutant: an error of Redis is returned to the caller.
L2MissFails(r) ==
  /\ At(r, "l2")
  /\ req' = Finish({r}, TRUE)
  /\ UNCHANGED <<l1, l2, rep, pending, clock, live, flight>>

\* L2Cache.Get treats every error, a timeout and a dead Redis included, as a miss.
L2Miss(r) ==
  /\ At(r, "l2")
  /\ req' = Goto(r, "flight")
  /\ UNCHANGED <<l1, l2, rep, pending, clock, live, flight>>

L1Fill(r) ==
  /\ At(r, "fill")
  /\ l1' = SetL1Entry(Home[r], req[r].key, req[r].val)
  /\ req' = Finish({r}, FALSE)
  /\ UNCHANGED <<l2, rep, pending, clock, live, flight>>

-----------------------------------------------------------------------------
(* fetchFromOrigin and doOriginFetch.  group.Do looks for a call in flight *)
(* and joins it or starts one under one lock; its end, which removes the   *)
(* call and wakes everyone who joined, is one critical section too.        *)

\* A mutant: group.Do starts a call of its own though one is in flight.
LeadAnyway(r) ==
  /\ At(r, "flight") /\ UseSF
  /\ req' = Goto(r, "origin")
  /\ flight' = [flight EXCEPT ![Home[r]][req[r].key] = r]
  /\ UNCHANGED <<l1, l2, rep, pending, clock, live>>

\* r calls the origin itself: with singleflight only if no call for the key is
\* in flight, and then as its leader.
Lead(r) ==
  /\ At(r, "flight")
  /\ UseSF => flight[Home[r]][req[r].key] = NoReq
  /\ req' = Goto(r, "origin")
  /\ flight' = IF UseSF THEN [flight EXCEPT ![Home[r]][req[r].key] = r] ELSE flight
  /\ UNCHANGED <<l1, l2, rep, pending, clock, live>>

Join(r) ==
  /\ At(r, "flight") /\ UseSF
  /\ flight[Home[r]][req[r].key] # NoReq
  /\ req' = Goto(r, "wait")
  /\ UNCHANGED <<l1, l2, rep, pending, clock, live, flight>>

\* The origin answers, and the goroutine that back-populates Redis is started.
OriginReturn(r) ==
  /\ At(r, "origin")
  /\ clock' = clock + 1
  /\ pending' = pending \cup {[key |-> req[r].key, val |-> clock + 1]}
  /\ req' = Carry(r, "backfill", clock + 1)
  /\ UNCHANGED <<l1, l2, rep, live, flight>>

\* the call of r ends: who returns with it, and what is left in flight
LandingAlone(r) == {r}   \* a mutant: nobody else is woken
Landing(r) == {r} \cup (IF UseSF THEN Waiters(Home[r], req[r].key) ELSE {})
Landed(r) == IF UseSF THEN [flight EXCEPT ![Home[r]][req[r].key] = NoReq]
             ELSE flight

\* A mutant: an error ends the call without waking those who joined.
OriginFailAlone(r) ==
  /\ At(r, "origin") /\ ~live[r]
  /\ req' = Finish({r}, TRUE)
  /\ flight' = Landed(r)
  /\ UNCHANGED <<l1, l2, rep, pending, clock, live>>

\* Origin.Fetch fails only when the context it was given, the leader's, is
\* cancelled; the error goes to everyone who joined.
OriginFail(r) ==
  /\ At(r, "origin") /\ ~live[r]
  /\ req' = Finish(Landing(r), TRUE)
  /\ flight' = Landed(r)
  /\ UNCHANGED <<l1, l2, rep, pending, clock, live>>

BackFill(r) ==
  /\ At(r, "backfill")
  /\ l1' = SetL1Entry(Home[r], req[r].key, req[r].val)
  /\ req' = Goto(r, "land")
  /\ UNCHANGED <<l2, rep, pending, clock, live, flight>>

Land(r) ==
  /\ At(r, "land")
  /\ req' = Finish(Landing(r), FALSE)
  /\ flight' = Landed(r)
  /\ UNCHANGED <<l1, l2, rep, pending, clock, live>>

-----------------------------------------------------------------------------
(* Set and Invalidate: L1 first, then Redis *)

SetL1(r) ==
  /\ At(r, "setl1")
  /\ clock' = clock + 1
  /\ l1' = SetL1Entry(Home[r], req[r].key, clock + 1)
  /\ req' = Carry(r, "l2set", clock + 1)
  /\ UNCHANGED <<l2, rep, pending, live, flight>>

\* A mutant: the deletion from L1 is left out.
DelL1Forgotten(r) ==
  /\ At(r, "dell1")
  /\ req' = Goto(r, "l2del")
  /\ UNCHANGED <<l1, l2, rep, pending, clock, live, flight>>

DelL1(r) ==
  /\ At(r, "dell1")
  /\ l1' = SetL1Entry(Home[r], req[r].key, Absent)
  /\ req' = Goto(r, "l2del")
  /\ UNCHANGED <<l2, rep, pending, clock, live, flight>>

\* the command r is executing against Redis; a DEL carries Absent
CmdOf(r) == [key |-> req[r].key, val |-> req[r].val]

\* Redis acknowledges.  The client library retries a command that got no
\* answer, so an earlier copy (dup) may still be on its way.
L2WriteOk(r, dup) ==
  /\ At(r, "l2set") \/ At(r, "l2del")
  /\ l2' = [l2 EXCEPT ![req[r].key] = req[r].val]
  /\ pending' = pending \cup (IF dup THEN {CmdOf(r)} ELSE {})
  /\ req' = Finish({r}, FALSE)
  /\ UNCHANGED <<l1, rep, clock, live, flight>>

\* A timeout, a broken connection or a cancelled context: the caller gets the
\* error, and the command may still arrive.
L2WriteFail(r) ==
  /\ At(r, "l2set") \/ At(r, "l2del")
  /\ pending' = pending \cup {CmdOf(r)}
  /\ req' = Finish({r}, TRUE)
  /\ UNCHANGED <<l1, l2, rep, clock, live, flight>>

-----------------------------------------------------------------------------
(* Redis, and what happens to a server *)

PendingApply(c) ==
  /\ c \in pending
  /\ l2' = [l2 EXCEPT ![c.key] = c.val]
  /\ pending' = pending \ {c}
  /\ UNCHANGED <<l1, rep, clock, req, live, flight>>

PendingLose(c) ==
  /\ c \in pending
  /\ pending' = pending \ {c}
  /\ UNCHANGED <<l1, l2, rep, clock, req, live, flight>>

DropL1(s, k) ==
  /\ l1[s][k] # Absent
  /\ l1' = SetL1Entry(s, k, Absent)
  /\ UNCHANGED <<l2, rep, pending, clock, req, live, flight>>

\* TTL, the allkeys-lfu policy, or a restart of Redis, which keeps nothing
DropL2(k) ==
  /\ l2[k] # Absent
  /\ l2' = [l2 EXCEPT ![k] = Absent]
  /\ UNCHANGED <<l1, rep, pending, clock, req, live, flight>>

Replicate(k) ==
  /\ ReadReplicas
  /\ rep[k] # l2[k]
  /\ rep' = [rep EXCEPT ![k] = l2[k]]
  /\ UNCHANGED <<l1, l2, pending, clock, req, live, flight>>

\* The process dies and is restarted: everything in its memory is gone, its
\* clients see a broken connection, what it sent to Redis may still arrive.
Crash(s) ==
  /\ l1' = [l1 EXCEPT ![s] = [k \in Keys |-> Absent]]
  /\ flight' = [flight EXCEPT ![s] = [k \in Keys |-> NoReq]]
  /\ req' = Finish({r \in Reqs : Home[r] = s /\ Active(r)}, TRUE)
  /\ UNCHANGED <<l2, rep, pending, clock, live>>

-----------------------------------------------------------------------------
Step(r) ==
  \/ L1Hit(r) \/ L1Miss(r) \/ L2Hit(r) \/ L2Miss(r) \/ L1Fill(r)
  \/ Lead(r) \/ Join(r)
  \/ OriginReturn(r) \/ OriginFail(r) \/ BackFill(r) \/ Land(r)
  \/ SetL1(r) \/ DelL1(r)
  \/ \E dup \in BOOLEAN : L2WriteOk(r, dup)
  \/ L2WriteFail(r)

Environment ==
  \/ \E r \in Reqs : Cancel(r) \/ \E op \in Ops, k \in Keys : Start(r, op, k)
  \/ \E c \in pending : PendingApply(c) \/ PendingLose(c)
  \/ \E s \in Servers : Crash(s) \/ \E k \in Keys : DropL1(s, k)
  \/ \E k \in Keys : DropL2(k) \/ Replicate(k)

Next == Environment \/ \E r \in Reqs : Step(r)

Spec == Init /\ [][Next]_vars

\* Every step of a goroutine ends: Redis calls by the client's timeouts, the
\* origin by its sleep, and the back-population by its 2 s context.
FairSpec ==
  /\ Spec
  /\ \A r \in Reqs : WF_vars(Step(r))
  /\ \A k \in Keys, v \in 0 .. MaxClock :
       WF_vars(PendingApply([key |-> k, val |-> v])
               \/ PendingLose([key |-> k, val |-> v]))

-----------------------------------------------------------------------------
(* What makes the orchestrator correct *)

\* the request is about to store or return a version it carries
Carrying(r) == \E pc \in {"fill", "backfill", "land", "l2set"} : At(r, pc)

\* The values the variables range over.  No tier and no request ever holds a
\* version nobody created; a request that has a value to store holds one, and
\* one that looks up or deletes holds none.
TypeOK ==
  /\ clock \in Nat
  /\ l1 \in [Servers -> [Keys -> Version]]
  /\ l2 \in [Keys -> Version]
  /\ rep \in [Keys -> Version]
  /\ pending \subseteq Cmd /\ \A c \in pending : c.val \in Version
  /\ req \in [Reqs -> Request]
  /\ live \in [Reqs -> BOOLEAN]
  /\ flight \in [Servers -> [Keys -> Reqs \cup {NoReq}]]
  /\ \A r \in Reqs : /\ Carrying(r) <=> req[r].val # Absent
                     /\ req[r].val \in Version

InFetch(r) == \E pc \in {"origin", "backfill", "land"} : At(r, pc)

\* manager.go:22: with singleflight, a server never has two origin fetches for
\* one key at the same time; the one there is, is the call that is in flight.
OneFlight ==
  UseSF => \A r \in Reqs : InFetch(r) => flight[Home[r]][req[r].key] = r

\* Nobody waits for a call that no one will finish: whoever joined a call waits
\* behind a leader on the same server that is still fetching the same key.
NoOrphanWaiter ==
  \A q \in Reqs : At(q, "wait") =>
    LET leader == flight[Home[q]][req[q].key]
    IN  /\ leader \in Reqs \ {q}
        /\ InFetch(leader)
        /\ Home[leader] = Home[q]
        /\ req[leader].key = req[q].key

\* Every request is eventually answered, whatever Redis, the other clients and
\* the leader it waits behind do.
RequestsComplete == \A r \in Reqs : Active(r) ~> ~Active(r)

\* A Get fails for one reason, whatever Redis does: the client of the request
\* that called the origin went away, this request's own or, with singleflight, the
\* one whose call it joined.  (Its clients also see the process die.)
GetFailsByCancelOnly ==
  [][\A r \in Reqs :
       /\ req[r].op = "get" /\ Active(r)
       /\ req'[r].pc = "idle" /\ req'[r].err
       => \/ Crash(Home[r])
          \/ \E q \in Reqs : /\ ~live[q] /\ At(q, "origin")
                             /\ \/ q = r
                                \/ UseSF /\ flight[Home[r]][req[r].key] = q]_vars
=============================================================================
