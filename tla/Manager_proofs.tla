--------------------------- MODULE Manager_proofs ---------------------------
(***************************************************************************)
(* Proofs about Manager, for every number of servers, requests and keys.   *)
(***************************************************************************)
EXTENDS Manager, TLAPS

\* what a step may turn request r into
LEMMA FinishFacts ==
  ASSUME req \in [Reqs -> Request], NEW R, NEW f \in BOOLEAN, req' = Finish(R, f)
  PROVE  /\ req' \in [Reqs -> Request]
         /\ \A r \in Reqs \ R : req'[r] = req[r]
         /\ \A r \in Reqs \cap R : /\ req'[r].pc = "idle" /\ req'[r].val = Absent
                                   /\ req'[r].key = req[r].key /\ req'[r].err = f
<1>1. \A r \in Reqs : req'[r] = IF r \in R
                   THEN [req[r] EXCEPT !.pc = "idle", !.val = Absent, !.err = f]
                   ELSE req[r]
  BY DEF Finish
<1>2. ASSUME NEW r \in Reqs
      PROVE  LET x == [req[r] EXCEPT !.pc = "idle", !.val = Absent, !.err = f]
             IN  /\ x \in Request /\ x.pc = "idle" /\ x.val = Absent
                 /\ x.key = req[r].key /\ x.err = f
  <2>1. req[r] \in Request
    OBVIOUS
  <2>2. "idle" \in PCs /\ Absent \in Nat
    BY DEF PCs, Absent
  <2> QED BY <2>1, <2>2 DEF Request
<1>3. req' \in [Reqs -> Request]
  <2>1. req' = [r \in Reqs |-> req'[r]]
    BY DEF Finish
  <2>2. \A r \in Reqs : req'[r] \in Request
    BY <1>1, <1>2
  <2> QED BY <2>1, <2>2
<1> QED BY <1>1, <1>2, <1>3

LEMMA GotoFacts ==
  ASSUME req \in [Reqs -> Request], NEW r \in Reqs, NEW pc \in PCs,
         req' = Goto(r, pc)
  PROVE  /\ req' \in [Reqs -> Request]
         /\ \A q \in Reqs \ {r} : req'[q] = req[q]
         /\ req'[r].pc = pc /\ req'[r].val = req[r].val /\ req'[r].key = req[r].key
<1>1. [req[r] EXCEPT !.pc = pc] \in Request
  BY DEF Request
<1>2. req' = [req EXCEPT ![r] = [req[r] EXCEPT !.pc = pc]]
  BY DEF Goto
<1>3. req'[r] = [req[r] EXCEPT !.pc = pc]
  BY <1>2
<1>4. req'[r].pc = pc /\ req'[r].val = req[r].val /\ req'[r].key = req[r].key
  BY <1>3 DEF Request
<1> HIDE DEF Request
<1> QED BY <1>1, <1>2, <1>4

LEMMA CarryFacts ==
  ASSUME req \in [Reqs -> Request], NEW r \in Reqs, NEW pc \in PCs, NEW v \in Nat,
         req' = Carry(r, pc, v)
  PROVE  /\ req' \in [Reqs -> Request]
         /\ \A q \in Reqs \ {r} : req'[q] = req[q]
         /\ req'[r].pc = pc /\ req'[r].val = v /\ req'[r].key = req[r].key
<1> DEFINE x == [req[r] EXCEPT !.pc = pc, !.val = v]
<1>1. x \in Request /\ x.pc = pc /\ x.val = v /\ x.key = req[r].key
  BY DEF Request
<1>2. req' = [req EXCEPT ![r] = x]
  BY DEF Carry
<1> HIDE DEF Request, x
<1> QED BY <1>1, <1>2

LEMMA StartFacts ==
  ASSUME req \in [Reqs -> Request], NEW r \in Reqs, NEW op \in Ops, NEW k \in Keys,
         Start(r, op, k)
  PROVE  /\ req' \in [Reqs -> Request]
         /\ \A q \in Reqs \ {r} : req'[q] = req[q]
         /\ req'[r].pc \in {"l1", "setl1", "dell1"} /\ req'[r].val = Absent
         /\ req'[r].key = k
<1> DEFINE x == [op |-> op, key |-> k, pc |-> FirstPc[op],
                 val |-> Absent, err |-> FALSE]
<1>1. FirstPc[op] \in {"l1", "setl1", "dell1"}
  BY DEF Ops, FirstPc
<1>2. x \in Request /\ x.pc = FirstPc[op] /\ x.val = Absent /\ x.key = k
  BY <1>1 DEF Request, PCs, Absent
<1>3. req' = [req EXCEPT ![r] = x]
  BY DEF Start
<1> HIDE DEF Request, x
<1> QED BY <1>1, <1>2, <1>3

-----------------------------------------------------------------------------
(* Type correctness *)

\* The two halves of TypeOK
Stores ==
  /\ clock \in Nat
  /\ l1 \in [Servers -> [Keys -> Version]]
  /\ l2 \in [Keys -> Version]
  /\ rep \in [Keys -> Version]
  /\ pending \subseteq Cmd /\ \A c \in pending : c.val \in Version
  /\ live \in [Reqs -> BOOLEAN]
  /\ flight \in [Servers -> [Keys -> Reqs \cup {NoReq}]]

ReqsOK ==
  /\ req \in [Reqs -> Request]
  /\ \A r \in Reqs : /\ Carrying(r) <=> req[r].val # Absent
                     /\ req[r].val \in Version

LEMMA TypeParts == TypeOK <=> Stores /\ ReqsOK
BY DEF TypeOK, Stores, ReqsOK

LEMMA TypePartsNext == TypeOK' <=> Stores' /\ ReqsOK'
BY DEF TypeOK, Stores, ReqsOK, Carrying, At, Version

\* Each request keeps its place, or drops its value, or carries a known one.
LEMMA ReqsPreserved ==
  ASSUME ReqsOK, clock \in Nat, clock' \in Nat, clock <= clock',
         req' \in [Reqs -> Request],
         \A r \in Reqs :
           \/ req'[r].pc = req[r].pc /\ req'[r].val = req[r].val
           \/ /\ req'[r].pc \notin {"fill", "backfill", "land", "l2set"}
              /\ req'[r].val = Absent
           \/ /\ req'[r].pc \in {"fill", "backfill", "land", "l2set"}
              /\ req'[r].val # Absent /\ req'[r].val \in 0 .. clock'
  PROVE  ReqsOK'
<1> SUFFICES ASSUME NEW r \in Reqs
             PROVE  /\ Carrying(r)' <=> req'[r].val # Absent
                    /\ req'[r].val \in 0 .. clock'
  BY DEF ReqsOK, Version
<1>1. req[r].val \in Nat /\ req'[r].val \in Nat
  BY DEF ReqsOK, Request
<1>2. Carrying(r)' <=> req'[r].pc \in {"fill", "backfill", "land", "l2set"}
  BY DEF Carrying, At
<1>3. Carrying(r) <=> req[r].pc \in {"fill", "backfill", "land", "l2set"}
  BY DEF Carrying, At
<1>4. /\ Carrying(r) <=> req[r].val # Absent
      /\ req[r].val \in 0 .. clock
  BY DEF ReqsOK, Version
<1> QED BY <1>1, <1>2, <1>3, <1>4 DEF Absent

LEMMA InitType == Init => TypeOK
<1> SUFFICES ASSUME Init PROVE TypeOK
  OBVIOUS
<1>1. Stores
  BY DEF Init, Stores, Absent, Cmd, Version
<1>2. \A r \in Reqs : \E k \in Keys :
        req[r] = [op |-> "get", key |-> k, pc |-> "idle",
                  val |-> Absent, err |-> FALSE]
  BY DEF Init
<1>3. \A r \in Reqs : req[r] \in Request /\ req[r].pc = "idle" /\ req[r].val = Absent
  <2> TAKE r \in Reqs
  <2>1. PICK k \in Keys : req[r] = [op |-> "get", key |-> k, pc |-> "idle",
                                   val |-> Absent, err |-> FALSE]
    BY <1>2
  <2> QED BY <2>1 DEF Request, PCs, Ops, Absent
<1>4. req \in [Reqs -> Request]
  BY <1>3 DEF Init
<1>5. ReqsOK
  BY <1>3, <1>4 DEF ReqsOK, Carrying, At, Init, Absent, Version
<1> QED BY <1>1, <1>5, TypeParts

LEMMA FinishType ==
  ASSUME TypeOK, NEW R, NEW f \in BOOLEAN, req' = Finish(R, f), UNCHANGED clock
  PROVE  ReqsOK'
<1>1. req \in [Reqs -> Request] /\ clock \in Nat /\ ReqsOK
  BY TypeParts DEF TypeOK
<1>2. /\ req' \in [Reqs -> Request]
      /\ \A r \in Reqs \ R : req'[r] = req[r]
      /\ \A r \in Reqs \cap R : req'[r].pc = "idle" /\ req'[r].val = Absent
  BY <1>1, FinishFacts
<1>3. ASSUME NEW r \in Reqs
      PROVE  \/ req'[r].pc = req[r].pc /\ req'[r].val = req[r].val
             \/ /\ req'[r].pc \notin {"fill", "backfill", "land", "l2set"}
                /\ req'[r].val = Absent
  BY <1>2
<1> QED BY <1>1, <1>2, <1>3, ReqsPreserved

LEMMA GotoType ==
  ASSUME TypeOK, NEW r \in Reqs, NEW pc \in PCs, req' = Goto(r, pc),
         UNCHANGED clock,
         (req[r].pc \in {"fill", "backfill", "land", "l2set"})
           <=> (pc \in {"fill", "backfill", "land", "l2set"})
  PROVE  ReqsOK'
<1>1. req \in [Reqs -> Request] /\ clock \in Nat /\ ReqsOK
  BY TypeParts DEF TypeOK
<1>2. /\ req' \in [Reqs -> Request]
      /\ \A q \in Reqs \ {r} : req'[q] = req[q]
      /\ req'[r].pc = pc /\ req'[r].val = req[r].val
  BY <1>1, GotoFacts
<1>3. /\ Carrying(r) <=> req[r].pc \in {"fill", "backfill", "land", "l2set"}
      /\ Carrying(r) <=> req[r].val # Absent
      /\ req[r].val \in 0 .. clock
  BY <1>1 DEF ReqsOK, Carrying, At, Version
<1>4. ASSUME NEW q \in Reqs
      PROVE  \/ req'[q].pc = req[q].pc /\ req'[q].val = req[q].val
             \/ /\ req'[q].pc \notin {"fill", "backfill", "land", "l2set"}
                /\ req'[q].val = Absent
             \/ /\ req'[q].pc \in {"fill", "backfill", "land", "l2set"}
                /\ req'[q].val # Absent /\ req'[q].val \in 0 .. clock'
  BY <1>2, <1>3
<1> QED BY <1>1, <1>2, <1>4, ReqsPreserved

LEMMA CarryType ==
  ASSUME TypeOK, NEW r \in Reqs, NEW pc \in {"fill", "backfill", "land", "l2set"},
         NEW v \in Nat, v # Absent, clock' \in Nat, clock <= clock', v \in 0 .. clock',
         req' = Carry(r, pc, v)
  PROVE  ReqsOK'
<1>1. req \in [Reqs -> Request] /\ clock \in Nat /\ ReqsOK /\ pc \in PCs
  BY TypeParts DEF TypeOK, PCs
<1>2. /\ req' \in [Reqs -> Request]
      /\ \A q \in Reqs \ {r} : req'[q] = req[q]
      /\ req'[r].pc = pc /\ req'[r].val = v
  BY <1>1, CarryFacts
<1>3. ASSUME NEW q \in Reqs
      PROVE  \/ req'[q].pc = req[q].pc /\ req'[q].val = req[q].val
             \/ /\ req'[q].pc \in {"fill", "backfill", "land", "l2set"}
                /\ req'[q].val # Absent /\ req'[q].val \in 0 .. clock'
  BY <1>2
<1> QED BY <1>1, <1>2, <1>3, ReqsPreserved

LEMMA SameReqs ==
  ASSUME TypeOK, UNCHANGED <<req, clock>>
  PROVE  ReqsOK'
BY TypeParts DEF ReqsOK, Carrying, At, Version

LEMMA L1EntryFacts ==
  ASSUME NEW N, l1 \in [Servers -> [Keys -> N]], NEW s \in Servers, NEW k \in Keys,
         NEW v \in N
  PROVE  /\ SetL1Entry(s, k, v) \in [Servers -> [Keys -> N]]
         /\ SetL1Entry(s, k, v)[s][k] = v
         /\ \A t \in Servers, x \in Keys :
              t # s \/ x # k => SetL1Entry(s, k, v)[t][x] = l1[t][x]
BY DEF SetL1Entry

\* Creating a version keeps what is stored within the known versions.
LEMMA Monotone ==
  ASSUME Stores, clock' = clock + 1
  PROVE  /\ l1 \in [Servers -> [Keys -> 0 .. clock']]
         /\ l2 \in [Keys -> 0 .. clock']
         /\ rep \in [Keys -> 0 .. clock']
         /\ pending \subseteq Cmd /\ \A c \in pending : c.val \in 0 .. clock'
         /\ clock' \in Nat /\ clock' \in 0 .. clock' /\ clock' # Absent
<1>1. clock \in Nat /\ Version \subseteq 0 .. clock'
  BY DEF Stores, Version
<1>2. /\ l1 \in [Servers -> [Keys -> Version]] /\ l2 \in [Keys -> Version]
      /\ rep \in [Keys -> Version]
      /\ pending \subseteq Cmd /\ \A c \in pending : c.val \in Version
  BY DEF Stores
<1>3. clock' \in Nat /\ clock' \in 0 .. clock' /\ clock' # Absent
  BY <1>1 DEF Absent
<1> HIDE DEF Version
<1> QED BY <1>1, <1>2, <1>3

\* Every step of a request keeps the types.
LEMMA StepType ==
  ASSUME TypeOK, NEW r \in Reqs, Step(r)
  PROVE  TypeOK'
<1>1. Stores /\ ReqsOK
  BY TypeParts
<1>2. /\ req[r] \in Request /\ req[r].key \in Keys /\ Home[r] \in Servers
      /\ req[r].val \in Version /\ req[r].val \in Nat /\ clock \in Nat
      /\ Absent \in Version /\ Absent = 0
  BY <1>1, ManagerAssumption DEF ReqsOK, Stores, Request, Absent, Version
<1>3. PCs = {"idle", "l1", "l2", "fill", "flight", "origin", "backfill",
             "land", "wait", "setl1", "l2set", "dell1", "l2del"}
  BY DEF PCs
<1>4. SUFFICES ReqsOK' /\ Stores'
  BY TypePartsNext
<1>5. CASE L1Hit(r)
  <2>1. ReqsOK'
    BY <1>5, FinishType DEF L1Hit
  <2>2. Stores'
    BY <1>1, <1>5 DEF Stores, Version, L1Hit
  <2> QED BY <2>1, <2>2
<1>6. CASE L1Miss(r)
  <2>1. ReqsOK'
    BY <1>2, <1>3, <1>6, GotoType DEF L1Miss, At
  <2>2. Stores'
    BY <1>1, <1>6 DEF Stores, Version, L1Miss
  <2> QED BY <2>1, <2>2
<1>7. CASE L2Miss(r)
  <2>1. ReqsOK'
    BY <1>2, <1>3, <1>7, GotoType DEF L2Miss, At
  <2>2. Stores'
    BY <1>1, <1>7 DEF Stores, Version, L2Miss
  <2> QED BY <2>1, <2>2
<1>8. CASE Lead(r)
  <2>1. ReqsOK'
    BY <1>2, <1>3, <1>8, GotoType DEF Lead, At
  <2>2. Stores'
    BY <1>1, <1>2, <1>8 DEF Stores, Version, Lead
  <2> QED BY <2>1, <2>2
<1>9. CASE Join(r)
  <2>1. ReqsOK'
    BY <1>2, <1>3, <1>9, GotoType DEF Join, At
  <2>2. Stores'
    BY <1>1, <1>9 DEF Stores, Version, Join
  <2> QED BY <2>1, <2>2
<1>11. CASE L1Fill(r)
  <2>1. ReqsOK'
    BY <1>11, FinishType DEF L1Fill
  <2>2. Stores'
    BY <1>1, <1>2, <1>11, L1EntryFacts DEF Stores, Version, L1Fill
  <2> QED BY <2>1, <2>2
<1>12. CASE BackFill(r)
  <2>1. ReqsOK'
    BY <1>2, <1>3, <1>12, GotoType DEF BackFill, At
  <2>2. Stores'
    BY <1>1, <1>2, <1>12, L1EntryFacts DEF Stores, Version, BackFill
  <2> QED BY <2>1, <2>2
<1>13. CASE DelL1(r)
  <2>1. ReqsOK'
    BY <1>2, <1>3, <1>13, GotoType DEF DelL1, At
  <2>2. Stores'
    BY <1>1, <1>2, <1>13, L1EntryFacts DEF Stores, Version, DelL1
  <2> QED BY <2>1, <2>2
<1>14. CASE OriginFail(r)
  <2>1. ReqsOK'
    BY <1>14, FinishType DEF OriginFail
  <2>2. Stores'
    BY <1>1, <1>2, <1>14 DEF Stores, Version, OriginFail, Landed
  <2> QED BY <2>1, <2>2
<1>15. CASE Land(r)
  <2>1. ReqsOK'
    BY <1>15, FinishType DEF Land
  <2>2. Stores'
    BY <1>1, <1>2, <1>15 DEF Stores, Version, Land, Landed
  <2> QED BY <2>1, <2>2
<1>16. CASE L2WriteFail(r)
  <2>1. ReqsOK'
    BY <1>16, FinishType DEF L2WriteFail
  <2>2. Stores'
    BY <1>1, <1>2, <1>16 DEF Stores, Version, Cmd, CmdOf, L2WriteFail
  <2> QED BY <2>1, <2>2
<1>17. ASSUME NEW dup \in BOOLEAN, L2WriteOk(r, dup)
      PROVE  ReqsOK' /\ Stores'
  <2>1. ReqsOK'
    BY <1>17, FinishType DEF L2WriteOk
  <2>2. pending' \subseteq pending \cup {CmdOf(r)}
    BY <1>17 DEF L2WriteOk
  <2>3. CmdOf(r) \in Cmd /\ CmdOf(r).val \in Version
    BY <1>2 DEF CmdOf, Cmd
  <2>4. Stores'
    BY <1>1, <1>2, <1>17, <2>2, <2>3 DEF Stores, Version, L2WriteOk
  <2> QED BY <2>1, <2>4
<1>18. CASE L2Hit(r)
  <2>1. PICK v \in Readable(req[r].key) \ {Absent} : req' = Carry(r, "fill", v)
    BY <1>18 DEF L2Hit
  <2>2. v \in 0 .. clock /\ v \in Nat /\ v # Absent
    BY <1>1, <1>2, <2>1 DEF Readable, Stores, Version
  <2>3. UNCHANGED <<l1, l2, rep, pending, clock, live, flight>>
    BY <1>18 DEF L2Hit
  <2>4. ReqsOK'
    BY <1>2, <2>1, <2>2, <2>3, CarryType
  <2>5. Stores'
    BY <1>1, <2>3 DEF Stores, Version
  <2> QED BY <2>4, <2>5
<1>19. CASE OriginReturn(r)
  <2>1. clock' = clock + 1 /\ req' = Carry(r, "backfill", clock')
    BY <1>19 DEF OriginReturn
  <2>2. /\ l1 \in [Servers -> [Keys -> 0 .. clock']]
        /\ l2 \in [Keys -> 0 .. clock'] /\ rep \in [Keys -> 0 .. clock']
        /\ pending \subseteq Cmd /\ \A c \in pending : c.val \in 0 .. clock'
        /\ clock' \in Nat /\ clock' \in 0 .. clock' /\ clock' # Absent
    BY <1>1, <2>1, Monotone
  <2>3. ReqsOK'
    BY <1>2, <2>1, <2>2, CarryType
  <2>4. pending' = pending \cup {[key |-> req[r].key, val |-> clock']}
    BY <1>19, <2>1 DEF OriginReturn
  <2>5. pending' \subseteq Cmd /\ \A c \in pending' : c.val \in 0 .. clock'
    BY <1>2, <2>2, <2>4 DEF Cmd
  <2>6. Stores'
    BY <1>1, <1>19, <2>2, <2>5 DEF Stores, Version, OriginReturn
  <2> QED BY <2>3, <2>6
<1>20. CASE SetL1(r)
  <2>1. clock' = clock + 1 /\ req' = Carry(r, "l2set", clock')
    BY <1>20 DEF SetL1
  <2>2. /\ l1 \in [Servers -> [Keys -> 0 .. clock']]
        /\ l2 \in [Keys -> 0 .. clock'] /\ rep \in [Keys -> 0 .. clock']
        /\ pending \subseteq Cmd /\ \A c \in pending : c.val \in 0 .. clock'
        /\ clock' \in Nat /\ clock' \in 0 .. clock' /\ clock' # Absent
    BY <1>1, <2>1, Monotone
  <2>3. ReqsOK'
    BY <1>2, <2>1, <2>2, CarryType
  <2>4. l1' \in [Servers -> [Keys -> 0 .. clock']]
    BY <1>2, <1>20, <2>1, <2>2, L1EntryFacts DEF SetL1
  <2>5. Stores'
    BY <1>1, <1>20, <2>2, <2>4 DEF Stores, Version, SetL1
  <2> QED BY <2>3, <2>5
<1> QED
  BY <1>5, <1>6, <1>7, <1>8, <1>9, <1>11, <1>12, <1>13, <1>14, <1>15, <1>16, <1>17, <1>18, <1>19, <1>20 DEF Step

LEMMA EnvironmentType ==
  ASSUME TypeOK, Environment
  PROVE  TypeOK'
<1>1. Stores /\ ReqsOK
  BY TypeParts
<1>2. SUFFICES ReqsOK' /\ Stores'
  BY TypePartsNext
<1>3. ASSUME NEW r \in Reqs, NEW op \in Ops, NEW k \in Keys, Start(r, op, k)
      PROVE  ReqsOK' /\ Stores'
  <2>1. req \in [Reqs -> Request] /\ clock \in Nat
    BY <1>1 DEF ReqsOK, Stores
  <2>2. /\ req' \in [Reqs -> Request]
        /\ \A q \in Reqs \ {r} : req'[q] = req[q]
        /\ req'[r].pc \in {"l1", "setl1", "dell1"} /\ req'[r].val = Absent
    BY <1>3, <2>1, StartFacts
  <2>3. ASSUME NEW q \in Reqs
        PROVE  \/ req'[q].pc = req[q].pc /\ req'[q].val = req[q].val
               \/ /\ req'[q].pc \notin {"fill", "backfill", "land", "l2set"}
                  /\ req'[q].val = Absent
    BY <2>2
  <2>4. clock' = clock
    BY <1>3 DEF Start
  <2>5. ReqsOK'
    BY <1>1, <2>1, <2>2, <2>3, <2>4, ReqsPreserved
  <2>6. Stores'
    BY <1>1, <1>3 DEF Stores, Version, Start
  <2> QED BY <2>5, <2>6
<1>4. ASSUME NEW r \in Reqs, Cancel(r)
      PROVE  ReqsOK' /\ Stores'
  BY <1>1, <1>4, SameReqs DEF Stores, Version, Cancel
<1>5. ASSUME NEW c \in pending, PendingApply(c) \/ PendingLose(c)
      PROVE  ReqsOK' /\ Stores'
  <2>1. c.key \in Keys /\ c.val \in Version
    BY <1>1 DEF Stores, Cmd
  <2>2. UNCHANGED <<l1, rep, clock, req, live, flight>> /\ pending' \subseteq pending
    BY <1>5 DEF PendingApply, PendingLose
  <2>3. l2' \in [Keys -> Version]
    BY <1>1, <1>5, <2>1 DEF PendingApply, PendingLose, Stores
  <2> QED BY <1>1, <2>2, <2>3, SameReqs DEF Stores, Version
<1>6. ASSUME NEW s \in Servers, NEW k \in Keys, DropL1(s, k)
      PROVE  ReqsOK' /\ Stores'
  <2>1. Absent \in Version
    BY <1>1 DEF Stores, Version, Absent
  <2>2. l1' \in [Servers -> [Keys -> Version]]
    BY <1>1, <1>6, <2>1, L1EntryFacts DEF DropL1, Stores
  <2> QED BY <1>1, <1>6, <2>2, SameReqs DEF Stores, Version, DropL1
<1>7. ASSUME NEW k \in Keys, DropL2(k) \/ Replicate(k)
      PROVE  ReqsOK' /\ Stores'
  <2>1. Absent \in Version
    BY <1>1 DEF Stores, Version, Absent
  <2>2. l2' \in [Keys -> Version] /\ rep' \in [Keys -> Version]
    BY <1>1, <1>7, <2>1 DEF DropL2, Replicate, Stores
  <2>3. UNCHANGED <<l1, pending, clock, req, live, flight>>
    BY <1>7 DEF DropL2, Replicate
  <2> QED BY <1>1, <2>2, <2>3, SameReqs DEF Stores, Version
<1>8. ASSUME NEW s \in Servers, Crash(s)
      PROVE  ReqsOK' /\ Stores'
  <2>1. ReqsOK'
    BY <1>8, FinishType DEF Crash
  <2>2. Absent \in Version
    BY <1>1 DEF Stores, Version, Absent
  <2>3. l1' \in [Servers -> [Keys -> Version]]
    BY <1>1, <1>8, <2>2 DEF Crash, Stores
  <2>4. flight' \in [Servers -> [Keys -> Reqs \cup {NoReq}]]
    BY <1>1, <1>8 DEF Crash, Stores
  <2>5. Stores'
    BY <1>1, <1>8, <2>3, <2>4 DEF Stores, Version, Crash
  <2> QED BY <2>1, <2>5
<1> QED
  BY <1>3, <1>4, <1>5, <1>6, <1>7, <1>8 DEF Environment

LEMMA NextType == TypeOK /\ [Next]_vars => TypeOK'
<1> SUFFICES ASSUME TypeOK, [Next]_vars PROVE TypeOK'
  OBVIOUS
<1>1. CASE UNCHANGED vars
  BY <1>1 DEF vars, TypeOK, Version, Carrying, At
<1> QED BY <1>1, StepType, EnvironmentType DEF Next

\* No tier, request or Redis command ever holds a version nobody created, and a
\* request about to store a value always has one.
THEOREM ManagerTypeCorrect == Spec => []TypeOK
<1>1. Init => TypeOK
  BY InitType
<1>2. TypeOK /\ [Next]_vars => TypeOK'
  BY NextType
<1> QED BY <1>1, <1>2, PTL DEF Spec

-----------------------------------------------------------------------------
(* Singleflight *)

Fetching == {"origin", "backfill", "land"}

\* OneFlight and NoOrphanWaiter are inductive together with the converse of the
\* first: a call in flight has a leader that is fetching its key on its server.
Flights ==
  /\ \A r \in Reqs : UseSF /\ req[r].pc \in Fetching => flight[Home[r]][req[r].key] = r
  /\ \A s \in Servers, k \in Keys :
       flight[s][k] # NoReq =>
         /\ UseSF /\ flight[s][k] \in Reqs
         /\ req[flight[s][k]].pc \in Fetching
         /\ Home[flight[s][k]] = s /\ req[flight[s][k]].key = k
  /\ \A q \in Reqs : req[q].pc = "wait" => UseSF /\ flight[Home[q]][req[q].key] # NoReq

LEMMA FlightsImply == TypeOK /\ Flights => OneFlight /\ NoOrphanWaiter
<1> SUFFICES ASSUME TypeOK, Flights PROVE OneFlight /\ NoOrphanWaiter
  OBVIOUS
<1>1. \A r \in Reqs : InFetch(r) <=> req[r].pc \in Fetching
  BY DEF InFetch, At, Fetching
<1>2. OneFlight
  BY <1>1 DEF Flights, OneFlight
<1>3. ASSUME NEW q \in Reqs, At(q, "wait")
      PROVE  LET leader == flight[Home[q]][req[q].key]
             IN  /\ leader \in Reqs \ {q} /\ InFetch(leader)
                 /\ Home[leader] = Home[q] /\ req[leader].key = req[q].key
  <2>1. Home[q] \in Servers /\ req[q].key \in Keys
    BY ManagerAssumption DEF TypeOK, Request
  <2>2. req[q].pc = "wait" /\ "wait" \notin Fetching
    BY <1>3 DEF At, Fetching
  <2> QED BY <1>1, <2>1, <2>2 DEF Flights
<1> QED BY <1>2, <1>3 DEF NoOrphanWaiter

\* One request moves, not into or out of a fetch, and no call begins or ends.
LEMMA MoveFlights ==
  ASSUME Flights, UNCHANGED flight, NEW r \in Reqs,
         \A q \in Reqs \ {r} : req'[q] = req[q],
         \/ /\ req[r].pc \in Fetching /\ req'[r].pc \in Fetching
            /\ req'[r].key = req[r].key
         \/ /\ req[r].pc \notin Fetching /\ req'[r].pc \notin Fetching
            /\ req'[r].pc = "wait" => UseSF /\ flight[Home[r]][req'[r].key] # NoReq
  PROVE  Flights'
<1>1. "wait" \notin Fetching
  BY DEF Fetching
<1>2. \A q \in Reqs : UseSF /\ req'[q].pc \in Fetching => flight[Home[q]][req'[q].key] = q
  BY DEF Flights
<1>3. \A q \in Reqs : req'[q].pc = "wait" => UseSF /\ flight[Home[q]][req'[q].key] # NoReq
  BY <1>1 DEF Flights
<1>4. ASSUME NEW s \in Servers, NEW k \in Keys, flight[s][k] # NoReq
      PROVE  /\ UseSF /\ flight[s][k] \in Reqs
             /\ req'[flight[s][k]].pc \in Fetching
             /\ Home[flight[s][k]] = s /\ req'[flight[s][k]].key = k
  BY <1>4 DEF Flights
<1> QED BY <1>2, <1>3, <1>4 DEF Flights

\* A request becomes the leader of a call.
LEMMA LeadFlights ==
  ASSUME TypeOK, Flights, NEW r \in Reqs, Lead(r)
  PROVE  Flights'
<1>1. req \in [Reqs -> Request] /\ "origin" \in PCs /\ req' = Goto(r, "origin")
  BY DEF TypeOK, PCs, Lead
<1>2. /\ \A q \in Reqs \ {r} : req'[q] = req[q]
      /\ req'[r].pc = "origin" /\ req'[r].key = req[r].key
  BY <1>1, GotoFacts
<1>3. /\ Home[r] \in Servers /\ req[r].key \in Keys /\ NoReq \notin Reqs
      /\ \A q \in Reqs : Home[q] \in Servers /\ req[q].key \in Keys
      /\ flight \in [Servers -> [Keys -> Reqs \cup {NoReq}]]
  BY ManagerAssumption DEF TypeOK, Request
<1>4. "origin" \in Fetching /\ "wait" \notin Fetching /\ req[r].pc \notin Fetching
  BY DEF Fetching, Lead, At
<1>5. CASE UseSF
  <2>1. flight' = [flight EXCEPT ![Home[r]][req[r].key] = r]
    BY <1>5 DEF Lead
  <2>2. flight[Home[r]][req[r].key] = NoReq
    BY <1>5 DEF Lead
  <2>3. /\ flight'[Home[r]][req[r].key] = r
        /\ \A s \in Servers, k \in Keys :
             s # Home[r] \/ k # req[r].key => flight'[s][k] = flight[s][k]
    BY <1>3, <2>1
  <2>4. \A q \in Reqs : UseSF /\ req'[q].pc \in Fetching => flight'[Home[q]][req'[q].key] = q
    BY <1>2, <1>3, <2>2, <2>3 DEF Flights
  <2>5. \A q \in Reqs : req'[q].pc = "wait" => UseSF /\ flight'[Home[q]][req'[q].key] # NoReq
    BY <1>2, <1>3, <1>4, <2>2, <2>3 DEF Flights
  <2>6. ASSUME NEW s \in Servers, NEW k \in Keys, flight'[s][k] # NoReq
        PROVE  /\ UseSF /\ flight'[s][k] \in Reqs
               /\ req'[flight'[s][k]].pc \in Fetching
               /\ Home[flight'[s][k]] = s /\ req'[flight'[s][k]].key = k
    <3>1. CASE s = Home[r] /\ k = req[r].key
      BY <1>2, <1>4, <1>5, <2>3, <3>1
    <3>2. CASE ~(s = Home[r] /\ k = req[r].key)
      <4>1. flight'[s][k] = flight[s][k] /\ flight[s][k] # r
        BY <1>4, <2>3, <2>6, <3>2 DEF Flights
      <4> QED BY <1>2, <2>6, <4>1 DEF Flights
    <3> QED BY <3>1, <3>2
  <2> QED BY <2>4, <2>5, <2>6 DEF Flights
<1>6. CASE ~UseSF
  <2>1. flight' = flight
    BY <1>6 DEF Lead
  <2> QED BY <1>2, <1>4, <1>6, <2>1 DEF Flights
<1> QED BY <1>5, <1>6

\* A call ends, and everybody who joined it returns.
LEMMA LandFlights ==
  ASSUME TypeOK, Flights, NEW r \in Reqs, req[r].pc \in Fetching, NEW f \in BOOLEAN,
         req' = Finish(Landing(r), f), flight' = Landed(r)
  PROVE  Flights'
<1>1. /\ \A q \in Reqs \ Landing(r) : req'[q] = req[q]
      /\ \A q \in Reqs \cap Landing(r) : req'[q].pc = "idle"
  BY FinishFacts DEF TypeOK
<1>2. "idle" \notin Fetching /\ "wait" \notin Fetching
  BY DEF Fetching
<1>3. /\ Home[r] \in Servers /\ req[r].key \in Keys /\ NoReq \notin Reqs
      /\ \A q \in Reqs : Home[q] \in Servers /\ req[q].key \in Keys
      /\ flight \in [Servers -> [Keys -> Reqs \cup {NoReq}]]
  BY ManagerAssumption DEF TypeOK, Request
<1>4. r \in Landing(r) /\ \A q \in Landing(r) \ {r} : UseSF /\ req[q].pc = "wait"
  BY DEF Landing, Waiters, At
<1>5. CASE UseSF
  <2>1. flight' = [flight EXCEPT ![Home[r]][req[r].key] = NoReq]
    BY <1>5 DEF Landed
  <2>2. /\ flight'[Home[r]][req[r].key] = NoReq
        /\ \A s \in Servers, k \in Keys :
             s # Home[r] \/ k # req[r].key => flight'[s][k] = flight[s][k]
    BY <1>3, <2>1
  <2>3. flight[Home[r]][req[r].key] = r
    BY <1>5 DEF Flights
  <2>4. \A q \in Reqs : req[q].pc = "wait" /\ Home[q] = Home[r] /\ req[q].key = req[r].key
                        => q \in Landing(r)
    BY <1>5 DEF Landing, Waiters, At
  <2>5. ASSUME NEW q \in Reqs, req'[q].pc \in Fetching
        PROVE  flight'[Home[q]][req'[q].key] = q
    <3>1. q \notin Landing(r) /\ req'[q] = req[q]
      BY <1>1, <1>2, <2>5
    <3>2. flight[Home[q]][req[q].key] = q /\ q # r
      BY <1>4, <1>5, <2>5, <3>1 DEF Flights
    <3> QED BY <1>3, <2>2, <2>3, <3>1, <3>2
  <2>6. ASSUME NEW q \in Reqs, req'[q].pc = "wait"
        PROVE  flight'[Home[q]][req'[q].key] # NoReq
    <3>1. q \notin Landing(r) /\ req'[q] = req[q]
      BY <1>1, <2>6
    <3>2. flight[Home[q]][req[q].key] # NoReq
      BY <2>6, <3>1 DEF Flights
    <3> QED BY <1>3, <2>2, <2>4, <2>6, <3>1, <3>2
  <2>7. ASSUME NEW s \in Servers, NEW k \in Keys, flight'[s][k] # NoReq
        PROVE  /\ flight'[s][k] \in Reqs
               /\ req'[flight'[s][k]].pc \in Fetching
               /\ Home[flight'[s][k]] = s /\ req'[flight'[s][k]].key = k
    <3>1. flight'[s][k] = flight[s][k] /\ (s # Home[r] \/ k # req[r].key)
      BY <2>2, <2>7
    <3>2. /\ flight[s][k] \in Reqs /\ req[flight[s][k]].pc \in Fetching
          /\ Home[flight[s][k]] = s /\ req[flight[s][k]].key = k
      BY <2>7, <3>1 DEF Flights
    <3>3. flight[s][k] \notin Landing(r)
      BY <1>2, <1>4, <3>1, <3>2
    <3> QED BY <1>1, <3>1, <3>2, <3>3
  <2> QED BY <1>5, <2>5, <2>6, <2>7 DEF Flights
<1>6. CASE ~UseSF
  <2>1. flight' = flight
    BY <1>6 DEF Landed
  <2>2. \A q \in Reqs : req'[q] = req[q] \/ req'[q].pc = "idle"
    BY <1>1
  <2> QED BY <1>6, <2>1, <2>2 DEF Flights
<1> QED BY <1>5, <1>6

\* A server dies with its calls and all who waited for them.
LEMMA CrashFlights ==
  ASSUME TypeOK, Flights, NEW s \in Servers, Crash(s)
  PROVE  Flights'
<1> DEFINE R == {r \in Reqs : Home[r] = s /\ Active(r)}
<1>1. /\ \A q \in Reqs \ R : req'[q] = req[q]
      /\ \A q \in Reqs \cap R : req'[q].pc = "idle"
  <2>1. req' = Finish(R, TRUE) /\ req \in [Reqs -> Request]
    BY DEF Crash, TypeOK
  <2> HIDE DEF R
  <2> QED BY <2>1, FinishFacts
<1>2. "idle" \notin Fetching
  BY DEF Fetching
<1>3. \A q \in Reqs : Home[q] \in Servers /\ req[q].key \in Keys
  BY ManagerAssumption DEF TypeOK, Request
<1>4. /\ \A k \in Keys : flight'[s][k] = NoReq
      /\ \A t \in Servers \ {s}, k \in Keys : flight'[t][k] = flight[t][k]
  BY DEF Crash, TypeOK
<1>5. ASSUME NEW q \in Reqs, req'[q].pc # "idle"
      PROVE  Home[q] # s /\ req'[q] = req[q]
  <2>1. q \notin R /\ req'[q] = req[q]
    BY <1>1, <1>5
  <2> QED BY <1>5, <2>1 DEF Active
<1>6. ASSUME NEW t \in Servers, NEW k \in Keys, flight'[t][k] # NoReq
      PROVE  /\ UseSF /\ flight'[t][k] \in Reqs
             /\ req'[flight'[t][k]].pc \in Fetching
             /\ Home[flight'[t][k]] = t /\ req'[flight'[t][k]].key = k
  <2>1. t # s /\ flight'[t][k] = flight[t][k]
    BY <1>4, <1>6
  <2>2. /\ UseSF /\ flight[t][k] \in Reqs /\ req[flight[t][k]].pc \in Fetching
        /\ Home[flight[t][k]] = t /\ req[flight[t][k]].key = k
    BY <1>6, <2>1 DEF Flights
  <2> QED BY <1>1, <2>1, <2>2
<1> HIDE DEF R
<1>7. \A q \in Reqs : UseSF /\ req'[q].pc \in Fetching => flight'[Home[q]][req'[q].key] = q
  BY <1>2, <1>3, <1>4, <1>5 DEF Flights
<1>8. \A q \in Reqs : req'[q].pc = "wait" => UseSF /\ flight'[Home[q]][req'[q].key] # NoReq
  BY <1>3, <1>4, <1>5 DEF Flights
<1> QED BY <1>6, <1>7, <1>8 DEF Flights

LEMMA StepFlights ==
  ASSUME TypeOK, Flights, NEW r \in Reqs, Step(r)
  PROVE  Flights'
<1>1. /\ req \in [Reqs -> Request] /\ clock \in Nat /\ clock + 1 \in Nat
      /\ \A k \in Keys : Readable(k) \subseteq Nat
  <2>1. req \in [Reqs -> Request] /\ clock \in Nat
    BY DEF TypeOK
  <2>2. ASSUME NEW k \in Keys PROVE l2[k] \in Nat /\ rep[k] \in Nat
    BY DEF TypeOK, Version
  <2> QED BY <2>1, <2>2 DEF Readable
<1>2. req[r].key \in Keys
  BY DEF TypeOK, Request
<1>3. ASSUME req' = Finish({r}, TRUE) \/ req' = Finish({r}, FALSE), UNCHANGED flight,
             req[r].pc \notin Fetching
      PROVE  Flights'
  <2>1. /\ \A q \in Reqs \ {r} : req'[q] = req[q]
        /\ \A q \in Reqs \cap {r} : req'[q].pc = "idle"
    <3> DEFINE R == {r}
    <3>1. req' = Finish(R, TRUE) \/ req' = Finish(R, FALSE)
      BY <1>3
    <3> HIDE DEF R
    <3>2. /\ \A q \in Reqs \ R : req'[q] = req[q]
          /\ \A q \in Reqs \cap R : req'[q].pc = "idle"
      <4>1. CASE req' = Finish(R, TRUE)
        BY <1>1, <4>1, FinishFacts
      <4>2. CASE req' = Finish(R, FALSE)
        BY <1>1, <4>2, FinishFacts
      <4> QED BY <3>1, <4>1, <4>2
    <3> QED BY <3>2 DEF R
  <2>2. req'[r].pc = "idle"
    BY <2>1
  <2> QED BY <1>3, <2>1, <2>2, MoveFlights DEF Fetching
<1>4. ASSUME NEW pc \in PCs, req' = Goto(r, pc), UNCHANGED flight,
             \/ req[r].pc \in Fetching /\ pc \in Fetching
             \/ /\ req[r].pc \notin Fetching /\ pc \notin Fetching
                /\ pc = "wait" => UseSF /\ flight[Home[r]][req[r].key] # NoReq
      PROVE  Flights'
  <2>1. /\ \A q \in Reqs \ {r} : req'[q] = req[q]
        /\ req'[r].pc = pc /\ req'[r].key = req[r].key
    BY <1>1, <1>4, GotoFacts
  <2> QED BY <1>4, <2>1, MoveFlights
<1>5. ASSUME NEW pc \in PCs, NEW v \in Nat, req' = Carry(r, pc, v), UNCHANGED flight,
             \/ req[r].pc \in Fetching /\ pc \in Fetching
             \/ req[r].pc \notin Fetching /\ pc \notin Fetching \cup {"wait"}
      PROVE  Flights'
  <2>1. /\ \A q \in Reqs \ {r} : req'[q] = req[q]
        /\ req'[r].pc = pc /\ req'[r].key = req[r].key
    BY <1>1, <1>5, CarryFacts
  <2> QED BY <1>5, <2>1, MoveFlights
<1>6. CASE \/ L1Hit(r) \/ L1Fill(r) \/ L2WriteFail(r)
           \/ \E dup \in BOOLEAN : L2WriteOk(r, dup)
  BY <1>3, <1>6 DEF L1Hit, L1Fill, L2WriteFail, L2WriteOk, At, Fetching
<1>7. CASE L1Miss(r) \/ L2Miss(r) \/ DelL1(r) \/ BackFill(r) \/ Join(r)
  BY <1>4, <1>7 DEF L1Miss, L2Miss, DelL1, BackFill, Join, At, Fetching, PCs
<1>8. CASE L2Hit(r)
  <2>1. PICK v \in Readable(req[r].key) : req' = Carry(r, "fill", v)
    BY <1>8 DEF L2Hit
  <2>2. v \in Nat
    BY <1>1, <1>2
  <2> QED BY <1>5, <1>8, <2>1, <2>2 DEF L2Hit, At, Fetching, PCs
<1>9. CASE OriginReturn(r) \/ SetL1(r)
  BY <1>1, <1>5, <1>9 DEF OriginReturn, SetL1, At, Fetching, PCs
<1>10. CASE Lead(r)
  BY <1>10, LeadFlights
<1>11. CASE OriginFail(r) \/ Land(r)
  BY <1>11, LandFlights DEF OriginFail, Land, At, Fetching
<1> QED BY <1>6, <1>7, <1>8, <1>9, <1>10, <1>11 DEF Step

LEMMA EnvironmentFlights ==
  ASSUME TypeOK, Flights, Environment
  PROVE  Flights'
<1>1. ASSUME NEW r \in Reqs, NEW op \in Ops, NEW k \in Keys, Start(r, op, k)
      PROVE  Flights'
  <2>1. /\ \A q \in Reqs \ {r} : req'[q] = req[q]
        /\ req'[r].pc \in {"l1", "setl1", "dell1"}
    BY <1>1, StartFacts DEF TypeOK
  <2>2. req[r].pc = "idle" /\ flight' = flight
    BY <1>1 DEF Start, Active
  <2> QED BY <2>1, <2>2, MoveFlights DEF Fetching
<1>2. ASSUME UNCHANGED <<req, flight>> PROVE Flights'
  BY <1>2 DEF Flights
<1>3. ASSUME NEW s \in Servers, Crash(s) PROVE Flights'
  BY <1>3, CrashFlights
<1> QED
  BY <1>1, <1>2, <1>3 DEF Environment, Cancel, PendingApply, PendingLose, DropL1,
                          DropL2, Replicate

LEMMA FlightsInvariant == Spec => [](TypeOK /\ Flights)
<1>1. Init => TypeOK /\ Flights
  <2> SUFFICES ASSUME Init PROVE Flights
    BY InitType
  <2>1. \A q \in Reqs : req[q].pc = "idle"
    BY DEF Init
  <2>2. \A s \in Servers, k \in Keys : flight[s][k] = NoReq
    BY DEF Init
  <2> QED BY <2>1, <2>2 DEF Flights, Fetching
<1>2. TypeOK /\ Flights /\ [Next]_vars => (TypeOK /\ Flights)'
  <2> SUFFICES ASSUME TypeOK, Flights, [Next]_vars PROVE Flights'
    BY NextType
  <2>1. CASE UNCHANGED vars
    BY <2>1 DEF vars, Flights
  <2> QED BY <2>1, StepFlights, EnvironmentFlights DEF Next
<1> QED BY <1>1, <1>2, PTL DEF Spec

\* With singleflight no server ever runs two origin fetches for one key, whatever
\* the clients, Redis and the other servers do.
THEOREM ManagerOneFlight == Spec => []OneFlight
BY FlightsInvariant, FlightsImply, PTL

\* Whoever joined a call waits behind a leader that is still fetching that key on
\* that server, even when the leader is cancelled or a server dies.
THEOREM ManagerNoOrphanWaiter == Spec => []NoOrphanWaiter
BY FlightsInvariant, FlightsImply, PTL
-----------------------------------------------------------------------------
(* Why a Get fails *)

Writing == {"setl1", "l2set", "dell1", "l2del"}

\* Only a write is at the steps of a write.
OpsInPlace == \A r \in Reqs : req[r].pc \in Writing => req[r].op # "get"

GetFails(r) == /\ req[r].op = "get" /\ Active(r)
               /\ req'[r].pc = "idle" /\ req'[r].err

Excused(r) == \/ Crash(Home[r])
              \/ \E q \in Reqs : /\ ~live[q] /\ At(q, "origin")
                                 /\ \/ q = r
                                    \/ UseSF /\ flight[Home[r]][req[r].key] = q

\* What a step does to r keeps it in place and, if r fails, is excused.
Sound(r) == /\ req'[r].pc \in Writing => req'[r].op # "get"
            /\ GetFails(r) => Excused(r)

LEMMA SameSound ==
  ASSUME OpsInPlace, NEW r \in Reqs, req'[r] = req[r]
  PROVE  Sound(r)
BY DEF OpsInPlace, Sound, GetFails, Active

LEMMA FinishSound ==
  ASSUME TypeOK, OpsInPlace, NEW R, NEW f \in BOOLEAN, req' = Finish(R, f),
         f => \A q \in Reqs \cap R : req[q].op # "get" \/ Excused(q)
  PROVE  \A r \in Reqs : Sound(r)
<1>1. /\ \A r \in Reqs \ R : req'[r] = req[r]
      /\ \A r \in Reqs \cap R : req'[r].pc = "idle" /\ req'[r].err = f
  BY FinishFacts DEF TypeOK
<1>2. ASSUME NEW r \in Reqs \ R PROVE Sound(r)
  BY <1>1, SameSound
<1>3. ASSUME NEW r \in Reqs \cap R PROVE Sound(r)
  <2>1. req'[r].pc = "idle" /\ "idle" \notin Writing /\ (req'[r].err => f)
    BY <1>1 DEF Writing
  <2>2. GetFails(r) => Excused(r)
    BY <2>1 DEF GetFails
  <2> QED BY <2>1, <2>2 DEF Sound
<1> QED BY <1>2, <1>3

\* One request goes on, and a lookup does not turn into a write.
LEMMA MoveSound ==
  ASSUME OpsInPlace, NEW r \in Reqs,
         \A q \in Reqs \ {r} : req'[q] = req[q],
         req'[r].pc # "idle", req'[r].op = req[r].op,
         req'[r].pc \in Writing => req[r].pc \in Writing
  PROVE  \A q \in Reqs : Sound(q)
<1>1. ASSUME NEW q \in Reqs \ {r} PROVE Sound(q)
  BY SameSound
<1>2. Sound(r)
  BY DEF Sound, GetFails, OpsInPlace
<1> QED BY <1>1, <1>2

LEMMA GotoOp ==
  ASSUME req \in [Reqs -> Request], NEW r \in Reqs, NEW pc \in PCs,
         req' = Goto(r, pc)
  PROVE  req'[r].op = req[r].op
<1>1. req'[r] = [req[r] EXCEPT !.pc = pc]
  BY DEF Goto
<1> QED BY <1>1 DEF Request

LEMMA CarryOp ==
  ASSUME req \in [Reqs -> Request], NEW r \in Reqs, NEW pc \in PCs, NEW v \in Nat,
         req' = Carry(r, pc, v)
  PROVE  req'[r].op = req[r].op
<1>1. req'[r] = [req[r] EXCEPT !.pc = pc, !.val = v]
  BY DEF Carry
<1> QED BY <1>1 DEF Request

LEMMA StepSound ==
  ASSUME TypeOK, Flights, OpsInPlace, NEW r \in Reqs, Step(r)
  PROVE  \A q \in Reqs : Sound(q)
<1>1. /\ req \in [Reqs -> Request] /\ clock + 1 \in Nat
      /\ \A k \in Keys : Readable(k) \subseteq Nat
  <2>1. req \in [Reqs -> Request] /\ clock \in Nat
    BY DEF TypeOK
  <2>2. ASSUME NEW k \in Keys PROVE l2[k] \in Nat /\ rep[k] \in Nat
    BY DEF TypeOK, Version
  <2> QED BY <2>1, <2>2 DEF Readable
<1>2. req[r].key \in Keys
  BY DEF TypeOK, Request
<1>3. ASSUME NEW pc \in PCs, req' = Goto(r, pc), pc # "idle",
             pc \in Writing => req[r].pc \in Writing
      PROVE  \A q \in Reqs : Sound(q)
  <2>1. /\ \A q \in Reqs \ {r} : req'[q] = req[q]
        /\ req'[r].pc = pc /\ req'[r].op = req[r].op
    BY <1>1, <1>3, GotoFacts, GotoOp
  <2> QED BY <1>3, <2>1, MoveSound
<1>4. ASSUME NEW pc \in PCs, NEW v \in Nat, req' = Carry(r, pc, v), pc # "idle",
             pc \in Writing => req[r].pc \in Writing
      PROVE  \A q \in Reqs : Sound(q)
  <2>1. /\ \A q \in Reqs \ {r} : req'[q] = req[q]
        /\ req'[r].pc = pc /\ req'[r].op = req[r].op
    BY <1>1, <1>4, CarryFacts, CarryOp
  <2> QED BY <1>4, <2>1, MoveSound
<1>5. CASE L1Miss(r) \/ L2Miss(r) \/ DelL1(r) \/ BackFill(r) \/ Join(r) \/ Lead(r)
  BY <1>3, <1>5 DEF L1Miss, L2Miss, DelL1, BackFill, Join, Lead, At, Writing, PCs
<1>6. CASE L2Hit(r)
  <2>1. PICK v \in Readable(req[r].key) : req' = Carry(r, "fill", v)
    BY <1>6 DEF L2Hit
  <2>2. v \in Nat
    BY <1>1, <1>2
  <2> QED BY <1>4, <2>1, <2>2 DEF Writing, PCs
<1>7. CASE OriginReturn(r) \/ SetL1(r)
  BY <1>1, <1>4, <1>7 DEF OriginReturn, SetL1, At, Writing, PCs
<1>8. CASE \/ L1Hit(r) \/ L1Fill(r) \/ Land(r)
           \/ \E dup \in BOOLEAN : L2WriteOk(r, dup)
  <2>1. PICK R : req' = Finish(R, FALSE)
    BY <1>8 DEF L1Hit, L1Fill, Land, L2WriteOk
  <2> QED BY <2>1, FinishSound
<1>9. CASE L2WriteFail(r)
  <2> DEFINE R == {r}
  <2>1. req' = Finish(R, TRUE) /\ \A q \in Reqs \cap R : req[q].op # "get"
    BY <1>9 DEF L2WriteFail, At, OpsInPlace, Writing
  <2> HIDE DEF R
  <2> QED BY <2>1, FinishSound
<1>10. CASE OriginFail(r)
  <2>1. req' = Finish(Landing(r), TRUE) /\ At(r, "origin") /\ ~live[r]
    BY <1>10 DEF OriginFail
  <2>2. ASSUME NEW q \in Reqs \cap Landing(r) PROVE Excused(q)
    <3>1. CASE q = r
      BY <2>1, <3>1 DEF Excused
    <3>2. CASE q # r
      <4>1. UseSF /\ Home[q] = Home[r] /\ req[q].key = req[r].key
        BY <2>2, <3>2 DEF Landing, Waiters
      <4>2. flight[Home[r]][req[r].key] = r
        BY <2>1, <4>1 DEF Flights, Fetching, At
      <4> QED BY <2>1, <4>1, <4>2 DEF Excused
    <3> QED BY <3>1, <3>2
  <2> QED BY <2>1, <2>2, FinishSound
<1> QED BY <1>5, <1>6, <1>7, <1>8, <1>9, <1>10 DEF Step

LEMMA EnvironmentSound ==
  ASSUME TypeOK, OpsInPlace, Environment
  PROVE  \A q \in Reqs : Sound(q)
<1>1. ASSUME NEW r \in Reqs, NEW op \in Ops, NEW k \in Keys, Start(r, op, k)
      PROVE  \A q \in Reqs : Sound(q)
  <2>1. \A q \in Reqs \ {r} : req'[q] = req[q]
    BY <1>1, StartFacts DEF TypeOK
  <2>2. req'[r].pc = FirstPc[op] /\ req'[r].op = op
    BY <1>1 DEF Start, TypeOK
  <2>3. FirstPc[op] \in Writing => op # "get"
    BY DEF FirstPc, Writing, Ops
  <2>4. Sound(r)
    BY <1>1, <2>2, <2>3 DEF Sound, GetFails, Start
  <2>5. ASSUME NEW q \in Reqs \ {r} PROVE Sound(q)
    BY <2>1, SameSound
  <2> QED BY <2>4, <2>5
<1>2. ASSUME UNCHANGED req PROVE \A q \in Reqs : Sound(q)
  BY <1>2, SameSound
<1>3. ASSUME NEW s \in Servers, Crash(s) PROVE \A q \in Reqs : Sound(q)
  <2> DEFINE R == {r \in Reqs : Home[r] = s /\ Active(r)}
  <2>1. req' = Finish(R, TRUE) /\ \A q \in Reqs \cap R : Excused(q)
    BY <1>3 DEF Crash, Excused
  <2> HIDE DEF R
  <2> QED BY <2>1, FinishSound
<1> QED
  BY <1>1, <1>2, <1>3 DEF Environment, Cancel, PendingApply, PendingLose, DropL1,
                          DropL2, Replicate

\* Whatever Redis does, a Get fails only because the client of the request that
\* called the origin for it went away, or because the process died.
THEOREM ManagerGetFails == Spec => GetFailsByCancelOnly
<1>1. Init => OpsInPlace
  BY DEF Init, OpsInPlace, Writing
<1>2. TypeOK /\ Flights /\ OpsInPlace /\ [Next]_vars => OpsInPlace'
  <2> SUFFICES ASSUME TypeOK, Flights, OpsInPlace, [Next]_vars PROVE OpsInPlace'
    OBVIOUS
  <2>1. CASE UNCHANGED vars
    BY <2>1 DEF vars, OpsInPlace
  <2>2. CASE Next
    <3>1. \A q \in Reqs : Sound(q)
      BY <2>2, StepSound, EnvironmentSound DEF Next
    <3> QED BY <3>1 DEF Sound, OpsInPlace
  <2> QED BY <2>1, <2>2
<1>3. TypeOK /\ Flights /\ OpsInPlace /\ [Next]_vars
      => [\A r \in Reqs : GetFails(r) => Excused(r)]_vars
  <2> SUFFICES ASSUME TypeOK, Flights, OpsInPlace, Next
               PROVE  \A r \in Reqs : GetFails(r) => Excused(r)
    OBVIOUS
  <2>1. \A q \in Reqs : Sound(q)
    BY StepSound, EnvironmentSound DEF Next
  <2> QED BY <2>1 DEF Sound
<1>4. [][\A r \in Reqs : GetFails(r) => Excused(r)]_vars => GetFailsByCancelOnly
  BY DEF GetFailsByCancelOnly, GetFails, Excused
<1> QED BY <1>1, <1>2, <1>3, <1>4, FlightsInvariant, PTL DEF Spec
=============================================================================
