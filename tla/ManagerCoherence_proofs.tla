---------------------- MODULE ManagerCoherence_proofs ----------------------
(***************************************************************************)
(* Proof that writes that ran alone stick, for every number of servers,    *)
(* requests and keys, when Redis is read from its masters.                 *)
(*                                                                         *)
(* What one step of Manager may do to each place a version can be in is    *)
(* summed up once (Effect); the invariant is then preserved by any step    *)
(* with that effect, and by the step that acknowledges a write.            *)
(***************************************************************************)
EXTENDS ManagerCoherence, Manager_proofs

KeyOf(r) == req[r].key

\* L1 changes by forgetting, by storing what a request carries, or by a Set.
L1Effect ==
  \A s \in Servers, k \in Keys :
    \/ l1'[s][k] = l1[s][k]
    \/ l1'[s][k] = Absent
    \/ \E q \in Reqs : /\ Home[q] = s /\ KeyOf(q) = k /\ Active(q)
                       /\ \/ At(q, "fill") /\ l1'[s][k] = req[q].val
                          \/ At(q, "backfill") /\ l1'[s][k] = req[q].val
                          \/ /\ At(q, "setl1") /\ clock' = clock + 1
                             /\ l1'[s][k] = clock + 1

L2Effect ==
  \A k \in Keys :
    \/ l2'[k] = l2[k]
    \/ l2'[k] = Absent
    \/ \E c \in pending : c.key = k /\ l2'[k] = c.val
    \/ \E q \in Reqs : KeyOf(q) = k /\ l2'[k] = req[q].val

PendingEffect ==
  \A c \in pending' :
    \/ c \in pending
    \/ \E q \in Reqs : c.key = KeyOf(q) /\ c.val = req[q].val
    \/ clock' = clock + 1 /\ c.val = clock + 1 /\ c.key \in Keys

ValEffect ==
  \A r \in Reqs :
    \/ req'[r].val = Absent
    \/ /\ req'[r].key = KeyOf(r)
       /\ \/ req'[r].val = req[r].val
          \/ req'[r].val \in Readable(KeyOf(r))
          \/ clock' = clock + 1 /\ req'[r].val = clock + 1

\* A write reaches its Redis command only through its L1 step.
WriteEffect ==
  \A r \in Reqs : req'[r].pc \in {"l2set", "l2del"} =>
    /\ Active(r) /\ req'[r].key = KeyOf(r)
    /\ \/ req'[r] = req[r]
       \/ l1'[Home[r]][KeyOf(r)] = req'[r].val

\* Only Redis' acknowledgement ends a write without an error.
AckEffect ==
  \A r \in Reqs :
    /\ At(r, "l2set") \/ At(r, "l2del")
    /\ req'[r].pc = "idle" /\ ~req'[r].err
    => \E dup \in BOOLEAN : L2WriteOk(r, dup)

Effect ==
  /\ L1Effect /\ L2Effect /\ PendingEffect /\ ValEffect
  /\ WriteEffect /\ AckEffect
  /\ clock' = clock \/ clock' = clock + 1

-----------------------------------------------------------------------------
(* Effects of each action *)

\* Requests that finish, other than with an acknowledged write, or just move on.
LEMMA QuietReqs ==
  ASSUME TypeOK, req' \in [Reqs -> Request],
         \A r \in Reqs :
           \/ req'[r] = req[r]
           \/ /\ req'[r].pc = "idle" /\ req'[r].val = Absent
              /\ req'[r].err \/ ~(At(r, "l2set") \/ At(r, "l2del"))
           \/ /\ req'[r].pc \notin {"idle", "l2set", "l2del"}
              /\ req'[r].key = KeyOf(r) /\ req'[r].val = req[r].val
           \/ /\ req'[r].pc \notin {"idle", "l2set", "l2del"}
              /\ req'[r].val = Absent
  PROVE  ValEffect /\ WriteEffect /\ AckEffect
<1>1. ValEffect
  BY DEF ValEffect, KeyOf
<1>2. WriteEffect
  <2> SUFFICES ASSUME NEW r \in Reqs, req'[r].pc \in {"l2set", "l2del"}
               PROVE  Active(r) /\ req'[r].key = KeyOf(r) /\ req'[r] = req[r]
    BY DEF WriteEffect
  <2>1. req'[r] = req[r]
    OBVIOUS
  <2> QED BY <2>1 DEF Active, KeyOf
<1>3. AckEffect
  BY DEF AckEffect, At
<1> QED BY <1>1, <1>2, <1>3

LEMMA FailQuiet ==
  ASSUME TypeOK, NEW R, req' = Finish(R, TRUE)
  PROVE  ValEffect /\ WriteEffect /\ AckEffect
<1>1. req \in [Reqs -> Request]
  BY DEF TypeOK
<1>2. /\ req' \in [Reqs -> Request]
      /\ \A r \in Reqs \ R : req'[r] = req[r]
      /\ \A r \in Reqs \cap R : /\ req'[r].pc = "idle" /\ req'[r].val = Absent
                                /\ req'[r].err = TRUE
  BY <1>1, FinishFacts
<1>3. ASSUME NEW r \in Reqs
      PROVE  \/ req'[r] = req[r]
             \/ req'[r].pc = "idle" /\ req'[r].val = Absent /\ req'[r].err
  BY <1>2
<1> QED BY <1>2, <1>3, QuietReqs

LEMMA FinishQuiet ==
  ASSUME TypeOK, NEW R, req' = Finish(R, FALSE),
         \A r \in R \cap Reqs : ~(At(r, "l2set") \/ At(r, "l2del"))
  PROVE  ValEffect /\ WriteEffect /\ AckEffect
<1>1. req \in [Reqs -> Request]
  BY DEF TypeOK
<1>2. /\ req' \in [Reqs -> Request]
      /\ \A r \in Reqs \ R : req'[r] = req[r]
      /\ \A r \in Reqs \cap R : req'[r].pc = "idle" /\ req'[r].val = Absent
  BY <1>1, FinishFacts
<1>3. ASSUME NEW r \in Reqs
      PROVE  \/ req'[r] = req[r]
             \/ /\ req'[r].pc = "idle" /\ req'[r].val = Absent
                /\ ~(At(r, "l2set") \/ At(r, "l2del"))
  BY <1>2
<1> QED BY <1>2, <1>3, QuietReqs

\* What storing version v for k in the L1 of s does to L1.
LEMMA L1Update ==
  ASSUME TypeOK, NEW s \in Servers, NEW k \in Keys, NEW v,
         l1' = SetL1Entry(s, k, v)
  PROVE  /\ l1'[s][k] = v
         /\ \A t \in Servers, x \in Keys :
              t # s \/ x # k => l1'[t][x] = l1[t][x]
BY DEF SetL1Entry, TypeOK

LEMMA GotoQuiet ==
  ASSUME TypeOK, NEW r \in Reqs, NEW pc \in PCs \ {"idle", "l2set", "l2del"},
         req' = Goto(r, pc)
  PROVE  ValEffect /\ WriteEffect /\ AckEffect
<1>1. req \in [Reqs -> Request]
  BY DEF TypeOK
<1>2. /\ req' \in [Reqs -> Request]
      /\ \A q \in Reqs \ {r} : req'[q] = req[q]
      /\ req'[r].pc = pc /\ req'[r].val = req[r].val /\ req'[r].key = req[r].key
  BY <1>1, GotoFacts
<1>3. ASSUME NEW q \in Reqs
      PROVE  \/ req'[q] = req[q]
             \/ /\ req'[q].pc \notin {"idle", "l2set", "l2del"}
                /\ req'[q].key = KeyOf(q) /\ req'[q].val = req[q].val
  BY <1>2 DEF KeyOf
<1> QED BY <1>2, <1>3, QuietReqs

LEMMA SameReqsQuiet ==
  ASSUME TypeOK, UNCHANGED req
  PROVE  ValEffect /\ WriteEffect /\ AckEffect
<1>1. req' \in [Reqs -> Request]
  BY DEF TypeOK
<1> QED BY <1>1, QuietReqs

LEMMA SameL1 == UNCHANGED l1 => L1Effect
BY DEF L1Effect

LEMMA SameL2 == UNCHANGED l2 => L2Effect
BY DEF L2Effect

LEMMA SamePending == UNCHANGED pending => PendingEffect
BY DEF PendingEffect

LEMMA StepEffect ==
  ASSUME TypeOK, NEW r \in Reqs, Step(r)
  PROVE  Effect
<1>1. /\ req \in [Reqs -> Request] /\ req[r] \in Request
      /\ req[r].key \in Keys /\ Home[r] \in Servers /\ req[r].val \in Version
      /\ clock \in Nat /\ l1 \in [Servers -> [Keys -> Version]]
      /\ l2 \in [Keys -> Version] /\ Absent \in Version
  BY ManagerAssumption DEF TypeOK, Request, Version, Absent
<1>2. PCs = {"idle", "l1", "l2", "fill", "flight", "origin", "backfill",
             "land", "wait", "setl1", "l2set", "dell1", "l2del"}
  BY DEF PCs
<1>3. CASE L1Hit(r)
  <2>1. ValEffect /\ WriteEffect /\ AckEffect
    <3>1. \A x \in {r} \cap Reqs : ~(At(x, "l2set") \/ At(x, "l2del"))
      BY <1>3 DEF L1Hit, At
    <3> QED BY <1>3, <3>1, FinishQuiet DEF L1Hit
  <2>2. L1Effect /\ L2Effect /\ PendingEffect
    BY <1>3, SameL1, SameL2, SamePending DEF L1Hit
  <2> QED BY <1>3, <2>1, <2>2 DEF Effect, L1Hit
<1>4. CASE L1Miss(r)
  <2>1. ValEffect /\ WriteEffect /\ AckEffect
    BY <1>2, <1>4, GotoQuiet DEF L1Miss
  <2>2. L1Effect /\ L2Effect /\ PendingEffect
    BY <1>4, SameL1, SameL2, SamePending DEF L1Miss
  <2> QED BY <1>4, <2>1, <2>2 DEF Effect, L1Miss
<1>5. CASE L2Miss(r)
  <2>1. ValEffect /\ WriteEffect /\ AckEffect
    BY <1>2, <1>5, GotoQuiet DEF L2Miss
  <2>2. L1Effect /\ L2Effect /\ PendingEffect
    BY <1>5, SameL1, SameL2, SamePending DEF L2Miss
  <2> QED BY <1>5, <2>1, <2>2 DEF Effect, L2Miss
<1>6. CASE Lead(r)
  <2>1. ValEffect /\ WriteEffect /\ AckEffect
    BY <1>2, <1>6, GotoQuiet DEF Lead
  <2>2. L1Effect /\ L2Effect /\ PendingEffect
    BY <1>6, SameL1, SameL2, SamePending DEF Lead
  <2> QED BY <1>6, <2>1, <2>2 DEF Effect, Lead
<1>7. CASE Join(r)
  <2>1. ValEffect /\ WriteEffect /\ AckEffect
    BY <1>2, <1>7, GotoQuiet DEF Join
  <2>2. L1Effect /\ L2Effect /\ PendingEffect
    BY <1>7, SameL1, SameL2, SamePending DEF Join
  <2> QED BY <1>7, <2>1, <2>2 DEF Effect, Join
<1>9. CASE OriginFail(r)
  <2>1. ValEffect /\ WriteEffect /\ AckEffect
    BY <1>9, FailQuiet DEF OriginFail
  <2>2. L1Effect /\ L2Effect /\ PendingEffect
    BY <1>9, SameL1, SameL2, SamePending DEF OriginFail
  <2> QED BY <1>9, <2>1, <2>2 DEF Effect, OriginFail
<1>10. CASE Land(r)
  <2>1. ValEffect /\ WriteEffect /\ AckEffect
    <3>1. \A x \in Landing(r) \cap Reqs : ~(At(x, "l2set") \/ At(x, "l2del"))
      BY <1>10 DEF Land, Landing, Waiters, At
    <3> QED BY <1>10, <3>1, FinishQuiet DEF Land
  <2>2. L1Effect /\ L2Effect /\ PendingEffect
    BY <1>10, SameL1, SameL2, SamePending DEF Land
  <2> QED BY <1>10, <2>1, <2>2 DEF Effect, Land
<1>11. CASE L1Fill(r)
  <2>1. ValEffect /\ WriteEffect /\ AckEffect
    <3>1. \A x \in {r} \cap Reqs : ~(At(x, "l2set") \/ At(x, "l2del"))
      BY <1>11 DEF L1Fill, At
    <3> QED BY <1>11, <3>1, FinishQuiet DEF L1Fill
  <2>2. L2Effect /\ PendingEffect
    BY <1>11, SameL2, SamePending DEF L1Fill
  <2>3. L1Effect
    <3> SUFFICES ASSUME NEW s \in Servers, NEW k \in Keys,
                        l1'[s][k] # l1[s][k]
                 PROVE  /\ Home[r] = s /\ KeyOf(r) = k /\ Active(r)
                        /\ At(r, "fill") /\ l1'[s][k] = req[r].val
      BY DEF L1Effect
    <3>1. l1' = SetL1Entry(Home[r], req[r].key, req[r].val) /\ At(r, "fill")
      BY <1>11 DEF L1Fill
    <3>2. Home[r] = s /\ req[r].key = k
      BY <1>1, <3>1, L1Update
    <3>3. l1'[s][k] = req[r].val
      BY <1>1, <3>1, <3>2, L1Update
    <3> QED BY <3>1, <3>2, <3>3 DEF KeyOf, Active, At
  <2> QED BY <1>11, <2>1, <2>2, <2>3 DEF Effect, L1Fill
<1>12. CASE BackFill(r)
  <2>1. ValEffect /\ WriteEffect /\ AckEffect
    BY <1>2, <1>12, GotoQuiet DEF BackFill
  <2>2. L2Effect /\ PendingEffect
    BY <1>12, SameL2, SamePending DEF BackFill
  <2>3. L1Effect
    <3> SUFFICES ASSUME NEW s \in Servers, NEW k \in Keys,
                        l1'[s][k] # l1[s][k]
                 PROVE  /\ Home[r] = s /\ KeyOf(r) = k /\ Active(r)
                        /\ At(r, "backfill") /\ l1'[s][k] = req[r].val
      BY DEF L1Effect
    <3>1. l1' = SetL1Entry(Home[r], req[r].key, req[r].val) /\ At(r, "backfill")
      BY <1>12 DEF BackFill
    <3>2. Home[r] = s /\ req[r].key = k
      BY <1>1, <3>1, L1Update
    <3>3. l1'[s][k] = req[r].val
      BY <1>1, <3>1, <3>2, L1Update
    <3> QED BY <3>1, <3>2, <3>3 DEF KeyOf, Active, At
  <2> QED BY <1>12, <2>1, <2>2, <2>3 DEF Effect, BackFill
<1>13. CASE L2Hit(r)
  <2>1. PICK v \in Readable(req[r].key) \ {Absent} : req' = Carry(r, "fill", v)
    BY <1>13 DEF L2Hit
  <2>2. v \in Nat
    BY <1>1, <2>1 DEF Readable, TypeOK, Version
  <2>3. /\ req' \in [Reqs -> Request]
        /\ \A q \in Reqs \ {r} : req'[q] = req[q]
        /\ req'[r].pc = "fill" /\ req'[r].val = v /\ req'[r].key = req[r].key
    BY <1>1, <1>2, <2>1, <2>2, CarryFacts
  <2>4. ValEffect
    BY <2>1, <2>3 DEF ValEffect, KeyOf
  <2>5. WriteEffect
    BY <2>3 DEF WriteEffect, KeyOf, Active
  <2>6. AckEffect
    BY <2>3 DEF AckEffect, At
  <2>7. L1Effect /\ L2Effect /\ PendingEffect
    BY <1>13, SameL1, SameL2, SamePending DEF L2Hit
  <2> QED BY <1>13, <2>4, <2>5, <2>6, <2>7 DEF Effect, L2Hit
<1>14. CASE OriginReturn(r)
  <2>1. /\ clock' = clock + 1 /\ req' = Carry(r, "backfill", clock + 1)
        /\ pending' = pending \cup {[key |-> req[r].key, val |-> clock + 1]}
    BY <1>14 DEF OriginReturn
  <2>2. /\ req' \in [Reqs -> Request]
        /\ \A q \in Reqs \ {r} : req'[q] = req[q]
        /\ req'[r].pc = "backfill" /\ req'[r].val = clock + 1
        /\ req'[r].key = req[r].key
    BY <1>1, <1>2, <2>1, CarryFacts
  <2>3. ValEffect
    BY <2>1, <2>2 DEF ValEffect, KeyOf
  <2>4. WriteEffect
    BY <2>2 DEF WriteEffect, KeyOf, Active
  <2>5. AckEffect
    BY <2>2 DEF AckEffect, At
  <2>6. PendingEffect
    BY <1>1, <2>1 DEF PendingEffect
  <2>7. L1Effect /\ L2Effect
    BY <1>14, SameL1, SameL2 DEF OriginReturn
  <2> QED BY <2>1, <2>3, <2>4, <2>5, <2>6, <2>7 DEF Effect
<1>15. CASE SetL1(r)
  <2>1. /\ clock' = clock + 1 /\ req' = Carry(r, "l2set", clock + 1)
        /\ l1' = SetL1Entry(Home[r], req[r].key, clock + 1) /\ At(r, "setl1")
    BY <1>15 DEF SetL1
  <2>2. /\ req' \in [Reqs -> Request]
        /\ \A q \in Reqs \ {r} : req'[q] = req[q]
        /\ req'[r].pc = "l2set" /\ req'[r].val = clock + 1
        /\ req'[r].key = req[r].key
    BY <1>1, <1>2, <2>1, CarryFacts
  <2>3. l1 \in [Servers -> [Keys -> Nat]] /\ clock + 1 \in Nat
    BY <1>1 DEF Version
  <2>4. /\ l1'[Home[r]][req[r].key] = clock + 1
        /\ \A s \in Servers, k \in Keys :
             s # Home[r] \/ k # req[r].key => l1'[s][k] = l1[s][k]
    BY <1>1, <2>1, <2>3, L1Update
  <2>5. L1Effect
    BY <2>1, <2>4 DEF L1Effect, KeyOf, Active, At
  <2>6. ValEffect
    BY <2>1, <2>2 DEF ValEffect, KeyOf
  <2>7. WriteEffect
    BY <2>1, <2>2, <2>4 DEF WriteEffect, KeyOf, Active, At
  <2>8. AckEffect
    BY <2>2 DEF AckEffect, At
  <2>9. L2Effect /\ PendingEffect
    BY <1>15, SameL2, SamePending DEF SetL1
  <2> QED BY <2>1, <2>5, <2>6, <2>7, <2>8, <2>9 DEF Effect
<1>16. CASE DelL1(r)
  <2>1. /\ req' = Goto(r, "l2del") /\ At(r, "dell1") /\ clock' = clock
        /\ l1' = SetL1Entry(Home[r], req[r].key, Absent)
    BY <1>16 DEF DelL1
  <2>2. /\ req' \in [Reqs -> Request]
        /\ \A q \in Reqs \ {r} : req'[q] = req[q]
        /\ req'[r].pc = "l2del" /\ req'[r].val = req[r].val
        /\ req'[r].key = req[r].key
    BY <1>1, <1>2, <2>1, GotoFacts
  <2>3. req[r].val = Absent
    BY <2>1 DEF TypeOK, Carrying, At
  <2>4. /\ l1'[Home[r]][req[r].key] = Absent
        /\ \A s \in Servers, k \in Keys :
             s # Home[r] \/ k # req[r].key => l1'[s][k] = l1[s][k]
    BY <1>1, <2>1, L1Update
  <2>5. L1Effect
    BY <2>4 DEF L1Effect
  <2>6. ValEffect
    BY <2>2 DEF ValEffect, KeyOf
  <2>7. WriteEffect
    BY <2>1, <2>2, <2>3, <2>4 DEF WriteEffect, KeyOf, Active, At
  <2>8. AckEffect
    BY <2>2 DEF AckEffect, At
  <2>9. L2Effect /\ PendingEffect
    BY <1>16, SameL2, SamePending DEF DelL1
  <2> QED BY <2>1, <2>5, <2>6, <2>7, <2>8, <2>9 DEF Effect
<1>17. ASSUME NEW dup \in BOOLEAN, L2WriteOk(r, dup)
      PROVE  Effect
  <2>1. /\ req' = Finish({r}, FALSE) /\ clock' = clock /\ UNCHANGED l1
        /\ l2' = [l2 EXCEPT ![req[r].key] = req[r].val]
        /\ pending' \subseteq pending \cup {CmdOf(r)}
    BY <1>17 DEF L2WriteOk
  <2>2. /\ \A q \in Reqs \ {r} : req'[q] = req[q]
        /\ req'[r].pc = "idle" /\ req'[r].val = Absent
    <3> DEFINE R == {r}
    <3>1. req' = Finish(R, FALSE) /\ req \in [Reqs -> Request]
      BY <1>1, <2>1
    <3> HIDE DEF R
    <3>2. /\ \A q \in Reqs \ R : req'[q] = req[q]
          /\ \A q \in Reqs \cap R : req'[q].pc = "idle" /\ req'[q].val = Absent
      BY <3>1, FinishFacts
    <3> QED BY <3>2 DEF R
  <2>3. ValEffect
    BY <2>2 DEF ValEffect, KeyOf
  <2>4. WriteEffect
    BY <2>2 DEF WriteEffect, KeyOf, Active
  <2>5. AckEffect
    <3> SUFFICES ASSUME NEW q \in Reqs, At(q, "l2set") \/ At(q, "l2del"),
                        req'[q].pc = "idle"
                 PROVE  q = r
      BY <1>17 DEF AckEffect
    <3> QED BY <2>2 DEF At
  <2>6. L1Effect
    BY <2>1, SameL1
  <2>7. L2Effect
    BY <1>1, <2>1 DEF L2Effect, KeyOf
  <2>8. PendingEffect
    BY <2>1 DEF PendingEffect, CmdOf, KeyOf
  <2> QED BY <2>1, <2>3, <2>4, <2>5, <2>6, <2>7, <2>8 DEF Effect
<1>18. CASE L2WriteFail(r)
  <2>1. ValEffect /\ WriteEffect /\ AckEffect
    BY <1>18, FailQuiet DEF L2WriteFail
  <2>2. PendingEffect
    BY <1>18 DEF PendingEffect, CmdOf, KeyOf, L2WriteFail
  <2>3. L1Effect /\ L2Effect
    BY <1>18, SameL1, SameL2 DEF L2WriteFail
  <2> QED BY <1>18, <2>1, <2>2, <2>3 DEF Effect, L2WriteFail
<1> QED
  BY <1>3, <1>4, <1>5, <1>6, <1>7, <1>9, <1>10, <1>11, <1>12, <1>13, <1>14, <1>15, <1>16, <1>17, <1>18 DEF Step

LEMMA EnvironmentEffect ==
  ASSUME TypeOK, Environment
  PROVE  Effect
<1>1. /\ req \in [Reqs -> Request] /\ clock \in Nat
      /\ l1 \in [Servers -> [Keys -> Version]] /\ l2 \in [Keys -> Version]
      /\ pending \subseteq Cmd /\ Absent \in Version
  BY DEF TypeOK, Version, Absent
<1>2. ASSUME NEW r \in Reqs, NEW op \in Ops, NEW k \in Keys, Start(r, op, k)
      PROVE  Effect
  <2>1. /\ req' \in [Reqs -> Request]
        /\ \A q \in Reqs \ {r} : req'[q] = req[q]
        /\ req'[r].pc \in {"l1", "setl1", "dell1"} /\ req'[r].val = Absent
    BY <1>1, <1>2, StartFacts
  <2>2. ASSUME NEW q \in Reqs
        PROVE  \/ req'[q] = req[q]
               \/ /\ req'[q].pc \notin {"idle", "l2set", "l2del"}
                  /\ req'[q].val = Absent
    BY <2>1
  <2>3. ValEffect /\ WriteEffect /\ AckEffect
    BY <2>1, <2>2, QuietReqs
  <2>4. L1Effect /\ L2Effect /\ PendingEffect
    BY <1>2, SameL1, SameL2, SamePending DEF Start
  <2> QED BY <1>2, <2>3, <2>4 DEF Effect, Start
<1>3. ASSUME NEW r \in Reqs, Cancel(r)
      PROVE  Effect
  BY <1>3, SameReqsQuiet, SameL1, SameL2, SamePending DEF Effect, Cancel
<1>4. ASSUME NEW c \in pending, PendingApply(c) \/ PendingLose(c)
      PROVE  Effect
  <2>1. UNCHANGED <<l1, clock, req>> /\ pending' \subseteq pending /\ c.key \in Keys
    BY <1>1, <1>4 DEF PendingApply, PendingLose, Cmd
  <2>2. L2Effect
    BY <1>1, <1>4, <2>1 DEF L2Effect, PendingApply, PendingLose
  <2>3. PendingEffect
    BY <2>1 DEF PendingEffect
  <2> QED BY <2>1, <2>2, <2>3, SameReqsQuiet, SameL1 DEF Effect
<1>5. ASSUME NEW s \in Servers, NEW k \in Keys, DropL1(s, k)
      PROVE  Effect
  <2>1. L1Effect
    BY <1>1, <1>5, L1Update DEF DropL1, L1Effect
  <2> QED BY <1>5, <2>1, SameReqsQuiet, SameL2, SamePending DEF Effect, DropL1
<1>6. ASSUME NEW k \in Keys, DropL2(k) \/ Replicate(k)
      PROVE  Effect
  <2>1. UNCHANGED <<l1, pending, clock, req>>
    BY <1>6 DEF DropL2, Replicate
  <2>2. L2Effect
    BY <1>1, <1>6 DEF DropL2, Replicate, L2Effect
  <2> QED BY <2>1, <2>2, SameReqsQuiet, SameL1, SamePending DEF Effect
<1>7. ASSUME NEW s \in Servers, Crash(s)
      PROVE  Effect
  <2>1. ValEffect /\ WriteEffect /\ AckEffect
    BY <1>7, FailQuiet DEF Crash
  <2>2. L1Effect
    BY <1>1, <1>7 DEF Crash, L1Effect
  <2> QED BY <1>7, <2>1, <2>2, SameL2, SamePending DEF Effect, Crash
<1> QED
  BY <1>2, <1>3, <1>4, <1>5, <1>6, <1>7 DEF Environment

LEMMA NextEffect == TypeOK /\ [Next]_vars => Effect
<1> SUFFICES ASSUME TypeOK, [Next]_vars PROVE Effect
  OBVIOUS
<1>1. CASE UNCHANGED vars
  BY <1>1, SameReqsQuiet, SameL1, SameL2, SamePending DEF vars, Effect
<1> QED BY <1>1, StepEffect, EnvironmentEffect DEF Next

-----------------------------------------------------------------------------
(* The invariant *)

LEMMA Numbers ==
  ASSUME TypeOK, GhostTypeOK
  PROVE  /\ clock \in Nat
         /\ \A r \in Reqs : req[r].val \in Nat /\ req[r].key \in Keys
         /\ \A k \in Keys : l2[k] \in Nat /\ floorL2[k] \in Nat
         /\ \A s \in Servers, k \in Keys : l1[s][k] \in Nat /\ floorL1[s][k] \in Nat
         /\ \A c \in pending : c.val \in Nat /\ c.key \in Keys
<1>1. \A r \in Reqs : req[r] \in Request
  BY DEF TypeOK
<1>2. \A r \in Reqs : req[r].val \in Nat /\ req[r].key \in Keys
  BY <1>1 DEF Request
<1>3. \A c \in pending : c.val \in Nat /\ c.key \in Keys
  BY DEF TypeOK, Cmd
<1> QED BY <1>2, <1>3 DEF TypeOK, GhostTypeOK, Version

\* A write that runs alone is disturbed by nobody between its two steps.
LEMMA IsolatedInL1Preserved ==
  ASSUME TypeOK, GhostTypeOK, IsolatedInL1, Effect, IsoNext
  PROVE  IsolatedInL1'
<1> SUFFICES ASSUME NEW r \in Reqs, iso'[r]
             PROVE  /\ Alone(r)'
                    /\ At(r, "l2set")' \/ At(r, "l2del")' =>
                         l1'[Home[r]][req'[r].key] \in {Absent, req'[r].val}
  BY DEF IsolatedInL1
<1>1. Alone(r)' /\ (~Active(r) \/ iso[r])
  BY DEF IsoNext
<1>2. ASSUME At(r, "l2set")' \/ At(r, "l2del")'
      PROVE  l1'[Home[r]][req'[r].key] \in {Absent, req'[r].val}
  <2>1. /\ Active(r) /\ req'[r].key = KeyOf(r)
        /\ req'[r] = req[r] \/ l1'[Home[r]][KeyOf(r)] = req'[r].val
    BY <1>2 DEF Effect, WriteEffect, At
  <2>2. CASE l1'[Home[r]][KeyOf(r)] = req'[r].val
    BY <2>1, <2>2
  <2>3. CASE req'[r] = req[r]
    <3>1. iso[r] /\ Alone(r) /\ (At(r, "l2set") \/ At(r, "l2del"))
      BY <1>1, <1>2, <2>1, <2>3 DEF IsolatedInL1, At
    <3>2. l1[Home[r]][KeyOf(r)] \in {Absent, req[r].val}
      BY <3>1 DEF IsolatedInL1, KeyOf
    <3>3. Home[r] \in Servers /\ KeyOf(r) \in Keys
      BY Numbers, ManagerAssumption DEF KeyOf
    <3>4. \A q \in Reqs : KeyOf(q) = KeyOf(r) /\ Active(q) => q = r
      BY <3>1 DEF Alone, KeyOf
    <3>5. ~At(r, "fill") /\ ~At(r, "backfill") /\ ~At(r, "setl1")
      BY <3>1 DEF At
    <3>6. l1'[Home[r]][KeyOf(r)] \in {Absent, l1[Home[r]][KeyOf(r)]}
      BY <3>3, <3>4, <3>5 DEF Effect, L1Effect
    <3> QED BY <2>1, <2>3, <3>2, <3>6
  <2> QED BY <2>1, <2>2, <2>3
<1> QED BY <1>1, <1>2

\* A step that acknowledges no such write leaves nothing older anywhere.
LEMMA QuietStepSticks ==
  ASSUME ~ReadReplicas, TypeOK, GhostTypeOK, FloorsReached, IsolatedWritesStick,
         Effect, UNCHANGED <<floorL1, floorL2>>
  PROVE  FloorsReached' /\ IsolatedWritesStick'
<1>1. /\ clock \in Nat /\ (clock' = clock \/ clock' = clock + 1)
      /\ \A k \in Keys : floorL2[k] \in Nat /\ floorL2[k] <= clock + 1
      /\ \A s \in Servers, k \in Keys :
           floorL1[s][k] \in Nat /\ floorL1[s][k] <= floorL2[k]
  BY Numbers DEF FloorsReached, Effect
<1>2. FloorsReached'
  BY <1>1 DEF FloorsReached
<1>3. ASSUME NEW s \in Servers, NEW k \in Keys
      PROVE  NotOlder(l1'[s][k], floorL1[s][k])
  <2>1. CASE l1'[s][k] = l1[s][k] \/ l1'[s][k] = Absent
    BY <2>1 DEF IsolatedWritesStick, NotOlder
  <2>2. CASE clock' = clock + 1 /\ l1'[s][k] = clock + 1
    BY <1>1, <2>2 DEF NotOlder
  <2>3. ASSUME NEW q \in Reqs, KeyOf(q) = k, l1'[s][k] = req[q].val
        PROVE  NotOlder(l1'[s][k], floorL1[s][k])
    <3>1. NotOlder(req[q].val, floorL2[k])
      BY <2>3 DEF IsolatedWritesStick, KeyOf
    <3> QED BY <1>1, <2>3, <3>1, Numbers DEF NotOlder
  <2> QED BY <2>1, <2>2, <2>3 DEF Effect, L1Effect
<1>4. ASSUME NEW k \in Keys
      PROVE  NotOlder(l2'[k], floorL2[k])
  BY DEF Effect, L2Effect, IsolatedWritesStick, NotOlder, KeyOf
<1>5. ASSUME NEW c \in pending'
      PROVE  NotOlder(c.val, floorL2[c.key])
  <2>1. CASE c \in pending
    BY <2>1 DEF IsolatedWritesStick
  <2>2. ASSUME NEW q \in Reqs, c.key = KeyOf(q), c.val = req[q].val
        PROVE  NotOlder(c.val, floorL2[c.key])
    BY <2>2 DEF IsolatedWritesStick, KeyOf
  <2>3. CASE c.val = clock + 1 /\ c.key \in Keys
    BY <1>1, <2>3 DEF NotOlder
  <2> QED BY <2>1, <2>2, <2>3 DEF Effect, PendingEffect
<1>6. ASSUME NEW r \in Reqs
      PROVE  NotOlder(req'[r].val, floorL2[req'[r].key])
  <2>1. CASE req'[r].val = Absent
    BY <2>1 DEF NotOlder
  <2>2. CASE req'[r].key = KeyOf(r) /\ req'[r].val = req[r].val
    BY <2>2 DEF IsolatedWritesStick, KeyOf
  <2>3. CASE req'[r].key = KeyOf(r) /\ req'[r].val \in Readable(KeyOf(r))
    <3>1. req'[r].val = l2[KeyOf(r)] /\ KeyOf(r) \in Keys
      BY <2>3, Numbers DEF Readable, KeyOf
    <3> QED BY <2>3, <3>1 DEF IsolatedWritesStick
  <2>4. CASE req'[r].key = KeyOf(r) /\ req'[r].val = clock + 1
    BY <1>1, <2>4, Numbers DEF NotOlder, KeyOf
  <2> QED BY <2>1, <2>2, <2>3, <2>4 DEF Effect, ValEffect
<1> QED BY <1>2, <1>3, <1>4, <1>5, <1>6 DEF IsolatedWritesStick, NotOlder, Absent

\* The acknowledgement of a write that ran alone raises the floors.
LEMMA AckSticks ==
  ASSUME TypeOK, GhostTypeOK, FloorsReached, IsolatedInL1, IsolatedWritesStick,
         Effect, NEW r \in Reqs, Sticks(r),
         floorL1' = [floorL1 EXCEPT ![Home[r]][req[r].key] = NewFloor(r)],
         floorL2' = [floorL2 EXCEPT ![req[r].key] = NewFloor(r)]
  PROVE  FloorsReached' /\ IsolatedWritesStick' /\ GhostTypeOK!2' /\ GhostTypeOK!3'
<1> DEFINE h == Home[r]
           x == req[r].key
           F == NewFloor(r)
<1>1. /\ h \in Servers /\ x \in Keys /\ clock \in Nat /\ req[r].val \in Nat
      /\ Alone(r) /\ l1[h][x] \in {Absent, req[r].val}
  BY Numbers, ManagerAssumption DEF Sticks, IsolatedInL1
<1>2. PICK dup \in BOOLEAN : L2WriteOk(r, dup)
  BY DEF Sticks, Effect, AckEffect
<1>3. /\ req' = Finish({r}, FALSE) /\ clock' = clock /\ l1' = l1
      /\ l2' = [l2 EXCEPT ![x] = req[r].val]
      /\ pending' \subseteq pending \cup {CmdOf(r)}
  BY <1>2 DEF L2WriteOk
<1>4. /\ F \in Nat /\ F <= clock + 1 /\ floorL2[x] <= F
      /\ NotOlder(req[r].val, F)
  <2>1. /\ floorL2[x] \in Nat /\ floorL2[x] <= clock + 1
        /\ NotOlder(req[r].val, floorL2[x])
    BY <1>1, Numbers DEF FloorsReached, IsolatedWritesStick
  <2>2. CASE At(r, "l2set")
    <3>1. req[r].val # Absent /\ req[r].val <= clock
      BY <2>2 DEF TypeOK, Carrying, Version
    <3> QED BY <1>1, <2>1, <2>2, <3>1 DEF NewFloor, NotOlder
  <2>3. CASE At(r, "l2del")
    <3>1. ~At(r, "l2set") /\ req[r].val = Absent
      BY <2>3 DEF TypeOK, Carrying, At
    <3> QED BY <1>1, <2>1, <3>1 DEF NewFloor, NotOlder
  <2> QED BY <2>2, <2>3 DEF Sticks
<1> HIDE DEF F
<1>5. /\ floorL1 \in [Servers -> [Keys -> Nat]] /\ floorL2 \in [Keys -> Nat]
  BY DEF GhostTypeOK
<1>6. /\ floorL2' \in [Keys -> Nat] /\ floorL2'[x] = F
      /\ \A k \in Keys : k # x => floorL2'[k] = floorL2[k]
      /\ floorL1' \in [Servers -> [Keys -> Nat]] /\ floorL1'[h][x] = F
      /\ \A s \in Servers, k \in Keys :
           s # h \/ k # x => floorL1'[s][k] = floorL1[s][k]
  BY <1>1, <1>4, <1>5 DEF F
<1>7. FloorsReached'
  <2> SUFFICES ASSUME NEW k \in Keys
               PROVE  /\ floorL2'[k] <= clock' + 1
                      /\ \A s \in Servers : floorL1'[s][k] <= floorL2'[k]
    BY DEF FloorsReached
  <2>1. CASE k # x
    BY <2>1, <1>3, <1>6 DEF FloorsReached
  <2>2. CASE k = x
    <3>1. floorL2'[k] <= clock' + 1
      BY <2>2, <1>3, <1>4, <1>6
    <3>2. ASSUME NEW s \in Servers
          PROVE  floorL1'[s][k] <= floorL2'[k]
      <4>1. CASE s = h
        BY <4>1, <2>2, <1>4, <1>6
      <4>2. CASE s # h
        BY <4>2, <2>2, <1>1, <1>4, <1>5, <1>6 DEF FloorsReached
      <4> QED BY <4>1, <4>2
    <3> QED BY <3>1, <3>2
  <2> QED BY <2>1, <2>2
<1>8. ASSUME NEW s \in Servers, NEW k \in Keys
      PROVE  NotOlder(l1'[s][k], floorL1'[s][k])
  <2>1. CASE s = h /\ k = x
    BY <2>1, <1>1, <1>3, <1>4, <1>6 DEF NotOlder
  <2>2. CASE ~(s = h /\ k = x)
    BY <2>2, <1>3, <1>6 DEF IsolatedWritesStick
  <2> QED BY <2>1, <2>2
<1>9. ASSUME NEW k \in Keys
      PROVE  NotOlder(l2'[k], floorL2'[k])
  <2>1. l2 \in [Keys -> Version]
    BY DEF TypeOK
  <2>2. CASE k = x
    BY <2>1, <2>2, <1>1, <1>3, <1>4, <1>6
  <2>3. CASE k # x
    BY <2>1, <2>3, <1>3, <1>6 DEF IsolatedWritesStick
  <2> QED BY <2>2, <2>3
<1>10. ASSUME NEW c \in pending'
       PROVE  NotOlder(c.val, floorL2'[c.key])
  <2>1. CASE c \in pending
    <3>1. c.key \in Keys /\ c.key # x
      BY <2>1, <1>1, Numbers DEF Alone
    <3> QED BY <2>1, <3>1, <1>6 DEF IsolatedWritesStick
  <2>2. CASE c = CmdOf(r)
    BY <2>2, <1>4, <1>6 DEF CmdOf
  <2> QED BY <2>1, <2>2, <1>3
<1>11. ASSUME NEW q \in Reqs
       PROVE  NotOlder(req'[q].val, floorL2'[req'[q].key])
  <2> DEFINE R == {r}
  <2>1. req' = Finish(R, FALSE) /\ req \in [Reqs -> Request]
    BY <1>3 DEF TypeOK
  <2> HIDE DEF R
  <2>2. /\ \A p \in Reqs \ R : req'[p] = req[p]
        /\ \A p \in Reqs \cap R : req'[p].val = Absent
    BY <2>1, FinishFacts
  <2>3. CASE q = r
    BY <2>2, <2>3 DEF NotOlder, R
  <2>4. CASE q # r /\ req[q].key = x
    <3>1. ~Active(q)
      BY <2>4, <1>1 DEF Alone
    <3>2. req[q].val = Absent
      BY <3>1 DEF TypeOK, Carrying, At, Active
    <3> QED BY <2>2, <2>4, <3>2 DEF NotOlder, R
  <2>5. CASE q # r /\ req[q].key # x
    <3>1. req'[q] = req[q] /\ req[q].key \in Keys
      BY <2>2, <2>5, Numbers DEF R
    <3> QED BY <2>5, <3>1, <1>6 DEF IsolatedWritesStick
  <2> QED BY <2>3, <2>4, <2>5
<1>12. IsolatedWritesStick'
  BY <1>8, <1>9, <1>10, <1>11 DEF IsolatedWritesStick, NotOlder, Absent
<1> QED BY <1>6, <1>7, <1>12 DEF GhostTypeOK

LEMMA CNextPreserves ==
  ASSUME ~ReadReplicas, CInv, [CNext]_cvars
  PROVE  CInv'
<1>1. TypeOK /\ GhostTypeOK /\ FloorsReached /\ IsolatedInL1 /\ IsolatedWritesStick
  BY DEF CInv
<1>2. CASE CNext
  <2>1. TypeOK' /\ Effect /\ IsoNext
    BY <1>1, <1>2, NextType, NextEffect DEF CNext
  <2>2. IsolatedInL1'
    BY <1>1, <2>1, IsolatedInL1Preserved
  <2>3. iso' \in [Reqs -> BOOLEAN]
    BY <2>1 DEF IsoNext
  <2>4. CASE UNCHANGED <<floorL1, floorL2>>
    <3>1. FloorsReached' /\ IsolatedWritesStick'
      BY <1>1, <2>1, <2>4, QuietStepSticks
    <3>2. GhostTypeOK'
      BY <1>1, <2>3, <2>4 DEF GhostTypeOK
    <3> QED BY <2>1, <2>2, <3>1, <3>2 DEF CInv
  <2>5. ASSUME NEW r \in Reqs, Sticks(r),
               floorL1' = [floorL1 EXCEPT ![Home[r]][req[r].key] = NewFloor(r)],
               floorL2' = [floorL2 EXCEPT ![req[r].key] = NewFloor(r)]
        PROVE  CInv'
    <3>1. FloorsReached' /\ IsolatedWritesStick' /\ GhostTypeOK!2' /\ GhostTypeOK!3'
      BY <1>1, <2>1, <2>5, AckSticks
    <3>2. GhostTypeOK'
      BY <2>3, <3>1 DEF GhostTypeOK
    <3> QED BY <2>1, <2>2, <3>1, <3>2 DEF CInv
  <2> QED BY <1>2, <2>4, <2>5 DEF CNext, FloorNext
<1>3. CASE UNCHANGED cvars
  <2>1. UNCHANGED vars
    BY <1>3 DEF cvars, vars
  <2>2. TypeOK'
    BY <1>1, <2>1, NextType
  <2> QED BY <1>1, <1>3, <2>2
    DEF cvars, CInv, GhostTypeOK, FloorsReached, IsolatedInL1, Alone, At, Active,
        IsolatedWritesStick, NotOlder
<1> QED BY <1>2, <1>3

LEMMA CInitCInv == CInit => CInv
<1> SUFFICES ASSUME CInit PROVE CInv
  OBVIOUS
<1>1. TypeOK
  BY InitType DEF CInit
<1>2. GhostTypeOK /\ FloorsReached /\ IsolatedInL1
  BY DEF CInit, Init, GhostTypeOK, FloorsReached, IsolatedInL1
<1>3. IsolatedWritesStick
  BY <1>1, <1>2, Numbers DEF CInit, Init, IsolatedWritesStick, NotOlder
<1> QED BY <1>1, <1>2, <1>3 DEF CInv

\* Reading from masters, a Set or Invalidate that ran alone on its key and was
\* acknowledged is final: whatever fills, back-populations, timeouts, retries
\* and crashes follow, on any number of servers, nothing older comes back to
\* that server or to Redis.
THEOREM AloneWritesStick ==
  ASSUME ~ReadReplicas
  PROVE  CSpec => []IsolatedWritesStick
<1>1. CInit => CInv
  BY CInitCInv
<1>2. CInv /\ [CNext]_cvars => CInv'
  BY CNextPreserves
<1>3. CInv => IsolatedWritesStick
  BY DEF CInv
<1> QED BY <1>1, <1>2, <1>3, PTL DEF CSpec
=============================================================================
