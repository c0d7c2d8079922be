-------------------------- MODULE ManagerCoherence --------------------------
(***************************************************************************)
(* What a client may rely on after Manager.Set or Manager.Invalidate has   *)
(* returned without error.  History variables, which change nothing of     *)
(* Manager, note which writes ran alone and how old a value may still be.  *)
(***************************************************************************)
EXTENDS Manager

VARIABLES
  iso,      \* iso[r]: r has been alone on its key since it started
  floorL1,  \* floorL1[s][k]: server s must hold nothing older for k
  floorL2   \* floorL2[k]: Redis, and whatever may reach it, likewise

cvars == <<l1, l2, rep, pending, clock, req, live, flight, iso, floorL1, floorL2>>

\* no other request works on r's key, and nothing on it is on its way to Redis
Alone(r) ==
  /\ \A q \in Reqs \ {r} : Active(q) => req[q].key # req[r].key
  /\ \A c \in pending : c.key # req[r].key

\* r, a Set or an Invalidate that ran alone, returns without error in this step
Sticks(r) ==
  /\ iso[r]
  /\ At(r, "l2set") \/ At(r, "l2del")
  /\ req'[r].pc = "idle" /\ ~req'[r].err

\* the oldest version that may be seen once r has returned: the one r set, or
\* one created after r's deletion
NewFloor(r) == IF At(r, "l2set") THEN req[r].val ELSE clock + 1

CInit ==
  /\ Init
  /\ iso = [r \in Reqs |-> FALSE]
  /\ floorL1 = [s \in Servers |-> [k \in Keys |-> 0]]
  /\ floorL2 = [k \in Keys |-> 0]

IsoNext ==
  iso' = [r \in Reqs |-> Active(r)' /\ (~Active(r) \/ iso[r]) /\ Alone(r)']

FloorNext ==
  \/ \E r \in Reqs :
       /\ Sticks(r)
       /\ floorL1' = [floorL1 EXCEPT ![Home[r]][req[r].key] = NewFloor(r)]
       /\ floorL2' = [floorL2 EXCEPT ![req[r].key] = NewFloor(r)]
  \/ /\ \A r \in Reqs : ~Sticks(r)
     /\ UNCHANGED <<floorL1, floorL2>>

CNext == Next /\ IsoNext /\ FloorNext

CSpec == CInit /\ [][CNext]_cvars

\* v is not older than floor; an absent value is not old
NotOlder(v, floor) == v = Absent \/ v >= floor

\* After a Set or an Invalidate that ran alone on its key has returned without
\* error, no older version is left in the server's L1, in Redis, in a command
\* on its way to Redis or in the hands of any request of any server, whatever
\* runs afterwards: fills, back-populations, timeouts, retries, crashes.
IsolatedWritesStick ==
  /\ \A s \in Servers, k \in Keys : NotOlder(l1[s][k], floorL1[s][k])
  /\ \A k \in Keys : NotOlder(l2[k], floorL2[k])
  /\ \A c \in pending : NotOlder(c.val, floorL2[c.key])
  /\ \A r \in Reqs : NotOlder(req[r].val, floorL2[req[r].key])

-----------------------------------------------------------------------------
(* The rest of the inductive invariant *)

GhostTypeOK ==
  /\ iso \in [Reqs -> BOOLEAN]
  /\ floorL1 \in [Servers -> [Keys -> Nat]]
  /\ floorL2 \in [Keys -> Nat]

\* A version not created yet is newer than every floor.
FloorsReached ==
  \A k \in Keys : /\ floorL2[k] <= clock + 1
                  /\ \A s \in Servers : floorL1[s][k] <= floorL2[k]

\* While it runs alone, a write finds in L1 what it put there.
IsolatedInL1 ==
  \A r \in Reqs : iso[r] =>
    /\ Alone(r)
    /\ At(r, "l2set") \/ At(r, "l2del") =>
         l1[Home[r]][req[r].key] \in {Absent, req[r].val}

CInv == TypeOK /\ GhostTypeOK /\ FloorsReached /\ IsolatedInL1 /\ IsolatedWritesStick
=============================================================================
