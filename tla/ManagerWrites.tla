--------------------------- MODULE ManagerWrites ---------------------------
(***************************************************************************)
(* What the comment of internal/cache/manager.go says of Invalidate, and   *)
(* what becomes of it when a Get runs beside it.  Histories, which change  *)
(* nothing of Manager, note when a request began and whether a Set has run *)
(* meanwhile.                                                              *)
(***************************************************************************)
EXTENDS Manager

VARIABLES
  began,  \* began[r]: the last version created when r started
  raced   \* raced[r]: a Set of r's key has been running since r started

wvars == <<l1, l2, rep, pending, clock, req, live, flight, began, raced>>

\* r, an Invalidate, returns without error in this step
Acked(r) ==
  /\ req[r].op = "inval" /\ Active(r)
  /\ req'[r].pc = "idle" /\ ~req'[r].err

SetBeside(r) ==
  \E q \in Reqs \ {r} : Active(q) /\ req[q].op = "set" /\ req[q].key = req[r].key

WInit ==
  /\ Init
  /\ began = [r \in Reqs |-> clock]
  /\ raced = [r \in Reqs |-> FALSE]

Note ==
  /\ began' = [r \in Reqs |-> IF Active(r) THEN began[r] ELSE clock']
  /\ raced' = [r \in Reqs |-> SetBeside(r)' \/ (Active(r) /\ raced[r])]

WNext == Next /\ Note

WSpec == WInit /\ [][WNext]_wvars

-----------------------------------------------------------------------------
\* manager.go:129 "Invalidate removes a key from both cache layers": when it
\* returns without error, and no Set of the key has been running since it
\* started, its server's L1 holds nothing that was created before it started.
InvalidateRemovesBoth ==
  [][\A r \in Reqs :
       Acked(r) /\ ~raced[r]
       => l1'[Home[r]][req[r].key] \notin 1 .. began[r]]_wvars

=============================================================================
