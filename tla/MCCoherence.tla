---------------------------- MODULE MCCoherence ----------------------------
(* Instances of ManagerCoherence for TLC: two requests, on one server or two. *)
EXTENDS ManagerCoherence, TLC

CONSTANTS r1, r2, A, B, k1

PairHome == (r1 :> A) @@ (r2 :> A)
SplitHome == (r1 :> A) @@ (r2 :> B)
=============================================================================
