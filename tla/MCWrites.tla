------------------------------ MODULE MCWrites ------------------------------
(* Instances of ManagerWrites for TLC: two requests on one server. *)
EXTENDS ManagerWrites, TLC

CONSTANTS r1, r2, A, k1

PairHome == (r1 :> A) @@ (r2 :> A)
=============================================================================
