------------------------------ MODULE MCBinary ------------------------------
(* Instances of BinaryCoherence for TLC. *)
EXTENDS BinaryCoherence, TLC

CONSTANTS r1, r2, A, B, k1

\* the requests share a server, or have one each
PairHome == (r1 :> A) @@ (r2 :> A)
SplitHome == (r1 :> A) @@ (r2 :> B)
=============================================================================
