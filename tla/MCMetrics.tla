----------------------------- MODULE MCMetrics -----------------------------
(* An instance of Metrics for TLC. *)
EXTENDS Metrics, TLC

CONSTANTS r1, r2, k1

Alike == Permutations({r1, r2})
=============================================================================
