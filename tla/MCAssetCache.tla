---------------------------- MODULE MCAssetCache ----------------------------
(* An instance of AssetCache for TLC. *)
EXTENDS AssetCache, TLC

CONSTANTS a, b, c

Symmetry == Permutations({a, b, c})
=============================================================================
