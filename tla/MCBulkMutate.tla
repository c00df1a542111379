---------------------------- MODULE MCBulkMutate ----------------------------
(* Small instances of BulkMutate for TLC. *)
EXTENDS BulkMutate, TLC

CONSTANTS s1, s2, t1, t2

TempSymmetry == Permutations({t1, t2})
=============================================================================
