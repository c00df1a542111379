---------------------------- MODULE MCNodeCache ----------------------------
(* Small instances of NodeCache for TLC. *)
EXTENDS NodeCache

CONSTANTS r1, r2, u1, u2

=============================================================================
