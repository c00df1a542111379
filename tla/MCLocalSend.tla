---------------------------- MODULE MCLocalSend ----------------------------
(* Small instance of LocalSend for TLC. *)
EXTENDS LocalSend

CONSTANTS r1, r2, r3, f1, f2, f3

=============================================================================
