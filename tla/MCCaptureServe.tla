---------------------------- MODULE MCCaptureServe ----------------------------
(* Small instances of CaptureServe for TLC. *)
EXTENDS CaptureServe
=============================================================================
