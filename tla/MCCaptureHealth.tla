-------------------------- MODULE MCCaptureHealth --------------------------
(* Two clients of the health socket. *)
EXTENDS CaptureHealth
CONSTANTS c1, c2
=============================================================================
