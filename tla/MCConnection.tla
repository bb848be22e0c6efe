---------------------------- MODULE MCConnection ----------------------------
(* Instances of Connection for TLC: the constants are given in the cfgs.   *)
EXTENDS Connection
=============================================================================
