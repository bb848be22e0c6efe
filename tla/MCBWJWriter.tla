---------------------------- MODULE MCBWJWriter ----------------------------
(* Two handlers and the closer on small files: rotation after every few    *)
(* units, data that needs one, two or three records.                       *)
EXTENDS BWJWriter
CONSTANTS c1, c2
=============================================================================
