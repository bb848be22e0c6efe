--------------------------- MODULE MCEventWriter ---------------------------
(* Two handlers and the closer: files of one to three lines, lines of one  *)
(* and two units, and an event that cannot be cut to size.                 *)
EXTENDS EventWriter
CONSTANTS c1, c2
=============================================================================
