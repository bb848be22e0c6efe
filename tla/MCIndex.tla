------------------------------ MODULE MCIndex ------------------------------
(* Two runs of the sensor with a connection each. *)
EXTENDS Index
CONSTANTS c1, c2
TwoRuns == [c \in Conns |-> IF c = c1 THEN 1 ELSE 2]
=============================================================================
