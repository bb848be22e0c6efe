------------------------------ MODULE MCServe ------------------------------
(* One or two services, and two connections for them. *)
EXTENDS Serve
CONSTANTS a, b, c1, c2

TwoHomes == [c \in {c1, c2} |-> IF c = c1 THEN a ELSE b]
OneHome == [c \in {c1, c2} |-> a]
=============================================================================
