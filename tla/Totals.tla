------------------------------- MODULE Totals -------------------------------
(***************************************************************************)
(* The sum of a sequence of numbers, as the recursive function it is: the  *)
(* provers can expand it, and SequenceLemmas.tla says what it computes.    *)
(***************************************************************************)
EXTENDS Integers, Sequences

Total(sizes) ==
  LET upTo[n \in 0..Len(sizes)] == IF n = 0 THEN 0 ELSE upTo[n - 1] + sizes[n]
  IN  upTo[Len(sizes)]
=============================================================================
