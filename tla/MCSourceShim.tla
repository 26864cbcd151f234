---------------------------- MODULE MCSourceShim ----------------------------
(* SourceShim on a small instance: the values are in the cfg file.         *)
EXTENDS SourceShim, TLC

\* The requests are interchangeable.
Symmetry == Permutations(Calls)
=============================================================================
