-------------------------- MODULE MCBrainLifecycle --------------------------
(* BrainLifecycle on a small instance: the values are in the cfg files.    *)
EXTENDS BrainLifecycle, TLC

\* Brain rows, request slots and GBrain ids are interchangeable.
Symmetry == Permutations(Brains) \union Permutations(Calls) \union Permutations(Ids)
=============================================================================
