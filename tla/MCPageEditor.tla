---------------------------- MODULE MCPageEditor ----------------------------
(* PageEditor on a small instance: the values are in the cfg file.         *)
EXTENDS PageEditor, TLC

\* Pages, entries and request slots are interchangeable.
Symmetry == Permutations(Slugs) \union Permutations(Still) \union Permutations(Entries) \union Permutations(Calls)
=============================================================================
