--------------------------- MODULE MCReaderScope ---------------------------
(* ReaderScope on a small instance: the values are in the cfg files.       *)
EXTENDS ReaderScope, TLC

\* Request slots and GBrain ids are interchangeable, and so are the sources
\* of one visibility.
Symmetry == Permutations(Calls) \union Permutations(Ids)
            \union Permutations(Public) \union Permutations(Sources \ Public)
=============================================================================
