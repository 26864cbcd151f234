------------------------------ MODULE MCAccess ------------------------------
(* Access on a small instance: the values are in the cfg files.            *)
EXTENDS Access, TLC

\* Every kind of invitation; open ones for editors and readers only.
AnyOffer  == [role : Role, email : Users \union {None}]
OpenOffer == {[role |-> "other", email |-> None]}

\* Everyone but the founder, apart or within Early, the invitations, the rows
\* and the request slots are interchangeable.
Symmetry == Permutations(Users \ ({Founder} \union Early))
            \union Permutations(Early) \union Permutations(Invs)
            \union Permutations(Clients) \union Permutations(Calls)
=============================================================================
