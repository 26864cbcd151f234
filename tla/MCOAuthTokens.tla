--------------------------- MODULE MCOAuthTokens ---------------------------
(* OAuthTokens on a small instance: the values are in the cfg file.        *)
EXTENDS OAuthTokens, TLC

\* Users, codes, pairs, CLI tokens and request slots are interchangeable.
Symmetry == Permutations(Users) \union Permutations(Codes) \union Permutations(Pairs)
            \union Permutations(Calls)
=============================================================================
