------------------------------ MODULE KeyRing ------------------------------
(***************************************************************************)
(* What brainhub owes the keys it has GBrain make, whether for a reader, a *)
(* brain's writer or a user: a key is in the hands of the request that     *)
(* made it until a row names it, it is lost to a failure or to the         *)
(* deletion of that row and never just forgotten, what is lost is not      *)
(* found again, and a revoked key stays revoked.  Access, ReaderScope and  *)
(* BrainLifecycle implement it, each for its own rows.                     *)
(***************************************************************************)
CONSTANT Keys   \* the ids GBrain may hand out

VARIABLE ring   \* what has become of each

TypeOK == ring \in [Keys -> {"unmade", "held", "named", "lost", "dead"}]

Init == ring = [k \in Keys |-> "unmade"]

Move(k, from, to) ==
  /\ ring[k] \in from
  /\ ring' = [ring EXCEPT ![k] = to]

\* RegisterClient; and when its answer does not arrive.
Make(k)  == Move(k, {"unmade"}, "held")
Stray(k) == Move(k, {"unmade"}, "lost")

\* The id is recorded, of a key in use or of an orphan.
Name(k) == Move(k, {"held"}, "named")

\* The request or the row that had a key is gone, or those of several at once.
Lose(S) ==
  /\ \A k \in S : ring[k] \in {"held", "named"}
  /\ ring' = [k \in Keys |-> IF k \in S THEN "lost" ELSE ring[k]]

\* RevokeClient, by whoever knows the id.
Revoke(k) == Move(k, {"held", "named", "lost"}, "dead")

Next ==
  \/ \E k \in Keys : Make(k) \/ Stray(k) \/ Name(k) \/ Revoke(k)
  \/ \E S \in SUBSET Keys : Lose(S)

Spec == Init /\ [][Next]_ring
=============================================================================
