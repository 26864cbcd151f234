----------------------------- MODULE RemoteCall -----------------------------
(***************************************************************************)
(* What a caller inside brainhub may assume of one call to GBrain: it      *)
(* takes effect at most once, a success means that it has, and a failure   *)
(* means nothing: it may have taken effect or not.  The other modules take *)
(* every call they make to behave like this; Upstream implements it.       *)
(***************************************************************************)
EXTENDS Naturals

CONSTANT Calls   \* slots for concurrent calls

VARIABLES
  phase,   \* what the caller knows
  effect   \* how often its last call has been executed by GBrain

TypeOK ==
  /\ phase \in [Calls -> {"idle", "open", "ok", "failed"}]
  /\ effect \in [Calls -> {0, 1}]

Init ==
  /\ phase = [p \in Calls |-> "idle"]
  /\ effect = [p \in Calls |-> 0]

Start(p) ==
  /\ phase[p] # "open"
  /\ phase' = [phase EXCEPT ![p] = "open"]
  /\ effect' = [effect EXCEPT ![p] = 0]

TakeEffect(p) ==
  /\ phase[p] = "open" /\ effect[p] = 0
  /\ effect' = [effect EXCEPT ![p] = 1]
  /\ UNCHANGED phase

Succeed(p) ==
  /\ phase[p] = "open" /\ effect[p] = 1
  /\ phase' = [phase EXCEPT ![p] = "ok"]
  /\ UNCHANGED effect

\* One call fails, or several at once when their process stops.
Fail(S) ==
  /\ \A p \in S : phase[p] = "open"
  /\ phase' = [p \in Calls |-> IF p \in S THEN "failed" ELSE phase[p]]
  /\ UNCHANGED effect

Next ==
  \/ \E p \in Calls : Start(p) \/ TakeEffect(p) \/ Succeed(p)
  \/ \E S \in SUBSET Calls : Fail(S)

Spec == Init /\ [][Next]_<<phase, effect>>
=============================================================================
