----------------------------- MODULE MCUpstream -----------------------------
(* Upstream on a small instance.  The properties include liveness, so no   *)
(* symmetry is used.                                                       *)
EXTENDS Upstream
=============================================================================
