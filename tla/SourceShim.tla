----------------------------- MODULE SourceShim -----------------------------
(***************************************************************************)
(* The source shim's handling of one source id (api/shim/main.go,          *)
(* api/adapter/gbrain/source_cli.go, shim_client.go).                      *)
(*                                                                         *)
(* A request makes the directory, which only one can, fills it with a git  *)
(* repository, and registers it with `gbrain sources add'.  If anything    *)
(* fails it removes the directory again.  The shim keeps no state of its   *)
(* own; what counts is on the disk and in GBrain.                          *)
(*                                                                         *)
(* A command fails when it exits with an error, is killed at its deadline  *)
(* or because the client has hung up, or cannot be written to the audit    *)
(* log; the command that registers may have done so all the same.          *)
(***************************************************************************)
CONSTANT Calls   \* requests for the id, of one life of its directory or more

VARIABLES
  dir,     \* /brains/<id>: none, begun, or a repository with its first commit
  reg,     \* GBrain's source list has the id (external)
  pc,      \* the handlers
  told,    \* what ShimClient.Provision has returned to its caller
  unsure,  \* history: a registration took effect and was reported as failed,
           \*   or the id was GBrain's from elsewhere to begin with
  left     \* history: a directory was not removed: the removal failed, or the
           \*   shim stopped

vars == <<dir, reg, pc, told, unsure, left>>

-----------------------------------------------------------------------------
\* Between its Mkdir and the end of create.
InHand == {"init", "add", "undo", "undoTaken"}

\* At most one request has the directory in hand.
TypeOK ==
  /\ dir \in {"none", "begun", "repo"}
  /\ reg \in BOOLEAN
  /\ pc \in [Calls -> {"idle", "mkdir", "created"} \union InHand]
  /\ told \in [Calls -> {"nothing", "created", "conflict", "failed", "lost"}]
  /\ unsure \in BOOLEAN /\ left \in BOOLEAN
  /\ \A p, q \in Calls : pc[p] \in InHand /\ pc[q] \in InHand => p = q

\* A new id, a brain that is there, or a source GBrain keeps somewhere else.
Init ==
  /\ \/ dir = "none" /\ reg = FALSE /\ unsure = FALSE
     \/ dir = "repo" /\ reg = TRUE /\ unsure = FALSE
     \/ dir = "none" /\ reg = TRUE /\ unsure = TRUE
  /\ pc = [p \in Calls |-> "idle"]
  /\ told = [p \in Calls |-> "nothing"]
  /\ left = FALSE

Goto(p, l) == pc' = [pc EXCEPT ![p] = l]

\* The answer reaches the caller, unless it has hung up.
Reply(p, answer) ==
  /\ Goto(p, "idle")
  /\ told' = IF told[p] = "lost" THEN told ELSE [told EXCEPT ![p] = answer]

-----------------------------------------------------------------------------
\* ShimClient.Provision, and the handler's checks.
Receive(p) ==
  /\ pc[p] = "idle"
  /\ Goto(p, "mkdir")
  /\ told' = [told EXCEPT ![p] = "nothing"]
  /\ UNCHANGED <<dir, reg, unsure, left>>

\* The caller's deadline passes or it goes away; the handler's context is
\* cancelled, so that the command it is at, or the next, is likely to fail.
HangUp(p) ==
  /\ pc[p] # "idle" /\ told[p] = "nothing"
  /\ told' = [told EXCEPT ![p] = "lost"]
  /\ UNCHANGED <<dir, reg, pc, unsure, left>>

\* MkdirAll: a directory that exists is not an error.
Mutant_Mkdir(p) ==
  /\ pc[p] = "mkdir"
  /\ dir' = IF dir = "none" THEN "begun" ELSE dir
  /\ Goto(p, "init")
  /\ UNCHANGED <<reg, told, unsure, left>>

Mkdir(p) ==
  /\ pc[p] = "mkdir" /\ dir = "none"
  /\ dir' = "begun"
  /\ Goto(p, "init")
  /\ UNCHANGED <<reg, told, unsure, left>>

MkdirRefused(p) ==
  /\ pc[p] = "mkdir"
  /\ \/ dir # "none" /\ Reply(p, "conflict")
     \/ Reply(p, "failed")
  /\ UNCHANGED <<dir, reg, unsure, left>>

\* README.md, git init, add and commit.
GitInit(p) ==
  /\ pc[p] = "init"
  /\ dir' = "repo"
  /\ Goto(p, "add")
  /\ UNCHANGED <<reg, told, unsure, left>>

GitFails(p) ==
  /\ pc[p] = "init"
  /\ Goto(p, "undo")
  /\ UNCHANGED <<dir, reg, told, unsure, left>>

\* AddLocalSource.
Added(p) ==
  /\ pc[p] = "add" /\ ~reg
  /\ reg' = TRUE
  /\ Goto(p, "created")
  /\ UNCHANGED <<dir, told, unsure, left>>

\* "is already registered."
AddRefused(p) ==
  /\ pc[p] = "add" /\ reg
  /\ Goto(p, "undoTaken")
  /\ UNCHANGED <<dir, reg, told, unsure, left>>

AddFails(p) ==
  /\ pc[p] = "add"
  /\ \/ UNCHANGED <<reg, unsure>>
     \/ ~reg /\ reg' = TRUE /\ unsure' = TRUE
  /\ Goto(p, "undo")
  /\ UNCHANGED <<dir, told, left>>

\* The handler answers 201 and `created' is false for the deferred clean-up.
Created(p) ==
  /\ pc[p] = "created"
  /\ Reply(p, "created")
  /\ UNCHANGED <<dir, reg, unsure, left>>

\* create's err is shadowed: the deferred function sees none.
Mutant_Undo(p) ==
  /\ pc[p] \in {"undo", "undoTaken"}
  /\ Reply(p, IF pc[p] = "undo" THEN "failed" ELSE "conflict")
  /\ UNCHANGED <<dir, reg, unsure, left>>

\* The deferred os.RemoveAll, and the answer.
Undo(p) ==
  /\ pc[p] \in {"undo", "undoTaken"}
  /\ dir' = "none"
  /\ Reply(p, IF pc[p] = "undo" THEN "failed" ELSE "conflict")
  /\ UNCHANGED <<reg, unsure, left>>

\* Its error is only logged.
UndoFails(p) ==
  /\ pc[p] \in {"undo", "undoTaken"}
  /\ dir' \in {"begun", dir}
  /\ left' = TRUE
  /\ Reply(p, IF pc[p] = "undo" THEN "failed" ELSE "conflict")
  /\ UNCHANGED <<reg, unsure>>

\* The shim is killed: no clean-up runs.
Stop ==
  /\ \E p \in Calls : pc[p] # "idle"
  /\ left' = (left \/ \E p \in Calls : pc[p] \in InHand)
  /\ told' = [p \in Calls |-> IF pc[p] # "idle" /\ told[p] = "nothing" THEN "lost"
                              ELSE told[p]]
  /\ pc' = [p \in Calls |-> "idle"]
  /\ UNCHANGED <<dir, reg, unsure>>

-----------------------------------------------------------------------------
Handler(p) ==
  \/ Receive(p) \/ HangUp(p) \/ Mkdir(p) \/ MkdirRefused(p) \/ GitInit(p) \/ GitFails(p)
  \/ Added(p) \/ AddRefused(p) \/ AddFails(p) \/ Created(p) \/ Undo(p) \/ UndoFails(p)

Next == Stop \/ \E p \in Calls : Handler(p)

Spec == Init /\ [][Next]_vars

-----------------------------------------------------------------------------
(* Properties.                                                             *)

\* A source that was answered 201, or is about to be, keeps its repository
\* and its registration: no request that fails beside it or after it removes
\* what it has not made (create, 115-149).
CreatedIsComplete ==
  \A p \in Calls :
    told[p] = "created" \/ pc[p] = "created" => dir = "repo" /\ reg

\* While no request is under way the source exists in both places or in
\* neither, and a failed creation can be tried again, except when a
\* registration was reported as failed or a directory could not be removed.
AllOrNothing ==
  (\A p \in Calls : pc[p] \notin InHand) /\ ~unsure /\ ~left =>
    (dir = "repo" /\ reg) \/ (dir = "none" /\ ~reg)

-----------------------------------------------------------------------------
(* What the properties rest on.                                            *)

\* Who has the directory in hand knows how far it is; nobody has it once a
\* source has been created.
HandInv ==
  /\ \A p \in Calls : /\ pc[p] \in InHand => dir # "none"
                      /\ pc[p] = "add" => dir = "repo"
  /\ \A p, q \in Calls :
       told[p] = "created" \/ pc[p] = "created" => pc[q] \notin InHand

\* Until it is created, a source that is being made is in no list.
ListInv ==
  (\E p \in Calls : pc[p] \in InHand) /\ ~unsure /\ ~left => ~reg

Inv == TypeOK /\ HandInv /\ ListInv /\ CreatedIsComplete /\ AllOrNothing
=============================================================================
