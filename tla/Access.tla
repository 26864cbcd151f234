------------------------------- MODULE Access -------------------------------
(***************************************************************************)
(* Invitations, memberships and issued GBrain clients of one brain         *)
(* (api/usecase/interactor/access.go, api/adapter/database/repository/     *)
(* access.go).                                                             *)
(*                                                                         *)
(* Nothing but Postgres orders the requests of this use case: a request    *)
(* checks its rights in one statement and acts on them in later ones, and  *)
(* between two statements it calls GBrain, where the keys live.  Each      *)
(* statement, transaction and GBrain call is a step; reads that follow one *)
(* another with nothing between them are one step.  A statement may fail,  *)
(* a call to GBrain may fail with or without its effect, and the process   *)
(* may stop between two steps.  A request that is refused by its first     *)
(* check changes nothing and is left out.                                  *)
(***************************************************************************)
EXTENDS FiniteSets

CONSTANTS
  Users, Founder,   \* Founder: brains.owner_id, the first owner
  Early,            \* users who have joined before the model starts
  Invs,             \* invitations that may be made: a bound
  Clients,          \* rows of issued_clients that may be made: a bound
  Calls,            \* slots for concurrent requests
  Offers,           \* the roles and addressees invitations are made for
  None

ASSUME FounderAssumption == Founder \in Users
ASSUME EarlyAssumption == Early \subseteq Users \ {Founder}
ASSUME OffersAssumption ==
  Offers \subseteq [role : {"owner", "other"}, email : Users \union {None}]
ASSUME DisjointAssumption ==
  /\ Users \intersect Clients = {} /\ Users \intersect Invs = {}
  /\ Clients \intersect Invs = {}
  /\ None \notin Users \union Clients \union Invs

VARIABLES
  brain,    \* brains.state; "live": ready or degraded
  member,   \* memberships, by user; via: the invitation it came from (history)
  inv,      \* invitations; fresh: expires_at is in the future
  client,   \* issued_clients; known: gbrain_client_id is not null
  gb,       \* the GBrain client made for a row (external)
  pc, job,  \* the requests
  lost,     \* history: keys whose id a failure or a deletion took away
  late,     \* history: keys being activated while their member was revoked
  dropped,  \* history: keys a member's revocation failed to reach
  crossed   \* history: a membership was revoked by one who had lost the right

vars == <<brain, member, inv, client, gb, pc, job, lost, late, dropped,
          crossed>>
invited == <<member, inv>>
keys    == <<client, gb>>
ghosts  == <<lost, late, dropped, crossed>>

-----------------------------------------------------------------------------
Role == {"owner", "other"}   \* other: editor and reader

NoMember == [role |-> "none", revoked |-> FALSE, via |-> None]
Member   == {NoMember} \union
            [role : Role, revoked : BOOLEAN, via : Invs \union {None}]

NoInv == [state |-> "none", role |-> "other", email |-> None, fresh |-> TRUE, by |-> None]
Inv   == {NoInv} \union
         [state : {"pending", "revoked", "deleted"}, role : Role,
          email : Users \union {None}, fresh : BOOLEAN, by : {None}] \union
         [state : {"accepted", "deleted"}, role : Role,
          email : Users \union {None}, fresh : BOOLEAN, by : Users]

NoClient == [state |-> "none", user |-> None, known |-> FALSE]
Client   == {NoClient} \union
            [state : {"issuing", "revoked", "orphan", "deleted"}, user : Users,
             known : BOOLEAN] \union
            [state : {"active"}, user : Users, known : {TRUE}]

\* obj: the invitation, the user or the issued client at hand; key: the
\* request holds that client's GBrain id; failed: brain.State was failed when
\* read; err: a revocation of the loop failed; listed: the keys the loop is for
\* (history).
NoJob == [op |-> "none", user |-> None, obj |-> None, key |-> FALSE, todo |-> {},
          failed |-> FALSE, err |-> FALSE, listed |-> {}]
Op    == {"none", "invite", "withdraw", "accept", "issue", "revoke", "leave", "archive"}
Job   == [op : Op, user : Users \union {None},
          obj : Users \union Invs \union Clients \union {None}, key : BOOLEAN,
          todo : SUBSET Clients, failed : BOOLEAN, err : BOOLEAN, listed : SUBSET Clients]

Label == {"idle", "insert", "withdraw", "join", "issue", "register", "recheck",
          "activate", "revoke", "markRevoked", "markOrphan", "leave", "list",
          "next", "archive"}

TypeOK ==
  /\ brain \in {"provisioning", "live", "failed", "archived", "deleted"}
  /\ member \in [Users -> Member]
  /\ inv \in [Invs -> Inv]
  /\ client \in [Clients -> Client]
  /\ gb \in [Clients -> {"unused", "live", "revoked"}]
  /\ pc \in [Calls -> Label]
  /\ job \in [Calls -> Job]
  /\ lost \subseteq Clients /\ late \subseteq Clients /\ dropped \subseteq Clients
  /\ crossed \in BOOLEAN

\* The brain's records have been created (createRecords), and those of Early
\* have accepted an invitation since.
Init ==
  /\ brain = "provisioning"
  /\ member = [u \in Users |->
                 IF u \in {Founder} \union Early
                 THEN [role |-> IF u = Founder THEN "owner" ELSE "other",
                       revoked |-> FALSE, via |-> None]
                 ELSE NoMember]
  /\ inv = [i \in Invs |-> NoInv]
  /\ client = [c \in Clients |-> NoClient]
  /\ gb = [c \in Clients |-> "unused"]
  /\ pc = [p \in Calls |-> "idle"]
  /\ job = [p \in Calls |-> NoJob]
  /\ lost = {} /\ late = {} /\ dropped = {} /\ crossed = FALSE

-----------------------------------------------------------------------------
Active(u) == member[u] # NoMember /\ ~member[u].revoked

\* brainAndMembership: archived and deleted brains are not found.
Found == brain \notin {"archived", "deleted"}
IsMember(u) == Found /\ Active(u)
IsOwner(u) == IsMember(u) /\ member[u].role = "owner"

Obj(p) == job[p].obj
Row(p) == client[Obj(p)]

Begin(p, u, op, obj, l) ==
  /\ pc[p] = "idle"
  /\ pc' = [pc EXCEPT ![p] = l]
  /\ job' = [job EXCEPT ![p] = [NoJob EXCEPT !.op = op, !.user = u, !.obj = obj]]

Goto(p, l) == pc' = [pc EXCEPT ![p] = l]

Return(p) ==
  /\ pc' = [pc EXCEPT ![p] = "idle"]
  /\ job' = [job EXCEPT ![p] = NoJob]

\* TransitionBrain, as seen from here.
Settle ==
  /\ brain = "provisioning"
  /\ brain' \in {"live", "failed"}
  /\ UNCHANGED <<invited, keys, pc, job, ghosts>>

\* expires_at passes; it matters to nothing once the invitation is answered.
Expire(i) ==
  /\ inv[i].state = "pending" /\ inv[i].fresh
  /\ inv' = [inv EXCEPT ![i].fresh = FALSE]
  /\ UNCHANGED <<brain, member, keys, pc, job, ghosts>>

-----------------------------------------------------------------------------
(* CreateInvitation, RevokeInvitation, AcceptInvitation.                   *)

BeginInvite(p, u) ==
  /\ IsOwner(u)
  /\ Begin(p, u, "invite", None, "insert")
  /\ UNCHANGED <<brain, invited, keys, ghosts>>

\* The INSERT needs the brain's row (a foreign key), not its state.
Invite(p, i, o) ==
  /\ pc[p] = "insert" /\ inv[i].state = "none" /\ brain # "deleted"
  /\ inv' = [inv EXCEPT ![i] = [NoInv EXCEPT !.state = "pending", !.role = o.role,
                                             !.email = o.email]]
  /\ Return(p)
  /\ UNCHANGED <<brain, member, keys, ghosts>>

BeginWithdraw(p, u, i) ==
  /\ IsOwner(u) /\ inv[i].state = "pending" /\ inv[i].fresh
  /\ Begin(p, u, "withdraw", i, "withdraw")
  /\ UNCHANGED <<brain, invited, keys, ghosts>>

\* UPDATE ... WHERE state = 'pending'.
Mutant_Withdraw(p) ==
  /\ pc[p] = "withdraw" /\ inv[Obj(p)].state # "deleted"
  /\ inv' = [inv EXCEPT ![Obj(p)].state = "revoked"]
  /\ Return(p)
  /\ UNCHANGED <<brain, member, keys, ghosts>>

Withdraw(p) ==
  /\ pc[p] = "withdraw" /\ inv[Obj(p)].state = "pending"
  /\ inv' = [inv EXCEPT ![Obj(p)].state = "revoked"]
  /\ Return(p)
  /\ UNCHANGED <<brain, member, keys, ghosts>>

\* The clock is read and the invitation found acceptable; a membership of
\* this user, revoked or not, refuses it.  The brain's state is not read.
BeginAccept(p, u, i) ==
  /\ inv[i].state = "pending" /\ inv[i].fresh
  /\ inv[i].email \in {None, u} /\ member[u] = NoMember
  /\ Begin(p, u, "accept", i, "join")
  /\ UNCHANGED <<brain, invited, keys, ghosts>>

Mutant_Joined(p) ==
  /\ member' = [member EXCEPT ![job[p].user] = [role |-> inv[Obj(p)].role, revoked |-> FALSE,
                                                via |-> Obj(p)]]
  /\ inv' = [inv EXCEPT ![Obj(p)].state = "accepted"]
  /\ Return(p)
  /\ UNCHANGED <<brain, keys, ghosts>>

Joined(p) ==
  LET u == job[p].user  i == Obj(p) IN
  /\ member' = [member EXCEPT ![u] = [role |-> inv[i].role, revoked |-> FALSE, via |-> i]]
  /\ inv' = [inv EXCEPT ![i].state = "accepted", ![i].by = u]
  /\ Return(p)
  /\ UNCHANGED <<brain, keys, ghosts>>

\* The transaction commits: INSERT under UNIQUE (brain_id, user_id), and the
\* UPDATE ... WHERE state = 'pending' with the clock's value of BeginAccept.
Mutant_Join_Twice(p) ==
  /\ pc[p] = "join" /\ member[job[p].user] = NoMember /\ brain # "deleted"
  /\ Joined(p)

Mutant_Join_Again(p) ==
  /\ pc[p] = "join" /\ inv[Obj(p)].state = "pending" /\ brain # "deleted"
  /\ Joined(p)

Join(p) ==
  /\ pc[p] = "join" /\ inv[Obj(p)].state = "pending"
  /\ member[job[p].user] = NoMember /\ brain # "deleted"
  /\ Joined(p)

-----------------------------------------------------------------------------
(* IssueClient.                                                            *)

BeginIssue(p, u) ==
  /\ IsMember(u)
  /\ Begin(p, u, "issue", None, "issue")
  /\ UNCHANGED <<brain, invited, keys, ghosts>>

\* CreateIssuedClient: the row is committed before GBrain is called.
IssueRow(p, c) ==
  /\ pc[p] = "issue" /\ client[c].state = "none" /\ brain # "deleted"
  /\ client' = [client EXCEPT ![c] =
                  [state |-> "issuing", user |-> job[p].user, known |-> FALSE]]
  /\ job' = [job EXCEPT ![p].obj = c]
  /\ Goto(p, "register")
  /\ UNCHANGED <<brain, invited, gb, ghosts>>

Registered(p) ==
  /\ pc[p] = "register"
  /\ gb' = [gb EXCEPT ![Obj(p)] = "live"]
  /\ job' = [job EXCEPT ![p].key = TRUE]
  /\ Goto(p, "recheck")
  /\ UNCHANGED <<brain, invited, client, ghosts>>

\* An error, with a client behind it or without.
RegisterFails(p) ==
  /\ pc[p] = "register"
  /\ \/ UNCHANGED <<gb, lost>>
     \/ gb' = [gb EXCEPT ![Obj(p)] = "live"] /\ lost' = lost \union {Obj(p)}
  /\ Goto(p, "markOrphan")
  /\ UNCHANGED <<brain, invited, client, job, late, dropped, crossed>>

\* FindActiveMembership again; any error of it, too, leads to the
\* compensating revocation.
Mutant_Recheck(p) ==
  /\ pc[p] = "recheck"
  /\ Goto(p, "activate")
  /\ UNCHANGED <<brain, invited, keys, job, ghosts>>

Recheck(p) ==
  /\ pc[p] = "recheck"
  /\ \/ Active(job[p].user) /\ Goto(p, "activate")
     \/ Goto(p, "revoke")
  /\ UNCHANGED <<brain, invited, keys, job, ghosts>>

\* ActivateIssuedClient: WHERE state = 'issuing'.
Mutant_Activate(p) ==
  /\ pc[p] = "activate" /\ Row(p).state = "issuing"
  /\ client' = [client EXCEPT ![Obj(p)].state = "active"]
  /\ Return(p)
  /\ UNCHANGED <<brain, invited, gb, ghosts>>

Activate(p) ==
  /\ pc[p] = "activate" /\ Row(p).state = "issuing"
  /\ client' = [client EXCEPT ![Obj(p)].state = "active", ![Obj(p)].known = TRUE]
  /\ Return(p)
  /\ UNCHANGED <<brain, invited, gb, ghosts>>

ActivateFails(p) ==
  /\ pc[p] = "activate"
  /\ Goto(p, "markOrphan")
  /\ UNCHANGED <<brain, invited, keys, job, ghosts>>

-----------------------------------------------------------------------------
(* Revoking a key: RevokeClient, revokeClients and                         *)
(* revokeNewClientAfterMembershipLoss.                                     *)

BeginRevoke(p, u, c) ==
  /\ client[c].user = u /\ client[c].known
  /\ client[c].state \in {"issuing", "active", "orphan"}
  /\ pc[p] = "idle"
  /\ job' = [job EXCEPT ![p] = [NoJob EXCEPT !.op = "revoke", !.user = u, !.obj = c,
                                             !.key = TRUE]]
  /\ Goto(p, "revoke")
  /\ UNCHANGED <<brain, invited, keys, ghosts>>

Revoked(p) ==
  /\ pc[p] = "revoke"
  /\ gb' = [gb EXCEPT ![Obj(p)] = "revoked"]
  /\ Goto(p, "markRevoked")
  /\ UNCHANGED <<brain, invited, client, job, ghosts>>

Mutant_RevokeFails(p) ==
  /\ pc[p] = "revoke"
  /\ Goto(p, "markRevoked")
  /\ UNCHANGED <<brain, invited, keys, job, ghosts>>

RevokeFails(p) ==
  /\ pc[p] = "revoke"
  /\ UNCHANGED gb \/ gb' = [gb EXCEPT ![Obj(p)] = "revoked"]
  /\ Goto(p, "markOrphan")
  /\ UNCHANGED <<brain, invited, client, job, ghosts>>

\* A key is done: the loop of revokeClients goes on, and remembers failures.
Continue(p, e) ==
  IF job[p].op \in {"leave", "archive"}
  THEN /\ Goto(p, "next")
       /\ job' = [job EXCEPT ![p].obj = None, ![p].key = FALSE, ![p].err = @ \/ e]
  ELSE Return(p)

\* MarkIssuedClientRevoked and MarkIssuedClientOrphan: WHERE state <> 'revoked'.
Markable(p) == Row(p).state \in {"issuing", "active", "orphan"}

MarkedRevoked(p) ==
  /\ pc[p] = "markRevoked" /\ Markable(p)
  /\ client' = [client EXCEPT ![Obj(p)].state = "revoked"]
  /\ Continue(p, FALSE)
  /\ UNCHANGED <<brain, invited, gb, ghosts>>

MarkRevokedFails(p) ==
  /\ pc[p] = "markRevoked"
  /\ Continue(p, TRUE)
  /\ UNCHANGED <<brain, invited, keys, ghosts>>

\* COALESCE keeps a known id and records a new one; the failure that led here
\* is kept too.
Mutant_MarkedOrphan(p) ==
  /\ pc[p] = "markOrphan" /\ Markable(p)
  /\ client' = [client EXCEPT ![Obj(p)].state = "orphan",
                              ![Obj(p)].known = @ \/ job[p].key]
  /\ Continue(p, FALSE)
  /\ UNCHANGED <<brain, invited, gb, ghosts>>

MarkedOrphan(p) ==
  /\ pc[p] = "markOrphan" /\ Markable(p)
  /\ client' = [client EXCEPT ![Obj(p)].state = "orphan",
                              ![Obj(p)].known = @ \/ job[p].key]
  /\ Continue(p, TRUE)
  /\ UNCHANGED <<brain, invited, gb, ghosts>>

\* The live key p holds and no row names; the keys p was to revoke for a
\* member who has left.
Unrecorded(p) ==
  {c \in Clients : /\ c = Obj(p) /\ job[p].key
                   /\ gb[c] = "live" /\ ~client[c].known}

Owed(p) ==
  IF job[p].op # "leave" THEN {}
  ELSE IF pc[p] = "list" THEN {c \in Clients : client[c].user = Obj(p)}
  ELSE job[p].todo \union ({Obj(p)} \intersect Clients)

MarkOrphanFails(p) ==
  /\ pc[p] = "markOrphan"
  /\ lost' = lost \union Unrecorded(p)
  /\ dropped' = dropped \union (Owed(p) \intersect {Obj(p)})
  /\ Continue(p, TRUE)
  /\ UNCHANGED <<brain, invited, keys, late, crossed>>

-----------------------------------------------------------------------------
(* RevokeMembership and ArchiveBrain.                                      *)

Mutant_BeginLeave(p, u, t) ==
  /\ IsOwner(u) /\ Active(t)
  /\ Begin(p, u, "leave", t, "leave")
  /\ UNCHANGED <<brain, invited, keys, ghosts>>

BeginLeave(p, u, t) ==
  /\ IsOwner(u) /\ u # t /\ Active(t)
  /\ Begin(p, u, "leave", t, "leave")
  /\ UNCHANGED <<brain, invited, keys, ghosts>>

\* UPDATE memberships ... WHERE revoked_at IS NULL.
Leave(p) ==
  /\ pc[p] = "leave" /\ Active(Obj(p))
  /\ member' = [member EXCEPT ![Obj(p)].revoked = TRUE]
  /\ late' = late \union {c \in Clients : \E q \in Calls :
                            /\ pc[q] = "activate" /\ Obj(q) = c
                            /\ job[q].user = Obj(p)}
  /\ Goto(p, "list")
  /\ crossed' = (crossed \/ ~IsOwner(job[p].user))
  /\ UNCHANGED <<brain, inv, keys, job, lost, dropped>>

BeginArchive(p, u) ==
  /\ IsOwner(u) /\ pc[p] = "idle"
  /\ job' = [job EXCEPT ![p] = [NoJob EXCEPT !.op = "archive", !.user = u,
                                             !.failed = (brain = "failed")]]
  /\ Goto(p, "list")
  /\ UNCHANGED <<brain, invited, keys, ghosts>>

Revocable == {c \in Clients : client[c].known /\ client[c].state \in {"active", "orphan"}}

\* ListRevocableIssuedClientsByUserBrain, ...ByBrain.
List(p) ==
  LET found == {c \in Revocable : job[p].op = "leave" => client[c].user = Obj(p)} IN
  /\ pc[p] = "list"
  /\ job' = [job EXCEPT ![p].obj = None, ![p].todo = found, ![p].listed = found]
  /\ Goto(p, "next")
  /\ UNCHANGED <<brain, invited, keys, ghosts>>

\* revokeClients: one more key, or the end of the loop; an archive goes on
\* only if every key was revoked.
Pick(p, c) ==
  /\ pc[p] = "next" /\ c \in job[p].todo
  /\ job' = [job EXCEPT ![p].obj = c, ![p].key = TRUE, ![p].todo = @ \ {c}]
  /\ Goto(p, "revoke")
  /\ UNCHANGED <<brain, invited, keys, ghosts>>

LoopDone(p) ==
  /\ pc[p] = "next" /\ job[p].todo = {}
  /\ IF job[p].op = "archive" /\ ~job[p].err
     THEN Goto(p, "archive") /\ UNCHANGED job
     ELSE Return(p)
  /\ UNCHANGED <<brain, invited, keys, ghosts>>

\* The transaction of a brain read as not failed.
Archive(p) ==
  /\ pc[p] = "archive" /\ ~job[p].failed /\ Found
  /\ brain' = "archived"
  /\ inv' = [i \in Invs |-> IF inv[i].state = "pending"
                            THEN [inv[i] EXCEPT !.state = "revoked"] ELSE inv[i]]
  /\ Return(p)
  /\ UNCHANGED <<member, keys, ghosts>>

\* DeleteFailedBrain: the brain and everything that refers to it.
Delete(p) ==
  /\ pc[p] = "archive" /\ job[p].failed /\ brain = "failed"
  /\ brain' = "deleted"
  /\ member' = [u \in Users |-> NoMember]
  /\ inv' = [i \in Invs |-> IF inv[i].state = "none" THEN NoInv
                            ELSE [inv[i] EXCEPT !.state = "deleted"]]
  /\ client' = [c \in Clients |-> IF client[c].state = "none" THEN NoClient
                                  ELSE [client[c] EXCEPT !.state = "deleted"]]
  /\ lost' = lost \union {c \in Clients : gb[c] = "live"}
  /\ Return(p)
  /\ UNCHANGED <<gb, late, dropped, crossed>>

-----------------------------------------------------------------------------
\* A statement fails, or its WHERE clause finds nothing, where the request
\* then ends.
Fails(p) ==
  /\ pc[p] \in {"insert", "withdraw", "join", "issue", "leave", "list", "archive"}
  /\ dropped' = dropped \union (IF pc[p] = "list" THEN Owed(p) ELSE {})
  /\ Return(p)
  /\ UNCHANGED <<brain, invited, keys, lost, late, crossed>>

\* The process stops; Postgres rolls back what was not committed.
Restart ==
  /\ pc' = [p \in Calls |-> "idle"]
  /\ job' = [p \in Calls |-> NoJob]
  /\ lost' = lost \union UNION {Unrecorded(p) : p \in Calls}
  /\ dropped' = dropped \union UNION {Owed(p) : p \in {q \in Calls : pc[q] # "leave"}}
  /\ UNCHANGED <<brain, invited, keys, late, crossed>>

Handler(p) ==
  \/ \E u \in Users : \/ BeginInvite(p, u) \/ BeginIssue(p, u) \/ BeginArchive(p, u)
                      \/ \E i \in Invs : BeginWithdraw(p, u, i) \/ BeginAccept(p, u, i)
                      \/ \E c \in Clients : BeginRevoke(p, u, c)
                      \/ \E t \in Users : BeginLeave(p, u, t)

Invitation(p) ==
  \/ \E i \in Invs, o \in Offers : Invite(p, i, o)
  \/ Withdraw(p) \/ Join(p)

Issue(p) ==
  \/ \E c \in Clients : IssueRow(p, c)
  \/ Registered(p) \/ RegisterFails(p) \/ Recheck(p) \/ Activate(p) \/ ActivateFails(p)

Revoke(p) ==
  \/ Revoked(p) \/ RevokeFails(p) \/ MarkedRevoked(p) \/ MarkRevokedFails(p)
  \/ MarkedOrphan(p) \/ MarkOrphanFails(p)

Remove(p) ==
  \/ Leave(p) \/ List(p) \/ LoopDone(p) \/ Archive(p) \/ Delete(p)
  \/ \E c \in Clients : Pick(p, c)

Next ==
  \/ Settle \/ \E i \in Invs : Expire(i)
  \/ \E p \in Calls : Handler(p) \/ Invitation(p) \/ Issue(p) \/ Revoke(p) \/ Remove(p)
                      \/ Fails(p)
  \/ Restart

Spec == Init /\ [][Next]_vars

-----------------------------------------------------------------------------
(* Properties.                                                             *)

\* An invitation lets in one user, the one it was addressed to if it was
\* addressed, with its role; and it is accepted exactly when that membership
\* was made, whoever else accepts or revokes it meanwhile (AcceptInvitation).
OneMemberPerInvitation ==
  /\ \A u \in Users : LET i == member[u].via IN
       i # None => /\ inv[i].state = "accepted" /\ inv[i].by = u
                   /\ inv[i].role = member[u].role /\ inv[i].email \in {None, u}
  /\ \A i \in Invs : inv[i].state = "accepted" => member[inv[i].by].via = i

\* An answered invitation keeps its answer: a revocation that was checked
\* before the invitation was accepted does not undo the acceptance, nor the
\* other way round (RevokeInvitation, AcceptInvitation).
InvitationAnsweredOnce ==
  [][\A i \in Invs : inv[i].state \in {"accepted", "revoked"} =>
       inv'[i].state \in {inv[i].state, "deleted"}]_vars

\* A user who was removed from a brain is never a member of it again, by
\* whatever invitation (UNIQUE (brain_id, user_id), RevokeMembership).
RemovedForGood ==
  [][\A u \in Users : member[u].revoked => member'[u].revoked \/ brain' = "deleted"]_vars

\* A brain that can be found keeps an owner, unless a removal was carried out
\* for one who was no longer an owner by then: the right is checked in one
\* statement and the membership revoked in another (RevokeMembership).
SomeOwner == Found => crossed \/ \E u \in Users : IsOwner(u)

\* brainhub records a key as revoked only when GBrain no longer accepts it,
\* whichever of two revocations, or of a revocation and an issue, wrote last.
RevokedKeysAreDead ==
  \A c \in Clients : client[c].state = "revoked" => gb[c] # "live"

RowNames(c) == client[c].known /\ client[c].state \in {"active", "orphan"}
InHand(c) == \E p \in Calls : job[p].op = "issue" /\ Obj(p) = c /\ job[p].key

\* A key GBrain accepts is named by a row that can still be revoked, or is in
\* the hands of the request that made it: only a lost answer, a failed record,
\* a stop, or the deletion of the brain's rows loses it (domain.md, 20).
EveryKeyNamed ==
  \A c \in Clients : gb[c] = "live" => c \in lost \/ RowNames(c) \/ InHand(c)

\* What has become of a key, and of all of them, the lost ones first.
KeyState(c) ==
  CASE gb[c] = "unused"  -> "unmade"
    [] gb[c] = "revoked" -> "dead"
    [] gb[c] = "live"    -> IF c \in lost THEN "lost"
                            ELSE IF RowNames(c) THEN "named"
                            ELSE IF InHand(c) THEN "held" ELSE "adrift"

Ring == INSTANCE KeyRing WITH Keys <- Clients, ring <- [c \in Clients |-> KeyState(c)]

\* What becomes of an issued key is what KeyRing allows: no step of any request
\* sets one adrift, brings a revoked one back or finds a lost one again
\* (IssueClient, RevokeClient, RevokeMembership, ArchiveBrain).
KeysOnRing == Ring!Spec

\* The key is revoked in GBrain, and its row says so.
Done(c) == gb[c] = "revoked" /\ client[c].state \in {"revoked", "deleted"}

\* A removal that reports success, and the removal of the brain itself, have
\* revoked every key they found, in GBrain and in its row: a failure of one of
\* them is not forgotten over the others, and what another request does to the
\* same keys meanwhile does not undo it (revokeClients, ArchiveBrain).
RevocationsComplete ==
  [][\A p \in Calls :
       (LoopDone(p) /\ ~job[p].err) \/ Archive(p) \/ Delete(p) =>
         \A c \in job[p].listed : Done(c)]_vars

\* No active key belongs to a removed member, except while its revocation is
\* in progress, when that failed on the way, or when the key was being
\* activated at the very moment (RevokeMembership, IssueClient).
RemovedMembersKeys ==
  \A c \in Clients :
    (client[c].state = "active" /\ gb[c] = "live" /\ ~Active(client[c].user))
    => c \in late \union dropped \/ \E p \in Calls : c \in Owed(p)

\* Without that last exception: what domain.md states (invariant 3).
RemovedMembersHaveNoKeys ==
  \A c \in Clients :
    (client[c].state = "active" /\ gb[c] = "live" /\ ~Active(client[c].user))
    => c \in dropped \/ \E p \in Calls : pc[p] # "idle"

-----------------------------------------------------------------------------
(* What the properties rest on: the inductive invariant.                   *)

\* The labels between two calls about one key.
AtKey(p) ==
  pc[p] \in {"register", "recheck", "activate", "revoke", "markRevoked", "markOrphan"}

\* What each request has at hand.
JobInv(p) ==
  /\ pc[p] = "idle" => job[p] = NoJob
  /\ pc[p] = "withdraw" => Obj(p) \in Invs
  /\ pc[p] = "join" => /\ Obj(p) \in Invs /\ job[p].user \in Users
                       /\ inv[Obj(p)].state # "none"
                       /\ inv[Obj(p)].email \in {None, job[p].user}
  /\ pc[p] = "issue" => /\ job[p].op = "issue" /\ job[p].user \in Users
                        /\ Obj(p) = None
  /\ pc[p] \in {"insert", "withdraw", "join", "archive"} => job[p].op \notin {"issue", "leave"}
  /\ pc[p] = "leave" => /\ job[p].op = "leave" /\ Obj(p) \in Users /\ job[p].todo = {}
                        /\ job[p].user \in Users \ {Obj(p)}
  /\ pc[p] = "list" => \/ job[p].op = "leave" /\ Obj(p) \in Users
                       \/ job[p].op = "archive"
  /\ pc[p] = "next" => job[p].op \in {"leave", "archive"} /\ Obj(p) = None
  /\ AtKey(p) => /\ Obj(p) \in Clients /\ job[p].op \in {"issue", "revoke", "leave", "archive"}
                 /\ job[p].op # "issue" => Row(p).known
  /\ pc[p] \in {"register", "recheck", "activate"} => job[p].op = "issue"
  /\ pc[p] = "markRevoked" => gb[Obj(p)] = "revoked"
  /\ \A c \in job[p].todo : client[c].known

\* Until its id is recorded a key is its maker's: no other request has found
\* its row, but for the deletion of the brain.
MakerInv(p) ==
  AtKey(p) /\ job[p].op = "issue" =>
    /\ Row(p).state \in {"issuing", "deleted"} /\ ~Row(p).known
    /\ Row(p).user = job[p].user /\ job[p].user \in Users
    /\ pc[p] = "register" => gb[Obj(p)] = "unused"
    /\ job[p].key \/ gb[Obj(p)] # "live" \/ Obj(p) \in lost
    /\ pc[p] = "activate" =>
         Active(job[p].user) \/ Obj(p) \in late \/ Row(p).state = "deleted"

OneMaker ==
  \A p, q \in Calls :
    AtKey(p) /\ AtKey(q) /\ job[p].op = "issue" /\ job[q].op = "issue" /\ Obj(p) = Obj(q)
    => p = q

IndInv ==
  /\ TypeOK
  /\ \A p \in Calls : JobInv(p) /\ MakerInv(p)
  /\ OneMaker
  /\ \A c \in Clients : client[c].state = "none" => gb[c] = "unused"
  /\ OneMemberPerInvitation /\ SomeOwner
  /\ RevokedKeysAreDead /\ EveryKeyNamed /\ RemovedMembersKeys
-----------------------------------------------------------------------------
(* What KeysOnRing rests on besides.                                       *)

\* A key has been made when a request is about to revoke it, or knows its id.
MadeJob(p) ==
  /\ pc[p] \in {"issue", "register"} => ~job[p].key
  /\ \/ pc[p] \in {"recheck", "activate", "revoke"}
     \/ pc[p] = "markOrphan" /\ job[p].key
     => gb[Obj(p)] # "unused"

\* And when a row names it, or it was lost.
MadeInv ==
  /\ \A p \in Calls : MadeJob(p)
  /\ \A c \in Clients : client[c].known \/ c \in lost => gb[c] # "unused"

-----------------------------------------------------------------------------
(* What RevocationsComplete rests on besides.                              *)

\* Every key a loop found is still to be done, at hand, or done, unless one of
\* them has failed; and an archive goes on when all are done.
ListedJob(p) ==
  /\ \A c \in job[p].listed :
       c \in job[p].todo \/ (AtKey(p) /\ c = Obj(p)) \/ job[p].err \/ Done(c)
  /\ pc[p] = "archive" => job[p].todo = {} /\ ~job[p].err

ListedInv == \A p \in Calls : ListedJob(p)
=============================================================================
