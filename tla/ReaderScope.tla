---------------------------- MODULE ReaderScope ----------------------------
(***************************************************************************)
(* The MCP proxy's per-user GBrain reader.                                 *)
(*                                                                         *)
(* An MCP call is authorised against the brains its user sees now, the     *)
(* user's GBrain "reader" client is rescoped to exactly that list, and the *)
(* call is forwarded with a bearer token of that client                    *)
(* (api/usecase/interactor/mcp.go, api/adapter/gbrain/reader_service.go).  *)
(* The reader's row lives in brainhub's database, its grant in GBrain, its *)
(* bearer token in the process: three places no transaction spans.         *)
(*                                                                         *)
(* The list is read BEFORE ReaderService.mu is taken, everything from      *)
(* Enter to the token happens under the mutex, and the call is forwarded   *)
(* after it is released.  Each GBrain call and each database statement is  *)
(* a step of its own; a call to GBrain may fail with or without having had *)
(* its effect, a statement may fail (the request context is cancelled when *)
(* the client hangs up), and the process may stop between any two steps.   *)
(***************************************************************************)
EXTENDS FiniteSets

CONSTANTS
  Users,      \* users with an MCP token
  Sources,    \* brains, by their source id
  Public,     \* the sources whose visibility is public
  Calls,      \* slots for concurrent requests
  Boot,       \* the start-up reconciliation, a process of its own
  Ids,        \* client ids GBrain may hand out: bounds the registrations
  None

ASSUME PublicAssumption == Public \subseteq Sources
ASSUME ProcsAssumption == Boot \notin Calls
ASSUME NoneAssumption ==
  None \notin Users \union Ids \union Calls \union {Boot}

Procs == Calls \union {Boot}

VARIABLES
  brain,        \* brains.state; "gone": failed, or archived_at IS NOT NULL
  member,       \* memberships: never there, active or revoked
  row,          \* brainhub_reader_clients, by user
  gb,           \* GBrain's OAuth clients, by id (external)
  cache,        \* ReaderService.clients and the bearer token inside it
  lock,         \* ReaderService.mu
  phase,        \* "boot" until ReconcileReaders has returned, then "serve"
  todo,         \* the users ReconcileReaders has still to visit
  pc, job,      \* where each request is, and what it works on
  gid,          \* the GBrain client id a request holds and has not recorded
  tok,          \* the bearer token a request forwards
  interrupted,  \* history: users whose last rescope was never recorded
  stray         \* history: ids whose registration was never recorded

vars == <<brain, member, row, gb, cache, lock, phase, todo, pc, job, gid, tok,
          interrupted, stray>>
world   == <<brain, member>>
ghosts  == <<interrupted, stray>>
booting == <<phase, todo>>

-----------------------------------------------------------------------------
BrainState  == {"provisioning", "degraded", "ready", "gone"}
Membership  == {"never", "active", "revoked"}
Critical    == {"register", "activate", "undo", "mark", "rescope", "persist",
                "token", "revokeOld", "reset"}

NoRow  == [state |-> "none",    id |-> None, fed |-> {}]
Issuing == [state |-> "issuing", id |-> None, fed |-> {}]

\* A row is active exactly when it has a credential, and then it has an id.
Row == {NoRow, Issuing}
       \union [state : {"active"}, id : Ids, fed : SUBSET Sources]
       \union [state : {"orphan"}, id : Ids \union {None}, fed : SUBSET Sources]

GClient == [status : {"unused", "live", "revoked"}, owner : Users \union {None},
            grant : SUBSET Sources]

\* A cached Client; has: it holds a bearer token, whose reach GBrain fixed.
NoCache == [id |-> None, has |-> FALSE, reach |-> {}]
Cached  == [id : Ids \union {None}, has : BOOLEAN, reach : SUBSET Sources]

NoJob == [kind |-> "none", user |-> None, list |-> {}]
Job   == {NoJob} \union
         [kind : {"call", "reissue", "boot"}, user : Users, list : SUBSET Sources]

NoTok == [reach |-> {}, sure |-> TRUE]
Tok   == [reach : SUBSET Sources, sure : BOOLEAN]

TypeOK ==
  /\ brain \in [Sources -> BrainState]
  /\ member \in [Users -> [Sources -> Membership]]
  /\ row \in [Users -> Row]
  /\ gb \in [Ids -> GClient]
  /\ cache \in [Users -> Cached]
  /\ lock \in Procs \union {None}
  /\ phase \in {"boot", "serve"}
  /\ todo \subseteq Users
  /\ pc \in [Procs -> {"idle", "wait", "forward"} \union Critical]
  /\ job \in [Procs -> Job]
  /\ gid \in [Procs -> Ids \union {None}]
  /\ tok \in [Procs -> Tok]
  /\ interrupted \subseteq Users
  /\ stray \subseteq Ids

-----------------------------------------------------------------------------
\* ListMCPVisibleBrains: the WHERE clause, as a set of sources.
Visible(u) ==
  {s \in Sources : \/ member[u][s] = "active" /\ brain[s] \in {"ready", "degraded"}
                   \/ s \in Public /\ brain[s] = "ready"}

Init ==
  /\ brain = [s \in Sources |-> "provisioning"]
  /\ member = [u \in Users |-> [s \in Sources |-> "never"]]
  /\ row = [u \in Users |-> NoRow]
  /\ gb = [i \in Ids |-> [status |-> "unused", owner |-> None, grant |-> {}]]
  /\ cache = [u \in Users |-> NoCache]
  /\ lock = None
  /\ phase = "serve" /\ todo = {}
  /\ pc = [p \in Procs |-> "idle"]
  /\ job = [p \in Procs |-> NoJob]
  /\ gid = [p \in Procs |-> None]
  /\ tok = [p \in Procs |-> NoTok]
  /\ interrupted = {} /\ stray = {}

User(p) == job[p].user
List(p) == job[p].list
MyRow(p) == row[User(p)]

Goto(p, l) == pc' = [pc EXCEPT ![p] = l]

\* The request ends (with or without an error); the deferred Unlock runs.
Return(p) ==
  /\ pc' = [pc EXCEPT ![p] = "idle"]
  /\ job' = [job EXCEPT ![p] = NoJob]
  /\ gid' = [gid EXCEPT ![p] = None]
  /\ tok' = [tok EXCEPT ![p] = NoTok]
  /\ lock' = IF lock = p THEN None ELSE lock

\* mu is taken and the request goes to l.
Take(p, l) == lock' = p /\ Goto(p, l) /\ UNCHANGED <<job, gid, tok>>

\* A step that stays inside the critical section.
Stay(p, l) == Goto(p, l) /\ UNCHANGED <<lock, job, tok>>

-----------------------------------------------------------------------------
(* What the rest of the system does to the visible list.                   *)

\* AcceptInvitation / createRecords insert a membership; a revoked one is
\* never active again (UNIQUE (brain_id, user_id)).
Join(u, s) ==
  /\ phase = "serve" /\ member[u][s] = "never"
  /\ member' = [member EXCEPT ![u][s] = "active"]
  /\ UNCHANGED <<brain, row, gb, cache, lock, booting, pc, job, gid, tok, ghosts>>

\* RevokeMembership.
Leave(u, s) ==
  /\ phase = "serve" /\ member[u][s] = "active"
  /\ member' = [member EXCEPT ![u][s] = "revoked"]
  /\ UNCHANGED <<brain, row, gb, cache, lock, booting, pc, job, gid, tok, ghosts>>

\* TransitionBrain (from provisioning or degraded only) and ArchiveBrain.
BrainStep(s) ==
  /\ phase = "serve"
  /\ \E b \in {"ready", "degraded", "gone"} \ {brain[s]} :
       /\ brain[s] \in {"provisioning", "degraded"} \/ b = "gone"
       /\ brain' = [brain EXCEPT ![s] = b]
  /\ UNCHANGED <<member, row, gb, cache, lock, booting, pc, job, gid, tok, ghosts>>

-----------------------------------------------------------------------------
(* AuthorizeCall, ReissueReader, ReconcileReaders: the unlocked read.      *)

Begin(p, u, k) ==
  /\ phase = "serve" /\ p \in Calls /\ pc[p] = "idle"
  /\ k \in {"call", "reissue"}
  /\ job' = [job EXCEPT ![p] = [kind |-> k, user |-> u, list |-> Visible(u)]]
  /\ Goto(p, "wait")
  /\ UNCHANGED <<world, row, gb, cache, lock, booting, gid, tok, ghosts>>

\* One user of ReconcileReaders' list; one who sees nothing, or whose brains
\* cannot be listed, is skipped.
BootVisit(u) ==
  /\ phase = "boot" /\ pc[Boot] = "idle" /\ u \in todo
  /\ todo' = todo \ {u}
  /\ \/ UNCHANGED <<pc, job>>
     \/ /\ Visible(u) # {}
        /\ job' = [job EXCEPT ![Boot] =
                     [kind |-> "boot", user |-> u, list |-> Visible(u)]]
        /\ Goto(Boot, "wait")
  /\ UNCHANGED <<world, row, gb, cache, lock, phase, gid, tok, ghosts>>

\* ReconcileReaders returns; its error is only logged (main.go), so the
\* server starts whatever happened.
BootDone ==
  /\ phase = "boot" /\ pc[Boot] = "idle" /\ todo = {}
  /\ phase' = "serve"
  /\ UNCHANGED <<world, row, gb, cache, lock, todo, pc, job, gid, tok, ghosts>>

-----------------------------------------------------------------------------
(* ReaderService under mu.                                                 *)

Revoked == [status |-> "revoked", owner |-> None, grant |-> {}]

\* A live GBrain client that p holds and no row names.
Unrecorded(p) == {i \in Ids : /\ i = gid[p] /\ gb[i].status = "live"
                              /\ MyRow(p).id # i}

\* p asked GBrain to change a grant that the row does not state.
Rescoping(p) ==
  pc[p] \in {"persist", "mark"} /\ MyRow(p).state = "active" /\ MyRow(p).fed # List(p)

Orphaned(p) == [state |-> "orphan", fed |-> MyRow(p).fed,
                id |-> IF gid[p] # None THEN gid[p] ELSE MyRow(p).id]

Evict(u) == cache' = [cache EXCEPT ![u] = NoCache]

\* AccessToken / ensure, or Reissue, up to the first GBrain call.
Reissuing(p) == job[p].kind = "reissue"

\* Nothing is visible; an orphan reader is not used; a reader that is not an
\* orphan is not reissued.
EnterRefused(p) ==
  /\ pc[p] = "wait" /\ lock = None
  /\ List(p) = {} \/ (Reissuing(p) <=> MyRow(p).state # "orphan")
  /\ Return(p)
  /\ UNCHANGED <<world, row, gb, cache, booting, ghosts>>

\* Reading the row, or inserting it, fails.
LookupFails(p) ==
  /\ pc[p] = "wait" /\ lock = None
  /\ Return(p)
  /\ UNCHANGED <<world, row, gb, cache, booting, ghosts>>

\* No row, or a row left issuing: CreateReaderClient, then provision.
EnterProvision(p) ==
  /\ pc[p] = "wait" /\ lock = None
  /\ List(p) # {} /\ ~Reissuing(p) /\ MyRow(p).state \in {"none", "issuing"}
  /\ row' = [row EXCEPT ![User(p)] = Issuing]
  /\ Take(p, "register")
  /\ UNCHANGED <<world, gb, cache, booting, ghosts>>

EnterActive(p) ==
  /\ pc[p] = "wait" /\ lock = None
  /\ List(p) # {} /\ ~Reissuing(p) /\ MyRow(p).state = "active"
  /\ Take(p, IF MyRow(p).fed = List(p) THEN "token" ELSE "rescope")
  /\ UNCHANGED <<world, row, gb, cache, booting, ghosts>>

EnterReissue(p) ==
  /\ pc[p] = "wait" /\ lock = None
  /\ List(p) # {} /\ Reissuing(p) /\ MyRow(p).state = "orphan"
  /\ Evict(User(p))
  /\ Take(p, IF MyRow(p).id = None THEN "reset" ELSE "revokeOld")
  /\ UNCHANGED <<world, row, gb, booting, ghosts>>

Enter(p) ==
  \/ EnterRefused(p) \/ LookupFails(p)
  \/ EnterProvision(p) \/ EnterActive(p) \/ EnterReissue(p)

\* GBrain makes a client for p's user, scoped to p's list.
Client(p) == [status |-> "live", owner |-> User(p), grant |-> List(p)]
Create(i, p) == gb[i].status = "unused" /\ gb' = [gb EXCEPT ![i] = Client(p)]

\* provision: RegisterClient.  An answer without a secret goes to the
\* compensating revoke; an error, with or without a client behind it, to
\* markOrphan without an id.
Registered(p, i) ==
  /\ pc[p] = "register"
  /\ Create(i, p)
  /\ gid' = [gid EXCEPT ![p] = i]
  /\ \E l \in {"activate", "undo"} : Stay(p, l)
  /\ UNCHANGED <<world, row, cache, booting, ghosts>>

RegisterLost(p, i) ==
  /\ pc[p] = "register"
  /\ Create(i, p)
  /\ stray' = stray \union {i}
  /\ Stay(p, "mark")
  /\ UNCHANGED <<world, row, cache, booting, gid, interrupted>>

RegisterRefused(p) ==
  /\ pc[p] = "register"
  /\ Stay(p, "mark")
  /\ UNCHANGED <<world, row, gb, cache, booting, gid, ghosts>>

Register(p) ==
  \/ \E i \in Ids : Registered(p, i) \/ RegisterLost(p, i)
  \/ RegisterRefused(p)

\* provision: encrypt and ActivateReaderClient (WHERE state = 'issuing').
Activated(p) ==
  /\ pc[p] = "activate" /\ MyRow(p).state = "issuing"
  /\ row' = [row EXCEPT ![User(p)] =
               [state |-> "active", id |-> gid[p], fed |-> List(p)]]
  /\ interrupted' = interrupted \ {User(p)}
  /\ IF Reissuing(p) THEN Return(p)
     ELSE Stay(p, "token") /\ gid' = [gid EXCEPT ![p] = None]
  /\ UNCHANGED <<world, gb, cache, booting, stray>>

ActivateFails(p) ==
  /\ pc[p] = "activate"
  /\ Stay(p, "undo")
  /\ UNCHANGED <<world, row, gb, cache, booting, gid, ghosts>>

\* provision: the compensating RevokeClient.  Unless GBrain confirmed it, the
\* id is kept for the orphan row.
Undone(p) ==
  /\ pc[p] = "undo"
  /\ gb' = [gb EXCEPT ![gid[p]] = Revoked]
  /\ gid' = [gid EXCEPT ![p] = None]
  /\ Stay(p, "mark")
  /\ UNCHANGED <<world, row, cache, booting, ghosts>>

Mutant_UndoFails(p) ==
  /\ pc[p] = "undo"
  /\ gid' = [gid EXCEPT ![p] = None]
  /\ Stay(p, "mark")
  /\ UNCHANGED <<world, row, gb, cache, booting, ghosts>>

UndoFails(p) ==
  /\ pc[p] = "undo"
  /\ UNCHANGED gb \/ gb' = [gb EXCEPT ![gid[p]] = Revoked]
  /\ Stay(p, "mark")
  /\ UNCHANGED <<world, row, cache, booting, gid, ghosts>>

\* markOrphan: drop the cached client, then MarkReaderClientOrphan (COALESCE
\* keeps a known id).
Mutant_Marked(p) ==
  /\ pc[p] = "mark"
  /\ row' = [row EXCEPT ![User(p)] = Orphaned(p)]
  /\ Return(p)
  /\ UNCHANGED <<world, cache, gb, booting, ghosts>>

Marked(p) ==
  /\ pc[p] = "mark"
  /\ Evict(User(p))
  /\ row' = [row EXCEPT ![User(p)] = Orphaned(p)]
  /\ Return(p)
  /\ UNCHANGED <<world, gb, booting, ghosts>>

\* The statement fails, as it does once the request's context is cancelled;
\* the row stays as it was.
MarkFails(p) ==
  /\ pc[p] = "mark"
  /\ Evict(User(p))
  /\ stray' = stray \union Unrecorded(p)
  /\ interrupted' = interrupted \union (IF Rescoping(p) THEN {User(p)} ELSE {})
  /\ Return(p)
  /\ UNCHANGED <<world, row, gb, booting>>

\* ensure: RescopeClient; after it the cached bearer token is dropped.
Mutant_Rescoped(p) ==
  /\ pc[p] = "rescope"
  /\ gid' = [gid EXCEPT ![p] = MyRow(p).id]
  /\ gb' = [gb EXCEPT ![MyRow(p).id].grant = List(p)]
  /\ Stay(p, "persist")
  /\ UNCHANGED <<world, row, cache, booting, ghosts>>

Rescoped(p) ==
  /\ pc[p] = "rescope"
  /\ gid' = [gid EXCEPT ![p] = MyRow(p).id]
  /\ gb' = [gb EXCEPT ![MyRow(p).id].grant = List(p)]
  /\ cache' = [cache EXCEPT ![User(p)].has = FALSE, ![User(p)].reach = {}]
  /\ Stay(p, "persist")
  /\ UNCHANGED <<world, row, booting, ghosts>>

\* RescopeClient returns an error, whether or not GBrain changed the grant.
RescopeFails(p) ==
  /\ pc[p] = "rescope"
  /\ gid' = [gid EXCEPT ![p] = MyRow(p).id]
  /\ UNCHANGED gb \/ gb' = [gb EXCEPT ![MyRow(p).id].grant = List(p)]
  /\ Stay(p, "mark")
  /\ UNCHANGED <<world, row, cache, booting, ghosts>>

\* ensure: UpdateReaderClientScope (WHERE state = 'active').
Persisted(p) ==
  /\ pc[p] = "persist" /\ MyRow(p).state = "active"
  /\ row' = [row EXCEPT ![User(p)].fed = List(p)]
  /\ interrupted' = interrupted \ {User(p)}
  /\ gid' = [gid EXCEPT ![p] = None]
  /\ Stay(p, "token")
  /\ UNCHANGED <<world, gb, cache, booting, stray>>

Mutant_PersistFails(p) ==
  /\ pc[p] = "persist"
  /\ gid' = [gid EXCEPT ![p] = None]
  /\ Stay(p, "token")
  /\ UNCHANGED <<world, row, gb, cache, booting, ghosts>>

PersistFails(p) ==
  /\ pc[p] = "persist"
  /\ Stay(p, "mark")
  /\ UNCHANGED <<world, row, gb, cache, booting, gid, ghosts>>

\* The critical section ends with a bearer token that reaches t.
Deliver(p, t) ==
  IF job[p].kind = "boot" THEN Return(p)
  ELSE /\ tok' = [tok EXCEPT ![p] = [reach |-> t, sure |-> User(p) \notin interrupted]]
       /\ lock' = None /\ Goto(p, "forward") /\ UNCHANGED <<job, gid>>

\* clientFor and BearerToken: the cached token, or a new one when there is
\* none or it has expired.
TokenCached(p) ==
  /\ pc[p] = "token" /\ cache[User(p)].has
  /\ Deliver(p, cache[User(p)].reach)
  /\ UNCHANGED <<world, row, gb, cache, booting, ghosts>>

TokenFetched(p) ==
  LET i == MyRow(p).id IN
  /\ pc[p] = "token" /\ gb[i].status = "live"
  /\ cache' = [cache EXCEPT ![User(p)] = [id |-> i, has |-> TRUE, reach |-> gb[i].grant]]
  /\ Deliver(p, gb[i].grant)
  /\ UNCHANGED <<world, row, gb, booting, ghosts>>

Mutant_TokenFails(p) ==
  /\ pc[p] = "token"
  /\ cache' = [cache EXCEPT ![User(p)] = [id |-> MyRow(p).id, has |-> FALSE, reach |-> {}]]
  /\ Goto(p, "idle")
  /\ UNCHANGED <<lock, job, gid, tok, world, row, gb, booting, ghosts>>

TokenFails(p) ==
  /\ pc[p] = "token"
  /\ cache' = [cache EXCEPT ![User(p)] = [id |-> MyRow(p).id, has |-> FALSE, reach |-> {}]]
  /\ Return(p)
  /\ UNCHANGED <<world, row, gb, booting, ghosts>>

\* A credential that does not decrypt, tried only when no client is cached,
\* orphans the reader.
CredentialBad(p) ==
  /\ pc[p] = "token" /\ cache[User(p)] = NoCache
  /\ gid' = [gid EXCEPT ![p] = MyRow(p).id]
  /\ Stay(p, "mark")
  /\ UNCHANGED <<world, row, gb, cache, booting, ghosts>>

Token(p) == TokenCached(p) \/ TokenFetched(p) \/ TokenFails(p) \/ CredentialBad(p)

\* Reissue: RevokeClient of the orphan's client; on an error the row keeps
\* its id (MarkReaderClientOrphan rewrites only the reason) and we return.
RevokedOld(p) ==
  /\ pc[p] = "revokeOld"
  /\ gb' = [gb EXCEPT ![MyRow(p).id] = Revoked]
  /\ Stay(p, "reset")
  /\ UNCHANGED <<world, row, cache, booting, gid, ghosts>>

Mutant_RevokeOldFails(p) ==
  /\ pc[p] = "revokeOld"
  /\ Stay(p, "reset")
  /\ UNCHANGED <<world, row, gb, cache, booting, gid, ghosts>>

RevokeOldFails(p) ==
  /\ pc[p] = "revokeOld"
  /\ UNCHANGED gb \/ gb' = [gb EXCEPT ![MyRow(p).id] = Revoked]
  /\ Return(p)
  /\ UNCHANGED <<world, row, cache, booting, ghosts>>

\* Reissue: ResetReaderClient (WHERE state = 'orphan'), then provision, unless
\* the row cannot be read again.
Mutant_ResetDone(p) ==
  /\ pc[p] = "reset"
  /\ row' = [row EXCEPT ![User(p)].state = "issuing"]
  /\ Stay(p, "register")
  /\ UNCHANGED <<world, gb, cache, booting, gid, ghosts>>

ResetDone(p) ==
  /\ pc[p] = "reset" /\ MyRow(p).state = "orphan"
  /\ row' = [row EXCEPT ![User(p)] = Issuing]
  /\ (Stay(p, "register") /\ UNCHANGED gid) \/ Return(p)
  /\ UNCHANGED <<world, gb, cache, booting, ghosts>>

ResetFails(p) ==
  /\ pc[p] = "reset"
  /\ Return(p)
  /\ UNCHANGED <<world, row, gb, cache, booting, ghosts>>

\* The proxy forwards the call with tok[p], outside the mutex.
Forward(p) ==
  /\ pc[p] = "forward"
  /\ Return(p)
  /\ UNCHANGED <<world, row, gb, cache, booting, ghosts>>

\* The process stops and starts again: what was in memory is gone, and
\* ReconcileReaders lists the reader rows, or visits none when that fails.
Restart ==
  /\ phase' = "boot"
  /\ todo' \in {{}, {u \in Users : row[u].state # "none"}}
  /\ pc' = [p \in Procs |-> "idle"]
  /\ job' = [p \in Procs |-> NoJob]
  /\ gid' = [p \in Procs |-> None]
  /\ tok' = [p \in Procs |-> NoTok]
  /\ lock' = None
  /\ cache' = [u \in Users |-> NoCache]
  /\ stray' = stray \union UNION {Unrecorded(p) : p \in {q \in Procs : lock = q}}
  /\ interrupted' = interrupted \union
                      {User(p) : p \in {q \in Procs : lock = q /\ Rescoping(q)}}
  /\ UNCHANGED <<world, row, gb>>

-----------------------------------------------------------------------------
Step(p) ==
  \/ Enter(p) \/ Register(p) \/ Activated(p) \/ ActivateFails(p)
  \/ Undone(p) \/ UndoFails(p) \/ Marked(p) \/ MarkFails(p)
  \/ Rescoped(p) \/ RescopeFails(p) \/ Persisted(p) \/ PersistFails(p)
  \/ Token(p) \/ RevokedOld(p) \/ RevokeOldFails(p) \/ ResetDone(p) \/ ResetFails(p)
  \/ Forward(p)

World ==
  \/ \E u \in Users, s \in Sources : Join(u, s) \/ Leave(u, s)
  \/ \E s \in Sources : BrainStep(s)

Next ==
  \/ World
  \/ \E p \in Calls, u \in Users, k \in {"call", "reissue"} : Begin(p, u, k)
  \/ \E u \in Users : BootVisit(u)
  \/ BootDone
  \/ \E p \in Procs : Step(p)
  \/ Restart

Spec == Init /\ [][Next]_vars

-----------------------------------------------------------------------------
(* Properties.                                                             *)

\* The scope brainhub has recorded for an active reader is the grant GBrain
\* enforces, and the client is live: outside the window between RescopeClient
\* and its record, and unless that window was cut short (ensure, 88-104).
GrantRecorded ==
  \A u \in Users :
    (/\ row[u].state = "active" /\ u \notin interrupted
     /\ \A p \in Procs : User(p) = u => ~Rescoping(p))
    => gb[row[u].id] = [status |-> "live", owner |-> u, grant |-> row[u].fed]

\* A forwarded call carries a token whose reach is exactly the list that call
\* was authorised for, neither wider nor narrower, whatever other calls,
\* rescopes and revocations did meanwhile (domain.md, invariant 8).
TokenScopedToCall ==
  \A p \in Procs : pc[p] = "forward" /\ tok[p].sure => tok[p].reach = List(p)

\* Without the proviso, what the comments in ensure and domain.md promise: no
\* call ever goes out with a token wider than the list it was authorised for.
FailsClosed ==
  \A p \in Procs : pc[p] = "forward" => tok[p].reach \subseteq List(p)

RowNames(i) == gb[i].owner \in Users /\ row[gb[i].owner].id = i
InHand(i) == \E p \in Procs : lock = p /\ gid[p] = i /\ User(p) = gb[i].owner

\* Every live reader client of GBrain is named by the row of its own user, or
\* is in the hands of the request that made it, or its registration or the
\* record of it was cut short.  No other path loses a key.
EveryKeyAccounted ==
  \A i \in Ids :
    gb[i].status = "live" => i \in stray \/ RowNames(i) \/ InHand(i)

\* What has become of a key, the lost ones first.
KeyState(i) ==
  CASE gb[i].status = "unused"  -> "unmade"
    [] gb[i].status = "revoked" -> "dead"
    [] gb[i].status = "live"    -> IF i \in stray THEN "lost"
                                   ELSE IF RowNames(i) THEN "named"
                                   ELSE IF InHand(i) THEN "held" ELSE "adrift"

Ring == INSTANCE KeyRing WITH Keys <- Ids, ring <- [i \in Ids |-> KeyState(i)]

\* What becomes of a reader's key is what KeyRing allows: no step of ensure,
\* provision or Reissue sets one adrift, brings a revoked one back or finds a
\* lost one again.
KeysOnRing == Ring!Spec

\* A bearer token kept for reuse has the reach of the reader it belongs to:
\* it is the active reader's and no rescope has happened since it was issued.
CachedTokenCurrent ==
  \A u \in Users :
    cache[u].has /\ (\A p \in Procs : pc[p] = "mark" => User(p) # u) =>
      /\ row[u].state = "active" /\ cache[u].id = row[u].id
      /\ cache[u].reach = gb[row[u].id].grant

\* An orphan reader leaves that state only once GBrain has revoked its old
\* client, whatever fails or restarts in between (Reissue, 163-171).
ReissueRevokesFirst ==
  [][\A u \in Users :
       row[u].state = "orphan" /\ row'[u].state # "orphan" =>
         row[u].id = None \/ gb[row[u].id].status = "revoked"]_vars

\* The mutex is held exactly by the one request inside the critical section:
\* no path, successful, failing or compensating, returns or forwards with it,
\* so that no later call finds it taken for ever (the deferred Unlock of
\* AccessToken and Reissue).
MutexInv == \A p \in Procs : pc[p] \in Critical <=> lock = p

\* The facts about the lock holder the invariants above rest on: what each
\* point of the critical section knows of its row, its client and the cache.
JobInv ==
  \A p \in Procs :
    /\ pc[p] # "idle" => job[p] # NoJob
    /\ gid[p] # None => pc[p] \in {"activate", "undo", "mark", "persist"}

RowInv ==
  \A u \in Users :
    /\ row[u].id # None =>
         /\ gb[row[u].id].status # "unused"
         /\ gb[row[u].id].status = "live" => gb[row[u].id].owner = u
    /\ row[u].state = "active" => gb[row[u].id].status = "live"

HolderInv ==
  \A p \in Procs :
    LET r == MyRow(p) IN
    /\ pc[p] \in {"register", "activate", "undo"} => r.state = "issuing"
    /\ pc[p] \in {"activate", "undo"} =>
         gid[p] # None /\ gb[gid[p]] = Client(p)
    /\ pc[p] = "mark" =>
         \/ /\ r.state = "issuing"
            /\ gid[p] # None => /\ gb[gid[p]].status # "unused"
                                /\ gb[gid[p]].status = "live" => gb[gid[p]].owner = User(p)
         \/ r.state = "active" /\ gid[p] = r.id
    /\ pc[p] \in {"rescope", "persist", "token"} => r.state = "active"
    /\ pc[p] = "rescope" => r.fed # List(p)
    /\ pc[p] = "token" => r.fed = List(p)
    /\ pc[p] = "persist" =>
         /\ r.fed # List(p) /\ gid[p] = r.id /\ ~cache[User(p)].has
         /\ gb[r.id] = Client(p)
    /\ pc[p] = "revokeOld" => r.id # None
    /\ pc[p] \in {"revokeOld", "reset"} => r.state = "orphan"
    /\ pc[p] = "reset" => r.id = None \/ gb[r.id].status = "revoked"

Inv ==
  /\ TypeOK /\ MutexInv /\ JobInv /\ RowInv /\ HolderInv
  /\ GrantRecorded /\ CachedTokenCurrent /\ TokenScopedToCall /\ EveryKeyAccounted

\* What KeysOnRing rests on besides: only a key that was made can be lost.
StrayInv == \A i \in stray : gb[i].status # "unused"
=============================================================================
