---------------------------- MODULE OAuthTokens ----------------------------
(***************************************************************************)
(* Authorization codes, token pairs and CLI tokens of brainhub's own OAuth *)
(* server (api/usecase/interactor/mcp.go, api/adapter/database/repository/ *)
(* mcp.go).                                                                *)
(*                                                                         *)
(* An approved code is exchanged once for an access and a refresh token; a *)
(* refresh token is exchanged, in a transaction, for the next pair; POST   *)
(* /revoke revokes all that its client has.  Requests interleave between   *)
(* their statements.  A transaction shows nothing before it commits, and   *)
(* holds the row it has updated; the statement of a revocation acts on the *)
(* rows its snapshot has, once nobody holds them (READ COMMITTED).         *)
(*                                                                         *)
(* A user has one OAuth client, made once and never revoked by this code.  *)
(* A request that is refused at its first look is left out, and so are the *)
(* PKCE value and the redirect URI, on which a refusal may depend.         *)
(***************************************************************************)
EXTENDS Integers, FiniteSets

CONSTANTS
  Users,
  Codes,   \* authorization codes that may be made: a bound
  Pairs,   \* token pairs that may be made: a bound
  CLI,     \* CLI tokens that may be made: a bound
  Calls,   \* slots for concurrent requests
  None

ASSUME NoneAssumption == None \notin Users \union Codes \union Pairs

VARIABLES
  suspended,  \* users.state; nothing in the program changes it (external)
  client,     \* the users who have their claude-web client
  code,       \* mcp_authorization_codes; fresh: expires_at is in the future
  pair,       \* mcp_tokens, an access and a refresh token made together
  cli,        \* mcp_tokens of type cli
  pc, job,    \* the requests
  ended,      \* history: pairs that existed when a revocation now over began
  late        \* history: codes with a pair made while a revocation went on

vars == <<suspended, client, code, pair, cli, pc, job, ended, late>>
ghosts == <<ended, late>>

-----------------------------------------------------------------------------
Status == {"none", "live", "revoked"}

NoCode == [state |-> "none", user |-> None, fresh |-> TRUE]
Code   == {NoCode} \union [state : {"open", "used"}, user : Users, fresh : BOOLEAN]

\* from: the code the pair descends from (history); fresh: the refresh token
\* has not expired.
NoPair == [from |-> None, access |-> "none", refresh |-> "none", fresh |-> TRUE]
Pair   == {NoPair} \union [from : Codes, access : {"live", "revoked"},
                           refresh : {"live", "revoked"}, fresh : BOOLEAN]

NoCLI == [state |-> "none", user |-> None]

\* old: the pair whose refresh token is presented; snap: the pairs a
\* revocation has seen.
NoJob == [op |-> "none", code |-> None, old |-> None, snap |-> {}]
Job   == {NoJob} \union
         [op : {"exchange", "refresh", "revoke"}, code : Codes,
          old : Pairs \union {None}, snap : SUBSET Pairs]

TypeOK ==
  /\ suspended \subseteq Users /\ client \subseteq Users
  /\ code \in [Codes -> Code]
  /\ pair \in [Pairs -> Pair]
  /\ cli \in [CLI -> {NoCLI} \union [state : {"live", "revoked"}, user : Users]]
  /\ pc \in [Calls -> {"idle", "consume", "rotate", "insert", "commit", "revoke"}]
  /\ job \in [Calls -> Job]
  /\ ended \subseteq Pairs /\ late \subseteq Codes

Init ==
  /\ suspended = {} /\ client = {}
  /\ code = [c \in Codes |-> NoCode]
  /\ pair = [i \in Pairs |-> NoPair]
  /\ cli = [t \in CLI |-> NoCLI]
  /\ pc = [p \in Calls |-> "idle"]
  /\ job = [p \in Calls |-> NoJob]
  /\ ended = {} /\ late = {}

-----------------------------------------------------------------------------
Made(i) == pair[i].from # None
Owner(i) == code[pair[i].from].user

\* Either token of the pair is not revoked.
Live(i) == pair[i].access = "live" \/ pair[i].refresh = "live"

\* activeClient, and every query that joins users.
Active(u) == u \in client \ suspended

Goto(p, l) == pc' = [pc EXCEPT ![p] = l]

Begin(p, op, c, old, snap, l) ==
  /\ pc[p] = "idle"
  /\ Goto(p, l)
  /\ job' = [job EXCEPT ![p] = [op |-> op, code |-> c, old |-> old, snap |-> snap]]

Return(p) ==
  /\ Goto(p, "idle")
  /\ job' = [job EXCEPT ![p] = NoJob]

\* A refresh token a transaction has updated and not yet committed.
Held(i) ==
  \E p \in Calls : /\ pc[p] \in {"insert", "commit"}
                   /\ job[p].op = "refresh" /\ job[p].old = i

-----------------------------------------------------------------------------
(* Users, clients, codes and CLI tokens.                                   *)

Suspend(u) ==
  /\ suspended' = IF u \in suspended THEN suspended \ {u} ELSE suspended \union {u}
  /\ UNCHANGED <<client, code, pair, cli, pc, job, ghosts>>

\* IssueClient: of two that find none, the one whose INSERT is refused by the
\* unique index returns the other's.
IssueClient(u) ==
  /\ u \notin suspended \union client
  /\ client' = client \union {u}
  /\ UNCHANGED <<suspended, code, pair, cli, pc, job, ghosts>>

Approve(u, c) ==
  /\ Active(u) /\ code[c].state = "none"
  /\ code' = [code EXCEPT ![c] = [state |-> "open", user |-> u, fresh |-> TRUE]]
  /\ UNCHANGED <<suspended, client, pair, cli, pc, job, ghosts>>

ExpireCode(c) ==
  /\ code[c].state = "open" /\ code[c].fresh
  /\ code' = [code EXCEPT ![c].fresh = FALSE]
  /\ UNCHANGED <<suspended, client, pair, cli, pc, job, ghosts>>

ExpirePair(i) ==
  /\ pair[i].refresh = "live" /\ pair[i].fresh
  /\ pair' = [pair EXCEPT ![i].fresh = FALSE]
  /\ UNCHANGED <<suspended, client, code, cli, pc, job, ghosts>>

\* INSERT without the SELECT from users.
Mutant_IssueCLI(u, t) ==
  /\ cli[t] = NoCLI
  /\ cli' = [cli EXCEPT ![t] = [state |-> "live", user |-> None]]
  /\ UNCHANGED <<suspended, client, code, pair, pc, job, ghosts>>

IssueCLI(u, t) ==
  /\ u \notin suspended /\ cli[t] = NoCLI
  /\ cli' = [cli EXCEPT ![t] = [state |-> "live", user |-> u]]
  /\ UNCHANGED <<suspended, client, code, pair, pc, job, ghosts>>

\* By the session of its own user.
RevokeCLI(t) ==
  /\ cli[t].state = "live" /\ cli[t].user \notin suspended
  /\ cli' = [cli EXCEPT ![t].state = "revoked"]
  /\ UNCHANGED <<suspended, client, code, pair, pc, job, ghosts>>

-----------------------------------------------------------------------------
(* ExchangeAuthorizationCode.                                              *)

BeginExchange(p, c) ==
  /\ code[c].state = "open" /\ Active(code[c].user)
  /\ Begin(p, "exchange", c, None, {}, "consume")
  /\ UNCHANGED <<suspended, client, code, pair, cli, ghosts>>

\* UPDATE ... WHERE consumed_at IS NULL AND expires_at > now, committed at
\* once: a failure further on has used the code up.
Mutant_Consume(p) ==
  /\ pc[p] = "consume" /\ code[job[p].code].fresh
  /\ code' = [code EXCEPT ![job[p].code].state = "used"]
  /\ Goto(p, "insert")
  /\ UNCHANGED <<suspended, client, pair, cli, job, ghosts>>

Consume(p) ==
  LET c == job[p].code IN
  /\ pc[p] = "consume" /\ code[c].state = "open" /\ code[c].fresh
  /\ code' = [code EXCEPT ![c].state = "used"]
  /\ Goto(p, "insert")
  /\ UNCHANGED <<suspended, client, pair, cli, job, ghosts>>

\* RefreshAccessToken: the clock is read before the transaction.
BeginRefresh(p, i) ==
  /\ pair[i].refresh = "live" /\ pair[i].fresh /\ Active(Owner(i))
  /\ Begin(p, "refresh", pair[i].from, i, {}, "rotate")
  /\ UNCHANGED <<suspended, client, code, pair, cli, ghosts>>

\* UPDATE ... WHERE revoked_at IS NULL, which waits for another that has the
\* row; it is seen by others at the commit.
Rotate(p) ==
  /\ pc[p] = "rotate" /\ pair[job[p].old].refresh = "live" /\ ~Held(job[p].old)
  /\ Goto(p, "insert")
  /\ UNCHANGED <<suspended, client, code, pair, cli, job, ghosts>>

\* insertMCPTokenPair: INSERT ... SELECT from the active user's client.
Insert(p) ==
  /\ pc[p] = "insert" /\ Active(code[job[p].code].user)
  /\ Goto(p, "commit")
  /\ UNCHANGED <<suspended, client, code, pair, cli, job, ghosts>>

\* A revocation of u's tokens has taken its snapshot.
Revoking(u) ==
  \E q \in Calls : pc[q] = "revoke" /\ code[job[q].code].user = u

\* The commit of the exchange or of the rotation.
Commit(p, n) ==
  LET c == job[p].code IN
  /\ pc[p] = "commit" /\ ~Made(n)
  /\ pair' = [i \in Pairs |->
                IF i = n THEN [from |-> c, access |-> "live", refresh |-> "live",
                               fresh |-> TRUE]
                ELSE IF i = job[p].old THEN [pair[i] EXCEPT !.refresh = "revoked"]
                ELSE pair[i]]
  /\ late' = IF Revoking(code[c].user) THEN late \union {c} ELSE late
  /\ Return(p)
  /\ UNCHANGED <<suspended, client, code, cli, ended>>

-----------------------------------------------------------------------------
(* RevokeToken.                                                            *)

\* Any token of the client, a revoked one too, names its client and user.
BeginRevoke(p, i) ==
  /\ Made(i) /\ Active(Owner(i))
  /\ Begin(p, "revoke", pair[i].from, i,
           {j \in Pairs : Made(j) /\ Owner(j) = Owner(i) /\ Live(j)}, "revoke")
  /\ UNCHANGED <<suspended, client, code, pair, cli, ghosts>>

Dead(i) == [pair[i] EXCEPT !.access = "revoked", !.refresh = "revoked"]

\* UPDATE ... WHERE revoked_at IS NULL, for the rows of the snapshot.
Mutant_RevokeDone(p) ==
  /\ pc[p] = "revoke"
  /\ pair' = [i \in Pairs |-> IF i = job[p].old THEN Dead(i) ELSE pair[i]]
  /\ ended' = ended \union job[p].snap
  /\ Return(p)
  /\ UNCHANGED <<suspended, client, code, cli, late>>

RevokeDone(p) ==
  /\ pc[p] = "revoke" /\ \A i \in job[p].snap : ~Held(i)
  /\ pair' = [i \in Pairs |-> IF i \in job[p].snap THEN Dead(i) ELSE pair[i]]
  /\ ended' = ended \union job[p].snap
  /\ Return(p)
  /\ UNCHANGED <<suspended, client, code, cli, late>>

\* A statement fails or matches no row, or the process stops: what was not
\* committed is rolled back.
Fails(p) ==
  /\ pc[p] # "idle"
  /\ Return(p)
  /\ UNCHANGED <<suspended, client, code, pair, cli, ghosts>>

-----------------------------------------------------------------------------
Account ==
  \/ \E u \in Users : \/ Suspend(u) \/ IssueClient(u)
                      \/ \E c \in Codes : Approve(u, c)
                      \/ \E t \in CLI : IssueCLI(u, t)
  \/ \E c \in Codes : ExpireCode(c)
  \/ \E i \in Pairs : ExpirePair(i)
  \/ \E t \in CLI : RevokeCLI(t)

Request(p) ==
  \/ \E c \in Codes : BeginExchange(p, c)
  \/ \E i \in Pairs : BeginRefresh(p, i) \/ Commit(p, i) \/ BeginRevoke(p, i)
  \/ Consume(p) \/ Rotate(p) \/ Insert(p) \/ RevokeDone(p) \/ Fails(p)

Next == Account \/ \E p \in Calls : Request(p)

Spec == Init /\ [][Next]_vars

-----------------------------------------------------------------------------
(* Properties.                                                             *)

\* The pairs made, directly or by rotation, from one code.
Chain(c) == {i \in Pairs : pair[i].from = c}

\* An approval is worth one refresh token: however often its code and its
\* refresh tokens are presented, at the same time or again, at most one is
\* live, and no failure or suspension loses the last one (Consume, Rotate).
OneRefreshTokenPerGrant ==
  \A c \in Codes :
    LET alive == {i \in Chain(c) : pair[i].refresh = "live"} IN
    /\ Cardinality(alive) <= 1
    /\ Chain(c) = {} \/ alive # {} \/ Chain(c) \intersect ended # {}
    /\ Chain(c) # {} => code[c].state = "used"

\* Once POST /revoke has answered, every token there was when it began is
\* dead for good, and so is all that descends from them, except by a rotation
\* that committed while it was going on (RevokeMCPToken).
RevocationEndsGrants ==
  \A i \in ended :
    /\ ~Live(i)
    /\ pair[i].from \notin late => \A j \in Chain(pair[i].from) : ~Live(j)

-----------------------------------------------------------------------------
(* What the properties rest on: the inductive invariant.                   *)

InTransaction(p) == pc[p] \in {"insert", "commit"}

\* An exchange that has used its code up is the first to make a pair from it;
\* a rotation holds a refresh token that is live.
TransactionInv(p) ==
  LET c == job[p].code  o == job[p].old IN
  /\ code[c].state = "used"
  /\ \/ job[p].op = "exchange" /\ o = None /\ Chain(c) = {}
     \/ job[p].op = "refresh" /\ o \in Chain(c) /\ pair[o].refresh = "live"

\* A revocation has seen every live pair of its user, but those made since.
RevocationInv(p) ==
  LET u == code[job[p].code].user IN
  /\ code[job[p].code].state = "used"
  /\ \A i \in job[p].snap : Made(i) /\ Owner(i) = u
  /\ \A i \in Pairs : Made(i) /\ Owner(i) = u /\ Live(i) =>
       i \in job[p].snap \/ pair[i].from \in late

RequestInv(p) ==
  /\ pc[p] # "idle" => job[p].code \in Codes
  /\ pc[p] = "consume" => job[p].op = "exchange" /\ job[p].old = None
  /\ pc[p] = "rotate" => job[p].op = "refresh" /\ job[p].old \in Chain(job[p].code)
  /\ InTransaction(p) => TransactionInv(p)
  /\ pc[p] = "revoke" => RevocationInv(p)

\* No two transactions are at work on what descends from one code.
OneTransaction ==
  \A p, q \in Calls :
    InTransaction(p) /\ InTransaction(q) /\ job[p].code = job[q].code => p = q

GrantInv(c) ==
  /\ \A i, j \in Chain(c) : pair[i].refresh = "live" /\ pair[j].refresh = "live" => i = j
  /\ Chain(c) = {} \/ Chain(c) \intersect ended # {}
       \/ \E i \in Chain(c) : pair[i].refresh = "live"
  /\ Chain(c) # {} => code[c].state = "used"

EndedInv(i) ==
  /\ Made(i) /\ ~Live(i)
  /\ pair[i].from \notin late => \A j \in Chain(pair[i].from) : ~Live(j)

Inv ==
  /\ TypeOK
  /\ \A p \in Calls : RequestInv(p)
  /\ OneTransaction
  /\ \A c \in Codes : GrantInv(c)
  /\ \A i \in ended : EndedInv(i)
=============================================================================
