------------------------------ MODULE Upstream ------------------------------
(***************************************************************************)
(* The calls to GBrain and the credential each connection keeps for them.  *)
(*                                                                         *)
(* A connection is a Client (api/adapter/gbrain/client.go), which keeps a  *)
(* bearer token, or the AdminClient (admin_client.go), which keeps a       *)
(* session cookie; "token" is either.  Concurrent calls share it: one that *)
(* finds none, or one about to expire, fetches another with the mutex      *)
(* held.  A call answered 401 drops the token it used, if it is still the  *)
(* cached one, and is tried once more; the AdminClient logs in anew for    *)
(* the second attempt whatever is cached.                                  *)
(*                                                                         *)
(* GBrain is external: it refuses a token that is no longer valid before   *)
(* it executes anything, and executes a request it accepts once.  Its      *)
(* answer may be lost or be an error all the same.  BearerToken is the     *)
(* first half of a call, up to the token.                                  *)
(***************************************************************************)
EXTENDS Naturals

CONSTANTS
  Conns,
  Admin,    \* the connections that are AdminClients
  Fetches,  \* how many tokens GBrain may issue: a bound
  Calls,    \* slots for concurrent calls
  None

ASSUME AdminAssumption == Admin \subseteq Conns
ASSUME FetchesAssumption == Fetches \in Nat
ASSUME NoneAssumption == None \notin Nat \union Calls \union Conns

VARIABLES
  endpoint,  \* the connections that have discovered the token endpoint
  cache,     \* accessToken and tokenExpiry; sessionCookie and sessionExpiry
  mu,        \* tokenMu, sessionMu: held across a fetch
  made,      \* how many tokens GBrain has issued, numbered from 1 (external)
  valid,     \* those it accepts
  pc, job,   \* the calls
  runs,      \* how often GBrain has executed the call: history
  answer     \* how the last call of the slot ended

vars == <<endpoint, cache, mu, made, valid, pc, job, runs, answer>>
gbrain == <<made, valid>>

-----------------------------------------------------------------------------
Tokens == 1..Fetches

\* fresh: more than tokenRefreshSkew is left.
NoToken == [tok |-> None, fresh |-> FALSE]
Cached  == {NoToken} \union [tok : Tokens, fresh : BOOLEAN]

\* attempt: 0, then 1; tok: the token this attempt uses; refused: the token
\* that was answered 401.
NoJob == [conn |-> None, attempt |-> 0, tok |-> None, refused |-> None]
Job   == {NoJob} \union [conn : Conns, attempt : {0, 1}, tok : Tokens \union {None},
                         refused : Tokens \union {None}]

TypeOK ==
  /\ endpoint \subseteq Conns
  /\ cache \in [Conns -> Cached]
  /\ mu \in [Conns -> Calls \union {None}]
  /\ made \in 0..Fetches /\ valid \subseteq 1..made
  /\ pc \in [Calls -> {"idle", "token", "fetch", "send", "answer", "drop"}]
  /\ job \in [Calls -> Job]
  /\ \A p \in Calls : pc[p] # "idle" => job[p].conn \in Conns
  /\ runs \in [Calls -> 0..2]
  /\ answer \in [Calls -> {"idle", "ok", "failed"}]

Init ==
  /\ endpoint = {}
  /\ cache = [c \in Conns |-> NoToken]
  /\ mu = [c \in Conns |-> None]
  /\ made = 0 /\ valid = {}
  /\ pc = [p \in Calls |-> "idle"]
  /\ job = [p \in Calls |-> NoJob]
  /\ runs = [p \in Calls |-> 0]
  /\ answer = [p \in Calls |-> "idle"]

Goto(p, l) == pc' = [pc EXCEPT ![p] = l]

Return(p, result) ==
  /\ Goto(p, "idle")
  /\ job' = [job EXCEPT ![p] = NoJob]
  /\ answer' = [answer EXCEPT ![p] = result]

Conn(p) == job[p].conn

\* adminSession(ctx, attempt > 0): a retry does not use what is cached.
Forced(p) == Conn(p) \in Admin /\ job[p].attempt = 1

Usable(p) == cache[Conn(p)].fresh /\ ~Forced(p)

-----------------------------------------------------------------------------
(* callMCP, doJSON.                                                        *)

Begin(p, c) ==
  /\ pc[p] = "idle"
  /\ Goto(p, "token")
  /\ job' = [job EXCEPT ![p] = [NoJob EXCEPT !.conn = c]]
  /\ runs' = [runs EXCEPT ![p] = 0]
  /\ UNCHANGED <<endpoint, cache, mu, gbrain, answer>>

\* token, adminSession: what is cached has time left.
UseCached(p) ==
  /\ pc[p] = "token" /\ mu[Conn(p)] = None /\ Usable(p)
  /\ job' = [job EXCEPT ![p].tok = cache[Conn(p)].tok]
  /\ Goto(p, "send")
  /\ UNCHANGED <<endpoint, cache, mu, gbrain, runs, answer>>

BeginFetch(p) ==
  /\ pc[p] = "token" /\ mu[Conn(p)] = None /\ ~Usable(p)
  /\ mu' = [mu EXCEPT ![Conn(p)] = p]
  /\ Goto(p, "fetch")
  /\ UNCHANGED <<endpoint, cache, gbrain, job, runs, answer>>

\* discoverTokenEndpoint, once in the life of a Client.
Discover(p) ==
  /\ pc[p] = "fetch" /\ Conn(p) \notin endpoint \union Admin
  /\ endpoint' = endpoint \union {Conn(p)}
  /\ UNCHANGED <<cache, mu, gbrain, pc, job, runs, answer>>

\* The new token is kept with the time it has left, which may be too little.
Fetched(p) ==
  LET c == Conn(p)  t == made + 1 IN
  /\ pc[p] = "fetch" /\ c \in endpoint \union Admin /\ made < Fetches
  /\ made' = t /\ valid' = valid \union {t}
  /\ \E f \in BOOLEAN : cache' = [cache EXCEPT ![c] = [tok |-> t, fresh |-> f]]
  /\ mu' = [mu EXCEPT ![c] = None]
  /\ job' = [job EXCEPT ![p].tok = t]
  /\ Goto(p, "send")
  /\ UNCHANGED <<endpoint, runs, answer>>

Mutant_FetchFails(p) ==
  /\ pc[p] = "fetch"
  /\ Return(p, "failed")
  /\ UNCHANGED <<endpoint, cache, mu, gbrain, runs>>

\* Discovery, the token endpoint or the login fails; the deferred Unlock runs
\* and what is cached stays.
FetchFails(p) ==
  /\ pc[p] = "fetch"
  /\ mu' = [mu EXCEPT ![Conn(p)] = None]
  /\ Return(p, "failed")
  /\ UNCHANGED <<endpoint, cache, gbrain, runs>>

\* GBrain accepts the token and executes the call.
Executed(p) ==
  /\ pc[p] = "send" /\ job[p].tok \in valid
  /\ runs' = [runs EXCEPT ![p] = @ + 1]
  /\ Goto(p, "answer")
  /\ UNCHANGED <<endpoint, cache, mu, gbrain, job, answer>>

\* The first 401; the second is an error like any other (CallFails).
Unauthorized(p) ==
  /\ pc[p] = "send" /\ job[p].tok \notin valid /\ job[p].attempt = 0
  /\ job' = [job EXCEPT ![p].refused = job[p].tok]
  /\ Goto(p, "drop")
  /\ UNCHANGED <<endpoint, cache, mu, gbrain, runs, answer>>

\* The cached token dropped whichever it is.
Mutant_Invalidate(p) ==
  LET c == Conn(p) IN
  /\ pc[p] = "drop" /\ mu[c] = None
  /\ cache' = [cache EXCEPT ![c] = NoToken]
  /\ job' = [job EXCEPT ![p].attempt = 1, ![p].tok = None]
  /\ Goto(p, "token")
  /\ UNCHANGED <<endpoint, mu, gbrain, runs, answer>>

\* Nothing dropped: the second attempt finds the refused token again.
MutantB_Invalidate(p) ==
  LET c == Conn(p) IN
  /\ pc[p] = "drop" /\ mu[c] = None
  /\ job' = [job EXCEPT ![p].attempt = 1, ![p].tok = None]
  /\ Goto(p, "token")
  /\ UNCHANGED <<endpoint, cache, mu, gbrain, runs, answer>>

\* invalidateToken, invalidateSession, and on to the second attempt.
Invalidate(p) ==
  LET c == Conn(p) IN
  /\ pc[p] = "drop" /\ mu[c] = None
  /\ cache' = IF cache[c].tok = job[p].refused
              THEN [cache EXCEPT ![c] = NoToken] ELSE cache
  /\ job' = [job EXCEPT ![p].attempt = 1, ![p].tok = None]
  /\ Goto(p, "token")
  /\ UNCHANGED <<endpoint, mu, gbrain, runs, answer>>

Succeed(p) ==
  /\ pc[p] = "answer"
  /\ Return(p, "ok")
  /\ UNCHANGED <<endpoint, cache, mu, gbrain, runs>>

\* Any failure is tried once more.
Mutant_CallFails(p) ==
  /\ pc[p] \in {"send", "answer"}
  /\ IF job[p].attempt = 0
     THEN /\ job' = [job EXCEPT ![p].attempt = 1, ![p].tok = None]
          /\ Goto(p, "token") /\ UNCHANGED answer
     ELSE Return(p, "failed")
  /\ UNCHANGED <<endpoint, cache, mu, gbrain, runs>>

\* No answer within the deadline, an error status, a body that cannot be
\* decoded or does not confirm what was asked, or the caller has gone.
CallFails(p) ==
  /\ pc[p] \in {"send", "answer"}
  /\ Return(p, "failed")
  /\ UNCHANGED <<endpoint, cache, mu, gbrain, runs>>

-----------------------------------------------------------------------------
(* What happens to the tokens meanwhile.                                   *)

Age(c) ==
  /\ cache[c].fresh
  /\ cache' = [cache EXCEPT ![c].fresh = FALSE]
  /\ UNCHANGED <<endpoint, mu, gbrain, pc, job, runs, answer>>

\* Expired, revoked, or forgotten by a GBrain that restarted (external).
Die(t) ==
  /\ t \in valid
  /\ valid' = valid \ {t}
  /\ UNCHANGED <<endpoint, cache, mu, made, pc, job, runs, answer>>

\* Without the expiry.
Mutant_Clear(c) ==
  /\ c \notin Admin /\ mu[c] = None /\ cache[c] # NoToken
  /\ cache' = [cache EXCEPT ![c].tok = None]
  /\ UNCHANGED <<endpoint, mu, gbrain, pc, job, runs, answer>>

\* clearBearerToken, after the reader has been rescoped.
Clear(c) ==
  /\ c \notin Admin /\ mu[c] = None /\ cache[c] # NoToken
  /\ cache' = [cache EXCEPT ![c] = NoToken]
  /\ UNCHANGED <<endpoint, mu, gbrain, pc, job, runs, answer>>

\* The process stops; nobody hears the end of the calls that were open.
Restart ==
  /\ endpoint' = {}
  /\ cache' = [c \in Conns |-> NoToken]
  /\ mu' = [c \in Conns |-> None]
  /\ pc' = [p \in Calls |-> "idle"]
  /\ job' = [p \in Calls |-> NoJob]
  /\ answer' = [p \in Calls |-> IF pc[p] = "idle" THEN answer[p] ELSE "failed"]
  /\ UNCHANGED <<gbrain, runs>>

-----------------------------------------------------------------------------
\* The steps that need the mutex, and those that do not.
Locks(p) == UseCached(p) \/ BeginFetch(p) \/ Invalidate(p)

Step(p) ==
  \/ Locks(p) \/ Discover(p) \/ FetchFails(p) \/ Executed(p) \/ Unauthorized(p)
  \/ Fetched(p) \/ Succeed(p) \/ CallFails(p)

Next ==
  \/ \E p \in Calls : Step(p) \/ \E c \in Conns : Begin(p, c)
  \/ \E c \in Conns : Age(c) \/ Clear(c)
  \/ \E t \in Tokens : Die(t)
  \/ Restart

Spec == Init /\ [][Next]_vars

\* The HTTP clients have a deadline of 15 s, and sync.Mutex hands the lock to
\* a waiter that has waited long enough.
Fairness == \A p \in Calls : SF_vars(Locks(p)) /\ WF_vars(Step(p))

FairSpec == Spec /\ Fairness

-----------------------------------------------------------------------------
(* Properties.                                                             *)

Remote == INSTANCE RemoteCall WITH
  phase <- [p \in Calls |-> IF pc[p] = "idle" THEN answer[p] ELSE "open"],
  effect <- runs

\* Retrying after a 401 and fetching tokens do not show: seen from its caller
\* every call is a RemoteCall, executed at most once, and executed if it
\* succeeds (callMCP, doJSON).
OneEffect == Remote!Spec

\* A second attempt never carries the token of the first, whichever call has
\* replaced it meanwhile, so a call that fails with 401 has had two tokens
\* refused (invalidateToken, adminSession).
RetryHasNewToken ==
  \A p \in Calls :
    job[p].attempt = 1 /\ pc[p] \in {"send", "answer"} => job[p].tok # job[p].refused

\* Calls that are refused together do not drop or replace the token one of
\* them has just fetched: a Client lets go of a token that GBrain accepts and
\* that has time left only when it is told to (the comparison in
\* invalidateToken, the mutex in token).
GoodTokenKept ==
  [][\A c \in Conns \ Admin :
       cache[c].fresh /\ cache[c].tok \in valid /\ cache'[c].tok # cache[c].tok =>
         Clear(c) \/ Restart]_vars

\* Every call ends: no path keeps the mutex, and a call is tried twice at most.
CallsEnd == \A p \in Calls : pc[p] # "idle" ~> pc[p] = "idle"
-----------------------------------------------------------------------------
(* What the safety properties above rest on.                               *)

\* GBrain has issued every token that is cached or used.
Issued == 1..made

TokenInv ==
  /\ \A c \in Conns : cache[c].tok \in Issued \union {None}
  /\ \A p \in Calls :
       /\ job[p].tok \in Issued \union {None}
       /\ job[p].refused \in (Issued \ valid) \union {None}

\* A call has been executed when it waits for its answer, and not before; its
\* second attempt knows the refused token, which nobody has cached again.
CallInv ==
  \A p \in Calls :
    /\ pc[p] = "answer" => runs[p] = 1
    /\ pc[p] \in {"token", "fetch", "send", "drop"} => runs[p] = 0
    /\ runs[p] \in {0, 1}
    /\ pc[p] \in {"send", "answer"} => job[p].tok # None
    /\ pc[p] = "drop" => job[p].refused # None
    /\ job[p].attempt = 1 => /\ pc[p] \notin {"idle", "drop"}
                             /\ job[p].refused # None
                             /\ cache[Conn(p)].tok # job[p].refused

\* The mutex of a connection is held by the one call that fetches a token for
\* it, which a Client does only when it has none with time left.
LockInv ==
  /\ \A p \in Calls, c \in Conns : mu[c] = p <=> pc[p] = "fetch" /\ Conn(p) = c
  /\ \A p \in Calls : pc[p] = "fetch" /\ Conn(p) \notin Admin => ~cache[Conn(p)].fresh

Inv == TypeOK /\ TokenInv /\ CallInv /\ LockInv /\ RetryHasNewToken
=============================================================================
