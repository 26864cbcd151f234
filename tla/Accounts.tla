------------------------------ MODULE Accounts ------------------------------
(***************************************************************************)
(* Accounts, sessions and the limit on login attempts                      *)
(* (api/usecase/interactor/auth.go, api/adapter/authentication/            *)
(* rate_limiter.go, repository/auth.go, api/api/middleware/session.go).    *)
(*                                                                         *)
(* The limiter counts attempts in memory, by address and email, in windows *)
(* of fixed length that begin with their first attempt.  A login reads the *)
(* clock before it takes the limiter's mutex, so attempts may reach it out *)
(* of order, and a success deletes the window whoever else has counted in  *)
(* it.  An authenticated request looks the session up, then the user, and  *)
(* is then served; either may change in between.                           *)
(***************************************************************************)
EXTENDS Integers

CONSTANTS
  Emails,    \* each with one address it is used from: the limiter's keys
  Sessions,  \* sessions that may be made: a bound
  Calls,     \* slots for concurrent requests
  Limit, Window,
  Lag,       \* how far a login's clock may be behind at the limiter: a bound
  End,       \* the last moment: a bound
  None

ASSUME LimitAssumption == {Limit, Window} \subseteq Nat \ {0}
ASSUME BoundAssumption == {Lag, End} \subseteq Nat
ASSUME NoneAssumption == None \notin Emails \union Sessions

Time == 0..End

VARIABLES
  now,       \* the clock
  user,      \* users and auth_identities, by email; users.state
  sess,      \* sessions
  attempts,  \* the limiter's windows, by key
  cleaned,   \* lastCleanup
  pc, job,   \* the requests
  tries      \* history: how many attempts were let in, by key, at a moment or
             \*   later, since the last Reset of the key or start of the process

vars == <<now, user, sess, attempts, cleaned, pc, job, tries>>
limiter == <<attempts, cleaned, tries>>

-----------------------------------------------------------------------------
Never == -1   \* the zero time

NoWindow == [start |-> Never, n |-> 0]
\* ended: revoked_at is set, or expires_at has passed.
NoSession == [email |-> None, ended |-> FALSE]

\* time: the clock a login has read; barred: the request was begun with a
\* session that had ended, or by a suspended user (history).
NoJob == [key |-> None, time |-> 0, sess |-> None, barred |-> FALSE]

TypeOK ==
  /\ now \in Time
  /\ user \in [Emails -> {"none", "active", "suspended"}]
  /\ sess \in [Sessions -> {NoSession} \union [email : Emails, ended : BOOLEAN]]
  /\ attempts \in [Emails -> {NoWindow} \union [start : Time, n : 1..Limit]]
  /\ cleaned \in Time \union {Never}
  /\ pc \in [Calls -> {"idle", "allow", "check", "create", "reset",
                       "verify", "user", "serve"}]
  /\ job \in [Calls -> [key : Emails \union {None}, time : Time,
                        sess : Sessions \union {None},
                        barred : BOOLEAN]]
  /\ tries \in [Emails -> [Time -> Nat]]

Nobody == [t \in Time |-> 0]

Init ==
  /\ now = 0
  /\ user = [e \in Emails |-> "none"]
  /\ sess = [i \in Sessions |-> NoSession]
  /\ attempts = [k \in Emails |-> NoWindow]
  /\ cleaned = Never
  /\ pc = [p \in Calls |-> "idle"]
  /\ job = [p \in Calls |-> NoJob]
  /\ tries = [k \in Emails |-> Nobody]

Goto(p, l) == pc' = [pc EXCEPT ![p] = l]

Return(p) ==
  /\ Goto(p, "idle")
  /\ job' = [job EXCEPT ![p] = NoJob]

Made(i) == sess[i] # NoSession
Email(p) == job[p].key

NewSession(i, e) ==
  /\ ~Made(i)
  /\ sess' = [sess EXCEPT ![i] = [email |-> e, ended |-> FALSE]]

-----------------------------------------------------------------------------
(* The clock, and users.state.                                             *)

Tick ==
  /\ now < End
  /\ \A p \in Calls : pc[p] = "allow" => now - job[p].time < Lag
  /\ now' = now + 1
  /\ UNCHANGED <<user, sess, limiter, pc, job>>

Expire(i) ==
  /\ Made(i) /\ ~sess[i].ended
  /\ sess' = [sess EXCEPT ![i].ended = TRUE]
  /\ UNCHANGED <<now, user, limiter, pc, job>>

\* users.state, which nothing in the program changes (external).
Suspend(e) ==
  /\ user[e] = "active"
  /\ user' = [user EXCEPT ![e] = "suspended"]
  /\ UNCHANGED <<now, sess, limiter, pc, job>>

-----------------------------------------------------------------------------
(* Register and Login.                                                     *)

\* User, identity and session in one transaction; the email is unique.
Register(e, i) ==
  /\ user[e] = "none"
  /\ user' = [user EXCEPT ![e] = "active"]
  /\ NewSession(i, e)
  /\ UNCHANGED <<now, limiter, pc, job>>

BeginLogin(p, k) ==
  /\ pc[p] = "idle"
  /\ job' = [job EXCEPT ![p] = [NoJob EXCEPT !.key = k, !.time = now]]
  /\ Goto(p, "allow")
  /\ UNCHANGED <<now, user, sess, limiter>>

Over(w, t) == w.start = Never \/ t - w.start >= Window

CleanupDue(t) == cleaned = Never \/ t - cleaned >= Window

\* All windows go.
Mutant_Swept(t) ==
  IF CleanupDue(t) THEN [k \in Emails |-> NoWindow] ELSE attempts

\* The windows left by Allow's clean-up at t.
Swept(t) ==
  IF CleanupDue(t)
  THEN [k \in Emails |-> IF Over(attempts[k], t) THEN NoWindow ELSE attempts[k]]
  ELSE attempts

\* The window an attempt at t counts in.
Counting(k, t) ==
  LET w == Swept(t)[k] IN IF Over(w, t) THEN [start |-> t, n |-> 0] ELSE w

Sweep(t) == cleaned' = IF CleanupDue(t) THEN t ELSE cleaned

Count(k, t) ==
  tries' = [tries EXCEPT ![k] = [u \in Time |-> IF u <= t THEN @[u] + 1 ELSE @[u]]]

\* One attempt too many.
Mutant_Allowed(p) ==
  LET k == job[p].key  t == job[p].time  w == Counting(k, t) IN
  /\ pc[p] = "allow" /\ w.n <= Limit
  /\ attempts' = [Swept(t) EXCEPT ![k] = [w EXCEPT !.n = @ + 1]]
  /\ Sweep(t)
  /\ Count(k, t)
  /\ Goto(p, "check")
  /\ UNCHANGED <<now, user, sess, job>>

Allowed(p) ==
  LET k == job[p].key  t == job[p].time  w == Counting(k, t) IN
  /\ pc[p] = "allow" /\ w.n < Limit
  /\ attempts' = [Swept(t) EXCEPT ![k] = [w EXCEPT !.n = @ + 1]]
  /\ Sweep(t)
  /\ Count(k, t)
  /\ Goto(p, "check")
  /\ UNCHANGED <<now, user, sess, job>>

\* An attempt that is refused begins the window anew.
Mutant_Refused(p) ==
  LET k == job[p].key  t == job[p].time IN
  /\ pc[p] = "allow" /\ Counting(k, t).n >= Limit
  /\ attempts' = [Swept(t) EXCEPT ![k].start = t]
  /\ Sweep(t)
  /\ Return(p)
  /\ UNCHANGED <<now, user, sess, tries>>

\* ErrRateLimited; the attempt is not counted.
Refused(p) ==
  LET k == job[p].key  t == job[p].time IN
  /\ pc[p] = "allow" /\ Counting(k, t).n >= Limit
  /\ attempts' = Swept(t)
  /\ Sweep(t)
  /\ Return(p)
  /\ UNCHANGED <<now, user, sess, tries>>

\* An attempt with a key that is not followed: it may clean up.
Elsewhere(t) ==
  /\ now - Lag <= t /\ t <= now /\ CleanupDue(t)
  /\ attempts' = Swept(t)
  /\ Sweep(t)
  /\ UNCHANGED <<now, user, sess, pc, job, tries>>

\* The identity, the password and the user's state are as they should be.
Check(p) ==
  /\ pc[p] = "check" /\ user[Email(p)] = "active"
  /\ Goto(p, "create")
  /\ UNCHANGED <<now, user, sess, limiter, job>>

CreateSession(p, i) ==
  /\ pc[p] = "create"
  /\ NewSession(i, Email(p))
  /\ Goto(p, "reset")
  /\ UNCHANGED <<now, user, limiter, job>>

Reset(p) ==
  /\ pc[p] = "reset"
  /\ attempts' = [attempts EXCEPT ![job[p].key] = NoWindow]
  /\ tries' = [tries EXCEPT ![job[p].key] = Nobody]
  /\ Return(p)
  /\ UNCHANGED <<now, user, sess, cleaned>>

-----------------------------------------------------------------------------
(* Authenticate, and what it lets through.                                 *)

BeginCall(p, i) ==
  /\ pc[p] = "idle" /\ Made(i)
  /\ job' = [job EXCEPT ![p] =
               [NoJob EXCEPT !.sess = i,
                             !.barred = sess[i].ended \/ user[sess[i].email] # "active"]]
  /\ Goto(p, "verify")
  /\ UNCHANGED <<now, user, sess, limiter>>

\* SELECT ... WHERE revoked_at IS NULL AND expires_at > now.
Verify(p) ==
  /\ pc[p] = "verify" /\ ~sess[job[p].sess].ended
  /\ Goto(p, "user")
  /\ UNCHANGED <<now, user, sess, limiter, job>>

\* The user's state is not looked at.
Mutant_FindUser(p) ==
  /\ pc[p] = "user"
  /\ Goto(p, "serve")
  /\ UNCHANGED <<now, user, sess, limiter, job>>

FindUser(p) ==
  /\ pc[p] = "user" /\ user[sess[job[p].sess].email] = "active"
  /\ Goto(p, "serve")
  /\ UNCHANGED <<now, user, sess, limiter, job>>

Serve(p) ==
  /\ pc[p] = "serve"
  /\ Return(p)
  /\ UNCHANGED <<now, user, sess, limiter>>

\* Logout is served like any other request, and ends its own session.
Logout(p) ==
  /\ pc[p] = "serve"
  /\ sess' = [sess EXCEPT ![job[p].sess].ended = TRUE]
  /\ Return(p)
  /\ UNCHANGED <<now, user, limiter>>

\* Refused, or a statement fails; an attempt stays counted.  Nothing comes
\* between a session that was made and the Reset.
Fails(p) ==
  /\ pc[p] \notin {"idle", "allow", "reset"}
  /\ Return(p)
  /\ UNCHANGED <<now, user, sess, limiter>>

\* The limiter's windows are in memory.
Restart ==
  /\ attempts' = [k \in Emails |-> NoWindow]
  /\ cleaned' = Never
  /\ tries' = [k \in Emails |-> Nobody]
  /\ pc' = [p \in Calls |-> "idle"]
  /\ job' = [p \in Calls |-> NoJob]
  /\ UNCHANGED <<now, user, sess>>

-----------------------------------------------------------------------------
Request(p) ==
  \/ \E k \in Emails : BeginLogin(p, k)
  \/ \E i \in Sessions : CreateSession(p, i) \/ BeginCall(p, i)
  \/ Allowed(p) \/ Refused(p) \/ Check(p) \/ Reset(p)
  \/ Verify(p) \/ FindUser(p) \/ Serve(p) \/ Logout(p) \/ Fails(p)

Next ==
  \/ Tick \/ Restart
  \/ \E i \in Sessions : Expire(i)
  \/ \E t \in Time : Elsewhere(t)
  \/ \E e \in Emails : \/ Suspend(e) \/ \E i \in Sessions : Register(e, i)
  \/ \E p \in Calls : Request(p)

Spec == Init /\ [][Next]_vars

-----------------------------------------------------------------------------
(* Properties.                                                             *)

\* The attempts of a key that were let in at u or later, since its last Reset,
\* and those at the moments from..to.
Since(k, u) == IF u > End THEN 0 ELSE tries[k][IF u < 0 THEN 0 ELSE u]
Tried(k, from, to) == Since(k, from) - Since(k, to + 1)

\* However attempts are timed, and however late they reach the limiter, a key
\* has fewer than two limits of them in any span a little shorter than a
\* window, until one succeeds or the process restarts: the end of one window
\* and the beginning of the next is the worst case (Allow).
AttemptsBounded ==
  \A k \in Emails, t \in Time : Tried(k, t, t + Window - 2 * Lag - 1) < 2 * Limit

\* Nobody is kept out for longer than a window, but for the lag: an attempt is
\* refused only if Limit attempts of its key were let in from a window's length
\* and a lag before its time to a lag after it, those before a success not
\* counted (Allow, Reset).
RefusalJustified ==
  [][\A p \in Calls :
       Refused(p) => LET t == job[p].time IN
                     Tried(job[p].key, t - Window - Lag + 1, t + Lag) >= Limit]_vars

\* A request begun after its session was logged out or had expired, or by a
\* suspended user, is never served, whatever happens
\* between the two reads (Authenticate).
BarredIsOut == \A p \in Calls : pc[p] = "serve" => ~job[p].barred
-----------------------------------------------------------------------------
(* What BarredIsOut rests on.                                              *)

\* Sessions are made for users that exist, and a request has a session or the
\* email it needs.
SessionInv ==
  /\ \A i \in Sessions : Made(i) => user[sess[i].email] # "none"
  /\ \A p \in Calls :
       /\ pc[p] \in {"allow", "check", "create", "reset"} => Email(p) \in Emails
       /\ pc[p] \in {"verify", "user", "serve"} =>
            job[p].sess \in Sessions /\ Made(job[p].sess)
       /\ pc[p] = "create" => user[Email(p)] # "none"

\* What barred a request still does: no session lives again, and no user does.
BarredInv ==
  \A p \in Calls :
    job[p].barred =>
      /\ pc[p] = "verify" => LET s == sess[job[p].sess] IN s.ended \/ user[s.email] # "active"
      /\ pc[p] = "user" => user[sess[job[p].sess].email] # "active"

Inv == TypeOK /\ SessionInv /\ BarredInv /\ BarredIsOut

-----------------------------------------------------------------------------
(* What AttemptsBounded and RefusalJustified rest on.                      *)

\* An attempt reaches the limiter with a clock at most Lag behind.
ClockInv ==
  \A p \in Calls : pc[p] = "allow" => now - Lag <= job[p].time /\ job[p].time <= now

Span == Window - 2 * Lag

\* A span that an attempt may still fall into, or a later one.
Open(from) == from + Span > now - Lag

\* What is recorded of a key: nothing in the future, and no attempt at u or
\* later that is not one at an earlier moment or later.
RecordInv(k) ==
  /\ \A u \in Time : u > now => Since(k, u) = 0
  /\ \A u, v \in Time : u <= v => Since(k, v) <= Since(k, u)
  /\ \A from \in Time : Tried(k, from, from + Span - 1) < 2 * Limit

\* A key without a window: the last one it had is over, and left less than a
\* limit behind in the spans that are open.
NoWindowInv(k) ==
  attempts[k] = NoWindow =>
    \A from \in Time : Open(from) => Tried(k, from, from + Span - 1) < Limit

\* A key with a window: its attempts are recorded, none of those before it is
\* later than Lag after its start, and in an open span they are less than a
\* limit, or one of the window's own is outside of the span.
WindowInv(k) ==
  LET w == attempts[k] IN
  w # NoWindow =>
    /\ w.start <= now
    /\ Since(k, w.start - Lag) >= w.n
    /\ \A u \in Time : u > w.start + Lag => Since(k, u) < w.n
    /\ \A from \in Time : Open(from) => Tried(k, from, from + Span - 1) < Limit + w.n

LimiterInv ==
  /\ ClockInv
  /\ \A k \in Emails : RecordInv(k) /\ NoWindowInv(k) /\ WindowInv(k)
=============================================================================
