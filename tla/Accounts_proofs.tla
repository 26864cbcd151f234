--------------------------- MODULE Accounts_proofs ---------------------------
(***************************************************************************)
(* Proofs about Accounts, for every set of accounts, sessions and requests *)
(* and every limit, window and clock.                                      *)
(***************************************************************************)
EXTENDS Accounts, TLAPS

\* Shapes of the records.
Job == [key : Emails \union {None}, time : Time, sess : Sessions \union {None},
        barred : BOOLEAN]

Session == {NoSession} \union [email : Emails, ended : BOOLEAN]

CallTypes ==
  /\ pc \in [Calls -> {"idle", "allow", "check", "create", "reset",
                       "verify", "user", "serve"}]
  /\ job \in [Calls -> Job]

\* A session that has been made is one of an email.
LEMMA MadeShape ==
  ASSUME TypeOK, NEW i \in Sessions, Made(i)
  PROVE  sess[i] \in [email : Emails, ended : BOOLEAN]
  BY DEF TypeOK, Made

LEMMA NoJobType == NoJob \in Job /\ NoJob.barred = FALSE
  BY BoundAssumption DEF NoJob, Job, Time

LEMMA InitInv == Init => Inv
<1> SUFFICES ASSUME Init PROVE Inv
  OBVIOUS
<1>1. 0 \in Time /\ Nobody \in [Time -> Nat]
  BY BoundAssumption DEF Time, Nobody
<1>2. TypeOK
  BY <1>1, NoJobType DEF Init, TypeOK, Job, Never
<1>3. SessionInv /\ BarredInv /\ BarredIsOut
  BY DEF Init, SessionInv, BarredInv, BarredIsOut, Made
<1>4. QED
  BY <1>2, <1>3 DEF Inv

\* What Inv says of one request, and of one session.
Good(q) ==
  /\ pc[q] \in {"allow", "check", "create", "reset"} => Email(q) \in Emails
  /\ pc[q] \in {"verify", "user", "serve"} => job[q].sess \in Sessions /\ Made(job[q].sess)
  /\ pc[q] = "create" => user[Email(q)] # "none"
  /\ job[q].barred /\ pc[q] = "verify" =>
       sess[job[q].sess].ended \/ user[sess[job[q].sess].email] # "active"
  /\ job[q].barred /\ pc[q] = "user" => user[sess[job[q].sess].email] # "active"
  /\ pc[q] = "serve" => ~job[q].barred

Owned(i) == Made(i) => user[sess[i].email] # "none"

LEMMA InvParts ==
  Inv <=> TypeOK /\ (\A i \in Sessions : Owned(i)) /\ (\A q \in Calls : Good(q))
  BY DEF Inv, SessionInv, BarredInv, BarredIsOut, Good, Owned

LEMMA InvPartsNext ==
  Inv' <=> TypeOK' /\ (\A i \in Sessions : Owned(i)') /\ (\A q \in Calls : Good(q)')
  BY DEF Inv, SessionInv, BarredInv, BarredIsOut, Good, Owned, Made, Email

\* A step of one request that changes no account and no session.
LEMMA CallStep ==
  ASSUME Inv, NEW p \in Calls, UNCHANGED <<user, sess>>, TypeOK', Good(p)',
         \A q \in Calls \ {p} : pc'[q] = pc[q] /\ job'[q] = job[q]
  PROVE  Inv'
<1>1. \A i \in Sessions : Owned(i)'
  BY InvParts DEF Owned, Made
<1>2. \A q \in Calls \ {p} : Good(q)'
  BY InvParts DEF Good, Made, Email
<1>3. QED
  BY <1>1, <1>2, InvPartsNext

\* A request that ends has nothing left to be said of it.
LEMMA ReturnStep ==
  ASSUME Inv, NEW p \in Calls, Return(p)
  PROVE  /\ CallTypes'
         /\ \A q \in Calls \ {p} : pc'[q] = pc[q] /\ job'[q] = job[q]
         /\ pc'[p] = "idle" /\ job'[p] = NoJob
<1>1. TypeOK
  BY DEF Inv
<1>2. QED
  BY <1>1, NoJobType DEF TypeOK, CallTypes, Return, Goto, Job

LEMMA IdleGood ==
  ASSUME NEW p \in Calls, pc'[p] = "idle"
  PROVE  Good(p)'
  BY DEF Good

\* Going on, with the job as it is.
LEMMA GotoStep ==
  ASSUME Inv, NEW p \in Calls, UNCHANGED job,
         NEW l \in {"idle", "allow", "check", "create", "reset", "verify", "user", "serve"},
         Goto(p, l)
  PROVE  /\ CallTypes' /\ pc'[p] = l
         /\ \A q \in Calls \ {p} : pc'[q] = pc[q] /\ job'[q] = job[q]
  BY DEF Inv, TypeOK, CallTypes, Goto, Job

-----------------------------------------------------------------------------
(* The clock, the accounts and the sessions.                               *)

LEMMA TickInv == ASSUME Inv, Tick PROVE Inv'
<1>1. TypeOK'
  BY BoundAssumption DEF Inv, Tick, TypeOK, limiter, Time
<1>2. UNCHANGED <<user, sess, pc, job>>
  BY DEF Tick
<1>3. QED
  BY <1>1, <1>2, InvParts, InvPartsNext DEF Owned, Good, Made, Email

\* A session that ends, by whatever, bars more.
LEMMA EndInv ==
  ASSUME Inv, NEW i \in Sessions, Made(i), sess' = [sess EXCEPT ![i].ended = TRUE],
         UNCHANGED user, CallTypes',
         \A q \in Calls : \/ pc'[q] = pc[q] /\ job'[q] = job[q]
                          \/ pc'[q] = "idle",
         UNCHANGED <<now, limiter>>
  PROVE  Inv'
<1>1. TypeOK /\ (\A k \in Sessions : Owned(k)) /\ (\A q \in Calls : Good(q))
  BY InvParts
<1> DEFINE new == [sess[i] EXCEPT !.ended = TRUE]
<1>2. sess[i] \in [email : Emails, ended : BOOLEAN]
  BY <1>1, MadeShape
<1>3. /\ new \in [email : Emails, ended : BOOLEAN]
      /\ new.email = sess[i].email /\ new.ended = TRUE
  BY <1>2
<1>4. sess'[i] = new /\ \A k \in Sessions \ {i} : sess'[k] = sess[k]
  BY <1>1 DEF TypeOK
<1>5. sess' \in [Sessions -> Session]
  BY <1>1, <1>3 DEF TypeOK, Session
<1>6. TypeOK'
  BY <1>1, <1>5 DEF TypeOK, CallTypes, Job, Session, limiter
<1>7. new # NoSession
  BY <1>3, NoneAssumption DEF NoSession
<1>8. \A k \in Sessions : Made(k)' <=> Made(k)
  BY <1>4, <1>7 DEF Made
<1>9. \A k \in Sessions : Owned(k)'
  BY <1>1, <1>3, <1>4, <1>8 DEF Owned
<1>10. ASSUME NEW q \in Calls PROVE Good(q)'
  <2>1. CASE pc'[q] = "idle"
    BY <2>1 DEF Good
  <2>2. CASE pc'[q] = pc[q] /\ job'[q] = job[q]
    <3>1. Good(q)
      BY <1>1
    <3>2. job[q].sess \in Sessions =>
            /\ sess'[job[q].sess].email = sess[job[q].sess].email
            /\ sess[job[q].sess].ended => sess'[job[q].sess].ended
      BY <1>3, <1>4
    <3>3. QED
      BY <1>8, <2>2, <3>1, <3>2 DEF Good, Email
  <2>3. QED
    BY <2>1, <2>2
<1>11. QED
  BY <1>6, <1>9, <1>10, InvPartsNext

LEMMA ExpireInv ==
  ASSUME Inv, NEW i \in Sessions, Expire(i)
  PROVE  Inv'
<1>1. CallTypes'
  BY DEF Inv, TypeOK, CallTypes, Job, Expire
<1>2. QED
  BY <1>1, EndInv DEF Expire, limiter

LEMMA SuspendInv ==
  ASSUME Inv, NEW e \in Emails, Suspend(e)
  PROVE  Inv'
<1>1. TypeOK /\ (\A k \in Sessions : Owned(k)) /\ (\A q \in Calls : Good(q))
  BY InvParts
<1>2. /\ user' = [user EXCEPT ![e] = "suspended"] /\ user[e] = "active"
      /\ UNCHANGED <<now, sess, attempts, cleaned, tries, pc, job>>
  BY DEF Suspend, limiter
<1>3. TypeOK'
  BY <1>1, <1>2 DEF TypeOK
<1>4. \A x \in Emails : /\ user'[x] = "active" => user[x] = "active"
                        /\ user[x] # "none" => user'[x] # "none"
  BY <1>1, <1>2 DEF TypeOK
<1>5. \A k \in Sessions : Made(k) => sess[k].email \in Emails
  BY <1>1, MadeShape
<1>6. \A k \in Sessions : Owned(k)'
  BY <1>1, <1>2, <1>4, <1>5 DEF Owned, Made
<1>7. \A q \in Calls : Good(q)'
  BY <1>1, <1>2, <1>4, <1>5 DEF Good, Made, Email
<1>8. QED
  BY <1>3, <1>6, <1>7, InvPartsNext

\* A new session of an account, which may be new as well, is nobody's yet.
LEMMA NewSessionInv ==
  ASSUME Inv, NEW i \in Sessions, NEW e \in Emails, NewSession(i, e), TypeOK',
         user' \in [Emails -> {"none", "active", "suspended"}], user'[e] # "none",
         \A x \in Emails : user'[x] = user[x] \/ (x = e /\ user[x] = "none"),
         \A q \in Calls : \/ pc'[q] = pc[q] /\ job'[q] = job[q]
                          \/ pc'[q] = "reset" /\ job'[q] = job[q] /\ Email(q) \in Emails
  PROVE  Inv'
<1>1. TypeOK /\ (\A k \in Sessions : Owned(k)) /\ (\A q \in Calls : Good(q))
  BY InvParts
<1>2. /\ ~Made(i) /\ sess'[i] = [email |-> e, ended |-> FALSE]
      /\ \A k \in Sessions \ {i} : sess'[k] = sess[k]
  BY <1>1 DEF NewSession, TypeOK
<1>3. \A k \in Sessions : Made(k) => k # i /\ sess[k].email \in Emails /\ Made(k)'
                                     /\ user'[sess[k].email] = user[sess[k].email]
  BY <1>1, <1>2, MadeShape DEF Owned, Made
<1>4. \A k \in Sessions : Owned(k)'
  BY <1>1, <1>2, <1>3 DEF Owned, Made
<1>5. ASSUME NEW q \in Calls PROVE Good(q)'
  <2>1. Good(q) /\ job'[q] = job[q] /\ pc'[q] \in {pc[q], "reset"}
        /\ (pc'[q] # pc[q] => Email(q) \in Emails)
    BY <1>1
  <2>2. pc[q] \in {"verify", "user", "serve"} =>
          LET k == job[q].sess IN
            /\ k \in Sessions /\ Made(k)' /\ sess'[k] = sess[k]
            /\ user'[sess[k].email] = user[sess[k].email]
    BY <1>2, <1>3, <2>1 DEF Good
  <2>3. Email(q) \in Emails /\ user[Email(q)] # "none" => user'[Email(q)] # "none"
    OBVIOUS
  <2>4. QED
    BY <2>1, <2>2, <2>3 DEF Good, Email
<1>6. QED
  BY <1>4, <1>5, InvPartsNext

LEMMA RegisterInv ==
  ASSUME Inv, NEW e \in Emails, NEW i \in Sessions, Register(e, i)
  PROVE  Inv'
<1>1. TypeOK
  BY DEF Inv
<1>2. /\ user[e] = "none" /\ user' = [user EXCEPT ![e] = "active"] /\ NewSession(i, e)
      /\ UNCHANGED <<now, attempts, cleaned, tries, pc, job>>
  BY DEF Register, limiter
<1>3. /\ user' \in [Emails -> {"none", "active", "suspended"}] /\ user'[e] # "none"
      /\ \A x \in Emails : user'[x] = user[x] \/ (x = e /\ user[x] = "none")
  BY <1>1, <1>2 DEF TypeOK
<1>4. sess' \in [Sessions -> {NoSession} \union [email : Emails, ended : BOOLEAN]]
  BY <1>1, <1>2 DEF TypeOK, NewSession
<1>5. TypeOK'
  BY <1>1, <1>2, <1>3, <1>4 DEF TypeOK
<1>6. QED
  BY <1>2, <1>3, <1>5, NewSessionInv

-----------------------------------------------------------------------------
(* Logins.                                                                 *)

LEMMA BeginLoginInv ==
  ASSUME Inv, NEW p \in Calls, NEW k \in Emails, BeginLogin(p, k)
  PROVE  Inv'
<1> DEFINE new == [NoJob EXCEPT !.key = k, !.time = now]
<1>0. TypeOK
  BY DEF Inv
<1>1. /\ job' = [job EXCEPT ![p] = new] /\ pc' = [pc EXCEPT ![p] = "allow"]
      /\ UNCHANGED <<now, user, sess, attempts, cleaned, tries>>
  BY DEF BeginLogin, Goto, limiter
<1>2. new \in Job /\ new.key = k /\ new.barred = FALSE
  BY <1>0, NoJobType DEF Job, NoJob, TypeOK
<1>3. TypeOK' /\ pc'[p] = "allow" /\ job'[p] = new
      /\ \A q \in Calls \ {p} : pc'[q] = pc[q] /\ job'[q] = job[q]
  BY <1>0, <1>1, <1>2 DEF TypeOK, Job
<1>4. Good(p)'
  BY <1>2, <1>3 DEF Good, Email
<1>5. QED
  BY <1>1, <1>3, <1>4, CallStep

Windows == {NoWindow} \union [start : Time, n : 1..Limit]

\* The clean-up leaves windows, and so does counting in one that is not full.
LEMMA SweptType ==
  ASSUME TypeOK, NEW t \in Time
  PROVE  /\ Swept(t) \in [Emails -> Windows]
         /\ (Sweep(t) => cleaned' \in Time \union {Never})
  BY DEF TypeOK, Swept, Sweep, Windows

LEMMA CountingType ==
  ASSUME TypeOK, NEW t \in Time, NEW k \in Emails
  PROVE  /\ Counting(k, t).start \in Time
         /\ Counting(k, t).n \in 0..Limit
         /\ Counting(k, t) = [start |-> Counting(k, t).start, n |-> Counting(k, t).n]
<1> DEFINE w == Swept(t)[k]
<1>1. w \in Windows
  BY SweptType
<1>2. CASE Over(w, t)
  BY <1>2, LimitAssumption DEF Counting
<1>3. CASE ~Over(w, t)
  <2>1. w # NoWindow
    BY <1>3 DEF Over, NoWindow
  <2>2. w \in [start : Time, n : 1..Limit]
    BY <1>1, <2>1 DEF Windows
  <2>3. Counting(k, t) = w
    BY <1>3 DEF Counting
  <2>4. QED
    BY <2>2, <2>3, LimitAssumption
<1>4. QED
  BY <1>2, <1>3

\* The email and the clock of a login at the limiter.
LEMMA LoginShape ==
  ASSUME Inv, NEW p \in Calls, pc[p] \in {"allow", "check", "create", "reset"}
  PROVE  job[p].key \in Emails /\ job[p].time \in Time
  BY InvParts DEF Good, Email, TypeOK

\* What an attempt that is let in changes of the record.
LEMMA CountStep ==
  ASSUME TypeOK, NEW k \in Emails, NEW t \in Time, Count(k, t)
  PROVE  /\ tries' \in [Emails -> [Time -> Nat]]
         /\ \A u \in Int : Since(k, u)' = Since(k, u) + (IF u <= t THEN 1 ELSE 0)
         /\ \A x \in Emails \ {k} : \A u \in Int : Since(x, u)' = Since(x, u)
<1> DEFINE new == [u \in Time |-> IF u <= t THEN tries[k][u] + 1 ELSE tries[k][u]]
<1>1. tries \in [Emails -> [Time -> Nat]] /\ tries[k] \in [Time -> Nat]
  BY DEF TypeOK
<1>2. tries' = [tries EXCEPT ![k] = new]
  BY DEF Count
<1>3. \A u \in Time : tries[k][u] \in Nat
  BY <1>1
<1>4. new \in [Time -> Nat]
  BY <1>3
<1>5. tries' \in [Emails -> [Time -> Nat]] /\ tries'[k] = new
      /\ \A x \in Emails \ {k} : tries'[x] = tries[x]
  BY <1>1, <1>2, <1>4
<1>6. ASSUME NEW u \in Int
      PROVE  Since(k, u)' = Since(k, u) + (IF u <= t THEN 1 ELSE 0)
  <2> DEFINE v == IF u < 0 THEN 0 ELSE u
  <2>1. CASE u > End
    BY <2>1, BoundAssumption DEF Since, Time
  <2>2. CASE ~(u > End)
    <3>1. v \in Time /\ (v <= t <=> u <= t)
      BY <2>2, BoundAssumption DEF Time
    <3>2. Since(k, u)' = new[v] /\ Since(k, u) = tries[k][v]
      BY <1>5, <2>2 DEF Since
    <3>3. new[v] = IF v <= t THEN tries[k][v] + 1 ELSE tries[k][v]
      BY <3>1
    <3>4. QED
      BY <1>3, <3>1, <3>2, <3>3
  <2>3. QED
    BY <2>1, <2>2
<1>7. \A x \in Emails \ {k} : \A u \in Int : Since(x, u)' = Since(x, u)
  BY <1>5 DEF Since
<1>8. QED
  BY <1>5, <1>6, <1>7

LEMMA AllowedInv ==
  ASSUME Inv, NEW p \in Calls, Allowed(p)
  PROVE  Inv'
<1> DEFINE k == job[p].key  t == job[p].time  w == Counting(k, t)
<1>0. TypeOK
  BY DEF Inv
<1>1. /\ pc[p] = "allow" /\ w.n < Limit
      /\ attempts' = [Swept(t) EXCEPT ![k] = [w EXCEPT !.n = @ + 1]]
      /\ Sweep(t) /\ Count(k, t)
      /\ Goto(p, "check") /\ UNCHANGED <<now, user, sess, job>>
  BY DEF Allowed
<1>2. k \in Emails /\ t \in Time
  BY <1>1, LoginShape
<1>3. [w EXCEPT !.n = @ + 1] \in [start : Time, n : 1..Limit]
  <2>1. /\ w.start \in Time /\ w.n \in 0..Limit
        /\ w = [start |-> w.start, n |-> w.n]
    BY <1>0, <1>2, CountingType
  <2>2. [w EXCEPT !.n = @ + 1] = [start |-> w.start, n |-> w.n + 1]
    BY <2>1
  <2>3. w.n + 1 \in 1..Limit
    BY <1>1, <2>1, LimitAssumption
  <2>4. QED
    BY <2>1, <2>2, <2>3
<1>4. attempts' \in [Emails -> Windows] /\ cleaned' \in Time \union {Never}
  BY <1>0, <1>1, <1>2, <1>3, SweptType DEF Windows
<1>5. tries' \in [Emails -> [Time -> Nat]]
  BY <1>0, <1>1, <1>2, CountStep
<1>6. CallTypes' /\ pc'[p] = "check"
      /\ \A q \in Calls \ {p} : pc'[q] = pc[q] /\ job'[q] = job[q]
  BY <1>1, GotoStep
<1>7. TypeOK'
  BY <1>0, <1>1, <1>4, <1>5, <1>6 DEF TypeOK, CallTypes, Job, Windows
<1>8. Good(p)'
  BY <1>1, <1>2, <1>6 DEF Good, Email
<1>9. QED
  BY <1>1, <1>6, <1>7, <1>8, CallStep

LEMMA RefusedInv ==
  ASSUME Inv, NEW p \in Calls, Refused(p)
  PROVE  Inv'
<1> DEFINE t == job[p].time
<1>0. TypeOK
  BY DEF Inv
<1>1. /\ pc[p] = "allow" /\ attempts' = Swept(t) /\ Sweep(t) /\ Return(p)
      /\ UNCHANGED <<now, user, sess, tries>>
  BY DEF Refused
<1>2. attempts' \in [Emails -> Windows] /\ cleaned' \in Time \union {Never}
  BY <1>0, <1>1, LoginShape, SweptType
<1>3. CallTypes' /\ Good(p)'
      /\ \A q \in Calls \ {p} : pc'[q] = pc[q] /\ job'[q] = job[q]
  BY <1>1, ReturnStep, IdleGood
<1>4. TypeOK'
  BY <1>0, <1>1, <1>2, <1>3 DEF TypeOK, CallTypes, Job, Windows
<1>5. QED
  BY <1>1, <1>3, <1>4, CallStep

LEMMA ElsewhereInv ==
  ASSUME Inv, NEW t \in Time, Elsewhere(t)
  PROVE  Inv'
<1>0. TypeOK
  BY DEF Inv
<1>1. /\ attempts' = Swept(t) /\ Sweep(t) /\ UNCHANGED <<now, user, sess, pc, job, tries>>
  BY DEF Elsewhere
<1>2. attempts' \in [Emails -> Windows] /\ cleaned' \in Time \union {Never}
  BY <1>0, <1>1, SweptType
<1>3. TypeOK'
  BY <1>0, <1>1, <1>2 DEF TypeOK, Windows
<1>4. QED
  BY <1>1, <1>3, InvParts, InvPartsNext DEF Owned, Good, Made, Email

LEMMA CheckInv ==
  ASSUME Inv, NEW p \in Calls, Check(p)
  PROVE  Inv'
<1>0. TypeOK
  BY DEF Inv
<1>1. /\ pc[p] = "check" /\ user[Email(p)] = "active" /\ Goto(p, "create")
      /\ UNCHANGED <<now, user, sess, attempts, cleaned, tries, job>>
  BY DEF Check, limiter
<1>2. CallTypes' /\ pc'[p] = "create"
      /\ \A q \in Calls \ {p} : pc'[q] = pc[q] /\ job'[q] = job[q]
  BY <1>1, GotoStep
<1>3. TypeOK'
  BY <1>0, <1>1, <1>2 DEF TypeOK, CallTypes, Job
<1>4. Good(p)'
  BY <1>1, <1>2, LoginShape DEF Good, Email
<1>5. QED
  BY <1>1, <1>2, <1>3, <1>4, CallStep

LEMMA CreateSessionInv ==
  ASSUME Inv, NEW p \in Calls, NEW i \in Sessions, CreateSession(p, i)
  PROVE  Inv'
<1>0. TypeOK
  BY DEF Inv
<1> DEFINE e == Email(p)
<1>1. /\ pc[p] = "create" /\ NewSession(i, e) /\ Goto(p, "reset")
      /\ UNCHANGED <<now, user, attempts, cleaned, tries, job>>
  BY DEF CreateSession, limiter
<1>2. e \in Emails /\ user[e] # "none"
  BY <1>1, InvParts DEF Good
<1>3. CallTypes' /\ pc'[p] = "reset"
      /\ \A q \in Calls \ {p} : pc'[q] = pc[q] /\ job'[q] = job[q]
  BY <1>1, GotoStep
<1>4. sess' \in [Sessions -> {NoSession} \union [email : Emails, ended : BOOLEAN]]
  BY <1>0, <1>1, <1>2 DEF TypeOK, NewSession
<1>5. TypeOK'
  BY <1>0, <1>1, <1>3, <1>4 DEF TypeOK, CallTypes, Job
<1>6. user' \in [Emails -> {"none", "active", "suspended"}] /\ user'[e] # "none"
      /\ \A x \in Emails : user'[x] = user[x]
  BY <1>0, <1>1, <1>2 DEF TypeOK
<1>7. \A q \in Calls : \/ pc'[q] = pc[q] /\ job'[q] = job[q]
                       \/ pc'[q] = "reset" /\ job'[q] = job[q] /\ Email(q) \in Emails
  BY <1>1, <1>2, <1>3
<1>8. QED
  BY <1>1, <1>2, <1>5, <1>6, <1>7, NewSessionInv, Zenon

LEMMA ResetInv ==
  ASSUME Inv, NEW p \in Calls, Reset(p)
  PROVE  Inv'
<1>0. TypeOK
  BY DEF Inv
<1>1. /\ attempts' = [attempts EXCEPT ![job[p].key] = NoWindow]
      /\ tries' = [tries EXCEPT ![job[p].key] = Nobody]
      /\ pc[p] = "reset" /\ Return(p) /\ UNCHANGED <<now, user, sess, cleaned>>
  BY DEF Reset
<1>2. CallTypes' /\ Good(p)'
      /\ \A q \in Calls \ {p} : pc'[q] = pc[q] /\ job'[q] = job[q]
  BY <1>1, ReturnStep, IdleGood
<1>3. Nobody \in [Time -> Nat]
  BY DEF Nobody
<1>4. TypeOK'
  BY <1>0, <1>1, <1>2, <1>3 DEF TypeOK, CallTypes, Job
<1>5. QED
  BY <1>1, <1>2, <1>4, CallStep

-----------------------------------------------------------------------------
(* Authenticated requests.                                                 *)

LEMMA BeginCallInv ==
  ASSUME Inv, NEW p \in Calls, NEW i \in Sessions, BeginCall(p, i)
  PROVE  Inv'
<1> DEFINE b == sess[i].ended \/ user[sess[i].email] # "active"
           new == [NoJob EXCEPT !.sess = i, !.barred = b]
<1>0. TypeOK
  BY DEF Inv
<1>1. /\ Made(i) /\ job' = [job EXCEPT ![p] = new] /\ pc' = [pc EXCEPT ![p] = "verify"]
      /\ UNCHANGED <<now, user, sess, attempts, cleaned, tries>>
  BY DEF BeginCall, Goto, limiter
<1>2. b \in BOOLEAN
  BY <1>0, <1>1, MadeShape
<1>3. new \in Job /\ new.sess = i /\ new.barred = b
  BY <1>2, NoJobType DEF Job, NoJob
<1>4. TypeOK' /\ pc'[p] = "verify" /\ job'[p] = new
      /\ \A q \in Calls \ {p} : pc'[q] = pc[q] /\ job'[q] = job[q]
  BY <1>0, <1>1, <1>3 DEF TypeOK, Job
<1>5. Good(p)'
  BY <1>1, <1>3, <1>4 DEF Good, Made
<1>6. QED
  BY <1>1, <1>4, <1>5, CallStep

\* Who gets past Verify barred, is so by a suspended user.
LEMMA VerifyInv ==
  ASSUME Inv, NEW p \in Calls, Verify(p)
  PROVE  Inv'
<1>0. TypeOK /\ Good(p)
  BY InvParts
<1>1. /\ pc[p] = "verify" /\ ~sess[job[p].sess].ended /\ Goto(p, "user")
      /\ UNCHANGED <<now, user, sess, attempts, cleaned, tries, job>>
  BY DEF Verify, limiter
<1>2. CallTypes' /\ pc'[p] = "user"
      /\ \A q \in Calls \ {p} : pc'[q] = pc[q] /\ job'[q] = job[q]
  BY <1>1, GotoStep
<1>3. TypeOK'
  BY <1>0, <1>1, <1>2 DEF TypeOK, CallTypes, Job
<1>4. Good(p)'
  BY <1>0, <1>1, <1>2 DEF Good, Made
<1>5. QED
  BY <1>1, <1>2, <1>3, <1>4, CallStep

LEMMA FindUserInv ==
  ASSUME Inv, NEW p \in Calls, FindUser(p)
  PROVE  Inv'
<1>0. TypeOK /\ Good(p)
  BY InvParts
<1>1. /\ pc[p] = "user" /\ user[sess[job[p].sess].email] = "active" /\ Goto(p, "serve")
      /\ UNCHANGED <<now, user, sess, attempts, cleaned, tries, job>>
  BY DEF FindUser, limiter
<1>2. CallTypes' /\ pc'[p] = "serve"
      /\ \A q \in Calls \ {p} : pc'[q] = pc[q] /\ job'[q] = job[q]
  BY <1>1, GotoStep
<1>3. TypeOK'
  BY <1>0, <1>1, <1>2 DEF TypeOK, CallTypes, Job
<1>4. Good(p)'
  BY <1>0, <1>1, <1>2 DEF Good, Made
<1>5. QED
  BY <1>1, <1>2, <1>3, <1>4, CallStep

LEMMA LogoutInv ==
  ASSUME Inv, NEW p \in Calls, Logout(p)
  PROVE  Inv'
<1>1. /\ pc[p] = "serve" /\ sess' = [sess EXCEPT ![job[p].sess].ended = TRUE] /\ Return(p)
      /\ UNCHANGED <<now, user>> /\ UNCHANGED <<now, limiter>>
  BY DEF Logout
<1>2. job[p].sess \in Sessions /\ Made(job[p].sess)
  BY <1>1, InvParts DEF Good
<1>3. CallTypes' /\ \A q \in Calls : \/ pc'[q] = pc[q] /\ job'[q] = job[q]
                                     \/ pc'[q] = "idle"
  BY <1>1, ReturnStep
<1>4. QED
  BY <1>1, <1>2, <1>3, EndInv

\* A request that ends and changes nothing.
LEMMA EndsInv ==
  ASSUME Inv, NEW p \in Calls, Serve(p) \/ Fails(p)
  PROVE  Inv'
<1>0. TypeOK
  BY DEF Inv
<1>1. Return(p) /\ UNCHANGED <<now, user, sess, attempts, cleaned, tries>>
  BY DEF Serve, Fails, limiter
<1>2. CallTypes' /\ Good(p)'
      /\ \A q \in Calls \ {p} : pc'[q] = pc[q] /\ job'[q] = job[q]
  BY <1>1, ReturnStep, IdleGood
<1>3. TypeOK'
  BY <1>0, <1>1, <1>2 DEF TypeOK, CallTypes, Job
<1>4. QED
  BY <1>1, <1>2, <1>3, CallStep

LEMMA RestartInv == ASSUME Inv, Restart PROVE Inv'
<1>0. TypeOK /\ (\A i \in Sessions : Owned(i))
  BY InvParts
<1>1. /\ attempts' = [k \in Emails |-> NoWindow] /\ cleaned' = Never
      /\ tries' = [k \in Emails |-> Nobody]
      /\ pc' = [p \in Calls |-> "idle"] /\ job' = [p \in Calls |-> NoJob]
      /\ UNCHANGED <<now, user, sess>>
  BY DEF Restart
<1>2. Nobody \in [Time -> Nat] /\ NoJob \in Job
  BY NoJobType DEF Nobody
<1>3. TypeOK'
  BY <1>0, <1>1, <1>2 DEF TypeOK, Job
<1>4. (\A i \in Sessions : Owned(i)') /\ (\A q \in Calls : Good(q)')
  BY <1>0, <1>1 DEF Owned, Made, Good
<1>5. QED
  BY <1>3, <1>4, InvPartsNext

LEMMA NextInv == Inv /\ [Next]_vars => Inv'
<1> SUFFICES ASSUME Inv, [Next]_vars PROVE Inv'
  OBVIOUS
<1>1. CASE UNCHANGED vars
  <2>1. TypeOK' /\ UNCHANGED <<user, sess, pc, job>>
    BY <1>1 DEF vars, Inv, TypeOK
  <2>2. QED
    BY <2>1, InvParts, InvPartsNext DEF Owned, Good, Made, Email
<1>2. CASE Tick \/ Restart
  BY <1>2, TickInv, RestartInv
<1>3. CASE \E i \in Sessions : Expire(i)
  BY <1>3, ExpireInv
<1>4. CASE \E t \in Time : Elsewhere(t)
  BY <1>4, ElsewhereInv
<1>5. CASE \E e \in Emails : Suspend(e) \/ \E i \in Sessions : Register(e, i)
  BY <1>5, SuspendInv, RegisterInv
<1>6. CASE \E p \in Calls : Request(p)
  <2>1. PICK p \in Calls : Request(p)
    BY <1>6
  <2>2. CASE \E k \in Emails : BeginLogin(p, k)
    BY <2>2, BeginLoginInv
  <2>3. CASE \E i \in Sessions : CreateSession(p, i) \/ BeginCall(p, i)
    BY <2>3, CreateSessionInv, BeginCallInv
  <2>4. CASE Allowed(p) \/ Refused(p) \/ Check(p) \/ Reset(p)
    BY <2>4, AllowedInv, RefusedInv, CheckInv, ResetInv
  <2>5. CASE Verify(p) \/ FindUser(p) \/ Serve(p) \/ Logout(p) \/ Fails(p)
    BY <2>5, VerifyInv, FindUserInv, LogoutInv, EndsInv
  <2>6. QED
    BY <2>1, <2>2, <2>3, <2>4, <2>5 DEF Request
<1>7. QED
  BY <1>1, <1>2, <1>3, <1>4, <1>5, <1>6 DEF Next

-----------------------------------------------------------------------------
(* The limiter's record of attempts.                                       *)

Numbers ==
  /\ now \in Nat /\ End \in Nat /\ now <= End /\ Lag \in Nat
  /\ Limit \in Nat \ {0} /\ Window \in Nat \ {0}

LEMMA AtHand == TypeOK => Numbers
  BY LimitAssumption, BoundAssumption DEF TypeOK, Time, Numbers

\* Since counts attempts, of which there are none after the last moment.
LEMMA SinceType ==
  ASSUME TypeOK, NEW k \in Emails, NEW u \in Int
  PROVE  Since(k, u) \in Nat /\ (u > End => Since(k, u) = 0)
<1>1. CASE u > End
  BY <1>1 DEF Since
<1>2. CASE ~(u > End)
  <2>1. (IF u < 0 THEN 0 ELSE u) \in Time
    BY <1>2, BoundAssumption DEF Time
  <2>2. tries[k] \in [Time -> Nat]
    BY DEF TypeOK
  <2>3. QED
    BY <1>2, <2>1, <2>2 DEF Since
<1>3. QED
  BY <1>1, <1>2

\* What RecordInv says of moments, said of every number.
LEMMA Ordered ==
  ASSUME TypeOK, NEW k \in Emails, RecordInv(k), NEW u \in Int, NEW v \in Int, u <= v
  PROVE  Since(k, v) <= Since(k, u)
<1>1. Numbers
  BY AtHand
<1>2. Since(k, u) \in Nat /\ Since(k, v) \in Nat
  BY SinceType
<1>3. CASE v > End
  BY <1>2, <1>3, SinceType
<1>4. CASE v <= End
  <2> DEFINE a == IF u < 0 THEN 0 ELSE u
             b == IF v < 0 THEN 0 ELSE v
  <2>1. a \in Time /\ b \in Time /\ a <= b
    BY <1>1, <1>4 DEF Time, Numbers
  <2>2. ~(a > End) /\ ~(b > End) /\ ~(u > End) /\ ~(v > End) /\ ~(a < 0) /\ ~(b < 0)
    BY <1>1, <1>4, <2>1 DEF Time, Numbers
  <2>3. Since(k, a) = Since(k, u) /\ Since(k, b) = Since(k, v)
    BY <2>2 DEF Since
  <2>4. QED
    BY <2>1, <2>3 DEF RecordInv
<1>5. QED
  BY <1>1, <1>3, <1>4 DEF Numbers

LEMMA NothingLater ==
  ASSUME TypeOK, NEW k \in Emails, RecordInv(k), NEW u \in Int, u > now
  PROVE  Since(k, u) = 0
<1>1. CASE u > End
  BY <1>1, SinceType
<1>2. CASE u <= End
  <2>1. u \in Time
    BY <1>2, AtHand DEF Time, Numbers
  <2>2. QED
    BY <2>1 DEF RecordInv
<1>3. QED
  BY <1>1, <1>2, AtHand DEF Numbers

\* The attempts in a span are some of those since its first moment.
LEMMA TriedBound ==
  ASSUME TypeOK, NEW k \in Emails, NEW from \in Time
  PROVE  /\ Tried(k, from, from + Span - 1) = Since(k, from) - Since(k, from + Span)
         /\ Since(k, from) \in Nat /\ Since(k, from + Span) \in Nat
         /\ Tried(k, from, from + Span - 1) <= Since(k, from)
         /\ from \in Int /\ from + Span \in Int
<1>1. Numbers
  BY AtHand
<1>2. from \in Int /\ from + Span \in Int /\ from + Span - 1 + 1 = from + Span
  BY <1>1 DEF Time, Numbers, Span
<1>3. Since(k, from) \in Nat /\ Since(k, from + Span) \in Nat
  BY <1>2, SinceType
<1>4. QED
  BY <1>2, <1>3 DEF Tried

\* A span that is open has always been.
LEMMA AfterLess ==
  ASSUME NEW x \in Int, NEW l \in Int, NEW a \in Int, NEW b \in Int, b >= a, x > b - l
  PROVE  x > a - l
  OBVIOUS

LEMMA StillOpen ==
  ASSUME now \in Nat, now' \in Nat, now' >= now, NEW from \in Time, Open(from)'
  PROVE  Open(from)
<1>1. from + Span \in Int /\ Lag \in Int
  BY LimitAssumption, BoundAssumption DEF Span, Time
<1>2. from + Span > now' - Lag
  BY DEF Open, Span
<1>3. from + Span > now - Lag
  BY <1>1, <1>2, AfterLess
<1>4. QED
  BY <1>3 DEF Open

KeyInv(k) == RecordInv(k) /\ NoWindowInv(k) /\ WindowInv(k)

\* A key whose window has been dropped at t, where it was over.  The attempts
\* that are still in an open span are the window's own, its first is not
\* among them.
LEMMA OverLeaves ==
  ASSUME TypeOK, NEW k \in Emails, KeyInv(k), attempts[k] # NoWindow,
         NEW t \in Time, t <= now, t - attempts[k].start >= Window,
         NEW from \in Time, Open(from)
  PROVE  Since(k, from) < Limit
<1> DEFINE w == attempts[k]
<1>1. w \in [start : Time, n : 1..Limit]
  BY DEF TypeOK
<1>2. Numbers
  BY AtHand
<1>3. from > w.start + Lag
  BY <1>1, <1>2 DEF Open, Span, Numbers, Time
<1>4. Since(k, from) < w.n
  BY <1>3 DEF KeyInv, WindowInv
<1>5. Since(k, from) \in Nat
  BY SinceType DEF Time
<1>6. QED
  BY <1>1, <1>2, <1>4, <1>5 DEF Numbers

\* The key is left as it is, or its window is dropped where it is over.
LEMMA KeepKey ==
  ASSUME TypeOK, TypeOK', NEW k \in Emails, KeyInv(k), now' >= now,
         \A u \in Int : Since(k, u)' = Since(k, u), attempts'[k] = attempts[k]
  PROVE  KeyInv(k)'
<1>1. Numbers /\ Numbers'
  BY AtHand, LimitAssumption, BoundAssumption DEF TypeOK, Time, Numbers
<1>2. \A from \in Time : Tried(k, from, from + Span - 1)' = Tried(k, from, from + Span - 1)
  BY <1>1 DEF Tried, Time, Span, Numbers
<1>3. \A from \in Time : Open(from)' => Open(from)
  BY <1>1, StillOpen DEF Numbers
<1>4. \A u \in Time : Since(k, u)' = Since(k, u) /\ u \in Int
  BY DEF Time
<1>5. RecordInv(k)'
  BY <1>1, <1>2, <1>4 DEF KeyInv, RecordInv, Numbers, Time
<1>6. NoWindowInv(k)'
  BY <1>2, <1>3 DEF KeyInv, NoWindowInv
<1>7. WindowInv(k)'
  <2> DEFINE w == attempts[k]
  <2>1. w # NoWindow => w \in [start : Time, n : 1..Limit]
    BY DEF TypeOK
  <2>2. w # NoWindow => w.start - Lag \in Int
    BY <1>1, <2>1 DEF Numbers, Time
  <2>3. w # NoWindow => w.start <= now'
    BY <1>1, <2>1 DEF Numbers, Time, KeyInv, WindowInv
  <2>4. QED
    BY <1>2, <1>3, <1>4, <2>2, <2>3 DEF KeyInv, WindowInv
<1>8. QED
  BY <1>5, <1>6, <1>7 DEF KeyInv

LEMMA SweptKey ==
  ASSUME TypeOK, TypeOK', NEW k \in Emails, KeyInv(k), UNCHANGED now,
         \A u \in Int : Since(k, u)' = Since(k, u),
         NEW t \in Time, t <= now, attempts'[k] = Swept(t)[k]
  PROVE  KeyInv(k)'
<1> DEFINE w == attempts[k]
<1>1. CASE attempts'[k] = w
  <2>1. now' >= now
    BY AtHand DEF Numbers
  <2>2. QED
    BY <1>1, <2>1, KeepKey
<1>2. CASE attempts'[k] # w
  <2>1. attempts'[k] = NoWindow /\ Over(w, t) /\ w # NoWindow
    BY <1>2 DEF Swept, TypeOK
  <2>2. w \in [start : Time, n : 1..Limit]
    BY <2>1 DEF TypeOK
  <2>3. t - w.start >= Window
    BY <2>1, <2>2 DEF Over, Never, Time
  <2>4. \A from \in Time : Tried(k, from, from + Span - 1)' = Tried(k, from, from + Span - 1)
    BY AtHand DEF Tried, Time, Span, Numbers
  <2>5. RecordInv(k)'
    <3>1. \A u \in Time : Since(k, u)' = Since(k, u)
      BY DEF Time
    <3>2. QED
      BY <2>4, <3>1 DEF KeyInv, RecordInv
  <2>6. NoWindowInv(k)'
    <3>1. SUFFICES ASSUME NEW from \in Time, Open(from)'
                   PROVE  Tried(k, from, from + Span - 1)' < Limit
      BY DEF NoWindowInv
    <3>2. Open(from)
      BY <3>1 DEF Open
    <3>3. Since(k, from) < Limit
      BY <2>1, <2>3, <3>2, OverLeaves
    <3>4. Tried(k, from, from + Span - 1) < Limit
      BY <3>3, TriedBound, LimitAssumption
    <3>5. QED
      BY <2>4, <3>4
  <2>7. WindowInv(k)'
    BY <2>1 DEF WindowInv
  <2>8. QED
    BY <2>5, <2>6, <2>7 DEF KeyInv
<1>3. QED
  BY <1>1, <1>2

\* A key without window and record.
LEMMA FreshKey ==
  ASSUME TypeOK', NEW k \in Emails, tries'[k] = Nobody, attempts'[k] = NoWindow
  PROVE  KeyInv(k)'
<1>1. ASSUME NEW u \in Int PROVE Since(k, u)' = 0
  <2>1. u <= End => (IF u < 0 THEN 0 ELSE u) \in Time
    BY BoundAssumption DEF Time
  <2>2. QED
    BY <2>1, BoundAssumption DEF Since, Nobody
<1>2. \A from \in Time : Tried(k, from, from + Span - 1)' = 0
  <2>1. \A from \in Time : from \in Int /\ from + Span - 1 + 1 \in Int
    BY BoundAssumption, LimitAssumption DEF Time, Span
  <2>2. QED
    BY <1>1, <2>1 DEF Tried
<1>3. \A u \in Time : Since(k, u)' = 0
  BY <1>1 DEF Time
<1>4. RecordInv(k)'
  BY <1>2, <1>3, LimitAssumption DEF RecordInv
<1>5. NoWindowInv(k)' /\ WindowInv(k)'
  BY <1>2, LimitAssumption DEF NoWindowInv, WindowInv
<1>6. QED
  BY <1>4, <1>5 DEF KeyInv

\* An attempt at t that is let in: it counts in the window the key has, or
\* begins a new one after the last is over.
LEMMA CountKey ==
  ASSUME TypeOK, TypeOK', NEW k \in Emails, KeyInv(k), now' = now, NEW t \in Time,
         now - Lag <= t, t <= now, Counting(k, t).n < Limit, Count(k, t),
         attempts'[k] = [Counting(k, t) EXCEPT !.n = @ + 1]
  PROVE  KeyInv(k)'
<1> DEFINE old == attempts[k]
           w == Counting(k, t)
<1>1. Numbers /\ t \in Nat /\ (old # NoWindow => old \in [start : Time, n : 1..Limit])
  <2>1. t \in Nat
    BY BoundAssumption DEF Time
  <2>2. QED
    BY <2>1, AtHand DEF TypeOK
<1>2. PICK s \in Time, n \in 0..Limit : w = [start |-> s, n |-> n]
  BY CountingType
<1>3. attempts'[k] = [start |-> s, n |-> n + 1] /\ attempts'[k] # NoWindow
  <2>1. s # Never
    BY BoundAssumption DEF Time, Never
  <2>2. QED
    BY <1>2, <2>1 DEF NoWindow
<1>4. \/ old # NoWindow /\ old.start = s /\ old.n = n
      \/ s = t /\ n = 0 /\ (old = NoWindow \/ t - old.start >= Window)
  <2>1. Over(old, t) => old = NoWindow \/ t - old.start >= Window
    BY <1>1 DEF Over, Never, Time
  <2>2. ~Over(old, t) => old # NoWindow /\ Swept(t)[k] = old
    BY DEF Over, NoWindow, Swept
  <2>3. Over(old, t) => Over(Swept(t)[k], t)
    BY DEF Over, NoWindow, Swept
  <2>4. \/ old # NoWindow /\ w = old
        \/ w = [start |-> t, n |-> 0] /\ (old = NoWindow \/ t - old.start >= Window)
    BY <2>1, <2>2, <2>3 DEF Counting
  <2>5. w.start = s /\ w.n = n
    BY <1>2
  <2>6. QED
    BY <2>4, <2>5
<1>5. ASSUME NEW from \in Time, Open(from)
      PROVE  Tried(k, from, from + Span - 1) < Limit + n
  <2>1. CASE old # NoWindow /\ old.start = s /\ old.n = n
    BY <1>5, <2>1 DEF KeyInv, WindowInv
  <2>2. CASE n = 0 /\ old = NoWindow
    BY <1>1, <1>5, <2>2 DEF KeyInv, NoWindowInv, Numbers
  <2>3. CASE n = 0 /\ old # NoWindow /\ t - old.start >= Window
    <3>1. Since(k, from) < Limit
      BY <1>5, <2>3, OverLeaves
    <3>2. QED
      BY <1>1, <2>3, <3>1, TriedBound DEF Numbers
  <2>4. QED
    BY <1>4, <2>1, <2>2, <2>3
<1>6. \A u \in Int : Since(k, u)' = Since(k, u) + (IF u <= t THEN 1 ELSE 0)
  BY CountStep
<1>7. \A u \in Int : Since(k, u) \in Nat
  BY SinceType
<1>8. ASSUME NEW from \in Time
      PROVE  Tried(k, from, from + Span - 1)' =
               Tried(k, from, from + Span - 1)
                 + (IF from <= t /\ t < from + Span THEN 1 ELSE 0)
                 - (IF from + Span <= t /\ t < from THEN 1 ELSE 0)
  <2>1. /\ Tried(k, from, from + Span - 1) = Since(k, from) - Since(k, from + Span)
        /\ from \in Int /\ from + Span \in Int
    BY TriedBound
  <2>2. Tried(k, from, from + Span - 1)' = Since(k, from)' - Since(k, from + Span)'
    BY <1>1, <2>1 DEF Tried, Span, Numbers, Time
  <2>3. QED
    BY <1>1, <1>6, <1>7, <2>1, <2>2
<1>9. RecordInv(k)'
  <2>1. ASSUME NEW u \in Time, u > now' PROVE Since(k, u)' = 0
    BY <1>1, <1>6, <2>1 DEF KeyInv, RecordInv, Time, Numbers
  <2>2. ASSUME NEW u \in Time, NEW v \in Time, u <= v
        PROVE  Since(k, v)' <= Since(k, u)'
    <3>1. Since(k, v) <= Since(k, u)
      BY <2>2 DEF KeyInv, RecordInv
    <3>2. u \in Int /\ v \in Int
      BY DEF Time
    <3>3. QED
      BY <1>1, <1>6, <1>7, <2>2, <3>1, <3>2
  <2>3. ASSUME NEW from \in Time
        PROVE  Tried(k, from, from + Span - 1)' < 2 * Limit
    <3> DEFINE m == Tried(k, from, from + Span - 1)
    <3>1. m \in Int /\ m < 2 * Limit
      BY TriedBound DEF KeyInv, RecordInv
    <3>2. CASE from <= t /\ t < from + Span
      <4>1. from + Span \in Int
        BY TriedBound
      <4>2. Open(from)
        BY <1>1, <3>2, <4>1 DEF Open, Numbers
      <4>3. m < Limit + n
        BY <1>5, <4>2
      <4>4. Tried(k, from, from + Span - 1)' <= m + 1
        BY <1>8, <3>1
      <4>5. QED
        BY <1>1, <1>2, <1>8, <3>1, <4>3, <4>4 DEF Numbers
    <3>3. CASE ~(from <= t /\ t < from + Span)
      BY <1>1, <1>8, <3>1, <3>3 DEF Numbers
    <3>4. QED
      BY <3>2, <3>3
  <2>4. QED
    BY <2>1, <2>2, <2>3 DEF RecordInv
<1>10. WindowInv(k)'
  <2>1. s <= now'
    BY <1>1, <1>3, <1>4 DEF KeyInv, WindowInv
  <2>2. Since(k, s - Lag)' >= n + 1
    <3>1. s - Lag \in Int /\ s - Lag <= t
      BY <1>1, <1>2, <1>3, <2>1 DEF Numbers, Time
    <3>2. Since(k, s - Lag) >= n
      BY <1>4, <1>7, <3>1 DEF KeyInv, WindowInv
    <3>3. Since(k, s - Lag)' = Since(k, s - Lag) + 1
      BY <1>6, <3>1
    <3>4. QED
      BY <1>2, <1>3, <1>7, <3>1, <3>2, <3>3
  <2>3. ASSUME NEW u \in Time, u > s + Lag PROVE Since(k, u)' < n + 1
    <3>1. u \in Int /\ u > s + Lag
      BY <1>3, <2>3 DEF Time
    <3>2. CASE old # NoWindow /\ old.start = s /\ old.n = n
      <4>1. Since(k, u) < n
        BY <3>1, <3>2 DEF KeyInv, WindowInv
      <4>2. QED
        BY <1>2, <1>3, <1>6, <1>7, <3>1, <4>1
    <3>3. CASE s = t /\ n = 0
      <4>1. u > now /\ u > t
        BY <1>1, <3>1, <3>3 DEF Numbers
      <4>2. Since(k, u) = 0
        BY <3>1, <4>1, NothingLater DEF KeyInv
      <4>3. QED
        BY <1>1, <1>3, <1>6, <3>1, <3>3, <4>1, <4>2
    <3>4. QED
      BY <1>4, <3>2, <3>3
  <2>4. ASSUME NEW from \in Time, Open(from)'
        PROVE  Tried(k, from, from + Span - 1)' < Limit + (n + 1)
    <3>1. Open(from)
      BY <2>4 DEF Open
    <3>2. Tried(k, from, from + Span - 1) < Limit + n
      BY <1>5, <3>1
    <3>3. Tried(k, from, from + Span - 1) \in Int
      BY TriedBound
    <3>4. Tried(k, from, from + Span - 1)' <= Tried(k, from, from + Span - 1) + 1
      BY <1>8, <3>3
    <3>5. Tried(k, from, from + Span - 1)' \in Int
      BY <1>8, <3>3
    <3>6. QED
      BY <1>1, <1>2, <1>3, <3>2, <3>3, <3>4, <3>5 DEF Numbers
  <2>5. attempts'[k].start = s /\ attempts'[k].n = n + 1
    BY <1>3
  <2>6. QED
    BY <2>1, <2>2, <2>3, <2>4, <2>5 DEF WindowInv
<1>11. NoWindowInv(k)'
  BY <1>3 DEF NoWindowInv
<1>12. QED
  BY <1>9, <1>10, <1>11 DEF KeyInv

LEMMA LimiterParts == LimiterInv <=> ClockInv /\ \A k \in Emails : KeyInv(k)
  BY DEF LimiterInv, KeyInv

LEMMA LimiterPartsNext == LimiterInv' <=> ClockInv' /\ \A k \in Emails : KeyInv(k)'
  BY DEF LimiterInv, KeyInv

\* Requests reach the limiter, or stay where they are before it.
Before == \A q \in Calls : pc'[q] = "allow" => pc[q] = "allow" /\ job'[q] = job[q]

LEMMA BeforeClock ==
  ASSUME ClockInv, Before, UNCHANGED now
  PROVE  ClockInv'
  BY DEF ClockInv, Before

LEMMA ReturnBefore ==
  ASSUME TypeOK, NEW p \in Calls, Return(p)
  PROVE  Before
  BY DEF TypeOK, Return, Goto, Before

LEMMA GotoBefore ==
  ASSUME TypeOK, NEW p \in Calls, NEW l, l # "allow", Goto(p, l), UNCHANGED job
  PROVE  Before
  BY DEF TypeOK, Goto, Before

\* Steps that have nothing to do with the limiter.
LEMMA KeepLimiter ==
  ASSUME Inv, Inv', LimiterInv, ClockInv', now' >= now, UNCHANGED <<attempts, tries>>
  PROVE  LimiterInv'
<1>1. TypeOK /\ TypeOK'
  BY DEF Inv
<1>2. \A k \in Emails : KeyInv(k) /\ \A u \in Int : Since(k, u)' = Since(k, u)
  BY LimiterParts DEF Since
<1>3. ASSUME NEW k \in Emails PROVE KeyInv(k)'
  BY <1>1, <1>2, KeepKey
<1>4. QED
  BY <1>3, LimiterPartsNext

\* The clean-up, and nothing else.
LEMMA SweepLimiter ==
  ASSUME Inv, Inv', LimiterInv, ClockInv', UNCHANGED <<now, tries>>,
         NEW t \in Time, t <= now, attempts' = Swept(t)
  PROVE  LimiterInv'
<1>1. TypeOK /\ TypeOK'
  BY DEF Inv
<1>2. \A k \in Emails : KeyInv(k) /\ \A u \in Int : Since(k, u)' = Since(k, u)
  BY LimiterParts DEF Since
<1>3. ASSUME NEW k \in Emails PROVE KeyInv(k)'
  BY <1>1, <1>2, SweptKey
<1>4. QED
  BY <1>3, LimiterPartsNext

LEMMA TickLimiter ==
  ASSUME Inv, Inv', LimiterInv, Tick
  PROVE  LimiterInv'
<1>1. now' = now + 1 /\ UNCHANGED <<attempts, tries, pc, job>>
      /\ \A p \in Calls : pc[p] = "allow" => now - job[p].time < Lag
  BY DEF Tick, limiter
<1>2. now \in Nat /\ Lag \in Nat
  BY BoundAssumption DEF Inv, TypeOK, Time
<1>3. \A p \in Calls : job[p].time \in Int
  BY BoundAssumption DEF Inv, TypeOK, Time
<1>4. ClockInv'
  BY <1>1, <1>2, <1>3, LimiterParts DEF ClockInv
<1>5. QED
  BY <1>1, <1>2, <1>4, KeepLimiter

\* The clock of an attempt at the limiter.
LEMMA AttemptTime ==
  ASSUME Inv, LimiterInv, NEW p \in Calls, pc[p] = "allow"
  PROVE  /\ job[p].time \in Time /\ now - Lag <= job[p].time /\ job[p].time <= now
         /\ job[p].key \in Emails
  BY LoginShape, LimiterParts DEF ClockInv

LEMMA AllowedLimiter ==
  ASSUME Inv, Inv', LimiterInv, NEW p \in Calls, Allowed(p)
  PROVE  LimiterInv'
<1>1. TypeOK /\ TypeOK'
  BY DEF Inv
<1>2. /\ pc[p] = "allow" /\ Counting(job[p].key, job[p].time).n < Limit
      /\ attempts' = [Swept(job[p].time) EXCEPT
                        ![job[p].key] = [Counting(job[p].key, job[p].time) EXCEPT !.n = @ + 1]]
      /\ Count(job[p].key, job[p].time) /\ Goto(p, "check") /\ UNCHANGED <<now, job>>
  BY DEF Allowed
<1>3. PICK k \in Emails, t \in Time :
        /\ k = job[p].key /\ t = job[p].time /\ now - Lag <= t /\ t <= now
  BY <1>2, AttemptTime
<1>4. ClockInv'
  BY <1>1, <1>2, LimiterParts, GotoBefore, BeforeClock
<1>5. Swept(t) \in [Emails -> Windows]
  BY <1>1, SweptType
<1>6. KeyInv(k)'
  <2>1. attempts'[k] = [Counting(k, t) EXCEPT !.n = @ + 1]
    BY <1>2, <1>3, <1>5
  <2>2. KeyInv(k) /\ Counting(k, t).n < Limit /\ Count(k, t) /\ now' = now
    BY <1>2, <1>3, LimiterParts
  <2>3. QED
    BY <1>1, <1>3, <2>1, <2>2, CountKey
<1>7. ASSUME NEW x \in Emails \ {k} PROVE KeyInv(x)'
  <2>1. attempts'[x] = Swept(t)[x]
    BY <1>2, <1>3, <1>5
  <2>2. \A u \in Int : Since(x, u)' = Since(x, u)
    BY <1>1, <1>2, <1>3, CountStep
  <2>3. KeyInv(x)
    BY LimiterParts
  <2>4. QED
    BY <1>1, <1>2, <1>3, <2>1, <2>2, <2>3, SweptKey
<1>8. QED
  BY <1>4, <1>6, <1>7, LimiterPartsNext

LEMMA RefusedLimiter ==
  ASSUME Inv, Inv', LimiterInv, NEW p \in Calls, Refused(p)
  PROVE  LimiterInv'
<1>1. /\ pc[p] = "allow" /\ attempts' = Swept(job[p].time) /\ Return(p)
      /\ UNCHANGED <<now, tries>>
  BY DEF Refused
<1>2. PICK t \in Time : t = job[p].time /\ t <= now
  BY <1>1, AttemptTime
<1>3. ClockInv'
  BY <1>1, LimiterParts, ReturnBefore, BeforeClock DEF Inv
<1>4. attempts' = Swept(t)
  BY <1>1, <1>2
<1>5. QED
  BY <1>1, <1>2, <1>3, <1>4, SweepLimiter

LEMMA ElsewhereLimiter ==
  ASSUME Inv, Inv', LimiterInv, NEW t \in Time, Elsewhere(t)
  PROVE  LimiterInv'
<1>1. t <= now /\ attempts' = Swept(t) /\ UNCHANGED <<now, tries, pc, job>>
  BY DEF Elsewhere
<1>2. ClockInv'
  BY <1>1, LimiterParts DEF ClockInv
<1>3. QED
  BY <1>1, <1>2, SweepLimiter

LEMMA ResetLimiter ==
  ASSUME Inv, Inv', LimiterInv, NEW p \in Calls, Reset(p)
  PROVE  LimiterInv'
<1>1. TypeOK /\ TypeOK'
  BY DEF Inv
<1>2. /\ attempts' = [attempts EXCEPT ![job[p].key] = NoWindow]
      /\ tries' = [tries EXCEPT ![job[p].key] = Nobody]
      /\ pc[p] = "reset" /\ Return(p) /\ UNCHANGED now
  BY DEF Reset
<1>3. PICK k \in Emails : k = job[p].key
  BY <1>2, LoginShape
<1>4. /\ attempts'[k] = NoWindow /\ tries'[k] = Nobody
      /\ \A x \in Emails \ {k} : attempts'[x] = attempts[x] /\ tries'[x] = tries[x]
  BY <1>1, <1>2, <1>3 DEF TypeOK
<1>5. ClockInv'
  BY <1>1, <1>2, LimiterParts, ReturnBefore, BeforeClock
<1>6. KeyInv(k)'
  BY <1>1, <1>4, FreshKey
<1>7. ASSUME NEW x \in Emails \ {k} PROVE KeyInv(x)'
  <2>1. \A u \in Int : Since(x, u)' = Since(x, u)
    BY <1>4 DEF Since
  <2>2. KeyInv(x) /\ now' >= now
    BY <1>1, <1>2, LimiterParts, AtHand DEF Numbers
  <2>3. QED
    BY <1>1, <1>4, <2>1, <2>2, KeepKey
<1>8. QED
  BY <1>5, <1>6, <1>7, LimiterPartsNext

LEMMA RestartLimiter ==
  ASSUME Inv', Restart
  PROVE  LimiterInv'
<1>1. /\ attempts' = [k \in Emails |-> NoWindow] /\ tries' = [k \in Emails |-> Nobody]
      /\ pc' = [p \in Calls |-> "idle"]
  BY DEF Restart
<1>2. ClockInv'
  BY <1>1 DEF ClockInv
<1>3. \A k \in Emails : KeyInv(k)'
  BY <1>1, FreshKey DEF Inv
<1>4. QED
  BY <1>2, <1>3, LimiterPartsNext

\* The other steps of requests.
LEMMA RequestLimiter ==
  ASSUME Inv, Inv', LimiterInv, NEW p \in Calls, Request(p)
  PROVE  LimiterInv'
<1>1. TypeOK /\ ClockInv /\ now \in Nat /\ Lag \in Nat
  BY LimiterParts, BoundAssumption DEF Inv, TypeOK, Time
<1>2. CASE Allowed(p) \/ Refused(p) \/ Reset(p)
  BY <1>2, AllowedLimiter, RefusedLimiter, ResetLimiter
<1>3. CASE \E k \in Emails : BeginLogin(p, k)
  <2>1. PICK k \in Emails : BeginLogin(p, k)
    BY <1>3
  <2>2. /\ job' = [job EXCEPT ![p] = [NoJob EXCEPT !.key = k, !.time = now]]
        /\ Goto(p, "allow") /\ UNCHANGED <<now, attempts, tries>>
    BY <2>1 DEF BeginLogin, limiter
  <2>3. job'[p].time = now /\ \A q \in Calls \ {p} : job'[q] = job[q] /\ pc'[q] = pc[q]
    BY <1>1, <2>2 DEF TypeOK, NoJob, Goto
  <2>4. ClockInv'
    BY <1>1, <2>2, <2>3 DEF ClockInv
  <2>5. QED
    BY <1>1, <2>2, <2>4, KeepLimiter
<1>4. CASE \E i \in Sessions : BeginCall(p, i)
  <2>1. PICK i \in Sessions : BeginCall(p, i)
    BY <1>4
  <2>2. /\ \E j : job' = [job EXCEPT ![p] = j]
        /\ Goto(p, "verify") /\ UNCHANGED <<now, attempts, tries>>
    BY <2>1 DEF BeginCall, limiter
  <2>3. Before
    BY <1>1, <2>2 DEF TypeOK, Goto, Before
  <2>4. QED
    BY <1>1, <2>2, <2>3, BeforeClock, KeepLimiter
<1>5. CASE \/ \E i \in Sessions : CreateSession(p, i)
           \/ Check(p) \/ Verify(p) \/ FindUser(p)
  <2>1. /\ \E l \in {"create", "reset", "user", "serve"} : Goto(p, l)
        /\ UNCHANGED <<job, now, attempts, tries>>
    BY <1>5 DEF CreateSession, Check, Verify, FindUser, limiter
  <2>2. Before
    BY <1>1, <2>1, GotoBefore
  <2>3. QED
    BY <1>1, <2>1, <2>2, BeforeClock, KeepLimiter
<1>6. CASE Serve(p) \/ Logout(p) \/ Fails(p)
  <2>1. Return(p) /\ UNCHANGED <<now, attempts, tries>>
    BY <1>6 DEF Serve, Logout, Fails, limiter
  <2>2. Before
    BY <1>1, <2>1, ReturnBefore
  <2>3. QED
    BY <1>1, <2>1, <2>2, BeforeClock, KeepLimiter
<1>7. QED
  BY <1>2, <1>3, <1>4, <1>5, <1>6 DEF Request

LEMMA InitLimiter == Init /\ Inv => LimiterInv
<1> SUFFICES ASSUME Init, Inv PROVE LimiterInv
  OBVIOUS
<1>1. \A k \in Emails : attempts[k] = NoWindow /\ tries[k] = Nobody
  BY DEF Init
<1>2. ASSUME NEW k \in Emails, NEW u \in Int PROVE Since(k, u) = 0
  <2>1. u <= End => (IF u < 0 THEN 0 ELSE u) \in Time
    BY BoundAssumption DEF Time
  <2>2. QED
    BY <1>1, <2>1, BoundAssumption DEF Since, Nobody
<1>3. ASSUME NEW k \in Emails, NEW from \in Time
      PROVE  Tried(k, from, from + Span - 1) = 0 /\ Since(k, from) = 0
  <2>1. from \in Int /\ from + Span - 1 + 1 \in Int
    BY BoundAssumption, LimitAssumption DEF Time, Span
  <2>2. QED
    BY <1>2, <2>1 DEF Tried
<1>4. ASSUME NEW k \in Emails PROVE KeyInv(k)
  <2>1. RecordInv(k)
    BY <1>3, LimitAssumption DEF RecordInv
  <2>2. NoWindowInv(k) /\ WindowInv(k)
    BY <1>1, <1>3, LimitAssumption DEF NoWindowInv, WindowInv
  <2>3. QED
    BY <2>1, <2>2 DEF KeyInv
<1>5. ClockInv
  BY DEF Init, ClockInv
<1>6. QED
  BY <1>4, <1>5, LimiterParts

LEMMA NextLimiter == Inv /\ Inv' /\ LimiterInv /\ [Next]_vars => LimiterInv'
<1> SUFFICES ASSUME Inv, Inv', LimiterInv, [Next]_vars PROVE LimiterInv'
  OBVIOUS
<1>0. now \in Nat /\ ClockInv
  BY LimiterParts, BoundAssumption DEF Inv, TypeOK, Time
<1>1. CASE UNCHANGED <<now, attempts, tries, pc, job>>
  <2>1. ClockInv'
    BY <1>0, <1>1 DEF ClockInv
  <2>2. QED
    BY <1>0, <1>1, <2>1, KeepLimiter
<1>2. CASE \E i \in Sessions : Expire(i)
  BY <1>1, <1>2 DEF Expire, limiter
<1>3. CASE \E e \in Emails : Suspend(e) \/ \E i \in Sessions : Register(e, i)
  BY <1>1, <1>3 DEF Suspend, Register, limiter
<1>4. CASE \E t \in Time : Elsewhere(t)
  BY <1>4, ElsewhereLimiter
<1>5. CASE Tick \/ Restart
  BY <1>5, TickLimiter, RestartLimiter
<1>6. CASE \E p \in Calls : Request(p)
  BY <1>6, RequestLimiter
<1>7. CASE UNCHANGED vars
  BY <1>1, <1>7 DEF vars
<1>8. QED
  BY <1>2, <1>3, <1>4, <1>5, <1>6, <1>7 DEF Next

-----------------------------------------------------------------------------
\* The inductive invariant holds in every reachable state (Login,
\* Authenticate, Logout).
THEOREM Safety == Spec => []Inv
  BY InitInv, NextInv, PTL DEF Spec

\* Every variable keeps its type; no window counts beyond the limit (Allow).
THEOREM TypeCorrect == Spec => []TypeOK
  BY Safety, PTL DEF Inv

\* A request begun after its session had ended, or by a suspended user, is
\* never served (Authenticate).
THEOREM BarredStaysOut == Spec => []BarredIsOut
  BY Safety, PTL DEF Inv

\* The second inductive invariant, of the limiter's windows and the record of
\* what they let in (Allow, Reset).
THEOREM LimiterSafety == Spec => []LimiterInv
<1>1. Spec => LimiterInv
  BY InitInv, InitLimiter DEF Spec
<1>2. QED
  BY <1>1, Safety, NextLimiter, PTL DEF Spec

\* A key has fewer than two limits of attempts in any span a little shorter than
\* a window, for every limit, window and lag (Allow).
THEOREM AttemptsAreBounded == Spec => []AttemptsBounded
<1>1. Inv /\ LimiterInv => AttemptsBounded
  <2>1. ASSUME Inv, LimiterInv, NEW k \in Emails, NEW t \in Time
        PROVE  Tried(k, t, t + Window - 2 * Lag - 1) < 2 * Limit
    <3>1. t + Window - 2 * Lag - 1 = t + Span - 1
      BY LimitAssumption, BoundAssumption DEF Span, Time
    <3>2. Tried(k, t, t + Span - 1) < 2 * Limit
      BY <2>1, LimiterParts DEF KeyInv, RecordInv
    <3>3. QED
      BY <3>1, <3>2
  <2>2. QED
    BY <2>1 DEF AttemptsBounded
<1>2. QED
  BY <1>1, Safety, LimiterSafety, PTL

\* An attempt is refused only if Limit attempts of its key were let in from a
\* window's length and a lag before its time to a lag after it, for every limit,
\* window and lag (Allow, Reset).
THEOREM RefusalsAreJustified == Spec => RefusalJustified
<1> DEFINE Late(p) == Tried(job[p].key, job[p].time - Window - Lag + 1, job[p].time + Lag)
<1>1. ASSUME Inv, LimiterInv, NEW p \in Calls, Refused(p)
      PROVE  Late(p) >= Limit
  <2>1. TypeOK /\ Numbers
    BY AtHand, <1>1 DEF Inv
  <2>2. pc[p] = "allow" /\ Counting(job[p].key, job[p].time).n >= Limit
    BY <1>1 DEF Refused
  <2>3. PICK k \in Emails, t \in Time :
          k = job[p].key /\ t = job[p].time /\ now - Lag <= t /\ t <= now
    BY <1>1, <2>2, AttemptTime
  <2>4. KeyInv(k)
    BY <1>1, LimiterParts
  <2>5. ~Over(attempts[k], t) /\ attempts[k].n >= Limit
    BY <2>1, <2>2, <2>3 DEF Counting, Swept, Over, NoWindow, Numbers
  <2>6. attempts[k] # NoWindow
    BY <2>5 DEF Over, NoWindow
  <2>7. PICK s \in Time, n \in 1..Limit : attempts[k].start = s /\ attempts[k].n = n
    BY <2>1, <2>6 DEF TypeOK
  <2>8. t - s < Window /\ n >= Limit
    BY <2>1, <2>5, <2>7 DEF Over, Numbers, Time
  <2>9. /\ t - Window - Lag + 1 \in Int /\ s - Lag \in Int /\ t + Lag + 1 \in Int
        /\ t - Window - Lag + 1 <= s - Lag /\ t + Lag + 1 > now
    BY <2>1, <2>3, <2>8 DEF Numbers, Time
  <2>10. Since(k, s - Lag) >= n
    BY <2>4, <2>6, <2>7 DEF KeyInv, WindowInv
  <2>11. Since(k, s - Lag) <= Since(k, t - Window - Lag + 1)
    BY <2>1, <2>4, <2>9, Ordered DEF KeyInv
  <2>12. Since(k, t + Lag + 1) = 0
    BY <2>1, <2>4, <2>9, NothingLater DEF KeyInv
  <2>13. Since(k, t - Window - Lag + 1) \in Nat /\ Since(k, s - Lag) \in Nat
    BY <2>1, <2>9, SinceType
  <2>14. Tried(k, t - Window - Lag + 1, t + Lag) = Since(k, t - Window - Lag + 1)
    BY <2>12, <2>13 DEF Tried
  <2>15. QED
    BY <2>1, <2>3, <2>8, <2>10, <2>11, <2>13, <2>14 DEF Numbers
<1>2. Inv /\ LimiterInv /\ [Next]_vars =>
        [\A p \in Calls :
           Refused(p) => LET t == job[p].time IN
                         Tried(job[p].key, t - Window - Lag + 1, t + Lag) >= Limit]_vars
  BY <1>1
<1>3. QED
  BY <1>2, Safety, LimiterSafety, PTL DEF Spec, RefusalJustified
=============================================================================
