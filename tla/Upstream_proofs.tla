--------------------------- MODULE Upstream_proofs ---------------------------
(***************************************************************************)
(* Proofs about Upstream, for every set of connections and calls and every *)
(* number of tokens.                                                       *)
(***************************************************************************)
EXTENDS Upstream, TLAPS

\* A call that is under way has a connection.
LEMMA ConnType ==
  ASSUME TypeOK, NEW p \in Calls, pc[p] # "idle"
  PROVE  Conn(p) \in Conns
  BY DEF TypeOK, Conn

\* Its record is one with a connection, not NoJob.
LEMMA JobShape ==
  ASSUME TypeOK, NEW p \in Calls, pc[p] # "idle"
  PROVE  job[p] \in [conn : Conns, attempt : {0, 1}, tok : Tokens \union {None},
                     refused : Tokens \union {None}]
  BY NoneAssumption DEF TypeOK, Job, NoJob

\* A token with time left is a token.
LEMMA FreshType ==
  ASSUME TypeOK, NEW c \in Conns, cache[c].fresh
  PROVE  cache[c] \in [tok : Tokens, fresh : BOOLEAN]
  BY DEF TypeOK, Cached, NoToken

LEMMA InitInv == Init => Inv
<1> SUFFICES ASSUME Init PROVE Inv
  OBVIOUS
<1>1. TypeOK
  BY FetchesAssumption DEF Init, TypeOK, Cached, NoToken, Job, NoJob
<1>2. TokenInv /\ CallInv /\ RetryHasNewToken
  BY DEF Init, TokenInv, CallInv, RetryHasNewToken, NoToken, NoJob
<1>3. LockInv
  BY NoneAssumption DEF Init, LockInv
<1>4. QED
  BY <1>1, <1>2, <1>3 DEF Inv

\* A call begins without a token: nothing is known of it yet.
LEMMA BeginInv ==
  ASSUME Inv, NEW p \in Calls, NEW c \in Conns, Begin(p, c)
  PROVE  Inv'
<1>0. TypeOK /\ TokenInv /\ CallInv /\ LockInv /\ RetryHasNewToken
  BY DEF Inv
<1>1. TypeOK'
  BY <1>0 DEF TypeOK, Begin, Goto, Conn, Cached, NoToken, Job, NoJob, Tokens, gbrain
<1>2. TokenInv'
  BY <1>0 DEF TypeOK, TokenInv, Begin, Goto, Conn, Issued, NoToken, NoJob, gbrain
<1>3. CallInv'
  BY <1>0 DEF TypeOK, TokenInv, CallInv, Begin, Goto, Conn, Issued, NoToken, NoJob, gbrain
<1>4. LockInv'
  BY <1>0, NoneAssumption DEF TypeOK, LockInv, Begin, Goto, Conn, NoToken, NoJob
<1>5. RetryHasNewToken'
  BY <1>0 DEF TypeOK, CallInv, RetryHasNewToken, Begin, Goto, Conn, NoJob
<1>6. QED
  BY <1>1, <1>2, <1>3, <1>4, <1>5 DEF Inv

\* The cached token has been issued and was not the one refused.
LEMMA UseCachedInv ==
  ASSUME Inv, NEW p \in Calls, UseCached(p)
  PROVE  Inv'
<1>0. TypeOK /\ TokenInv /\ CallInv /\ LockInv /\ RetryHasNewToken
  BY DEF Inv
<1>c. Conn(p) \in Conns
  BY <1>0, ConnType DEF UseCached
<1>f. cache[Conn(p)].tok \in Tokens /\ cache[Conn(p)].tok # None
  BY <1>0, <1>c, FreshType, NoneAssumption, FetchesAssumption DEF UseCached, Usable, Tokens
<1>1. TypeOK'
  BY <1>0, <1>c DEF TypeOK, UseCached, Goto, Conn, Cached, NoToken, Job, NoJob, Tokens, gbrain
<1>2. TokenInv'
  BY <1>0, <1>c DEF TypeOK, TokenInv, UseCached, Goto, Conn, Issued, NoToken, NoJob, gbrain
<1>3. CallInv'
  BY <1>0, <1>c, <1>f DEF TypeOK, TokenInv, CallInv, UseCached, Goto, Conn, Issued, NoToken, NoJob, gbrain
<1>4. LockInv'
  BY <1>0, <1>c, NoneAssumption DEF TypeOK, LockInv, UseCached, Goto, Conn, NoToken, NoJob
<1>5. RetryHasNewToken'
  BY <1>0, <1>c DEF TypeOK, CallInv, RetryHasNewToken, UseCached, Goto, Conn, NoJob
<1>6. QED
  BY <1>1, <1>2, <1>3, <1>4, <1>5 DEF Inv

\* The mutex is taken where a Client has no token with time left.
LEMMA BeginFetchInv ==
  ASSUME Inv, NEW p \in Calls, BeginFetch(p)
  PROVE  Inv'
<1>0. TypeOK /\ TokenInv /\ CallInv /\ LockInv /\ RetryHasNewToken
  BY DEF Inv
<1>c. Conn(p) \in Conns
  BY <1>0, ConnType DEF BeginFetch
<1>1. TypeOK'
  BY <1>0, <1>c DEF TypeOK, BeginFetch, Goto, Conn, Cached, NoToken, Job, NoJob, Tokens, gbrain
<1>2. TokenInv'
  BY <1>0, <1>c DEF TypeOK, TokenInv, BeginFetch, Goto, Conn, Issued, NoToken, NoJob, gbrain
<1>3. CallInv'
  BY <1>0, <1>c DEF TypeOK, TokenInv, CallInv, BeginFetch, Goto, Conn, Issued, NoToken, NoJob, gbrain
<1>4. LockInv'
  <2>1. \A c \in Conns : mu'[c] = IF c = Conn(p) THEN p ELSE mu[c]
    BY <1>0, <1>c DEF TypeOK, BeginFetch
  <2>2. \A q \in Calls : pc'[q] = IF q = p THEN "fetch" ELSE pc[q]
    BY <1>0 DEF TypeOK, BeginFetch, Goto
  <2>3. \A q \in Calls, c \in Conns : mu[c] = q <=> pc[q] = "fetch" /\ Conn(q) = c
    BY <1>0 DEF LockInv
  <2>4. mu[Conn(p)] = None /\ pc[p] = "token" /\ UNCHANGED <<job, cache>>
    BY DEF BeginFetch
  <2>5. \A q \in Calls, c \in Conns : mu'[c] = q <=> pc'[q] = "fetch" /\ Conn(q)' = c
    BY <1>c, <2>1, <2>2, <2>3, <2>4, NoneAssumption DEF Conn
  <2>6. Conn(p) \notin Admin => ~cache[Conn(p)].fresh
    BY DEF BeginFetch, Usable, Forced
  <2>7. QED
    BY <1>0, <2>2, <2>4, <2>5, <2>6 DEF LockInv, Conn
<1>5. RetryHasNewToken'
  BY <1>0, <1>c DEF TypeOK, CallInv, RetryHasNewToken, BeginFetch, Goto, Conn, NoJob
<1>6. QED
  BY <1>1, <1>2, <1>3, <1>4, <1>5 DEF Inv

LEMMA DiscoverInv ==
  ASSUME Inv, NEW p \in Calls, Discover(p)
  PROVE  Inv'
<1>0. TypeOK /\ TokenInv /\ CallInv /\ LockInv /\ RetryHasNewToken
  BY DEF Inv
<1>c. Conn(p) \in Conns
  BY <1>0, ConnType DEF Discover
<1>1. TypeOK'
  BY <1>0, <1>c DEF TypeOK, Discover, Goto, Conn, Cached, NoToken, Job, NoJob, Tokens, gbrain
<1>2. TokenInv'
  BY <1>0, <1>c DEF TypeOK, TokenInv, Discover, Goto, Conn, Issued, NoToken, NoJob, gbrain
<1>3. CallInv'
  BY <1>0, <1>c DEF TypeOK, TokenInv, CallInv, Discover, Goto, Conn, Issued, NoToken, NoJob, gbrain
<1>4. LockInv'
  BY <1>0, <1>c, NoneAssumption DEF TypeOK, LockInv, Discover, Goto, Conn, NoToken, NoJob
<1>5. RetryHasNewToken'
  BY <1>0, <1>c DEF TypeOK, CallInv, RetryHasNewToken, Discover, Goto, Conn, NoJob
<1>6. QED
  BY <1>1, <1>2, <1>3, <1>4, <1>5 DEF Inv

\* The new token is none that was refused before.
LEMMA FetchedInv ==
  ASSUME Inv, NEW p \in Calls, Fetched(p)
  PROVE  Inv'
<1>0. TypeOK /\ TokenInv /\ CallInv /\ LockInv /\ RetryHasNewToken
  BY DEF Inv
<1>c. Conn(p) \in Conns
  BY <1>0, ConnType DEF Fetched
<1> DEFINE t == made + 1
<1>t. t \in Tokens /\ t # None /\ made \in Nat /\ made' = t /\ valid' = valid \union {t}
  BY <1>0, NoneAssumption, FetchesAssumption DEF TypeOK, Fetched, Tokens
<1>f. PICK f \in BOOLEAN : cache' = [cache EXCEPT ![Conn(p)] = [tok |-> t, fresh |-> f]]
  BY DEF Fetched
<1>j. /\ job' = [job EXCEPT ![p].tok = t]
      /\ job[p] \in [conn : Conns, attempt : {0, 1}, tok : Tokens \union {None},
                     refused : Tokens \union {None}]
  BY <1>0, JobShape DEF Fetched
<1>1. TypeOK'
  <2>1. job' \in [Calls -> Job]
    BY <1>0, <1>j, <1>t DEF TypeOK, Job
  <2>2. cache' \in [Conns -> Cached]
    BY <1>0, <1>c, <1>f, <1>t DEF TypeOK, Cached
  <2>3. made' \in 0..Fetches /\ valid' \subseteq 1..made'
    BY <1>0, <1>t, FetchesAssumption DEF TypeOK, Tokens
  <2>4. \A q \in Calls : job'[q].conn = job[q].conn
    BY <1>0, <1>j DEF TypeOK
  <2>5. QED
    BY <1>0, <1>c, <2>1, <2>2, <2>3, <2>4 DEF TypeOK, Fetched, Goto
<1>2. TokenInv'
  BY <1>0, <1>c DEF TypeOK, TokenInv, Fetched, Goto, Conn, Issued, NoToken, NoJob, gbrain
<1>3. CallInv'
  <2> SUFFICES ASSUME NEW q \in Calls
               PROVE  /\ pc'[q] = "answer" => runs'[q] = 1
                      /\ pc'[q] \in {"token", "fetch", "send", "drop"} => runs'[q] = 0
                      /\ runs'[q] \in {0, 1}
                      /\ pc'[q] \in {"send", "answer"} => job'[q].tok # None
                      /\ pc'[q] = "drop" => job'[q].refused # None
                      /\ job'[q].attempt = 1 =>
                           /\ pc'[q] \notin {"idle", "drop"} /\ job'[q].refused # None
                           /\ cache'[Conn(q)'].tok # job'[q].refused
    BY DEF CallInv
  <2>1. /\ job'[q].conn = job[q].conn /\ job'[q].attempt = job[q].attempt
        /\ job'[q].refused = job[q].refused
        /\ job'[q].tok = IF q = p THEN t ELSE job[q].tok
    BY <1>0, <1>j DEF TypeOK
  <2>2. /\ pc[p] = "fetch" /\ runs' = runs
        /\ pc'[q] = IF q = p THEN "send" ELSE pc[q]
    BY <1>0 DEF TypeOK, Fetched, Goto
  <2>3. pc[q] # "idle" => cache'[Conn(q)].tok \in {cache[Conn(q)].tok, t}
    BY <1>0, <1>c, <1>f, ConnType DEF TypeOK
  <2>4. job[q].refused # t
    BY <1>0, <1>t DEF TokenInv, Issued, TypeOK
  <2>5. QED
    BY <1>0, <1>t, <2>1, <2>2, <2>3, <2>4 DEF CallInv, Conn
<1>4. LockInv'
  BY <1>0, <1>c, NoneAssumption DEF TypeOK, LockInv, Fetched, Goto, Conn, NoToken, NoJob
<1>5. RetryHasNewToken'
  <2>1. job[p].refused # t
    BY <1>0, <1>t DEF TokenInv, Issued, TypeOK
  <2>2. QED
    BY <1>0, <1>j, <2>1 DEF TypeOK, RetryHasNewToken, Fetched, Goto
<1>6. QED
  BY <1>1, <1>2, <1>3, <1>4, <1>5 DEF Inv

LEMMA FetchFailsInv ==
  ASSUME Inv, NEW p \in Calls, FetchFails(p)
  PROVE  Inv'
<1>0. TypeOK /\ TokenInv /\ CallInv /\ LockInv /\ RetryHasNewToken
  BY DEF Inv
<1>c. Conn(p) \in Conns
  BY <1>0, ConnType DEF FetchFails
<1>1. TypeOK'
  BY <1>0, <1>c DEF TypeOK, FetchFails, Goto, Return, Conn, Cached, NoToken, Job, NoJob, Tokens, gbrain
<1>2. TokenInv'
  BY <1>0, <1>c DEF TypeOK, TokenInv, FetchFails, Goto, Return, Conn, Issued, NoToken, NoJob, gbrain
<1>3. CallInv'
  BY <1>0, <1>c DEF TypeOK, TokenInv, CallInv, FetchFails, Goto, Return, Conn, Issued, NoToken, NoJob, gbrain
<1>4. LockInv'
  BY <1>0, <1>c, NoneAssumption DEF TypeOK, LockInv, FetchFails, Goto, Return, Conn, NoToken, NoJob
<1>5. RetryHasNewToken'
  BY <1>0, <1>c DEF TypeOK, CallInv, RetryHasNewToken, FetchFails, Goto, Return, Conn, NoJob
<1>6. QED
  BY <1>1, <1>2, <1>3, <1>4, <1>5 DEF Inv

\* The call is executed for the first time: its last attempt was refused.
LEMMA ExecutedInv ==
  ASSUME Inv, NEW p \in Calls, Executed(p)
  PROVE  Inv'
<1>0. TypeOK /\ TokenInv /\ CallInv /\ LockInv /\ RetryHasNewToken
  BY DEF Inv
<1>c. Conn(p) \in Conns
  BY <1>0, ConnType DEF Executed
<1>1. TypeOK'
  BY <1>0, <1>c DEF TypeOK, CallInv, Executed, Goto, Conn, Cached, NoToken, Job, NoJob, Tokens, gbrain
<1>2. TokenInv'
  BY <1>0, <1>c DEF TypeOK, TokenInv, Executed, Goto, Conn, Issued, NoToken, NoJob, gbrain
<1>3. CallInv'
  BY <1>0, <1>c DEF TypeOK, TokenInv, CallInv, Executed, Goto, Conn, Issued, NoToken, NoJob, gbrain
<1>4. LockInv'
  BY <1>0, <1>c, NoneAssumption DEF TypeOK, LockInv, Executed, Goto, Conn, NoToken, NoJob
<1>5. RetryHasNewToken'
  BY <1>0, <1>c DEF TypeOK, CallInv, RetryHasNewToken, Executed, Goto, Conn, NoJob
<1>6. QED
  BY <1>1, <1>2, <1>3, <1>4, <1>5 DEF Inv

LEMMA UnauthorizedInv ==
  ASSUME Inv, NEW p \in Calls, Unauthorized(p)
  PROVE  Inv'
<1>0. TypeOK /\ TokenInv /\ CallInv /\ LockInv /\ RetryHasNewToken
  BY DEF Inv
<1>c. Conn(p) \in Conns
  BY <1>0, ConnType DEF Unauthorized
<1>1. TypeOK'
  BY <1>0, <1>c DEF TypeOK, Unauthorized, Goto, Conn, Cached, NoToken, Job, NoJob, Tokens, gbrain
<1>2. TokenInv'
  BY <1>0, <1>c DEF TypeOK, TokenInv, Unauthorized, Goto, Conn, Issued, NoToken, NoJob, gbrain
<1>3. CallInv'
  BY <1>0, <1>c DEF TypeOK, TokenInv, CallInv, Unauthorized, Goto, Conn, Issued, NoToken, NoJob, gbrain
<1>4. LockInv'
  BY <1>0, <1>c, NoneAssumption DEF TypeOK, LockInv, Unauthorized, Goto, Conn, NoToken, NoJob
<1>5. RetryHasNewToken'
  BY <1>0, <1>c DEF TypeOK, CallInv, RetryHasNewToken, Unauthorized, Goto, Conn, NoJob
<1>6. QED
  BY <1>1, <1>2, <1>3, <1>4, <1>5 DEF Inv

\* Whatever is cached afterwards, it is not the refused token.
LEMMA InvalidateInv ==
  ASSUME Inv, NEW p \in Calls, Invalidate(p)
  PROVE  Inv'
<1>0. TypeOK /\ TokenInv /\ CallInv /\ LockInv /\ RetryHasNewToken
  BY DEF Inv
<1>c. Conn(p) \in Conns
  BY <1>0, ConnType DEF Invalidate
<1>1. TypeOK'
  <2>1. job[p] \in [conn : Conns, attempt : {0, 1}, tok : Tokens \union {None},
                    refused : Tokens \union {None}]
    BY <1>0, JobShape DEF Invalidate
  <2>2. job' \in [Calls -> Job]
    BY <1>0, <2>1 DEF TypeOK, Invalidate, Job
  <2>3. cache' \in [Conns -> Cached]
    BY <1>0, <1>c DEF TypeOK, Invalidate, Cached
  <2>4. \A q \in Calls : job'[q].conn = job[q].conn
    BY <1>0, <2>1 DEF TypeOK, Invalidate
  <2>5. QED
    BY <1>0, <1>c, <2>2, <2>3, <2>4 DEF TypeOK, Invalidate, Goto, Conn, gbrain
<1>2. TokenInv'
  BY <1>0, <1>c DEF TypeOK, TokenInv, Invalidate, Goto, Conn, Issued, NoToken, NoJob, gbrain
<1>3. CallInv'
  BY <1>0, <1>c DEF TypeOK, TokenInv, CallInv, Invalidate, Goto, Conn, Issued, NoToken, NoJob, gbrain
<1>4. LockInv'
  BY <1>0, <1>c, NoneAssumption DEF TypeOK, LockInv, Invalidate, Goto, Conn, NoToken, NoJob
<1>5. RetryHasNewToken'
  BY <1>0, <1>c DEF TypeOK, CallInv, RetryHasNewToken, Invalidate, Goto, Conn, NoJob
<1>6. QED
  BY <1>1, <1>2, <1>3, <1>4, <1>5 DEF Inv

LEMMA SucceedInv ==
  ASSUME Inv, NEW p \in Calls, Succeed(p)
  PROVE  Inv'
<1>0. TypeOK /\ TokenInv /\ CallInv /\ LockInv /\ RetryHasNewToken
  BY DEF Inv
<1>c. Conn(p) \in Conns
  BY <1>0, ConnType DEF Succeed
<1>1. TypeOK'
  BY <1>0, <1>c DEF TypeOK, Succeed, Goto, Return, Conn, Cached, NoToken, Job, NoJob, Tokens, gbrain
<1>2. TokenInv'
  BY <1>0, <1>c DEF TypeOK, TokenInv, Succeed, Goto, Return, Conn, Issued, NoToken, NoJob, gbrain
<1>3. CallInv'
  BY <1>0, <1>c DEF TypeOK, TokenInv, CallInv, Succeed, Goto, Return, Conn, Issued, NoToken, NoJob, gbrain
<1>4. LockInv'
  BY <1>0, <1>c, NoneAssumption DEF TypeOK, LockInv, Succeed, Goto, Return, Conn, NoToken, NoJob
<1>5. RetryHasNewToken'
  BY <1>0, <1>c DEF TypeOK, CallInv, RetryHasNewToken, Succeed, Goto, Return, Conn, NoJob
<1>6. QED
  BY <1>1, <1>2, <1>3, <1>4, <1>5 DEF Inv

LEMMA CallFailsInv ==
  ASSUME Inv, NEW p \in Calls, CallFails(p)
  PROVE  Inv'
<1>0. TypeOK /\ TokenInv /\ CallInv /\ LockInv /\ RetryHasNewToken
  BY DEF Inv
<1>c. Conn(p) \in Conns
  BY <1>0, ConnType DEF CallFails
<1>1. TypeOK'
  BY <1>0, <1>c DEF TypeOK, CallFails, Goto, Return, Conn, Cached, NoToken, Job, NoJob, Tokens, gbrain
<1>2. TokenInv'
  BY <1>0, <1>c DEF TypeOK, TokenInv, CallFails, Goto, Return, Conn, Issued, NoToken, NoJob, gbrain
<1>3. CallInv'
  BY <1>0, <1>c DEF TypeOK, TokenInv, CallInv, CallFails, Goto, Return, Conn, Issued, NoToken, NoJob, gbrain
<1>4. LockInv'
  BY <1>0, <1>c, NoneAssumption DEF TypeOK, LockInv, CallFails, Goto, Return, Conn, NoToken, NoJob
<1>5. RetryHasNewToken'
  BY <1>0, <1>c DEF TypeOK, CallInv, RetryHasNewToken, CallFails, Goto, Return, Conn, NoJob
<1>6. QED
  BY <1>1, <1>2, <1>3, <1>4, <1>5 DEF Inv

LEMMA AgeInv ==
  ASSUME Inv, NEW c \in Conns, Age(c)
  PROVE  Inv'
<1>0. TypeOK /\ TokenInv /\ CallInv /\ LockInv /\ RetryHasNewToken
  BY DEF Inv
<1>f. cache[c] \in [tok : Tokens, fresh : BOOLEAN]
  BY <1>0, FreshType DEF Age
<1>1. TypeOK'
  BY <1>0, <1>f DEF TypeOK, Age, Cached, NoToken, Job, NoJob, gbrain
<1>2. TokenInv'
  BY <1>0 DEF TypeOK, TokenInv, Age, Issued, NoToken, NoJob, gbrain
<1>3. CallInv'
  BY <1>0 DEF TypeOK, TokenInv, CallInv, Age, Conn, NoToken, NoJob
<1>4. LockInv'
  BY <1>0, NoneAssumption DEF TypeOK, LockInv, Age, Conn, NoToken, NoJob
<1>5. RetryHasNewToken'
  BY <1>0 DEF RetryHasNewToken, Age, NoJob
<1>6. QED
  BY <1>1, <1>2, <1>3, <1>4, <1>5 DEF Inv

LEMMA DieInv ==
  ASSUME Inv, NEW t \in Tokens, Die(t)
  PROVE  Inv'
<1>0. TypeOK /\ TokenInv /\ CallInv /\ LockInv /\ RetryHasNewToken
  BY DEF Inv
<1>1. TypeOK'
  BY <1>0 DEF TypeOK, Die, Cached, NoToken, Job, NoJob, gbrain
<1>2. TokenInv'
  BY <1>0 DEF TypeOK, TokenInv, Die, Issued, NoToken, NoJob, gbrain
<1>3. CallInv'
  BY <1>0 DEF TypeOK, TokenInv, CallInv, Die, Conn, NoToken, NoJob
<1>4. LockInv'
  BY <1>0, NoneAssumption DEF TypeOK, LockInv, Die, Conn, NoToken, NoJob
<1>5. RetryHasNewToken'
  BY <1>0 DEF RetryHasNewToken, Die, NoJob
<1>6. QED
  BY <1>1, <1>2, <1>3, <1>4, <1>5 DEF Inv

LEMMA ClearInv ==
  ASSUME Inv, NEW c \in Conns, Clear(c)
  PROVE  Inv'
<1>0. TypeOK /\ TokenInv /\ CallInv /\ LockInv /\ RetryHasNewToken
  BY DEF Inv
<1>1. TypeOK'
  BY <1>0 DEF TypeOK, Clear, Cached, NoToken, Job, NoJob, gbrain
<1>2. TokenInv'
  BY <1>0 DEF TypeOK, TokenInv, Clear, Issued, NoToken, NoJob, gbrain
<1>3. CallInv'
  BY <1>0 DEF TypeOK, TokenInv, CallInv, Clear, Conn, NoToken, NoJob
<1>4. LockInv'
  BY <1>0, NoneAssumption DEF TypeOK, LockInv, Clear, Conn, NoToken, NoJob
<1>5. RetryHasNewToken'
  BY <1>0 DEF RetryHasNewToken, Clear, NoJob
<1>6. QED
  BY <1>1, <1>2, <1>3, <1>4, <1>5 DEF Inv

LEMMA RestartInv ==
  ASSUME Inv, Restart
  PROVE  Inv'
<1>0. TypeOK /\ TokenInv /\ CallInv /\ LockInv /\ RetryHasNewToken
  BY DEF Inv
<1>1. TypeOK'
  BY <1>0 DEF TypeOK, Restart, Cached, NoToken, Job, NoJob, gbrain
<1>2. TokenInv'
  BY <1>0 DEF TypeOK, TokenInv, Restart, Issued, NoToken, NoJob, gbrain
<1>3. CallInv'
  BY <1>0 DEF TypeOK, TokenInv, CallInv, Restart, Conn, NoToken, NoJob
<1>4. LockInv'
  BY <1>0, NoneAssumption DEF TypeOK, LockInv, Restart, Conn, NoToken, NoJob
<1>5. RetryHasNewToken'
  BY <1>0 DEF RetryHasNewToken, Restart, NoJob
<1>6. QED
  BY <1>1, <1>2, <1>3, <1>4, <1>5 DEF Inv

LEMMA InvStep == Inv /\ [Next]_vars => Inv'
<1> SUFFICES ASSUME Inv, [Next]_vars PROVE Inv'
  OBVIOUS
<1>1. CASE \E p \in Calls : Step(p)
  BY <1>1, UseCachedInv, BeginFetchInv, DiscoverInv, FetchedInv, FetchFailsInv,
     ExecutedInv, UnauthorizedInv, InvalidateInv, SucceedInv, CallFailsInv
     DEF Step, Locks
<1>2. CASE \E p \in Calls, c \in Conns : Begin(p, c)
  BY <1>2, BeginInv
<1>3. CASE \E c \in Conns : Age(c) \/ Clear(c)
  BY <1>3, AgeInv, ClearInv
<1>4. CASE \E t \in Tokens : Die(t)
  BY <1>4, DieInv
<1>5. CASE Restart
  BY <1>5, RestartInv
<1>6. CASE UNCHANGED vars
  BY <1>6 DEF vars, Inv, TypeOK, TokenInv, CallInv, LockInv, RetryHasNewToken, Conn, Issued
<1>7. QED
  BY <1>1, <1>2, <1>3, <1>4, <1>5, <1>6 DEF Next

-----------------------------------------------------------------------------

\* The inductive invariant: what each point of a call knows of its tokens, of
\* the cache and of the mutex of its connection.
THEOREM Safety == Spec => []Inv
<1>1. Init => Inv
  BY InitInv
<1>2. Inv /\ [Next]_vars => Inv'
  BY InvStep
<1>3. QED
  BY <1>1, <1>2, PTL DEF Spec

\* Every variable has its type; a token with no value has no time left.
THEOREM TypeCorrect == Spec => []TypeOK
<1>1. Inv => TypeOK
  BY DEF Inv
<1>2. QED
  BY <1>1, Safety, PTL

\* The second attempt of a call never carries the token that was refused
\* (callMCP, invalidateToken, adminSession).
THEOREM RetriesUseNewTokens == Spec => []RetryHasNewToken
<1>1. Inv => RetryHasNewToken
  BY DEF Inv
<1>2. QED
  BY <1>1, Safety, PTL

\* A Client lets go of a good token only in clearBearerToken or when its
\* process stops: fetching happens when there is none with time left, and
\* invalidateToken compares what is cached with what was refused.
THEOREM GoodTokensAreKept == Spec => GoodTokenKept
<1> DEFINE Kept(c) ==
      cache[c].fresh /\ cache[c].tok \in valid /\ cache'[c].tok # cache[c].tok =>
        Clear(c) \/ Restart
<1>1. Inv /\ [Next]_vars => [\A c \in Conns \ Admin : Kept(c)]_vars
  <2> SUFFICES ASSUME Inv, Next, NEW c \in Conns \ Admin PROVE Kept(c)
    BY DEF vars
  <2>0. TypeOK /\ TokenInv /\ LockInv
    BY DEF Inv
  <2>1. CASE \E p \in Calls : Fetched(p)
    <3>1. PICK p \in Calls : Fetched(p)
      BY <2>1
    <3>2. CASE Conn(p) = c
      BY <2>0, <3>1, <3>2 DEF LockInv, Fetched
    <3>3. CASE Conn(p) # c
      BY <2>0, <3>1, <3>3 DEF TypeOK, Fetched
    <3>4. QED
      BY <3>2, <3>3
  <2>2. CASE \E p \in Calls : Invalidate(p)
    <3>1. PICK p \in Calls : Invalidate(p)
      BY <2>2
    <3>2. CASE Conn(p) = c
      <4>1. job[p].refused \notin valid \/ job[p].refused = None
        BY <2>0 DEF TokenInv
      <4>2. None \notin valid
        <5>1. made \in Nat /\ valid \subseteq 1..made
          BY <2>0, FetchesAssumption DEF TypeOK
        <5>2. 1..made \subseteq Nat
          BY <5>1
        <5>3. QED
          BY <5>1, <5>2, NoneAssumption
      <4>3. QED
        BY <2>0, <3>1, <3>2, <4>1, <4>2 DEF TypeOK, Invalidate
    <3>3. CASE Conn(p) # c
      BY <2>0, <3>1, <3>3 DEF TypeOK, Invalidate
    <3>4. QED
      BY <3>2, <3>3
  <2>3. CASE \E d \in Conns : Age(d) \/ Clear(d)
    <3>1. PICK d \in Conns : Age(d) \/ Clear(d)
      BY <2>3
    <3>2. CASE Age(d)
      <4>1. \A e \in Conns : cache'[e].tok = cache[e].tok
        <5>1. cache[d] \in [tok : Tokens, fresh : BOOLEAN]
          BY <2>0, <3>2, FreshType DEF Age
        <5>2. QED
          BY <2>0, <3>2, <5>1 DEF TypeOK, Age
      <4>2. QED
        BY <4>1
    <3>3. CASE Clear(d)
      BY <2>0, <3>3 DEF TypeOK, Clear
    <3>4. QED
      BY <3>1, <3>2, <3>3
  <2>4. CASE UNCHANGED cache
    BY <2>4
  <2>5. CASE Restart
    BY <2>5
  <2>6. QED
    BY <2>1, <2>2, <2>3, <2>4, <2>5 DEF Next, Step, Locks, UseCached, BeginFetch, Discover,
       FetchFails, Executed, Unauthorized, Succeed, CallFails, Begin, Die
<1>2. QED
  BY <1>1, Safety, PTL DEF Spec, GoodTokenKept

\* What a caller of callMCP or doJSON sees is a RemoteCall: every step of
\* Upstream is a step of it or changes nothing it speaks of.
THEOREM UpstreamImplementsRemoteCall == Spec => OneEffect
<1> DEFINE Phase == [p \in Calls |-> IF pc[p] = "idle" THEN answer[p] ELSE "open"]
<1>1. Init => Remote!Init
  BY DEF Init, Remote!Init
<1>2. Inv /\ [Next]_vars => [Remote!Next]_<<Phase, runs>>
  <2> SUFFICES ASSUME Inv, Next PROVE Remote!Next \/ UNCHANGED <<Phase, runs>>
    BY DEF vars
  <2>0. TypeOK /\ CallInv
    BY DEF Inv
  <2>1. CASE \E p \in Calls, c \in Conns : Begin(p, c)
    <3>1. PICK p \in Calls, c \in Conns : Begin(p, c)
      BY <2>1
    <3>2. Remote!Start(p)
      BY <2>0, <3>1 DEF TypeOK, Begin, Goto, Remote!Start
    <3>3. QED
      BY <3>2 DEF Remote!Next
  <2>2. CASE \E p \in Calls : Executed(p)
    <3>1. PICK p \in Calls : Executed(p)
      BY <2>2
    <3>2. runs[p] = 0
      BY <2>0, <3>1 DEF CallInv, Executed
    <3>3. runs' = [runs EXCEPT ![p] = 1]
      BY <3>1, <3>2 DEF Executed
    <3>4. Remote!TakeEffect(p)
      BY <2>0, <3>1, <3>2, <3>3 DEF TypeOK, Executed, Goto, Remote!TakeEffect
    <3>5. QED
      BY <3>4 DEF Remote!Next
  <2>3. CASE \E p \in Calls : Succeed(p)
    <3>1. PICK p \in Calls : Succeed(p)
      BY <2>3
    <3>2. Remote!Succeed(p)
      BY <2>0, <3>1 DEF TypeOK, CallInv, Succeed, Return, Goto, Remote!Succeed
    <3>3. QED
      BY <3>2 DEF Remote!Next
  <2>4. CASE \E p \in Calls : FetchFails(p) \/ CallFails(p)
    <3>1. PICK p \in Calls : FetchFails(p) \/ CallFails(p)
      BY <2>4
    <3>2. Remote!Fail({p})
      BY <2>0, <3>1 DEF TypeOK, FetchFails, CallFails, Return, Goto, Remote!Fail
    <3>3. QED
      BY <3>2 DEF Remote!Next
  <2>5. CASE Restart
    <3>1. PICK S \in SUBSET Calls : S = {p \in Calls : pc[p] # "idle"}
      OBVIOUS
    <3>2. Remote!Fail(S)
      BY <2>0, <2>5, <3>1 DEF TypeOK, Restart, Remote!Fail
    <3>3. QED
      BY <3>2 DEF Remote!Next
  <2>6. CASE \E p \in Calls : \/ UseCached(p) \/ BeginFetch(p) \/ Discover(p)
                              \/ Fetched(p) \/ Unauthorized(p) \/ Invalidate(p)
    <3>1. PICK p \in Calls : \/ UseCached(p) \/ BeginFetch(p) \/ Discover(p)
                             \/ Fetched(p) \/ Unauthorized(p) \/ Invalidate(p)
      BY <2>6
    <3>2. /\ UNCHANGED <<runs, answer>>
          /\ \E l \in {"send", "fetch", "drop", "token"} : pc' = [pc EXCEPT ![p] = l]
          /\ pc[p] # "idle"
      BY <2>0, <3>1 DEF TypeOK, UseCached, BeginFetch, Discover, Fetched, Unauthorized,
                        Invalidate, Goto
    <3>3. Phase' = Phase
      BY <2>0, <3>2 DEF TypeOK
    <3>4. QED
      BY <3>2, <3>3
  <2>7. CASE UNCHANGED <<pc, answer, runs>>
    BY <2>7
  <2>8. QED
    BY <2>1, <2>2, <2>3, <2>4, <2>5, <2>6, <2>7 DEF Next, Step, Locks, Age, Clear, Die
<1>3. QED
  BY <1>1, <1>2, Safety, PTL DEF Spec, OneEffect, Remote!Spec
=============================================================================
