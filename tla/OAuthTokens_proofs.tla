------------------------- MODULE OAuthTokens_proofs -------------------------
(***************************************************************************)
(* Proofs about OAuthTokens: for any number of users, codes, pairs and     *)
(* concurrent requests.                                                    *)
(***************************************************************************)
EXTENDS OAuthTokens, FiniteSetTheorems, TLAPS

-----------------------------------------------------------------------------
(* Types.                                                                  *)

\* The request's variables.
CallTypes ==
  /\ pc \in [Calls -> {"idle", "consume", "rotate", "insert", "commit", "revoke"}]
  /\ job \in [Calls -> Job]

\* A request that is under way has a record of all four fields.
LEMMA JobShape ==
  ASSUME Inv, NEW p \in Calls, pc[p] # "idle"
  PROVE  /\ job[p].op \in {"exchange", "refresh", "revoke"} /\ job[p].code \in Codes
         /\ job[p].old \in Pairs \union {None} /\ job[p].snap \subseteq Pairs
<1>1. job[p] \in Job /\ job[p].code \in Codes
  BY DEF Inv, TypeOK, RequestInv
<1>2. job[p] # NoJob
  BY <1>1, NoneAssumption DEF NoJob
<1>3. QED
  BY <1>1, <1>2 DEF Job

\* A code that was ever open has a user.
LEMMA CodeShape ==
  ASSUME Inv, NEW c \in Codes
  PROVE  /\ code[c].state \in {"none", "open", "used"} /\ code[c].fresh \in BOOLEAN
         /\ code[c].state # "none" =>
              /\ code[c].user \in Users
              /\ code[c] \in [state : {"open", "used"}, user : Users, fresh : BOOLEAN]
<1>1. code[c] \in Code
  BY DEF Inv, TypeOK
<1>2. CASE code[c] = NoCode
  BY <1>2 DEF NoCode
<1>3. CASE code[c] \in [state : {"open", "used"}, user : Users, fresh : BOOLEAN]
  BY <1>3
<1>4. QED
  BY <1>1, <1>2, <1>3 DEF Code

\* A pair that was made comes from a code that was used.
LEMMA PairShape ==
  ASSUME Inv, NEW i \in Pairs, Made(i)
  PROVE  /\ pair[i] \in [from : Codes, access : {"live", "revoked"},
                         refresh : {"live", "revoked"}, fresh : BOOLEAN]
         /\ pair[i].from \in Codes /\ i \in Chain(pair[i].from)
         /\ code[pair[i].from].state = "used" /\ Owner(i) \in Users
<1>1. pair[i] \in Pair /\ pair[i] # NoPair
  BY DEF Inv, TypeOK, Made, NoPair
<1>2. pair[i] \in [from : Codes, access : {"live", "revoked"},
                   refresh : {"live", "revoked"}, fresh : BOOLEAN]
  BY <1>1 DEF Pair
<1>3. pair[i].from \in Codes /\ i \in Chain(pair[i].from)
  BY <1>2 DEF Chain
<1>4. code[pair[i].from].state = "used"
  BY <1>3 DEF Inv, GrantInv
<1>5. QED
  BY <1>2, <1>3, <1>4, CodeShape DEF Owner

\* What descends from a code was made.
LEMMA ChainIsMade ==
  ASSUME NEW c \in Codes, NEW i \in Chain(c)
  PROVE  i \in Pairs /\ pair[i].from = c /\ Made(i)
  BY NoneAssumption DEF Chain, Made

LEMMA NoJobType == NoJob \in Job
  BY DEF Job

-----------------------------------------------------------------------------
(* Steps.                                                                  *)

\* Inv is preserved when no pair changes, the codes that were used stay as
\* they are, and what is said of the requests that move holds again.
LEMMA Frame ==
  ASSUME Inv, TypeOK', UNCHANGED <<pair, ended, late>>, OneTransaction',
         \A c \in Codes : code[c].state = "used" =>
           code'[c].state = "used" /\ code'[c].user = code[c].user,
         \A q \in Calls : (pc'[q] = pc[q] /\ job'[q] = job[q]) \/ RequestInv(q)'
  PROVE  Inv'
<1>1. \A c : Chain(c)' = Chain(c)
  BY DEF Chain
<1>2. \A i \in Pairs : /\ Made(i)' = Made(i) /\ Live(i)' = Live(i)
                       /\ Made(i) => Owner(i)' = Owner(i)
  BY PairShape DEF Made, Live, Owner
<1>3. ASSUME NEW q \in Calls PROVE RequestInv(q)'
  <2>1. CASE RequestInv(q)'
    BY <2>1
  <2>2. CASE pc'[q] = pc[q] /\ job'[q] = job[q]
    <3>1. RequestInv(q)
      BY DEF Inv
    <3>2. InTransaction(q) => TransactionInv(q)'
      BY <1>1, <2>2, <3>1 DEF RequestInv, TransactionInv, InTransaction
    <3>3. pc[q] = "revoke" => RevocationInv(q)'
      <4> SUFFICES ASSUME pc[q] = "revoke" PROVE RevocationInv(q)'
        OBVIOUS
      <4>1. RevocationInv(q) /\ job[q].code \in Codes /\ job[q].snap \subseteq Pairs
        BY <3>1, JobShape DEF RequestInv
      <4>2. code'[job[q].code].state = "used"
            /\ code'[job[q].code].user = code[job[q].code].user
        BY <4>1 DEF RevocationInv
      <4>3. QED
        BY <1>2, <2>2, <4>1, <4>2 DEF RevocationInv
    <3>4. QED
      BY <1>1, <2>2, <3>1, <3>2, <3>3 DEF RequestInv, InTransaction
  <2>3. QED
    BY <2>1, <2>2
<1>4. ASSUME NEW c \in Codes PROVE GrantInv(c)'
  BY <1>1 DEF Inv, GrantInv
<1>5. ASSUME NEW i \in ended PROVE EndedInv(i)'
  <2>1. EndedInv(i) /\ ended \subseteq Pairs
    BY DEF Inv, TypeOK
  <2>2. \A j \in Chain(pair[i].from) : j \in Pairs
    BY DEF Chain
  <2>3. QED
    BY <1>1, <1>2, <2>1, <2>2 DEF EndedInv
<1>6. QED
  BY <1>3, <1>4, <1>5 DEF Inv

\* The same, where no request moves.
LEMMA Aside ==
  ASSUME Inv, TypeOK', UNCHANGED <<pair, ended, late, pc, job>>,
         \A c \in Codes : code[c].state = "used" =>
           code'[c].state = "used" /\ code'[c].user = code[c].user
  PROVE  Inv'
<1>1. OneTransaction'
  BY DEF Inv, OneTransaction, InTransaction
<1>2. QED
  BY <1>1, Frame

LEMMA ReturnStep ==
  ASSUME Inv, NEW p \in Calls, Return(p)
  PROVE  /\ CallTypes' /\ pc'[p] = "idle"
         /\ \A q \in Calls \ {p} : pc'[q] = pc[q] /\ job'[q] = job[q]
  BY NoJobType DEF Inv, TypeOK, CallTypes, Return, Goto

LEMMA BeginStep ==
  ASSUME Inv, NEW p \in Calls, NEW op \in {"exchange", "refresh", "revoke"},
         NEW c \in Codes, NEW old \in Pairs \union {None}, NEW snap \in SUBSET Pairs,
         NEW l \in {"consume", "rotate", "revoke"}, Begin(p, op, c, old, snap, l)
  PROVE  /\ CallTypes' /\ pc'[p] = l
         /\ job'[p] = [op |-> op, code |-> c, old |-> old, snap |-> snap]
         /\ \A q \in Calls \ {p} : pc'[q] = pc[q] /\ job'[q] = job[q]
<1>1. [op |-> op, code |-> c, old |-> old, snap |-> snap] \in Job
  BY DEF Job
<1>2. QED
  BY <1>1 DEF Inv, TypeOK, CallTypes, Begin, Goto

\* A request that is in no transaction after the step is in no one's way.
LEMMA OneTransactionStays ==
  ASSUME Inv, NEW p \in Calls, ~InTransaction(p)',
         \A q \in Calls \ {p} : pc'[q] = pc[q] /\ job'[q] = job[q]
  PROVE  OneTransaction'
  BY DEF Inv, OneTransaction, InTransaction

\* What is said of an idle request.
LEMMA IdleInv ==
  ASSUME NEW p \in Calls, pc'[p] = "idle"
  PROVE  RequestInv(p)' /\ ~InTransaction(p)'
  BY DEF RequestInv, InTransaction

-----------------------------------------------------------------------------
(* Users, clients, codes and CLI tokens.                                   *)

LEMMA InitInv == Init => Inv
<1> SUFFICES ASSUME Init PROVE Inv
  OBVIOUS
<1>1. TypeOK
  BY NoJobType DEF Init, TypeOK, Code, Pair
<1>2. ASSUME NEW p \in Calls PROVE RequestInv(p)
  BY DEF Init, RequestInv, InTransaction
<1>3. OneTransaction
  BY DEF Init, OneTransaction, InTransaction
<1>4. ASSUME NEW c \in Codes PROVE GrantInv(c)
  <2>1. Chain(c) = {}
    BY NoneAssumption DEF Init, Chain, NoPair
  <2>2. QED
    BY <2>1 DEF GrantInv
<1>5. QED
  BY <1>1, <1>2, <1>3, <1>4 DEF Inv, Init

LEMMA SuspendInv == ASSUME Inv, NEW u \in Users, Suspend(u) PROVE Inv'
<1>1. TypeOK'
  BY DEF Inv, TypeOK, Suspend, ghosts
<1>2. QED
  BY <1>1, Aside DEF Suspend, ghosts

LEMMA IssueClientInv == ASSUME Inv, NEW u \in Users, IssueClient(u) PROVE Inv'
<1>1. TypeOK'
  BY DEF Inv, TypeOK, IssueClient, ghosts
<1>2. QED
  BY <1>1, Aside DEF IssueClient, ghosts

LEMMA ApproveInv ==
  ASSUME Inv, NEW u \in Users, NEW c \in Codes, Approve(u, c) PROVE Inv'
<1>1. code' = [code EXCEPT ![c] = [state |-> "open", user |-> u, fresh |-> TRUE]]
      /\ code[c].state = "none" /\ code \in [Codes -> Code]
      /\ UNCHANGED <<suspended, client, pair, cli, pc, job, ended, late>>
  BY DEF Inv, TypeOK, Approve, ghosts
<1>2. [state |-> "open", user |-> u, fresh |-> TRUE] \in Code
  BY DEF Code
<1>3. TypeOK'
  BY <1>1, <1>2 DEF Inv, TypeOK
<1>4. QED
  BY <1>1, <1>3, Aside

LEMMA ExpireCodeInv == ASSUME Inv, NEW c \in Codes, ExpireCode(c) PROVE Inv'
<1>1. code' = [code EXCEPT ![c].fresh = FALSE]
      /\ code[c].state = "open" /\ code \in [Codes -> Code]
      /\ UNCHANGED <<suspended, client, pair, cli, pc, job, ended, late>>
  BY DEF Inv, TypeOK, ExpireCode, ghosts
<1>2. [code[c] EXCEPT !.fresh = FALSE] \in Code
  BY <1>1, CodeShape DEF Code
<1>3. TypeOK'
  BY <1>1, <1>2 DEF Inv, TypeOK
<1>4. QED
  BY <1>1, <1>3, Aside

LEMMA IssueCLIInv ==
  ASSUME Inv, NEW u \in Users, NEW t \in CLI, IssueCLI(u, t) PROVE Inv'
<1>1. TypeOK'
  BY DEF Inv, TypeOK, IssueCLI, ghosts
<1>2. QED
  BY <1>1, Aside DEF IssueCLI, ghosts

LEMMA RevokeCLIInv == ASSUME Inv, NEW t \in CLI, RevokeCLI(t) PROVE Inv'
<1>1. cli[t] \in [state : {"live", "revoked"}, user : Users]
  BY DEF Inv, TypeOK, RevokeCLI, NoCLI
<1>2. TypeOK'
  BY <1>1 DEF Inv, TypeOK, RevokeCLI, ghosts
<1>3. QED
  BY <1>2, Aside DEF RevokeCLI, ghosts

\* The clock passes the expiry of a refresh token: no state of it changes.
LEMMA ExpirePairInv == ASSUME Inv, NEW n \in Pairs, ExpirePair(n) PROVE Inv'
<1>1. /\ pair' = [pair EXCEPT ![n].fresh = FALSE] /\ pair[n].refresh = "live"
      /\ pair \in [Pairs -> Pair]
      /\ UNCHANGED <<suspended, client, code, cli, pc, job, ended, late>>
  BY DEF Inv, TypeOK, ExpirePair, ghosts
<1>2. pair[n] \in [from : Codes, access : {"live", "revoked"},
                   refresh : {"live", "revoked"}, fresh : BOOLEAN]
  BY <1>1 DEF Pair, NoPair
<1>3. \A i \in Pairs : /\ pair'[i].from = pair[i].from
                       /\ pair'[i].access = pair[i].access
                       /\ pair'[i].refresh = pair[i].refresh
  BY <1>1, <1>2
<1>4. TypeOK'
  <2>1. [pair[n] EXCEPT !.fresh = FALSE] \in Pair
    BY <1>2 DEF Pair
  <2>2. QED
    BY <1>1, <2>1 DEF Inv, TypeOK
<1>5. \A c : Chain(c)' = Chain(c)
  BY <1>3 DEF Chain
<1>6. \A i \in Pairs : Made(i)' = Made(i) /\ Live(i)' = Live(i) /\ Owner(i)' = Owner(i)
  BY <1>1, <1>3 DEF Made, Live, Owner
<1>7. ASSUME NEW q \in Calls PROVE RequestInv(q)'
  <2>1. RequestInv(q)
    BY DEF Inv
  <2>2. InTransaction(q) => TransactionInv(q)'
    <3>1. \A o : o \in Chain(job[q].code) => o \in Pairs
      BY DEF Chain
    <3>2. QED
      BY <1>1, <1>3, <1>5, <2>1, <3>1 DEF RequestInv, TransactionInv
  <2>3. pc[q] = "revoke" => RevocationInv(q)'
    BY <1>1, <1>3, <1>6, <2>1, JobShape DEF RequestInv, RevocationInv
  <2>4. QED
    BY <1>1, <1>5, <2>1, <2>2, <2>3 DEF RequestInv, InTransaction
<1>8. ASSUME NEW c \in Codes PROVE GrantInv(c)'
  <2>1. \A i \in Chain(c) : i \in Pairs
    BY DEF Chain
  <2>2. GrantInv(c)
    BY DEF Inv
  <2>3. QED
    BY <1>1, <1>3, <1>5, <2>1, <2>2 DEF GrantInv
<1>9. ASSUME NEW i \in ended PROVE EndedInv(i)'
  <2>1. EndedInv(i) /\ i \in Pairs
    BY DEF Inv, TypeOK
  <2>2. \A j \in Chain(pair[i].from) : j \in Pairs
    BY DEF Chain
  <2>3. QED
    BY <1>1, <1>3, <1>5, <1>6, <2>1, <2>2 DEF EndedInv
<1>10. OneTransaction'
  BY <1>1 DEF Inv, OneTransaction, InTransaction
<1>11. QED
  BY <1>1, <1>4, <1>7, <1>8, <1>9, <1>10 DEF Inv

-----------------------------------------------------------------------------
(* Requests.                                                               *)

LEMMA BeginExchangeInv ==
  ASSUME Inv, NEW p \in Calls, NEW c \in Codes, BeginExchange(p, c) PROVE Inv'
<1>1. /\ Begin(p, "exchange", c, None, {}, "consume")
      /\ UNCHANGED <<suspended, client, code, pair, cli, ended, late>>
  BY DEF BeginExchange, ghosts
<1>2. /\ CallTypes' /\ pc'[p] = "consume"
      /\ job'[p] = [op |-> "exchange", code |-> c, old |-> None, snap |-> {}]
      /\ \A q \in Calls \ {p} : pc'[q] = pc[q] /\ job'[q] = job[q]
  BY <1>1, BeginStep
<1>3. TypeOK'
  BY <1>1, <1>2 DEF Inv, TypeOK, CallTypes
<1>4. RequestInv(p)' /\ ~InTransaction(p)'
  BY <1>2 DEF RequestInv, InTransaction
<1>5. QED
  BY <1>1, <1>2, <1>3, <1>4, OneTransactionStays, Frame

LEMMA BeginRefreshInv ==
  ASSUME Inv, NEW p \in Calls, NEW i \in Pairs, BeginRefresh(p, i) PROVE Inv'
<1>1. /\ Begin(p, "refresh", pair[i].from, i, {}, "rotate") /\ pair[i].refresh = "live"
      /\ UNCHANGED <<suspended, client, code, pair, cli, ended, late>>
  BY DEF BeginRefresh, ghosts
<1>2. Made(i)
  BY <1>1, NoneAssumption DEF Inv, TypeOK, Pair, NoPair, Made
<1>3. pair[i].from \in Codes /\ i \in Chain(pair[i].from)
  BY <1>2, PairShape
<1>4. /\ CallTypes' /\ pc'[p] = "rotate"
      /\ job'[p] = [op |-> "refresh", code |-> pair[i].from, old |-> i, snap |-> {}]
      /\ \A q \in Calls \ {p} : pc'[q] = pc[q] /\ job'[q] = job[q]
  BY <1>1, <1>3, BeginStep
<1>5. TypeOK'
  BY <1>1, <1>4 DEF Inv, TypeOK, CallTypes
<1>6. RequestInv(p)' /\ ~InTransaction(p)'
  BY <1>1, <1>3, <1>4 DEF RequestInv, InTransaction, Chain
<1>7. QED
  BY <1>1, <1>4, <1>5, <1>6, OneTransactionStays, Frame

LEMMA BeginRevokeInv ==
  ASSUME Inv, NEW p \in Calls, NEW i \in Pairs, BeginRevoke(p, i) PROVE Inv'
<1> DEFINE snap == {j \in Pairs : Made(j) /\ Owner(j) = Owner(i) /\ Live(j)}
<1>1. /\ Begin(p, "revoke", pair[i].from, i, snap, "revoke") /\ Made(i)
      /\ UNCHANGED <<suspended, client, code, pair, cli, ended, late>>
  BY DEF BeginRevoke, ghosts
<1>2. pair[i].from \in Codes /\ code[pair[i].from].state = "used"
  BY <1>1, PairShape
<1>3. /\ CallTypes' /\ pc'[p] = "revoke"
      /\ job'[p] = [op |-> "revoke", code |-> pair[i].from, old |-> i, snap |-> snap]
      /\ \A q \in Calls \ {p} : pc'[q] = pc[q] /\ job'[q] = job[q]
  <2>1. snap \in SUBSET Pairs
    OBVIOUS
  <2> HIDE DEF snap
  <2>2. QED
    BY <1>1, <1>2, <2>1, BeginStep
<1>4. TypeOK'
  BY <1>1, <1>3 DEF Inv, TypeOK, CallTypes
<1>5. RevocationInv(p)'
  BY <1>1, <1>2, <1>3 DEF RevocationInv, Owner, Made, Live
<1>6. RequestInv(p)' /\ ~InTransaction(p)'
  BY <1>2, <1>3, <1>5 DEF RequestInv, InTransaction
<1> HIDE DEF snap
<1>7. QED
  BY <1>1, <1>3, <1>4, <1>6, OneTransactionStays, Frame

\* UPDATE ... WHERE consumed_at IS NULL: an open code has made nothing yet,
\* and nobody else is in a transaction for it.
LEMMA ConsumeInv == ASSUME Inv, NEW p \in Calls, Consume(p) PROVE Inv'
<1> DEFINE c == job[p].code
<1>1. /\ pc[p] = "consume" /\ code[c].state = "open"
      /\ code' = [code EXCEPT ![c].state = "used"] /\ Goto(p, "insert")
      /\ UNCHANGED <<suspended, client, pair, cli, job, ended, late>>
  BY DEF Consume, ghosts
<1>2. c \in Codes /\ job[p].op = "exchange" /\ job[p].old = None /\ code \in [Codes -> Code]
  BY <1>1 DEF Inv, RequestInv, TypeOK
<1>3. CallTypes' /\ pc'[p] = "insert" /\ \A q \in Calls \ {p} : pc'[q] = pc[q]
  BY <1>1 DEF Inv, TypeOK, CallTypes, Goto
<1>4. code'[c].state = "used" /\ \A d \in Codes \ {c} : code'[d] = code[d]
  BY <1>1, <1>2, CodeShape
<1>5. TypeOK'
  <2>1. [code[c] EXCEPT !.state = "used"] \in Code
    BY <1>1, <1>2, CodeShape DEF Code
  <2>2. QED
    BY <1>1, <1>2, <1>3, <2>1 DEF Inv, TypeOK, CallTypes
<1>6. Chain(c) = {} /\ Chain(c)' = Chain(c)
  BY <1>1, <1>2 DEF Inv, GrantInv, Chain
<1>7. RequestInv(p)'
  BY <1>1, <1>2, <1>3, <1>4, <1>6 DEF RequestInv, TransactionInv, InTransaction
<1>8. OneTransaction'
  <2>1. ASSUME NEW q \in Calls \ {p}, InTransaction(q) PROVE job[q].code # c
    BY <1>1, <2>1 DEF Inv, RequestInv, TransactionInv
  <2>2. QED
    BY <1>1, <1>3, <2>1 DEF Inv, OneTransaction, InTransaction
<1>9. QED
  BY <1>1, <1>3, <1>4, <1>5, <1>7, <1>8, Frame

\* UPDATE ... WHERE revoked_at IS NULL: whoever is in a transaction for the
\* same code holds the same row, and is waited for.
LEMMA RotateInv == ASSUME Inv, NEW p \in Calls, Rotate(p) PROVE Inv'
<1> DEFINE c == job[p].code
<1> DEFINE o == job[p].old
<1>1. /\ pc[p] = "rotate" /\ pair[o].refresh = "live" /\ ~Held(o) /\ Goto(p, "insert")
      /\ UNCHANGED <<suspended, client, code, pair, cli, job, ended, late>>
  BY DEF Rotate, ghosts
<1>2. c \in Codes /\ job[p].op = "refresh" /\ o \in Chain(c)
  BY <1>1 DEF Inv, RequestInv
<1>3. CallTypes' /\ pc'[p] = "insert" /\ \A q \in Calls \ {p} : pc'[q] = pc[q]
  BY <1>1 DEF Inv, TypeOK, CallTypes, Goto
<1>4. TypeOK'
  BY <1>1, <1>3 DEF Inv, TypeOK, CallTypes
<1>5. code[c].state = "used" /\ Chain(c)' = Chain(c)
  BY <1>1, <1>2 DEF Inv, GrantInv, Chain
<1>6. RequestInv(p)'
  BY <1>1, <1>2, <1>3, <1>5 DEF RequestInv, TransactionInv, InTransaction
<1>7. OneTransaction'
  <2>1. ASSUME NEW q \in Calls \ {p}, InTransaction(q), job[q].code = c PROVE FALSE
    <3>1. TransactionInv(q) /\ GrantInv(c)
      BY <1>2, <2>1 DEF Inv, RequestInv
    <3>2. job[q].op = "refresh" /\ job[q].old \in Chain(c) /\ pair[job[q].old].refresh = "live"
      BY <1>2, <2>1, <3>1 DEF TransactionInv
    <3>3. job[q].old = o
      BY <1>1, <1>2, <3>1, <3>2 DEF GrantInv
    <3>4. QED
      BY <1>1, <2>1, <3>2, <3>3 DEF Held, InTransaction
  <2>2. QED
    BY <1>1, <1>3, <2>1 DEF Inv, OneTransaction, InTransaction
<1>8. QED
  BY <1>1, <1>3, <1>4, <1>6, <1>7, Frame

LEMMA InsertInv == ASSUME Inv, NEW p \in Calls, Insert(p) PROVE Inv'
<1>1. /\ pc[p] = "insert" /\ Goto(p, "commit")
      /\ UNCHANGED <<suspended, client, code, pair, cli, job, ended, late>>
  BY DEF Insert, ghosts
<1>2. CallTypes' /\ pc'[p] = "commit" /\ \A q \in Calls \ {p} : pc'[q] = pc[q]
  BY <1>1 DEF Inv, TypeOK, CallTypes, Goto
<1>3. TypeOK'
  BY <1>1, <1>2 DEF Inv, TypeOK, CallTypes
<1>4. RequestInv(p)'
  BY <1>1, <1>2 DEF Inv, RequestInv, TransactionInv, InTransaction, Chain
<1>5. OneTransaction'
  BY <1>1, <1>2 DEF Inv, OneTransaction, InTransaction
<1>6. QED
  BY <1>1, <1>2, <1>3, <1>4, <1>5, Frame

LEMMA FailsInv == ASSUME Inv, NEW p \in Calls, Fails(p) PROVE Inv'
<1>1. Return(p) /\ UNCHANGED <<suspended, client, code, pair, cli, ended, late>>
  BY DEF Fails, ghosts
<1>2. /\ CallTypes' /\ pc'[p] = "idle"
      /\ \A q \in Calls \ {p} : pc'[q] = pc[q] /\ job'[q] = job[q]
  BY <1>1, ReturnStep
<1>3. TypeOK'
  BY <1>1, <1>2 DEF Inv, TypeOK, CallTypes
<1>4. QED
  BY <1>1, <1>2, <1>3, IdleInv, OneTransactionStays, Frame

-----------------------------------------------------------------------------
(* The commit of a pair, and the end of a revocation.                      *)

\* What a commit does to the pairs, and to what descends from each code.
LEMMA CommitPairs ==
  ASSUME Inv, NEW p \in Calls, NEW n \in Pairs, Commit(p, n),
         NEW c, c = job[p].code
  PROVE  /\ pair' \in [Pairs -> Pair] /\ pair'[n].from = c
         /\ pair'[n].refresh = "live"
         /\ \A i \in Pairs \ {n} : /\ pair'[i].from = pair[i].from
                                   /\ pair'[i].access = pair[i].access
                                   /\ i # job[p].old => pair'[i].refresh = pair[i].refresh
                                   /\ i = job[p].old => pair'[i].refresh = "revoked"
         /\ n # job[p].old
         /\ Chain(c)' = Chain(c) \union {n}
         /\ \A d \in Codes \ {c} : Chain(d)' = Chain(d) /\ job[p].old \notin Chain(d)
         /\ TransactionInv(p) /\ c \in Codes
<1> DEFINE o == job[p].old
<1>1. /\ pc[p] = "commit" /\ ~Made(n)
      /\ pair' = [i \in Pairs |->
                    IF i = n THEN [from |-> c, access |-> "live", refresh |-> "live",
                                   fresh |-> TRUE]
                    ELSE IF i = o THEN [pair[i] EXCEPT !.refresh = "revoked"]
                    ELSE pair[i]]
  BY DEF Commit
<1>2. TransactionInv(p) /\ c \in Codes /\ pair \in [Pairs -> Pair]
  BY <1>1 DEF Inv, RequestInv, InTransaction, TypeOK
<1>3. [from |-> c, access |-> "live", refresh |-> "live", fresh |-> TRUE] \in Pair
  BY <1>2 DEF Pair
<1>4. o \notin Pairs \/ (o \in Chain(c) /\ Made(o))
  BY <1>2, NoneAssumption, ChainIsMade DEF TransactionInv
<1>5. o # n
  BY <1>1, <1>4
<1>6. ASSUME o \in Pairs
      PROVE  /\ [pair[o] EXCEPT !.refresh = "revoked"] \in Pair
             /\ [pair[o] EXCEPT !.refresh = "revoked"].from = pair[o].from
             /\ [pair[o] EXCEPT !.refresh = "revoked"].access = pair[o].access
             /\ [pair[o] EXCEPT !.refresh = "revoked"].refresh = "revoked"
  BY <1>4, <1>6, PairShape DEF Pair
<1>7. pair' \in [Pairs -> Pair]
  BY <1>1, <1>2, <1>3, <1>6
<1>8. \A i \in Pairs \ {n} : /\ pair'[i].from = pair[i].from
                             /\ pair'[i].access = pair[i].access
                             /\ i # o => pair'[i].refresh = pair[i].refresh
                             /\ i = o => pair'[i].refresh = "revoked"
  BY <1>1, <1>6
<1>9. pair'[n].from = c /\ pair'[n].refresh = "live"
  BY <1>1
<1>10. Chain(c)' = Chain(c) \union {n}
  BY <1>8, <1>9 DEF Chain
<1>11. ASSUME NEW d \in Codes \ {c} PROVE Chain(d)' = Chain(d) /\ o \notin Chain(d)
  <2>1. n \notin Chain(d)
    BY <1>1, NoneAssumption DEF Chain, Made
  <2>2. QED
    BY <1>4, <1>8, <1>9, <2>1 DEF Chain
<1>12. QED
  BY <1>2, <1>5, <1>7, <1>8, <1>9, <1>10, <1>11

LEMMA CommitInv == ASSUME Inv, NEW p \in Calls, NEW n \in Pairs, Commit(p, n) PROVE Inv'
<1>0. PICK c \in Codes : c = job[p].code
  BY DEF Commit, Inv, RequestInv
<1> DEFINE o == job[p].old
<1>1. /\ pc[p] = "commit" /\ ~Made(n) /\ Return(p)
      /\ late' = IF Revoking(code[c].user) THEN late \union {c} ELSE late
      /\ UNCHANGED <<suspended, client, code, cli, ended>>
  BY <1>0 DEF Commit
<1>2. /\ CallTypes' /\ pc'[p] = "idle"
      /\ \A q \in Calls \ {p} : pc'[q] = pc[q] /\ job'[q] = job[q]
  BY <1>1, ReturnStep
<1>3. /\ pair' \in [Pairs -> Pair] /\ pair'[n].from = c /\ pair'[n].refresh = "live"
      /\ \A i \in Pairs \ {n} : /\ pair'[i].from = pair[i].from
                                /\ pair'[i].access = pair[i].access
                                /\ i # o => pair'[i].refresh = pair[i].refresh
                                /\ i = o => pair'[i].refresh = "revoked"
      /\ n # o /\ Chain(c)' = Chain(c) \union {n}
      /\ \A d \in Codes \ {c} : Chain(d)' = Chain(d) /\ o \notin Chain(d)
      /\ TransactionInv(p) /\ c \in Codes
  BY <1>0, CommitPairs
<1>4. late \subseteq late' /\ late' \subseteq Codes /\ ended \subseteq Pairs
  BY <1>1, <1>3 DEF Inv, TypeOK
<1>5. TypeOK'
  BY <1>1, <1>2, <1>3, <1>4 DEF Inv, TypeOK, CallTypes
<1>6. \A i \in Pairs \ {n} : /\ Made(i)' = Made(i) /\ Owner(i)' = Owner(i)
                             /\ Live(i)' => Live(i)
  BY <1>1, <1>3 DEF Made, Owner, Live
<1>7. \A d \in Codes : Chain(d) \subseteq Chain(d)'
  <2> SUFFICES ASSUME NEW d \in Codes PROVE Chain(d) \subseteq Chain(d)'
    OBVIOUS
  <2>1. CASE d = c
    BY <1>3, <2>1
  <2>2. CASE d # c
    BY <1>3, <2>2
  <2>3. QED
    BY <2>1, <2>2
<1>8. ASSUME NEW q \in Calls PROVE RequestInv(q)'
  <2>1. CASE q = p
    BY <1>2, <2>1, IdleInv
  <2>2. CASE q # p
    <3>1. pc'[q] = pc[q] /\ job'[q] = job[q] /\ RequestInv(q)
      BY <1>2, <2>2 DEF Inv
    <3>2. ASSUME InTransaction(q) PROVE TransactionInv(q)'
      <4>1. TransactionInv(q) /\ job[q].code \in Codes
        BY <3>1, <3>2 DEF RequestInv, InTransaction
      <4>2. job[q].code # c
        BY <1>0, <1>1, <2>2, <3>2 DEF Inv, OneTransaction, InTransaction
      <4>3. Chain(job[q].code)' = Chain(job[q].code) /\ o \notin Chain(job[q].code)
        BY <1>3, <3>1, <4>1, <4>2
      <4>4. \A i \in Chain(job[q].code) : pair'[i].refresh = pair[i].refresh
        <5>1. n \notin Chain(job[q].code)
          BY <1>1, <4>1, ChainIsMade
        <5>2. QED
          BY <1>3, <4>1, <4>3, <5>1, ChainIsMade
      <4>5. QED
        BY <1>1, <3>1, <4>1, <4>3, <4>4 DEF TransactionInv
    <3>3. ASSUME pc[q] = "revoke" PROVE RevocationInv(q)'
      <4> DEFINE u == code[job[q].code].user
      <4>1. RevocationInv(q) /\ job[q].code \in Codes /\ job[q].snap \subseteq Pairs
        BY <3>1, <3>3, JobShape DEF RequestInv
      <4>2. \A i \in job[q].snap : Made(i)' /\ Owner(i)' = u
        BY <1>1, <1>6, <4>1 DEF RevocationInv
      <4>3. ASSUME NEW i \in Pairs, Made(i)', Owner(i)' = u, Live(i)'
            PROVE  i \in job[q].snap \/ pair'[i].from \in late'
        <5>1. CASE i = n
          <6>1. Revoking(code[c].user)
            BY <1>1, <1>3, <3>3, <4>3, <5>1 DEF Revoking, Owner
          <6>2. QED
            BY <1>1, <1>3, <5>1, <6>1
        <5>2. CASE i # n
          BY <1>3, <1>4, <1>6, <4>1, <4>3, <5>2 DEF RevocationInv
        <5>3. QED
          BY <5>1, <5>2
      <4>4. code'[job'[q].code].user = u /\ code'[job'[q].code].state = "used"
        BY <1>1, <3>1, <4>1 DEF RevocationInv
      <4>5. QED
        BY <3>1, <4>2, <4>3, <4>4 DEF RevocationInv
    <3>4. pc[q] = "rotate" => job[q].old \in Chain(job[q].code)'
      BY <1>7, <3>1 DEF RequestInv
    <3>5. QED
      BY <3>1, <3>2, <3>3, <3>4 DEF RequestInv, InTransaction
  <2>3. QED
    BY <2>1, <2>2
<1>9. OneTransaction'
  BY <1>2, IdleInv, OneTransactionStays
<1>10. ASSUME NEW d \in Codes PROVE GrantInv(d)'
  <2>1. GrantInv(d)
    BY DEF Inv
  <2>2. CASE d = c
    <3>1. \A i \in Chain(c) : i \in Pairs \ {n}
      BY <1>1, <1>3, ChainIsMade
    <3>2. \A i \in Chain(c) : pair'[i].refresh # "live"
      <4>1. CASE Chain(c) = {}
        BY <4>1
      <4>2. CASE o \in Chain(c) /\ pair[o].refresh = "live"
        BY <1>3, <2>1, <2>2, <3>1, <4>2 DEF GrantInv
      <4>3. QED
        BY <1>0, <1>3, <4>1, <4>2 DEF TransactionInv
    <3>3. code'[c].state = "used"
      BY <1>0, <1>1, <1>3 DEF TransactionInv
    <3>4. n \in Chain(c)' /\ \A i \in Chain(c)' : pair'[i].refresh = "live" => i = n
      BY <1>3, <3>2
    <3>5. QED
      BY <1>3, <2>2, <3>3, <3>4 DEF GrantInv
  <2>3. CASE d # c
    <3>1. \A i \in Chain(d) : i \in Pairs \ {n} /\ i # o
      BY <1>1, <1>3, <2>3, ChainIsMade
    <3>2. \A i \in Chain(d) : pair'[i].refresh = pair[i].refresh
      BY <1>3, <3>1
    <3>3. QED
      BY <1>1, <1>3, <2>1, <2>3, <3>2 DEF GrantInv
  <2>4. QED
    BY <2>2, <2>3
<1>11. ASSUME NEW i \in ended' PROVE EndedInv(i)'
  <2>1. i \in Pairs /\ EndedInv(i) /\ i # n
    BY <1>1, <1>4 DEF Inv, EndedInv
  <2>2. Made(i)' /\ ~Live(i)' /\ pair'[i].from = pair[i].from /\ pair[i].from \in Codes
    BY <1>3, <1>6, <2>1, PairShape DEF EndedInv
  <2>3. ASSUME pair[i].from \notin late', NEW j \in Chain(pair[i].from)' PROVE ~Live(j)'
    <3>1. \A k \in Chain(pair[i].from) : ~Live(k)
      BY <1>4, <2>1, <2>3 DEF EndedInv
    <3>2. pair[i].from # c
      <4> SUFFICES ASSUME pair[i].from = c PROVE FALSE
        OBVIOUS
      <4>1. i \in Chain(c)
        BY <2>1 DEF Chain
      <4>2. o \in Chain(c) /\ pair[o].refresh = "live"
        BY <1>0, <1>3, <4>1 DEF TransactionInv
      <4>3. QED
        BY <3>1, <4>2 DEF Live
    <3>3. j \in Chain(pair[i].from) /\ j \in Pairs \ {n}
      BY <1>1, <1>3, <2>2, <2>3, <3>2, ChainIsMade
    <3>4. QED
      BY <1>6, <3>1, <3>3
  <2>4. QED
    BY <2>2, <2>3 DEF EndedInv
<1>12. QED
  BY <1>5, <1>8, <1>9, <1>10, <1>11 DEF Inv

\* UPDATE ... WHERE revoked_at IS NULL: the rows of the snapshot, once nobody
\* holds them.
LEMMA RevokeDoneInv == ASSUME Inv, NEW p \in Calls, RevokeDone(p) PROVE Inv'
<1> DEFINE snap == job[p].snap
<1> DEFINE u == code[job[p].code].user
<1>1. /\ pc[p] = "revoke" /\ Return(p) /\ \A i \in snap : ~Held(i)
      /\ pair' = [i \in Pairs |-> IF i \in snap THEN Dead(i) ELSE pair[i]]
      /\ ended' = ended \union snap
      /\ UNCHANGED <<suspended, client, code, cli, late>>
  BY DEF RevokeDone
<1>2. /\ CallTypes' /\ pc'[p] = "idle"
      /\ \A q \in Calls \ {p} : pc'[q] = pc[q] /\ job'[q] = job[q]
  BY <1>1, ReturnStep
<1>3. /\ RevocationInv(p) /\ snap \subseteq Pairs
      /\ \A i \in snap : Made(i) /\ Owner(i) = u
      /\ \A i \in Pairs : Made(i) /\ Owner(i) = u /\ Live(i) =>
           i \in snap \/ pair[i].from \in late
  BY <1>1, JobShape DEF Inv, RequestInv, RevocationInv
<1>4. ASSUME NEW i \in snap
      PROVE  /\ Dead(i) \in Pair /\ Dead(i).from = pair[i].from
             /\ Dead(i).access = "revoked" /\ Dead(i).refresh = "revoked"
  BY <1>3, PairShape DEF Dead, Pair
<1>5. /\ \A i \in Pairs : pair'[i].from = pair[i].from
      /\ \A i \in Pairs \ snap : pair'[i] = pair[i]
      /\ \A i \in snap : pair'[i].access = "revoked" /\ pair'[i].refresh = "revoked"
  BY <1>1, <1>3, <1>4
<1>6. TypeOK'
  <2>1. pair' \in [Pairs -> Pair]
    BY <1>1, <1>4 DEF Inv, TypeOK
  <2>2. QED
    BY <1>1, <1>2, <1>3, <2>1 DEF Inv, TypeOK, CallTypes
<1>7. \A d : Chain(d)' = Chain(d)
  BY <1>5 DEF Chain
<1>8. \A i \in Pairs : /\ Made(i)' = Made(i) /\ Owner(i)' = Owner(i)
                       /\ Live(i)' <=> Live(i) /\ i \notin snap
  BY <1>1, <1>3, <1>5 DEF Made, Owner, Live
<1>9. ASSUME NEW q \in Calls PROVE RequestInv(q)'
  <2>1. CASE q = p
    BY <1>2, <2>1, IdleInv
  <2>2. CASE q # p
    <3>1. pc'[q] = pc[q] /\ job'[q] = job[q] /\ RequestInv(q)
      BY <1>2, <2>2 DEF Inv
    <3>2. ASSUME InTransaction(q) PROVE TransactionInv(q)'
      <4>1. TransactionInv(q)
        BY <3>1, <3>2 DEF RequestInv
      <4>2. job[q].op = "refresh" => job[q].old \notin snap
        BY <1>1, <3>2 DEF Held, InTransaction
      <4>3. \A o : o \in Chain(job[q].code) => o \in Pairs
        BY DEF Chain
      <4>4. QED
        BY <1>1, <1>5, <1>7, <3>1, <4>1, <4>2, <4>3 DEF TransactionInv
    <3>3. ASSUME pc[q] = "revoke" PROVE RevocationInv(q)'
      <4>1. RevocationInv(q) /\ job[q].snap \subseteq Pairs
        BY <3>1, <3>3, JobShape DEF RequestInv
      <4>2. QED
        BY <1>1, <1>5, <1>8, <3>1, <4>1 DEF RevocationInv
    <3>4. QED
      BY <1>7, <3>1, <3>2, <3>3 DEF RequestInv, InTransaction
  <2>3. QED
    BY <2>1, <2>2
<1>10. OneTransaction'
  BY <1>2, IdleInv, OneTransactionStays
<1>11. ASSUME NEW d \in Codes PROVE GrantInv(d)'
  <2>1. GrantInv(d) /\ \A i \in Chain(d) : i \in Pairs
    BY DEF Inv, Chain
  <2>2. \A i \in Chain(d) : pair'[i].refresh = "live" => pair[i].refresh = "live"
    BY <1>5, <2>1
  <2>3. \A i \in Chain(d) : pair[i].refresh = "live" =>
          pair'[i].refresh = "live" \/ i \in ended'
    BY <1>1, <1>5, <2>1
  <2>4. Chain(d) # {} =>
          Chain(d) \intersect ended' # {} \/ \E i \in Chain(d) : pair'[i].refresh = "live"
    BY <1>1, <2>1, <2>3 DEF GrantInv
  <2>5. QED
    BY <1>1, <1>7, <2>1, <2>2, <2>4 DEF GrantInv
<1>12. ASSUME NEW i \in ended' PROVE EndedInv(i)'
  <2>1. CASE i \in ended
    <3>1. EndedInv(i) /\ i \in Pairs
      BY <2>1 DEF Inv, TypeOK
    <3>2. \A j \in Chain(pair[i].from) : j \in Pairs
      BY DEF Chain
    <3>3. QED
      BY <1>1, <1>5, <1>7, <1>8, <3>1, <3>2 DEF EndedInv
  <2>2. CASE i \in snap
    <3>1. i \in Pairs /\ Made(i) /\ Owner(i) = u
      BY <1>3, <2>2
    <3>2. ASSUME pair[i].from \notin late, NEW j \in Chain(pair[i].from)
          PROVE  ~Live(j)'
      <4>1. j \in Pairs /\ Made(j) /\ Owner(j) = u /\ pair[j].from = pair[i].from
        BY <3>1, PairShape, ChainIsMade DEF Owner
      <4>2. QED
        BY <1>3, <1>8, <3>2, <4>1
    <3>3. QED
      BY <1>1, <1>5, <1>7, <1>8, <2>2, <3>1, <3>2 DEF EndedInv
  <2>3. QED
    BY <1>1, <2>1, <2>2
<1>13. QED
  BY <1>6, <1>9, <1>10, <1>11, <1>12 DEF Inv

-----------------------------------------------------------------------------
(* The theorems.                                                           *)

LEMMA NextInv == Inv /\ [Next]_vars => Inv'
<1> SUFFICES ASSUME Inv, [Next]_vars PROVE Inv'
  OBVIOUS
<1>1. CASE UNCHANGED vars
  <2>1. TypeOK'
    BY <1>1 DEF Inv, TypeOK, vars
  <2>2. QED
    BY <1>1, <2>1, Aside DEF vars
<1>2. CASE Account
  BY <1>2, SuspendInv, IssueClientInv, ApproveInv, IssueCLIInv, ExpireCodeInv,
     ExpirePairInv, RevokeCLIInv DEF Account
<1>3. ASSUME NEW p \in Calls, Request(p) PROVE Inv'
  BY <1>3, BeginExchangeInv, BeginRefreshInv, CommitInv, BeginRevokeInv, ConsumeInv,
     RotateInv, InsertInv, RevokeDoneInv, FailsInv DEF Request
<1>4. QED
  BY <1>1, <1>2, <1>3 DEF Next

\* The inductive invariant holds of every behaviour.
THEOREM Safety == Spec => []Inv
BY InitInv, NextInv, PTL DEF Spec

\* Every variable keeps its type; the CLI tokens that exist have a user.
THEOREM TypeCorrect == Spec => []TypeOK
BY Safety, PTL DEF Inv

\* At most one of a set whose members are all equal.
LEMMA AtMostOne ==
  ASSUME NEW S, \A i, j \in S : i = j
  PROVE  Cardinality(S) <= 1
<1>1. CASE S = {}
  BY <1>1, FS_EmptySet
<1>2. CASE S # {}
  <2>1. PICK i \in S : TRUE
    BY <1>2
  <2>2. S = {i}
    BY <2>1
  <2>3. Cardinality({i}) = 1
    BY FS_Singleton, Zenon
  <2>4. QED
    BY <2>2, <2>3
<1>3. QED
  BY <1>1, <1>2

\* An approval is worth one live refresh token, whatever is presented at the
\* same time or again, and no failure loses the last one.
THEOREM OneRefreshToken == Spec => []OneRefreshTokenPerGrant
<1>1. Inv => OneRefreshTokenPerGrant
  <2> SUFFICES ASSUME Inv, NEW c \in Codes
               PROVE  LET alive == {i \in Chain(c) : pair[i].refresh = "live"} IN
                      /\ Cardinality(alive) <= 1
                      /\ Chain(c) = {} \/ alive # {} \/ Chain(c) \intersect ended # {}
                      /\ Chain(c) # {} => code[c].state = "used"
    BY DEF OneRefreshTokenPerGrant
  <2> DEFINE alive == {i \in Chain(c) : pair[i].refresh = "live"}
  <2>1. GrantInv(c)
    BY DEF Inv
  <2>2. Cardinality(alive) <= 1
    <3>1. \A i, j \in alive : i = j
      BY <2>1 DEF GrantInv
    <3> HIDE DEF alive
    <3>2. QED
      BY <3>1, AtMostOne
  <2>3. QED
    BY <2>1, <2>2 DEF GrantInv
<1>2. QED
  BY <1>1, Safety, PTL

\* Once POST /revoke has answered, the tokens there were when it began are
\* dead for good, and so is what descends from them, but for a rotation that
\* committed while it was going on.
THEOREM RevocationEnds == Spec => []RevocationEndsGrants
<1>1. Inv => RevocationEndsGrants
  BY DEF Inv, EndedInv, RevocationEndsGrants
<1>2. QED
  BY <1>1, Safety, PTL
=============================================================================
