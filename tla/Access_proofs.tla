---------------------------- MODULE Access_proofs ----------------------------
(***************************************************************************)
(* Proofs about Access: for any number of users, invitations, issued       *)
(* clients and concurrent requests.                                        *)
(***************************************************************************)
EXTENDS Access, TLAPS

\* The parts of the properties that speak of one user, invitation or client.
Via(u) == LET i == member[u].via IN
  i # None => /\ inv[i].state = "accepted" /\ inv[i].by = u
              /\ inv[i].role = member[u].role /\ inv[i].email \in {None, u}

Accepted(i) == inv[i].state = "accepted" => member[inv[i].by].via = i

Named(c) ==
  gb[c] = "live" =>
    \/ c \in lost
    \/ client[c].known /\ client[c].state \in {"active", "orphan"}
    \/ \E p \in Calls : job[p].op = "issue" /\ Obj(p) = c /\ job[p].key

Covered(c) ==
  (client[c].state = "active" /\ gb[c] = "live" /\ ~Active(client[c].user))
  => c \in late \union dropped \/ \E p \in Calls : c \in Owed(p)

KeyInv(c) ==
  /\ client[c].state = "none" => gb[c] = "unused"
  /\ client[c].state = "revoked" => gb[c] # "live"
  /\ Named(c) /\ Covered(c)

\* A request that makes a key.
Making(p) == AtKey(p) /\ job[p].op = "issue"

LEMMA InvParts ==
  IndInv <=> /\ TypeOK
             /\ \A p \in Calls : JobInv(p) /\ MakerInv(p)
             /\ OneMaker
             /\ \A c \in Clients : KeyInv(c)
             /\ \A u \in Users : Via(u)
             /\ \A i \in Invs : Accepted(i)
             /\ SomeOwner
  BY Zenon DEF IndInv, OneMemberPerInvitation, RevokedKeysAreDead, EveryKeyNamed, RowNames, InHand,
     RemovedMembersKeys, KeyInv, Named, Covered, Via, Accepted

LEMMA InvPartsNext ==
  IndInv' <=> /\ TypeOK'
              /\ \A p \in Calls : JobInv(p)' /\ MakerInv(p)'
              /\ OneMaker'
              /\ \A c \in Clients : KeyInv(c)'
              /\ \A u \in Users : Via(u)'
              /\ \A i \in Invs : Accepted(i)'
              /\ SomeOwner'
  BY Zenon DEF IndInv, OneMemberPerInvitation, RevokedKeysAreDead, EveryKeyNamed, RowNames, InHand,
     RemovedMembersKeys, KeyInv, Named, Covered, Via, Accepted, Obj, Active, Owed

-----------------------------------------------------------------------------
(* Types.                                                                  *)

\* The requests' variables.
CallTypes == pc \in [Calls -> Label] /\ job \in [Calls -> Job]

\* The rows and the keys.
KeyTypes ==
  client \in [Clients -> Client] /\ gb \in [Clients -> {"unused", "live", "revoked"}]

PeopleTypes ==
  /\ brain \in {"provisioning", "live", "failed", "archived", "deleted"}
  /\ member \in [Users -> Member] /\ inv \in [Invs -> Inv]

GhostTypes ==
  /\ lost \subseteq Clients /\ late \subseteq Clients /\ dropped \subseteq Clients
  /\ crossed \in BOOLEAN

LEMMA TypeParts == TypeOK <=> CallTypes /\ KeyTypes /\ PeopleTypes /\ GhostTypes
  BY DEF TypeOK, CallTypes, KeyTypes, PeopleTypes, GhostTypes

LEMMA TypePartsNext == TypeOK' <=> CallTypes' /\ KeyTypes' /\ PeopleTypes' /\ GhostTypes'
  BY DEF TypeOK, CallTypes, KeyTypes, PeopleTypes, GhostTypes

LEMMA NoJobType ==
  /\ NoJob \in Job /\ NoJob.op = "none" /\ NoJob.user = None /\ NoJob.obj = None
  /\ NoJob.key = FALSE /\ NoJob.todo = {} /\ NoJob.failed = FALSE /\ NoJob.err = FALSE
  /\ NoJob.listed = {}
  BY DEF Job, NoJob, Op

LEMMA JobShape ==
  ASSUME IndInv, NEW p \in Calls
  PROVE  /\ job[p] = [op |-> job[p].op, user |-> job[p].user, obj |-> Obj(p),
                      key |-> job[p].key, todo |-> job[p].todo,
                      failed |-> job[p].failed, err |-> job[p].err,
                      listed |-> job[p].listed]
         /\ job[p].op \in Op /\ job[p].user \in Users \union {None}
         /\ Obj(p) \in Users \union Invs \union Clients \union {None}
         /\ job[p].key \in BOOLEAN /\ job[p].todo \subseteq Clients
         /\ job[p].failed \in BOOLEAN /\ job[p].err \in BOOLEAN
         /\ job[p].listed \subseteq Clients /\ pc[p] \in Label
<1>1. job[p] \in Job /\ pc[p] \in Label
  BY DEF IndInv, TypeOK
<1>2. QED
  BY <1>1 DEF Job, Obj

\* A row that was inserted has a user, and one whose key is known was inserted.
LEMMA ClientShape ==
  ASSUME IndInv, NEW c \in Clients
  PROVE  /\ client[c] = [state |-> client[c].state, user |-> client[c].user,
                         known |-> client[c].known]
         /\ client[c].state \in {"none", "issuing", "active", "revoked", "orphan", "deleted"}
         /\ client[c].known \in BOOLEAN
         /\ client[c].state # "none" => client[c].user \in Users
         /\ client[c].state = "none" => client[c] = NoClient /\ ~client[c].known
         /\ client[c].state = "active" => client[c].known
<1>1. client[c] \in Client
  BY DEF IndInv, TypeOK
<1>2. CASE client[c] = NoClient
  BY <1>2 DEF NoClient
<1>3. CASE client[c] \in [state : {"issuing", "revoked", "orphan", "deleted"}, user : Users,
                          known : BOOLEAN]
  BY <1>3
<1>4. CASE client[c] \in [state : {"active"}, user : Users, known : {TRUE}]
  BY <1>4
<1>5. QED
  BY <1>1, <1>2, <1>3, <1>4 DEF Client

\* How a row is changed.
LEMMA ClientChange ==
  ASSUME IndInv, NEW c \in Clients, client[c].state # "none", NEW k \in BOOLEAN, NEW new,
         \/ new = [client[c] EXCEPT !.state = "active", !.known = TRUE]
         \/ new = [client[c] EXCEPT !.state = "revoked"]
         \/ new = [client[c] EXCEPT !.state = "orphan", !.known = k]
         \/ new = [client[c] EXCEPT !.state = "deleted"]
  PROVE  new \in Client /\ new.user = client[c].user
<1>1. client[c] \in [state : {"issuing", "active", "revoked", "orphan", "deleted"}, user : Users,
                    known : BOOLEAN]
  <2>1. client[c] \in Client /\ client[c] # NoClient
    BY DEF IndInv, TypeOK, NoClient
  <2>2. CASE client[c] \in [state : {"issuing", "revoked", "orphan", "deleted"}, user : Users,
                            known : BOOLEAN]
    BY <2>2
  <2>3. CASE client[c] \in [state : {"active"}, user : Users, known : {TRUE}]
    BY <2>3
  <2>4. QED
    BY <2>1, <2>2, <2>3 DEF Client
<1>2. CASE new = [client[c] EXCEPT !.state = "active", !.known = TRUE]
  BY <1>1, <1>2 DEF Client
<1>3. CASE new = [client[c] EXCEPT !.state = "orphan", !.known = k]
  BY <1>1, <1>3 DEF Client
<1>4. CASE \/ new = [client[c] EXCEPT !.state = "revoked"]
           \/ new = [client[c] EXCEPT !.state = "deleted"]
  BY <1>1, <1>4 DEF Client
<1>5. QED
  BY <1>2, <1>3, <1>4

LEMMA InvShape ==
  ASSUME IndInv, NEW i \in Invs
  PROVE  /\ inv[i] = [state |-> inv[i].state, role |-> inv[i].role, email |-> inv[i].email,
                      fresh |-> inv[i].fresh, by |-> inv[i].by]
         /\ inv[i].state \in {"none", "pending", "revoked", "accepted", "deleted"}
         /\ inv[i].role \in Role /\ inv[i].email \in Users \union {None}
         /\ inv[i].fresh \in BOOLEAN /\ inv[i].by \in Users \union {None}
         /\ inv[i].state = "none" => inv[i] = NoInv
         /\ inv[i].state \in {"pending", "revoked"} => inv[i].by = None
         /\ inv[i].state = "accepted" => inv[i].by \in Users
<1>1. inv[i] \in Inv
  BY DEF IndInv, TypeOK
<1>2. CASE inv[i] = NoInv
  BY <1>2 DEF NoInv, Role
<1>3. CASE inv[i] \in [state : {"pending", "revoked", "deleted"}, role : Role,
                       email : Users \union {None}, fresh : BOOLEAN, by : {None}]
  BY <1>3
<1>4. CASE inv[i] \in [state : {"accepted", "deleted"}, role : Role,
                       email : Users \union {None}, fresh : BOOLEAN, by : Users]
  BY <1>4
<1>5. QED
  BY <1>1, <1>2, <1>3, <1>4 DEF Inv

\* How an invitation is changed.
LEMMA InvChange ==
  ASSUME IndInv, NEW i \in Invs, inv[i].state # "none", NEW v \in Users, NEW new,
         \/ inv[i].state = "pending" /\ new = [inv[i] EXCEPT !.state = "revoked"]
         \/ inv[i].state = "pending" /\ new = [inv[i] EXCEPT !.state = "accepted", !.by = v]
         \/ inv[i].state = "pending" /\ new = [inv[i] EXCEPT !.fresh = FALSE]
         \/ new = [inv[i] EXCEPT !.state = "deleted"]
  PROVE  new \in Inv /\ new.email = inv[i].email /\ new.role = inv[i].role
<1>1. inv[i] \in Inv /\ inv[i] # NoInv
  BY DEF IndInv, TypeOK, NoInv
<1>2. CASE inv[i] \in [state : {"pending", "revoked", "deleted"}, role : Role,
                       email : Users \union {None}, fresh : BOOLEAN, by : {None}]
  <2>1. CASE new = [inv[i] EXCEPT !.state = "revoked"]
    <3>1. new \in [state : {"pending", "revoked", "deleted"}, role : Role,
                   email : Users \union {None}, fresh : BOOLEAN, by : {None}]
      BY <1>2, <2>1
    <3>2. QED
      BY <1>2, <2>1, <3>1 DEF Inv
  <2>2. CASE new = [inv[i] EXCEPT !.state = "accepted", !.by = v]
    <3>1. new \in [state : {"accepted", "deleted"}, role : Role,
                   email : Users \union {None}, fresh : BOOLEAN, by : Users]
      BY <1>2, <2>2
    <3>2. QED
      BY <1>2, <2>2, <3>1 DEF Inv
  <2>3. CASE new = [inv[i] EXCEPT !.fresh = FALSE]
    <3>1. new \in [state : {"pending", "revoked", "deleted"}, role : Role,
                   email : Users \union {None}, fresh : BOOLEAN, by : {None}]
      BY <1>2, <2>3
    <3>2. QED
      BY <1>2, <2>3, <3>1 DEF Inv
  <2>4. CASE new = [inv[i] EXCEPT !.state = "deleted"]
    <3>1. new \in [state : {"pending", "revoked", "deleted"}, role : Role,
                   email : Users \union {None}, fresh : BOOLEAN, by : {None}]
      BY <1>2, <2>4
    <3>2. QED
      BY <1>2, <2>4, <3>1 DEF Inv
  <2>5. QED
    BY <2>1, <2>2, <2>3, <2>4
<1>3. CASE inv[i] \in [state : {"accepted", "deleted"}, role : Role,
                       email : Users \union {None}, fresh : BOOLEAN, by : Users]
  <2>1. new = [inv[i] EXCEPT !.state = "deleted"]
    BY <1>3
  <2>2. new \in [state : {"accepted", "deleted"}, role : Role,
                 email : Users \union {None}, fresh : BOOLEAN, by : Users]
    BY <1>3, <2>1
  <2>3. QED
    BY <1>3, <2>1, <2>2 DEF Inv
<1>4. QED
  BY <1>1, <1>2, <1>3 DEF Inv

LEMMA MemberShape ==
  ASSUME IndInv, NEW u \in Users
  PROVE  /\ member[u] = [role |-> member[u].role, revoked |-> member[u].revoked,
                         via |-> member[u].via]
         /\ member[u].revoked \in BOOLEAN /\ member[u].via \in Invs \union {None}
         /\ member[u] = NoMember => member[u].via = None /\ ~member[u].revoked
         /\ member[u] # NoMember => member[u].role \in Role
         /\ member[u].role = "none" => member[u] = NoMember
<1>1. member[u] \in Member
  BY DEF IndInv, TypeOK
<1>2. CASE member[u] = NoMember
  BY <1>2 DEF NoMember
<1>3. CASE member[u] \in [role : Role, revoked : BOOLEAN, via : Invs \union {None}]
  BY <1>3 DEF NoMember, Role
<1>4. QED
  BY <1>1, <1>2, <1>3 DEF Member

-----------------------------------------------------------------------------
(* What a step must keep of the requests, the rows and the ghosts.         *)

Kept(q) == pc'[q] = pc[q] /\ job'[q] = job[q]

\* A step of p leaves the other requests where they are.
Alone(p) == \A q \in Calls \ {p} : Kept(q)

Grow ==
  /\ lost \subseteq lost' /\ late \subseteq late' /\ dropped \subseteq dropped'
  /\ crossed => crossed'

\* No row of the invitations goes, nor does its addressee change.
InvsKept ==
  \A i \in Invs : inv[i].state # "none" =>
    inv'[i].state # "none" /\ inv'[i].email = inv[i].email

\* A recorded id stays recorded, a revoked key revoked.
KeysKept ==
  \A c \in Clients : /\ client[c].known => client'[c].known
                     /\ gb[c] = "revoked" => gb'[c] = "revoked"

RowKept(c) == client'[c] = client[c] /\ gb'[c] = gb[c]

\* A row is kept, or goes with its brain.
RowWorn(c) ==
  /\ client'[c].state \in {client[c].state, "deleted"}
  /\ client'[c].user = client[c].user /\ client'[c].known = client[c].known
  /\ gb'[c] = gb[c]

\* What q relies on when it is about to record its key.
StillActive(q) ==
  pc[q] = "activate" /\ Active(job[q].user) =>
    \/ Active(job[q].user)' \/ Obj(q) \in late'
    \/ client'[Obj(q)].state = "deleted"

LEMMA OtherJob ==
  ASSUME IndInv, NEW q \in Calls, Kept(q), InvsKept, KeysKept
  PROVE  JobInv(q)'
<1>1. JobInv(q)
  BY DEF IndInv
<1>2. job[q].todo \subseteq Clients
  BY JobShape
<1>3. Obj(q)' = Obj(q)
  BY DEF Kept, Obj
<1>4. AtKey(q)' <=> AtKey(q)
  BY DEF Kept, AtKey
<1>5. (pc[q] = "join") => inv'[Obj(q)].state # "none" /\ inv'[Obj(q)].email = inv[Obj(q)].email
  BY <1>1 DEF JobInv, InvsKept
<1>6. AtKey(q) /\ job[q].op # "issue" => client'[Obj(q)].known
  BY <1>1 DEF JobInv, KeysKept, Row
<1>7. pc[q] = "markRevoked" => gb'[Obj(q)] = "revoked"
  BY <1>1 DEF JobInv, KeysKept, AtKey
<1>8. \A c \in job[q].todo : client'[c].known
  BY <1>1, <1>2 DEF JobInv, KeysKept
<1>9. QED
  BY <1>1, <1>3, <1>4, <1>5, <1>6, <1>7, <1>8 DEF JobInv, Kept, Row

LEMMA OtherMaker ==
  ASSUME IndInv, NEW q \in Calls, Kept(q), Making(q) => RowWorn(Obj(q)), Grow, StillActive(q)
  PROVE  MakerInv(q)'
<1>1. MakerInv(q)
  BY DEF IndInv
<1>2. Obj(q)' = Obj(q) /\ (AtKey(q)' <=> AtKey(q)) /\ pc'[q] = pc[q] /\ job'[q] = job[q]
  BY DEF Kept, Obj, AtKey
<1>3. CASE ~Making(q)
  BY <1>2, <1>3 DEF Making, MakerInv
<1>4. CASE Making(q)
  <2>1. RowWorn(Obj(q)) /\ AtKey(q) /\ job[q].op = "issue"
    BY <1>4 DEF Making
  <2>2. Row(q)' = client'[Obj(q)]
    BY <1>2 DEF Row
  <2>3. /\ Row(q)'.state \in {"issuing", "deleted"} /\ ~Row(q)'.known
        /\ Row(q)'.user = job[q].user /\ job[q].user \in Users
    BY <1>1, <2>1, <2>2 DEF MakerInv, RowWorn, Row
  <2>4. /\ pc[q] = "register" => gb'[Obj(q)] = "unused"
        /\ job[q].key \/ gb'[Obj(q)] # "live" \/ Obj(q) \in lost'
    BY <1>1, <2>1 DEF MakerInv, RowWorn, Grow
  <2>5. pc[q] = "activate" =>
          Active(job[q].user)' \/ Obj(q) \in late' \/ Row(q)'.state = "deleted"
    BY <1>1, <2>1, <2>2 DEF MakerInv, RowWorn, Grow, StillActive, Row
  <2>6. QED
    BY <1>2, <2>1, <2>2, <2>3, <2>4, <2>5 DEF MakerInv, Active
<1>5. QED
  BY <1>3, <1>4

\* Of the rows whose id is not recorded p touches its own, or makes one.
RowsSafe(p) ==
  \A c \in Clients : \/ client[c].known \/ client[c].state = "none"
                     \/ Making(p) /\ Obj(p) = c
                     \/ RowWorn(c)

LEMMA Others ==
  ASSUME IndInv, NEW p \in Calls, Alone(p), InvsKept, KeysKept, Grow, RowsSafe(p),
         NEW q \in Calls \ {p}, StillActive(q)
  PROVE  JobInv(q)' /\ MakerInv(q)'
<1>1. Kept(q)
  BY DEF Alone
<1>2. Making(q) => RowWorn(Obj(q))
  <2>1. Making(q) => ~(Making(p) /\ Obj(p) = Obj(q))
    BY DEF IndInv, OneMaker, Making
  <2>2. Making(q) => Obj(q) \in Clients /\ Row(q).state \in {"issuing", "deleted"} /\ ~Row(q).known
    BY DEF IndInv, JobInv, MakerInv, Making
  <2>3. QED
    BY <2>1, <2>2 DEF RowsSafe, Row
<1>3. QED
  BY <1>1, <1>2, OtherJob, OtherMaker

LEMMA MakersNext ==
  ASSUME IndInv, NEW p \in Calls, Alone(p),
         Making(p)' => \/ Making(p) /\ Obj(p)' = Obj(p)
                       \/ Obj(p)' \in Clients /\ client[Obj(p)'].state = "none"
  PROVE  OneMaker'
<1>1. \A q \in Calls \ {p} : (Making(q)' <=> Making(q)) /\ Obj(q)' = Obj(q)
  BY DEF Alone, Kept, Making, AtKey, Obj
<1>2. \A q \in Calls : Making(q) => client[Obj(q)].state # "none"
  BY DEF IndInv, MakerInv, Making, Row
<1>3. \A q, r \in Calls : Making(q) /\ Making(r) /\ Obj(q) = Obj(r) => q = r
  BY DEF IndInv, OneMaker, Making
<1>4. \A q \in Calls \ {p} : Making(q)' /\ Making(p)' => Obj(q)' # Obj(p)'
  BY <1>1, <1>2, <1>3
<1>5. \A q, r \in Calls : Making(q)' /\ Making(r)' /\ Obj(q)' = Obj(r)' => q = r
  BY <1>1, <1>3, <1>4
<1>6. QED
  BY <1>5 DEF OneMaker, Making

\* A key p does not touch stays named and covered, if p does not let it go.
LEMMA OtherKey ==
  ASSUME IndInv, NEW p \in Calls, Alone(p), Grow, NEW c \in Clients, RowKept(c),
         job[p].op = "issue" /\ Obj(p) = c /\ job[p].key /\ gb[c] = "live" =>
           c \in lost' \/ (job'[p].op = "issue" /\ job'[p].obj = c /\ job'[p].key),
         c \in Owed(p) /\ client[c].state = "active" /\ gb[c] = "live" =>
           c \in Owed(p)' \/ c \in dropped',
         client[c].state = "active" /\ Active(client[c].user) =>
           Active(client[c].user)' \/ c \in Owed(p)'
  PROVE  KeyInv(c)'
<1>1. KeyInv(c)
  BY InvParts
<1>2. client'[c] = client[c] /\ gb'[c] = gb[c]
  BY DEF RowKept
<1>3. Named(c)'
  <2>1. CASE \/ gb[c] # "live" \/ c \in lost
             \/ client[c].known /\ client[c].state \in {"active", "orphan"}
    BY <1>2, <2>1 DEF Named, Grow
  <2>2. ASSUME gb[c] = "live", NEW q \in Calls, job[q].op = "issue", Obj(q) = c, job[q].key
        PROVE  Named(c)'
    <3>1. CASE q = p
      BY <2>2, <3>1 DEF Named, Obj
    <3>2. CASE q # p
      BY <2>2, <3>2 DEF Named, Obj, Alone, Kept
    <3>3. QED
      BY <3>1, <3>2
  <2>3. QED
    BY <1>1, <2>1, <2>2 DEF KeyInv, Named
<1>4. Covered(c)'
  <2>1. \A q \in Calls \ {p} : c \in Owed(q) => c \in Owed(q)'
    BY <1>2 DEF Owed, Alone, Kept, Obj
  <2>2. CASE client[c].state # "active" \/ gb[c] # "live" \/ c \in late \union dropped
    BY <1>2, <2>2 DEF Covered, Grow
  <2>3. CASE client[c].state = "active" /\ Active(client[c].user)
    BY <1>2, <2>3 DEF Covered, Active
  <2>4. ASSUME client[c].state = "active", gb[c] = "live", NEW q \in Calls, c \in Owed(q)
        PROVE  Covered(c)'
    BY <2>1, <2>4 DEF Covered
  <2>5. QED
    BY <1>1, <2>2, <2>3, <2>4 DEF KeyInv, Covered
<1>5. QED
  BY <1>1, <1>2, <1>3, <1>4 DEF KeyInv

LEMMA PeopleKept ==
  ASSUME IndInv, UNCHANGED <<brain, invited>>, crossed => crossed'
  PROVE  /\ \A u \in Users : Via(u)'
         /\ \A i \in Invs : Accepted(i)'
         /\ SomeOwner' /\ InvsKept /\ PeopleTypes'
<1>1. member' = member /\ inv' = inv /\ brain' = brain
  BY DEF invited
<1>2. /\ \A u \in Users : Via(u)
      /\ \A i \in Invs : Accepted(i)
      /\ SomeOwner /\ PeopleTypes
  BY InvParts, TypeParts
<1>3. QED
  BY <1>1, <1>2 DEF Via, Accepted, SomeOwner, Found, IsOwner, IsMember, Active, InvsKept,
     PeopleTypes

\* A step of one request among the keys, the people as they were.
LEMMA KeyStep ==
  ASSUME IndInv, NEW p \in Calls, Alone(p), UNCHANGED <<brain, invited>>,
         CallTypes', KeyTypes', GhostTypes', Grow,
         KeysKept, RowsSafe(p), JobInv(p)', MakerInv(p)',
         Making(p)' => \/ Making(p) /\ Obj(p)' = Obj(p)
                       \/ Obj(p)' \in Clients /\ client[Obj(p)'].state = "none",
         \A c \in Clients :
           \/ KeyInv(c)'
           \/ /\ RowKept(c)
              /\ job[p].op = "issue" /\ Obj(p) = c /\ job[p].key /\ gb[c] = "live" =>
                   c \in lost' \/ (job'[p].op = "issue" /\ job'[p].obj = c /\ job'[p].key)
              /\ c \in Owed(p) /\ client[c].state = "active" /\ gb[c] = "live" =>
                   c \in Owed(p)' \/ c \in dropped'
  PROVE  IndInv'
<1>1. InvsKept /\ PeopleTypes'
  BY PeopleKept DEF Grow
<1>2. TypeOK'
  BY <1>1, TypePartsNext
<1>3. \A q \in Calls \ {p} : StillActive(q)
  BY DEF StillActive, Active, invited, Alone, Kept
<1>4. \A q \in Calls : JobInv(q)' /\ MakerInv(q)'
  BY <1>1, <1>3, Others
<1>5. ASSUME NEW c \in Clients PROVE KeyInv(c)'
  <2>1. Active(client[c].user) => \/ client'[c] # client[c]
                                  \/ Active(client[c].user)'
    BY DEF Active, invited
  <2>2. CASE KeyInv(c)'
    BY <2>2
  <2>3. CASE RowKept(c) /\ ~KeyInv(c)'
    BY <2>1, <2>3, OtherKey DEF RowKept
  <2>4. QED
    BY <2>2, <2>3
<1>6. OneMaker'
  BY MakersNext
<1>7. QED
  BY <1>2, <1>4, <1>5, <1>6, PeopleKept, InvPartsNext DEF Grow

\* A step of one request that changes nothing but where it is.
LEMMA JobStep ==
  ASSUME IndInv, NEW p \in Calls, Alone(p), UNCHANGED <<brain, invited, keys>>,
         CallTypes', GhostTypes', Grow, JobInv(p)', MakerInv(p)',
         Making(p)' => Making(p) /\ Obj(p)' = Obj(p),
         \A c \in Clients : job[p].op = "issue" /\ Obj(p) = c /\ job[p].key /\ gb[c] = "live" =>
           c \in lost' \/ (job'[p].op = "issue" /\ job'[p].obj = c /\ job'[p].key),
         \A c \in Clients : c \in Owed(p) /\ client[c].state = "active" /\ gb[c] = "live" =>
           c \in Owed(p)' \/ c \in dropped'
  PROVE  IndInv'
<1>1. client' = client /\ gb' = gb
  BY DEF keys
<1>2. KeyTypes' /\ KeysKept /\ RowsSafe(p) /\ \A c \in Clients : RowKept(c)
  BY <1>1, ClientShape, TypeParts DEF IndInv, KeyTypes, KeysKept, RowsSafe, RowWorn, RowKept
<1>3. QED
  BY <1>2, KeyStep

LEMMA IdleOwesNothing ==
  ASSUME IndInv, NEW p \in Calls, pc[p] = "idle"
  PROVE  job[p] = NoJob /\ ~Making(p) /\ Owed(p) = {} /\ job[p].op = "none"
<1>1. job[p] = NoJob
  BY DEF IndInv, JobInv
<1>2. QED
  BY <1>1, NoJobType DEF Making, Owed

LEMMA GotoStep ==
  ASSUME IndInv, NEW p \in Calls, NEW l, l \in Label, Goto(p, l), UNCHANGED job
  PROVE  CallTypes' /\ Alone(p) /\ pc'[p] = l /\ job'[p] = job[p] /\ Obj(p)' = Obj(p)
  BY DEF IndInv, TypeOK, CallTypes, Goto, Alone, Kept, Obj

LEMMA BeginStep ==
  ASSUME IndInv, NEW p \in Calls, NEW u \in Users, NEW op, op \in Op,
         NEW obj, obj \in Users \union Invs \union Clients \union {None},
         NEW l, l \in Label, Begin(p, u, op, obj, l)
  PROVE  /\ CallTypes' /\ Alone(p) /\ pc'[p] = l /\ pc[p] = "idle"
         /\ job'[p].op = op /\ job'[p].user = u /\ Obj(p)' = obj /\ job'[p].todo = {}
         /\ ~job'[p].key
<1> PICK new : new = [NoJob EXCEPT !.op = op, !.user = u, !.obj = obj]
  OBVIOUS
<1>1. /\ new \in Job
      /\ new.op = op /\ new.user = u /\ new.obj = obj /\ new.todo = {} /\ new.key = FALSE
  BY NoJobType DEF Job
<1>2. QED
  BY <1>1 DEF IndInv, TypeOK, CallTypes, Begin, Alone, Kept, Obj

\* A request that begins has no key yet.
LEMMA BeginInv ==
  ASSUME IndInv, NEW p \in Calls, Alone(p), CallTypes', pc[p] = "idle",
         UNCHANGED <<brain, invited, keys, ghosts>>, JobInv(p)', ~Making(p)'
  PROVE  IndInv'
<1>1. ~Making(p) /\ Owed(p) = {} /\ job[p].op = "none"
  BY IdleOwesNothing
<1>2. GhostTypes' /\ Grow
  BY TypeParts DEF IndInv, GhostTypes, ghosts, Grow
<1>3. MakerInv(p)'
  BY DEF Making, MakerInv
<1>4. QED
  BY <1>1, <1>2, <1>3, JobStep

LEMMA ReturnStep ==
  ASSUME IndInv, NEW p \in Calls, Return(p)
  PROVE  /\ CallTypes' /\ Alone(p) /\ pc'[p] = "idle" /\ job'[p] = NoJob
         /\ JobInv(p)' /\ MakerInv(p)' /\ ~Making(p)'
<1>1. CallTypes' /\ Alone(p) /\ pc'[p] = "idle" /\ job'[p] = NoJob
  BY NoJobType DEF IndInv, TypeOK, CallTypes, Return, Alone, Kept, Label
<1>2. QED
  BY <1>1, NoJobType DEF JobInv, MakerInv, Making, AtKey

-----------------------------------------------------------------------------
(* Requests begin.                                                         *)

LEMMA BeginInviteInv ==
  ASSUME IndInv, NEW p \in Calls, NEW u \in Users, BeginInvite(p, u)
  PROVE  IndInv'
<1>1. Begin(p, u, "invite", None, "insert") /\ UNCHANGED <<brain, invited, keys, ghosts>>
  BY DEF BeginInvite
<1>2. /\ CallTypes' /\ Alone(p) /\ pc'[p] = "insert" /\ pc[p] = "idle"
      /\ job'[p].op = "invite" /\ job'[p].todo = {}
  BY <1>1, BeginStep DEF Op, Label
<1>3. JobInv(p)' /\ ~Making(p)'
  BY <1>2 DEF JobInv, Making, AtKey
<1>4. QED
  BY <1>1, <1>2, <1>3, BeginInv

LEMMA BeginIssueInv ==
  ASSUME IndInv, NEW p \in Calls, NEW u \in Users, BeginIssue(p, u)
  PROVE  IndInv'
<1>1. Begin(p, u, "issue", None, "issue") /\ UNCHANGED <<brain, invited, keys, ghosts>>
  BY DEF BeginIssue
<1>0. "issue" \in Op /\ "issue" \in Label /\ None \in Users \union Invs \union Clients \union {None}
  BY DEF Op, Label
<1>2. /\ CallTypes' /\ Alone(p) /\ pc'[p] = "issue" /\ pc[p] = "idle"
      /\ job'[p].op = "issue" /\ job'[p].user = u /\ Obj(p)' = None /\ job'[p].todo = {}
  BY <1>0, <1>1, BeginStep
<1>3. JobInv(p)' /\ ~Making(p)'
  BY <1>2 DEF JobInv, Making, AtKey
<1>4. QED
  BY <1>1, <1>2, <1>3, BeginInv

LEMMA BeginWithdrawInv ==
  ASSUME IndInv, NEW p \in Calls, NEW u \in Users, NEW i \in Invs, BeginWithdraw(p, u, i)
  PROVE  IndInv'
<1>1. Begin(p, u, "withdraw", i, "withdraw") /\ UNCHANGED <<brain, invited, keys, ghosts>>
  BY DEF BeginWithdraw
<1>0. "withdraw" \in Op /\ "withdraw" \in Label
  BY DEF Op, Label
<1>2. /\ CallTypes' /\ Alone(p) /\ pc'[p] = "withdraw" /\ pc[p] = "idle"
      /\ job'[p].op = "withdraw" /\ Obj(p)' = i /\ job'[p].todo = {}
  BY <1>0, <1>1, BeginStep
<1>3. JobInv(p)' /\ ~Making(p)'
  BY <1>2 DEF JobInv, Making, AtKey
<1>4. QED
  BY <1>1, <1>2, <1>3, BeginInv

LEMMA BeginAcceptInv ==
  ASSUME IndInv, NEW p \in Calls, NEW u \in Users, NEW i \in Invs, BeginAccept(p, u, i)
  PROVE  IndInv'
<1>1. /\ Begin(p, u, "accept", i, "join") /\ UNCHANGED <<brain, invited, keys, ghosts>>
      /\ inv'[i].state # "none" /\ inv'[i].email \in {None, u}
  BY DEF BeginAccept, invited
<1>2. /\ CallTypes' /\ Alone(p) /\ pc'[p] = "join" /\ pc[p] = "idle"
      /\ job'[p].op = "accept" /\ job'[p].user = u /\ Obj(p)' = i /\ job'[p].todo = {}
  BY <1>1, BeginStep DEF Op, Label
<1>3. JobInv(p)' /\ ~Making(p)'
  BY <1>1, <1>2 DEF JobInv, Making, AtKey
<1>4. QED
  BY <1>1, <1>2, <1>3, BeginInv

LEMMA BeginLeaveInv ==
  ASSUME IndInv, NEW p \in Calls, NEW u \in Users, NEW t \in Users, BeginLeave(p, u, t)
  PROVE  IndInv'
<1>1. Begin(p, u, "leave", t, "leave") /\ UNCHANGED <<brain, invited, keys, ghosts>> /\ u # t
  BY DEF BeginLeave
<1>0. "leave" \in Op /\ "leave" \in Label
  BY DEF Op, Label
<1>2. /\ CallTypes' /\ Alone(p) /\ pc'[p] = "leave" /\ pc[p] = "idle"
      /\ job'[p].op = "leave" /\ job'[p].user = u /\ Obj(p)' = t /\ job'[p].todo = {}
  BY <1>0, <1>1, BeginStep
<1>3. JobInv(p)' /\ ~Making(p)'
  BY <1>1, <1>2 DEF JobInv, Making, AtKey
<1>4. QED
  BY <1>1, <1>2, <1>3, BeginInv

LEMMA BeginArchiveInv ==
  ASSUME IndInv, NEW p \in Calls, NEW u \in Users, BeginArchive(p, u)
  PROVE  IndInv'
<1> PICK b \in BOOLEAN : b = (brain = "failed")
  OBVIOUS
<1>1. /\ pc[p] = "idle" /\ UNCHANGED <<brain, invited, keys, ghosts>>
      /\ job' = [job EXCEPT ![p] = [NoJob EXCEPT !.op = "archive", !.user = u, !.failed = b]]
      /\ pc' = [pc EXCEPT ![p] = "list"]
  BY DEF BeginArchive, Goto
<1> PICK new : new = [NoJob EXCEPT !.op = "archive", !.user = u, !.failed = b]
  OBVIOUS
<1>2. new \in Job /\ new.op = "archive" /\ new.todo = {}
  BY NoJobType DEF Job, Op
<1>3. /\ CallTypes' /\ Alone(p) /\ pc'[p] = "list"
      /\ job'[p].op = "archive" /\ job'[p].todo = {}
  BY <1>1, <1>2 DEF IndInv, TypeOK, CallTypes, Alone, Kept, Label
<1>4. JobInv(p)' /\ ~Making(p)'
  BY <1>3 DEF JobInv, Making, AtKey
<1>5. QED
  BY <1>1, <1>3, <1>4, BeginInv

LEMMA BeginRevokeInv ==
  ASSUME IndInv, NEW p \in Calls, NEW u \in Users, NEW c \in Clients, BeginRevoke(p, u, c)
  PROVE  IndInv'
<1>1. /\ pc[p] = "idle" /\ UNCHANGED <<brain, invited, keys, ghosts>> /\ client'[c].known
      /\ job' = [job EXCEPT ![p] = [NoJob EXCEPT !.op = "revoke", !.user = u, !.obj = c,
                                                 !.key = TRUE]]
      /\ pc' = [pc EXCEPT ![p] = "revoke"]
  BY DEF BeginRevoke, Goto, keys
<1> PICK new : new = [NoJob EXCEPT !.op = "revoke", !.user = u, !.obj = c, !.key = TRUE]
  OBVIOUS
<1>2. new \in Job /\ new.op = "revoke" /\ new.obj = c /\ new.todo = {}
  BY NoJobType DEF Job, Op
<1>3. /\ CallTypes' /\ Alone(p) /\ pc'[p] = "revoke"
      /\ job'[p].op = "revoke" /\ job'[p].obj = c /\ job'[p].todo = {}
  BY <1>1, <1>2 DEF IndInv, TypeOK, CallTypes, Alone, Kept, Label
<1>4. JobInv(p)' /\ ~Making(p)'
  BY <1>1, <1>3 DEF JobInv, Making, AtKey, Obj, Row
<1>5. QED
  BY <1>1, <1>3, <1>4, BeginInv

-----------------------------------------------------------------------------
(* Invitations.                                                            *)

\* A request that ends without having touched a key.
LEMMA PeopleStep ==
  ASSUME IndInv, NEW p \in Calls, pc[p] \in {"insert", "withdraw", "join", "archive"},
         Return(p), UNCHANGED <<keys, ghosts>>, PeopleTypes', InvsKept,
         \A u \in Users : Active(u) => Active(u)',
         \A u \in Users : Via(u)', \A i \in Invs : Accepted(i)', SomeOwner'
  PROVE  IndInv'
<1>1. CallTypes' /\ Alone(p) /\ job'[p] = NoJob /\ JobInv(p)' /\ MakerInv(p)' /\ ~Making(p)'
  BY ReturnStep
<1>2. job[p].op \notin {"issue", "leave"} /\ Owed(p) = {}
  BY DEF IndInv, JobInv, Owed
<1>3. client' = client /\ gb' = gb /\ Grow /\ GhostTypes'
  BY TypeParts DEF IndInv, keys, ghosts, Grow, GhostTypes
<1>4. KeyTypes' /\ KeysKept /\ RowsSafe(p) /\ \A c \in Clients : RowKept(c)
  BY <1>3, ClientShape, TypeParts DEF IndInv, KeyTypes, KeysKept, RowsSafe, RowWorn, RowKept
<1>5. TypeOK'
  BY <1>1, <1>3, <1>4, TypePartsNext
<1>6. ASSUME NEW q \in Calls \ {p} PROVE JobInv(q)' /\ MakerInv(q)'
  <2>1. pc[q] = "activate" => job[q].user \in Users
    BY DEF IndInv, JobInv, MakerInv, AtKey
  <2>2. job'[q] = job[q]
    BY <1>1 DEF Alone, Kept
  <2>3. StillActive(q)
    BY <2>1, <2>2 DEF StillActive, Active
  <2>4. QED
    BY <1>1, <1>3, <1>4, <2>3, Others
<1>7. ASSUME NEW c \in Clients PROVE KeyInv(c)'
  <2>1. client[c].state = "active" /\ Active(client[c].user) => Active(client[c].user)'
    BY <1>3, ClientShape DEF Active
  <2>2. QED
    BY <1>1, <1>2, <1>3, <1>4, <2>1, OtherKey
<1>8. OneMaker'
  BY <1>1, MakersNext
<1>9. QED
  BY <1>1, <1>5, <1>6, <1>7, <1>8, InvPartsNext

LEMMA InviteInv ==
  ASSUME IndInv, NEW p \in Calls, NEW i \in Invs, NEW o \in Offers, Invite(p, i, o)
  PROVE  IndInv'
<1>0. /\ pc[p] = "insert" /\ inv[i].state = "none" /\ Return(p)
      /\ brain' = brain /\ member' = member /\ UNCHANGED <<keys, ghosts>>
  BY DEF Invite
<1> PICK new : new = [NoInv EXCEPT !.state = "pending", !.role = o.role, !.email = o.email]
  OBVIOUS
<1>1. inv' = [inv EXCEPT ![i] = new]
  BY DEF Invite
<1>2. o.role \in Role /\ o.email \in Users \union {None}
  BY OffersAssumption DEF Role
<1>3. new \in Inv /\ new.state = "pending"
  BY <1>2 DEF NoInv, Inv
<1>4. PeopleTypes' /\ InvsKept
  BY <1>0, <1>1, <1>3, TypeParts DEF IndInv, PeopleTypes, InvsKept
<1>5. \A j \in Invs \ {i} : inv'[j] = inv[j]
  BY <1>1, TypeParts DEF IndInv, PeopleTypes
<1>6. inv'[i].state = "pending"
  BY <1>1, <1>3, TypeParts DEF IndInv, PeopleTypes
<1>7. \A u \in Users : Via(u)'
  <2>1. \A u \in Users : Via(u) /\ member[u].via \in Invs \union {None}
    BY InvParts, MemberShape
  <2>2. \A u \in Users : member[u].via # i
    BY <1>0, <2>1, DisjointAssumption DEF Via
  <2>3. QED
    BY <1>0, <1>5, <2>1, <2>2 DEF Via
<1>8. \A j \in Invs : Accepted(j)'
  <2>1. \A j \in Invs : Accepted(j)
    BY InvParts
  <2>2. QED
    BY <1>0, <1>5, <1>6, <2>1 DEF Accepted
<1>9. SomeOwner' /\ \A u \in Users : Active(u) => Active(u)'
  BY <1>0 DEF IndInv, SomeOwner, Found, IsOwner, IsMember, Active, ghosts
<1>10. QED
  BY <1>0, <1>4, <1>7, <1>8, <1>9, PeopleStep

LEMMA WithdrawInv ==
  ASSUME IndInv, NEW p \in Calls, Withdraw(p)
  PROVE  IndInv'
<1> PICK i : i = Obj(p)
  OBVIOUS
<1>0. /\ pc[p] = "withdraw" /\ inv[i].state = "pending" /\ Return(p)
      /\ brain' = brain /\ member' = member /\ UNCHANGED <<keys, ghosts>>
  BY DEF Withdraw
<1>1. i \in Invs
  BY <1>0 DEF IndInv, JobInv
<1> PICK new : new = [inv[i] EXCEPT !.state = "revoked"]
  OBVIOUS
<1>2. inv' = [inv EXCEPT ![i] = new]
  BY DEF Withdraw
<1>3. /\ new \in Inv /\ new.state = "revoked" /\ new.email = inv[i].email
  <2>1. new \in Inv /\ new.email = inv[i].email
    BY <1>0, <1>1, FounderAssumption, InvChange
  <2>2. QED
    BY <1>1, <2>1, InvShape
<1>4. PeopleTypes' /\ InvsKept
  BY <1>0, <1>1, <1>2, <1>3, TypeParts DEF IndInv, PeopleTypes, InvsKept
<1>5. (\A j \in Invs \ {i} : inv'[j] = inv[j]) /\ inv'[i].state = "revoked"
  BY <1>1, <1>2, <1>3, TypeParts DEF IndInv, PeopleTypes
<1>7. \A u \in Users : Via(u)'
  <2>1. \A u \in Users : Via(u) /\ member[u].via \in Invs \union {None}
    BY InvParts, MemberShape
  <2>2. \A u \in Users : member[u].via # i
    BY <1>0, <1>1, <2>1, DisjointAssumption DEF Via
  <2>3. QED
    BY <1>0, <1>5, <2>1, <2>2 DEF Via
<1>8. \A j \in Invs : Accepted(j)'
  <2>1. \A j \in Invs : Accepted(j)
    BY InvParts
  <2>2. QED
    BY <1>0, <1>5, <2>1 DEF Accepted
<1>9. SomeOwner' /\ \A u \in Users : Active(u) => Active(u)'
  BY <1>0 DEF IndInv, SomeOwner, Found, IsOwner, IsMember, Active, ghosts
<1>10. QED
  BY <1>0, <1>4, <1>7, <1>8, <1>9, PeopleStep

LEMMA JoinInv ==
  ASSUME IndInv, NEW p \in Calls, Join(p)
  PROVE  IndInv'
<1> PICK i : i = Obj(p)
  OBVIOUS
<1> PICK v : v = job[p].user
  OBVIOUS
<1>0. /\ pc[p] = "join" /\ inv[i].state = "pending" /\ member[v] = NoMember
      /\ Return(p) /\ brain' = brain /\ UNCHANGED <<keys, ghosts>>
  BY DEF Join, Joined
<1>1. i \in Invs /\ v \in Users /\ inv[i].email \in {None, v}
  BY <1>0 DEF IndInv, JobInv
<1> PICK new : new = [inv[i] EXCEPT !.state = "accepted", !.by = v]
  OBVIOUS
<1> PICK mem : mem = [role |-> inv[i].role, revoked |-> FALSE, via |-> i]
  OBVIOUS
<1>2. inv' = [inv EXCEPT ![i] = new]
  BY DEF Join, Joined
<1>3. member' = [member EXCEPT ![v] = mem]
  BY DEF Join, Joined
<1>4. /\ new \in Inv /\ new.state = "accepted" /\ new.by = v
      /\ new.email = inv[i].email /\ new.role = inv[i].role
  <2>1. new \in Inv /\ new.email = inv[i].email /\ new.role = inv[i].role
    BY <1>0, <1>1, InvChange
  <2>2. QED
    BY <1>1, <2>1, InvShape
<1>5. mem \in Member /\ mem.role = inv[i].role /\ mem.via = i /\ ~mem.revoked /\ mem # NoMember
  BY <1>1, InvShape DEF Member, NoMember, Role
<1>6. PeopleTypes' /\ InvsKept
  BY <1>0, <1>1, <1>2, <1>3, <1>4, <1>5, TypeParts DEF IndInv, PeopleTypes, InvsKept
<1>7. /\ \A j \in Invs \ {i} : inv'[j] = inv[j]
      /\ \A u \in Users \ {v} : member'[u] = member[u]
      /\ inv'[i] = new /\ member'[v] = mem
  BY <1>1, <1>2, <1>3, TypeParts DEF IndInv, PeopleTypes
<1>8. /\ \A u \in Users : Via(u) /\ member[u].via \in Invs \union {None}
      /\ \A j \in Invs : Accepted(j)
      /\ member[v].via = None
  BY <1>0, <1>1, InvParts, MemberShape
<1>9. \A u \in Users : Via(u)'
  <2>1. Via(v)'
    <3>1. member'[v].via = i /\ member'[v].role = inv[i].role
      BY <1>5, <1>7
    <3>2. /\ inv'[i].state = "accepted" /\ inv'[i].by = v
          /\ inv'[i].role = member'[v].role /\ inv'[i].email \in {None, v}
      BY <1>1, <1>4, <1>7, <3>1
    <3>3. QED
      BY <3>1, <3>2 DEF Via
  <2>2. \A u \in Users \ {v} : member[u].via # i
    BY <1>0, <1>1, <1>8, DisjointAssumption DEF Via
  <2>3. \A u \in Users \ {v} : Via(u)'
    BY <1>7, <1>8, <2>2 DEF Via
  <2>4. QED
    BY <2>1, <2>3
<1>10. \A j \in Invs : Accepted(j)'
  <2>1. Accepted(i)'
    BY <1>4, <1>5, <1>7 DEF Accepted
  <2>2. \A j \in Invs \ {i} : inv[j].state = "accepted" => inv[j].by \in Users \ {v}
    BY <1>8, InvShape, DisjointAssumption DEF Accepted
  <2>3. \A j \in Invs \ {i} : Accepted(j)'
    BY <1>7, <1>8, <2>2 DEF Accepted
  <2>4. QED
    BY <2>1, <2>3
<1>11. \A u \in Users : Active(u) => u # v /\ member'[u] = member[u] /\ Active(u)'
  BY <1>0, <1>7 DEF Active
<1>12. SomeOwner'
  BY <1>0, <1>11 DEF IndInv, SomeOwner, Found, IsOwner, IsMember, ghosts
<1>13. QED
  BY <1>0, <1>6, <1>9, <1>10, <1>11, <1>12, PeopleStep

-----------------------------------------------------------------------------
(* A key is made.                                                          *)

\* The facts a step about the key at hand starts from.
LEMMA AtHand ==
  ASSUME IndInv, NEW p \in Calls, AtKey(p)
  PROVE  /\ Obj(p) \in Clients /\ Obj(p) # None
         /\ job[p].op \in {"issue", "revoke", "leave", "archive"}
         /\ job[p].op # "issue" => Row(p).known
         /\ Row(p).state # "none"
         /\ job[p].op = "issue" =>
              /\ Making(p) /\ Row(p).state \in {"issuing", "deleted"} /\ ~Row(p).known
              /\ Row(p).user = job[p].user /\ job[p].user \in Users
              /\ job[p].key \/ gb[Obj(p)] # "live" \/ Obj(p) \in lost
         /\ pc[p] \in {"register", "recheck", "activate"} => job[p].op = "issue"
         /\ JobInv(p) /\ MakerInv(p) /\ KeyInv(Obj(p))
<1>1. JobInv(p) /\ MakerInv(p)
  BY DEF IndInv
<1>2. Obj(p) \in Clients /\ KeyInv(Obj(p))
  BY <1>1, InvParts DEF JobInv
<1>3. job[p].op # "issue" => Row(p).known /\ Row(p).state # "none"
  BY <1>1, <1>2, ClientShape DEF JobInv, Row
<1>4. QED
  BY <1>1, <1>2, <1>3, DisjointAssumption DEF JobInv, MakerInv, Making

\* The request goes on with the same key.
LEMMA SameKey ==
  ASSUME IndInv, NEW p \in Calls, AtKey(p), NEW l, Goto(p, l),
         l \in {"recheck", "activate", "revoke", "markRevoked", "markOrphan"},
         job'[p].op = job[p].op, job'[p].user = job[p].user, Obj(p)' = Obj(p),
         job'[p].todo = job[p].todo, KeysKept,
         l \in {"recheck", "activate"} => job[p].op = "issue",
         l = "markRevoked" => gb'[Obj(p)] = "revoked"
  PROVE  JobInv(p)' /\ pc'[p] = l /\ AtKey(p)' /\ (Making(p)' <=> Making(p))
<1>1. pc'[p] = l
  BY DEF IndInv, TypeOK, Goto
<1>2. AtKey(p)'
  BY <1>1 DEF AtKey
<1>3. job[p].op # "issue" => client'[Obj(p)].known
  BY AtHand DEF KeysKept, Row
<1>4. \A c \in job[p].todo : client'[c].known
  BY AtHand, JobShape DEF KeysKept, JobInv
<1>5. QED
  BY <1>1, <1>2, <1>3, <1>4, AtHand DEF JobInv, Making, Row

\* A step that leaves rows and keys alone keeps what is said of the maker.
LEMMA SameMaker ==
  ASSUME IndInv, NEW p \in Calls, AtKey(p), UNCHANGED <<keys, invited>>, lost \subseteq lost',
         pc'[p] \in {"activate", "revoke", "markRevoked", "markOrphan"},
         job'[p] = job[p],
         pc'[p] = "activate" => Active(job[p].user)
  PROVE  MakerInv(p)'
<1>1. client' = client /\ gb' = gb /\ member' = member /\ Obj(p)' = Obj(p)
  BY DEF keys, invited, Obj
<1>2. QED
  BY <1>1, AtHand DEF MakerInv, Row, Active

LEMMA IssueRowInv ==
  ASSUME IndInv, NEW p \in Calls, NEW c \in Clients, IssueRow(p, c)
  PROVE  IndInv'
<1>0. /\ pc[p] = "issue" /\ client[c].state = "none"
      /\ UNCHANGED <<brain, invited, gb, ghosts>> /\ Goto(p, "register")
      /\ job' = [job EXCEPT ![p].obj = c]
  BY DEF IssueRow
<1>1. /\ job[p].op = "issue" /\ job[p].user \in Users /\ Obj(p) = None
      /\ job[p] \in Job /\ gb[c] = "unused" /\ None \notin Clients
  BY <1>0, DisjointAssumption DEF IndInv, JobInv, TypeOK
<1> PICK row : row = [state |-> "issuing", user |-> job[p].user, known |-> FALSE]
  OBVIOUS
<1> PICK new : new = [job[p] EXCEPT !.obj = c]
  OBVIOUS
<1>2. client' = [client EXCEPT ![c] = row]
  BY DEF IssueRow
<1>3. row \in Client /\ row.state = "issuing" /\ ~row.known /\ row.user = job[p].user
  BY <1>1 DEF Client
<1>4. /\ new \in Job /\ new.op = "issue" /\ new.obj = c /\ new.user = job[p].user
      /\ new.todo = job[p].todo
  BY <1>1 DEF Job
<1>5. /\ CallTypes' /\ Alone(p) /\ pc'[p] = "register" /\ job'[p] = new /\ Obj(p)' = c
  BY <1>0, <1>4 DEF IndInv, TypeOK, CallTypes, Goto, Alone, Kept, Label, Obj
<1>6. /\ KeyTypes' /\ client'[c] = row /\ gb' = gb
      /\ \A d \in Clients \ {c} : RowKept(d)
  BY <1>0, <1>2, <1>3 DEF IndInv, TypeOK, KeyTypes, RowKept
<1>7. GhostTypes' /\ Grow
  BY <1>0, TypeParts DEF IndInv, GhostTypes, ghosts, Grow
<1>8. KeysKept /\ RowsSafe(p)
  <2>1. ~client[c].known
    BY <1>0, ClientShape
  <2>2. \A d \in Clients \ {c} : RowWorn(d)
    BY <1>6 DEF RowKept, RowWorn
  <2>3. QED
    BY <1>0, <1>6, <2>1, <2>2 DEF KeysKept, RowsSafe, RowKept
<1>9. JobInv(p)'
  <2>1. \A d \in job[p].todo : client'[d].known
    BY <1>8, JobShape DEF IndInv, JobInv, KeysKept
  <2>2. QED
    BY <1>4, <1>5, <2>1 DEF JobInv, AtKey
<1>10. MakerInv(p)'
  BY <1>1, <1>3, <1>4, <1>5, <1>6 DEF MakerInv, AtKey, Row
<1>11. KeyInv(c)'
  BY <1>1, <1>3, <1>6 DEF KeyInv, Named, Covered
<1>12. Owed(p) = {}
  BY <1>1 DEF Owed
<1>13. QED
  BY <1>0, <1>1, <1>5, <1>6, <1>7, <1>8, <1>9, <1>10, <1>11, <1>12, KeyStep

LEMMA RegisteredInv ==
  ASSUME IndInv, NEW p \in Calls, Registered(p)
  PROVE  IndInv'
<1> PICK c : c = Obj(p)
  OBVIOUS
<1>0. /\ pc[p] = "register" /\ UNCHANGED <<brain, invited, client, ghosts>>
      /\ gb' = [gb EXCEPT ![c] = "live"] /\ Goto(p, "recheck")
      /\ job' = [job EXCEPT ![p].key = TRUE]
  BY DEF Registered
<1>1. AtKey(p) /\ job[p] \in Job
  BY <1>0 DEF AtKey, IndInv, TypeOK
<1>2. /\ c \in Clients /\ job[p].op = "issue" /\ gb[c] = "unused" /\ Making(p)
      /\ Row(p).state \in {"issuing", "deleted"}
  BY <1>0, <1>1, AtHand DEF MakerInv
<1> PICK new : new = [job[p] EXCEPT !.key = TRUE]
  OBVIOUS
<1>3. /\ new \in Job /\ new.op = "issue" /\ new.obj = c /\ new.user = job[p].user
      /\ new.todo = job[p].todo /\ new.key
  BY <1>1, <1>2 DEF Job, Obj
<1>4. /\ CallTypes' /\ Alone(p) /\ job'[p] = new /\ Obj(p)' = c
  BY <1>0, <1>3 DEF IndInv, TypeOK, CallTypes, Goto, Alone, Kept, Label, Obj
<1>5. /\ KeyTypes' /\ client' = client /\ gb'[c] = "live"
      /\ \A d \in Clients \ {c} : RowKept(d)
  BY <1>0, <1>2 DEF IndInv, TypeOK, KeyTypes, RowKept
<1>6. GhostTypes' /\ Grow
  BY <1>0, TypeParts DEF IndInv, GhostTypes, ghosts, Grow
<1>7. KeysKept /\ RowsSafe(p)
  <2>1. \A d \in Clients \ {c} : RowWorn(d)
    BY <1>5, ClientShape DEF RowKept, RowWorn
  <2>2. QED
    BY <1>2, <1>5, <2>1 DEF KeysKept, RowsSafe, RowKept
<1>8. JobInv(p)' /\ pc'[p] = "recheck" /\ AtKey(p)'
  BY <1>0, <1>1, <1>2, <1>3, <1>4, <1>7, SameKey
<1>9. MakerInv(p)'
  BY <1>1, <1>2, <1>3, <1>4, <1>5, <1>8, AtHand DEF MakerInv, Row
<1>10. KeyInv(c)'
  BY <1>2, <1>3, <1>4, <1>5 DEF KeyInv, Named, Covered, Row
<1>11. Owed(p) = {}
  BY <1>2 DEF Owed
<1>12. QED
  BY <1>0, <1>2, <1>4, <1>5, <1>6, <1>7, <1>8, <1>9, <1>10, <1>11, KeyStep

LEMMA RegisterFailsInv ==
  ASSUME IndInv, NEW p \in Calls, RegisterFails(p)
  PROVE  IndInv'
<1> PICK c : c = Obj(p)
  OBVIOUS
<1>0. /\ pc[p] = "register" /\ brain' = brain /\ UNCHANGED invited /\ client' = client
      /\ job' = job /\ late' = late /\ dropped' = dropped /\ crossed' = crossed
      /\ Goto(p, "markOrphan")
      /\ \/ gb' = gb /\ lost' = lost
         \/ gb' = [gb EXCEPT ![c] = "live"] /\ lost' = lost \union {c}
  BY DEF RegisterFails
<1>1. AtKey(p)
  BY <1>0 DEF AtKey
<1>2. /\ c \in Clients /\ job[p].op = "issue" /\ gb[c] = "unused" /\ Making(p)
      /\ Row(p).state \in {"issuing", "deleted"}
  BY <1>0, <1>1, AtHand DEF MakerInv
<1>3. CallTypes' /\ Alone(p) /\ job'[p] = job[p] /\ Obj(p)' = c
  BY <1>0, GotoStep DEF Label
<1>4. /\ KeyTypes' /\ \A d \in Clients \ {c} : RowKept(d)
  BY <1>0, <1>2 DEF IndInv, TypeOK, KeyTypes, RowKept
<1>5. GhostTypes' /\ Grow
  BY <1>0, <1>2, TypeParts DEF IndInv, GhostTypes, Grow
<1>6. KeysKept /\ RowsSafe(p)
  <2>1. \A d \in Clients \ {c} : RowWorn(d)
    BY <1>4, ClientShape DEF RowKept, RowWorn
  <2>2. QED
    BY <1>0, <1>2, <1>4, <2>1 DEF KeysKept, RowsSafe, RowKept
<1>7. JobInv(p)' /\ pc'[p] = "markOrphan" /\ AtKey(p)'
  BY <1>0, <1>1, <1>2, <1>3, <1>6, SameKey
<1>8. gb'[c] # "live" \/ c \in lost'
  BY <1>0, <1>2
<1>9. MakerInv(p)'
  BY <1>0, <1>1, <1>2, <1>3, <1>7, <1>8, AtHand DEF MakerInv, Row
<1>10. KeyInv(c)'
  BY <1>0, <1>2, <1>8 DEF KeyInv, Named, Covered, Row
<1>11. Owed(p) = {}
  BY <1>2 DEF Owed
<1>12. QED
  BY <1>0, <1>2, <1>3, <1>4, <1>5, <1>6, <1>7, <1>9, <1>10, <1>11, KeyStep

\* A step that goes on with the same key and touches neither rows nor keys.
LEMMA PlainStep ==
  ASSUME IndInv, NEW p \in Calls, AtKey(p), NEW l, Goto(p, l),
         l \in {"activate", "revoke", "markRevoked", "markOrphan"},
         UNCHANGED <<brain, invited, keys, job, ghosts>>,
         l = "activate" => job[p].op = "issue" /\ Active(job[p].user),
         l = "markRevoked" => gb[Obj(p)] = "revoked"
  PROVE  IndInv'
<1>0. client' = client /\ gb' = gb
  BY DEF keys
<1>1. CallTypes' /\ Alone(p) /\ pc'[p] = l /\ job'[p] = job[p] /\ Obj(p)' = Obj(p)
  BY GotoStep DEF Label
<1>2. GhostTypes' /\ Grow /\ lost' = lost
  BY TypeParts DEF IndInv, GhostTypes, ghosts, Grow
<1>3. JobInv(p)' /\ (Making(p)' <=> Making(p))
  BY <1>0, <1>1, SameKey DEF KeysKept
<1>4. MakerInv(p)'
  BY <1>1, <1>2, SameMaker
<1>5. \A c \in Owed(p) : c \in Owed(p)'
  BY <1>0, <1>1 DEF Owed, Obj, AtKey
<1>6. \A c \in Clients : job[p].op = "issue" /\ Obj(p) = c /\ job[p].key =>
        job'[p].op = "issue" /\ job'[p].obj = c /\ job'[p].key
  BY <1>1 DEF Obj
<1>7. QED
  BY <1>1, <1>2, <1>3, <1>4, <1>5, <1>6, JobStep

LEMMA RecheckInv ==
  ASSUME IndInv, NEW p \in Calls, Recheck(p)
  PROVE  IndInv'
<1>1. pc[p] = "recheck" /\ UNCHANGED <<brain, invited, keys, job, ghosts>> /\ AtKey(p)
  BY DEF Recheck, AtKey
<1>2. job[p].op = "issue"
  BY <1>1, AtHand
<1>3. CASE Active(job[p].user) /\ Goto(p, "activate")
  BY <1>1, <1>2, <1>3, PlainStep
<1>4. CASE Goto(p, "revoke")
  BY <1>1, <1>4, PlainStep
<1>5. QED
  BY <1>3, <1>4 DEF Recheck

LEMMA ActivateFailsInv ==
  ASSUME IndInv, NEW p \in Calls, ActivateFails(p)
  PROVE  IndInv'
<1>1. AtKey(p) /\ Goto(p, "markOrphan") /\ UNCHANGED <<brain, invited, keys, job, ghosts>>
  BY DEF ActivateFails, AtKey
<1>2. QED
  BY <1>1, PlainStep

LEMMA ActivateInv ==
  ASSUME IndInv, NEW p \in Calls, Activate(p)
  PROVE  IndInv'
<1> PICK c : c = Obj(p)
  OBVIOUS
<1> PICK new : new = [client[c] EXCEPT !.state = "active", !.known = TRUE]
  OBVIOUS
<1>0. /\ pc[p] = "activate" /\ client[c].state = "issuing" /\ Return(p)
      /\ UNCHANGED <<brain, invited, gb, ghosts>>
  BY DEF Activate, Row
<1>1. AtKey(p) /\ client[c] = Row(p)
  BY <1>0 DEF AtKey, Row
<1>2. /\ c \in Clients /\ job[p].op = "issue" /\ Making(p)
      /\ client[c].user = job[p].user /\ (Active(job[p].user) \/ c \in late)
  BY <1>0, <1>1, AtHand DEF MakerInv
<1>3. new \in Client /\ new.user = client[c].user /\ new.state = "active" /\ new.known
  <2>1. new \in Client /\ new.user = client[c].user
    BY <1>0, <1>2, ClientChange
  <2>2. QED
    BY <1>2, <2>1, ClientShape
<1>4. client' = [client EXCEPT ![c] = new]
  BY <1>2, ClientShape DEF Activate, IndInv, TypeOK
<1>5. /\ KeyTypes' /\ gb' = gb /\ client'[c] = new /\ \A d \in Clients \ {c} : RowKept(d)
  BY <1>0, <1>2, <1>3, <1>4 DEF IndInv, TypeOK, KeyTypes, RowKept
<1>6. GhostTypes' /\ Grow
  BY <1>0, TypeParts DEF IndInv, GhostTypes, ghosts, Grow
<1>7. KeysKept /\ RowsSafe(p)
  <2>1. \A d \in Clients \ {c} : RowWorn(d)
    BY <1>5, ClientShape DEF RowKept, RowWorn
  <2>2. QED
    BY <1>2, <1>3, <1>5, <2>1 DEF KeysKept, RowsSafe, RowKept
<1>8. KeyInv(c)'
  <2>1. member' = member /\ late' = late
    BY <1>0 DEF invited, ghosts
  <2>2. QED
    BY <1>2, <1>3, <1>5, <2>1 DEF KeyInv, Named, Covered, Active
<1>9. Owed(p) = {}
  BY <1>2 DEF Owed
<1>10. QED
  BY <1>0, <1>2, <1>5, <1>6, <1>7, <1>8, <1>9, ReturnStep, KeyStep

-----------------------------------------------------------------------------
(* A key is revoked.                                                       *)

\* GBrain revokes the key at hand: nothing can be wrong with it any more.
LEMMA DeadKey ==
  ASSUME IndInv, NEW p \in Calls, AtKey(p), NEW l, Goto(p, l),
         l \in {"markRevoked", "markOrphan"}, gb' = [gb EXCEPT ![Obj(p)] = "revoked"],
         UNCHANGED <<brain, invited, client, job, ghosts>>
  PROVE  IndInv'
<1> PICK c : c = Obj(p)
  OBVIOUS
<1>1. c \in Clients /\ client[c].state # "none"
  BY AtHand DEF Row
<1>2. CallTypes' /\ Alone(p) /\ pc'[p] = l /\ job'[p] = job[p] /\ Obj(p)' = c
  BY GotoStep DEF Label
<1>3. /\ KeyTypes' /\ gb'[c] = "revoked" /\ \A d \in Clients \ {c} : RowKept(d)
  BY <1>1 DEF IndInv, TypeOK, KeyTypes, RowKept
<1>4. GhostTypes' /\ Grow /\ lost' = lost
  BY TypeParts DEF IndInv, GhostTypes, ghosts, Grow
<1>5. KeysKept /\ RowsSafe(p)
  <2>1. \A d \in Clients \ {c} : RowWorn(d)
    BY <1>3, ClientShape DEF RowKept, RowWorn
  <2>2. Making(p) \/ client[c].known
    BY AtHand DEF Row
  <2>3. QED
    BY <1>3, <2>1, <2>2 DEF KeysKept, RowsSafe, RowKept
<1>6. JobInv(p)' /\ AtKey(p)' /\ (Making(p)' <=> Making(p))
  BY <1>2, <1>3, <1>5, SameKey
<1>7. MakerInv(p)'
  BY <1>2, <1>3, <1>6, AtHand DEF MakerInv, Row
<1>8. KeyInv(c)'
  BY <1>1, <1>3 DEF KeyInv, Named, Covered
<1>9. \A d \in Owed(p) : d \in Owed(p)'
  BY <1>2 DEF Owed, Obj, AtKey
<1>10. QED
  BY <1>2, <1>3, <1>4, <1>5, <1>6, <1>7, <1>8, <1>9, KeyStep

LEMMA RevokedInv ==
  ASSUME IndInv, NEW p \in Calls, Revoked(p)
  PROVE  IndInv'
<1>1. AtKey(p) /\ Goto(p, "markRevoked")
  BY DEF Revoked, AtKey
<1>2. QED
  BY <1>1, DeadKey DEF Revoked

LEMMA RevokeFailsInv ==
  ASSUME IndInv, NEW p \in Calls, RevokeFails(p)
  PROVE  IndInv'
<1>1. AtKey(p) /\ Goto(p, "markOrphan") /\ UNCHANGED <<brain, invited, client, job, ghosts>>
  BY DEF RevokeFails, AtKey
<1>2. CASE gb' = gb
  BY <1>1, <1>2, PlainStep DEF keys
<1>3. CASE gb' = [gb EXCEPT ![Obj(p)] = "revoked"]
  BY <1>1, <1>3, DeadKey
<1>4. QED
  BY <1>2, <1>3 DEF RevokeFails

\* A key is done: of what p owes only that key goes.
LEMMA ContinueStep ==
  ASSUME IndInv, NEW p \in Calls, AtKey(p), NEW e \in BOOLEAN, Continue(p, e), KeysKept
  PROVE  /\ CallTypes' /\ Alone(p) /\ JobInv(p)' /\ MakerInv(p)' /\ ~Making(p)'
         /\ \A c \in Owed(p) \ {Obj(p)} : c \in Owed(p)'
<1>1. CASE job[p].op \in {"leave", "archive"}
  <2> PICK new : new = [job[p] EXCEPT !.obj = None, !.key = FALSE, !.err = @ \/ e]
    OBVIOUS
  <2>1. job[p] \in Job /\ pc[p] # "list"
    BY DEF IndInv, TypeOK, AtKey
  <2>2. Goto(p, "next") /\ job' = [job EXCEPT ![p] = new]
    BY <1>1 DEF Continue, IndInv, TypeOK
  <2>3. (job[p].err \/ e) \in BOOLEAN
    BY Zenon
  <2>4. /\ new \in Job /\ new.obj = None /\ new.op = job[p].op /\ new.todo = job[p].todo
    BY <2>1, <2>3 DEF Job
  <2>5. /\ CallTypes' /\ Alone(p) /\ pc'[p] = "next" /\ job'[p] = new
    BY <2>2, <2>4 DEF IndInv, TypeOK, CallTypes, Goto, Alone, Kept, Label
  <2>6. \A c \in job[p].todo : client'[c].known
    BY AtHand, JobShape DEF KeysKept, JobInv
  <2>7. JobInv(p)' /\ MakerInv(p)' /\ ~Making(p)'
    BY <1>1, <2>4, <2>5, <2>6 DEF JobInv, MakerInv, Making, AtKey, Obj
  <2>8. \A c \in Owed(p) \ {Obj(p)} : c \in Owed(p)'
    BY <2>1, <2>4, <2>5 DEF Owed
  <2>9. QED
    BY <2>5, <2>7, <2>8
<1>2. CASE job[p].op \notin {"leave", "archive"}
  <2>1. Return(p) /\ Owed(p) = {}
    BY <1>2 DEF Continue, Owed
  <2>2. QED
    BY <2>1, ReturnStep
<1>3. QED
  BY <1>1, <1>2

\* The row of the key at hand is changed, and the request goes on.
LEMMA MarkStep ==
  ASSUME IndInv, NEW p \in Calls, AtKey(p), NEW e \in BOOLEAN, Continue(p, e),
         UNCHANGED <<brain, invited, gb, ghosts>>, NEW new \in Client,
         client' = [client EXCEPT ![Obj(p)] = new],
         new.state \in {"revoked", "orphan"}, Row(p).known => new.known,
         new.state = "revoked" => gb[Obj(p)] = "revoked",
         gb[Obj(p)] = "live" => new.known \/ Obj(p) \in lost
  PROVE  IndInv'
<1> PICK c : c = Obj(p)
  OBVIOUS
<1>1. c \in Clients /\ client[c] = Row(p) /\ (Making(p) \/ client[c].known)
  BY AtHand DEF Row
<1>2. /\ KeyTypes' /\ gb' = gb /\ client'[c] = new /\ \A d \in Clients \ {c} : RowKept(d)
  BY <1>1 DEF IndInv, TypeOK, KeyTypes, RowKept
<1>3. GhostTypes' /\ Grow /\ lost' = lost
  BY TypeParts DEF IndInv, GhostTypes, ghosts, Grow
<1>4. KeysKept /\ RowsSafe(p)
  <2>1. \A d \in Clients \ {c} : RowWorn(d)
    BY <1>2, ClientShape DEF RowKept, RowWorn
  <2>2. QED
    BY <1>1, <1>2, <2>1 DEF KeysKept, RowsSafe, RowKept
<1>5. KeyInv(c)'
  BY <1>2, <1>3 DEF KeyInv, Named, Covered
<1>6. QED
  BY <1>2, <1>3, <1>4, <1>5, ContinueStep, KeyStep

LEMMA MarkedRevokedInv ==
  ASSUME IndInv, NEW p \in Calls, MarkedRevoked(p)
  PROVE  IndInv'
<1> PICK c : c = Obj(p)
  OBVIOUS
<1> PICK new : new = [client[c] EXCEPT !.state = "revoked"]
  OBVIOUS
<1>1. /\ AtKey(p) /\ Continue(p, FALSE) /\ UNCHANGED <<brain, invited, gb, ghosts>>
      /\ client' = [client EXCEPT ![c] = new] /\ pc[p] = "markRevoked"
  BY DEF MarkedRevoked, AtKey
<1>2. c \in Clients /\ gb[c] = "revoked" /\ client[c] = Row(p) /\ client[c].state # "none"
  BY <1>1, AtHand DEF JobInv, Row
<1>3. new \in Client
  BY <1>2, ClientChange
<1>4. new.state = "revoked" /\ (Row(p).known => new.known)
  BY <1>2, ClientShape
<1>5. QED
  BY <1>1, <1>2, <1>3, <1>4, MarkStep

LEMMA MarkRevokedFailsInv ==
  ASSUME IndInv, NEW p \in Calls, MarkRevokedFails(p)
  PROVE  IndInv'
<1>1. /\ AtKey(p) /\ Continue(p, TRUE) /\ UNCHANGED <<brain, invited, keys, ghosts>>
      /\ pc[p] = "markRevoked" /\ client' = client /\ gb' = gb
  BY DEF MarkRevokedFails, AtKey, keys
<1>2. gb[Obj(p)] = "revoked"
  BY <1>1, AtHand DEF JobInv
<1>3. GhostTypes' /\ Grow /\ KeysKept
  BY <1>1, TypeParts DEF IndInv, GhostTypes, ghosts, Grow, KeysKept
<1>4. QED
  BY <1>1, <1>2, <1>3, ContinueStep, JobStep

LEMMA MarkedOrphanInv ==
  ASSUME IndInv, NEW p \in Calls, MarkedOrphan(p)
  PROVE  IndInv'
<1> PICK c : c = Obj(p)
  OBVIOUS
<1> PICK k \in BOOLEAN : k = (client[c].known \/ job[p].key)
  BY Zenon
<1> PICK new : new = [client[c] EXCEPT !.state = "orphan", !.known = k]
  OBVIOUS
<1>1. /\ AtKey(p) /\ Continue(p, TRUE) /\ UNCHANGED <<brain, invited, gb, ghosts>>
  BY DEF MarkedOrphan, AtKey
<1>2. c \in Clients /\ client[c] = Row(p) /\ client[c].state # "none"
  BY <1>1, AtHand DEF Row
<1>3. client' = [client EXCEPT ![c] = new]
  BY <1>2 DEF MarkedOrphan, IndInv, TypeOK
<1>4. new \in Client
  BY <1>2, ClientChange
<1>5. new.state = "orphan" /\ (new.known <=> client[c].known \/ job[p].key)
  <2>1. new.state = "orphan" /\ new.known = k
    BY <1>2, ClientShape
  <2>2. QED
    BY <2>1, Zenon
<1>6. gb[c] = "live" => new.known \/ c \in lost
  BY <1>1, <1>2, <1>5, AtHand
<1>7. QED
  BY <1>1, <1>2, <1>3, <1>4, <1>5, <1>6, MarkStep

LEMMA MarkOrphanFailsInv ==
  ASSUME IndInv, NEW p \in Calls, MarkOrphanFails(p)
  PROVE  IndInv'
<1>1. /\ AtKey(p) /\ Continue(p, TRUE) /\ UNCHANGED <<brain, invited, keys, late, crossed>>
      /\ lost' = lost \union Unrecorded(p) /\ client' = client /\ gb' = gb
      /\ dropped' = dropped \union (Owed(p) \intersect {Obj(p)})
  BY DEF MarkOrphanFails, AtKey, keys
<1>2. Unrecorded(p) \subseteq Clients /\ Obj(p) \in Clients
  BY <1>1, AtHand DEF Unrecorded
<1>3. GhostTypes' /\ Grow /\ KeysKept
  BY <1>1, <1>2, TypeParts DEF IndInv, GhostTypes, Grow, KeysKept
<1>4. \A c \in Clients : job[p].op = "issue" /\ Obj(p) = c /\ job[p].key /\ gb[c] = "live" =>
        c \in lost'
  BY <1>1, AtHand DEF Unrecorded, Row
<1>5. \A c \in Owed(p) : c \in Owed(p)' \/ c \in dropped'
  BY <1>1, <1>3, ContinueStep
<1>6. QED
  BY <1>1, <1>3, <1>4, <1>5, ContinueStep, JobStep

-----------------------------------------------------------------------------
(* A member is removed, a brain archived.                                  *)

LEMMA LeaveInv ==
  ASSUME IndInv, NEW p \in Calls, Leave(p)
  PROVE  IndInv'
<1> PICK t : t = Obj(p)
  OBVIOUS
<1> PICK new : new = [member[t] EXCEPT !.revoked = TRUE]
  OBVIOUS
<1>0. /\ pc[p] = "leave" /\ Active(t) /\ Goto(p, "list")
      /\ UNCHANGED <<brain, inv, keys, job, lost, dropped>>
      /\ inv' = inv /\ brain' = brain /\ client' = client /\ gb' = gb
      /\ lost' = lost /\ dropped' = dropped
      /\ late' = late \union {c \in Clients : \E q \in Calls :
                                /\ pc[q] = "activate" /\ Obj(q) = c /\ job[q].user = t}
  BY DEF Leave, keys
<1>1. /\ t \in Users /\ job[p].op = "leave" /\ job[p].todo = {}
      /\ job[p].user \in Users \ {t}
  BY <1>0 DEF IndInv, JobInv
<1>2. member' = [member EXCEPT ![t] = new]
  BY <1>1 DEF Leave, IndInv, TypeOK
<1>3. /\ new \in Member /\ new.role = member[t].role /\ new.via = member[t].via /\ new.revoked
  <2>1. member[t] \in [role : Role, revoked : BOOLEAN, via : Invs \union {None}]
    BY <1>0, <1>1 DEF IndInv, TypeOK, Member, Active
  <2>2. QED
    BY <2>1 DEF Member
<1>4. member'[t] = new /\ \A u \in Users \ {t} : member'[u] = member[u]
  BY <1>1, <1>2 DEF IndInv, TypeOK
<1>5. CallTypes' /\ Alone(p) /\ pc'[p] = "list" /\ job'[p] = job[p] /\ Obj(p)' = t
  BY <1>0, GotoStep DEF Label
<1>6. PeopleTypes' /\ KeyTypes'
  BY <1>0, <1>2, <1>3, TypeParts DEF IndInv, PeopleTypes, KeyTypes
<1>7. GhostTypes' /\ Grow
  <2>1. crossed' \in BOOLEAN /\ (crossed => crossed')
    BY Zenon DEF Leave
  <2>2. QED
    BY <1>0, <2>1, TypeParts DEF IndInv, GhostTypes, Grow
<1>8. TypeOK'
  BY <1>5, <1>6, <1>7, TypePartsNext
<1>9. /\ InvsKept /\ KeysKept /\ RowsSafe(p) /\ \A c \in Clients : RowKept(c)
  BY <1>0, ClientShape DEF InvsKept, KeysKept, RowsSafe, RowWorn, RowKept
<1>10. JobInv(p)' /\ MakerInv(p)' /\ ~Making(p)'
  BY <1>1, <1>5 DEF JobInv, MakerInv, Making, AtKey
<1>11. ASSUME NEW q \in Calls \ {p} PROVE JobInv(q)' /\ MakerInv(q)'
  <2>1. job'[q] = job[q]
    BY <1>5 DEF Alone, Kept
  <2>2. ASSUME pc[q] = "activate" PROVE Obj(q) \in Clients /\ job[q].user \in Users
    BY <2>2, AtHand DEF AtKey
  <2>3. StillActive(q)
    BY <1>0, <1>4, <2>1, <2>2 DEF StillActive, Active
  <2>4. QED
    BY <1>5, <1>7, <1>9, <2>3, Others
<1>12. ASSUME NEW c \in Clients PROVE KeyInv(c)'
  <2>1. client[c].state = "active" => client[c].user \in Users
    BY ClientShape
  <2>2. client[c].user = t => c \in Owed(p)'
    BY <1>0, <1>1, <1>5 DEF Owed
  <2>3. client[c].state = "active" /\ Active(client[c].user) =>
          Active(client[c].user)' \/ c \in Owed(p)'
    BY <1>0, <1>4, <2>1, <2>2 DEF Active
  <2>4. c \notin Owed(p)
    BY <1>0, <1>1, DisjointAssumption DEF Owed
  <2>5. QED
    BY <1>1, <1>5, <1>7, <1>9, <2>3, <2>4, OtherKey
<1>13. OneMaker'
  BY <1>5, <1>10, MakersNext
<1>14. \A u \in Users : Via(u)'
  <2>1. \A u \in Users : Via(u)
    BY InvParts
  <2>2. \A u \in Users : member'[u].via = member[u].via /\ member'[u].role = member[u].role
    BY <1>3, <1>4
  <2>3. QED
    BY <1>0, <2>1, <2>2 DEF Via
<1>15. \A i \in Invs : Accepted(i)'
  <2>1. \A i \in Invs : Accepted(i)
    BY InvParts
  <2>2. \A i \in Invs : inv[i].state = "accepted" => member'[inv[i].by].via = member[inv[i].by].via
    BY <1>3, <1>4, InvShape
  <2>3. QED
    BY <1>0, <2>1, <2>2 DEF Accepted
<1>16. SomeOwner'
  <2>1. CASE IsOwner(job[p].user)
    BY <1>0, <1>1, <1>4, <2>1 DEF SomeOwner, IsOwner, IsMember, Active, Found
  <2>2. CASE ~IsOwner(job[p].user)
    BY <2>2, Zenon DEF Leave, SomeOwner
  <2>3. QED
    BY <2>1, <2>2
<1>17. QED
  BY <1>8, <1>10, <1>11, <1>12, <1>13, <1>14, <1>15, <1>16, InvPartsNext

LEMMA ListInv ==
  ASSUME IndInv, NEW p \in Calls, List(p)
  PROVE  IndInv'
<1> PICK keysFound : keysFound =
          {c \in Revocable : job[p].op = "leave" => client[c].user = Obj(p)}
  OBVIOUS
<1> PICK new : new = [job[p] EXCEPT !.obj = None, !.todo = keysFound, !.listed = keysFound]
  OBVIOUS
<1>0. /\ pc[p] = "list" /\ Goto(p, "next") /\ UNCHANGED <<brain, invited, keys, ghosts>>
      /\ client' = client /\ gb' = gb
  BY DEF List, keys
<1>1. job[p].op \in {"leave", "archive"} /\ job[p] \in Job
  BY <1>0 DEF IndInv, JobInv, TypeOK
<1>2. job' = [job EXCEPT ![p] = new]
  BY DEF List, IndInv, TypeOK
<1>3. keysFound \subseteq Clients /\ \A c \in keysFound : client[c].known
  BY DEF Revocable
<1>4. new \in Job /\ new.obj = None /\ new.todo = keysFound /\ new.op = job[p].op
  BY <1>1, <1>3 DEF Job
<1>5. /\ CallTypes' /\ Alone(p) /\ pc'[p] = "next" /\ job'[p] = new
  BY <1>0, <1>2, <1>4 DEF IndInv, TypeOK, CallTypes, Goto, Alone, Kept, Label
<1>6. GhostTypes' /\ Grow
  BY <1>0, TypeParts DEF IndInv, GhostTypes, ghosts, Grow
<1>7. JobInv(p)' /\ MakerInv(p)' /\ ~Making(p)'
  BY <1>0, <1>1, <1>3, <1>4, <1>5 DEF JobInv, MakerInv, Making, AtKey, Obj
<1>8. \A c \in Clients : c \in Owed(p) /\ client[c].state = "active" /\ gb[c] = "live" =>
        c \in Owed(p)'
  <2>1. \A c \in Owed(p) : job[p].op = "leave" /\ client[c].user = Obj(p)
    BY <1>0 DEF Owed
  <2>2. \A c \in Clients : c \in Owed(p) /\ client[c].state = "active" => c \in keysFound
    BY <2>1, ClientShape DEF Revocable
  <2>3. job[p].op = "leave" => Owed(p)' = keysFound \union ({None} \intersect Clients)
    BY <1>4, <1>5 DEF Owed, Obj
  <2>4. QED
    BY <2>1, <2>2, <2>3
<1>9. QED
  BY <1>0, <1>1, <1>5, <1>6, <1>7, <1>8, JobStep

LEMMA PickInv ==
  ASSUME IndInv, NEW p \in Calls, NEW c \in Clients, Pick(p, c)
  PROVE  IndInv'
<1> PICK new : new = [job[p] EXCEPT !.obj = c, !.key = TRUE, !.todo = @ \ {c}]
  OBVIOUS
<1>0. /\ pc[p] = "next" /\ c \in job[p].todo /\ Goto(p, "revoke")
      /\ UNCHANGED <<brain, invited, keys, ghosts>> /\ client' = client /\ gb' = gb
  BY DEF Pick, keys
<1>1. /\ job[p].op \in {"leave", "archive"} /\ job[p] \in Job /\ Obj(p) = None
      /\ \A d \in job[p].todo : client[d].known
  BY <1>0 DEF IndInv, JobInv, TypeOK
<1>2. job' = [job EXCEPT ![p] = new]
  BY DEF Pick, IndInv, TypeOK
<1>3. new \in Job /\ new.obj = c /\ new.todo = job[p].todo \ {c} /\ new.op = job[p].op
  BY <1>1 DEF Job
<1>4. /\ CallTypes' /\ Alone(p) /\ pc'[p] = "revoke" /\ job'[p] = new
  BY <1>0, <1>2, <1>3 DEF IndInv, TypeOK, CallTypes, Goto, Alone, Kept, Label
<1>5. GhostTypes' /\ Grow
  BY <1>0, TypeParts DEF IndInv, GhostTypes, ghosts, Grow
<1>6. JobInv(p)' /\ MakerInv(p)' /\ ~Making(p)'
  BY <1>0, <1>1, <1>3, <1>4 DEF JobInv, MakerInv, Making, AtKey, Obj, Row
<1>7. \A d \in Owed(p) : d \in Owed(p)'
  <2>1. \A d \in Owed(p) : job[p].op = "leave" /\ d \in job[p].todo
    BY <1>0, <1>1, DisjointAssumption DEF Owed
  <2>2. job[p].op = "leave" => Owed(p)' = (job[p].todo \ {c}) \union ({c} \intersect Clients)
    BY <1>3, <1>4 DEF Owed, Obj
  <2>3. QED
    BY <2>1, <2>2
<1>8. QED
  BY <1>0, <1>1, <1>4, <1>5, <1>6, <1>7, JobStep

LEMMA LoopDoneInv ==
  ASSUME IndInv, NEW p \in Calls, LoopDone(p)
  PROVE  IndInv'
<1>0. pc[p] = "next" /\ job[p].todo = {} /\ UNCHANGED <<brain, invited, keys, ghosts>>
  BY DEF LoopDone
<1>1. /\ job[p].op \in {"leave", "archive"} /\ Obj(p) = None
  BY <1>0 DEF IndInv, JobInv
<1>2. Owed(p) = {}
  BY <1>0, <1>1, DisjointAssumption DEF Owed
<1>3. GhostTypes' /\ Grow
  BY <1>0, TypeParts DEF IndInv, GhostTypes, ghosts, Grow
<1>4. CASE Return(p)
  BY <1>0, <1>1, <1>2, <1>3, <1>4, ReturnStep, JobStep
<1>5. CASE job[p].op = "archive" /\ Goto(p, "archive") /\ UNCHANGED job
  <2>1. CallTypes' /\ Alone(p) /\ pc'[p] = "archive" /\ job'[p] = job[p]
    BY <1>5, GotoStep DEF Label
  <2>2. JobInv(p)' /\ MakerInv(p)' /\ ~Making(p)'
    BY <1>0, <1>5, <2>1 DEF JobInv, MakerInv, Making, AtKey
  <2>3. QED
    BY <1>0, <1>1, <1>2, <1>3, <2>1, <2>2, JobStep
<1>6. QED
  BY <1>4, <1>5, Zenon DEF LoopDone

LEMMA ArchiveInv ==
  ASSUME IndInv, NEW p \in Calls, Archive(p)
  PROVE  IndInv'
<1>0. /\ pc[p] = "archive" /\ brain' = "archived" /\ Return(p) /\ member' = member
      /\ UNCHANGED <<keys, ghosts>>
      /\ inv' = [i \in Invs |-> IF inv[i].state = "pending"
                                THEN [inv[i] EXCEPT !.state = "revoked"] ELSE inv[i]]
  BY DEF Archive
<1>1. \A i \in Invs : inv[i].state = "pending" =>
        inv'[i] \in Inv /\ inv'[i].email = inv[i].email /\ inv'[i].state = "revoked"
  <2>1. ASSUME NEW i \in Invs, inv[i].state = "pending",
               NEW new, new = [inv[i] EXCEPT !.state = "revoked"]
        PROVE  new \in Inv /\ new.email = inv[i].email /\ new.state = "revoked"
    <3>1. new \in Inv /\ new.email = inv[i].email
      BY <2>1, FounderAssumption, InvChange
    <3>2. QED
      BY <2>1, <3>1, InvShape
  <2>2. QED
    BY <1>0, <2>1
<1>2. \A i \in Invs : inv[i].state # "pending" => inv'[i] = inv[i]
  BY <1>0
<1>3. PeopleTypes' /\ InvsKept
  <2>1. \A i \in Invs : inv'[i] \in Inv
    BY <1>1, <1>2 DEF IndInv, TypeOK
  <2>2. inv' \in [Invs -> Inv]
    BY <1>0, <2>1
  <2>3. QED
    BY <1>0, <1>1, <1>2, <2>2, TypeParts DEF IndInv, PeopleTypes, InvsKept
<1>4. \A u \in Users : Via(u)'
  <2>1. \A u \in Users : Via(u) /\ member[u].via \in Invs \union {None}
    BY InvParts, MemberShape
  <2>2. \A u \in Users : member[u].via # None => inv'[member[u].via] = inv[member[u].via]
    BY <1>2, <2>1 DEF Via
  <2>3. QED
    BY <1>0, <2>1, <2>2 DEF Via
<1>5. \A i \in Invs : Accepted(i)'
  <2>1. \A i \in Invs : Accepted(i)
    BY InvParts
  <2>2. QED
    BY <1>0, <1>1, <1>2, <2>1 DEF Accepted
<1>6. SomeOwner' /\ \A u \in Users : Active(u) => Active(u)'
  BY <1>0 DEF SomeOwner, Found, Active
<1>7. QED
  BY <1>0, <1>3, <1>4, <1>5, <1>6, PeopleStep

LEMMA DeleteInv ==
  ASSUME IndInv, NEW p \in Calls, Delete(p)
  PROVE  IndInv'
<1>0. /\ pc[p] = "archive" /\ brain' = "deleted" /\ Return(p)
      /\ gb' = gb /\ late' = late /\ dropped' = dropped /\ crossed' = crossed
      /\ member' = [u \in Users |-> NoMember]
      /\ inv' = [i \in Invs |-> IF inv[i].state = "none" THEN NoInv
                                ELSE [inv[i] EXCEPT !.state = "deleted"]]
      /\ client' = [c \in Clients |-> IF client[c].state = "none" THEN NoClient
                                      ELSE [client[c] EXCEPT !.state = "deleted"]]
      /\ lost' = lost \union {c \in Clients : gb[c] = "live"}
  BY DEF Delete
<1>1. CallTypes' /\ Alone(p) /\ JobInv(p)' /\ MakerInv(p)' /\ ~Making(p)'
  BY <1>0, ReturnStep
<1>2. \A i \in Invs : /\ inv'[i] \in Inv /\ inv'[i].email = inv[i].email
                      /\ inv[i].state = "none" => inv'[i].state = "none"
                      /\ inv[i].state # "none" => inv'[i].state = "deleted"
  <2>1. ASSUME NEW i \in Invs, inv[i].state # "none",
               NEW new, new = [inv[i] EXCEPT !.state = "deleted"]
        PROVE  new \in Inv /\ new.email = inv[i].email /\ new.state = "deleted"
    <3>1. new \in Inv /\ new.email = inv[i].email
      BY <2>1, FounderAssumption, InvChange
    <3>2. QED
      BY <2>1, <3>1, InvShape
  <2>2. ASSUME NEW i \in Invs, inv[i].state = "none" PROVE inv'[i] = inv[i] /\ inv[i] \in Inv
    BY <1>0, <2>2, InvShape DEF IndInv, TypeOK
  <2>3. QED
    BY <1>0, <2>1, <2>2
<1>3. \A c \in Clients : /\ client'[c] \in Client /\ client'[c].user = client[c].user
                         /\ client'[c].known = client[c].known
                         /\ client[c].state = "none" => client'[c].state = "none"
                         /\ client[c].state # "none" => client'[c].state = "deleted"
  <2>1. ASSUME NEW c \in Clients, client[c].state # "none",
               NEW new, new = [client[c] EXCEPT !.state = "deleted"]
        PROVE  /\ new \in Client /\ new.user = client[c].user /\ new.known = client[c].known
               /\ new.state = "deleted"
    <3>1. new \in Client /\ new.user = client[c].user
      BY <2>1, ClientChange
    <3>2. QED
      BY <2>1, <3>1, ClientShape
  <2>2. ASSUME NEW c \in Clients, client[c].state = "none"
        PROVE  client'[c] = client[c] /\ client[c] \in Client
    BY <1>0, <2>2, ClientShape DEF IndInv, TypeOK
  <2>3. QED
    BY <1>0, <2>1, <2>2
<1>4. PeopleTypes' /\ InvsKept
  <2>1. inv' \in [Invs -> Inv] /\ member' \in [Users -> Member]
    BY <1>0, <1>2 DEF Member
  <2>2. QED
    BY <1>0, <1>2, <2>1 DEF PeopleTypes, InvsKept
<1>5. KeyTypes' /\ KeysKept
  <2>1. client' \in [Clients -> Client]
    BY <1>0, <1>3
  <2>2. QED
    BY <1>0, <1>3, <2>1 DEF IndInv, TypeOK, KeyTypes, KeysKept
<1>6. GhostTypes' /\ Grow
  BY <1>0, TypeParts DEF IndInv, GhostTypes, Grow
<1>7. TypeOK'
  BY <1>1, <1>4, <1>5, <1>6, TypePartsNext
<1>8. RowsSafe(p)
  <2>1. \A c \in Clients : RowWorn(c)
    BY <1>0, <1>3, ClientShape DEF RowWorn
  <2>2. QED
    BY <2>1 DEF RowsSafe
<1>9. ASSUME NEW q \in Calls \ {p} PROVE JobInv(q)' /\ MakerInv(q)'
  <2>1. StillActive(q)
    BY <1>3, AtHand DEF StillActive, AtKey, Row
  <2>2. QED
    BY <1>1, <1>4, <1>5, <1>6, <1>8, <2>1, Others
<1>10. ASSUME NEW c \in Clients PROVE KeyInv(c)'
  <2>1. client[c].state = "none" => gb[c] = "unused"
    BY InvParts DEF KeyInv
  <2>2. QED
    BY <1>0, <1>3, <2>1, ClientShape DEF KeyInv, Named, Covered
<1>11. OneMaker'
  BY <1>1, MakersNext
<1>12. \A u \in Users : Via(u)'
  BY <1>0 DEF Via, NoMember
<1>13. \A i \in Invs : Accepted(i)'
  BY <1>2, InvShape DEF Accepted
<1>14. SomeOwner'
  BY <1>0 DEF SomeOwner, Found
<1>15. QED
  BY <1>1, <1>7, <1>9, <1>10, <1>11, <1>12, <1>13, <1>14, InvPartsNext

LEMMA FailsInv ==
  ASSUME IndInv, NEW p \in Calls, Fails(p)
  PROVE  IndInv'
<1>0. /\ pc[p] \in {"insert", "withdraw", "join", "issue", "leave", "list", "archive"}
      /\ dropped' = dropped \union (IF pc[p] = "list" THEN Owed(p) ELSE {})
      /\ Return(p) /\ UNCHANGED <<brain, invited, keys, lost, late, crossed>>
  BY DEF Fails
<1>1. CallTypes' /\ Alone(p) /\ JobInv(p)' /\ MakerInv(p)' /\ ~Making(p)'
  BY <1>0, ReturnStep
<1>2. pc[p] = "list" => Owed(p) \subseteq Clients
  BY DEF Owed
<1>3. GhostTypes' /\ Grow
  BY <1>0, <1>2, TypeParts DEF IndInv, GhostTypes, Grow
<1>4. \A c \in Owed(p) : c \in dropped'
  BY <1>0, DisjointAssumption DEF IndInv, JobInv, Owed
<1>5. job[p].op = "issue" => Obj(p) \notin Clients
  BY <1>0, DisjointAssumption DEF IndInv, JobInv
<1>6. QED
  BY <1>0, <1>1, <1>3, <1>4, <1>5, JobStep

-----------------------------------------------------------------------------
(* Steps of no request, and the restart.                                   *)

LEMMA StandStill ==
  ASSUME IndInv, UNCHANGED <<pc, job, keys, ghosts, member>>, PeopleTypes', InvsKept,
         \A u \in Users : Via(u)', \A i \in Invs : Accepted(i)', SomeOwner'
  PROVE  IndInv'
<1>1. client' = client /\ gb' = gb /\ Grow /\ lost' = lost /\ late' = late /\ dropped' = dropped
  BY DEF keys, ghosts, Grow
<1>2. TypeOK'
  BY TypeParts, TypePartsNext
    DEF IndInv, CallTypes, KeyTypes, GhostTypes, keys, ghosts
<1>3. ASSUME NEW q \in Calls PROVE JobInv(q)' /\ MakerInv(q)'
  <2>1. Kept(q) /\ KeysKept /\ StillActive(q)
    BY <1>1 DEF Kept, KeysKept, StillActive, Active
  <2>2. Making(q) => RowWorn(Obj(q))
    BY <1>1 DEF RowWorn
  <2>3. QED
    BY <1>1, <2>1, <2>2, OtherJob, OtherMaker
<1>4. OneMaker'
  BY DEF IndInv, OneMaker, AtKey, Obj
<1>5. ASSUME NEW c \in Clients PROVE KeyInv(c)'
  <2>1. KeyInv(c)
    BY InvParts
  <2>2. \A q \in Calls : Owed(q)' = Owed(q) /\ Obj(q)' = Obj(q) /\ job'[q] = job[q]
    BY <1>1 DEF Owed, Obj
  <2>3. Named(c)' /\ Covered(c)'
    BY <1>1, <2>1, <2>2 DEF KeyInv, Named, Covered, Active
  <2>4. QED
    BY <1>1, <2>1, <2>3 DEF KeyInv
<1>6. QED
  BY <1>2, <1>3, <1>4, <1>5, InvPartsNext

LEMMA SettleInv ==
  ASSUME IndInv, Settle
  PROVE  IndInv'
<1>1. /\ brain = "provisioning" /\ brain' \in {"live", "failed"}
      /\ UNCHANGED <<pc, job, keys, ghosts, member>> /\ inv' = inv
  BY DEF Settle, invited
<1>2. PeopleTypes' /\ InvsKept
  BY <1>1, TypeParts DEF IndInv, PeopleTypes, InvsKept
<1>3. (\A u \in Users : Via(u)') /\ \A i \in Invs : Accepted(i)'
  BY <1>1, InvParts DEF Via, Accepted
<1>4. SomeOwner'
  BY <1>1 DEF IndInv, SomeOwner, Found, IsOwner, IsMember, Active, ghosts
<1>5. QED
  BY <1>1, <1>2, <1>3, <1>4, StandStill

LEMMA ExpireInv ==
  ASSUME IndInv, NEW i \in Invs, Expire(i)
  PROVE  IndInv'
<1> PICK new : new = [inv[i] EXCEPT !.fresh = FALSE]
  OBVIOUS
<1>1. /\ inv[i].state = "pending" /\ brain' = brain /\ member' = member
      /\ UNCHANGED <<pc, job, keys, ghosts>>
  BY DEF Expire
<1>2. inv' = [inv EXCEPT ![i] = new]
  BY DEF Expire, IndInv, TypeOK
<1>3. new \in Inv /\ new.email = inv[i].email /\ new.state = "pending"
  <2>1. new \in Inv /\ new.email = inv[i].email
    BY <1>1, FounderAssumption, InvChange
  <2>2. QED
    BY <1>1, <2>1, InvShape
<1>4. (\A j \in Invs \ {i} : inv'[j] = inv[j]) /\ inv'[i] = new
  BY <1>2 DEF IndInv, TypeOK
<1>5. PeopleTypes' /\ InvsKept
  BY <1>1, <1>2, <1>3, <1>4, TypeParts DEF IndInv, PeopleTypes, InvsKept
<1>6. \A u \in Users : Via(u)'
  <2>1. \A u \in Users : Via(u) /\ member[u].via \in Invs \union {None}
    BY InvParts, MemberShape
  <2>2. \A u \in Users : member[u].via # i
    BY <1>1, <2>1, DisjointAssumption DEF Via
  <2>3. QED
    BY <1>1, <1>4, <2>1, <2>2 DEF Via
<1>7. \A j \in Invs : Accepted(j)'
  <2>1. \A j \in Invs : Accepted(j)
    BY InvParts
  <2>2. QED
    BY <1>1, <1>3, <1>4, <2>1 DEF Accepted
<1>8. SomeOwner'
  BY <1>1 DEF IndInv, SomeOwner, Found, IsOwner, IsMember, Active, ghosts
<1>9. QED
  BY <1>1, <1>5, <1>6, <1>7, <1>8, StandStill

LEMMA RestartInv ==
  ASSUME IndInv, Restart
  PROVE  IndInv'
<1>0. /\ UNCHANGED <<brain, invited>> /\ client' = client /\ gb' = gb
      /\ late' = late /\ crossed' = crossed
      /\ pc' = [p \in Calls |-> "idle"] /\ job' = [p \in Calls |-> NoJob]
      /\ lost' = lost \union UNION {Unrecorded(p) : p \in Calls}
      /\ dropped' = dropped \union UNION {Owed(p) : p \in {q \in Calls : pc[q] # "leave"}}
  BY DEF Restart, keys
<1>1. \A p \in Calls : Unrecorded(p) \subseteq lost' /\ Unrecorded(p) \subseteq Clients
  BY <1>0, Zenon DEF Unrecorded
<1>2. \A p \in Calls : Owed(p) \subseteq Clients
  BY JobShape, Zenon DEF Owed
<1>3. \A p \in Calls : pc[p] # "leave" => Owed(p) \subseteq dropped'
  BY <1>0, Zenon
<1>4. Grow /\ lost' \subseteq Clients /\ dropped' \subseteq Clients
  <2>1. lost \subseteq Clients /\ dropped \subseteq Clients
    BY DEF IndInv, TypeOK
  <2>2. UNION {Unrecorded(p) : p \in Calls} \subseteq Clients
    BY <1>1, Zenon
  <2>3. UNION {Owed(p) : p \in {q \in Calls : pc[q] # "leave"}} \subseteq Clients
    BY <1>2, Zenon
  <2>4. QED
    BY <1>0, <2>1, <2>2, <2>3 DEF Grow
<1>5. TypeOK'
  <2>1. CallTypes'
    BY <1>0, NoJobType DEF CallTypes, Label
  <2>2. KeyTypes' /\ GhostTypes'
    BY <1>0, <1>4, TypeParts DEF IndInv, KeyTypes, GhostTypes
  <2>3. QED
    BY <1>0, <2>1, <2>2, PeopleKept, TypePartsNext
<1>6. ASSUME NEW p \in Calls PROVE JobInv(p)' /\ MakerInv(p)' /\ ~AtKey(p)'
  BY <1>0, NoJobType DEF JobInv, MakerInv, AtKey
<1>7. OneMaker'
  BY <1>6 DEF OneMaker
<1>8. ASSUME NEW c \in Clients PROVE KeyInv(c)'
  <2>1. KeyInv(c)
    BY InvParts
  <2>2. Named(c)'
    <3>1. CASE \/ gb[c] # "live" \/ c \in lost
               \/ client[c].known /\ client[c].state \in {"active", "orphan"}
      BY <1>0, <1>4, <3>1 DEF Named, Grow
    <3>2. ASSUME gb[c] = "live", NEW q \in Calls, job[q].op = "issue", Obj(q) = c, job[q].key
          PROVE  Named(c)'
      <4>1. AtKey(q)
        BY <3>2, JobShape, NoJobType, DisjointAssumption DEF IndInv, JobInv, AtKey, Label
      <4>2. c \in Unrecorded(q)
        BY <3>2, <4>1, AtHand DEF Unrecorded, Row
      <4>3. QED
        BY <1>1, <4>2 DEF Named
    <3>3. QED
      BY <2>1, <3>1, <3>2 DEF KeyInv, Named
  <2>3. Covered(c)'
    <3>1. \A q \in Calls : pc[q] = "leave" => Owed(q) = {}
      BY DisjointAssumption DEF IndInv, JobInv, Owed
    <3>2. \A q \in Calls : c \in Owed(q) => c \in dropped'
      BY <1>3, <3>1
    <3>3. QED
      BY <1>0, <1>4, <2>1, <3>2 DEF KeyInv, Covered, Grow, Active, invited
  <2>4. QED
    BY <1>0, <2>1, <2>2, <2>3 DEF KeyInv
<1>9. QED
  BY <1>0, <1>5, <1>6, <1>7, <1>8, PeopleKept, InvPartsNext

-----------------------------------------------------------------------------
(* The theorems.                                                           *)

LEMMA InitInv == Init => IndInv
<1> SUFFICES ASSUME Init PROVE IndInv
  OBVIOUS
<1>1. TypeOK
  <2>1. \A u \in Users : member[u] \in Member
    BY DEF Init, Member, Role
  <2>2. member \in [Users -> Member]
    BY <2>1 DEF Init
  <2>3. CallTypes /\ KeyTypes /\ GhostTypes
    BY NoJobType DEF Init, CallTypes, KeyTypes, GhostTypes, Label, Client
  <2>4. PeopleTypes
    BY <2>2 DEF Init, PeopleTypes, Inv
  <2>5. QED
    BY <2>3, <2>4, TypeParts
<1>2. \A p \in Calls : JobInv(p) /\ MakerInv(p) /\ ~AtKey(p)
  BY NoJobType DEF Init, JobInv, MakerInv, AtKey
<1>3. OneMaker
  BY <1>2 DEF OneMaker
<1>4. \A c \in Clients : KeyInv(c)
  BY DEF Init, KeyInv, Named, Covered, NoClient
<1>5. (\A u \in Users : Via(u)) /\ \A i \in Invs : Accepted(i)
  BY DEF Init, Via, Accepted, NoMember, NoInv
<1>6. SomeOwner
  <2>1. member[Founder] = [role |-> "owner", revoked |-> FALSE, via |-> None]
    BY FounderAssumption DEF Init
  <2>2. QED
    BY <2>1, FounderAssumption DEF Init, SomeOwner, IsOwner, IsMember, Found, Active, NoMember
<1>7. QED
  BY <1>1, <1>2, <1>3, <1>4, <1>5, <1>6, InvParts

LEMMA NextInv == IndInv /\ [Next]_vars => IndInv'
<1> SUFFICES ASSUME IndInv, [Next]_vars PROVE IndInv'
  OBVIOUS
<1>1. CASE UNCHANGED vars
  <2>1. /\ UNCHANGED <<brain, invited>> /\ crossed' = crossed
        /\ UNCHANGED <<pc, job, keys, ghosts, member>>
    BY <1>1 DEF vars, invited, keys, ghosts
  <2>2. QED
    BY <2>1, PeopleKept, StandStill
<1>2. CASE Settle
  BY <1>2, SettleInv
<1>3. ASSUME NEW i \in Invs, Expire(i) PROVE IndInv'
  BY <1>3, ExpireInv
<1>4. ASSUME NEW p \in Calls, Handler(p) PROVE IndInv'
  BY <1>4, BeginInviteInv, BeginIssueInv, BeginArchiveInv, BeginWithdrawInv, BeginAcceptInv,
     BeginRevokeInv, BeginLeaveInv DEF Handler
<1>5. ASSUME NEW p \in Calls, Invitation(p) PROVE IndInv'
  BY <1>5, InviteInv, WithdrawInv, JoinInv DEF Invitation
<1>6. ASSUME NEW p \in Calls, Issue(p) PROVE IndInv'
  BY <1>6, IssueRowInv, RegisteredInv, RegisterFailsInv, RecheckInv, ActivateInv,
     ActivateFailsInv DEF Issue
<1>7. ASSUME NEW p \in Calls, Revoke(p) PROVE IndInv'
  BY <1>7, RevokedInv, RevokeFailsInv, MarkedRevokedInv, MarkRevokedFailsInv,
     MarkedOrphanInv, MarkOrphanFailsInv DEF Revoke
<1>8. ASSUME NEW p \in Calls, Remove(p) PROVE IndInv'
  BY <1>8, LeaveInv, ListInv, LoopDoneInv, ArchiveInv, DeleteInv, PickInv DEF Remove
<1>9. ASSUME NEW p \in Calls, Fails(p) PROVE IndInv'
  BY <1>9, FailsInv
<1>10. CASE Restart
  BY <1>10, RestartInv
<1>11. QED
  BY <1>1, <1>2, <1>3, <1>4, <1>5, <1>6, <1>7, <1>8, <1>9, <1>10 DEF Next

\* The inductive invariant holds of every behaviour.
THEOREM Safety == Spec => []IndInv
  BY InitInv, NextInv, PTL DEF Spec

\* Types: every reachable state is one of the declared ones.
THEOREM TypeCorrect == Spec => []TypeOK
  BY Safety, PTL DEF IndInv

\* An invitation makes one membership, its addressee's, with its role.
THEOREM InvitationsLetInOne == Spec => []OneMemberPerInvitation
  BY Safety, PTL DEF IndInv

\* A brain that can be found has an owner, but for the removal by one who has
\* meanwhile lost the right.
THEOREM BrainsKeepAnOwner == Spec => []SomeOwner
  BY Safety, PTL DEF IndInv

\* A key recorded as revoked is one GBrain refuses.
THEOREM RevocationIsTrue == Spec => []RevokedKeysAreDead
  BY Safety, PTL DEF IndInv

\* A key GBrain accepts is named by a row, held by its maker, or lost by a
\* failure.
THEOREM KeysAreNamed == Spec => []EveryKeyNamed
  BY Safety, PTL DEF IndInv

\* A removed member's active key is about to be revoked, or its revocation
\* failed, or it was being activated at the very moment.
THEOREM RemovalReachesKeys == Spec => []RemovedMembersKeys
  BY Safety, PTL DEF IndInv

\* The steps that touch invitations and memberships; no other does.
LEMMA PeopleActions ==
  ASSUME Next
  PROVE  \/ inv' = inv /\ member' = member
         \/ \E i \in Invs : Expire(i)
         \/ \E p \in Calls : \/ \E i \in Invs, o \in Offers : Invite(p, i, o)
                             \/ Withdraw(p) \/ Join(p) \/ Leave(p) \/ Archive(p) \/ Delete(p)
<1>1. ASSUME NEW p \in Calls, Handler(p) PROVE inv' = inv /\ member' = member
  BY <1>1 DEF Handler, BeginInvite, BeginIssue, BeginArchive, BeginWithdraw, BeginAccept,
     BeginRevoke, BeginLeave, invited
<1>2. ASSUME NEW p \in Calls, Issue(p) PROVE inv' = inv /\ member' = member
  BY <1>2 DEF Issue, IssueRow, Registered, RegisterFails, Recheck, Activate, ActivateFails,
     invited
<1>3. ASSUME NEW p \in Calls, Revoke(p) PROVE inv' = inv /\ member' = member
  BY <1>3 DEF Revoke, Revoked, RevokeFails, MarkedRevoked, MarkRevokedFails, MarkedOrphan,
     MarkOrphanFails, invited
<1>4. ASSUME NEW p \in Calls, NEW c \in Clients, Pick(p, c) PROVE inv' = inv /\ member' = member
  BY <1>4 DEF Pick, invited
<1>5. ASSUME NEW p \in Calls, List(p) \/ LoopDone(p) \/ Fails(p)
      PROVE  inv' = inv /\ member' = member
  BY <1>5 DEF List, LoopDone, Fails, invited
<1>6. Settle \/ Restart => inv' = inv /\ member' = member
  BY DEF Settle, Restart, invited
<1>7. QED
  BY <1>1, <1>2, <1>3, <1>4, <1>5, <1>6 DEF Next, Invitation, Remove

\* An answered invitation keeps its answer, until its brain is deleted.
THEOREM AnswersStand == Spec => InvitationAnsweredOnce
<1> DEFINE Stands(i) == inv[i].state \in {"accepted", "revoked"} =>
                          inv'[i].state \in {inv[i].state, "deleted"}
<1>1. IndInv /\ [Next]_vars => [\A i \in Invs : Stands(i)]_vars
  <2> SUFFICES ASSUME IndInv, Next, NEW i \in Invs PROVE Stands(i)
    BY DEF vars
  <2>1. ASSUME NEW j \in Invs, Expire(j) PROVE Stands(i)
    BY <2>1, InvShape DEF Expire, IndInv, TypeOK
  <2>2. ASSUME NEW p \in Calls, NEW j \in Invs, NEW o \in Offers, Invite(p, j, o)
        PROVE  Stands(i)
    BY <2>2 DEF Invite, IndInv, TypeOK
  <2>3. ASSUME NEW p \in Calls, Withdraw(p) PROVE Stands(i)
    BY <2>3 DEF Withdraw, IndInv, TypeOK
  <2>4. ASSUME NEW p \in Calls, Join(p) PROVE Stands(i)
    BY <2>4 DEF Join, Joined, IndInv, TypeOK
  <2>5. ASSUME NEW p \in Calls, Leave(p) PROVE Stands(i)
    BY <2>5 DEF Leave
  <2>6. ASSUME NEW p \in Calls, Archive(p) PROVE Stands(i)
    BY <2>6 DEF Archive
  <2>7. ASSUME NEW p \in Calls, Delete(p) PROVE Stands(i)
    <3>1. inv[i].state # "none" => inv'[i] = [inv[i] EXCEPT !.state = "deleted"]
      BY <2>7 DEF Delete
    <3>2. QED
      BY <3>1, InvShape
  <2>8. QED
    BY <2>1, <2>2, <2>3, <2>4, <2>5, <2>6, <2>7, PeopleActions
<1>2. QED
  BY <1>1, Safety, PTL DEF Spec, InvitationAnsweredOnce

\* Whoever was removed from a brain stays removed, until the brain is deleted.
THEOREM RemovalIsFinal == Spec => RemovedForGood
<1> DEFINE Gone(u) == member[u].revoked => member'[u].revoked \/ brain' = "deleted"
<1>1. IndInv /\ [Next]_vars => [\A u \in Users : Gone(u)]_vars
  <2> SUFFICES ASSUME IndInv, Next, NEW u \in Users PROVE Gone(u)
    BY DEF vars
  <2>1. ASSUME NEW j \in Invs, Expire(j) PROVE Gone(u)
    BY <2>1 DEF Expire
  <2>2. ASSUME NEW p \in Calls, NEW j \in Invs, NEW o \in Offers, Invite(p, j, o)
        PROVE  Gone(u)
    BY <2>2 DEF Invite
  <2>3. ASSUME NEW p \in Calls, Withdraw(p) PROVE Gone(u)
    BY <2>3 DEF Withdraw
  <2>4. ASSUME NEW p \in Calls, Join(p) PROVE Gone(u)
    BY <2>4 DEF Join, Joined, NoMember, IndInv, TypeOK
  <2>5. ASSUME NEW p \in Calls, Leave(p) PROVE Gone(u)
    <3> PICK t : t = Obj(p)
      OBVIOUS
    <3>1. t \in Users /\ member' = [member EXCEPT ![t].revoked = TRUE]
      BY <2>5 DEF Leave, IndInv, JobInv
    <3>2. u # t => member'[u] = member[u]
      BY <3>1 DEF IndInv, TypeOK
    <3>3. u = t => member'[u] = [member[u] EXCEPT !.revoked = TRUE]
      BY <3>1 DEF IndInv, TypeOK
    <3>4. QED
      BY <3>2, <3>3, MemberShape
  <2>6. ASSUME NEW p \in Calls, Archive(p) PROVE Gone(u)
    BY <2>6 DEF Archive
  <2>7. ASSUME NEW p \in Calls, Delete(p) PROVE Gone(u)
    BY <2>7 DEF Delete
  <2>8. QED
    BY <2>1, <2>2, <2>3, <2>4, <2>5, <2>6, <2>7, PeopleActions
<1>2. QED
  BY <1>1, Safety, PTL DEF Spec, RemovedForGood
-----------------------------------------------------------------------------
(* The refinement of KeyRing.                                              *)

\* KeyState without the case that EveryKeyNamed excludes.
Phase(c) ==
  IF gb[c] = "unused" THEN "unmade"
  ELSE IF gb[c] = "revoked" THEN "dead"
  ELSE IF c \in lost THEN "lost"
  ELSE IF RowNames(c) THEN "named" ELSE "held"

RingNow == [c \in Clients |-> KeyState(c)]

\* A step of KeyRing, or one that it does not see.
RingStep == Ring!Next \/ RingNow' = RingNow

LEMMA PhaseNow == IndInv => \A c \in Clients : KeyState(c) = Phase(c)
<1> SUFFICES ASSUME IndInv, NEW c \in Clients PROVE KeyState(c) = Phase(c)
  OBVIOUS
<1>1. gb[c] \in {"unused", "live", "revoked"}
  BY DEF IndInv, TypeOK
<1>2. gb[c] = "live" => c \in lost \/ RowNames(c) \/ InHand(c)
  BY DEF IndInv, EveryKeyNamed
<1>3. QED
  BY <1>1, <1>2 DEF KeyState, Phase

LEMMA PhaseNext == IndInv' => \A c \in Clients : KeyState(c)' = Phase(c)'
<1> SUFFICES ASSUME IndInv', NEW c \in Clients PROVE KeyState(c)' = Phase(c)'
  OBVIOUS
<1>1. gb'[c] \in {"unused", "live", "revoked"}
  BY DEF IndInv, TypeOK
<1>2. gb'[c] = "live" => c \in lost' \/ RowNames(c)' \/ InHand(c)'
  BY DEF IndInv, EveryKeyNamed
<1>3. QED
  BY <1>1, <1>2 DEF KeyState, Phase

\* The steps of KeyRing, in terms of Phase.
LEMMA OneMoves ==
  ASSUME IndInv, IndInv', NEW c \in Clients,
         \A d \in Clients \ {c} : Phase(d)' = Phase(d),
         \/ Phase(c)' = Phase(c)
         \/ Phase(c) = "unmade" /\ Phase(c)' \in {"held", "lost"}
         \/ Phase(c) = "held" /\ Phase(c)' = "named"
         \/ Phase(c) \in {"held", "named", "lost"} /\ Phase(c)' = "dead"
  PROVE  RingStep
<1> PICK a, b : a = Phase(c) /\ b = Phase(c)'
  OBVIOUS
<1>1. RingNow' = [RingNow EXCEPT ![c] = b]
  BY PhaseNow, PhaseNext DEF RingNow
<1>2. RingNow[c] = a
  BY PhaseNow DEF RingNow
<1>3. CASE a = b
  BY <1>1, <1>2, <1>3 DEF RingStep, RingNow
<1>4. CASE a = "unmade" /\ b \in {"held", "lost"}
  <2>1. Ring!Make(c) \/ Ring!Stray(c)
    BY <1>1, <1>2, <1>4 DEF Ring!Make, Ring!Stray, Ring!Move, RingNow
  <2>2. QED
    BY <2>1 DEF Ring!Next, RingStep
<1>5. CASE a = "held" /\ b = "named"
  <2>1. Ring!Name(c)
    BY <1>1, <1>2, <1>5 DEF Ring!Name, Ring!Move, RingNow
  <2>2. QED
    BY <2>1 DEF Ring!Next, RingStep
<1>6. CASE a \in {"held", "named", "lost"} /\ b = "dead"
  <2>1. Ring!Revoke(c)
    BY <1>1, <1>2, <1>6 DEF Ring!Revoke, Ring!Move, RingNow
  <2>2. QED
    BY <2>1 DEF Ring!Next, RingStep
<1>7. QED
  BY <1>3, <1>4, <1>5, <1>6

LEMMA SomeAreLost ==
  ASSUME IndInv, IndInv', NEW S \in SUBSET Clients,
         \A c \in S : Phase(c) \in {"held", "named"} /\ Phase(c)' = "lost",
         \A c \in Clients \ S : Phase(c)' = Phase(c)
  PROVE  RingStep
<1>1. RingNow' = [c \in Clients |-> IF c \in S THEN "lost" ELSE RingNow[c]]
  BY PhaseNow, PhaseNext DEF RingNow
<1>2. \A c \in S : RingNow[c] \in {"held", "named"}
  BY PhaseNow DEF RingNow
<1>3. Ring!Lose(S)
  BY <1>1, <1>2 DEF Ring!Lose, RingNow
<1>4. QED
  BY <1>3 DEF Ring!Next, RingStep

\* A key a step does not touch.
Untouched(c) ==
  client'[c] = client[c] /\ gb'[c] = gb[c] /\ (c \in lost' <=> c \in lost)

LEMMA UntouchedPhase ==
  ASSUME NEW c \in Clients, Untouched(c)
  PROVE  Phase(c)' = Phase(c)
  BY DEF Untouched, Phase, RowNames

\* What a request knows of its key stays true while no key is unmade.
LEMMA MadeStays ==
  ASSUME IndInv, MadeInv, NEW q \in Calls, Kept(q),
         \A c \in Clients : gb[c] # "unused" => gb'[c] # "unused"
  PROVE  MadeJob(q)'
<1>1. MadeJob(q) /\ JobInv(q)
  BY DEF MadeInv, IndInv
<1>2. pc'[q] = pc[q] /\ job'[q] = job[q] /\ Obj(q)' = Obj(q)
  BY DEF Kept, Obj
<1>3. AtKey(q) => Obj(q) \in Clients
  BY <1>1 DEF JobInv
<1>4. QED
  BY <1>1, <1>2, <1>3 DEF MadeJob, AtKey

\* A step of p that touches no key but c.
LEMMA OneStep ==
  ASSUME IndInv, IndInv', MadeInv, NEW p \in Calls, Alone(p), MadeJob(p)', NEW c \in Clients,
         \A d \in Clients \ {c} : Untouched(d),
         gb[c] # "unused" \/ client'[c].known \/ c \in lost' => gb'[c] # "unused",
         \/ Phase(c)' = Phase(c)
         \/ Phase(c) = "unmade" /\ Phase(c)' \in {"held", "lost"}
         \/ Phase(c) = "held" /\ Phase(c)' = "named"
         \/ Phase(c) \in {"held", "named", "lost"} /\ Phase(c)' = "dead"
  PROVE  MadeInv' /\ RingStep
<1>1. \A d \in Clients : gb[d] # "unused" => gb'[d] # "unused"
  BY DEF Untouched
<1>2. \A q \in Calls : MadeJob(q)'
  BY <1>1, MadeStays DEF Alone
<1>3. \A d \in Clients : client'[d].known \/ d \in lost' => gb'[d] # "unused"
  BY DEF MadeInv, Untouched
<1>4. \A d \in Clients \ {c} : Phase(d)' = Phase(d)
  BY UntouchedPhase
<1>5. RingStep
  BY <1>4, OneMoves
<1>6. QED
  BY <1>2, <1>3, <1>5 DEF MadeInv

\* A step that touches none.
LEMMA QuietStep ==
  ASSUME IndInv, IndInv', MadeInv, UNCHANGED <<keys, lost>>, \A q \in Calls : MadeJob(q)'
  PROVE  MadeInv' /\ RingStep
<1>1. client' = client /\ gb' = gb /\ lost' = lost
  BY DEF keys
<1>2. \A d \in Clients : Phase(d)' = Phase(d)
  BY <1>1, UntouchedPhase DEF Untouched
<1>3. RingNow' = RingNow
  BY <1>2, PhaseNow, PhaseNext DEF RingNow
<1>4. QED
  BY <1>1, <1>3 DEF MadeInv, RingStep

LEMMA QuietAlone ==
  ASSUME IndInv, IndInv', MadeInv, NEW p \in Calls, Alone(p), UNCHANGED <<keys, lost>>,
         MadeJob(p)'
  PROVE  MadeInv' /\ RingStep
<1>1. gb' = gb
  BY DEF keys
<1>2. \A q \in Calls : MadeJob(q)'
  BY <1>1, MadeStays DEF Alone
<1>3. QED
  BY <1>2, QuietStep

\* A step that loses keys, and changes no row of a key that lives on.
LEMMA LoseStep ==
  ASSUME IndInv, IndInv', MadeInv, gb' = gb, NEW S \in SUBSET Clients,
         \A c \in S : gb[c] = "live",
         lost' = lost \union S,
         \A c \in Clients : client'[c].known => client[c].known,
         \A c \in Clients : client'[c] = client[c] \/ gb[c] # "live" \/ c \in S,
         \A q \in Calls : MadeJob(q)'
  PROVE  MadeInv' /\ RingStep
<1> DEFINE Gone == S \ lost
<1>1. \A c \in Clients : client'[c].known \/ c \in lost' => gb'[c] # "unused"
  BY DEF MadeInv
<1>2. ASSUME NEW c \in Gone PROVE Phase(c) \in {"held", "named"} /\ Phase(c)' = "lost"
  BY <1>2 DEF Phase
<1>3. ASSUME NEW c \in Clients \ Gone PROVE Phase(c)' = Phase(c)
  <2>1. c \in lost' <=> c \in lost
    OBVIOUS
  <2>2. CASE client'[c] = client[c]
    BY <2>1, <2>2, UntouchedPhase DEF Untouched
  <2>3. CASE gb[c] # "live"
    <3>1. gb[c] \in {"unused", "revoked"}
      BY <2>3 DEF IndInv, TypeOK
    <3>2. QED
      BY <3>1 DEF Phase
  <2>4. CASE c \in lost
    BY <2>1, <2>4 DEF Phase
  <2>5. QED
    BY <2>2, <2>3, <2>4
<1>4. Gone \in SUBSET Clients
  OBVIOUS
<1> HIDE DEF Gone
<1>5. RingStep
  BY <1>2, <1>3, <1>4, SomeAreLost
<1>6. QED
  BY <1>1, <1>5 DEF MadeInv

-----------------------------------------------------------------------------
(* Every step of Access is a step of KeyRing, or one it does not see.      *)

LEMMA BeginRing ==
  ASSUME IndInv, IndInv', MadeInv, NEW p \in Calls, NEW u \in Users, NEW op, op \in Op,
         NEW obj, obj \in Users \union Invs \union Clients \union {None},
         NEW l, l \in {"insert", "withdraw", "join", "issue", "leave"},
         Begin(p, u, op, obj, l), UNCHANGED <<keys, ghosts>>
  PROVE  MadeInv' /\ RingStep
<1>1. Alone(p) /\ pc'[p] = l /\ ~job'[p].key
  BY BeginStep DEF Label
<1>2. MadeJob(p)' /\ UNCHANGED <<keys, lost>>
  BY <1>1 DEF MadeJob, ghosts
<1>3. QED
  BY <1>1, <1>2, QuietAlone

LEMMA HandlerRing ==
  ASSUME IndInv, IndInv', MadeInv, NEW p \in Calls, Handler(p)
  PROVE  MadeInv' /\ RingStep
<1>1. ASSUME NEW u \in Users, BeginInvite(p, u) \/ BeginIssue(p, u)
      PROVE  MadeInv' /\ RingStep
  BY <1>1, BeginRing DEF BeginInvite, BeginIssue, Op
<1>2. ASSUME NEW u \in Users, NEW i \in Invs, BeginWithdraw(p, u, i) \/ BeginAccept(p, u, i)
      PROVE  MadeInv' /\ RingStep
  BY <1>2, BeginRing DEF BeginWithdraw, BeginAccept, Op
<1>3. ASSUME NEW u \in Users, NEW t \in Users, BeginLeave(p, u, t)
      PROVE  MadeInv' /\ RingStep
  BY <1>3, BeginRing DEF BeginLeave, Op
<1>4. ASSUME NEW u \in Users, BeginArchive(p, u)
      PROVE  MadeInv' /\ RingStep
  <2>1. Alone(p) /\ pc'[p] = "list" /\ UNCHANGED <<keys, lost>>
    BY <1>4 DEF BeginArchive, Goto, IndInv, TypeOK, Alone, Kept, ghosts
  <2>2. QED
    BY <2>1, QuietAlone DEF MadeJob
<1>5. ASSUME NEW u \in Users, NEW c \in Clients, BeginRevoke(p, u, c)
      PROVE  MadeInv' /\ RingStep
  <2> PICK new : new = [NoJob EXCEPT !.op = "revoke", !.user = u, !.obj = c, !.key = TRUE]
    OBVIOUS
  <2>1. new.obj = c
    BY DEF NoJob
  <2>2. job' = [job EXCEPT ![p] = new] /\ Goto(p, "revoke")
    BY <1>5 DEF BeginRevoke
  <2>3. Alone(p) /\ pc'[p] = "revoke" /\ job'[p] = new /\ UNCHANGED <<keys, lost>>
    BY <1>5, <2>2 DEF BeginRevoke, Goto, IndInv, TypeOK, Alone, Kept, ghosts
  <2>4. gb'[c] # "unused"
    BY <1>5, <2>3 DEF BeginRevoke, MadeInv, keys
  <2>5. MadeJob(p)'
    BY <2>1, <2>3, <2>4 DEF MadeJob, Obj
  <2>6. QED
    BY <2>3, <2>5, QuietAlone
<1>6. QED
  BY <1>1, <1>2, <1>3, <1>4, <1>5 DEF Handler

LEMMA ReturnRing ==
  ASSUME IndInv, IndInv', MadeInv, NEW p \in Calls, Return(p), UNCHANGED <<keys, lost>>
  PROVE  MadeInv' /\ RingStep
<1>1. Alone(p) /\ pc'[p] = "idle"
  BY ReturnStep
<1>2. QED
  BY <1>1, QuietAlone DEF MadeJob

LEMMA InvitationRing ==
  ASSUME IndInv, IndInv', MadeInv, NEW p \in Calls, Invitation(p)
  PROVE  MadeInv' /\ RingStep
<1>1. Return(p) /\ UNCHANGED <<keys, lost>>
  BY DEF Invitation, Invite, Withdraw, Join, Joined, ghosts
<1>2. QED
  BY <1>1, ReturnRing

\* A request that goes on to another label, and nothing else.
LEMMA GotoRing ==
  ASSUME IndInv, IndInv', MadeInv, NEW p \in Calls, NEW l, l \in Label, Goto(p, l),
         UNCHANGED <<keys, job, lost>>,
         l \notin {"issue", "register"},
         l \in {"recheck", "activate", "revoke", "markOrphan"} =>
           Obj(p) \in Clients /\ gb[Obj(p)] # "unused"
  PROVE  MadeInv' /\ RingStep
<1>1. Alone(p) /\ pc'[p] = l /\ Obj(p)' = Obj(p) /\ gb' = gb
  BY GotoStep DEF keys
<1>2. MadeJob(p)'
  BY <1>1 DEF MadeJob
<1>3. QED
  BY <1>1, <1>2, QuietAlone

LEMMA ContinueMade ==
  ASSUME IndInv, NEW p \in Calls, AtKey(p), NEW e \in BOOLEAN, Continue(p, e), KeysKept
  PROVE  Alone(p) /\ MadeJob(p)'
<1>1. Alone(p)
  BY ContinueStep
<1>2. pc'[p] \in {"next", "idle"}
  BY DEF Continue, Return, Goto, IndInv, TypeOK
<1>3. QED
  BY <1>1, <1>2 DEF MadeJob

LEMMA IssueRowRing ==
  ASSUME IndInv, IndInv', MadeInv, NEW p \in Calls, NEW c \in Clients, IssueRow(p, c)
  PROVE  MadeInv' /\ RingStep
<1> PICK row : row = [state |-> "issuing", user |-> job[p].user, known |-> FALSE]
  OBVIOUS
<1> PICK new : new = [job[p] EXCEPT !.obj = c]
  OBVIOUS
<1>1. /\ pc[p] = "issue" /\ gb[c] = "unused" /\ job[p] \in Job /\ ~job[p].key
      /\ gb' = gb /\ lost' = lost /\ Goto(p, "register")
      /\ client' = [client EXCEPT ![c] = row] /\ job' = [job EXCEPT ![p] = new]
  BY DEF IssueRow, IndInv, TypeOK, MadeInv, MadeJob, ghosts
<1>2. new.key = job[p].key
  BY <1>1 DEF Job
<1>3. Alone(p) /\ pc'[p] = "register" /\ job'[p] = new
  BY <1>1 DEF Goto, IndInv, TypeOK, Alone, Kept
<1>4. MadeJob(p)'
  BY <1>1, <1>2, <1>3 DEF MadeJob
<1>5. ~client'[c].known /\ c \notin lost'
  BY <1>1 DEF IndInv, TypeOK, MadeInv
<1>6. \A d \in Clients \ {c} : Untouched(d)
  BY <1>1 DEF IndInv, TypeOK, Untouched
<1>7. Phase(c)' = Phase(c)
  BY <1>1 DEF Phase
<1>8. QED
  BY <1>1, <1>3, <1>4, <1>5, <1>6, <1>7, OneStep

LEMMA RegisteredRing ==
  ASSUME IndInv, IndInv', MadeInv, NEW p \in Calls, Registered(p)
  PROVE  MadeInv' /\ RingStep
<1> PICK c : c = Obj(p)
  OBVIOUS
<1> PICK new : new = [job[p] EXCEPT !.key = TRUE]
  OBVIOUS
<1>1. /\ pc[p] = "register" /\ AtKey(p) /\ job[p] \in Job
      /\ client' = client /\ lost' = lost /\ Goto(p, "recheck")
      /\ gb' = [gb EXCEPT ![c] = "live"] /\ job' = [job EXCEPT ![p] = new]
  BY DEF Registered, AtKey, IndInv, TypeOK, ghosts
<1>2. c \in Clients /\ gb[c] = "unused" /\ ~client[c].known
  BY <1>1, AtHand DEF MakerInv, Row
<1>3. Alone(p) /\ pc'[p] = "recheck" /\ job'[p] = new
  BY <1>1 DEF Goto, IndInv, TypeOK, Alone, Kept
<1>4. new.obj = c
  BY <1>1 DEF Job, Obj
<1>5. gb'[c] = "live" /\ \A d \in Clients \ {c} : Untouched(d)
  BY <1>1, <1>2 DEF IndInv, TypeOK, Untouched
<1>6. MadeJob(p)'
  BY <1>3, <1>4, <1>5 DEF MadeJob, Obj
<1>7. c \notin lost'
  BY <1>1, <1>2 DEF MadeInv
<1>8. Phase(c) = "unmade" /\ Phase(c)' = "held"
  BY <1>1, <1>2, <1>5, <1>7 DEF Phase, RowNames
<1>9. QED
  BY <1>2, <1>3, <1>5, <1>6, <1>8, OneStep

LEMMA RegisterFailsRing ==
  ASSUME IndInv, IndInv', MadeInv, NEW p \in Calls, RegisterFails(p)
  PROVE  MadeInv' /\ RingStep
<1> PICK c : c = Obj(p)
  OBVIOUS
<1>1. /\ pc[p] = "register" /\ AtKey(p) /\ client' = client /\ job' = job
      /\ Goto(p, "markOrphan")
      /\ \/ gb' = gb /\ lost' = lost
         \/ gb' = [gb EXCEPT ![c] = "live"] /\ lost' = lost \union {c}
  BY DEF RegisterFails, AtKey
<1>2. c \in Clients /\ gb[c] = "unused" /\ ~client[c].known /\ c \notin lost
  BY <1>1, AtHand DEF MakerInv, Row, MadeInv
<1>3. Alone(p) /\ pc'[p] = "markOrphan" /\ job'[p] = job[p]
  BY <1>1, GotoStep DEF Label
<1>4. MadeJob(p)'
  BY <1>1, <1>3 DEF MadeJob, MadeInv
<1>5. \A d \in Clients \ {c} : Untouched(d)
  BY <1>1, <1>2 DEF IndInv, TypeOK, Untouched
<1>6. CASE gb' = gb /\ lost' = lost
  BY <1>1, <1>2, <1>3, <1>4, <1>5, <1>6, OneStep DEF Phase
<1>7. CASE gb' = [gb EXCEPT ![c] = "live"] /\ lost' = lost \union {c}
  <2>1. gb'[c] = "live" /\ c \in lost'
    BY <1>2, <1>7 DEF IndInv, TypeOK
  <2>2. Phase(c) = "unmade" /\ Phase(c)' = "lost"
    BY <1>2, <2>1 DEF Phase
  <2>3. QED
    BY <1>2, <1>3, <1>4, <1>5, <2>1, <2>2, OneStep
<1>8. QED
  BY <1>1, <1>6, <1>7

LEMMA ActivateRing ==
  ASSUME IndInv, IndInv', MadeInv, NEW p \in Calls, Activate(p)
  PROVE  MadeInv' /\ RingStep
<1> PICK c : c = Obj(p)
  OBVIOUS
<1> PICK new : new = [client[c] EXCEPT !.state = "active", !.known = TRUE]
  OBVIOUS
<1>1. /\ pc[p] = "activate" /\ AtKey(p) /\ client[c].state = "issuing" /\ Return(p)
      /\ gb' = gb /\ lost' = lost
  BY DEF Activate, AtKey, Row, ghosts
<1>2. c \in Clients /\ gb[c] # "unused"
  BY <1>1, AtHand DEF MadeInv, MadeJob
<1>3. client' = [client EXCEPT ![c] = new] /\ new.state = "active" /\ new.known
  <2>1. client' = [client EXCEPT ![c] = new]
    BY <1>2, ClientShape DEF Activate, IndInv, TypeOK
  <2>2. new.state = "active" /\ new.known
    BY <1>2, ClientShape
  <2>3. QED
    BY <2>1, <2>2
<1>4. Alone(p) /\ MadeJob(p)'
  BY <1>1, ReturnStep DEF MadeJob
<1>5. client'[c] = new /\ \A d \in Clients \ {c} : Untouched(d)
  BY <1>1, <1>2, <1>3 DEF IndInv, TypeOK, Untouched
<1>6. ~RowNames(c) /\ RowNames(c)'
  BY <1>1, <1>3, <1>5 DEF RowNames
<1>7. Phase(c)' = Phase(c) \/ (Phase(c) = "held" /\ Phase(c)' = "named")
  BY <1>1, <1>6 DEF Phase
<1>8. QED
  BY <1>1, <1>2, <1>4, <1>5, <1>7, OneStep

\* The key at hand dies.
LEMMA DeadRing ==
  ASSUME IndInv, IndInv', MadeInv, NEW p \in Calls, NEW l, Goto(p, l),
         l \in {"markRevoked", "markOrphan"}, pc[p] = "revoke",
         gb' = [gb EXCEPT ![Obj(p)] = "revoked"], UNCHANGED <<client, job, lost>>
  PROVE  MadeInv' /\ RingStep
<1> PICK c : c = Obj(p)
  OBVIOUS
<1>1. c \in Clients /\ gb[c] # "unused"
  BY AtHand DEF AtKey, MadeInv, MadeJob
<1>2. Alone(p) /\ pc'[p] = l /\ Obj(p)' = c
  BY GotoStep DEF Label
<1>3. gb'[c] = "revoked" /\ \A d \in Clients \ {c} : Untouched(d)
  BY <1>1 DEF IndInv, TypeOK, Untouched
<1>4. MadeJob(p)'
  BY <1>2, <1>3 DEF MadeJob
<1>5. gb[c] \in {"live", "revoked"}
  BY <1>1 DEF IndInv, TypeOK
<1>6. Phase(c) \in {"held", "named", "lost", "dead"} /\ Phase(c)' = "dead"
  BY <1>3, <1>5 DEF Phase
<1>7. QED
  BY <1>1, <1>2, <1>3, <1>4, <1>6, OneStep

LEMMA MarkedRevokedRing ==
  ASSUME IndInv, IndInv', MadeInv, NEW p \in Calls, MarkedRevoked(p)
  PROVE  MadeInv' /\ RingStep
<1> PICK c : c = Obj(p)
  OBVIOUS
<1> PICK new : new = [client[c] EXCEPT !.state = "revoked"]
  OBVIOUS
<1>1. /\ AtKey(p) /\ Continue(p, FALSE) /\ pc[p] = "markRevoked" /\ gb' = gb /\ lost' = lost
      /\ client' = [client EXCEPT ![c] = new]
  BY DEF MarkedRevoked, AtKey, ghosts
<1>2. c \in Clients /\ gb[c] = "revoked"
  BY <1>1, AtHand DEF JobInv
<1>3. new.known = client[c].known
  BY <1>2, ClientShape
<1>4. client'[c] = new /\ \A d \in Clients \ {c} : Untouched(d)
  BY <1>1, <1>2 DEF IndInv, TypeOK, Untouched
<1>5. KeysKept
  BY <1>1, <1>3, <1>4 DEF KeysKept, Untouched
<1>6. Alone(p) /\ MadeJob(p)'
  BY <1>1, <1>5, ContinueMade
<1>7. Phase(c)' = Phase(c)
  BY <1>1, <1>2 DEF Phase
<1>8. QED
  BY <1>1, <1>2, <1>4, <1>6, <1>7, OneStep

LEMMA MarkedOrphanRing ==
  ASSUME IndInv, IndInv', MadeInv, NEW p \in Calls, MarkedOrphan(p)
  PROVE  MadeInv' /\ RingStep
<1> PICK c : c = Obj(p)
  OBVIOUS
<1> PICK k \in BOOLEAN : k = (client[c].known \/ job[p].key)
  BY Zenon
<1> PICK new : new = [client[c] EXCEPT !.state = "orphan", !.known = k]
  OBVIOUS
<1>1. /\ AtKey(p) /\ Continue(p, TRUE) /\ pc[p] = "markOrphan" /\ gb' = gb /\ lost' = lost
  BY DEF MarkedOrphan, AtKey, ghosts
<1>2. /\ c \in Clients /\ client[c] = Row(p)
      /\ gb[c] = "live" => client[c].known \/ job[p].key \/ c \in lost
  BY <1>1, AtHand DEF Row
<1>3. client' = [client EXCEPT ![c] = new]
  BY <1>2 DEF MarkedOrphan, IndInv, TypeOK
<1>4. new.state = "orphan" /\ (new.known <=> client[c].known \/ job[p].key)
  <2>1. new.state = "orphan" /\ new.known = k
    BY <1>2, ClientShape
  <2>2. QED
    BY <2>1, Zenon
<1>5. client'[c] = new /\ \A d \in Clients \ {c} : Untouched(d)
  BY <1>1, <1>2, <1>3 DEF IndInv, TypeOK, Untouched
<1>6. KeysKept
  BY <1>1, <1>4, <1>5 DEF KeysKept, Untouched
<1>7. Alone(p) /\ MadeJob(p)'
  BY <1>1, <1>6, ContinueMade
<1>8. client'[c].known \/ c \in lost' => gb'[c] # "unused"
  BY <1>1, <1>2, <1>4, <1>5 DEF MadeInv, MadeJob
<1>9. gb[c] = "live" => c \in lost \/ RowNames(c)'
  BY <1>2, <1>4, <1>5 DEF RowNames
<1>10. Phase(c)' = Phase(c) \/ (Phase(c) = "held" /\ Phase(c)' = "named")
  <2>1. gb[c] \in {"unused", "live", "revoked"}
    BY <1>2 DEF IndInv, TypeOK
  <2>2. QED
    BY <1>1, <1>9, <2>1 DEF Phase
<1>11. QED
  BY <1>1, <1>2, <1>5, <1>7, <1>8, <1>10, OneStep

LEMMA MarkOrphanFailsRing ==
  ASSUME IndInv, IndInv', MadeInv, NEW p \in Calls, MarkOrphanFails(p)
  PROVE  MadeInv' /\ RingStep
<1>1. /\ AtKey(p) /\ Continue(p, TRUE) /\ client' = client /\ gb' = gb
      /\ lost' = lost \union Unrecorded(p)
  BY DEF MarkOrphanFails, AtKey, keys
<1>2. Alone(p) /\ MadeJob(p)'
  BY <1>1, ContinueMade DEF KeysKept
<1>3. \A q \in Calls : MadeJob(q)'
  BY <1>1, <1>2, MadeStays DEF Alone
<1>4. Unrecorded(p) \in SUBSET Clients /\ \A c \in Unrecorded(p) : gb[c] = "live"
  BY DEF Unrecorded
<1>5. QED
  BY <1>1, <1>3, <1>4, LoseStep

LEMMA RestartRing ==
  ASSUME IndInv, IndInv', MadeInv, Restart
  PROVE  MadeInv' /\ RingStep
<1> PICK S : S = UNION {Unrecorded(p) : p \in Calls}
  OBVIOUS
<1>1. client' = client /\ gb' = gb /\ lost' = lost \union S
  BY DEF Restart, keys
<1>2. S \in SUBSET Clients /\ \A c \in S : gb[c] = "live"
  BY DEF Unrecorded
<1>3. \A q \in Calls : pc'[q] = "idle"
  BY DEF Restart
<1>4. \A q \in Calls : MadeJob(q)'
  BY <1>3 DEF MadeJob
<1>5. QED
  BY <1>1, <1>2, <1>4, LoseStep

LEMMA DeleteRing ==
  ASSUME IndInv, IndInv', MadeInv, NEW p \in Calls, Delete(p)
  PROVE  MadeInv' /\ RingStep
<1> PICK S : S = {c \in Clients : gb[c] = "live"}
  OBVIOUS
<1>1. Return(p) /\ gb' = gb /\ lost' = lost \union S
  BY DEF Delete
<1>2. Alone(p) /\ MadeJob(p)'
  BY <1>1, ReturnStep DEF MadeJob
<1>3. \A q \in Calls : MadeJob(q)'
  BY <1>1, <1>2, MadeStays DEF Alone
<1>4. ASSUME NEW c \in Clients PROVE client'[c].known => client[c].known
  <2>1. client'[c] = IF client[c].state = "none" THEN NoClient
                     ELSE [client[c] EXCEPT !.state = "deleted"]
    BY DEF Delete
  <2>2. CASE client[c].state = "none"
    BY <2>1, <2>2, ClientShape
  <2>3. CASE client[c].state # "none"
    BY <2>1, <2>3, ClientShape
  <2>4. QED
    BY <2>2, <2>3
<1>5. QED
  BY <1>1, <1>3, <1>4, LoseStep

-----------------------------------------------------------------------------
LEMMA IssueRing ==
  ASSUME IndInv, IndInv', MadeInv, NEW p \in Calls, Issue(p)
  PROVE  MadeInv' /\ RingStep
<1>1. CASE Recheck(p)
  <2>1. /\ pc[p] = "recheck" /\ AtKey(p) /\ UNCHANGED <<keys, job, lost>>
        /\ Goto(p, "activate") \/ Goto(p, "revoke")
    BY <1>1 DEF Recheck, AtKey, ghosts
  <2>2. Obj(p) \in Clients /\ gb[Obj(p)] # "unused"
    BY <2>1, AtHand DEF MadeInv, MadeJob
  <2>3. QED
    BY <2>1, <2>2, GotoRing DEF Label
<1>2. CASE ActivateFails(p)
  <2>1. /\ pc[p] = "activate" /\ AtKey(p) /\ UNCHANGED <<keys, job, lost>>
        /\ Goto(p, "markOrphan")
    BY <1>2 DEF ActivateFails, AtKey, ghosts
  <2>2. Obj(p) \in Clients /\ gb[Obj(p)] # "unused"
    BY <2>1, AtHand DEF MadeInv, MadeJob
  <2>3. QED
    BY <2>1, <2>2, GotoRing DEF Label
<1>3. QED
  BY <1>1, <1>2, IssueRowRing, RegisteredRing, RegisterFailsRing, ActivateRing DEF Issue

LEMMA RevokeRing ==
  ASSUME IndInv, IndInv', MadeInv, NEW p \in Calls, Revoke(p)
  PROVE  MadeInv' /\ RingStep
<1>1. CASE Revoked(p)
  BY <1>1, DeadRing DEF Revoked, ghosts
<1>2. CASE RevokeFails(p)
  <2>1. /\ pc[p] = "revoke" /\ AtKey(p) /\ Goto(p, "markOrphan")
        /\ UNCHANGED <<client, job, lost>>
    BY <1>2 DEF RevokeFails, AtKey, ghosts
  <2>2. CASE gb' = gb
    <3>1. Obj(p) \in Clients /\ gb[Obj(p)] # "unused"
      BY <2>1, AtHand DEF MadeInv, MadeJob
    <3>2. QED
      BY <2>1, <2>2, <3>1, GotoRing DEF Label, keys
  <2>3. CASE gb' = [gb EXCEPT ![Obj(p)] = "revoked"]
    BY <2>1, <2>3, DeadRing
  <2>4. QED
    BY <1>2, <2>2, <2>3 DEF RevokeFails
<1>3. CASE MarkRevokedFails(p)
  <2>1. AtKey(p) /\ Continue(p, TRUE) /\ UNCHANGED <<keys, lost>> /\ KeysKept
    BY <1>3 DEF MarkRevokedFails, AtKey, keys, ghosts, KeysKept
  <2>2. QED
    BY <2>1, ContinueMade, QuietAlone
<1>4. QED
  BY <1>1, <1>2, <1>3, MarkedRevokedRing, MarkedOrphanRing, MarkOrphanFailsRing DEF Revoke

LEMMA RemoveRing ==
  ASSUME IndInv, IndInv', MadeInv, NEW p \in Calls, Remove(p)
  PROVE  MadeInv' /\ RingStep
<1>1. CASE Leave(p)
  BY <1>1, GotoRing DEF Leave, Label
<1>2. CASE List(p)
  <2>1. Alone(p) /\ pc'[p] = "next" /\ UNCHANGED <<keys, lost>>
    BY <1>2 DEF List, Goto, IndInv, TypeOK, Alone, Kept, ghosts
  <2>2. QED
    BY <2>1, QuietAlone DEF MadeJob
<1>3. CASE LoopDone(p)
  <2>1. UNCHANGED <<keys, lost>>
    BY <1>3 DEF LoopDone, ghosts
  <2>2. CASE Return(p)
    BY <2>1, <2>2, ReturnRing
  <2>3. CASE Goto(p, "archive") /\ UNCHANGED job
    BY <2>1, <2>3, GotoRing DEF Label
  <2>4. QED
    BY <1>3, <2>2, <2>3 DEF LoopDone
<1>4. CASE Archive(p)
  BY <1>4, ReturnRing DEF Archive, ghosts
<1>5. ASSUME NEW c \in Clients, Pick(p, c) PROVE MadeInv' /\ RingStep
  <2> PICK new : new = [job[p] EXCEPT !.obj = c, !.key = TRUE, !.todo = @ \ {c}]
    OBVIOUS
  <2>1. /\ job' = [job EXCEPT ![p] = new] /\ Goto(p, "revoke") /\ UNCHANGED <<keys, lost>>
        /\ c \in job[p].todo /\ job[p] \in Job
    BY <1>5 DEF Pick, IndInv, TypeOK, ghosts
  <2>2. new.obj = c
    BY <2>1 DEF Job
  <2>3. Alone(p) /\ pc'[p] = "revoke" /\ job'[p] = new
    BY <2>1 DEF Goto, IndInv, TypeOK, Alone, Kept
  <2>4. client[c].known
    BY <2>1 DEF IndInv, JobInv
  <2>5. gb'[c] # "unused"
    BY <2>1, <2>4 DEF MadeInv, keys
  <2>6. MadeJob(p)'
    BY <2>2, <2>3, <2>5 DEF MadeJob, Obj
  <2>7. QED
    BY <2>1, <2>3, <2>6, QuietAlone
<1>6. QED
  BY <1>1, <1>2, <1>3, <1>4, <1>5, DeleteRing DEF Remove

\* A step that leaves the requests and the keys alone.
LEMMA StandRing ==
  ASSUME IndInv, IndInv', MadeInv, UNCHANGED <<pc, job, keys, lost>>
  PROVE  MadeInv' /\ RingStep
<1>1. gb' = gb /\ \A q \in Calls : Kept(q)
  BY DEF keys, Kept
<1>2. QED
  BY <1>1, MadeStays, QuietStep

LEMMA NextRing == IndInv /\ IndInv' /\ MadeInv /\ [Next]_vars => MadeInv' /\ RingStep
<1> SUFFICES ASSUME IndInv, IndInv', MadeInv, [Next]_vars PROVE MadeInv' /\ RingStep
  OBVIOUS
<1>1. CASE UNCHANGED vars
  BY <1>1, StandRing DEF vars, keys
<1>2. CASE Settle \/ \E i \in Invs : Expire(i)
  BY <1>2, StandRing DEF Settle, Expire, ghosts
<1>3. CASE \E p \in Calls : Fails(p)
  BY <1>3, ReturnRing DEF Fails
<1>4. CASE \E p \in Calls : Handler(p) \/ Invitation(p)
  BY <1>4, HandlerRing, InvitationRing
<1>5. CASE \E p \in Calls : Issue(p) \/ Revoke(p) \/ Remove(p)
  BY <1>5, IssueRing, RevokeRing, RemoveRing
<1>6. CASE Restart
  BY <1>6, RestartRing
<1>7. QED
  BY <1>1, <1>2, <1>3, <1>4, <1>5, <1>6 DEF Next

\* Access implements KeyRing: no step of any request, failure or stop sets an
\* issued key adrift, revives a revoked one or finds a lost one.
THEOREM AccessImplementsKeyRing == Spec => KeysOnRing
<1>1. Init => MadeInv /\ Ring!Init
  <2> SUFFICES ASSUME Init PROVE MadeInv /\ Ring!Init
    OBVIOUS
  <2>1. \A c \in Clients : KeyState(c) = "unmade"
    BY DEF Init, KeyState
  <2>2. MadeInv
    BY NoJobType DEF Init, MadeInv, MadeJob, NoClient
  <2>3. QED
    BY <2>1, <2>2 DEF Ring!Init
<1>2. IndInv /\ IndInv' /\ MadeInv /\ [Next]_vars =>
        MadeInv' /\ [Ring!Next]_[c \in Clients |-> KeyState(c)]
  BY NextRing DEF RingStep, RingNow
<1>3. QED
  BY <1>1, <1>2, Safety, PTL DEF Spec, KeysOnRing, Ring!Spec

-----------------------------------------------------------------------------
(* What revokeClients was to revoke is revoked when it reports success.    *)

DoneStays == \A c \in Clients : Done(c) => Done(c)'

\* Steps that change no row and no key, or the key at hand only.
LEMMA SameKeysDone ==
  ASSUME UNCHANGED keys
  PROVE  DoneStays
  BY DEF keys, DoneStays, Done

LEMMA IssueDone ==
  ASSUME IndInv, NEW p \in Calls, Issue(p)
  PROVE  DoneStays
<1>1. CASE \E c \in Clients : IssueRow(p, c)
  BY <1>1 DEF IssueRow, IndInv, TypeOK, DoneStays, Done
<1>2. CASE Registered(p) \/ RegisterFails(p)
  <2>1. /\ client' = client /\ pc[p] = "register"
        /\ gb' = gb \/ gb' = [gb EXCEPT ![Obj(p)] = "live"]
    BY <1>2 DEF Registered, RegisterFails
  <2>2. Obj(p) \in Clients /\ gb[Obj(p)] = "unused"
    BY <2>1, AtHand DEF AtKey, MakerInv
  <2>3. QED
    BY <2>1, <2>2 DEF IndInv, TypeOK, DoneStays, Done
<1>3. CASE Recheck(p) \/ ActivateFails(p)
  BY <1>3, SameKeysDone DEF Recheck, ActivateFails
<1>4. CASE Activate(p)
  <2> PICK o : o = Obj(p)
    OBVIOUS
  <2>1. /\ gb' = gb /\ client[o].state = "issuing"
        /\ \A c \in Clients \ {o} : client'[c] = client[c]
    BY <1>4 DEF Activate, Row, IndInv, TypeOK
  <2>2. QED
    BY <2>1 DEF DoneStays, Done
<1>5. QED
  BY <1>1, <1>2, <1>3, <1>4 DEF Issue

LEMMA RevokeDone ==
  ASSUME IndInv, NEW p \in Calls, Revoke(p)
  PROVE  DoneStays
<1>1. CASE Revoked(p) \/ RevokeFails(p)
  <2>1. /\ client' = client
        /\ gb' = gb \/ gb' = [gb EXCEPT ![Obj(p)] = "revoked"]
    BY <1>1 DEF Revoked, RevokeFails
  <2>2. QED
    BY <2>1 DEF IndInv, TypeOK, DoneStays, Done
<1>2. CASE MarkedRevoked(p) \/ MarkedOrphan(p)
  <2> PICK o : o = Obj(p)
    OBVIOUS
  <2>1. /\ gb' = gb /\ client[o].state \notin {"revoked", "deleted"}
        /\ \A c \in Clients \ {o} : client'[c] = client[c]
    BY <1>2 DEF MarkedRevoked, MarkedOrphan, Markable, Row, IndInv, TypeOK
  <2>2. QED
    BY <2>1 DEF DoneStays, Done
<1>3. CASE MarkRevokedFails(p) \/ MarkOrphanFails(p)
  BY <1>3, SameKeysDone DEF MarkRevokedFails, MarkOrphanFails
<1>4. QED
  BY <1>1, <1>2, <1>3 DEF Revoke

LEMMA DeleteDone ==
  ASSUME IndInv, NEW p \in Calls, Delete(p)
  PROVE  DoneStays
<1> SUFFICES ASSUME NEW c \in Clients, Done(c) PROVE Done(c)'
  BY DEF DoneStays
<1>1. gb' = gb /\ client'[c] = [client[c] EXCEPT !.state = "deleted"]
  BY DEF Delete, Done
<1>2. client'[c].state = "deleted"
  BY <1>1, ClientShape
<1>3. QED
  BY <1>1, <1>2 DEF Done

LEMMA NextDone ==
  ASSUME IndInv, [Next]_vars
  PROVE  DoneStays
<1>1. CASE UNCHANGED vars \/ Settle \/ Restart \/ \E i \in Invs : Expire(i)
  BY <1>1, SameKeysDone DEF vars, Settle, Restart, Expire, keys
<1>2. ASSUME NEW p \in Calls, Handler(p) \/ Invitation(p) \/ Fails(p)
      PROVE  DoneStays
  <2>1. UNCHANGED keys
    BY <1>2 DEF Handler, BeginInvite, BeginIssue, BeginArchive, BeginWithdraw, BeginAccept,
       BeginRevoke, BeginLeave, Invitation, Invite, Withdraw, Join, Joined, Fails
  <2>2. QED
    BY <2>1, SameKeysDone
<1>3. ASSUME NEW p \in Calls, Remove(p)
      PROVE  DoneStays
  <2>1. Delete(p) \/ UNCHANGED keys
    BY <1>3 DEF Remove, Leave, List, Pick, LoopDone, Archive
  <2>2. QED
    BY <2>1, SameKeysDone, DeleteDone
<1>4. QED
  BY <1>1, <1>2, <1>3, IssueDone, RevokeDone DEF Next

-----------------------------------------------------------------------------
\* A step of p: the other requests keep what they have.
LEMMA ListedStep ==
  ASSUME IndInv, ListedInv, DoneStays, NEW p \in Calls, Alone(p), ListedJob(p)'
  PROVE  ListedInv'
<1> SUFFICES ASSUME NEW q \in Calls, q # p PROVE ListedJob(q)'
  BY DEF ListedInv
<1>1. pc'[q] = pc[q] /\ job'[q] = job[q] /\ Obj(q)' = Obj(q)
  BY DEF Alone, Kept, Obj
<1>2. AtKey(q)' <=> AtKey(q)
  BY <1>1 DEF AtKey
<1>3. job[q].listed \subseteq Clients
  BY JobShape
<1>4. QED
  BY <1>1, <1>2, <1>3 DEF ListedInv, ListedJob, DoneStays

\* A request that has listed nothing.
LEMMA ListedNone ==
  ASSUME IndInv, ListedInv, DoneStays, NEW p \in Calls, Alone(p), job'[p].listed = {},
         pc'[p] # "archive"
  PROVE  ListedInv'
<1>1. ListedJob(p)'
  BY DEF ListedJob
<1>2. QED
  BY <1>1, ListedStep

LEMMA ListedReturn ==
  ASSUME IndInv, ListedInv, DoneStays, NEW p \in Calls, Return(p)
  PROVE  ListedInv'
  BY ReturnStep, NoJobType, ListedNone

\* The request goes on with the same list, and the key it has at hand.
LEMMA ListedGoes ==
  ASSUME IndInv, ListedInv, DoneStays, NEW p \in Calls, Alone(p),
         pc'[p] # "archive", AtKey(p) => AtKey(p)' /\ Obj(p)' = Obj(p),
         job'[p].listed = job[p].listed, job'[p].todo = job[p].todo,
         job[p].err => job'[p].err
  PROVE  ListedInv'
<1>1. job[p].listed \subseteq Clients
  BY JobShape
<1>2. ListedJob(p)'
  BY <1>1 DEF ListedInv, ListedJob, DoneStays
<1>3. QED
  BY <1>2, ListedStep

LEMMA ListedGoto ==
  ASSUME IndInv, ListedInv, DoneStays, NEW p \in Calls, NEW l, l \in Label, Goto(p, l),
         UNCHANGED job, l # "archive",
         AtKey(p) => l \in {"recheck", "activate", "revoke", "markRevoked", "markOrphan"}
  PROVE  ListedInv'
<1>1. Alone(p) /\ pc'[p] = l /\ job'[p] = job[p] /\ Obj(p)' = Obj(p)
  BY GotoStep
<1>2. AtKey(p) => AtKey(p)'
  BY <1>1 DEF AtKey
<1>3. QED
  BY <1>1, <1>2, ListedGoes

\* The loop goes on: the key at hand is done, or its failure is remembered.
LEMMA ListedContinue ==
  ASSUME IndInv, ListedInv, DoneStays, NEW p \in Calls, NEW e \in BOOLEAN,
         Continue(p, e), NEW o \in Clients, o = Obj(p), e \/ Done(o)'
  PROVE  ListedInv'
<1>1. CASE job[p].op \in {"leave", "archive"}
  <2> PICK b \in BOOLEAN : b = (job[p].err \/ e)
    BY Zenon
  <2> PICK new : new = [job[p] EXCEPT !.obj = None, !.key = FALSE, !.err = b]
    OBVIOUS
  <2>1. job[p] \in Job
    BY DEF IndInv, TypeOK
  <2>2. Goto(p, "next") /\ job' = [job EXCEPT ![p] = new]
    BY <1>1 DEF Continue, IndInv, TypeOK
  <2>3. /\ new.listed = job[p].listed /\ new.todo = job[p].todo
        /\ new.err = b /\ job[p].listed \subseteq Clients
    BY <2>1 DEF Job
  <2>4. Alone(p) /\ pc'[p] = "next" /\ job'[p] = new
    BY <2>2 DEF IndInv, TypeOK, Goto, Alone, Kept
  <2>5. ASSUME NEW c \in job[p].listed PROVE c \in new.todo \/ new.err \/ Done(c)'
    <3>1. c \in job[p].todo \/ c = o \/ job[p].err \/ Done(c)
      BY DEF ListedInv, ListedJob
    <3>2. CASE c = o
      BY <2>3, <3>2
    <3>3. Done(c) => Done(c)'
      BY <2>3 DEF DoneStays
    <3>4. QED
      BY <2>3, <3>1, <3>2, <3>3
  <2>6. ListedJob(p)'
    BY <2>3, <2>4, <2>5 DEF ListedJob
  <2>7. QED
    BY <2>4, <2>6, ListedStep
<1>2. CASE job[p].op \notin {"leave", "archive"}
  BY <1>2, ListedReturn DEF Continue
<1>3. QED
  BY <1>1, <1>2

LEMMA HandlerListed ==
  ASSUME IndInv, ListedInv, DoneStays, NEW p \in Calls, Handler(p)
  PROVE  ListedInv'
<1>1. ASSUME NEW new, job' = [job EXCEPT ![p] = new], new.listed = {},
             NEW l \in Label, l # "archive", Goto(p, l)
      PROVE  ListedInv'
  <2>1. Alone(p) /\ pc'[p] = l /\ job'[p] = new
    BY <1>1 DEF Goto, IndInv, TypeOK, Alone, Kept
  <2>2. QED
    BY <1>1, <2>1, ListedNone
<1>2. ASSUME NEW u \in Users, NEW op, NEW obj, NEW l \in Label, l # "archive",
             Begin(p, u, op, obj, l)
      PROVE  ListedInv'
  <2> PICK new : new = [NoJob EXCEPT !.op = op, !.user = u, !.obj = obj]
    OBVIOUS
  <2>1. new.listed = {}
    BY DEF NoJob
  <2>2. QED
    BY <1>1, <1>2, <2>1 DEF Begin, Goto
<1>3. ASSUME NEW u \in Users, BeginArchive(p, u)
      PROVE  ListedInv'
  <2> PICK b : b = (brain = "failed")
    BY Zenon
  <2> PICK new : new = [NoJob EXCEPT !.op = "archive", !.user = u, !.failed = b]
    OBVIOUS
  <2>1. new.listed = {}
    BY DEF NoJob
  <2>2. job' = [job EXCEPT ![p] = new] /\ Goto(p, "list")
    BY <1>3 DEF BeginArchive
  <2>3. QED
    BY <1>1, <2>1, <2>2 DEF Label
<1>4. ASSUME NEW u \in Users, NEW c \in Clients, BeginRevoke(p, u, c)
      PROVE  ListedInv'
  <2> PICK new : new = [NoJob EXCEPT !.op = "revoke", !.user = u, !.obj = c, !.key = TRUE]
    OBVIOUS
  <2>1. new.listed = {}
    BY DEF NoJob
  <2>2. job' = [job EXCEPT ![p] = new] /\ Goto(p, "revoke")
    BY <1>4 DEF BeginRevoke
  <2>3. QED
    BY <1>1, <2>1, <2>2 DEF Label
<1>5. QED
  BY <1>2, <1>3, <1>4 DEF Handler, BeginInvite, BeginIssue, BeginWithdraw, BeginAccept,
     BeginLeave, Label

LEMMA IssueListed ==
  ASSUME IndInv, ListedInv, DoneStays, NEW p \in Calls, Issue(p)
  PROVE  ListedInv'
<1>1. ASSUME NEW c \in Clients, IssueRow(p, c) PROVE ListedInv'
  <2> PICK new : new = [job[p] EXCEPT !.obj = c]
    OBVIOUS
  <2>1. /\ job[p] \in Job /\ job' = [job EXCEPT ![p] = new] /\ Goto(p, "register")
        /\ ~AtKey(p)
    BY <1>1 DEF IssueRow, IndInv, TypeOK, AtKey
  <2>2. new.listed = job[p].listed /\ new.todo = job[p].todo /\ new.err = job[p].err
    BY <2>1 DEF Job
  <2>3. Alone(p) /\ pc'[p] = "register" /\ job'[p] = new
    BY <2>1 DEF IndInv, TypeOK, Goto, Alone, Kept
  <2>4. QED
    BY <2>1, <2>2, <2>3, ListedGoes
<1>2. CASE Registered(p)
  <2> PICK new : new = [job[p] EXCEPT !.key = TRUE]
    OBVIOUS
  <2>1. /\ job[p] \in Job /\ job' = [job EXCEPT ![p] = new] /\ Goto(p, "recheck")
    BY <1>2 DEF Registered, IndInv, TypeOK
  <2>2. /\ new.listed = job[p].listed /\ new.todo = job[p].todo /\ new.err = job[p].err
        /\ new.obj = job[p].obj
    BY <2>1 DEF Job
  <2>3. Alone(p) /\ pc'[p] = "recheck" /\ job'[p] = new
    BY <2>1 DEF IndInv, TypeOK, Goto, Alone, Kept
  <2>4. AtKey(p)' /\ Obj(p)' = Obj(p)
    BY <2>2, <2>3 DEF AtKey, Obj
  <2>5. QED
    BY <2>2, <2>3, <2>4, ListedGoes
<1>3. CASE RegisterFails(p)
  BY <1>3, ListedGoto DEF RegisterFails, Label
<1>4. CASE Recheck(p)
  BY <1>4, ListedGoto DEF Recheck, Label, ghosts
<1>5. CASE Activate(p)
  BY <1>5, ListedReturn DEF Activate
<1>6. CASE ActivateFails(p)
  BY <1>6, ListedGoto DEF ActivateFails, Label
<1>7. QED
  BY <1>1, <1>2, <1>3, <1>4, <1>5, <1>6 DEF Issue

LEMMA RevokeListed ==
  ASSUME IndInv, ListedInv, DoneStays, NEW p \in Calls, Revoke(p)
  PROVE  ListedInv'
<1>1. CASE Revoked(p) \/ RevokeFails(p)
  BY <1>1, ListedGoto DEF Revoked, RevokeFails, Label
<1>2. ASSUME AtKey(p), Continue(p, TRUE) PROVE ListedInv'
  BY <1>2, AtHand, ListedContinue
<1>3. CASE MarkedRevoked(p)
  <2> PICK o : o = Obj(p)
    OBVIOUS
  <2>1. /\ pc[p] = "markRevoked" /\ AtKey(p) /\ Continue(p, FALSE) /\ gb' = gb
        /\ client' = [client EXCEPT ![o].state = "revoked"]
    BY <1>3 DEF MarkedRevoked, AtKey
  <2>2. o \in Clients /\ gb[o] = "revoked"
    BY <2>1, AtHand DEF JobInv
  <2>3. client'[o] = [client[o] EXCEPT !.state = "revoked"]
    BY <2>1, <2>2 DEF IndInv, TypeOK
  <2>4. client'[o].state = "revoked"
    BY <2>2, <2>3, ClientShape
  <2>5. Done(o)'
    BY <2>1, <2>2, <2>4 DEF Done
  <2>6. QED
    BY <2>1, <2>2, <2>5, ListedContinue
<1>4. CASE MarkRevokedFails(p) \/ MarkedOrphan(p) \/ MarkOrphanFails(p)
  BY <1>2, <1>4 DEF MarkRevokedFails, MarkedOrphan, MarkOrphanFails, AtKey
<1>5. QED
  BY <1>1, <1>3, <1>4 DEF Revoke

LEMMA RemoveListed ==
  ASSUME IndInv, ListedInv, DoneStays, NEW p \in Calls, Remove(p)
  PROVE  ListedInv'
<1>1. CASE Leave(p)
  BY <1>1, ListedGoto DEF Leave, Label, AtKey
<1>2. CASE List(p)
  <2> PICK found : found = {c \in Revocable : job[p].op = "leave" => client[c].user = Obj(p)}
    OBVIOUS
  <2> PICK new : new = [job[p] EXCEPT !.obj = None, !.todo = found, !.listed = found]
    OBVIOUS
  <2>1. job[p] \in Job /\ job' = [job EXCEPT ![p] = new] /\ Goto(p, "next")
    BY <1>2 DEF List, IndInv, TypeOK
  <2>2. new.listed = found /\ new.todo = found
    BY <2>1 DEF Job
  <2>3. Alone(p) /\ pc'[p] = "next" /\ job'[p] = new
    BY <2>1 DEF IndInv, TypeOK, Goto, Alone, Kept
  <2>4. ListedJob(p)'
    BY <2>2, <2>3 DEF ListedJob
  <2>5. QED
    BY <2>3, <2>4, ListedStep
<1>3. ASSUME NEW c \in Clients, Pick(p, c) PROVE ListedInv'
  <2> PICK new : new = [job[p] EXCEPT !.obj = c, !.key = TRUE, !.todo = @ \ {c}]
    OBVIOUS
  <2>1. /\ job[p] \in Job /\ job' = [job EXCEPT ![p] = new] /\ Goto(p, "revoke")
        /\ ~AtKey(p)
    BY <1>3 DEF Pick, IndInv, TypeOK, AtKey
  <2>2. /\ new.listed = job[p].listed /\ new.todo = job[p].todo \ {c} /\ new.obj = c
        /\ new.err = job[p].err /\ job[p].listed \subseteq Clients
    BY <2>1 DEF Job
  <2>3. Alone(p) /\ pc'[p] = "revoke" /\ job'[p] = new
    BY <2>1 DEF IndInv, TypeOK, Goto, Alone, Kept
  <2>4. AtKey(p)' /\ Obj(p)' = c
    BY <2>2, <2>3 DEF AtKey, Obj
  <2>5. \A d \in job[p].listed : d \in job[p].todo \/ job[p].err \/ Done(d)
    BY <2>1 DEF ListedInv, ListedJob
  <2>6. \A d \in job[p].listed : d \in new.todo \/ d = c \/ new.err \/ Done(d)'
    BY <2>2, <2>5 DEF DoneStays
  <2>7. ListedJob(p)'
    BY <2>2, <2>3, <2>4, <2>6 DEF ListedJob
  <2>8. QED
    BY <2>3, <2>7, ListedStep
<1>4. CASE LoopDone(p)
  <2>1. CASE job[p].op = "archive" /\ ~job[p].err
    <3>1. Goto(p, "archive") /\ UNCHANGED job /\ ~AtKey(p) /\ job[p].todo = {}
      BY <1>4, <2>1 DEF LoopDone, AtKey
    <3>2. Alone(p) /\ job'[p] = job[p] /\ job[p].listed \subseteq Clients
      BY <3>1, GotoStep, JobShape DEF Label
    <3>3. ListedJob(p)'
      BY <2>1, <3>1, <3>2 DEF ListedInv, ListedJob, DoneStays
    <3>4. QED
      BY <3>2, <3>3, ListedStep
  <2>2. CASE ~(job[p].op = "archive" /\ ~job[p].err)
    BY <1>4, <2>2, ListedReturn DEF LoopDone
  <2>3. QED
    BY <2>1, <2>2
<1>5. CASE Archive(p) \/ Delete(p)
  BY <1>5, ListedReturn DEF Archive, Delete
<1>6. QED
  BY <1>1, <1>2, <1>3, <1>4, <1>5 DEF Remove

LEMMA NextListed == IndInv /\ ListedInv /\ [Next]_vars => ListedInv'
<1> SUFFICES ASSUME IndInv, ListedInv, [Next]_vars PROVE ListedInv'
  OBVIOUS
<1>1. DoneStays
  BY NextDone
<1>2. CASE UNCHANGED vars \/ Settle \/ \E i \in Invs : Expire(i)
  <2>1. pc' = pc /\ job' = job
    BY <1>2 DEF vars, Settle, Expire
  <2>2. \A q \in Calls : (AtKey(q)' <=> AtKey(q)) /\ Obj(q)' = Obj(q)
    BY <2>1 DEF AtKey, Obj
  <2>3. ASSUME NEW q \in Calls PROVE ListedJob(q)'
    <3>1. job[q].listed \subseteq Clients
      BY JobShape
    <3>2. QED
      BY <1>1, <2>1, <2>2, <3>1 DEF ListedInv, ListedJob, DoneStays
  <2>4. QED
    BY <2>3 DEF ListedInv
<1>3. CASE \E p \in Calls : Handler(p) \/ Issue(p) \/ Revoke(p) \/ Remove(p)
  BY <1>1, <1>3, HandlerListed, IssueListed, RevokeListed, RemoveListed
<1>4. CASE \E p \in Calls : Invitation(p) \/ Fails(p)
  BY <1>1, <1>4, ListedReturn DEF Invitation, Invite, Withdraw, Join, Joined, Fails
<1>5. CASE Restart
  BY <1>5, NoJobType DEF Restart, ListedInv, ListedJob
<1>6. QED
  BY <1>2, <1>3, <1>4, <1>5 DEF Next

\* A removal reported done and the removal of the brain have revoked every key
\* they found: no failure is forgotten, and nothing undoes a revocation.
THEOREM RevocationsAreComplete == Spec => RevocationsComplete
<1> DEFINE Complete(p) == (LoopDone(p) /\ ~job[p].err) \/ Archive(p) \/ Delete(p) =>
                            \A c \in job[p].listed : Done(c)
<1>1. Init => ListedInv
  BY NoJobType DEF Init, ListedInv, ListedJob
<1>2. ListedInv => \A p \in Calls : Complete(p)
  <2> SUFFICES ASSUME ListedInv, NEW p \in Calls,
                      (LoopDone(p) /\ ~job[p].err) \/ Archive(p) \/ Delete(p)
               PROVE  \A c \in job[p].listed : Done(c)
    OBVIOUS
  <2>1. job[p].todo = {} /\ ~job[p].err /\ ~AtKey(p)
    BY DEF LoopDone, Archive, Delete, AtKey, ListedInv, ListedJob
  <2>2. QED
    BY <2>1 DEF ListedInv, ListedJob
<1>3. IndInv /\ ListedInv /\ [Next]_vars => ListedInv' /\ [\A p \in Calls : Complete(p)]_vars
  BY <1>2, NextListed
<1>4. QED
  BY <1>1, <1>3, Safety, PTL DEF Spec, RevocationsComplete
=============================================================================
