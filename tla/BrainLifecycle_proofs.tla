------------------------ MODULE BrainLifecycle_proofs ------------------------
(***************************************************************************)
(* Proofs about BrainLifecycle: for any number of brains, requests and     *)
(* GBrain clients.                                                         *)
(***************************************************************************)
EXTENDS BrainLifecycle, TLAPS

\* The parts of the three properties that speak of one brain or one client.
Pending(b) ==
  brain[b] = "provisioning" =>
    b \in cut \/ \E p \in Calls : job[p].op \in {"create", "adopt"} /\ Of(p) = b

Named(i) ==
  gb[i].status = "live" =>
    \/ i \in stray
    \/ writer[gb[i].b].id = i
    \/ \E p \in Procs : mu = p /\ job[p].gid = i /\ Of(p) = gb[i].b

Cached(b) ==
  cache[b] # None /\ brain[b] # "deleted" =>
    writer[b] = [state |-> "active", id |-> cache[b]]

HasBrain(i) == gb[i].status # "unused" => gb[i].b \in Brains

LEMMA InvParts ==
  Inv <=> /\ TypeOK
          /\ \A p \in Procs : RequestInv(p)
          /\ \A b \in Brains : BrainInv(b) /\ Pending(b) /\ Cached(b)
          /\ \A i \in Ids : HasBrain(i) /\ Named(i)
  BY Zenon DEF Inv, ProvisioningIsPending, EveryWriterNamed, RowNames, InHand, CachedWriterCurrent,
     Pending, Named, Cached, HasBrain

LEMMA InvPartsNext ==
  Inv' <=> /\ TypeOK'
           /\ \A p \in Procs : RequestInv(p)'
           /\ \A b \in Brains : BrainInv(b)' /\ Pending(b)' /\ Cached(b)'
           /\ \A i \in Ids : HasBrain(i)' /\ Named(i)'
  BY Zenon DEF Inv, ProvisioningIsPending, EveryWriterNamed, RowNames, InHand, CachedWriterCurrent,
     Pending, Named, Cached, HasBrain, Of

-----------------------------------------------------------------------------
(* Types.                                                                  *)

\* The requests' variables.
ProcTypes ==
  /\ pc \in [Procs -> Label]
  /\ job \in [Procs -> Job]
  /\ mu \in Procs \union {None}

\* The other variables.
DataTypes ==
  /\ brain \in [Brains -> State]
  /\ writer \in [Brains -> Writer]
  /\ source \in BOOLEAN
  /\ gb \in [Ids -> [status : {"unused", "live", "revoked"}, b : Brains \union {None}]]
  /\ cache \in [Brains -> Ids \union {None}]
  /\ phase \in {"boot", "serve"} /\ todo \subseteq Brains
  /\ stray \subseteq Ids /\ cut \subseteq Brains /\ reissued \subseteq Brains

LEMMA TypeParts == TypeOK <=> ProcTypes /\ DataTypes
  BY DEF TypeOK, ProcTypes, DataTypes

LEMMA TypePartsNext == TypeOK' <=> ProcTypes' /\ DataTypes'
  BY DEF TypeOK, ProcTypes, DataTypes

\* Nobody is no process, no client and no brain.
LEMMA NoneIsNothing == None \notin Procs /\ None \notin Ids /\ None \notin Brains
  BY NoneAssumption DEF Procs

LEMMA NoJobType ==
  /\ NoJob \in Job /\ NoJob.op = "none" /\ NoJob.gid = None /\ NoJob.seen = "none"
  /\ NoJob.b = None
  BY DEF Job, NoJob

\* A request that is under way has a record of all four fields.
LEMMA JobShape ==
  ASSUME Inv, NEW p \in Procs, pc[p] # "idle"
  PROVE  /\ job[p] \in [op : {"create", "adopt", "reissue", "archive", "boot"}, b : Brains,
                        gid : Ids \union {None}, seen : State]
         /\ Of(p) \in Brains /\ job[p].gid \in Ids \union {None}
<1>1. job[p] \in Job /\ job[p] # NoJob
  BY DEF Inv, TypeOK, RequestInv
<1>2. QED
  BY <1>1 DEF Job, Of

LEMMA WriterShape ==
  ASSUME Inv, NEW b \in Brains
  PROVE  /\ writer[b].state \in {"none", "issuing", "active", "orphan"}
         /\ writer[b].id \in Ids \union {None}
         /\ writer[b].state = "none" => writer[b] = NoWriter
         /\ writer[b].state = "issuing" => writer[b] = Issuing
         /\ writer[b].state = "active" => writer[b].id \in Ids
         /\ writer[b].state = "active" => writer[b] = [state |-> "active", id |-> writer[b].id]
         /\ writer[b].state = "active" => ~Blank(b)
         /\ Blank(b) => writer[b].id = None
<1>1. writer[b] \in Writer
  BY DEF Inv, TypeOK
<1>2. CASE writer[b] = NoWriter
  BY <1>2 DEF NoWriter, Blank
<1>3. CASE writer[b] = Issuing
  BY <1>3 DEF Issuing, Blank
<1>4. CASE writer[b] \in [state : {"active"}, id : Ids]
  BY <1>4 DEF Blank, NoWriter, Issuing
<1>5. CASE writer[b] \in [state : {"orphan"}, id : Ids \union {None}]
  BY <1>5 DEF Blank, NoWriter, Issuing
<1>6. QED
  BY <1>1, <1>2, <1>3, <1>4, <1>5 DEF Writer

LEMMA ClientShape ==
  ASSUME Inv, NEW i \in Ids
  PROVE  /\ gb[i] \in [status : {"unused", "live", "revoked"}, b : Brains \union {None}]
         /\ gb[i].status # "unused" => gb[i].b \in Brains
  BY DEF Inv, TypeOK

-----------------------------------------------------------------------------
(* Steps of one request.                                                   *)

\* A step of p leaves the other requests where they are.
Alone(p) ==
  \A q \in Procs \ {p} : pc'[q] = pc[q] /\ job'[q] = job[q] /\ (mu' = q <=> mu = q)

LEMMA GotoStep ==
  ASSUME Inv, NEW p \in Procs, NEW l \in Label, Goto(p, l), UNCHANGED <<job, mu>>
  PROVE  ProcTypes' /\ Alone(p) /\ pc'[p] = l
  BY DEF Inv, TypeOK, ProcTypes, Goto, Alone

LEMMA BeginStep ==
  ASSUME Inv, NEW p \in Procs, NEW b \in Brains, UNCHANGED mu,
         NEW l, l \in Label, NEW op, Begin(p, op, b, l),
         op \in {"create", "adopt", "reissue", "archive", "boot"}
  PROVE  /\ ProcTypes' /\ Alone(p) /\ pc'[p] = l /\ pc[p] = "idle" /\ mu # p
         /\ job[p] = NoJob
         /\ job'[p] = [op |-> op, b |-> b, gid |-> None, seen |-> brain[b]]
<1>1. [op |-> op, b |-> b, gid |-> None, seen |-> brain[b]] \in Job
  BY DEF Inv, TypeOK, Job
<1>2. mu # p
  BY DEF Inv, RequestInv, Begin, Critical
<1>3. QED
  BY <1>1, <1>2 DEF Inv, TypeOK, RequestInv, ProcTypes, Begin, Goto, Alone

LEMMA ReturnStep ==
  ASSUME Inv, NEW p \in Procs, Return(p)
  PROVE  /\ ProcTypes' /\ Alone(p) /\ pc'[p] = "idle" /\ job'[p] = NoJob /\ mu' # p
         /\ RequestInv(p)'
<1>1. ProcTypes' /\ Alone(p) /\ pc'[p] = "idle" /\ job'[p] = NoJob /\ mu' # p
  BY NoJobType, NoneIsNothing DEF Inv, TypeOK, ProcTypes, Return, Release, Alone, Label
<1>2. RequestInv(p)'
  BY <1>1, NoJobType DEF RequestInv, Critical
<1>3. QED
  BY <1>1, <1>2

\* Where a request goes when provision returns.
LEMMA ProvideStep ==
  ASSUME Inv, NEW p \in Procs, NEW ok \in BOOLEAN, Provide(p, ok)
  PROVE  /\ ProcTypes' /\ Alone(p) /\ mu' # p
         /\ \/ /\ pc'[p] = "idle" /\ job'[p] = NoJob
               /\ job[p].op \notin {"create", "adopt"}
            \/ /\ pc'[p] = "degraded" /\ job'[p] = job[p]
               /\ job[p].op \in {"create", "adopt"}
            \/ /\ pc'[p] = "ready" /\ job'[p] = job[p] /\ ok
               /\ job[p].op \in {"create", "adopt"} \/ job[p].seen = "degraded"
<1>1. mu' \in Procs \union {None} /\ mu' # p /\ \A q \in Procs \ {p} : mu' = q <=> mu = q
  BY NoneIsNothing DEF Inv, TypeOK, Provide, Release
<1>2. CASE job[p].op \in {"create", "adopt"}
  <2>1. Goto(p, IF ok THEN "ready" ELSE "degraded") /\ UNCHANGED job
    BY <1>2 DEF Provide
  <2>2. QED
    BY <1>1, <1>2, <2>1 DEF Inv, TypeOK, ProcTypes, Goto, Alone, Label
<1>3. CASE job[p].op = "reissue" /\ ok /\ job[p].seen = "degraded"
  <2>1. Goto(p, "ready") /\ UNCHANGED job
    BY <1>3 DEF Provide
  <2>2. QED
    BY <1>1, <1>3, <2>1 DEF Inv, TypeOK, ProcTypes, Goto, Alone, Label
<1>4. CASE job[p].op \notin {"create", "adopt"}
           /\ ~(job[p].op = "reissue" /\ ok /\ job[p].seen = "degraded")
  <2>1. pc' = [pc EXCEPT ![p] = "idle"] /\ job' = [job EXCEPT ![p] = NoJob]
    BY <1>4 DEF Provide
  <2>2. QED
    BY <1>1, <1>4, <2>1, NoJobType DEF Inv, TypeOK, ProcTypes, Alone, Label
<1>5. QED
  BY <1>2, <1>3, <1>4

\* What is said of that request there.
LEMMA ProvideInv ==
  ASSUME Inv, NEW p \in Procs, NEW ok \in BOOLEAN, Provide(p, ok),
         pc[p] \notin {"idle", "shim", "failed"}, UNCHANGED source,
         NEW b, b = Of(p), ok => Backed(b)',
         job[p].gid # None => gb'[job[p].gid].b = Of(p) /\ gb'[job[p].gid].status # "unused"
  PROVE  RequestInv(p)'
<1>1. CASE pc'[p] = "idle" /\ job'[p] = NoJob
  BY <1>1, ProvideStep, NoJobType DEF RequestInv, Critical
<1>2. CASE /\ pc'[p] \in {"ready", "degraded"} /\ job'[p] = job[p]
           /\ pc'[p] = "ready" => ok
           /\ job[p].op \in {"create", "adopt"} \/ job[p].seen = "degraded"
  <2>1. source
    BY <1>2 DEF Inv, RequestInv
  <2>2. job[p] # NoJob /\ mu' # p
    BY ProvideStep DEF Inv, RequestInv
  <2>3. Of(p)' = b
    BY <1>2 DEF Of
  <2>4. pc'[p] = "ready" => Backed(Of(p))'
    BY <1>2, <2>3 DEF Backed
  <2>5. QED
    BY <1>2, <2>1, <2>2, <2>4 DEF RequestInv, Critical, Of
<1>3. QED
  BY <1>1, <1>2, ProvideStep

\* What the others rely on is kept by a step that forgets no registration and
\* takes no backing away, unless they hold the mutex.
LEMMA Others ==
  ASSUME Inv, NEW p \in Procs, Alone(p), source => source',
         \A i \in Ids : gb[i].status # "unused" =>
           gb'[i].b = gb[i].b /\ gb'[i].status # "unused",
         \A b \in Brains : Backed(b) => Backed(b)',
         NEW q \in Procs \ {p}, pc[q] \in Critical => HolderInv(q)'
  PROVE  RequestInv(q)'
<1>1. RequestInv(q) /\ pc'[q] = pc[q] /\ job'[q] = job[q] /\ (mu' = q <=> mu = q)
  BY DEF Inv, Alone
<1>2. job[q].gid # None => gb'[job[q].gid].b = Of(q) /\ gb'[job[q].gid].status # "unused"
  <2>1. job[q].gid # None => job[q].gid \in Ids
    BY <1>1, JobShape, NoJobType DEF RequestInv
  <2>2. QED
    BY <1>1, <2>1 DEF RequestInv
<1>3. pc[q] = "ready" => Backed(Of(q))'
  <2>1. pc[q] = "ready" => Of(q) \in Brains /\ Backed(Of(q)) /\ Of(q)' = Of(q)
    BY <1>1, JobShape DEF RequestInv, Of
  <2>2. pc[q] = "ready" => \A b \in Brains : b = Of(q) => Backed(b)'
    BY <2>1
  <2>3. QED
    BY <2>1, <2>2 DEF Backed
<1>4. QED
  BY <1>1, <1>2, <1>3 DEF RequestInv, Of

\* A step of p that changes no brain, no writer and no client.
LEMMA Frame ==
  ASSUME Inv, NEW p \in Procs, UNCHANGED <<brain, writer, gb, cache, reissued>>,
         source => source', stray \subseteq stray', cut \subseteq cut',
         TypeOK', Alone(p), RequestInv(p)',
         job[p].op \in {"create", "adopt"} =>
           Of(p) \in cut' \/ (job'[p].op \in {"create", "adopt"} /\ job'[p].b = Of(p)),
         \A i \in Ids : mu = p /\ job[p].gid = i /\ gb[i].status = "live" =>
           \/ i \in stray' \/ MyWriter(p).id = i
           \/ mu' = p /\ job'[p].gid = i /\ job'[p].b = Of(p)
  PROVE  Inv'
<1>1. ASSUME NEW q \in Procs PROVE RequestInv(q)'
  <2>1. CASE q = p
    BY <2>1
  <2>2. CASE q # p
    <3>1. pc[q] \in Critical => HolderInv(q)'
      BY <2>2 DEF Inv, RequestInv, HolderInv, Alone, Of, Blank
    <3>2. \A b \in Brains : Backed(b) => Backed(b)'
      BY DEF Backed
    <3>3. QED
      BY <2>2, <3>1, <3>2, Others
  <2>3. QED
    BY <2>1, <2>2
<1>2. ASSUME NEW b \in Brains PROVE BrainInv(b)' /\ Pending(b)' /\ Cached(b)'
  <2>1. BrainInv(b) /\ Pending(b) /\ Cached(b)
    BY InvParts
  <2>2. BrainInv(b)' /\ Cached(b)'
    BY <2>1 DEF BrainInv, Cached, Backed
  <2>3. Pending(b)'
    <3>1. CASE b \in cut \/ brain[b] # "provisioning"
      BY <3>1 DEF Pending
    <3>2. ASSUME NEW q \in Calls, job[q].op \in {"create", "adopt"}, Of(q) = b PROVE Pending(b)'
      BY <3>2 DEF Pending, Alone, Procs, Of
    <3>3. QED
      BY <2>1, <3>1, <3>2 DEF Pending
  <2>4. QED
    BY <2>2, <2>3
<1>3. ASSUME NEW i \in Ids PROVE HasBrain(i)' /\ Named(i)'
  <2>1. HasBrain(i) /\ Named(i)
    BY InvParts
  <2>2. Named(i)'
    <3>1. CASE gb[i].status # "live" \/ i \in stray \/ writer[gb[i].b].id = i
      BY <3>1 DEF Named
    <3>2. ASSUME gb[i].status = "live", NEW q \in Procs, mu = q, job[q].gid = i,
                 Of(q) = gb[i].b
          PROVE  Named(i)'
      BY <3>2 DEF Named, Alone, Of, MyWriter
    <3>3. QED
      BY <2>1, <3>1, <3>2 DEF Named
  <2>3. QED
    BY <2>1, <2>2 DEF HasBrain
<1>4. QED
  BY <1>1, <1>2, <1>3, InvPartsNext

\* A step of a request that nobody else's mutex protects from: it may change
\* the writer and the clients of its own brain.
LEMMA HolderFrame ==
  ASSUME Inv, NEW p \in Procs, pc[p] # "idle", mu \in {None, p},
         UNCHANGED <<brain, source>>, stray \subseteq stray', cut \subseteq cut',
         TypeOK', Alone(p), RequestInv(p)',
         \A b \in Brains \ {Of(p)} : /\ writer'[b] = writer[b] /\ cache'[b] = cache[b]
                                     /\ (b \in reissued' <=> b \in reissued),
         \A i \in Ids : \/ gb'[i] = gb[i]
                        \/ /\ gb[i].status = "unused" \/ gb[i].b = Of(p)
                           /\ gb'[i].b = Of(p) /\ gb'[i].status # "unused",
         NEW b \in Brains, b = Of(p), BrainInv(b)', Backed(b) => Backed(b)', Cached(b)',
         job[p].op \in {"create", "adopt"} =>
           job'[p].op \in {"create", "adopt"} /\ job'[p].b = b,
         \A i \in Ids : gb'[i].status = "live" /\ gb'[i].b = b =>
           \/ i \in stray' \/ writer'[b].id = i
           \/ mu' = p /\ job'[p].gid = i /\ job'[p].b = b
  PROVE  Inv'
<1>0. Of(p) \in Brains /\ None \notin Procs
  BY JobShape, NoneIsNothing
<1>1. ASSUME NEW q \in Procs PROVE RequestInv(q)'
  <2>1. CASE q = p
    BY <2>1
  <2>2. CASE q # p
    <3>1. pc[q] \notin Critical
      BY <1>0, <2>2 DEF Inv, RequestInv
    <3>2. \A c \in Brains : Backed(c) => Backed(c)'
      BY DEF Backed
    <3>3. \A i \in Ids : gb[i].status # "unused" =>
            gb'[i].b = gb[i].b /\ gb'[i].status # "unused"
      OBVIOUS
    <3>4. QED
      BY <2>2, <3>1, <3>2, <3>3, Others
  <2>3. QED
    BY <2>1, <2>2
<1>2. ASSUME NEW c \in Brains PROVE BrainInv(c)' /\ Pending(c)' /\ Cached(c)'
  <2>1. BrainInv(c) /\ Pending(c) /\ Cached(c)
    BY InvParts
  <2>2. Pending(c)'
    <3>1. CASE c \in cut \/ brain[c] # "provisioning"
      BY <3>1 DEF Pending
    <3>2. ASSUME NEW q \in Calls, job[q].op \in {"create", "adopt"}, Of(q) = c PROVE Pending(c)'
      BY <3>2 DEF Pending, Alone, Procs, Of
    <3>3. QED
      BY <2>1, <3>1, <3>2 DEF Pending
  <2>3. CASE c = b
    BY <2>2, <2>3
  <2>4. CASE c # b
    <3>1. writer'[c] = writer[c] /\ cache'[c] = cache[c] /\ (c \in reissued' <=> c \in reissued)
      BY <2>4
    <3>2. writer[c].id # None => gb'[writer[c].id] = gb[writer[c].id]
      BY <2>1, <2>4, WriterShape DEF BrainInv
    <3>3. BrainInv(c)'
      <4>1. writer[c].state = "active" => writer[c].id # None
        BY WriterShape, NoneIsNothing
      <4>2. QED
        BY <2>1, <3>1, <3>2, <4>1 DEF BrainInv, Backed
    <3>4. Cached(c)'
      BY <2>1, <3>1 DEF Cached
    <3>5. QED
      BY <2>2, <3>3, <3>4
  <2>5. QED
    BY <2>3, <2>4
<1>3. ASSUME NEW i \in Ids PROVE HasBrain(i)' /\ Named(i)'
  <2>1. HasBrain(i) /\ Named(i)
    BY InvParts
  <2>2. HasBrain(i)'
    BY <1>0, <2>1 DEF HasBrain
  <2>3. CASE gb'[i].b = b
    <3>1. CASE i \in stray' \/ writer'[b].id = i
      BY <2>2, <2>3, <3>1 DEF Named
    <3>2. CASE mu' = p /\ job'[p].gid = i /\ job'[p].b = b
      BY <2>2, <2>3, <3>2, Zenon DEF Named, Of
    <3>3. CASE gb'[i].status # "live"
      BY <2>2, <3>3, Zenon DEF Named
    <3>4. QED
      BY <2>3, <3>1, <3>2, <3>3
  <2>4. CASE gb'[i].b # b
    <3>1. gb'[i] = gb[i]
      BY <2>4
    <3>2. CASE gb[i].status # "live" \/ i \in stray
      BY <2>2, <3>1, <3>2, Zenon DEF Named
    <3>3. CASE gb[i].status = "live" /\ writer[gb[i].b].id = i
      <4>1. gb[i].b \in Brains \ {b}
        BY <2>1, <2>4, <3>1, <3>3 DEF HasBrain
      <4>2. writer'[gb[i].b] = writer[gb[i].b]
        BY <4>1
      <4>3. QED
        BY <2>2, <3>1, <3>3, <4>2, Zenon DEF Named
    <3>4. ASSUME NEW q \in Procs, mu = q, Of(q) = gb[i].b PROVE FALSE
      BY <1>0, <2>4, <3>1, <3>4
    <3>5. QED
      BY <2>1, <3>2, <3>3, <3>4 DEF Named
  <2>5. QED
    BY <2>2, <2>3, <2>4
<1>4. QED
  BY <1>1, <1>2, <1>3, InvPartsNext

\* A step that changes the state of one brain, and with it perhaps its
\* writer's row, under nothing but the WHERE clause of its statement.
LEMMA BrainStep ==
  ASSUME Inv, NEW p \in Procs, NEW b \in Brains, mu # p,
         UNCHANGED <<source, gb, cache, reissued, cut>>, stray \subseteq stray',
         TypeOK', Alone(p), RequestInv(p)',
         \A c \in Brains \ {b} : brain'[c] = brain[c] /\ writer'[c] = writer[c],
         writer'[b] = writer[b] \/ writer'[b] \in {NoWriter, Issuing},
         brain[b] = "deleted" => brain'[b] = "deleted",
         BrainInv(b)', Pending(b)', Cached(b)', Backed(b) => Backed(b)',
         job[p].op \in {"create", "adopt"} => Of(p) = b,
         \A i \in Ids : gb[i].status = "live" /\ writer[b].id = i =>
           i \in stray' \/ writer'[b].id = i
  PROVE  Inv'
<1>1. ASSUME NEW q \in Procs PROVE RequestInv(q)'
  <2>1. CASE q = p
    BY <2>1
  <2>2. CASE q # p
    <3>1. ASSUME pc[q] \in Critical PROVE HolderInv(q)'
      <4>1. HolderInv(q) /\ Of(q) \in Brains /\ pc'[q] = pc[q] /\ job'[q] = job[q]
        BY <2>2, <3>1, JobShape DEF Inv, RequestInv, Alone, Critical
      <4>2. CASE Of(q) # b
        BY <4>1, <4>2 DEF HolderInv, Of, Blank
      <4>3. CASE Of(q) = b
        <5>1. Blank(b) => Blank(b)'
          BY DEF Blank
        <5>2. writer'[b].id = writer[b].id \/ writer'[b].id = None
          BY DEF NoWriter, Issuing
        <5>3. b \in reissued \/ Blank(b) => b \in reissued' \/ Blank(b)'
          BY <5>1
        <5>4. QED
          BY <4>1, <4>3, <5>1, <5>2, <5>3 DEF HolderInv, Of
      <4>4. QED
        BY <4>2, <4>3
    <3>2. \A c \in Brains : Backed(c) => Backed(c)'
      BY DEF Backed
    <3>3. QED
      BY <2>2, <3>1, <3>2, Others
  <2>3. QED
    BY <2>1, <2>2
<1>2. ASSUME NEW c \in Brains PROVE BrainInv(c)' /\ Pending(c)' /\ Cached(c)'
  <2>1. BrainInv(c) /\ Pending(c) /\ Cached(c)
    BY InvParts
  <2>2. CASE c = b
    BY <2>2
  <2>3. CASE c # b
    <3>1. brain'[c] = brain[c] /\ writer'[c] = writer[c]
      BY <2>3
    <3>2. BrainInv(c)' /\ Cached(c)'
      BY <2>1, <3>1 DEF BrainInv, Cached, Backed
    <3>3. CASE c \in cut \/ brain[c] # "provisioning"
      BY <3>1, <3>2, <3>3 DEF Pending
    <3>4. ASSUME NEW q \in Calls, job[q].op \in {"create", "adopt"}, Of(q) = c PROVE Pending(c)'
      BY <2>3, <3>4 DEF Pending, Alone, Procs, Of
    <3>5. QED
      BY <2>1, <3>2, <3>3, <3>4 DEF Pending
  <2>4. QED
    BY <2>2, <2>3
<1>3. ASSUME NEW i \in Ids PROVE HasBrain(i)' /\ Named(i)'
  <2>1. HasBrain(i) /\ Named(i)
    BY InvParts
  <2>2. HasBrain(i)'
    BY <2>1 DEF HasBrain
  <2>3. CASE gb[i].status # "live" \/ i \in stray
    BY <2>2, <2>3, Zenon DEF Named
  <2>4. CASE gb[i].status = "live" /\ writer[gb[i].b].id = i
    <3>1. CASE gb[i].b = b
      BY <2>2, <2>4, <3>1 DEF Named
    <3>2. CASE gb[i].b # b
      <4>1. writer'[gb[i].b] = writer[gb[i].b]
        BY <2>1, <2>4, <3>2 DEF HasBrain
      <4>2. QED
        BY <2>2, <2>4, <4>1, Zenon DEF Named
    <3>3. QED
      BY <3>1, <3>2
  <2>5. ASSUME NEW q \in Procs, mu = q, job[q].gid = i, Of(q) = gb[i].b PROVE Named(i)'
    BY <2>5 DEF Named, Alone, Of
  <2>6. QED
    BY <2>1, <2>2, <2>3, <2>4, <2>5 DEF Named
<1>4. QED
  BY <1>1, <1>2, <1>3, InvPartsNext

\* What mu's holder may rely on.
LEMMA Holding ==
  ASSUME Inv, NEW p \in Procs, pc[p] \in Critical
  PROVE  mu = p /\ HolderInv(p) /\ RequestInv(p) /\ Of(p) \in Brains
         /\ BrainInv(Of(p)) /\ Cached(Of(p))
         /\ job[p].gid \in Ids \union {None} /\ pc[p] # "idle" /\ pc[p] \in Label
  BY JobShape, InvParts DEF RequestInv, Critical, Label

LEMMA NotHolding ==
  ASSUME Inv, NEW p \in Procs, pc[p] \notin Critical \union {"lock"}
  PROVE  mu # p /\ RequestInv(p)
  BY DEF Inv, RequestInv

-----------------------------------------------------------------------------
(* Creating and settling a brain.                                          *)

LEMMA InitInv == Init => Inv
<1> SUFFICES ASSUME Init PROVE Inv
  OBVIOUS
<1>1. TypeOK
  BY NoJobType DEF Init, TypeOK, State, Writer, Label
<1>2. ASSUME NEW p \in Procs PROVE RequestInv(p)
  BY NoneIsNothing, NoJobType DEF Init, RequestInv, Critical
<1>3. ASSUME NEW b \in Brains PROVE BrainInv(b) /\ Pending(b) /\ Cached(b)
  BY DEF Init, BrainInv, Pending, Cached, NoWriter
<1>4. ASSUME NEW i \in Ids PROVE HasBrain(i) /\ Named(i)
  BY DEF Init, HasBrain, Named
<1>5. QED
  BY <1>1, <1>2, <1>3, <1>4, InvParts

LEMMA CreateRecordsInv ==
  ASSUME Inv, NEW p \in Calls, NEW b \in Brains, NEW op \in {"create", "adopt"},
         op = "adopt" => source, CreateRecords(p, b, op)
  PROVE  Inv'
<1> DEFINE l == IF op = "create" THEN "shim" ELSE "lock"
<1>1. /\ brain[b] = "none" /\ brain' = [brain EXCEPT ![b] = "provisioning"]
      /\ writer' = [writer EXCEPT ![b] = Issuing]
      /\ Begin(p, op, b, l)
      /\ UNCHANGED <<source, gb, cache, mu, phase, todo, stray, cut, reissued>>
  BY DEF CreateRecords, booting, ghosts
<1>2. p \in Procs /\ l \in Label
  BY DEF Procs, Label
<1>3. /\ ProcTypes' /\ Alone(p) /\ pc'[p] = l /\ mu # p /\ job[p] = NoJob
      /\ job'[p] = [op |-> op, b |-> b, gid |-> None, seen |-> "none"]
  <2> HIDE DEF l
  <2>1. mu' = mu /\ op \in {"create", "adopt", "reissue", "archive", "boot"}
    BY <1>1
  <2>2. ProcTypes' /\ Alone(p) /\ mu # p /\ job[p] = NoJob
    BY <1>1, <1>2, <2>1, BeginStep
  <2>3. pc'[p] = l /\ job'[p] = [op |-> op, b |-> b, gid |-> None, seen |-> brain[b]]
    BY <1>1, <1>2 DEF Inv, TypeOK, Begin, Goto
  <2>4. QED
    BY <1>1, <2>2, <2>3
<1>4. /\ brain \in [Brains -> State] /\ writer \in [Brains -> Writer] /\ BrainInv(b) /\ Cached(b)
  BY InvParts DEF TypeOK
<1>5. TypeOK'
  BY <1>1, <1>3, <1>4, TypePartsNext DEF Inv, TypeOK, DataTypes, State, Writer
<1>6. writer[b] = NoWriter /\ cache[b] = None
  BY <1>1, <1>4 DEF BrainInv, Cached, NoWriter
<1>7. writer'[b] = Issuing /\ brain'[b] = "provisioning"
      /\ \A c \in Brains \ {b} : brain'[c] = brain[c] /\ writer'[c] = writer[c]
  BY <1>1, <1>4
<1>8. RequestInv(p)'
  <2>1. job'[p] # NoJob
    BY <1>3 DEF NoJob
  <2>2. QED
    BY <1>1, <1>3, <2>1 DEF RequestInv, Critical
<1>9. BrainInv(b)' /\ Cached(b)'
  BY <1>1, <1>6, <1>7 DEF BrainInv, Cached, Issuing
<1>10. Pending(b)'
  BY <1>3 DEF Pending, Of
<1>11. ~Backed(b) /\ job[p].op \notin {"create", "adopt"} /\ writer[b].id = None
  BY <1>1, <1>3, <1>6, NoJobType DEF Backed, NoWriter
<1>12. \A i \in Ids : writer[b].id # i
  BY <1>11, NoneIsNothing
<1>13. QED
  BY <1>1, <1>2, <1>3, <1>5, <1>7, <1>8, <1>9, <1>10, <1>11, <1>12, BrainStep

LEMMA ProvisionedInv == ASSUME Inv, NEW p \in Calls, Provisioned(p) PROVE Inv'
<1>1. /\ pc[p] = "shim" /\ source' = TRUE /\ Goto(p, "lock")
      /\ UNCHANGED <<brain, writer, gb, cache, mu, phase, todo, job, stray, cut, reissued>>
  BY DEF Provisioned, booting, ghosts
<1>2. p \in Procs /\ "lock" \in Label
  BY DEF Procs, Label
<1>3. ProcTypes' /\ Alone(p) /\ pc'[p] = "lock"
  BY <1>1, <1>2, GotoStep
<1>4. TypeOK'
  BY <1>1, <1>3, TypePartsNext DEF Inv, TypeOK, DataTypes
<1>5. mu # p /\ RequestInv(p)
  BY <1>1, <1>2, NotHolding DEF Critical
<1>6. RequestInv(p)'
  BY <1>1, <1>3, <1>5 DEF RequestInv, Critical, Of
<1>7. QED
  BY <1>1, <1>2, <1>3, <1>4, <1>5, <1>6, Frame DEF Of

LEMMA ProvisionFailsInv == ASSUME Inv, NEW p \in Calls, ProvisionFails(p) PROVE Inv'
<1>1. /\ pc[p] = "shim" /\ source' \in {source, TRUE} /\ Goto(p, "failed")
      /\ UNCHANGED <<brain, writer, gb, cache, mu, phase, todo, job, stray, cut, reissued>>
  BY DEF ProvisionFails, booting, ghosts
<1>2. p \in Procs /\ "failed" \in Label
  BY DEF Procs, Label
<1>3. ProcTypes' /\ Alone(p) /\ pc'[p] = "failed"
  BY <1>1, <1>2, GotoStep
<1>4. TypeOK'
  BY <1>1, <1>3, TypePartsNext DEF Inv, TypeOK, DataTypes
<1>5. mu # p /\ RequestInv(p)
  BY <1>1, <1>2, NotHolding DEF Critical
<1>6. RequestInv(p)' /\ (source => source')
  BY <1>1, <1>3, <1>5 DEF RequestInv, Critical, Of
<1>7. QED
  BY <1>1, <1>2, <1>3, <1>4, <1>5, <1>6, Frame DEF Of

\* WHERE state IN ('provisioning', 'degraded'): what is settled as ready was
\* backed when provision returned, and is still.
LEMMA TransitionInv == ASSUME Inv, NEW p \in Calls, Transition(p) PROVE Inv'
<1> DEFINE b == Of(p)
<1>1. /\ pc[p] \in {"ready", "degraded", "failed"} /\ brain[b] \in {"provisioning", "degraded"}
      /\ brain' = [brain EXCEPT ![b] = pc[p]] /\ Return(p)
      /\ UNCHANGED <<writer, source, gb, cache, phase, todo, stray, cut, reissued>>
  BY DEF Transition, booting, ghosts
<1>2. p \in Procs
  BY DEF Procs
<1>3. /\ ProcTypes' /\ Alone(p) /\ RequestInv(p)'
  BY <1>1, <1>2, ReturnStep
<1>4. /\ b \in Brains /\ brain \in [Brains -> State] /\ BrainInv(b) /\ Cached(b)
  BY <1>1, <1>2, JobShape, InvParts DEF TypeOK
<1>5. mu # p /\ RequestInv(p)
  BY <1>1, <1>2, NotHolding DEF Critical
<1>6. TypeOK'
  BY <1>1, <1>3, <1>4, TypePartsNext DEF Inv, TypeOK, DataTypes, State
<1>7. PICK c \in Brains : c = b
  BY <1>4
<1>8. brain'[c] = pc[p] /\ \A d \in Brains \ {c} : brain'[d] = brain[d] /\ writer'[d] = writer[d]
  BY <1>1, <1>4, <1>7
<1>9. pc[p] = "ready" => Backed(c)
  BY <1>5, <1>7 DEF RequestInv
<1>10. pc[p] \in {"ready", "degraded"} => source
  BY <1>5 DEF RequestInv
<1>11. Backed(c) => Backed(c)'
  BY <1>1, <1>7, <1>8 DEF Backed
<1>12. BrainInv(c)'
  BY <1>1, <1>4, <1>7, <1>8, <1>9, <1>10, <1>11 DEF BrainInv
<1>13. Cached(c)' /\ Pending(c)'
  BY <1>1, <1>4, <1>7, <1>8 DEF Cached, Pending
<1>14. QED
  BY <1>1, <1>2, <1>3, <1>5, <1>6, <1>7, <1>8, <1>11, <1>12, <1>13, BrainStep

LEMMA TransitionFailsInv == ASSUME Inv, NEW p \in Calls, TransitionFails(p) PROVE Inv'
<1>1. /\ pc[p] \in {"ready", "degraded", "failed"} /\ cut' = cut \union {Of(p)} /\ Return(p)
      /\ UNCHANGED <<brain, writer, source, gb, cache, phase, todo, stray, reissued>>
  BY DEF TransitionFails, booting
<1>2. p \in Procs
  BY DEF Procs
<1>3. ProcTypes' /\ Alone(p) /\ RequestInv(p)'
  BY <1>1, <1>2, ReturnStep
<1>4. mu # p /\ Of(p) \in Brains
  BY <1>1, <1>2, NotHolding, JobShape DEF Critical
<1>5. TypeOK'
  BY <1>1, <1>3, <1>4, TypePartsNext DEF Inv, TypeOK, DataTypes
<1>6. QED
  BY <1>1, <1>2, <1>3, <1>4, <1>5, Frame

\* A request that reads the brain and goes on to its writer or its archive.
LEMMA BeginInv ==
  ASSUME Inv, NEW p \in Procs, NEW b \in Brains,
         NEW op \in {"reissue", "archive", "boot"}, NEW l \in {"relock", "archive", "lock"},
         l = "relock" => op = "reissue", l = "archive" => op = "archive",
         Begin(p, op, b, l), todo' \subseteq Brains,
         UNCHANGED <<brain, writer, source, gb, cache, mu, phase, stray, cut, reissued>>
  PROVE  Inv'
<1>1. l \in Label
  BY DEF Label
<1>2. /\ ProcTypes' /\ Alone(p) /\ pc'[p] = l /\ mu # p /\ job[p] = NoJob
      /\ job'[p] = [op |-> op, b |-> b, gid |-> None, seen |-> brain[b]]
  <2>1. mu' = mu /\ op \in {"create", "adopt", "reissue", "archive", "boot"}
    OBVIOUS
  <2>2. ProcTypes' /\ Alone(p)
    BY <1>1, <2>1, BeginStep
  <2>3. mu # p /\ job[p] = NoJob
    BY <1>1, <2>1, BeginStep
  <2>4. pc'[p] = l /\ job'[p] = [op |-> op, b |-> b, gid |-> None, seen |-> brain[b]]
    BY DEF Inv, TypeOK, Begin, Goto
  <2>5. QED
    BY <2>2, <2>3, <2>4
<1>3. TypeOK'
  BY <1>2, TypePartsNext DEF Inv, TypeOK, DataTypes
<1>4. BrainInv(b)
  BY DEF Inv
<1>5. RequestInv(p)'
  <2>1. job'[p] # NoJob
    BY <1>2 DEF NoJob
  <2>2. QED
    BY <1>2, <1>4, <2>1 DEF RequestInv, Critical, BrainInv
<1>6. job[p].op \notin {"create", "adopt"}
  BY <1>2, NoJobType
<1>7. QED
  BY <1>2, <1>3, <1>5, <1>6, Frame

-----------------------------------------------------------------------------
(* Provisioning a writer.                                                  *)

LEMMA LockInv == ASSUME Inv, NEW p \in Procs, Lock(p) PROVE Inv'
<1>1. /\ pc[p] = "lock" /\ mu \in {None, p}
      /\ UNCHANGED <<brain, writer, source, gb, cache, phase, todo, stray, cut, reissued>>
  BY DEF Lock, booting, ghosts
<1>2. RequestInv(p) /\ job[p].gid = None /\ Of(p) \in Brains
  BY <1>1, JobShape DEF Inv, RequestInv
<1>3. BrainInv(Of(p)) /\ Cached(Of(p))
  BY <1>2, InvParts
<1>4. CASE MyWriter(p).state = "issuing"
  <2>1. mu' = p /\ Goto(p, "register") /\ UNCHANGED job
    BY <1>4 DEF Lock
  <2>2. ProcTypes' /\ Alone(p) /\ pc'[p] = "register"
    BY <1>1, <2>1, NoneIsNothing DEF Inv, TypeOK, ProcTypes, Goto, Alone, Label, Critical
  <2>3. TypeOK'
    BY <1>1, <2>2, TypePartsNext DEF Inv, TypeOK, DataTypes
  <2>4. writer[Of(p)] = Issuing
    BY <1>2, <1>4, WriterShape DEF MyWriter
  <2>5. cache[Of(p)] = None \/ brain[Of(p)] = "deleted"
    BY <1>3, <2>4 DEF Cached, Issuing
  <2>6. HolderInv(p)'
    BY <1>1, <1>2, <2>1, <2>2, <2>4, <2>5 DEF HolderInv, Blank, Of
  <2>7. RequestInv(p)'
    BY <1>1, <1>2, <2>1, <2>2, <2>6 DEF RequestInv, Critical, Of
  <2>8. QED
    BY <1>1, <1>2, <2>1, <2>2, <2>3, <2>7, NoneIsNothing, Frame DEF Of
<1>5. CASE MyWriter(p).state # "issuing"
  <2> DEFINE ok == MyWriter(p).state = "active"
  <2>1. Provide(p, ok) /\ ok \in BOOLEAN
    BY <1>5 DEF Lock
  <2>2. PICK b : b = Of(p)
    OBVIOUS
  <2>3. ok => Backed(b)'
    <3>1. ok => brain[b] # "none" /\ writer[b].state = "active"
      BY <1>3, <2>2 DEF BrainInv, NoWriter, MyWriter
    <3>2. QED
      BY <1>1, <3>1 DEF Backed
  <2> HIDE DEF ok
  <2>4. ProcTypes' /\ Alone(p) /\ RequestInv(p)'
    BY <1>1, <1>2, <2>1, <2>2, <2>3, ProvideStep, ProvideInv
  <2>5. TypeOK'
    BY <1>1, <2>4, TypePartsNext DEF Inv, TypeOK, DataTypes
  <2>6. job[p].op \in {"create", "adopt"} => job'[p] = job[p]
    BY <2>1, ProvideStep
  <2>7. QED
    BY <1>1, <1>2, <2>4, <2>5, <2>6, NoneIsNothing, Frame DEF Of
<1>6. QED
  BY <1>4, <1>5

LEMMA LookupFailsInv == ASSUME Inv, NEW p \in Procs, LookupFails(p) PROVE Inv'
<1>1. /\ pc[p] = "lock" /\ mu \in {None, p} /\ Provide(p, FALSE)
      /\ UNCHANGED <<brain, writer, source, gb, cache, phase, todo, stray, cut, reissued>>
  BY DEF LookupFails, booting, ghosts
<1>2. RequestInv(p) /\ job[p].gid = None
  BY <1>1 DEF Inv, RequestInv
<1>3. ProcTypes' /\ Alone(p) /\ RequestInv(p)'
  BY <1>1, <1>2, ProvideStep, ProvideInv
<1>4. TypeOK'
  BY <1>1, <1>3, TypePartsNext DEF Inv, TypeOK, DataTypes
<1>5. job[p].op \in {"create", "adopt"} => job'[p] = job[p]
  BY <1>1, ProvideStep
<1>6. QED
  BY <1>1, <1>2, <1>3, <1>4, <1>5, NoneIsNothing, Frame DEF Of

\* The live clients of the brain whose writer p is at work on.
LEMMA HolderNames ==
  ASSUME Inv, NEW p \in Procs, mu = p, NEW i \in Ids,
         gb[i].status = "live", gb[i].b = Of(p)
  PROVE  i \in stray \/ writer[Of(p)].id = i \/ job[p].gid = i
<1>1. Named(i)
  BY InvParts
<1>2. QED
  BY <1>1 DEF Named

\* Revoking a client changes nothing but its status.
LEMMA RevokedStep ==
  ASSUME Inv, NEW p \in Procs, pc[p] # "idle", job[p].gid # None, Revoked(job[p].gid)
  PROVE  /\ gb' \in [Ids -> [status : {"unused", "live", "revoked"}, b : Brains \union {None}]]
         /\ gb'[job[p].gid].status = "revoked" /\ gb'[job[p].gid].b = Of(p)
         /\ \A i \in Ids \ {job[p].gid} : gb'[i] = gb[i]
         /\ gb[job[p].gid].b = Of(p)
<1>1. job[p].gid \in Ids /\ gb[job[p].gid].b = Of(p)
  BY JobShape DEF Inv, RequestInv
<1>2. QED
  BY <1>1 DEF Inv, TypeOK, Revoked

LEMMA RegisteredInv ==
  ASSUME Inv, NEW p \in Procs, NEW i \in Ids, Registered(p, i) PROVE Inv'
<1>1. PICK l \in {"activate", "undo"} :
        /\ pc[p] = "register" /\ gb[i].status = "unused" /\ Goto(p, l)
        /\ gb' = [gb EXCEPT ![i] = [status |-> "live", b |-> Of(p)]]
        /\ job' = [job EXCEPT ![p].gid = i]
        /\ UNCHANGED <<brain, writer, source, cache, mu, phase, todo, stray, cut, reissued>>
  BY DEF Registered, booting, ghosts
<1>2. /\ mu = p /\ HolderInv(p) /\ RequestInv(p) /\ job[p].gid = None /\ Blank(Of(p))
      /\ Of(p) \in Brains
  BY <1>1, Holding DEF Critical, HolderInv
<1>3. PICK b \in Brains : b = Of(p)
  BY <1>2
<1>4. /\ job[p] \in [op : {"create", "adopt", "reissue", "archive", "boot"}, b : Brains,
                     gid : Ids \union {None}, seen : State]
      /\ job \in [Procs -> Job] /\ pc \in [Procs -> Label]
  BY <1>1, JobShape DEF Inv, TypeOK
<1>5. /\ job'[p] = [job[p] EXCEPT !.gid = i] /\ job'[p] \in Job /\ job'[p] # NoJob
      /\ job'[p].gid = i /\ job'[p].op = job[p].op /\ job'[p].b = b
      /\ job'[p].seen = job[p].seen
  BY <1>1, <1>3, <1>4, NoneIsNothing DEF Job, NoJob, Of
<1>6. ProcTypes' /\ Alone(p) /\ pc'[p] = l
  BY <1>1, <1>4, <1>5 DEF Inv, TypeOK, ProcTypes, Alone, Goto, Label, Critical
<1>7. /\ gb'[i] = [status |-> "live", b |-> b] /\ \A j \in Ids \ {i} : gb'[j] = gb[j]
      /\ gb' \in [Ids -> [status : {"unused", "live", "revoked"}, b : Brains \union {None}]]
  BY <1>1, <1>3 DEF Inv, TypeOK
<1>8. TypeOK'
  BY <1>1, <1>6, <1>7, TypePartsNext DEF Inv, TypeOK, DataTypes
<1>9. Blank(b)' /\ writer[b].id = None /\ BrainInv(b) /\ Cached(b)
  BY <1>1, <1>2, <1>3, WriterShape, InvParts DEF Blank
<1>10. HolderInv(p)'
  BY <1>1, <1>2, <1>3, <1>5, <1>6, <1>7, <1>9, NoneIsNothing DEF HolderInv, Of
<1>11. RequestInv(p)'
  BY <1>1, <1>2, <1>3, <1>5, <1>6, <1>7, <1>10 DEF RequestInv, Of, Critical
<1>12. BrainInv(b)' /\ Cached(b)' /\ (Backed(b) => Backed(b)')
  <2>1. writer[b].state # "active"
    BY <1>9, WriterShape, NoneIsNothing
  <2>2. QED
    BY <1>1, <1>9, <2>1 DEF BrainInv, Cached, Backed
<1>13. \A j \in Ids : gb'[j].status = "live" /\ gb'[j].b = b =>
          \/ j \in stray' \/ writer'[b].id = j
          \/ mu' = p /\ job'[p].gid = j /\ job'[p].b = b
  BY <1>1, <1>2, <1>3, <1>5, <1>7, HolderNames, NoneIsNothing
<1>14. QED
  BY <1>1, <1>2, <1>3, <1>5, <1>6, <1>7, <1>8, <1>11, <1>12, <1>13, HolderFrame

\* The answer with the id is lost: the client is recorded as stray.
LEMMA RegisterLostInv ==
  ASSUME Inv, NEW p \in Procs, NEW i \in Ids, RegisterLost(p, i) PROVE Inv'
<1>1. /\ pc[p] = "register" /\ gb[i].status = "unused" /\ Goto(p, "mark")
      /\ gb' = [gb EXCEPT ![i] = [status |-> "live", b |-> Of(p)]]
      /\ stray' = stray \union {i}
      /\ UNCHANGED <<brain, writer, source, cache, mu, phase, todo, job, cut, reissued>>
  BY DEF RegisterLost, booting
<1>2. /\ mu = p /\ HolderInv(p) /\ RequestInv(p) /\ job[p].gid = None /\ Blank(Of(p))
      /\ Of(p) \in Brains
  BY <1>1, Holding DEF Critical, HolderInv
<1>3. PICK b \in Brains : b = Of(p)
  BY <1>2
<1>4. ProcTypes' /\ Alone(p) /\ pc'[p] = "mark" /\ pc[p] # "idle"
  BY <1>1, GotoStep DEF Label, Critical
<1>5. /\ gb'[i] = [status |-> "live", b |-> b] /\ \A j \in Ids \ {i} : gb'[j] = gb[j]
      /\ gb' \in [Ids -> [status : {"unused", "live", "revoked"}, b : Brains \union {None}]]
  BY <1>1, <1>3 DEF Inv, TypeOK
<1>6. TypeOK'
  BY <1>1, <1>4, <1>5, TypePartsNext DEF Inv, TypeOK, DataTypes
<1>7. Blank(b)' /\ writer[b].id = None /\ BrainInv(b) /\ Cached(b)
  BY <1>1, <1>2, <1>3, WriterShape, InvParts DEF Blank
<1>8. HolderInv(p)'
  BY <1>1, <1>2, <1>3, <1>4, <1>7 DEF HolderInv, Of
<1>9. RequestInv(p)'
  BY <1>1, <1>2, <1>4, <1>8 DEF RequestInv, Of, Critical
<1>10. BrainInv(b)' /\ Cached(b)' /\ (Backed(b) => Backed(b)')
  <2>1. writer[b].state # "active"
    BY <1>7, WriterShape, NoneIsNothing
  <2>2. QED
    BY <1>1, <1>7, <2>1 DEF BrainInv, Cached, Backed
<1>11. \A j \in Ids : gb'[j].status = "live" /\ gb'[j].b = b =>
          \/ j \in stray' \/ writer'[b].id = j
          \/ mu' = p /\ job'[p].gid = j /\ job'[p].b = b
  BY <1>1, <1>2, <1>3, <1>5, HolderNames, NoneIsNothing
<1>12. QED
  BY <1>1, <1>2, <1>3, <1>4, <1>5, <1>6, <1>9, <1>10, <1>11, HolderFrame DEF Of

\* A request that goes on without having changed anything.
LEMMA GoOn ==
  ASSUME Inv, NEW p \in Procs, NEW l \in {"mark", "undo"}, Goto(p, l),
         pc[p] \in {"register", "activate"}, l = "mark" <=> pc[p] = "register",
         UNCHANGED <<brain, writer, source, gb, cache, mu, phase, todo, job, stray, cut,
                     reissued>>
  PROVE  Inv'
<1>1. mu = p /\ HolderInv(p) /\ RequestInv(p)
  BY Holding DEF Critical
<1>2. ProcTypes' /\ Alone(p) /\ pc'[p] = l
  BY GotoStep DEF Label, Critical
<1>3. TypeOK'
  BY <1>2, TypePartsNext DEF Inv, TypeOK, DataTypes
<1>4. Of(p) \in Brains /\ (Blank(Of(p)) => writer[Of(p)].id = None)
  BY JobShape, WriterShape
<1>5. HolderInv(p)'
  BY <1>1, <1>2, <1>4 DEF HolderInv, Of, Blank
<1>6. RequestInv(p)'
  BY <1>1, <1>2, <1>5 DEF RequestInv, Of, Critical
<1>7. QED
  BY <1>1, <1>2, <1>3, <1>6, Frame DEF Of

LEMMA ActivatedInv == ASSUME Inv, NEW p \in Procs, Activated(p) PROVE Inv'
<1>1. /\ pc[p] = "activate" /\ MyWriter(p).state = "issuing"
      /\ writer' = [writer EXCEPT ![Of(p)] = [state |-> "active", id |-> job[p].gid]]
      /\ reissued' = reissued \ {Of(p)} /\ Provide(p, TRUE)
      /\ UNCHANGED <<brain, source, gb, cache, phase, todo, stray, cut>>
  BY DEF Activated, booting
<1>2. /\ mu = p /\ HolderInv(p) /\ RequestInv(p) /\ Of(p) \in Brains /\ job[p].gid \in Ids
      /\ gb[job[p].gid].status = "live" /\ gb[job[p].gid].b = Of(p)
      /\ cache[Of(p)] = None \/ brain[Of(p)] = "deleted"
  BY <1>1, Holding DEF Critical, HolderInv, RequestInv
<1>3. PICK b \in Brains : b = Of(p)
  BY <1>2
<1>4. /\ writer'[b] = [state |-> "active", id |-> job[p].gid]
      /\ \A c \in Brains \ {b} : writer'[c] = writer[c]
      /\ writer' \in [Brains -> Writer]
  BY <1>1, <1>2, <1>3 DEF Inv, TypeOK, Writer
<1>5. BrainInv(b) /\ writer[b].id = None /\ brain[b] \notin {"none", "deleted"}
  <2>1. writer[b] = Issuing
    BY <1>1, <1>3, WriterShape DEF MyWriter
  <2>2. BrainInv(b)
    BY InvParts
  <2>3. QED
    BY <2>1, <2>2 DEF BrainInv, NoWriter, Issuing
<1>6. Backed(b)'
  BY <1>1, <1>4, <1>5 DEF Backed
<1>7. ProcTypes' /\ Alone(p) /\ RequestInv(p)'
  BY <1>1, <1>2, <1>3, <1>6, ProvideStep, ProvideInv
<1>8. TypeOK'
  BY <1>1, <1>4, <1>7, TypePartsNext DEF Inv, TypeOK, DataTypes
<1>9. BrainInv(b)' /\ Cached(b)'
  BY <1>1, <1>2, <1>3, <1>4, <1>5, <1>6 DEF BrainInv, Cached
<1>10. \A j \in Ids : gb'[j].status = "live" /\ gb'[j].b = b =>
          j \in stray' \/ writer'[b].id = j
  BY <1>1, <1>2, <1>3, <1>4, <1>5, HolderNames, NoneIsNothing
<1>11. job[p].op \in {"create", "adopt"} => job'[p] = job[p]
  BY <1>1, ProvideStep
<1>12. QED
  BY <1>1, <1>2, <1>3, <1>4, <1>6, <1>7, <1>8, <1>9, <1>10, <1>11, HolderFrame DEF Of

\* The compensating revocation, confirmed.
LEMMA UndoneInv == ASSUME Inv, NEW p \in Procs, Undone(p) PROVE Inv'
<1>1. /\ pc[p] = "undo" /\ Revoked(job[p].gid) /\ Goto(p, "mark")
      /\ job' = [job EXCEPT ![p].gid = None]
      /\ UNCHANGED <<brain, writer, source, cache, mu, phase, todo, stray, cut, reissued>>
  BY DEF Undone, booting, ghosts
<1>2. /\ mu = p /\ HolderInv(p) /\ RequestInv(p) /\ Of(p) \in Brains /\ job[p].gid # None
      /\ Blank(Of(p))
  BY <1>1, Holding DEF Critical, HolderInv
<1>3. PICK b \in Brains : b = Of(p)
  BY <1>2
<1>4. PICK g : g = job[p].gid
  OBVIOUS
<1>5. /\ gb'[g].status = "revoked" /\ gb'[g].b = b /\ gb[g].b = b
      /\ \A i \in Ids \ {g} : gb'[i] = gb[i]
      /\ gb' \in [Ids -> [status : {"unused", "live", "revoked"}, b : Brains \union {None}]]
  BY <1>1, <1>2, <1>3, <1>4, RevokedStep
<1>6. /\ job[p] \in [op : {"create", "adopt", "reissue", "archive", "boot"}, b : Brains,
                     gid : Ids \union {None}, seen : State]
      /\ job \in [Procs -> Job] /\ pc \in [Procs -> Label]
  BY <1>1, JobShape DEF Inv, TypeOK
<1>7. /\ job'[p] = [job[p] EXCEPT !.gid = None] /\ job'[p] \in Job /\ job'[p] # NoJob
      /\ job'[p].gid = None /\ job'[p].op = job[p].op /\ job'[p].b = b
      /\ job'[p].seen = job[p].seen
  BY <1>1, <1>3, <1>6, NoneIsNothing DEF Job, NoJob, Of
<1>8. ProcTypes' /\ Alone(p) /\ pc'[p] = "mark"
  BY <1>1, <1>6, <1>7 DEF Inv, TypeOK, ProcTypes, Alone, Goto, Label, Critical
<1>9. TypeOK'
  BY <1>1, <1>5, <1>8, TypePartsNext DEF Inv, TypeOK, DataTypes
<1>10. /\ Blank(b)' /\ writer[b].id = None /\ writer[b].state # "active"
       /\ BrainInv(b) /\ Cached(b)
  BY <1>1, <1>2, <1>3, WriterShape, InvParts DEF Blank
<1>11. HolderInv(p)'
  BY <1>1, <1>2, <1>3, <1>7, <1>8, <1>10 DEF HolderInv, Of
<1>12. RequestInv(p)'
  BY <1>1, <1>2, <1>7, <1>8, <1>11 DEF RequestInv, Of, Critical
<1>13. BrainInv(b)' /\ Cached(b)' /\ (Backed(b) => Backed(b)')
  BY <1>1, <1>10 DEF BrainInv, Cached, Backed
<1>14. \A j \in Ids : gb'[j].status = "live" /\ gb'[j].b = b => j \in stray'
  BY <1>1, <1>2, <1>3, <1>4, <1>5, <1>10, HolderNames, NoneIsNothing
<1>15. \A i \in Ids : gb'[i] = gb[i] \/ (gb[i].b = b /\ gb'[i].b = b /\ gb'[i].status # "unused")
  BY <1>5
<1>16. QED
  BY <1>1, <1>2, <1>3, <1>7, <1>8, <1>9, <1>12, <1>13, <1>14, <1>15, HolderFrame DEF Critical

\* The compensating or the old writer's revocation fails, with or without its
\* effect: the id is kept.
LEMMA UnsureInv ==
  ASSUME Inv, NEW p \in Procs, pc[p] \in {"undo", "revokeOld"}, Goto(p, "mark"),
         UNCHANGED gb \/ Revoked(job[p].gid),
         UNCHANGED <<brain, writer, source, cache, mu, phase, todo, job, stray, cut, reissued>>
  PROVE  Inv'
<1>1. /\ mu = p /\ HolderInv(p) /\ RequestInv(p) /\ Of(p) \in Brains /\ job[p].gid # None
      /\ job[p].gid \in Ids
  BY Holding DEF Critical, HolderInv
<1>2. PICK b \in Brains : b = Of(p)
  BY <1>1
<1>3. PICK g \in Ids : g = job[p].gid
  BY <1>1
<1>4. /\ gb'[g].b = b /\ gb[g].b = b /\ gb'[g].status # "unused" /\ gb[g].status # "unused"
      /\ \A i \in Ids \ {g} : gb'[i] = gb[i]
      /\ gb' \in [Ids -> [status : {"unused", "live", "revoked"}, b : Brains \union {None}]]
  <2>1. gb[g].b = b /\ gb[g].status # "unused"
    BY <1>1, <1>2, <1>3 DEF RequestInv
  <2>2. CASE UNCHANGED gb
    BY <2>1, <2>2 DEF Inv, TypeOK
  <2>3. CASE Revoked(job[p].gid)
    BY <1>1, <1>2, <1>3, <2>1, <2>3, RevokedStep
  <2>4. QED
    BY <2>2, <2>3
<1>5. ProcTypes' /\ Alone(p) /\ pc'[p] = "mark" /\ pc[p] # "idle"
  BY GotoStep DEF Label, Critical
<1>6. TypeOK'
  BY <1>4, <1>5, TypePartsNext DEF Inv, TypeOK, DataTypes
<1>7. BrainInv(b) /\ Cached(b) /\ writer[b].id \in {None, g} /\ (b \in reissued \/ Blank(b))
  BY <1>1, <1>2, <1>3, WriterShape, InvParts DEF HolderInv
<1>8. HolderInv(p)'
  BY <1>1, <1>2, <1>3, <1>5, <1>7 DEF HolderInv, Of, Blank
<1>9. RequestInv(p)'
  BY <1>1, <1>2, <1>3, <1>4, <1>5, <1>8 DEF RequestInv, Of, Critical
<1>10. BrainInv(b)' /\ Cached(b)' /\ (Backed(b) => Backed(b)')
  <2>1. writer[b].state = "active" => b \in reissued
    BY <1>7, WriterShape
  <2>2. QED
    BY <1>4, <1>7, <2>1 DEF BrainInv, Cached, Backed
<1>11. \A j \in Ids : gb'[j].status = "live" /\ gb'[j].b = b =>
          j \in stray' \/ writer'[b].id = j \/ j = g
  BY <1>1, <1>2, <1>3, <1>4, HolderNames
<1>12. \A i \in Ids : gb'[i] = gb[i] \/ (gb[i].b = b /\ gb'[i].b = b /\ gb'[i].status # "unused")
  BY <1>4
<1>13. QED
  BY <1>1, <1>2, <1>3, <1>5, <1>6, <1>9, <1>10, <1>11, <1>12, HolderFrame DEF Of

\* The row takes the id the request holds, which no other row names.
LEMMA MarkedInv == ASSUME Inv, NEW p \in Procs, Marked(p) PROVE Inv'
<1>1. /\ pc[p] = "mark" /\ MyWriter(p).state # "none"
      /\ writer' = [writer EXCEPT ![Of(p)] = [state |-> "orphan", id |-> job[p].gid]]
      /\ Provide(p, FALSE)
      /\ UNCHANGED <<brain, source, gb, cache, phase, todo, stray, cut, reissued>>
  BY DEF Marked, booting, ghosts
<1>2. /\ mu = p /\ HolderInv(p) /\ RequestInv(p) /\ Of(p) \in Brains
      /\ job[p].gid \in Ids \union {None} /\ pc[p] # "idle"
      /\ job[p].gid # None => gb[job[p].gid].b = Of(p) /\ gb[job[p].gid].status # "unused"
  BY <1>1, Holding DEF Critical, RequestInv
<1>3. PICK b \in Brains : b = Of(p)
  BY <1>2
<1>4. /\ writer'[b] = [state |-> "orphan", id |-> job[p].gid]
      /\ \A c \in Brains \ {b} : writer'[c] = writer[c]
      /\ writer' \in [Brains -> Writer]
  BY <1>1, <1>2, <1>3 DEF Inv, TypeOK, Writer
<1>5. /\ BrainInv(b) /\ Cached(b) /\ writer[b].id \in {None, job[p].gid}
      /\ b \in reissued \/ Blank(b)
      /\ cache[b] = None \/ brain[b] = "deleted"
  BY <1>1, <1>2, <1>3, InvParts DEF HolderInv
<1>6. brain[b] \notin {"none", "deleted"}
  BY <1>1, <1>3, <1>5 DEF BrainInv, MyWriter, NoWriter
<1>7. Backed(b) => Backed(b)'
  <2>1. writer[b].state = "active" => b \in reissued
    BY <1>5, WriterShape
  <2>2. QED
    BY <1>1, <2>1 DEF Backed
<1>8. ProcTypes' /\ Alone(p) /\ RequestInv(p)'
  BY <1>1, <1>2, ProvideStep, ProvideInv
<1>9. TypeOK'
  BY <1>1, <1>4, <1>8, TypePartsNext DEF Inv, TypeOK, DataTypes
<1>10. BrainInv(b)' /\ Cached(b)'
  BY <1>1, <1>2, <1>3, <1>4, <1>5, <1>6, <1>7 DEF BrainInv, Cached
<1>11. \A j \in Ids : gb'[j].status = "live" /\ gb'[j].b = b =>
          j \in stray' \/ writer'[b].id = j
  BY <1>1, <1>2, <1>3, <1>4, <1>5, HolderNames, NoneIsNothing
<1>12. job[p].op \in {"create", "adopt"} => job'[p] = job[p]
  BY <1>1, ProvideStep
<1>13. QED
  BY <1>1, <1>2, <1>3, <1>4, <1>7, <1>8, <1>9, <1>10, <1>11, <1>12, HolderFrame DEF Of

LEMMA MarkFailsInv == ASSUME Inv, NEW p \in Procs, MarkFails(p) PROVE Inv'
<1>1. /\ pc[p] = "mark" /\ stray' = stray \union Unrecorded(p) /\ Provide(p, FALSE)
      /\ UNCHANGED <<brain, writer, source, gb, cache, phase, todo, cut, reissued>>
  BY DEF MarkFails, booting
<1>2. RequestInv(p) /\ pc[p] # "idle" /\ Unrecorded(p) \subseteq Ids
  BY <1>1, Holding DEF Critical, Unrecorded
<1>3. ProcTypes' /\ Alone(p) /\ RequestInv(p)'
  BY <1>1, <1>2, ProvideStep, ProvideInv DEF RequestInv
<1>4. TypeOK'
  BY <1>1, <1>2, <1>3, TypePartsNext DEF Inv, TypeOK, DataTypes
<1>5. job[p].op \in {"create", "adopt"} => job'[p] = job[p]
  BY <1>1, ProvideStep
<1>6. \A i \in Ids : job[p].gid = i /\ gb[i].status = "live" =>
        i \in stray' \/ MyWriter(p).id = i
  BY <1>1 DEF Unrecorded
<1>7. QED
  BY <1>1, <1>2, <1>3, <1>4, <1>5, <1>6, Frame DEF Of

-----------------------------------------------------------------------------
(* Reissuing a writer.                                                     *)

LEMMA ReissueGoneInv == ASSUME Inv, NEW p \in Procs, ReissueGone(p) PROVE Inv'
<1>1. /\ pc[p] = "relock" /\ Return(p)
      /\ UNCHANGED <<brain, writer, source, gb, cache, phase, todo, stray, cut, reissued>>
  BY DEF ReissueGone, booting, ghosts
<1>2. ProcTypes' /\ Alone(p) /\ RequestInv(p)'
  BY <1>1, ReturnStep
<1>3. TypeOK'
  BY <1>1, <1>2, TypePartsNext DEF Inv, TypeOK, DataTypes
<1>4. mu # p /\ job[p].op = "reissue"
  BY <1>1, NotHolding DEF Critical, RequestInv
<1>5. QED
  BY <1>1, <1>2, <1>3, <1>4, Frame

LEMMA RelockInv == ASSUME Inv, NEW p \in Procs, Relock(p) PROVE Inv'
<1>1. /\ pc[p] = "relock" /\ mu = None /\ mu' = p
      /\ cache' = [cache EXCEPT ![Of(p)] = None]
      /\ reissued' = reissued \union {Of(p)}
      /\ job' = [job EXCEPT ![p].gid = writer[Of(p)].id]
      /\ Goto(p, IF writer[Of(p)].id = None THEN "reset" ELSE "revokeOld")
      /\ UNCHANGED <<brain, writer, source, gb, phase, todo, stray, cut>>
  BY DEF Relock, booting, MyWriter
<1>2. RequestInv(p) /\ Of(p) \in Brains /\ job[p].op = "reissue"
  BY <1>1, JobShape DEF Inv, RequestInv
<1>3. PICK b \in Brains : b = Of(p)
  BY <1>2
<1>4. PICK g \in Ids \union {None} : g = writer[b].id
  BY WriterShape
<1>5. /\ job[p] \in [op : {"create", "adopt", "reissue", "archive", "boot"}, b : Brains,
                     gid : Ids \union {None}, seen : State]
      /\ job \in [Procs -> Job] /\ pc \in [Procs -> Label]
  BY <1>1, JobShape DEF Inv, TypeOK
<1>6. /\ job'[p] = [job[p] EXCEPT !.gid = g] /\ job'[p] \in Job /\ job'[p] # NoJob
      /\ job'[p].gid = g /\ job'[p].op = job[p].op /\ job'[p].b = b
      /\ job'[p].seen = job[p].seen
  BY <1>1, <1>3, <1>4, <1>5, NoneIsNothing DEF Job, NoJob, Of
<1>7. pc' = [pc EXCEPT ![p] = IF g = None THEN "reset" ELSE "revokeOld"]
  BY <1>1, <1>3, <1>4 DEF Goto
<1>8. /\ pc'[p] \in {"reset", "revokeOld"} /\ (pc'[p] = "reset" <=> g = None)
      /\ ProcTypes' /\ Alone(p)
  BY <1>1, <1>5, <1>6, <1>7, NoneIsNothing DEF Inv, TypeOK, ProcTypes, Alone, Label, Critical
<1>9. /\ cache'[b] = None /\ \A c \in Brains \ {b} : cache'[c] = cache[c]
      /\ cache' \in [Brains -> Ids \union {None}]
  BY <1>1, <1>3 DEF Inv, TypeOK
<1>10. TypeOK'
  BY <1>1, <1>2, <1>8, <1>9, TypePartsNext DEF Inv, TypeOK, DataTypes
<1>11. BrainInv(b)
  BY InvParts
<1>12. HolderInv(p)'
  BY <1>1, <1>3, <1>4, <1>6, <1>8, <1>9 DEF HolderInv, Of
<1>13. RequestInv(p)'
  BY <1>1, <1>2, <1>3, <1>4, <1>6, <1>8, <1>11, <1>12 DEF RequestInv, BrainInv, Of, Critical
<1>14. BrainInv(b)' /\ Cached(b)' /\ (Backed(b) => Backed(b)')
  BY <1>1, <1>3, <1>9, <1>11 DEF BrainInv, Cached, Backed
<1>15. \A j \in Ids : gb'[j].status = "live" /\ gb'[j].b = b =>
          j \in stray' \/ writer'[b].id = j
  <2> SUFFICES ASSUME NEW j \in Ids, gb[j].status = "live", gb[j].b = b
               PROVE  j \in stray \/ writer[b].id = j
    BY <1>1
  <2>1. Named(j)
    BY InvParts
  <2>2. QED
    BY <1>1, <2>1, NoneIsNothing DEF Named
<1>16. QED
  BY <1>1, <1>2, <1>3, <1>6, <1>8, <1>9, <1>10, <1>13, <1>14, <1>15, HolderFrame

LEMMA RevokedOldInv == ASSUME Inv, NEW p \in Procs, RevokedOld(p) PROVE Inv'
<1>1. /\ pc[p] = "revokeOld" /\ Revoked(job[p].gid) /\ Goto(p, "reset")
      /\ job' = [job EXCEPT ![p].gid = None]
      /\ UNCHANGED <<brain, writer, source, cache, mu, phase, todo, stray, cut, reissued>>
  BY DEF RevokedOld, booting, ghosts
<1>2. /\ mu = p /\ HolderInv(p) /\ RequestInv(p) /\ Of(p) \in Brains /\ job[p].gid # None
  BY <1>1, Holding DEF Critical, HolderInv
<1>3. PICK b \in Brains : b = Of(p)
  BY <1>2
<1>4. PICK g : g = job[p].gid
  OBVIOUS
<1>5. /\ gb'[g].status = "revoked" /\ gb'[g].b = b /\ gb[g].b = b
      /\ \A i \in Ids \ {g} : gb'[i] = gb[i]
      /\ gb' \in [Ids -> [status : {"unused", "live", "revoked"}, b : Brains \union {None}]]
  BY <1>1, <1>2, <1>3, <1>4, RevokedStep
<1>6. /\ job[p] \in [op : {"create", "adopt", "reissue", "archive", "boot"}, b : Brains,
                     gid : Ids \union {None}, seen : State]
      /\ job \in [Procs -> Job] /\ pc \in [Procs -> Label]
  BY <1>1, JobShape DEF Inv, TypeOK
<1>7. /\ job'[p] = [job[p] EXCEPT !.gid = None] /\ job'[p] \in Job /\ job'[p] # NoJob
      /\ job'[p].gid = None /\ job'[p].op = job[p].op /\ job'[p].b = b
      /\ job'[p].seen = job[p].seen
  BY <1>1, <1>3, <1>6, NoneIsNothing DEF Job, NoJob, Of
<1>8. ProcTypes' /\ Alone(p) /\ pc'[p] = "reset"
  BY <1>1, <1>6, <1>7 DEF Inv, TypeOK, ProcTypes, Alone, Goto, Label, Critical
<1>9. TypeOK'
  BY <1>1, <1>5, <1>8, TypePartsNext DEF Inv, TypeOK, DataTypes
<1>10. BrainInv(b) /\ Cached(b) /\ b \in reissued /\ writer[b].id \in {None, g}
       /\ (cache[b] = None \/ brain[b] = "deleted")
  BY <1>1, <1>2, <1>3, <1>4, InvParts DEF HolderInv
<1>11. HolderInv(p)'
  BY <1>1, <1>3, <1>5, <1>7, <1>8, <1>10 DEF HolderInv, Of
<1>12. RequestInv(p)'
  BY <1>1, <1>2, <1>7, <1>8, <1>11 DEF RequestInv, Of, Critical
<1>13. BrainInv(b)' /\ Cached(b)' /\ (Backed(b) => Backed(b)')
  BY <1>1, <1>5, <1>10 DEF BrainInv, Cached, Backed
<1>14. \A j \in Ids : gb'[j].status = "live" /\ gb'[j].b = b =>
          j \in stray' \/ writer'[b].id = j
  BY <1>1, <1>2, <1>3, <1>4, <1>5, HolderNames
<1>15. \A i \in Ids : gb'[i] = gb[i] \/ (gb[i].b = b /\ gb'[i].b = b /\ gb'[i].status # "unused")
  BY <1>5
<1>16. QED
  BY <1>1, <1>2, <1>3, <1>7, <1>8, <1>9, <1>12, <1>13, <1>14, <1>15, HolderFrame DEF Critical

\* The row forgets an id that GBrain no longer accepts.
LEMMA ResetDoneInv == ASSUME Inv, NEW p \in Procs, ResetDone(p) PROVE Inv'
<1>1. /\ pc[p] = "reset" /\ MyWriter(p).state # "none" /\ Goto(p, "lock")
      /\ writer' = [writer EXCEPT ![Of(p)] = Issuing]
      /\ UNCHANGED <<brain, source, gb, cache, mu, phase, todo, job, stray, cut, reissued>>
  BY DEF ResetDone, booting, ghosts
<1>2. /\ mu = p /\ HolderInv(p) /\ RequestInv(p) /\ Of(p) \in Brains /\ job[p].gid = None
      /\ Of(p) \in reissued /\ job[p].op = "reissue"
  BY <1>1, Holding DEF Critical, HolderInv, RequestInv
<1>3. PICK b \in Brains : b = Of(p)
  BY <1>2
<1>4. /\ writer'[b] = Issuing /\ \A c \in Brains \ {b} : writer'[c] = writer[c]
      /\ writer' \in [Brains -> Writer]
  BY <1>1, <1>3 DEF Inv, TypeOK, Writer
<1>5. ProcTypes' /\ Alone(p) /\ pc'[p] = "lock" /\ pc[p] # "idle"
  BY <1>1, GotoStep DEF Label
<1>6. TypeOK'
  BY <1>1, <1>4, <1>5, TypePartsNext DEF Inv, TypeOK, DataTypes
<1>7. /\ cache[b] = None \/ brain[b] = "deleted"
      /\ writer[b].id = None \/ gb[writer[b].id].status = "revoked"
      /\ BrainInv(b)
  BY <1>1, <1>2, <1>3, InvParts DEF HolderInv
<1>8. brain[b] \notin {"none", "deleted"}
  BY <1>1, <1>3, <1>7 DEF BrainInv, MyWriter, NoWriter
<1>9. RequestInv(p)'
  BY <1>1, <1>2, <1>5 DEF RequestInv, Of, Critical
<1>10. BrainInv(b)' /\ Cached(b)' /\ (Backed(b) => Backed(b)')
  BY <1>1, <1>2, <1>3, <1>4, <1>7, <1>8 DEF BrainInv, Cached, Backed, Issuing
<1>11. \A j \in Ids : gb'[j].status = "live" /\ gb'[j].b = b => j \in stray'
  BY <1>1, <1>2, <1>3, <1>7, HolderNames, NoneIsNothing
<1>12. QED
  BY <1>1, <1>2, <1>3, <1>4, <1>5, <1>6, <1>9, <1>10, <1>11, HolderFrame DEF Of

LEMMA ResetFailsInv == ASSUME Inv, NEW p \in Procs, ResetFails(p) PROVE Inv'
<1>1. /\ pc[p] = "reset" /\ Return(p)
      /\ UNCHANGED <<brain, writer, source, gb, cache, phase, todo, stray, cut, reissued>>
  BY DEF ResetFails, booting, ghosts
<1>2. ProcTypes' /\ Alone(p) /\ RequestInv(p)'
  BY <1>1, ReturnStep
<1>3. TypeOK'
  BY <1>1, <1>2, TypePartsNext DEF Inv, TypeOK, DataTypes
<1>4. job[p].gid = None /\ job[p].op = "reissue"
  BY <1>1, Holding DEF Critical, HolderInv, RequestInv
<1>5. QED
  BY <1>1, <1>2, <1>3, <1>4, NoneIsNothing, Frame

\* A page request caches the writer the row names, while nobody holds mu.
LEMMA UseWriterInv == ASSUME Inv, NEW b \in Brains, UseWriter(b) PROVE Inv'
<1>1. /\ mu = None /\ writer[b].state = "active"
      /\ cache' = [cache EXCEPT ![b] = writer[b].id]
      /\ UNCHANGED <<brain, writer, source, gb, mu, phase, todo, pc, job, stray, cut, reissued>>
  BY DEF UseWriter, booting, ghosts
<1>2. writer[b].id \in Ids /\ writer[b] = [state |-> "active", id |-> writer[b].id]
  BY <1>1, WriterShape
<1>3. TypeOK'
  BY <1>1, <1>2 DEF Inv, TypeOK
<1>4. ASSUME NEW q \in Procs PROVE RequestInv(q)'
  <2>1. RequestInv(q) /\ pc[q] \notin Critical
    BY <1>1, NoneIsNothing DEF Inv, RequestInv
  <2>2. Backed(Of(q)) => Backed(Of(q))'
    BY <1>1 DEF Backed, Of
  <2>3. QED
    BY <1>1, <2>1, <2>2 DEF RequestInv, Of
<1>5. ASSUME NEW c \in Brains PROVE BrainInv(c)' /\ Pending(c)' /\ Cached(c)'
  <2>1. BrainInv(c) /\ Pending(c) /\ Cached(c)
    BY InvParts
  <2>2. cache'[c] = IF c = b THEN writer[b].id ELSE cache[c]
    BY <1>1 DEF Inv, TypeOK
  <2>3. BrainInv(c)' /\ Cached(c)'
    BY <1>1, <1>2, <2>1, <2>2 DEF BrainInv, Backed, Cached
  <2>4. Pending(c)'
    BY <1>1, <2>1 DEF Pending, Of
  <2>5. QED
    BY <2>3, <2>4
<1>6. ASSUME NEW i \in Ids PROVE HasBrain(i)' /\ Named(i)'
  <2>1. HasBrain(i) /\ Named(i)
    BY InvParts
  <2>2. QED
    BY <1>1, <2>1 DEF HasBrain, Named, Of
<1>7. QED
  BY <1>3, <1>4, <1>5, <1>6, InvPartsNext

-----------------------------------------------------------------------------
(* Archiving, the start-up and stops.                                      *)

LEMMA ArchiveInv == ASSUME Inv, NEW p \in Calls, Archive(p) PROVE Inv'
<1>1. /\ pc[p] = "archive" /\ Found(Of(p)) /\ Return(p)
      /\ brain' = [brain EXCEPT ![Of(p)] = "archived"]
      /\ UNCHANGED <<writer, source, gb, cache, phase, todo, stray, cut, reissued>>
  BY DEF Archive, booting, ghosts
<1>2. p \in Procs
  BY DEF Procs
<1>3. ProcTypes' /\ Alone(p) /\ RequestInv(p)'
  BY <1>1, <1>2, ReturnStep
<1>4. Of(p) \in Brains /\ mu # p /\ job[p].op = "archive"
  BY <1>1, <1>2, JobShape, NotHolding DEF Critical, RequestInv
<1>5. PICK b \in Brains : b = Of(p)
  BY <1>4
<1>6. /\ brain'[b] = "archived" /\ \A c \in Brains \ {b} : brain'[c] = brain[c]
      /\ brain' \in [Brains -> State]
  BY <1>1, <1>5 DEF Inv, TypeOK, State
<1>7. TypeOK'
  BY <1>1, <1>3, <1>6, TypePartsNext DEF Inv, TypeOK, DataTypes
<1>8. BrainInv(b) /\ Cached(b) /\ brain[b] \notin {"none", "archived", "deleted"}
  BY <1>1, <1>5, InvParts DEF Found
<1>9. BrainInv(b)' /\ Cached(b)' /\ Pending(b)' /\ (Backed(b) => Backed(b)')
  BY <1>1, <1>6, <1>8 DEF BrainInv, Cached, Pending, Backed
<1>10. QED
  BY <1>1, <1>2, <1>3, <1>4, <1>6, <1>7, <1>8, <1>9, BrainStep

\* The failed brain goes with its writer's row, whose client is stray.
LEMMA DeleteInv == ASSUME Inv, NEW p \in Calls, Delete(p) PROVE Inv'
<1>1. /\ pc[p] = "archive" /\ brain[Of(p)] = "failed" /\ Return(p)
      /\ brain' = [brain EXCEPT ![Of(p)] = "deleted"]
      /\ writer' = [writer EXCEPT ![Of(p)] = NoWriter]
      /\ stray' = stray \union {i \in Ids : i = MyWriter(p).id /\ gb[i].status = "live"}
      /\ UNCHANGED <<source, gb, cache, phase, todo, cut, reissued>>
  BY DEF Delete, booting
<1>2. p \in Procs
  BY DEF Procs
<1>3. ProcTypes' /\ Alone(p) /\ RequestInv(p)'
  BY <1>1, <1>2, ReturnStep
<1>4. Of(p) \in Brains /\ mu # p /\ job[p].op = "archive"
  BY <1>1, <1>2, JobShape, NotHolding DEF Critical, RequestInv
<1>5. PICK b \in Brains : b = Of(p)
  BY <1>4
<1>6. /\ brain'[b] = "deleted" /\ writer'[b] = NoWriter
      /\ \A c \in Brains \ {b} : brain'[c] = brain[c] /\ writer'[c] = writer[c]
      /\ brain' \in [Brains -> State] /\ writer' \in [Brains -> Writer]
  BY <1>1, <1>5 DEF Inv, TypeOK, State, Writer
<1>7. TypeOK'
  BY <1>1, <1>3, <1>6, TypePartsNext DEF Inv, TypeOK, DataTypes
<1>8. BrainInv(b)' /\ Cached(b)' /\ Pending(b)' /\ Backed(b)'
  BY <1>6 DEF BrainInv, Cached, Pending, Backed, NoWriter
<1>9. stray \subseteq stray'
      /\ \A i \in Ids : gb[i].status = "live" /\ writer[b].id = i => i \in stray'
  BY <1>1, <1>5 DEF MyWriter
<1>10. QED
  BY <1>1, <1>2, <1>3, <1>4, <1>5, <1>6, <1>7, <1>8, <1>9, BrainStep

LEMMA ArchiveFailsInv == ASSUME Inv, NEW p \in Calls, ArchiveFails(p) PROVE Inv'
<1>1. /\ pc[p] = "archive" /\ Return(p)
      /\ UNCHANGED <<brain, writer, source, gb, cache, phase, todo, stray, cut, reissued>>
  BY DEF ArchiveFails, booting, ghosts
<1>2. p \in Procs
  BY DEF Procs
<1>3. ProcTypes' /\ Alone(p) /\ RequestInv(p)'
  BY <1>1, <1>2, ReturnStep
<1>4. TypeOK'
  BY <1>1, <1>3, TypePartsNext DEF Inv, TypeOK, DataTypes
<1>5. mu # p /\ job[p].op = "archive"
  BY <1>1, <1>2, NotHolding DEF Critical, RequestInv
<1>6. QED
  BY <1>1, <1>2, <1>3, <1>4, <1>5, Frame

\* A step beside the requests: a source appears, the backfill ends, nothing.
LEMMA Aside ==
  ASSUME Inv, UNCHANGED <<brain, writer, gb, cache, mu, pc, job, stray, cut, reissued>>,
         source' \in BOOLEAN, source => source', phase' \in {"boot", "serve"},
         UNCHANGED todo
  PROVE  Inv'
<1>1. TypeOK'
  BY DEF Inv, TypeOK
<1>2. Boot \in Procs /\ Alone(Boot)
  BY DEF Procs, Alone
<1>3. RequestInv(Boot)'
  BY <1>2 DEF Inv, RequestInv, HolderInv, Backed, Blank, Of
<1>4. QED
  BY <1>1, <1>2, <1>3, Frame DEF Of

LEMMA RestartInv == ASSUME Inv, Restart PROVE Inv'
<1>1. /\ phase' = "boot" /\ todo' \in {{}, {b \in Brains : writer[b].state = "issuing"}}
      /\ pc' = [p \in Procs |-> "idle"] /\ job' = [p \in Procs |-> NoJob] /\ mu' = None
      /\ cache' = [b \in Brains |-> None]
      /\ stray' = stray \union UNION {Unrecorded(p) : p \in {q \in Procs : mu = q}}
      /\ cut' = cut \union {Of(p) : p \in {q \in Procs : job[q].op \in {"create", "adopt"}}}
      /\ UNCHANGED <<brain, writer, source, gb, reissued>>
  BY DEF Restart
<1>2. stray' \subseteq Ids
  <2>1. \A q \in Procs : Unrecorded(q) \subseteq Ids
    BY DEF Unrecorded
  <2>2. stray \subseteq Ids
    BY DEF Inv, TypeOK
  <2>3. QED
    BY <1>1, <2>1, <2>2
<1>3. cut' \subseteq Brains
  <2>1. ASSUME NEW q \in Procs, job[q].op \in {"create", "adopt"} PROVE Of(q) \in Brains
    <3>1. job[q] # NoJob
      BY <2>1, NoJobType
    <3>2. pc[q] # "idle"
      BY <3>1 DEF Inv, RequestInv
    <3>3. QED
      BY <3>2, JobShape
  <2>2. cut \subseteq Brains
    BY DEF Inv, TypeOK
  <2>3. QED
    BY <1>1, <2>1, <2>2
<1>4. TypeOK'
  BY <1>1, <1>2, <1>3, NoJobType DEF Inv, TypeOK, Label
<1>5. ASSUME NEW q \in Procs PROVE RequestInv(q)'
  BY <1>1, NoJobType, NoneIsNothing DEF RequestInv, Critical
<1>6. ASSUME NEW b \in Brains PROVE BrainInv(b)' /\ Pending(b)' /\ Cached(b)'
  <2>1. BrainInv(b) /\ Pending(b)
    BY InvParts
  <2>2. BrainInv(b)' /\ Cached(b)'
    BY <1>1, <2>1 DEF BrainInv, Backed, Cached
  <2>3. Pending(b)'
    BY <1>1, <2>1, Zenon DEF Pending, Procs
  <2>4. QED
    BY <2>2, <2>3
<1>7. ASSUME NEW i \in Ids PROVE HasBrain(i)' /\ Named(i)'
  <2>1. HasBrain(i) /\ Named(i)
    BY InvParts
  <2>2. HasBrain(i)'
    BY <1>1, <2>1 DEF HasBrain
  <2>3. ASSUME gb[i].status = "live" PROVE i \in stray' \/ writer[gb[i].b].id = i
    <3>1. CASE i \in stray \/ writer[gb[i].b].id = i
      BY <1>1, <3>1
    <3>2. ASSUME NEW q \in Procs, mu = q, job[q].gid = i, Of(q) = gb[i].b
          PROVE  i \in stray' \/ writer[gb[i].b].id = i
      <4>1. i \in Unrecorded(q) \/ writer[gb[i].b].id = i
        BY <2>3, <3>2 DEF Unrecorded, MyWriter
      <4>2. Unrecorded(q) \subseteq stray'
        BY <1>1, <3>2
      <4>3. QED
        BY <4>1, <4>2
    <3>3. QED
      BY <2>1, <2>3, <3>1, <3>2 DEF Named
  <2>4. Named(i)'
    BY <1>1, <2>3, Zenon DEF Named
  <2>5. QED
    BY <2>2, <2>4
<1>8. QED
  BY <1>4, <1>5, <1>6, <1>7, InvPartsNext

-----------------------------------------------------------------------------
(* The theorems.                                                           *)

LEMMA LifecycleInv == ASSUME Inv, NEW p \in Calls, Lifecycle(p) PROVE Inv'
<1>1. ASSUME NEW b \in Brains,
             Create(p, b) \/ Adopt(p, b) \/ BeginReissue(p, b) \/ BeginArchive(p, b)
      PROVE  Inv'
  <2>1. CASE Create(p, b)
    BY <2>1, CreateRecordsInv DEF Create
  <2>2. CASE Adopt(p, b)
    BY <2>2, CreateRecordsInv DEF Adopt
  <2>3. CASE BeginReissue(p, b)
    BY <2>3, BeginInv DEF BeginReissue, booting, ghosts, Inv, TypeOK, Procs
  <2>4. CASE BeginArchive(p, b)
    BY <2>4, BeginInv DEF BeginArchive, booting, ghosts, Inv, TypeOK, Procs
  <2>5. QED
    BY <1>1, <2>1, <2>2, <2>3, <2>4
<1>2. QED
  BY <1>1, ProvisionedInv, ProvisionFailsInv, TransitionInv, TransitionFailsInv, ArchiveInv,
     DeleteInv, ArchiveFailsInv DEF Lifecycle

LEMMA ProvisionInv == ASSUME Inv, NEW p \in Procs, Provision(p) PROVE Inv'
<1>1. CASE RegisterRefused(p) \/ ActivateFails(p)
  BY <1>1, GoOn DEF RegisterRefused, ActivateFails, booting, ghosts
<1>2. CASE UndoFails(p)
  BY <1>2, UnsureInv DEF UndoFails, booting, ghosts
<1>3. QED
  BY <1>1, <1>2, LockInv, LookupFailsInv, ActivatedInv, RegisteredInv, RegisterLostInv,
     UndoneInv, MarkedInv, MarkFailsInv DEF Provision

LEMMA ReissueInv == ASSUME Inv, NEW p \in Calls, Reissue(p) PROVE Inv'
<1>1. p \in Procs
  BY DEF Procs
<1>2. CASE RevokeOldFails(p)
  BY <1>1, <1>2, UnsureInv DEF RevokeOldFails, booting, ghosts
<1>3. QED
  BY <1>1, <1>2, ReissueGoneInv, RelockInv, RevokedOldInv, ResetDoneInv, ResetFailsInv
     DEF Reissue

LEMMA NextInv == Inv /\ [Next]_vars => Inv'
<1> SUFFICES ASSUME Inv, [Next]_vars PROVE Inv'
  OBVIOUS
<1>0. source \in BOOLEAN /\ phase \in {"boot", "serve"} /\ todo \subseteq Brains
  BY DEF Inv, TypeOK
<1>1. CASE UNCHANGED vars
  BY <1>0, <1>1, Aside DEF vars
<1>2. CASE \E p \in Calls : Lifecycle(p) \/ Reissue(p)
  BY <1>2, LifecycleInv, ReissueInv
<1>3. CASE \E p \in Procs : Provision(p)
  BY <1>3, ProvisionInv
<1>4. ASSUME NEW b \in Brains, UseWriter(b) \/ BootVisit(b) PROVE Inv'
  <2>1. CASE UseWriter(b)
    BY <2>1, UseWriterInv
  <2>2. CASE BootVisit(b)
    BY <1>0, <2>2, BeginInv DEF BootVisit, ghosts, Procs
  <2>3. QED
    BY <1>4, <2>1, <2>2
<1>5. CASE BootDone
  BY <1>0, <1>5, Aside DEF BootDone, ghosts
<1>6. CASE SourceAppears
  BY <1>0, <1>6, Aside DEF SourceAppears, booting, ghosts
<1>7. QED
  BY <1>1, <1>2, <1>3, <1>4, <1>5, <1>6, RestartInv DEF Next

\* The inductive invariant holds of every behaviour.
THEOREM Safety == Spec => []Inv
BY InitInv, NextInv, PTL DEF Spec

\* Every variable keeps its type; a writer is active only with an id.
THEOREM TypeCorrect == Spec => []TypeOK
BY Safety, PTL DEF Inv

\* Creation settles every brain it has made, unless it was cut short: what is
\* provisioning has a request at work on it.
THEOREM CreationSettles == Spec => []ProvisioningIsPending
BY Safety, PTL DEF Inv

\* Every writer client that GBrain accepts is named by the row of its own
\* brain, held by the request that has the mutex, or recorded as lost.
THEOREM WritersAreNamed == Spec => []EveryWriterNamed
BY Safety, PTL DEF Inv

\* A page request writes with the client the row names.
THEOREM CacheIsCurrent == Spec => []CachedWriterCurrent
BY Safety, PTL DEF Inv

\* A ready brain has its source and an active writer whose key is accepted,
\* unless a reissue has been begun and gave it no new one.
THEOREM ReadyBrainsAreBacked == Spec => []ReadyIsBacked
<1>1. Inv => ReadyIsBacked
  <2> SUFFICES ASSUME Inv, NEW b \in Brains, brain[b] = "ready"
               PROVE  /\ source
                      /\ b \in reissued \/ (/\ writer[b].state = "active"
                                            /\ gb[writer[b].id] = [status |-> "live", b |-> b])
    BY DEF ReadyIsBacked
  <2>1. source /\ Backed(b) /\ BrainInv(b)
    BY DEF Inv, BrainInv
  <2>2. CASE b \in reissued
    BY <2>1, <2>2
  <2>3. CASE b \notin reissued
    <3>1. writer[b].state = "active" /\ writer[b].id \in Ids
      BY <2>1, <2>3, WriterShape DEF Backed
    <3>2. gb[writer[b].id].status = "live" /\ gb[writer[b].id].b = b
      BY <2>1, <2>3, <3>1, NoneIsNothing DEF BrainInv
    <3>3. QED
      BY <2>1, <3>1, <3>2, ClientShape
  <2>4. QED
    BY <2>2, <2>3
<1>2. QED
  BY <1>1, Safety, PTL

\* A late answer settles nothing twice: an archived or deleted brain stays so,
\* and a failed one never becomes usable.
THEOREM NothingIsRevived == Spec => NoRevival
<1> DEFINE Kept(b) == /\ brain[b] \in {"archived", "deleted"} => brain'[b] = brain[b]
                      /\ brain[b] = "failed" => brain'[b] \in {"failed", "archived", "deleted"}
<1>1. Inv /\ [Next]_vars => [\A b \in Brains : Kept(b)]_vars
  <2> SUFFICES ASSUME Inv, Next, NEW b \in Brains PROVE Kept(b)
    OBVIOUS
  <2>0. brain \in [Brains -> State]
    BY DEF Inv, TypeOK
  <2>1. CASE UNCHANGED brain
    BY <2>1
  <2>2. ASSUME NEW c \in Brains, brain[c] \in {"none", "provisioning", "degraded"},
               NEW s, brain' = [brain EXCEPT ![c] = s]
        PROVE  Kept(b)
    BY <2>0, <2>2
  <2>3. ASSUME NEW p \in Calls, Lifecycle(p) PROVE Kept(b)
    <3>1. CASE \E c \in Brains : Create(p, c) \/ Adopt(p, c)
      BY <2>2, <3>1 DEF Create, Adopt, CreateRecords
    <3>2. CASE Transition(p)
      <4>1. Of(p) \in Brains
        BY <3>2, JobShape DEF Transition, Procs
      <4>2. QED
        BY <2>2, <3>2, <4>1 DEF Transition
    <3>3. CASE Archive(p)
      BY <2>0, <3>3 DEF Archive, Found
    <3>4. CASE Delete(p)
      BY <2>0, <3>4 DEF Delete
    <3>5. QED
      BY <2>1, <2>3, <3>1, <3>2, <3>3, <3>4
         DEF Lifecycle, BeginReissue, BeginArchive, Provisioned, ProvisionFails,
             TransitionFails, ArchiveFails
  <2>4. ASSUME NEW p \in Procs, Provision(p) PROVE UNCHANGED brain
    BY <2>4 DEF Provision, Lock, LookupFails, RegisterRefused, Activated, ActivateFails,
       Registered, RegisterLost, Undone, UndoFails, Marked, MarkFails
  <2>5. ASSUME NEW p \in Calls, Reissue(p) PROVE UNCHANGED brain
    BY <2>5 DEF Reissue, ReissueGone, Relock, RevokedOld, RevokeOldFails, ResetDone, ResetFails
  <2>6. CASE (\E c \in Brains : UseWriter(c) \/ BootVisit(c)) \/ BootDone \/ Restart
             \/ SourceAppears
    BY <2>1, <2>6 DEF UseWriter, BootVisit, BootDone, Restart, SourceAppears
  <2>7. QED
    BY <2>1, <2>3, <2>4, <2>5, <2>6 DEF Next
<1>2. QED
  BY <1>1, Safety, PTL DEF Spec, NoRevival

-----------------------------------------------------------------------------
(* The refinement of KeyRing.                                              *)

\* KeyState without the case that EveryWriterNamed excludes.
Phase(i) ==
  IF gb[i].status = "unused" THEN "unmade"
  ELSE IF gb[i].status = "revoked" THEN "dead"
  ELSE IF i \in stray THEN "lost"
  ELSE IF RowNames(i) THEN "named" ELSE "held"

RingNow == [i \in Ids |-> KeyState(i)]

\* A step of KeyRing, or one that it does not see.
RingStep == Ring!Next \/ RingNow' = RingNow

LEMMA PhaseNow == Inv => \A i \in Ids : KeyState(i) = Phase(i)
<1> SUFFICES ASSUME Inv, NEW i \in Ids PROVE KeyState(i) = Phase(i)
  OBVIOUS
<1>1. gb[i].status \in {"unused", "live", "revoked"}
  BY DEF Inv, TypeOK
<1>2. gb[i].status = "live" => i \in stray \/ RowNames(i) \/ InHand(i)
  BY DEF Inv, EveryWriterNamed
<1>3. QED
  BY <1>1, <1>2 DEF KeyState, Phase

LEMMA PhaseNext == Inv' => \A i \in Ids : KeyState(i)' = Phase(i)'
<1> SUFFICES ASSUME Inv', NEW i \in Ids PROVE KeyState(i)' = Phase(i)'
  OBVIOUS
<1>1. gb'[i].status \in {"unused", "live", "revoked"}
  BY DEF Inv, TypeOK
<1>2. gb'[i].status = "live" => i \in stray' \/ RowNames(i)' \/ InHand(i)'
  BY DEF Inv, EveryWriterNamed
<1>3. QED
  BY <1>1, <1>2 DEF KeyState, Phase

\* A key a step does not touch.
Untouched(i) ==
  /\ gb'[i].status = gb[i].status /\ (i \in stray' <=> i \in stray)
  /\ gb[i].status = "live" => (RowNames(i)' <=> RowNames(i))

LEMMA UntouchedPhase ==
  ASSUME Inv, NEW i \in Ids, Untouched(i)
  PROVE  Phase(i)' = Phase(i)
<1>1. gb[i].status \in {"unused", "live", "revoked"}
  BY DEF Inv, TypeOK
<1>2. QED
  BY <1>1 DEF Untouched, Phase

\* Rows keep their ids, and GBrain's client its status and brain.
LEMMA SameRows ==
  ASSUME Inv, \A b \in Brains : writer'[b].id = writer[b].id, NEW i \in Ids,
         gb'[i].status = gb[i].status, gb'[i].b = gb[i].b, i \in stray' <=> i \in stray
  PROVE  Untouched(i)
  BY ClientShape DEF Untouched, RowNames

\* The row of b gets another id: no other key is touched.
LEMMA OneRow ==
  ASSUME Inv, NEW b \in Brains, \A c \in Brains \ {b} : writer'[c] = writer[c], NEW i \in Ids,
         i # writer'[b].id, i # writer[b].id \/ gb[i].status # "live", gb' = gb,
         i \in stray' <=> i \in stray
  PROVE  Untouched(i)
  BY ClientShape DEF Untouched, RowNames

\* A step that touches one key.
LEMMA OneStep ==
  ASSUME Inv, Inv', StrayInv, NEW i \in Ids, \A j \in Ids \ {i} : Untouched(j),
         i \in stray' => gb'[i].status # "unused",
         \/ Phase(i)' = Phase(i)
         \/ Phase(i) = "unmade" /\ Phase(i)' \in {"held", "lost"}
         \/ Phase(i) = "held" /\ Phase(i)' = "named"
         \/ Phase(i) \in {"held", "named", "lost"} /\ Phase(i)' = "dead"
  PROVE  StrayInv' /\ RingStep
<1> PICK a, z : a = Phase(i) /\ z = Phase(i)'
  OBVIOUS
<1>1. RingNow' = [RingNow EXCEPT ![i] = z] /\ RingNow[i] = a
  BY PhaseNow, PhaseNext, UntouchedPhase DEF RingNow
<1>2. StrayInv'
  BY DEF StrayInv, Inv, TypeOK, Untouched
<1>3. CASE a = z
  BY <1>1, <1>2, <1>3 DEF RingStep, RingNow
<1>4. CASE a = "unmade" /\ z \in {"held", "lost"}
  <2>1. Ring!Make(i) \/ Ring!Stray(i)
    BY <1>1, <1>4 DEF Ring!Make, Ring!Stray, Ring!Move, RingNow
  <2>2. QED
    BY <1>2, <2>1 DEF Ring!Next, RingStep
<1>5. CASE a = "held" /\ z = "named"
  <2>1. Ring!Name(i)
    BY <1>1, <1>5 DEF Ring!Name, Ring!Move, RingNow
  <2>2. QED
    BY <1>2, <2>1 DEF Ring!Next, RingStep
<1>6. CASE a \in {"held", "named", "lost"} /\ z = "dead"
  <2>1. Ring!Revoke(i)
    BY <1>1, <1>6 DEF Ring!Revoke, Ring!Move, RingNow
  <2>2. QED
    BY <1>2, <2>1 DEF Ring!Next, RingStep
<1>7. QED
  BY <1>3, <1>4, <1>5, <1>6

\* A step that touches none.
LEMMA QuietStep ==
  ASSUME Inv, Inv', StrayInv, \A i \in Ids : Untouched(i)
  PROVE  StrayInv' /\ RingStep
<1>1. RingNow' = RingNow
  BY PhaseNow, PhaseNext, UntouchedPhase DEF RingNow
<1>2. StrayInv'
  BY DEF StrayInv, Inv, TypeOK, Untouched
<1>3. QED
  BY <1>1, <1>2 DEF RingStep

\* A step that touches neither rows nor keys.
LEMMA StandRing ==
  ASSUME Inv, Inv', StrayInv, UNCHANGED <<writer, gb, stray>>
  PROVE  StrayInv' /\ RingStep
  BY SameRows, QuietStep

\* The keys of S are lost: they are live, and were not lost before or are
\* lost again.
LEMMA LoseStep ==
  ASSUME Inv, Inv', StrayInv, gb' = gb, NEW S \in SUBSET Ids,
         \A i \in S : gb[i].status = "live", stray' = stray \union S,
         \A i \in Ids \ S : gb[i].status = "live" => (RowNames(i)' <=> RowNames(i))
  PROVE  StrayInv' /\ RingStep
<1> DEFINE Gone == S \ stray
<1>1. StrayInv'
  BY DEF StrayInv
<1>2. ASSUME NEW i \in Gone PROVE Phase(i) \in {"held", "named"} /\ Phase(i)' = "lost"
  BY <1>2 DEF Phase
<1>3. ASSUME NEW i \in Ids \ Gone PROVE Phase(i)' = Phase(i)
  <2>1. CASE i \in S
    BY <2>1 DEF Phase
  <2>2. CASE i \notin S
    <3>1. Untouched(i)
      BY <2>2 DEF Untouched
    <3>2. QED
      BY <3>1, UntouchedPhase
  <2>3. QED
    BY <2>1, <2>2
<1>4. RingNow' = [i \in Ids |-> IF i \in Gone THEN "lost" ELSE RingNow[i]]
  <2> HIDE DEF Gone
  <2>1. Gone \subseteq Ids
    BY DEF Gone
  <2>2. QED
    BY <1>2, <1>3, <2>1, PhaseNow, PhaseNext DEF RingNow
<1>5. \A i \in Gone : RingNow[i] \in {"held", "named"}
  BY <1>2, PhaseNow DEF RingNow
<1>6. Gone \in SUBSET Ids
  OBVIOUS
<1> HIDE DEF Gone
<1>7. Ring!Lose(Gone)
  BY <1>4, <1>5 DEF Ring!Lose, RingNow
<1>8. QED
  BY <1>1, <1>6, <1>7 DEF Ring!Next, RingStep

-----------------------------------------------------------------------------
(* Every step of BrainLifecycle is one of KeyRing, or one it does not see. *)

\* A new row has no id, and neither had the row of a brain there never was.
LEMMA CreateRecordsRing ==
  ASSUME Inv, Inv', StrayInv, NEW p, NEW b \in Brains, NEW op, CreateRecords(p, b, op)
  PROVE  StrayInv' /\ RingStep
<1>1. /\ brain[b] = "none" /\ writer' = [writer EXCEPT ![b] = Issuing]
      /\ gb' = gb /\ stray' = stray
  BY DEF CreateRecords, ghosts
<1>2. writer[b].id = None
  BY <1>1 DEF Inv, BrainInv, NoWriter
<1>3. \A c \in Brains : writer'[c].id = writer[c].id
  BY <1>1, <1>2 DEF Inv, TypeOK, Issuing
<1>4. \A i \in Ids : Untouched(i)
  BY <1>1, <1>3, SameRows
<1>5. QED
  BY <1>4, QuietStep

\* GBrain makes a key; the answer arrives or not.
LEMMA MakeRing ==
  ASSUME Inv, Inv', StrayInv, NEW i \in Ids, NEW b, gb[i].status = "unused", writer' = writer,
         gb' = [gb EXCEPT ![i] = [status |-> "live", b |-> b]],
         stray' = stray \/ stray' = stray \union {i}
  PROVE  StrayInv' /\ RingStep
<1> PICK new : new = [status |-> "live", b |-> b]
  OBVIOUS
<1>1. new.status = "live" /\ new.b = b /\ gb' = [gb EXCEPT ![i] = new]
  OBVIOUS
<1>2. gb'[i] = new /\ \A j \in Ids \ {i} : gb'[j] = gb[j]
  BY <1>1 DEF Inv, TypeOK
<1>3. \A j \in Ids \ {i} : Untouched(j)
  BY <1>2, SameRows
<1>4. \A c \in Brains : writer[c].id # i
  BY NoneIsNothing DEF Inv, BrainInv
<1>5. gb'[i].b \in Brains
  BY <1>1, <1>2 DEF Inv
<1>6. i \notin stray /\ ~RowNames(i)'
  BY <1>4, <1>5 DEF StrayInv, RowNames
<1>7. Phase(i) = "unmade" /\ Phase(i)' \in {"held", "lost"}
  BY <1>1, <1>2, <1>6 DEF Phase
<1>8. QED
  BY <1>1, <1>2, <1>3, <1>7, OneStep

\* A row without an id is given that of a key of its brain.
LEMMA RecordRing ==
  ASSUME Inv, Inv', StrayInv, gb' = gb, stray' = stray, NEW b \in Brains, NEW i \in Ids,
         gb[i].b = b, gb[i].status # "unused",
         writer[b].id = None, writer'[b].id = i, \A c \in Brains \ {b} : writer'[c] = writer[c]
  PROVE  StrayInv' /\ RingStep
<1>1. \A j \in Ids \ {i} : Untouched(j)
  BY OneRow, NoneIsNothing
<1>2. ~RowNames(i) /\ RowNames(i)'
  BY NoneIsNothing DEF RowNames
<1>3. Phase(i)' = Phase(i) \/ (Phase(i) = "held" /\ Phase(i)' = "named")
  BY <1>2 DEF Phase, Inv, TypeOK
<1>4. QED
  BY <1>1, <1>3, OneStep

LEMMA ActivatedRing ==
  ASSUME Inv, Inv', StrayInv, NEW p \in Procs, Activated(p)
  PROVE  StrayInv' /\ RingStep
<1> PICK b, i, new : b = Of(p) /\ i = job[p].gid /\ new = [state |-> "active", id |-> i]
  OBVIOUS
<1>1. /\ pc[p] = "activate" /\ gb' = gb /\ stray' = stray
      /\ writer' = [writer EXCEPT ![b] = new] /\ new.id = i
  BY DEF Activated
<1>2. /\ HolderInv(p) /\ RequestInv(p) /\ b \in Brains /\ i \in Ids \union {None}
  BY <1>1, Holding DEF Critical
<1>3. i # None /\ Blank(b)
  BY <1>1, <1>2 DEF HolderInv
<1>4. i \in Ids /\ writer[b].id = None
  BY <1>2, <1>3, WriterShape
<1>5. gb[i].b = b /\ gb[i].status # "unused"
  BY <1>2, <1>3 DEF RequestInv
<1>6. writer'[b].id = i /\ \A c \in Brains \ {b} : writer'[c] = writer[c]
  BY <1>1, <1>2 DEF Inv, TypeOK
<1>7. QED
  BY <1>1, <1>2, <1>4, <1>5, <1>6, RecordRing

\* An orphan keeps the id it had, or is given the one at hand.
LEMMA MarkedRing ==
  ASSUME Inv, Inv', StrayInv, NEW p \in Procs, Marked(p)
  PROVE  StrayInv' /\ RingStep
<1> PICK b, i, new : b = Of(p) /\ i = job[p].gid /\ new = [state |-> "orphan", id |-> i]
  OBVIOUS
<1>1. /\ pc[p] = "mark" /\ gb' = gb /\ stray' = stray
      /\ writer' = [writer EXCEPT ![b] = new] /\ new.id = i
  BY DEF Marked, ghosts
<1>2. /\ HolderInv(p) /\ RequestInv(p) /\ b \in Brains /\ i \in Ids \union {None}
  BY <1>1, Holding DEF Critical
<1>3. writer[b].id \in {None, i}
  BY <1>1, <1>2 DEF HolderInv
<1>4. writer'[b].id = i /\ \A c \in Brains \ {b} : writer'[c] = writer[c]
  BY <1>1, <1>2 DEF Inv, TypeOK
<1>5. CASE writer[b].id = i
  <2>1. \A j \in Ids : Untouched(j)
    BY <1>1, <1>4, <1>5, SameRows
  <2>2. QED
    BY <2>1, QuietStep
<1>6. CASE writer[b].id # i
  <2>1. writer[b].id = None /\ i \in Ids
    BY <1>2, <1>3, <1>6
  <2>2. gb[i].b = b /\ gb[i].status # "unused"
    BY <1>2, <2>1, NoneIsNothing DEF RequestInv
  <2>3. QED
    BY <1>1, <1>2, <1>4, <2>1, <2>2, RecordRing
<1>7. QED
  BY <1>5, <1>6

\* The old writer's key is dead when the row is reset.
LEMMA ResetDoneRing ==
  ASSUME Inv, Inv', StrayInv, NEW p \in Procs, ResetDone(p)
  PROVE  StrayInv' /\ RingStep
<1> PICK b : b = Of(p)
  OBVIOUS
<1>1. /\ pc[p] = "reset" /\ gb' = gb /\ stray' = stray
      /\ writer' = [writer EXCEPT ![b] = Issuing]
  BY DEF ResetDone, ghosts
<1>2. HolderInv(p) /\ b \in Brains
  BY <1>1, Holding DEF Critical
<1>3. writer[b].id = None \/ gb[writer[b].id].status = "revoked"
  BY <1>1, <1>2 DEF HolderInv
<1>4. writer'[b].id = None /\ \A c \in Brains \ {b} : writer'[c] = writer[c]
  BY <1>1, <1>2 DEF Inv, TypeOK, Issuing
<1>5. \A j \in Ids : Untouched(j)
  BY <1>1, <1>2, <1>3, <1>4, OneRow, NoneIsNothing
<1>6. QED
  BY <1>5, QuietStep

\* GBrain revokes the key a request holds.
LEMMA DeadRing ==
  ASSUME Inv, Inv', StrayInv, NEW p \in Procs, pc[p] \in {"undo", "revokeOld"},
         Revoked(job[p].gid), UNCHANGED <<writer, stray>>
  PROVE  StrayInv' /\ RingStep
<1> PICK i : i = job[p].gid
  OBVIOUS
<1>1. HolderInv(p) /\ RequestInv(p) /\ i \in Ids \union {None}
  BY Holding DEF Critical
<1>2. i # None /\ gb[i].status # "unused"
  BY <1>1 DEF HolderInv, RequestInv
<1>3. i \in Ids /\ gb[i].status \in {"live", "revoked"}
  BY <1>1, <1>2 DEF Inv, TypeOK
<1>4. gb'[i].status = "revoked" /\ \A j \in Ids \ {i} : gb'[j] = gb[j]
  BY <1>3 DEF Revoked, Inv, TypeOK
<1>5. \A j \in Ids \ {i} : Untouched(j)
  BY <1>4, SameRows
<1>6. Phase(i) \in {"held", "named", "lost", "dead"} /\ Phase(i)' = "dead"
  BY <1>3, <1>4 DEF Phase
<1>7. QED
  BY <1>3, <1>4, <1>5, <1>6, OneStep

LEMMA MarkFailsRing ==
  ASSUME Inv, Inv', StrayInv, NEW p \in Procs, MarkFails(p)
  PROVE  StrayInv' /\ RingStep
<1>1. Unrecorded(p) \in SUBSET Ids /\ \A i \in Unrecorded(p) : gb[i].status = "live"
  BY DEF Unrecorded
<1>2. gb' = gb /\ stray' = stray \union Unrecorded(p) /\ \A i \in Ids : RowNames(i)' = RowNames(i)
  BY DEF MarkFails, RowNames
<1>3. QED
  BY <1>1, <1>2, LoseStep

LEMMA RestartRing ==
  ASSUME Inv, Inv', StrayInv, Restart
  PROVE  StrayInv' /\ RingStep
<1> PICK S : S = UNION {Unrecorded(p) : p \in {q \in Procs : mu = q}}
  OBVIOUS
<1>1. S \in SUBSET Ids /\ \A i \in S : gb[i].status = "live"
  BY DEF Unrecorded
<1>2. gb' = gb /\ stray' = stray \union S /\ \A i \in Ids : RowNames(i)' = RowNames(i)
  BY DEF Restart, RowNames
<1>3. QED
  BY <1>1, <1>2, LoseStep

\* The writer's key goes with its row.
LEMMA DeleteRing ==
  ASSUME Inv, Inv', StrayInv, NEW p \in Procs, Delete(p)
  PROVE  StrayInv' /\ RingStep
<1> PICK b, S : b = Of(p) /\ S = {i \in Ids : i = writer[b].id /\ gb[i].status = "live"}
  OBVIOUS
<1>1. /\ pc[p] = "archive" /\ gb' = gb /\ stray' = stray \union S
      /\ writer' = [writer EXCEPT ![b] = NoWriter]
  BY DEF Delete, MyWriter
<1>2. b \in Brains
  BY <1>1, JobShape
<1>3. writer'[b].id = None /\ \A c \in Brains \ {b} : writer'[c] = writer[c]
  BY <1>1, <1>2 DEF Inv, TypeOK, NoWriter
<1>4. ASSUME NEW i \in Ids \ S, gb[i].status = "live" PROVE RowNames(i)' <=> RowNames(i)
  <2>1. i # writer[b].id /\ i # None
    BY <1>4, NoneIsNothing
  <2>2. gb[i].b \in Brains
    BY <1>4, ClientShape
  <2>3. QED
    BY <1>1, <1>3, <2>1, <2>2 DEF RowNames
<1>5. S \in SUBSET Ids /\ \A i \in S : gb[i].status = "live"
  OBVIOUS
<1>6. QED
  BY <1>1, <1>4, <1>5, LoseStep

LEMMA LifecycleRing ==
  ASSUME Inv, Inv', StrayInv, NEW p \in Calls, Lifecycle(p)
  PROVE  StrayInv' /\ RingStep
<1>1. ASSUME NEW b \in Brains, Create(p, b) \/ Adopt(p, b) PROVE StrayInv' /\ RingStep
  BY <1>1, CreateRecordsRing DEF Create, Adopt
<1>2. ASSUME NEW b \in Brains, BeginReissue(p, b) \/ BeginArchive(p, b)
      PROVE  StrayInv' /\ RingStep
  BY <1>2, StandRing DEF BeginReissue, BeginArchive, ghosts
<1>3. CASE Provisioned(p) \/ ProvisionFails(p) \/ Transition(p) \/ TransitionFails(p)
  BY <1>3, StandRing DEF Provisioned, ProvisionFails, Transition, TransitionFails, ghosts
<1>4. CASE Archive(p) \/ ArchiveFails(p)
  BY <1>4, StandRing DEF Archive, ArchiveFails, ghosts
<1>5. CASE Delete(p)
  BY <1>5, DeleteRing DEF Procs
<1>6. QED
  BY <1>1, <1>2, <1>3, <1>4, <1>5 DEF Lifecycle

LEMMA ProvisionRing ==
  ASSUME Inv, Inv', StrayInv, NEW p \in Procs, Provision(p)
  PROVE  StrayInv' /\ RingStep
<1>1. CASE Lock(p) \/ LookupFails(p) \/ RegisterRefused(p) \/ ActivateFails(p)
  BY <1>1, StandRing DEF Lock, LookupFails, RegisterRefused, ActivateFails, ghosts
<1>2. ASSUME NEW i \in Ids, Registered(p, i) \/ RegisterLost(p, i) PROVE StrayInv' /\ RingStep
  BY <1>2, MakeRing DEF Registered, RegisterLost, ghosts
<1>3. CASE Undone(p) \/ UndoFails(p)
  BY <1>3, DeadRing, StandRing DEF Undone, UndoFails, ghosts
<1>4. QED
  BY <1>1, <1>2, <1>3, ActivatedRing, MarkedRing, MarkFailsRing DEF Provision

LEMMA ReissueRing ==
  ASSUME Inv, Inv', StrayInv, NEW p \in Calls, Reissue(p)
  PROVE  StrayInv' /\ RingStep
<1>1. CASE ReissueGone(p) \/ Relock(p) \/ ResetFails(p)
  BY <1>1, StandRing DEF ReissueGone, Relock, ResetFails, ghosts
<1>2. CASE RevokedOld(p) \/ RevokeOldFails(p)
  BY <1>2, DeadRing, StandRing DEF RevokedOld, RevokeOldFails, ghosts, Procs
<1>3. CASE ResetDone(p)
  BY <1>3, ResetDoneRing DEF Procs
<1>4. QED
  BY <1>1, <1>2, <1>3 DEF Reissue

LEMMA NextRing == Inv /\ Inv' /\ StrayInv /\ [Next]_vars => StrayInv' /\ RingStep
<1> SUFFICES ASSUME Inv, Inv', StrayInv, [Next]_vars PROVE StrayInv' /\ RingStep
  OBVIOUS
<1>1. CASE UNCHANGED vars \/ BootDone \/ SourceAppears
  BY <1>1, StandRing DEF vars, BootDone, SourceAppears, ghosts
<1>2. ASSUME NEW b \in Brains, UseWriter(b) \/ BootVisit(b) PROVE StrayInv' /\ RingStep
  BY <1>2, StandRing DEF UseWriter, BootVisit, ghosts
<1>3. QED
  BY <1>1, <1>2, LifecycleRing, ProvisionRing, ReissueRing, RestartRing DEF Next

\* BrainLifecycle implements KeyRing: no step of a request, failure or stop sets
\* a writer's key adrift, revives a revoked one or finds a lost one (provision,
\* Reissue, DeleteFailedBrain).
THEOREM BrainLifecycleImplementsKeyRing == Spec => KeysOnRing
<1>1. Init => StrayInv /\ Ring!Init
  <2> SUFFICES ASSUME Init PROVE StrayInv /\ Ring!Init
    OBVIOUS
  <2>1. \A i \in Ids : KeyState(i) = "unmade"
    BY DEF Init, KeyState
  <2>2. QED
    BY <2>1 DEF Init, StrayInv, Ring!Init
<1>2. Inv /\ Inv' /\ StrayInv /\ [Next]_vars =>
        StrayInv' /\ [Ring!Next]_[i \in Ids |-> KeyState(i)]
  BY NextRing DEF RingStep, RingNow
<1>3. QED
  BY <1>1, <1>2, Safety, PTL DEF Spec, KeysOnRing, Ring!Spec
=============================================================================
