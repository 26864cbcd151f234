--------------------------- MODULE BrainLifecycle ---------------------------
(***************************************************************************)
(* The life of the brains that carry one source id, and of their writers   *)
(* (api/usecase/interactor/brain.go, api/usecase/interactor/access.go,     *)
(* api/adapter/gbrain/writer_service.go).                                  *)
(*                                                                         *)
(* Creating a brain commits its records, has the source shim make the      *)
(* source, has GBrain make a writer client and then settles the brain's    *)
(* state: four systems, and any step may fail, or have its answer lost, or *)
(* be the last one before the process stops.  The writer's steps run under *)
(* WriterService.mu; the brain's own transitions run under nothing but the *)
(* WHERE clauses of their statements.  A statement that fails has no       *)
(* effect.  The keys issued to users are Access's subject.                 *)
(***************************************************************************)
EXTENDS FiniteSets

CONSTANTS
  Brains,   \* brains rows that may be made for the source id: a bound
  Calls,    \* slots for concurrent requests
  Boot,     \* the start-up backfill
  Ids,      \* client ids GBrain may hand out: bounds the registrations
  None

ASSUME BootAssumption == Boot \notin Calls
ASSUME NoneAssumption == None \notin Brains \union Calls \union Ids \union {Boot}

Procs == Calls \union {Boot}

VARIABLES
  brain,     \* brains.state, by brain id
  writer,    \* brain_writer_clients
  source,    \* GBrain has the source (made by the shim)
  gb,        \* the status and brain of GBrain's writer clients (external)
  cache,     \* WriterService.clients: the id of the cached client
  mu,        \* WriterService.mu
  phase, todo,  \* the start-up backfill and the brains it has still to visit
  pc, job,   \* the requests
  stray,     \* history: ids whose record was lost, or deleted with the brain
  cut,       \* history: brains whose creation ended before it settled them
  reissued   \* history: brains with a reissue begun and no writer since

vars == <<brain, writer, source, gb, cache, mu, phase, todo, pc, job,
          stray, cut, reissued>>
booting == <<phase, todo>>
ghosts  == <<stray, cut, reissued>>

-----------------------------------------------------------------------------
State == {"none", "provisioning", "ready", "degraded", "failed", "archived", "deleted"}

NoWriter == [state |-> "none", id |-> None]
Issuing  == [state |-> "issuing", id |-> None]
Writer   == {NoWriter, Issuing} \union [state : {"active"}, id : Ids]
            \union [state : {"orphan"}, id : Ids \union {None}]

\* gid: the GBrain client the request holds; seen: brain.State when read.
NoJob == [op |-> "none", b |-> None, gid |-> None, seen |-> "none"]
Job   == {NoJob} \union
         [op : {"create", "adopt", "reissue", "archive", "boot"}, b : Brains,
          gid : Ids \union {None}, seen : State]

Critical == {"revokeOld", "reset", "register", "activate", "undo", "mark"}
Label    == Critical \union {"idle", "shim", "lock", "relock", "archive",
                             "ready", "degraded", "failed"}

TypeOK ==
  /\ brain \in [Brains -> State]
  /\ writer \in [Brains -> Writer]
  /\ source \in BOOLEAN
  /\ gb \in [Ids -> [status : {"unused", "live", "revoked"}, b : Brains \union {None}]]
  /\ cache \in [Brains -> Ids \union {None}]
  /\ mu \in Procs \union {None}
  /\ phase \in {"boot", "serve"} /\ todo \subseteq Brains
  /\ pc \in [Procs -> Label]
  /\ job \in [Procs -> Job]
  /\ stray \subseteq Ids /\ cut \subseteq Brains /\ reissued \subseteq Brains

Init ==
  /\ brain = [b \in Brains |-> "none"]
  /\ writer = [b \in Brains |-> NoWriter]
  /\ source \in BOOLEAN
  /\ gb = [i \in Ids |-> [status |-> "unused", b |-> None]]
  /\ cache = [b \in Brains |-> None]
  /\ mu = None /\ phase = "serve" /\ todo = {}
  /\ pc = [p \in Procs |-> "idle"]
  /\ job = [p \in Procs |-> NoJob]
  /\ stray = {} /\ cut = {} /\ reissued = {}

-----------------------------------------------------------------------------
Of(p) == job[p].b
MyWriter(p) == writer[Of(p)]

Goto(p, l) == pc' = [pc EXCEPT ![p] = l]

Begin(p, op, b, l) ==
  /\ pc[p] = "idle"
  /\ Goto(p, l)
  /\ job' = [job EXCEPT ![p] = [op |-> op, b |-> b, gid |-> None, seen |-> brain[b]]]

Release(p) == mu' = IF mu = p THEN None ELSE mu

Return(p) ==
  /\ pc' = [pc EXCEPT ![p] = "idle"]
  /\ job' = [job EXCEPT ![p] = NoJob]
  /\ Release(p)

\* FindBrainBySourceID: archived_at IS NULL.
Found(b) == brain[b] \notin {"none", "archived", "deleted"}

\* createRecords: brain, owner membership and writer in one transaction,
\* under UNIQUE (source_id) and UNIQUE (write_source_id).
CreateRecords(p, b, op) ==
  /\ phase = "serve" /\ brain[b] = "none"
  /\ \A o \in Brains : brain[o] \in {"none", "deleted"}
  /\ brain' = [brain EXCEPT ![b] = "provisioning"]
  /\ writer' = [writer EXCEPT ![b] = Issuing]
  /\ Begin(p, op, b, IF op = "create" THEN "shim" ELSE "lock")
  /\ UNCHANGED <<source, gb, cache, mu, booting, ghosts>>

Create(p, b) == CreateRecords(p, b, "create")

\* Adopt finds the source in GBrain's list first.
Adopt(p, b) == source /\ CreateRecords(p, b, "adopt")

\* ShimClient.Provision; an error, a conflict among them, fails the brain,
\* even when the source has been made and only the answer was lost.
Provisioned(p) ==
  /\ pc[p] = "shim" /\ ~source
  /\ source' = TRUE
  /\ Goto(p, "lock")
  /\ UNCHANGED <<brain, writer, gb, cache, mu, booting, job, ghosts>>

Mutant_ProvisionFails(p) ==
  /\ pc[p] = "shim"
  /\ source' \in {source, TRUE}
  /\ Return(p)
  /\ UNCHANGED <<brain, writer, gb, cache, booting, ghosts>>

ProvisionFails(p) ==
  /\ pc[p] = "shim"
  /\ source' \in {source, TRUE}
  /\ Goto(p, "failed")
  /\ UNCHANGED <<brain, writer, gb, cache, mu, booting, job, ghosts>>

\* TransitionBrain: WHERE state IN ('provisioning', 'degraded').
Mutant_Transition(p) ==
  /\ pc[p] \in {"ready", "degraded", "failed"}
  /\ brain[Of(p)] # "deleted"
  /\ brain' = [brain EXCEPT ![Of(p)] = pc[p]]
  /\ Return(p)
  /\ UNCHANGED <<writer, source, gb, cache, booting, ghosts>>

Transition(p) ==
  /\ pc[p] \in {"ready", "degraded", "failed"}
  /\ brain[Of(p)] \in {"provisioning", "degraded"}
  /\ brain' = [brain EXCEPT ![Of(p)] = pc[p]]
  /\ Return(p)
  /\ UNCHANGED <<writer, source, gb, cache, booting, ghosts>>

\* It fails or matches no row.
TransitionFails(p) ==
  /\ pc[p] \in {"ready", "degraded", "failed"}
  /\ cut' = cut \union {Of(p)}
  /\ Return(p)
  /\ UNCHANGED <<brain, writer, source, gb, cache, booting, stray, reissued>>

-----------------------------------------------------------------------------
(* WriterService.                                                          *)

\* Where Create, Adopt, ReissueWriter and Backfill go when provision returns.
Provide(p, ok) ==
  /\ Release(p)
  /\ CASE job[p].op \in {"create", "adopt"} ->
            Goto(p, IF ok THEN "ready" ELSE "degraded") /\ UNCHANGED job
       [] job[p].op = "reissue" /\ ok /\ job[p].seen = "degraded" ->
            Goto(p, "ready") /\ UNCHANGED job
       [] OTHER ->
            pc' = [pc EXCEPT ![p] = "idle"] /\ job' = [job EXCEPT ![p] = NoJob]

\* Provision, or the end of Reissue, which holds mu already: an active writer
\* is enough, an orphan is refused.
Lock(p) ==
  /\ pc[p] = "lock" /\ mu \in {None, p}
  /\ IF MyWriter(p).state = "issuing"
     THEN mu' = p /\ Goto(p, "register") /\ UNCHANGED job
     ELSE Provide(p, MyWriter(p).state = "active")
  /\ UNCHANGED <<brain, writer, source, gb, cache, booting, ghosts>>

\* FindBrainWriterClient fails.
Mutant_LookupFails(p) ==
  /\ pc[p] = "lock" /\ mu \in {None, p}
  /\ Provide(p, TRUE)
  /\ UNCHANGED <<brain, writer, source, gb, cache, booting, ghosts>>

LookupFails(p) ==
  /\ pc[p] = "lock" /\ mu \in {None, p}
  /\ Provide(p, FALSE)
  /\ UNCHANGED <<brain, writer, source, gb, cache, booting, ghosts>>

\* RegisterClient: an answer without a secret is compensated at once; an
\* error leaves no id, whether or not there is a client behind it.
Registered(p, i) ==
  /\ pc[p] = "register" /\ gb[i].status = "unused"
  /\ gb' = [gb EXCEPT ![i] = [status |-> "live", b |-> Of(p)]]
  /\ job' = [job EXCEPT ![p].gid = i]
  /\ \E l \in {"activate", "undo"} : Goto(p, l)
  /\ UNCHANGED <<brain, writer, source, cache, mu, booting, ghosts>>

RegisterLost(p, i) ==
  /\ pc[p] = "register" /\ gb[i].status = "unused"
  /\ gb' = [gb EXCEPT ![i] = [status |-> "live", b |-> Of(p)]]
  /\ stray' = stray \union {i}
  /\ Goto(p, "mark")
  /\ UNCHANGED <<brain, writer, source, cache, mu, booting, job, cut, reissued>>

RegisterRefused(p) ==
  /\ pc[p] = "register"
  /\ Goto(p, "mark")
  /\ UNCHANGED <<brain, writer, source, gb, cache, mu, booting, job, ghosts>>

\* ActivateBrainWriterClient: WHERE state = 'issuing'.
Activated(p) ==
  /\ pc[p] = "activate" /\ MyWriter(p).state = "issuing"
  /\ writer' = [writer EXCEPT ![Of(p)] = [state |-> "active", id |-> job[p].gid]]
  /\ reissued' = reissued \ {Of(p)}
  /\ Provide(p, TRUE)
  /\ UNCHANGED <<brain, source, gb, cache, booting, stray, cut>>

ActivateFails(p) ==
  /\ pc[p] = "activate"
  /\ Goto(p, "undo")
  /\ UNCHANGED <<brain, writer, source, gb, cache, mu, booting, job, ghosts>>

Revoked(i) == gb' = [gb EXCEPT ![i].status = "revoked"]

\* The compensating RevokeClient; unless it is confirmed the id is kept.
Undone(p) ==
  /\ pc[p] = "undo"
  /\ Revoked(job[p].gid)
  /\ job' = [job EXCEPT ![p].gid = None]
  /\ Goto(p, "mark")
  /\ UNCHANGED <<brain, writer, source, cache, mu, booting, ghosts>>

UndoFails(p) ==
  /\ pc[p] = "undo"
  /\ UNCHANGED gb \/ Revoked(job[p].gid)
  /\ Goto(p, "mark")
  /\ UNCHANGED <<brain, writer, source, cache, mu, booting, job, ghosts>>

\* MarkBrainWriterClientOrphan: any state, and the id is overwritten.
Mutant_Marked(p) ==
  /\ pc[p] = "mark" /\ MyWriter(p).state # "none"
  /\ writer' = [writer EXCEPT ![Of(p)] = [state |-> "orphan", id |-> None]]
  /\ Provide(p, FALSE)
  /\ UNCHANGED <<brain, source, gb, cache, booting, ghosts>>

Marked(p) ==
  /\ pc[p] = "mark" /\ MyWriter(p).state # "none"
  /\ writer' = [writer EXCEPT ![Of(p)] = [state |-> "orphan", id |-> job[p].gid]]
  /\ Provide(p, FALSE)
  /\ UNCHANGED <<brain, source, gb, cache, booting, ghosts>>

\* The live client p holds and the writer's row does not name.
Unrecorded(p) ==
  {i \in Ids : i = job[p].gid /\ gb[i].status = "live" /\ MyWriter(p).id # i}

MarkFails(p) ==
  /\ pc[p] = "mark"
  /\ stray' = stray \union Unrecorded(p)
  /\ Provide(p, FALSE)
  /\ UNCHANGED <<brain, writer, source, gb, cache, booting, cut, reissued>>

\* ReissueWriter, of an owner: the brain is read here, the writer under mu.
BeginReissue(p, b) ==
  /\ phase = "serve" /\ Found(b)
  /\ Begin(p, "reissue", b, "relock")
  /\ UNCHANGED <<brain, writer, source, gb, cache, mu, booting, ghosts>>

\* The writer is not found, or the lookup fails.
ReissueGone(p) ==
  /\ pc[p] = "relock" /\ mu = None
  /\ Return(p)
  /\ UNCHANGED <<brain, writer, source, gb, cache, booting, ghosts>>

\* Reissue: whatever its state, the old writer is revoked if it has an id.
Mutant_Relock(p) ==
  /\ pc[p] = "relock" /\ mu = None /\ MyWriter(p).state # "none"
  /\ mu' = p
  /\ reissued' = reissued \union {Of(p)}
  /\ job' = [job EXCEPT ![p].gid = MyWriter(p).id]
  /\ Goto(p, IF MyWriter(p).id = None THEN "reset" ELSE "revokeOld")
  /\ UNCHANGED <<brain, writer, source, gb, cache, booting, stray, cut>>

Relock(p) ==
  /\ pc[p] = "relock" /\ mu = None /\ MyWriter(p).state # "none"
  /\ mu' = p
  /\ cache' = [cache EXCEPT ![Of(p)] = None]
  /\ reissued' = reissued \union {Of(p)}
  /\ job' = [job EXCEPT ![p].gid = MyWriter(p).id]
  /\ Goto(p, IF MyWriter(p).id = None THEN "reset" ELSE "revokeOld")
  /\ UNCHANGED <<brain, writer, source, gb, booting, stray, cut>>

RevokedOld(p) ==
  /\ pc[p] = "revokeOld"
  /\ Revoked(job[p].gid)
  /\ job' = [job EXCEPT ![p].gid = None]
  /\ Goto(p, "reset")
  /\ UNCHANGED <<brain, writer, source, cache, mu, booting, ghosts>>

\* MarkBrainWriterClientOrphan with the id the row had.
RevokeOldFails(p) ==
  /\ pc[p] = "revokeOld"
  /\ UNCHANGED gb \/ Revoked(job[p].gid)
  /\ Goto(p, "mark")
  /\ UNCHANGED <<brain, writer, source, cache, mu, booting, job, ghosts>>

\* ResetBrainWriterClient: the id goes with the state.
Mutant_ResetDone(p) ==
  /\ pc[p] = "reset" /\ MyWriter(p).state # "none"
  /\ writer' = [writer EXCEPT ![Of(p)].state = "issuing"]
  /\ Goto(p, "lock")
  /\ UNCHANGED <<brain, source, gb, cache, mu, booting, job, ghosts>>

ResetDone(p) ==
  /\ pc[p] = "reset" /\ MyWriter(p).state # "none"
  /\ writer' = [writer EXCEPT ![Of(p)] = Issuing]
  /\ Goto(p, "lock")
  /\ UNCHANGED <<brain, source, gb, cache, mu, booting, job, ghosts>>

ResetFails(p) ==
  /\ pc[p] = "reset"
  /\ Return(p)
  /\ UNCHANGED <<brain, writer, source, gb, cache, booting, ghosts>>

\* writerClient: a page request caches the active writer's client.  Its brain
\* was found before mu was taken and may have been archived since.
UseWriter(b) ==
  /\ phase = "serve" /\ mu = None
  /\ writer[b].state = "active" /\ cache[b] = None
  /\ cache' = [cache EXCEPT ![b] = writer[b].id]
  /\ UNCHANGED <<brain, writer, source, gb, mu, booting, pc, job, ghosts>>

-----------------------------------------------------------------------------
(* ArchiveBrain, after the issued clients have been revoked.               *)

BeginArchive(p, b) ==
  /\ phase = "serve" /\ Found(b)
  /\ Begin(p, "archive", b, "archive")
  /\ UNCHANGED <<brain, writer, source, gb, cache, mu, booting, ghosts>>

\* A brain read as not failed: WHERE archived_at IS NULL, whatever its state.
Archive(p) ==
  /\ pc[p] = "archive" /\ job[p].seen # "failed" /\ Found(Of(p))
  /\ brain' = [brain EXCEPT ![Of(p)] = "archived"]
  /\ Return(p)
  /\ UNCHANGED <<writer, source, gb, cache, booting, ghosts>>

\* DeleteFailedBrain: the brain and its writer's row.
Delete(p) ==
  /\ pc[p] = "archive" /\ job[p].seen = "failed" /\ brain[Of(p)] = "failed"
  /\ brain' = [brain EXCEPT ![Of(p)] = "deleted"]
  /\ writer' = [writer EXCEPT ![Of(p)] = NoWriter]
  /\ stray' = stray \union {i \in Ids : i = MyWriter(p).id /\ gb[i].status = "live"}
  /\ Return(p)
  /\ UNCHANGED <<source, gb, cache, booting, cut, reissued>>

ArchiveFails(p) ==
  /\ pc[p] = "archive"
  /\ Return(p)
  /\ UNCHANGED <<brain, writer, source, gb, cache, booting, ghosts>>

-----------------------------------------------------------------------------
\* The source is made although nobody waits for it any more: by the shim,
\* whose client gave up or stopped, or by the operator's CLI (external).
SourceAppears ==
  /\ ~source /\ source' = TRUE
  /\ UNCHANGED <<brain, writer, gb, cache, mu, booting, pc, job, ghosts>>

\* The process stops; it starts with Backfill's list of issuing writers, or
\* with none when the list fails.
Restart ==
  /\ phase' = "boot"
  /\ todo' \in {{}, {b \in Brains : writer[b].state = "issuing"}}
  /\ pc' = [p \in Procs |-> "idle"]
  /\ job' = [p \in Procs |-> NoJob]
  /\ mu' = None
  /\ cache' = [b \in Brains |-> None]
  /\ stray' = stray \union UNION {Unrecorded(p) : p \in {q \in Procs : mu = q}}
  /\ cut' = cut \union {Of(p) : p \in {q \in Procs : job[q].op \in {"create", "adopt"}}}
  /\ UNCHANGED <<brain, writer, source, gb, reissued>>

\* Backfill: Provision for each of them; the brain's state is left alone.
BootVisit(b) ==
  /\ phase = "boot" /\ b \in todo
  /\ Begin(Boot, "boot", b, "lock")
  /\ todo' = todo \ {b}
  /\ UNCHANGED <<brain, writer, source, gb, cache, mu, phase, ghosts>>

BootDone ==
  /\ phase = "boot" /\ todo = {} /\ pc[Boot] = "idle"
  /\ phase' = "serve"
  /\ UNCHANGED <<brain, writer, source, gb, cache, mu, todo, pc, job, ghosts>>

Provision(p) ==
  \/ Lock(p) \/ LookupFails(p) \/ RegisterRefused(p) \/ Activated(p) \/ ActivateFails(p)
  \/ \E i \in Ids : Registered(p, i) \/ RegisterLost(p, i)
  \/ Undone(p) \/ UndoFails(p) \/ Marked(p) \/ MarkFails(p)

Reissue(p) ==
  \/ ReissueGone(p) \/ Relock(p) \/ RevokedOld(p) \/ RevokeOldFails(p)
  \/ ResetDone(p) \/ ResetFails(p)

Lifecycle(p) ==
  \/ \E b \in Brains : Create(p, b) \/ Adopt(p, b) \/ BeginReissue(p, b) \/ BeginArchive(p, b)
  \/ Provisioned(p) \/ ProvisionFails(p) \/ Transition(p) \/ TransitionFails(p)
  \/ Archive(p) \/ Delete(p) \/ ArchiveFails(p)

Next ==
  \/ \E p \in Calls : Lifecycle(p) \/ Reissue(p)
  \/ \E p \in Procs : Provision(p)
  \/ \E b \in Brains : UseWriter(b) \/ BootVisit(b)
  \/ BootDone \/ Restart \/ SourceAppears

Spec == Init /\ [][Next]_vars

-----------------------------------------------------------------------------
(* Properties.                                                             *)

\* A late answer settles nothing twice: an archived or deleted brain stays
\* so, and a failed one never becomes usable, however late the creation or
\* the reissue that was under way reaches its transition (TransitionBrain).
NoRevival ==
  [][\A b \in Brains :
       /\ brain[b] \in {"archived", "deleted"} => brain'[b] = brain[b]
       /\ brain[b] = "failed" => brain'[b] \in {"failed", "archived", "deleted"}]_vars

\* Creation settles every brain it has made: one that is still provisioning
\* has a request working on it, or its creation stopped, or its last
\* statement failed (Create, Adopt).
ProvisioningIsPending ==
  \A b \in Brains : brain[b] = "provisioning" =>
    b \in cut \/ \E p \in Calls : job[p].op \in {"create", "adopt"} /\ Of(p) = b

\* A ready brain has its source, and an active writer whose key GBrain
\* accepts, unless a reissue was begun and gave it no new one.
ReadyIsBacked ==
  \A b \in Brains : brain[b] = "ready" =>
    /\ source
    /\ b \in reissued \/ (/\ writer[b].state = "active"
                          /\ gb[writer[b].id] = [status |-> "live", b |-> b])

RowNames(i) == writer[gb[i].b].id = i
InHand(i) == \E p \in Procs : mu = p /\ job[p].gid = i /\ Of(p) = gb[i].b

\* Every writer key GBrain accepts is named by its own brain's row, or held
\* by the request that made it, or lost in one of the ways stray collects.
EveryWriterNamed ==
  \A i \in Ids : gb[i].status = "live" => i \in stray \/ RowNames(i) \/ InHand(i)

\* What has become of a key, the lost ones first.
KeyState(i) ==
  CASE gb[i].status = "unused"  -> "unmade"
    [] gb[i].status = "revoked" -> "dead"
    [] gb[i].status = "live"    -> IF i \in stray THEN "lost"
                                   ELSE IF RowNames(i) THEN "named"
                                   ELSE IF InHand(i) THEN "held" ELSE "adrift"

Ring == INSTANCE KeyRing WITH Keys <- Ids, ring <- [i \in Ids |-> KeyState(i)]

\* What becomes of a writer's key is what KeyRing allows: no step of provision,
\* Reissue or DeleteFailedBrain sets one adrift, brings a revoked one back or
\* finds a lost one again.
KeysOnRing == Ring!Spec

\* A page is read and written with the writer the row names now, not with
\* one that a reissue has replaced (writerClient, Reissue).
CachedWriterCurrent ==
  \A b \in Brains : cache[b] # None /\ brain[b] # "deleted" =>
    writer[b] = [state |-> "active", id |-> cache[b]]

\* A brain that failed is only ever deleted, so that its source id can be
\* used again (domain.md, 97).  It is checked where a request that archives
\* the brain read it as provisioning.
FailedIsDeleted ==
  [][\A b \in Brains : brain[b] = "failed" => brain'[b] \in {"failed", "deleted"}]_vars

-----------------------------------------------------------------------------
(* What the properties rest on: the inductive invariant.                   *)

\* A writer that no client of GBrain has been recorded for.
Blank(b) == writer[b] \in {NoWriter, Issuing}

\* What a transition to ready relies on.
Backed(b) ==
  /\ brain[b] # "none"
  /\ brain[b] = "deleted" \/ b \in reissued \/ writer[b].state = "active"

\* While p holds mu nobody else records, revokes or caches a writer.
HolderInv(p) ==
  LET b == Of(p)  g == job[p].gid IN
  /\ cache[b] = None \/ brain[b] = "deleted"
  /\ pc[p] \in {"register", "reset"} => g = None
  /\ pc[p] \in {"activate", "undo", "revokeOld"} => g # None
  /\ pc[p] \in {"register", "activate", "undo"} => Blank(b)
  /\ pc[p] = "activate" => gb[g].status = "live"
  /\ pc[p] \in {"revokeOld", "reset"} => b \in reissued
  /\ pc[p] = "reset" => writer[b].id = None \/ gb[writer[b].id].status = "revoked"
  /\ pc[p] \in {"revokeOld", "mark"} => writer[b].id \in {None, g}
  /\ pc[p] = "mark" => b \in reissued \/ Blank(b)

RequestInv(p) ==
  /\ pc[p] = "idle" <=> job[p] = NoJob
  /\ pc[p] \in {"relock", "revokeOld", "reset"} => job[p].op = "reissue"
  /\ pc[p] = "archive" => job[p].op = "archive"
  /\ pc[p] \in Critical => mu = p /\ HolderInv(p)
  /\ mu = p => pc[p] \in Critical \union {"lock"}
  /\ pc[p] \in {"shim", "lock"} => job[p].gid = None
  /\ job[p].gid # None => gb[job[p].gid].b = Of(p) /\ gb[job[p].gid].status # "unused"
  /\ (job[p].op \in {"create", "adopt"} /\ pc[p] \notin {"shim", "failed"})
       \/ job[p].seen = "degraded" \/ pc[p] \in {"ready", "degraded"} => source
  /\ pc[p] = "ready" => Backed(Of(p))

BrainInv(b) ==
  /\ brain[b] \in {"none", "deleted"} => writer[b] = NoWriter
  /\ writer[b].id # None =>
       gb[writer[b].id].b = b /\ gb[writer[b].id].status # "unused"
  /\ writer[b].state = "active" => b \in reissued \/ gb[writer[b].id].status = "live"
  /\ brain[b] \in {"ready", "degraded"} => source
  /\ brain[b] = "ready" => Backed(b)

Inv ==
  /\ TypeOK
  /\ \A p \in Procs : RequestInv(p)
  /\ \A b \in Brains : BrainInv(b)
  /\ \A i \in Ids : gb[i].status # "unused" => gb[i].b \in Brains
  /\ ProvisioningIsPending
  /\ EveryWriterNamed
  /\ CachedWriterCurrent

\* What KeysOnRing rests on besides: only a key that was made can be lost.
StrayInv == \A i \in stray : gb[i].status # "unused"
=============================================================================
