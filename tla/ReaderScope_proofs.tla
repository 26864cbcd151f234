------------------------- MODULE ReaderScope_proofs -------------------------
(***************************************************************************)
(* Proofs about ReaderScope, for every set of users, sources, request      *)
(* slots and GBrain ids.                                                   *)
(***************************************************************************)
EXTENDS ReaderScope, TLAPS

\* The request ends with well-typed locals, whatever it was doing.
LEMMA ReturnType ==
  ASSUME TypeOK, NEW p \in Procs, Return(p)
  PROVE  /\ pc' \in [Procs -> {"idle", "wait", "forward"} \union Critical]
         /\ job' \in [Procs -> Job]
         /\ gid' \in [Procs -> Ids \union {None}]
         /\ tok' \in [Procs -> Tok]
         /\ lock' \in Procs \union {None}
  BY DEF TypeOK, Return, Job, Tok, NoTok

\* A request that is past its first step works for a user.
LEMMA UserType ==
  ASSUME TypeOK, JobInv, NEW p \in Procs, pc[p] # "idle"
  PROVE  User(p) \in Users /\ List(p) \subseteq Sources
  BY DEF TypeOK, JobInv, Job, NoJob, User, List

LEMMA VisibleType ==
  ASSUME NEW u \in Users PROVE Visible(u) \subseteq Sources
  BY DEF Visible

\* The columns of a row, without the union of record sets.
RowShape ==
  \A u \in Users :
    /\ row[u].state \in {"none", "issuing", "active", "orphan"}
    /\ row[u].id \in Ids \union {None}
    /\ row[u].fed \subseteq Sources
    /\ row[u].state = "active" => row[u].id \in Ids
    /\ row[u].state \in {"none", "issuing"} => row[u].id = None

LEMMA RowType == TypeOK => RowShape
  BY DEF TypeOK, RowShape, Row, NoRow, Issuing

LEMMA RowTypePrime == TypeOK' => RowShape'
  BY DEF TypeOK, RowShape, Row, NoRow, Issuing

LEMMA InitInv == Init => Inv
<1> SUFFICES ASSUME Init PROVE Inv
  OBVIOUS
<1> USE NoneAssumption DEF Init
<1>1. TypeOK
  <2>1. row \in [Users -> Row] /\ job \in [Procs -> Job]
    BY DEF Row, Job
  <2>2. gb \in [Ids -> GClient] /\ cache \in [Users -> Cached] /\ tok \in [Procs -> Tok]
    BY DEF GClient, Cached, NoCache, Tok, NoTok
  <2>3. brain \in [Sources -> BrainState] /\ member \in [Users -> [Sources -> Membership]]
    BY DEF BrainState, Membership
  <2>4. QED
    BY <2>1, <2>2, <2>3 DEF TypeOK
<1>2. MutexInv /\ JobInv
  BY DEF MutexInv, JobInv, Critical, Procs
<1>3. RowInv
  BY DEF RowInv, NoRow
<1>4. HolderInv
  BY DEF HolderInv
<1>5. GrantRecorded /\ CachedTokenCurrent
  BY DEF GrantRecorded, CachedTokenCurrent, NoRow, NoCache
<1>6. TokenScopedToCall /\ EveryKeyAccounted
  BY DEF TokenScopedToCall, EveryKeyAccounted, RowNames, InHand
<1>7. QED
  BY <1>1, <1>2, <1>3, <1>4, <1>5, <1>6 DEF Inv

-----------------------------------------------------------------------------
(* Steps outside the critical section.                                     *)

\* Everything the reader's invariants speak of.
readerVars == <<row, gb, cache, lock, pc, job, gid, tok, interrupted, stray>>

\* A step of the memberships and the brains touches none of it.
LEMMA WorldInv ==
  ASSUME Inv, UNCHANGED readerVars, TypeOK'
  PROVE  Inv'
<1> USE DEF Inv, readerVars
<1>1. MutexInv' /\ JobInv' /\ RowInv'
  BY DEF MutexInv, JobInv, RowInv
<1>2. HolderInv'
  BY DEF HolderInv, Client, MyRow, User, List
<1>3. GrantRecorded' /\ CachedTokenCurrent'
  BY DEF GrantRecorded, CachedTokenCurrent, Rescoping, MyRow, User, List
<1>4. TokenScopedToCall' /\ EveryKeyAccounted'
  BY DEF TokenScopedToCall, EveryKeyAccounted, RowNames, InHand, User, List
<1>5. QED
  BY <1>1, <1>2, <1>3, <1>4

\* AuthorizeCall, ReissueReader and ReconcileReaders read the list before
\* the mutex: no invariant of the critical section is touched.
LEMMA BeginInv ==
  ASSUME Inv, NEW p \in Procs, NEW u \in Users, NEW k \in {"call", "reissue"}, Begin(p, u, k)
  PROVE  Inv'
<1> USE NoneAssumption DEF world, booting, ghosts, Begin, Goto
<1>0. /\ TypeOK /\ MutexInv /\ JobInv /\ RowInv /\ HolderInv /\ RowShape
      /\ GrantRecorded /\ CachedTokenCurrent /\ TokenScopedToCall /\ EveryKeyAccounted
  BY RowType DEF Inv
<1>1. Visible(u) \subseteq Sources
  BY VisibleType
<1>2. TypeOK'
  <2>1. pc' \in [Procs -> {"idle", "wait", "forward"} \union Critical]
    BY <1>0, <1>1 DEF TypeOK, Critical
  <2>2. job' \in [Procs -> Job]
    BY <1>0, <1>1 DEF TypeOK, Job
  <2>3. QED
    BY <1>0, <1>1, <2>1, <2>2 DEF TypeOK
<1>3. RowShape'
  BY <1>2, RowTypePrime
<1>4. MutexInv' /\ JobInv'
  BY <1>0, <1>1 DEF TypeOK, MutexInv, Critical, Procs, JobInv, NoJob
<1>5. RowInv'
  BY <1>0 DEF RowInv
<1>6. HolderInv'
  BY <1>0, <1>1, <1>4 DEF TypeOK, MutexInv, HolderInv, Client, Critical, MyRow, User, List
<1>7. GrantRecorded'
  BY <1>0, <1>1 DEF TypeOK, GrantRecorded, MutexInv, Critical, Rescoping, MyRow, User, List
<1>8. CachedTokenCurrent'
  BY <1>0, <1>1 DEF TypeOK, CachedTokenCurrent, MutexInv, Critical, User
<1>9. TokenScopedToCall'
  BY <1>0, <1>1 DEF TypeOK, TokenScopedToCall, User, List
<1>10. EveryKeyAccounted'
  BY <1>0, <1>1 DEF TypeOK, EveryKeyAccounted, RowNames, InHand, MutexInv, Critical, JobInv, MyRow, User
<1>11. QED
  BY <1>2, <1>4, <1>5, <1>6, <1>7, <1>8, <1>9, <1>10 DEF Inv

LEMMA BootVisitInv ==
  ASSUME Inv, NEW u \in Users, BootVisit(u)
  PROVE  Inv'
<1> USE NoneAssumption DEF world, booting, ghosts, BootVisit, Goto
<1>0. /\ TypeOK /\ MutexInv /\ JobInv /\ RowInv /\ HolderInv /\ RowShape
      /\ GrantRecorded /\ CachedTokenCurrent /\ TokenScopedToCall /\ EveryKeyAccounted
  BY RowType DEF Inv
<1>1. Boot \in Procs /\ Visible(u) \subseteq Sources
  BY VisibleType DEF Procs
<1>a. CASE UNCHANGED <<pc, job>>
  <2>1. UNCHANGED readerVars
    BY <1>a DEF readerVars
  <2>2. TypeOK'
    BY <1>0, <1>a DEF TypeOK
  <2>3. QED
    BY <2>1, <2>2, WorldInv
<1> SUFFICES ASSUME ~UNCHANGED <<pc, job>>
             PROVE  Inv'
  BY <1>a
<1>b. /\ pc[Boot] = "idle" /\ pc' = [pc EXCEPT ![Boot] = "wait"]
      /\ job' = [job EXCEPT ![Boot] = [kind |-> "boot", user |-> u, list |-> Visible(u)]]
      /\ UNCHANGED <<row, gb, cache, lock, gid, tok, interrupted, stray>>
  OBVIOUS
<1> HIDE DEF BootVisit, Goto
<1>2. TypeOK'
  <2>1. pc' \in [Procs -> {"idle", "wait", "forward"} \union Critical]
    BY <1>0, <1>1, <1>b DEF TypeOK, Critical
  <2>2. job' \in [Procs -> Job]
    BY <1>0, <1>1, <1>b DEF TypeOK, Job
  <2>3. QED
    BY <1>0, <1>1, <1>b, <2>1, <2>2 DEF TypeOK, BootVisit
<1>3. RowShape'
  BY <1>2, RowTypePrime
<1>4. MutexInv' /\ JobInv'
  BY <1>0, <1>1, <1>b DEF TypeOK, MutexInv, Critical, Procs, JobInv, NoJob
<1>5. RowInv'
  BY <1>0, <1>b DEF RowInv
<1>6. HolderInv'
  BY <1>0, <1>1, <1>4, <1>b DEF TypeOK, MutexInv, HolderInv, Client, Critical, MyRow, User, List
<1>7. GrantRecorded'
  BY <1>0, <1>1, <1>b DEF TypeOK, GrantRecorded, MutexInv, Critical, Rescoping, MyRow, User, List
<1>8. CachedTokenCurrent'
  BY <1>0, <1>1, <1>b DEF TypeOK, CachedTokenCurrent, MutexInv, Critical, User
<1>9. TokenScopedToCall'
  BY <1>0, <1>1, <1>b DEF TypeOK, TokenScopedToCall, User, List
<1>10. EveryKeyAccounted'
  BY <1>0, <1>1, <1>b DEF TypeOK, EveryKeyAccounted, RowNames, InHand, MutexInv, Critical, JobInv, MyRow, User
<1>11. QED
  BY <1>2, <1>4, <1>5, <1>6, <1>7, <1>8, <1>9, <1>10 DEF Inv

\* ReconcileReaders returns: only the phase changes.
LEMMA BootDoneInv ==
  ASSUME Inv, BootDone
  PROVE  Inv'
<1>1. UNCHANGED readerVars
  BY DEF BootDone, world, ghosts, readerVars
<1>2. TypeOK'
  BY DEF Inv, TypeOK, BootDone, world, ghosts
<1>3. QED
  BY <1>1, <1>2, WorldInv

\* A restart throws the process's memory away; the ghosts remember what the
\* critical section it cut short had not recorded.
LEMMA RestartInv ==
  ASSUME Inv, Restart
  PROVE  Inv'
<1> USE NoneAssumption DEF Restart, world
<1>0. /\ TypeOK /\ MutexInv /\ JobInv /\ RowInv /\ HolderInv /\ RowShape
      /\ GrantRecorded /\ CachedTokenCurrent /\ TokenScopedToCall /\ EveryKeyAccounted
  BY RowType DEF Inv
<1>1. TypeOK'
  <2>1. pc' \in [Procs -> {"idle", "wait", "forward"} \union Critical]
        /\ job' \in [Procs -> Job] /\ tok' \in [Procs -> Tok]
    BY DEF Job, Tok, NoTok
  <2>2. cache' \in [Users -> Cached] /\ todo' \subseteq Users
    BY DEF Cached, NoCache
  <2>3. stray' \subseteq Ids
    BY <1>0 DEF TypeOK, Unrecorded
  <2>4. \A q \in Procs : lock = q => User(q) \in Users
    BY <1>0, UserType DEF MutexInv, Critical
  <2>5. interrupted' \subseteq Users
    BY <1>0, <2>4 DEF TypeOK
  <2>6. QED
    BY <1>0, <2>1, <2>2, <2>3, <2>5 DEF TypeOK
<1>2. MutexInv' /\ JobInv' /\ RowInv' /\ HolderInv' /\ TokenScopedToCall'
  <2>1. None \notin Procs
    BY DEF Procs
  <2>2. QED
    BY <1>0, <2>1 DEF MutexInv, JobInv, RowInv, HolderInv, TokenScopedToCall, Critical
<1>3. GrantRecorded'
  <2> SUFFICES ASSUME NEW u \in Users, row[u].state = "active", u \notin interrupted'
               PROVE  gb[row[u].id] = [status |-> "live", owner |-> u, grant |-> row[u].fed]
    BY DEF GrantRecorded
  <2>1. \A q \in Procs : User(q) = u => ~Rescoping(q)
    <3>1. \A q \in Procs : Rescoping(q) => lock = q
      BY <1>0 DEF MutexInv, Rescoping, Critical
    <3>2. QED
      BY <3>1
  <2>2. QED
    BY <1>0, <2>1 DEF GrantRecorded
<1>4. CachedTokenCurrent'
  BY DEF CachedTokenCurrent, NoCache
<1>5. EveryKeyAccounted'
  <2> SUFFICES ASSUME NEW i \in Ids, gb[i].status = "live"
               PROVE  i \in stray' \/ (gb[i].owner \in Users /\ row[gb[i].owner].id = i)
    BY DEF EveryKeyAccounted, RowNames, InHand
  <2>1. CASE i \in stray
    BY <2>1
  <2>2. CASE gb[i].owner \in Users /\ row[gb[i].owner].id = i
    BY <2>2
  <2>3. CASE \E q \in Procs : lock = q /\ gid[q] = i /\ User(q) = gb[i].owner
    <3>1. PICK q \in Procs : lock = q /\ gid[q] = i /\ User(q) = gb[i].owner
      BY <2>3
    <3>2. User(q) \in Users
      BY <1>0, <3>1, UserType DEF MutexInv, Critical
    <3>3. CASE MyRow(q).id = i
      BY <3>1, <3>2, <3>3 DEF MyRow
    <3>4. CASE MyRow(q).id # i
      BY <3>1, <3>4 DEF Unrecorded
    <3>5. QED
      BY <3>3, <3>4
  <2>4. QED
    BY <1>0, <2>1, <2>2, <2>3 DEF EveryKeyAccounted, RowNames, InHand
<1>6. QED
  BY <1>1, <1>2, <1>3, <1>4, <1>5 DEF Inv

-----------------------------------------------------------------------------
(* Steps of the critical section, one lemma per action.                    *)

LEMMA LookupFailsInv ==
  ASSUME Inv, NEW p \in Procs, LookupFails(p)
  PROVE  Inv'
<1> USE NoneAssumption DEF world, booting, ghosts, LookupFails, Return
<1>0. /\ TypeOK /\ MutexInv /\ JobInv /\ RowInv /\ HolderInv /\ RowShape
      /\ GrantRecorded /\ CachedTokenCurrent /\ TokenScopedToCall /\ EveryKeyAccounted
  BY RowType DEF Inv
<1>1. User(p) \in Users /\ List(p) \subseteq Sources
  BY <1>0, UserType DEF JobInv
<1>2. TypeOK'
  <2>1. row' \in [Users -> Row]
    BY <1>0, <1>1 DEF TypeOK, Row, JobInv, HolderInv, MyRow
  <2>2. gb' \in [Ids -> GClient] /\ cache' \in [Users -> Cached]
    BY <1>0, <1>1 DEF TypeOK, RowShape, GClient, Cached, HolderInv, MyRow
  <2>3. pc' \in [Procs -> {"idle", "wait", "forward"} \union Critical] /\ job' \in [Procs -> Job]
    BY <1>0, <1>1 DEF TypeOK, Critical, Job
  <2>4. gid' \in [Procs -> Ids \union {None}] /\ tok' \in [Procs -> Tok]
    BY <1>0, <1>1 DEF TypeOK, Tok, NoTok, RowShape, HolderInv, MyRow, Cached, GClient
  <2>5. interrupted' \subseteq Users /\ stray' \subseteq Ids /\ lock' \in Procs \union {None}
    BY <1>0, <1>1 DEF TypeOK, Unrecorded
  <2>6. QED
    BY <1>0, <2>1, <2>2, <2>3, <2>4, <2>5 DEF TypeOK
<1>3. RowShape'
  BY <1>2, RowTypePrime
<1>4. MutexInv' /\ JobInv'
  BY <1>0, <1>1 DEF TypeOK, MutexInv, Critical, Procs, JobInv, NoJob
<1>5. RowInv'
  BY <1>0, <1>1, <1>3 DEF TypeOK, RowShape, RowInv, HolderInv, MyRow, User
<1>6. HolderInv'
  BY <1>0, <1>1, <1>4 DEF TypeOK, MutexInv, HolderInv, Client, Critical, MyRow, User, List
<1>7. GrantRecorded'
  BY <1>0, <1>1 DEF TypeOK, GrantRecorded, MutexInv, Critical, Rescoping, MyRow, User, List
<1>8. CachedTokenCurrent'
  BY <1>0, <1>1 DEF TypeOK, CachedTokenCurrent, MutexInv, Critical, User
<1>9. TokenScopedToCall'
  BY <1>0, <1>1 DEF TypeOK, TokenScopedToCall, User, List
<1>10. EveryKeyAccounted'
  BY <1>0, <1>1 DEF TypeOK, EveryKeyAccounted, RowNames, InHand, MutexInv, Critical, JobInv, MyRow, User
<1>11. QED
  BY <1>2, <1>4, <1>5, <1>6, <1>7, <1>8, <1>9, <1>10 DEF Inv

\* A refused request leaves the same state behind.
LEMMA EnterRefusedInv ==
  ASSUME Inv, NEW p \in Procs, EnterRefused(p)
  PROVE  Inv'
<1>1. LookupFails(p)
  BY DEF EnterRefused, LookupFails
<1>2. QED
  BY <1>1, LookupFailsInv

LEMMA EnterProvisionInv ==
  ASSUME Inv, NEW p \in Procs, EnterProvision(p)
  PROVE  Inv'
<1> USE NoneAssumption DEF world, booting, ghosts, EnterProvision, Take, Goto, Issuing
<1>0. /\ TypeOK /\ MutexInv /\ JobInv /\ RowInv /\ HolderInv /\ RowShape
      /\ GrantRecorded /\ CachedTokenCurrent /\ TokenScopedToCall /\ EveryKeyAccounted
  BY RowType DEF Inv
<1>1. User(p) \in Users /\ List(p) \subseteq Sources
  BY <1>0, UserType DEF JobInv
<1>2. TypeOK'
  <2>1. row' \in [Users -> Row]
    BY <1>0, <1>1 DEF TypeOK, Row, JobInv, HolderInv, MyRow
  <2>2. gb' \in [Ids -> GClient] /\ cache' \in [Users -> Cached]
    BY <1>0, <1>1 DEF TypeOK, RowShape, GClient, Cached, HolderInv, MyRow
  <2>3. pc' \in [Procs -> {"idle", "wait", "forward"} \union Critical] /\ job' \in [Procs -> Job]
    BY <1>0, <1>1 DEF TypeOK, Critical, Job
  <2>4. gid' \in [Procs -> Ids \union {None}] /\ tok' \in [Procs -> Tok]
    BY <1>0, <1>1 DEF TypeOK, Tok, NoTok, RowShape, HolderInv, MyRow, Cached, GClient
  <2>5. interrupted' \subseteq Users /\ stray' \subseteq Ids /\ lock' \in Procs \union {None}
    BY <1>0, <1>1 DEF TypeOK, Unrecorded
  <2>6. QED
    BY <1>0, <2>1, <2>2, <2>3, <2>4, <2>5 DEF TypeOK
<1>3. RowShape'
  BY <1>2, RowTypePrime
<1>4. MutexInv' /\ JobInv'
  BY <1>0, <1>1 DEF TypeOK, MutexInv, Critical, Procs, JobInv, NoJob
<1>5. RowInv'
  BY <1>0, <1>1, <1>3 DEF TypeOK, RowShape, RowInv, HolderInv, MyRow, User
<1>6. HolderInv'
  <2>1. \A q \in Procs \ {p} : pc'[q] = pc[q] /\ pc[q] \notin Critical
    BY <1>0 DEF TypeOK, MutexInv, Procs
  <2>2. pc'[p] = "register" /\ MyRow(p)'.state = "issuing"
    BY <1>0, <1>1 DEF TypeOK, MyRow, User
  <2>3. QED
    BY <2>1, <2>2 DEF HolderInv, Critical
<1>7. GrantRecorded'
  <2>1. \A q \in Procs : pc[q] \notin Critical /\ q # lock
    BY <1>0 DEF MutexInv, Procs
  <2>2. \A q \in Procs : ~Rescoping(q)
    BY <2>1 DEF Rescoping, Critical
  <2>3. QED
    BY <1>0, <1>1, <2>2 DEF TypeOK, GrantRecorded
<1>8. CachedTokenCurrent'
  BY <1>0, <1>1 DEF TypeOK, RowShape, CachedTokenCurrent, MutexInv, Critical, MyRow, User, List, HolderInv, RowInv
<1>9. TokenScopedToCall'
  BY <1>0, <1>1 DEF TypeOK, TokenScopedToCall, User, List
<1>10. EveryKeyAccounted'
  <2>1. \A q \in Procs : lock # q
    BY DEF Procs
  <2>2. row[User(p)].id = None
    BY <1>0, <1>1 DEF RowShape, MyRow
  <2>3. QED
    BY <1>0, <1>1, <2>1, <2>2 DEF TypeOK, EveryKeyAccounted, RowNames, InHand, User
<1>11. QED
  BY <1>2, <1>4, <1>5, <1>6, <1>7, <1>8, <1>9, <1>10 DEF Inv

LEMMA EnterActiveInv ==
  ASSUME Inv, NEW p \in Procs, EnterActive(p)
  PROVE  Inv'
<1> USE NoneAssumption DEF world, booting, ghosts, EnterActive, Take, Goto
<1>0. /\ TypeOK /\ MutexInv /\ JobInv /\ RowInv /\ HolderInv /\ RowShape
      /\ GrantRecorded /\ CachedTokenCurrent /\ TokenScopedToCall /\ EveryKeyAccounted
  BY RowType DEF Inv
<1>1. User(p) \in Users /\ List(p) \subseteq Sources
  BY <1>0, UserType DEF JobInv
<1>2. TypeOK'
  <2>1. row' \in [Users -> Row]
    BY <1>0, <1>1 DEF TypeOK, Row, JobInv, HolderInv, MyRow
  <2>2. gb' \in [Ids -> GClient] /\ cache' \in [Users -> Cached]
    BY <1>0, <1>1 DEF TypeOK, RowShape, GClient, Cached, HolderInv, MyRow
  <2>3. pc' \in [Procs -> {"idle", "wait", "forward"} \union Critical] /\ job' \in [Procs -> Job]
    BY <1>0, <1>1 DEF TypeOK, Critical, Job
  <2>4. gid' \in [Procs -> Ids \union {None}] /\ tok' \in [Procs -> Tok]
    BY <1>0, <1>1 DEF TypeOK, Tok, NoTok, RowShape, HolderInv, MyRow, Cached, GClient
  <2>5. interrupted' \subseteq Users /\ stray' \subseteq Ids /\ lock' \in Procs \union {None}
    BY <1>0, <1>1 DEF TypeOK, Unrecorded
  <2>6. QED
    BY <1>0, <2>1, <2>2, <2>3, <2>4, <2>5 DEF TypeOK
<1>3. RowShape'
  BY <1>2, RowTypePrime
<1>4. MutexInv' /\ JobInv'
  BY <1>0, <1>1 DEF TypeOK, MutexInv, Critical, Procs, JobInv, NoJob
<1>5. RowInv'
  BY <1>0, <1>1, <1>3 DEF TypeOK, RowShape, RowInv, HolderInv, MyRow, User
<1>6. HolderInv'
  BY <1>0, <1>1, <1>4 DEF TypeOK, MutexInv, HolderInv, Client, Critical, MyRow, User, List
<1>7. GrantRecorded'
  BY <1>0, <1>1 DEF TypeOK, GrantRecorded, MutexInv, Critical, Rescoping, MyRow, User, List
<1>8. CachedTokenCurrent'
  BY <1>0, <1>1 DEF TypeOK, CachedTokenCurrent, MutexInv, Critical, User
<1>9. TokenScopedToCall'
  BY <1>0, <1>1 DEF TypeOK, TokenScopedToCall, User, List
<1>10. EveryKeyAccounted'
  BY <1>0, <1>1 DEF TypeOK, EveryKeyAccounted, RowNames, InHand, Procs, MyRow, User, List, RowShape
<1>11. QED
  BY <1>2, <1>4, <1>5, <1>6, <1>7, <1>8, <1>9, <1>10 DEF Inv

LEMMA EnterReissueInv ==
  ASSUME Inv, NEW p \in Procs, EnterReissue(p)
  PROVE  Inv'
<1> USE NoneAssumption DEF world, booting, ghosts, EnterReissue, Take, Goto, Evict, NoCache
<1>0. /\ TypeOK /\ MutexInv /\ JobInv /\ RowInv /\ HolderInv /\ RowShape
      /\ GrantRecorded /\ CachedTokenCurrent /\ TokenScopedToCall /\ EveryKeyAccounted
  BY RowType DEF Inv
<1>1. User(p) \in Users /\ List(p) \subseteq Sources
  BY <1>0, UserType DEF JobInv
<1>2. TypeOK'
  <2>1. row' \in [Users -> Row]
    BY <1>0, <1>1 DEF TypeOK, Row, JobInv, HolderInv, MyRow
  <2>2. gb' \in [Ids -> GClient] /\ cache' \in [Users -> Cached]
    BY <1>0, <1>1 DEF TypeOK, RowShape, GClient, Cached, HolderInv, MyRow
  <2>3. pc' \in [Procs -> {"idle", "wait", "forward"} \union Critical] /\ job' \in [Procs -> Job]
    BY <1>0, <1>1 DEF TypeOK, Critical, Job
  <2>4. gid' \in [Procs -> Ids \union {None}] /\ tok' \in [Procs -> Tok]
    BY <1>0, <1>1 DEF TypeOK, Tok, NoTok, RowShape, HolderInv, MyRow, Cached, GClient
  <2>5. interrupted' \subseteq Users /\ stray' \subseteq Ids /\ lock' \in Procs \union {None}
    BY <1>0, <1>1 DEF TypeOK, Unrecorded
  <2>6. QED
    BY <1>0, <2>1, <2>2, <2>3, <2>4, <2>5 DEF TypeOK
<1>3. RowShape'
  BY <1>2, RowTypePrime
<1>4. MutexInv' /\ JobInv'
  BY <1>0, <1>1 DEF TypeOK, MutexInv, Critical, Procs, JobInv, NoJob
<1>5. RowInv'
  BY <1>0, <1>1, <1>3 DEF TypeOK, RowShape, RowInv, HolderInv, MyRow, User
<1>6. HolderInv'
  BY <1>0, <1>1, <1>4 DEF TypeOK, MutexInv, HolderInv, Client, Critical, MyRow, User, List
<1>7. GrantRecorded'
  BY <1>0, <1>1 DEF TypeOK, GrantRecorded, MutexInv, Critical, Rescoping, MyRow, User, List
<1>8. CachedTokenCurrent'
  BY <1>0, <1>1 DEF TypeOK, CachedTokenCurrent, MutexInv, Critical, User
<1>9. TokenScopedToCall'
  BY <1>0, <1>1 DEF TypeOK, TokenScopedToCall, User, List
<1>10. EveryKeyAccounted'
  BY <1>0, <1>1 DEF TypeOK, EveryKeyAccounted, RowNames, InHand, Procs, MyRow, User, List, RowShape
<1>11. QED
  BY <1>2, <1>4, <1>5, <1>6, <1>7, <1>8, <1>9, <1>10 DEF Inv

LEMMA RegisteredInv ==
  ASSUME Inv, NEW p \in Procs, NEW i \in Ids, Registered(p, i)
  PROVE  Inv'
<1> USE NoneAssumption DEF world, booting, ghosts, Registered, Create, Client, Stay, Goto
<1>0. /\ TypeOK /\ MutexInv /\ JobInv /\ RowInv /\ HolderInv /\ RowShape
      /\ GrantRecorded /\ CachedTokenCurrent /\ TokenScopedToCall /\ EveryKeyAccounted
  BY RowType DEF Inv
<1>1. User(p) \in Users /\ List(p) \subseteq Sources /\ lock = p /\ gid[p] \in Ids \union {None}
  BY <1>0, UserType DEF TypeOK, MutexInv, Critical
<1>2. TypeOK'
  <2>1. row' \in [Users -> Row]
    BY <1>0, <1>1 DEF TypeOK, Row, JobInv, HolderInv, MyRow
  <2>2. gb' \in [Ids -> GClient] /\ cache' \in [Users -> Cached]
    BY <1>0, <1>1 DEF TypeOK, RowShape, GClient, Cached, HolderInv, MyRow
  <2>3. pc' \in [Procs -> {"idle", "wait", "forward"} \union Critical] /\ job' \in [Procs -> Job]
    BY <1>0, <1>1 DEF TypeOK, Critical, Job
  <2>4. gid' \in [Procs -> Ids \union {None}] /\ tok' \in [Procs -> Tok]
    BY <1>0, <1>1 DEF TypeOK, Tok, NoTok, RowShape, HolderInv, MyRow, Cached, GClient
  <2>5. interrupted' \subseteq Users /\ stray' \subseteq Ids /\ lock' \in Procs \union {None}
    BY <1>0, <1>1 DEF TypeOK, Unrecorded
  <2>6. QED
    BY <1>0, <2>1, <2>2, <2>3, <2>4, <2>5 DEF TypeOK
<1>3. RowShape'
  BY <1>2, RowTypePrime
<1>4. MutexInv' /\ JobInv'
  <2>1. MutexInv'
    BY <1>0, <1>1 DEF TypeOK, MutexInv, Critical, Procs
  <2>2. JobInv'
    BY <1>0, <1>1 DEF TypeOK, JobInv, NoJob
  <2>3. QED
    BY <2>1, <2>2
<1>5. RowInv'
  BY <1>0, <1>1, <1>3 DEF TypeOK, RowShape, RowInv, HolderInv, MyRow, User
<1>6. HolderInv'
  BY <1>0, <1>1, <1>4 DEF TypeOK, MutexInv, HolderInv, Client, Critical, MyRow, User, List
<1>7. GrantRecorded'
  BY <1>0, <1>1 DEF TypeOK, GrantRecorded, MutexInv, Critical, Rescoping, MyRow, User, List
<1>8. CachedTokenCurrent'
  BY <1>0, <1>1 DEF TypeOK, RowShape, CachedTokenCurrent, MutexInv, Critical, MyRow, User, List, HolderInv, RowInv
<1>9. TokenScopedToCall'
  BY <1>0, <1>1 DEF TypeOK, TokenScopedToCall, User, List
<1>10. EveryKeyAccounted'
  BY <1>0, <1>1 DEF TypeOK, EveryKeyAccounted, RowNames, InHand, MutexInv, Critical, JobInv, MyRow, User
<1>11. QED
  BY <1>2, <1>4, <1>5, <1>6, <1>7, <1>8, <1>9, <1>10 DEF Inv

LEMMA RegisterLostInv ==
  ASSUME Inv, NEW p \in Procs, NEW i \in Ids, RegisterLost(p, i)
  PROVE  Inv'
<1> USE NoneAssumption DEF world, booting, ghosts, RegisterLost, Create, Client, Stay, Goto
<1>0. /\ TypeOK /\ MutexInv /\ JobInv /\ RowInv /\ HolderInv /\ RowShape
      /\ GrantRecorded /\ CachedTokenCurrent /\ TokenScopedToCall /\ EveryKeyAccounted
  BY RowType DEF Inv
<1>1. User(p) \in Users /\ List(p) \subseteq Sources /\ lock = p /\ gid[p] \in Ids \union {None}
  BY <1>0, UserType DEF TypeOK, MutexInv, Critical
<1>2. TypeOK'
  <2>1. row' \in [Users -> Row]
    BY <1>0, <1>1 DEF TypeOK, Row, JobInv, HolderInv, MyRow
  <2>2. gb' \in [Ids -> GClient] /\ cache' \in [Users -> Cached]
    BY <1>0, <1>1 DEF TypeOK, RowShape, GClient, Cached, HolderInv, MyRow
  <2>3. pc' \in [Procs -> {"idle", "wait", "forward"} \union Critical] /\ job' \in [Procs -> Job]
    BY <1>0, <1>1 DEF TypeOK, Critical, Job
  <2>4. gid' \in [Procs -> Ids \union {None}] /\ tok' \in [Procs -> Tok]
    BY <1>0, <1>1 DEF TypeOK, Tok, NoTok, RowShape, HolderInv, MyRow, Cached, GClient
  <2>5. interrupted' \subseteq Users /\ stray' \subseteq Ids /\ lock' \in Procs \union {None}
    BY <1>0, <1>1 DEF TypeOK, Unrecorded
  <2>6. QED
    BY <1>0, <2>1, <2>2, <2>3, <2>4, <2>5 DEF TypeOK
<1>3. RowShape'
  BY <1>2, RowTypePrime
<1>4. MutexInv' /\ JobInv'
  BY <1>0, <1>1 DEF TypeOK, MutexInv, Critical, Procs, JobInv, NoJob
<1>5. RowInv'
  BY <1>0, <1>1, <1>3 DEF TypeOK, RowShape, RowInv, HolderInv, MyRow, User
<1>6. HolderInv'
  BY <1>0, <1>1, <1>4 DEF TypeOK, RowShape, MutexInv, JobInv, RowInv, HolderInv, CachedTokenCurrent, Client, Critical, MyRow, User, List
<1>7. GrantRecorded'
  BY <1>0, <1>1 DEF TypeOK, GrantRecorded, MutexInv, Critical, Rescoping, MyRow, User, List
<1>8. CachedTokenCurrent'
  BY <1>0, <1>1 DEF TypeOK, RowShape, CachedTokenCurrent, MutexInv, Critical, MyRow, User, List, HolderInv, RowInv
<1>9. TokenScopedToCall'
  BY <1>0, <1>1 DEF TypeOK, TokenScopedToCall, User, List
<1>10. EveryKeyAccounted'
  BY <1>0, <1>1 DEF TypeOK, EveryKeyAccounted, RowNames, InHand, MutexInv, Critical, JobInv, MyRow, User
<1>11. QED
  BY <1>2, <1>4, <1>5, <1>6, <1>7, <1>8, <1>9, <1>10 DEF Inv

LEMMA RegisterRefusedInv ==
  ASSUME Inv, NEW p \in Procs, RegisterRefused(p)
  PROVE  Inv'
<1> USE NoneAssumption DEF world, booting, ghosts, RegisterRefused, Stay, Goto
<1>0. /\ TypeOK /\ MutexInv /\ JobInv /\ RowInv /\ HolderInv /\ RowShape
      /\ GrantRecorded /\ CachedTokenCurrent /\ TokenScopedToCall /\ EveryKeyAccounted
  BY RowType DEF Inv
<1>1. User(p) \in Users /\ List(p) \subseteq Sources /\ lock = p /\ gid[p] \in Ids \union {None}
  BY <1>0, UserType DEF TypeOK, MutexInv, Critical
<1>2. TypeOK'
  <2>1. row' \in [Users -> Row]
    BY <1>0, <1>1 DEF TypeOK, Row, JobInv, HolderInv, MyRow
  <2>2. gb' \in [Ids -> GClient] /\ cache' \in [Users -> Cached]
    BY <1>0, <1>1 DEF TypeOK, RowShape, GClient, Cached, HolderInv, MyRow
  <2>3. pc' \in [Procs -> {"idle", "wait", "forward"} \union Critical] /\ job' \in [Procs -> Job]
    BY <1>0, <1>1 DEF TypeOK, Critical, Job
  <2>4. gid' \in [Procs -> Ids \union {None}] /\ tok' \in [Procs -> Tok]
    BY <1>0, <1>1 DEF TypeOK, Tok, NoTok, RowShape, HolderInv, MyRow, Cached, GClient
  <2>5. interrupted' \subseteq Users /\ stray' \subseteq Ids /\ lock' \in Procs \union {None}
    BY <1>0, <1>1 DEF TypeOK, Unrecorded
  <2>6. QED
    BY <1>0, <2>1, <2>2, <2>3, <2>4, <2>5 DEF TypeOK
<1>3. RowShape'
  BY <1>2, RowTypePrime
<1>4. MutexInv' /\ JobInv'
  BY <1>0, <1>1 DEF TypeOK, MutexInv, Critical, Procs, JobInv, NoJob
<1>5. RowInv'
  BY <1>0, <1>1, <1>3 DEF TypeOK, RowShape, RowInv, HolderInv, MyRow, User
<1>6. HolderInv'
  BY <1>0, <1>1, <1>4 DEF TypeOK, RowShape, MutexInv, JobInv, RowInv, HolderInv, CachedTokenCurrent, Client, Critical, MyRow, User, List
<1>7. GrantRecorded'
  BY <1>0, <1>1 DEF TypeOK, GrantRecorded, MutexInv, Critical, Rescoping, MyRow, User, List
<1>8. CachedTokenCurrent'
  BY <1>0, <1>1 DEF TypeOK, CachedTokenCurrent, MutexInv, Critical, User
<1>9. TokenScopedToCall'
  BY <1>0, <1>1 DEF TypeOK, TokenScopedToCall, User, List
<1>10. EveryKeyAccounted'
  BY <1>0, <1>1 DEF TypeOK, EveryKeyAccounted, RowNames, InHand, MutexInv, Critical, JobInv, MyRow, User
<1>11. QED
  BY <1>2, <1>4, <1>5, <1>6, <1>7, <1>8, <1>9, <1>10 DEF Inv

LEMMA ActivatedInv ==
  ASSUME Inv, NEW p \in Procs, Activated(p)
  PROVE  Inv'
<1> USE NoneAssumption DEF world, booting, ghosts, Activated, Stay, Goto, Return
<1>0. /\ TypeOK /\ MutexInv /\ JobInv /\ RowInv /\ HolderInv /\ RowShape
      /\ GrantRecorded /\ CachedTokenCurrent /\ TokenScopedToCall /\ EveryKeyAccounted
  BY RowType DEF Inv
<1>1. User(p) \in Users /\ List(p) \subseteq Sources /\ lock = p /\ gid[p] \in Ids \union {None}
  BY <1>0, UserType DEF TypeOK, MutexInv, Critical
<1>2. TypeOK'
  <2>1. row' \in [Users -> Row]
    BY <1>0, <1>1 DEF TypeOK, Row, JobInv, HolderInv, MyRow
  <2>2. gb' \in [Ids -> GClient] /\ cache' \in [Users -> Cached]
    BY <1>0, <1>1 DEF TypeOK, RowShape, GClient, Cached, HolderInv, MyRow
  <2>3. pc' \in [Procs -> {"idle", "wait", "forward"} \union Critical] /\ job' \in [Procs -> Job]
    BY <1>0, <1>1 DEF TypeOK, Critical, Job
  <2>4. gid' \in [Procs -> Ids \union {None}] /\ tok' \in [Procs -> Tok]
    <3>1. gid' \in [Procs -> Ids \union {None}]
      BY <1>0, <1>1 DEF TypeOK
    <3>2. NoTok \in Tok
      BY DEF Tok, NoTok
    <3>3. tok' \in [Procs -> Tok]
      BY <1>0, <1>1, <3>2 DEF TypeOK
    <3>4. QED
      BY <3>1, <3>3
  <2>5. interrupted' \subseteq Users /\ stray' \subseteq Ids /\ lock' \in Procs \union {None}
    BY <1>0, <1>1 DEF TypeOK, Unrecorded
  <2>6. QED
    BY <1>0, <2>1, <2>2, <2>3, <2>4, <2>5 DEF TypeOK
<1>3. RowShape'
  BY <1>2, RowTypePrime
<1>4. MutexInv' /\ JobInv'
  <2>1. MutexInv'
    BY <1>0, <1>1 DEF TypeOK, MutexInv, Critical, Procs
  <2>2. JobInv'
    BY <1>0, <1>1 DEF TypeOK, JobInv, NoJob
  <2>3. QED
    BY <2>1, <2>2
<1>5. RowInv'
  <2> SUFFICES ASSUME NEW u \in Users
               PROVE  /\ row'[u].id # None =>
                           /\ gb'[row'[u].id].status # "unused"
                           /\ gb'[row'[u].id].status = "live" => gb'[row'[u].id].owner = u
                      /\ row'[u].state = "active" => gb'[row'[u].id].status = "live"
    BY DEF RowInv
  <2>1. CASE u = User(p)
    <3>1. row'[u].id = gid[p] /\ gid[p] \in Ids /\ gb'[gid[p]] = Client(p)
      BY <1>0, <1>1, <2>1 DEF TypeOK, HolderInv
    <3>2. QED
      BY <2>1, <3>1 DEF Client
  <2>2. CASE u # User(p)
    BY <1>0, <1>1, <2>2 DEF TypeOK, RowInv
  <2>3. QED
    BY <2>1, <2>2
<1>6. HolderInv'
  BY <1>0, <1>1, <1>4 DEF TypeOK, MutexInv, HolderInv, Client, Critical, MyRow, User, List
<1>7. GrantRecorded'
  BY <1>0, <1>1 DEF TypeOK, RowShape, GrantRecorded, MutexInv, Critical, Rescoping, Client, MyRow, User, List, HolderInv, RowInv
<1>8. CachedTokenCurrent'
  BY <1>0, <1>1 DEF TypeOK, RowShape, CachedTokenCurrent, MutexInv, Critical, MyRow, User, List, HolderInv, RowInv
<1>9. TokenScopedToCall'
  BY <1>0, <1>1 DEF TypeOK, TokenScopedToCall, User, List
<1>10. EveryKeyAccounted'
  BY <1>0, <1>1 DEF TypeOK, RowShape, EveryKeyAccounted, RowNames, InHand, MutexInv, Critical, JobInv, Unrecorded, MyRow, User, List, HolderInv, RowInv, Client
<1>11. QED
  BY <1>2, <1>4, <1>5, <1>6, <1>7, <1>8, <1>9, <1>10 DEF Inv

LEMMA ActivateFailsInv ==
  ASSUME Inv, NEW p \in Procs, ActivateFails(p)
  PROVE  Inv'
<1> USE NoneAssumption DEF world, booting, ghosts, ActivateFails, Stay, Goto
<1>0. /\ TypeOK /\ MutexInv /\ JobInv /\ RowInv /\ HolderInv /\ RowShape
      /\ GrantRecorded /\ CachedTokenCurrent /\ TokenScopedToCall /\ EveryKeyAccounted
  BY RowType DEF Inv
<1>1. User(p) \in Users /\ List(p) \subseteq Sources /\ lock = p /\ gid[p] \in Ids \union {None}
  BY <1>0, UserType DEF TypeOK, MutexInv, Critical
<1>2. TypeOK'
  <2>1. row' \in [Users -> Row]
    BY <1>0, <1>1 DEF TypeOK, Row, JobInv, HolderInv, MyRow
  <2>2. gb' \in [Ids -> GClient] /\ cache' \in [Users -> Cached]
    BY <1>0, <1>1 DEF TypeOK, RowShape, GClient, Cached, HolderInv, MyRow
  <2>3. pc' \in [Procs -> {"idle", "wait", "forward"} \union Critical] /\ job' \in [Procs -> Job]
    BY <1>0, <1>1 DEF TypeOK, Critical, Job
  <2>4. gid' \in [Procs -> Ids \union {None}] /\ tok' \in [Procs -> Tok]
    BY <1>0, <1>1 DEF TypeOK, Tok, NoTok, RowShape, HolderInv, MyRow, Cached, GClient
  <2>5. interrupted' \subseteq Users /\ stray' \subseteq Ids /\ lock' \in Procs \union {None}
    BY <1>0, <1>1 DEF TypeOK, Unrecorded
  <2>6. QED
    BY <1>0, <2>1, <2>2, <2>3, <2>4, <2>5 DEF TypeOK
<1>3. RowShape'
  BY <1>2, RowTypePrime
<1>4. MutexInv' /\ JobInv'
  BY <1>0, <1>1 DEF TypeOK, MutexInv, Critical, Procs, JobInv, NoJob
<1>5. RowInv'
  BY <1>0, <1>1, <1>3 DEF TypeOK, RowShape, RowInv, HolderInv, MyRow, User
<1>6. HolderInv'
  BY <1>0, <1>1, <1>4 DEF TypeOK, MutexInv, HolderInv, Client, Critical, MyRow, User, List
<1>7. GrantRecorded'
  BY <1>0, <1>1 DEF TypeOK, GrantRecorded, MutexInv, Critical, Rescoping, MyRow, User, List
<1>8. CachedTokenCurrent'
  BY <1>0, <1>1 DEF TypeOK, CachedTokenCurrent, MutexInv, Critical, User
<1>9. TokenScopedToCall'
  BY <1>0, <1>1 DEF TypeOK, TokenScopedToCall, User, List
<1>10. EveryKeyAccounted'
  BY <1>0, <1>1 DEF TypeOK, EveryKeyAccounted, RowNames, InHand, MutexInv, Critical, JobInv, MyRow, User
<1>11. QED
  BY <1>2, <1>4, <1>5, <1>6, <1>7, <1>8, <1>9, <1>10 DEF Inv

LEMMA UndoneInv ==
  ASSUME Inv, NEW p \in Procs, Undone(p)
  PROVE  Inv'
<1> USE NoneAssumption DEF world, booting, ghosts, Undone, Stay, Goto, Revoked
<1>0. /\ TypeOK /\ MutexInv /\ JobInv /\ RowInv /\ HolderInv /\ RowShape
      /\ GrantRecorded /\ CachedTokenCurrent /\ TokenScopedToCall /\ EveryKeyAccounted
  BY RowType DEF Inv
<1>1. User(p) \in Users /\ List(p) \subseteq Sources /\ lock = p /\ gid[p] \in Ids \union {None}
  BY <1>0, UserType DEF TypeOK, MutexInv, Critical
<1>2. TypeOK'
  <2>1. row' \in [Users -> Row]
    BY <1>0, <1>1 DEF TypeOK, Row, JobInv, HolderInv, MyRow
  <2>2. gb' \in [Ids -> GClient] /\ cache' \in [Users -> Cached]
    BY <1>0, <1>1 DEF TypeOK, RowShape, GClient, Cached, HolderInv, MyRow
  <2>3. pc' \in [Procs -> {"idle", "wait", "forward"} \union Critical] /\ job' \in [Procs -> Job]
    BY <1>0, <1>1 DEF TypeOK, Critical, Job
  <2>4. gid' \in [Procs -> Ids \union {None}] /\ tok' \in [Procs -> Tok]
    BY <1>0, <1>1 DEF TypeOK, Tok, NoTok, RowShape, HolderInv, MyRow, Cached, GClient
  <2>5. interrupted' \subseteq Users /\ stray' \subseteq Ids /\ lock' \in Procs \union {None}
    BY <1>0, <1>1 DEF TypeOK, Unrecorded
  <2>6. QED
    BY <1>0, <2>1, <2>2, <2>3, <2>4, <2>5 DEF TypeOK
<1>3. RowShape'
  BY <1>2, RowTypePrime
<1>4. MutexInv' /\ JobInv'
  BY <1>0, <1>1 DEF TypeOK, MutexInv, Critical, Procs, JobInv, NoJob
<1>5. RowInv'
  <2>1. gb[gid[p]] = Client(p) /\ gid[p] \in Ids /\ row[User(p)].id = None /\ row[User(p)].state = "issuing"
    BY <1>0, <1>1 DEF HolderInv, RowShape, MyRow
  <2>2. \A u \in Users : row[u].id # gid[p]
    BY <1>0, <1>1, <2>1 DEF RowInv, Client
  <2>3. QED
    BY <1>0, <1>1, <2>1, <2>2 DEF TypeOK, RowShape, RowInv
<1>6. HolderInv'
  BY <1>0, <1>1, <1>4 DEF TypeOK, MutexInv, HolderInv, Client, Critical, MyRow, User, List
<1>7. GrantRecorded'
  <2>1. gb[gid[p]] = Client(p) /\ gid[p] \in Ids /\ row[User(p)].id = None /\ row[User(p)].state = "issuing"
    BY <1>0, <1>1 DEF HolderInv, RowShape, MyRow
  <2>2. \A u \in Users : row[u].id # gid[p]
    BY <1>0, <1>1, <2>1 DEF RowInv, Client
  <2>3. QED
    BY <1>0, <1>1, <2>1, <2>2 DEF TypeOK, RowShape, GrantRecorded, Rescoping, MyRow, User, List
<1>8. CachedTokenCurrent'
  <2>1. gb[gid[p]] = Client(p) /\ gid[p] \in Ids /\ row[User(p)].id = None /\ row[User(p)].state = "issuing"
    BY <1>0, <1>1 DEF HolderInv, RowShape, MyRow
  <2>2. \A u \in Users : row[u].id # gid[p]
    BY <1>0, <1>1, <2>1 DEF RowInv, Client
  <2>3. QED
    BY <1>0, <1>1, <2>1, <2>2 DEF TypeOK, RowShape, CachedTokenCurrent, User
<1>9. TokenScopedToCall'
  BY <1>0, <1>1 DEF TypeOK, TokenScopedToCall, User, List
<1>10. EveryKeyAccounted'
  BY <1>0, <1>1 DEF TypeOK, EveryKeyAccounted, RowNames, InHand, MutexInv, Critical, JobInv, MyRow, User
<1>11. QED
  BY <1>2, <1>4, <1>5, <1>6, <1>7, <1>8, <1>9, <1>10 DEF Inv

LEMMA UndoFailsInv ==
  ASSUME Inv, NEW p \in Procs, UndoFails(p)
  PROVE  Inv'
<1> USE NoneAssumption DEF world, booting, ghosts, UndoFails, Stay, Goto, Revoked
<1>0. /\ TypeOK /\ MutexInv /\ JobInv /\ RowInv /\ HolderInv /\ RowShape
      /\ GrantRecorded /\ CachedTokenCurrent /\ TokenScopedToCall /\ EveryKeyAccounted
  BY RowType DEF Inv
<1>1. User(p) \in Users /\ List(p) \subseteq Sources /\ lock = p /\ gid[p] \in Ids \union {None}
  BY <1>0, UserType DEF TypeOK, MutexInv, Critical
<1>2. TypeOK'
  <2>1. row' \in [Users -> Row]
    BY <1>0, <1>1 DEF TypeOK, Row, JobInv, HolderInv, MyRow
  <2>2. gb' \in [Ids -> GClient] /\ cache' \in [Users -> Cached]
    <3>1. Revoked \in GClient
      BY DEF GClient, Revoked
    <3>2. gb' \in [Ids -> GClient]
      <4>1. CASE gb' = gb
        BY <1>0, <4>1 DEF TypeOK
      <4>2. CASE gb' = [gb EXCEPT ![gid[p]] = Revoked]
        BY <1>0, <3>1, <4>2 DEF TypeOK
      <4>3. QED
        BY <4>1, <4>2
    <3>3. QED
      BY <1>0, <3>2 DEF TypeOK
  <2>3. pc' \in [Procs -> {"idle", "wait", "forward"} \union Critical] /\ job' \in [Procs -> Job]
    BY <1>0, <1>1 DEF TypeOK, Critical, Job
  <2>4. gid' \in [Procs -> Ids \union {None}] /\ tok' \in [Procs -> Tok]
    BY <1>0, <1>1 DEF TypeOK, Tok, NoTok, RowShape, HolderInv, MyRow, Cached, GClient
  <2>5. interrupted' \subseteq Users /\ stray' \subseteq Ids /\ lock' \in Procs \union {None}
    BY <1>0, <1>1 DEF TypeOK, Unrecorded
  <2>6. QED
    BY <1>0, <2>1, <2>2, <2>3, <2>4, <2>5 DEF TypeOK
<1>3. RowShape'
  BY <1>2, RowTypePrime
<1>4. MutexInv' /\ JobInv'
  BY <1>0, <1>1 DEF TypeOK, MutexInv, Critical, Procs, JobInv, NoJob
<1>5. RowInv'
  <2>1. gb[gid[p]] = Client(p) /\ gid[p] \in Ids /\ row[User(p)].id = None /\ row[User(p)].state = "issuing"
    BY <1>0, <1>1 DEF HolderInv, RowShape, MyRow
  <2>2. \A u \in Users : row[u].id # gid[p]
    BY <1>0, <1>1, <2>1 DEF RowInv, Client
  <2>3. QED
    BY <1>0, <1>1, <2>1, <2>2 DEF TypeOK, RowShape, RowInv
<1>6. HolderInv'
  BY <1>0, <1>1, <1>4 DEF TypeOK, MutexInv, HolderInv, Client, Critical, MyRow, User, List
<1>7. GrantRecorded'
  <2>1. gb[gid[p]] = Client(p) /\ gid[p] \in Ids /\ row[User(p)].id = None /\ row[User(p)].state = "issuing"
    BY <1>0, <1>1 DEF HolderInv, RowShape, MyRow
  <2>2. \A u \in Users : row[u].id # gid[p]
    BY <1>0, <1>1, <2>1 DEF RowInv, Client
  <2>3. QED
    BY <1>0, <1>1, <2>1, <2>2 DEF TypeOK, RowShape, GrantRecorded, Rescoping, MyRow, User, List
<1>8. CachedTokenCurrent'
  <2>1. gb[gid[p]] = Client(p) /\ gid[p] \in Ids /\ row[User(p)].id = None /\ row[User(p)].state = "issuing"
    BY <1>0, <1>1 DEF HolderInv, RowShape, MyRow
  <2>2. \A u \in Users : row[u].id # gid[p]
    BY <1>0, <1>1, <2>1 DEF RowInv, Client
  <2>3. QED
    BY <1>0, <1>1, <2>1, <2>2 DEF TypeOK, RowShape, CachedTokenCurrent, User
<1>9. TokenScopedToCall'
  BY <1>0, <1>1 DEF TypeOK, TokenScopedToCall, User, List
<1>10. EveryKeyAccounted'
  BY <1>0, <1>1 DEF TypeOK, EveryKeyAccounted, RowNames, InHand, MutexInv, Critical, JobInv, MyRow, User
<1>11. QED
  BY <1>2, <1>4, <1>5, <1>6, <1>7, <1>8, <1>9, <1>10 DEF Inv

LEMMA MarkedInv ==
  ASSUME Inv, NEW p \in Procs, Marked(p)
  PROVE  Inv'
<1> USE NoneAssumption DEF world, booting, ghosts, Marked, Return, Evict, NoCache, Orphaned
<1>0. /\ TypeOK /\ MutexInv /\ JobInv /\ RowInv /\ HolderInv /\ RowShape
      /\ GrantRecorded /\ CachedTokenCurrent /\ TokenScopedToCall /\ EveryKeyAccounted
  BY RowType DEF Inv
<1>1. User(p) \in Users /\ List(p) \subseteq Sources /\ lock = p /\ gid[p] \in Ids \union {None}
  BY <1>0, UserType DEF TypeOK, MutexInv, Critical
<1>2. TypeOK'
  <2>1. row' \in [Users -> Row]
    <3>1. Orphaned(p) \in Row
      BY <1>0, <1>1 DEF Row, Orphaned, RowShape, MyRow
    <3>2. QED
      BY <1>0, <1>1, <3>1 DEF TypeOK
  <2>2. gb' \in [Ids -> GClient] /\ cache' \in [Users -> Cached]
    BY <1>0, <1>1 DEF TypeOK, RowShape, GClient, Cached, HolderInv, MyRow
  <2>3. pc' \in [Procs -> {"idle", "wait", "forward"} \union Critical] /\ job' \in [Procs -> Job]
    BY <1>0, <1>1 DEF TypeOK, Critical, Job
  <2>4. gid' \in [Procs -> Ids \union {None}] /\ tok' \in [Procs -> Tok]
    BY <1>0, <1>1 DEF TypeOK, Tok, NoTok, RowShape, HolderInv, MyRow, Cached, GClient
  <2>5. interrupted' \subseteq Users /\ stray' \subseteq Ids /\ lock' \in Procs \union {None}
    BY <1>0, <1>1 DEF TypeOK, Unrecorded
  <2>6. QED
    BY <1>0, <2>1, <2>2, <2>3, <2>4, <2>5 DEF TypeOK
<1>3. RowShape'
  BY <1>2, RowTypePrime
<1>4. MutexInv' /\ JobInv'
  BY <1>0, <1>1 DEF TypeOK, MutexInv, Critical, Procs, JobInv, NoJob
<1>5. RowInv'
  <2> SUFFICES ASSUME NEW u \in Users
               PROVE  /\ row'[u].id # None =>
                           /\ gb'[row'[u].id].status # "unused"
                           /\ gb'[row'[u].id].status = "live" => gb'[row'[u].id].owner = u
                      /\ row'[u].state = "active" => gb'[row'[u].id].status = "live"
    BY DEF RowInv
  <2>1. CASE u = User(p)
    <3>1. row'[u] = Orphaned(p) /\ UNCHANGED gb
      BY <1>0, <1>1, <2>1 DEF TypeOK
    <3>2. QED
      BY <1>0, <1>1, <2>1, <3>1 DEF HolderInv, RowInv, MyRow
  <2>2. CASE u # User(p)
    BY <1>0, <1>1, <2>2 DEF TypeOK, RowInv
  <2>3. QED
    BY <2>1, <2>2
<1>6. HolderInv'
  BY <1>0, <1>1, <1>4 DEF TypeOK, MutexInv, HolderInv, Client, Critical, MyRow, User, List
<1>7. GrantRecorded'
  BY <1>0, <1>1 DEF TypeOK, GrantRecorded, MutexInv, Critical, Rescoping, MyRow, User, List
<1>8. CachedTokenCurrent'
  BY <1>0, <1>1 DEF TypeOK, CachedTokenCurrent, MutexInv, Critical, User
<1>9. TokenScopedToCall'
  BY <1>0, <1>1 DEF TypeOK, TokenScopedToCall, User, List
<1>10. EveryKeyAccounted'
  <2> SUFFICES ASSUME NEW j \in Ids, gb'[j].status = "live"
               PROVE  \/ j \in stray'
                      \/ gb'[j].owner \in Users /\ row'[gb'[j].owner].id = j
                      \/ \E q \in Procs : lock' = q /\ gid'[q] = j /\ User(q)' = gb'[j].owner
    BY DEF EveryKeyAccounted, RowNames, InHand
  <2>1. UNCHANGED <<gb, stray>> /\ row'[User(p)] = Orphaned(p)
        /\ \A u \in Users : u # User(p) => row'[u] = row[u]
    BY <1>0, <1>1 DEF TypeOK
  <2>2. CASE gid[p] = j /\ gb[j].owner = User(p)
    BY <1>1, <2>1, <2>2
  <2>3. CASE gb[j].owner \in Users /\ row[gb[j].owner].id = j
    <3>1. CASE gb[j].owner = User(p)
      <4>1. gid[p] = None \/ gid[p] = j
        BY <1>0, <1>1, <2>3, <3>1 DEF HolderInv, RowShape, MyRow
      <4>2. QED
        BY <1>1, <2>1, <2>3, <3>1, <4>1 DEF MyRow
    <3>2. QED
      BY <2>1, <2>3, <3>1
  <2>4. QED
    BY <1>0, <1>1, <2>1, <2>2, <2>3 DEF EveryKeyAccounted, RowNames, InHand
<1>11. QED
  BY <1>2, <1>4, <1>5, <1>6, <1>7, <1>8, <1>9, <1>10 DEF Inv

LEMMA MarkFailsInv ==
  ASSUME Inv, NEW p \in Procs, MarkFails(p)
  PROVE  Inv'
<1> USE NoneAssumption DEF world, booting, ghosts, MarkFails, Return, Evict, NoCache, Unrecorded
<1>0. /\ TypeOK /\ MutexInv /\ JobInv /\ RowInv /\ HolderInv /\ RowShape
      /\ GrantRecorded /\ CachedTokenCurrent /\ TokenScopedToCall /\ EveryKeyAccounted
  BY RowType DEF Inv
<1>1. User(p) \in Users /\ List(p) \subseteq Sources /\ lock = p /\ gid[p] \in Ids \union {None}
  BY <1>0, UserType DEF TypeOK, MutexInv, Critical
<1>2. TypeOK'
  <2>1. row' \in [Users -> Row]
    BY <1>0, <1>1 DEF TypeOK, Row, JobInv, HolderInv, MyRow
  <2>2. gb' \in [Ids -> GClient] /\ cache' \in [Users -> Cached]
    BY <1>0, <1>1 DEF TypeOK, RowShape, GClient, Cached, HolderInv, MyRow
  <2>3. pc' \in [Procs -> {"idle", "wait", "forward"} \union Critical] /\ job' \in [Procs -> Job]
    BY <1>0, <1>1 DEF TypeOK, Critical, Job
  <2>4. gid' \in [Procs -> Ids \union {None}] /\ tok' \in [Procs -> Tok]
    BY <1>0, <1>1 DEF TypeOK, Tok, NoTok, RowShape, HolderInv, MyRow, Cached, GClient
  <2>5. interrupted' \subseteq Users /\ stray' \subseteq Ids /\ lock' \in Procs \union {None}
    BY <1>0, <1>1 DEF TypeOK, Unrecorded
  <2>6. QED
    BY <1>0, <2>1, <2>2, <2>3, <2>4, <2>5 DEF TypeOK
<1>3. RowShape'
  BY <1>2, RowTypePrime
<1>4. MutexInv' /\ JobInv'
  BY <1>0, <1>1 DEF TypeOK, MutexInv, Critical, Procs, JobInv, NoJob
<1>5. RowInv'
  BY <1>0, <1>1, <1>3 DEF TypeOK, RowShape, RowInv, HolderInv, MyRow, User
<1>6. HolderInv'
  BY <1>0, <1>1, <1>4 DEF TypeOK, MutexInv, HolderInv, Client, Critical, MyRow, User, List
<1>7. GrantRecorded'
  BY <1>0, <1>1 DEF TypeOK, GrantRecorded, MutexInv, Critical, Rescoping, MyRow, User, List
<1>8. CachedTokenCurrent'
  BY <1>0, <1>1 DEF TypeOK, CachedTokenCurrent, MutexInv, Critical, User
<1>9. TokenScopedToCall'
  BY <1>0, <1>1 DEF TypeOK, TokenScopedToCall, User, List
<1>10. EveryKeyAccounted'
  BY <1>0, <1>1 DEF TypeOK, EveryKeyAccounted, RowNames, InHand, MutexInv, Critical, JobInv, MyRow, User
<1>11. QED
  BY <1>2, <1>4, <1>5, <1>6, <1>7, <1>8, <1>9, <1>10 DEF Inv

LEMMA RescopedInv ==
  ASSUME Inv, NEW p \in Procs, Rescoped(p)
  PROVE  Inv'
<1> USE NoneAssumption DEF world, booting, ghosts, Rescoped, Stay, Goto
<1>0. /\ TypeOK /\ MutexInv /\ JobInv /\ RowInv /\ HolderInv /\ RowShape
      /\ GrantRecorded /\ CachedTokenCurrent /\ TokenScopedToCall /\ EveryKeyAccounted
  BY RowType DEF Inv
<1>1. User(p) \in Users /\ List(p) \subseteq Sources /\ lock = p /\ gid[p] \in Ids \union {None}
  BY <1>0, UserType DEF TypeOK, MutexInv, Critical
<1>2. TypeOK'
  <2>1. row' \in [Users -> Row]
    BY <1>0, <1>1 DEF TypeOK, Row, JobInv, HolderInv, MyRow
  <2>2. gb' \in [Ids -> GClient] /\ cache' \in [Users -> Cached]
    <3>1. MyRow(p).id \in Ids /\ gb[MyRow(p).id] \in GClient
      BY <1>0, <1>1 DEF TypeOK, HolderInv, RowShape, MyRow
    <3>2. [gb[MyRow(p).id] EXCEPT !.grant = List(p)] \in GClient
      BY <1>1, <3>1 DEF GClient
    <3>3. gb' \in [Ids -> GClient]
      BY <1>0, <3>1, <3>2 DEF TypeOK
    <3>4. cache' \in [Users -> Cached]
      <4>1. [cache[User(p)] EXCEPT !.has = FALSE, !.reach = {}] \in Cached
        <5>1. cache[User(p)] \in [id : Ids \union {None}, has : BOOLEAN, reach : SUBSET Sources]
          BY <1>0, <1>1 DEF TypeOK, Cached
        <5> HIDE DEF Rescoped
        <5>2. QED
          BY <5>1 DEF Cached
      <4>2. cache' = [cache EXCEPT ![User(p)] = [cache[User(p)] EXCEPT !.has = FALSE, !.reach = {}]]
        BY <1>0, <1>1 DEF TypeOK, Cached
      <4>3. QED
        BY <1>0, <1>1, <4>1, <4>2 DEF TypeOK
    <3>5. QED
      BY <3>3, <3>4
  <2>3. pc' \in [Procs -> {"idle", "wait", "forward"} \union Critical] /\ job' \in [Procs -> Job]
    BY <1>0, <1>1 DEF TypeOK, Critical, Job
  <2>4. gid' \in [Procs -> Ids \union {None}] /\ tok' \in [Procs -> Tok]
    BY <1>0, <1>1 DEF TypeOK, Tok, NoTok, RowShape, HolderInv, MyRow, Cached, GClient
  <2>5. interrupted' \subseteq Users /\ stray' \subseteq Ids /\ lock' \in Procs \union {None}
    BY <1>0, <1>1 DEF TypeOK, Unrecorded
  <2>6. QED
    BY <1>0, <2>1, <2>2, <2>3, <2>4, <2>5 DEF TypeOK
<1>3. RowShape'
  BY <1>2, RowTypePrime
<1>4. MutexInv' /\ JobInv'
  BY <1>0, <1>1 DEF TypeOK, MutexInv, Critical, Procs, JobInv, NoJob
<1>5. RowInv'
  <2>1. MyRow(p).id \in Ids /\ MyRow(p).state = "active" /\ gb[MyRow(p).id] \in GClient
        /\ gb[MyRow(p).id].status = "live" /\ gb[MyRow(p).id].owner = User(p)
    BY <1>0, <1>1 DEF TypeOK, HolderInv, RowShape, RowInv, MyRow
  <2>2. \A k \in Ids : /\ gb'[k].status = gb[k].status /\ gb'[k].owner = gb[k].owner
                       /\ k # MyRow(p).id => gb'[k] = gb[k]
    BY <1>0, <2>1 DEF TypeOK, GClient
  <2>3. UNCHANGED row
    OBVIOUS
  <2>4. QED
    BY <1>0, <2>2, <2>3 DEF RowInv, RowShape
<1>6. HolderInv'
  <2>1. MyRow(p).id \in Ids /\ MyRow(p).state = "active" /\ gb[MyRow(p).id] \in GClient
        /\ gb[MyRow(p).id].status = "live" /\ gb[MyRow(p).id].owner = User(p)
    BY <1>0, <1>1 DEF TypeOK, HolderInv, RowShape, RowInv, MyRow
  <2>2. \A k \in Ids : /\ gb'[k].status = gb[k].status /\ gb'[k].owner = gb[k].owner
                       /\ k # MyRow(p).id => gb'[k] = gb[k]
    BY <1>0, <2>1 DEF TypeOK, GClient
  <2>3. gb'[MyRow(p).id] = Client(p)
    BY <1>0, <2>1 DEF TypeOK, GClient, Client
  <2>4. \A q \in Procs : q # p => pc'[q] \notin Critical
    BY <1>1, <1>4 DEF MutexInv
  <2>5. UNCHANGED <<row, job>> /\ pc'[p] = "persist" /\ gid'[p] = MyRow(p).id /\ ~cache'[User(p)].has
    BY <1>0, <1>1 DEF TypeOK, Cached
  <2>6. QED
    BY <1>0, <1>1, <2>1, <2>3, <2>4, <2>5 DEF HolderInv, Critical, Client, MyRow, User, List
<1>7. GrantRecorded'
  <2>1. MyRow(p).id \in Ids /\ MyRow(p).state = "active" /\ MyRow(p).fed # List(p)
        /\ gb[MyRow(p).id].status = "live" /\ gb[MyRow(p).id].owner = User(p)
    BY <1>0, <1>1 DEF HolderInv, RowShape, RowInv, MyRow
  <2>2. \A k \in Ids : k # MyRow(p).id => gb'[k] = gb[k]
    BY <1>0, <2>1 DEF TypeOK
  <2>3. UNCHANGED <<row, job, interrupted>> /\ pc'[p] = "persist"
    BY <1>0, <1>1 DEF TypeOK
  <2>4. \A q \in Procs : ~Rescoping(q)
    BY <1>0, <1>1 DEF MutexInv, Rescoping, Critical
  <2> SUFFICES ASSUME NEW u \in Users, row[u].state = "active", u \notin interrupted,
                      \A q \in Procs : User(q)' = u => ~Rescoping(q)'
               PROVE  gb'[row[u].id] = [status |-> "live", owner |-> u, grant |-> row[u].fed]
    BY <2>3 DEF GrantRecorded
  <2> HIDE DEF Rescoped, Stay, Goto
  <2>5. u # User(p)
    BY <2>1, <2>3 DEF Rescoping, MyRow, User, List
  <2>6. gb[row[u].id] = [status |-> "live", owner |-> u, grant |-> row[u].fed]
    BY <1>0, <2>4 DEF GrantRecorded
  <2>7. row[u].id \in Ids /\ row[u].id # MyRow(p).id
    BY <1>0, <2>1, <2>5, <2>6 DEF RowShape
  <2>8. QED
    BY <2>2, <2>6, <2>7
<1>8. CachedTokenCurrent'
  BY <1>0, <1>1 DEF TypeOK, RowShape, CachedTokenCurrent, MutexInv, Critical, MyRow, User, List, HolderInv, RowInv
<1>9. TokenScopedToCall'
  BY <1>0, <1>1 DEF TypeOK, TokenScopedToCall, User, List
<1>10. EveryKeyAccounted'
  <2> SUFFICES ASSUME NEW j \in Ids, gb'[j].status = "live"
               PROVE  \/ j \in stray'
                      \/ gb'[j].owner \in Users /\ row'[gb'[j].owner].id = j
                      \/ \E q \in Procs : lock' = q /\ gid'[q] = j /\ User(q)' = gb'[j].owner
    BY DEF EveryKeyAccounted, RowNames, InHand
  <2>1. MyRow(p).id \in Ids /\ MyRow(p).state = "active" /\ gb[MyRow(p).id] \in GClient
        /\ gb[MyRow(p).id].status = "live" /\ gb[MyRow(p).id].owner = User(p)
    BY <1>0, <1>1 DEF TypeOK, HolderInv, RowShape, RowInv, MyRow
  <2>2. \A k \in Ids : /\ gb'[k].status = gb[k].status /\ gb'[k].owner = gb[k].owner
                       /\ k # MyRow(p).id => gb'[k] = gb[k]
    BY <1>0, <2>1 DEF TypeOK, GClient
  <2>3. UNCHANGED <<row, stray, lock, job>> /\ gid[p] = None /\ gid'[p] = MyRow(p).id
    BY <1>0, <1>1 DEF TypeOK, JobInv
  <2>4. j \in stray \/ (gb[j].owner \in Users /\ row[gb[j].owner].id = j)
    BY <1>0, <1>1, <2>2, <2>3 DEF EveryKeyAccounted, RowNames, InHand
  <2>5. QED
    BY <2>2, <2>3, <2>4
<1>11. QED
  BY <1>2, <1>4, <1>5, <1>6, <1>7, <1>8, <1>9, <1>10 DEF Inv

LEMMA RescopeFailsInv ==
  ASSUME Inv, NEW p \in Procs, RescopeFails(p)
  PROVE  Inv'
<1> USE NoneAssumption DEF world, booting, ghosts, RescopeFails, Stay, Goto
<1>0. /\ TypeOK /\ MutexInv /\ JobInv /\ RowInv /\ HolderInv /\ RowShape
      /\ GrantRecorded /\ CachedTokenCurrent /\ TokenScopedToCall /\ EveryKeyAccounted
  BY RowType DEF Inv
<1>1. User(p) \in Users /\ List(p) \subseteq Sources /\ lock = p /\ gid[p] \in Ids \union {None}
  BY <1>0, UserType DEF TypeOK, MutexInv, Critical
<1>2. TypeOK'
  <2>1. row' \in [Users -> Row]
    BY <1>0, <1>1 DEF TypeOK, Row, JobInv, HolderInv, MyRow
  <2>2. gb' \in [Ids -> GClient] /\ cache' \in [Users -> Cached]
    <3>1. MyRow(p).id \in Ids /\ gb[MyRow(p).id] \in GClient
      BY <1>0, <1>1 DEF TypeOK, HolderInv, RowShape, MyRow
    <3>2. [gb[MyRow(p).id] EXCEPT !.grant = List(p)] \in GClient
      BY <1>1, <3>1 DEF GClient
    <3>3. gb' \in [Ids -> GClient]
      BY <1>0, <3>1, <3>2 DEF TypeOK
    <3>4. cache' \in [Users -> Cached]
      BY <1>0, <1>1 DEF TypeOK, Cached
    <3>5. QED
      BY <3>3, <3>4
  <2>3. pc' \in [Procs -> {"idle", "wait", "forward"} \union Critical] /\ job' \in [Procs -> Job]
    BY <1>0, <1>1 DEF TypeOK, Critical, Job
  <2>4. gid' \in [Procs -> Ids \union {None}] /\ tok' \in [Procs -> Tok]
    BY <1>0, <1>1 DEF TypeOK, Tok, NoTok, RowShape, HolderInv, MyRow, Cached, GClient
  <2>5. interrupted' \subseteq Users /\ stray' \subseteq Ids /\ lock' \in Procs \union {None}
    BY <1>0, <1>1 DEF TypeOK, Unrecorded
  <2>6. QED
    BY <1>0, <2>1, <2>2, <2>3, <2>4, <2>5 DEF TypeOK
<1>3. RowShape'
  BY <1>2, RowTypePrime
<1>4. MutexInv' /\ JobInv'
  BY <1>0, <1>1 DEF TypeOK, MutexInv, Critical, Procs, JobInv, NoJob
<1>5. RowInv'
  <2>1. MyRow(p).id \in Ids /\ MyRow(p).state = "active" /\ gb[MyRow(p).id] \in GClient
        /\ gb[MyRow(p).id].status = "live" /\ gb[MyRow(p).id].owner = User(p)
    BY <1>0, <1>1 DEF TypeOK, HolderInv, RowShape, RowInv, MyRow
  <2>2. \A k \in Ids : /\ gb'[k].status = gb[k].status /\ gb'[k].owner = gb[k].owner
                       /\ k # MyRow(p).id => gb'[k] = gb[k]
    BY <1>0, <2>1 DEF TypeOK, GClient
  <2>3. UNCHANGED row
    OBVIOUS
  <2> HIDE DEF RescopeFails, Stay, Goto
  <2>4. QED
    BY <1>0, <2>2, <2>3 DEF RowInv, RowShape
<1>6. HolderInv'
  <2>1. MyRow(p).id \in Ids /\ MyRow(p).state = "active" /\ gb[MyRow(p).id] \in GClient
        /\ gb[MyRow(p).id].status = "live" /\ gb[MyRow(p).id].owner = User(p)
    BY <1>0, <1>1 DEF TypeOK, HolderInv, RowShape, RowInv, MyRow
  <2>2. \A k \in Ids : /\ gb'[k].status = gb[k].status /\ gb'[k].owner = gb[k].owner
                       /\ k # MyRow(p).id => gb'[k] = gb[k]
    BY <1>0, <2>1 DEF TypeOK, GClient
  <2>4. \A q \in Procs : q # p => pc'[q] \notin Critical
    BY <1>1, <1>4 DEF MutexInv
  <2>5. UNCHANGED <<row, job>> /\ pc'[p] = "mark" /\ gid'[p] = MyRow(p).id
    BY <1>0, <1>1 DEF TypeOK
  <2>6. QED
    BY <1>0, <1>1, <2>1, <2>4, <2>5 DEF HolderInv, Critical, MyRow, User, List
<1>7. GrantRecorded'
  <2>1. MyRow(p).id \in Ids /\ MyRow(p).state = "active" /\ MyRow(p).fed # List(p)
        /\ gb[MyRow(p).id].status = "live" /\ gb[MyRow(p).id].owner = User(p)
    BY <1>0, <1>1 DEF HolderInv, RowShape, RowInv, MyRow
  <2>2. \A k \in Ids : k # MyRow(p).id => gb'[k] = gb[k]
    BY <1>0, <2>1 DEF TypeOK
  <2>3. UNCHANGED <<row, job, interrupted>> /\ pc'[p] = "mark"
    BY <1>0, <1>1 DEF TypeOK
  <2>4. \A q \in Procs : ~Rescoping(q)
    BY <1>0, <1>1 DEF MutexInv, Rescoping, Critical
  <2> SUFFICES ASSUME NEW u \in Users, row[u].state = "active", u \notin interrupted,
                      \A q \in Procs : User(q)' = u => ~Rescoping(q)'
               PROVE  gb'[row[u].id] = [status |-> "live", owner |-> u, grant |-> row[u].fed]
    BY <2>3 DEF GrantRecorded
  <2> HIDE DEF RescopeFails, Stay, Goto
  <2>5. u # User(p)
    BY <2>1, <2>3 DEF Rescoping, MyRow, User, List
  <2>6. gb[row[u].id] = [status |-> "live", owner |-> u, grant |-> row[u].fed]
    BY <1>0, <2>4 DEF GrantRecorded
  <2>7. row[u].id \in Ids /\ row[u].id # MyRow(p).id
    BY <1>0, <2>1, <2>5, <2>6 DEF RowShape
  <2>8. QED
    BY <2>2, <2>6, <2>7
<1>8. CachedTokenCurrent'
  <2>1. MyRow(p).id \in Ids /\ MyRow(p).state = "active" /\ gb[MyRow(p).id] \in GClient
        /\ gb[MyRow(p).id].status = "live" /\ gb[MyRow(p).id].owner = User(p)
    BY <1>0, <1>1 DEF TypeOK, HolderInv, RowShape, RowInv, MyRow
  <2>2. \A k \in Ids : /\ gb'[k].status = gb[k].status /\ gb'[k].owner = gb[k].owner
                       /\ k # MyRow(p).id => gb'[k] = gb[k]
    BY <1>0, <2>1 DEF TypeOK, GClient
  <2>3. UNCHANGED <<row, job, cache>> /\ pc'[p] = "mark"
    BY <1>0, <1>1 DEF TypeOK
  <2>4. \A q \in Procs : pc[q] # "mark"
    BY <1>0, <1>1 DEF MutexInv, Critical
  <2> SUFFICES ASSUME NEW u \in Users, cache'[u].has, \A q \in Procs : pc'[q] = "mark" => User(q)' # u
               PROVE  /\ row'[u].state = "active" /\ cache'[u].id = row'[u].id
                      /\ cache'[u].reach = gb'[row'[u].id].grant
    BY DEF CachedTokenCurrent
  <2> HIDE DEF RescopeFails, Stay, Goto
  <2>5. u # User(p)
    BY <2>3 DEF User
  <2>6. /\ row[u].state = "active" /\ cache[u].id = row[u].id /\ row[u].id \in Ids
        /\ cache[u].reach = gb[row[u].id].grant
    BY <1>0, <2>3, <2>4 DEF CachedTokenCurrent, RowShape
  <2>7. row[u].id # MyRow(p).id
    BY <1>0, <2>1, <2>5, <2>6 DEF RowInv
  <2>8. QED
    BY <2>2, <2>3, <2>6, <2>7
<1>9. TokenScopedToCall'
  BY <1>0, <1>1 DEF TypeOK, TokenScopedToCall, User, List
<1>10. EveryKeyAccounted'
  <2> SUFFICES ASSUME NEW j \in Ids, gb'[j].status = "live"
               PROVE  \/ j \in stray'
                      \/ gb'[j].owner \in Users /\ row'[gb'[j].owner].id = j
                      \/ \E q \in Procs : lock' = q /\ gid'[q] = j /\ User(q)' = gb'[j].owner
    BY DEF EveryKeyAccounted, RowNames, InHand
  <2>1. MyRow(p).id \in Ids /\ MyRow(p).state = "active" /\ gb[MyRow(p).id] \in GClient
        /\ gb[MyRow(p).id].status = "live" /\ gb[MyRow(p).id].owner = User(p)
    BY <1>0, <1>1 DEF TypeOK, HolderInv, RowShape, RowInv, MyRow
  <2>2. \A k \in Ids : /\ gb'[k].status = gb[k].status /\ gb'[k].owner = gb[k].owner
                       /\ k # MyRow(p).id => gb'[k] = gb[k]
    BY <1>0, <2>1 DEF TypeOK, GClient
  <2>3. UNCHANGED <<row, stray, lock, job>> /\ gid[p] = None /\ gid'[p] = MyRow(p).id
    BY <1>0, <1>1 DEF TypeOK, JobInv
  <2> HIDE DEF RescopeFails, Stay, Goto
  <2>4. j \in stray \/ (gb[j].owner \in Users /\ row[gb[j].owner].id = j)
    BY <1>0, <1>1, <2>2, <2>3 DEF EveryKeyAccounted, RowNames, InHand
  <2>5. QED
    BY <2>2, <2>3, <2>4
<1>11. QED
  BY <1>2, <1>4, <1>5, <1>6, <1>7, <1>8, <1>9, <1>10 DEF Inv

LEMMA PersistedInv ==
  ASSUME Inv, NEW p \in Procs, Persisted(p)
  PROVE  Inv'
<1> USE NoneAssumption DEF world, booting, ghosts, Persisted, Stay, Goto
<1>0. /\ TypeOK /\ MutexInv /\ JobInv /\ RowInv /\ HolderInv /\ RowShape
      /\ GrantRecorded /\ CachedTokenCurrent /\ TokenScopedToCall /\ EveryKeyAccounted
  BY RowType DEF Inv
<1>1. User(p) \in Users /\ List(p) \subseteq Sources /\ lock = p /\ gid[p] \in Ids \union {None}
  BY <1>0, UserType DEF TypeOK, MutexInv, Critical
<1>2. TypeOK'
  <2>1. row' \in [Users -> Row]
    <3>1. [MyRow(p) EXCEPT !.fed = List(p)] \in Row
      <4>1. MyRow(p) \in [state : {"active"}, id : Ids, fed : SUBSET Sources]
        BY <1>0, <1>1 DEF TypeOK, Row, NoRow, Issuing, MyRow
      <4>2. QED
        BY <1>1, <4>1 DEF Row
    <3>2. QED
      BY <1>0, <1>1, <3>1 DEF TypeOK, MyRow
  <2>2. gb' \in [Ids -> GClient] /\ cache' \in [Users -> Cached]
    BY <1>0, <1>1 DEF TypeOK, RowShape, GClient, Cached, HolderInv, MyRow
  <2>3. pc' \in [Procs -> {"idle", "wait", "forward"} \union Critical] /\ job' \in [Procs -> Job]
    BY <1>0, <1>1 DEF TypeOK, Critical, Job
  <2>4. gid' \in [Procs -> Ids \union {None}] /\ tok' \in [Procs -> Tok]
    BY <1>0, <1>1 DEF TypeOK, Tok, NoTok, RowShape, HolderInv, MyRow, Cached, GClient
  <2>5. interrupted' \subseteq Users /\ stray' \subseteq Ids /\ lock' \in Procs \union {None}
    BY <1>0, <1>1 DEF TypeOK, Unrecorded
  <2>6. QED
    BY <1>0, <2>1, <2>2, <2>3, <2>4, <2>5 DEF TypeOK
<1>3. RowShape'
  BY <1>2, RowTypePrime
<1>4. MutexInv' /\ JobInv'
  BY <1>0, <1>1 DEF TypeOK, MutexInv, Critical, Procs, JobInv, NoJob
<1>5. RowInv'
  BY <1>0, <1>1, <1>3 DEF TypeOK, RowShape, RowInv, HolderInv, MyRow, User
<1>6. HolderInv'
  BY <1>0, <1>1, <1>4 DEF TypeOK, MutexInv, HolderInv, Client, Critical, MyRow, User, List
<1>7. GrantRecorded'
  BY <1>0, <1>1 DEF TypeOK, RowShape, GrantRecorded, MutexInv, Critical, Rescoping, Client, MyRow, User, List, HolderInv, RowInv
<1>8. CachedTokenCurrent'
  BY <1>0, <1>1 DEF TypeOK, CachedTokenCurrent, MutexInv, Critical, User
<1>9. TokenScopedToCall'
  BY <1>0, <1>1 DEF TypeOK, TokenScopedToCall, User, List
<1>10. EveryKeyAccounted'
  <2> SUFFICES ASSUME NEW j \in Ids, gb'[j].status = "live"
               PROVE  \/ j \in stray'
                      \/ gb'[j].owner \in Users /\ row'[gb'[j].owner].id = j
                      \/ \E q \in Procs : lock' = q /\ gid'[q] = j /\ User(q)' = gb'[j].owner
    BY DEF EveryKeyAccounted, RowNames, InHand
  <2>1. UNCHANGED <<gb, stray>> /\ \A u \in Users : row'[u].id = row[u].id
    BY <1>0, <1>1 DEF TypeOK, Row, NoRow, Issuing
  <2>2. gid[p] = row[User(p)].id
    BY <1>0 DEF HolderInv, MyRow
  <2>3. QED
    BY <1>0, <1>1, <2>1, <2>2 DEF EveryKeyAccounted, RowNames, InHand
<1>11. QED
  BY <1>2, <1>4, <1>5, <1>6, <1>7, <1>8, <1>9, <1>10 DEF Inv

LEMMA PersistFailsInv ==
  ASSUME Inv, NEW p \in Procs, PersistFails(p)
  PROVE  Inv'
<1> USE NoneAssumption DEF world, booting, ghosts, PersistFails, Stay, Goto
<1>0. /\ TypeOK /\ MutexInv /\ JobInv /\ RowInv /\ HolderInv /\ RowShape
      /\ GrantRecorded /\ CachedTokenCurrent /\ TokenScopedToCall /\ EveryKeyAccounted
  BY RowType DEF Inv
<1>1. User(p) \in Users /\ List(p) \subseteq Sources /\ lock = p /\ gid[p] \in Ids \union {None}
  BY <1>0, UserType DEF TypeOK, MutexInv, Critical
<1>2. TypeOK'
  <2>1. row' \in [Users -> Row]
    BY <1>0, <1>1 DEF TypeOK, Row, JobInv, HolderInv, MyRow
  <2>2. gb' \in [Ids -> GClient] /\ cache' \in [Users -> Cached]
    BY <1>0, <1>1 DEF TypeOK, RowShape, GClient, Cached, HolderInv, MyRow
  <2>3. pc' \in [Procs -> {"idle", "wait", "forward"} \union Critical] /\ job' \in [Procs -> Job]
    BY <1>0, <1>1 DEF TypeOK, Critical, Job
  <2>4. gid' \in [Procs -> Ids \union {None}] /\ tok' \in [Procs -> Tok]
    BY <1>0, <1>1 DEF TypeOK, Tok, NoTok, RowShape, HolderInv, MyRow, Cached, GClient
  <2>5. interrupted' \subseteq Users /\ stray' \subseteq Ids /\ lock' \in Procs \union {None}
    BY <1>0, <1>1 DEF TypeOK, Unrecorded
  <2>6. QED
    BY <1>0, <2>1, <2>2, <2>3, <2>4, <2>5 DEF TypeOK
<1>3. RowShape'
  BY <1>2, RowTypePrime
<1>4. MutexInv' /\ JobInv'
  BY <1>0, <1>1 DEF TypeOK, MutexInv, Critical, Procs, JobInv, NoJob
<1>5. RowInv'
  BY <1>0, <1>1, <1>3 DEF TypeOK, RowShape, RowInv, HolderInv, MyRow, User
<1>6. HolderInv'
  BY <1>0, <1>1, <1>4 DEF TypeOK, MutexInv, HolderInv, Client, Critical, MyRow, User, List
<1>7. GrantRecorded'
  BY <1>0, <1>1 DEF TypeOK, GrantRecorded, MutexInv, Critical, Rescoping, MyRow, User, List
<1>8. CachedTokenCurrent'
  BY <1>0, <1>1 DEF TypeOK, CachedTokenCurrent, MutexInv, Critical, User
<1>9. TokenScopedToCall'
  BY <1>0, <1>1 DEF TypeOK, TokenScopedToCall, User, List
<1>10. EveryKeyAccounted'
  BY <1>0, <1>1 DEF TypeOK, EveryKeyAccounted, RowNames, InHand, MutexInv, Critical, JobInv, MyRow, User
<1>11. QED
  BY <1>2, <1>4, <1>5, <1>6, <1>7, <1>8, <1>9, <1>10 DEF Inv

LEMMA TokenCachedInv ==
  ASSUME Inv, NEW p \in Procs, TokenCached(p)
  PROVE  Inv'
<1> USE NoneAssumption DEF world, booting, ghosts, TokenCached, Deliver, Return, Goto
<1>0. /\ TypeOK /\ MutexInv /\ JobInv /\ RowInv /\ HolderInv /\ RowShape
      /\ GrantRecorded /\ CachedTokenCurrent /\ TokenScopedToCall /\ EveryKeyAccounted
  BY RowType DEF Inv
<1>1. User(p) \in Users /\ List(p) \subseteq Sources /\ lock = p /\ gid[p] \in Ids \union {None}
  BY <1>0, UserType DEF TypeOK, MutexInv, Critical
<1>2. TypeOK'
  <2>1. row' \in [Users -> Row]
    BY <1>0, <1>1 DEF TypeOK, Row, JobInv, HolderInv, MyRow
  <2>2. gb' \in [Ids -> GClient] /\ cache' \in [Users -> Cached]
    BY <1>0, <1>1 DEF TypeOK, RowShape, GClient, Cached, HolderInv, MyRow
  <2>3. pc' \in [Procs -> {"idle", "wait", "forward"} \union Critical] /\ job' \in [Procs -> Job]
    BY <1>0, <1>1 DEF TypeOK, Critical, Job
  <2>4. gid' \in [Procs -> Ids \union {None}] /\ tok' \in [Procs -> Tok]
    <3>1. gid' \in [Procs -> Ids \union {None}]
      BY <1>0, <1>1 DEF TypeOK
    <3>2. cache[User(p)].reach \in SUBSET Sources /\ NoTok \in Tok
      BY <1>0, <1>1 DEF TypeOK, Tok, NoTok, Cached, GClient, RowShape, HolderInv, MyRow
    <3>3. [reach |-> cache[User(p)].reach, sure |-> User(p) \notin interrupted] \in Tok
      BY <3>2 DEF Tok
    <3>4. tok' \in [Procs -> Tok]
      BY <1>0, <1>1, <3>2, <3>3 DEF TypeOK
    <3>5. QED
      BY <3>1, <3>4
  <2>5. interrupted' \subseteq Users /\ stray' \subseteq Ids /\ lock' \in Procs \union {None}
    BY <1>0, <1>1 DEF TypeOK, Unrecorded
  <2>6. QED
    BY <1>0, <2>1, <2>2, <2>3, <2>4, <2>5 DEF TypeOK
<1>3. RowShape'
  BY <1>2, RowTypePrime
<1>4. MutexInv' /\ JobInv'
  <2>1. MutexInv'
    BY <1>0, <1>1 DEF TypeOK, MutexInv, Critical, Procs
  <2>2. JobInv'
    BY <1>0, <1>1 DEF TypeOK, JobInv, NoJob
  <2>3. QED
    BY <2>1, <2>2
<1>5. RowInv'
  BY <1>0, <1>1, <1>3 DEF TypeOK, RowShape, RowInv, HolderInv, MyRow, User
<1>6. HolderInv'
  BY <1>0, <1>1, <1>4 DEF TypeOK, MutexInv, HolderInv, Client, Critical, MyRow, User, List
<1>7. GrantRecorded'
  BY <1>0, <1>1 DEF TypeOK, GrantRecorded, MutexInv, Critical, Rescoping, MyRow, User, List
<1>8. CachedTokenCurrent'
  BY <1>0, <1>1 DEF TypeOK, CachedTokenCurrent, MutexInv, Critical, User
<1>9. TokenScopedToCall'
  <2> SUFFICES ASSUME NEW q \in Procs, pc'[q] = "forward", tok'[q].sure
               PROVE  tok'[q].reach = List(q)'
    BY DEF TokenScopedToCall
  <2>1. CASE q # p
    BY <1>0, <1>1, <2>1 DEF TypeOK, TokenScopedToCall, List
  <2>2. CASE q = p
    <3>1. /\ UNCHANGED job /\ tok'[p] = [reach |-> cache[User(p)].reach, sure |-> User(p) \notin interrupted]
      BY <1>0, <1>1, <2>2 DEF TypeOK
    <3>2. \A x \in Procs : pc[x] # "mark" /\ ~Rescoping(x)
      BY <1>0, <1>1 DEF MutexInv, Rescoping, Critical
    <3>3. User(p) \notin interrupted
      <4>1. tok'[p].sure = (User(p) \notin interrupted)
        BY <3>1
      <4>2. QED
        BY <2>2, <4>1, Zenon
    <3>a. MyRow(p).state = "active" /\ MyRow(p).fed = List(p)
      BY <1>0 DEF HolderInv
    <3>b. gb[row[User(p)].id] =
            [status |-> "live", owner |-> User(p), grant |-> row[User(p)].fed]
      BY <1>0, <1>1, <3>2, <3>3, <3>a DEF GrantRecorded, MyRow
    <3>4. gb[MyRow(p).id].grant = List(p)
      BY <3>a, <3>b DEF MyRow
    <3>5. cache[User(p)].reach = List(p)
      BY <1>0, <1>1, <3>2, <3>4 DEF CachedTokenCurrent, MyRow
    <3>6. QED
      BY <2>2, <3>1, <3>5 DEF List
  <2>3. QED
    BY <2>1, <2>2
<1>10. EveryKeyAccounted'
  BY <1>0, <1>1 DEF TypeOK, EveryKeyAccounted, RowNames, InHand, MutexInv, Critical, JobInv, MyRow, User
<1>11. QED
  BY <1>2, <1>4, <1>5, <1>6, <1>7, <1>8, <1>9, <1>10 DEF Inv

LEMMA TokenFetchedInv ==
  ASSUME Inv, NEW p \in Procs, TokenFetched(p)
  PROVE  Inv'
<1> USE NoneAssumption DEF world, booting, ghosts, TokenFetched, Deliver, Return, Goto
<1>0. /\ TypeOK /\ MutexInv /\ JobInv /\ RowInv /\ HolderInv /\ RowShape
      /\ GrantRecorded /\ CachedTokenCurrent /\ TokenScopedToCall /\ EveryKeyAccounted
  BY RowType DEF Inv
<1>1. User(p) \in Users /\ List(p) \subseteq Sources /\ lock = p /\ gid[p] \in Ids \union {None}
  BY <1>0, UserType DEF TypeOK, MutexInv, Critical
<1>2. TypeOK'
  <2>1. row' \in [Users -> Row]
    BY <1>0, <1>1 DEF TypeOK, Row, JobInv, HolderInv, MyRow
  <2>2. gb' \in [Ids -> GClient] /\ cache' \in [Users -> Cached]
    BY <1>0, <1>1 DEF TypeOK, RowShape, GClient, Cached, HolderInv, MyRow
  <2>3. pc' \in [Procs -> {"idle", "wait", "forward"} \union Critical] /\ job' \in [Procs -> Job]
    BY <1>0, <1>1 DEF TypeOK, Critical, Job
  <2>4. gid' \in [Procs -> Ids \union {None}] /\ tok' \in [Procs -> Tok]
    <3>1. gid' \in [Procs -> Ids \union {None}]
      BY <1>0, <1>1 DEF TypeOK
    <3>2. gb[MyRow(p).id].grant \in SUBSET Sources /\ NoTok \in Tok
      BY <1>0, <1>1 DEF TypeOK, Tok, NoTok, Cached, GClient, RowShape, HolderInv, MyRow
    <3>3. [reach |-> gb[MyRow(p).id].grant, sure |-> User(p) \notin interrupted] \in Tok
      BY <3>2 DEF Tok
    <3>4. tok' \in [Procs -> Tok]
      BY <1>0, <1>1, <3>2, <3>3 DEF TypeOK
    <3>5. QED
      BY <3>1, <3>4
  <2>5. interrupted' \subseteq Users /\ stray' \subseteq Ids /\ lock' \in Procs \union {None}
    BY <1>0, <1>1 DEF TypeOK, Unrecorded
  <2>6. QED
    BY <1>0, <2>1, <2>2, <2>3, <2>4, <2>5 DEF TypeOK
<1>3. RowShape'
  BY <1>2, RowTypePrime
<1>4. MutexInv' /\ JobInv'
  <2>1. MutexInv'
    BY <1>0, <1>1 DEF TypeOK, MutexInv, Critical, Procs
  <2>2. JobInv'
    BY <1>0, <1>1 DEF TypeOK, JobInv, NoJob
  <2>3. QED
    BY <2>1, <2>2
<1>5. RowInv'
  BY <1>0, <1>1, <1>3 DEF TypeOK, RowShape, RowInv, HolderInv, MyRow, User
<1>6. HolderInv'
  BY <1>0, <1>1, <1>4 DEF TypeOK, MutexInv, HolderInv, Client, Critical, MyRow, User, List
<1>7. GrantRecorded'
  BY <1>0, <1>1 DEF TypeOK, GrantRecorded, MutexInv, Critical, Rescoping, MyRow, User, List
<1>8. CachedTokenCurrent'
  BY <1>0, <1>1 DEF TypeOK, RowShape, CachedTokenCurrent, MutexInv, Critical, MyRow, User, List, HolderInv, RowInv
<1>9. TokenScopedToCall'
  <2> SUFFICES ASSUME NEW q \in Procs, pc'[q] = "forward", tok'[q].sure
               PROVE  tok'[q].reach = List(q)'
    BY DEF TokenScopedToCall
  <2>1. CASE q # p
    BY <1>0, <1>1, <2>1 DEF TypeOK, TokenScopedToCall, List
  <2>2. CASE q = p
    <3>1. /\ UNCHANGED job /\ tok'[p] = [reach |-> gb[MyRow(p).id].grant, sure |-> User(p) \notin interrupted]
      BY <1>0, <1>1, <2>2 DEF TypeOK
    <3>2. \A x \in Procs : pc[x] # "mark" /\ ~Rescoping(x)
      BY <1>0, <1>1 DEF MutexInv, Rescoping, Critical
    <3>3. User(p) \notin interrupted
      <4>1. tok'[p].sure = (User(p) \notin interrupted)
        BY <3>1
      <4>2. QED
        BY <2>2, <4>1, Zenon
    <3>a. MyRow(p).state = "active" /\ MyRow(p).fed = List(p)
      BY <1>0 DEF HolderInv
    <3>b. gb[row[User(p)].id] =
            [status |-> "live", owner |-> User(p), grant |-> row[User(p)].fed]
      BY <1>0, <1>1, <3>2, <3>3, <3>a DEF GrantRecorded, MyRow
    <3>4. gb[MyRow(p).id].grant = List(p)
      BY <3>a, <3>b DEF MyRow
    <3>5. gb[MyRow(p).id].grant = List(p)
      BY <1>0, <1>1, <3>2, <3>4 DEF CachedTokenCurrent, MyRow
    <3>6. QED
      BY <2>2, <3>1, <3>5 DEF List
  <2>3. QED
    BY <2>1, <2>2
<1>10. EveryKeyAccounted'
  BY <1>0, <1>1 DEF TypeOK, EveryKeyAccounted, RowNames, InHand, MutexInv, Critical, JobInv, MyRow, User
<1>11. QED
  BY <1>2, <1>4, <1>5, <1>6, <1>7, <1>8, <1>9, <1>10 DEF Inv

LEMMA TokenFailsInv ==
  ASSUME Inv, NEW p \in Procs, TokenFails(p)
  PROVE  Inv'
<1> USE NoneAssumption DEF world, booting, ghosts, TokenFails, Return
<1>0. /\ TypeOK /\ MutexInv /\ JobInv /\ RowInv /\ HolderInv /\ RowShape
      /\ GrantRecorded /\ CachedTokenCurrent /\ TokenScopedToCall /\ EveryKeyAccounted
  BY RowType DEF Inv
<1>1. User(p) \in Users /\ List(p) \subseteq Sources /\ lock = p /\ gid[p] \in Ids \union {None}
  BY <1>0, UserType DEF TypeOK, MutexInv, Critical
<1>2. TypeOK'
  <2>1. row' \in [Users -> Row]
    BY <1>0, <1>1 DEF TypeOK, Row, JobInv, HolderInv, MyRow
  <2>2. gb' \in [Ids -> GClient] /\ cache' \in [Users -> Cached]
    BY <1>0, <1>1 DEF TypeOK, RowShape, GClient, Cached, HolderInv, MyRow
  <2>3. pc' \in [Procs -> {"idle", "wait", "forward"} \union Critical] /\ job' \in [Procs -> Job]
    BY <1>0, <1>1 DEF TypeOK, Critical, Job
  <2>4. gid' \in [Procs -> Ids \union {None}] /\ tok' \in [Procs -> Tok]
    BY <1>0, <1>1 DEF TypeOK, Tok, NoTok, RowShape, HolderInv, MyRow, Cached, GClient
  <2>5. interrupted' \subseteq Users /\ stray' \subseteq Ids /\ lock' \in Procs \union {None}
    BY <1>0, <1>1 DEF TypeOK, Unrecorded
  <2>6. QED
    BY <1>0, <2>1, <2>2, <2>3, <2>4, <2>5 DEF TypeOK
<1>3. RowShape'
  BY <1>2, RowTypePrime
<1>4. MutexInv' /\ JobInv'
  BY <1>0, <1>1 DEF TypeOK, MutexInv, Critical, Procs, JobInv, NoJob
<1>5. RowInv'
  BY <1>0, <1>1, <1>3 DEF TypeOK, RowShape, RowInv, HolderInv, MyRow, User
<1>6. HolderInv'
  BY <1>0, <1>1, <1>4 DEF TypeOK, MutexInv, HolderInv, Client, Critical, MyRow, User, List
<1>7. GrantRecorded'
  BY <1>0, <1>1 DEF TypeOK, GrantRecorded, MutexInv, Critical, Rescoping, MyRow, User, List
<1>8. CachedTokenCurrent'
  BY <1>0, <1>1 DEF TypeOK, CachedTokenCurrent, MutexInv, Critical, User
<1>9. TokenScopedToCall'
  BY <1>0, <1>1 DEF TypeOK, TokenScopedToCall, User, List
<1>10. EveryKeyAccounted'
  BY <1>0, <1>1 DEF TypeOK, EveryKeyAccounted, RowNames, InHand, MutexInv, Critical, JobInv, MyRow, User
<1>11. QED
  BY <1>2, <1>4, <1>5, <1>6, <1>7, <1>8, <1>9, <1>10 DEF Inv

LEMMA CredentialBadInv ==
  ASSUME Inv, NEW p \in Procs, CredentialBad(p)
  PROVE  Inv'
<1> USE NoneAssumption DEF world, booting, ghosts, CredentialBad, Stay, Goto
<1>0. /\ TypeOK /\ MutexInv /\ JobInv /\ RowInv /\ HolderInv /\ RowShape
      /\ GrantRecorded /\ CachedTokenCurrent /\ TokenScopedToCall /\ EveryKeyAccounted
  BY RowType DEF Inv
<1>1. User(p) \in Users /\ List(p) \subseteq Sources /\ lock = p /\ gid[p] \in Ids \union {None}
  BY <1>0, UserType DEF TypeOK, MutexInv, Critical
<1>2. TypeOK'
  <2>1. row' \in [Users -> Row]
    BY <1>0, <1>1 DEF TypeOK, Row, JobInv, HolderInv, MyRow
  <2>2. gb' \in [Ids -> GClient] /\ cache' \in [Users -> Cached]
    BY <1>0, <1>1 DEF TypeOK, RowShape, GClient, Cached, HolderInv, MyRow
  <2>3. pc' \in [Procs -> {"idle", "wait", "forward"} \union Critical] /\ job' \in [Procs -> Job]
    BY <1>0, <1>1 DEF TypeOK, Critical, Job
  <2>4. gid' \in [Procs -> Ids \union {None}] /\ tok' \in [Procs -> Tok]
    BY <1>0, <1>1 DEF TypeOK, Tok, NoTok, RowShape, HolderInv, MyRow, Cached, GClient
  <2>5. interrupted' \subseteq Users /\ stray' \subseteq Ids /\ lock' \in Procs \union {None}
    BY <1>0, <1>1 DEF TypeOK, Unrecorded
  <2>6. QED
    BY <1>0, <2>1, <2>2, <2>3, <2>4, <2>5 DEF TypeOK
<1>3. RowShape'
  BY <1>2, RowTypePrime
<1>4. MutexInv' /\ JobInv'
  BY <1>0, <1>1 DEF TypeOK, MutexInv, Critical, Procs, JobInv, NoJob
<1>5. RowInv'
  BY <1>0, <1>1, <1>3 DEF TypeOK, RowShape, RowInv, HolderInv, MyRow, User
<1>6. HolderInv'
  BY <1>0, <1>1, <1>4 DEF TypeOK, MutexInv, HolderInv, Client, Critical, MyRow, User, List
<1>7. GrantRecorded'
  BY <1>0, <1>1 DEF TypeOK, GrantRecorded, MutexInv, Critical, Rescoping, MyRow, User, List
<1>8. CachedTokenCurrent'
  BY <1>0, <1>1 DEF TypeOK, CachedTokenCurrent, MutexInv, Critical, User
<1>9. TokenScopedToCall'
  BY <1>0, <1>1 DEF TypeOK, TokenScopedToCall, User, List
<1>10. EveryKeyAccounted'
  BY <1>0, <1>1 DEF TypeOK, EveryKeyAccounted, RowNames, InHand, MutexInv, Critical, JobInv, MyRow, User
<1>11. QED
  BY <1>2, <1>4, <1>5, <1>6, <1>7, <1>8, <1>9, <1>10 DEF Inv

LEMMA RevokedOldInv ==
  ASSUME Inv, NEW p \in Procs, RevokedOld(p)
  PROVE  Inv'
<1> USE NoneAssumption DEF world, booting, ghosts, RevokedOld, Stay, Goto, Revoked
<1>0. /\ TypeOK /\ MutexInv /\ JobInv /\ RowInv /\ HolderInv /\ RowShape
      /\ GrantRecorded /\ CachedTokenCurrent /\ TokenScopedToCall /\ EveryKeyAccounted
  BY RowType DEF Inv
<1>1. User(p) \in Users /\ List(p) \subseteq Sources /\ lock = p /\ gid[p] \in Ids \union {None}
  BY <1>0, UserType DEF TypeOK, MutexInv, Critical
<1>2. TypeOK'
  <2>1. row' \in [Users -> Row]
    BY <1>0, <1>1 DEF TypeOK, Row, JobInv, HolderInv, MyRow
  <2>2. gb' \in [Ids -> GClient] /\ cache' \in [Users -> Cached]
    BY <1>0, <1>1 DEF TypeOK, RowShape, GClient, Cached, HolderInv, MyRow
  <2>3. pc' \in [Procs -> {"idle", "wait", "forward"} \union Critical] /\ job' \in [Procs -> Job]
    BY <1>0, <1>1 DEF TypeOK, Critical, Job
  <2>4. gid' \in [Procs -> Ids \union {None}] /\ tok' \in [Procs -> Tok]
    BY <1>0, <1>1 DEF TypeOK, Tok, NoTok, RowShape, HolderInv, MyRow, Cached, GClient
  <2>5. interrupted' \subseteq Users /\ stray' \subseteq Ids /\ lock' \in Procs \union {None}
    BY <1>0, <1>1 DEF TypeOK, Unrecorded
  <2>6. QED
    BY <1>0, <2>1, <2>2, <2>3, <2>4, <2>5 DEF TypeOK
<1>3. RowShape'
  BY <1>2, RowTypePrime
<1>4. MutexInv' /\ JobInv'
  BY <1>0, <1>1 DEF TypeOK, MutexInv, Critical, Procs, JobInv, NoJob
<1>5. RowInv'
  BY <1>0, <1>1, <1>3 DEF TypeOK, RowShape, RowInv, HolderInv, MyRow, User
<1>6. HolderInv'
  BY <1>0, <1>1, <1>4 DEF TypeOK, RowShape, MutexInv, JobInv, RowInv, HolderInv, CachedTokenCurrent, Client, Critical, MyRow, User, List
<1>7. GrantRecorded'
  <2>1. MyRow(p).state = "orphan" /\ MyRow(p).id \in Ids
    BY <1>0, <1>1 DEF HolderInv, RowShape, MyRow
  <2>2. \A u \in Users : row[u].state = "active" /\ row[u].id = MyRow(p).id => FALSE
    <3>1. SUFFICES ASSUME NEW u \in Users, row[u].state = "active", row[u].id = MyRow(p).id PROVE FALSE
      OBVIOUS
    <3>2. gb[row[u].id].status = "live" /\ gb[row[u].id].owner = u /\ User(p) = u
      BY <1>0, <1>1, <2>1, <3>1 DEF RowInv, MyRow
    <3>3. QED
      BY <2>1, <3>1, <3>2 DEF MyRow
  <2>3. QED
    BY <1>0, <1>1, <2>1, <2>2 DEF TypeOK, RowShape, GrantRecorded, Rescoping, MyRow, User, List
<1>8. CachedTokenCurrent'
  BY <1>0, <1>1 DEF TypeOK, RowShape, CachedTokenCurrent, MutexInv, Critical, MyRow, User, List, HolderInv, RowInv
<1>9. TokenScopedToCall'
  BY <1>0, <1>1 DEF TypeOK, TokenScopedToCall, User, List
<1>10. EveryKeyAccounted'
  BY <1>0, <1>1 DEF TypeOK, EveryKeyAccounted, RowNames, InHand, MutexInv, Critical, JobInv, MyRow, User
<1>11. QED
  BY <1>2, <1>4, <1>5, <1>6, <1>7, <1>8, <1>9, <1>10 DEF Inv

LEMMA RevokeOldFailsInv ==
  ASSUME Inv, NEW p \in Procs, RevokeOldFails(p)
  PROVE  Inv'
<1> USE NoneAssumption DEF world, booting, ghosts, RevokeOldFails, Return, Revoked
<1>0. /\ TypeOK /\ MutexInv /\ JobInv /\ RowInv /\ HolderInv /\ RowShape
      /\ GrantRecorded /\ CachedTokenCurrent /\ TokenScopedToCall /\ EveryKeyAccounted
  BY RowType DEF Inv
<1>1. User(p) \in Users /\ List(p) \subseteq Sources /\ lock = p /\ gid[p] \in Ids \union {None}
  BY <1>0, UserType DEF TypeOK, MutexInv, Critical
<1>2. TypeOK'
  <2>1. row' \in [Users -> Row]
    BY <1>0, <1>1 DEF TypeOK, Row, JobInv, HolderInv, MyRow
  <2>2. gb' \in [Ids -> GClient] /\ cache' \in [Users -> Cached]
    <3>1. Revoked \in GClient
      BY DEF GClient, Revoked
    <3>2. gb' \in [Ids -> GClient]
      <4>1. CASE gb' = gb
        BY <1>0, <4>1 DEF TypeOK
      <4>2. CASE gb' = [gb EXCEPT ![MyRow(p).id] = Revoked]
        BY <1>0, <3>1, <4>2 DEF TypeOK
      <4>3. QED
        BY <4>1, <4>2
    <3>3. QED
      BY <1>0, <3>2 DEF TypeOK
  <2>3. pc' \in [Procs -> {"idle", "wait", "forward"} \union Critical] /\ job' \in [Procs -> Job]
    BY <1>0, <1>1 DEF TypeOK, Critical, Job
  <2>4. gid' \in [Procs -> Ids \union {None}] /\ tok' \in [Procs -> Tok]
    BY <1>0, <1>1 DEF TypeOK, Tok, NoTok, RowShape, HolderInv, MyRow, Cached, GClient
  <2>5. interrupted' \subseteq Users /\ stray' \subseteq Ids /\ lock' \in Procs \union {None}
    BY <1>0, <1>1 DEF TypeOK, Unrecorded
  <2>6. QED
    BY <1>0, <2>1, <2>2, <2>3, <2>4, <2>5 DEF TypeOK
<1>3. RowShape'
  BY <1>2, RowTypePrime
<1>4. MutexInv' /\ JobInv'
  BY <1>0, <1>1 DEF TypeOK, MutexInv, Critical, Procs, JobInv, NoJob
<1>5. RowInv'
  <2>1. MyRow(p).state = "orphan" /\ MyRow(p).id \in Ids
    BY <1>0, <1>1 DEF HolderInv, RowShape, MyRow
  <2>2. \A u \in Users : row[u].state = "active" => row[u].id # MyRow(p).id
    BY <1>0, <1>1, <2>1 DEF RowInv, MyRow
  <2>3. \A k \in Ids : gb'[k] # gb[k] => k = MyRow(p).id /\ gb'[k] = Revoked
    <3>1. CASE gb' = gb
      BY <3>1
    <3>2. CASE gb' = [gb EXCEPT ![MyRow(p).id] = Revoked]
      BY <1>0, <2>1, <3>2 DEF TypeOK
    <3>3. QED
      BY <3>1, <3>2
  <2>4. UNCHANGED row
    OBVIOUS
  <2> HIDE DEF RevokeOldFails, Return
  <2>5. QED
    BY <1>0, <2>2, <2>3, <2>4 DEF RowInv, RowShape, Revoked
<1>6. HolderInv'
  BY <1>0, <1>1, <1>4 DEF TypeOK, MutexInv, HolderInv, Client, Critical, MyRow, User, List
<1>7. GrantRecorded'
  <2>1. MyRow(p).state = "orphan" /\ MyRow(p).id \in Ids
    BY <1>0, <1>1 DEF HolderInv, RowShape, MyRow
  <2>2. \A u \in Users : row[u].state = "active" => row[u].id # MyRow(p).id
    BY <1>0, <1>1, <2>1 DEF RowInv, MyRow
  <2>3. \A q \in Procs : ~Rescoping(q)
    BY <1>0, <1>1 DEF MutexInv, Rescoping, Critical
  <2>4. \A u \in Users : row[u].state = "active" => gb'[row[u].id] = gb[row[u].id]
    <3>1. CASE gb' = gb
      BY <3>1
    <3>2. CASE gb' = [gb EXCEPT ![MyRow(p).id] = Revoked]
      BY <1>0, <2>2, <3>2 DEF TypeOK, RowShape
    <3>3. QED
      BY <3>1, <3>2
  <2>5. UNCHANGED <<row, interrupted>>
    OBVIOUS
  <2> HIDE DEF RevokeOldFails, Return
  <2>6. QED
    BY <1>0, <2>3, <2>4, <2>5 DEF GrantRecorded
<1>8. CachedTokenCurrent'
  BY <1>0, <1>1 DEF TypeOK, RowShape, CachedTokenCurrent, MutexInv, Critical, MyRow, User, List, HolderInv, RowInv
<1>9. TokenScopedToCall'
  BY <1>0, <1>1 DEF TypeOK, TokenScopedToCall, User, List
<1>10. EveryKeyAccounted'
  BY <1>0, <1>1 DEF TypeOK, EveryKeyAccounted, RowNames, InHand, MutexInv, Critical, JobInv, MyRow, User
<1>11. QED
  BY <1>2, <1>4, <1>5, <1>6, <1>7, <1>8, <1>9, <1>10 DEF Inv

LEMMA ResetDoneInv ==
  ASSUME Inv, NEW p \in Procs, ResetDone(p)
  PROVE  Inv'
<1> USE NoneAssumption DEF world, booting, ghosts, ResetDone, Stay, Goto, Issuing, Return
<1>0. /\ TypeOK /\ MutexInv /\ JobInv /\ RowInv /\ HolderInv /\ RowShape
      /\ GrantRecorded /\ CachedTokenCurrent /\ TokenScopedToCall /\ EveryKeyAccounted
  BY RowType DEF Inv
<1>1. User(p) \in Users /\ List(p) \subseteq Sources /\ lock = p /\ gid[p] \in Ids \union {None}
  BY <1>0, UserType DEF TypeOK, MutexInv, Critical
<1>2. TypeOK'
  <2>1. row' \in [Users -> Row]
    BY <1>0, <1>1 DEF TypeOK, Row, JobInv, HolderInv, MyRow
  <2>2. gb' \in [Ids -> GClient] /\ cache' \in [Users -> Cached]
    BY <1>0, <1>1 DEF TypeOK, RowShape, GClient, Cached, HolderInv, MyRow
  <2>3. pc' \in [Procs -> {"idle", "wait", "forward"} \union Critical] /\ job' \in [Procs -> Job]
    BY <1>0, <1>1 DEF TypeOK, Critical, Job
  <2>4. gid' \in [Procs -> Ids \union {None}] /\ tok' \in [Procs -> Tok]
    <3>1. gid' = gid \/ gid' = [gid EXCEPT ![p] = None]
      OBVIOUS
    <3>2. tok' = tok \/ tok' = [tok EXCEPT ![p] = NoTok]
      OBVIOUS
    <3> HIDE DEF ResetDone, Return, Stay, Goto
    <3>3. gid' \in [Procs -> Ids \union {None}]
      BY <1>0, <3>1 DEF TypeOK
    <3>4. NoTok \in Tok
      BY DEF Tok, NoTok
    <3>5. tok' \in [Procs -> Tok]
      BY <1>0, <3>2, <3>4 DEF TypeOK
    <3>6. QED
      BY <3>3, <3>5
  <2>5. interrupted' \subseteq Users /\ stray' \subseteq Ids /\ lock' \in Procs \union {None}
    BY <1>0, <1>1 DEF TypeOK, Unrecorded
  <2>6. QED
    BY <1>0, <2>1, <2>2, <2>3, <2>4, <2>5 DEF TypeOK
<1>3. RowShape'
  BY <1>2, RowTypePrime
<1>4. MutexInv' /\ JobInv'
  <2>1. CASE Stay(p, "register") /\ UNCHANGED gid
    BY <1>0, <1>1, <2>1 DEF TypeOK, MutexInv, Critical, Procs, JobInv, NoJob
  <2>2. CASE Return(p)
    BY <1>0, <1>1, <2>2 DEF TypeOK, MutexInv, Critical, Procs, JobInv, NoJob
  <2>3. QED
    BY <2>1, <2>2
<1>5. RowInv'
  BY <1>0, <1>1, <1>3 DEF TypeOK, RowShape, RowInv, HolderInv, MyRow, User
<1>6. HolderInv'
  BY <1>0, <1>1, <1>4 DEF TypeOK, MutexInv, HolderInv, Client, Critical, MyRow, User, List
<1>7. GrantRecorded'
  BY <1>0, <1>1 DEF TypeOK, GrantRecorded, MutexInv, Critical, Rescoping, MyRow, User, List
<1>8. CachedTokenCurrent'
  BY <1>0, <1>1 DEF TypeOK, RowShape, CachedTokenCurrent, MutexInv, Critical, MyRow, User, List, HolderInv, RowInv
<1>9. TokenScopedToCall'
  BY <1>0, <1>1 DEF TypeOK, TokenScopedToCall, User, List
<1>10. EveryKeyAccounted'
  <2> SUFFICES ASSUME NEW j \in Ids, gb'[j].status = "live"
               PROVE  \/ j \in stray'
                      \/ gb'[j].owner \in Users /\ row'[gb'[j].owner].id = j
                      \/ \E q \in Procs : lock' = q /\ gid'[q] = j /\ User(q)' = gb'[j].owner
    BY DEF EveryKeyAccounted, RowNames, InHand
  <2>1. UNCHANGED <<gb, stray>> /\ \A u \in Users : u # User(p) => row'[u] = row[u]
    BY <1>0, <1>1 DEF TypeOK
  <2>2. MyRow(p).id # j
    BY <1>0, <2>1 DEF HolderInv
  <2>3. ~\E q \in Procs : lock = q /\ gid[q] = j
    BY <1>0, <1>1 DEF JobInv
  <2>4. QED
    BY <1>0, <1>1, <2>1, <2>2, <2>3 DEF EveryKeyAccounted, RowNames, InHand, MyRow, User
<1>11. QED
  BY <1>2, <1>4, <1>5, <1>6, <1>7, <1>8, <1>9, <1>10 DEF Inv

LEMMA ResetFailsInv ==
  ASSUME Inv, NEW p \in Procs, ResetFails(p)
  PROVE  Inv'
<1> USE NoneAssumption DEF world, booting, ghosts, ResetFails, Return
<1>0. /\ TypeOK /\ MutexInv /\ JobInv /\ RowInv /\ HolderInv /\ RowShape
      /\ GrantRecorded /\ CachedTokenCurrent /\ TokenScopedToCall /\ EveryKeyAccounted
  BY RowType DEF Inv
<1>1. User(p) \in Users /\ List(p) \subseteq Sources /\ lock = p /\ gid[p] \in Ids \union {None}
  BY <1>0, UserType DEF TypeOK, MutexInv, Critical
<1>2. TypeOK'
  <2>1. row' \in [Users -> Row]
    BY <1>0, <1>1 DEF TypeOK, Row, JobInv, HolderInv, MyRow
  <2>2. gb' \in [Ids -> GClient] /\ cache' \in [Users -> Cached]
    BY <1>0, <1>1 DEF TypeOK, RowShape, GClient, Cached, HolderInv, MyRow
  <2>3. pc' \in [Procs -> {"idle", "wait", "forward"} \union Critical] /\ job' \in [Procs -> Job]
    BY <1>0, <1>1 DEF TypeOK, Critical, Job
  <2>4. gid' \in [Procs -> Ids \union {None}] /\ tok' \in [Procs -> Tok]
    BY <1>0, <1>1 DEF TypeOK, Tok, NoTok, RowShape, HolderInv, MyRow, Cached, GClient
  <2>5. interrupted' \subseteq Users /\ stray' \subseteq Ids /\ lock' \in Procs \union {None}
    BY <1>0, <1>1 DEF TypeOK, Unrecorded
  <2>6. QED
    BY <1>0, <2>1, <2>2, <2>3, <2>4, <2>5 DEF TypeOK
<1>3. RowShape'
  BY <1>2, RowTypePrime
<1>4. MutexInv' /\ JobInv'
  BY <1>0, <1>1 DEF TypeOK, MutexInv, Critical, Procs, JobInv, NoJob
<1>5. RowInv'
  BY <1>0, <1>1, <1>3 DEF TypeOK, RowShape, RowInv, HolderInv, MyRow, User
<1>6. HolderInv'
  BY <1>0, <1>1, <1>4 DEF TypeOK, MutexInv, HolderInv, Client, Critical, MyRow, User, List
<1>7. GrantRecorded'
  BY <1>0, <1>1 DEF TypeOK, GrantRecorded, MutexInv, Critical, Rescoping, MyRow, User, List
<1>8. CachedTokenCurrent'
  BY <1>0, <1>1 DEF TypeOK, CachedTokenCurrent, MutexInv, Critical, User
<1>9. TokenScopedToCall'
  BY <1>0, <1>1 DEF TypeOK, TokenScopedToCall, User, List
<1>10. EveryKeyAccounted'
  BY <1>0, <1>1 DEF TypeOK, EveryKeyAccounted, RowNames, InHand, MutexInv, Critical, JobInv, MyRow, User
<1>11. QED
  BY <1>2, <1>4, <1>5, <1>6, <1>7, <1>8, <1>9, <1>10 DEF Inv

LEMMA ForwardInv ==
  ASSUME Inv, NEW p \in Procs, Forward(p)
  PROVE  Inv'
<1> USE NoneAssumption DEF world, booting, ghosts, Forward, Return
<1>0. /\ TypeOK /\ MutexInv /\ JobInv /\ RowInv /\ HolderInv /\ RowShape
      /\ GrantRecorded /\ CachedTokenCurrent /\ TokenScopedToCall /\ EveryKeyAccounted
  BY RowType DEF Inv
<1>1. User(p) \in Users /\ List(p) \subseteq Sources
  BY <1>0, UserType DEF JobInv
<1>2. TypeOK'
  <2>1. row' \in [Users -> Row]
    BY <1>0, <1>1 DEF TypeOK, Row, JobInv, HolderInv, MyRow
  <2>2. gb' \in [Ids -> GClient] /\ cache' \in [Users -> Cached]
    BY <1>0, <1>1 DEF TypeOK, RowShape, GClient, Cached, HolderInv, MyRow
  <2>3. pc' \in [Procs -> {"idle", "wait", "forward"} \union Critical] /\ job' \in [Procs -> Job]
    BY <1>0, <1>1 DEF TypeOK, Critical, Job
  <2>4. gid' \in [Procs -> Ids \union {None}] /\ tok' \in [Procs -> Tok]
    BY <1>0, <1>1 DEF TypeOK, Tok, NoTok, RowShape, HolderInv, MyRow, Cached, GClient
  <2>5. interrupted' \subseteq Users /\ stray' \subseteq Ids /\ lock' \in Procs \union {None}
    BY <1>0, <1>1 DEF TypeOK, Unrecorded
  <2>6. QED
    BY <1>0, <2>1, <2>2, <2>3, <2>4, <2>5 DEF TypeOK
<1>3. RowShape'
  BY <1>2, RowTypePrime
<1>4. MutexInv' /\ JobInv'
  BY <1>0, <1>1 DEF TypeOK, MutexInv, Critical, Procs, JobInv, NoJob
<1>5. RowInv'
  BY <1>0, <1>1, <1>3 DEF TypeOK, RowShape, RowInv, HolderInv, MyRow, User
<1>6. HolderInv'
  BY <1>0, <1>1, <1>4 DEF TypeOK, MutexInv, HolderInv, Client, Critical, MyRow, User, List
<1>7. GrantRecorded'
  BY <1>0, <1>1 DEF TypeOK, GrantRecorded, MutexInv, Critical, Rescoping, MyRow, User, List
<1>8. CachedTokenCurrent'
  BY <1>0, <1>1 DEF TypeOK, CachedTokenCurrent, MutexInv, Critical, User
<1>9. TokenScopedToCall'
  BY <1>0, <1>1 DEF TypeOK, TokenScopedToCall, User, List
<1>10. EveryKeyAccounted'
  BY <1>0, <1>1 DEF TypeOK, EveryKeyAccounted, RowNames, InHand, MutexInv, Critical, JobInv, MyRow, User
<1>11. QED
  BY <1>2, <1>4, <1>5, <1>6, <1>7, <1>8, <1>9, <1>10 DEF Inv

-----------------------------------------------------------------------------
(* The step lemma and the theorems.                                        *)

LEMMA StepInv ==
  ASSUME Inv, NEW p \in Procs, Step(p)
  PROVE  Inv'
<1>1. CASE Enter(p)
  BY <1>1, EnterRefusedInv, LookupFailsInv, EnterProvisionInv, EnterActiveInv, EnterReissueInv DEF Enter
<1>2. CASE Register(p)
  BY <1>2, RegisteredInv, RegisterLostInv, RegisterRefusedInv DEF Register
<1>3. CASE Activated(p) \/ ActivateFails(p)
  BY <1>3, ActivatedInv, ActivateFailsInv
<1>4. CASE Undone(p) \/ UndoFails(p) \/ Marked(p) \/ MarkFails(p)
  BY <1>4, UndoneInv, UndoFailsInv, MarkedInv, MarkFailsInv
<1>5. CASE Rescoped(p) \/ RescopeFails(p)
  BY <1>5, RescopedInv, RescopeFailsInv
<1>6. CASE Persisted(p) \/ PersistFails(p)
  BY <1>6, PersistedInv, PersistFailsInv
<1>7. CASE Token(p)
  BY <1>7, TokenCachedInv, TokenFetchedInv, TokenFailsInv, CredentialBadInv DEF Token
<1>8. CASE RevokedOld(p) \/ RevokeOldFails(p) \/ ResetDone(p) \/ ResetFails(p)
  BY <1>8, RevokedOldInv, RevokeOldFailsInv, ResetDoneInv, ResetFailsInv
<1>9. CASE Forward(p)
  BY <1>9, ForwardInv
<1>10. QED
  BY <1>1, <1>2, <1>3, <1>4, <1>5, <1>6, <1>7, <1>8, <1>9 DEF Step

LEMMA WorldStepInv ==
  ASSUME Inv, World
  PROVE  Inv'
<1>1. UNCHANGED readerVars
  BY DEF World, Join, Leave, BrainStep, readerVars, ghosts
<1>2. TypeOK'
  <2>1. UNCHANGED <<row, gb, cache, lock, phase, todo, pc, job, gid, tok, interrupted, stray>>
    BY DEF World, Join, Leave, BrainStep, booting, ghosts
  <2>2. member' \in [Users -> [Sources -> Membership]]
    <3>1. ASSUME NEW u \in Users, NEW s \in Sources, Join(u, s) \/ Leave(u, s)
          PROVE  member' \in [Users -> [Sources -> Membership]]
      <4>1. PICK m \in Membership : member' = [member EXCEPT ![u][s] = m]
        BY <3>1 DEF Join, Leave, Membership
      <4>2. [member[u] EXCEPT ![s] = m] \in [Sources -> Membership]
        BY DEF Inv, TypeOK
      <4>3. QED
        BY <4>1, <4>2 DEF Inv, TypeOK
    <3>2. ASSUME NEW s \in Sources, BrainStep(s)
          PROVE  member' \in [Users -> [Sources -> Membership]]
      BY <3>2 DEF BrainStep, Inv, TypeOK
    <3>3. QED
      BY <3>1, <3>2 DEF World
  <2>3. brain' \in [Sources -> BrainState]
    BY DEF Inv, TypeOK, World, Join, Leave, BrainStep, BrainState
  <2>4. QED
    BY <2>1, <2>2, <2>3 DEF Inv, TypeOK
<1>3. QED
  BY <1>1, <1>2, WorldInv

LEMMA InvStep == Inv /\ [Next]_vars => Inv'
<1> SUFFICES ASSUME Inv, [Next]_vars PROVE Inv'
  OBVIOUS
<1>1. CASE World
  BY <1>1, WorldStepInv
<1>2. CASE \E p \in Calls, u \in Users, k \in {"call", "reissue"} : Begin(p, u, k)
  BY <1>2, BeginInv DEF Procs
<1>3. CASE \E u \in Users : BootVisit(u)
  BY <1>3, BootVisitInv
<1>4. CASE BootDone
  BY <1>4, BootDoneInv
<1>5. CASE \E p \in Procs : Step(p)
  BY <1>5, StepInv
<1>6. CASE Restart
  BY <1>6, RestartInv
<1>7. CASE UNCHANGED vars
  <2>1. UNCHANGED readerVars
    BY <1>7 DEF vars, readerVars
  <2>2. TypeOK'
    BY <1>7 DEF Inv, TypeOK, vars
  <2>3. QED
    BY <2>1, <2>2, WorldInv
<1>8. QED
  BY <1>1, <1>2, <1>3, <1>4, <1>5, <1>6, <1>7 DEF Next

\* The inductive invariant holds in every reachable state: the conjuncts the
\* theorems below name, and what each point of the critical section of
\* ReaderService knows of its row, its GBrain client and its cached token.
THEOREM Safety == Spec => []Inv
<1>1. Init => Inv
  BY InitInv
<1>2. Inv /\ [Next]_vars => Inv'
  BY InvStep
<1>3. QED
  BY <1>1, <1>2, PTL DEF Spec

\* Every variable has its type; a row is active exactly when it has a credential and
\* an id (the CHECKs of brainhub_reader_clients).
THEOREM TypeCorrect == Spec => []TypeOK
<1>1. Inv => TypeOK
  BY DEF Inv
<1>2. QED
  BY <1>1, Safety, PTL

\* The mutex of ReaderService is held by exactly the request that is inside
\* its critical section; nothing returns or is forwarded while it holds it.
THEOREM MutexIsReleased == Spec => []MutexInv
<1>1. Inv => MutexInv
  BY DEF Inv
<1>2. QED
  BY <1>1, Safety, PTL

\* An active row states the grant GBrain enforces, outside the window between
\* RescopeClient and UpdateScope, and unless that window was cut short
\* (ReaderService.ensure).
THEOREM GrantIsRecorded == Spec => []GrantRecorded
<1>1. Inv => GrantRecorded
  BY DEF Inv
<1>2. QED
  BY <1>1, Safety, PTL

\* A call is forwarded with a token that reaches exactly the brains that call
\* was authorised for, whatever the other requests, rescopes, reissues and
\* restarts do in the meantime (AccessToken, clientFor, BearerToken).
THEOREM TokensAreScoped == Spec => []TokenScopedToCall
<1>1. Inv => TokenScopedToCall
  BY DEF Inv
<1>2. QED
  BY <1>1, Safety, PTL

\* Every live reader client in GBrain is named by its user's row or held by
\* the request that created it, except those whose registration answer or
\* record was lost (provision, Reissue, markOrphan).
THEOREM KeysAreAccounted == Spec => []EveryKeyAccounted
<1>1. Inv => EveryKeyAccounted
  BY DEF Inv
<1>2. QED
  BY <1>1, Safety, PTL

\* A bearer token kept in ReaderService.clients is the active reader's, and
\* reaches what that reader's grant reaches now.
THEOREM CachedTokensAreCurrent == Spec => []CachedTokenCurrent
<1>1. Inv => CachedTokenCurrent
  BY DEF Inv
<1>2. QED
  BY <1>1, Safety, PTL

\* An orphan row is reset for a new reader only after GBrain has confirmed
\* that the old client is revoked (ReaderService.Reissue).
THEOREM OldReaderIsRevoked == Spec => ReissueRevokesFirst
<1> DEFINE Kept(u) ==
      row[u].state = "orphan" /\ row'[u].state # "orphan" =>
        row[u].id = None \/ gb[row[u].id].status = "revoked"
<1>1. Inv /\ [Next]_vars => [\A u \in Users : Kept(u)]_vars
  <2> SUFFICES ASSUME Inv, Next, NEW u \in Users PROVE Kept(u)
    BY DEF vars
  <2>1. CASE \E p \in Procs : ResetDone(p)
    <3>1. PICK p \in Procs : ResetDone(p)
      BY <2>1
    <3>2. MyRow(p).id = None \/ gb[MyRow(p).id].status = "revoked"
      BY <3>1 DEF Inv, HolderInv, ResetDone
    <3>3. CASE u = User(p)
      BY <3>2, <3>3 DEF MyRow
    <3>4. CASE u # User(p)
      BY <3>1, <3>4 DEF ResetDone
    <3>5. QED
      BY <3>3, <3>4
  <2>2. CASE \E p \in Procs : Step(p) /\ ~ResetDone(p)
    <3>1. PICK p \in Procs : Step(p) /\ ~ResetDone(p)
      BY <2>2
    <3>2. CASE EnterProvision(p) \/ Activated(p) \/ Persisted(p)
      <4>1. MyRow(p).state # "orphan"
        BY <3>2 DEF EnterProvision, Activated, Persisted
      <4>2. u # User(p) => row'[u] = row[u]
        <5>1. DOMAIN row = Users
          BY DEF Inv, TypeOK
        <5>2. PICK r : row' = [row EXCEPT ![User(p)] = r]
          BY <3>2 DEF EnterProvision, Activated, Persisted
        <5>3. QED
          BY <5>1, <5>2
      <4>3. QED
        BY <4>1, <4>2 DEF MyRow
    <3>3. CASE Marked(p)
      BY <3>3 DEF Marked, Orphaned
    <3>4. CASE ~(EnterProvision(p) \/ Activated(p) \/ Persisted(p) \/ Marked(p))
      <4>1. UNCHANGED row
        BY <3>1, <3>4 DEF Step, Enter, Register, Token, EnterRefused, LookupFails, EnterActive,
             EnterReissue, Registered, RegisterLost, RegisterRefused, ActivateFails,
             Undone, UndoFails, MarkFails, Rescoped, RescopeFails, PersistFails,
             TokenCached, TokenFetched, TokenFails, CredentialBad, RevokedOld,
             RevokeOldFails, ResetFails, Forward
      <4>2. QED
        BY <4>1
    <3>5. QED
      BY <3>2, <3>3, <3>4
  <2>3. CASE UNCHANGED row
    BY <2>3
  <2>4. QED
    BY <2>1, <2>2, <2>3 DEF Next, World, Join, Leave, BrainStep, Begin, BootVisit,
         BootDone, Restart
<1>2. QED
  BY <1>1, Safety, PTL DEF Spec, ReissueRevokesFirst
-----------------------------------------------------------------------------
(* The refinement of KeyRing.                                              *)

\* KeyState without the case that EveryKeyAccounted excludes.
Phase(i) ==
  IF gb[i].status = "unused" THEN "unmade"
  ELSE IF gb[i].status = "revoked" THEN "dead"
  ELSE IF i \in stray THEN "lost"
  ELSE IF RowNames(i) THEN "named" ELSE "held"

RingNow == [i \in Ids |-> KeyState(i)]

\* A step of KeyRing, or one that it does not see.
RingStep == Ring!Next \/ RingNow' = RingNow

LEMMA PhaseNow == Inv => \A i \in Ids : KeyState(i) = Phase(i)
<1> SUFFICES ASSUME Inv, NEW i \in Ids PROVE KeyState(i) = Phase(i)
  OBVIOUS
<1>1. gb[i].status \in {"unused", "live", "revoked"}
  BY DEF Inv, TypeOK, GClient
<1>2. gb[i].status = "live" => i \in stray \/ RowNames(i) \/ InHand(i)
  BY DEF Inv, EveryKeyAccounted
<1>3. QED
  BY <1>1, <1>2 DEF KeyState, Phase

LEMMA PhaseNext == Inv' => \A i \in Ids : KeyState(i)' = Phase(i)'
<1> SUFFICES ASSUME Inv', NEW i \in Ids PROVE KeyState(i)' = Phase(i)'
  OBVIOUS
<1>1. gb'[i].status \in {"unused", "live", "revoked"}
  BY DEF Inv, TypeOK, GClient
<1>2. gb'[i].status = "live" => i \in stray' \/ RowNames(i)' \/ InHand(i)'
  BY DEF Inv, EveryKeyAccounted
<1>3. QED
  BY <1>1, <1>2 DEF KeyState, Phase

\* A key a step does not touch.
Untouched(i) ==
  /\ gb'[i].status = gb[i].status /\ (i \in stray' <=> i \in stray)
  /\ gb[i].status = "live" => (RowNames(i)' <=> RowNames(i))

LEMMA UntouchedPhase ==
  ASSUME Inv, NEW i \in Ids, Untouched(i)
  PROVE  Phase(i)' = Phase(i)
<1>1. gb[i].status \in {"unused", "live", "revoked"}
  BY DEF Inv, TypeOK, GClient
<1>2. QED
  BY <1>1 DEF Untouched, Phase

\* Rows keep their ids, and GBrain's client its status and owner.
LEMMA SameRows ==
  ASSUME \A u \in Users : row'[u].id = row[u].id, NEW i \in Ids,
         gb'[i].status = gb[i].status, gb'[i].owner = gb[i].owner, i \in stray' <=> i \in stray
  PROVE  Untouched(i)
  BY DEF Untouched, RowNames

\* The row of u gets another id: no other key is touched.
LEMMA OneRow ==
  ASSUME NEW u \in Users, \A v \in Users \ {u} : row'[v] = row[v], NEW i \in Ids,
         i # row'[u].id, i # row[u].id \/ gb[i].status # "live", gb' = gb, stray' = stray
  PROVE  Untouched(i)
  BY DEF Untouched, RowNames

\* A step that touches one key.
LEMMA OneStep ==
  ASSUME Inv, Inv', StrayInv, NEW i \in Ids, \A j \in Ids \ {i} : Untouched(j),
         i \in stray' => gb'[i].status # "unused",
         \/ Phase(i)' = Phase(i)
         \/ Phase(i) = "unmade" /\ Phase(i)' \in {"held", "lost"}
         \/ Phase(i) = "held" /\ Phase(i)' = "named"
         \/ Phase(i) \in {"held", "named", "lost"} /\ Phase(i)' = "dead"
  PROVE  StrayInv' /\ RingStep
<1> PICK a, b : a = Phase(i) /\ b = Phase(i)'
  OBVIOUS
<1>1. RingNow' = [RingNow EXCEPT ![i] = b] /\ RingNow[i] = a
  BY PhaseNow, PhaseNext, UntouchedPhase DEF RingNow
<1>2. StrayInv'
  BY DEF StrayInv, Inv, TypeOK, Untouched
<1>3. CASE a = b
  BY <1>1, <1>2, <1>3 DEF RingStep, RingNow
<1>4. CASE a = "unmade" /\ b \in {"held", "lost"}
  <2>1. Ring!Make(i) \/ Ring!Stray(i)
    BY <1>1, <1>4 DEF Ring!Make, Ring!Stray, Ring!Move, RingNow
  <2>2. QED
    BY <1>2, <2>1 DEF Ring!Next, RingStep
<1>5. CASE a = "held" /\ b = "named"
  <2>1. Ring!Name(i)
    BY <1>1, <1>5 DEF Ring!Name, Ring!Move, RingNow
  <2>2. QED
    BY <1>2, <2>1 DEF Ring!Next, RingStep
<1>6. CASE a \in {"held", "named", "lost"} /\ b = "dead"
  <2>1. Ring!Revoke(i)
    BY <1>1, <1>6 DEF Ring!Revoke, Ring!Move, RingNow
  <2>2. QED
    BY <1>2, <2>1 DEF Ring!Next, RingStep
<1>7. QED
  BY <1>3, <1>4, <1>5, <1>6

\* A step that touches none.
LEMMA QuietStep ==
  ASSUME Inv, Inv', StrayInv, \A i \in Ids : Untouched(i)
  PROVE  StrayInv' /\ RingStep
<1>1. RingNow' = RingNow
  BY PhaseNow, PhaseNext, UntouchedPhase DEF RingNow
<1>2. StrayInv'
  BY DEF StrayInv, Inv, TypeOK, Untouched
<1>3. QED
  BY <1>1, <1>2 DEF RingStep

\* The keys of S are lost: they are live, and were not lost before or are
\* lost again.
LEMMA LoseStep ==
  ASSUME Inv, Inv', StrayInv, UNCHANGED <<row, gb>>, NEW S \in SUBSET Ids,
         \A i \in S : gb[i].status = "live",
         stray' = stray \union S
  PROVE  StrayInv' /\ RingStep
<1> DEFINE Gone == S \ stray
<1>1. StrayInv'
  BY DEF StrayInv
<1>2. ASSUME NEW i \in Gone PROVE Phase(i) \in {"held", "named"} /\ Phase(i)' = "lost"
  BY <1>2 DEF Phase
<1>3. ASSUME NEW i \in Ids \ Gone PROVE Phase(i)' = Phase(i)
  <2>1. Untouched(i)
    BY DEF Untouched, RowNames
  <2>2. QED
    BY <2>1, UntouchedPhase
<1>4. RingNow' = [i \in Ids |-> IF i \in Gone THEN "lost" ELSE RingNow[i]]
  <2> HIDE DEF Gone
  <2>1. Gone \subseteq Ids
    BY DEF Gone
  <2>2. QED
    BY <1>2, <1>3, <2>1, PhaseNow, PhaseNext DEF RingNow
<1>5. \A i \in Gone : RingNow[i] \in {"held", "named"}
  BY <1>2, PhaseNow DEF RingNow
<1>6. Gone \in SUBSET Ids
  OBVIOUS
<1> HIDE DEF Gone
<1>7. Ring!Lose(Gone)
  BY <1>4, <1>5 DEF Ring!Lose, RingNow
<1>8. QED
  BY <1>1, <1>6, <1>7 DEF Ring!Next, RingStep

-----------------------------------------------------------------------------
(* Every step of ReaderScope is a step of KeyRing, or one it does not see. *)

\* A row is inserted, or taken up as it was left: it has no id.
LEMMA EnterProvisionRing ==
  ASSUME Inv, Inv', StrayInv, NEW p \in Procs, EnterProvision(p)
  PROVE  StrayInv' /\ RingStep
<1> PICK u : u = User(p)
  OBVIOUS
<1>1. /\ row[u].state \in {"none", "issuing"} /\ gb' = gb /\ stray' = stray
      /\ row' = [row EXCEPT ![u] = Issuing]
  BY DEF EnterProvision, MyRow, ghosts
<1>2. u \in Users
  BY UserType DEF EnterProvision, Inv
<1>3. \A v \in Users : row'[v].id = row[v].id
  BY <1>1, <1>2, RowType DEF Inv, TypeOK, RowShape, Issuing
<1>4. \A i \in Ids : Untouched(i)
  BY <1>1, <1>3, SameRows
<1>5. QED
  BY <1>4, QuietStep

\* GBrain makes a key; the answer arrives or not.
LEMMA CreateRing ==
  ASSUME Inv, Inv', StrayInv, NEW p \in Procs, NEW i \in Ids, Create(i, p), row' = row,
         stray' = stray \/ stray' = stray \union {i}
  PROVE  StrayInv' /\ RingStep
<1> PICK new : new = Client(p)
  OBVIOUS
<1>1. gb[i].status = "unused" /\ gb' = [gb EXCEPT ![i] = new] /\ new.status = "live"
  BY DEF Create, Client
<1>2. gb'[i].status = "live" /\ \A j \in Ids \ {i} : gb'[j] = gb[j]
  BY <1>1 DEF Inv, TypeOK
<1>3. \A j \in Ids \ {i} : Untouched(j)
  BY <1>2, SameRows
<1>4. \A u \in Users : row[u].id # i
  BY <1>1, NoneAssumption DEF Inv, RowInv
<1>5. i \notin stray /\ ~RowNames(i)'
  BY <1>1, <1>4 DEF StrayInv, RowNames
<1>6. Phase(i) = "unmade" /\ Phase(i)' \in {"held", "lost"}
  BY <1>1, <1>2, <1>5 DEF Phase
<1>7. QED
  BY <1>2, <1>3, <1>6, OneStep

\* A row without an id is given that of a key of its user.
LEMMA RecordRing ==
  ASSUME Inv, Inv', StrayInv, gb' = gb, stray' = stray, NEW u \in Users, NEW i \in Ids,
         gb[i].status = "live" => gb[i].owner = u, gb[i].status # "unused",
         row[u].id = None, row'[u].id = i, \A v \in Users \ {u} : row'[v] = row[v]
  PROVE  StrayInv' /\ RingStep
<1>1. \A j \in Ids \ {i} : Untouched(j)
  BY OneRow, NoneAssumption
<1>2. gb[i].status = "live" => ~RowNames(i) /\ RowNames(i)'
  BY NoneAssumption DEF RowNames
<1>3. Phase(i)' = Phase(i) \/ (Phase(i) = "held" /\ Phase(i)' = "named")
  BY <1>2 DEF Phase, Inv, TypeOK, GClient
<1>4. QED
  BY <1>1, <1>3, OneStep

LEMMA ActivatedRing ==
  ASSUME Inv, Inv', StrayInv, NEW p \in Procs, Activated(p)
  PROVE  StrayInv' /\ RingStep
<1> PICK u, i, f : u = User(p) /\ i = gid[p] /\ f = List(p)
  OBVIOUS
<1>1. /\ pc[p] = "activate" /\ row[u].state = "issuing" /\ gb' = gb /\ stray' = stray
      /\ row' = [row EXCEPT ![u] = [state |-> "active", id |-> i, fed |-> f]]
  BY DEF Activated, MyRow
<1>2. u \in Users
  BY <1>1, UserType DEF Inv
<1>3. row[u].id = None
  BY <1>1, <1>2, RowType DEF Inv, RowShape
<1>4. i \in Ids /\ gb[i].status = "live" /\ gb[i].owner = u
  <2>1. gid[p] # None /\ gb[gid[p]] = Client(p)
    BY <1>1 DEF Inv, HolderInv
  <2>2. gid[p] \in Ids
    BY <2>1 DEF Inv, TypeOK
  <2>3. QED
    BY <1>1, <2>1, <2>2 DEF Client
<1>5. row'[u].id = i /\ \A v \in Users \ {u} : row'[v] = row[v]
  BY <1>1, <1>2 DEF Inv, TypeOK
<1>6. QED
  BY <1>1, <1>2, <1>3, <1>4, <1>5, RecordRing

\* An orphan keeps the id it had, or is given the one at hand.
LEMMA MarkedRing ==
  ASSUME Inv, Inv', StrayInv, NEW p \in Procs, Marked(p)
  PROVE  StrayInv' /\ RingStep
<1> PICK u, i, new : u = User(p) /\ i = gid[p] /\ new = Orphaned(p)
  OBVIOUS
<1>1. /\ pc[p] = "mark" /\ row' = [row EXCEPT ![u] = new] /\ gb' = gb /\ stray' = stray
      /\ new.id = IF i # None THEN i ELSE row[u].id
  BY DEF Marked, Orphaned, MyRow, ghosts
<1>2. u \in Users
  BY <1>1, UserType DEF Inv
<1>3. row'[u].id = new.id /\ \A v \in Users \ {u} : row'[v] = row[v]
  BY <1>1, <1>2 DEF Inv, TypeOK
<1>4. \/ row[u].state = "issuing" /\ (i # None => /\ gb[i].status # "unused"
                                                  /\ gb[i].status = "live" => gb[i].owner = u)
      \/ i = row[u].id
  BY <1>1 DEF Inv, HolderInv, MyRow
<1>5. CASE new.id = row[u].id
  <2>1. \A j \in Ids : Untouched(j)
    BY <1>1, <1>3, <1>5, SameRows
  <2>2. QED
    BY <2>1, QuietStep
<1>6. CASE new.id # row[u].id
  <2>1. row[u].id = None
    BY <1>1, <1>2, <1>4, <1>6, RowType DEF Inv, RowShape
  <2>2. i \in Ids
    BY <1>1, <1>6 DEF Inv, TypeOK
  <2>3. QED
    BY <1>1, <1>2, <1>3, <1>4, <1>6, <2>1, <2>2, RecordRing, NoneAssumption
<1>7. QED
  BY <1>5, <1>6

\* The orphan's key is dead when the row is reset.
LEMMA ResetDoneRing ==
  ASSUME Inv, Inv', StrayInv, NEW p \in Procs, ResetDone(p)
  PROVE  StrayInv' /\ RingStep
<1> PICK u : u = User(p)
  OBVIOUS
<1>1. /\ pc[p] = "reset" /\ gb' = gb /\ stray' = stray /\ row' = [row EXCEPT ![u] = Issuing]
  BY DEF ResetDone, ghosts
<1>2. u \in Users
  BY <1>1, UserType DEF Inv
<1>3. row[u].id = None \/ gb[row[u].id].status = "revoked"
  BY <1>1 DEF Inv, HolderInv, MyRow
<1>4. row'[u].id = None /\ \A v \in Users \ {u} : row'[v] = row[v]
  BY <1>1, <1>2 DEF Inv, TypeOK, Issuing
<1>5. \A j \in Ids : Untouched(j)
  BY <1>1, <1>2, <1>3, <1>4, OneRow, NoneAssumption
<1>6. QED
  BY <1>5, QuietStep

\* GBrain revokes a key that was made.
LEMMA DeadRing ==
  ASSUME Inv, Inv', StrayInv, NEW i \in Ids, gb[i].status # "unused",
         gb' = [gb EXCEPT ![i] = Revoked], UNCHANGED <<row, stray>>
  PROVE  StrayInv' /\ RingStep
<1>1. gb'[i].status = "revoked" /\ \A j \in Ids \ {i} : gb'[j] = gb[j]
  BY DEF Inv, TypeOK, Revoked
<1>2. \A j \in Ids \ {i} : Untouched(j)
  BY <1>1, SameRows
<1>3. gb[i].status \in {"live", "revoked"}
  BY DEF Inv, TypeOK, GClient
<1>4. Phase(i) \in {"held", "named", "lost", "dead"} /\ Phase(i)' = "dead"
  BY <1>1, <1>3 DEF Phase
<1>5. QED
  BY <1>1, <1>2, <1>4, OneStep

LEMMA UndoneRing ==
  ASSUME Inv, Inv', StrayInv, NEW p \in Procs, pc[p] = "undo",
         gb' = [gb EXCEPT ![gid[p]] = Revoked], UNCHANGED <<row, stray>>
  PROVE  StrayInv' /\ RingStep
<1>1. gid[p] # None /\ gb[gid[p]] = Client(p)
  BY DEF Inv, HolderInv
<1>2. gid[p] \in Ids /\ gb[gid[p]].status = "live"
  BY <1>1 DEF Inv, TypeOK, Client
<1>3. QED
  BY <1>2, DeadRing

LEMMA RevokedOldRing ==
  ASSUME Inv, Inv', StrayInv, NEW p \in Procs, pc[p] = "revokeOld",
         gb' = [gb EXCEPT ![MyRow(p).id] = Revoked], UNCHANGED <<row, stray>>
  PROVE  StrayInv' /\ RingStep
<1> PICK u : u = User(p)
  OBVIOUS
<1>1. u \in Users /\ row[u].id # None
  BY UserType DEF Inv, HolderInv, MyRow
<1>2. row[u].id \in Ids /\ gb[row[u].id].status # "unused"
  BY <1>1, RowType DEF Inv, RowShape, RowInv
<1>3. QED
  BY <1>2, DeadRing DEF MyRow

\* A grant is no part of the ring.
LEMMA GrantRing ==
  ASSUME Inv, Inv', StrayInv, NEW i, NEW g, gb' = [gb EXCEPT ![i].grant = g],
         UNCHANGED <<row, stray>>
  PROVE  StrayInv' /\ RingStep
<1>1. \A j \in Ids : gb'[j].status = gb[j].status /\ gb'[j].owner = gb[j].owner
  BY DEF Inv, TypeOK, GClient
<1>2. QED
  BY <1>1, SameRows, QuietStep

LEMMA MarkFailsRing ==
  ASSUME Inv, Inv', StrayInv, NEW p \in Procs, MarkFails(p)
  PROVE  StrayInv' /\ RingStep
<1>1. Unrecorded(p) \in SUBSET Ids /\ \A i \in Unrecorded(p) : gb[i].status = "live"
  BY DEF Unrecorded
<1>2. QED
  BY <1>1, LoseStep DEF MarkFails

LEMMA RestartRing ==
  ASSUME Inv, Inv', StrayInv, Restart
  PROVE  StrayInv' /\ RingStep
<1> PICK S : S = UNION {Unrecorded(p) : p \in {q \in Procs : lock = q}}
  OBVIOUS
<1>1. S \in SUBSET Ids /\ \A i \in S : gb[i].status = "live"
  BY DEF Unrecorded
<1>2. QED
  BY <1>1, LoseStep DEF Restart

\* A step that touches neither rows nor keys.
LEMMA StandRing ==
  ASSUME Inv, Inv', StrayInv, UNCHANGED <<row, gb, stray>>
  PROVE  StrayInv' /\ RingStep
  BY SameRows, QuietStep

LEMMA StepRing ==
  ASSUME Inv, Inv', StrayInv, NEW p \in Procs, Step(p)
  PROVE  StrayInv' /\ RingStep
<1>1. CASE Enter(p)
  <2>1. CASE EnterProvision(p)
    BY <2>1, EnterProvisionRing
  <2>2. CASE EnterRefused(p) \/ LookupFails(p) \/ EnterActive(p) \/ EnterReissue(p)
    BY <2>2, StandRing DEF EnterRefused, LookupFails, EnterActive, EnterReissue, ghosts
  <2>3. QED
    BY <1>1, <2>1, <2>2 DEF Enter
<1>2. CASE Register(p)
  <2>1. ASSUME NEW i \in Ids, Registered(p, i) \/ RegisterLost(p, i)
        PROVE  StrayInv' /\ RingStep
    BY <2>1, CreateRing DEF Registered, RegisterLost, ghosts
  <2>2. CASE RegisterRefused(p)
    BY <2>2, StandRing DEF RegisterRefused, ghosts
  <2>3. QED
    BY <1>2, <2>1, <2>2 DEF Register
<1>3. CASE Undone(p) \/ UndoFails(p)
  <2>1. pc[p] = "undo" /\ UNCHANGED <<row, stray>>
    BY <1>3 DEF Undone, UndoFails, ghosts
  <2>2. gb' = gb \/ gb' = [gb EXCEPT ![gid[p]] = Revoked]
    BY <1>3 DEF Undone, UndoFails
  <2>3. QED
    BY <2>1, <2>2, UndoneRing, StandRing
<1>4. CASE RevokedOld(p) \/ RevokeOldFails(p)
  <2>1. pc[p] = "revokeOld" /\ UNCHANGED <<row, stray>>
    BY <1>4 DEF RevokedOld, RevokeOldFails, ghosts
  <2>2. gb' = gb \/ gb' = [gb EXCEPT ![MyRow(p).id] = Revoked]
    BY <1>4 DEF RevokedOld, RevokeOldFails
  <2>3. QED
    BY <2>1, <2>2, RevokedOldRing, StandRing
<1>5. CASE Rescoped(p) \/ RescopeFails(p)
  <2>1. UNCHANGED <<row, stray>>
    BY <1>5 DEF Rescoped, RescopeFails, ghosts
  <2>2. gb' = gb \/ gb' = [gb EXCEPT ![MyRow(p).id].grant = List(p)]
    BY <1>5 DEF Rescoped, RescopeFails
  <2>3. QED
    BY <2>1, <2>2, GrantRing, StandRing
<1>6. CASE Persisted(p)
  <2>1. \A u \in Users : row'[u].id = row[u].id
    <3>1. \A u \in Users : row[u] \in Row
      BY DEF Inv, TypeOK
    <3>2. PICK u, f : row' = [row EXCEPT ![u].fed = f]
      BY <1>6 DEF Persisted
    <3>3. QED
      BY <3>1, <3>2 DEF Inv, TypeOK, Row, NoRow, Issuing
  <2>2. QED
    BY <1>6, <2>1, SameRows, QuietStep DEF Persisted
<1>7. CASE Token(p)
  BY <1>7, StandRing DEF Token, TokenCached, TokenFetched, TokenFails, CredentialBad, ghosts
<1>8. CASE ActivateFails(p) \/ PersistFails(p) \/ ResetFails(p) \/ Forward(p)
  BY <1>8, StandRing DEF ActivateFails, PersistFails, ResetFails, Forward, ghosts
<1>9. QED
  BY <1>1, <1>2, <1>3, <1>4, <1>5, <1>6, <1>7, <1>8, ActivatedRing, MarkedRing, MarkFailsRing,
     ResetDoneRing DEF Step

LEMMA NextRing == Inv /\ Inv' /\ StrayInv /\ [Next]_vars => StrayInv' /\ RingStep
<1> SUFFICES ASSUME Inv, Inv', StrayInv, [Next]_vars PROVE StrayInv' /\ RingStep
  OBVIOUS
<1>1. CASE World \/ UNCHANGED vars
  <2>1. UNCHANGED <<row, gb, stray>>
    BY <1>1 DEF World, Join, Leave, BrainStep, vars, ghosts
  <2>2. QED
    BY <2>1, StandRing
<1>2. CASE \/ \E p \in Calls, u \in Users, k \in {"call", "reissue"} : Begin(p, u, k)
           \/ \E u \in Users : BootVisit(u)
           \/ BootDone
  <2>1. UNCHANGED <<row, gb, stray>>
    BY <1>2 DEF Begin, BootVisit, BootDone, ghosts
  <2>2. QED
    BY <2>1, StandRing
<1>3. QED
  BY <1>1, <1>2, StepRing, RestartRing DEF Next

\* ReaderScope implements KeyRing: no step of a request, failure or stop sets a
\* reader's key adrift, revives a revoked one or finds a lost one (ensure,
\* provision, Reissue).
THEOREM ReaderScopeImplementsKeyRing == Spec => KeysOnRing
<1>1. Init => StrayInv /\ Ring!Init
  <2> SUFFICES ASSUME Init PROVE StrayInv /\ Ring!Init
    OBVIOUS
  <2>1. \A i \in Ids : KeyState(i) = "unmade"
    BY DEF Init, KeyState
  <2>2. QED
    BY <2>1 DEF Init, StrayInv, Ring!Init
<1>2. Inv /\ Inv' /\ StrayInv /\ [Next]_vars =>
        StrayInv' /\ [Ring!Next]_[i \in Ids |-> KeyState(i)]
  BY NextRing DEF RingStep, RingNow
<1>3. QED
  BY <1>1, <1>2, Safety, PTL DEF Spec, KeysOnRing, Ring!Spec
=============================================================================
