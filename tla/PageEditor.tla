----------------------------- MODULE PageEditor -----------------------------
(***************************************************************************)
(* Creating and updating the pages of one brain from the web               *)
(* (api/usecase/interactor/page.go, api/adapter/gbrain/page_writer.go).    *)
(*                                                                         *)
(* GBrain's put_page replaces a whole page and takes no version.  A        *)
(* request reads the page, puts it back with one entry added to the        *)
(* timeline it has read, and then brings the page's brainhub-web link in   *)
(* line with the superseded_by of its text, by calls of their own.         *)
(* Nothing keeps two requests on one page apart.                           *)
(*                                                                         *)
(* A call that fails after it has taken effect is its action followed by   *)
(* Fails; so is one whose answer brainhub does not accept (the write was   *)
(* not committed to git, say), a client that hangs up, and, for every      *)
(* request at once, a stop of the process.  Pages are changed by nobody    *)
(* else, and not deleted.  The text, title, type and tags of a page are    *)
(* those of the last put and are left out.                                 *)
(***************************************************************************)
EXTENDS FiniteSets

CONSTANTS
  Slugs,    \* the pages that are edited
  Still,    \* pages that exist and are only linked to: a bound
  Entries,  \* timeline entries, one for each request that adds one: a bound
  Calls,    \* slots for concurrent requests
  None

ASSUME NoneAssumption == None \notin Slugs \union Still \union Entries \union Calls

VARIABLES
  page,        \* GBrain's pages (external)
  links,       \* the superseded_by links made by brainhub-web, by page
  pc, job,     \* the requests
  entered,     \* history: the entries put so far, by page
  overlapped,  \* history: those put while another request was on its way
               \*   from reading the same page to putting it
  torn         \* history: pages whose last put was not followed by a
               \*   complete and undisturbed sync of the link

vars == <<page, links, pc, job, entered, overlapped, torn>>
ghosts == <<entered, overlapped, torn>>

-----------------------------------------------------------------------------
Pages == Slugs \union Still

NoPage == [exists |-> FALSE, timeline |-> {}, sup |-> None]
Page(s) == {NoPage} \union [exists : {TRUE}, timeline : SUBSET Entries,
                            sup : (Pages \ {s}) \union {None}]

\* timeline: as read; drop: links still to remove; alone: no other request
\* was between put and sync of the page at the same time (history).
NoJob == [op |-> "none", slug |-> None, entry |-> None, target |-> None,
          timeline |-> {}, drop |-> {}, add |-> FALSE, alone |-> FALSE]
Job   == {NoJob} \union
         [op : {"create", "update"}, slug : Slugs, entry : Entries \union {None},
          target : Pages \union {None}, timeline : SUBSET Entries,
          drop : SUBSET Pages, add : BOOLEAN, alone : BOOLEAN]

TypeOK ==
  /\ page \in [Slugs -> UNION {Page(s) : s \in Slugs}]
  /\ \A s \in Slugs : page[s] \in Page(s)
  /\ links \in [Slugs -> SUBSET Pages]
  /\ pc \in [Calls -> {"idle", "look", "target", "put", "sync", "link", "answer"}]
  /\ job \in [Calls -> Job]
  /\ entered \in [Slugs -> SUBSET Entries]
  /\ overlapped \subseteq Entries /\ torn \subseteq Slugs

\* The brain may have pages, without entries or links.
Init ==
  /\ \E S \in SUBSET Slugs :
       page = [s \in Slugs |-> [NoPage EXCEPT !.exists = s \in S]]
  /\ links = [s \in Slugs |-> {}]
  /\ pc = [p \in Calls |-> "idle"]
  /\ job = [p \in Calls |-> NoJob]
  /\ entered = [s \in Slugs |-> {}]
  /\ overlapped = {} /\ torn = {}

Goto(p, l) == pc' = [pc EXCEPT ![p] = l]

Return(p) ==
  /\ Goto(p, "idle")
  /\ job' = [job EXCEPT ![p] = NoJob]

Slug(p) == job[p].slug

\* The other requests on p's page that are at one of the points L.
Others(p, L) == {q \in Calls \ {p} : pc[q] \in L /\ Slug(q) = Slug(p)}

Used(e) == \/ \E s \in Slugs : e \in entered[s]
           \/ \E p \in Calls : job[p].entry = e

-----------------------------------------------------------------------------
(* Create and Update.                                                      *)

\* A page may be superseded by itself.
Mutant_Begin(p, op, s, e, t) ==
  /\ pc[p] = "idle"
  /\ e = None \/ ~Used(e)
  /\ op = "create" => e # None
  /\ job' = [job EXCEPT ![p] = [NoJob EXCEPT !.op = op, !.slug = s, !.entry = e,
                                             !.target = t]]
  /\ Goto(p, "look")
  /\ UNCHANGED <<page, links, ghosts>>

\* writeAccess has found an owner or editor and the input is valid.
Begin(p, op, s, e, t) ==
  /\ pc[p] = "idle"
  /\ e = None \/ ~Used(e)
  /\ op = "create" => e # None
  /\ t # s
  /\ job' = [job EXCEPT ![p] = [NoJob EXCEPT !.op = op, !.slug = s, !.entry = e,
                                             !.target = t]]
  /\ Goto(p, "look")
  /\ UNCHANGED <<page, links, ghosts>>

\* Update starts from an empty timeline.
Mutant_Look(p) ==
  /\ pc[p] = "look"
  /\ page[Slug(p)].exists <=> job[p].op = "update"
  /\ Goto(p, IF job[p].target = None THEN "put" ELSE "target")
  /\ UNCHANGED <<page, links, job, ghosts>>

\* GetEditable: the slug is free for Create, and Update keeps the timeline.
Look(p) ==
  /\ pc[p] = "look"
  /\ page[Slug(p)].exists <=> job[p].op = "update"
  /\ job' = [job EXCEPT ![p].timeline = page[Slug(p)].timeline]
  /\ Goto(p, IF job[p].target = None THEN "put" ELSE "target")
  /\ UNCHANGED <<page, links, ghosts>>

\* validateTarget.
LookTarget(p) ==
  /\ pc[p] = "target"
  /\ job[p].target \in Slugs => page[job[p].target].exists
  /\ Goto(p, "put")
  /\ UNCHANGED <<page, links, job, ghosts>>

Entry(p) == {job[p].entry} \ {None}

\* put_page, with the text pageContent makes.
Put(p) ==
  LET s == Slug(p)  rivals == Others(p, {"sync", "link"}) IN
  /\ pc[p] = "put"
  /\ page' = [page EXCEPT ![s] = [exists |-> TRUE, sup |-> job[p].target,
                                  timeline |-> job[p].timeline \union Entry(p)]]
  /\ job' = [q \in Calls |-> IF q = p THEN [job[p] EXCEPT !.alone = rivals = {},
                                                            !.entry = None, !.timeline = {}]
                             ELSE IF q \in rivals THEN [job[q] EXCEPT !.alone = FALSE]
                             ELSE job[q]]
  /\ Goto(p, "sync")
  /\ entered' = [entered EXCEPT ![s] = @ \union Entry(p)]
  /\ overlapped' = IF Others(p, {"target", "put"}) = {} THEN overlapped
                   ELSE overlapped \union Entry(p)
  /\ torn' = torn \union {s}
  /\ UNCHANGED links

\* The old link is left in place.
Mutant_ReadLinks(p) ==
  LET t == job[p].target IN
  /\ pc[p] = "sync"
  /\ job' = [job EXCEPT ![p].add = (t # None /\ t \notin links[Slug(p)])]
  /\ Goto(p, "link")
  /\ UNCHANGED <<page, links, ghosts>>

\* syncStateLink: get_links.
ReadLinks(p) ==
  LET t == job[p].target  now == links[Slug(p)] IN
  /\ pc[p] = "sync"
  /\ job' = [job EXCEPT ![p].drop = now \ {t}, ![p].add = (t # None /\ t \notin now)]
  /\ Goto(p, "link")
  /\ UNCHANGED <<page, links, ghosts>>

\* remove_link, once for each link to another page.
Unlink(p, t) ==
  /\ pc[p] = "link" /\ t \in job[p].drop
  /\ links' = [links EXCEPT ![Slug(p)] = @ \ {t}]
  /\ job' = [job EXCEPT ![p].drop = @ \ {t}]
  /\ UNCHANGED <<page, pc, ghosts>>

\* add_link, unless there is no target or its link was there.
Link(p) ==
  /\ pc[p] = "link" /\ job[p].drop = {}
  /\ links' = IF job[p].add THEN [links EXCEPT ![Slug(p)] = @ \union {job[p].target}]
              ELSE links
  /\ torn' = IF job[p].alone THEN torn \ {Slug(p)} ELSE torn
  /\ Goto(p, "answer")
  /\ UNCHANGED <<page, job, entered, overlapped>>

\* The page is read once more for the answer.
Answer(p) ==
  /\ pc[p] = "answer"
  /\ Return(p)
  /\ UNCHANGED <<page, links, ghosts>>

\* Refused by what it has read, or a call fails.
Fails(p) ==
  /\ pc[p] # "idle"
  /\ Return(p)
  /\ UNCHANGED <<page, links, ghosts>>

-----------------------------------------------------------------------------
Request(p) ==
  \/ \E op \in {"create", "update"}, s \in Slugs, e \in Entries \union {None},
        t \in Pages \union {None} : Begin(p, op, s, e, t)
  \/ \E t \in Pages : Unlink(p, t)
  \/ Look(p) \/ LookTarget(p) \/ Put(p) \/ ReadLinks(p) \/ Link(p) \/ Answer(p)
  \/ Fails(p)

Next == \E p \in Calls : Request(p)

Spec == Init /\ [][Next]_vars

-----------------------------------------------------------------------------
(* Properties.                                                             *)

\* An entry that was put stays in its page's timeline through every later
\* save, failed or not, unless another request had read the page before it
\* was put and put the page after it: a lost update, of two creations of one
\* slug as of two updates (Update 134-160, Create 102-120).
SavedEntriesStay ==
  \A s \in Slugs : entered[s] \ overlapped \subseteq page[s].timeline

\* What a page's text says it is superseded by is what its link says, however
\* saves have failed before: exactly one link or none, except from a put until
\* a sync that follows a put and is not disturbed by another save is complete
\* (Put, syncStateLink).
TextAndLinkAgree ==
  \A s \in Slugs \ torn : links[s] = {page[s].sup} \ {None}
-----------------------------------------------------------------------------
(* What the properties rest on.                                            *)

\* A request on its way from reading a page to putting it has read every entry
\* that is not recorded as overlapped.
ReadInv ==
  \A p \in Calls :
    pc[p] \in {"target", "put"} => entered[Slug(p)] \ overlapped \subseteq job[p].timeline

\* A page is torn from its put to the end of the sync.  Who is alone with it
\* there knows the text, and at the end the links that will be left.
SyncInv ==
  \A p \in Calls :
    /\ pc[p] \in {"sync", "link"} => Slug(p) \in torn
    /\ pc[p] \in {"sync", "link"} /\ job[p].alone =>
         /\ Others(p, {"sync", "link"}) = {}
         /\ page[Slug(p)].sup = job[p].target
    /\ pc[p] = "link" /\ job[p].add => job[p].target # None
    /\ pc[p] = "link" /\ job[p].alone =>
         links[Slug(p)] \ job[p].drop = IF job[p].add THEN {} ELSE {job[p].target} \ {None}

\* A request that is not idle has a page, and never the page itself as target.
JobInv ==
  \A p \in Calls :
    pc[p] # "idle" => job[p] # NoJob /\ job[p].target # Slug(p)

Inv == TypeOK /\ JobInv /\ ReadInv /\ SyncInv /\ SavedEntriesStay /\ TextAndLinkAgree
=============================================================================
