-------------------------- MODULE PageEditor_proofs --------------------------
(***************************************************************************)
(* Proofs about PageEditor, for every set of pages, entries and requests.  *)
(***************************************************************************)
EXTENDS PageEditor, TLAPS

\* The job of a request that is under way has all its fields.
Full == [op : {"create", "update"}, slug : Slugs, entry : Entries \union {None},
         target : Pages \union {None}, timeline : SUBSET Entries,
         drop : SUBSET Pages, add : BOOLEAN, alone : BOOLEAN]

LEMMA JobShape ==
  ASSUME TypeOK, JobInv, NEW p \in Calls, pc[p] # "idle"
  PROVE  /\ job[p] \in Full
         /\ Slug(p) \in Slugs
         /\ job[p].target # Slug(p)
<1>1. job[p] \in Job /\ job[p] # NoJob
  BY DEF TypeOK, JobInv
<1>2. job[p] \in Full
  BY <1>1 DEF Job, Full
<1>3. QED
  BY <1>2 DEF JobInv, Slug, Full

\* The entries a page has are entries.
LEMMA PageShape ==
  ASSUME TypeOK, NEW s \in Slugs
  PROVE  page[s].timeline \in SUBSET Entries
<1>1. page[s] \in Page(s)
  BY DEF TypeOK
<1>2. CASE page[s] = NoPage
  BY <1>2 DEF NoPage
<1>3. CASE page[s] \in [exists : {TRUE}, timeline : SUBSET Entries,
                        sup : (Pages \ {s}) \union {None}]
  BY <1>3
<1>4. QED
  BY <1>1, <1>2, <1>3 DEF Page

LEMMA NoJobType == NoJob \in Job /\ Full \subseteq Job
  BY DEF Job, Full

LEMMA InitInv == Init => Inv
<1> SUFFICES ASSUME Init PROVE Inv
  OBVIOUS
<1>1. PICK S \in SUBSET Slugs : page = [s \in Slugs |-> [NoPage EXCEPT !.exists = s \in S]]
  BY DEF Init
<1>2. \A s \in Slugs : page[s] \in Page(s) /\ page[s].sup = None /\ page[s].timeline = {}
  <2> SUFFICES ASSUME NEW s \in Slugs
               PROVE  page[s] \in Page(s) /\ page[s].sup = None /\ page[s].timeline = {}
    OBVIOUS
  <2>1. page[s] = [NoPage EXCEPT !.exists = s \in S]
    BY <1>1
  <2>2. CASE s \in S
    <3>1. (s \in S) = TRUE
      BY <2>2
    <3>2. page[s] = [NoPage EXCEPT !.exists = TRUE]
      BY <2>1, <3>1, Zenon
    <3>3. QED
      BY <3>2 DEF NoPage, Page
  <2>3. CASE s \notin S
    <3>1. (s \in S) = FALSE
      BY <2>3
    <3>2. page[s] = [NoPage EXCEPT !.exists = FALSE]
      BY <2>1, <3>1, Zenon
    <3>3. QED
      BY <3>2 DEF NoPage, Page
  <2>4. QED
    BY <2>2, <2>3
<1>3. page \in [Slugs -> UNION {Page(s) : s \in Slugs}]
  BY <1>1, <1>2, Zenon
<1>4. TypeOK
  BY <1>2, <1>3 DEF Init, TypeOK, Job
<1>5. JobInv /\ ReadInv /\ SyncInv /\ SavedEntriesStay
  BY <1>2 DEF Init, JobInv, ReadInv, SyncInv, SavedEntriesStay
<1>6. TextAndLinkAgree
  BY <1>2 DEF Init, TextAndLinkAgree
<1>7. QED
  BY <1>4, <1>5, <1>6 DEF Inv


\* The request has read nothing yet.
LEMMA BeginInv ==
  ASSUME Inv, NEW p \in Calls, NEW op \in {"create", "update"}, NEW s \in Slugs,
         NEW e \in Entries \union {None}, NEW t \in Pages \union {None}, Begin(p, op, s, e, t)
  PROVE  Inv'
<1>0. TypeOK /\ JobInv /\ ReadInv /\ SyncInv /\ SavedEntriesStay /\ TextAndLinkAgree
  BY DEF Inv
<1> DEFINE new == [NoJob EXCEPT !.op = op, !.slug = s, !.entry = e, !.target = t]
<1>1. /\ job' = [job EXCEPT ![p] = new] /\ pc' = [pc EXCEPT ![p] = "look"]
      /\ UNCHANGED <<page, links, entered, overlapped, torn>> /\ t # s /\ pc[p] = "idle"
  BY DEF Begin, Goto, ghosts
<1>2. new \in Full /\ new.slug = s /\ new.target = t
  BY DEF NoJob, Full
<1>3. TypeOK'
  BY <1>0, <1>1, <1>2, NoJobType DEF TypeOK
<1>4. JobInv'
  <2>1. new # NoJob
    BY <1>2, NoneAssumption DEF NoJob
  <2>2. QED
    BY <1>0, <1>1, <1>2, <2>1 DEF TypeOK, JobInv, Slug
<1>5. ReadInv'
  BY <1>0, <1>1 DEF TypeOK, ReadInv, Slug
<1>6. SyncInv'
  BY <1>0, <1>1 DEF TypeOK, SyncInv, Slug, Others
<1>7. QED
  BY <1>0, <1>1, <1>3, <1>4, <1>5, <1>6 DEF Inv, SavedEntriesStay, TextAndLinkAgree

\* What is read has every entry that no overlap has lost.
LEMMA LookInv ==
  ASSUME Inv, NEW p \in Calls, Look(p)
  PROVE  Inv'
<1>0. TypeOK /\ JobInv /\ ReadInv /\ SyncInv /\ SavedEntriesStay /\ TextAndLinkAgree
  BY DEF Inv
<1> DEFINE s == Slug(p)  new == [job[p] EXCEPT !.timeline = page[s].timeline]
<1>1. /\ job' = [job EXCEPT ![p] = new] /\ pc' \in [Calls -> {"idle", "look", "target", "put", "sync", "link", "answer"}]
      /\ pc[p] = "look" /\ pc'[p] \in {"target", "put"} /\ \A q \in Calls \ {p} : pc'[q] = pc[q]
      /\ UNCHANGED <<page, links, entered, overlapped, torn>>
  BY <1>0 DEF Look, Goto, ghosts, TypeOK, Slug
<1>2. job[p] \in Full /\ s \in Slugs /\ job[p].target # s
  BY <1>0, <1>1, JobShape
<1>3. page[s].timeline \in SUBSET Entries
  BY <1>0, <1>2, PageShape
<1>4. /\ new \in Full /\ new.slug = s /\ new.target = job[p].target
      /\ new.timeline = page[s].timeline
  BY <1>2, <1>3 DEF Full, Slug
<1>5. TypeOK'
  BY <1>0, <1>1, <1>4, NoJobType DEF TypeOK
<1>6. JobInv'
  <2>1. new # NoJob
    BY <1>2, <1>4, NoneAssumption DEF NoJob
  <2>2. QED
    BY <1>0, <1>1, <1>2, <1>4, <2>1 DEF TypeOK, JobInv, Slug
<1>7. ReadInv'
  <2>1. entered[s] \ overlapped \subseteq page[s].timeline
    BY <1>0, <1>2 DEF SavedEntriesStay
  <2>2. QED
    BY <1>0, <1>1, <1>4, <2>1 DEF TypeOK, ReadInv, Slug
<1>8. SyncInv'
  BY <1>0, <1>1 DEF TypeOK, SyncInv, Slug, Others
<1>9. QED
  BY <1>0, <1>1, <1>5, <1>6, <1>7, <1>8 DEF Inv, SavedEntriesStay, TextAndLinkAgree

LEMMA LookTargetInv ==
  ASSUME Inv, NEW p \in Calls, LookTarget(p)
  PROVE  Inv'
<1>0. TypeOK /\ JobInv /\ ReadInv /\ SyncInv /\ SavedEntriesStay /\ TextAndLinkAgree
  BY DEF Inv
<1>1. /\ pc' = [pc EXCEPT ![p] = "put"] /\ pc[p] = "target"
      /\ UNCHANGED <<page, links, job, entered, overlapped, torn>>
  BY DEF LookTarget, Goto, ghosts
<1>2. TypeOK' /\ JobInv' /\ ReadInv'
  BY <1>0, <1>1 DEF TypeOK, JobInv, ReadInv, Slug
<1>3. SyncInv'
  BY <1>0, <1>1 DEF TypeOK, SyncInv, Slug, Others
<1>4. QED
  BY <1>0, <1>1, <1>2, <1>3 DEF Inv, SavedEntriesStay, TextAndLinkAgree

\* The put keeps what was read, and others that have read the page before it
\* make its entry an overlapped one.  The page is torn from now on, and who was
\* alone with it no longer is.
LEMMA PutInv ==
  ASSUME Inv, NEW p \in Calls, Put(p)
  PROVE  Inv'
<1>0. TypeOK /\ JobInv /\ ReadInv /\ SyncInv /\ SavedEntriesStay /\ TextAndLinkAgree
  BY DEF Inv
<1> DEFINE s == Slug(p)
           rivals == Others(p, {"sync", "link"})
           text == [exists |-> TRUE, sup |-> job[p].target,
                    timeline |-> job[p].timeline \union Entry(p)]
           new == [job[p] EXCEPT !.alone = rivals = {}, !.entry = None, !.timeline = {}]
<1>1. /\ pc[p] = "put" /\ page' = [page EXCEPT ![s] = text]
      /\ job' = [q \in Calls |-> IF q = p THEN new
                                 ELSE IF q \in rivals THEN [job[q] EXCEPT !.alone = FALSE]
                                 ELSE job[q]]
      /\ pc' = [pc EXCEPT ![p] = "sync"]
      /\ entered' = [entered EXCEPT ![s] = @ \union Entry(p)]
      /\ overlapped' = IF Others(p, {"target", "put"}) = {} THEN overlapped
                       ELSE overlapped \union Entry(p)
      /\ torn' = torn \union {s} /\ UNCHANGED links
  BY DEF Put, Goto
<1>2. job[p] \in Full /\ s \in Slugs /\ job[p].target # s
  BY <1>0, <1>1, JobShape
<1>3. Entry(p) \subseteq Entries
  BY <1>2 DEF Entry, Full
<1>4. text \in Page(s) /\ text.sup = job[p].target
      /\ text.timeline = job[p].timeline \union Entry(p)
  BY <1>2, <1>3 DEF Full, Page
<1>5. /\ new \in Full /\ new.slug = s /\ new.target = job[p].target
      /\ new.alone = (rivals = {})
  BY <1>2 DEF Full, Slug
<1>6. \A q \in rivals : /\ [job[q] EXCEPT !.alone = FALSE] \in Full
                        /\ [job[q] EXCEPT !.alone = FALSE].slug = Slug(q)
                        /\ [job[q] EXCEPT !.alone = FALSE].target = job[q].target
                        /\ [job[q] EXCEPT !.alone = FALSE].timeline = job[q].timeline
                        /\ [job[q] EXCEPT !.alone = FALSE].add = job[q].add
                        /\ [job[q] EXCEPT !.alone = FALSE].alone = FALSE
  <2> SUFFICES ASSUME NEW q \in rivals
               PROVE  /\ [job[q] EXCEPT !.alone = FALSE] \in Full
                      /\ [job[q] EXCEPT !.alone = FALSE].slug = Slug(q)
                      /\ [job[q] EXCEPT !.alone = FALSE].target = job[q].target
                      /\ [job[q] EXCEPT !.alone = FALSE].timeline = job[q].timeline
                      /\ [job[q] EXCEPT !.alone = FALSE].add = job[q].add
                      /\ [job[q] EXCEPT !.alone = FALSE].alone = FALSE
    OBVIOUS
  <2>1. q \in Calls /\ pc[q] # "idle"
    BY DEF Others
  <2>2. job[q] \in Full
    BY <1>0, <2>1, JobShape
  <2>3. QED
    BY <2>2 DEF Full, Slug
<1>7. TypeOK'
  <2>1. page' \in [Slugs -> UNION {Page(x) : x \in Slugs}]
    <3>1. text \in UNION {Page(x) : x \in Slugs}
      BY <1>2, <1>4, Zenon
    <3>2. QED
      BY <1>0, <1>1, <1>2, <3>1 DEF TypeOK
  <2>2. \A x \in Slugs : page'[x] \in Page(x)
    BY <1>0, <1>1, <1>2, <1>4 DEF TypeOK
  <2>3. job' \in [Calls -> Job]
    BY <1>0, <1>1, <1>5, <1>6, NoJobType DEF TypeOK
  <2>4. QED
    BY <1>0, <1>1, <1>2, <1>3, <2>1, <2>2, <2>3 DEF TypeOK
<1>8. \A q \in Calls \ {p} : /\ pc'[q] = pc[q] /\ Slug(q)' = Slug(q)
                             /\ job'[q].target = job[q].target
                             /\ job'[q].timeline = job[q].timeline
                             /\ job'[q].add = job[q].add
                             /\ q \in rivals => ~job'[q].alone
                             /\ q \notin rivals => job'[q] = job[q]
  BY <1>0, <1>1, <1>6 DEF TypeOK, Slug
<1>9. pc'[p] = "sync" /\ Slug(p)' = s /\ job'[p] = new
  BY <1>0, <1>1, <1>5 DEF TypeOK, Slug
<1>10. JobInv'
  <2>1. new # NoJob
    BY <1>2, <1>5, NoneAssumption DEF NoJob
  <2>2. \A q \in rivals : [job[q] EXCEPT !.alone = FALSE] # NoJob
    BY <1>6, NoneAssumption DEF NoJob, Full
  <2> SUFFICES ASSUME NEW q \in Calls, pc'[q] # "idle"
               PROVE  job'[q] # NoJob /\ job'[q].target # Slug(q)'
    BY DEF JobInv
  <2>3. CASE q = p
    BY <1>2, <1>5, <1>9, <2>1, <2>3
  <2>4. CASE q # p
    <3>1. job[q] # NoJob /\ job[q].target # Slug(q)
      BY <1>0, <1>8, <2>4 DEF JobInv
    <3>2. job'[q] # NoJob
      BY <1>1, <1>8, <2>2, <2>4, <3>1
    <3>3. QED
      BY <1>8, <2>4, <3>1, <3>2
  <2>5. QED
    BY <2>3, <2>4
<1>11. ReadInv'
  <2> SUFFICES ASSUME NEW q \in Calls, pc'[q] \in {"target", "put"}
               PROVE  entered'[Slug(q)'] \ overlapped' \subseteq job'[q].timeline
    BY DEF ReadInv
  <2>1. q # p /\ pc[q] \in {"target", "put"}
    BY <1>8, <1>9
  <2>2. /\ entered[Slug(q)] \ overlapped \subseteq job[q].timeline
        /\ Slug(q) \in Slugs
    BY <1>0, <2>1, JobShape DEF ReadInv
  <2>3. CASE Slug(q) = s
    <3>1. q \in Others(p, {"target", "put"})
      BY <2>1, <2>3 DEF Others
    <3>2. overlapped' = overlapped \union Entry(p)
      BY <1>1, <3>1
    <3>3. entered'[s] = entered[s] \union Entry(p)
      BY <1>0, <1>1, <1>2 DEF TypeOK
    <3>4. QED
      BY <1>8, <2>1, <2>2, <2>3, <3>2, <3>3
  <2>4. CASE Slug(q) # s
    <3>1. entered'[Slug(q)] = entered[Slug(q)] /\ overlapped \subseteq overlapped'
      BY <1>0, <1>1, <2>2, <2>4 DEF TypeOK
    <3>2. QED
      BY <1>8, <2>1, <2>2, <3>1
  <2>5. QED
    BY <2>3, <2>4
<1>12. SavedEntriesStay'
  <2> SUFFICES ASSUME NEW x \in Slugs
               PROVE  entered'[x] \ overlapped' \subseteq page'[x].timeline
    BY DEF SavedEntriesStay
  <2>1. overlapped \subseteq overlapped'
    BY <1>1
  <2>2. CASE x = s
    <3>1. entered[s] \ overlapped \subseteq job[p].timeline
      BY <1>0, <1>1 DEF ReadInv
    <3>2. page'[s].timeline = job[p].timeline \union Entry(p)
      BY <1>0, <1>1, <1>2, <1>4 DEF TypeOK
    <3>3. entered'[s] = entered[s] \union Entry(p)
      BY <1>0, <1>1, <1>2 DEF TypeOK
    <3>4. QED
      BY <2>1, <2>2, <3>1, <3>2, <3>3
  <2>3. CASE x # s
    BY <1>0, <1>1, <2>1, <2>3 DEF TypeOK, SavedEntriesStay
  <2>4. QED
    BY <2>2, <2>3
<1>13. SyncInv'
  <2> SUFFICES ASSUME NEW q \in Calls, pc'[q] \in {"sync", "link"}
               PROVE  /\ Slug(q)' \in torn'
                      /\ job'[q].alone =>
                           /\ Others(q, {"sync", "link"})' = {}
                           /\ page'[Slug(q)'].sup = job'[q].target
                      /\ pc'[q] = "link" /\ job'[q].add => job'[q].target # None
                      /\ pc'[q] = "link" /\ job'[q].alone =>
                           links'[Slug(q)'] \ job'[q].drop =
                             IF job'[q].add THEN {} ELSE {job'[q].target} \ {None}
    BY DEF SyncInv
  <2>1. CASE q = p
    <3>1. job'[p].alone => Others(p, {"sync", "link"})' = {}
      <4> SUFFICES ASSUME job'[p].alone, NEW r \in Calls \ {p},
                          pc'[r] \in {"sync", "link"}, Slug(r)' = s
                   PROVE  FALSE
        BY <1>9 DEF Others
      <4>1. r \in rivals
        BY <1>8 DEF Others
      <4>2. ~new.alone
        BY <1>5, <4>1
      <4>3. QED
        BY <1>9, <4>2
    <3>2. page'[s].sup = job[p].target
      BY <1>0, <1>1, <1>2, <1>4 DEF TypeOK
    <3>3. QED
      BY <1>1, <1>5, <1>9, <2>1, <3>1, <3>2
  <2>2. CASE q # p /\ Slug(q) = s
    <3>1. q \in rivals
      BY <1>8, <2>2 DEF Others
    <3>2. pc'[q] = "link" /\ job'[q].add => job'[q].target # None
      BY <1>0, <1>8, <2>2 DEF SyncInv
    <3>3. QED
      BY <1>1, <1>8, <2>2, <3>1, <3>2
  <2>3. CASE q # p /\ Slug(q) # s
    <3>1. q \notin rivals /\ job'[q] = job[q] /\ pc'[q] = pc[q] /\ Slug(q)' = Slug(q)
      BY <1>8, <2>3 DEF Others
    <3>2. Slug(q) \in Slugs
      BY <1>0, <3>1, JobShape
    <3>3. page'[Slug(q)] = page[Slug(q)]
      BY <1>0, <1>1, <2>3, <3>2 DEF TypeOK
    <3>4. job[q].alone => Others(q, {"sync", "link"}) = {}
      BY <1>0, <3>1 DEF SyncInv
    <3>5. Others(q, {"sync", "link"})' \subseteq Others(q, {"sync", "link"})
      BY <1>8, <1>9, <2>3, <3>1 DEF Others
    <3>6. QED
      BY <1>0, <1>1, <3>1, <3>3, <3>4, <3>5 DEF SyncInv
  <2>4. QED
    BY <2>1, <2>2, <2>3
<1>14. TextAndLinkAgree'
  BY <1>0, <1>1, <1>2 DEF TypeOK, TextAndLinkAgree
<1>15. QED
  BY <1>7, <1>10, <1>11, <1>12, <1>13, <1>14 DEF Inv

\* What will be left once the links in drop are removed.
LEMMA ReadLinksInv ==
  ASSUME Inv, NEW p \in Calls, ReadLinks(p)
  PROVE  Inv'
<1>0. TypeOK /\ JobInv /\ ReadInv /\ SyncInv /\ SavedEntriesStay /\ TextAndLinkAgree
  BY DEF Inv
<1> DEFINE s == Slug(p)  t == job[p].target
           new == [job[p] EXCEPT !.drop = links[s] \ {t}, !.add = (t # None /\ t \notin links[s])]
<1>1. /\ pc[p] = "sync" /\ pc' = [pc EXCEPT ![p] = "link"]
      /\ job' = [job EXCEPT ![p] = new]
      /\ UNCHANGED <<page, links, entered, overlapped, torn>>
  BY DEF ReadLinks, Goto, ghosts
<1>2. job[p] \in Full /\ s \in Slugs /\ t # s
  BY <1>0, <1>1, JobShape
<1>3. links[s] \subseteq Pages /\ None \notin links[s]
  BY <1>0, <1>2, NoneAssumption DEF TypeOK, Pages
<1>4. /\ new \in Full /\ new.slug = s /\ new.target = t /\ new.alone = job[p].alone
      /\ new.drop = links[s] \ {t} /\ new.add = (t # None /\ t \notin links[s])
  BY <1>2, <1>3 DEF Full, Slug
<1>5. TypeOK'
  BY <1>0, <1>1, <1>4, NoJobType DEF TypeOK
<1>6. JobInv'
  <2>1. new # NoJob
    BY <1>2, <1>4, NoneAssumption DEF NoJob
  <2>2. QED
    BY <1>0, <1>1, <1>2, <1>4, <2>1 DEF TypeOK, JobInv, Slug
<1>7. ReadInv'
  BY <1>0, <1>1 DEF TypeOK, ReadInv, Slug
<1>8. SyncInv'
  <2>1. links[s] \ new.drop = IF new.add THEN {} ELSE {t} \ {None}
    BY <1>3, <1>4
  <2>2. Slug(p)' = s /\ job'[p] = new /\ pc'[p] = "link"
        /\ \A q \in Calls \ {p} : job'[q] = job[q] /\ pc'[q] = pc[q] /\ Slug(q)' = Slug(q)
    BY <1>0, <1>1, <1>4 DEF TypeOK, Slug
  <2>3. \A q \in Calls : Others(q, {"sync", "link"})' = Others(q, {"sync", "link"})
    BY <1>1, <2>2 DEF Others
  <2>4. new.add => t # None
    BY <1>4
  <2>5. job[p].alone => Others(p, {"sync", "link"}) = {} /\ page[s].sup = t
    BY <1>0, <1>1 DEF SyncInv
  <2>6. s \in torn
    BY <1>0, <1>1 DEF SyncInv
  <2> SUFFICES ASSUME NEW q \in Calls, pc'[q] \in {"sync", "link"}
               PROVE  /\ Slug(q)' \in torn
                      /\ job'[q].alone =>
                           /\ Others(q, {"sync", "link"}) = {}
                           /\ page[Slug(q)'].sup = job'[q].target
                      /\ pc'[q] = "link" /\ job'[q].add => job'[q].target # None
                      /\ pc'[q] = "link" /\ job'[q].alone =>
                           links[Slug(q)'] \ job'[q].drop =
                             IF job'[q].add THEN {} ELSE {job'[q].target} \ {None}
    BY <1>1, <2>3 DEF SyncInv
  <2>7. CASE q = p
    BY <1>4, <2>1, <2>2, <2>4, <2>5, <2>6, <2>7
  <2>8. CASE q # p
    <3>1. job'[q] = job[q] /\ pc'[q] = pc[q] /\ Slug(q)' = Slug(q)
      BY <2>2, <2>8
    <3>2. QED
      BY <1>0, <3>1 DEF SyncInv
  <2>9. QED
    BY <2>7, <2>8
<1>9. QED
  BY <1>0, <1>1, <1>5, <1>6, <1>7, <1>8 DEF Inv, SavedEntriesStay, TextAndLinkAgree

LEMMA UnlinkInv ==
  ASSUME Inv, NEW p \in Calls, NEW t \in Pages, Unlink(p, t)
  PROVE  Inv'
<1>0. TypeOK /\ JobInv /\ ReadInv /\ SyncInv /\ SavedEntriesStay /\ TextAndLinkAgree
  BY DEF Inv
<1> DEFINE s == Slug(p)  new == [job[p] EXCEPT !.drop = @ \ {t}]
<1>1. /\ pc[p] = "link" /\ t \in job[p].drop /\ links' = [links EXCEPT ![s] = @ \ {t}]
      /\ job' = [job EXCEPT ![p] = new]
      /\ UNCHANGED <<page, pc, entered, overlapped, torn>>
  BY DEF Unlink, ghosts
<1>2. job[p] \in Full /\ s \in Slugs /\ job[p].target # s /\ s \in torn
  BY <1>0, <1>1, JobShape DEF SyncInv
<1>3. /\ new \in Full /\ new.slug = s /\ new.target = job[p].target /\ new.alone = job[p].alone
      /\ new.drop = job[p].drop \ {t} /\ new.add = job[p].add
  BY <1>2 DEF Full, Slug
<1>4. TypeOK'
  BY <1>0, <1>1, <1>2, <1>3, NoJobType DEF TypeOK
<1>5. JobInv'
  <2>1. new # NoJob
    BY <1>2, <1>3, NoneAssumption DEF NoJob
  <2>2. QED
    BY <1>0, <1>1, <1>2, <1>3, <2>1 DEF TypeOK, JobInv, Slug
<1>6. ReadInv'
  BY <1>0, <1>1 DEF TypeOK, ReadInv, Slug
<1>7. SyncInv'
  <2>1. Slug(p)' = s /\ job'[p] = new
        /\ \A q \in Calls \ {p} : job'[q] = job[q] /\ Slug(q)' = Slug(q)
    BY <1>0, <1>1, <1>3 DEF TypeOK, Slug
  <2>2. \A q \in Calls : Others(q, {"sync", "link"})' = Others(q, {"sync", "link"})
    BY <1>1, <2>1, <1>3 DEF Others
  <2>3. links'[s] = links[s] \ {t} /\ \A x \in Slugs \ {s} : links'[x] = links[x]
    BY <1>0, <1>1, <1>2 DEF TypeOK
  <2>4. links'[s] \ new.drop = links[s] \ job[p].drop
    BY <1>1, <1>3, <2>3
  <2>5. \A q \in Calls \ {p} : pc[q] = "link" /\ job[q].alone => Slug(q) \in Slugs \ {s}
    <3> SUFFICES ASSUME NEW q \in Calls \ {p}, pc[q] = "link", job[q].alone
                 PROVE  Slug(q) \in Slugs \ {s}
      OBVIOUS
    <3>1. Slug(q) \in Slugs /\ Others(q, {"sync", "link"}) = {}
      BY <1>0, JobShape DEF SyncInv
    <3>2. QED
      BY <1>1, <3>1 DEF Others
  <2>6. QED
    BY <1>0, <1>1, <1>3, <2>1, <2>2, <2>3, <2>4, <2>5 DEF SyncInv
<1>8. TextAndLinkAgree'
  BY <1>0, <1>1, <1>2 DEF TypeOK, TextAndLinkAgree
<1>9. QED
  BY <1>0, <1>1, <1>4, <1>5, <1>6, <1>7, <1>8 DEF Inv, SavedEntriesStay

\* The end of a sync that was alone: the one link is the text's.
LEMMA LinkInv ==
  ASSUME Inv, NEW p \in Calls, Link(p)
  PROVE  Inv'
<1>0. TypeOK /\ JobInv /\ ReadInv /\ SyncInv /\ SavedEntriesStay /\ TextAndLinkAgree
  BY DEF Inv
<1> DEFINE s == Slug(p)  t == job[p].target
<1>1. /\ pc[p] = "link" /\ job[p].drop = {} /\ pc' = [pc EXCEPT ![p] = "answer"]
      /\ links' = IF job[p].add THEN [links EXCEPT ![s] = @ \union {t}] ELSE links
      /\ torn' = IF job[p].alone THEN torn \ {s} ELSE torn
      /\ UNCHANGED <<page, job, entered, overlapped>>
  BY DEF Link, Goto
<1>2. job[p] \in Full /\ s \in Slugs /\ t # s /\ s \in torn
  BY <1>0, <1>1, JobShape DEF SyncInv
<1>3. \A x \in Slugs \ {s} : links'[x] = links[x]
  BY <1>0, <1>1 DEF TypeOK
<1>4. TypeOK' /\ JobInv' /\ ReadInv'
  <2>1. JobInv' /\ ReadInv'
    BY <1>0, <1>1 DEF TypeOK, JobInv, ReadInv, Slug
  <2>2. links' \in [Slugs -> SUBSET Pages]
    <3>1. CASE ~job[p].add
      BY <1>0, <1>1, <3>1 DEF TypeOK
    <3>2. CASE job[p].add
      <4>1. t \in Pages
        BY <1>0, <1>1, <1>2, <3>2 DEF SyncInv, Full
      <4>2. QED
        BY <1>0, <1>1, <1>2, <3>2, <4>1 DEF TypeOK
    <3>3. QED
      BY <3>1, <3>2
  <2>3. QED
    BY <1>0, <1>1, <2>1, <2>2 DEF TypeOK
<1>5. SyncInv'
  <2> SUFFICES ASSUME NEW q \in Calls, pc'[q] \in {"sync", "link"}
               PROVE  /\ Slug(q) \in torn'
                      /\ job[q].alone =>
                           /\ Others(q, {"sync", "link"})' = {}
                           /\ page[Slug(q)].sup = job[q].target
                      /\ pc'[q] = "link" /\ job[q].add => job[q].target # None
                      /\ pc'[q] = "link" /\ job[q].alone =>
                           links'[Slug(q)] \ job[q].drop =
                             IF job[q].add THEN {} ELSE {job[q].target} \ {None}
    BY <1>1 DEF SyncInv, Slug
  <2>1. q # p /\ pc[q] = pc'[q]
    BY <1>0, <1>1 DEF TypeOK
  <2>2. Slug(q) \in Slugs
    BY <1>0, <2>1, JobShape
  <2>3. job[q].alone \/ job[p].alone => Slug(q) # s
    BY <1>0, <1>1, <2>1 DEF SyncInv, Others
  <2>4. Others(q, {"sync", "link"})' \subseteq Others(q, {"sync", "link"})
    BY <1>0, <1>1 DEF TypeOK, Others, Slug
  <2>5. QED
    BY <1>0, <1>1, <1>3, <2>1, <2>2, <2>3, <2>4 DEF SyncInv
<1>6. TextAndLinkAgree'
  <2> SUFFICES ASSUME NEW x \in Slugs \ torn' PROVE links'[x] = {page[x].sup} \ {None}
    BY <1>1 DEF TextAndLinkAgree
  <2>1. CASE x # s
    BY <1>0, <1>1, <1>3, <2>1 DEF TextAndLinkAgree
  <2>2. CASE x = s
    <3>1. job[p].alone
      BY <1>1, <1>2, <2>2
    <3>2. page[s].sup = t /\ (job[p].add => t # None)
      BY <1>0, <1>1, <3>1 DEF SyncInv
    <3>3. links[s] = IF job[p].add THEN {} ELSE {t} \ {None}
      BY <1>0, <1>1, <3>1 DEF SyncInv
    <3>4. CASE job[p].add
      <4>1. links'[s] = links[s] \union {t}
        BY <1>0, <1>1, <1>2, <3>4 DEF TypeOK
      <4>2. QED
        BY <2>2, <3>2, <3>3, <3>4, <4>1
    <3>5. CASE ~job[p].add
      BY <1>1, <2>2, <3>2, <3>3, <3>5
    <3>6. QED
      BY <3>4, <3>5
  <2>3. QED
    BY <2>1, <2>2
<1>7. QED
  BY <1>0, <1>1, <1>4, <1>5, <1>6 DEF Inv, SavedEntriesStay

\* A request that ends, anywhere, leaves the pages as they are.
LEMMA ReturnInv ==
  ASSUME Inv, NEW p \in Calls, Return(p), UNCHANGED <<page, links, ghosts>>
  PROVE  Inv'
<1>0. TypeOK /\ JobInv /\ ReadInv /\ SyncInv /\ SavedEntriesStay /\ TextAndLinkAgree
  BY DEF Inv
<1>1. /\ pc' = [pc EXCEPT ![p] = "idle"] /\ job' = [job EXCEPT ![p] = NoJob]
      /\ UNCHANGED <<page, links, entered, overlapped, torn>>
  BY DEF Return, Goto, ghosts
<1>2. TypeOK'
  BY <1>0, <1>1, NoJobType DEF TypeOK
<1>3. JobInv' /\ ReadInv'
  BY <1>0, <1>1 DEF TypeOK, JobInv, ReadInv, Slug
<1>4. SyncInv'
  <2>1. pc'[p] = "idle"
        /\ \A q \in Calls \ {p} : job'[q] = job[q] /\ pc'[q] = pc[q] /\ Slug(q)' = Slug(q)
    BY <1>0, <1>1 DEF TypeOK, Slug
  <2>2. \A q \in Calls \ {p} : Others(q, {"sync", "link"})' \subseteq Others(q, {"sync", "link"})
    BY <2>1 DEF Others
  <2>3. QED
    BY <1>0, <1>1, <2>1, <2>2 DEF SyncInv
<1>5. QED
  BY <1>0, <1>1, <1>2, <1>3, <1>4 DEF Inv, SavedEntriesStay, TextAndLinkAgree

LEMMA NextInv == Inv /\ [Next]_vars => Inv'
<1> SUFFICES ASSUME Inv, [Next]_vars PROVE Inv'
  OBVIOUS
<1>1. CASE UNCHANGED vars
  BY <1>1 DEF vars, Inv, TypeOK, JobInv, ReadInv, SyncInv, Slug, Others, SavedEntriesStay,
              TextAndLinkAgree
<1>2. CASE Next
  <2>1. PICK p \in Calls : Request(p)
    BY <1>2 DEF Next
  <2>2. CASE \E op \in {"create", "update"}, s \in Slugs, e \in Entries \union {None},
                t \in Pages \union {None} : Begin(p, op, s, e, t)
    BY <2>2, BeginInv
  <2>3. CASE \E t \in Pages : Unlink(p, t)
    BY <2>3, UnlinkInv
  <2>4. CASE Look(p) \/ LookTarget(p) \/ Put(p) \/ ReadLinks(p) \/ Link(p)
    BY <2>4, LookInv, LookTargetInv, PutInv, ReadLinksInv, LinkInv
  <2>5. CASE Answer(p) \/ Fails(p)
    BY <2>5, ReturnInv DEF Answer, Fails
  <2>6. QED
    BY <2>1, <2>2, <2>3, <2>4, <2>5 DEF Request
<1>3. QED
  BY <1>1, <1>2

-----------------------------------------------------------------------------
\* The inductive invariant holds in every reachable state (Create, Update,
\* Put, syncStateLink).
THEOREM Safety == Spec => []Inv
  BY InitInv, NextInv, PTL DEF Spec

\* Every variable keeps its type; a page's text never names the page itself as
\* what supersedes it (validateTarget).
THEOREM TypeCorrect == Spec => []TypeOK
  BY Safety, PTL DEF Inv

\* No save loses an entry of a page's timeline but one that overlaps the save
\* that made it (Update 134-160).
THEOREM EntriesStay == Spec => []SavedEntriesStay
  BY Safety, PTL DEF Inv

\* A page's text and its link agree after every undisturbed sync, whatever
\* failed before (Put, syncStateLink).
THEOREM LinksFollowText == Spec => []TextAndLinkAgree
  BY Safety, PTL DEF Inv
=============================================================================
