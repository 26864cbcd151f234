# TLA+ verification of brainhub

brainhub is a Go API with a React front end that puts accounts, membership and
sharing on top of GBrain, a separate server that holds the "brains" (sources of
pages) and its own OAuth clients. Three systems keep state that must agree:
brainhub's Postgres, GBrain's client registry and the Go process's memory. No
transaction spans them (docs/domain.md, 10-24). Most of what can go wrong here is
a step of one system that another does not hear of, and that is what the
modules in this directory are about.

Contents: [the system](#the-system), [the modules](#the-modules),
[the runs](#the-runs), [fairness](#fairness), [the proofs](#the-proofs),
[what the checks found](#what-the-checks-found),
[what is not modelled](#what-is-not-modelled), [the plan](#the-plan).

## The system

Paths are below `src/api/` unless they say otherwise.

| Component | State | Operations | What makes it correct |
|---|---|---|---|
| **Reader scope** (`adapter/gbrain/reader_service.go`, `usecase/interactor/mcp.go` 199-262) | `brainhub_reader_clients`, the reader client's grant in GBrain, the cached client and bearer token, one mutex | AuthorizeCall, ReissueReader, ReconcileReaders | A forwarded MCP call reaches exactly the brains its user saw when it was authorised; no reader key is lost |
| **Access** (`usecase/interactor/access.go`) | `memberships`, `invitations`, `issued_clients`, the issued clients in GBrain | Create/Revoke/AcceptInvitation, IssueClient, RevokeClient, RevokeMembership, ArchiveBrain | One member per invitation, a removed member stays out and has no key, every live key is on record |
| **Brain lifecycle** (`usecase/interactor/brain.go`) | `brains` | Create, Adopt, ReissueWriter, (ArchiveBrain) | A ready brain has a source and a writer; archived, deleted and failed brains do not come back |
| **Writer service** (`adapter/gbrain/writer_service.go`, `page_writer.go` 44-60) | `brain_writer_clients`, the writer client in GBrain, cached clients, one mutex | Provision, Reissue, Backfill, writerClient | Every live writer key is on record; pages are written with the current one |
| **OAuth and CLI tokens** (`usecase/interactor/mcp.go` 70-197, `repository/mcp.go` 19-261) | `mcp_clients`, `mcp_authorization_codes`, `mcp_tokens` | issue, approve, exchange, refresh, revoke, verify | A code and a refresh token are used once; a revoked grant has no live token |
| **Page editor** (`usecase/interactor/page.go`, `adapter/gbrain/page_writer.go`) | pages and links in GBrain | Create, Update | An entry of a page's timeline is lost to nothing but an overlapping save; the page's text and its link agree |
| **GBrain clients** (`adapter/gbrain/client.go`, `admin_client.go`) | bearer token, token endpoint, admin session cookie | callMCP, List, Get; Register, Revoke, RescopeClient | A call is executed at most once; a 401 is retried once with another token, and a good token is not thrown away |
| **Accounts** (`usecase/interactor/auth.go`, `adapter/authentication`, `api/middleware/session.go`) | `users`, `auth_identities`, `sessions`, the login limiter's windows | Register, Login, Authenticate, Logout | The attempts of a key are bounded, and nobody is refused without them; an ended session or a suspended user is not served |
| **Source shim** (`shim/main.go`, `adapter/gbrain/source_cli.go`) | the source's directory, GBrain's source list | create | Once nothing is under way, a source is on the disk and registered, or neither |
| Proxy, cipher, router, handlers, schema, constructors, validation, config, migrations | none of their own | | |
| Web front end (`src/web`) | none that must agree with another part's | | |

How they interact:

- `main.go` runs `WriterService.Backfill` (54), then `ReconcileReaders` (101), then
  serves. The errors of both are only logged.
- `brainUseCase.Create` commits the brain, its owner's membership and an issuing
  writer row in one transaction, asks the shim for the source, the writer service
  for a writer key (GBrain admin API), and then settles `brains.state`.
- An MCP call is authorised by `VerifyMCPAccessToken`, gets its list from
  `ListMCPVisibleBrains` (brains joined with memberships) and its upstream token
  from `ReaderService.AccessToken`, and is then forwarded by the proxy.
- Access reads `brains` and calls the GBrain admin API; archiving a brain revokes
  its issued keys first and changes `brains` last.

Hard behaviours: requests of one user or one brain interleave between statements
(Postgres at READ COMMITTED decides by WHERE clauses and UNIQUE constraints only);
a request's context is cancelled when its client hangs up, which makes every
further statement of it fail, the compensating ones included; GBrain's answers may
be lost; the process may stop anywhere. `PROJECT.json` lists the places under
"hazards".

## The modules

All modules share one style. A request is a process with a program counter `pc` and
a record `job` of what it has read; each statement, each transaction and each call
to GBrain is one action. An action named after an operation is its success,
the same name with `Fails`, `Lost` or `Refused` the failures the code tells apart.
Where GBrain is asked to do something, the failure has two outcomes: with and without the
effect. A failing statement has no effect. `Restart` clears what lives in memory, at
any point, and leaves the database and GBrain alone. History variables (`stray`,
`interrupted`, `lost`, `late`, `dropped`, `crossed`, `cut`, `reissued`, `ended`, `overlapped`, `torn`, `unsure`,
`left`, `tries`) are never read by a guard; they record that one of the named failures, or an
overlap of two requests, has happened, so that a property can say exactly in which cases the code
gives up what it otherwise guarantees.

**ReaderScope** models one reader row per user. `Begin` is the unlocked read
of the visible list (mcp.go 210, 239), `Enter*` what happens when `mu` is taken (ensure's
switch and Reissue's checks), `Register`, `Activated`, `Undone`, `Marked` are
`provision` and its compensation, `Rescoped` and `Persisted` are ensure 86-105, `Token*`
is clientFor and BearerToken, `Forward` the proxied call. `BootVisit` and `BootDone` are
ReconcileReaders; `phase` keeps requests out until it has returned. `Join`, `Leave` and
`BrainStep` are what the other components do to the visible list. `row.fed` is
`federated_read`, `gb[i].grant` what GBrain enforces, `cache[u].reach` what the cached
bearer token was issued for. A token is taken to keep the reach it was issued with, as
the comment at reader_service.go 94 assumes.

**Access** models one brain. `Begin*` are the checks a request makes before it acts,
each later action one statement or call. `brain` moves only as far as Access can see:
`Settle` is the end of the creation. `via` in a membership is a history field naming the
invitation it came from, `listed` in a request one naming the keys revokeClients was called for. `Delete` stands for DeleteFailedBrain and its cascade.

**BrainLifecycle** models the successive `brains` rows of one source id. `CreateRecords`
is the transaction, `Provisioned` the shim, `Lock` to `MarkFails` WriterService.provision
under its mutex, `Relock` to `ResetFails` Reissue, `Provide` what each caller does with the
result, `Transition` the WHERE clause of TransitionBrain. `UseWriter` is a page request that
caches the writer's client. `SourceAppears` is the one late effect that is modelled: the shim
registers a source after its caller has given up.

**OAuthTokens** models the three tables of brainhub's own OAuth server. `Consume` is the
single statement that uses a code up, `Rotate`, `Insert` and `Commit` the transaction of a
rotation, `Insert` and `Commit` alone that of an exchange. What a transaction writes
is visible at `Commit`; until then `Held` keeps others from the row it updated.
`BeginRevoke` takes the snapshot of RevokeMCPToken's UPDATE and `RevokeDone` is its
end, after the rows of the snapshot are free. `pair[i]` is an access and a
refresh token that were inserted together; `from`, the code they descend from, is a history field
(the tables do not keep it). `Suspend` changes `users.state` from outside: no code
of the repository does. `VerifyMCPAccessToken` only reads; what it accepts are the live and
unexpired access and CLI tokens of active users.

**Upstream** models what is below every call to GBrain: the bearer token of a `Client`, the
session cookie of the `AdminClient`, the mutex each holds across a fetch, and the retry after
a 401. `Begin` is the start of callMCP or doJSON, `UseCached` to `FetchFails` are token and
adminSession (which fetches anew for a second attempt: `Forced`), `Unauthorized` and `Invalidate`
the first 401, `CallFails` every other failure. `Executed` and `Die` are GBrain's.
`Clear` is what ReaderScope's rescope does to the reader's client.

**RemoteCall** is the abstract specification of one call as its caller may use it: executed
at most once, executed if it succeeds, and either if it fails. Upstream implements it
(`Remote == INSTANCE RemoteCall WITH ...`, the property `OneEffect`): `phase` is "open" while the call
has a program counter and its answer afterwards, `effect` the number of executions. The other modules'
actions on GBrain rely on exactly this: a success has the effect, a failure may have it. They
go one step further, and let the effect of a failed call come before its failure is
noticed; only the shim's, which takes longest, may come later (`SourceAppears`).

**KeyRing** is the other abstract specification: what brainhub owes a key it has GBrain make. A key is
"unmade", then "held" by the request that made it, then "named" by a row; it becomes "lost" only by a failure or with the
row that named it, and "dead" when GBrain revokes it. What is lost is not found
again, and what is dead stays so. ReaderScope, Access and BrainLifecycle implement it, each for its own rows
(`Ring == INSTANCE KeyRing WITH ...`, the property `KeysOnRing`): the mapping `KeyState` reads GBrain's registry first, then the
history of lost ids, then the row (`RowNames`), then the requests in hand (`InHand`). A live key that is in
none of these would be "adrift", a value KeyRing does not have.

**PageEditor** models the pages of one brain. `Look`, `LookTarget`, `Put`, `ReadLinks`, `Unlink`,
`Link` and `Answer` are the GBrain calls of Create and Update in their order; `timeline` in a job is
what `Look` has read, and `Put` writes it back with the entry added. Timelines are sets of entries:
what matters is which of them a page still has. `sup` is the `superseded_by` of the page's text, `links`
the brainhub-web edges that syncStateLink is to bring in line with it. `Fails` stands at every point.

**SourceShim** models the handler's work on one source id. `dir` is the directory, `reg` GBrain's
list, and the two together are what a source is. `Mkdir` is exclusive, as os.Mkdir is;
`Undo` is the deferred clean-up, `HangUp` the client's deadline, which cancels the handler's context.
The four commands are two steps, git's and GBrain's, since only the last has an effect outside
the directory. `told` is what ShimClient.Provision has returned.

**Accounts** models accounts, sessions and the login limiter with a clock of a few moments. `BeginLogin` reads
the clock, `Allowed` and `Refused` are Allow under its mutex with the clean-up inside (`Swept`),
`Check`, `CreateSession` and `Reset` the rest of a login; `Verify` and `FindUser` are Authenticate's two
reads and `Serve` what the session middleware lets through. `Lag` bounds how late an attempt reaches
the limiter after it has read the clock. `tries` remembers how many
attempts were admitted at each moment or later, so that a span's attempts are one subtraction (`Tried`).

Each component has an **MC** module that adds the symmetry sets and named values, and `.cfg` files
that hold the instances, and a module of the same name ending in `_proofs` with its theorems: **ReaderScope**,
**Access**, **BrainLifecycle**, **OAuthTokens**, **Upstream**, **PageEditor**, **SourceShim**, **Accounts**.

Abstractions shared by all of them. Requests that are refused without a state change
are left out when nothing depends on the refusal. Reads with nothing but other reads
between them are one step. Names, labels, scopes and reasons are dropped, and times but in Accounts; expiry is a
flag that falls once. Encryption matters only in that decrypting may fail. Operators called
`Mutant_...` are not part of any specification: each is the definition that follows it with a
plausible mistake, and is used to show that a property notices it.

## The runs

| Run | Instance | Question |
|---|---|---|
| reader_scope | 1 user, 2 private brains, 2 requests and the start-up pass, 2 GBrain ids (709,047 states) | Do row, grant, cache and forwarded token agree, and is the mutex always given back, through failures and restarts; is a reader's key KeyRing's? |
| reader_fails_closed | 1 user, 2 brains, 1 request, 1 id | Is a call never forwarded with a wider token? (violated) |
| access_people | 3 users, 2 invitations of any role and addressee, 2 requests, no keys (602,205 states) | Invitations, memberships, and whether a brain keeps an owner |
| access_keys | 2 users (an owner, a member), 2 keys, 2 requests (1,353,365 states) | Keys against removal, archive, deletion and each other, and as KeyRing's; is every key revoked that a removal found? |
| access_race | the same with 1 key | Has a removed member no key? (violated) |
| brain_lifecycle | 2 brains of one source id, 2 requests and the backfill, 3 ids (356,471 states) | Brain states, the writers and their keys as KeyRing's, the writer cache |
| brain_failed | 1 brain, 1 id | What becomes of a failed brain? (violated) |
| oauth_tokens | 2 users, 2 codes, 3 pairs, 1 CLI token, 2 requests (1,172,193 states) | Single use, one refresh token per approval, what a revocation reaches |
| upstream | an MCP client and the admin client, 2 calls, 2 tokens (84,624 states) | Is every call executed at most once, retried with another token, and does it end? |
| page_editor | 1 page, 2 pages to link to, 2 entries, 3 requests (1,275,344 states) | What can lose a timeline entry, and when do text and link agree? |
| source_shim | 3 requests for one id (826 states) | Are directory and registration there together or not at all? |
| accounts | 1 account, 2 sessions, 2 requests, limit 2, window 4, 7 moments, lag 1 (1,220,212 states) | How many attempts are admitted, which are refused, and who is served? |

The state counts are after symmetry reduction; requests, ids, rows, pages, entries and brains of one
visibility are interchangeable. KeyRing treats its keys
alike, so that the refinement can be checked under that symmetry; `upstream` checks liveness and uses none.

Why the bounds are enough to show the interesting cases. `Ids` and `Clients` bound the
registrations ever made, so two of them allow an old and a new key of one row, a lost
and a recorded one; the lifecycle has three, for two brains and a reissue. Two requests
are a pair of competing operations of any kinds, and with `Restart` and the start-up
pass a third actor. `reader_scope` has one user because a row, a grant and a cache entry
belong to one user each and the mutex is the only thing two users share; the theorems
cover any number. Its brains are private, since a public one only makes the visible list
change in fewer ways; the theorems cover every choice of `Public`. `oauth_tokens`
has three pairs, so that a chain can rotate twice, or one rotate while the other exists.
`upstream` has two tokens over two connections: a call can be refused with the first and retried
with the second while another call shares its connection, and the theorems cover any
number. `page_editor` needs a third request to fail or to stop between two overlapping ones; two
entries suffice for one to be lost to the other, two targets for an old link and a new one, and pages do not
share anything. `source_shim` needs a creation, its rival, and a later one. `accounts` has moments for a
whole window and the beginning of the next, and a limit of two, so that the last attempt admitted
is not the first. One account suffices for the limiter, whose keys share only the time of the last
clean-up; `Elsewhere` is a clean-up caused by another key. Deadlock is checked in every run.

The lists a call is authorised for are re-read by every request, and `Leave` can empty them,
so growth, shrinkage, incomparable and empty lists all occur in `reader_scope`.

## Fairness

Only `CallsEnd` of the run `upstream` needs it. Every step of a call is weakly fair: the
HTTP clients of both connections have a deadline of 15 seconds (client.go 123, admin_client.go 48), so discovery, a
fetch and a call end, in an answer or in an error. The steps that take the mutex (`Locks`) are
strongly fair: other calls may take it again and again, and Go's `sync.Mutex` passes the lock
to a waiter that has waited for a millisecond. Nothing is assumed of `Begin`, of
`Restart`, of the tokens' life or of GBrain. A restart ends the calls it hits, which counts as
their end. That the reader's mutex is given back on every path is the invariant `MutexInv`, which
needs no fairness.

## The proofs

Eight modules hold proofs, one per component. Each proves `Safety`, `Spec => []Inv` for an inductive
invariant `Inv` that stands at the end of the component's module (`IndInv` in Access), and from it, for every
value of the constants, the properties the runs check on small ones. The assumptions are those the modules
state: that the sets of names are disjoint and that `None` is nothing else.

The proof modules have one form. The invariants are split into parts that speak of one user, brain, row or
key (`InvParts`); a few frame lemmas say which parts a step keeps if it touches only what is its
own (`Others`, `Frame`, `KeyStep`); then comes one lemma per action, and at the end the temporal steps.

### Reader scope

`ReaderScope_proofs.tla` proves, for every `Users`, `Sources`, `Public`, `Calls` and `Ids`
that satisfy the assumptions (`Public` are sources, `Boot` is not a call, `None` is nothing
else):

| Theorem | Statement |
|---|---|
| Safety | `Spec => []Inv` |
| TypeCorrect, MutexIsReleased, GrantIsRecorded, TokensAreScoped, CachedTokensAreCurrent | the invariants the run `reader_scope` checks |
| KeysAreAccounted | no live reader key is adrift (`EveryKeyAccounted`, a part of `Inv` that `KeysOnRing` implies) |
| OldReaderIsRevoked | the action property `ReissueRevokesFirst` |
| ReaderScopeImplementsKeyRing | `Spec => KeysOnRing` |

The properties of grants, keys and tokens are not inductive. Whether a rescope may be recorded depends on
what its request knew when it took the mutex, so `Inv` adds what each point of the
critical section knows:

- `MutexInv`: a request is at a critical point exactly when it holds the lock. Two holders
  are thus one, and a step of a request cannot disturb what another one knows.
- `JobInv`: a request that is not idle has a job, and holds an unrecorded client id only
  between a registration or a rescope and its record.
- `RowInv`: a row's id names a client that has been made, whose owner, while it lives, is the
  row's user; an active row's client is live. Two rows hence cannot share a live client.
- `HolderInv`: the state of the row, of the client at hand and of the cache at each label.

The argument per step: a step of the holder changes its own user's row, client and cache
entry, for which `HolderInv` gives the new facts; for every other user, `RowInv` says that
the client touched is not theirs. A step outside the lock changes neither rows nor clients.
`Restart` moves the facts of the holder into `stray` and `interrupted`.
`ReissueRevokesFirst` follows from `HolderInv` at the label `reset`.

The file has one lemma per action for each part of `Inv`, preceded by lemmas on the record
sets; the temporal steps are at its end.

### Access

`Access_proofs.tla` proves, for every set of users, invitations, issued clients and requests and every choice of
founder, early members and offers:

| Theorem | Statement |
|---|---|
| Safety | `Spec => []IndInv` |
| TypeCorrect, InvitationsLetInOne, BrainsKeepAnOwner | the invariants of the run `access_people` |
| RevocationIsTrue, RemovalReachesKeys | those of the run `access_keys` |
| KeysAreNamed | `Spec => []EveryKeyNamed`, the part of `IndInv` that no live key is adrift; `KeysOnRing` implies it |
| RevocationsAreComplete | the action property `RevocationsComplete` of the run `access_keys` |
| AnswersStand, RemovalIsFinal | the action properties `InvitationAnsweredOnce`, `RemovedForGood` |
| AccessImplementsKeyRing | `Spec => KeysOnRing` |

There is no mutex here, so everything rests on what a request may still believe after others have moved:

- `JobInv`: what a request has at hand at each label. A request that revokes has found a row whose key is
  recorded, and a recorded key stays recorded; a request about to write "revoked" has had GBrain's
  confirmation, and a revoked key does not come back.
- `MakerInv`: the row of a key whose id is not recorded is its maker's alone. Whoever else is at a
  key has found a recorded one, so only the deletion of the brain can touch the maker's row. At the label
  `activate` the member was active when looked at, or is in `late` since.
- `OneMaker`: two requests never make the key of one row.
- a row that was not inserted has no key.

`EveryKeyNamed` is not inductive without `MakerInv` (a second writer could overwrite the row of a key in the
making), and `RemovedMembersKeys` needs both: `Leave` puts every key of its user into its own debt
(`Owed`) before anything is listed, and `List` drops only rows that are not active, which no later step but the
maker's activation makes so. `SomeOwner` follows from one fact about `Leave`: the one who
removes is not the one removed, so an owner remains unless that owner has lost the right already.

`RevocationsComplete` rests on a second invariant, `ListedInv`: each key a loop found is still to be done, at hand, or
`Done` (revoked in GBrain and in its row), unless a failure is remembered; and an archive goes on only with nothing
left and no failure. The step that matters is another request's: it may revoke the same key, mark its row, or delete the
brain between two iterations, and `NextDone` says that none of this takes `Done` from a key. `IndInv` is needed there: a
registration finds its key unused (`MakerInv`), and what is recorded as revoked was confirmed (`JobInv`).

### Brain lifecycle

`BrainLifecycle_proofs.tla` proves, for every number of brains, requests and client ids, `Safety`, the invariants
of the run `brain_lifecycle` (TypeCorrect, CreationSettles, CacheIsCurrent, ReadyBrainsAreBacked), its action
property (NothingIsRevived, `NoRevival`) and its refinement (BrainLifecycleImplementsKeyRing); WritersAreNamed is the part
of `Inv` that no live writer key is adrift, which the refinement implies. The properties are not inductive: `HolderInv`
adds what the holder of `WriterService.mu` knows at each label of provision and Reissue (the
cache is empty, the row names the client in hand or none), `RequestInv` who holds the mutex and where
the source is known to exist, and `BrainInv` that a row's id names a client made for that brain and
that a `ready` brain is `Backed`. `Backed` is what a request carries from the writer to its transition, outside
the mutex: the brain has an active writer, or a reissue has begun, or it is deleted; no step of another
request takes that away. `NoRevival` needs of the invariant only the types: it is in the guards of `Transition`,
`Archive` and `Delete`.

### KeyRing

The three refinement proofs have one form. `EveryKeyAccounted`, `EveryKeyNamed` and `EveryWriterNamed` say that no key is
adrift, so that a key's state is decided by GBrain's registry, the lost ids and the row alone (`Phase`, `PhaseNow`): the request
that holds it need not be named, and a step of one request does not have to look at the
others. `Untouched` is a key whose status, loss and row a step keeps; `QuietStep`, `OneStep` and `LoseStep` say that a step that touches
no key, moves one key along the ring, or loses a set of keys is a step of KeyRing or a stutter, and one
lemma per action finds out which. What that needs besides the invariants:

- only a key that was made can be lost (`StrayInv`; in Access `MadeInv`, which adds that what a row names or a
  request is about to record or revoke was made). Otherwise a registration could turn a lost key into a held one.
- an action that overwrites a row's id finds it empty, dead, or equal to the one it writes (`HolderInv` at the labels
  `activate`, `mark` and `reset`; `MakerInv` in Access). Otherwise a named key would be lost without a failure.

`Restart` and `MarkFails` are `Lose` of what is at hand and not recorded, `Delete` that of the keys whose rows it
deletes. `MadeInv`, `ListedInv` and `StrayInv` were model-checked on the instances of `access_keys`, `reader_scope` and `brain_lifecycle`
before they were proved.

### OAuth tokens

`OAuthTokens_proofs.tla` proves, for every number of users, codes, pairs, CLI tokens and requests, `Safety` and the three
invariants of the run `oauth_tokens` (TypeCorrect, OneRefreshToken, RevocationEnds). A grant is the chain of pairs that
descend from one code, and several statements of several requests write to it. `OneTransaction` says that
at most one of them is between its first statement and its commit, `TransactionInv` what that one relies on (an
exchange: that nothing descends from its code yet; a rotation: that its refresh token is the live one), and
`RevocationInv` that a revocation under way has seen every live pair of its user but those of the chains in
`late`. At most one live refresh token, as a count, becomes "any two are equal" (`GrantInv`).

### Upstream and RemoteCall

`Upstream_proofs.tla` proves, for every set of connections and calls and every number of tokens
(assumed: `Admin` are connections, `Fetches` is a natural number, `None` is nothing else):

| Theorem | Statement |
|---|---|
| Safety | `Spec => []Inv` |
| TypeCorrect, RetriesUseNewTokens | the invariants of the run `upstream` |
| GoodTokensAreKept | the action property `GoodTokenKept` |
| UpstreamImplementsRemoteCall | `Spec => Remote!Spec` |

`RetryHasNewToken` needs to know that the refused token cannot come back: `TokenInv` says that tokens are
numbered in the order they are made and a refused one is not valid, `CallInv` that during a
second attempt the refused token is not cached, and what a call knows at each label. `GoodTokenKept` needs
`LockInv`: who fetches holds the connection's mutex, and a `Client` fetches only when nothing cached has
time left. The refinement is one step lemma: `CallInv` says that a call has not been executed before it waits for
its answer, and has then been executed once, so that `Executed` is `TakeEffect`, the ends are `Succeed` and
`Fail`, and everything else, the retry included, stutters. `Restart` is `Fail` of all open calls at once.

### Source shim

`SourceShim_proofs.tla` proves, for any number of requests, `Safety` (`Spec => []Inv`) and from it
the three invariants of the run `source_shim` (OneMaker, CreatedSourcesAreComplete, CreationIsAllOrNothing). The
invariant adds what a request in hand of the directory knows (`HandInv`), that no request has it in hand
once a source was created, and that a source in the making is in no list (`ListInv`) unless a registration was
misreported before.

### Page editor

`PageEditor_proofs.tla` proves, for every set of pages, entries and requests, `Safety` and from it the three
invariants of the run `page_editor` (TypeCorrect, EntriesStay, LinksFollowText). `SavedEntriesStay` is not inductive:
`ReadInv` adds that a request on its way from the read to the put has read every entry not recorded as
overlapped, which every other put keeps true by recording its own entry. `TextAndLinkAgree` rests on
`SyncInv`: a page is torn while anybody is between its put and the end of the sync; who is alone there
knows the text, and at the end which links are left once those in `drop` are gone.

### Accounts

`Accounts_proofs.tla` proves, for any number of accounts, sessions and requests and every limit, window and clock,
`Safety`, TypeCorrect and BarredStaysOut. `BarredIsOut` needs `BarredInv`: a request that was barred when it began
can only get past the first read because its session had not ended, and so its user was the
reason; ended sessions and users who are not active never come back. `SessionInv` adds that a session's user
exists, since an address that is not registered yet may become active.

A second inductive invariant, `LimiterInv` (LimiterSafety), is about the limiter, for every limit, window length and lag, and
gives AttemptsAreBounded and RefusalsAreJustified. It compares the window with the history `tries`:

- `ClockInv`: an attempt reaches the limiter with a clock at most `Lag` behind. So a span of `Span` moments
  (a window less two lags) is closed once the clock is a lag past its end (`Open`), and what it holds is final.
- `RecordInv`: nothing is recorded in the future, what is recorded from a moment on does not
  grow with the moment, and a span holds fewer than two limits.
- `WindowInv`: the window's `n` attempts are recorded from its start less the lag on, fewer than `n` are
  later than its start and the lag (its first is not), and an open span holds fewer than
  `Limit + n`: what the previous window left, and the window's own.
- `NoWindowInv`: a key without a window, swept or reset, has left fewer than `Limit` in the open spans.

The crux is the attempt that opens a window when the old one is over. The old start is then a whole window
before the attempt's clock, so an open span begins more than `Lag` after the old start and holds fewer than the
old window's `n <= Limit` attempts: this is where the two lags in `Span` come from. A refusal needs the other
half: the window is not over and its count is `Limit`, all recorded since its start less the lag.

### Model-checked only

`CallsEnd` of the run `upstream`, since liveness is outside the provers' reach, and the three statements that do not
hold. Every other property of a passing run is a theorem, for every value of the constants.

## What the checks found

Three statements of the repository's documents do not hold of the code; `PROJECT.json`
quotes them under "findings", with the lines.

- `FailsClosed` (reader_service.go 98): a rescope that is neither recorded nor
  marked, because the request was cancelled, leaves a row that states a list GBrain
  no longer enforces. `GrantRecorded` and `TokenScopedToCall` hold with exactly this exception.
- `RemovedMembersHaveNoKeys` (access.go 253-256): a membership revoked between the second
  look and the activation leaves an active key. `RemovedMembersKeys` holds with exactly this
  exception and those of failed revocations.
- `FailedIsDeleted` (access.go 347): the brain's state is read before the keys are revoked.

Limits of the code that contradict no document. Where one concerns a property, it is part of it:

- `/revoke` reaches the tokens its statement sees. A rotation or an exchange that commits while it
  runs leaves its new pair alive (`late` in `RevocationEndsGrants`).
- Deleting a failed brain deletes the row of its writer, which a reissue or the backfill may have
  provisioned; the key stays valid in GBrain (`Delete` in BrainLifecycle adds it to `stray`).
- Two owners can remove each other, and the brain is left without one (`crossed` in `SomeOwner`).
- A save that overlaps another one of the same page replaces its timeline (`overlapped` in `SavedEntriesStay`).
  docs/gbrain-contract.md acknowledges it: put_page takes no version.
- A failure between put_page and the link leaves text and link apart until the next complete save (`torn` in
  `TextAndLinkAgree`). GetEditable shows the link, and shows no target where there is no link, whatever the
  text says.
- The limiter's windows are fixed, so up to `2 * Limit - 1` attempts fit into the time of one
  (`AttemptsBounded` states it).
- A registration that is reported as failed, by a lost audit line or a deadline, leaves a source in
  GBrain without a directory (`unsure` in `AllOrNothing`); the id is then refused.
- A second attempt of the AdminClient logs in anew even if another call has just done so, and
  replaces that cookie; `GoodTokenKept` is about the `Client` only.

## What is not modelled

- A single statement that commits and whose answer is then lost. Every other position of a
  failure is covered.
- GBrain itself: a registry of clients with an owner, a grant and a status, and its source
  list. Its tokens are taken to keep the reach they were issued with.
- Pure parts: constructors, validation, the cipher, decoding, status codes, rendering.
- The front end, scripts, docker files and configuration.
- Reading: lists, previews, the verification of tokens, the pages shown to readers. Nothing is decided from
  them later. The paging of `List` may miss a page that moves while it is read.
- Pages changed by others than the web editor, their text, types and tags.
- An effect of a call that comes after its caller has been told of the failure, but for the shim's.
- `RevokeAllByUser`, which nothing calls.

## The plan

Done, in this order: ReaderScope with its runs and proofs; Access; BrainLifecycle; OAuthTokens; Upstream
with RemoteCall, the refinement and its proofs; PageEditor, SourceShim and Accounts with theirs; the proofs of
OAuthTokens, BrainLifecycle, Access and the limiter of Accounts; KeyRing and its three refinements.

Next:

1. An abstract specification *Grant* (a user, a list, calls that reach it), implemented by ReaderScope with the
   exceptions `interrupted` and `sure` made explicit.
2. Late effects of GBrain's calls in ReaderScope and Access, as BrainLifecycle has for the shim.
