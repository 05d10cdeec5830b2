# A TLA+ model of dot.locker

This directory holds TLA+ specifications of dot.locker's server and clients,
TLC configurations that check them on small instances, and TLAPS proofs of
their main properties. Every definition is read off the source; `PROJECT.json`
maps each one to the lines it stands for, lists the runs, the mutants that show
each property can fail, the hazards of the code and the theorems.

    tlc -config MCServerMirror.cfg MCServerFiles.tla     # check one run
    tlapm RuntimeServer_proofs.tla                       # check one proof module

## 1. The system

dot.locker stores files for *runtimes* (`org/repo/runtime`). A client pushes a
complete tree of files; the server keeps every pushed tree as an immutable,
content-addressed *version* and a *head* per runtime.

| Component | State | Operations | Talks to |
|---|---|---|---|
| Object store (`object-store.ts`, `files.ts`) | immutable blobs by SHA-256, mutable files by path | read, write, writeBlob, readBlob, delete, list | disk or S3 |
| File records (`file-records.ts`, table `file_records`; `public_files`) | one row per path, tombstones, published paths | upsert, mark deleted, list, publish, unpublish | database |
| Runtime versions (`runtime-versions.ts`) | `runtime_versions`, `runtime_version_files`, `runtime_heads` | commit (compare and swap), head, head file, list | SQLite |
| PostgreSQL metadata store (`metadata-store.ts`) | the same tables | the same, as awaited commands | PostgreSQL |
| HTTP server (`http.ts`) | requests in flight | versions, objects, files, public files, resolve; sessions, tokens, users, grants, webhooks | all of the above |
| Auth store (`auth-store.ts`, `tokens.ts`, `grants.ts`, `users.ts`, `keyname.ts`) | users, orgs, grants, tokens | mint, verify, revoke, switch org, grant, link identity, bootstrap | database, Keyname |
| Webhooks and audit (`webhooks.ts`, `audit.ts`) | endpoints, deliveries, audit rows | create, change, delete, list; queue on audit, deliver | SQLite, HTTP |
| Services (`services.ts`) | registered request sources | register, match a source | SQLite |
| Server command line (`server/src/cli.ts`), migration (`migrate-sqlite-to-postgres.ts`) | none of their own | org, user, service, token and grant commands; copy the tables, verify the counts | the SQLite file, PostgreSQL |
| Client CLI (`cli.ts`, `http.ts`, `config.ts`) | local files, configuration | push, pull, sync, stage, exec, init, login, status, versions, capabilities | HTTP server |
| Web UI (`runtime-releases.tsx` and other pages) | file records and versions as loaded | create snapshot, restore, single-file edits | HTTP server |
| Shared (`path.ts`, `scope.ts`) | none | path normalisation, scope matching | all |

What is hard in it:

* every `await` of a handler lets other requests run, so handlers interleave
  call by call over the object store, the records and the version tables;
* a push is long: the client reads the head, uploads blobs one by one, and only
  then commits; the web UI commits file records it loaded any time before;
* after the commit the tree is copied ("mirrored") into the mutable files and
  records, one call at a time, outside any transaction;
* the process may stop, and any call may throw, between two calls;
* with PostgreSQL the commit transaction itself interleaves with others, and so
  do the commands of the account store;
* the auth hook hands every handler a copy of its token; grants, the token's row
  and its org may change before the handler uses it;
* a sign-in takes up to eight calls, from finding the user to retiring the
  session before; the first one makes the first user and the first org;
* the migration script reads the SQLite tables one by one beside a live server;
* a webhook delivery is a row and a call in memory: the call may end after the
  endpoint has changed or gone, or never, when the process stops;
* the client writes and reads a directory file by file, and one remote path may
  have several local names; its settings come from six layers.

What makes each component right is stated as properties in section 3; the
hazards behind them are listed in `PROJECT.json`, the ones no property covers
included.

## 2. The modules

| Module | Models | State |
|---|---|---|
| `RuntimeTrees` | contents, paths, trees | constants only |
| `ObjectStore` | the object store, one atomic step per call | `blobs`, `files` |
| `FileRecords` | file records and public files | `records`, `published` |
| `RuntimeVersions` | the SQLite commit transaction and the version tables | `heads`, `versions` |
| `CommitRequests` | pushes: clients, staging, validation, commit, mirror, prune | `push` |
| `FileRequests` | GET, PUT, DELETE `/v1/files`; publish, unpublish | `fileReq` |
| `RuntimeServer` | the composition, fairness, the properties | all of the above |
| `RuntimeObserved` | what a GET could have seen and which mirrors ran undisturbed: history variables over `RuntimeServer`, and what they are for | `alone`, `seen`, `crossed` |
| `VersionHistory` | the abstract promise: one compare-and-swap history per runtime | `history`, `pushes` |
| `PostgresVersions` | the commit transaction in PostgreSQL, command by command | `heads`, `versions`, `tx` |
| `AccessScopes` | path scopes, access levels, what a scope or a grant allows | constants only |
| `AccountTables` | users, orgs, grants, tokens: the calls of both account stores | `backend`, `users`, `orgs`, `grants`, `tokens`, `given` |
| `AccessRequests` | the auth hook; file routes' authorization; orgs, tokens, users, grants; the operator's commands | `req`, `ops` |
| `SignInRequests` | Keyname sign-in with bootstrap and legacy links, password and Tailscale logins, switch-org, logout | the same |
| `AccountMigration` | the copy from SQLite to PostgreSQL and the cut-over | `copy` |
| `AccountServer` | the composition of these four, fairness, the properties | all of the above |
| `SourceRegistry` | services and the sources registered for them | `services` |
| `AuditEvents` | the log, webhook endpoints, deliveries, calls on their way | `audit`, `endpoints`, `deliveries`, `calls`, `lost` |
| `WebhookServer` | requests that are logged, warned about, and manage webhooks; restarts | `req`, `admins`, `outside` |
| `RuntimeFiles` | which local files belong to a runtime, and under which path | constants only |
| `ClientConfig` | discovery and precedence of the client's settings | constants only |
| `ClientWorkspace` | the client's commands over directories, beside edits, pushes and stops | `local`, `details`, `remote`, `versions`, `written`, `cmd`, ... |
| `MC...` | instances for TLC | |
| `*_proofs` | theorems and their lemmas | |

How they are composed: `ObjectStore`, `FileRecords` and `RuntimeVersions` each
define the steps of one store. `CommitRequests` and `FileRequests` extend all
three; each of their actions is one handler step, that is, one call on a store
together with the synchronous code up to the next `await`. `RuntimeServer`
interleaves the two. A request is a record (`push[r]`, `fileReq[f]`) with the
call it makes next and the local variables it still needs.

The accounts are built the same way: `AccountTables` has one operator per call
of the store, `AccessRequests` and `SignInRequests` one action per awaited call
of a handler, `AccountServer` composes them with `AccountMigration`. So are
`AuditEvents` and `SourceRegistry` under `WebhookServer`. The four systems,
runtimes, accounts, webhooks and client, are checked apart: what crosses between
them is small. Runtime routes ask the accounts one question (`AuthorizeFile`)
before they do anything and tell the webhooks of one entry (`Serve`) at their
end; the client meets the server as a head per runtime that others move
(`ColleaguePushes`), which is what `CompareAndSwap` shows the server to be.

The main abstractions, and why they lose nothing the properties need:

* **Hashes.** SHA-256 is taken to be injective. A content is its own hash. A
  version's hash is SHA-256 of its tree hash and its parent's hash, so it
  corresponds one to one to the sequence of trees up to the version, and that
  sequence is how the model writes it. Two runtimes with the same trees have
  the same hashes, as in the code.
* **Trees.** A validated manifest has distinct, normalised paths; it is a
  function from paths to contents or `NoContent`. Sizes follow from contents.
  A manifest that fails the syntactic checks is answered 400 before any effect
  and is not modelled.
* **Validation** reads one blob per `await`. Blobs are never deleted, so the
  reads find all of them exactly if the last read would: one action.
* **Staging** is the client's loop over its files; the order is left open. So is
  the order of the mirror loop, which the code takes from the request.
* **Loss.** `LosePush` and `LoseFileRequest` end a request at any point without
  undoing anything: the client stops, the process restarts, or a call throws. A
  restart is that action for every request in flight, since the server keeps
  no other state in memory.
* **Writes are whole.** The file store writes a temporary file and renames it;
  S3 puts whole objects. What a crash before the rename leaves behind is not
  modelled.
* **Tombstones** are treated as absent records, as `listFileRecords` and the
  publish route treat them.
* Authorization is left out of the runtime routes: a request that is not allowed
  has no effect. `AuthorizeFile` is what decides it.

### PostgreSQL

`PostgresVersions` models the four commands of `commitVersion` under READ
COMMITTED. `StartSelect` takes the snapshot of the `SELECT ... FOR UPDATE`;
`SelectHead` returns when the head row is free. If the head has moved since the
snapshot, PostgreSQL re-evaluates the join with the new head row and the old
version row, finds no match and returns nothing, while the lock on the head row
stays. With no head row at all, nothing is locked. `InsertRow` waits for an
uncommitted row with the same key; `MoveHead` waits for the holder of the head
row. `LoseTransaction` also stands for the victim of a deadlock.

### Accounts

A path is the sequence of its segments; the three grant tables are one function
from user and target (`<<org>>`, `<<org, repo>>`, `<<org, repo, runtime>>`). With
the SQLite store (`backend = "sqlite"`) each call of `AuthStore` is one step, as
`bun:sqlite` is synchronous. With PostgreSQL each command is one, wherever a
request in between may change what was read: the Keyname link (`SelectBySubject`
to `LinkByEmail`), the three lookups of a grant (`lookup`), the check of user and
org before a grant. A request record holds the handler's copy of its token
(`token`), the user it acts for (`email`), and what it found for its answer
(`shown`). `POST /v1/users/verify` updates the SQLite file with either store, as
the code does. Passwords, TOTP, cookies, rate limits and bodies are left out; what Keyname
answers is an input (`Identities`).

`given` is auxiliary: every grant ever made. The properties about access speak of
it because the code lets API tokens outlive the grants they were minted under.

`CopyTable` reads one SQLite table; the inserts are one transaction and become
visible with its commit, so they are the copy `rows` until `CutOver`, which is
the operator's restart on PostgreSQL.

### Webhooks

An endpoint is named by the log entry of its creation and a delivery by its
endpoint and its entry: these names only need to be new, as the code's UUIDs are.
An audited handler step is one action with the insert of its deliveries, because
nothing awaits in between. `calls` are the HTTP calls on their way; `Settle` ends
any of them in any order. `lost` is auxiliary.

A source is a text of some kind: an address, a block, the region of another text,
or a name. Addresses have `AddressBits` bits. A mask is the set of bits that a
shift leaves, and a shift takes its count modulo the width, as JavaScript's does;
that the numbers are signed is not modelled. The region header is a text, too,
and is compared with every source, with and without `region:` before it: a header
that repeats a registered address or block matches, as in the code. A request's
row keeps where it came from and what was registered then, which the code does
not keep: `WarningsAreTrue` needs them.

### Client

A local path is a sequence of names, a name a sequence of its dot-separated
labels, so that prefix and suffix rules can be stated as they are in the code. A
command is one record, `cmd`; each file it reads or writes is a step. For the
settings, a value is named by the layer that gives it, so a wrong layer shows;
`Empty` is a variable or option set to nothing, which some expressions of
`config.ts` treat as a value and others do not. The rules of the schema for names
in a config file are two sets of refused values, `BadOrgs` and `BadNames`, which
hold `Empty`; nothing but config files and detected runtimes is held to them
(`Accepts`). The default repo is the name of the working directory (`cwd`), which
may be refused. `AfterInit` is the situation that `init` leaves: the directory
with `dotlocker.config.json` in it, its secrets and `NODE_ENV` as before, no flags
and no variables. `RuntimeFileMap` takes any file
where the code takes the last in directory order; this matters only for common
files of equal remote path, and there are none, since their path is their own.

## 3. The runs

| Run | Instance | Properties |
|---|---|---|
| `server_pushes` | 3 pushes of any kind, 2 runtimes, 2 trees | `CommittedObjectsExist`, `LinearHistory`, `OneWinnerPerHead`, `VersionsImmutable`, `CompareAndSwap` |
| `server_requests` | 1 push, 2 file requests of any kind, fair | `TypeOK`, `RequestsEnd` |
| `server_reads` | the same with history variables | `GetSeesCommitted` |
| `server_mirror` | 2 pushes, snapshots or restores, 1 PUT or DELETE | `RecordedObjectsExist`, `NoObjectMissing`, `MirrorCopiesHead` |
| `postgres` | 3 transactions, 2 runtimes, 3 trees | `TypeOK`, `NoForkAfterVersion`, `ConflictsAreReal`, `SwapsFromBase`, `RowsImmutable` |
| `signins` | 2 sign-ins, logins, switches or logouts; empty server or 2 orgs; both stores; fair | `ScopesWithinOrg`, `SessionsWithinGrants`, `OrgsHaveOwners`, `LogoutEndsSession`, `SignInKeepsOtherTokens`, `RevokedIsFinal`, `LinksAreStable`, `RequestsAnswered` |
| `access` | 2 requests, operator's commands or a migration; a team of 2; both stores | `TypeOK`, `TokensWithinGrants`, `AccessWithinGrants`, `OthersOnlyByAdmins`, `SessionsFollowGrants`, `CutOverKeepsAccounts` |
| `webhooks` | 3 requests, 1 restart, registration or departure; fair | `NothingAcrossOrgs`, `WarningsAreTrue`, `DeletedLeavesNothing`, `DeliveriesSettle` |
| `client` | 2 commands and 1 edit or push by others; every way to give one setting; fair | `PullCopiesHead`, `PushFollowsRules`, `PullThenPushUnchanged`, `SourcesAreTrue`, `InitIsRemembered`, `CommandsEnd` |
| `first_snapshot` | 2 pushes or snapshots, 1 PUT | violates `ConcurrentHeadChangeConflicts` |
| `same_tree` | 2 CLI pushes to 2 runtimes | violates `CurrentPushAccepted` |
| `postgres_first` | 2 transactions on 1 runtime | violates `OneWinner` |

What they show:

* **Histories** are linear, immutable and compare-and-swap for guarded pushes,
  over every interleaving with restores, unguarded API commits and lost
  requests. `CompareAndSwap` says the server implements `VersionHistory`, with
  `history <- heads` (a hash *is* its list of trees) and each push mapped to its
  outcome at the commit: being lost while mirroring does not change it.
* **Objects.** A committed version can always be served, and a snapshot of file
  records that were deleted or overwritten long ago still finds every object,
  because PUT stores the blob before the record and nothing deletes blobs.
* **Mirror.** Whatever lost mirrors, PUTs and DELETEs left behind, a mirror that
  no other request disturbs ends with exactly the head's tree in the records and
  in the stored files of that tree. Stored files outside of it may stay (a PUT
  lost between its file and its record); `resolve` and GET do not show them in a
  runtime with a head. Two mirrors of one runtime that overlap may leave a mix:
  the code promises nothing there and no property is claimed.
* **Reads.** A GET answers what its path visibly held at some moment while it
  ran. The exception is stated in the property: a GET during which its runtime
  gets its first version can answer 404 for a file that was there before and
  after, because `hasHead` is asked twice (`http.ts` 884 and 891).
* **Liveness.** Every request in flight ends. A snapshot page that was loaded and
  never clicked is not in flight.
* **PostgreSQL.** For a push that saw a head, the row lock gives the same
  compare and swap as SQLite, no version is followed by two, 409 is only sent
  when the head really moved, and no row is taken over. For first pushes this
  fails.

* **Sessions.** Sign-ins, switches and logouts that cross leave no session in an
  org its user was never in, revoke no token of anybody else and bring none back;
  a logout answered 204 has ended its session. A user whose grants went between
  the check and the mint does get a session, without rights. With SQLite a
  Keyname link never moves. With PostgreSQL it may: of two first sign-ins for one
  email the later replaces the earlier, so `LinksAreStable` is about SQLite.
* **Bootstrap** never leaves an org without owner. A stop between its two calls
  leaves a user without org, after which the server is not empty any more and no
  sign-in can bootstrap it: the code has it so, and no property forbids it.
* **Access.** A file request is let through, a token minted, a grant listed or
  changed only within what the caller was once given, over chains of grants,
  mints, switches and revocations. For sessions the grant holds in the very step
  that lets the request through. Four things the properties grant the code, because
  it does them:
  - A mint of `p/**` asks for the grants of `p/_`, and `SEGMENT_RE` accepts `_` as
    a name: a grant on the repo or runtime `p/_` lets its owner mint a token for
    all of `p`. So an API token counts as within what its owner was given if a mint
    could make it of that (`Reaches`); a session only if it was given (`Covers`).
    In the run, bob has such a grant.
  - A token for `p/*` may mint one for `p/**`, since `p/_` matches it.
  - The operator's command line asks for no grant: what it puts into a token counts
    as given, and a pattern as given on all below it.
  - A session's own scope is on the path `org/_session`; a request for that path is
    let through without a grant.
* **Migration.** A cut-over after a quiet migration keeps every account. Beside a
  live server it does not: a token revoked after its table was read is valid
  again. The counts the script compares do not tell.
* **Webhooks.** No org hears of another, a deleted endpoint leaves no row, and
  every call ends. Exactly the requests are warned of whose service had sources
  registered and that came from none of them, and the warning precedes every other
  entry of the request; which addresses a source stands for is said by intervals,
  where the code masks bits. The region header is the client's own word: who
  repeats the text of any registered source is not warned of. A delivery stays
  pending only if a restart cut its call off.
* **Client.** A pull nobody disturbed holds exactly the head's files beside what
  was there, except a file of the head called `locker-details.json` (a push makes
  one of `dev/locker-details.json` or `dev.locker-details.json`): pull overwrites
  it with its own details, and the next push leaves it out. One of the starting
  heads has such a file. `pull` never deletes, so a file that left the head
  stays, and the next push brings it back. A crossed pull may mix two versions. Push selects
  what README, "Sync model", says. Printed sources are true, unless `runtime` or
  `targetDir` is set to nothing somewhere. `init` holds org, repo and runtime to no
  rules, but the next command holds the file to the schema: after `init` with
  `--runtime ""`, or in a directory called `MyApp`, every later command ends with
  `PLUTO_CONFIG_INVALID`. `InitIsRemembered` says that this happens exactly when
  one of the three does not fit, and that otherwise every setting is found again,
  but for a `dotlocker.config.ts` beside the file.

The three violated properties state what the repository's README says and the
code does not do:

1. `postgres_first`: two first pushes of different trees, both expecting no
   head, are both answered 201 in PostgreSQL; the second becomes the head and
   the first is in no history. README, "Sync model": "A concurrent head change
   returns `409` instead of overwriting another push." (Two first pushes of the
   *same* tree end with one 400 instead of 409, for the reason below.)
2. `first_snapshot`: the web UI omits `expectedParentHash` when it saw no head,
   so its first snapshot is committed on top of a first push made meanwhile. The
   history keeps both; the 409 is missing.
3. `same_tree`: a version's hash does not include its runtime and is a primary
   key over all of them, so a runtime whose first tree equals the first tree of
   another runtime is refused with 400.

### Bounds

Every request is made at most once (`Pushers`, `FileRequestIds`); this alone
bounds the versions and the length of histories. Two paths are needed for a
mirror that is half done and for a prune beside an upsert; two contents for an
overwrite. Two runtimes are needed for equal hashes in different runtimes; where
no property relates runtimes there is one. Three pushes are needed for a head
that moves between the read of the head and the commit of a third one, and for a
restore of a version that is not the head. In
`postgres` one transaction makes a head, one moves it and a third waits
meanwhile; a fork after that head takes three different trees. (A deadlock takes
four transactions; the same properties hold with four, in 1.1 million states.)

`signins` and `access` bound requests and operator's commands together by
`MaxCalls` = 2, tokens by `MaxTokens` and tokens that expire by `MaxExpired` = 1.
Two actors are what each hazard here takes, because the starting points hold what
a third would have prepared: a session of each user, grants at every level, a
legacy link, an API token of narrow scope, and an empty server. `webhooks` allows
three requests, so that an endpoint is made, told of something, and then changed
or deleted with the call still on its way, and `MaxOutside` = 1 restart,
registration or departing admin. Two address bits have the boundary blocks /0 and
/1 and one of too many bits; the four places that service tokens are used from
(`Places`) are all four addresses, with no header, a region and the text of an
address. Service tokens ask for two of the seven routes (`ServiceRoutes`), one
that writes and one that reads: the warning comes before any of them. `client` has workspaces with every kind of name (common, prefix,
suffix, directory, another runtime's, a collision) and two commands, as in a pull
followed by a push; the workspace `settings` runs one command in every
combination of the layers of one field, and in situations of its own: a token or a
refused name in a config file, a working directory whose name is refused.

`CHECK_DEADLOCK FALSE` is set everywhere because all requests of an instance may
be finished. `SYMMETRY` permutes pushes (and runtimes or contents where the
instance treats them alike) and is not used with `RequestsEnd`.

### Fairness

`FairSpec` asks weak fairness of each request's own progress: Node's event loop
runs every continuation whose call has completed, and no modelled call waits
for another request. Nothing is assumed of clients that have yet to act (a
snapshot is never forced to be clicked) nor of losses. The accounts have the same
assumption. `WebhookServer` assumes only that calls end (`WF(CallEnds)`): deliver
aborts each after ten seconds. `ClientWorkspace` assumes that a command takes its
own next step (`ClientGoesOn`), which each completed call or file lets it do. The
exit of the program that `exec` starts is not among these steps: it is usually a
server and may run for ever, so `CommandsEnd` ends with the command or with its
running child.

## 4. What is proved

For any sets of runtimes, paths, contents, pushes and file requests, any accounts,
and any directories, situations and commands of the client, from the
named assumptions on constants only (`NoContentAssumption`,
`OriginsAssumption`, `PushTreesAssumption`, `FileKindsAssumption`,
`RoutesAssumption`; for the accounts `AccountsAssumption`, `RequestsAssumption`,
`SignInAssumption`, `NamesAssumption`, `InitialAssumption`; for the client
`LayersAssumption`, `ClientAssumption`). TLC evaluates each of them in a run:

| Theorem | Statement |
|---|---|
| `TypeCorrect` | `Spec => []TypeOK` |
| `HistoryIsLinear` | `Spec => []LinearHistory` |
| `CommittedIsReadable` | `Spec => []CommittedObjectsExist` |
| `RecordedIsReadable` | `Spec => []RecordedObjectsExist` |
| `ClientsMissNothing` | `"api" \notin Origins` gives `Spec => []NoObjectMissing` |
| `VersionsNeverChange` | `Spec => VersionsImmutable` |
| `HeadHasOneWinner` | `Spec => []OneWinnerPerHead` |
| `ServerRefinesHistory` | `Spec => CompareAndSwap` |
| `ReadsSeeCommitted` | `ObservedSpec => []GetSeesCommitted`, of `RuntimeObserved` as the next |
| `MirrorsCopyTheHead` | `ObservedSpec => []MirrorCopiesHead` |
| `PostgresTypes` | `Spec => []TypeOK`, of `PostgresVersions` as the next four |
| `PostgresNoFork` | `Spec => []NoForkAfterVersion` |
| `PostgresConflicts` | `Spec => []ConflictsAreReal` |
| `PostgresSwaps` | `Spec => SwapsFromBase` |
| `PostgresRows` | `Spec => RowsImmutable` |
| `OrgsHearNothing` | `Spec => []NothingAcrossOrgs`, of `WebhookServer` as the next |
| `DeletedIsGone` | `Spec => []DeletedLeavesNothing` |
| `ScopesStayWithinOrg` | `Spec => []ScopesWithinOrg`, of `AccountServer` as the next four |
| `TokensStayWithinGrants` | `Spec => []TokensWithinGrants` |
| `AccessStaysWithinGrants` | `Spec => []AccessWithinGrants` |
| `SessionsNeedGrants` | `Spec => SessionsFollowGrants` |
| `RevokedStaysRevoked` | `"migrate" \notin Kinds` gives `Spec => RevokedIsFinal` |
| `AccountsTypeCorrect` | `Spec => []TypeOK`, of `AccountServer` as the next seven |
| `SessionsStayWithinGrants` | `Spec => []SessionsWithinGrants` |
| `OrgsAlwaysHaveOwners` | `Spec => []OrgsHaveOwners` |
| `OnlyAdminsReachOthers` | `Spec => []OthersOnlyByAdmins` |
| `CutOverKeepsThem` | `Spec => CutOverKeepsAccounts` |
| `LogoutsEndSessions` | `"migrate" \notin Kinds` gives `Spec => []LogoutEndsSession` |
| `LinksStayStable` | `"migrate" \notin Kinds` gives `Spec => LinksAreStable` |
| `SignInsKeepOtherTokens` | `"migrate" \notin Kinds` gives `Spec => SignInKeepsOtherTokens` |
| `PullsCopyTheHead` | `Spec => []PullCopiesHead`, of `ClientWorkspace` as the rest |
| `PushesFollowTheRules` | `Spec => []PushFollowsRules` |
| `PulledIsPushedUnchanged` | `Spec => []PullThenPushUnchanged` |
| `SettingsNameTheirSource` | `Spec => []SourcesAreTrue` |
| `InitsAreRemembered` | `Spec => []InitIsRemembered` |

The arguments:

* `RuntimeVersions_proofs` proves what one commit does to the version tables:
  types, `RowsMatchHashes` (every row is filed under the hash of its own tree
  and parent) and the four parts of `LinearHistory`.
* `RuntimeServer_proofs` carries these through every action with the inductive
  invariant `TypeInv`: the types, `LinearHistory`, `RowsMatchHashes`, and what
  the steps rely on about local variables (a path being staged is in the tree;
  an upload has a body; a GET that is to read the head's file has a head).
  `LinearHistory` is not inductive alone: that a new hash has no successor yet
  needs `RowsMatchHashes`, and that a new root is the only one needs
  `HeadsOwned`. Most actions leave the tables alone and are dispatched by frame
  lemmas.
* It then adds that an outcome fits the phase of its request,
  and that the head has moved past the base of every push that created a
  version. From this follows that two guarded pushes with one base cannot both
  have won: base and head would be equal for the second. The refinement maps
  every step to a step of `VersionHistory` or to a stutter: the read of the
  head to `Start`, the commit to `Create`, `Keep`, `Conflict` or `Fail`. For the
  blobs, `ObjectInv` adds that validated pushes have all of theirs, and that an
  upload past its blob step has stored it; blobs only grow.
* `RuntimeObserved_proofs` needs only that an observed behaviour is one of the
  server's, for which all of the above holds. `ReadInv` says what a GET has found
  out between its calls: what its path holds now has been seen; a body it carries
  was seen and its blob is stored; if it carries none, its runtime has no head or
  showed nothing there. A first version while it runs breaks the last part and
  nothing else, which is why `crossed` is the only exception. `MirrorInv` has
  the invariants of the two loops: the tree's files that are not left to do are
  copied (one may be half done), and then the live records are those of the tree
  and those left to prune. It holds for a push until somebody else touches its
  runtime.
* `PostgresVersions_proofs` has the inductive invariant `PgInv`. Its core is
  that the head row of a runtime has one holder at most (`OneHolder`) and that a
  transaction which works with a head holds its row (`CurrentIsHead`), so the
  head it compared with is still the head when it commits. A commit makes a head
  of a hash that was not in the table (`OwnKeys`), and bases and parents were in
  it (`BaseKnown`, `Referenced`), so a head never returns to a base or a parent
  it has left: that gives true conflicts, and one successor per version. The
  base `null` is outside all of this, as the run `postgres_first` shows.

* `WebhookServer_proofs` has the inductive invariant `WebInv`. Nothing in a
  delivery names its org: `EventInv` says that an endpoint has the org of the
  entry it was made in, and a delivery's entry that of its endpoint, also when
  the endpoint is gone and only the call is left. `ShownInv` carries the admin
  check from `requireOrgAdmin` to the read after the await.

* `AccountServer_proofs` has the inductive invariant `IInv`. A first part is about
  paths: what a pattern within the reach of a target matches, a path or another
  pattern, is itself within its reach (`ReachesMatched`), a grant found for a path
  covers it (`GrantGives`), and a grant found for the probe of a scope reaches the
  scope (`ProbeGives`). The
  invariant says that every token is a session or has only scopes within what its
  owner was given (`TokenTable`), that the grants in the tables are among those
  given (`GrantsInv`), and that a request carries a copy of such a token and, once
  a scope was allowed, the gift it was allowed for (`RowsInv`): the property of the
  tokens alone is not inductive, since a mint inserts what it checked in an earlier
  step, with the token that it read before that. `CopyInv` says the same of the
  rows on their way to PostgreSQL. What was given is never taken back in `given`,
  so everything found earlier still holds when it is used. Actions are classed by
  what they do to tokens and grants (`TokenStep`, `GrantStep`) and by which request
  moves (`Keeps`, `Others`).
  Repos, runtimes, files and the patterns of scopes may have any names: `_`, and `*`
  in the middle, included. `NamesAssumption` says of names only that orgs and the
  targets of grants have passed `ORG_RE` and `assertName`. A pattern is within the
  reach of a target when each of the target's segments is `*` or the pattern's own;
  the last one may also be `_`, for what a mint makes of it.
  `RevokedStaysRevoked` leaves the migration out: a token revoked after its table
  was copied is live again after the cut-over, so `signins`, which checks the
  property, has no migration either.
* `AccountRights_proofs` has the inductive invariant `IInv /\ AInv`. None of its
  properties is inductive: each rests on what a request read some steps ago.
  `RowsKnow` says, for every kind and phase, what a request has found out
  (`FoundOut`) and what an answer "ok" stands on (`Entitled`), with respect to a
  `World` of which only such parts are used as later steps keep (`Remembers`,
  `Grows`): what was given, who and which orgs exist, the owner of a token. So the
  proof of a step has two halves: the request that moves finds out what its new
  phase needs, and for all others the world has only grown. `TablesInv` says that
  the tables refer to each other; `CountInv` that no request is counted twice.
  `MovedInv` says the same of the rows on their way to PostgreSQL, that they lag
  behind the tables they were read from, and that they equal them as long as
  nothing changed (`quiet`): the cut-over may then replace the tables.
  Three theorems exclude the migration. A cut-over puts back the rows as they
  were copied: what was revoked or linked meanwhile is undone, so with a migration
  the statements are false of the code.
* `ClientWorkspace_proofs` has the inductive invariant `ClientInv`. Its core are
  the loop invariants of pull and push, which hold as long as nobody else
  moved the head or touched the directory (`quiet`): the files made and the files
  still to do are together those of the head (`Pulling`) or those that the rules
  select in the directory (`Pushing`), and each file made has the content of its
  source. What the rules select is `MapFollowsRules`: a runtime's own files replace
  common ones of the same remote path, whatever other runtimes there are. It needs
  that a push is of a runtime of the repo, so that the runtime's own files are known
  for that. `SettingsNameTheirSource` is a statement about `ClientConfig` alone:
  the first layer that gives a field is the one named (`FirstLayerFound`, which
  takes the least of the layers' positions). `InitsAreRemembered` goes back from what
  the next command finds to the one file that init has written
  (`WrittenIsFound`): the schema takes it when the three names fit (`AcceptsWhat`),
  and then its values come before the secrets and the defaults; that init got so far
  shows that its own settings were found. `ClientAssumption` says that paths are
  sequences of strings: the backends do not know that a string literal is one.

Only model-checked: `RequestsEnd`, `RequestsAnswered`, `DeliveriesSettle` and
`CommandsEnd`, because liveness is out of the prover's reach, and `WarningsAreTrue`,
whose two sides, masks of bits and intervals, are equal by facts about powers of
two that take an induction. Every other invariant and action property of the
passing runs is stated by a theorem.

## 5. Not modelled

* Pages of the web UI other than the releases: rendering, and single calls of
  routes that are modelled on the server's side.
* `resolve`, `files-meta`, the storage report and the public GET on the server's
  side (what the client does with `resolve` is modelled), and the listings of the
  object store.
* What a stop inside the atomic write of a file leaves on disk; the two calls of
  an S3 delete.
* Files of local secrets that cannot be parsed: the model's always can.
* Runtime names with a dot in them, and how those of nested runtimes precede one
  another in a directory.
* Password hashing, TOTP, signatures, rate limiting, cookies and CORS: standard
  arithmetic, or state of one step.
* `tenancy.ts`, which logs what PostgreSQL row policies would hide; the creation
  and the upgrade of tables; `migrate-object-storage.mjs`.
* The MCP pass-through, the site, UI kits, Docker images and build files.

Hazards met while modelling, beyond the list in `PROJECT.json`. No property covers
them:

* `last_status` and `last_delivered_at` of an endpoint are those of the delivery
  that ended last, not of the latest.
* `versions` lists by a time stamp in milliseconds: two commits in one millisecond
  have no order.
* A PostgreSQL token row has no service (`auth-store.ts`): source warnings need
  SQLite. In PostgreSQL mode an org has no SQLite row, so the foreign key of
  `webhook_endpoints` refuses its webhooks (`PostWebhook` answers "failed").
* `switch-org` turns an API token into a session for good.
* `stage` into the directory it reads leaves the unprefixed copies beside the
  prefixed originals.
* A pull stopped before `writeDetails` leaves files without
  `locker-details.json`, or with an older one.
* A remote file called `locker-details.json` is fetched by pull and then overwritten
  by pull's own details (`PullCopiesHead` leaves it out, as do the theorems).
* `--config` with a file that is not there counts as no config file at all; an
  empty `DOTLOCKER_...` variable hides the older `PLUTO_...` one; the
  `dotlocker.config.json` that `init` writes is shadowed by a
  `dotlocker.config.ts` in the same directory.

Words of the repository's README that the code does not follow, where no run is
needed to see it: "replacing the directory" (README.md:91; pull deletes nothing),
`dotlocker-details.json` (README.md:196; the code writes `locker-details.json`).

## 6. What is left

In this order:

1. `RuntimePulls`: resolve, GET and public GET on the server's side beside pushes,
   and what a pull may mix.
2. `FileStoreDisk`: temporary files and renames with crashes, shown to implement
   `ObjectStore`.
3. Runtime names of several labels in `RuntimeFiles`.
