# A verification project for uPaste

uPaste is a self-hosted paste and file sharing service: one Go process, one
SQLite database, one directory of File objects, and a browser application. These
TLA+ modules model its stateful core, TLC checks them on small instances, and
TLAPS proves the main results for every value of the constants.

## 1. The system

| Component | Source | State | Operations | Hard behaviour |
|---|---|---|---|---|
| Share service | `internal/share/service.go` | rows of `shares` and payload tables | Create, CreateFile, Get, OpenFile, AuthorizeOwner, Update, Delete | the clock is read before the write lock is awaited; a File create spans a transaction and file-system calls with deferred compensation; a deletion unlinks after its commit |
| Admin service | `internal/share/admin.go` | none of its own | AdminList, AdminGet, AdminSummary, AdminDelete | keyset pagination while rows come and go; summary from two separate queries |
| Object store | `internal/objectstore/local.go` | `.stage-*` files, published objects | Stage, Commit, Abort, Open, Delete, Reconcile | link then remove, each may fail; Reconcile reads directories that others change |
| Maintenance | `internal/maintenance/maintenance.go` | none (its pass is a sequence) | RunOnce, purgeBatch, Start, CleanupExpired | an old clock value and an old reference snapshot are used long after they were read; admin and worker passes overlap |
| Database | `internal/database` | schema version, connection settings | Open, Migrate | one writer (`_txlock=immediate`), WAL with `synchronous=NORMAL`; each migration in its own transaction |
| Public API | `internal/httpapi` | none | routes, create, patch, delete, raw | admission, challenge, upload slot and deadline are taken in an order that matters when one is refused |
| File delivery | `internal/fileapi` | none | GET and HEAD `/f/{id}` | download slots; row lookup and object open are two steps |
| Abuse control | `internal/abuse/control.go` | client registry, limiters, slots | Allow, TryUpload/Release, TryDownload/Release | clock read outside the mutex, registry at its cap |
| Admin sessions | `internal/admin/manager.go` | sessions, login limiters | Login, Lookup, CSRFMatches, Logout | Login releases the lock while it verifies; expiry and logout between two checks |
| Admin API | `internal/adminapi` | none | session, listing, item, bulk delete, cleanup | Lookup and CSRF check are two critical sections; partial failure of a bulk deletion |
| Challenge | `internal/challenge` | none | Verify (Cap, Turnstile) | single-use tokens, timeouts |
| Process | `cmd/upaste/main.go` | listeners, contexts | run, shutdown | order of deferred closes against running requests |
| Browser application | `web/src` | per-page React state | create, view, manage, administer | answers that arrive out of order, unmounting during a request, lost answers |
| Configuration, capabilities, domain, web assets | `internal/config`, `capability`, `domain`, `webapp`, `buildinfo` | none | pure functions | boundaries of values |

How they interact. The two HTTP servers call the share service, which opens
transactions on the shared database and calls the object store. The maintenance
goroutine and the administrator's cleanup request call the same RunOnce. Nothing
links the database and the file system but the order of the calls: an object is
published before its row commits and unlinked after its row is gone, and
reconciliation collects what a crash leaves in between. The browser talks to
the API only, and File bytes come from the second listener.

What correct means, per component:

- **Share service, store, maintenance.** A committed File has its object; a
  running upload keeps its files; only expired or deleted rows go; an orphan is
  collected; a Share is seen whole or not at all and never returns; a public
  instance honours its retention limit; an expired Share stays expired.
- **Admin listing.** A traversal lists nothing twice and misses nothing that was
  there throughout.
- **Abuse control, sessions.** Registries stay within their caps, evicting an
  entry grants nothing, admission keeps to its rates; no session outlives its
  expiry or its logout, and a state change needs a session and its CSRF value.
- **Browser application.** What is shown and edited belongs to the Share of the
  current page; an owner token the server has issued is not lost.

## 2. Modules

### ShareStore

The database rows, the object directory and everything that changes them. State
and code:

| Variable | Code |
|---|---|
| `rows`, `meta` | committed rows of `shares`; `payload_kind`, `created_at`, `expires_at` |
| `writer` | SQLite's write lock, while CreateFile holds it across file-system calls. Every other transaction is one step, enabled when nobody holds the lock |
| `stage`, `final`, `mtime` | `.stage-<key>-*` files, published objects, their modification times |
| `up`, `began` | the create request of each Share, and when its upload deadline started |
| `handler` | the other requests: the step they are at and the clock value they read |
| `sweep` | maintenance passes: step, clock value, remaining batches, purged keys, reference snapshot, directory entries still to visit |

Each action is a step another goroutine can be scheduled around: a clock read, a
whole immediate transaction, one file-system call. `RollbackFile` and
`Compensate` are the deferred calls of `CreateFile` in the order they run:
rollback, `store.Delete`, `staged.Abort`. File-system calls may fail, a pass may
fail anywhere, and the process may die anywhere (`Crash`), up to `MaxFaults`
times. An outcome that changes nothing (404, 410, 401, 422, a lock timeout) is
the `UNCHANGED` disjunct of `UpdateTx`, or `Refuse`.

Abstracted: payload contents, owner tokens and `updated_at`. Tokens decide only
whether a request is refused, and any request may be refused. A Share's ID and
key are drawn from `crypto/rand`, hence distinct. The clock does not run
backwards, and file times come from the same clock.

### ShareLifecycle and ShareStoreRefinement

`ShareLifecycle` is what users are promised, without database or disk: a Share is
pending, live with all its content, then gone for good. `ShareStoreRefinement`
maps the store to it. A row whose object is missing maps to a state the lifecycle
does not have, so the refinement fails if a user could meet one.

### AdminListing

One administrator's traversal of the paginated listing against a changing
database. `rows`, `created` and `expires` are the columns the query reads; `up`
separates the moment a create reads its clock (`Create`) from the commit of its
row (`Commit`), so rows appear out of the order of `created_at`, behind and ahead
of the cursor. `pager` is the browser's side of the traversal: the parameters it
repeats, the cursor, and the clock value `AdminList` reads before its query.
`Query` is the one SQL statement, with the extra row that tells whether there is
a next page. `steady` is history: the Shares that have been there, and matched,
ever since the first request. The filters on kind, privacy and ID never change
their verdict on a row; the lifecycle filter does, and is modelled.

### AdminSessions

`Manager` and the requests that use it. The mutex makes each critical section a
step; the clock is read before it, so `login[l].at` and `request[r].at` may be
old when used. `StartLogin`, `LoginLimited`/`LoginAdmitted` (allowLogin),
`LoginFailed`, `StoreSession` are the parts of `Login` that other goroutines can
come between; `Send`, `Lookup`, `CSRFMissing`, `StartCSRFMatches`,
`CSRFFails`/`CSRFMatches`, `Act` are those of a request. `limits` is
`loginLimits`: a bucket's level (in time, an attempt costs `LoginInterval`), the
bucket's time and the entry's last use. `Advanced` is the bucket of
`golang.org/x/time/rate`, which takes an earlier time as its own when it admits.

### AbuseControl

`abuse.Control.Allow`. `call[r]` is a goroutine between the clock read and its
critical section; `clients` is the registry (per rate key the last use and one
bucket for each kind of request), `global` the bucket of the process. The
critical section has three outcomes, each an action: `RefuseClient` (no room, also
after a sweep), `RefuseRequest` (the client counts as used; the process's bucket
refuses, or gives a token and the client's refuses) and `AdmitRequest`. `Swept`,
`Sweeps` and `RegistryFor` are the sweep, when it is due and when a full registry
calls for one. `ClientIP` resolves the sender from the peer and from
X-Forwarded-For, which each trusted proxy appends to (`Forwarded`); the requests
enumerated carry a header element of the client's own, an address or garbage, and
come through none, one or two proxies. The buckets are measured in time, as in
AdminSessions. `from`, `admitted` and `passed` are history: what was admitted in a
window that starts at any of `Windows`.

### HttpRequests

The handlers of the three HTTP APIs, any number of requests at a time. `pc` is
the place of a request in its handler, and one action is one step that others can
come between: the limiter, the challenge, a body, a gate, one call of the Share
service. `answer` is the status written, and `Answer` leads to the deferred calls
(`LeaveUpload`, `LeaveDownload`) if the handler holds a slot.

| State | Code |
|---|---|
| `uploads`, `downloads` | `len(control.uploads)`, `len(control.downloads)` |
| `parts`, `stage`, `opened` | the multipart parts read, staged files on disk, open objects |
| `verdict`, `spent` | the provider's answer to each verification and the tokens it has redeemed; it may redeem one after the server has given up |
| `kind`, `expired` | the rows, as far as the handlers tell them apart; a Share is named by the request that made it |
| `did` | history: the requests that changed a Share |
| `todo`, `failed` | the progress of a bulk deletion |

It composes the others at one level of detail: a call of the Share service is one
step, whose own steps are in ShareStore; the limiter's decision and the session's
are choices, made in AbuseControl and AdminSessions. The status 400 stands for 413,
415 and 422 as well.

### ServerProcess

`cmd/upaste/main.go` and the settings of `config.Parse`. `phase` is how far `run`
is: one phase for each resource it acquires, `serving`, and one for each deferred
call in their order. `open` is what is open, `served` the goroutine of each server
(a `Serve` that comes after `Shutdown` closes its listener and returns), `down`
the servers whose `Shutdown` was called, `busy` their connections in use. Two
goroutines shut down, each with a deadline of its own (`closer`): the one that
waits for the signal, and `run` in a deferred call. `pass` is the maintenance
goroutine. A tick of the clock takes place when the process has nothing left to
do at once; `since` and `late` are history.

### Migrations

`database.Open` in several processes on one data directory. `pc`, `latest` (the
binary's schema version) and `current` (what it read) are the process's; `version`
is `PRAGMA user_version`, `schema` the objects that the scripts made, `writer` and
`pending` SQLite's write transaction. `Fault` is a crash or an error anywhere,
`Start` systemd's restart, `Replace` an upgrade or rollback of the binary.

### Proof modules

`ShareStoreProofs`, `ShareStoreRefinementProofs`, `AdminListingProofs`,
`AdminSessionsProofs`, `AbuseControlProofs`, `HttpRequestsProofs`,
`ServerProcessProofs` and `MigrationsProofs` hold the theorems, section 5. The MC modules give the constants
their values, and `MCShareStore` and `MCAbuse` the symmetry for TLC.

## 3. What the runs check

| Run | Instance | Shows |
|---|---|---|
| `store_files` | 2 Shares, 1 request, 1 pass, 1 fault, time 0..3 | `NoDanglingRow`, `InFlightFilesKept`, `PurgeOnlyExpired`, and `IndInv`, the invariant the proofs use |
| `store_races` | 1 Share, 2 requests, 2 passes of 2 batches, public instance | `PublicHorizon`, `OpenFailsOnlyIfDeleted`, `ImplementsLifecycle` |
| `store_reclaim` | 1 Share, 2 faults, time 0..4, fairness | `OrphansReclaimed`, `ExpiredPurged` |
| `store_revival` | 1 Share | `ExpiredNotRevived` is **violated**, section 4 |
| `admin_listing` | 3 Shares, pages of 1, time 0..2 | `ListedOnce`, `NothingMissed`, and `IndInv`, the invariant the proofs use |
| `admin_sessions` | 2 logins, 2 connections, 1 session at a time | `RegistriesBounded`, `ActsOnlyInForce`, `EndedOnly` |
| `admin_logins` | 2 logins, 2 rate keys, 1 limiter at a time, time 0..9 | `LoginRate` in windows from 0 and 7, and `IndInv`, the invariant the proofs use |
| `abuse_control` | 2 calls, 2 clients behind a proxy, 2 entries, time 0..7 | `ClientRate`, `GlobalRate`, `ChargedToSender`, `FullOnlyOfActive`, and `IndInv`, the ledger behind the rates |
| `http_requests` | any 2 requests, 1 older Share, 3 tokens, 1 slot a gate, fairness | `GatesExact`, `NothingLeft`, `OneSharePerToken`, `AnswerTruth`, `BulkTruth`, `EveryRequestEnds`, and `IndInv`, the invariant the proofs use |
| `process` | every setting, 2 connections a server, 3 time units to shut down, fairness | `ServesProtected`, `StorageOutlives`, `AllClosed`, `TimelyExit`, `StopsAccepting`, `Ends` |
| `process_stop` | the same | `StopsAcceptingAtOnce` is **violated**, section 4 |
| `migrations` | 2 processes, 3 releases, 2 faults, fairness | `VersionExact`, `ServesItsSchema`, `ForwardOnly`, `NewestServes`, and `IndInv`, the invariant the proofs use |

Bounds. `MaxTime` lets an object become older than the grace (2) after the
longest transfer (1) and a Share expire at 2 or 3 and be extended before. With
`BatchSize` 1 two expired Shares take two batches and a pass with one batch
leaves a backlog. Two passes are the worker's and an administrator's; two
requests are enough for a deletion during a download or during an update. Two
faults are a crash and a failure of the compensation for it. `Wants` has null, an
expiration within the horizon and one beyond it.

`MCShareStore!View` drops values nothing reads any more (a finished upload's
start, the time of a file that is gone, a clock value that no longer decides).
Symmetry is used in safety runs only; `Worker` differs from the other passes by
its fairness alone.

`admin_listing` has three Shares of at most three clock values, so that two share
a millisecond while a third does not, and pages of one, so that every row is a
cursor that can vanish. `admin_sessions` has one place for a session and two
logins that want it; a session lasts two time units out of three. `admin_logins`
has buckets of two attempts, three time units each, and forgets a limiter after
eight, which is just what `LoginAssumption` asks for: refill and twice the lag.
Time 9 reaches the second sweep and the attempt after it.

`abuse_control` has two requests in `Allow` at a time, late by up to one unit, and
buckets of one token that cost five (a client's) and three (the process's), so
that a bucket that is set back by an old clock value earns a unit twice before the
next attempt. A registry of two entries is full with both clients, and the
proxy's own address, which a malformed header is charged to, is the third.

`http_requests` has two requests that may each be any of the nine, on a Share
the other one creates or on an older one of any kind: two creations with one token
or two, two uploads for one slot, two bulk deletions of the same IDs, a deletion
between the two looks a patch takes at its row. Of its three tokens one was solved
on another site. `process` takes every combination of the settings that the parse
relates to each other; the two shutdowns are three units each and the pass one, so
that either goroutine can be the first, and the last. `migrations` needs two
processes of different releases, so that one meets a schema that another has
brought forward since it read the version, and a crash for each.

Deadlock is checked everywhere but where the system does stop: in `admin_logins`
every login request may have succeeded when the clock has reached its bound, in
`http_requests` all requests are answered in the end, and in `process` the process
exits.

Fairness in `store_reclaim`: the clock runs (`Tick`); a create request ends,
since its reads have a deadline, its lock wait a busy timeout and its deferred
calls always run; a pass that has begun goes on; the ticker starts the worker's
pass again. Clients and administrators owe nothing. `OrphansReclaimed` is only
asked of files that get older than the grace before the clock's bound.

Fairness in `http_requests`: a goroutine that can go on does (`Server`), and the
deadlines pass (`Deadline`; `VerifyFails` is among the server's steps, since a
verification has `ChallengeTimeout`). Clients may send no body and read no answer,
and the provider may be silent for ever. In `process`: the goroutines run, time
passes, a maintenance pass ends; requests may run on for ever. In `migrations`: a
process that can go on does, systemd starts it again, and `BEGIN IMMEDIATE`, which
retries for five seconds, gets the lock if it is free again and again (strong
fairness: each of the others holds it only for one script). Faults are bounded, as
`NewestServes` speaks of what happens when they are over, and it only asks it of a
process that keeps the newest release.

Each property of a passing run has a mutant in `PROJECT.json`: a plausible slip
in the code, such as unlinking before the commit, no grace, or a horizon counted
from the update, that makes the property fail on the same instance.

## 4. Where code and documentation disagree

`docs/API.md:33`: "Expired Shares cannot be read, updated, deleted, or revived
through normal application operations." `Update` (`service.go:258`) reads the
clock before `BeginTx` waits for the write lock, up to the 5 second busy timeout.
An update that starts before `expires_at` and gets the lock after it still finds
the Share active and may move its expiration: readers got 410 in between and get
the Share again. `store_revival` shows the trace: create, `StartUpdate`, `Tick`
past the expiration, `UpdateTx`. `Delete` has the same window, which only makes it
delete a Share that is gone for everyone anyway.

`docs/DEPLOYMENT.md:250`: "uPaste stops accepting new connections and allows the
HTTP servers up to 10 seconds for active handlers to finish." Both shutdown loops
(`main.go:181`, `main.go:195`) call `Shutdown` of the application's server, which
waits for its connections, before `Shutdown` of the file server, so the file
listener accepts and serves new connections for as long as the application drains.
`process_stop` shows the trace; `StopsAccepting` is what does hold: nothing on the
application's listener, and ten seconds at most on the files'.

## 5. What is proved

`ShareStoreProofs`, for any set of Shares, requests and passes, any clock and any
number of faults, from the named assumptions of `ShareStore`: the default
retention is within the maximum (what `config.Parse` accepts), the grace exceeds
the transfer deadline (30 against 10 minutes), at least one batch of at least one
row per pass, and the sentinel values are no Shares and no times.

`IndInv` is inductive, with one lemma per action of `Next`:

- `TypeOK`: types, and the write lock is held exactly by a CreateFile between
  BeginTx and the end of its transaction;
- `RowsBacked`: a row's create has succeeded, its object is there, and an object is
  there from its link to the commit;
- `UploadsYoung`: a running upload's files are no older than the upload, which is
  no older than the transfer deadline;
- `WithinHorizon`: the expiration of a row, or of one about to commit, keeps to
  the public limit;
- `PassesSafe`: a pass's clock value is past, the keys it unlinks belong to rows
  it removed, and **every File that its reference snapshot misses is too young
  for it to remove**;
- `RequestsSafe`: a deletion unlinks, and a download misses, only objects of
  removed rows.

The last part of `PassesSafe` is where the properties need more than themselves.
A File that commits after the snapshot is not in it. What protects its object is
that the upload was running when it committed, so its file is younger than
(commit time - deadline), and the pass removes only what is older than (pass start
- grace), which is earlier. `GraceAssumption` is used exactly there.

From `IndInv`: `TypeCorrect`, `NoDangling`, `Horizon`, `OpenFails`; and as action
properties `InFlightKept` (a step that takes a file of a running upload would be a
visit of a pass, which would find it stale) and `PurgeJustified`.

`ShareStoreRefinementProofs`: with that invariant, each step of the store, seen
through the mapping of `ShareStoreRefinement`, is a step of `ShareLifecycle`
(`Implements`). `RowsBacked` is why no user meets a row without its object and why
nothing that is gone returns. One more fact is needed, `Prepared`: a row that waits
for its commit has its creation in the past and its expiration after its creation,
which the commit then shows. A commit is `Appear`, an update `Extend`, a deletion
`Delete`, a batch `Purge`, where the pass's old clock value is past; every other
step leaves the rows alone and is at most `Fail`.

`AdminListingProofs`, for any set of Shares, any page size and any clock. The
order of the rows is strict; what has been listed is at or before the cursor
(`ListedBehind`), and what the traversal owes is past it (`SteadyAhead`). Neither
property is inductive without the other half of the invariant: a row that is
listed must not come to lie past the cursor, which holds because a Share that has
a row, has been listed or is the cursor has its `created_at` for good. Hence
`ListsOnce` and `MissesNothing`.

`AdminSessionsProofs`, for any number of logins, connections, rate keys and
windows, from `LoginAssumption` (a bucket's interval exceeds the wait for the
mutex, and idleness before a limiter is forgotten exceeds the refill and twice
that wait: 10 minutes against one). The invariant is a ledger (`Ledger`): a
bucket's level with what the window's attempts have cost is at most a full bucket
and the time since the window began, and for a forgotten bucket the cost is
already paid for by that time. `RateKept` follows. An attempt whose clock value
is older than the bucket's sets it back, so up to `MaxLag` is earned twice and the
cost of an attempt is `LoginInterval - MaxLag`; TLC refutes the bound without that
term. `RegistriesKept`, `ActsInForce` and the action property `EndsJustified`
come from the same invariant.

`MigrationsProofs`, for any processes, releases and number of faults. The version
that a process goes by may be long out of date when its transaction begins, and
nothing in the code reads it again. The argument is in the scripts: that of
migration `current + 1` makes objects that are there already unless `current` is
the committed version, and then fails. So `IndInv` says of a transaction past its
script that `current` is the version (`KnownTo`), and how much of the migration is
in the transaction's own view (`TransactionOf`); the commit then takes schema and
version forward together. Hence `SchemaIsVersion`, `SchemaIsServed` and the action
property `SchemaGoesForward`.

`AbuseControlProofs`, for any calls, clients, proxies and windows, from the named
assumptions of `AbuseControl`: an interval exceeds the wait for the mutex, and the
idle time before a client is forgotten exceeds a full refill and twice that wait
(10 minutes against 30 seconds). The ledger is the one of the login limits, kept
for a bucket of each kind per client and one for the process. What a forgotten
client's full buckets give away is no more than its idle time has earned, also when
a full registry calls for the sweep early (`Ledger`'s last clause). Hence
`ClientsRate` and `ProcessRate`; `SendersCharged` comes from the chain that
`ClientIP` reads backwards: its last untrusted element was written by a trusted
proxy, unless all of it was, and then the peer is charged. `OnlyActiveFill` is a
property of the sweep.

`HttpRequestsProofs`, for any number of requests, Shares and tokens and any limits.
`IndInv` says by the place of a request in its handler what it holds (`Cleared`),
what it was verified for (`VerifiedFirst`, `OneSuccess`) and what it has answered
(`Answered`); the gates are cardinalities of sets of places, and each step is
counted in or out. The bulk deletion needs `Accounted`: each of its IDs is reported,
still to do, or names a Share that is gone for good, and that nobody will still
create. Hence `GatesAreExact`, `HandlersClean`, `TokensOnce`, `AnswersAreTrue` and
`BulkReports`.

`ServerProcessProofs`, for any settings, timeouts and connections. Its `IndInv`
fixes what is open and what runs in each phase, what a goroutine that shuts down
has waited for (`Waited`: a server it has left is drained, or its time is up), and
where the time since the shutdown began has gone (`Timed`: a pass takes its slack,
the deferred shutdown its timeout, and nothing else takes any, since a tick waits
for what is `Due`). The two goroutines are proved about one by one: `Waited` of
`run`'s own shutdown gives `StorageClosesLast`, `Latest` needs whichever is still
at the application's server. Hence also `ServesOnlyProtected`, `EverythingCloses`,
`ExitsInTime` and `AcceptsNoMore`. `Due` is written out where the definition
would be `ENABLED (Return \/ Goroutines)`, which the prover cannot expand.

Further theorems state what no single run asks. Most are the other direction of a
property above, or the part of a liveness property that needs no fairness:

| Theorem | Property | The argument |
|---|---|---|
| `PassReclaims` | `PassesReclaim`: a pass that has come to its end leaves no staging file and no unreferenced object older than the grace | `PassesThorough`: what it has yet to visit contains every such file; nothing appears old, since a file's time is its creation |
| `NeverReturns`, `KeepsCreation` | `GoneForGood`: what is gone stays gone; `CreationFixed`: the creation time users see never moves | read off the lifecycle that the store implements |
| `ListsInOrder` | `ListedInOrder`: the pages of a traversal are in its order | what is listed next is past the cursor, what was listed behind it, and the order is transitive |
| `EndsForGood`, `RefusedJust` | `EndedForGood`, `RefusedOnlyIfEnded`: a session that ended does not come back, and a request loses only a session that ended | `HeldUnexpired`: the session a request was sent under had not expired when Lookup read the clock |
| `OwnAttempts`, `OwnLimits` | `OwnAttemptsOnly`, `OwnLimitOnly`: an empty bucket is the doing of the client that meets it | what is missing from a bucket is at most what its own client took: a lower bound on levels where the ledger is an upper one |
| `GivesUpOvertaken` | `OvertakenOnly`: Open gives up by itself only for what other processes or a newer release did | a script finds its own objects only if the version it counts from is out of date |
| `ChangesAreWarranted` | `Warranted`: a Share appears, changes and goes only for a request that may do it, at the moment it does | what a handler's place says of its operation, from requests that were routed steps before |
| `RequestsAdvance` | `OnlyForward`: the safety half of `EveryRequestEnds` | a measure of the steps that a request has left (`Steps`), which its own steps lower and no other's raises |
| `NeverHangs`, `TimeRunsOut` | `WaitsForTime`, `UsesUpTime`: the safety half of `Ends` | in a shutdown with nothing due there is a cancelled pass or a Shutdown with time left, and a tick takes from it, so that no more ticks come than a pass and two timeouts |

`PassesReclaim` is also what `OrphansReclaimed` needs of a pass, once fairness has let
one complete. These properties are defined next to their proofs and are listed
without a run.

Only model-checked: liveness (`OrphansReclaimed`, `ExpiredPurged`,
`EveryRequestEnds`, `Ends`, `NewestServes`; fairness and ENABLED are out of the
prover's reach). Every other property of a passing run is a theorem.

## 6. Assumptions and what is not modelled

- The transaction that follows an upload is short: `Tick` stops at the deadline
  for a whole upload up to its commit. The code bounds the body by its 10 minute
  read deadline; the commit adds a lock wait of at most 5 seconds, far below the
  20 minutes of slack in the grace.
- A crash of the process, not of the machine: committed rows survive. WAL with
  `synchronous=NORMAL` may lose the last commits with the power, and with them
  rows whose objects are on disk: those are orphans like a crash's, but a deleted
  row may also come back without its object, which this model does not show.
- The Lstat-then-Remove pair of `Local.Delete` and of `Reconcile` is one step; a
  file that disappears between the two is the same failure one step earlier.
- The listing's clock does not run backwards, IDs are compared as SQLite compares
  their text, and a request that fails makes the administrator start over.
- Administrator sessions are modelled in the lifetime of a process: a restart
  empties the registries, and with them the login limits. The levels of a token
  bucket are exact, where the library computes in floating point.
- In `HttpRequests` a request is at the limiter or the session check once; what
  they decide is free. A response that cannot be written is a request like another:
  its handler does not know. Panics are recovered by `net/http` after the deferred
  calls and are the 500 of the step.
- In `ServerProcess` an idle connection counts for nothing, and a connection that
  is accepted is in use at once. A process that dies without its deferred calls
  leaves its resources to the operating system, and its files to ShareStore.
- In `Migrations` a script either makes objects that are not there or fails; no
  script of the repository says `IF NOT EXISTS`. Writers of other programs are not
  modelled.
- Symlinks and foreign entries in the object root (counted, never touched), the
  syntax of settings, headers and bodies.
- Not modelled: capabilities (random tokens and their hashes; pure functions),
  client-side encryption (cryptography in the browser), the embedded frontend
  (static responses), the pages of the browser application (their state is the
  lifetime of React effects; what they ask of the server is in HttpRequests and
  AdminListing), scripts and deployment. `PROJECT.json` lists them.

## 7. Plan

Done: the modules of section 2 and the theorems of section 5. What would add most
next:

1. ShareStorePower: a loss of power under `synchronous=NORMAL`.
2. The administrator's and the owner's page in the browser, with answers that
   arrive out of order.
