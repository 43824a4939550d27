# jaunder: verification project

TLA+ modules, TLC configurations and TLAPS proofs for jaunder, a single-binary
publishing server: feed publication, the media store and its uploads, the life of
the server process, and accounts with their sessions, tokens and passkeys.  Paths
below are relative to the repository (`server/`, `storage/`, ...).

## The system

jaunder is one Rust process over SQLite or PostgreSQL, plus command-line
invocations of the same binary that may run beside the server against the same
database and storage directory.

| Component | State | Operations | Status |
|---|---|---|---|
| Publisher seam (`storage/src/publisher.rs`, `server/src/publisher.rs`) | feed configuration in `site_config`, `publisher_state.generation`, `feed_cache`, the file lock `publisher.lock` | snapshot, repair of a malformed hub, hub / window / identity edits, finalization guard, fenced cache commit | modelled, proved |
| Feed cache and rendering (`storage/src/feed_cache.rs`, `server/src/feed/{regenerate,handlers}.rs`) | one row per feed path | get, upsert, render, cache-miss loop | partly (no bytes, no ETags) |
| Feed event queue (`storage/src/feed_events.rs` and both dialects) | rows with status, phase, two attempt counters, times | enqueue, claim under a lease, nine status writes, redrive, retention | modelled, proved |
| Feed worker (`server/src/feed/worker.rs`) | claimed rows in memory, `last_tick` | tick, go-live pass, group processing, retries, dead letters | modelled, proved |
| Scheduled worker guard (`server/src/scheduled_worker.rs`) | `stopping`, `active`, a `Notify` | run, admit, stop, shutdown, drop | modelled, proved |
| Post lifecycle and go-live (`storage/src/post_service.rs`, `storage/src/posts/*`) | posts with `published_at`, audiences, tags, media references, revisions | create, update, publish, unpublish, delete, two go-live queries | partly, proved |
| Write scope (`storage/src/write_scope.rs`) | one transaction | commit: confirmed, rolled back, indeterminate | by its outcomes |
| WebSub client (`server/src/websub/http.rs`) | none | publish | by its outcomes |
| Media manager (`storage/src/media_manager.rs`, `media.rs`, `media_content_locks.rs`) | content-addressed files, media rows, references, theme bindings, lock files | upload, delete, reclaim | partly, proved |
| Upload preparation (`host/src/image_privacy/process.rs`) | slots, spools, owner tasks, leases | admit, prepare, finish, stop, shutdown | modelled, proved |
| Server lifecycle (`server/src/commands/lifecycle.rs`, `runtime_file.rs`, `shut_down/`) | storage lock, workers, runtime file | prepare, start with rollback, serve, shut down | partly (no runtime file), proved |
| Accounts, sessions, single-use tokens (`storage/src/*`, `web/src/{auth,email,invites,password_reset,registration,sessions}`) | users, sessions, invites, verifications, resets | sign in, register, verify, reset, revoke, expire, prune | partly, proved |
| Passkeys (`storage/src/passkeys.rs`, `web/src/passkeys/api.rs`) | credentials, ceremonies, the base URL's host | start, claim and finish of ceremonies, delete | partly, proved |
| Themes (`storage/src/theme*.rs`) | packages, bindings, assets | bind, activate, publish | only bindings |
| Backup, restore and maintenance | files and rows | back up, restore, prune | not modelled |
| Post queries, AtomPub (but for the start of an upload), web UI, rendering, CLI, Emacs client, tooling | | | not modelled: presentation, parsing, single-transaction SQL, or another program |

How they interact.  A post mutation commits together with its `feed_events` rows
(a transactional outbox).  The scheduler starts a tick of the feed worker every
interval, whether or not the last one has returned.  A tick runs the go-live
pass, claims a batch, and takes each feed path's rows through the publisher seam:
snapshot, render, take the gate, commit under the generation fence, ping the hub,
release the gate, write the outcome to the queue.  A GET that misses the cache
goes through the same seam without the ping.  Configuration edits, in the server
or in a CLI process, take the same gate.

An upload is admitted to one of a few slots, spooled to a private directory,
cleaned by a child process, and handed to a finalizer that places the file under
the lock of its content hash and then registers a row.  Deletion removes the row
in one transaction and unlinks the file in a second one that stays open across
the unlink.  Post writes and theme edits take the same locks before they name a
file.  The composition root starts workers, uploads and HTTP, and drains them in
a fixed order before it gives up the storage lock.

An account request is a chain of pool reads and write scopes; what was read may
be stale by the time of the write, and the write's acknowledgement may be lost.

What is hard: renders overtaken by edits or by other renders; ticks that outlive
their lease; commits whose acknowledgement is lost; processes that die between
two writes; a publication time that passes while nobody writes; shutdown racing
the scheduler, the uploads and their clients; files and rows that no transaction
spans; tokens presented twice; a host name changing under a registration.
`PROJECT.json` lists these hazards at their lines.

## Modules

`FeedPublication` is the abstract promise of the seam: a feed is filled only from
the configuration in force, an edit empties every feed and cannot happen while a
hub is being pinged, a hub is pinged only while it is the configured one and the
feed is there.

`Publisher` models the seam.  `config`, `generation`, `cache` are the durable
state, `gate` the holder of `publisher.lock`; each process has a `pc` and its
local snapshot, draft or edit.  One step is one transaction, read, lock operation
or HTTP exchange.  Post content is one counter per path, so a row is the pair of
the configuration and the version it was rendered from; hubs, identities and
windows are opaque values.  Failures (`ReaderFails`, `*Unconfirmed`, `Abort`) may
strike any process at any step; an unacknowledged commit may or may not have
happened.

`FeedEvents` models the queue as operators on one variable, `events`.  Times are
one bit per row, `ripe`, which an `Elapse` step may set at any moment: next
attempt, lease end or retention end, according to the status.  Status writes name
ids only, as the SQL does.

`FeedWorker` composes the two: a tick is Publisher's worker, with the rows it
claimed (`batch`, as they were when claimed) and the status writes it still has
to make (`todo`).  History variables `due`, `reached` and `abandoned` say which
content version an event was for, the newest version the cache has held, and
which paths lost a dead letter to retention.

`ScheduledWorker` models the guard at the granularity of mutex sections and
`Notify` operations, with both kinds of feed job: repeated activations, and the
loop used for intervals under a second.

`GoLive` models the time-gated visibility of posts: a clock, requests that read it
once and commit later, the go-live pass with its mutex and chunked enqueue, its
catch-up query after a restart.  Rendering and commit are one step here (Publisher
and FeedWorker refine it), and a queued feed stands for its queue row.

`MediaManager` models the files, the rows, the references of Posts and of their
revisions, the theme bindings, and the two kinds of lock: one lock file per
content hash, and the SQLite writer.  A transaction is one step, except the
reclaim's, which is open while the file is unlinked.  A task may die between any
two steps, which releases its locks and leaves what it placed.  The history
variable `leaked` records which files a death, a failed removal or an
unacknowledged commit left behind.  `MediaCancellation` adds one thing: a
deletion's future may be dropped while its unlink is pending on the blocking
pool, so that the unlink happens after the locks are gone.

`UploadPreparer` models an upload as three tasks (request, owner, finalizer) and
the channels between them: slot permits, the owners' mutex, the start message,
the lease and the answer.  A request may vanish at every await.  Before it asks for
a slot its handler waits for the client (`Receive`): AtomPub buffers the whole body,
the web form its first field, and no stop ends that wait.
`ServerLifecycle` composes it with `ScheduledWorker` under the composition root:
one guard stands for the feed, maintenance and backup guards, which are stopped
together and drained in turn.  A killed process just stops; since all it leaves
that matters are spools, a life starts with some.

`Accounts` models the tables of sessions, credentials, ceremonies and tokens, the
base URL, and requests that walk through reads and write scopes.  A row is named
by the request that made it.  A password is its version; cryptographic checks are
a choice between success and the end of the request.  Any scope may roll back, or
commit without acknowledgement.  Time is one step per row (`ExpireToken`,
`ExpireCeremony`, `IdleOut`), pruning another.

The `*Proofs` modules hold the theorems, each extending the module it is about;
`FeedWorkerProofs` also rests on `PublisherProofs`, `ServerLifecycleProofs` on
`ScheduledWorkerProofs` and `MediaCancellationProofs` on `MediaManagerProofs`.  The
`MC*` modules declare the model values of the small instances.  Operators
commented "Mutant" are deliberate bugs, at least one per checked property, that
TLC must refute; no specification uses them.

## Runs

Passing:

- `publisher` (1.6M states): a worker, a handler and an editor, two hubs, with and
  without base URL, possibly a malformed stored hub, two generations, one failure.
  Cached rows and outstanding pings always belong to the stored configuration;
  repair spares a good hub; `PublisherInv`, the invariant of the proofs, holds;
  the seam implements `FeedPublication`.
- `feed_worker_serial` (250k): one tick at a time, two events, one seam failure,
  one lost queue write, one redrive, retention.  A feed that lags behind its posts
  always has an unfinished event or a visible dead letter; an event is done only
  after its content was cached; retry budgets are exact; done is final.
- `feed_worker_live` (220k, fair): worker, handler and editor compete for the
  gate, one failure anywhere.  Every edit waiting for the gate and every cache miss
  returns, and the composition takes only steps of `Publisher`.
- `feed_worker_overlap` (130k, fair): two ticks with expiring leases on one event,
  one dying tick or failed step, one lost write.  Completion still implies
  regeneration although status writes are unfenced, and the event is completed,
  dead-lettered or deleted in the end.
- `go_live` (3.4M): one post with a tag, every change, two overlapping passes,
  three instants, one failed enqueue, restart or invalidation.  A cached feed that
  does not show exactly the public posts is queued or will be by the next pass.
- `go_live_converge` (200k, fair): cached feeds converge to the public posts.
- `media` (2.6M): two tasks of two users over two names of one content and a second
  content, one Post with two revisions, one theme.  Every row has its file; a file
  that a row, a binding or a local reference names is never unlinked, except by the
  upload that has just created it; a file that nothing names was left by a death, a
  failed removal or a lost acknowledgement; holders of content locks never wait for
  each other in a circle (the SQLite writer is not part of that relation).
- `server_lifecycle` (270k, fair): two uploads for one slot, a leftover spool, an
  activation and a loop, from start to release.  Spools are bounded by slots, the
  prepared bytes stay as long as they are read, nothing is left working when the
  lock is released, and the guard of the workers is used as `ScheduledWorker`
  describes (`ImplementsGuard`).  Shutdown ends (`ShutdownEnds`) if no client stalls
  for ever before its request asks for a slot (`ClientsFinish`): clients of admitted
  uploads may stop sending or vanish.  The condition is needed: axum's drain
  (`serve_with_shutdown`) waits for every request in flight, without a timeout, and
  a handler that still reads its body sees no stop, so a client that stalls there
  holds shutdown until a second SIGINT.  With one slot two owners are never active
  at once; the theorems cover any number.  The guard's own
  properties are checked here too: the counter is exact and read after admission is
  closed (`DrainInv`), nothing is admitted after stop, its shutdown returns and its
  loops end.  Deadlock checking is off because a stopped server stops.
- `accounts` (2.5M): three requests of any kind, two users, two origins of one host
  and one of another, with expiry, pruning, failures and lost acknowledgements.
  Tokens and ceremonies take effect once; passkeys match the host in force and
  their user; sessions end with the passkey that opened them and with a reset; a
  registration belongs to a live session; only the newest link verifies an address.
  Deadlock checking is off because a behaviour has a bounded number of requests.

Violations, each a finding:

- `feed_worker_stale`: a cache-miss request lists the posts, a post changes, the
  worker commits the newer row and completes the event, and the request then
  commits its older row (same generation, so the fence passes).  The stale row
  stays until the next change.
- `media_cancel`: a deletion is dropped while its unlink is pending on the blocking
  pool (the client disconnected).  Locks and transaction are released, an upload of
  the same content finds the file still there and registers its row, and the unlink
  then removes the file: a row without a file.  The passing run `media` takes the
  unlink and the end of the deletion as one step.
- `go_live_delay`: a request reads clock 0 and is to create a post published at time
  1; time 1 comes; a cache miss renders and stores the feed without the post, with
  `generated_at` 1; the request commits, is classified by its clock as not yet public,
  and queues nothing.  No pass has run, and the first one will not help: its catch-up
  query wants a publication time greater than `generated_at`, and they are equal.  All
  passing GoLive runs assume `MaxRequestDelay = 0`: requests commit within the instant
  they read.

Bounds.  Two of each contended thing is what the hazards need (two ticks, two
events, one competing editor or handler); one path suffices because paths share
only the gate and the configuration.  Two generations let a reader be overtaken
twice; two content versions let an old render meet a newer row.  Budgets are one
retry instead of six, which reaches zero, one and exhausted.  GoLive uses one post
because feeds are sets of posts and no operation relates two posts.  The media run needs two
names of one content (a hard link placed while the other name is deleted) and two
contents (two locks to order); a second user makes a row outlive another's deletion.  Three account requests are what the
longest scenarios take: one that starts a ceremony or issues a link, one that
finishes it, one that interferes.  Symmetry (of passes, tasks or requests) is used
in safety runs only.

Fairness.  The runtime drives every started task (weak fairness of its steps); a
gate waiter polls every 10 ms, so one that finds the gate free again and again
takes it (strong fairness of taking the gate); the HTTP client has a timeout, so
pings return; time passes, so backoffs and leases end; the scheduler keeps
starting ticks.  In the server, a job ends, a child process answers or is
killed at its timeout, and the root continues a shutdown it has begun; no client
need send or stay, and nobody need signal.  That clients end what they send before
admission is a hypothesis of `ShutdownEnds`, not of the specification.  Nothing is assumed of faults,
operators, authors, editors or retention.

A limit of these results: `DoneIsFinal` is checked with one tick at a time only.
Status writes name rows by id, so with overlapping ticks one whose lease has ended
can move an event that another tick completed back to pending or failed; the
effect is repeated work or a dead letter for work that was done.

## Proofs

`PublisherProofs` proves, for any sets of processes, paths, hubs, identities and
windows: `TypeCorrect`, `InvCorrect` (`PublisherInv`), and from it
`CacheIsCurrent`, `PingsCurrent`, `RepairSpares` and `Implementation` (Publisher
implements FeedPublication).  Assumptions: the kinds of process are disjoint, the
special values differ from ordinary ones, bounds are natural numbers.

`CacheFromCurrentConfig` is not inductive: a commit preserves it only if what is
committed was rendered under the configuration whose generation the fence
compares.  `PublisherInv` adds that: snapshots of the current generation show the
current configuration (`SnapshotsAgree`), drafts follow their snapshot
(`DraftsFollowSnapshot`), the gate excludes edits from the publishing region
(`GateDiscipline`), and a row found for republishing can only disappear with its
generation (`RepublishedRowsStay`, `PublicationIsFenced`).  The key lemma is
`GatedChange`: every change of the configuration is made by the gate's holder.

`ScheduledWorkerProofs` proves, for any finite set of activations,
`DrainCorrect` (`DrainInv`), `CounterExact`, `ShutdownDrains` and
`AdmissionStaysClosed`.  `Drained` needs that the counter equals the number of
admitted jobs and that admission is closed before the counter is read.

`FeedWorkerProofs` proves, for any numbers of ticks, handlers, editors, paths and
events and any budgets, that the worker implements the seam
(`WorkerRefinesPublisher`), so that what `PublisherProofs` says holds of it too
(`WorkerPublishesCurrent`), and about the queue: `WorkerTypeCorrect`,
`CompletionFollowsRegeneration` and `ChangesUnforgotten` under any interleaving, and
`SerialBudgets`, `SerialDoneIsFinal` and `SerialNoUpdateIsLost` when ticks do not
overlap.  Assumption: the marks of an unused and of a deleted id are not rows.

- `DoneMeansRegenerated` is not inductive: a row is completed by a tick that works
  from copies.  `WorkerInv` says what those copies and plans are worth at every step:
  rows past regeneration have been fulfilled (`RowsFulfilled`), and so have the rows a
  tick holds in that phase (`CopiesSound`), those its pending writes will complete
  (`WritesSound`), and those whose hub it is about to ping (`PublishesFulfilled`); a
  draft was rendered from posts at least as new as its group's events
  (`DraftCovers`); and a plan of writes fits the group (`Planned`).  The argument is
  monotonicity: `reached` only grows, so a status write of a tick that lost its lease
  is late, never wrong.
- `ChangesUnforgotten` adds that the newest change of each path has an event
  (`NewestQueued`), made in the transaction of the change.
- `BudgetsAreKept` and `DoneIsFinal` compare a row with the copy of the tick that
  writes to it.  They need `PendingUntouched`: nobody else has written to a claimed
  row whose outcome is still to be recorded.  That is what overlapping ticks break,
  hence the hypothesis `Serial`.
- `NoUpdateIsLost` further needs that a cached row is the newest version the cache
  has held (`CacheIsNewest`), which a cache miss breaks: the theorem has
  `Handlers = {}` as a hypothesis, and `feed_worker_stale` is the counterexample
  without it.

`GoLiveProofs` proves, for any sets of posts, tags, requests and passes and any
bounds: `GoLiveTypeCorrect`, and, when requests commit at the clock they read
(`MaxRequestDelay = 0`), `StaleCovered` (`StaleFeedsAreCovered`) and
`SettledRowsAreExact`.  `go_live_delay` is the counterexample with a delay.
Assumption: `None` is no post row and no time.  The inductive invariant `GoLiveInv`
says of every cached feed that is not queued: its row shows what was public when it
was rendered (`RowsExact`); every post it shows at `last_tick` is no newer than the
row (`TickSeen`); the same holds at the clock of a pass that has read, for the feeds
it has not left to enqueue (`PassSeen`); and no clock is ahead of the time
(`Clocks`).  The key lemma, `UnqueuedFeedKeepsItsPosts`, is that a commit changes
nothing on a feed it does not queue, at any time up to now.  Then a pass takes over
what `last_tick` answers for (`LeftOutHasNoGap`), or the catch-up query does after a
restart, and hands it on when it ends; a failed pass hands on nothing, and a
`last_tick` that moves backwards only answers for less.

`MediaManagerProofs` proves, for any finite set of tasks and any sets of users, media,
Posts and themes: `RowsHaveFiles`, `UnnamedFilesKnown`, `LocksNeverCycle` and
`NamedFilesAreKept`, one for each property of the run, and the types.  The finiteness
of the tasks is used once, for the absence of wait cycles: in a set of waiting tasks
the hashes waited for would rise for ever.  `IInv` consists of the types with the
steps an operation can be at (`Typed`), the lock discipline (`LockInv`: a task past
its locks holds the lock of every content it uses, and waits only above the locks it
holds), and what the tasks know: a file an upload created has no row yet and one it
adopted was accounted for (`PlacedInv`), what a reclaim checked holds until its
transaction ends (`UnlinkInv`), bindings are backed by their owner's rows
(`BindingsOwned`) and unnamed files are accounted for (`FilesAccounted`).  Other
tasks do not disturb this: they would need the lock (`MediaFrame`) or the database
writer (`WriterExcludes`).

`MediaCancellationProofs` says what the finding of `media_cancel` does not reach.  The
invariant is stated for a set of media, and an abandoned deletion is, for the store, a
death; only the late unlink is new.  So for media none of whose deletions is ever
abandoned every row has its file (`CancellationIsConfined`), and the locks are safe in
any case (`CancelledLocksNeverCycle`).

`ServerLifecycleProofs` proves, for any finite sets of uploads and jobs and any number of
slots: `ServerRefinesGuard` (`ImplementsGuard`), from which `ServerDrains` and
`ServerAdmitsNoMore` follow by the theorems about the guard, and `ServerTypeCorrect`,
`SpoolsAreBounded`, `BytesStay` and `ReleaseIsQuiet`.  `ServerInv` relates the three tasks
of an upload (`Attempt`: who holds the slot, the spool, the lease and the mutex, and who
is tracked), says who can be left at each stage of start and shutdown (`Staged`), and
that the root leaves only after its workers were drained (`WorkersDrained`).

`AccountsProofs` proves, for any sets of requests, users, URLs and hosts:
`AccountsTypes`, `HostLocked`, `HandlesBound`, `ResetRevokes`, `SpentAtMostOnce`,
`GrantsEnd`, `CeremoniesOwned` and `AddressIsNewest`, one for each property of the
run.  Assumptions: the names of the initial rows are not those of requests, and
NULL is no user, URL or number.  Everything rests on `Core`: the types, what
requests in flight know (`Requesters`: they act for registered users, and whoever
finishes a registration carries the handle of its own user), and that rows belong
to registered users (`Known`).  Only `HostLocked` is inductive as it stands.
`FrameNext` says which step writes which table, and a few lemmas say how a table can
change in one step (`RequestsMove`, `TokensMove`, `CeremoniesMove`, `SessionsMove`),
so that each theorem deals with those steps only:

- `SpentOnce` needs `Spendable`: a live token, an open ceremony and a ceremony in
  the hands of a request have not been used, a claimed ceremony has one holder, and
  a name once used is never given to a new row.
- `GrantsStand` needs `Granted`: the passkey of a session belongs to the session's
  user, so deleting it finds every session it opened.
- `CeremonyHasSession` needs `SignedIn`: the session of a request was made by an
  ended one, so that no other session takes its name, and while it exists the
  request acts for its user.
- `NewestVerifies` needs `Latest`: a live verification is the newest of its user.

`ActiveCounts`, `Drained` and Publisher's `TypeOK` are conjuncts or consequences of
the invariants `DrainInv` and `PublisherInv`, which the runs check, and are stated
on their own by theorems only.

Only model-checked: liveness (`EditsReturn`, `MissesReturn`, `EventsSettle`,
`LiveFeedsConverge`, `ShutdownReturns`, `LoopsEnd`, `ShutdownEnds`), since fairness is
out of the prover's reach.  Every safety property of a passing run is a theorem, four of
them under the hypotheses named above: `BudgetsAreKept`, `DoneIsFinal` and
`NoUpdateIsLost` (ticks that do not overlap, the last also without cache misses) and
`StaleFeedsAreCovered` (no request delay).  The runs have the same hypotheses.

## Not modelled

Feeds: bytes, validators and conditional requests; WebSub redirects.  Everywhere:
diagnostics, metrics, logging and read-only listings; panics.  SQLite and
PostgreSQL are taken as serializable for the single statements and short
transactions the code uses; PostgreSQL's advisory and row locks are not modelled
separately.  Clocks are monotone.

Media: file modes (`chmod` is only a step that may fail; a crash before it leaves a
private file, which docs/adr/0223 accepts), metadata edits, the re-rendering of
`posts/refresh.rs`.  The quota check races with other uploads in the model as in
the code; no property says that it is exact.

Server: the runtime file, the startup mutex and the `shut-down` command; the
metrics sampler; forced exit at a second signal and orphaned children.  Requests other
than uploads: the drain waits for them too, as for a request that is still received
(such a request is `Receive` followed by `Refuse`), and for clients that are slow to
read an answer, which the model takes as sent when the handler returns.  The owner of
an upload retries failed removals of its spool and failed waits for its child; the
model takes the attempt that works.  When `admit` itself fails, dropping its temporary
directory is tried once; the model assumes that it is removed (`SpawnFails`), and if it
is not, the directory stays without a slot until the next start cleans up.

Accounts: passwords, signatures and the passkey counter; account deletion and
profile edits; several recipients of one reset request; the connection pool.  The
registration policy is read before the scope and may be anything.  A session whose
commit was not acknowledged may be used, which the code's client cannot do without
its token: more behaviours than the program has.  A sign-in whose password was
checked before a reset may create its session after it, in the model as in the
code.

Backup and restore, theme packages and assets, AtomPub beyond the start of an upload,
the web UI, rendering, the CLI, the Emacs client and the tooling have no module:
sequential I/O, parsing, presentation, or another program.

## Plan

1. Proofs with weaker hypotheses: what overlapping ticks keep of `BudgetsAreKept` (each
   tick overshoots a budget at most once), what a cache miss keeps of `NoUpdateIsLost`,
   and what a request delay keeps of `StaleFeedsAreCovered`.
2. `BackupRestore`: the exclusive lock, the staged copy and its promotion, a crash
   between two of its steps.
3. Theme packages and public assets, whose files and rows follow a protocol like
   that of media.
4. The runtime file and the `shut-down` command; AtomPub's `If-Match` preconditions.
