# JSONVault in TLA+

JSONVault is a JSON document store: a Go server (`jsonvault-core`) that keeps
each database in one bbolt file, and a Next.js dashboard (`jsonvault-ui`) that
is a client of it.  The modules here model the server's state machines and the
dashboard's pages with their server actions, TLC checks them on small
instances, and TLAPS proves the central properties for every value of the
constants.  Paths ending in `.go` are relative to `jsonvault-core/internal/`,
paths ending in `.ts` and `.tsx` to `jsonvault-ui/src/`.

1. [The system](#the-system)
2. [Modules and how they correspond to the code](#modules)
3. [Runs](#runs)
4. [Fairness](#fairness)
5. [Proofs](#proofs)
6. [Where code and documents part](#where-code-and-documents-part)
7. [What the models show beside the properties](#what-the-models-show-beside-the-properties)
8. [What is not modelled](#what-is-not-modelled)
9. [Plan](#plan)

## The system

| Component | State | Operations | Correct when |
|---|---|---|---|
| Documents, transactions (`store/document_write.go`, `transaction.go`, `ttl.go`, `metadata.go`) | buckets of one bbolt file: documents, counts, two TTL buckets, index buckets | create, put, patch, delete, execute transaction | derived buckets agree with the documents; a transaction is all or nothing; every change has its event |
| Collections (`store/collection.go`) | top-level buckets, and all metadata keyed by collection | create, delete, list | nothing of a deleted collection comes back with a new one |
| TTL sweeper (`store/store.go`) | the instant it read, its open write transaction | one purge per database per tick | takes what has expired, nothing else, and gets there in the end |
| Event log (`store/event_log.go`) | sequence, retained events, outbox rows | record, trim, replay | the retained log is the tail of the numbering |
| Event hub, SSE (`store/events.go`, `httpapi/handlers_subscribe.go`) | subscriber channels (capacity 100), last sequence sent | subscribe, publish, replay, forward, disconnect | no event twice, none out of order, none missed for good |
| Indexes (`store/index.go`) | completed list, build markers, buckets | create (batched), delete, maintain on write | a completed index is exactly the documents |
| Full-text search (`store/fts.go`) | configuration, postings, reverse map | configure (batched), maintain, search | a search returns the documents that hold the words |
| Handle cache (`store/store.go`, `dbhandle.go`, `database.go`) | LRU map of handles, gates, `deleting` flag, files | open, evict, view/update, create and delete database | no transaction on a closed file, no handle lost, no deadlock |
| Webhook outbox (`store/webhook.go`, `events.go`) | rows with status, attempts, lease; a queue of 1024; per-target limiter | enqueue, claim, deliver, fail, retry | at least once for every target, and every row is settled |
| Presence (`store/presence.go`) | client to expiry | heartbeat, leave, list, evict | a subscriber's view converges |
| Schemas (`store/schema.go`) | schema per collection, a compiled cache | set, get, validate | no write is judged by an outdated schema |
| Queries (`store/document_read.go`) | none | list, filter, sort, page | an index changes the speed, not the answer |
| Backup, restore (`store/store.go`, `restore.go`) | backup slots, temporary files | snapshot, restore | a crash leaves the old database or the new one |
| Authentication (`auth/auth.go`) | revocation list and its file | authenticate, mint, revoke | a revoked key stays out |
| Operations, audit log, rate limiter (`httpapi/operations.go`, `rate_limit.go`) | tracked operations; windows | start, cancel, finish; allow | the record says what happened |
| HTTP routing, process start | configuration | | |
| Accounts, sessions, projects (`lib/dashboard-auth`, `lib/session`, `lib/projects`, `app/projects`, `app/login`, `app/register`) | documents in Core, a signed cookie that all tabs share, the page of each tab | register, sign in and out, create, select and delete a project, act on it | a request acts for an account that may, on the project its page shows |
| Documents page (`app/dashboard/data`) | rows, editor, confirmation, stream, refresh timer, pages on their way | create, edit, delete, search, turn pages, switch collections | nothing unseen is overwritten; the rows catch up with Core |
| Document editor (`DocumentEditorPanel.tsx`, `document-editor.ts`) | fields, JSON text, error, tab | edit either tab, switch, save | the tabs, the error and what is saved agree |
| Schemas page (`app/dashboard/schemas`) | text, builder fields, tab, error | edit, validate, save, delete | the builder shows the text |
| Collections, indexes, operations pages | rows, panels, a call and its partial results | create, delete several, cancel several | the list catches up with what an own action did |
| Search page (`app/dashboard/fts`) | list of fields, draft, panel | add, remove, save the list | fields go to the collection they came from |
| Webhooks page (`app/dashboard/webhooks`) | rows, panel, secret, calls | add, remove, retry | the list catches up |
| Realtime console (`app/dashboard/realtime`, `app/api/realtime`) | stream, events, presence polls | listen, stop, publish, leave | shows the collection it names |
| API keys (`app/dashboard/keys`, `lib/api-keys`) | records in Core, table, panel with the token | mint, record, list | no key is minted and forgotten |
| Overview, documentation, shell | menus, theme | | |

How they interact.  A request goes through authentication to a handler, which
gets a database handle from the cache, takes the database's write lock (a
`sync.Mutex` in a map), runs a bbolt transaction, publishes the events to the
hub and releases the lock.  The hub offers each event to the subscriber
channels without waiting, and to the webhook queue.  The event log and the
outbox are written in the transaction of the mutation; the hub and the queue
only exist in memory.  Index and full-text builds are sequences of
transactions that take the lock for one batch at a time, or not at all.  The
sweeper, four webhook workers and the presence evictor are goroutines of their
own.

The dashboard's browser code calls server actions, which read the cookie, look
the selected project up in Core and send Core one request or several.  An
answer sets React state and makes Next.js load the page again; the properties
of that page replace parts of the state through effects.  Pages share nothing
in the browser but the cookie.

The behaviours that are hard:

* handlers that read before the lock, or publish after it; a clock read before
  a lock is waited for;
* multi-operation transactions that fail half way;
* batched builds between which documents, indexes and configurations change;
* handles evicted or deleted while a call still holds them;
* leases that outlive their workers, marks that come too late or never;
* bounded channels, queues, caches and trackers at their limit;
* a crash between a commit and its publication, a delivery and its mark, a
  removal and a rename;
* in the dashboard: answers, pages, polls and stream messages that arrive after
  the user, another tab or another client has moved on; actions of several
  requests that fail half way; one state kept in two forms.

`PROJECT.json` lists each of these hazards at its line, with the properties
that would notice it going wrong.

## Modules

Every `MC*` module EXTENDS the specifications it checks (and `TLC`) and gives
the constant sets that a cfg cannot write down.  Where it EXTENDS several that
share no state, a behaviour exercises one of them, chosen initially (`part`),
and the run is the union of their state spaces, not the product.  The
`*Proofs` modules are described under [Proofs](#proofs).

### `DatabaseFile`, `DocStore`, `DocumentMap` - one database

`DatabaseFile` holds no actions.  A record `db` stands for the buckets of one
bbolt file: `exists`, `docs`, `count`, `ttlIndex` (the purge index) and
`ttlByDoc`, `indexed`/`building`/`idx` for indexes, `seq`, `log` and `outbox`
for the event log.  Its operators are the bodies of write transactions:
`StoreDocument`, `MergeDocument`, `RemoveDocument`, `PurgeKey`,
`DropCollection`, `RecordEvent` and the ones they call, with every derived
bucket they touch.  Some operators take two records, the committed `base` and
the transaction's view `d`, because `Bucket.Stats` counts committed pages only:
`Trimmed` and `CollectionCount` show where that matters.  A body is a function
from fields to values and its own ETag (SHA-256 taken to be injective);
encryption is transparent.

`DocStore` has one action for each handler that commits what it read
(`CreateDocument`, `PutDocument`, `PatchDocument`, `DeleteDocument`,
`CreateCollection`, `DeleteCollection`).  `ExecuteTransaction` is
`BeginTransaction`, one action per operation, `CommitTransaction` or
`RollbackTransaction`; the purge is `SweepReadsClock`, `BeginPurge`,
`PurgeOne`, `CommitPurge` or `FailPurge`.  Both work on `wtx`, which is bbolt's
single writer.  `Crash` drops it.

`DocumentMap` is what clients are promised: a map that is changed by single
writes, by whole batches, by expiry and by dropping a collection, and a version
that numbers the changes.  `ImplementsDocumentMap` is the refinement, with the
open transaction of a client mapped to the batch and the sweeper to nothing
until it commits.

### `EventStream` - from the commit to the client

`Mutate` and `Purge` commit a batch of events, `PublishWithoutRecord` hands
over a transient one.  `PublishEvent`, `DropSlow` and `CloseSlow` are the three
phases of a publication (send under the read lock, then unregister and close
each slow subscriber under the write lock), and `Release` gives the database's
write lock back.  The purge publishes after the lock, the handlers before.
`Connect`, `ReadReplay`, `SendReplay`, `GoLive`, `Forward`
and `HandlerEnds` are `handleSubscribe` in its order; `IsDuplicate` is its
filter.  The client reconnects with the last number it received.

### `IndexBuild` - an index built while documents are written

`StartIndexBuild`, `CollectBatch`, `ApplyBatch`, `FinishIndexBuild` and
`AbortIndexBuild` are the transactions of `CreateIndex`; `Cancel` is the
context, `Abandon` an evicted handle or a crash, after which the deferred abort
does nothing.  Document writes use `DatabaseFile`'s operators, the same as in
`DocStore`.  Names are sequences of segments and an index bucket is named by
their concatenation, as `getIndexBucketName` joins them with underscores.

### `FullText` - the full-text index

`SetFTSConfig` clears the index and stores the fields in one transaction;
`CollectBatch` and `ApplyBatch` are its backfill.  Writes go through an open
transaction `ftsTx` of several operations.  `KeyN` is what `unindexFTS` asks of
bbolt: the number of keys in the *committed* pages of a token bucket.  There is
no build marker in the code, so "the backfill of the configuration in force has
ended" is a history variable, `filled`.

### `HandleCache` - handles, gates, files

A step is what a goroutine does between two points at which another may run:
taking `s.mu`, a write lock or a gate, and each file system call.  `Lookup`,
`Touch`, `Slow`, `CloseVictim`, `Retry`, `TakeFileLock` and `OpenTimeout` are
`getDB`; `GetMutex` to `Unlock` a transaction; `MarkDeleting` to `ForgetLock`
`DeleteDatabase`.  `handle` is every `*DBHandle` ever made, in the cache or
not, and `gen` tells a file from the one that later has its path.

### `WebhookOutbox` - deliveries

`Commit`, `Publish` and the bounded `queue` on one side; `TakeEvent`, `Ticker`,
`Claim`, `ReadHooks`, `Lookup`, `Enter`, `EndCall` and `Mark` are one worker.  A row
keeps the number of ticks it has to wait, for a retry or for its lease to
expire; a claim protects nothing else.  `owed` is history: the targets that
have been configured since the commit and have not answered with success.

The limiter of `webhookTargetLimiter` is a table of one channel per host
(`limits`) and the tokens in the channels.  `acquire` is two steps, as it
unlocks its mutex before it puts a token in: `Lookup` finds or makes the
channel, dropping idle entries (`Pruned`), and `Enter` takes the slot or is
refused.  `OtherLookup` is another database's delivery that prunes.  Time is
left open with one exception, which `Prunable` states: a worker does not take
the minute after which an entry counts as idle from the unlock to the token.

### `Operations`, `Revocation`, `SchemaGuard`, `Presence`

`Operations`: the record of a long-running operation (`start`, `markRunning`,
`finish`, `cancel`) next to the goroutine it describes.  `Revocation`: the map,
the file and the steps of `persistRevocationsLocked`, with crashes between
them.  `SchemaGuard`: which text a request read, and which compiled schema it
was judged by.  `Presence`: the list, what is still to be published, and a
subscriber that merges events as the integration guide says.

### `Workspaces` - accounts, the session cookie and projects

A request of a tab carries the cookie as it was when it was sent and goes
through its steps one at a time: `Login`, `RegisterFind` and `RegisterCreate`,
`Logout`, `CreateProject` and `SelectCreated`, `SelectProject`,
`DeleteProject`, or, for an action of a page, `RequireSelectedProject` or
`CheckProjectContext` and then Core.  `AnswerRequest` gives the browser the
cookie the answer sets, whatever another tab has set meanwhile.  A session is
its user, its selected project and its end; `created` is history.

### `DocumentsPage`, `LiveDocuments`, `DocumentEditor` - the documents page

`DocumentsPage` is what the user changes: an editor or a confirmation opened on
a row (with its ETag), the call it sends (one request for a save, one for each
document of a deletion), what Core does with each and the answer.  Contents
stand for their ETags, as Core's ETag is a hash of the content.
`LiveDocuments` is how the rows keep up: the address, pages read by the server
and drawn later, the stream of the collection on the screen, and the timer that
waits half a second after an event.  The stream may break at any time, be opened
again with the number of its last event (`liveReplay` is what Core will replay
then, which takes its log to retain the event), or be refused for good.  There a
collection is the number of writes it has seen.  `DocumentEditor` is the panel: a list of fields and a JSON text
that are converted to each other when the tab is switched and, for the fields,
on every edit.

### `SchemasPage`, `CollectionsPage`, `IndexesPage`, `OperationsPage`

Each has Core's side, the rows or the draft on the screen, the panels, the one
server action under way with its partial results, and the page that a success
asks for.  In `SchemasPage` a schema is the names of its fields and whether its
text says more than the builder shows (`more`); a broken text keeps the
builder's fields.  In `IndexesPage` an index is built at once or in the
background; in `OperationsPage` the record of an open panel is as old as the
click.  `colOwed`, `ixOwed`, `oprOwed` and `whOwed` are history: what an own
action has touched since the page was loaded.

### `SearchPage`, `WebhooksPage`, `RealtimePage`, `KeysPage`

`SearchPage` and `WebhooksPage` edit a list of one collection on the screen and
send it whole; `ftsOrigin` is history, the collection the list came from.
`RealtimePage` is the console: its stream, the polls that have no answer yet
(`mounted` is the effect's own variable), the events listed (by the collection
they are of), and streams that a page left behind.  `KeysPage` is the chain of
requests that mints a key, writes its record, and creates the collection of the
records when there is none, each of which may fail or stay unanswered.

What the browser and Next.js do is modelled from how the code uses them: a
server action under way keeps `isPending`, so buttons that look at it wait;
server actions of one page run one after another; a link or `router.push`
during a pending transition is committed after it; Back and Forward commit at
once, and the state of a client component survives a change of the search
parameters alone; `router.refresh` and `revalidatePath` bring new properties
later; an `EventSource` that breaks is opened again by the browser, one that is
refused is not.  To the browser it is the same whether another client's write
comes between the reading of a page and its arrival or just after, so a page
is read and drawn in one step except in `LiveDocuments`, where the stream makes
the difference.

## Runs

Distinct states in brackets; a run that is to find a violation stops there.

| Run | Expect | Question |
|---|---|---|
| `documents` (854k) | pass | do counts, both TTL buckets, the trimmed log and the refinement hold under every handler, transaction, purge and crash; are searches true and complete during and after two backfills? |
| `server` (280k) | pass | operations, revocations and schemas; do expired documents go? |
| `store` (246k) | pass | are files closed only when nobody uses them, and does every call return; is a completed index exact, and does a build end? |
| `deliveries` (393k) | pass | is nothing repeated, reordered or missed by a subscriber, and does it catch up; is no delivery lost, every slot of a host given back, and every row settled? |
| `dashboard` (406k) | pass | the twelve modules of the dashboard: see below |
| `events_replay` | violation | does a replay hold all that is retained? |
| `handles_leak` | violation | does every open handle stay reachable? |
| `index_two` | violation | is a completed index exact with a second build of the same index? |
| `search_tx` | violation | does a transaction of several operations leave the search complete? |
| `presence_view` | violation | does a subscriber see every client that sends heartbeats? |
| `project_switch` | violation | does an action work on the project that its page shows? |
| `queued_index` | violation | is an index that the page calls ready built? |

Bounds, and why they are enough:

* `documents`: two ids in one collection, one field with one value or none
  (two bodies, so a write can be a change or a repetition), a TTL of one
  second, a clock of two, four events with a retention of one (so that the log
  is trimmed, and trimmed again inside a transaction), transactions of up to
  two operations (one may fail after the other).  An expiry can be set, moved
  past a waiting sweeper, cleared, and met.  Ids are symmetric.  Searches: two
  documents of two fields, two backfills at once, a document a batch.
  Transactions there have one operation, as all requests but multi-document
  transactions have; `search_tx` has three.
* `server`: two operations with room for one record and one index; two keys
  that live two ticks in a time of five, so a record expires after its key and
  a later save prunes it; two collections, two writers, room for one compiled
  schema and two changes; documents in two collections, one id, two events and
  a clock of one, without symmetry, for the liveness property.
* `store`: two databases and one cache entry, so every open evicts; two
  goroutines with two calls each, one of which may delete.  Both databases are
  there at the start, so one that is not is one that was deleted; the proofs
  take any start.  `handles_leak`
  needs three goroutines: one deletes, one evicts its placeholder, one reopens.
  For the index, two documents and a batch of one (the cursor stands between
  them), two values, two fields, one build at a time.  It takes names whose
  bucket names differ; see [below](#what-the-models-show-beside-the-properties).
* `deliveries`: one handler next to the purge, channels of capacity 1, batches
  of two: every batch overflows a channel whose reader is slow.  Two
  connections, one after the other.  `events_replay` raises the batch above the
  retention, which is the case in question.  Two workers on one row is the
  smallest case of an expired lease; one host with one slot, so refusals
  happen, and its entry in the limiter's table can be dropped while the workers
  come for it; two attempts; a queue of one; two disturbances (transient events,
  manual retries, evictions, crashes) in all.  A second host would take eight
  times the states: that an event with several targets loses none of them, where one
  answers and another fails, is what `NoDeliveryIsLost` proves for any number.
* `dashboard`: two collections wherever a page can move from one to the other
  (the schemas page has one: its property is about one screen, whichever
  collection an answer is of, and two multiply its states by twelve); two contents of one document, so a write can
  change it or put it back; three writes of all clients together, so that one
  comes before, one during and one after a load or a break of the stream; documents and schemas of two
  fields, so that two rows can have one name; two accounts and two tabs with
  one project and a session that ends; two keys and two operations (the second
  starts while the first is owed something); one webhook address
  and one event, so that a collection has a target or none (that the option for
  all events stands alone matters only to the draft of the panel),
  and two removals confirmed before an answer.  With one document the branch of
  more than `MaxDocDeletes` targets is not reached, as it deletes nothing; the
  proofs cover it.  `project_switch` has two projects and one
  account, `queued_index` one field.
* `presence_view`: one client and one request suffice for the counterexample.

`CHECK_DEADLOCK FALSE` stands where a bound on calls or events lets the model
stop: `handles_leak`, `store`, `server`, `presence_view`, and the runs of the
dashboard, whose users may run out of keys, projects or writes.  In the other
runs something can always happen.

What they show.  The derived buckets stay true to the documents, the purge
takes only what has expired at its commit although it read the clock before it
waited, and a multi-document transaction is invisible until it commits whole.
A subscriber never sees a number twice or out of order, and misses no mutation
of a request after the first it received, though it may miss events of a purge
(they are published out of the order of commits).  A completed index is exact
against any writes, if no second build of the same index overlaps the first.
The gate keeps eviction and deletion away from running transactions; no lock
order among `s.mu`, write locks, gates and file locks leads to a call that does
not return.  No outbox row goes before its targets have answered.  The slots taken
of a host are the calls to it, so every slot comes back and no host has more
calls than slots, although the limiter drops and makes channels between a
worker's look at its table and its call (`SlotsComeBack`).  A ready
operation has its index, and a cancelled one has not; an acknowledged
revocation survives crashes, other saves and pruning; no write is judged by a
schema older than its request; no search returns a stale document, and after
the backfill it finds every document, unless a transaction of several
operations took a word out again that it had brought in.

For the dashboard: an edit or a deletion replaces the content that the user was
shown when the editor or the confirmation opened, whatever was written or
loaded since (`EditsReplaceWhatWasLoaded`); the editor's two tabs, its error and
what it saves agree through every sequence of edits and switches
(`EditorIsHonest`), and so do the two forms of a schema (`BuilderShowsTheText`).
Core is used only for a project that the session's user owned and that was not
deleted when the request was let through, and only while the session lasts
(`RequestsAreEntitled`).  A minted key has a record or came with a warning
(`KeysAreAccountedFor`).  The search fields are saved to the collection they
were loaded for (`FieldsStayWithTheirCollection`), and the console shows what
belongs to the collection it names (`ConsoleShowsItsCollection`).  Five lists
that are behind after an own action, or after a write that the stream reports,
at once or when it has been opened again, catch up (`PagesCatchUp`).

## Fairness

| Module | Assumed | Justified by |
|---|---|---|
| `DocStore` (`LiveSpec`) | WF of a transaction's own steps and of the sweeper; SF of `BeginPurge` | a handler runs its loop to the end; `time.Ticker` keeps firing; `sync.Mutex` goes into starvation mode after a millisecond and serves the waiter. Without crashes and undecryptable documents: the property is about a process that stays up |
| `EventStream` | WF of each publisher and of each connection | goroutines run; publishing never waits for a reader; a client reads or is disconnected. Crashes are allowed |
| `HandleCache` | SF of each goroutine's next step | the same fairness of mutexes, and a waiting writer holds back new readers of an `RWMutex`; calls are bounded by `MaxCalls`, so nobody is overtaken by endless new calls |
| `IndexBuild` | WF of each build | its goroutine runs, bbolt admits writers in turn |
| `WebhookOutbox` | WF of each worker and of the clock | HTTP clients have timeouts, so calls end; the ticker wakes idle workers. Disturbances are bounded by `MaxExtras` |
| `Operations` | WF of each started goroutine | nothing in it waits for a client |
| `LiveDocuments` | WF of reading and drawing a page, of opening the stream, of the timer; SF of handling a message | the server answers, and the browser runs its effects, messages and timers; SF, as streams may break any number of times, which takes the message away until Core replays it: one of them lasts long enough. Nothing is assumed of users or other clients, whose writes are bounded by `MaxLiveWrites` |
| `CollectionsPage`, `IndexesPage`, `OperationsPage`, `WebhooksPage` | WF of the page that a success has asked for | `router.refresh` and `revalidatePath` bring it; a page that could not be read shows an error, or an empty list, which is a page like any other |

`FullText`, `Revocation`, `SchemaGuard`, `Presence` and the other modules of the
dashboard are checked for safety only and assume no fairness.

## Proofs

Each theorem holds for every value of the constants that the named assumptions
of its module allow.  The assumptions say no more than the code does: sets of
names are not empty, limits are positive, and a model value that stands for "no
transaction", "no document" or "no file" is none of the things it is told
apart from (`NoBatchAssumption`, `MarkersAssumption`, `CacheAssumption`,
`BuildAssumption`, `EditorAssumption`, `SchemasAssumption` and others).
`EditorAssumption` adds what `Number` and `String` do: a number is written as a
text that parses as the same number.

All proofs follow one pattern: an inductive invariant, a lemma that the initial
states have it, one lemma per group of actions, and a last temporal step.

| Module | Theorem | Property |
|---|---|---|
| `DocStoreProofs` | `TypeCorrect`, `Consistent`, `CountsCorrect`, `TTLBucketsCorrect`, `LogCorrect` | `DocStore`'s `TypeOK`, `CountsMatchDocuments`, `TTLBucketsAgree`, `RetainedLogHasNoGap` |
| | `PurgeIsSafe` | `PurgeTakesOnlyExpired` |
| | `NewestEventIsRight`, `ChangesLogged` | `NewestEventIsTheDocument`, `ChangesAreLogged` |
| | `MapImplemented` | `ImplementsDocumentMap`, the refinement of `DocumentMap` |
| `StoreProofs` | `HandlesTypes`, `NoTransactionOnClosed` | `HandlesTypeOK`, `NoTransactionOnClosedDatabase` |
| | `CompletedIndexes`, `Backfills`, `OneBuilderIsEnough` | `CompletedIndexIsExact`, `BackfillMissesNothing` |
| | `BuildsTypes`, `StoreTypes`, `StoreHasBothParts`, `StoreIsRight` | `BuildsTypeOK`, `MCStore`'s `TypeOK`, and the above of the run `store` |
| `EventStreamProofs` | `StreamTypes`, `NoSendOnClosed`, `ClientReceivesInOrder` | `EventsTypeOK`, `ClosedIsUnregistered`, `ReceivedInOrder` |
| | `NoMutationIsMissed`, `EnoughIsReplayed` | `OnlyPurgesAreMissed` |
| `FullTextProofs` | `SearchTypes`, `SearchesAreTrue`, `SearchesAreComplete` | `FullTextTypeOK`, `SearchReturnsNoStale`, `SearchFindsAll` |
| | `DatabaseTypes`, `DatabaseHasBothParts`, `DatabaseIsRight`, `DatabaseFindsAll` | `DatabaseTypeOK`, and the theorems of `DocStoreProofs` and `FullTextProofs` of the run `documents` |
| `WebhookOutboxProofs` | `NoDeliveryIsLost`, `NoSlotLeaks`, `LimiterHolds`, `OutboxTypes` | `NothingIsLost`, `SlotsComeBack`, and from the latter that no host is called too often (`TargetsAreSpared`), `WebhookOutbox`'s `TypeOK` |
| | `DeliveriesTypes`, `DeliveriesHaveBothParts`, `DeliveriesAreRight` | `DeliveriesTypeOK`, and the safety of both parts of the run `deliveries` |
| `ServerProofs` | `RecordsTellOutcomes`, `FinalStatesStay` | `RecordTellsOutcome`, `FinalStaysFinal` |
| | `RevokedKeysStayOut`, `RecordsOutliveTokens`, `RevocationTypeCorrect` | `RevokedStaysOut` |
| | `JudgedByNoOlderSchema` | `NeverJudgedByAnOlder` |
| | `OperationsTypeCorrect`, `SchemaTypeCorrect` | `OperationsTypeOK`, `SchemaTypeOK` |
| | `ServerTypes`, `ServerHasItsParts`, `ServerIsRight` | `ServerTypeOK`, and the above of the run `server` |
| `DashboardProofs` | `EditsAreGuarded` (with `DocumentsInvariant`), `FieldsGoHome`, `ConsoleIsRight`, `KeysAreKept`, `OnlyEntitledRequests` | `EditsReplaceWhatWasLoaded`, `FieldsStayWithTheirCollection`, `ConsoleShowsItsCollection`, `KeysAreAccountedFor`, `RequestsAreEntitled` |
| | `EditorStaysHonest`, `BuilderStaysTrue` | `EditorIsHonest`, `BuilderShowsTheText` |
| | `DashboardTypes`, `DashboardHasItsPages`, `DashboardIsRight` | `MCDashboard`'s `TypeOK`, and the above of the run `dashboard` |

`OrderFacts` holds the lemmas that these modules share: the least and the
largest element of a set of numbers, what a batch, the first so many elements
after a cursor, holds and leaves behind, and lists of bounded length.

The arguments, and why each invariant must be stronger than its property:

* **Documents** (`DocStoreProofs`).  `Good(d)` is what a file is between
  transactions.  Every operator of `DatabaseFile` keeps it (one lemma each,
  with what it leaves alone).  But a commit publishes whatever the open
  transaction built, so `IInv` asks `Good` of its view too.  It also says that
  the view knows every collection of the file: a collection without a stored
  count is counted in the committed pages, and that is right only because it is
  new in this transaction, and was empty before it.
* **The purge.**  It holds the write lock from `BeginPurge`, so the file keeps
  the expiries it began with; what its view lacks carried an expiry no later
  than the instant the sweeper read, which lies in the past.
* **The log.**  `LogInv` compares the open transaction's view with the file it
  began from: whatever it has changed, it has numbered past the file's last
  number (`Numbered`), and the newest retained event of a document that lives,
  or that it has changed, tells what the document is (`LogTells`).  Neither
  follows from the file alone, since a commit publishes the view; and more is
  not true, since a deleted collection leaves its events behind.
* **The refinement.**  The map's batch is the open transaction's contents and
  the number of operations it has left; a purge maps to one step at its commit,
  which `PurgeInv` and `PurgeNumbers` describe: it removes documents, and takes
  one number for each.
* **Handles** (`StoreProofs`).  `HandlesInv` says of every call what is so at
  its place in the code (`Sound`): who opens a file holds `s.mu` and the name
  has no entry, who closes a handle has marked it first, and a call inside a
  transaction has an open handle; and of the cache that a closed handle is
  marked and that the eviction order lists just the opened handles in the map.  None of it
  says that a handle is reachable, which `handles_leak` refutes: a forgotten
  handle is never closed, so no transaction meets it closed.
* **Index builds.**  `BuildsInv` says what a build's bucket and batch have
  between them at each place in the code, for all documents up to the cursor,
  and that writers keep a bucket right from the moment its marker is written.
  It holds while no two goroutines build one index (`BuildsApart`) and no two
  indexes share a bucket (`NamesAreDistinct`).  Both hypotheses are needed:
  `index_two` breaks the first, names with underscores the second.
  `OneBuilderIsEnough` discharges the first for a single builder.
* **The event stream** (`EventStreamProofs`).  `ClosedInv` says that whoever is
  about to close a channel has taken it out of the map.  `OrderInv` says that
  what waits in a replay continues what the client has, and that the last
  number sent, which the duplicate filter looks at, is the last received.  For
  `OnlyPurgesAreMissed`, `FollowInv` says where each mutation is that the client
  lacks (`Coming`): in the replay or the channel, in the hands of a publisher
  that is going to offer it to a registered subscription, or past all of these
  on a connection that has been dropped or is about to be, which sends nothing
  newer, so that the next replay brings it.  That needs each replay to reach the end of the log
  (`ReplayIsComplete`), which the limit of 1000 events can break, as
  `events_replay` shows; `EnoughIsReplayed` proves it for any limit that covers
  the retention and one transaction.
* **Search** (`FullTextProofs`).  Every posting is in the reverse entry of its
  document and true of the text the document has now.  Deleting a whole token
  bucket by mistake keeps that: the code's error in `search_tx` loses documents
  but never shows a wrong one.  So `SearchesAreTrue` holds for transactions of
  any length, and `SearchesAreComplete` for those of one change
  (`FtsMaxOps <= 1`), all that the single-document handlers make: `FoundInv`
  adds that every document up to the cursor of a current backfill is posted
  under each of its words, and that a key count of 0 then means an empty bucket.
* **Webhooks** (`WebhookOutboxProofs`).  A worker that has seen no failure
  still has to call, or is calling, all that its event is owed to.  So it may
  delete the row although its lease has run out and another worker has it.
  For the limiter, `LimiterInv` says that a worker between its look at the table
  and the end of its call holds the channel that the table has for its host, and
  that the tokens in that channel are the calls.  The first fails if an entry
  may be dropped while a worker is about to enter its channel, and then two
  channels of one host admit twice the calls.
* **Operations, revocations, schemas** (`ServerProofs`).  Only the goroutine
  writes a final state, as its last step; by then it knows whether the index is
  complete.  From the acknowledgement of a revocation on, the map, the file and
  every save under way hold a record of the key that lasts as long as the key;
  the theorem excludes what follows a failed rename, see
  [below](#what-the-models-show-beside-the-properties).
  `RecordsOutliveTokens` says that the branch of `isRevoked` that drops an
  expired record never lets a living key in.  A collection's schema only gets
  newer, a request reads its text after it came, and a compiled schema is used
  only with the fingerprint of that text, whatever the cache holds.
* **Dashboard** (`DashboardProofs`).  `DocumentsInv` adds to the types that the
  ETag of an open editor is of the content it was opened with; a call copies it
  when it is sent, so the rows may change.  `EditorInv` says that the error, the
  text and the fields are always of one document, and that a panel nobody
  changed shows no error; it rests on `DocumentRoundTrip`, that a document
  opened as fields is read back as it was.  `SchemasInv` has to speak of the
  call under way: the answer of a save clears the error whatever the screen
  shows by then, which is right only because no step between sending and
  answering can put a broken text there (`CallsAreOfGoodTexts`).
  `SearchPageInv` says that the list on the screen was loaded for the collection
  on the screen, which is why the save may take the one for the other.
  `RealtimeInv` adds `PollsThatCount`: a poll that is still mounted is of the
  collection shown, while the console listens; a late answer of any other is
  dropped.  `KeysInv` says which key a call under way carries, so that none is
  lost between the minting and the answer.  `WorkspacesInv` says that every
  session anywhere, in the cookie, in a request or in an answer, ends no later
  than its length after it was created: a changed selection does not renew it.

* **The composed modules.**  Each run of several components has a specification
  of its own: `DatabaseSpec`, `ServerSpec`, `DeliveriesSpec` and the `Spec` of
  `MCStore` and `MCDashboard`.  The theorems `...HaveBothParts`, `...HasItsParts`
  and `DashboardHasItsPages` show that it implies the specification of every
  part: an initial state of the whole is one of the part, and a step of the
  whole is a step of the part or leaves its variables alone.  So each theorem
  about a part is one about the whole, which the theorems `...IsRight` and
  `...AreRight` spell out, and the composed type invariant is the conjunction
  of those of the parts.
* **Types that need more than types.**  The order list of the operations holds
  each tracked operation and is cut to its limit (`TrackerInv`); the cache of
  compiled schemas makes room before it grows (`CacheInv`).  A webhook row may be
  attempted once more than its bound by every worker that claimed it before the
  bound was reached: `AttemptsAreFew` counts these workers.  Index builds are
  well-typed whatever happens, `BuildsTyped` needs neither hypothesis of
  `CompletedIndexes`; it adds that each document of a batch has the field.  The
  rows of the data page number at most the writes so far (`LiveInv`, for any
  bound `LiveAssumption` allows), and the calls of the webhooks page are a
  sequence of saved lists and retries (`WebhooksInv`).

For the proofs, loops are written without recursion: `Recorded` cuts off the
events that the trim of a whole batch deletes, and `After` seeks the first
event past the cursor and takes up to the limit.  Both are what the loops of
`event_log.go` compute.  No module declares a RECURSIVE operator.

Only model-checked: everything under fairness (`ExpiredDocumentsGo`,
`OperationsEnd`, `EveryCallReturns`, `BuildEnds`, `ClientCatchesUp`,
`RowsSettle`, `PagesCatchUp`), as liveness and ENABLED are out of this prover's
reach.  Every other property of a passing run is a theorem of the specification
that the run checks, two of them under the hypotheses named above:
`CompletedIndexIsExact` (with `BackfillMissesNothing`) is false with two
builders on one index, `OnlyPurgesAreMissed` where a replay is cut short.
`SearchFindsAll` is a theorem for transactions of one change, and false for
longer ones.  The runs `index_two`, `events_replay` and `search_tx` say how.

## Where code and documents part

1. **`events_replay`** - `handleSubscribe` replays 1000 events, oldest first,
   but a database may retain more after a multi-operation transaction; the
   newest are left out and the live events that follow hide the gap.
2. **`handles_leak`** - `DeleteDatabase` ends with `delete(s.dbs, name)`,
   whatever handle the entry holds by then.  A handle opened meanwhile on the
   recreated database is forgotten without being closed, and its file lock
   makes later opens fail.
3. **`index_two`** - a build marker does not say whose it is.  After a deletion
   and a second `CreateIndex` the first build completes a bucket that lacks
   the entries it wrote to the old one.
4. **`search_tx`** - `unindexFTS` deletes a token bucket when
   `Bucket.Stats().KeyN` is 0, which counts committed pages: a transaction that
   puts two documents with a new word and then deletes one of them loses both
   postings.
5. **`project_switch`** - the actions of the collections, documents, schemas,
   indexes and keys pages take the project from the cookie and are told nothing
   of the page they come from.  After another tab has selected another project
   they delete, write and mint there, while the page still shows the first one.
   The search, webhooks, operations and realtime actions compare
   `project.id !== projectId` and refuse.
6. **`queued_index`** - the state of an operation, "queued", is kept as the
   state of an index, for which the page has no badge of its own and shows
   "Ready".
7. **`presence_view`** - a heartbeat that revives an expired, not yet evicted
   entry is no join; a subscriber whose snapshot fell in between does not see
   the client.

The quoted sentences of the documents are in `PROJECT.json`.

## What the models show beside the properties

Facts of the code that the models contain and no property forbids, because the
documents promise nothing else, or because they are a matter of taste:

* Two index names can meet: `getIndexBucketName` joins names with an underscore
  that may occur in them.  `IndexBuild` with collections `<<"a">>`,
  `<<"a", "b">>` and fields `<<"c">>`, `<<"b", "c">>` violates
  `CompletedIndexIsExact`: the second build empties the bucket of the first.
* A full-text configuration is reported as ready from its first transaction on;
  a backfill that failed or crashed leaves it so, with documents missing.
* `DeleteDatabase` waits for the transactions of the cached handle only: an
  evicted one may still be running a query on the unlinked file.
* The cache limit counts map entries; evicted handles that still run queries
  keep their files open besides.
* A handle can be evicted between `getDB` and its transaction; the request is
  then answered with not found.
* `delete(s.writeLocks, name)` happens while the mutex is held: two callers may
  then hold different mutexes of one database, with bbolt's lock between them.
* The trim of the event log takes the log's size from committed pages for every
  event of a transaction, so a long transaction can trim more than it adds, or
  leave more than the retention.
* A collection that is deleted leaves its events in the log, and a replay
  tells a subscriber of documents of the collection's former life.
* A refusal by the webhook limiter counts as an attempt; the retry endpoint
  resets a row that a worker has claimed.
* A worker that took a minute between the unlock and the token of `acquire`
  could enter a channel that the limiter has dropped, and its host would then
  get up to twice the calls.  `Prunable` rules that out.
* The index quota is looked at before the build starts, so concurrent calls
  exceed it.
* A put is validated before it waits for the lock: `SetSchema` may commit in
  between, and the document is stored after a schema it violates.
* When the rename over the revocation file fails, the code removes the file
  and renames again; a crash or a second failure in between loses every
  revocation at the next start.  `RevokedStaysOut` says so (`renameFailed`).

Of the dashboard, with the definition that stands for the code in question:

* A deletion of more than 50 documents deletes none and answers with a warning,
  but the page drops the rows until it is loaded again (`TooMany`,
  `AnswerDelete`).
* A schema text that is valid JSON but no object leaves the builder without
  fields and without an error (`HandleSchemaChange`).
* A list that could not be read is an empty list on the search and webhooks
  pages; saving then replaces what Core has (`LoadFtsPage`, `LoadWebhooks`).
* A webhook target is added or removed by sending the whole list of the screen:
  what another client has added since is lost (`HandleSaveTarget`).  The modal
  of a removal may be confirmed again while the first call runs
  (`ConfirmRemoveSelectedTargets`), and an answer sets rows and secret although
  the page shows another collection by then (`ShowSavedList`).
* A write between the reading of a page and the opening of its stream is not
  shown until something else happens, nor one that comes while a stream that has
  not received an event yet is broken, nor any after the stream was answered
  with an error (`liveMissed`, `Resumes`, `LiveStreamIsRefused`).
* Registration looks for the email and then writes: two at once create two
  accounts of one email, and neither can sign in (`RegisterFind`,
  `FindDashboardUserByEmail`).
* An answer that sets the cookie late undoes what another tab has signed in,
  signed out or selected (`AnswerRequest`); a project is created although the
  session has ended before it can be selected (`SelectCreated`).
* The token of a new key is shown once; opening the panel again drops it
  (`OpenCreateKey`).  When the answer of Core is lost, a key exists that nobody
  knows (`CreateProjectRuntimeApiKey`).
* A deletion of several collections of which some fail is announced as success
  or a warning, and hides the failed rows until the list is loaded again
  (`AnswerDeleteCollections`, `DeleteIsError`).
* Saving in the schema builder drops what it does not show
  (`FieldsToSchemaText`); the answer of a saved schema changes the screen of
  the collection that is shown by then.
* A cancellation of several operations counts all of them in its notice,
  refused ones too (`AnswerCancel`, which leaves the wording out).
* A realtime page that is left does not close its stream (`rtLeft`), and an open
  stream outlives the session and the selection of its project
  (`SubscribeRoute`).

## What is not modelled

* *Queries*: `document_read.go` is a pure function of a snapshot; its filters,
  sort orders and the choice of an index are left for operators against a
  reference definition.
* *Backup and restore*, *rate limiter*, `Store.Close`: see the plan.
* *Encryption, validation, errors*: pure functions over bytes whose failure
  refuses a request without a trace.
* *HTTP routing, metrics, audit log, process start*: translation and appending
  without state that anything reads back.
* *Overview, documentation pages, shell, themes*: rendering.  The widgets of
  `components/ui.tsx` are part of the pages only where they decide what can be
  clicked.
* Details left out of modelled components: what a JSON schema accepts, how a
  text is cut into words, the postings' older format, signatures and address
  checks of webhooks, token parsing and scopes, a configuration without a
  revocation file (nothing is kept then), the older revocation file format; in the dashboard, password hashing and the
  signature of the cookie, filters of rows that are already loaded, wording,
  and what a loaded page looks like to a user without a capability.

## Plan

Done: the server's modules except those below, and the dashboard's pages;
proofs of every safety property that a passing run checks, for the
specification of the run.

Next, in this order:

1. `Restore` (backup slots, the restore's remove and rename, crashes,
   the pending deletion of the cached handle) and `RateLimiter`, as further
   parts of `MCServer`.
2. `Queries`: `ListDocuments` with filter, sort, limit and the choice of an
   index or a search, against a definition that scans; the result must not
   depend on the plan, and pages must not overlap.
3. `Store.Close` in `HandleCache`; the deletion and re-creation of a database
   in `EventStream`, where the numbering starts again.
4. The dashboard composed with the server: `LiveDocuments` over `EventStream`,
   `IndexesPage` over `IndexBuild` and `Operations`, in place of the abstract
   Core each page has now.
5. Proofs: the invariants on which the liveness properties rest, such as that
   a refresh or a message is under way whenever a page is behind
   (`DocumentsBehind` and its like).
