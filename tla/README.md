# Livequery in TLA+

Livequery is a family of TypeScript packages for queries that stay live: a client keeps documents
on the device, lets the application change them while it is offline, sends the changes when it can,
and is told by a realtime gateway what others changed. This directory models the parts where an
order of events decides whether a write is lost, sent twice, or shown wrongly.

| module | models |
| --- | --- |
| `Outbox.tla` | the durable write queue, `client/src/LivequeryOutbox.ts` |
| `LocalFirst.tla` | the local-first write path, `client/src/LivequeryClient.ts`; extends `Outbox` and implements it |
| `Collection.tla` | a local-first list on the screen, `client/src/LivequeryCollection.ts` with the broadcasts and pages of the client |
| `Sync.tla` | the sync of a collection, `client/src/LivequerySync.ts`, with the server and the subscription it depends on |
| `Live.tla` | a server-first list from the write on the server to the screen: `rest/src`, the queries of the client, the subscription of a read (`honojs`, `nestjs`) and the gateway's view of a client |
| `Subscriptions.tla` | what a gateway promises of the subscriptions of a client (abstract) |
| `Gateway.tla` | the realtime gateway, `core/src/WebsocketGatewayBase.ts` and its adapters; implements `Subscriptions` |
| `Hibernate.tla` | the gateway in a Durable Object, `core/src/cloudflare`; implements `Subscriptions` |
| `Changefeed.tla` | writes through REST on Mongo, Postgres and D1, the feeds that report them and the refs each is told to |
| `Paging.tla` | filters, sorts and pages at the client, over IndexedDB, Mongo, Postgres and D1 |
| `*_proofs.tla` | theorems on `Outbox`, `LocalFirst`, `Collection`, `Gateway`, `Hibernate`, `Live`, `Changefeed`, `Paging` and `Sync` (those on `Outbox` are in `LocalFirst_proofs`), each proved for every value of the constants |
| `MC*.tla` | symmetry sets and constants for TLC |

Run TLC with `tlc -config Client_crash.cfg MCLocalFirst.tla` (the table of runs names the module of
each configuration) and the proofs with `tlapm LocalFirst_proofs.tla`.

All paths below are relative to `src/packages/`.

## 1. Inventory

### The write queue (`client/src/LivequeryOutbox.ts`)

*State.* Entries `{ id, op, document, attempts }` in the storage, the drain loop with its stale head,
`#inflight`, `#stalled`, `#again`, the chain of `#serialize`, the waiters of `enqueue()`, a backoff timer.
*Operations.* `start`, `stop`, `trigger`, `enqueue`, `remap`, `cleared`.
*Interaction.* The client enqueues, the loop calls `execute` back; other tabs share the storage and
contend for `navigator.locks`.
*Hard.* Every storage call is an await, so two calls of `enqueue`, the loop, a flush, a stop and other
tabs interleave. *Correct when* entries go out first in first out, one sender at a time; whoever
waits is settled with what happened to his entry; a queue with entries never sleeps for good.

### The local-first write path (`client/src/LivequeryClient.ts`)

*State.* Stored documents with `_prev` (unsent fields), `_adding`, `_deleting`, `_*_error` and their
version; intents, written before a mutation touches its document.
*Operations.* `add`, `update`, `delete`, `retry`, `flush`; `#recover` at start; `#execute` with
`#confirmAdd`, `#confirmUpdate`, `#confirmDelete`, `#failed`; the ingestion of what the server says.
*Interaction.* Mutations go through the queue; `#execute` talks to a transporter; ingestion is fed by
queries, realtime and the reads of a version conflict.
*Hard.* A crash between the intent, the document and the entry; lost answers; read-then-write with
an await in between in confirmations and ingestion. *Correct when* an offline document is not lost, an
update does not precede its add, nobody's value is overwritten unseen, versions do not go back,
every mutation resolves and every mark is settled.

### Lists (`client/src/LivequeryCollection.ts`, `helpers/AddLock.ts`)

*State.* The items, the window (what the pages loaded so far hold), the cursor of the next page, `status` and
what it is made of (`loading`, `error`, `completeness`, answered or not), filters.
*Operations.* `initialize`, `query`, `sort`, `loadMore`, `#applyChanges`, `#reconcile`, `#clip`.
*Interaction.* `client.query` pages the storage, which may first ask the sync for the next older page;
`client.watch` brings emissions of queries, of the sync and of every write on the device; `AddLock` holds `added`
events back while an add is under way.
*Hard.* Pages, broadcasts and answers of older calls reach one list in any order, each moving its window or its
cursor. *Correct when* the list shows what the device holds, what it does not show can still be loaded, and
`loading` ends.

### Live queries (`rest/src`, queries of `LivequeryClient.ts`, `honojs`, `nestjs`)

*State.* Topics with a count of listeners and unsubscribe timers, a queue of frames while closed, `gid`; per
collection a stream with its answer; the subscription at the gateway.
*Operations.* `listen` and its finalizer, connect, drop, `refetch`, `query`, the read and its registration at
the server.
*Hard.* Frames travel over the socket and answers over HTTP; timers capture topic objects; the first emission of
a stream is taken for the answer. *Correct when* a ref that is listened to is subscribed, and when all has arrived
the list is what the server holds.

### The realtime gateway (`core/src/WebsocketGatewayBase.ts` and adapters)

*State.* `_connections`, `_subscriptions` (ref to clients), the `refs` of each socket,
`_pendingDisconnects` (grace timers), `_missed`.
*Operations.* `onConnection`, `onMessage` (`start`, `unsubscribe`, `subscribe`), `onClose`, `handle`/`listen`,
`detach`, `next` (a change), `link` (peer gateways), `close`.
*Interaction.* Adapters (`WebsocketGateway`, `BunWebsocketGateway`, `EdgeWebsocketGateway`, the
hibernating Durable Object) wrap sockets; HTTP handlers subscribe after an authorized read.
*Hard.* Half-open sockets, takeovers, late and repeated closes, grace timers with captured refs.
*Correct when* a connected client keeps what it listens to, a gone one is forgotten, and what a
dropped client missed reaches it once and in order.

### The hibernating gateway (`core/src/cloudflare`)

*State.* The registry of the gateway in memory; `sub:` and `expire:` records and one alarm in the storage; what is
attached to each socket.
*Operations.* Upgrade, `start`, `register`, `unsubscribe`, close and error, the alarm, `#restore` after an eviction.
*Hard.* The object is evicted between any two events while its sockets stay open, also between an expiry and its
alarm; sockets are restored in no order that says which is the newest. *Correct when* it is a gateway all the same.

### Change feeds and datasources (`mongodb`, `postgres`, `d1`, `honojs/src/realtimeMiddleware.ts`)

*State.* The rows; the connection of a subscription and its retries; nothing else between two requests.
*Operations.* `#post`, `#put`, `#patch`, `#del` under the keys of a route, the trigger or the change stream,
`watch` with its retries, `#format` (the refs a change is told to), the publishing of what D1 wrote.
*Hard.* `updateLookup` reads a document later than its change; a row moves between parents; a feed drops and is
made again while its subscriber leaves; a client asks for the same add twice. *Correct when* the lists of every
parent follow the database, and a feed comes back alone.

### Queries and pages (`client/src/helpers`, `LivequeryIndexedDBStorage.ts`, `MongoQuery.ts`, `PostgresQuery.ts`, `D1Query.ts`)

Each place orders, filters and pages by itself. *Hard.* Two kinds of ids, equal sort values, missing fields,
both directions, writes between two pages, an index and a count that start while the collection is in use.
*Correct when* a walk shows each document once, counts are true, and the places agree.

### Sync of collections (`client/src/LivequerySync.ts`)

*State.* Per scope: `loaded`, `complete`, `next_cursor`, `synced_at`, `sync`, `last_used_at`, persisted in
storage; holders, a stop timer, a realtime subscription, `live`, a chain of catch-ups; four read slots for all.
*Operations.* `start`, `acquire` and `release`, `reconnected`, `extend`, `cleared`; `#initialLoad`, `#delta`,
`#refresh`, `#openRealtime`, `#ingest`, `#read`, `#slot`, `#evict`.
*Interaction.* Reads through the transporter, one page at a time; realtime results; the client's `ingest` writes
storage; collections hold scopes and extend them; `LivequeryClient.flush` clears them.
*Hard.* `synced_at` may only pass what was read, but realtime events, deltas, a reconnect, an eviction and a flush
all touch it or the documents between two awaits. *Correct when* a catch-up leaves what the server
held, what the scope says of itself (`complete`, `next_cursor`, `synced_at`) is true of the device, and no read
waits for ever.

### Versions (`mongodb/src/withVersion.ts`)

A counter per collection in the transaction of each write. *Correct when* versions become visible in
order, so a delta that starts after N misses nothing.

### Not modelled

*Rpc* (`rpc/src`): requests with ids, responses that may be observables, cancellations, disconnects of tabs. Nothing
of the above depends on it. *React hooks*, encoders, the registry of routes and validation keep no state of their
own or belong to a framework. `PROJECT.json` lists every file under its component, with what each model leaves out.

## 2. What a step is

JavaScript runs a callback to its end. In `Outbox`, `LocalFirst` and `Sync` a step is the code between two
awaits, so what an activity read before an await is part of its state and may be stale when it is used
(`call[c].seen`, `head`, `ingest.write`, `work.unsent`, `draft[c].unsynced`). In `Gateway` and `Hibernate` a step is a
handler, in `Paging` a page, in `Changefeed` a statement of the database. A storage call is atomic and does not
fail; a crash may fall between any two.

### Outbox

| state | code |
| --- | --- |
| `outbox`, `nextId` | entries under `LIVEQUERY_OUTBOX_REF`, their uuidv7 ids |
| `serial` | the chain of `#serialize`; its head is the job that runs |
| `call[c]`, `outcome[c]` | a call of `enqueue()`: how far it is, what `#coalesce` decided, how its promise settled |
| `loop`, `head`, `result`, `inflight` | `#drain` and `#loop` |
| `again`, `stalled`, `timer`, `started`, `stopped` | the fields of those names |
| `elsewhere`, `sending` | another tab that holds the drain lock, and its `#inflight` |
| `flushing` | the storage was emptied and `cleared()` did not run yet |
| `carried` | history: calls whose local write an execution could read |

`Enqueue`, `StartJob`, `Decide`, `Drop`, `EndDrops`, `AddEntry`, `EndJob`, `Resume`, `Reported` are the parts of
`enqueue()`; `LockGranted` to `LoopEnd` those of the loop. How an entry ends is a free choice
(`ExecuteEnds`, `ExecuteRetries`). What another tab does is modelled from how this code would do it.

### LocalFirst

Extends `Outbox`: `Enqueue`, `Start`, `Crash`, `ExecuteEnds` and `ExecuteRetries` are now parts of its actions.
A document has one field, whose value is the call that wrote it, so `_prev` is set or not.
`draft[c]` is a mutation before it is queued, `recovery` is `#recover`, `work` is `#execute`, `ingest` is an
ingestion, `server` a versioned datasource (`mongodb/src/MongoDatasource.ts`: `if_version` and `conflict`,
taken ids, no match). `Early` says whether mutations may be called while `#recover` still runs; the code
allows it. One transporter and one tab; no flush and no `destroy()`.

`ClientImplementsQueue` (`ClientSpec => Spec`) ties the two together: everything proved or checked of
`Spec` holds for the client. Since the constants of the queue include how execution ends, that is
a real obligation: an execution that neither ends nor retries with a status of the queue breaks it.

### Collection

| state | code |
| --- | --- |
| `view` | a `LivequeryCollection`: items, filters, `#window`, `paging.next` (0: none), `loading`, `error`, `#answered`, `#unloaded`, completeness, `status` |
| `calls` | the awaits of `#query`, oldest first, each waiting for the storage or for `sync.extend()` |
| `store`, `remote`, `scope` | the device, what only the server has, and the sync of the scope as the list sees it |
| `casts` | the broadcasts of the client on their way to the list |
| `locked`, `delayed` | `AddLock`, and the `added` events it holds back |
| `holed` | history: the list took a document from past its next page (`Past`), or a page it asked for is not its next one any more (`Overtaken`) |

A document has a `rank` to sort by, unique at first, and a `tag` to filter by. A list is a set since its order is
that of the positions. Which of five interleavings the behaviours contain is the parameter `Meets`; the passing run
has none of them, because each breaks a property (below).

### Live

| state | code |
| --- | --- |
| `db`, `written` | the server's documents, each the number of the write that made it |
| `gateway` | `link` (the gateway's view of the connection), `subscribed`, `missed` |
| `up`, `down` | frames on the socket, either way |
| `socket`, `topic`, `listens`, `timers` | `Socket`: connected, its `#queue`, the topic object of the ref in `#topics`, and per topic object `listen_count` and the timers that captured it |
| `stream[w]` | the transporter query of a collection: waiting for the socket, asked, read and registered, served, answered or failed |
| `stored`, `list[w]`, `status[w]` | the storage, what each collection shows and its status |

The server handles one request in two steps, the read and the registration, in the order of `SubscribeFirst`.
`AddLock` and paging are in `Collection`; the gateway is the part of `Gateway` that one client sees.

### Gateway and Hibernate

| state | code |
| --- | --- |
| `sock[s]` | a `SocketLike` (`id`, `refs`) and its wire: `up`, `cut` (half open, nobody knows), `down` (not OPEN any more) |
| `connections`, `subs`, `missed` | `_connections`, `_subscriptions`, `_missed` |
| `grace[c]` | `_pendingDisconnects` with the refs the timer captured |
| `posted[s]` | frames in a `setTimeout(0)` |
| `changes`, `got`, `away` | histories: published, received, published while away |

`Probes`, `SameObject` and `MaxCloses` say what an adapter's sockets are like: `WebsocketGateway` has
`isAlive` and one object per socket but reports an error and its close (`MaxCloses = 2`);
`BunWebsocketGateway` wraps a socket anew for every event and has no `isAlive` (`Probes` and
`SameObject` are FALSE); `EdgeWebsocketGateway` has neither fault.

In `Hibernate`, `ws[s]` is the runtime's socket with its attachment, `known` is `#byWebSocket`, `saved`, `expiry` and
`alarm` are the storage, `arming` the expiries whose alarm is not set yet, `awake` says whether there is an object. The
runtime delivers no event while a storage call of a handler is pending (input gates), so a handler is a step, but
`_scheduleDetach` is not awaited and its alarm is a step of its own.

Both implement `Subscriptions`: `present` is who is connected (while there is no object: whose socket is attached),
`held` what each client is subscribed to (saved). So grace timers and takeovers on one side, evictions and alarms on
the other are steps in which everybody keeps what he holds, or of one who stayed away and is forgotten.

### Changefeed

| state | code |
| --- | --- |
| `db` | the rows: owners, orgs (arrays, or one value where `Scalar`), a value |
| `reqs[w]` | a writer's request: committed, published, answered, lost |
| `log` | changes the database reported and nobody read |
| `conns`, `current`, `watching`, `attempts` | the connections ever asked for, that of the present subscription, whether somebody watches, and the count of `retry()` |
| `lists` | what the followers of each ref hold |
| `born`, `lost`, `crossed`, `through`, `fails` | histories: rows of the retried add, rows with a change nobody was told of, rows read with both parents changed, refs D1 wrote a row through, drops since a delivery |

A behaviour is about one of the three backends. `Told` is `#format`: which refs a change is told to and what it is
there. A follower adds, merges or drops; what a client does with it is in `Live`.

### Paging

| state | code |
| --- | --- |
| `db`, `counter` | the documents with one field, and the stored count of an IndexedDB collection |
| `place`, `asked`, `mode` | who answers, the request, cursor or `:page` |
| `page`, `walk` | the last answer with its query, and where the reader is |
| `seen`, `touched` | histories: how often each document was shown, which were written to |

The five places share filters and cursors as operators (`Matches`, `Precedes`, `Page`) that differ where the code
does. A walk goes to the end by `paging.next` and back by `paging.prev` while others write. `SamePageEverywhere`
speaks of documents that have the field, and of a cursor whose document had it: with pages of one a document may lack
the field, be the cursor, and be given a value after that; the places then go on from different ends.

### Sync

| state | code |
| --- | --- |
| `server`, `spent`, `serves` | documents with versions and tombstones, versions handed out, whether the route has `sync` |
| `device`, `stored`, `meta` | stored documents (their version), the persisted `ScopeMeta`, `scope.meta` |
| `runs[r]`, `last` | catch-ups and `extend()` calls, each at one of its awaits; `scope.catching_up` |
| `reads`, `waiting` | `#reads`, `#waiting` |
| `sub`, `answer`, `wire`, `first`, `live`, `rt` | the realtime query: registered or lost, its own answer, events on their way, `index === 0`, `scope.live`, the result `concatMap` is at |
| `scope`, `held`, `active`, `timer` | the scope and whether it was restored, its holders, `active`, `stop_timer` |
| `opening`, `evicting`, `flushing` | `start()`, `#evict` and `flush()`, between their awaits |

A run goes `chained` (behind `catching_up`), `waiting` (for a slot), `reading`, `answered`, `ingesting` one change a
step, `ingested`, `over`. What an answer holds is fixed when the server reads (`ServerReads`), not when it
arrives. A document is its version, and its place in the sort order is its name. The fields `old`, `dirty` and
`disturbed` of a run, and `used` of a meta, are histories that only properties read.

Simplifications: one scope, one transporter, no children; ingesting a change is one step (the await inside it is
`LocalFirst`'s subject); `rt` is one slot even when realtime is closed and opened again while a result is
ingested; `stop()` is covered by `Restart`; the gap between a read and its registration at the gateway is in `Live`;
documents carry versions also when the route serves no deltas.

## 3. Runs

All twelve pass; each property also has one or more mutants of a mapped definition that violate it. Properties
that end in `Inv` conjoin the type invariant of their module with safety properties of one subject.

| run | constants that matter | shows |
| --- | --- | --- |
| `Outbox_tabs` | 2 calls, another tab, 1 crash or 1 flush (`OneFault`) | entries go out in order, one sender at a time between tabs, `done` is honest |
| `Client_crash` | 2 mutations and 1 recovered one, 1 crash, 1 lost answer, refusals | documents written offline stay queued; no update before its add; failures are shown; no orphan waiter, no stranded queue; every step is one of the queue |
| `Client_remote` | 2 mutations, a foreign write, an ingested change, mutations during `#recover` | no blind overwrite |
| `Client_live` | 1 mutation and 1 recovered one, 1 crash, 1 lost answer, refusals, a foreign write | mutations resolve, versions grow, nothing stays pending, the queue empties |
| `Gateway_live` | 3 connections of a client, 2 changes, missed buffer of 2 | refs agree, no leak, missed changes kept and in order, who is gone is forgotten, who is connected keeps its refs; implements `Subscriptions` |
| `Hibernate` | 3 connections of a client, 2 refs, 2 evictions | the registry is the saved one, the newest connection is the client's, nobody is stranded; implements `Subscriptions`; who stays away is detached |
| `Live` | 2 collections of 1 ref, 2 documents, 2 writes, 1 drop, 1 unmount or new query, 1 failed read | when all has arrived every list shows what the server holds, and in the end it does; streams are on the topic frames are routed to |
| `Collection` | 3 documents, pages of 1, 2 queries, 1 `loadMore`, 2 writes, 1 failure | the list shows what the device holds and fits its window; nothing is out of reach; `loading` ends |
| `Changefeed` | 3 backends, 2 owners, 2 orgs, 3 writes, 1 drop, 1 lost answer | lists under one and two parents follow the database; a retried add makes one row; a feed comes back, alone, and its backoff starts over |
| `Paging` | 5 places, 4 ids of two types, 2 values, pages of 2, 1 write, 5 pages, 12 sorts, filters and groups | each document once, none left out, counts true, the same page everywhere |
| `Sync_safe` | full scope, or a window of 1 that is extended; 1 document there and 1 to come, pages of 1, 3 versions, 2 runs, 1 fault (`FaultsLast`) | a catch-up does its work; what the scope says it has loaded is on the device, or an event brings it; held scopes listen |
| `Sync_live` | full scope kept always, or a window of 1 of 2 documents; 1 slot, 2 runs, 2 days, 1 fault | slots are neither lost nor shared; every catch-up and `extend()` ends |

*Why these bounds are enough to be of use.* Every hazard of the queue needs at most two calls on one
document and the loop (a third call repeats the role of one of them, but for the fold into an entry that
is confirmed as failed: `FailedIsShown` was corrected with three mutations and checked with them). One crash gives a second session that
finds what the first left; one lost answer makes a retry; `MaxAttempts = 1` because the code only asks whether
it is a retry. `MaxVersion = 5` is never the limit in these runs: the calls, the foreign write and a retry make
at most five versions. Three connections of a client are the smallest number with one that takes over, one
that is taken over and one whose close is still to come; with a missed buffer of 2 a change that is kept twice (it is
looked up under its document and under its collection) already pushes the other one out, which a buffer of 1 hides.
What grows beyond these numbers is covered by the proofs.

For the sync, two documents with pages of one make every read a chain of pages whose first one may be outdated
when the last arrives; two runs are a catch-up and one that was queued behind it (or an `extend()`); of three versions
one is there, one creates the second document, while the first is loaded, read or passed by, and one is a write, or the
delete, that happens meanwhile. `FullOrWindow` adds the window, whose claim is not that it is complete. One fault (a
flush, a lost connection, a restart or a redeployment) is enough for each kind of catch-up: a restart or a reconnect
makes a delta, a redeployment a re-read. `FaultsLast` keeps the run within minutes: a fault falls on a full scope, between two
pages of the first catch-up or after it, when everything was written and a document deleted, so that the catch-up which
follows has a tombstone to bring. A fault at any
time is what `SyncInv`, `HeldIsActive` and `CatchesUp` are proved for (below).

`Live` has two collections because topics and storage are shared, and one drop because what follows it is a reconnect
with everything that was on its way. `Hibernate` evicts twice, so that an eviction may fall into what the first left.
`Collection` has pages of one, so that a list of two is already more than a page. In `Changefeed` three writes are a
row, its move and a change after it, two of them read late; ids beyond the second and parents beyond two repeat the
role of one there. `Paging` has two ids of each type and equal values, so that a boundary falls between two types,
between two values and inside one; five pages are the way there and back.

`Client_live` has one mutation next to the recovered one because with two the stale `_adding` described
below leaves an edit pending for ever.

`CHECK_DEADLOCK FALSE` everywhere: when every call was made and every budget is spent the program
really is idle. `SYMMETRY` is only used where no temporal property other than `[][A]_v` is checked. Calls are
symmetric except those of `#recover`, so `MCLocalFirst` permutes only the others.

### Where the code and its documentation disagree

Each of these properties states one sentence of the documentation or of a comment, or the intention of the code;
TLC shows an execution of the code that contradicts it. The first table has configurations of its own
(`tlc -config Client_retry.cfg MCLocalFirst.tla`). For the second, copy the configuration of the passing run, change
the constants named and check the property named instead of those of the run.

| configuration | property | what happens |
| --- | --- | --- |
| `Outbox_fold` | `FoldIsSent` | an update folds into an entry whose execution just ended and is settled without being sent ("Running those one at a time keeps an enqueue from folding into an entry that is being confirmed under it", `LivequeryOutbox.ts:321`) |
| `Outbox_tabs_fold` | `FoldIsSentElsewhere` | an update folds into an entry another tab is sending ("Another tab holds the queue and will send these entries too", `LivequeryOutbox.ts:229`) |
| `Outbox_stop` | `StopReleases` | a call in the chain of `#serialize` registers its waiter after `stop()` and waits for ever ("Mutations still waiting resolve as queued", `LivequeryOutbox.ts:104`) |
| `Outbox_flush` | `FlushReleases` | the same after `cleared()` ("every entry is gone, release whoever waits on one", `LivequeryOutbox.ts:174`) |
| `Client_confirm_race` | `UnsentIsMarked` | an edit between the read and the write of a confirmation loses its `_prev` |
| `Client_ghost` | `DeletesArrive` | a delete drops an add whose first attempt did reach the server |
| `Client_stale_adding` | `DoneIsAccepted` | an update that read `_adding` before the add was confirmed resolves as done and is not sent |
| `Client_ingest_edit` | `EditsKept` | an edit between the read and the write of an ingestion is overwritten ("Each field in `_prev` keeps its local value until its write is confirmed", `client/README.md:1097`) |
| `Client_ingest_version` | `VersionsGrow` | so is a newer version ("never let an older version overwrite a newer one", `LivequeryClient.ts:817`) |
| `Client_early_recover` | `IntendedIsRecoverable` | `#recover` deletes the intent of a mutation that has just been called ("deleted once the write is queued", `LivequeryClient.ts:940`) |
| `Client_add_crash` | `AddErrorMeansRefused` | an add that reached the server before a crash is reported as refused ("A retried add cannot duplicate", `client/README.md:1089`) |
| `Client_recovered` | `LostIsNeverSent` | a document a crash left without an entry is sent ("which is never sent", `client/README.md:1136`) |
| `Client_retry` | `RetrySendsEdits` | a retried add overwrites with its whole payload and without a version ("sends what was edited since as an update", `client/README.md:1089`) |
| `Gateway_bun` | `GoneIsDetached` | a dropped Bun client keeps its subscriptions for ever |
| `Gateway_close_twice` | `GoneIsDetached` | the second report of a close arms the timer with old refs; newer ones leak |
| `Gateway_once` | `GotOnce` | a client of a collection and its document gets what it missed twice |
| `Sync_gap` | `NothingSkipped` | a change arrives while a page with the older copy is being stored: the update finds no document, the page stores the old copy, and `synced_at` moves past the change ("the only way server data reaches storage — so it never races realtime", `LivequerySync.ts:141`) |
| `Sync_early_live` | `LiveIsCaughtUp` | the catch-up that ran when the connection was lost sets `live` for the new subscription ("Off from the moment realtime (re)opens until a catch-up completes", `LivequerySync.ts:84`) |
| `Sync_evict` | `UsedIsKept` | restoring a scope overwrites the date `acquire()` just set, so a scope that was used is evicted ("Scopes unused for `evict` lose their local copy", `LivequerySync.ts:139`) |

| run, changed constants | property | what happens |
| --- | --- | --- |
| `Client_crash`, `Calls = {c1, c2, c3}`, `Recoveries = {}`, `MaxCrashes = 0`, `MaxLost = 0` | `FailedIsFlagged` | an update that folds into an entry which is being confirmed as failed (`LivequeryOutbox.ts:250`) is told so, a later entry sends its value and clears the error ("the error lands on the document", `client/README.md:1084`) |
| `Client_remote`, `MaxLost = 1` | `NoBlindOverwrite` | a retried add is sent as an update without a version (`Client_retry` shows that it need not carry an edit) |
| `Client_remote`, `MaxCrashes = 1` | `NoBlindOverwrite` | an add that reached the server before a crash is reported as refused, so the document keeps no version and its next edit is sent without one |
| `Sync_safe`, `MaxFaults = 0` | `HeldSinceLive` | a first load that still ran when the last holder left sets `live` for the next subscription, though the catch-up queued with it has not run, and fails (`LivequerySync.ts:333`; "Off from the moment realtime (re)opens until a catch-up completes", 84) |
| `Sync_safe`, `Ordered = FALSE`, `There = {1, 2}`, `MaxVersion = 4`, `MaxRuns = 1` | `CatchesUp` | without transactions a document is written with version 4 and then with 3; the device ignores the 3 (`withVersion.ts:41`) |
| `Live`, `Patient = FALSE` | `LiveInv`, `CaughtUp` | two unsubscribe timers hold one topic object; the second deletes the topic a later listener made, and its frames reach nobody (`rest/src/Socket.ts:187`; the comment at 169 has "sending it would cut that ref off") |
| `Live`, `SubscribeFirst = FALSE` | `CaughtUp` | the order of hono: a write between the read and the registration is neither in the answer nor sent ("so no change can slip between the read and the registration", `honojs/src/realtime.ts:13`) |
| `Live`, `HttpOvertakes = TRUE` | `CaughtUp` | a request that overtakes `start`, or an `unsubscribe` sent before it, is left without its subscription |
| `Live`, `FramesOvertake = TRUE` | `CaughtUp` | a change arrives before an older answer, which brings back what it removed; without versions (`Versioned = FALSE`) also what it changed |
| `Live`, `SlowStart = TRUE` | `CaughtUp` | the first connection takes longer than the three seconds a query waits: it reads without a subscription, and only a reconnect refetches |
| `Live`, `SameFilters = TRUE` | `CaughtUp` | a query repeated with its filters is answered by the replay of the first emission |
| `Live` | `NoGhost` | an answer after a first change is broadcast like a change, so it removes nothing |
| `Live` | `ReadyIsAnswered` | a change that comes first makes the list `ready` (`LivequeryClient.ts:258`) |
| `Live` | `FailedIsSaid` | the read fails after that, and no error is shown |
| `Live` | `ListKept` | a refetch that fails empties the list ("A background refetch keeps the list on screen", `LivequeryClient.ts:298`); with `MaxFails = 0`, one whose first emission is a change leaves only that |
| `Hibernate`, `MaxCloses = 2` | `NewestIsConnected` | the close after an error wraps the old socket again, which becomes its client's connection and is dropped with it |
| `Hibernate`, `ClosesLate = TRUE` | `NewestIsConnected` | so does a close that is reported after an eviction |
| `Collection`, `Meets = {"unheld"}` | `Reachable` | a change that moves a document into the pages shown comes as `modified`, and the list ignores it (`LivequeryCollection.ts:264`) |
| `Collection`, `Meets = {"delta"}` | `ListInv` | a document that left the filter comes as `added`, which is dropped, and stays on the screen (`LivequeryClient.ts:534`) |
| `Collection`, `Meets = {"locked"}`, `MaxWrites = 3` | `ListInv` | an `added` that waited for `AddLock` undoes the change that came after it (`LivequeryClient.ts:883`) |
| `Collection`, `Meets = {"requery"}`, `Asked = {x, y}` | `ListInv` | a page of an older call is applied to the list of the new query (`LivequeryCollection.ts:386`) |
| `Collection`, `Meets = {"sort"}` | `Reachable` | `sort()` after `loadMore()` keeps the cursor of the last page and begins there (`LivequeryCollection.ts:406`) |
| `Collection` | `ReachableAlways` | a list with room takes a document from past its next page, or a page is asked for and the list is emptied or clipped before it comes: what lies between is neither shown nor past the cursor (`LivequeryCollection.ts:386`) |
| `Collection` | `EmptyIsKnown` | an empty list of a scope never loaded becomes `ready` ("an empty device is not an answer, the first sync is", `LivequeryCollection.ts:378`) |
| `Collection`, `Held = TRUE` | `Settles` | a list of an empty scope the device holds loads for ever ("an empty scope the device already holds is ready", `client/tests/collection-status.test.ts:126`) |
| `Changefeed`, `Backing = {"postgres"}` | `Delivers` | Postgres retries without `resetOnSuccess`, so the delay only grows ("grows exponentially per consecutive failure", `PostgresRealtime.ts:29`) |
| `Changefeed`, `Crossing = TRUE`, only `mongo` | `DeepListsAlways` | a row that changes both parents at once stays in the list of the new org and the old owner (`MongodbRealtime.ts:285`) |
| `Changefeed`, only `postgres`, `Scalar = {"postgres"}` | `AllListsFollow` | of a scalar parent only the new value is told; the old list keeps the row (`PostgresRealtime.ts:201`) |
| `Changefeed`, only `d1`, `Moving = {"d1"}` | `AllListsFollow` | a move is published only on the ref it was written through |
| `Changefeed`, only `d1`, `Writers <- TwoWriters` | `AllListsFollow` | two requests publish in another order than they wrote (`honojs/src/realtimeMiddleware.ts:110`) |
| `Changefeed` | `PublishesWhatHappened` | D1 publishes an update that matched no row ("nothing downstream publishes a change that did not happen", `d1/src/d1.ts:56`) |
| `Paging`, `Turning = {"mongo"}` | `NothingTwice` | `:before` of Mongo includes the document of the cursor (`MongoQuery.ts:435`) |
| `Paging`, `Lacking = {"mongo"}`, `Turning = {}` | `NothingTwice` | a cursor of a document that lacks the sort field gives the condition `{}` and starts over (`MongoQuery.ts:449`) |
| `Paging`, `Lacking = {"postgres", "d1"}` | `NothingLeftOut` | documents that lack the sort field are skipped |
| `Paging`, `Counting = {"mongo", "d1"}` | `CountsHold` | the counts on the other side of a page after a cursor are not those of the documents |
| `Paging`, `Requests <- Ascending` | `SamePageEverywhere` | the client lets the id follow an ascending sort, the servers do not ("A local page must order documents exactly like the server", `sortDocs.ts`) |
| `Paging`, `Requests <- Denied` | `SamePageEverywhere` | a `:not` of two conditions is `NOT (a AND b)` in Postgres (`PostgresQuery.ts:206`) and a `$nor` in Mongo |
| `Paging`, `Overwriting = TRUE` | `CountsHold` | an update that takes the id of another row leaves the count one too high ("`total` is exact", `LivequeryIndexedDBStorage.ts:153`) |
| `Paging`, `TextRank <- OtherText` | `NothingLeftOut` | an explicit `id:sort` indexes ids as plain strings and not by their type ("Both put documents in the same order", `LivequeryIndexedDBStorage.ts:151`) |

"Only `d1`" means `Backends`, `Scalar` and `Taking` as `{"d1"}`, `Moving` and `Backing` as `{}` unless given; for
the other two likewise, with `Moving` their own.

Properties that hold are stated around these: `AddingIsQueued`, `DoneIsSent`, `NoLeak` and `RefsMatch` name
their conditions (`SameObject`, `MaxCloses = 1`, a created entry) in the formula; `ListsFollow` those who are told
(`Reached`) and the rows whose changes were lost; `FailedIsShown` the calls that folded too late (`SentAfterAll`); `Reachable` and `Shows` the exceptions the tables name.
The passing run of `Live` is that of `nestjs`, with ordered delivery between the two connections: what it shows is
that then refetches, registrations and missed changes together leave no gap, whatever else interleaves.

`CatchesUp` leaves out documents written or on their way while the run lasted, and runs during which the device was
emptied or another run was at work; `HeldAsTold` (the second part of `SyncInv`) asks that nothing failed yet, and that the first
catch-up is the only one, so that realtime was never closed. What happens otherwise is, besides the tables: a
re-read deletes a document that realtime added meanwhile (`LivequerySync.ts:413`), `cleared()` does not stop the
running first load (176), an eviction goes on under a scope acquired meanwhile (161), a stale `added` answer
brings back a document realtime has removed, an event that overtakes the realtime query's own answer makes that
answer move `synced_at` (432), and a first load cut off by a reload never learns of deletes of its first pages.

### Liveness and fairness

`Fairness` of the queue is weak fairness of each call's continuation, of the loop, of the end of a request
(the transporter times out after 30 s) and of an armed timer: microtasks, storage and timers always get their
turn in a JavaScript runtime. The specification assumes nothing of the network, which may fail for ever.
`QueueDrains`, a part of `EverythingSettles`, has the assumption in the formula: `NetworkReturns`, strong
fairness of a request that succeeds, is the meaning of "comes back again and again". The client has the
same fairness per activity; losses are bounded by `MaxLost`. There is no fairness for `Intend`, for crashes, or
for anything another client or the user does. The gateway assumes that a runtime notices a dead
peer in the end, reports the close, and fires timers; clients owe nothing. The
sync assumes that a read is answered or fails (`RestTransporter` aborts it after 30 s) and that the restore of a scope
ends; nothing makes the user, the server or the network do anything.

`Live` assumes that the socket is retried for ever, that a dead connection is noticed and frames arrive, and that a
request is asked, registered, read and answered; no user, writer or unsubscribe timer owes anything. `Hibernate`
assumes what a Durable Object promises: an alarm that is set fires, a close is reported, an event wakes the object; and
that the promises of `_scheduleDetach` go on. In `Collection` every await of a call, every load and every broadcast that
has begun ends; a failed load is not retried before a reconnect. In `Changefeed` a connection that is asked for comes or
fails, the timer of `retry()` fires and the driver delivers what it has; the database may drop it again and again up to
`MaxDrops`.

## 4. Proofs

The theorems hold for every set of calls, documents, sockets, clients, watchers, rows and parents and for every bound,
from the named assumptions of the modules (`ConfirmAssumption`, `NoneAssumption`, ...). Those say that a placeholder is
none of the things it stands beside (`DocsAssumption`: no document is called "none"; `ParentsAssumption`: no owner or org
is called `*`), that a bound is a number, that a switch is a Boolean, that the first row of a change feed is a row
(`StartsAssumption`) and that a page mounts finitely many collections (`WatchersAssumption`). A theorem that needs more
of the code's configuration says so in its `ASSUME`; each such hypothesis is one that a table of section 3
shows to be needed.

*Queue.* `IInv` strengthens the three safety properties. `InOrder` needs that the loop's stale `head` is the
oldest entry while the loop works on it (`HeadIsOldest`), which holds because ids grow (`IdsGrow`) and entries
are only ever added with the next one. `NoOrphanWaiter` needs that a call which chose an entry still finds it
when it registers its waiter (`TargetsQueued`), which is what `#serialize` is for: only the job at the head
of the chain is between its decision and its end (`JobAtHead`), so no confirmation runs in between.
`NoStrandedQueue` needs `LoopWakes`: a loop that is about to sleep over entries finds `again` set, a timer
armed, or a call that will trigger. `Invariance` proves `IInv` inductive, one lemma per action;
`StrictFifo`, `NoOrphans`, `NeverStranded` and `TypeCorrect` follow. `SentByOneAndAfter` (one tab sends at a time, and
`done` means sent) needs `SentIInv`: who drains holds the lock (`LockHeld`), the entry a call made is of its own document,
in the queue and in the hands of a delete (`EntriesOwned`), and whoever made the entry the loop works on is in what its
execution read (`HeadCarried`). `EntriesMeanOne` says that an id never comes to mean another document or operation,
which the client's proofs rest on.

*Client.* `ClientIInv` is `IInv` with the types of the client and three small facts about inputs. Each
action of the client is shown to be an action of the queue or to leave the queue alone, so `ClientImplementsQueue`
follows and the queue's theorems, with `SentByOne`, are inherited by the client's specification. On the queue's
invariants these stand:

- `AddsAreDurable` (a document that shows as being added has its add in the queue or an intent that will queue it, over
  any crash) assumes `~Early`, that no mutation is called while `#recover` runs; otherwise an intent is deleted under its
  call (`Client_early_recover`). It needs that at most one activity is about to add a document and that nobody has heard of
  the document before (`BirthIInv`), what the marks of a stored document, an intent and a call in flight say of each other
  (`MarksIInv`), that whoever deletes a document found it sent or took its add back with it (`DeletesAreHeard`), and that
  an add which was executed to its end no longer marks the document when its entry goes (`EndedAdd`).
- `UpdatesFollowAdds` (`AddFirst`: the server is never asked to update a document it was not asked to add) holds without a
  hypothesis. It needs that a stored document without an `_adding` mark is one the server knows or has refused (`KnownOrAdding`), the same
  of what is being ingested, requested and confirmed (`Informed`), that in the queue an update stands behind its add
  (`UpdatesAfterAdds`, `HeadAfterAdd`), and that a call knows from what its mutation read whether the add still waits
  (`CallsKnow`). The attempt to prove it found the case the property now excludes: a
  document deleted while the request of its update is on the way. By then the answer changes nothing on the device.
- `FailuresShow` (`FailedIsShown`) assumes `~Early` and speaks of a client that is told nothing but the answers to what it sends.
  Below it is that a document is added once (`AddedOnce`: one entry, one head or one mutation about to queue it; `ToRecover` says the
  same of the intents `#recover` has not looked at, which needs that no mutation runs before it is done) and that, while its document is on
  the device, an add is the oldest entry (`AddsOldest`). So a mutation that failed leaves no add behind (`FailedAdds`), and an "add" error
  stays. `Flagged` says what the document shows between the failure and the confirmation of its entry, when a mutation may still fold into it
  (`TargetsAreMeant`: a call waits for a delete if it is one, and else for an add or an update of its document). An "update" error is cleared by
  the next update; that one sends the value which failed (`SentNow`), also after a rebase (`Rebasing`), because an update that is executed
  leaves the mark of what is unsent (`UpdatesUnsent`). The proof attempt corrected the property (`SentAfterAll`, section 3).
- `NothingIsAhead` (a stored document never claims a version the server has not reached) holds without a hypothesis. Its invariant
  `VersionIInv` says the same of everything that carries a version: what is being ingested, what an execution was answered, what it pulled and
  what it is about to merge. `OwnVersionsGrow` (`VersionsGrow`) adds that what an execution is about to write is at least as new as what it
  replaces (`Ahead`): a fresh answer is one above the server's version, and a merge was refused if it was older. It assumes `MaxIngests = 0`, as
  the property says of itself; an ingestion between the two steps takes the version back (`Client_ingest_version`).
- `NoEditsLost` (`NoBlindOverwrite`) assumes `AnswersArrive`: no request or answer is lost and the client does not crash. Section 3
  shows that each is needed. Then nothing is tried twice (`TriedOnce`), a stored document without a version is not on the server unless
  the answer to its add is about to be written (`AddedVersions`), and so a request without a version is about a document the server does not
  have (`BasedOn`) and cannot overwrite one.

*Collection.* `ListsShowTheDevice` assumes `Tame`: an `added` matches the list it is meant for, no document changes under `AddLock`, and
a query waits for the answers to those before it; `delta`, `locked` and `requery` of section 3 show that each is needed, and
changes of documents that are not shown (`unheld`) and `sort()` after `loadMore()` (`sort`) are allowed. `ListIInv` says, for each document,
what the list still has to hear. With no broadcast about it on its way the list is `Right` about it; otherwise the last one says
what the device holds, and if that is also the first and an `added`, which a list takes only of what it does not show or what matches,
it is `Welcome` (`Heard`). Between two broadcasts about a document the later one adds it only if the earlier one removed it (`Turns`), so
the first of them can be delivered without spoiling the second (`DeliverKeeps`). What `AddLock` holds back comes after all there is and is
still what the device holds (`Waits`), and of what only the server has nothing is on its way (`RemoteIsSilent`), so a page that arrives meets a
list without it. That a clipped list fits its window is a lemma on the cardinality of initial segments (`FirstItemsFit`).

`NothingOutOfReach` (`Reachable`) assumes `Meets = {}`. `unheld` and `sort` break it as section 3 says, and so do `locked` and `requery` with
the constants given there; of `delta` no run has a counterexample, but the proof builds on `ListIInv`. Its invariant
`InPlace` holds from the answer of a first page on, as long as the list is not `holed`: each document that matches is on the screen or past the next
page (`Reached`), held back by `AddLock`, or brought by the last broadcast about it, which adds it or, as the first of all, changes what is shown
(`Brought`); the list ends before its next page; and that page is the one every call waits for. A delivered broadcast is traced through `#applyChanges`
to the set of items before the clip (`Makes`), and through `#clip` to what was cut (`Cuts`): all of it lies past the new cursor. A page behind the list may
be clipped, but it drops nothing the list showed, because what is before an item of the list is in the list (`NextInPlace`); without that
a change on its way to such an item would be lost. The proof attempt changed the model: `holed` was set whenever a list with a next
page had room, which excused too much, and was not set when the first of two pages asked for at once was clipped below the cursor of the second, which then
skips what was cut. Now it is set by exactly the two events that lose the place.

*Gateway.* `GatewayIInv` has `OneConnection` (a started socket with an id is the registered one),
`ConnectionStarted` (what is registered is open, if sockets keep their identity) and `DroppedInGrace` (a client
that is not connected has only refs its timer captured). `RefsAgree` and `NothingLeaks` follow from it;
`NewestWins` is an action property: only `Unsubscribe` and `GraceEnds` remove a subscription, and the latter
does nothing for a connected client. `GatewayImplementsSubscriptions` maps every action to a step of
`Subscriptions` or a stutter: only `Subscribe`, `Unsubscribe` and `GraceEnds` move `held`, for one client each.

`MissedChangesArrive` adds `MissedIInv`. Order (`GotInOrder`) needs that a client has one open wire (`OneWire`) and that what is
still to come, posted or kept, is newer than what came (`NewerToCome`, `Published`). That nothing within the limit is lost
(`AwayIsKept`) needs to know how many frames newer changes can fill: what is kept is from the time away and
is there at most twice (`MissedAway`), so if the oldest is pushed out of a full buffer of L frames, at least L/2 other
changes are in it. This is a pigeonhole argument on a sorted sequence (`TwiceIsEnough`), proved without induction
from the cardinality of its image. The proof attempt corrected the property: it used to count changes, and since a client of a
document and its collection has each change kept twice, 1000 frames may be 500 changes.

*Hibernate.* `RegistryIInv` makes "a woken instance rebuilds the same registry" inductive: the memory is the storage and what is
attached to the sockets (`RegistryIsSaved`, `Attached`), and whoever is subscribed and not connected has an expiry, whose alarm is set or about
to be (`Handed`; `NobodyIsStranded` alone says nothing of the expiry of a client whose alarm is about to be set). `RegistrySurvives` and
`HibernateImplementsSubscriptions` follow for any number and lateness of closes; the second maps evictions and wakings to
stutters. `NewestConnectionWins` assumes `MaxCloses = 1` and `~ClosesLate`, both needed (section 3), for then a
socket that is not gone was never reported closed (`Unreported`), and the newest is not dropped with an older one.

*Live.* `OpenStreamsAreRouted` assumes `Patient`, that a stream ends only when no unsubscribe timer of its topic is
pending; otherwise two timers hold one topic object (section 3). `TopicIInv` counts: the routed topic is listened to
by as many as there are streams, every other one by nobody and held by no timer, and when the last stream is gone one timer is
left to give the topic up (`OneTopic`).

`ListsCatchUp` (`CaughtUp`) assumes `Orderly`, the six switches of the passing run that say who comes after whom. Without any one
of them the property is false: section 3 for five, and without `Patient` too, where a topic that was deleted under its listeners leaves
their lists behind. It does not need versions or the changes kept in the grace window, since a reconnect reads again. `CaughtIInv` adds to
`TopicIInv` that ages only grow (`AgesOK`: nothing that is stored, answered or on its way is newer than what the server holds, and
changes come in the order they were made), that the gateway knows a connection once its `start` has arrived and not before (`LinkOK`), and that a read which was
registered on this connection is subscribed with nothing behind it that would end that (`PhasesOK`). On these stands what is owed
(`ArrivingOK`): the changes of a document since the read of a stream, applied to its list or to the answer that waits
for it, give what the server holds (`Becomes`), none of them is taken for older than the storage, and each `modified` among them will
find its document (`There`). Two cases need more. A document that an answer does not mention may have been put into a list by
another collection's answer; then the change which removes it comes before that answer (`FilledOK`). And of two answers that
wait, which may arrive in either order, the later read is the newer one, and they differ only by changes that will come between them
(`Between`). The lemmas `BecomesMore` and `BecomesLess` are what a write and a delivery do to `Becomes`, at either end
of the queue.

*Changefeed.* `RetriesMakeOneRow`: where the datasource takes the client's id, that is the only one the rows of a retried add
can have (`BornIInv`). `OneListenerAtATime` (the first part of `Delivers`) assumes `Backing \subseteq {"mongo"}`,
since the backoff of Postgres never starts over (section 3).
`ListsFollowTheDatabase`: a list need not be right while changes wait, so `FollowIInv` says what the waiting ones will
make of it: for each row and ref, a list that does not hold what the database says is mended by a change that waits
(`Mended`), and so is whatever each of the waiting changes would make of it (`Kept`), however late they are looked up. Its heart is
`OutcomeSays`, the outcome of `#format` for a row that joins, leaves, stays or is elsewhere. D1, which publishes after it
writes, has `PublishIInv` instead: a list shows what the database has, but for what is written and not published, which
will mend it.
The hypotheses: `ScalarsStay` (Postgres tells only the new value of a scalar parent) and `OneByOne` (with D1, one
request at a time, and no moves), each needed (section 3).

*Sync.* `HeldIsActive` is inductive as it stands. `SlotsKept` needs `RunsShaped` (queued runs are those used, all with
a phase): each way a run gets or gives back a slot is a lemma (`SlotForKeeps`, `SlotFromKeeps`) about
the cardinality of `Reading` and the range of the queue, and every other step leaves the phases alone
(`SamePhases`).

`CatchUpsWork` (`CatchesUp`) assumes `Ordered`, that versions become visible in the order they are given; without it the property
is false (section 3). `WorkIInv` says of every run that works alone what it has done so far: of the documents nobody wrote to or sent
meanwhile, what its cursor has passed is on the device or in its page (`Worked`), nothing old is on its way to them, and no re-read
takes one of them for gone (`Calm`); versions on the device and on their way are never ahead of the server (`VersionsBehind`), so
that no change is ignored by mistake. What a read brings is a lemma about a sorted page (`PageReads`, `ReadBrings`), proved from
cardinalities without induction. The steps of the other actors are shown to leave it alone one by one (`OtherStep`).

`ScopeIsAsTold` (`SyncInv`) has no hypothesis on the order of versions. It needs that, as long as nothing failed, the first catch-up is
a first load and the runs beside it extend it, and that nothing is said before it ends (`FirstOnly`). On that stands `HeldNow`: what the
meta claims, and what each run has reached, is on the device, in the page of that run, or in an event that adds it. A
document created meanwhile is told, because the server registers the client with the read of the first page, and
before that nothing is claimed or reached (`sub = "asked"`); what is on its way to a document that is there adds or modifies it
(`Real`), so no event takes it off the device again. `HeldNow` was false when first stated, for scopes that were left and taken
again; TLC found `HeldSinceLive` of section 3 on the way.

*Paging.* The hypotheses (`Readable`) are three that a table of section 3 shows to be needed: `TextInOrder` (the strings of the ids are
in the order of the ids), documents lack the field at the client and IndexedDB only, and Mongo is not followed back. Under them an index
orders as a scan does (`PrecedesIs`), the order is a total one (`BeforeOrders`), and so the first n documents of a set are what they should
be (`FirstOfFacts`: at most n, before the rest, all of them if there are no more), proved from cardinalities without induction. On
that stands one lemma per place, that its answer to a query by a cursor is the page cut from the order and says whether more follows
(`ClientPages`, `IndexedPages`, `PostgresPages`, `D1Pages`, `MongoPages`, together `Pages`); the rest of the proof need not know who answers.
`PagingInv` says of every document that nobody wrote to where it stands: in the page, before it and shown, or behind it and still to come
(`ForwardOf`; `BackOf` on the way back). A cursor is a position and not an index, so a write moves none of them (`WrittenElsewhere`). `ShownOnce`
and `ShownAll` follow, and for a walk by page numbers too (`PageWalk`), while nobody writes.

`CountsTold` needs two hypotheses more (`Countable`, section 3): no update takes the id of another row, and Mongo and D1 are not asked for both
sides of a page. `CountInv` adds what the property does not say: that the index an answer carries for its first document is right
(`FirstTrue`), from which the cursor of the next page gets the number of all that is before it (`IndexOfLast`). `SamePages` needs instead that no request
sorts by the field upwards without a word on the id (section 3) and that a `:not` holds one condition (`Alike`): Mongo denies
each condition of the group and Postgres their conjunction (section 3). The proof attempt corrected the property: the
document of the cursor must have the field, too, which TLC shows with pages of one.

*Only model-checked.* Out of the prover's reach: liveness and everything under fairness (`EverythingSettles`, `Arrived`,
`GoneIsForgotten`, `HibernateForgets`, `Delivers` but for its first part, the liveness of `Collection` and `Sync`).

## 5. Left out, and why

- `remap()`, `retry()`, the published list of pending entries, `#reported`: later in the plan.
- Storage calls that throw, and two tabs in `LocalFirst`: the state space needs the finer split of the
  plan's second step.
- Children scopes, several scopes and transporters, merged declarations of the sync: one scope at a time shares
  nothing with another but the slots, which `Sync_live` and the proof of `SlotsKept` cover.
- Peer gateways, pipes, `close()` of the gateway; the routing of requests to Durable Objects and their principals.
- Of lists: `select()`, `loadPrev`, `loadAround`, sorts the device makes alone, documents as queries of their own,
  a list that is mounted twice, a `flush()` under it.
- Of change feeds: operator bodies, `$unset`, custom handlers, sync routes (they are in `Sync`), allowlists of columns,
  rows too wide for a NOTIFY, unique columns other than the key, several watched sources.
- Of queries: text search, summaries, projections, `:around`, nested fields, values of mixed types, the text of SQL.
- Values of documents beyond what a property tells apart, encodings, wording, logging.
- What is said of the browser (locks, crashes), of the network and of other clients is marked external in
  the map.

## 6. Plan

1. *Done:* `Outbox`, `LocalFirst`, `Collection`, `Gateway`, `Sync`, `Hibernate`, `Live`, `Changefeed` with their
   proofs; `Paging` with its proofs; `Subscriptions` and its two refinements.
2. `LocalFirst` again: `retry()`, `remap()`, failing storage calls, the offline switch.
3. `Rpc`: `WorkerManager` and `ServiceLinker` with several tabs.
4. Peer gateways; children scopes and several transporters of the sync.
