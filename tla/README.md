# TLA+ verification of the AIS tracking system

The system takes AIS position and static reports from a provider's WebSocket, normalises,
deduplicates and samples them, stores them in PostgreSQL, checks vessels against a
sanctions list, and pushes everything to browsers. It is one Node code base that runs as
several processes around Redis (streams, keys, BullMQ) and PostgreSQL. This directory
holds TLA+ models of its stateful parts, the TLC instances that check them, and TLAPS
proofs about the event bus, the gateway, the pipeline, the position store, the enrichment, the geo
check and the browser's store. Paths below are relative to the repository root.

## 1. Inventory

| Component | State it keeps | Operations | Talks to |
|---|---|---|---|
| AIS provider adapter (`src/ingestion`) | socket, reconnect timer, attempt counter, health | start, stop, connect, open/message/close/error callbacks, scheduleReconnect | calls the pipeline's callback per raw message, without waiting |
| AIS normaliser (`src/ingestion/aisstream`) | none | raw message to canonical event or rejection, field by field | pipeline |
| Ingestion pipeline (`src/pipeline`) | dedup keys and sampler keys in Redis | handle: normalise, dedup SET NX, coverage, geo, sampler GET/SET, publish | bus (`ais.events`), Redis, geo validation |
| Geo validation (`src/geo`, `scripts/geo`, `drizzle/0007`) | verdict cache in Redis; dataset versions with their polygons, one of them active; staging tables of an import | validate, read and write of the cache; import: stage, insert, index, switch the active version | PostGIS, Redis |
| Event bus (`src/shared/bus`) | Redis streams, groups, pending lists, retry counters; per subscription a loop, a timer, an autoclaim cursor | publish, subscribe, read loop, autoclaim tick, dispatch, FailureHandler, dead letters | every producer and consumer |
| Dead letter admin (`src/admin`) | none of its own | list, replay | bus |
| Storage writer and position store (`src/storage`) | vessels, latest positions, position history | upsertPosition, upsertProfile, stale check, publish of `vessel.persisted` | bus, PostgreSQL |
| History partitions (`src/storage`) | daily partitions, advisory lock | maintain at startup, daily and from the migrator | PostgreSQL, beside the writer |
| Vessel enrichment (`src/enrichment/vessel`) | `enrich:profile` and `enrich:checked` keys, BullMQ jobs, `sanctions_*` columns | consumer, reconciler, requester, processor | bus, Redis, BullMQ, PostgreSQL |
| Sanctions import (`src/enrichment/sanctions`) | runs, entities, advisory lock per source | bootstrap, schedule, run, upsert in batches, finish or fail | provider file, PostgreSQL, BullMQ |
| WebSocket gateway and fan-out (`src/realtime`) | connections, subscriptions, send queues, a gauge | connect, message, pong, heartbeat, fan-out, flush, overflow, close, error, shutdown | bus, browsers |
| HTTP and admin API | none | reads | PostgreSQL, Redis |
| Web store and live sync (`web/src/store`, `web/src/realtime`) | vessels by MMSI, socket state, fetches in flight | snapshot, position, static and enriched events, prune, reconnect | HTTP API, gateway |
| Web map, health, metrics, configuration | view state; counters | rendering, observation, wiring | - |

Hard behaviours, component by component, and what "correct" means there:

* **Event bus.** Two activities of a process and the processes of a group dispatch the
  same entry; each Redis command can be executed without its reply arriving, and then fail
  or be sent again; a process dies between any two commands; retention trims entries a
  group has not read. Correct: a delivered entry is pending until it is handled or
  dead-lettered; a dead letter needs the configured number of counted failures; pending entries are settled; loops stay alive.
* **Gateway.** One connection can be ended by an overflow, an error, a close and a
  heartbeat; a socket stops draining; a peer vanishes. Correct: bounded memory per client,
  no lost or reordered static and enrichment message, newest position wins, gauge and
  subscriptions agree with the connections, vanished peers leave.
* **Pipeline.** Handles of one vessel overlap at every await and share Redis keys. Correct:
  one event per vessel and instant, in the stream once but for a re-sent XADD; a position is sampled away only for another one.
* **Store and partitions.** The bus redelivers and reorders; partitions are created and
  dropped by processes that read the clock long before they act. Correct: the latest row
  is the newest, track and latest agree, history is kept for the retention period.
* **Enrichment.** The row, two Redis keys, the announcement and the job's end are five
  separate writes; requests carry profiles that are already outdated; jobs keep their
  ids. Correct: the keys vouch for what was checked; clients are told what the row says;
  every vessel is checked in the end.
* **Browser store.** Snapshots, detail rows and messages describe one vessel at different
  times and arrive in any order; fetches overlap a reconnect; the socket's callbacks, the
  reconnect timer and leaving the page come in any order. Correct: what is shown never goes
  back in time, a long outage is caught up, there is one connection or one reconnect, and
  only a silent vessel disappears.
* **Geo datasets.** Imports overlap, wait for each other's table locks, fail or are killed half
  way; validations run while another version is activated, over a cache that outlives the
  process. Correct: readers see whole versions and exactly one active; an import is only lost
  to another; a verdict is one that a version active during the call gives.
* **Sanctions.** An import holds its advisory lock on one connection and writes through others;
  processes die, jobs stall and run again; a vessel is judged in three reads between which the
  list changes, and `checkedAt` is taken after them. Correct: a completed run stands for its
  list; every published list arrives; a judgement is justified by the moments of its job and
  settles when the list does.
* **Provider adapter.** Close events come late, the timer and `stop()` overlap, any frame resets
  the backoff. Correct: one socket or one timer while running, neither after a stop, growing
  delays, and the feed comes back.
* **Vessel profile.** Reports are partial, padded or zero, and arrive late and again at a merge
  that does not look at their instant. Correct: nothing known is lost to a report that does not
  say it; what the vessel repeats prevails.

## 2. Modules and the code they model

| Module | Models | Kind |
|---|---|---|
| `AtLeastOnce` | what the bus promises a consumer group | abstract specification |
| `StreamBus` | `redis-streams.event-bus.ts`, `failure-handler.ts`, `deadletter.controller.ts` (replay) | component; implements `AtLeastOnce` |
| `StreamBusProofs` | theorems about `StreamBus` | proofs |
| `SendQueue` | `send-queue.ts` | operators on a queue value |
| `RealtimeGateway` | `realtime.gateway.ts`, `subscription.service.ts`, `fanout.consumer.ts` | component; uses `SendQueue` |
| `RealtimeProofs` | theorems about `RealtimeGateway` and `SendQueue` | proofs |
| `IngestionPipeline` | `ingestion-pipeline.service.ts`, `dedup.service.ts`, `sampler.service.ts` | component |
| `PipelineProofs` | theorems about `IngestionPipeline` | proofs |
| `HistoryPartitions` | `history-partitions.ts`, `history-partition-maintenance.service.ts` | sub-component |
| `PositionStore` | `storage-writer.consumer.ts`, `vessels.repository.ts` (upsertPosition) | composes the writer with `HistoryPartitions` |
| `PositionStoreProofs` | theorems about `PositionStore` and `HistoryPartitions` | proofs |
| `VesselProfile` | `aisstream.normalizer.ts`, the schemas of `contracts/index.ts`, `vessels.repository.ts` (upsertProfile, upsertVesselFromPosition) | component |
| `Enrichment` | `enrichment/vessel/*`, the publish of `vessel.persisted`, BullMQ's retries and retention | component |
| `EnrichmentProofs` | theorems about `Enrichment` | proofs |
| `SanctionsImport` | `enrichment/sanctions/*`, the manual run of `sanctions-admin.controller.ts` | component |
| `SanctionsMatching` | `matcher.ts`, the candidate queries of `enrichment.repository.ts`, `enrichment.processor.ts` | component; between an import and `Enrichment` |
| `ProviderAdapter` | `aisstream.adapter.ts`, `provider-registry.ts`, `backoff.ts`, `aisstream.raw-filter.ts` | component |
| `GeoDatasets` | dataset versions as readers see them, `geo_validate_position` | abstract specification, and what `GeoValidation` reads |
| `GeoImport` | `scripts/geo/import-geo-datasets.ts` | component; implements `GeoDatasets` |
| `GeoValidation` | `geo-validation.service.ts`, `geo-cache.service.ts`, `geo-dataset.repository.ts` | component; extends `GeoDatasets` |
| `GeoValidationProofs` | theorems about `GeoValidation` | proofs |
| `VesselStore` | `mergeReducer.ts` | operators on a vessel |
| `LiveSync` | `useVesselRealtimeSync.ts`, `wsClient.ts`, `store/vessels.ts`, the snapshot query | component; uses `VesselStore` |
| `LiveSyncProofs` | theorems about `LiveSync` | proofs |
| `MC*` | model values, symmetry and constant functions for TLC; `MCServices` for `Services` | instances |
| `Services` | one instance each of `GeoImport`, `GeoValidation`, `SanctionsImport`, `SanctionsMatching`, `ProviderAdapter`, `VesselProfile` | composition; one machine per behaviour |
| `ServicesProofs` | theorems about `Services`, and so about each of the six | proofs |

Conventions. A callback that runs without an await is one action. A method with awaits is
one action per await, so that everything else can happen in between; its phase says which
await it is at. A database transaction that locks its row first is one action that commits
or does not. A failing command has an alternative in which the client sees a failure, with
the command executed or not; those alternatives, crashes and expiring keys share the
budget `MaxFaults`. The Redis client re-sends what is unanswered when its connection breaks
(`src/shared/redis/redis.service.ts:11` leaves ioredis's `autoResendUnfulfilledCommands` on), so a
command can also run twice and then succeed: in `StreamBus` and `IngestionPipeline` the action
`Resend` executes the command an activity is waiting for and leaves it waiting. Elsewhere a second
execution changes nothing (SET, DEL, the cache of geo verdicts) or is a step the model takes anyway
(a second announcement of a check; a second `vessel.persisted`; a second XREADGROUP after one whose
batch nobody holds; a replay of a dead letter). Histories (marked so in the VARIABLES) record what happened for the
properties and guard nothing. The operators with a comment that starts with *Mutant* are
variations of the operator after them, as a programming error would make them; nothing
uses them except the sensitivity check in `PROJECT.json`, which shows that every property
can tell the code from such an error.

**StreamBus.** An entry is its number. `pel`, `idle`, `cursor` are Redis's pending list,
the part of it past the claim time, and last-delivered-id; `phase`, `cur`, `batch` are the
program counters of `runLoop` and the autoclaim tick of each subscription; the phases are
the awaits of `dispatch`, `onHandlerError` and `deadletterMalformed` in their order.
`Fetch` and `Claim` are XREADGROUP and XAUTOCLAIM with what follows synchronously.
`Resend` counts one failure twice, writes a dead letter twice, or repeats an XACK or a DEL.
`Escape` is a dispatch that rejects: it kills a read loop, and merely ends a tick. Trimming
(`MAXLEN ~`) happens inside XADD, by any amount that leaves `MaxLen` entries. A subscriber
that stops is a crash: nothing waits for its dispatch.

**AtLeastOnce.** `owed` is what a group still has to answer for. `StreamBus` maps it to the
pending list plus what the stream retains beyond the cursor; dead letters and handled
entries map to themselves. An entry may be settled only after it was handled, buried or
void, and retention may take back only entries older than the newest `MaxLen`. It takes them from
each group by itself: an old entry that one group has pending and another has not read yet is trimmed
for the second only.

**RealtimeGateway.** A socket is `open`, `shut` (we called close(), its frames still
arrive), `closing`, `closed`. `FanOut` is the handler of a stream message: it visits all
subscriptions in one callback, so one action with the effect on each connection. `flush`
is inside it, as in the code: a queue that could not be flushed waits for the next message.

**IngestionPipeline.** `Handles` are the `handle()` calls in flight; the provider's callback
starts them without waiting. The event is its vessel, instant, status and whether it moves.
Coverage and geo validation are choices: keep or drop. `Resend` is a SET NX that then finds its own
key (and drops its event), a repeated SET, or an XADD that adds the event again.

**HistoryPartitions, PositionStore.** Time is the UTC day. A maintainer's `run` is the day
its clock showed when it started; it may wait past midnight before it plans and commits.
Writers hold an event between the stale check and the transaction. Any event may be
delivered at any time and again, which is what `StreamBus` allows.

**Enrichment.** A profile is what `profileHashFor` tells apart. Instants are kept relative to
the row's `sanctions_checked_at` (before, equal, after), all that the guard of the UPDATE
and the properties compare. A check may read the same millisecond as the one before it.
BullMQ (external) keeps a finished job, and ignores an add of its id, until 200 others
have ended: `EnqueueForgotten` is the add after that. A stalled job is run again once,
then failed. The matcher is a pure function of the profile it read and the list; it is
abstracted to that profile.

**VesselStore, LiveSync.** A vessel is reduced to when its fields were true: the reducers
compare only that, and never mix vessels, so there is one. The server is loose on purpose:
the database may store, and an open socket may bring, any event up to now, for the first time
or again, because the bus redelivers to two independent consumers. A fetch is sent, answered
(the row is read), and applied, in three actions, so that a reconnect or leaving the page can come
in between; a fetch that was answered is past aborting and only its number stops it. `lastSeenAt`
is the arrival of a position in the system, which the model lets lag behind its event by less than
a tick. The disconnection's length is only short or long. Display is left out: backoff lengths,
status labels, the error banner. Of the profile a single name is kept, known or unknown: that a
late snapshot may put an older name over a newer one (`mergeReducer.ts:85` has no guard, and the
database keeps no time of a profile to compare) is therefore not visible here.

**GeoImport, GeoDatasets, GeoValidation.** A polygon is the set of sampled positions it covers, with a
mark for those on either side within the coastal tolerance of its boundary; `Processed` is what the
INSERT ... SELECT statements keep of a staging table. Table locks follow PostgreSQL (external): INSERT
takes ROW EXCLUSIVE and CREATE INDEX IF NOT EXISTS takes SHARE, both until the end of the
transaction, so two imports that have both inserted block each other's indexing and the deadlock
detector aborts one. The switch of `is_active` is READ COMMITTED with the partial unique index:
a second transaction that deactivated a version another has replaced meanwhile would be refused
(the table locks leave it no chance to: `ActivationsNeverRefused`, section 5).
`GeoImport` is shown to implement `GeoDatasets`; `GeoValidation` runs against that specification and
need not know how imports work. Each await of `validatePosition` is an action, and the function of the
database is one snapshot.

**SanctionsImport, SanctionsMatching.** The lock belongs to a session, not to an import: `holder` is a
worker's reserved connection, nobody, or `Ghost`, the session of a dead process that PostgreSQL has
not closed. A job that finds the lock taken ends without a run. A list is a set of vessels with a
number; which columns the document fills is not kept. In `SanctionsMatching` an entity has a sequence
of listings that an import gives it while jobs read; `decided` orders the jobs by `checkedAt`, which is
all that the guard of `applyEnrichment` compares.

**ProviderAdapter.** `wire` is the state of each WebSocket, whatever the adapter thinks of it, so that
frames and the close event of a socket can still arrive after `stop()`. `attempt` is capped where the
delay is.

**VesselProfile.** A raw field is absent, padding or zero (`"unknown"`), a value the schema refuses, or
a value; the columns of a profile are kept apart. The bus may deliver any report late and again.

## 3. Runs

| Run | Properties | Instance | States |
|---|---|---|---|
| `bus` | TypeOK, NoSilentLoss, DeadLetterOnlyAfterLimit, ImplementsAtLeastOnce, PendingSettles, ReadLoopProgress | 1 group, 1 subscription (2 activities), 2 entries, limit 2, MaxLen 1, 1 fault | 292 k |
| `bus_ack` | OnlyHandlerFailuresBuried *(violated)* | 1 subscription, 1 entry, 2 faults | - |
| `realtime` | TypeOK, ResourcesBounded, OthersInOrder, NewestPositionWins, VanishedPeersLeave | 1 connection, 2 vessels and statics, queue of 2, 4 fan-outs | 211 k |
| `realtime_leak` | SubscriptionsLive *(violated)* | the same, 3 fan-outs | - |
| `pipeline` | TypeOK, PublishedOncePerKey, SampledForAnother | 2 handles, 3 messages, 3 instants, 2 statuses, 2 faults | 7.7 M |
| `pipeline_window` | WindowEnforced *(violated)* | the same, no fault | - |
| `store` | TypeOK, LatestAgrees, RetainedIsPlaced, TrackKept | 2 writers, 2 maintainers, 2 days of clock, 3 deliveries of any of 14 events | 458 k |
| `enrichment` | TypeOK, MarkersVouch, RowAnnounced | 1 vessel, 2 profiles, 2 writes, 2 attempts, 2 faults | 3.4 M |
| `enrichment_live` | EveryVesselChecked | 1 vessel, 2 profiles, 1 write, 1 result that grows stale, 2 faults | 140 k |
| `enrichment_failed` | FailedJobsRecovered *(violated)* | 1 vessel, 1 write, 2 faults | - |
| `live_sync` | TypeOK, MatchesFitStatus, ConnectedOrTrying, CaughtUpAfterOutage, NothingGoesBack, SnapshotsInOrder, KeptWhileHeard | 1 vessel, clock of 2, 2 checks, retention 0, 1 lost connection | 752 k |
| `services` | TypeOK, LosersHaveWinners, AnswersFit, CompletedStands, JudgedInSpan, FeedHeld, ImplementsDatasets, StatusSettles, OnlyLearns, Converges, ServicesGetOn | six machines, below | 124 k |

`services` checks six machines that share no state. A behaviour belongs to one of them (`part`, chosen
at the start); the others rest in their initial states, so the run is the union of six state spaces and
not their product. What two machines call by the same name (`Entities`, `Null`, `MaxFaults`) has one
value, and each counts its own faults. `FeedHeld` is `OneConnection` and `BackoffGrows` of the adapter; `ServicesGetOn` joins
the progress of three machines: `GeoImport!ImportsEnd`, `SanctionsImport!ListArrives`,
`ProviderAdapter!StaysConnected`. `ResourcesBounded` in `realtime` is `QueueBounded`, `BufferBounded` and
`GaugeAgrees`; `LatestAgrees` in `store` is `LatestIsNewest` and `LatestOnTrack`.

What they show:

* The bus keeps its at-least-once promise through lost replies, two activities dispatching
  the same entry, crashes, trimming and replay; the retry counter, although it expires, is
  deleted before the XACK and is shared, runs ahead of the failures only by the HINCRBYs that
  were executed and sent again, so an early dead letter always has such a repetition behind it.
* Poison entries are settled. A group is given every new entry unless **all** its read loops
  have ended on a failed XACK outside a try block: that exception is in `ReadLoopProgress`
  because the code has no restart of a loop.
* The gateway's queue and buffer are bounded (what fan-outs add, by the check of `bufferedAmount`;
  the error replies of `sendError` are not checked, and only `MaxBadMessages` bounds them), statics are neither lost nor reordered while
  a client stays connected, each end of a connection is counted once.
* The dedup key prevents a second event of its instant while it lives; the one event can be in the
  stream again, but only for an XADD that was executed and sent again. A sampled position
  always had a reason that reached the stream, is about to, or was lost to a fault.
* The latest row, the track and the partitions agree through redelivery, midnights, runs
  that planned on an old day, skipped locks and rolled-back transactions. A position dated
  beyond the precreated days passes the stale check and finds no partition:
  `RetainedIsPlaced` states this exception, with the two others.
* The keys of the requester are those of the stored result and clients heard of it, unless
  an attempt was cut short between the UPDATE and the last SET.
* The reducers' guards and the request number suffice: although the messages are unordered,
  neither the store nor the applied snapshots go back in time. After an outage longer than
  `outageResyncMs` a fetch that succeeds leaves the store no older than the database was at the
  reconnect; nothing of the kind holds after a shorter one, when the page does not fetch, nor
  after a fetch that failed, which is not repeated.
* However imports overlap, fail or die, a reader of the geo datasets sees whole versions with land and
  water, and one takes over from the other at once. Two imports do wait for each other when both have
  inserted before either has indexed, and one is aborted. The other gets through, unless it turns out to
  lack land or water itself: then a sound import was lost to one that comes to nothing, and is not
  run again.
* A geo verdict, cached or not, is the one a version active during the call gives: the key carries the
  version that was *evaluated*, not the one that was read before. What a cached verdict is worth is the
  bucket: it may be that of another position of the same bucket.
* A completed sanctions run means its list is in the table, through crashes, stalled jobs run twice
  and sessions that outlive their process, as long as no import loses the connection its lock is on;
  then an import goes on unlocked and can put an older list over a newer one. A list that is published
  arrives, although nothing retries a failed run: the cron job comes round.
* Candidates are read by three statements, and the result can mix two lists. It never misses an
  entity that had the vessel's identifier throughout, never matches one that matched at no moment, and
  an older result that was written over a newer one is replaced once list and profile stand still.
* The adapter never has two connections, nor a timer after `stop()`, and each close without a frame
  makes the delay longer than any jitter of the last.
* A profile column changes only to what a report said, and never to nothing. A late report does
  overwrite a newer value, and the vessel's next repetition repairs it.

Bounds and why they are enough. Two faults fail both attempts of a limit of two, or combine
a crash with a lost reply; in `bus` one fault suffices, as failures of handlers are not counted: it can be the re-sent HINCRBY after
one failure that reaches the limit of two. Two entries with `MaxLen` 1 make trimming reach pending and unread
entries; one group is enough because groups share only the stream, which no group changes
(the proofs cover any number, the refinement included). A queue of two holds two vessels, or a vessel and a static, so
every branch of `enqueue` is taken; the fourth fan-out follows an eviction. Two handles are
the least that overlap, the third message finds what they left. Retention, safety and
precreation of one day put the cutoff, the window and the future limit within reach of the two
days of the clock. Connections, vessels, and keys of different vessels do not interact except
through the gauge and the reconciler's batch, so one of each is used where the state space
would not allow two. With one vessel the batch is never full: the order of `Batches` is
modelled but only its trivial case is checked.

In `live_sync` two instants and two checks give an older and a newer one of each, the second
connection gives a second fetch, and retention 0 lets a vessel expire on a tick; `LiveSyncProofs`
covers the other values for all of the properties.

In `services`: two sound geo imports that take the same tables in either order are the least that
deadlock, a third runs under the test switch; two validations with two versions and two positions of
one bucket meet each other's cache entries; two workers, two lists and batches of one vessel
interleave two imports at every statement; two overlapping jobs, two entities of which one exchanges
its IMO for an MMSI, and a profile that changes once give a torn judgement and one out of order; two
sockets are an old and a new one, and five attempts reach the cap of the delay; six reports in two
stretches of a vessel's life cover each report kind, validity flag and kind of field. One fault each
suffices to meet a second actor in the middle of its work. The configurations of `GeoValidation` are
narrowed to fail-closed with a cache, the one in which errors and cached verdicts both show.

`CHECK_DEADLOCK FALSE` everywhere: all inputs are bounded, and with them used up and every
message handled the system really is at rest.

Fairness. `StreamBus!FairSpec`: Node runs what is ready, the poll and the autoclaim timer keep
firing, handlers settle, Redis ages pending entries, the container is restarted. Nobody has
to publish. `RealtimeGateway!FairSpec`: the heartbeat interval fires and closed sockets report
it. `Enrichment!FairSpec`: the same for the consumer, the reconciler, the requester, the worker and
the expiry of the checked key. `Enrichment!BusySpec` adds strong fairness of
`EnqueueForgotten`: a request made again and again meets at last a BullMQ that has dropped the
finished job of its id. This is an assumption on the load (200 other jobs that end the same
way between two requests), not on the code. `enrichment_failed` shows that without it the claim is
false. In `services` fairness is what each machine's own `FairSpec` asks: statements end and PostgreSQL
detects deadlocks and dead sessions; the cron job comes round, processes restart and a worker takes
what waits; the reconciler and the expiring marker bring an enrichment job back; timers fire; a
transponder repeats its reports and the bus delivers them. The one strong fairness is that the
provider accepts a connection now and then, which no code can give. A handshake is assumed to end, one
way or the other, although the client sets no handshake timeout: a provider that accepts the TCP
connection and then says nothing is outside `ServicesGetOn`. `StatusSettles` assumes that the
enrichment job comes back, which, as `enrichment_failed` shows, depends on the load too. Faults are finite in number in every run, as liveness under endless faults is not claimed.

## 4. Where code and documents disagree

1. `bus_ack`: the XACK sits inside the handler's try block
   (`src/shared/bus/redis-streams.event-bus.ts:225`), so an event whose handler never failed can
   be dead-lettered; `docs/architecture/architecture.md:88` speaks of handler failures.
2. `realtime_leak`: a message between close(1013) and the peer's close frame subscribes the removed
   connection again (`src/realtime/realtime.gateway.ts:158`), and nothing removes it;
   `docs/architecture/realtime.md:53`.
3. `pipeline_window`: the sampler's GET and SET are apart (`src/pipeline/sampler.service.ts:51`), so
   two positions within a window pass; comment at lines 44-45 there.
4. `enrichment_failed`: a failed job keeps its deterministic id
   (`src/enrichment/vessel/vessel-enrichment.requester.ts:61`), so the reconciler's later requests do nothing;
   `docs/architecture/sanctions-enrichment.md:73` says it recovers failed jobs.

Noticed while modelling, modelled as the code does it, without a run of its own:

* No command of the bus or the pipeline is protected against being sent again. A re-sent HINCRBY
  (`src/shared/bus/failure-handler.ts:58`) counts one failure twice, so an event can be dead-lettered
  before `STREAM_RETRY_LIMIT` dispatches have failed; a re-sent XADD
  (`src/shared/bus/redis-streams.event-bus.ts:54`) puts an event into the stream twice, which the upserts
  downstream tolerate; a re-sent SET NX (`src/pipeline/dedup.service.ts:24`) drops its own event as a
  duplicate.
* `src/ingestion/aisstream/aisstream.adapter.ts` opens its socket without a handshake timeout.
* `docs/architecture/sanctions-enrichment.md:62` promises matches of *normalised* names, but
  `findSanctionCandidatesByName` (`src/enrichment/vessel/enrichment.repository.ts:104`) compares the
  names as they are written, so normalisation in the matcher only ever sees names that are already equal. `JudgedInSpan` is stated so that it does not promise name matches.
* A job that finds the import lock taken records no run; entities that leave the list are never deleted;
  a 200 response without an `sdnList` is recorded as a completed run of no records.
* The comment "First successful frame after open" (`src/ingestion/aisstream/aisstream.adapter.ts:127`) is
  about every frame that parses, an error object of the service included.

## 5. Proofs

`StreamBusProofs` proves, for every number of groups, subscriptions, entries and faults and every
limit, length and count that satisfies `BusAssumption` (the consumers are a finite set, each has
a group, limits are positive):

* `TypeCorrect`: `Spec => []TypeOK`;
* `AtLeastOnceSafety`: `Spec => []NoSilentLoss`;
* `BuriedAfterLimit`: `Spec => []DeadLetterOnlyAfterLimit`;
* `BusKeepsPromise`: `Spec => ImplementsAtLeastOnce`, the refinement of `AtLeastOnce`.

`NoSilentLoss` is not inductive: an XACK removes an entry from the pending list, and only the
history of the activity that sends it says that this is right. `IInv` adds

* `Earned(t)`: an activity that is about to acknowledge has a handler that returned, a dead
  letter, or an entry with no data; one about to bury has failed, and the failures with the
  re-sent counts are at least `Limit`;
* `Published`: cursors, pending lists, batches and dead letters mention only entries that exist, so
  that an XADD does not change the kind of an entry someone holds;
* `CounterInv`: the retry counter plus the activities that have failed and not counted yet is at
  most the number of failures and of HINCRBYs sent again (`Countable`). The second term matters: two activities can be in the catch of
  one entry at once, and each HINCRBY must be covered by a failure of its own.

The proof first describes how an activity moves on (`DispatchMoves`, `EscapeMoves`,
`AwaitMoves`), then has one lemma per part of the invariant for the steps of `dispatch`
(`StepType`, `StepEarned`, `StepCounter`, `StepNoLoss`), one per other action
(`AppendKeeps`, `DeliveryKeeps`, `SubscribeKeeps`, `CrashKeeps`, `ClockKeeps`, `FetchKeeps`,
`ClaimKeeps`, `ResendKeeps`), and joins them in `IInvStep`.

The refinement needs one more invariant, `Behind`: what a group has pending, idle or in hand lies behind
its cursor, a group with a running process exists, and the stream keeps its newest `MaxLen` entries.
Without it an XACK could take off an entry that the group is still to be given, which would leave it
owed. There is a lemma per action that says what it is to the promise: XADD is `Offer`
(`AppendSteps`), a first subscription is `Join` and a later one nothing (`SubscribeSteps`), XREADGROUP
moves entries between the two halves of `owed` (`FetchSteps`), XAUTOCLAIM is `Drop` (`ClaimSteps`), and
a step of `dispatch`, also when its command is sent again, is `Handle`, `Bury`, `Settle` or nothing
(`DispatchSteps`, `ResendSteps`, from `Earned`). The
attempt found an error in the abstract specification: `Offer` used to take the same entries from every
group, which one group in `bus` could not tell from the code, and two groups can.

`PositionStoreProofs` proves, for any vessels, days, writers and maintainers, any retention, safety
margin and precreation (`StoreAssumption`, `PartitionAssumption`: naturals; an absent row is no body):

* `StoreTypes`: `Spec => []TypeOK`;
* `LatestAlwaysAgrees`: `Spec => []LatestAgrees`;
* `PlacedWhileMaintained`: `Spec => []RetainedIsPlaced`;
* `TracksAreKept`: `Spec => TrackKept`.

`LatestAgrees` compares the latest row with the events that were committed and with the track, which may
have lost the day; it needs `RowCommitted`, that the row comes from a committed event. `RetainedIsPlaced`
is about events; behind it is `WindowPlaced`, that each retained day up to the last maintained window has
its partition, and this survives a maintainer that plans on an old day because the cutoff of an old day
drops less (`OneHolder`: the advisory lock keeps the runs apart).

`EnrichmentProofs` proves, for any vessels, profiles, attempts and faults (`EnrichmentAssumption`):

* `EnrichmentTypes`: `Spec => []TypeOK`;
* `MarkersAlwaysVouch`: `Spec => []MarkersVouch`;
* `RowsAreAnnounced`: `Spec => []RowAnnounced`.

The writes of a check come one after the other, so between the UPDATE and the last SET the properties
hold only by what the worker has in its hands: `WorkerInv` says that it is the stored check, and which of
the publish and the two markers is already there.

`PipelineProofs` proves, for any finite set of handles, any vessels, instants and windows
(`PipelineAssumption`; a process has finitely many calls in flight):

* `PipelineTypes`: `Spec => []TypeOK`;
* `OncePerKey`: `Spec => []PublishedOncePerKey`;
* `SampledAwayForAnother`: `Spec => []SampledForAnother`.

That an event is not in the stream twice follows from counting (`Counted`). The times a key was taken
are its expiries, and one when it is set (`Granted`). The events that are in the stream or with a handle
that owns the key (`Known`) never outnumber them, and the copies and the owning handles outnumber them
at most by the XADDs that were sent again. Only the SET NX that lets a handle through makes an event
known, and it takes the key; a command that is sent again brings no new event. For the sampler, each state it holds was written for a position that is in the stream, about to be,
or lost to a fault (`SamplerWitnessed`, `Accounted`), so the position that state turns away has its other.

`RealtimeProofs` proves, for any finite set of connections, any vessels, messages and limits
(`QueueAssumption`, `GatewayAssumption`):

* `GatewayTypes`: `Spec => []TypeOK`;
* `ResourcesStayBounded`: `Spec => []ResourcesBounded`;
* `OthersStayInOrder`: `Spec => []OthersInOrder`;
* `NewestPositionStays`: `Spec => []NewestPositionWins`.

Lemmas on `SendQueue`'s operators say what `Enqueue` and the flush do to a queue's bounds, to the order of
its messages and to the newest position of a vessel. The invariant then states, connection by connection,
that sent, queued, offered and evicted messages account for each other (`ConnectionsSound`), that
messages in a queue and between sent and queued are in fan-out order, and that numbers still to come are
in none of them (`FreshIds`). `ResourcesBounded` needs `GaugeAgrees`, which counts connections: the set is finite.

`LiveSyncProofs` proves, for every length of the clock, number of checks, retention and number of
lost connections (`StoreAssumption`, `SyncAssumption`: naturals, and a clock that has an instant):

* `MatchesNeverAhead`: `Spec => []MatchesFitStatus`;
* `StoreMovesForward`: `Spec => NothingGoesBack`;
* `SnapshotsInReadOrder`: `Spec => SnapshotsInOrder`;
* `RemovedOnlyWhenSilent`: `Spec => KeptWhileHeard`;
* `PageTypes`: `Spec => []TypeOK`;
* `AlwaysOneAttempt`: `Spec => []ConnectedOrTrying`;
* `CatchesUpAfterOutage`: `Spec => []CaughtUpAfterOutage`.

Each reducer gets a lemma that it *merges* (`SnapshotMerges`, `DetailMerges`, `EnrichedMerges`,
`PositionMerges`, `StaticMerges`): from a vessel it makes a vessel that is ahead of it, with matches
that still fit. The invariant `SyncInv` adds what the steps need beyond the types: `HeardIsKept`,
the newest word of the vessel is in its `lastSeen` unless it is too old to matter, so that pruning
removes only the silent; and `AnswersAhead`, an answered fetch is no newer than the database, and the
one of the current request is no older than the last one applied. The second holds because an answer
is read after its request was numbered, when every earlier answer that will ever be applied has been
applied. `NextSafe` joins one lemma per action. For the last three theorems `ClientInv` says what the
callbacks keep: one connection or one timer (`OneAttempt`), connections that are made in turn
(`Consecutive`), and no more fetches than connections (`RequestsFit`), so that the fetch after an outage
has a number of its own. `OwedKept` follows the row that is owed since a long outage from the reconnect
to the store: it is no newer than the database, an answer to its fetch brings it, and once the fetch is
settled the store has it, or it has lapsed.

`GeoValidationProofs` proves, for all versions, positions, buckets and configurations and any number
of validations at once, of failures and of restarts (`GeoValidationAssumption`: typed constants, and a
position that exists):

* `GeoTypes`: `Spec => []TypeOK`;
* `GeoAnswersFit`: `Spec => []AnswersFit`.

An answer is given long after the version it is about was read, so the invariant follows the
version: what a call has read, and what it computed, is of a version that is stored and was active
since the call began (`CallFits`), and a cache entry is a verdict of the version in its key for some
position of its bucket (`EntryFits`). Both survive an import because a stored version keeps its rows
(`Extends`, `HoldsStands`): `Activate` only takes a version that has none. With a
key that leaves the version out `EntryFits` is lost at the first import after a write, which is what
the mutant of `AnswersFit` shows in TLC.

`ServicesProofs` proves, for every value of the constants of the six machines that satisfies their
assumptions (`ServicesAssumption`: sequences are sequences, lists and entities are finite sets, manifests
are typed, `NULL` is none of the marks of a raw field, `MaxAttempt` is at most 5, where the delay is
capped):

* `ServicesTypes`: `Spec => []TypeOK`;
* `ImportsShowWholeVersions`: `Spec => ImplementsDatasets`, the refinement of `GeoDatasets` by `GeoImport`;
* `LosersAlwaysHaveWinners`: `Spec => []LosersHaveWinners`;
* `ActivationsNeverRefused`: `Spec => []SwitchesCleanly`;
* `CheckAnswersFit`: `Spec => []AnswersFit`;
* `CompletedAlwaysStands`: `Spec => []CompletedStands`;
* `AlwaysJudgedInSpan`: `Spec => []JudgedInSpan`;
* `FeedAlwaysHeld`: `Spec => []FeedHeld`;
* `ProfileOnlyLearns`: `Spec => OnlyLearns`.

The steps of one machine leave the variables of the others alone, so first every behaviour of `Services`
is one of each machine (`ImportSteps`, `CheckSteps`, ...), and each theorem is then about one machine.

* *Geo imports.* `ImportInv` says what each phase of an import has behind it (`Orderly`): an import that
  comes to its COMMIT has land and water, its version has no rows yet, and no other action touches what
  is committed; hence the refinement. `LockInv` is about two imports: a SHARE lock of one and a ROW
  EXCLUSIVE lock of another are never on the same table, whoever switches the version has indexed all
  tables, and what is written is locked. An import that commits has written land, so no other can be past
  its indexing, and what that other has deactivated stays what is active: this is
  `ActivationsNeverRefused`, and a COMMIT can only fail by a fault. For the losers, `Careful` follows what
  is staged and inserted while nothing fails: an import that lacks land or water in the end was not
  sound (`LackingIsUnsound`). `WaysOut` lists how an import leaves its transaction, and `WinnerStays`
  passes the winner on when it is itself the victim of a third. The attempt found the property wrong: it
  used to say that one of the two gets through, which the imports of the run do, but not one whose
  land lies outside the coverage; `Prevails` has that case now.
* *Geo checks.* `GeoValidationProofs` is instantiated, with its assumption.
* *Sanctions lists.* `LockKept`: while no lock has been lost, whoever is between the lock and the unlock
  holds it, what it has upserted is in the table from its list or a later one, and no completed run is
  of a later list than the one being loaded. The last part is what keeps an older list from overwriting a
  newer one.
* *Judgements.* The property is about the end of a job; `Under` says of every moment of it what the reads
  have found so far (`FoundFits`) against what has matched all along and what ever matched (`SpanHolds`).
  `MatchFacts` says of the matcher that every match is justified by a candidate and no candidate with the
  identifier goes unnoticed. The type of `decided` needs that no job is in it twice (`Deciding`).
* *The feed.* `OneSocket`: until `stop()` no socket but the adapter's is on the wire, and the timer is
  set exactly when there is none; afterwards sockets only close. `DelaysGrow` computes the five delays.
* *The profile.* `StaticFields` and `PositionName` say that the normalizer gives a column what the report
  says or nothing, `FieldsStorable` what it never gives.

Only model-checked: all liveness (`PendingSettles`, `ReadLoopProgress`, `VanishedPeersLeave`,
`EveryVesselChecked`, `StatusSettles`, `Converges`, `ServicesGetOn`), as TLAPS does not handle ENABLED and
fairness here, and the four runs that show a violation. Every invariant and every action property of a
passing run is proved. `OthersInOrder` is stated with a set of positions in a sequence rather than
SelectSeq, which is recursive and closed to the provers; `SanctionsMatching` takes a job out of `decided`
with RemoveAt for the same reason.

## 6. Not modelled

Rendering, metrics, health, logging and configuration: no state of theirs is read by another
component. The HTTP API and the lists of the admin API only read. Of conversions, the text level is left
out: how a timestamp, a padded string or the OFAC document is taken apart; what the result does to the
state is in `VesselProfile` and `SanctionsImport`. The geometry of the coverage and of PostGIS is
replaced by sampled positions. Retention of `ais.deadletter` itself.

## 7. Plan

The stateful parts of the system are modelled. Extensions worth having, in this order:

1. `GeoValidation` with the pipeline's sampler: a position that is dropped after its dedup key was set.
2. `Enrichment` over `SanctionsMatching`, with the result instead of the profile it came from.
3. A second vessel in `enrichment`, so that the reconciler's batch can be full.

Abstract specifications worth stating: a last-writer-wins register per vessel for `PositionStore` and
`VesselStore`, a bounded lossy channel for `SendQueue`.

Theorems to come: that `VesselStore`'s merges and `PositionStore`'s upsert implement such a register, and
lemmas on the operators the model only checks through runs (`Batches` of the reconciler).
