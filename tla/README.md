# Formal model of the Lago events processor

This directory holds TLA+ specifications of the event path of Lago, checked
with TLC on small instances and, where it matters most, proved with TLAPS for
all instances. The modelled code is the Go service `src/events-processor`; the
Rails API and the front end are git submodules that are not part of the
repository, and appear only as the application that writes the database tables and reads
the flags.

- [1. The system](#1-the-system)
- [2. Modules](#2-modules)
- [3. Runs: what is checked and what it shows](#3-runs-what-is-checked-and-what-it-shows)
- [4. Bounds](#4-bounds)
- [5. Fairness](#5-fairness)
- [6. Proofs](#6-proofs)
- [7. Disagreements between code and claims](#7-disagreements-between-code-and-claims)
- [8. Abstractions and what is not modelled](#8-abstractions-and-what-is-not-modelled)
- [9. Plan](#9-plan)

To check a run: `tlc -workers 2 -config MCConsumerGroup_safety.cfg MCConsumerGroup`.
To check the proofs of a component: `tlapm ConsumerGroupProofs.tla`, and likewise for
the seven other `...Proofs` modules.

## 1. The system

Paths are relative to `src/events-processor`.

| Component | State | Operations | Interacts with |
|---|---|---|---|
| Consumer group (`config/kafka/consumer.go`) | `cg.consumers`, per partition the channels `quit`, `done`, `records`; the client's fetch positions; at the broker the committed offsets and the assignment | `Start`, `poll`, `pollRecords`, `consume`, `processRecordsAndCommit`, the callbacks `assigned` and `lost`, `gracefulShutdown` | the broker through franz-go; calls `ProcessEvents` with each batch |
| Event processor (`processors/events_processor/processor.go`) | the processed records of the running call, one goroutine per record | `ProcessEvents`, `processEvent` | enrichment, producers, flags, cache expiry |
| Enrichment (`enrichment_service.go`) | none | `EnrichEvent`: metric, expression, subscription, charges | database or in-memory cache |
| Producers (`event_producer_service.go`) | none | three outputs, `ProduceToDeadLetterQueue` | Kafka topics |
| Flags and charge cache (`subscription_refresh_service.go`, `cache_service.go`, `models/stores.go`) | a sorted set, cached usage in Redis | flag a subscription, expire the usage of a charge | Redis; read by the API |
| In-memory cache (`cache/`) | Badger entries of six tables | `LoadSnapshot`, one consumer per table, `processRecord`, searches | database once, Debezium topics, enrichment |
| Subscription lookup (`cache/subscriptions.go`, `models/subscriptions.go`) | none | `SearchSubscriptions` and the query it replaces | cache, database |
| Flat filters (`cache/flat_filters.go`, `models/flat_filters.go`) | none | `BuildFlatFilters`, `MatchingFilter` | cache, enrichment |
| Lifecycle (`main.go`, `processors/main_processor.go`, `config/`) | the context cancelled by SIGTERM, the stack of deferred calls, open connections | the steps of the start, the deferred calls, panics, shutdown | all of the above |
| Results, errors, time, tracing, configuration | none | conversions and I/O | all of the above |

An event travels like this. `poll` fetches records and hands each partition's
records to the goroutine of that partition over an unbuffered channel. That
goroutine calls `ProcessEvents`, which starts a goroutine per record; each
enriches its event, starts a goroutine per output message, flags the
subscription and expires cached usage, and ends as processed, dead-lettered, or
left for a retry. The partition goroutine then commits the longest processed
prefix of the batch. Enrichment reads either the database or the in-memory
cache, which six other goroutines keep up to date from change streams.

What is hard here, and what makes it correct:

- **Rebalances, evictions and shutdown against running batches.** The broker
  takes partitions away while a batch is processed. Correct: nothing committed
  was never processed, commits do not move back, two processes do not work on a
  partition at a time, callbacks find what they dereference, shutdown ends.
- **Partial failure of an event.** Any of up to a dozen calls fails, after
  others took effect. Correct: a record counted as processed has had all its
  effects or left a trace (a dead letter or a captured error).
- **Crashes.** Between any two of these steps. Correct: an event below the
  committed offset came to an outcome, and if that is gone it was a captured
  error that died in the queue of Sentry's client.
- **Replay over a snapshot.** Each start replays old change records over a newer
  snapshot. Correct: the cache ends as the table; nothing is resurrected.
- **A flag that is overwritten.** Concurrent calls write the score of one member
  of a sorted set in any order, while a reader takes members that are due.
  Correct: no flag is lost and no busy subscription waits forever.
- **Start and stop.** Any step of the start fails, or the signal arrives in the
  middle of it, while loaders, table consumers and workers run. Correct: nothing
  is used after it was closed, what the code closes is closed on every way out,
  the cache is warm before it serves, captured failures are flushed, the process
  ends.
- **Two implementations of one question.** The cache answers what SQL did.
  Correct: same answers.
- **Reads of five tables that change meanwhile.** Correct: each charge is
  attributed exactly once; a filter takes an event only on evidence.

`PROJECT.json` lists these hazards line by line with the properties on them.

## 2. Modules

| Module | Models | Rests on |
|---|---|---|
| `RecordCommit` | which offset a batch commits (`findMaxCommitableRecord`, `CommitRecords`) | |
| `ConsumerGroup` | all processes of the group, the broker, crash and restart | `RecordCommit`, `DeliveryLog` |
| `DeliveryLog` | the abstract promise: at-least-once delivery per partition | |
| `EventProcessor` | one `ProcessEvents` call: record and message goroutines, all failures | |
| `EventPipeline` | one partition end to end: batches, `ProcessEvents`, commit, SIGTERM, crash, restart | `EventProcessor`, `RecordCommit`, `DeliveryLog` |
| `FlagStore` | the sorted set of subscription flags, its callers and its reader | |
| `Lifecycle` | one process from `main()` to its end | |
| `CdcCache` | one cached table: snapshot, change stream, deletes, TTL, restart | |
| `SubscriptionLookup` | the loop of `SearchSubscriptions` and the query `FetchSubscription` | |
| `FlatFilters` | `BuildFlatFilters` read by read, then `MatchingFilter` | |
| `...Proofs` | the theorems about each of the eight components with state, and their proofs (section 6) | the module of the same name, TLAPS |
| `EventPipelineProofs` | as above; it uses the lemmas of the processor for its goroutines | `EventPipeline`, `EventProcessorProofs` |
| `MC...` | instances for TLC | the module of the same name |

Definitions keep the names of the code. Operators commented as *Plausible slip*
are not part of the model: they are what the definition below them would be
with a likely mistake in it, and show that the properties notice that mistake.

### ConsumerGroup

`main[m]` is where `Start` is (serving, cancelled by SIGTERM, draining in
`gracefulShutdown`, closing the client, exited) or crashed; `poller[m]` where
`pollRecords` is; `worker[m][p]` where `consume` is. `held[m]` is the block that
`BlockRebalanceOnPoll` puts on rebalances from the end of a poll to
`AllowRebalance`. The unbuffered send of a batch is one joint step of poller and
worker (`send`), or loses against a cancelled context (`sendCancelled`).
`lost` is two steps, as in the code: it closes the quit channels and removes the
map entries, then waits for every `done`; `gracefulShutdown` likewise waits for
the consumers it saw. The broker accepts a commit only from the current owner.
An eviction (session timeout of a live process) moves ownership first and tells
the member later, so old and new owner overlap. `attempted` and `settled` are
history: records handed to the processor, and records it returned as processed.

### EventProcessor and EventPipeline

An event is the record of the facts the code branches on (`EventProfile`):
does it parse, has it a metric, an expression, a subscription, charges, and so
on. `stage[r]` is the place of the record's goroutine; `producing[r]` and
`failing[r]` are the messages whose goroutines push to their topic or to the
dead letter queue. Every store read, push and Redis call may fail at each turn.
`EnrichEvent(e)` is the set of results its five steps may have, in their order:
the first failure, or success. `ctxDone` is the cancelled context: a call that
runs when SIGTERM arrives goes on to its end, with a background context for
Kafka, but the Redis stores were built with the cancelled one, so its flags and
expiries fail from then on.

`EventPipeline` runs these goroutines under the partition consumer: a crash
forgets all goroutines and the position, keeps topics, Redis and the committed
offset; a SIGTERM lets the batch in hand (or, when it falls into the hand-over,
one more) end before the process exits.

`sentry.CaptureException` only queues an error in the process, and a background
transport sends it. `captured` is what was captured, `received` what of it had
reached Sentry when the present process started. When the process ends, any part
of the rest may be lost (`loseQueue`): in a `Crash`, a panic of a goroutine
included, because no deferred call runs, and in an `Exit`, because the deferred
`Flush` stops after two seconds. `lost[r]` is "now" when this took the only
outcome of `r`, and "before" once a later process has read `r` again. A capture
counts as a trace when it is the end of the event or of one of its outputs; the
one `Produce` makes of a failed push is not, since the message goes on to the dead
letter queue.

`EventPipeline` is shown to implement `DeliveryLog` a second time, under a
stronger mapping than `ConsumerGroup`: *attempted* becomes *came to an outcome*
(all effects, a dead letter, or a captured error, though the last may be lost).
An event that asks for nothing (a reprocessed one without charges) has its
outcome from the start; these are the `Vacuous` records of `DeliveryLog`.

### FlagStore

`Flag` reads the clock (`Flag`), and later Redis applies its ZADD (`applied`) or
never sees it (`failed`); between the two, other calls overtake it. A member is
its subscription, its bucket and its score. `owed` is history: flagged events no
refresh has taken into account yet. The reader is not in this repository; the
model says what the comment at `models/stores.go:46-51` relies on: it takes
members whose score is `Delay` old, looks at least every `Period`, and a refresh
sees the events that are at least `Settle` old. `FlagAssumption` asks that
`Delay >= Settle + MaxLatency`: a reader with a shorter delay could take a
member before its last event has settled, whatever the code does. All callers
read one clock: the difference of the clocks of two hosts counts as latency.

### Lifecycle

`pc` is the statement `main()` or `StartProcessingEvents` is at, `deferred` the
stack of deferred calls of the whole goroutine, `open` the connections and
stores that are open. A step opens its resource and pushes its closing
(`opened`), or ends in `LogAndPanic`, or in a panic nobody captures (no brokers,
an unknown SCRAM algorithm, a nil tracer provider). `runDeferred` pops one call:
at the return of `LoadInitialSnapshot` (wait for the loaders, then close their
pool), and when `main()` unwinds after a panic or a shutdown. Steps that pass the
context (the Pings of producers and Redis) fail once it is cancelled; the
database and the group's Ping do not use it. `loader`, `consumer` and `worker`
are the goroutines; a panic of a worker, or of the poller on a fetch error, ends
the process without any deferred call. The fetch that keeps the rebalance block
(section 7) is `worker = "held"`.

`Closed` is what deferred calls close. `NeverClosed` is what no code closes: the
clients of the producers (`initProducer` defers nothing, a producer has no
`Close`), and a client whose Ping failed, of Redis, of a producer or of the group
("unpinged"). The group's client is closed by `gracefulShutdown` alone. A table
consumer closes its own client when it stops, and is not in `open`. `config.sentry`
says whether `sentry.Init` succeeded: if not, the process goes on and captures
nothing. `flushed` is what the deferred `Flush` did with a captured error: it sent
it, or gave up after its two seconds.

### CdcCache

The table is the sequence of its row versions in commit order; the stream is the
same sequence, read from anywhere at or before the snapshot. `table` says which
kind of table it is: `keyOf`, the cache keys a row may have, and `keepDeleted`.
A row may change its key (`Rekey`: an edited metric code), and a key may pass
from one row to another; a subscription is kept with a TTL when terminated.
`Resolution` is the number of changes in a millisecond, which is what `UnixMilli`
makes indistinguishable. The snapshot is all rows or none (`GetAllWithStreaming`
gives up at the first error), and each row of it may fail to be set.

### SubscriptionLookup

Times are ticks and `Tick` of them a millisecond. The loop over the valid
subscriptions is one step per iteration, in the key order of Badger's iterator;
the query is a set (rows that `LIMIT 1` may return under its `ORDER BY`).

### FlatFilters

A list of accepted values that holds `__ALL_FILTER_VALUES__` stands for the values
of the metric, whatever else it lists (`acceptedValues`, and so does `accepts`).
`definition` is what the tables say, `cached` which of their rows are in the
cache when a read happens. Rows come and go between the reads (`processRecord`).

## 3. Runs: what is checked and what it shows

| Run | Properties | Result |
|---|---|---|
| `group_safety` | `TypeOK`, `IInv`, `CommittedAttempted`, `LostFindsConsumer`, `ExclusiveWork`, `ExitedQuiescent`, `CommitMonotonic`, `CommitStopsAtFirstFailure`, `DeliverySpec` | hold: at-least-once delivery, ordered commits and exclusive work through a revocation, an eviction, a SIGTERM and a crash of two processes |
| `group_liveness` | `EveryRecordAttempted`, `RevocationCompletes` | hold: no record is stuck and no revocation waits forever |
| `group_drain` | `ShutdownUnlessHeld` | holds with polls that carry two partitions; only a poll held at the time of SIGTERM can keep `Start` from returning |
| `group_shutdown` | `ShutdownCompletes` | **violated**, see section 7 |
| `group_retry` | `CommittedSettled` | **violated**, see section 7 |
| `processor_kinds` | `IInv`, `ProcessedAccounted`, `NothingInFlight`, `LeftForRetry`, `ReprocessOnlyExpands`, `CallReturns` | hold for every kind of event, every combination of failures, and a stop in the middle |
| `pipeline_crash` | `CommittedAccounted`, `EveryEventAccounted`, `OutcomeSpec` | hold with a crash or a SIGTERM at any step and a record that makes the process panic |
| `cdc_tables` | `IInv`, `PrefixConsistent`, `NoDowngrade`, `CurrentStays`, `EventuallyCurrent` | hold for a table with changing and reused keys, and for subscriptions with TTLs |
| `lookup` | `SameAsQuery` | holds outside the two excepted cases of section 7 |
| `filters_call` | `IInv`, `MostSpecificMatch`, `EachChargeOnce`, `MatchedOnEvidence` | hold for every definition of two filters, and while rows come and go |
| `flags` | `IInv`, `NoFlagLost`, `RefreshedInTime`, `MembersBounded` | hold for two callers, late and reordered commands, and flags that go on for longer than a refresh may wait |
| `process` | `IInv`, `UsedWhileOpen`, `WarmBeforeServing`, `EndsCleanly`, `StopsAfterSignal` | hold for every configuration, failing step and moment of the signal |

`CommittedAttempted` says less than one might wish: a record is *handed to the
processor* before its offset is passed, not that it *succeeded*. The stronger
`CommittedSettled` is what the comment in `processor.go` promises, and fails.
`CommittedAccounted` is what does hold of the outcome: the event had its
effects, or is in the dead letter queue, or its failure was captured, and that
capture is gone only if it was still in Sentry's queue when the process ended.
For a record that is left for a retry and then passed over, the capture is the
only trace, so a crash soon after loses the event without any (section 7). What
is excluded is every other way to lose it: `lost[r] = "now"` needs an outcome
that existed, and no process that has read the event since. `EveryEventAccounted`
excepts the same loss and only for events below the committed offset; one above
it is read again.

`ExclusiveWork` is claimed only while no member was evicted: after an eviction
the broker gives the partition away while the old owner still works on it, which
no client can prevent. The commit of the old owner is then refused
(`CommitMonotonic`).

`EndsCleanly` says that a process which unwinds, from whatever step, has closed
what the code closes at all, the group's client included, has given Flush its
chance at a captured error, and has left a client open for a failed Ping only
when a Ping failed. The producers' clients stay open (section 7), and nothing is
claimed of a process that a panic of the worker or the poller ends at once.
`StopsAfterSignal` excepts the held fetch: that shutdown hangs.

Deadlock is checked in `process`, whose only final states are the ended process
and the hanging one. In the other models the system may legitimately stop, when
all records are consumed, the call has returned or the table no longer changes.
That it does not stop before is the business of the liveness properties.

## 4. Bounds

- *Consumer group.* Two processes and one partition give every handover between
  an old and a new owner; one process and two partitions give polls with several
  batches and partial revocations. Records at offsets 1 and 3: the gap and the
  unused offset 0 are offsets without a record, as after compaction. `MaxFaults`
  bounds each kind of fault (revocation, eviction, SIGTERM, crash) by one, all
  four possible in one behaviour in `group_safety`. The proofs need none of it.
- *Event processor.* Ten kinds of events, one per branch combination the code
  distinguishes, two charges (one payable in advance), one record per call:
  goroutines of different records share only the append under a mutex, and
  interleave in `EventPipeline`, in batches of two.
- *Pipeline.* Two records (an event that flags a subscription, and one that
  makes the process panic unless the store fails first; the first may be left for
  a retry, and both may have a captured error as their only trace) in batches of
  one or two,
  and one crash or SIGTERM besides the panics a record causes (`MaxFaults`).
- *Cache.* Five changes of a table of three rows and two keys are enough for
  insert, update, delete, change and reuse of the key and update of the next row,
  with a snapshot anywhere between; three changes per millisecond, the fewest with
  which a row can leave a key and another take it in the same one; one restart.
- *Lookup.* Every set of up to three subscriptions: the loop compares pairs, and
  three rows exercise a replaced best match. Five instants, two to a
  millisecond, give before, within, at and after; one external id continues the
  other with a colon.
- *Flags.* Two callers overtake each other, buckets of three seconds, and a
  `Horizon` of ten: longer than `RefreshedInTime` lets an event wait, over four
  buckets. The proofs need none of it.
- *Process.* Two of the six tables (the first and the next consumer of
  `ConsumeChanges`), the four producers, every value of the configuration.
- *Filters.* Two filters over two keys and two values have every relation
  (disjoint, parent and child, equal, all values); every such definition is
  looked at in a quiet cache. One definition, a parent and a child filter, is
  looked at while up to three changes are applied between the reads (`Racing`).

Symmetry is used in `group_safety`, over the two members, and in `flags`, over
subscriptions and callers: nothing tells them apart, and no liveness property is
checked there.

## 5. Fairness

- Goroutines that can run do: weak fairness of the steps of the poller, of each
  worker, of the callbacks and of the shutdown; of each record and message
  goroutine; of the snapshot and the table consumer. Go's scheduler is
  preemptive, and calls to Kafka and Redis end with success or failure.
- The broker assigns an unowned partition to some process that serves, and
  expires the sessions of dead processes. This is the group protocol.
- A stopped process is started again (`Restart`): `docker-compose.dev.yml:314`
  runs the service with `restart: unless-stopped`.
- In `process`, the calls of `main()`, of the loaders and of a busy worker return.
  The queries of the snapshot have neither context nor timeout, so this is an
  assumption about the database. Nothing is assumed of the table consumers.
- A process that is told to stop ends (`Exit` of `EventPipeline`); one that hangs
  in its shutdown (section 7) is killed by its supervisor, which is the same step.
- `FlagStore` has no fairness: time does not pass a command or a reader that is
  due (`Tick`), so its bounds are invariants.
- Nothing is assumed of faults, signals, the application, the TTL or the passing
  of twelve hours.

Weak fairness of a step that may end in success or failure does not assume
success: `EveryEventAccounted` holds although every call may fail every time. It
leaves out behaviours in which the process panics again and again.

## 6. Proofs

Every safety invariant and every action property of the passing runs is also a
theorem, and so are both refinements of `DeliveryLog`: they hold for every value of the constants, without the bounds of
section 4. Each `...Proofs` module has the same plan: the properties follow from
`IInv` of the component's module, and there is one lemma per action that it
preserves `IInv`. TLC checks every `IInv` in the run of its component (that of
`SubscriptionLookup`, and `PipelineInv` and `OwnershipInv`, only say where a loop
or a commit is and have no run of their own).

| Module | Theorem | Statement |
|---|---|---|
| `ConsumerGroupProofs` | `InvariantHolds` | `Spec => []IInv` |
| | `TypeCorrect` | `Spec => []TypeOK` |
| | `AtLeastOnce` | `Spec => []CommittedAttempted` |
| | `LostIsSafe` | `Spec => []LostFindsConsumer` |
| | `WorkIsExclusive` | `Spec => []ExclusiveWork` |
| | `ExitIsQuiescent` | `Spec => []ExitedQuiescent` |
| | `CommitsAdvance` | `Spec => CommitMonotonic` |
| | `CommitsStopAtFailure` | `Spec => CommitStopsAtFirstFailure` |
| | `GroupImplementsDeliveryLog` | `Spec => DeliverySpec` |
| `EventProcessorProofs` | `ProcessorInvariant` | `Spec => []IInv` |
| | `ProcessedIsAccounted` | `Spec => []ProcessedAccounted` |
| | `NothingLeftInFlight` | `Spec => []NothingInFlight` |
| | `RetriesAreCaptured` | `Spec => []LeftForRetry` |
| | `ReprocessingIsHarmless` | `Spec => []ReprocessOnlyExpands` |
| `EventPipelineProofs` | `PipelineInvariant` | `PipelineSpec => []PipelineInv` |
| | `CommittedIsAccounted` | `PipelineSpec => []CommittedAccounted` |
| | `PipelineImplementsDeliveryLog` | `PipelineSpec => OutcomeSpec` |
| `CdcCacheProofs` | `CacheInvariant` | `Spec => []IInv` |
| | `CacheFollowsTable` | `Spec => []PrefixConsistent` |
| | `NeverDowngraded` | `Spec => NoDowngrade` |
| | `CurrentRowsStay` | `Spec => CurrentStays` |
| `SubscriptionLookupProofs` | `LookupInvariant` | `Spec => []IInv` |
| | `CacheAnswersAsDatabase` | `Spec => []SameAsQuery` |
| `FlatFiltersProofs` | `FiltersInvariant` | `Spec => []IInv` |
| | `ChargesAnsweredOnce` | `Spec => []EachChargeOnce` |
| | `AttributedOnEvidence` | `Spec => []MatchedOnEvidence` |
| | `AttributedToMostSpecific` | `Spec => []MostSpecificMatch` |
| `FlagStoreProofs` | `FlagsInvariant` | `Spec => []IInv` |
| | `FlagsAreKept` | `Spec => []NoFlagLost` |
| | `NoStarvation` | `Spec => []RefreshedInTime` |
| | `FewMembers` | `Spec => []MembersBounded` |
| `LifecycleProofs` | `LifecycleInvariant` | `Spec => []IInv` |
| | `ClosedAfterUse` | `Spec => []UsedWhileOpen` |
| | `ServesWarm` | `Spec => []WarmBeforeServing` |
| | `EndsAsItShould` | `Spec => []EndsCleanly` |

The assumptions on the constants are the named `ASSUME`s of the modules, which TLC
evaluates in every run. Most only say that bounds are naturals and marks of
absence are not values. Those with content:

- `FlagAssumption`: the reader's delay covers settling and latency (section 2).
- `CdcAssumption`: rows of a table that keeps its deleted rows have different
  keys. The cache key of a subscription contains its id (`cache/subscriptions.go`).
- `FiltersAssumption`: finitely many filter keys, and the marker of all values is
  no value of a metric.
- `LifecycleAssumption`: finitely many tables, at least one producer.

### The arguments

*Consumer group.* `CommittedAttempted` is not inductive: a commit passes a batch,
so one must know that everything below the batch was attempted. `IInv` says why,
in three layers.

1. *Who has what.* A worker exists exactly for the consumers in the map and
   those a running `lost` waits for, and only a busy worker holds a batch
   (`WorkersKnown`); polled records exist only under a held poll, during which no
   callback waits (`PollBlocks`); one callback runs at a time (`OneCallback`); a
   live owner has the partition in its map (`OwnerKnows`), and `lost` is called
   for entries of the map only (`LostFindsConsumer`).
2. *No gaps.* What lies below a batch, a polled set or the client's position was
   attempted or is held (`NothingSkipped`), and batch, polled set and position
   follow each other (`HeldInOrder`). The position clause is limited to serving
   members: after SIGTERM polled records are dropped, the position stays ahead,
   and the claim survives because a cancelled member never polls again.
3. *Order of commits.* What the owner holds or will fetch lies at or above the
   committed offset (`CommitBehind`).

`CommitWithinBatch` is the fact about `findMaxCommitableRecord` that the lemmas
use: the committed offset follows a record of the batch and passes no unprocessed
one. From `IInv` the refinement is direct: `processRecords` is `Attempt`, an
accepted commit is `Commit`, all else stutters. Exclusive work needs two more
facts (`OwnershipInv`): as long as nobody was evicted, whoever has a goroutine
for a partition owns it, because `lost` gives the partition back only when the
goroutine is done; and a process that has left owns nothing.

*Event processor.* A record's goroutine and its message goroutines touch only what
belongs to that record, so `IInv` is one invariant per record (`RecordInv`) and
the lemma `UntouchedInv` covers the steps of all the others. Its heart is
`OutputsTracked`: each message of the event is with a running goroutine, or
delivered, or has left a trace. When the `WaitGroup` lets the goroutine go, none is
running, hence all are accounted for. `VerdictSound` carries this to the moment
at which the record is reported.

*Pipeline.* `EventPipelineProofs` reuses the lemmas of the processor for its
goroutines and adds that everything below the position of a running process has
an outcome or is in the batch (`PassedAccounted`): the commit passes a prefix of
the batch, a restart goes back to the committed offset, and outcomes survive the
end of the process, but for captures in Sentry's queue: there `loseQueue` records
the loss of an only outcome, and reading the record again puts it in the batch.
The lemma `loseQueue_Outcomes` says that this is all that the end of a process
changes.

*Change stream.* `PrefixConsistent` speaks of positions after the snapshot only, and
says nothing of the replay before. `Replayed` does: under every key the cache is
as the snapshot until the stream writes there, and as the stream from then on,
because whatever a record writes is what the table held at that position
(`PutIsCurrent`). A record that writes nothing leaves the cache right for one of
three reasons: it is of another key, whose row it may have taken away
(`PassOther`); it deletes a row that ran out of its TTL (`PassDelete`, which needs
that a row is deleted under the key it has, `DeletedInPlace`); or the cached
version is of the same millisecond (`PassUpdate`). `TableInv` is about the table alone: versions are stamped in
order, a deleted row stays deleted, and nobody takes the key of a live row. An
entry in its row's last version cannot be removed, because `deleteRecord` compares
ids and a live row has no earlier deleted version; it cannot be replaced, because a
replayed update under its key that is later would have taken the key of a live row.

*Lookup.* The loop keeps a best candidate among those it has seen (`BestSoFar`), in
the order `before` that the `ORDER BY` defines; the lemmas show that the three
comparisons of the loop are that order, that it is transitive, and that outside
the boundary milliseconds `isValid` is the `WHERE`.

*Filters.* `ReadCompletely` says that, as long as no row is missing, each filter is
read with all its rows; `BestPerCharge` and `AnswersFromBest` say that the best
filter of a charge is the largest match among those looked at, and that an answer
is given only when none of its charge is left.

*Flags.* An event that waits keeps a member *in its own bucket* (`OwedCovered`). A
later ZADD may overwrite that member with an older clock, but a command is at
most `MaxLatency` late (`CallsRecent`), so the score stays high enough for the
event to settle before the member is due; and the reader, when it takes a member,
leaves only events that settle later than that member came due, which another
member must cover. For starvation, a score never leaves the bucket of its member
(`MembersPlaced` and the lemma `InBucket` on integer division), so it is at most a
bucket later than the event. For the size of the set, a subscription has one
member per bucket (`MembersDistinct`), and the buckets of members that are not
yet taken lie in an interval (`RecentBuckets`).

*Process.* For what is open and in `Closed` there is a call on the stack of
deferred calls that closes it, the group is open only from its start to
`gracefulShutdown` or when the process died at once, and a client without an
answer only after a failed Ping (`EverythingCloses`); what the start has passed is
open (`OpenInOrder`), and the stack begins with the wait while loaders read
(`LoadersAwaited`).

### What the proofs corrected

Attempts to prove a property for all constants failed for good reasons, and TLC
then showed the case on a larger or different instance:

- The refinement `OutcomeSpec` was false for events that ask for nothing: their
  outcome exists from the start. `DeliveryLog` now names them (`Vacuous`).
- The reference definition `accepts` of a filter differed from the code for a list
  that mixes `__ALL_FILTER_VALUES__` with values. The code replaces the whole list.
- `PrefixConsistent` and `EventuallyCurrent` did not hold with three changes in a
  millisecond. That is a finding about the code (section 7), now excepted by name
  (`contested`), and the run has three changes in a millisecond.

### Only model-checked

- Liveness (`EveryRecordAttempted`, `RevocationCompletes`, `ShutdownUnlessHeld`,
  `CallReturns`, `EveryEventAccounted`, `EventuallyCurrent`, `StopsAfterSignal`): the
  prover has neither fairness nor ENABLED.
- The two properties that are violated (section 7).

## 7. Disagreements between code and claims

- **A retryable failure is not retried if the partition goes on.** `processor.go`
  says of such a record "we should avoid commiting the record, It will be
  consumed again and reprocessed". The client's position has moved past it, and
  the commit of the next batch passes its offset (`group_retry`): batch {1}
  fails and commits nothing, batch {3} succeeds and commits 4. Only a rebalance
  or restart before that commit brings the record back.
- **The last trace of such an event can vanish.** Its failure is captured, which
  queues it in the process; a crash, a panic of a goroutine or a `Flush` that
  takes more than two seconds (`main.go:64`) may lose it after the commit has
  passed. So it is for an event that cannot be parsed and one whose push to
  the dead letter queue fails. `CommittedAccounted` excepts this case (`lost`).
  When `sentry.Init` fails (`main.go:60-62`) the process goes on, and no captured
  error goes anywhere.
- **Shutdown can hang.** When SIGTERM falls between the return of `PollRecords`
  and the check of the context, `pollRecords` returns without `AllowRebalance`;
  closing a client that was polled with `BlockRebalanceOnPoll` waits for it
  (`group_shutdown`). `ShutdownUnlessHeld` shows that this is the only way.
- **Updates within a millisecond are lost.** The stream consumer compares
  `updated_at` in milliseconds and skips an equal version, although rows have
  microseconds: the log says "cached version newer or equal", the cached one is
  older. The properties of `CdcCache` hold up to versions of one millisecond. The
  two versions need not be of one row: when a row leaves a key and another takes
  it within a millisecond, the cache keeps the first under that key until the
  second is updated again. The properties except such a key (`contested`), and
  go on doing so after that update.
- **A changed key leaves its entry behind.** A row whose key column changes is set
  under the new key; the entry under the old one is never removed, until another
  row takes that key or the process restarts. `PrefixConsistent` excepts such
  keys (`abandoned`).
- **The cache and the query differ within a millisecond.** The query truncates
  `started_at` and `terminated_at`, the cache does not: an event in the very
  millisecond its subscription starts is not matched. `SameAsQuery` excepts this
  case (`inBoundaryMillisecond`).
- **The cache and the query differ for ids with colons.** The prefix search for
  `a` also finds the subscriptions of `a:b`, and their external id is not
  compared. `SameAsQuery` excepts this case (`ambiguous`); without the exception
  TLC finds it with a single row in `lookup`.
- **A tracer that cannot be built stops the process.** `main.go:47` logs "Failed
  to initialize tracer provider, tracing disabled", but a failed
  `NewOTelTracerProvider` returns a nil pointer in a non-nil interface:
  `InitTracer` dereferences it, before Sentry is set up.
- **The cache is closed under its consumers.** `Cache.Wait` is never called by
  `main`: `memCache.Close` runs while table consumers may apply a change, after a
  panic with a context that is not cancelled yet. `UsedWhileOpen` is about the
  other goroutines.
- **Clients are left open.** The four producers' Kafka clients are never closed:
  `main_processor.go:145-163` defers nothing and a producer has no `Close`. A
  client whose Ping fails is dropped without a `Close` (`config/redis/redis.go:50-53`,
  `config/kafka/consumer.go:253-255`). Both are harmless while the process ends
  right after; `EndsCleanly` names them.
- **A stop during the start is a panic.** The Pings of producers and Redis use the
  cancelled context and fail, so the process reports an error and panics.

## 8. Abstractions and what is not modelled

- *Kafka and franz-go* are external: the models say what the code relies on. A
  member is one session; positions are reset by an assignment; a commit by a
  process that no longer owns the partition is refused. The context `assigned`
  passes to `consume` is the client's, so a worker stops by its quit channel.
- `gracefulShutdown` ranges over `cg.consumers` without a lock. A concurrent
  callback is interleaved before or after; a concurrent map access stops the
  process, which is a crash.
- *Which charge an output carries.* The enriched and the in-advance message carry
  the data of some charge, in Go's random map order; messages are identified by
  topic and, where one exists per charge, the charge.
- *Expiring cached usage* is one step with any subset of failures.
- *Poison records.* An event without properties whose metric has an expression
  writes to a nil map. The process panics at each attempt, and the partition
  stays behind this record. `pipeline_crash` shows that it is not skipped.
- *Properties of events* are their `%v` text, which is what filters compare.
  Pricing group keys, wallet codes and values are data no property looks at.
- *Change streams* have one partition per table, so their order is the commit
  order. Relations between the streams of different tables are in `FlatFilters`
  only as arbitrary arrival.
- *Sentry* is a queue in the process that its transport empties in the background,
  and that dies with it. Events that the transport drops while the process runs
  (a full queue, a rate limit), and in `EventPipeline` a Sentry that was not
  initialised, are not modelled: a capture is then no trace at all.
- *Flat filters.* The first read of `BuildFlatFilters`, of the billable metric,
  is there as a failure only: the metric was found by the enrichment before. Rows
  appear and disappear between reads, their contents do not change.
- *Group liveness* is checked with one partition. Fetches with several partitions
  are in `group_drain`, and in the proofs of the safety properties.
- *Not modelled:* spans, attributes and Kafka hooks of the tracers; TLS, SASL and
  parsing of the environment; logging; the JSON and float arithmetic of `utils`;
  the text of the keys of the usage cache; compose files, connectors and scripts.
  They change no state that a property could be about, or are data conversions
  out of TLC's reach.

## 9. Plan

Done, in this order: `RecordCommit`, `ConsumerGroup` with `DeliveryLog` and its
proofs, `EventProcessor`, `EventPipeline`, `CdcCache`, `SubscriptionLookup`,
`FlatFilters`, `FlagStore` with its proofs, `Lifecycle`, the refinement of
`DeliveryLog` by `EventPipeline`, and the proofs of the other six components.

Next:

1. A composition of two `CdcCache` tables under `FlatFilters`, so that the order
   of arrival across tables comes from the streams.
2. An abstract specification of the cache (the table as of some position) that
   `CdcCache` implements after catching up.
