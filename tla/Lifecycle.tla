------------------------------ MODULE Lifecycle ------------------------------
(***************************************************************************)
(* One process of the events processor, from main() to its end             *)
(* (events-processor/main.go, processors/main_processor.go): what it opens *)
(* in which order, what its deferred calls close, and the goroutines that  *)
(* use it meanwhile - the loaders of the snapshot, the consumers of the    *)
(* change streams and the poller and a worker of the consumer group.  A    *)
(* step of the start may fail, a stop signal may arrive at any time, and   *)
(* the worker and the poller may panic.                                    *)
(***************************************************************************)
EXTENDS Integers, Sequences, FiniteSets, Functions

CONSTANTS
    Tables,      \* tables of the in-memory cache
    Producers    \* topics with a producer: 4

ASSUME LifecycleAssumption ==
    /\ IsFiniteSet(Tables)
    /\ Producers \in Nat \ {0}

VARIABLES
    config,     \* the environment variables; sentry: Sentry accepts its own
    pc,         \* the step main() is at
    ctxDone,    \* the context of main() is cancelled
    deferred,   \* deferred calls, the next to run first
    open,       \* resources that are open
    producers,  \* producers that answered their Ping
    loader,     \* loader[t]: the goroutine that loads the snapshot of t
    consumer,   \* consumer[t]: the goroutine that applies the changes of t
    worker,     \* the goroutines that fetch and process a batch of events
    panic,      \* what made the process panic
    captured,   \* LogAndPanic's error is in the queue of Sentry
    flushed     \* what the deferred Flush did with the queue

goroutines == <<loader, consumer, worker>>
errors == <<panic, captured, flushed>>
resources == <<deferred, open, producers>>
vars == <<config, pc, ctxDone, resources, goroutines, errors>>

Steps == {"tracer", "sentry", "cache", "snapshot", "loading", "consumers",
          "brokers", "producers", "database", "flagStore", "chargeCache",
          "group", "start", "serving", "draining", "unwinding", "ended"}

\* What main() and its deferred calls close.
Closed == {"tracer", "badger", "pool", "database", "flagStore", "chargeCache"}

\* The clients of the producers, and a client whose Ping failed: no code closes
\* them.
NeverClosed == {"producers", "unpinged"}

\* (A consumer of a change stream closes its own client when it stops.)
Resources == Closed \cup NeverClosed \cup {"group"}
Deferred == Closed \cup {"cancel", "flush", "wait"}
Config == [sentry : BOOLEAN,
           memoryCache : BOOLEAN, brokers : BOOLEAN, scram : BOOLEAN,
           tracing : {"datadog", "opentelemetry", ""},
           datadog : BOOLEAN, otlp : BOOLEAN]

\* main() has deferred the cancellation of its context.
Init ==
    /\ config \in Config
    /\ pc = "tracer"
    /\ ctxDone = FALSE
    /\ deferred = <<"cancel">>
    /\ open = {}
    /\ producers = 0
    /\ loader = [t \in Tables |-> "idle"]
    /\ consumer = [t \in Tables |-> "none"]
    /\ worker = "idle"
    /\ panic = "none"
    /\ captured = FALSE
    /\ flushed = "no"

-----------------------------------------------------------------------------
(* How a step ends                                                         *)

\* The step opens r and defers its closing.
opened(r, next) ==
    /\ open' = open \cup {r}
    /\ deferred' = <<r>> \o deferred
    /\ pc' = next
    /\ UNCHANGED <<producers, errors>>

goto(next) ==
    /\ pc' = next
    /\ UNCHANGED <<resources, errors>>

\* A panic nobody captured.
panics(cause) ==
    /\ panic' = cause
    /\ pc' = "unwinding"
    /\ UNCHANGED <<resources, captured, flushed>>

\* Plausible slip: the process exits where it stands.
LogAndPanic_exit(cause, leaves) ==
    /\ panic' = cause
    /\ captured' = config.sentry
    /\ open' = open \cup leaves
    /\ pc' = "ended"
    /\ UNCHANGED <<deferred, producers, flushed>>

\* The error is captured, which does nothing without Sentry, then the deferred
\* calls run.  leaves: what the failed step leaves open.
LogAndPanic(cause, leaves) ==
    /\ panic' = cause
    /\ captured' = config.sentry
    /\ open' = open \cup leaves
    /\ pc' = "unwinding"
    /\ UNCHANGED <<deferred, producers, flushed>>

\* A client could not be created, or it was and its Ping failed.
clientFails(cause) == LogAndPanic(cause, {}) \/ LogAndPanic(cause, {"unpinged"})

at(step) == pc = step /\ UNCHANGED <<config, ctxDone>>

-----------------------------------------------------------------------------
(* main()                                                                  *)

findTracingProvider ==
    IF config.tracing # "" THEN config.tracing
    ELSE IF config.datadog THEN "datadog"
    ELSE IF config.otlp THEN "opentelemetry"
    ELSE "none"

\* An exporter, a meter or a resource that cannot be created gives nil.
NewOTelTracerProvider == {"provider", "nil"}

\* A nil *OTelTracerProvider is not a nil TracerProvider: it passes the check
\* of main(), and InitTracer dereferences it.
InitTracerProvider ==
    /\ at("tracer")
    /\ \E provider \in IF findTracingProvider = "opentelemetry"
                       THEN NewOTelTracerProvider ELSE {"provider"} :
          IF provider = "nil" THEN panics("tracer")
          ELSE opened("tracer", "sentry")
    /\ UNCHANGED goroutines

\* The process goes on without Sentry when its Init fails.
initSentry ==
    /\ at("sentry")
    /\ deferred' = <<"flush">> \o deferred
    /\ pc' = "cache"
    /\ UNCHANGED <<open, producers, goroutines, errors>>

NewCache ==
    /\ at("cache")
    /\ IF config.memoryCache
       THEN opened("badger", "snapshot") \/ LogAndPanic("cache", {})
       ELSE goto("brokers")
    /\ UNCHANGED goroutines

\* Plausible slip: the two calls are deferred in the other order.
LoadInitialSnapshot_closesFirst ==
    /\ at("snapshot")
    /\ \/ /\ open' = open \cup {"pool"}
          /\ deferred' = <<"pool">> \o (<<"wait">> \o deferred)
          /\ pc' = "loading"
          /\ loader' = [t \in Tables |-> "reading"]
          /\ UNCHANGED <<producers, errors>>
       \/ LogAndPanic("snapshot", {}) /\ UNCHANGED loader
    /\ UNCHANGED <<consumer, worker>>

\* A pool of its own, one loader per table, and two calls to make on return.
LoadInitialSnapshot ==
    /\ at("snapshot")
    /\ \/ /\ open' = open \cup {"pool"}
          /\ deferred' = <<"wait">> \o (<<"pool">> \o deferred)
          /\ pc' = "loading"
          /\ loader' = [t \in Tables |-> "reading"]
          /\ UNCHANGED <<producers, errors>>
       \/ LogAndPanic("snapshot", {}) /\ UNCHANGED loader
    /\ UNCHANGED <<consumer, worker>>

\* The next consumer of ConsumeChanges; those before it keep running when one
\* fails.
startGenericConsumer ==
    /\ at("consumers")
    /\ \E t \in {u \in Tables : consumer[u] = "none"} :
          \/ /\ consumer' = [consumer EXCEPT ![t] = "polling"]
             /\ UNCHANGED <<pc, resources, errors>>
          \/ LogAndPanic("consumers", {}) /\ UNCHANGED consumer
    /\ UNCHANGED <<loader, worker>>

\* Plausible slip: it returns after the first consumer.
ConsumeChanges_first ==
    /\ at("consumers")
    /\ \E t \in Tables : consumer[t] # "none"
    /\ goto("brokers")
    /\ UNCHANGED goroutines

ConsumeChanges ==
    /\ at("consumers")
    /\ \A t \in Tables : consumer[t] # "none"
    /\ goto("brokers")
    /\ UNCHANGED goroutines

-----------------------------------------------------------------------------
(* StartProcessingEvents                                                   *)

StartProcessingEvents ==
    /\ at("brokers")
    /\ IF config.brokers THEN goto("producers") ELSE panics("brokers")
    /\ UNCHANGED goroutines

\* An unknown SCRAM algorithm leaves a nil option for the client to apply.
NewKafkaClient(pinged, cause) ==
    IF config.scram THEN pinged \/ clientFails(cause) ELSE panics("scram")

\* The Ping fails once the context is cancelled.  Nothing closes the client.
initProducer ==
    /\ at("producers")
    /\ NewKafkaClient(
          /\ ~ctxDone
          /\ open' = open \cup {"producers"}
          /\ producers' = producers + 1
          /\ pc' = IF producers + 1 = Producers THEN "database" ELSE pc
          /\ UNCHANGED <<deferred, errors>>, "producers")
    /\ UNCHANGED goroutines

\* Only without the cache.  The connection does not use the context.
NewConnection ==
    /\ at("database")
    /\ IF config.memoryCache
       THEN goto("flagStore")
       ELSE opened("database", "flagStore") \/ LogAndPanic("database", {})
    /\ UNCHANGED goroutines

\* Redis is pinged with the context; a client that gets no answer stays open.
NewRedisDB(store, next) ==
    (~ctxDone /\ opened(store, next)) \/ clientFails(store)

initFlagStore ==
    /\ at("flagStore")
    /\ NewRedisDB("flagStore", "chargeCache")
    /\ UNCHANGED goroutines

initChargeCacheStore ==
    /\ at("chargeCache")
    /\ NewRedisDB("chargeCache", "group")
    /\ UNCHANGED goroutines

\* The group's client is pinged without the context, and closed by
\* gracefulShutdown alone.
NewConsumerGroup ==
    /\ at("group")
    /\ NewKafkaClient(
          /\ open' = open \cup {"group"}
          /\ pc' = "start"
          /\ UNCHANGED <<deferred, producers, errors>>, "group")
    /\ UNCHANGED goroutines

Start ==
    /\ at("start")
    /\ goto("serving")
    /\ UNCHANGED goroutines

\* Plausible slip: the context is looked at between two batches only.
stopServing_betweenBatches ==
    /\ at("serving")
    /\ ctxDone
    /\ worker = "committing"
    /\ goto("draining")
    /\ UNCHANGED goroutines

\* <-ctx.Done()
stopServing ==
    /\ at("serving")
    /\ ctxDone
    /\ goto("draining")
    /\ UNCHANGED goroutines

\* Plausible slip: the partition consumers are not waited for.
gracefulShutdown_noWait ==
    /\ at("draining")
    /\ open' = open \ {"group"}
    /\ pc' = "unwinding"
    /\ UNCHANGED <<deferred, producers, goroutines, errors>>

\* The partition consumers have ended; StartProcessingEvents and main return.
gracefulShutdown ==
    /\ at("draining")
    /\ worker = "idle"
    /\ open' = open \ {"group"}
    /\ pc' = "unwinding"
    /\ UNCHANGED <<deferred, producers, goroutines, errors>>

\* The deferred calls of LoadInitialSnapshot (its last one closes the pool) or
\* of the whole stack, in reverse order.  Flush sends what is in the queue, or
\* gives up after two seconds.
runDeferred ==
    /\ pc \in {"loading", "unwinding"}
    /\ deferred # <<>>
    /\ LET call == Head(deferred) IN
       /\ call = "wait" => \A t \in Tables : loader[t] # "reading"
       /\ deferred' = Tail(deferred)
       /\ open' = open \ {call}
       /\ ctxDone' = (ctxDone \/ call = "cancel")
       /\ flushed' \in IF call = "flush" /\ captured THEN {"sent", "gaveUp"}
                       ELSE {flushed}
       /\ pc' = IF pc = "loading"
                THEN IF call = "pool" THEN "consumers" ELSE pc
                ELSE IF Len(deferred) = 1 THEN "ended" ELSE pc
    /\ UNCHANGED <<config, producers, goroutines, panic, captured>>

\* SIGINT or SIGTERM.
Signal ==
    /\ ~ctxDone /\ pc # "ended"
    /\ ctxDone' = TRUE
    /\ UNCHANGED <<config, pc, resources, goroutines, errors>>

-----------------------------------------------------------------------------
(* The goroutines                                                          *)

running == pc # "ended"

\* A query that fails ends its loader: the Result is dropped.
LoadSnapshot(t) ==
    /\ running
    /\ loader[t] = "reading"
    /\ \E end \in {"loaded", "failed"} : loader' = [loader EXCEPT ![t] = end]
    /\ UNCHANGED <<config, pc, ctxDone, resources, consumer, worker, errors>>

\* The consumer polls, applies the records unless the context is cancelled,
\* commits and polls again.
consume(t) ==
    /\ running
    /\ \/ /\ consumer[t] = "polling"
          /\ ~ctxDone
          /\ consumer' = [consumer EXCEPT ![t] = "applying"]
       \/ /\ consumer[t] = "applying"
          /\ consumer' = [consumer EXCEPT ![t] = "polling"]
       \/ /\ consumer[t] = "polling"
          /\ ctxDone
          /\ consumer' = [consumer EXCEPT ![t] = "stopped"]
    /\ UNCHANGED <<config, pc, ctxDone, resources, loader, worker, errors>>

\* A batch is fetched and handed over, enriched, flagged, expired and
\* committed.  A fetch that meets a cancelled context keeps the rebalance
\* block, and the client's Close waits for it (ConsumerGroup, checkContext).
work ==
    /\ running
    /\ \/ worker = "idle" /\ pc = "serving" /\ worker' = "fetched"
       \/ worker = "fetched" /\ ~ctxDone /\ worker' = "enriching"
       \/ worker = "fetched" /\ ctxDone /\ worker' = "held"
       \/ worker = "enriching" /\ worker' = "flagging"
       \/ worker = "flagging" /\ worker' = "expiring"
       \/ worker = "expiring" /\ worker' = "committing"
       \/ worker = "committing" /\ worker' = "idle"
    /\ UNCHANGED <<config, pc, ctxDone, resources, loader, consumer, errors>>

\* A panic of a worker ends the process without main()'s deferred calls.
workerPanics ==
    /\ running
    /\ worker = "enriching"
    /\ panic' = "worker"
    /\ pc' = "ended"
    /\ UNCHANGED <<config, ctxDone, resources, goroutines, captured,
                   flushed>>

\* So does the panic of the poller on a fetch that failed.
pollerPanics ==
    /\ pc \in {"serving", "draining"}
    /\ worker # "held"
    /\ panic' = "poller"
    /\ pc' = "ended"
    /\ UNCHANGED <<config, ctxDone, resources, goroutines, captured,
                   flushed>>

\* The process is gone, or waits for the rebalance block until it is killed.
Ended == (pc = "ended" \/ worker = "held") /\ UNCHANGED vars

main ==
    \/ InitTracerProvider \/ initSentry \/ NewCache \/ LoadInitialSnapshot
    \/ startGenericConsumer \/ ConsumeChanges \/ StartProcessingEvents
    \/ initProducer \/ NewConnection \/ initFlagStore
    \/ initChargeCacheStore \/ NewConsumerGroup \/ Start \/ stopServing
    \/ gracefulShutdown \/ runDeferred

Next ==
    \/ main
    \/ \E t \in Tables : LoadSnapshot(t) \/ consume(t)
    \/ work \/ workerPanics \/ pollerPanics
    \/ Signal \/ Ended

\* Every call that main(), a loader or a busy worker makes returns.
Fairness ==
    /\ WF_vars(main)
    /\ \A t \in Tables : WF_vars(LoadSnapshot(t))
    /\ WF_vars(worker # "idle" /\ work)

Spec == Init /\ [][Next]_vars /\ Fairness

-----------------------------------------------------------------------------
(* Properties                                                              *)

\* Types of all variables.
TypeOK ==
    /\ config \in Config
    /\ pc \in Steps
    /\ ctxDone \in BOOLEAN /\ captured \in BOOLEAN
    /\ flushed \in {"no", "sent", "gaveUp"}
    /\ deferred \in Seq(Deferred)
    /\ open \subseteq Resources
    /\ producers \in 0 .. Producers
    /\ loader \in [Tables -> {"idle", "reading", "loaded", "failed"}]
    /\ consumer \in [Tables -> {"none", "polling", "applying", "stopped"}]
    /\ worker \in {"idle", "fetched", "held", "enriching", "flagging",
                   "expiring", "committing"}
    /\ panic \in {"none", "tracer", "cache", "snapshot", "consumers",
                  "brokers", "scram", "producers", "database", "flagStore",
                  "chargeCache", "group", "worker", "poller"}

\* What each goroutine has in use.
usedByLoader(t) ==
    IF loader[t] = "reading" THEN {"pool", "badger"} ELSE {}

usedByWorker ==
    CASE worker = "enriching" ->
            {IF config.memoryCache THEN "badger" ELSE "database"}
      [] worker = "flagging" -> {"flagStore"}
      [] worker = "expiring" -> {"chargeCache"}
      [] worker = "committing" -> {"group"}
      [] OTHER -> {}

\* No loader and no worker uses a connection or the cache after a deferred
\* call closed it, at whatever step the start fails or the signal arrives.
\* (The consumers of the change streams are not waited for: see README.)
UsedWhileOpen ==
    /\ \A t \in Tables : usedByLoader(t) \subseteq open
    /\ usedByWorker \subseteq open

\* The cache is warm before it is used: no change is applied to it before
\* every loader has ended, and no event is enriched from it before every
\* change stream is consumed.
WarmBeforeServing ==
    config.memoryCache =>
        /\ \A t \in Tables : consumer[t] # "none" =>
              \A u \in Tables : loader[u] \in {"loaded", "failed"}
        /\ worker # "idle" => \A t \in Tables : consumer[t] # "none"

\* A goroutine of the consumer group panicked: no deferred call runs.
diedAtOnce == panic \in {"worker", "poller"}

\* The step that failed had a client to ping.
pingFailed == panic \in {"producers", "flagStore", "chargeCache", "group"}

\* Unless a goroutine panicked, the end of the process finds a captured error
\* flushed, as far as Flush's two seconds went, and everything closed that the
\* code closes at all, at whatever step the start failed; a client whose Ping
\* failed is left open by the failed start alone.
EndsCleanly ==
    pc = "ended" /\ ~diedAtOnce =>
        /\ captured => flushed # "no"
        /\ open \subseteq NeverClosed
        /\ "unpinged" \in open => pingFailed

\* A stop signal ends the process, at whatever step of the start it arrives
\* and whatever the goroutines do, unless it finds the poller holding a fetch.
StopsAfterSignal == ctxDone ~> (pc = "ended" \/ worker = "held")

-----------------------------------------------------------------------------
(* The inductive invariant behind the safety properties                    *)

\* The steps from which on, until the process unwinds, something is there.
serves == {"serving", "draining"}
hasGroup == {"start"} \cup serves
hasChargeCache == {"group"} \cup hasGroup
hasFlagStore == {"chargeCache"} \cup hasChargeCache
hasDatabase == {"flagStore"} \cup hasFlagStore
hasStreams == {"brokers", "producers", "database"} \cup hasDatabase
hasCache == {"snapshot", "loading", "consumers"} \cup hasStreams

deferredCalls == Range(deferred)

\* What the steps before the current one opened is open.
OpenInOrder ==
    /\ pc \in {"snapshot", "loading", "consumers"} => config.memoryCache
    /\ config.memoryCache /\ pc \in hasCache => "badger" \in open
    /\ ~config.memoryCache /\ pc \in hasDatabase => "database" \in open
    /\ pc \in hasFlagStore => "flagStore" \in open
    /\ pc \in hasChargeCache => "chargeCache" \in open
    /\ pc \in hasGroup => "group" \in open

\* What the code closes at all will be closed and what was captured will be
\* flushed, by a deferred call, and the process ends when none is left.
EverythingCloses ==
    /\ open \cap Closed \subseteq deferredCalls
    /\ "group" \in open => pc \in hasGroup \/ diedAtOnce
    /\ "unpinged" \in open => pingFailed
    /\ pc \in {"cache"} \cup hasCache => "flush" \in deferredCalls
    /\ captured => flushed # "no" \/ "flush" \in deferredCalls
    /\ pc = "ended" => deferred = <<>> \/ diedAtOnce
    /\ pc # "ended" => deferred # <<>>
    /\ diedAtOnce => pc = "ended"
    /\ pc \notin {"unwinding", "ended"} => panic = "none"

\* The loaders are waited for before their pool is closed.
LoadersAwaited ==
    /\ pc = "loading" => \/ /\ deferred[1] = "wait" /\ "pool" \in open
                            /\ Len(deferred) > 1 /\ deferred[2] = "pool"
                         \/ deferred[1] = "pool"
    /\ \A t \in Tables : loader[t] = "reading" =>
          pc = "loading" /\ deferred[1] = "wait"

\* The streams start when every loader has ended, the workers when every
\* stream has started.
WarmInOrder ==
    /\ pc \in {"tracer", "sentry", "cache", "snapshot", "loading"} =>
          \A t \in Tables : consumer[t] = "none"
    /\ pc \in {"loading", "consumers"} => \A t \in Tables : loader[t] # "idle"
    /\ config.memoryCache /\ pc \in hasStreams =>
          \A t \in Tables : consumer[t] # "none"

\* Workers run while the group is served, or stopped with the process.
WorkersServed ==
    worker # "idle" => pc \in serves \cup {"ended"} /\
        {"flagStore", "chargeCache", "group",
         IF config.memoryCache THEN "badger" ELSE "database"} \subseteq open

\* No producer is started when all are there.
ProducersLeft ==
    pc \in {"tracer", "sentry", "cache", "snapshot", "loading", "consumers",
            "brokers", "producers"} => producers < Producers

\* Together with the order of the start-up, every step of main() and of the
\* goroutines preserves them.
IInv ==
    /\ TypeOK
    /\ OpenInOrder
    /\ EverythingCloses
    /\ LoadersAwaited
    /\ WarmInOrder
    /\ WarmBeforeServing
    /\ WorkersServed
    /\ ProducersLeft
=============================================================================
