--------------------------- MODULE LifecycleProofs ---------------------------
(***************************************************************************)
(* Proofs about Lifecycle, for any tables and any number of producers: at  *)
(* whatever step the start fails or a signal arrives, the deferred calls   *)
(* close what the code closes at all, after those that use it have ended;  *)
(* only the panic of a worker or of the poller skips them.                 *)
(***************************************************************************)
EXTENDS Lifecycle, TLAPS

USE DEF goroutines, errors, resources
USE DEF at, goto, panics, LogAndPanic, clientFails, diedAtOnce, pingFailed
USE DEF serves, hasGroup, hasChargeCache, hasFlagStore, hasDatabase, hasStreams,
        hasCache

-----------------------------------------------------------------------------
(* The stack of deferred calls                                             *)

\* defer puts a call in front of the others.
LEMMA Push ==
    ASSUME NEW S, NEW s \in Seq(S), NEW x \in S, NEW t, t = <<x>> \o s
    PROVE  /\ t \in Seq(S) /\ t # <<>> /\ Len(t) = Len(s) + 1
           /\ t[1] = x
           /\ \A i \in 1 .. Len(s) : t[i + 1] = s[i]
           /\ Range(t) = {x} \cup Range(s)
<1>1. /\ t \in Seq(S) /\ Len(t) = Len(s) + 1 /\ t[1] = x
      /\ \A i \in 1 .. Len(s) : t[i + 1] = s[i]
    OBVIOUS
<1>2. DOMAIN t = 1 .. Len(s) + 1 /\ DOMAIN s = 1 .. Len(s) /\ Len(s) \in Nat
    BY <1>1
<1>3. \A i \in DOMAIN t : t[i] = x \/ \E j \in DOMAIN s : t[i] = s[j]
    <2>. SUFFICES ASSUME NEW i \in 1 .. Len(s) + 1, i # 1
                  PROVE  \E j \in DOMAIN s : t[i] = s[j]
        BY <1>1, <1>2
    <2>1. i - 1 \in 1 .. Len(s) /\ (i - 1) + 1 = i
        BY <1>2
    <2>. QED  BY <1>1, <1>2, <2>1
<1>4. \A j \in DOMAIN s : j + 1 \in DOMAIN t /\ t[j + 1] = s[j]
    BY <1>1, <1>2
<1>5. 1 \in DOMAIN t /\ t[1] = x
    BY <1>1, <1>2
<1>6. {t[i] : i \in DOMAIN t} = {x} \cup {s[i] : i \in DOMAIN s}
    <2>1. \A y \in {t[i] : i \in DOMAIN t} :
             y \in {x} \cup {s[i] : i \in DOMAIN s}
        BY <1>3
    <2>2. \A y \in {s[i] : i \in DOMAIN s} : y \in {t[i] : i \in DOMAIN t}
        BY <1>4
    <2>3. x \in {t[i] : i \in DOMAIN t}
        BY <1>5
    <2>. QED  BY <2>1, <2>2, <2>3
<1>7. t # <<>>
    BY <1>1, <1>2
<1>. QED  BY <1>1, <1>6, <1>7 DEF Range

\* A return runs the first call and leaves the others.
LEMMA Pop ==
    ASSUME NEW S, NEW s \in Seq(S), s # <<>>
    PROVE  /\ Tail(s) \in Seq(S) /\ Len(Tail(s)) = Len(s) - 1
           /\ Head(s) = s[1] /\ Head(s) \in S
           /\ \A i \in 1 .. Len(s) - 1 : Tail(s)[i] = s[i + 1]
           /\ Range(s) = {Head(s)} \cup Range(Tail(s))
<1>1. /\ Tail(s) \in Seq(S) /\ Len(Tail(s)) = Len(s) - 1
      /\ Head(s) = s[1] /\ Head(s) \in S
      /\ \A i \in 1 .. Len(s) - 1 : Tail(s)[i] = s[i + 1]
      /\ Len(s) \in Nat \ {0}
    OBVIOUS
<1>2. DOMAIN s = 1 .. Len(s) /\ DOMAIN Tail(s) = 1 .. Len(s) - 1
    BY <1>1
<1>3. \A i \in DOMAIN s : s[i] = s[1] \/ \E j \in DOMAIN Tail(s) : s[i] = Tail(s)[j]
    <2>. SUFFICES ASSUME NEW i \in 1 .. Len(s), i # 1
                  PROVE  \E j \in DOMAIN Tail(s) : s[i] = Tail(s)[j]
        BY <1>2
    <2>1. i - 1 \in 1 .. Len(s) - 1 /\ (i - 1) + 1 = i
        BY <1>1
    <2>. QED  BY <1>1, <1>2, <2>1
<1>4. \A j \in DOMAIN Tail(s) : j + 1 \in DOMAIN s /\ Tail(s)[j] = s[j + 1]
    BY <1>1, <1>2
<1>5. 1 \in DOMAIN s
    BY <1>1, <1>2
<1>. DEFINE calls == {s[i] : i \in DOMAIN s}
            rest == {Tail(s)[i] : i \in DOMAIN Tail(s)}
<1>6. calls = {s[1]} \cup rest
    <2>1. \A y \in calls : y \in {s[1]} \cup rest
        BY <1>3
    <2>2. \A y \in rest : y \in calls
        BY <1>4
    <2>3. s[1] \in calls
        BY <1>5
    <2>. HIDE DEF calls, rest
    <2>. QED  BY <2>1, <2>2, <2>3
<1>. QED  BY <1>1, <1>6 DEF Range
\* The same for the calls of main().
LEMMA Deferring ==
    ASSUME deferred \in Seq(Deferred), NEW x \in Deferred,
           deferred' = <<x>> \o deferred
    PROVE  /\ deferred' \in Seq(Deferred) /\ deferred' # <<>>
           /\ deferredCalls' = {x} \cup deferredCalls
<1>. DEFINE t == deferred'
<1>1. t = <<x>> \o deferred
    OBVIOUS
<1>. HIDE DEF t
<1>2. /\ t \in Seq(Deferred) /\ t # <<>>
      /\ Range(t) = {x} \cup Range(deferred)
    BY <1>1, Push
<1>. QED  BY <1>2 DEF t, deferredCalls

\* Two calls deferred in one step, x to run before y.
LEMMA DeferringTwo ==
    ASSUME deferred \in Seq(Deferred),
           NEW x \in Deferred, NEW y \in Deferred,
           deferred' = <<x>> \o (<<y>> \o deferred)
    PROVE  /\ deferred' \in Seq(Deferred) /\ deferred' # <<>>
           /\ Len(deferred') > 1 /\ deferred'[1] = x /\ deferred'[2] = y
           /\ deferredCalls' = {x, y} \cup deferredCalls
<1>0. PICK inner : inner = <<y>> \o deferred
    OBVIOUS
<1>. DEFINE t == deferred'
<1>1. t = <<x>> \o inner
    BY <1>0
<1>. HIDE DEF t
<1>2. /\ inner \in Seq(Deferred) /\ Len(inner) = Len(deferred) + 1
      /\ inner[1] = y /\ Range(inner) = {y} \cup Range(deferred)
    <2>1. /\ inner \in Seq(Deferred) /\ Len(inner) = Len(deferred) + 1
          /\ inner[1] = y
        BY <1>0
    <2>2. Range(inner) = {y} \cup Range(deferred)
        BY <1>0, Push
    <2>. QED  BY <2>1, <2>2
<1>3. /\ t \in Seq(Deferred) /\ t # <<>> /\ Len(t) = Len(inner) + 1
      /\ t[1] = x /\ Range(t) = {x} \cup Range(inner)
      /\ \A i \in 1 .. Len(inner) : t[i + 1] = inner[i]
    <2>1. /\ t \in Seq(Deferred) /\ Len(t) = Len(inner) + 1 /\ t[1] = x
          /\ \A i \in 1 .. Len(inner) : t[i + 1] = inner[i]
        BY <1>1, <1>2
    <2>2. inner \in Seq(Deferred)
        BY <1>2
    <2>3. t # <<>> /\ Range(t) = {x} \cup Range(inner)
        BY <1>1, <2>2, Push
    <2>. QED  BY <2>1, <2>3
<1>4. Len(deferred) \in Nat /\ Len(inner) \in Nat \ {0} /\ 1 + 1 = 2
    BY <1>2
<1>5. Len(t) > 1 /\ t[2] = y
    BY <1>2, <1>3, <1>4
<1>. QED  BY <1>2, <1>3, <1>5 DEF t, deferredCalls

-----------------------------------------------------------------------------
(* IInv is inductive: one lemma per action, one step per part              *)

\* Whether Sentry accepts its configuration is known before it is used.
LEMMA SentryKnown == IInv => config.sentry \in BOOLEAN
BY DEF IInv, TypeOK, Config

\* The tracer is opened with its closing deferred, or main() unwinds at once.
LEMMA InitTracerProvider_IInv ==
    ASSUME IInv, InitTracerProvider
    PROVE  IInv'
<1>0. \/ /\ deferred' \in Seq(Deferred) /\ deferred' # <<>>
         /\ deferredCalls' = {"tracer"} \cup deferredCalls
      \/ deferred' = deferred /\ deferredCalls' = deferredCalls
    <2>0. "tracer" \in Deferred /\ deferred \in Seq(Deferred)
        BY DEF IInv, TypeOK, Deferred, Closed
    <2>1. CASE deferred' = <<"tracer">> \o deferred
        BY <2>0, <2>1, Deferring
    <2>2. CASE deferred' = deferred
        BY <2>2 DEF deferredCalls
    <2>. QED  BY <2>1, <2>2 DEF InitTracerProvider, opened
<1>1. TypeOK'
    <2>1. deferred' \in Seq(Deferred)
        BY <1>0 DEF IInv, TypeOK
    <2>2. pc' \in Steps
        BY DEF Steps, InitTracerProvider, opened
    <2>3. open' \subseteq Resources /\ captured' \in BOOLEAN
        BY SentryKnown DEF IInv, TypeOK, Resources, Closed, NeverClosed,
            InitTracerProvider, opened
    <2>. QED  BY <2>1, <2>2, <2>3 DEF IInv, TypeOK, InitTracerProvider, opened
<1>2. OpenInOrder'
    BY DEF IInv, TypeOK, OpenInOrder, Config, InitTracerProvider, opened
<1>3. EverythingCloses'
    BY <1>0 DEF IInv, TypeOK, EverythingCloses, Closed, InitTracerProvider,
        opened
<1>4. LoadersAwaited'
    BY DEF IInv, TypeOK, LoadersAwaited, InitTracerProvider, opened
<1>5. WarmInOrder'
    BY DEF IInv, TypeOK, WarmInOrder, InitTracerProvider, opened
<1>6. WarmBeforeServing'
    BY DEF IInv, TypeOK, WarmBeforeServing, WarmInOrder, InitTracerProvider,
        opened
<1>7. WorkersServed'
    BY DEF IInv, TypeOK, WorkersServed, InitTracerProvider, opened
<1>8. ProducersLeft'
    BY DEF IInv, TypeOK, ProducersLeft, InitTracerProvider, opened
<1>. QED
    BY <1>1, <1>2, <1>3, <1>4, <1>5, <1>6, <1>7, <1>8 DEF IInv

\* From here on the queue of Sentry is flushed by a deferred call.
LEMMA initSentry_IInv ==
    ASSUME IInv, initSentry
    PROVE  IInv'
<1>0. /\ deferred' \in Seq(Deferred) /\ deferred' # <<>>
      /\ deferredCalls' = {"flush"} \cup deferredCalls
    <2>1. "flush" \in Deferred /\ deferred \in Seq(Deferred)
        BY DEF IInv, TypeOK, Deferred
    <2>. QED  BY <2>1, Deferring DEF initSentry
<1>1. TypeOK'
    <2>1. deferred' \in Seq(Deferred)
        BY <1>0 DEF IInv, TypeOK
    <2>2. pc' \in Steps
        BY DEF Steps, initSentry
    <2>3. open' \subseteq Resources /\ captured' \in BOOLEAN
        BY SentryKnown DEF IInv, TypeOK, Resources, Closed, NeverClosed,
            initSentry
    <2>. QED  BY <2>1, <2>2, <2>3 DEF IInv, TypeOK, initSentry
<1>2. OpenInOrder'
    BY DEF IInv, TypeOK, OpenInOrder, Config, initSentry
<1>3. EverythingCloses'
    BY <1>0 DEF IInv, TypeOK, EverythingCloses, Closed, initSentry
<1>4. LoadersAwaited'
    BY DEF IInv, TypeOK, LoadersAwaited, initSentry
<1>5. WarmInOrder'
    BY DEF IInv, TypeOK, WarmInOrder, initSentry
<1>6. WarmBeforeServing'
    BY DEF IInv, TypeOK, WarmBeforeServing, WarmInOrder, initSentry
<1>7. WorkersServed'
    BY DEF IInv, TypeOK, WorkersServed, initSentry
<1>8. ProducersLeft'
    BY DEF IInv, TypeOK, ProducersLeft, initSentry
<1>. QED
    BY <1>1, <1>2, <1>3, <1>4, <1>5, <1>6, <1>7, <1>8 DEF IInv

\* The cache is opened with its closing deferred, or its error is captured.
LEMMA NewCache_IInv ==
    ASSUME IInv, NewCache
    PROVE  IInv'
<1>0. \/ /\ deferred' \in Seq(Deferred) /\ deferred' # <<>>
         /\ deferredCalls' = {"badger"} \cup deferredCalls
      \/ deferred' = deferred /\ deferredCalls' = deferredCalls
    <2>0. "badger" \in Deferred /\ deferred \in Seq(Deferred)
        BY DEF IInv, TypeOK, Deferred, Closed
    <2>1. CASE deferred' = <<"badger">> \o deferred
        BY <2>0, <2>1, Deferring
    <2>2. CASE deferred' = deferred
        BY <2>2 DEF deferredCalls
    <2>. QED  BY <2>1, <2>2 DEF NewCache, opened
<1>1. TypeOK'
    <2>1. deferred' \in Seq(Deferred)
        BY <1>0 DEF IInv, TypeOK
    <2>2. pc' \in Steps
        BY DEF Steps, NewCache, opened
    <2>3. open' \subseteq Resources /\ captured' \in BOOLEAN
        BY SentryKnown DEF IInv, TypeOK, Resources, Closed, NeverClosed,
            NewCache, opened
    <2>. QED  BY <2>1, <2>2, <2>3 DEF IInv, TypeOK, NewCache, opened
<1>2. OpenInOrder'
    BY DEF IInv, TypeOK, OpenInOrder, Config, NewCache, opened
<1>3. EverythingCloses'
    BY <1>0 DEF IInv, TypeOK, EverythingCloses, Closed, NewCache, opened
<1>4. LoadersAwaited'
    BY DEF IInv, TypeOK, LoadersAwaited, NewCache, opened
<1>5. WarmInOrder'
    BY DEF IInv, TypeOK, WarmInOrder, NewCache, opened
<1>6. WarmBeforeServing'
    BY DEF IInv, TypeOK, WarmBeforeServing, WarmInOrder, NewCache, opened
<1>7. WorkersServed'
    BY DEF IInv, TypeOK, WorkersServed, NewCache, opened
<1>8. ProducersLeft'
    BY DEF IInv, TypeOK, ProducersLeft, NewCache, opened
<1>. QED
    BY <1>1, <1>2, <1>3, <1>4, <1>5, <1>6, <1>7, <1>8 DEF IInv

\* The loaders start with two calls deferred: the first to run waits for them,
\* the second closes their pool.
LEMMA LoadInitialSnapshot_IInv ==
    ASSUME IInv, LoadInitialSnapshot
    PROVE  IInv'
<1>0. \/ /\ deferred' \in Seq(Deferred) /\ deferred' # <<>>
         /\ Len(deferred') > 1 /\ deferred'[1] = "wait"
         /\ deferred'[2] = "pool"
         /\ deferredCalls' = {"wait", "pool"} \cup deferredCalls
      \/ deferred' = deferred /\ deferredCalls' = deferredCalls
    <2>1. CASE deferred' = <<"wait">> \o (<<"pool">> \o deferred)
        <3>1. "wait" \in Deferred /\ "pool" \in Deferred
            BY DEF Deferred, Closed
        <3>2. deferred \in Seq(Deferred)
            BY DEF IInv, TypeOK
        <3>. QED  BY <2>1, <3>1, <3>2, DeferringTwo
    <2>2. CASE deferred' = deferred
        BY <2>2 DEF deferredCalls
    <2>. QED  BY <2>1, <2>2 DEF LoadInitialSnapshot
<1>a. deferred' \in Seq(Deferred)
    BY <1>0 DEF IInv, TypeOK
<1>1. TypeOK'
    <2>1. pc' \in Steps
        BY DEF Steps, LoadInitialSnapshot
    <2>2. open' \subseteq Resources /\ captured' \in BOOLEAN
        BY SentryKnown
        DEF IInv, TypeOK, Resources, Closed, NeverClosed, LoadInitialSnapshot
    <2>3. loader' \in [Tables -> {"idle", "reading", "loaded", "failed"}]
        BY DEF IInv, TypeOK, LoadInitialSnapshot
    <2>. QED  BY <1>a, <2>1, <2>2, <2>3 DEF IInv, TypeOK, LoadInitialSnapshot
<1>2. OpenInOrder'
    BY DEF IInv, TypeOK, OpenInOrder, Config, LoadInitialSnapshot
<1>3. EverythingCloses'
    BY <1>0 DEF IInv, TypeOK, EverythingCloses, Closed, LoadInitialSnapshot
<1>4. LoadersAwaited'
    BY <1>0 DEF IInv, TypeOK, LoadersAwaited, LoadInitialSnapshot
<1>5. WarmInOrder'
    BY DEF IInv, TypeOK, WarmInOrder, LoadInitialSnapshot
<1>6. WarmBeforeServing'
    BY DEF IInv, TypeOK, WarmBeforeServing, WarmInOrder, LoadInitialSnapshot
<1>7. WorkersServed'
    BY DEF IInv, TypeOK, WorkersServed, LoadInitialSnapshot
<1>8. ProducersLeft'
    BY DEF IInv, TypeOK, ProducersLeft, LoadInitialSnapshot
<1>. QED
    BY <1>1, <1>2, <1>3, <1>4, <1>5, <1>6, <1>7, <1>8 DEF IInv

\* A stream starts when every loader has ended: the pool they read is closed by
\* the call deferred behind the one that waits for them.
LEMMA startGenericConsumer_IInv ==
    ASSUME IInv, startGenericConsumer
    PROVE  IInv'
<1>1. TypeOK'
    <2>1. pc' \in Steps
        BY DEF IInv, TypeOK, Steps, startGenericConsumer
    <2>2. open' \subseteq Resources /\ captured' \in BOOLEAN
        BY SentryKnown DEF IInv, TypeOK, Resources, Closed, NeverClosed,
            startGenericConsumer
    <2>. QED  BY <2>1, <2>2 DEF IInv, TypeOK, startGenericConsumer
<1>2. OpenInOrder'
    BY DEF IInv, TypeOK, OpenInOrder, Config, startGenericConsumer
<1>3. EverythingCloses'
    BY DEF IInv, TypeOK, EverythingCloses, Closed, deferredCalls,
        startGenericConsumer
<1>4. LoadersAwaited'
    BY DEF IInv, TypeOK, LoadersAwaited, startGenericConsumer
<1>5. WarmInOrder'
    BY DEF IInv, TypeOK, WarmInOrder, startGenericConsumer
<1>6. WarmBeforeServing'
    <2>1. \A u \in Tables : loader[u] \in {"loaded", "failed"}
        BY DEF IInv, TypeOK, LoadersAwaited, WarmInOrder,
            startGenericConsumer
    <2>2. worker = "idle" /\ worker' = worker /\ loader' = loader
        BY DEF IInv, WorkersServed, startGenericConsumer
    <2>. QED  BY <2>1, <2>2 DEF WarmBeforeServing
<1>7. WorkersServed'
    BY DEF IInv, TypeOK, WorkersServed, startGenericConsumer
<1>8. ProducersLeft'
    BY DEF IInv, TypeOK, ProducersLeft, startGenericConsumer
<1>. QED
    BY <1>1, <1>2, <1>3, <1>4, <1>5, <1>6, <1>7, <1>8 DEF IInv

\* Every stream has started.
LEMMA ConsumeChanges_IInv ==
    ASSUME IInv, ConsumeChanges
    PROVE  IInv'
<1>1. TypeOK'
    BY DEF IInv, TypeOK, Steps, ConsumeChanges
<1>2. OpenInOrder'
    BY DEF IInv, TypeOK, OpenInOrder, Config, ConsumeChanges
<1>3. EverythingCloses'
    BY DEF IInv, TypeOK, EverythingCloses, Closed, deferredCalls,
        ConsumeChanges
<1>4. LoadersAwaited'
    BY DEF IInv, TypeOK, LoadersAwaited, ConsumeChanges
<1>5. WarmInOrder'
    BY DEF IInv, TypeOK, WarmInOrder, ConsumeChanges
<1>6. WarmBeforeServing'
    BY DEF IInv, TypeOK, WarmBeforeServing, WarmInOrder, ConsumeChanges
<1>7. WorkersServed'
    BY DEF IInv, TypeOK, WorkersServed, ConsumeChanges
<1>8. ProducersLeft'
    BY DEF IInv, TypeOK, ProducersLeft, ConsumeChanges
<1>. QED
    BY <1>1, <1>2, <1>3, <1>4, <1>5, <1>6, <1>7, <1>8 DEF IInv

\* Without brokers the process panics before it opens anything more.
LEMMA StartProcessingEvents_IInv ==
    ASSUME IInv, StartProcessingEvents
    PROVE  IInv'
<1>1. TypeOK'
    BY DEF IInv, TypeOK, Steps, StartProcessingEvents
<1>2. OpenInOrder'
    BY DEF IInv, TypeOK, OpenInOrder, Config, StartProcessingEvents
<1>3. EverythingCloses'
    BY DEF IInv, TypeOK, EverythingCloses, Closed, deferredCalls,
        StartProcessingEvents
<1>4. LoadersAwaited'
    BY DEF IInv, TypeOK, LoadersAwaited, StartProcessingEvents
<1>5. WarmInOrder'
    BY DEF IInv, TypeOK, WarmInOrder, StartProcessingEvents
<1>6. WarmBeforeServing'
    BY DEF IInv, TypeOK, WarmBeforeServing, WarmInOrder,
        StartProcessingEvents
<1>7. WorkersServed'
    BY DEF IInv, TypeOK, WorkersServed, StartProcessingEvents
<1>8. ProducersLeft'
    BY DEF IInv, TypeOK, ProducersLeft, StartProcessingEvents
<1>. QED
    BY <1>1, <1>2, <1>3, <1>4, <1>5, <1>6, <1>7, <1>8 DEF IInv

\* One producer more; the last one leads to the next step.
LEMMA initProducer_IInv ==
    ASSUME IInv, initProducer
    PROVE  IInv'
<1>0. producers' \in 0 .. Producers
    BY LifecycleAssumption DEF IInv, TypeOK, ProducersLeft, initProducer,
        NewKafkaClient
<1>1. TypeOK'
    <2>1. pc' \in Steps
        BY DEF IInv, TypeOK, Steps, initProducer, NewKafkaClient
    <2>2. open' \subseteq Resources /\ captured' \in BOOLEAN
        BY SentryKnown
        DEF IInv, TypeOK, Resources, NeverClosed, initProducer, NewKafkaClient
    <2>. QED
        BY <1>0, <2>1, <2>2 DEF IInv, TypeOK, initProducer, NewKafkaClient
<1>2. OpenInOrder'
    BY DEF IInv, TypeOK, OpenInOrder, Config, initProducer, NewKafkaClient
<1>3. EverythingCloses'
    BY DEF IInv, TypeOK, EverythingCloses, Closed, deferredCalls, initProducer,
        NewKafkaClient
<1>4. LoadersAwaited'
    BY DEF IInv, TypeOK, LoadersAwaited, initProducer, NewKafkaClient
<1>5. WarmInOrder'
    BY DEF IInv, TypeOK, WarmInOrder, initProducer, NewKafkaClient
<1>6. WarmBeforeServing'
    BY DEF IInv, TypeOK, WarmBeforeServing, WarmInOrder, initProducer,
        NewKafkaClient
<1>7. WorkersServed'
    BY DEF IInv, TypeOK, WorkersServed, initProducer, NewKafkaClient
<1>8. ProducersLeft'
    BY LifecycleAssumption DEF IInv, TypeOK, ProducersLeft, initProducer,
        NewKafkaClient
<1>. QED
    BY <1>1, <1>2, <1>3, <1>4, <1>5, <1>6, <1>7, <1>8 DEF IInv

\* The database is opened, with its closing deferred, when there is no cache.
LEMMA NewConnection_IInv ==
    ASSUME IInv, NewConnection
    PROVE  IInv'
<1>0. \/ /\ deferred' \in Seq(Deferred) /\ deferred' # <<>>
         /\ deferredCalls' = {"database"} \cup deferredCalls
      \/ deferred' = deferred /\ deferredCalls' = deferredCalls
    <2>0. "database" \in Deferred /\ deferred \in Seq(Deferred)
        BY DEF IInv, TypeOK, Deferred, Closed
    <2>1. CASE deferred' = <<"database">> \o deferred
        BY <2>0, <2>1, Deferring
    <2>2. CASE deferred' = deferred
        BY <2>2 DEF deferredCalls
    <2>. QED  BY <2>1, <2>2 DEF NewConnection, opened
<1>1. TypeOK'
    <2>1. deferred' \in Seq(Deferred)
        BY <1>0 DEF IInv, TypeOK
    <2>2. pc' \in Steps
        BY DEF Steps, NewConnection, opened
    <2>3. open' \subseteq Resources /\ captured' \in BOOLEAN
        BY SentryKnown DEF IInv, TypeOK, Resources, Closed, NeverClosed,
            NewConnection, opened
    <2>. QED  BY <2>1, <2>2, <2>3 DEF IInv, TypeOK, NewConnection, opened
<1>2. OpenInOrder'
    BY DEF IInv, TypeOK, OpenInOrder, Config, NewConnection, opened
<1>3. EverythingCloses'
    BY <1>0 DEF IInv, TypeOK, EverythingCloses, Closed, NewConnection, opened
<1>4. LoadersAwaited'
    BY DEF IInv, TypeOK, LoadersAwaited, NewConnection, opened
<1>5. WarmInOrder'
    BY DEF IInv, TypeOK, WarmInOrder, NewConnection, opened
<1>6. WarmBeforeServing'
    BY DEF IInv, TypeOK, WarmBeforeServing, WarmInOrder, NewConnection,
        opened
<1>7. WorkersServed'
    BY DEF IInv, TypeOK, WorkersServed, NewConnection, opened
<1>8. ProducersLeft'
    BY DEF IInv, TypeOK, ProducersLeft, NewConnection, opened
<1>. QED
    BY <1>1, <1>2, <1>3, <1>4, <1>5, <1>6, <1>7, <1>8 DEF IInv

\* The store of the flags is opened with its closing deferred.
LEMMA initFlagStore_IInv ==
    ASSUME IInv, initFlagStore
    PROVE  IInv'
<1>0. \/ /\ deferred' \in Seq(Deferred) /\ deferred' # <<>>
         /\ deferredCalls' = {"flagStore"} \cup deferredCalls
      \/ deferred' = deferred /\ deferredCalls' = deferredCalls
    <2>0. "flagStore" \in Deferred /\ deferred \in Seq(Deferred)
        BY DEF IInv, TypeOK, Deferred, Closed
    <2>1. CASE deferred' = <<"flagStore">> \o deferred
        BY <2>0, <2>1, Deferring
    <2>2. CASE deferred' = deferred
        BY <2>2 DEF deferredCalls
    <2>. QED  BY <2>1, <2>2 DEF initFlagStore, NewRedisDB, opened
<1>1. TypeOK'
    <2>1. deferred' \in Seq(Deferred)
        BY <1>0 DEF IInv, TypeOK
    <2>2. pc' \in Steps
        BY DEF Steps, initFlagStore, NewRedisDB, opened
    <2>3. open' \subseteq Resources /\ captured' \in BOOLEAN
        BY SentryKnown DEF IInv, TypeOK, Resources, Closed, NeverClosed,
            initFlagStore, NewRedisDB, opened
    <2>. QED  BY <2>1, <2>2, <2>3 DEF IInv, TypeOK, initFlagStore, NewRedisDB,
            opened
<1>2. OpenInOrder'
    BY DEF IInv, TypeOK, OpenInOrder, Config, initFlagStore, NewRedisDB,
        opened
<1>3. EverythingCloses'
    BY <1>0 DEF IInv, TypeOK, EverythingCloses, Closed, initFlagStore,
        NewRedisDB, opened
<1>4. LoadersAwaited'
    BY DEF IInv, TypeOK, LoadersAwaited, initFlagStore, NewRedisDB, opened
<1>5. WarmInOrder'
    BY DEF IInv, TypeOK, WarmInOrder, initFlagStore, NewRedisDB, opened
<1>6. WarmBeforeServing'
    BY DEF IInv, TypeOK, WarmBeforeServing, WarmInOrder, initFlagStore,
        NewRedisDB, opened
<1>7. WorkersServed'
    BY DEF IInv, TypeOK, WorkersServed, initFlagStore, NewRedisDB, opened
<1>8. ProducersLeft'
    BY DEF IInv, TypeOK, ProducersLeft, initFlagStore, NewRedisDB, opened
<1>. QED
    BY <1>1, <1>2, <1>3, <1>4, <1>5, <1>6, <1>7, <1>8 DEF IInv

\* The store of the charge cache is opened with its closing deferred.
LEMMA initChargeCacheStore_IInv ==
    ASSUME IInv, initChargeCacheStore
    PROVE  IInv'
<1>0. \/ /\ deferred' \in Seq(Deferred) /\ deferred' # <<>>
         /\ deferredCalls' = {"chargeCache"} \cup deferredCalls
      \/ deferred' = deferred /\ deferredCalls' = deferredCalls
    <2>0. "chargeCache" \in Deferred /\ deferred \in Seq(Deferred)
        BY DEF IInv, TypeOK, Deferred, Closed
    <2>1. CASE deferred' = <<"chargeCache">> \o deferred
        BY <2>0, <2>1, Deferring
    <2>2. CASE deferred' = deferred
        BY <2>2 DEF deferredCalls
    <2>. QED  BY <2>1, <2>2 DEF initChargeCacheStore, NewRedisDB, opened
<1>1. TypeOK'
    <2>1. deferred' \in Seq(Deferred)
        BY <1>0 DEF IInv, TypeOK
    <2>2. pc' \in Steps
        BY DEF Steps, initChargeCacheStore, NewRedisDB, opened
    <2>3. open' \subseteq Resources /\ captured' \in BOOLEAN
        BY SentryKnown DEF IInv, TypeOK, Resources, Closed, NeverClosed,
            initChargeCacheStore, NewRedisDB, opened
    <2>. QED  BY <2>1, <2>2, <2>3 DEF IInv, TypeOK, initChargeCacheStore,
            NewRedisDB, opened
<1>2. OpenInOrder'
    BY DEF IInv, TypeOK, OpenInOrder, Config, initChargeCacheStore,
        NewRedisDB, opened
<1>3. EverythingCloses'
    BY <1>0 DEF IInv, TypeOK, EverythingCloses, Closed, initChargeCacheStore,
        NewRedisDB, opened
<1>4. LoadersAwaited'
    BY DEF IInv, TypeOK, LoadersAwaited, initChargeCacheStore, NewRedisDB,
        opened
<1>5. WarmInOrder'
    BY DEF IInv, TypeOK, WarmInOrder, initChargeCacheStore, NewRedisDB,
        opened
<1>6. WarmBeforeServing'
    BY DEF IInv, TypeOK, WarmBeforeServing, WarmInOrder,
        initChargeCacheStore, NewRedisDB, opened
<1>7. WorkersServed'
    BY DEF IInv, TypeOK, WorkersServed, initChargeCacheStore, NewRedisDB,
        opened
<1>8. ProducersLeft'
    BY DEF IInv, TypeOK, ProducersLeft, initChargeCacheStore, NewRedisDB,
        opened
<1>. QED
    BY <1>1, <1>2, <1>3, <1>4, <1>5, <1>6, <1>7, <1>8 DEF IInv

\* The client of the group is the one resource no deferred call closes.
LEMMA NewConsumerGroup_IInv ==
    ASSUME IInv, NewConsumerGroup
    PROVE  IInv'
<1>1. TypeOK'
    <2>1. pc' \in Steps
        BY DEF Steps, NewConsumerGroup, NewKafkaClient
    <2>2. open' \subseteq Resources /\ captured' \in BOOLEAN
        BY SentryKnown DEF IInv, TypeOK, Resources, Closed, NeverClosed,
            NewConsumerGroup, NewKafkaClient
    <2>. QED  BY <2>1, <2>2 DEF IInv, TypeOK, NewConsumerGroup, NewKafkaClient
<1>2. OpenInOrder'
    BY DEF IInv, TypeOK, OpenInOrder, Config, NewConsumerGroup,
        NewKafkaClient
<1>3. EverythingCloses'
    BY DEF IInv, TypeOK, EverythingCloses, Closed, deferredCalls,
        NewConsumerGroup, NewKafkaClient
<1>4. LoadersAwaited'
    BY DEF IInv, TypeOK, LoadersAwaited, NewConsumerGroup, NewKafkaClient
<1>5. WarmInOrder'
    BY DEF IInv, TypeOK, WarmInOrder, NewConsumerGroup, NewKafkaClient
<1>6. WarmBeforeServing'
    BY DEF IInv, TypeOK, WarmBeforeServing, WarmInOrder, NewConsumerGroup,
        NewKafkaClient
<1>7. WorkersServed'
    BY DEF IInv, TypeOK, WorkersServed, NewConsumerGroup, NewKafkaClient
<1>8. ProducersLeft'
    BY DEF IInv, TypeOK, ProducersLeft, NewConsumerGroup, NewKafkaClient
<1>. QED
    BY <1>1, <1>2, <1>3, <1>4, <1>5, <1>6, <1>7, <1>8 DEF IInv

\* Nothing is opened or closed while the group is started and stopped.
LEMMA Serve_IInv ==
    ASSUME IInv, Start \/ stopServing
    PROVE  IInv'
<1>1. TypeOK'
    <2>1. pc' \in Steps
        BY DEF Steps, Start, stopServing
    <2>. QED  BY <2>1 DEF IInv, TypeOK, Start, stopServing
<1>2. OpenInOrder'
    BY DEF IInv, TypeOK, OpenInOrder, Config, Start, stopServing
<1>3. EverythingCloses'
    BY DEF IInv, TypeOK, EverythingCloses, Closed, deferredCalls, Start,
        stopServing
<1>4. LoadersAwaited'
    BY DEF IInv, TypeOK, LoadersAwaited, Start, stopServing
<1>5. WarmInOrder'
    BY DEF IInv, TypeOK, WarmInOrder, Start, stopServing
<1>6. WarmBeforeServing'
    BY DEF IInv, TypeOK, WarmBeforeServing, WarmInOrder, Start, stopServing
<1>7. WorkersServed'
    BY DEF IInv, TypeOK, WorkersServed, Start, stopServing
<1>8. ProducersLeft'
    BY DEF IInv, TypeOK, ProducersLeft, Start, stopServing
<1>. QED
    BY <1>1, <1>2, <1>3, <1>4, <1>5, <1>6, <1>7, <1>8 DEF IInv

\* The group is closed when the workers have ended: what they used may be
\* closed next.
LEMMA gracefulShutdown_IInv ==
    ASSUME IInv, gracefulShutdown
    PROVE  IInv'
<1>1. TypeOK'
    BY DEF IInv, TypeOK, Steps, gracefulShutdown
<1>2. OpenInOrder'
    BY DEF IInv, TypeOK, OpenInOrder, Config, gracefulShutdown
<1>3. EverythingCloses'
    BY DEF IInv, TypeOK, EverythingCloses, Closed, deferredCalls,
        gracefulShutdown
<1>4. LoadersAwaited'
    BY DEF IInv, TypeOK, LoadersAwaited, gracefulShutdown
<1>5. WarmInOrder'
    BY DEF IInv, TypeOK, WarmInOrder, gracefulShutdown
<1>6. WarmBeforeServing'
    BY DEF IInv, TypeOK, WarmBeforeServing, WarmInOrder, gracefulShutdown
<1>7. WorkersServed'
    BY DEF IInv, TypeOK, WorkersServed, gracefulShutdown
<1>8. ProducersLeft'
    BY DEF IInv, TypeOK, ProducersLeft, gracefulShutdown
<1>. QED
    BY <1>1, <1>2, <1>3, <1>4, <1>5, <1>6, <1>7, <1>8 DEF IInv

\* The next deferred call runs: what it closes is not in use, and what is still
\* open is closed by the calls behind it.
LEMMA runDeferred_IInv ==
    ASSUME IInv, runDeferred
    PROVE  IInv'
<1>. DEFINE call == Head(deferred)
<1>0. /\ deferred' \in Seq(Deferred) /\ Len(deferred') = Len(deferred) - 1
      /\ Len(deferred) \in Nat /\ call = deferred[1]
      /\ \A i \in 1 .. Len(deferred) - 1 : deferred'[i] = deferred[i + 1]
      /\ deferredCalls = {call} \cup deferredCalls'
    BY Pop DEF IInv, TypeOK, deferredCalls, runDeferred
<1>a. /\ open' = open \ {call} /\ ctxDone' = (ctxDone \/ call = "cancel")
      /\ flushed' \in IF call = "flush" /\ captured THEN {"sent", "gaveUp"}
                      ELSE {flushed}
      /\ pc \in {"loading", "unwinding"}
      /\ pc = "loading" =>
            pc' = IF call = "pool" THEN "consumers" ELSE "loading"
      /\ pc = "unwinding" =>
            pc' = IF Len(deferred) = 1 THEN "ended" ELSE "unwinding"
      /\ call = "wait" => \A t \in Tables : loader[t] # "reading"
      /\ UNCHANGED <<config, producers, goroutines, panic, captured>>
    BY DEF runDeferred
<1>b. deferred # <<>> /\ (pc = "loading" => call \in {"wait", "pool"})
    BY <1>0, <1>a DEF runDeferred, IInv, LoadersAwaited
<1>. HIDE DEF call
<1>1. TypeOK'
    <2>1. ctxDone' \in BOOLEAN /\ flushed' \in {"no", "sent", "gaveUp"}
        BY <1>a DEF IInv, TypeOK
    <2>. QED  BY <1>0, <1>a, <2>1 DEF IInv, TypeOK, Steps
<1>2. OpenInOrder'
    BY <1>a, <1>b DEF IInv, OpenInOrder
<1>3. EverythingCloses'
    <2>1. pc = "loading" => "flush" \in deferredCalls'
        BY <1>0, <1>a, <1>b DEF IInv, EverythingCloses
    <2>2. deferred' = <<>> <=> Len(deferred) = 1
        BY <1>0, <1>b
    <2>3. pc = "loading" => deferred' # <<>>
        BY <2>1 DEF deferredCalls, Range
    <2>4. pc = "unwinding" => (pc' = "ended" <=> deferred' = <<>>)
        BY <1>a, <2>2
    <2>5. open' \cap Closed \subseteq deferredCalls'
        BY <1>0, <1>a DEF IInv, EverythingCloses
    <2>. QED  BY <1>0, <1>a, <1>b, <2>1, <2>3, <2>4, <2>5
              DEF IInv, TypeOK, EverythingCloses
<1>4. LoadersAwaited'
    BY <1>0, <1>a, <1>b DEF IInv, TypeOK, LoadersAwaited
<1>5. WarmInOrder'
    BY <1>a DEF IInv, WarmInOrder
<1>6. WarmBeforeServing'
    BY <1>a DEF IInv, WarmBeforeServing
<1>7. WorkersServed'
    BY <1>a DEF IInv, WorkersServed
<1>8. ProducersLeft'
    BY <1>a DEF IInv, ProducersLeft
<1>. QED
    BY <1>1, <1>2, <1>3, <1>4, <1>5, <1>6, <1>7, <1>8 DEF IInv

\* The signal cancels the context and nothing else.
LEMMA Signal_IInv ==
    ASSUME IInv, Signal
    PROVE  IInv'
<1>1. TypeOK'
    BY DEF IInv, TypeOK, Steps, Signal
<1>2. OpenInOrder'
    BY DEF IInv, TypeOK, OpenInOrder, Config, Signal
<1>3. EverythingCloses'
    BY DEF IInv, TypeOK, EverythingCloses, Closed, deferredCalls, Signal
<1>4. LoadersAwaited'
    BY DEF IInv, TypeOK, LoadersAwaited, Signal
<1>5. WarmInOrder'
    BY DEF IInv, TypeOK, WarmInOrder, Signal
<1>6. WarmBeforeServing'
    BY DEF IInv, TypeOK, WarmBeforeServing, WarmInOrder, Signal
<1>7. WorkersServed'
    BY DEF IInv, TypeOK, WorkersServed, Signal
<1>8. ProducersLeft'
    BY DEF IInv, TypeOK, ProducersLeft, Signal
<1>. QED
    BY <1>1, <1>2, <1>3, <1>4, <1>5, <1>6, <1>7, <1>8 DEF IInv

\* A loader ends, with or without its rows.
LEMMA LoadSnapshot_IInv ==
    ASSUME IInv, NEW t \in Tables, LoadSnapshot(t)
    PROVE  IInv'
<1>1. TypeOK'
    BY DEF IInv, TypeOK, Steps, LoadSnapshot, running
<1>2. OpenInOrder'
    BY DEF IInv, TypeOK, OpenInOrder, Config, LoadSnapshot, running
<1>3. EverythingCloses'
    BY DEF IInv, TypeOK, EverythingCloses, Closed, deferredCalls, LoadSnapshot,
        running
<1>4. LoadersAwaited'
    BY DEF IInv, TypeOK, LoadersAwaited, LoadSnapshot, running
<1>5. WarmInOrder'
    BY DEF IInv, TypeOK, WarmInOrder, LoadSnapshot, running
<1>6. WarmBeforeServing'
    BY DEF IInv, TypeOK, WarmBeforeServing, WarmInOrder, LoadSnapshot,
        running
<1>7. WorkersServed'
    BY DEF IInv, TypeOK, WorkersServed, LoadSnapshot, running
<1>8. ProducersLeft'
    BY DEF IInv, TypeOK, ProducersLeft, LoadSnapshot, running
<1>. QED
    BY <1>1, <1>2, <1>3, <1>4, <1>5, <1>6, <1>7, <1>8 DEF IInv

\* A stream that has started stays started.
LEMMA consume_IInv ==
    ASSUME IInv, NEW t \in Tables, consume(t)
    PROVE  IInv'
<1>1. TypeOK'
    BY DEF IInv, TypeOK, Steps, consume, running
<1>2. OpenInOrder'
    BY DEF IInv, TypeOK, OpenInOrder, Config, consume, running
<1>3. EverythingCloses'
    BY DEF IInv, TypeOK, EverythingCloses, Closed, deferredCalls, consume,
        running
<1>4. LoadersAwaited'
    BY DEF IInv, TypeOK, LoadersAwaited, consume, running
<1>5. WarmInOrder'
    BY DEF IInv, TypeOK, WarmInOrder, consume, running
<1>6. WarmBeforeServing'
    BY DEF IInv, TypeOK, WarmBeforeServing, WarmInOrder, consume, running
<1>7. WorkersServed'
    BY DEF IInv, TypeOK, WorkersServed, consume, running
<1>8. ProducersLeft'
    BY DEF IInv, TypeOK, ProducersLeft, consume, running
<1>. QED
    BY <1>1, <1>2, <1>3, <1>4, <1>5, <1>6, <1>7, <1>8 DEF IInv

\* A worker starts a batch while everything it will use is open.
LEMMA work_IInv ==
    ASSUME IInv, work
    PROVE  IInv'
<1>1. TypeOK'
    BY DEF IInv, TypeOK, Steps, work, running
<1>2. OpenInOrder'
    BY DEF IInv, TypeOK, OpenInOrder, Config, work, running
<1>3. EverythingCloses'
    BY DEF IInv, TypeOK, EverythingCloses, Closed, deferredCalls, work, running
<1>4. LoadersAwaited'
    BY DEF IInv, TypeOK, LoadersAwaited, work, running
<1>5. WarmInOrder'
    BY DEF IInv, TypeOK, WarmInOrder, work, running
<1>6. WarmBeforeServing'
    BY DEF IInv, TypeOK, WarmBeforeServing, WarmInOrder, work, running
<1>7. WorkersServed'
    BY DEF IInv, TypeOK, WorkersServed, OpenInOrder, Config, work, running
<1>8. ProducersLeft'
    BY DEF IInv, TypeOK, ProducersLeft, work, running
<1>. QED
    BY <1>1, <1>2, <1>3, <1>4, <1>5, <1>6, <1>7, <1>8 DEF IInv

\* The process ends with what was open: no deferred call runs.
LEMMA diesAtOnce_IInv ==
    ASSUME IInv, workerPanics \/ pollerPanics
    PROVE  IInv'
<1>1. TypeOK'
    BY DEF IInv, TypeOK, Steps, workerPanics, pollerPanics, running
<1>2. OpenInOrder'
    BY DEF IInv, TypeOK, OpenInOrder, Config, workerPanics, pollerPanics,
        running
<1>3. EverythingCloses'
    <2>1. panic' \in {"worker", "poller"} /\ pc' = "ended"
        BY DEF workerPanics, pollerPanics
    <2>2. UNCHANGED <<open, deferred, captured, flushed>>
        BY DEF workerPanics, pollerPanics
    <2>3. pc \notin {"unwinding", "ended"}
        BY DEF IInv, WorkersServed, workerPanics, pollerPanics, running
    <2>4. "unpinged" \notin open
        BY <2>3 DEF IInv, EverythingCloses
    <2>. QED
        BY <2>1, <2>2, <2>4 DEF IInv, EverythingCloses, Closed, deferredCalls
<1>4. LoadersAwaited'
    BY DEF IInv, LoadersAwaited, WorkersServed, workerPanics, pollerPanics,
        running
<1>5. WarmInOrder'
    BY DEF IInv, TypeOK, WarmInOrder, workerPanics, pollerPanics, running
<1>6. WarmBeforeServing'
    BY DEF IInv, TypeOK, WarmBeforeServing, WarmInOrder, workerPanics,
        pollerPanics, running
<1>7. WorkersServed'
    BY DEF IInv, TypeOK, WorkersServed, workerPanics, pollerPanics, running
<1>8. ProducersLeft'
    BY DEF IInv, TypeOK, ProducersLeft, workerPanics, pollerPanics, running
<1>. QED
    BY <1>1, <1>2, <1>3, <1>4, <1>5, <1>6, <1>7, <1>8 DEF IInv

\* A step that changes nothing, Ended included.
LEMMA Stutter_IInv ==
    ASSUME IInv, UNCHANGED vars
    PROVE  IInv'
BY DEF IInv, TypeOK, OpenInOrder, EverythingCloses, Closed, deferredCalls,
    LoadersAwaited, WarmInOrder, WarmBeforeServing, WorkersServed,
    ProducersLeft, vars

-----------------------------------------------------------------------------
(* The theorems                                                            *)

\* main() starts with the cancellation of its context deferred and nothing
\* open.
LEMMA Init_IInv ==
    ASSUME Init
    PROVE  IInv
<1>1. deferred \in Seq(Deferred) /\ deferred # <<>>
    BY DEF Init, Deferred
<1>2. producers \in 0 .. Producers
    BY LifecycleAssumption DEF Init
<1>3. TypeOK
    BY <1>1, <1>2 DEF Init, TypeOK, Steps
<1>. QED
    BY <1>1, <1>3, LifecycleAssumption DEF Init, IInv, OpenInOrder,
        EverythingCloses, LoadersAwaited, WarmInOrder, WarmBeforeServing,
        WorkersServed, ProducersLeft

\* Every step of main() and of the goroutines preserves it.
LEMMA Next_IInv ==
    ASSUME IInv, [Next]_vars
    PROVE  IInv'
<1>1. ASSUME main PROVE IInv'
    BY <1>1, InitTracerProvider_IInv, initSentry_IInv, NewCache_IInv,
        LoadInitialSnapshot_IInv, startGenericConsumer_IInv,
        ConsumeChanges_IInv, StartProcessingEvents_IInv, initProducer_IInv,
        NewConnection_IInv, initFlagStore_IInv, initChargeCacheStore_IInv,
        NewConsumerGroup_IInv, Serve_IInv, gracefulShutdown_IInv,
        runDeferred_IInv DEF main
<1>2. ASSUME NEW t \in Tables, LoadSnapshot(t) \/ consume(t) PROVE IInv'
    BY <1>2, LoadSnapshot_IInv, consume_IInv
<1>3. ASSUME work \/ workerPanics \/ pollerPanics \/ Signal PROVE IInv'
    BY <1>3, work_IInv, diesAtOnce_IInv, Signal_IInv
<1>4. ASSUME Ended \/ UNCHANGED vars PROVE IInv'
    BY <1>4, Stutter_IInv DEF Ended
<1>. QED
    BY <1>1, <1>2, <1>3, <1>4 DEF Next

\* At every step of the start, of the service and of the end, what the steps
\* before it opened is open, and a deferred call is left for all of it that the
\* code closes; the group, which gracefulShutdown closes, the producers and a
\* client whose Ping failed have none.
THEOREM LifecycleInvariant == Spec => []IInv
<1>. QED  BY Init_IInv, Next_IInv, PTL DEF Spec

\* No deferred call closes the pool under a loader, or the cache, the database,
\* a store or the group under a worker: LoadInitialSnapshot waits for the
\* loaders and gracefulShutdown for the workers.
THEOREM ClosedAfterUse == Spec => []UsedWhileOpen
<1>1. ASSUME IInv PROVE UsedWhileOpen
    <2>1. \A t \in Tables : usedByLoader(t) \subseteq open
        BY <1>1 DEF IInv, LoadersAwaited, OpenInOrder, usedByLoader
    <2>2. usedByWorker \subseteq open
        BY <1>1 DEF IInv, WorkersServed, usedByWorker
    <2>. QED  BY <2>1, <2>2 DEF UsedWhileOpen
<1>2. IInv => UsedWhileOpen
    BY <1>1
<1>. QED  BY LifecycleInvariant, <1>2, PTL

\* With the cache, no change is applied before the snapshot is loaded and no
\* event is enriched before the streams run.
THEOREM ServesWarm == Spec => []WarmBeforeServing
<1>1. IInv => WarmBeforeServing
    BY DEF IInv
<1>. QED  BY LifecycleInvariant, <1>1, PTL

\* A process that ends other than by the panic of a worker or of the poller has
\* run all its deferred calls: what LogAndPanic captured was flushed, within its
\* two seconds, and only clients no code closes are open.
THEOREM EndsAsItShould == Spec => []EndsCleanly
<1>1. ASSUME IInv, pc = "ended", ~diedAtOnce
      PROVE  /\ captured => flushed # "no"
             /\ open \subseteq NeverClosed
             /\ "unpinged" \in open => pingFailed
    <2>1. deferred = <<>> /\ "group" \notin open
        BY <1>1 DEF IInv, EverythingCloses
    <2>2. deferredCalls = {}
        BY <2>1 DEF deferredCalls, Range
    <2>3. open \subseteq Closed \cup NeverClosed \cup {"group"}
        BY <1>1 DEF IInv, TypeOK, Resources
    <2>4. open \cap Closed = {}
        BY <1>1, <2>2 DEF IInv, EverythingCloses
    <2>5. open \subseteq NeverClosed
        BY <2>1, <2>3, <2>4
    <2>. QED  BY <1>1, <2>2, <2>5 DEF IInv, EverythingCloses
<1>2. IInv => EndsCleanly
    BY <1>1 DEF EndsCleanly
<1>. QED  BY LifecycleInvariant, <1>2, PTL
=============================================================================
