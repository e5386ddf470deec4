------------------------ MODULE EventProcessorProofs ------------------------
(***************************************************************************)
(* Proofs about EventProcessor, for any records, events, charges and batch *)
(* sizes: the invariant IInv is inductive under every step of every        *)
(* goroutine, and the safety properties of ProcessEvents follow from it.   *)
(***************************************************************************)
EXTENDS EventProcessor, TLAPS

USE DEF goroutines, env, world

-----------------------------------------------------------------------------
(* The events and what they ask for                                        *)

\* Events have the fields the code branches on.
LEMMA EventTyped ==
    ASSUME NEW r \in Records
    PROVE  Events[r] \in EventProfile
BY EventsAssumption

\* The messages of an event are messages, and their topics leave traces.
LEMMA MessagesTyped ==
    ASSUME NEW r \in Records, NEW msg \in messages(Events[r])
    PROVE  msg \in Message /\ msg.topic \in Topics
<1>1. Events[r].charges \subseteq Charges
    BY EventTyped DEF EventProfile
<1>2. CASE msg \in enrichedMessages(Events[r])
    BY <1>2 DEF enrichedMessages, Message, Topics
<1>3. CASE msg \in expandedMessages(Events[r])
    BY <1>1, <1>3 DEF expandedMessages, chargesOf, Message, Topics
<1>4. CASE msg \in inAdvanceMessages(Events[r])
    BY <1>4 DEF inAdvanceMessages, Message, Topics
<1>. QED  BY <1>2, <1>3, <1>4 DEF messages

\* A reprocessed event has expanded messages only, and refreshes nothing.
LEMMA ReprocessAsksLittle ==
    ASSUME NEW r \in Records, Events[r].reprocess
    PROVE  /\ \A msg \in messages(Events[r]) : msg.topic = "expanded"
           /\ ~refreshes(Events[r])
BY DEF messages, enrichedMessages, expandedMessages, inAdvanceMessages,
       refreshes

\* What EnrichEvent returns; what it calls retryable is a failure it captures.
EnrichResult ==
    {res \in Result : res.retryable => res.failed /\ res.capturable}

\* Whichever of its five steps fails, EnrichEvent keeps to these results.
LEMMA EnrichEventResults ==
    ASSUME NEW e, NEW res \in EnrichEvent(e)
    PROVE  res \in EnrichResult
<1>. DEFINE steps == <<ToEnrichedEvent(e), FetchBillableMetric(e),
                       evaluateExpression(e), FetchSubscription(e),
                       FetchFlatFilters(e)>>
<1>0. /\ SuccessResult \in EnrichResult
      /\ storeFailure \in EnrichResult
      /\ notFound \in EnrichResult
      /\ FailedResult(FALSE, TRUE) \in EnrichResult
    BY DEF EnrichResult, Result, SuccessResult, storeFailure, notFound,
           FailedResult
<1>1. ToEnrichedEvent(e) \subseteq EnrichResult
    BY <1>0 DEF ToEnrichedEvent
<1>2. FetchBillableMetric(e) \subseteq EnrichResult
    BY <1>0 DEF FetchBillableMetric, getRow
<1>3. evaluateExpression(e) \subseteq EnrichResult
    BY <1>0 DEF evaluateExpression
<1>4. FetchSubscription(e) \subseteq EnrichResult
    BY <1>0 DEF FetchSubscription, getRow
<1>5. FetchFlatFilters(e) \subseteq EnrichResult
    BY <1>0 DEF FetchFlatFilters
<1>6. \E i \in 1 .. 5 : res \in steps[i]
    BY DEF EnrichEvent
<1>7. \A i \in 1 .. 5 : steps[i] \subseteq EnrichResult
    BY <1>1, <1>2, <1>3, <1>4, <1>5
<1>. QED  BY <1>6, <1>7

-----------------------------------------------------------------------------
(* What other goroutines do does not disturb a record                      *)

\* The effects outside the process on record r only grow.
WorldGrows(r) ==
    /\ topics[r] \subseteq topics'[r]
    /\ deadLetters[r] \subseteq deadLetters'[r]
    /\ captured[r] \subseteq captured'[r]
    /\ expired[r] \subseteq expired'[r]
    /\ r \in flagged => r \in flagged'

\* Outcomes are never taken back.
LEMMA OutcomesStable ==
    ASSUME NEW r \in Records, WorldGrows(r)
    PROVE  /\ \A msg : delivered(r, msg) => delivered(r, msg)'
           /\ refreshed(r) => refreshed(r)'
           /\ complete(r) => complete(r)'
           /\ givenUp(r) => givenUp(r)'
<1>1. \A msg : delivered(r, msg) => delivered(r, msg)'
    BY DEF WorldGrows, delivered
<1>2. refreshed(r) => refreshed(r)'
    BY DEF WorldGrows, refreshed
<1>3. complete(r) => complete(r)'
    BY <1>1, <1>2 DEF complete
<1>4. givenUp(r) => givenUp(r)'
    BY DEF WorldGrows, givenUp
<1>. QED  BY <1>1, <1>2, <1>3, <1>4

\* The step leaves everything about record r as it is; only its age may pass 12
\* hours, while its goroutine runs.
Untouched(r) ==
    /\ stage'[r] = stage[r] /\ result'[r] = result[r]
    /\ producing'[r] = producing[r] /\ failing'[r] = failing[r]
    /\ topics'[r] = topics[r] /\ deadLetters'[r] = deadLetters[r]
    /\ captured'[r] = captured[r] /\ expired'[r] = expired[r]
    /\ r \in flagged' <=> r \in flagged
    /\ r \in processedRecords' <=> r \in processedRecords
    /\ r \in batch' <=> r \in batch
    /\ stage[r] = "done" /\ r \in aged' => r \in aged

\* A step of another record's goroutine does not disturb the invariant of r.
LEMMA UntouchedInv ==
    ASSUME NEW r \in Records, RecordInv(r), Untouched(r)
    PROVE  RecordInv(r)'
<1>1. OutputsTracked(r)'
    BY DEF RecordInv, Untouched, OutputsTracked, delivered
<1>2. RefreshTracked(r)'
    BY DEF RecordInv, Untouched, RefreshTracked, refreshed
<1>3. EffectsAsked(r)'
    BY DEF RecordInv, Untouched, EffectsAsked
<1>4. VerdictSound(r)'
    BY DEF RecordInv, Untouched, VerdictSound, complete, givenUp, delivered,
           refreshed
<1>. QED  BY <1>1, <1>2, <1>3, <1>4 DEF RecordInv

-----------------------------------------------------------------------------
(* IInv is inductive: one lemma per action                                 *)

\* Before the first call nothing runs and nothing has happened.
LEMMA Init_IInv == Init => IInv
<1>. SUFFICES ASSUME Init PROVE IInv
    OBVIOUS
<1>1. TypeOK
    BY DEF Init, TypeOK, Stages, Result, SuccessResult
<1>2. ASSUME NEW r \in Records PROVE RecordInv(r)
    BY DEF Init, RecordInv, OutputsTracked, RefreshTracked, EffectsAsked,
           VerdictSound, SuccessResult
<1>. QED  BY <1>1, <1>2 DEF IInv

\* An unreadable record is given up and captured.
LEMMA unmarshal_IInv ==
    ASSUME IInv, NEW r \in Records, unmarshal(r)
    PROVE  IInv'
<1>1. TypeOK'
    BY DEF IInv, TypeOK, unmarshal, to, capture, Stages, Traces
<1>2. ASSUME NEW q \in Records, q # r PROVE RecordInv(q)'
    <2>1. Untouched(q)
        BY <1>2 DEF IInv, TypeOK, unmarshal, to, capture, Untouched
    <2>. QED  BY <2>1, UntouchedInv DEF IInv
<1>3. RecordInv(r)'
    <2>1. OutputsTracked(r)'
        BY DEF IInv, TypeOK, RecordInv, OutputsTracked, unmarshal, to, capture
    <2>2. RefreshTracked(r)'
        BY DEF IInv, TypeOK, RecordInv, RefreshTracked, unmarshal, to, capture
    <2>3. EffectsAsked(r)'
        BY DEF IInv, TypeOK, RecordInv, EffectsAsked, unmarshal
    <2>4. VerdictSound(r)'
        BY DEF IInv, TypeOK, RecordInv, VerdictSound, unmarshal, to, capture,
               givenUp
    <2>. QED  BY <2>1, <2>2, <2>3, <2>4 DEF RecordInv
<1>. QED  BY <1>1, <1>2, <1>3 DEF IInv

\* A failed enrichment has started no producer.
LEMMA enrich_IInv ==
    ASSUME IInv, NEW r \in Records, enrich(r)
    PROVE  IInv'
<1>1. PICK res \in EnrichEvent(Events[r]) :
         /\ result' = [result EXCEPT ![r] = res]
         /\ stage' = [stage EXCEPT
                ![r] = IF res.failed THEN "finish"
                       ELSE IF panics(Events[r]) THEN "panic" ELSE "dispatch"]
    BY DEF enrich, to
<1>2. res \in Result /\ (res.retryable => res.failed /\ res.capturable)
    BY EnrichEventResults DEF EnrichResult
<1>3. TypeOK'
    BY <1>1, <1>2 DEF IInv, TypeOK, enrich, Stages
<1>4. ASSUME NEW q \in Records, q # r PROVE RecordInv(q)'
    <2>1. Untouched(q)
        BY <1>1, <1>4 DEF IInv, TypeOK, enrich, Untouched
    <2>. QED  BY <2>1, UntouchedInv DEF IInv
<1>5. RecordInv(r)'
    <2>0. /\ stage[r] = "enrich" /\ stage'[r] \in {"finish", "panic", "dispatch"}
          /\ result'[r] = res
          /\ stage'[r] = "finish" <=> res.failed
        BY <1>1, <1>2 DEF IInv, TypeOK, enrich, Result
    <2>1. OutputsTracked(r)'
        BY <2>0 DEF IInv, TypeOK, RecordInv, OutputsTracked, enrich
    <2>2. RefreshTracked(r)'
        BY <2>0 DEF IInv, TypeOK, RecordInv, RefreshTracked, enrich
    <2>3. EffectsAsked(r)'
        BY DEF IInv, TypeOK, RecordInv, EffectsAsked, enrich
    <2>4. VerdictSound(r)'
        BY <1>2, <2>0 DEF IInv, TypeOK, RecordInv, VerdictSound, enrich
    <2>. QED  BY <2>1, <2>2, <2>3, <2>4 DEF RecordInv
<1>. QED  BY <1>3, <1>4, <1>5 DEF IInv

\* Every message of the event has a producer now.
LEMMA processEvent_IInv ==
    ASSUME IInv, NEW r \in Records, processEvent(r)
    PROVE  IInv'
<1>1. messages(Events[r]) \subseteq Message
    BY MessagesTyped
<1>2. TypeOK'
    BY <1>1 DEF IInv, TypeOK, processEvent, to, Stages
<1>3. ASSUME NEW q \in Records, q # r PROVE RecordInv(q)'
    <2>1. Untouched(q)
        BY <1>3 DEF IInv, TypeOK, processEvent, to, Untouched
    <2>. QED  BY <2>1, UntouchedInv DEF IInv
<1>4. RecordInv(r)'
    <2>1. OutputsTracked(r)'
        BY DEF IInv, TypeOK, RecordInv, OutputsTracked, processEvent, to
    <2>2. RefreshTracked(r)'
        BY DEF IInv, TypeOK, RecordInv, RefreshTracked, processEvent, to,
               refreshed
    <2>3. EffectsAsked(r)'
        BY DEF IInv, TypeOK, RecordInv, EffectsAsked, processEvent
    <2>4. VerdictSound(r)'
        BY DEF IInv, TypeOK, RecordInv, VerdictSound, processEvent, to
    <2>. QED  BY <2>1, <2>2, <2>3, <2>4 DEF RecordInv
<1>. QED  BY <1>2, <1>3, <1>4 DEF IInv

\* The subscription is flagged, or the event fails and its producers run on.
LEMMA FlagSubscriptionRefresh_IInv ==
    ASSUME IInv, NEW r \in Records, FlagSubscriptionRefresh(r)
    PROVE  IInv'
<1>1. storeFailure \in EnrichResult /\ storeFailure.failed
    BY DEF storeFailure, FailedResult, EnrichResult, Result
<1>2. TypeOK'
    BY <1>1 DEF IInv, TypeOK, FlagSubscriptionRefresh, to, Stages, EnrichResult
<1>3. ASSUME NEW q \in Records, q # r PROVE RecordInv(q)'
    <2>1. Untouched(q)
        BY <1>3 DEF IInv, TypeOK, FlagSubscriptionRefresh, to, Untouched
    <2>. QED  BY <2>1, UntouchedInv DEF IInv
<1>4. RecordInv(r)'
    <2>1. OutputsTracked(r)'
        BY DEF IInv, TypeOK, RecordInv, OutputsTracked,
               FlagSubscriptionRefresh, to, delivered
    <2>2. RefreshTracked(r)'
        BY <1>1 DEF IInv, TypeOK, RecordInv, RefreshTracked,
               FlagSubscriptionRefresh, to
    <2>3. EffectsAsked(r)'
        BY DEF IInv, TypeOK, RecordInv, EffectsAsked, RefreshTracked,
               FlagSubscriptionRefresh
    <2>4. VerdictSound(r)'
        BY <1>1 DEF IInv, TypeOK, RecordInv, VerdictSound,
               FlagSubscriptionRefresh, to, EnrichResult
    <2>. QED  BY <2>1, <2>2, <2>3, <2>4 DEF RecordInv
<1>. QED  BY <1>2, <1>3, <1>4 DEF IInv

\* The caches of the charges are expired, or the failure is captured.
LEMMA ExpireCache_IInv ==
    ASSUME IInv, NEW r \in Records, ExpireCache(r)
    PROVE  IInv'
<1>1. PICK lost \in SUBSET chargesOf(Events[r]) :
         /\ expired' = [expired EXCEPT
                           ![r] = @ \cup (chargesOf(Events[r]) \ lost)]
         /\ IF lost = {} THEN UNCHANGED captured ELSE capture(r, {"expire"})
    BY DEF ExpireCache
<1>2. chargesOf(Events[r]) \subseteq Charges
    BY EventTyped DEF chargesOf, EventProfile
<1>3. TypeOK'
    BY <1>1, <1>2 DEF IInv, TypeOK, ExpireCache, to, capture, Stages, Traces
<1>4. ASSUME NEW q \in Records, q # r PROVE RecordInv(q)'
    <2>1. Untouched(q)
        BY <1>1, <1>4
        DEF IInv, TypeOK, ExpireCache, to, capture, Untouched
    <2>. QED  BY <2>1, UntouchedInv DEF IInv
<1>5. RecordInv(r)'
    <2>0. stage[r] = "expire" /\ stage'[r] = "wait"
        BY DEF IInv, TypeOK, ExpireCache, to
    <2>w. WorldGrows(r)
        BY <1>1 DEF IInv, TypeOK, ExpireCache, capture, WorldGrows
    <2>1. OutputsTracked(r)'
        <3>1. \A msg \in messages(Events[r]) :
                 msg \in producing[r] \cup failing[r] \/ delivered(r, msg)
            BY <2>0 DEF IInv, RecordInv, OutputsTracked
        <3>2. \A msg \in messages(Events[r]) :
                 msg \in producing[r] \cup failing[r] \/ delivered(r, msg)'
            BY <2>w, <3>1, OutcomesStable
        <3>. QED
            BY <2>0, <3>2
            DEF IInv, RecordInv, OutputsTracked, ExpireCache
    <2>2. RefreshTracked(r)'
        <3>1. refreshed(r)'
            BY <1>1, <2>0
            DEF IInv, TypeOK, RecordInv, RefreshTracked, ExpireCache, capture,
                refreshed
        <3>. QED  BY <2>0, <3>1 DEF RefreshTracked
    <2>3. EffectsAsked(r)'
        BY <2>0
        DEF IInv, RecordInv, EffectsAsked, RefreshTracked, ExpireCache
    <2>4. VerdictSound(r)'
        BY <2>0 DEF IInv, RecordInv, VerdictSound, ExpireCache
    <2>. QED  BY <2>1, <2>2, <2>3, <2>4 DEF RecordInv
<1>. QED  BY <1>3, <1>4, <1>5 DEF IInv

\* Nothing is in flight any more, so every message is accounted for.
LEMMA waitProducers_IInv ==
    ASSUME IInv, NEW r \in Records, waitProducers(r)
    PROVE  IInv'
<1>1. TypeOK'
    BY DEF IInv, TypeOK, waitProducers, to, Stages
<1>2. ASSUME NEW q \in Records, q # r PROVE RecordInv(q)'
    <2>1. Untouched(q)
        BY <1>2 DEF IInv, TypeOK, waitProducers, to, Untouched
    <2>. QED  BY <2>1, UntouchedInv DEF IInv
<1>3. RecordInv(r)'
    <2>1. OutputsTracked(r)'
        BY DEF IInv, TypeOK, RecordInv, OutputsTracked, waitProducers, to,
               delivered
    <2>2. RefreshTracked(r)'
        BY DEF IInv, TypeOK, RecordInv, RefreshTracked, waitProducers, to,
               refreshed
    <2>3. EffectsAsked(r)'
        BY DEF IInv, RecordInv, EffectsAsked, waitProducers
    <2>4. VerdictSound(r)'
        BY DEF IInv, TypeOK, RecordInv, VerdictSound, waitProducers, to
    <2>. QED  BY <2>1, <2>2, <2>3, <2>4 DEF RecordInv
<1>. QED  BY <1>1, <1>2, <1>3 DEF IInv

\* What is reported as processed is complete; what is left is retryable, hence
\* captured.
LEMMA finish_IInv ==
    ASSUME IInv, NEW r \in Records, finish(r)
    PROVE  IInv'
<1>1. TypeOK'
    BY DEF IInv, TypeOK, finish, to, capture, Stages, Traces
<1>2. ASSUME NEW q \in Records, q # r PROVE RecordInv(q)'
    <2>1. Untouched(q)
        BY <1>2 DEF IInv, TypeOK, finish, to, capture, Untouched
    <2>. QED  BY <2>1, UntouchedInv DEF IInv
<1>3. RecordInv(r)'
    <2>0. stage[r] = "finish" /\ stage'[r] \in {"done", "deadletter"}
        BY DEF IInv, TypeOK, finish, to
    <2>1. OutputsTracked(r)'
        BY <2>0 DEF IInv, RecordInv, OutputsTracked, finish
    <2>2. RefreshTracked(r)'
        BY <2>0 DEF RefreshTracked
    <2>3. EffectsAsked(r)'
        BY DEF IInv, RecordInv, EffectsAsked, finish
    <2>4. VerdictSound(r)'
        <3>1. CASE ~result[r].failed
            <4>1. complete(r)
                BY <2>0, <3>1
                DEF IInv, RecordInv, OutputsTracked, RefreshTracked, complete
            <4>2. WorldGrows(r)
                BY DEF IInv, TypeOK, finish, capture, WorldGrows
            <4>3. complete(r)'
                BY <4>1, <4>2, OutcomesStable
            <4>4. stage'[r] = "done" /\ r \in processedRecords'
                BY <3>1 DEF IInv, TypeOK, finish, to
            <4>. QED
                BY <2>0, <4>3, <4>4
                DEF IInv, RecordInv, VerdictSound, finish
        <3>2. CASE result[r].failed
            <4>1. r \notin processedRecords /\ r \notin processedRecords'
                BY <2>0, <3>2 DEF IInv, RecordInv, VerdictSound, finish
            <4>2. stage'[r] = "done" =>
                     /\ result[r].retryable /\ r \notin aged
                     /\ "result" \in captured'[r]
                BY <3>2
                DEF IInv, TypeOK, RecordInv, VerdictSound, finish, to, capture
            <4>. QED
                BY <2>0, <4>1, <4>2
                DEF IInv, RecordInv, VerdictSound, finish
        <3>. QED  BY <3>1, <3>2
    <2>. QED  BY <2>1, <2>2, <2>3, <2>4 DEF RecordInv
<1>. QED  BY <1>1, <1>2, <1>3 DEF IInv

\* The event is given up, in the dead letter queue or captured.
LEMMA ProduceToDeadLetterQueue_IInv ==
    ASSUME IInv, NEW r \in Records, ProduceToDeadLetterQueue(r)
    PROVE  IInv'
<1>1. TypeOK'
    BY DEF IInv, TypeOK, ProduceToDeadLetterQueue, deadLetter, to, capture,
           Stages, Traces
<1>2. ASSUME NEW q \in Records, q # r PROVE RecordInv(q)'
    <2>1. Untouched(q)
        BY <1>2
        DEF IInv, TypeOK, ProduceToDeadLetterQueue, deadLetter, to, capture,
            Untouched
    <2>. QED  BY <2>1, UntouchedInv DEF IInv
<1>3. RecordInv(r)'
    <2>0. stage[r] = "deadletter" /\ stage'[r] = "done"
        BY DEF IInv, TypeOK, ProduceToDeadLetterQueue, to
    <2>1. OutputsTracked(r)'
        BY <2>0 DEF IInv, RecordInv, OutputsTracked, ProduceToDeadLetterQueue
    <2>2. RefreshTracked(r)'
        BY <2>0 DEF RefreshTracked
    <2>3. EffectsAsked(r)'
        BY DEF IInv, RecordInv, EffectsAsked, ProduceToDeadLetterQueue
    <2>4. VerdictSound(r)'
        <3>1. givenUp(r)'
            BY DEF IInv, TypeOK, ProduceToDeadLetterQueue, deadLetter, capture,
                   givenUp
        <3>. QED
            BY <2>0, <3>1
            DEF IInv, RecordInv, VerdictSound, ProduceToDeadLetterQueue
    <2>. QED  BY <2>1, <2>2, <2>3, <2>4 DEF RecordInv
<1>. QED  BY <1>1, <1>2, <1>3 DEF IInv

\* A step of a producer's goroutine: the message is delivered, leaves a trace,
\* or goes on to the dead letter queue.
LEMMA producer_IInv ==
    ASSUME IInv, NEW r \in Records, NEW msg \in Message,
           produceEvent(r, msg) \/ deadLetterMessage(r, msg)
    PROVE  IInv'
<1>0. msg.topic \in Topics
    BY DEF Message
<1>1. TypeOK'
    <2>1. CASE produceEvent(r, msg)
        BY <1>0, <2>1 DEF IInv, TypeOK, produceEvent, capture, Traces
    <2>2. CASE deadLetterMessage(r, msg)
        BY <1>0, <2>2
        DEF IInv, TypeOK, deadLetterMessage, deadLetter, capture, Traces
    <2>. QED  BY <2>1, <2>2
<1>2. ASSUME NEW q \in Records, q # r PROVE RecordInv(q)'
    <2>1. Untouched(q)
        BY <1>2
        DEF IInv, TypeOK, produceEvent, deadLetterMessage, deadLetter, capture,
            Untouched
    <2>. QED  BY <2>1, UntouchedInv DEF IInv
<1>3. RecordInv(r)'
    <2>0. /\ UNCHANGED <<stage, result, processedRecords, batch, flagged,
                         expired>>
          /\ msg \in producing[r] \cup failing[r]
          /\ msg \in messages(Events[r])
          /\ stage[r] \in {"flag", "expire", "wait"}
        BY DEF IInv, RecordInv, OutputsTracked, produceEvent, deadLetterMessage
    <2>w. WorldGrows(r)
        BY DEF IInv, TypeOK, produceEvent, deadLetterMessage, deadLetter,
               capture, WorldGrows
    <2>1. OutputsTracked(r)'
        <3>1. /\ producing'[r] \cup failing'[r] \subseteq
                     producing[r] \cup failing[r]
              /\ producing[r] \cup failing[r] \subseteq
                     producing'[r] \cup failing'[r] \cup {msg}
            BY DEF IInv, TypeOK, produceEvent, deadLetterMessage
        <3>2. msg \in producing'[r] \cup failing'[r] \/ delivered(r, msg)'
            BY DEF IInv, TypeOK, produceEvent, deadLetterMessage, deadLetter,
                   capture, delivered
        <3>3. \A m \in messages(Events[r]) :
                 m \in producing[r] \cup failing[r] \/ delivered(r, m)
            BY <2>0 DEF IInv, RecordInv, OutputsTracked
        <3>4. \A m \in messages(Events[r]) :
                 m \in producing'[r] \cup failing'[r] \/ delivered(r, m)'
            BY <2>w, <3>1, <3>2, <3>3, OutcomesStable
        <3>. QED
            BY <2>0, <3>1, <3>4 DEF IInv, RecordInv, OutputsTracked
    <2>2. RefreshTracked(r)'
        <3>1. refreshed(r) => refreshed(r)'
            BY <2>w, OutcomesStable
        <3>. QED  BY <2>0, <3>1 DEF IInv, RecordInv, RefreshTracked
    <2>3. EffectsAsked(r)'
        <3>1. topics'[r] \subseteq topics[r] \cup {msg}
            BY DEF IInv, TypeOK, produceEvent, deadLetterMessage
        <3>. QED  BY <2>0, <3>1 DEF IInv, RecordInv, EffectsAsked
    <2>4. VerdictSound(r)'
        BY <2>0 DEF IInv, RecordInv, VerdictSound
    <2>. QED  BY <2>1, <2>2, <2>3, <2>4 DEF RecordInv
<1>. QED  BY <1>1, <1>2, <1>3 DEF IInv

\* A call starts when no goroutine of an earlier one is left.
LEMMA ProcessEvents_IInv ==
    ASSUME IInv, NEW records \in SUBSET Records, ProcessEvents(records)
    PROVE  IInv'
<1>0. SuccessResult \in Result /\ ~SuccessResult.retryable
    BY DEF SuccessResult, Result
<1>1. TypeOK'
    BY <1>0 DEF IInv, TypeOK, ProcessEvents, Stages
<1>2. ASSUME NEW r \in Records PROVE RecordInv(r)'
    <2>0. /\ stage[r] = "idle" /\ stage'[r] \in {"idle", "unmarshal"}
          /\ r \in batch' <=> stage'[r] # "idle"
          /\ ~result'[r].retryable
          /\ r \notin processedRecords'
        BY <1>0 DEF IInv, TypeOK, RecordInv, VerdictSound, ProcessEvents
    <2>1. OutputsTracked(r)'
        BY <2>0 DEF IInv, RecordInv, OutputsTracked, ProcessEvents
    <2>2. RefreshTracked(r)'
        BY <2>0 DEF RefreshTracked
    <2>3. EffectsAsked(r)'
        BY DEF IInv, RecordInv, EffectsAsked, ProcessEvents
    <2>4. VerdictSound(r)'
        BY <2>0 DEF VerdictSound
    <2>. QED  BY <2>1, <2>2, <2>3, <2>4 DEF RecordInv
<1>. QED  BY <1>1, <1>2 DEF IInv

\* The clock and the signal change nothing the records are about.
LEMMA environment_IInv ==
    ASSUME IInv,
           \/ UNCHANGED vars
           \/ cancel
           \/ \E r \in Records : Age(r)
    PROVE  IInv'
<1>1. TypeOK'
    BY DEF IInv, TypeOK, vars, cancel, Age
<1>2. ASSUME NEW r \in Records PROVE RecordInv(r)'
    <2>1. Untouched(r)
        BY DEF vars, cancel, Age, Untouched
    <2>. QED  BY <2>1, UntouchedInv DEF IInv
<1>. QED  BY <1>1, <1>2 DEF IInv

\* All goroutines.
LEMMA processorStep_IInv ==
    ASSUME IInv, processorStep
    PROVE  IInv'
<1>1. PICK r \in Records : recordStep(r) \/ messageStep(r)
    BY DEF processorStep
<1>2. CASE recordStep(r)
    BY <1>2, unmarshal_IInv, enrich_IInv, processEvent_IInv,
       FlagSubscriptionRefresh_IInv, ExpireCache_IInv, waitProducers_IInv,
       finish_IInv, ProduceToDeadLetterQueue_IInv
    DEF recordStep
<1>3. CASE messageStep(r)
    BY <1>3, producer_IInv DEF messageStep
<1>. QED  BY <1>1, <1>2, <1>3

\* Every step of a call of ProcessEvents preserves the invariant.
LEMMA Next_IInv == IInv /\ [Next]_vars => IInv'
<1>. SUFFICES ASSUME IInv, [Next]_vars PROVE IInv'
    OBVIOUS
<1>1. ASSUME NEW records \in SUBSET Records, ProcessEvents(records)
      PROVE  IInv'
    BY <1>1, ProcessEvents_IInv
<1>2. CASE processorStep
    BY <1>2, processorStep_IInv
<1>3. CASE \/ UNCHANGED vars
           \/ cancel
           \/ \E r \in Records : Age(r)
    BY <1>3, environment_IInv
<1>. QED  BY <1>1, <1>2, <1>3 DEF Next

-----------------------------------------------------------------------------
(* The theorems                                                            *)

\* The invariant of ProcessEvents holds at every step of every goroutine.
THEOREM ProcessorInvariant == Spec => []IInv
    BY Init_IInv, Next_IInv, PTL DEF Spec

\* What each record's invariant says of the properties.
LEMMA InvImplies ==
    IInv => ProcessedAccounted /\ NothingInFlight /\ LeftForRetry
            /\ ReprocessOnlyExpands
<1>. SUFFICES ASSUME IInv
              PROVE  ProcessedAccounted /\ NothingInFlight /\ LeftForRetry
                     /\ ReprocessOnlyExpands
    OBVIOUS
<1>1. ProcessedAccounted
    BY DEF IInv, TypeOK, RecordInv, VerdictSound, ProcessedAccounted
<1>2. NothingInFlight
    BY DEF IInv, RecordInv, OutputsTracked, NothingInFlight
<1>3. LeftForRetry
    BY DEF IInv, TypeOK, RecordInv, VerdictSound, LeftForRetry
<1>4. ReprocessOnlyExpands
    <2>. SUFFICES ASSUME NEW r \in Records, Events[r].reprocess
                  PROVE  /\ \A msg \in topics[r] : msg.topic = "expanded"
                         /\ r \notin flagged /\ expired[r] = {}
        BY DEF ReprocessOnlyExpands
    <2>1. /\ \A msg \in messages(Events[r]) : msg.topic = "expanded"
          /\ ~refreshes(Events[r])
        BY ReprocessAsksLittle
    <2>. QED  BY <2>1 DEF IInv, RecordInv, EffectsAsked
<1>. QED  BY <1>1, <1>2, <1>3, <1>4

\* No failure of an output, the dead letter queue, Redis or the process's stop
\* makes ProcessEvents report a record whose effects are lost silently.
THEOREM ProcessedIsAccounted == Spec => []ProcessedAccounted
    BY ProcessorInvariant, InvImplies, PTL

\* processEvent never returns before its producers have ended.
THEOREM NothingLeftInFlight == Spec => []NothingInFlight
    BY ProcessorInvariant, InvImplies, PTL

\* A record that is not reported as processed failed retryably, and the error
\* tracker knows.
THEOREM RetriesAreCaptured == Spec => []LeftForRetry
    BY ProcessorInvariant, InvImplies, PTL

\* Reprocessing an event never charges in advance, refreshes or expires again.
THEOREM ReprocessingIsHarmless == Spec => []ReprocessOnlyExpands
    BY ProcessorInvariant, InvImplies, PTL
=============================================================================
