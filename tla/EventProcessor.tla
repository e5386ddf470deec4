--------------------------- MODULE EventProcessor ---------------------------
(***************************************************************************)
(* ProcessEvents of the events processor                                   *)
(* (events-processor/processors/events_processor): one goroutine per       *)
(* record of a batch, which enriches the event, starts one goroutine per   *)
(* message to produce, flags the subscription, expires cached charge usage *)
(* and decides between processed, dead-lettered and left for a retry.      *)
(* The goroutines of all records and all messages interleave.              *)
(*                                                                         *)
(* An event is described by what the code branches on (Events): the        *)
(* message itself and what the store answers for it.                       *)
(***************************************************************************)
EXTENDS FiniteSets, Integers

CONSTANTS
    Records,    \* the records, named by their offset
    Charges,    \* charges of the plans
    Events,     \* Events[r]: what the code finds when it handles record r
    MaxBatch    \* bound: records of one call

NoCharge == "none"

EventProfile ==
    [parses : BOOLEAN,            \* the value is valid JSON for models.Event
     validTimestamp : BOOLEAN,    \* ToFloat64Timestamp and ToTime accept it
     encodable : BOOLEAN,         \* FALSE: a NaN timestamp, no JSON form
     properties : BOOLEAN,        \* the event has a properties object
     httpRuby : BOOLEAN,          \* Source is HTTP_RUBY
     apiPostProcess : BOOLEAN,    \* source_metadata.api_post_processed
     reprocess : BOOLEAN,         \* source_metadata.reprocess
     ingestedAt : BOOLEAN,        \* ingested_at is set
     metric : BOOLEAN,            \* the billable metric exists
     expression : {"none", "ok", "invalid"},
     subscription : BOOLEAN,      \* an active subscription matches
     charges : SUBSET Charges,    \* charges with a matching filter
     payInAdvance : SUBSET Charges]

ASSUME EventsAssumption ==
    /\ Events \in [Records -> EventProfile]
    /\ NoCharge \notin Charges
    /\ Records \subseteq Nat
    /\ MaxBatch \in Nat

Topics == {"enriched", "expanded", "in_advance"}
Message == [topic : Topics, charge : Charges \cup {NoCharge}]

VARIABLES
    batch,       \* the records of the running ProcessEvents call
    stage,       \* stage[r]: where the goroutine of r is
    result,      \* result[r]: what processEvent returns
    producing,   \* producing[r]: messages whose goroutine is pushing
    failing,     \* failing[r]: messages whose goroutine is dead-lettering
    processedRecords,
    aged,        \* records ingested more than 12 hours ago
    ctxDone,     \* SIGTERM has cancelled the context of the Redis stores
    \* the outside world
    topics,      \* topics[r]: messages on the output topics
    deadLetters, \* deadLetters[r]: what was dead-lettered: a topic, or "event"
    captured,    \* captured[r]: what was given to Sentry's client
    flagged,     \* records whose subscription was flagged for refresh
    expired      \* expired[r]: charges whose cached usage was expired

goroutines == <<stage, result, producing, failing>>
env == <<aged, ctxDone>>
world == <<topics, deadLetters, captured, flagged, expired>>
vars == <<batch, goroutines, processedRecords, env, world>>

Stages == {"idle", "unmarshal", "enrich", "dispatch", "flag", "expire", "wait",
           "finish", "deadletter", "panic", "done"}

\* What may be dead-lettered or captured about a record.
Traces == Topics \cup {"event", "unmarshal", "result", "expire"}

Result == [failed : BOOLEAN, retryable : BOOLEAN, capturable : BOOLEAN]

SuccessResult == [failed |-> FALSE, retryable |-> FALSE, capturable |-> FALSE]

FailedResult(retryable, capturable) ==
    [failed |-> TRUE, retryable |-> retryable, capturable |-> capturable]

Init ==
    /\ batch = {}
    /\ stage = [r \in Records |-> "idle"]
    /\ result = [r \in Records |-> SuccessResult]
    /\ producing = [r \in Records |-> {}]
    /\ failing = [r \in Records |-> {}]
    /\ processedRecords = {}
    /\ aged = {r \in Records : ~Events[r].ingestedAt}
    /\ ctxDone = FALSE
    /\ topics = [r \in Records |-> {}]
    /\ deadLetters = [r \in Records |-> {}]
    /\ captured = [r \in Records |-> {}]
    /\ flagged = {}
    /\ expired = [r \in Records |-> {}]

-----------------------------------------------------------------------------
(* EnrichEvent and what follows from it                                    *)

\* A store (database, cache or Redis) that does not answer.
storeFailure == FailedResult(TRUE, TRUE)

\* A row that does not exist is neither retried nor captured.
notFound == FailedResult(FALSE, FALSE)

\* The results of a read of one row, from the cache or from the database.
getRow(found) == {storeFailure, IF found THEN SuccessResult ELSE notFound}

\* Neither timestamp can be converted: there is no use in a retry.
ToEnrichedEvent(e) ==
    {IF e.validTimestamp THEN SuccessResult ELSE FailedResult(FALSE, TRUE)}

FetchBillableMetric(e) == getRow(e.metric)

\* Expressions are not evaluated for events the API has already evaluated.
evaluatesExpression(e) == e.metric /\ ~e.httpRuby /\ e.expression # "none"

evaluateExpression(e) ==
    {IF evaluatesExpression(e) /\ (e.expression = "invalid" \/ ~e.encodable)
     THEN FailedResult(FALSE, TRUE) ELSE SuccessResult}

\* A subscription that does not exist is no failure.
FetchSubscription(e) ==
    {IF res.capturable THEN res ELSE SuccessResult :
        res \in getRow(e.subscription)}

\* The filters of a plan, which only a subscription has: none is no failure.
FetchFlatFilters(e) ==
    IF e.subscription THEN {storeFailure, SuccessResult} ELSE {SuccessResult}

\* The results EnrichEvent may have: the first failure of its steps, or none.
EnrichEvent(e) ==
    LET steps == <<ToEnrichedEvent(e), FetchBillableMetric(e),
                   evaluateExpression(e), FetchSubscription(e),
                   FetchFlatFilters(e)>>
        reached(i) == \A j \in 1 .. i - 1 : SuccessResult \in steps[j]
    IN  UNION {{res \in steps[i] : res.failed \/ i = 5} :
                  i \in {j \in 1 .. 5 : reached(j)}}

\* evaluateExpression stores its value in the properties; there may be none.
panics(e) ==
    /\ e.validTimestamp /\ evaluatesExpression(e)
    /\ e.expression = "ok" /\ e.encodable /\ ~e.properties

chargesOf(e) == IF e.subscription THEN e.charges ELSE {}

NotAPIPostProcessed(e) == ~(e.httpRuby /\ e.apiPostProcess)

\* Only these events touch the subscription and the caches.
refreshes(e) == ~e.reprocess /\ e.subscription /\ NotAPIPostProcessed(e)

enrichedMessages(e) ==
    IF e.reprocess THEN {} ELSE {[topic |-> "enriched", charge |-> NoCharge]}

expandedMessages(e) ==
    {[topic |-> "expanded", charge |-> c] : c \in chargesOf(e)}

inAdvanceMessages(e) ==
    IF refreshes(e) /\ chargesOf(e) \cap e.payInAdvance # {}
    THEN {[topic |-> "in_advance", charge |-> NoCharge]} ELSE {}

messages(e) ==
    enrichedMessages(e) \cup expandedMessages(e) \cup inAdvanceMessages(e)

-----------------------------------------------------------------------------
(* The goroutine of a record                                               *)

to(r, s) == stage' = [stage EXCEPT ![r] = s]

\* utils.CaptureError and its variants: Sentry's client queues the error.
\* errors: the failures of the event it is about, none if it is not about one.
capture(r, errors) == captured' = [captured EXCEPT ![r] = @ \cup errors]

\* A record that cannot be read is captured and counts as processed.
unmarshal(r) ==
    /\ stage[r] = "unmarshal"
    /\ IF Events[r].parses
       THEN to(r, "enrich") /\ UNCHANGED <<captured, processedRecords>>
       ELSE /\ to(r, "done")
            /\ capture(r, {"unmarshal"})
            /\ processedRecords' = processedRecords \cup {r}
    /\ UNCHANGED <<batch, result, producing, failing, env, topics,
                   deadLetters, flagged, expired>>

\* A failed enrichment returns at once; the deferred Wait has nothing to do.
enrich(r) ==
    /\ stage[r] = "enrich"
    /\ \E res \in EnrichEvent(Events[r]) :
                /\ result' = [result EXCEPT ![r] = res]
                /\ to(r, IF res.failed THEN "finish"
                         ELSE IF panics(Events[r]) THEN "panic"
                         ELSE "dispatch")
    /\ UNCHANGED <<batch, producing, failing, processedRecords, env, world>>

\* Plausible slip: reprocessed events are handled like the others.
processEvent_noReprocess(r) ==
    LET e == [Events[r] EXCEPT !.reprocess = FALSE] IN
    /\ stage[r] = "dispatch"
    /\ producing' = [producing EXCEPT ![r] = messages(e)]
    /\ to(r, IF refreshes(e) THEN "flag" ELSE "wait")
    /\ UNCHANGED <<batch, result, failing, processedRecords, env, world>>

\* The goroutines that produce are started; a subscription to refresh is next.
processEvent(r) ==
    /\ stage[r] = "dispatch"
    /\ producing' = [producing EXCEPT ![r] = messages(Events[r])]
    /\ to(r, IF refreshes(Events[r]) THEN "flag" ELSE "wait")
    /\ UNCHANGED <<batch, result, failing, processedRecords, env, world>>

\* Plausible slip: the result of the flag is not looked at.
FlagSubscriptionRefresh_unchecked(r) ==
    /\ stage[r] = "flag"
    /\ \/ ~ctxDone /\ flagged' = flagged \cup {r}
       \/ UNCHANGED flagged
    /\ to(r, "expire")
    /\ UNCHANGED <<batch, result, producing, failing, processedRecords, env,
                   topics, deadLetters, captured, expired>>

\* The flag is set synchronously; when Redis fails, or the process is stopping,
\* the event fails, although its messages are being produced.
FlagSubscriptionRefresh(r) ==
    /\ stage[r] = "flag"
    /\ \/ /\ ~ctxDone
          /\ flagged' = flagged \cup {r}
          /\ to(r, "expire")
          /\ UNCHANGED result
       \/ /\ result' = [result EXCEPT ![r] = storeFailure]
          /\ to(r, "wait")
          /\ UNCHANGED flagged
    /\ UNCHANGED <<batch, producing, failing, processedRecords, env, topics,
                   deadLetters, captured, expired>>

\* One key per charge; those that fail are captured and nothing else.
ExpireCache(r) ==
    /\ stage[r] = "expire"
    /\ \E lost \in SUBSET chargesOf(Events[r]) :
          /\ ctxDone => lost = chargesOf(Events[r])
          /\ expired' = [expired EXCEPT
                            ![r] = @ \cup (chargesOf(Events[r]) \ lost)]
          /\ IF lost = {} THEN UNCHANGED captured ELSE capture(r, {"expire"})
    /\ to(r, "wait")
    /\ UNCHANGED <<batch, result, producing, failing, processedRecords, env,
                   topics, deadLetters, flagged>>

\* Plausible slip: processEvent returns without waiting.
waitProducers_dropped(r) ==
    /\ stage[r] = "wait"
    /\ to(r, "finish")
    /\ UNCHANGED <<batch, result, producing, failing, processedRecords, env,
                   world>>

\* The deferred Wait of processEvent.
waitProducers(r) ==
    /\ stage[r] = "wait"
    /\ producing[r] = {} /\ failing[r] = {}
    /\ to(r, "finish")
    /\ UNCHANGED <<batch, result, producing, failing, processedRecords, env,
                   world>>

\* Plausible slip: every failure of a young event is left for a retry.
finish_retriesAll(r) ==
    /\ stage[r] = "finish"
    /\ IF result[r].failed /\ result[r].capturable
       THEN capture(r, {"result"}) ELSE UNCHANGED captured
    /\ IF ~result[r].failed
       THEN /\ to(r, "done")
            /\ processedRecords' = processedRecords \cup {r}
       ELSE /\ to(r, IF r \notin aged THEN "done" ELSE "deadletter")
            /\ UNCHANGED processedRecords
    /\ UNCHANGED <<batch, result, producing, failing, env, topics,
                   deadLetters, flagged, expired>>

\* Plausible slip: a retryable failure is retried on the spot.
finish_retriesInPlace(r) ==
    /\ stage[r] = "finish"
    /\ IF result[r].failed /\ result[r].capturable
       THEN capture(r, {"result"}) ELSE UNCHANGED captured
    /\ IF ~result[r].failed
       THEN /\ to(r, "done")
            /\ processedRecords' = processedRecords \cup {r}
       ELSE /\ to(r, IF result[r].retryable /\ r \notin aged
                     THEN "enrich" ELSE "deadletter")
            /\ UNCHANGED processedRecords
    /\ UNCHANGED <<batch, result, producing, failing, env, topics,
                   deadLetters, flagged, expired>>

\* Success is processed; a retryable failure of a young event is left alone;
\* any other failure goes to the dead letter queue.
finish(r) ==
    /\ stage[r] = "finish"
    /\ IF result[r].failed /\ result[r].capturable
       THEN capture(r, {"result"}) ELSE UNCHANGED captured
    /\ IF ~result[r].failed
       THEN /\ to(r, "done")
            /\ processedRecords' = processedRecords \cup {r}
       ELSE /\ to(r, IF result[r].retryable /\ r \notin aged
                     THEN "done" ELSE "deadletter")
            /\ UNCHANGED processedRecords
    /\ UNCHANGED <<batch, result, producing, failing, env, topics,
                   deadLetters, flagged, expired>>

\* Plausible slip: a failed push to the dead letter queue is only logged.
deadLetter_logged(r, what) ==
    /\ \/ deadLetters' = [deadLetters EXCEPT ![r] = @ \cup {what}]
       \/ UNCHANGED deadLetters
    /\ UNCHANGED captured

\* ProduceToDeadLetterQueue: a push that fails leaves only a captured error.
deadLetter(r, what) ==
    \/ /\ deadLetters' = [deadLetters EXCEPT ![r] = @ \cup {what}]
       /\ UNCHANGED captured
    \/ /\ capture(r, {what})
       /\ UNCHANGED deadLetters

ProduceToDeadLetterQueue(r) ==
    /\ stage[r] = "deadletter"
    /\ deadLetter(r, "event")
    /\ to(r, "done")
    /\ processedRecords' = processedRecords \cup {r}
    /\ UNCHANGED <<batch, result, producing, failing, env, topics, flagged,
                   expired>>

-----------------------------------------------------------------------------
(* The goroutine of a message: produceEvent                                *)

\* An event without a JSON form is captured; else the push succeeds, or its
\* error, which is about the broker, is captured and the message goes on to
\* the dead letter queue.
produceEvent(r, msg) ==
    /\ msg \in producing[r]
    /\ producing' = [producing EXCEPT ![r] = @ \ {msg}]
    /\ \/ /\ ~Events[r].encodable
          /\ capture(r, {msg.topic})
          /\ UNCHANGED <<topics, failing>>
       \/ /\ Events[r].encodable
          /\ topics' = [topics EXCEPT ![r] = @ \cup {msg}]
          /\ UNCHANGED <<captured, failing>>
       \/ /\ Events[r].encodable
          /\ capture(r, {})
          /\ failing' = [failing EXCEPT ![r] = @ \cup {msg}]
          /\ UNCHANGED topics
    /\ UNCHANGED <<batch, stage, result, processedRecords, env, deadLetters,
                   flagged, expired>>

deadLetterMessage(r, msg) ==
    /\ msg \in failing[r]
    /\ failing' = [failing EXCEPT ![r] = @ \ {msg}]
    /\ deadLetter(r, msg.topic)
    /\ UNCHANGED <<batch, stage, result, producing, processedRecords, env,
                   topics, flagged, expired>>

-----------------------------------------------------------------------------
(* The call                                                                *)

\* ProcessEvents starts a goroutine per record.
ProcessEvents(records) ==
    /\ batch = {}
    /\ batch' = records
    /\ stage' = [r \in Records |->
                    IF r \in records THEN "unmarshal" ELSE "idle"]
    /\ result' = [r \in Records |-> SuccessResult]
    /\ processedRecords' = {}
    /\ UNCHANGED <<producing, failing, env, world>>

\* g.Wait returns: every goroutine of the batch has ended.
returned == batch # {} /\ \A r \in batch : stage[r] = "done"

\* Twelve hours have passed, before the goroutine has looked at the clock.
Age(r) ==
    /\ r \in batch \ aged
    /\ stage[r] # "done"
    /\ aged' = aged \cup {r}
    /\ UNCHANGED <<batch, goroutines, processedRecords, ctxDone, world>>

\* SIGTERM while a call runs.  The stores of Redis were built with the context
\* it cancels; the call itself runs to its end, and so do its producers.
cancel ==
    /\ ~ctxDone /\ batch # {}
    /\ ctxDone' = TRUE
    /\ UNCHANGED <<batch, goroutines, processedRecords, aged, world>>

recordStep(r) ==
    \/ unmarshal(r)
    \/ enrich(r)
    \/ processEvent(r)
    \/ FlagSubscriptionRefresh(r)
    \/ ExpireCache(r)
    \/ waitProducers(r)
    \/ finish(r)
    \/ ProduceToDeadLetterQueue(r)

messageStep(r) ==
    \E msg \in Message : produceEvent(r, msg) \/ deadLetterMessage(r, msg)

processorStep == \E r \in Records : recordStep(r) \/ messageStep(r)

\* One call on its own, with any batch.
Next ==
    \/ /\ \A r \in Records : stage[r] = "idle"
       /\ \E records \in SUBSET Records \ {{}} :
             Cardinality(records) <= MaxBatch /\ ProcessEvents(records)
    \/ processorStep
    \/ \E r \in Records : Age(r)
    \/ cancel

\* Every goroutine that can run does; producing and Redis calls end, with
\* success or failure.
Fairness ==
    \A r \in Records : WF_vars(recordStep(r)) /\ WF_vars(messageStep(r))

Spec == Init /\ [][Next]_vars /\ Fairness

-----------------------------------------------------------------------------
(* Properties                                                              *)

\* Types of all variables.
TypeOK ==
    /\ batch \in SUBSET Records
    /\ stage \in [Records -> Stages]
    /\ result \in [Records -> Result]
    /\ producing \in [Records -> SUBSET Message]
    /\ failing \in [Records -> SUBSET Message]
    /\ processedRecords \in SUBSET Records
    /\ aged \in SUBSET Records /\ ctxDone \in BOOLEAN
    /\ topics \in [Records -> SUBSET Message]
    /\ deadLetters \in [Records -> SUBSET Traces]
    /\ captured \in [Records -> SUBSET Traces]
    /\ flagged \in SUBSET Records
    /\ expired \in [Records -> SUBSET Charges]

\* A message reached its topic, or it can be recovered from the dead letter
\* queue or the captured error.
delivered(r, msg) ==
    msg \in topics[r] \/ msg.topic \in deadLetters[r] \cup captured[r]

\* The subscription is flagged and the cached usage expired, where they are to.
refreshed(r) ==
    refreshes(Events[r]) =>
        /\ r \in flagged
        /\ \/ chargesOf(Events[r]) \subseteq expired[r]
           \/ "expire" \in captured[r]

\* All effects of the event happened, or are recoverable.
complete(r) ==
    /\ \A msg \in messages(Events[r]) : delivered(r, msg)
    /\ refreshed(r)

\* The event as a whole was given up, with a trace.
givenUp(r) ==
    "event" \in deadLetters[r] \cup captured[r] \/ "unmarshal" \in captured[r]

\* A record is only reported as processed when every effect of its event
\* happened or left a trace, or the event itself was given up with a trace: no
\* failure of an output, the dead letter queue or Redis loses it silently.
ProcessedAccounted ==
    \A r \in processedRecords : complete(r) \/ givenUp(r)

\* When the goroutine of a record has ended none of its producers is running,
\* so that nothing is lost if the process stops after the commit.
NothingInFlight ==
    \A r \in Records : stage[r] \in {"done", "idle"} =>
        producing[r] = {} /\ failing[r] = {}

\* A record left for a retry failed in a way the code calls retryable, less than
\* 12 hours after its ingestion, and the failure was captured.
LeftForRetry ==
    \A r \in batch : stage[r] = "done" /\ r \notin processedRecords =>
        /\ result[r].failed /\ result[r].retryable
        /\ r \notin aged
        /\ "result" \in captured[r]

\* Reprocessing an event recreates its expanded events and touches nothing
\* else: no second charge in advance, no refresh, no expired cache.
ReprocessOnlyExpands ==
    \A r \in Records : Events[r].reprocess =>
        /\ \A msg \in topics[r] : msg.topic = "expanded"
        /\ r \notin flagged /\ expired[r] = {}

\* Every call returns, unless a record makes it panic.
CallReturns ==
    batch # {} ~> (returned \/ \E r \in Records : stage[r] = "panic")

-----------------------------------------------------------------------------
(* The inductive invariant behind the safety properties                    *)

\* Producers run for messages of the event, between their start and the Wait;
\* what they no longer hold was delivered or left a trace.
OutputsTracked(r) ==
    /\ producing[r] \cup failing[r] \subseteq messages(Events[r])
    /\ producing[r] \cup failing[r] # {} =>
          stage[r] \in {"flag", "expire", "wait"}
    /\ \/ stage[r] \in {"flag", "expire", "wait"}
       \/ stage[r] = "finish" /\ ~result[r].failed
       => \A msg \in messages(Events[r]) :
             msg \in producing[r] \cup failing[r] \/ delivered(r, msg)

\* The refresh goes flag first, then caches; what does not fail has done both.
RefreshTracked(r) ==
    /\ stage[r] \in {"dispatch", "flag", "expire"} => ~result[r].failed
    /\ stage[r] \in {"flag", "expire"} => refreshes(Events[r])
    /\ stage[r] = "expire" => r \in flagged
    /\ stage[r] \in {"wait", "finish"} /\ ~result[r].failed => refreshed(r)

\* Nothing outside shows more than the event asks for.
EffectsAsked(r) ==
    /\ topics[r] \subseteq messages(Events[r])
    /\ r \in flagged \/ expired[r] # {} => refreshes(Events[r])

\* A goroutine that has ended has reported its record as processed, with all
\* effects accounted for, or has left it for a retry.
VerdictSound(r) ==
    /\ result[r].retryable => result[r].failed /\ result[r].capturable
    /\ r \in processedRecords =>
          stage[r] = "done" /\ (complete(r) \/ givenUp(r))
    /\ stage[r] = "done" =>
          \/ r \in processedRecords
          \/ /\ result[r].retryable /\ r \notin aged
             /\ "result" \in captured[r]
    /\ r \in batch <=> stage[r] # "idle"

RecordInv(r) ==
    OutputsTracked(r) /\ RefreshTracked(r) /\ EffectsAsked(r) /\ VerdictSound(r)

\* Every step of every goroutine preserves it, whatever the others do.
IInv == TypeOK /\ \A r \in Records : RecordInv(r)
=============================================================================
