------------------------- MODULE SubscriptionLookup -------------------------
(***************************************************************************)
(* SearchSubscriptions of the in-memory cache                              *)
(* (events-processor/cache/subscriptions.go), the loop that finds the      *)
(* subscription of an event, against FetchSubscription, the query it       *)
(* replaces (events-processor/models/subscriptions.go).  Both look at the  *)
(* same rows: what the cache holds is the subject of CdcCache.             *)
(*                                                                         *)
(* Times are ticks, Tick of them a millisecond.  The rows keep all of      *)
(* them; ToTime truncates the timestamp of an event to the millisecond     *)
(* when it is a number and keeps it when it is an RFC 3339 string.         *)
(***************************************************************************)
EXTENDS Integers, FiniteSets

CONSTANTS
    Ids,           \* ids of subscriptions, in the order of their cache keys
    ExternalIds,   \* external ids of subscriptions
    ColonPrefixes, \* pairs <<e, f>> of external ids, f starting with "e:"
    MaxTime,       \* bound: ticks
    Tick           \* ticks per millisecond

ASSUME LookupAssumption ==
    /\ Ids \subseteq Nat
    /\ ColonPrefixes \subseteq ExternalIds \X ExternalIds
    /\ MaxTime \in Nat /\ Tick \in Nat \ {0}

Times == 0 .. MaxTime
NoTime == -1                  \* NULL

\* A subscription is pending (not started), active or terminated.
Columns ==
    {c \in [externalId : ExternalIds, startedAt : Times \cup {NoTime},
            terminatedAt : Times \cup {NoTime}] :
        c.terminatedAt # NoTime =>
            c.startedAt # NoTime /\ c.startedAt <= c.terminatedAt}

Subscription ==
    [id : Ids, externalId : ExternalIds, startedAt : Times \cup {NoTime},
     terminatedAt : Times \cup {NoTime}]

withId(i, c) ==
    [id |-> i, externalId |-> c.externalId, startedAt |-> c.startedAt,
     terminatedAt |-> c.terminatedAt]

VARIABLES
    rows,        \* the subscriptions of one organization
    externalId, timestamp,   \* what is asked for
    phase,       \* "called", "choosing" or "returned"
    validSubs,   \* valid subscriptions the loop has not looked at
    bestMatch    \* the best so far: a set of at most one

vars == <<rows, externalId, timestamp, phase, validSubs, bestMatch>>

\* time.Truncate(time.Millisecond) and date_trunc('millisecond', ...)
truncate(t) == (t \div Tick) * Tick

\* The timestamp of an event, sent as a number or as an RFC 3339 text.
ToTime(t, isText) == IF isText THEN t ELSE truncate(t)

Init ==
    /\ \E ids \in SUBSET Ids : \E row \in [ids -> Columns] :
          rows = {withId(i, row[i]) : i \in ids}
    /\ externalId \in ExternalIds
    /\ \E t \in Times, isText \in BOOLEAN : timestamp = ToTime(t, isText)
    /\ phase = "called"
    /\ validSubs = {}
    /\ bestMatch = {}

-----------------------------------------------------------------------------
(* The cache: a prefix search, a filter and a loop                         *)

\* The keys "sub:<organization>:<external id>:<id>" with the prefix
\* "sub:<organization>:<external id>:".
matchesPrefix(s) ==
    s.externalId = externalId \/ <<externalId, s.externalId>> \in ColonPrefixes

\* Started and not over at the time of the event.
isValid(s) ==
    /\ s.startedAt # NoTime
    /\ s.startedAt <= timestamp
    /\ s.terminatedAt = NoTime \/ s.terminatedAt >= timestamp

search ==
    /\ phase = "called"
    /\ validSubs' = {s \in rows : matchesPrefix(s) /\ isValid(s)}
    /\ phase' = "choosing"
    /\ UNCHANGED <<rows, externalId, timestamp, bestMatch>>

\* Plausible slip: the comparison of terminated_at falls through.
replaces_fallsThrough(s, best) ==
    IF (s.terminatedAt = NoTime) # (best.terminatedAt = NoTime)
    THEN s.terminatedAt = NoTime
    ELSE s.terminatedAt > best.terminatedAt \/ s.startedAt > best.startedAt

\* Whether the loop replaces the best match by the subscription at hand.
replaces(s, best) ==
    IF (s.terminatedAt = NoTime) # (best.terminatedAt = NoTime)
    THEN s.terminatedAt = NoTime
    ELSE \/ s.terminatedAt > best.terminatedAt
         \/ s.terminatedAt = best.terminatedAt /\ s.startedAt > best.startedAt

\* One iteration, in key order.
choose(s) ==
    /\ phase = "choosing"
    /\ \A t \in validSubs : s.id <= t.id
    /\ bestMatch' = IF \A best \in bestMatch : replaces(s, best)
                    THEN {s} ELSE bestMatch
    /\ validSubs' = validSubs \ {s}
    /\ UNCHANGED <<rows, externalId, timestamp, phase>>

return ==
    /\ phase = "choosing"
    /\ validSubs = {}
    /\ phase' = "returned"
    /\ UNCHANGED <<rows, externalId, timestamp, validSubs, bestMatch>>

Next == search \/ (\E s \in validSubs : choose(s)) \/ return

Spec == Init /\ [][Next]_vars

-----------------------------------------------------------------------------
(* The query: a condition and an order                                     *)

selected ==
    {s \in rows :
        /\ s.externalId = externalId
        /\ s.startedAt # NoTime
        /\ truncate(s.startedAt) <= timestamp
        /\ s.terminatedAt = NoTime \/ truncate(s.terminatedAt) >= timestamp}

\* terminated_at DESC NULLS FIRST, started_at DESC
before(s, t) ==
    \/ s.terminatedAt = NoTime /\ t.terminatedAt # NoTime
    \/ t.terminatedAt # NoTime /\ s.terminatedAt > t.terminatedAt
    \/ s.terminatedAt = t.terminatedAt /\ s.startedAt > t.startedAt

\* The rows LIMIT 1 may return: none comes before them.
FetchSubscription == {s \in selected : \A t \in selected : ~before(t, s)}

-----------------------------------------------------------------------------
(* Properties                                                              *)

\* The search prefix of the external id also covers a row of another one.
ambiguous ==
    \E s \in rows : <<externalId, s.externalId>> \in ColonPrefixes

\* The event falls in the millisecond in which a row starts or ends, at a
\* fraction of it: only the query truncates the columns of the row.
inBoundaryMillisecond ==
    \E s \in rows : \E t \in {s.startedAt, s.terminatedAt} \ {NoTime} :
        t # truncate(t) /\ truncate(t) = truncate(timestamp)

\* The cache answers what the database would (LAGO_USE_MEMORY_CACHE: "Use the
\* new in memory cache instead of DB calls"): a subscription exactly when the
\* query finds one, and one the query may return.  Two cases are excepted, in
\* which SearchSubscriptions does answer otherwise: external ids that continue
\* the asked one with a colon, and an event in the very millisecond in which a
\* subscription starts or ends.
SameAsQuery ==
    phase = "returned" /\ ~ambiguous /\ ~inBoundaryMillisecond =>
        /\ bestMatch \subseteq FetchSubscription
        /\ FetchSubscription # {} => bestMatch # {}

-----------------------------------------------------------------------------
(* The inductive invariant behind SameAsQuery                              *)

\* Types of the rows and of what is asked for.
TypeOK ==
    /\ rows \subseteq Subscription
    /\ externalId \in ExternalIds
    /\ timestamp \in Nat
    /\ phase \in {"called", "choosing", "returned"}

candidates == {s \in rows : matchesPrefix(s) /\ isValid(s)}

\* The loop keeps one of the candidates it has looked at, and none of those
\* comes before it in the order of the query.
BestSoFar ==
    LET seen == candidates \ validSubs
    IN  /\ validSubs \subseteq candidates
        /\ bestMatch \subseteq seen
        /\ \A best, other \in bestMatch : best = other
        /\ \A best \in bestMatch : \A s \in seen : ~before(s, best)
        /\ seen # {} => bestMatch # {}

\* Together they are preserved by every iteration of the loop.
IInv ==
    /\ TypeOK
    /\ phase = "called" => bestMatch = {}
    /\ phase # "called" => BestSoFar
    /\ phase = "returned" => validSubs = {}
=============================================================================
