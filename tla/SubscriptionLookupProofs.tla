---------------------- MODULE SubscriptionLookupProofs ----------------------
(***************************************************************************)
(* The loop of SearchSubscriptions answers what the query of               *)
(* FetchSubscription would, for any rows, any external ids, any time and   *)
(* any clock resolution, but for the two cases SameAsQuery excepts.        *)
(***************************************************************************)
EXTENDS SubscriptionLookup, TLAPS

-----------------------------------------------------------------------------
(* Times                                                                   *)

\* Truncating goes back by less than a millisecond, to a whole one.
LEMMA Truncated ==
    ASSUME NEW t \in Nat
    PROVE  /\ t \div Tick \in Nat
           /\ truncate(t) = Tick * (t \div Tick)
           /\ truncate(t) \in Nat
           /\ truncate(t) <= t
           /\ t < truncate(t) + Tick
<1>1. Tick \in Nat /\ Tick > 0
    BY LookupAssumption
<1>2. /\ t \div Tick \in Int
      /\ t % Tick \in 0 .. Tick - 1
      /\ t = Tick * (t \div Tick) + (t % Tick)
    BY <1>1
<1>3. t \div Tick \in Nat
    BY <1>1, <1>2
<1>. QED  BY <1>1, <1>2, <1>3 DEF truncate

\* Milliseconds are Tick apart.
LEMMA Apart ==
    ASSUME NEW p \in Nat, NEW q \in Nat, p < q
    PROVE  Tick * p + Tick <= Tick * q
<1>1. Tick \in Nat /\ q - p - 1 \in Nat
    BY LookupAssumption
<1>2. Tick * (q - p - 1) \in Nat
    BY <1>1
<1>3. Tick * (q - p - 1) = Tick * q - Tick * p - Tick
    BY <1>1
<1>. QED  BY <1>1, <1>2, <1>3

\* A time between a truncated time and that time is in its millisecond.
LEMMA SameMillisecond ==
    ASSUME NEW s \in Nat, NEW t \in Nat, truncate(s) <= t, t <= s
    PROVE  truncate(t) = truncate(s)
<1>. DEFINE p == t \div Tick
            q == s \div Tick
<1>1. /\ p \in Nat /\ q \in Nat /\ Tick \in Nat
      /\ truncate(t) = Tick * p /\ truncate(s) = Tick * q
      /\ Tick * p <= t /\ t < Tick * p + Tick
      /\ Tick * q <= s /\ s < Tick * q + Tick
    BY Truncated, LookupAssumption
<1>. HIDE DEF p, q
<1>2. ~(p < q)
    <2>. SUFFICES ASSUME p < q PROVE FALSE
        OBVIOUS
    <2>1. Tick * p + Tick <= Tick * q
        BY <1>1, Apart
    <2>. QED  BY <1>1, <2>1
<1>3. ~(q < p)
    <2>. SUFFICES ASSUME q < p PROVE FALSE
        OBVIOUS
    <2>1. Tick * q + Tick <= Tick * p
        BY <1>1, Apart
    <2>. QED  BY <1>1, <2>1
<1>4. p = q
    BY <1>1, <1>2, <1>3
<1>. QED  BY <1>1, <1>4

-----------------------------------------------------------------------------
(* The order of the loop is the order of the query                         *)

\* The nested conditions of the loop say what ORDER BY says.
LEMMA ReplacesIsBefore ==
    ASSUME NEW s \in Subscription, NEW t \in Subscription
    PROVE  replaces(s, t) <=> before(s, t)
BY LookupAssumption DEF Subscription, Times, NoTime, replaces, before

\* No row comes before itself, and the order carries over.
LEMMA BeforeIsStrict ==
    ASSUME NEW s \in Subscription, NEW t \in Subscription,
           NEW u \in Subscription
    PROVE  /\ ~before(s, s)
           /\ before(s, t) /\ before(t, u) => before(s, u)
BY LookupAssumption DEF Subscription, Times, NoTime, before

-----------------------------------------------------------------------------
(* The loop                                                                *)

\* The rows are subscriptions and the time of the event is one.
LEMMA Init_IInv == Init => IInv
<1>. SUFFICES ASSUME Init PROVE IInv
    OBVIOUS
<1>1. PICK ids \in SUBSET Ids : \E row \in [ids -> Columns] :
         rows = {withId(i, row[i]) : i \in ids}
    BY DEF Init
<1>2. PICK row \in [ids -> Columns] : rows = {withId(i, row[i]) : i \in ids}
    BY <1>1
<1>3. \A i \in ids : withId(i, row[i]) \in Subscription
    BY DEF withId, Columns, Subscription
<1>4. rows \subseteq Subscription
    BY <1>2, <1>3
<1>5. timestamp \in Nat
    <2>1. PICK t \in Times, isText \in BOOLEAN : timestamp = ToTime(t, isText)
        BY DEF Init
    <2>2. t \in Nat
        BY LookupAssumption DEF Times
    <2>. QED  BY <2>1, <2>2, Truncated DEF ToTime
<1>. QED  BY <1>4, <1>5 DEF Init, IInv, TypeOK

\* Nothing has been looked at when the loop starts.
LEMMA Search_IInv ==
    ASSUME IInv, search
    PROVE  IInv'
<1>1. candidates' = candidates /\ validSubs' = candidates /\ bestMatch' = {}
    BY DEF IInv, search, candidates, matchesPrefix, isValid
<1>2. BestSoFar'
    BY <1>1 DEF BestSoFar
<1>. QED  BY <1>2 DEF IInv, TypeOK, search

\* The candidate at hand replaces the best one exactly when it comes before it;
\* then nothing seen so far comes before the new one, since that would come
\* before the old one too.
LEMMA Choose_IInv ==
    ASSUME IInv, NEW s \in validSubs, choose(s)
    PROVE  IInv'
<1>1. /\ phase = "choosing" /\ UNCHANGED <<rows, externalId, timestamp, phase>>
      /\ bestMatch' = IF \A best \in bestMatch : replaces(s, best)
                      THEN {s} ELSE bestMatch
      /\ validSubs' = validSubs \ {s}
    BY DEF choose
<1>. DEFINE seen == candidates \ validSubs
<1>2. /\ validSubs \subseteq candidates
      /\ bestMatch \subseteq seen
      /\ \A best, other \in bestMatch : best = other
      /\ \A best \in bestMatch : \A t \in seen : ~before(t, best)
      /\ seen # {} => bestMatch # {}
    BY <1>1 DEF IInv, BestSoFar
<1>3. candidates \subseteq Subscription /\ s \in candidates
    BY <1>2 DEF IInv, TypeOK, candidates
<1>4. candidates' = candidates
    BY <1>1 DEF candidates, matchesPrefix, isValid
<1>5. candidates \ validSubs' = seen \cup {s}
    BY <1>1, <1>3
<1>. HIDE DEF seen
<1>6. seen \subseteq Subscription
    BY <1>3 DEF seen
<1>7. CASE \A best \in bestMatch : replaces(s, best)
    <2>1. bestMatch' = {s}
        BY <1>1, <1>7
    <2>2. ASSUME NEW t \in seen, before(t, s) PROVE FALSE
        <3>1. PICK best \in bestMatch : TRUE
            BY <1>2
        <3>2. best \in seen /\ best \in Subscription /\ t \in Subscription
            BY <1>2, <1>6
        <3>3. before(s, best)
            BY <1>3, <1>7, <3>2, ReplacesIsBefore
        <3>4. before(t, best)
            BY <1>3, <2>2, <3>2, <3>3, BeforeIsStrict
        <3>. QED  BY <1>2, <3>4
    <2>3. ~before(s, s)
        BY <1>3, BeforeIsStrict
    <2>4. BestSoFar'
        BY <1>1, <1>2, <1>4, <1>5, <2>1, <2>2, <2>3 DEF BestSoFar, before
    <2>. QED  BY <1>1, <2>4 DEF IInv, TypeOK
<1>8. CASE ~ \A best \in bestMatch : replaces(s, best)
    <2>1. bestMatch' = bestMatch
        BY <1>1, <1>8
    <2>2. PICK old \in bestMatch : ~replaces(s, old)
        BY <1>8
    <2>3. ~before(s, old)
        BY <1>2, <1>3, <1>6, <2>2, ReplacesIsBefore
    <2>4. \A best \in bestMatch : best = old
        BY <1>2
    <2>5. BestSoFar'
        BY <1>1, <1>2, <1>4, <1>5, <2>1, <2>3, <2>4 DEF BestSoFar, before
    <2>. QED  BY <1>1, <2>5 DEF IInv, TypeOK
<1>. QED  BY <1>7, <1>8

\* Everything has been looked at when it ends.
LEMMA Return_IInv ==
    ASSUME IInv, return
    PROVE  IInv'
<1>1. candidates' = candidates
    BY DEF return, candidates, matchesPrefix, isValid
<1>. QED  BY <1>1 DEF IInv, TypeOK, BestSoFar, before, return

\* At every iteration the loop holds a best candidate of those it has seen.
THEOREM LookupInvariant == Spec => []IInv
<1>1. ASSUME IInv, [Next]_vars PROVE IInv'
    <2>1. CASE UNCHANGED vars
        <3>1. candidates' = candidates
            BY <2>1 DEF vars, candidates, matchesPrefix, isValid
        <3>. QED  BY <1>1, <2>1, <3>1 DEF IInv, TypeOK, BestSoFar, before, vars
    <2>. QED  BY <1>1, <2>1, Search_IInv, Choose_IInv, Return_IInv DEF Next
<1>. QED  BY <1>1, Init_IInv, PTL DEF Spec

-----------------------------------------------------------------------------
(* The filter of the loop is the condition of the query                    *)

\* Comparing the columns as they are or truncated makes no difference outside
\* the milliseconds in which a subscription starts or ends.
LEMMA SameRows ==
    ASSUME TypeOK, ~ambiguous, ~inBoundaryMillisecond
    PROVE  candidates = selected
<1>. SUFFICES ASSUME NEW s \in rows
              PROVE  s \in candidates <=> s \in selected
    BY DEF candidates, selected
<1>1. /\ s.startedAt \in Nat \cup {NoTime}
      /\ s.terminatedAt \in Nat \cup {NoTime} /\ timestamp \in Nat
    BY LookupAssumption DEF TypeOK, Subscription, Times
<1>2. matchesPrefix(s) <=> s.externalId = externalId
    BY DEF ambiguous, matchesPrefix
<1>3. \A t \in {s.startedAt, s.terminatedAt} \ {NoTime} :
         t = truncate(t) \/ truncate(t) # truncate(timestamp)
    BY DEF inBoundaryMillisecond
<1>4. ASSUME s.startedAt # NoTime
      PROVE  truncate(s.startedAt) <= timestamp <=> s.startedAt <= timestamp
    <2>. DEFINE t == s.startedAt
    <2>1. t \in Nat /\ (t = truncate(t) \/ truncate(t) # truncate(timestamp))
        BY <1>1, <1>3, <1>4
    <2>. HIDE DEF t
    <2>2. truncate(t) \in Nat /\ truncate(t) <= t
        BY <2>1, Truncated
    <2>3. ASSUME truncate(t) <= timestamp, ~(t <= timestamp) PROVE FALSE
        <3>1. timestamp <= t /\ t # truncate(t)
            BY <1>1, <2>1, <2>3
        <3>2. truncate(timestamp) = truncate(t)
            BY <1>1, <2>1, <2>3, <3>1, SameMillisecond
        <3>. QED  BY <2>1, <3>1, <3>2
    <2>4. truncate(t) <= timestamp <=> t <= timestamp
        BY <1>1, <2>1, <2>2, <2>3
    <2>. QED  BY <2>4 DEF t
<1>5. ASSUME s.terminatedAt # NoTime
      PROVE  truncate(s.terminatedAt) >= timestamp
                <=> s.terminatedAt >= timestamp
    <2>. DEFINE t == s.terminatedAt
    <2>1. t \in Nat /\ (t = truncate(t) \/ truncate(t) # truncate(timestamp))
        BY <1>1, <1>3, <1>5
    <2>. HIDE DEF t
    <2>2. truncate(t) \in Nat /\ truncate(t) <= t
        BY <2>1, Truncated
    <2>3. ASSUME t >= timestamp, ~(truncate(t) >= timestamp) PROVE FALSE
        <3>1. truncate(t) <= timestamp /\ timestamp <= t /\ t # truncate(t)
            BY <1>1, <2>1, <2>2, <2>3
        <3>2. truncate(timestamp) = truncate(t)
            BY <1>1, <2>1, <3>1, SameMillisecond
        <3>. QED  BY <2>1, <3>1, <3>2
    <2>4. truncate(t) >= timestamp <=> t >= timestamp
        BY <1>1, <2>1, <2>2, <2>3
    <2>. QED  BY <2>4 DEF t
<1>. QED  BY <1>2, <1>4, <1>5 DEF candidates, selected, isValid

\* SearchSubscriptions returns a subscription exactly when FetchSubscription
\* finds one, and one FetchSubscription may return: its three comparisons are
\* the ORDER BY of the query and its filter is the WHERE, but for colons in
\* external ids and for the first and last millisecond of a subscription.
THEOREM CacheAnswersAsDatabase == Spec => []SameAsQuery
<1>1. ASSUME IInv, phase = "returned", ~ambiguous, ~inBoundaryMillisecond
      PROVE  /\ bestMatch \subseteq FetchSubscription
             /\ FetchSubscription # {} => bestMatch # {}
    <2>1. candidates = selected
        BY <1>1, SameRows DEF IInv
    <2>2. /\ bestMatch \subseteq selected
          /\ \A best \in bestMatch : \A s \in selected : ~before(s, best)
          /\ selected # {} => bestMatch # {}
        BY <1>1, <2>1 DEF IInv, BestSoFar
    <2>. QED  BY <2>2 DEF FetchSubscription
<1>2. IInv => SameAsQuery
    BY <1>1 DEF SameAsQuery
<1>. QED  BY LookupInvariant, <1>2, PTL
=============================================================================
