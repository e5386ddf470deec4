------------------------------ MODULE FlagStore ------------------------------
(***************************************************************************)
(* The flags that ask for a refresh of a subscription                      *)
(* (events-processor/models/stores.go): a sorted set in Redis.  Flag reads *)
(* the clock and adds the member "<subscription>|<bucket>" with the time   *)
(* as its score.  Many goroutines of several processes call it at once,    *)
(* and Redis may apply their commands in another order than they read the  *)
(* clock.                                                                  *)
(*                                                                         *)
(* The reader of the set is the API (external): it takes the members whose *)
(* score is Delay seconds old and refreshes their subscriptions from the   *)
(* events that have settled by then.                                       *)
(***************************************************************************)
EXTENDS Integers, FiniteSets

CONSTANTS
    Values,          \* "<organization>:<subscription>"
    Callers,         \* goroutines that call Flag
    BucketDuration,  \* SUBSCRIPTION_BUCKET_DURATION
    MaxLatency,      \* longest time from reading the clock to the ZADD
    Delay,           \* the reader takes members this old
    Period,          \* the reader looks at least this often
    Settle,          \* time until a refresh sees an event
    Horizon          \* bound: seconds

ASSUME FlagAssumption ==
    /\ BucketDuration \in Nat \ {0}
    /\ MaxLatency \in Nat /\ Period \in Nat \ {0} /\ Settle \in Nat
    /\ Delay \in Nat /\ Delay >= Settle + MaxLatency
    /\ Horizon \in Nat

VARIABLES
    now,       \* the clock, in seconds
    calls,     \* calls[c]: the ZADD of c that is under way, if any
    members,   \* the sorted set
    owed       \* flagged events that no refresh has taken into account

vars == <<now, calls, members, owed>>

Event == [value : Values, time : Nat]
Member == [value : Values, bucket : Nat, score : Nat]

Init ==
    /\ now = 0
    /\ calls = [c \in Callers |-> {}]
    /\ members = {}
    /\ owed = {}

-----------------------------------------------------------------------------
(* Flag                                                                    *)

\* Plausible slip: one member per second.
bucketOf_second(t) == t

\* Plausible slip: one member per subscription.
bucketOf_single(t) == 0

\* Plausible slip: the window before the event's.
bucketOf_previous(t) == (t \div BucketDuration - 1) * BucketDuration

bucketOf(t) == (t \div BucketDuration) * BucketDuration

\* The clock is read; the command is on its way to Redis.
Flag(c, v) ==
    /\ calls[c] = {}
    /\ calls' = [calls EXCEPT ![c] = {[value |-> v, time |-> now]}]
    /\ UNCHANGED <<now, members, owed>>

\* Plausible slip: the score is the start of the bucket.
ZAdd_bucketScore(e) ==
    LET member == [value |-> e.value, bucket |-> bucketOf(e.time),
                   score |-> bucketOf(e.time)]
    IN  members' = {member} \cup
            {m \in members : ~(m.value = e.value /\ m.bucket = member.bucket)}

\* ZADD adds the member, or overwrites the score of the one that is there.
ZAdd(e) ==
    LET member == [value |-> e.value, bucket |-> bucketOf(e.time),
                   score |-> e.time]
    IN  members' = {member} \cup
            {m \in members : ~(m.value = e.value /\ m.bucket = member.bucket)}

\* Redis applies the command, whether or not its answer arrives.
applied(c) ==
    /\ \E e \in calls[c] :
          /\ ZAdd(e)
          /\ owed' = owed \cup {e}
    /\ calls' = [calls EXCEPT ![c] = {}]
    /\ UNCHANGED now

\* The command does not reach Redis: Flag returns the error.
failed(c) ==
    /\ calls[c] # {}
    /\ calls' = [calls EXCEPT ![c] = {}]
    /\ UNCHANGED <<now, members, owed>>

-----------------------------------------------------------------------------
(* The reader and the clock                                                *)

\* The reader takes a member that is due and refreshes its subscription.
refresh(m) ==
    /\ m.score + Delay <= now
    /\ members' = members \ {m}
    /\ owed' = {e \in owed : ~(e.value = m.value /\ e.time + Settle <= now)}
    /\ UNCHANGED <<now, calls>>

\* Time passes, but not past a command that must end or a reader that must
\* look.
Tick ==
    /\ now < Horizon
    /\ \A c \in Callers : \A e \in calls[c] : now < e.time + MaxLatency
    /\ \A m \in members : now < m.score + Delay + Period
    /\ now' = now + 1
    /\ UNCHANGED <<calls, members, owed>>

Next ==
    \/ \E c \in Callers :
          (\E v \in Values : Flag(c, v)) \/ applied(c) \/ failed(c)
    \/ \E m \in members : refresh(m)
    \/ Tick

Spec == Init /\ [][Next]_vars

-----------------------------------------------------------------------------
(* Properties                                                              *)

\* Types of all variables.
TypeOK ==
    /\ now \in Nat
    /\ calls \in [Callers -> SUBSET Event]
    /\ members \subseteq Member
    /\ owed \subseteq Event

\* A command under way read the clock at most MaxLatency ago.
CallsRecent ==
    \A c \in Callers : \A e \in calls[c] :
        e.time <= now /\ now <= e.time + MaxLatency

\* A member is in the bucket of its score, and the reader is not late for it.
MembersPlaced ==
    \A m \in members :
        m.bucket = bucketOf(m.score) /\ now <= m.score + Delay + Period

\* Members are told apart by subscription and bucket, and none is ahead of the
\* clock.
MembersDistinct ==
    /\ \A m \in members : m.score <= now
    /\ \A m, n \in members :
          m.value = n.value /\ m.bucket = n.bucket => m = n

\* An event that waits has a member in its own bucket, and nobody takes that
\* member before the event has settled.
OwedCovered ==
    \A e \in owed :
        /\ e.time <= now
        /\ \E m \in members :
              /\ m.value = e.value
              /\ m.bucket = bucketOf(e.time)
              /\ m.score + Delay >= e.time + Settle

\* The inductive invariant behind NoFlagLost, RefreshedInTime and
\* MembersBounded: every flag keeps a member of its own bucket whose score is
\* not lowered below the event's time by more than a command's latency.
IInv ==
    TypeOK /\ CallsRecent /\ MembersPlaced /\ MembersDistinct /\ OwedCovered

\* No flag is lost: as long as an event waits for its refresh, the set holds a
\* member of its subscription that comes due late enough to see the event,
\* although later commands overwrite its score, in any order, and the reader
\* takes members meanwhile.
NoFlagLost ==
    \A e \in owed : \E m \in members :
        m.value = e.value /\ m.score + Delay >= e.time + Settle

\* No starvation (stores.go: "ensuring the previous one ages out and gets
\* picked up by the consumer (no starvation)"): however long the events of a
\* subscription go on, each is refreshed within a bounded time.
RefreshedInTime ==
    \A e \in owed : now <= e.time + BucketDuration - 1 + Delay + Period

\* The set stays small: the members of a subscription are as many as there are
\* buckets in the time a member lives, not as many as its events.
MembersBounded ==
    \A v \in Values :
        Cardinality({m \in members : m.value = v})
            <= (Delay + Period) \div BucketDuration + 2
=============================================================================
