--------------------------- MODULE FlagStoreProofs ---------------------------
(***************************************************************************)
(* IInv is an inductive invariant of FlagStore, for any subscriptions, any *)
(* number of callers and any durations FlagAssumption admits.  It gives    *)
(* that no flag is lost, that none starves and that the set stays small.   *)
(***************************************************************************)
EXTENDS FlagStore, FiniteSetTheorems, TLAPS

\* What \div gives: a time lies in its bucket (stores.go, the integer division
\* of Flag).
LEMMA InBucket ==
    ASSUME NEW t \in Nat
    PROVE  /\ bucketOf(t) \in Nat
           /\ bucketOf(t) <= t
           /\ t <= bucketOf(t) + BucketDuration - 1
<1>1. BucketDuration \in Nat /\ BucketDuration > 0
    BY FlagAssumption
<1>2. /\ t \div BucketDuration \in Int
      /\ t % BucketDuration \in 0 .. BucketDuration - 1
      /\ t = BucketDuration * (t \div BucketDuration) + (t % BucketDuration)
    BY <1>1
<1>. QED  BY <1>1, <1>2 DEF bucketOf

\* Nothing is flagged at the start.
LEMMA InitInv == Init => IInv
BY DEF Init, IInv, TypeOK, CallsRecent, MembersPlaced, MembersDistinct,
    OwedCovered

\* Flag reads the clock.
LEMMA FlagInv ==
    ASSUME IInv, NEW c \in Callers, NEW v \in Values, Flag(c, v)
    PROVE  IInv'
<1>1. TypeOK'
    BY DEF IInv, TypeOK, Flag, Event
<1>2. CallsRecent'
    <2>. SUFFICES ASSUME NEW d \in Callers, NEW e \in calls'[d]
                  PROVE  e.time <= now /\ now <= e.time + MaxLatency
        BY DEF CallsRecent, Flag
    <2>1. CASE d = c
        <3>1. e = [value |-> v, time |-> now]
            BY <2>1 DEF IInv, TypeOK, Flag
        <3>. QED  BY <3>1, FlagAssumption DEF IInv, TypeOK
    <2>2. CASE d # c
        BY <2>2 DEF IInv, TypeOK, CallsRecent, Flag
    <2>. QED  BY <2>1, <2>2
<1>3. MembersPlaced' /\ MembersDistinct' /\ OwedCovered'
    BY DEF IInv, MembersPlaced, MembersDistinct, OwedCovered, Flag, bucketOf
<1>. QED  BY <1>1, <1>2, <1>3 DEF IInv

\* ZADD: the member it writes covers its own event and, because its clock was
\* read at most MaxLatency ago, every event the overwritten member covered.
LEMMA AppliedInv ==
    ASSUME IInv, NEW c \in Callers, applied(c)
    PROVE  IInv'
<1>1. PICK e \in calls[c] : ZAdd(e) /\ owed' = owed \cup {e}
    BY DEF applied
<1>2. /\ e \in Event /\ e.value \in Values /\ e.time \in Nat /\ now \in Nat
      /\ e.time <= now /\ now <= e.time + MaxLatency
    BY DEF IInv, TypeOK, CallsRecent, Event
<1>. DEFINE new == [value |-> e.value, bucket |-> bucketOf(e.time),
                    score |-> e.time]
<1>3. new \in Member
    BY <1>2, InBucket DEF Member
<1>4. /\ new \in members'
      /\ members' \subseteq members \cup {new}
      /\ \A m \in members : \/ m \in members'
                            \/ m.value = e.value /\ m.bucket = bucketOf(e.time)
    BY <1>1 DEF ZAdd
<1>5. now' = now /\ calls' = [calls EXCEPT ![c] = {}]
    BY DEF applied
<1>6. /\ MaxLatency \in Nat /\ Settle \in Nat /\ Period \in Nat
      /\ Delay \in Nat /\ Delay >= Settle + MaxLatency
    BY FlagAssumption
<1>7. TypeOK'
    BY <1>1, <1>2, <1>3, <1>4, <1>5 DEF IInv, TypeOK
<1>8. CallsRecent'
    BY <1>5 DEF IInv, TypeOK, CallsRecent
<1>9. MembersPlaced'
    <2>. SUFFICES ASSUME NEW m \in members'
                  PROVE  /\ m.bucket = bucketOf(m.score)
                         /\ now <= m.score + Delay + Period
        BY <1>5 DEF MembersPlaced, bucketOf
    <2>1. CASE m \in members
        BY <2>1 DEF IInv, MembersPlaced
    <2>2. CASE m = new
        BY <2>2, <1>2, <1>6
    <2>. QED  BY <2>1, <2>2, <1>4
<1>10. OwedCovered'
    <2>. SUFFICES ASSUME NEW f \in owed'
                  PROVE  /\ f.time <= now
                         /\ \E m \in members' :
                               /\ m.value = f.value
                               /\ m.bucket = bucketOf(f.time)
                               /\ m.score + Delay >= f.time + Settle
        BY <1>5 DEF OwedCovered, bucketOf
    <2>1. CASE f = e
        <3>1. new.score + Delay >= f.time + Settle
            BY <2>1, <1>2, <1>6
        <3>. QED  BY <2>1, <3>1, <1>2, <1>4
    <2>2. CASE f \in owed
        <3>1. f.time \in Nat /\ f.time <= now
            BY <2>2 DEF IInv, TypeOK, Event, OwedCovered
        <3>2. PICK m \in members : /\ m.value = f.value
                                   /\ m.bucket = bucketOf(f.time)
                                   /\ m.score + Delay >= f.time + Settle
            BY <2>2 DEF IInv, OwedCovered
        <3>3. CASE m \in members'
            BY <3>1, <3>2, <3>3
        <3>4. CASE m.value = e.value /\ m.bucket = bucketOf(e.time)
            <4>1. new.score + Delay >= f.time + Settle
                BY <3>1, <1>2, <1>6
            <4>. QED  BY <3>1, <3>2, <3>4, <4>1, <1>4
        <3>. QED  BY <3>3, <3>4, <1>4
    <2>. QED  BY <2>1, <2>2, <1>1
<1>11. MembersDistinct'
    <2>1. \A m \in members' : m = new \/ (m \in members /\
             ~(m.value = e.value /\ m.bucket = bucketOf(e.time)))
        BY <1>1 DEF ZAdd
    <2>2. /\ new.value = e.value /\ new.bucket = bucketOf(e.time)
          /\ new.score = e.time
        OBVIOUS
    <2>. HIDE DEF new
    <2>. QED  BY <1>2, <1>5, <2>1, <2>2 DEF IInv, MembersDistinct
<1>. QED  BY <1>7, <1>8, <1>9, <1>10, <1>11 DEF IInv

\* A command that does not reach Redis changes nothing there.
LEMMA FailedInv ==
    ASSUME IInv, NEW c \in Callers, failed(c)
    PROVE  IInv'
<1>1. TypeOK' /\ CallsRecent'
    BY DEF IInv, TypeOK, CallsRecent, failed
<1>2. MembersPlaced' /\ MembersDistinct' /\ OwedCovered'
    BY DEF IInv, MembersPlaced, MembersDistinct, OwedCovered, failed, bucketOf
<1>. QED  BY <1>1, <1>2 DEF IInv

\* The member the reader takes covers no event it leaves waiting: those settle
\* later than this member came due.
LEMMA RefreshInv ==
    ASSUME IInv, NEW m \in members, refresh(m)
    PROVE  IInv'
<1>1. TypeOK' /\ CallsRecent' /\ MembersPlaced' /\ MembersDistinct'
    BY DEF IInv, TypeOK, CallsRecent, MembersPlaced, MembersDistinct, refresh,
        bucketOf
<1>2. OwedCovered'
    <2>. SUFFICES ASSUME NEW e \in owed'
                  PROVE  /\ e.time <= now
                         /\ \E n \in members' :
                               /\ n.value = e.value
                               /\ n.bucket = bucketOf(e.time)
                               /\ n.score + Delay >= e.time + Settle
        BY DEF OwedCovered, refresh, bucketOf
    <2>1. /\ e \in owed /\ e.time <= now
          /\ ~(e.value = m.value /\ e.time + Settle <= now)
        BY DEF IInv, OwedCovered, refresh
    <2>2. PICK n \in members : /\ n.value = e.value
                               /\ n.bucket = bucketOf(e.time)
                               /\ n.score + Delay >= e.time + Settle
        BY <2>1 DEF IInv, OwedCovered
    <2>3. /\ e.time \in Nat /\ now \in Nat /\ m.score \in Nat
          /\ Settle \in Nat /\ Delay \in Nat
        BY <2>1, FlagAssumption DEF IInv, TypeOK, Event, Member
    <2>4. n # m
        BY <2>1, <2>2, <2>3 DEF refresh
    <2>. QED  BY <2>1, <2>2, <2>4 DEF refresh
<1>. QED  BY <1>1, <1>2 DEF IInv

\* Time passes, but not past a command or a reader that is due.
LEMMA TickInv ==
    ASSUME IInv, Tick
    PROVE  IInv'
<1>1. now \in Nat /\ now' = now + 1
    BY DEF IInv, TypeOK, Tick
<1>2. TypeOK'
    BY <1>1 DEF IInv, TypeOK, Tick
<1>3. CallsRecent'
    <2>. SUFFICES ASSUME NEW c \in Callers, NEW e \in calls[c]
                  PROVE  e.time <= now' /\ now' <= e.time + MaxLatency
        BY DEF CallsRecent, Tick
    <2>1. e.time \in Nat
        BY DEF IInv, TypeOK, Event
    <2>. QED  BY <1>1, <2>1, FlagAssumption DEF IInv, CallsRecent, Tick
<1>4. MembersPlaced'
    <2>. SUFFICES ASSUME NEW m \in members
                  PROVE  /\ m.bucket = bucketOf(m.score)
                         /\ now' <= m.score + Delay + Period
        BY DEF MembersPlaced, Tick, bucketOf
    <2>1. m.score \in Nat
        BY DEF IInv, TypeOK, Member
    <2>. QED  BY <1>1, <2>1, FlagAssumption DEF IInv, MembersPlaced, Tick
<1>5. OwedCovered'
    <2>1. \A e \in owed : e.time \in Nat
        BY DEF IInv, TypeOK, Event
    <2>. QED  BY <1>1, <2>1 DEF IInv, OwedCovered, Tick, bucketOf
<1>6. MembersDistinct'
    <2>1. \A m \in members : m.score \in Nat
        BY DEF IInv, TypeOK, Member
    <2>. QED  BY <1>1, <2>1 DEF IInv, MembersDistinct, Tick
<1>. QED  BY <1>2, <1>3, <1>4, <1>5, <1>6 DEF IInv

\* IInv is an invariant of the flag store (models/stores.go, Flag).
THEOREM FlagsInvariant == Spec => []IInv
<1>1. Init => IInv
    BY InitInv
<1>2. IInv /\ [Next]_vars => IInv'
    <2>. SUFFICES ASSUME IInv, [Next]_vars PROVE IInv'
        OBVIOUS
    <2>1. CASE \E c \in Callers : \E v \in Values : Flag(c, v)
        BY <2>1, FlagInv
    <2>2. CASE \E c \in Callers : applied(c)
        BY <2>2, AppliedInv
    <2>3. CASE \E c \in Callers : failed(c)
        BY <2>3, FailedInv
    <2>4. CASE \E m \in members : refresh(m)
        BY <2>4, RefreshInv
    <2>5. CASE Tick
        BY <2>5, TickInv
    <2>6. CASE UNCHANGED vars
        BY <2>6 DEF vars, IInv, TypeOK, CallsRecent, MembersPlaced,
           MembersDistinct, OwedCovered, bucketOf
    <2>. QED  BY <2>1, <2>2, <2>3, <2>4, <2>5, <2>6 DEF Next
<1>. QED  BY <1>1, <1>2, PTL DEF Spec

\* As long as a flagged event waits for its refresh, a member of its
\* subscription comes due after the event has settled, in whatever order Redis
\* applies the commands of concurrent calls of Flag.
THEOREM FlagsAreKept == Spec => []NoFlagLost
<1>1. IInv => NoFlagLost
    BY DEF IInv, OwedCovered, NoFlagLost
<1>. QED  BY <1>1, FlagsInvariant, PTL

\* No subscription starves, however often Flag is called for it: the score of
\* a member cannot leave the member's bucket.
THEOREM NoStarvation == Spec => []RefreshedInTime
<1>1. IInv => RefreshedInTime
    <2>. SUFFICES ASSUME IInv, NEW e \in owed
                  PROVE  now <= e.time + BucketDuration - 1 + Delay + Period
        BY DEF RefreshedInTime
    <2>1. PICK m \in members : m.bucket = bucketOf(e.time)
        BY DEF IInv, OwedCovered
    <2>2. /\ e.time \in Nat /\ m.score \in Nat /\ now \in Nat
          /\ BucketDuration \in Nat /\ Delay \in Nat /\ Period \in Nat
        BY FlagAssumption DEF IInv, TypeOK, Event, Member
    <2>3. /\ bucketOf(m.score) = bucketOf(e.time)
          /\ now <= m.score + Delay + Period
        BY <2>1 DEF IInv, MembersPlaced
    <2>4. /\ bucketOf(e.time) \in Nat
          /\ bucketOf(e.time) <= e.time
          /\ m.score <= bucketOf(m.score) + BucketDuration - 1
        BY <2>2, InBucket
    <2>. QED  BY <2>2, <2>3, <2>4
<1>. QED  BY <1>1, FlagsInvariant, PTL

\* A product with the length of a bucket can be divided by it.
LEMMA Cancel ==
    ASSUME NEW x \in Int, NEW y \in Int,
           BucketDuration * x < BucketDuration * y
    PROVE  x < y
<1>1. BucketDuration \in Nat
    BY FlagAssumption
<1>2. ASSUME y <= x PROVE FALSE
    <2>1. x - y \in Nat
        BY <1>2
    <2>2. BucketDuration * (x - y) \in Nat
        BY <1>1, <2>1
    <2>3. BucketDuration * (x - y) = BucketDuration * x - BucketDuration * y
        BY <1>1
    <2>4. BucketDuration * x \in Int /\ BucketDuration * y \in Int
        BY <1>1
    <2>. QED  BY <2>2, <2>3, <2>4
<1>. QED  BY <1>2

\* A member that is at most w seconds old is in one of the last w \div
\* BucketDuration + 2 buckets.
LEMMA RecentBuckets ==
    ASSUME NEW t \in Nat, NEW s \in Nat, NEW w \in Nat, s <= t, t <= s + w
    PROVE  /\ s \div BucketDuration \in Int /\ t \div BucketDuration \in Int
           /\ w \div BucketDuration \in Nat
           /\ s \div BucketDuration <= t \div BucketDuration
           /\ t \div BucketDuration <=
                 s \div BucketDuration + w \div BucketDuration + 1
<1>. DEFINE D == BucketDuration
            p == s \div D
            q == t \div D
            r == w \div D
<1>1. D \in Nat /\ D > 0
    BY FlagAssumption
<1>2. /\ p \in Int /\ q \in Int /\ r \in Int
      /\ D * p <= s /\ s <= D * p + D - 1
      /\ D * q <= t /\ t <= D * q + D - 1
      /\ D * r <= w /\ w <= D * r + D - 1
    BY <1>1
<1>3. r \in Nat
    BY <1>1
<1>. HIDE DEF D, p, q, r
<1>4. D * p \in Int /\ D * q \in Int /\ D * r \in Int
    BY <1>1, <1>2
<1>5. p <= q
    <2>1. D * (q + 1) = D * q + D
        BY <1>1, <1>2
    <2>2. D * p < D * (q + 1)
        BY <1>1, <1>2, <1>4, <2>1
    <2>3. p < q + 1
        BY <1>2, <2>2, Cancel DEF D
    <2>. QED  BY <1>2, <2>3
<1>6. q <= p + r + 1
    <2>1. D * (p + r + 2) = D * p + D * r + D + D
        BY <1>1, <1>2
    <2>2. D * q < D * (p + r + 2)
        BY <1>1, <1>2, <1>4, <2>1
    <2>3. q < p + r + 2
        BY <1>2, <2>2, Cancel DEF D
    <2>. QED  BY <1>2, <2>3
<1>. QED  BY <1>2, <1>3, <1>5, <1>6 DEF p, q, r, D

\* Flag keeps the set small: a subscription has at most one member per bucket,
\* and a member lives Delay + Period seconds.
THEOREM FewMembers == Spec => []MembersBounded
<1>1. ASSUME IInv, NEW v \in Values
      PROVE  Cardinality({m \in members : m.value = v})
                <= (Delay + Period) \div BucketDuration + 2
    <2>. DEFINE S == {m \in members : m.value = v}
                last == now \div BucketDuration
                width == (Delay + Period) \div BucketDuration
                T == last - width - 1 .. last
                f == [m \in S |-> m.score \div BucketDuration]
    <2>1. now \in Nat /\ Delay + Period \in Nat
        BY <1>1, FlagAssumption DEF IInv, TypeOK
    <2>2. last \in Int /\ width \in Nat
        <3>1. now <= now + (Delay + Period)
            BY <2>1
        <3>. QED  BY <2>1, <3>1, RecentBuckets
    <2>3. ASSUME NEW m \in S PROVE m.score \div BucketDuration \in T
        <3>1. m.score \in Nat /\ m.score <= now
            BY <1>1 DEF IInv, TypeOK, Member, MembersDistinct
        <3>2. now <= m.score + (Delay + Period)
            BY <1>1, <3>1, <2>1, FlagAssumption DEF IInv, MembersPlaced
        <3>3. /\ m.score \div BucketDuration \in Int
              /\ m.score \div BucketDuration <= last
              /\ last <= m.score \div BucketDuration + width + 1
            BY <2>1, <3>1, <3>2, RecentBuckets
        <3>. HIDE DEF last, width
        <3>. QED  BY <2>2, <3>3
    <2>4. ASSUME NEW m \in S, NEW n \in S,
                 m.score \div BucketDuration = n.score \div BucketDuration
          PROVE  m = n
        BY <1>1, <2>4 DEF IInv, MembersPlaced, MembersDistinct, bucketOf
    <2>5. f \in Injection(S, T)
        BY <2>3, <2>4 DEF Injection, IsInjective
    <2>6. IsFiniteSet(T) /\ Cardinality(T) = width + 2
        <3>. HIDE DEF last, width
        <3>1. last - width - 1 \in Int /\ ~(last - width - 1 > last)
              /\ last - (last - width - 1) + 1 = width + 2
            BY <2>2
        <3>. QED  BY <2>2, <3>1, FS_Interval
    <2>. HIDE DEF f, T
    <2>7. Cardinality(S) <= Cardinality(T)
        BY <2>5, <2>6, FS_Injection
    <2>. QED  BY <2>6, <2>7
<1>2. IInv => MembersBounded
    BY <1>1 DEF MembersBounded
<1>. QED  BY <1>2, FlagsInvariant, PTL
=============================================================================
