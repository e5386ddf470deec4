------------------------ MODULE ConsumerGroupProofs ------------------------
(***************************************************************************)
(* Proofs about ConsumerGroup, for any members, partitions, offsets,       *)
(* failures and fault bounds: the invariant IInv is inductive, and from it *)
(* follow at-least-once delivery, the safety of lost, monotonic commits    *)
(* and the implementation of DeliveryLog.                                  *)
(***************************************************************************)
EXTENDS ConsumerGroup, TLAPS

USE DEF broker, channel, work, rebalance, history

-----------------------------------------------------------------------------
(* What a worker commits                                                   *)

\* The offset after CommitRecords follows a record of the batch, and passes no
\* record of the batch that was not processed.
LEMMA CommitWithinBatch ==
    ASSUME NEW records \in SUBSET Nat, NEW done \in SUBSET records,
           NEW next \in CommitRecords(commitableRecords(done, records))
    PROVE  \E o \in records :
              /\ next = o + 1
              /\ \A u \in records \ done : next <= u
<1>1. PICK o \in highest(commitableRecords(done, records)) : next = o + 1
    BY DEF CommitRecords
<1>2. CASE done = records
    BY <1>1, <1>2 DEF commitableRecords, highest
<1>3. CASE done # records
    <2>1. o \in belowUnprocessed(done, records)
        BY <1>1, <1>3 DEF commitableRecords, findMaxCommitableRecord, highest
    <2>2. o \in records /\ \A u \in records \ done : o < u
        BY <2>1 DEF belowUnprocessed
    <2>. QED  BY <1>1, <2>2
<1>. QED  BY <1>2, <1>3

\* A fault only counts itself.
LEMMA FaultTyped ==
    ASSUME faults \in [FaultKinds -> Nat], NEW kind \in FaultKinds, fault(kind)
    PROVE  faults' \in [FaultKinds -> Nat]
BY DEF fault

-----------------------------------------------------------------------------
(* IInv is inductive: one lemma per action                                 *)

\* Before the first poll nobody holds or owns anything.
LEMMA Init_IInv == Init => IInv
<1>. SUFFICES ASSUME Init PROVE IInv
    OBVIOUS
<1>1. TypeOK
    BY DEF Init, TypeOK, MainStates, PollerStates, WorkerStates
<1>2. WorkersKnown /\ PollBlocks
    BY DEF Init, WorkersKnown, PollBlocks, busy
<1>3. OneCallback /\ OwnerKnows /\ LostFindsConsumer
    BY NoMemberAssumption
    DEF Init, OneCallback, OwnerKnows, LostFindsConsumer, alive
<1>4. NothingSkipped /\ HeldInOrder /\ CommitBehind /\ CommittedAttempted
    BY NoMemberAssumption, RecordsAssumption
    DEF Init, NothingSkipped, HeldInOrder, CommitBehind, CommittedAttempted
<1>. QED  BY <1>1, <1>2, <1>3, <1>4 DEF IInv

\* The poll extends what the member holds by the records from its position.
LEMMA pollRecords_IInv ==
    ASSUME IInv, NEW m \in Members, pollRecords(m)
    PROVE  IInv'
<1>. PICK upTo \in [Partitions -> {0} \cup {o + 1 : o \in Records}] :
        /\ \A p \in Partitions \ consumers[m] : upTo[p] = 0
        /\ fetches' = [fetches EXCEPT ![m] =
                          [p \in Partitions |-> fetched(m, p, upTo[p])]]
        /\ position' = [position EXCEPT ![m] =
                          [p \in Partitions |->
                              IF fetched(m, p, upTo[p]) = {}
                              THEN position[m][p] ELSE upTo[p]]]
    BY DEF pollRecords
<1>a. ASSUME NEW p \in Partitions
      PROVE  /\ fetches'[m][p] \in SUBSET Records
             /\ position'[m][p] \in Nat
             /\ position[m][p] <= position'[m][p]
             /\ \A o \in fetches'[m][p] :
                   position[m][p] <= o /\ o < position'[m][p]
             /\ \A o \in Records :
                   o < position'[m][p] =>
                       o < position[m][p] \/ o \in fetches'[m][p]
             /\ fetches'[m][p] # {} => p \in consumers[m]
             /\ fetches[m][p] = {}
    <2>1. upTo[p] \in Nat /\ position[m][p] \in Nat
        <3>1. upTo[p] \in {0} \cup {o + 1 : o \in Records}
            OBVIOUS
        <3>2. {0} \cup {o + 1 : o \in Records} \subseteq Nat
            BY RecordsAssumption
        <3>. QED  BY <3>1, <3>2 DEF IInv, TypeOK
    <2>2. /\ fetches'[m][p] = fetched(m, p, upTo[p])
          /\ position'[m][p] = IF fetched(m, p, upTo[p]) = {}
                               THEN position[m][p] ELSE upTo[p]
        BY DEF IInv, TypeOK
    <2>3. ASSUME NEW o \in fetched(m, p, upTo[p])
          PROVE  o \in Records /\ position[m][p] <= o /\ o < upTo[p] /\ o \in Nat
        BY RecordsAssumption DEF fetched
    <2>4. fetched(m, p, upTo[p]) # {} => p \in consumers[m]
        <3>. SUFFICES ASSUME NEW o \in fetched(m, p, upTo[p])
                      PROVE  upTo[p] # 0
            OBVIOUS
        <3>. QED  BY <2>1, <2>3
    <2>5. fetches[m][p] = {}
        BY DEF IInv, PollBlocks, pollRecords
    <2>6. CASE fetched(m, p, upTo[p]) = {}
        BY <2>1, <2>2, <2>5, <2>6
    <2>7. CASE fetched(m, p, upTo[p]) # {}
        <3>1. position[m][p] <= upTo[p]
            BY <2>1, <2>3, <2>7
        <3>2. \A o \in Records : o < upTo[p] =>
                 o < position[m][p] \/ o \in fetched(m, p, upTo[p])
            BY <2>1, RecordsAssumption DEF fetched
        <3>. QED  BY <2>1, <2>2, <2>3, <2>4, <2>5, <2>7, <3>1, <3>2
    <2>. QED  BY <2>6, <2>7
<1>b. \A n \in Members : n # m =>
         fetches'[n] = fetches[n] /\ position'[n] = position[n]
    BY DEF IInv, TypeOK
<1>c. /\ DOMAIN fetches' = Members /\ DOMAIN position' = Members
      /\ fetches' \in [Members -> [Partitions -> SUBSET Records]]
      /\ position' \in [Members -> [Partitions -> Nat]]
    BY <1>a DEF IInv, TypeOK
<1>1. TypeOK'
    BY <1>c DEF IInv, TypeOK, pollRecords, PollerStates
<1>2. PollBlocks'
    <2>. SUFFICES ASSUME NEW n \in Members
                  PROVE  PollBlocks!(n)'
        BY DEF PollBlocks
    <2>1. CASE n = m
        BY <1>a, <1>b, <2>1
        DEF IInv, TypeOK, PollBlocks, pollRecords, alive
    <2>2. CASE n # m
        BY <1>a, <1>b, <2>2
        DEF IInv, TypeOK, PollBlocks, pollRecords, alive
    <2>. QED  BY <2>1, <2>2
<1>3. NothingSkipped'
    <2>. SUFFICES ASSUME NEW n \in Members, NEW p \in Partitions,
                         NEW o \in Records
                  PROVE  NothingSkipped!(n)!(p)!(o)'
        BY DEF NothingSkipped
    <2>1. CASE n = m
        <3>1. ASSUME p \in consumers[m], o < position'[m][p]
              PROVE  o \in attempted[p] \cup batch[m][p] \cup fetches'[m][p]
            BY <1>a, <3>1 DEF IInv, NothingSkipped, pollRecords
        <3>2. ASSUME NEW f \in fetches'[m][p], o <= f
              PROVE  p \in consumers[m] /\ o < position'[m][p]
            BY <1>a, <3>2, RecordsAssumption
        <3>3. \A b \in batch[m][p] :
                 o <= b => o \in attempted[p] \cup batch[m][p]
            BY DEF IInv, NothingSkipped
        <3>. QED  BY <2>1, <3>1, <3>2, <3>3 DEF pollRecords
    <2>2. CASE n # m
        BY <1>b, <2>2 DEF IInv, NothingSkipped, pollRecords
    <2>. QED  BY <2>1, <2>2
<1>4. HeldInOrder'
    <2>. SUFFICES ASSUME NEW n \in Members, NEW p \in Partitions
                  PROVE  HeldInOrder!(n)!(p)'
        BY DEF HeldInOrder
    <2>1. CASE n = m
        <3>1. \A b \in batch[m][p] : b \in Nat
            BY RecordsAssumption DEF IInv, TypeOK
        <3>2. \A f \in fetches'[m][p] : f \in Nat /\ f < position'[m][p]
            BY <1>a, RecordsAssumption
        <3>3. p \in consumers[m] => \A b \in batch[m][p] : b < position[m][p]
            BY DEF IInv, HeldInOrder
        <3>4. position[m][p] \in Nat
            BY DEF IInv, TypeOK
        <3>5. \A b \in batch[m][p], f \in fetches'[m][p] : b < f
            BY <1>a, <3>1, <3>2, <3>3, <3>4
        <3>6. p \in consumers[m] => \A b \in batch[m][p] : b < position'[m][p]
            BY <1>a, <3>1, <3>3, <3>4
        <3>. QED  BY <2>1, <3>2, <3>5, <3>6 DEF pollRecords
    <2>2. CASE n # m
        BY <1>b, <2>2 DEF IInv, HeldInOrder, pollRecords
    <2>. QED  BY <2>1, <2>2
<1>5. CommitBehind'
    <2>. SUFFICES ASSUME NEW n \in Members, NEW p \in Partitions,
                         owner[p] = n
                  PROVE  CommitBehind!(n)!(p)'
        BY DEF CommitBehind, pollRecords
    <2>1. CASE n = m
        <3>1. /\ committed[p] \in Nat /\ position[m][p] \in Nat
              /\ \A f \in fetches'[m][p] : f \in Nat
            BY <1>a, RecordsAssumption DEF IInv, TypeOK
        <3>2. p \in consumers[m] => committed[p] <= position[m][p]
            BY <2>1 DEF IInv, CommitBehind
        <3>3. \A f \in fetches'[m][p] : committed[p] <= f
            BY <1>a, <3>1, <3>2
        <3>4. p \in consumers[m] => committed[p] <= position'[m][p]
            BY <1>a, <3>1, <3>2
        <3>5. \A b \in batch[m][p] : committed[p] <= b
            BY <2>1 DEF IInv, CommitBehind
        <3>. QED  BY <2>1, <3>3, <3>4, <3>5 DEF pollRecords
    <2>2. CASE n # m
        BY <1>b, <2>2 DEF IInv, CommitBehind, pollRecords
    <2>. QED  BY <2>1, <2>2
<1>6. WorkersKnown' /\ OneCallback' /\ OwnerKnows' /\ LostFindsConsumer'
        /\ CommittedAttempted'
    BY DEF IInv, WorkersKnown, OneCallback, OwnerKnows, LostFindsConsumer,
        CommittedAttempted, pollRecords, busy, alive
<1>. QED
    BY <1>1, <1>2, <1>3, <1>4, <1>5, <1>6 DEF IInv

\* A cancelled poll holds nothing.
LEMMA pollStop_IInv ==
    ASSUME IInv, NEW m \in Members, pollStop(m)
    PROVE  IInv'
<1>1. TypeOK'
    BY RecordsAssumption
    DEF IInv, TypeOK, pollStop, ctxDone, PollerStates
<1>2. PollBlocks'
    BY DEF IInv, TypeOK, PollBlocks, WorkersKnown, OwnerKnows, pollStop,
        ctxDone, busy, alive
<1>3. WorkersKnown' /\ OneCallback' /\ OwnerKnows' /\ LostFindsConsumer'
        /\ NothingSkipped' /\ HeldInOrder' /\ CommitBehind' /\
        CommittedAttempted'
    BY DEF IInv, WorkersKnown, OneCallback, OwnerKnows, LostFindsConsumer,
        NothingSkipped, HeldInOrder, CommitBehind, CommittedAttempted,
        pollStop, busy, alive
<1>. QED
    BY <1>1, <1>2, <1>3 DEF IInv

\* The polled records are kept, or dropped for good.
LEMMA checkContext_IInv ==
    ASSUME IInv, NEW m \in Members, checkContext(m)
    PROVE  IInv'
<1>a. \/ /\ ctxDone(m)
         /\ poller' = [poller EXCEPT ![m] = "stopped"]
         /\ fetches' = [fetches EXCEPT ![m] = [p \in Partitions |-> {}]]
      \/ /\ poller' = [poller EXCEPT ![m] = "sending"]
         /\ fetches' = fetches
    <2>1. CASE ctxDone(m)
        BY <2>1 DEF checkContext
    <2>2. CASE ~ctxDone(m)
        BY <2>2 DEF checkContext
    <2>. QED  BY <2>1, <2>2
<1>b. \A n \in Members : \A p \in Partitions :
         \/ fetches'[n][p] = fetches[n][p]
         \/ n = m /\ ctxDone(m) /\ fetches'[n][p] = {}
    BY <1>a DEF IInv, TypeOK
<1>1. TypeOK'
    <2>1. poller' \in [Members -> PollerStates]
        BY <1>a DEF IInv, TypeOK, PollerStates
    <2>2. fetches' \in [Members -> [Partitions -> SUBSET Records]]
        <3>1. [p \in Partitions |-> {}] \in [Partitions -> SUBSET Records]
            OBVIOUS
        <3>2. fetches \in [Members -> [Partitions -> SUBSET Records]]
            BY DEF IInv, TypeOK
        <3>. QED  BY <1>a, <3>1, <3>2
    <2>. QED  BY <2>1, <2>2 DEF IInv, TypeOK, checkContext
<1>2. PollBlocks'
    BY <1>a, <1>b DEF IInv, TypeOK, PollBlocks, checkContext, alive
<1>3. NothingSkipped'
    BY <1>b DEF IInv, TypeOK, NothingSkipped, checkContext, ctxDone
<1>4. HeldInOrder'
    BY <1>b DEF IInv, TypeOK, HeldInOrder, checkContext
<1>5. CommitBehind'
    BY <1>b DEF IInv, TypeOK, CommitBehind, checkContext
<1>6. WorkersKnown' /\ OneCallback' /\ OwnerKnows' /\ LostFindsConsumer'
        /\ CommittedAttempted'
    BY DEF IInv, WorkersKnown, OneCallback, OwnerKnows, LostFindsConsumer,
        CommittedAttempted, checkContext, busy, alive
<1>. QED
    BY <1>1, <1>2, <1>3, <1>4, <1>5, <1>6 DEF IInv

\* The batch changes hands.
LEMMA send_IInv ==
    ASSUME IInv, NEW m \in Members, NEW p \in Partitions, send(m, p)
    PROVE  IInv'
<1>1. TypeOK'
    BY RecordsAssumption
    DEF IInv, TypeOK, send, WorkerStates
<1>2. WorkersKnown'
    BY DEF IInv, TypeOK, WorkersKnown, PollBlocks, send, busy
<1>3. PollBlocks'
    BY DEF IInv, TypeOK, PollBlocks, WorkersKnown, OwnerKnows, send, busy,
        alive
<1>4. NothingSkipped'
    <2>1. batch[m][p] = {}
        BY DEF IInv, WorkersKnown, busy, send
    <2>. SUFFICES ASSUME NEW n \in Members, NEW q \in Partitions
                  PROVE  NothingSkipped!(n)!(q)'
        BY DEF NothingSkipped
    <2>2. CASE n = m /\ q = p
        BY <2>1, <2>2 DEF IInv, TypeOK, NothingSkipped, send
    <2>3. CASE ~(n = m /\ q = p)
        BY <2>3 DEF IInv, TypeOK, NothingSkipped, send
    <2>. QED  BY <2>2, <2>3
<1>5. HeldInOrder'
    BY RecordsAssumption
    DEF IInv, TypeOK, HeldInOrder, WorkersKnown, PollBlocks, send, busy, alive
<1>6. CommitBehind'
    BY NoMemberAssumption, RecordsAssumption
    DEF IInv, TypeOK, CommitBehind, HeldInOrder, WorkersKnown, PollBlocks,
        OwnerKnows, send, busy, alive
<1>7. OneCallback' /\ OwnerKnows' /\ LostFindsConsumer' /\
        CommittedAttempted'
    BY DEF IInv, OneCallback, OwnerKnows, LostFindsConsumer,
        CommittedAttempted, send, alive
<1>. QED
    BY <1>1, <1>2, <1>3, <1>4, <1>5, <1>6, <1>7 DEF IInv

\* The records are dropped after the context was cancelled.
LEMMA sendCancelled_IInv ==
    ASSUME IInv, NEW m \in Members, NEW p \in Partitions, sendCancelled(m, p)
    PROVE  IInv'
<1>1. TypeOK'
    BY RecordsAssumption
    DEF IInv, TypeOK, sendCancelled, ctxDone
<1>2. PollBlocks'
    BY DEF IInv, TypeOK, PollBlocks, WorkersKnown, OwnerKnows, sendCancelled,
        ctxDone, busy, alive
<1>3. NothingSkipped'
    BY RecordsAssumption
    DEF IInv, TypeOK, NothingSkipped, WorkersKnown, PollBlocks, OwnerKnows,
        CommittedAttempted, sendCancelled, ctxDone, busy, alive
<1>4. HeldInOrder'
    BY RecordsAssumption
    DEF IInv, TypeOK, HeldInOrder, WorkersKnown, PollBlocks, sendCancelled,
        ctxDone, busy, alive
<1>5. CommitBehind'
    BY NoMemberAssumption, RecordsAssumption
    DEF IInv, TypeOK, CommitBehind, HeldInOrder, WorkersKnown, PollBlocks,
        OwnerKnows, sendCancelled, ctxDone, busy, alive
<1>6. WorkersKnown' /\ OneCallback' /\ OwnerKnows' /\ LostFindsConsumer'
        /\ CommittedAttempted'
    BY DEF IInv, WorkersKnown, OneCallback, OwnerKnows, LostFindsConsumer,
        CommittedAttempted, sendCancelled, busy, alive
<1>. QED
    BY <1>1, <1>2, <1>3, <1>4, <1>5, <1>6 DEF IInv

\* Nothing is left to send when rebalances are allowed.
LEMMA AllowRebalance_IInv ==
    ASSUME IInv, NEW m \in Members, AllowRebalance(m)
    PROVE  IInv'
<1>1. TypeOK'
    BY RecordsAssumption
    DEF IInv, TypeOK, AllowRebalance, PollerStates
<1>2. PollBlocks'
    BY DEF IInv, TypeOK, PollBlocks, WorkersKnown, OwnerKnows, AllowRebalance,
        busy, alive
<1>3. NothingSkipped'
    BY RecordsAssumption
    DEF IInv, TypeOK, NothingSkipped, WorkersKnown, PollBlocks, OwnerKnows,
        CommittedAttempted, AllowRebalance, busy, alive
<1>4. HeldInOrder'
    BY RecordsAssumption
    DEF IInv, TypeOK, HeldInOrder, WorkersKnown, PollBlocks, AllowRebalance,
        busy, alive
<1>5. CommitBehind'
    BY NoMemberAssumption, RecordsAssumption
    DEF IInv, TypeOK, CommitBehind, HeldInOrder, WorkersKnown, PollBlocks,
        OwnerKnows, AllowRebalance, busy, alive
<1>6. WorkersKnown' /\ OneCallback' /\ OwnerKnows' /\ LostFindsConsumer'
        /\ CommittedAttempted'
    BY DEF IInv, WorkersKnown, OneCallback, OwnerKnows, LostFindsConsumer,
        CommittedAttempted, AllowRebalance, busy, alive
<1>. QED
    BY <1>1, <1>2, <1>3, <1>4, <1>5, <1>6 DEF IInv

\* A worker that stops holds no batch.
LEMMA consumeQuit_IInv ==
    ASSUME IInv, NEW m \in Members, NEW p \in Partitions, consumeQuit(m, p)
    PROVE  IInv'
<1>1. TypeOK'
    BY RecordsAssumption
    DEF IInv, TypeOK, consumeQuit, WorkerStates
<1>2. WorkersKnown'
    BY DEF IInv, TypeOK, WorkersKnown, PollBlocks, consumeQuit, busy
<1>3. PollBlocks' /\ OneCallback' /\ OwnerKnows' /\ LostFindsConsumer' /\
        NothingSkipped' /\ HeldInOrder' /\ CommitBehind' /\
        CommittedAttempted'
    BY DEF IInv, PollBlocks, OneCallback, OwnerKnows, LostFindsConsumer,
        NothingSkipped, HeldInOrder, CommitBehind, CommittedAttempted,
        consumeQuit, alive
<1>. QED
    BY <1>1, <1>2, <1>3 DEF IInv

\* The batch joins the attempted records.
LEMMA processRecords_IInv ==
    ASSUME IInv, NEW m \in Members, NEW p \in Partitions, processRecords(m, p)
    PROVE  IInv'
<1>1. TypeOK'
    BY RecordsAssumption
    DEF IInv, TypeOK, processRecords, WorkerStates
<1>2. WorkersKnown'
    BY DEF IInv, TypeOK, WorkersKnown, PollBlocks, processRecords, busy
<1>3. NothingSkipped'
    BY RecordsAssumption
    DEF IInv, TypeOK, NothingSkipped, WorkersKnown, PollBlocks, OwnerKnows,
        CommittedAttempted, processRecords, busy, alive
<1>4. CommittedAttempted'
    BY RecordsAssumption
    DEF IInv, TypeOK, CommittedAttempted, NothingSkipped, WorkersKnown,
        processRecords, busy, alive
<1>5. PollBlocks' /\ OneCallback' /\ OwnerKnows' /\ LostFindsConsumer' /\
        HeldInOrder' /\ CommitBehind'
    BY DEF IInv, PollBlocks, OneCallback, OwnerKnows, LostFindsConsumer,
        HeldInOrder, CommitBehind, processRecords, alive
<1>. QED
    BY <1>1, <1>2, <1>3, <1>4, <1>5 DEF IInv

\* The commit covers attempted records only, and stays behind the rest.
LEMMA commit_IInv ==
    ASSUME IInv, NEW m \in Members, NEW p \in Partitions, commit(m, p)
    PROVE  IInv'
<1>a. /\ batch[m][p] \in SUBSET Nat
      /\ processed[m][p] \in SUBSET batch[m][p]
      /\ batch[m][p] \subseteq attempted[p]
    BY RecordsAssumption DEF IInv, TypeOK, WorkersKnown, commit
<1>b. \/ committed' = committed
      \/ /\ owner[p] = m
         /\ \E o \in batch[m][p] :
               committed' = [committed EXCEPT ![p] = o + 1]
    <2>1. CASE UNCHANGED committed
        BY <2>1
    <2>2. CASE owner[p] = m /\ ~UNCHANGED committed
        <3>1. PICK next \in CommitRecords(commitableRecords(
                                processed[m][p], batch[m][p])) :
                 committed' = [committed EXCEPT ![p] = next]
            BY <2>2 DEF commit
        <3>2. \E o \in batch[m][p] : next = o + 1
            BY <1>a, <3>1, CommitWithinBatch
        <3>. QED  BY <2>2, <3>1, <3>2
    <2>. QED  BY <2>1, <2>2 DEF commit
<1>1. TypeOK'
    BY <1>a, <1>b DEF IInv, TypeOK, commit, WorkerStates
<1>2. WorkersKnown'
    BY DEF IInv, TypeOK, WorkersKnown, PollBlocks, commit, busy
<1>3. NothingSkipped'
    BY RecordsAssumption
    DEF IInv, TypeOK, NothingSkipped, WorkersKnown, PollBlocks, OwnerKnows,
        CommittedAttempted, commit, busy, alive
<1>4. HeldInOrder'
    BY RecordsAssumption
    DEF IInv, TypeOK, HeldInOrder, WorkersKnown, PollBlocks, commit, busy,
        alive
<1>5. CommitBehind'
    <2>1. CASE committed' = committed
        BY <2>1 DEF IInv, TypeOK, CommitBehind, commit
    <2>2. CASE committed' # committed
        <3>1. PICK o \in batch[m][p] :
                 committed' = [committed EXCEPT ![p] = o + 1]
            BY <1>b, <2>2
        <3>2. owner[p] = m /\ o \in Nat
            BY <1>a, <1>b, <2>2
        <3>3. p \in consumers[m] => o + 1 <= position[m][p]
            BY <3>2 DEF IInv, TypeOK, HeldInOrder
        <3>4. \A f \in fetches[m][p] : o + 1 <= f
            BY <3>2, RecordsAssumption DEF IInv, TypeOK, HeldInOrder
        <3>. SUFFICES ASSUME NEW n \in Members, NEW q \in Partitions,
                             owner[q] = n
                      PROVE  CommitBehind!(n)!(q)'
            BY DEF CommitBehind, commit
        <3>5. CASE q = p
            BY <3>1, <3>2, <3>3, <3>4, <3>5 DEF IInv, TypeOK, CommitBehind, commit
        <3>6. CASE q # p
            BY <3>1, <3>6 DEF IInv, TypeOK, CommitBehind, commit
        <3>. QED  BY <3>5, <3>6
    <2>. QED  BY <2>1, <2>2
<1>6. CommittedAttempted'
    <2>1. CASE committed' = committed
        BY <2>1 DEF IInv, CommittedAttempted, commit
    <2>2. CASE committed' # committed
        <3>1. PICK o \in batch[m][p] :
                 committed' = [committed EXCEPT ![p] = o + 1]
            BY <1>b, <2>2
        <3>2. ASSUME NEW r \in Records, r < o + 1
              PROVE  r \in attempted[p]
            <4>1. r <= o
                BY <1>a, <3>2, RecordsAssumption
            <4>. QED  BY <1>a, <4>1 DEF IInv, NothingSkipped
        <3>. QED  BY <3>1, <3>2 DEF IInv, TypeOK, CommittedAttempted, commit
    <2>. QED  BY <2>1, <2>2
<1>7. PollBlocks' /\ OneCallback' /\ OwnerKnows' /\ LostFindsConsumer'
    BY DEF IInv, PollBlocks, OneCallback, OwnerKnows, LostFindsConsumer,
        commit, alive
<1>. QED
    BY <1>1, <1>2, <1>3, <1>4, <1>5, <1>6, <1>7 DEF IInv

\* A new consumer starts where everything before was attempted.
LEMMA assigned_IInv ==
    ASSUME IInv, NEW m \in Members, NEW p \in Partitions, assigned(m, p)
    PROVE  IInv'
<1>a. p \notin consumers[m] /\ waiting[m] = {}
    BY NoMemberAssumption DEF assigned, startConsumer
<1>b. batch[m][p] = {} /\ worker[m][p] = "none" /\ fetches[m][p] = {}
    BY <1>a DEF IInv, WorkersKnown, PollBlocks, busy, assigned, startConsumer
<1>1. TypeOK'
    BY RecordsAssumption
    DEF IInv, TypeOK, assigned, startConsumer, WorkerStates
<1>2. WorkersKnown'
    BY <1>a, <1>b DEF IInv, TypeOK, WorkersKnown, assigned, startConsumer, busy
<1>3. PollBlocks'
    BY DEF IInv, TypeOK, PollBlocks, WorkersKnown, OwnerKnows, assigned,
        startConsumer, busy, alive
<1>4. OneCallback'
    BY DEF IInv, TypeOK, OneCallback, OwnerKnows, assigned, startConsumer, alive
<1>5. OwnerKnows'
    BY NoMemberAssumption
    DEF IInv, TypeOK, OwnerKnows, WorkersKnown, PollBlocks, assigned,
        startConsumer, busy, alive
<1>6. LostFindsConsumer'
    BY DEF IInv, TypeOK, LostFindsConsumer, PollBlocks, OwnerKnows, assigned,
        startConsumer, alive
<1>7. NothingSkipped'
    BY RecordsAssumption
    DEF IInv, TypeOK, NothingSkipped, WorkersKnown, PollBlocks, OwnerKnows,
        CommittedAttempted, assigned, startConsumer, busy, alive
<1>8. HeldInOrder'
    BY <1>a, <1>b DEF IInv, TypeOK, HeldInOrder, assigned, startConsumer
<1>9. CommitBehind'
    <2>. SUFFICES ASSUME NEW n \in Members, NEW q \in Partitions,
                         owner'[q] = n
                  PROVE  CommitBehind!(n)!(q)'
        BY DEF CommitBehind
    <2>1. CASE q = p
        BY <1>b, <2>1 DEF IInv, TypeOK, assigned, startConsumer
    <2>2. CASE q # p
        BY <2>2 DEF IInv, TypeOK, CommitBehind, assigned, startConsumer
    <2>. QED  BY <2>1, <2>2
<1>10. CommittedAttempted'
    BY DEF IInv, CommittedAttempted, assigned, startConsumer
<1>. QED
    BY <1>1, <1>2, <1>3, <1>4, <1>5, <1>6, <1>7, <1>8, <1>9, <1>10 DEF IInv

\* Only present consumers are revoked.
LEMMA RequestRevoke_IInv ==
    ASSUME IInv, NEW m \in Members, NEW parts \in SUBSET Partitions, RequestRevoke(m, parts)
    PROVE  IInv'
<1>1. TypeOK'
    BY FaultTyped
    DEF IInv, TypeOK, RequestRevoke, FaultKinds
<1>2. OneCallback'
    BY DEF IInv, TypeOK, OneCallback, OwnerKnows, RequestRevoke, alive
<1>3. LostFindsConsumer'
    BY DEF IInv, TypeOK, LostFindsConsumer, PollBlocks, OwnerKnows,
        RequestRevoke, alive
<1>4. WorkersKnown' /\ PollBlocks' /\ OwnerKnows' /\ NothingSkipped' /\
        HeldInOrder' /\ CommitBehind' /\ CommittedAttempted'
    BY DEF IInv, WorkersKnown, PollBlocks, OwnerKnows, NothingSkipped,
        HeldInOrder, CommitBehind, CommittedAttempted, RequestRevoke, busy,
        alive
<1>. QED
    BY <1>1, <1>2, <1>3, <1>4 DEF IInv

\* An evicted member owns nothing.
LEMMA Evict_IInv ==
    ASSUME IInv, NEW m \in Members, Evict(m)
    PROVE  IInv'
<1>1. TypeOK'
    BY FaultTyped
    DEF IInv, TypeOK, Evict, FaultKinds
<1>2. OwnerKnows'
    BY NoMemberAssumption
    DEF IInv, TypeOK, OwnerKnows, WorkersKnown, PollBlocks, Evict, busy, alive
<1>3. CommitBehind'
    BY NoMemberAssumption, RecordsAssumption
    DEF IInv, TypeOK, CommitBehind, HeldInOrder, WorkersKnown, PollBlocks,
        OwnerKnows, Evict, busy, alive
<1>4. WorkersKnown' /\ PollBlocks' /\ OneCallback' /\ LostFindsConsumer'
        /\ NothingSkipped' /\ HeldInOrder' /\ CommittedAttempted'
    BY DEF IInv, WorkersKnown, PollBlocks, OneCallback, LostFindsConsumer,
        NothingSkipped, HeldInOrder, CommittedAttempted, Evict, busy, alive
<1>. QED
    BY <1>1, <1>2, <1>3, <1>4 DEF IInv

\* Only present consumers are lost.
LEMMA LearnLost_IInv ==
    ASSUME IInv, NEW m \in Members, LearnLost(m)
    PROVE  IInv'
<1>1. TypeOK'
    BY RecordsAssumption
    DEF IInv, TypeOK, LearnLost
<1>2. OneCallback'
    BY DEF IInv, TypeOK, OneCallback, OwnerKnows, LearnLost, alive
<1>3. LostFindsConsumer'
    BY DEF IInv, TypeOK, LostFindsConsumer, PollBlocks, OwnerKnows, LearnLost,
        alive
<1>4. WorkersKnown' /\ PollBlocks' /\ OwnerKnows' /\ NothingSkipped' /\
        HeldInOrder' /\ CommitBehind' /\ CommittedAttempted'
    BY DEF IInv, WorkersKnown, PollBlocks, OwnerKnows, NothingSkipped,
        HeldInOrder, CommitBehind, CommittedAttempted, LearnLost, busy, alive
<1>. QED
    BY <1>1, <1>2, <1>3, <1>4 DEF IInv

\* No poll is held, so the polled records are empty.
LEMMA lost_IInv ==
    ASSUME IInv, NEW m \in Members, lost(m)
    PROVE  IInv'
<1>a. waiting[m] = {} /\ revoking[m] \subseteq consumers[m]
    BY DEF IInv, OneCallback, LostFindsConsumer, lost
<1>b. \A n \in Members :
         consumers'[n] \cup waiting'[n] = consumers[n] \cup waiting[n]
    BY <1>a DEF IInv, TypeOK, lost
<1>1. TypeOK'
    BY RecordsAssumption
    DEF IInv, TypeOK, lost
<1>2. WorkersKnown'
    BY <1>b DEF IInv, TypeOK, WorkersKnown, lost, busy
<1>3. PollBlocks'
    BY DEF IInv, TypeOK, PollBlocks, WorkersKnown, OwnerKnows, lost, busy,
        alive
<1>4. OneCallback'
    BY DEF IInv, TypeOK, OneCallback, OwnerKnows, lost, alive
<1>5. OwnerKnows'
    <2>1. \A n \in Members : ~alive(n) => consumers[n] = {} /\ waiting[n] = {}
        BY DEF IInv, OwnerKnows
    <2>2. \A n \in Members :
             ~alive(n) => consumers'[n] = {} /\ waiting'[n] = {}
        BY <1>b, <2>1
    <2>. QED  BY <1>b, <2>2 DEF IInv, OwnerKnows, lost, alive
<1>6. LostFindsConsumer'
    BY DEF IInv, TypeOK, LostFindsConsumer, PollBlocks, OwnerKnows, lost, alive
<1>7. NothingSkipped'
    BY RecordsAssumption
    DEF IInv, TypeOK, NothingSkipped, WorkersKnown, PollBlocks, OwnerKnows,
        CommittedAttempted, lost, busy, alive
<1>8. HeldInOrder'
    BY RecordsAssumption
    DEF IInv, TypeOK, HeldInOrder, WorkersKnown, PollBlocks, lost, busy, alive
<1>9. CommitBehind'
    BY NoMemberAssumption, RecordsAssumption
    DEF IInv, TypeOK, CommitBehind, HeldInOrder, WorkersKnown, PollBlocks,
        OwnerKnows, lost, busy, alive
<1>10. CommittedAttempted'
    BY DEF IInv, CommittedAttempted, lost
<1>. QED
    BY <1>1, <1>2, <1>3, <1>4, <1>5, <1>6, <1>7, <1>8, <1>9, <1>10 DEF IInv

\* The workers are done, so their batches are empty.
LEMMA lostReturn_IInv ==
    ASSUME IInv, NEW m \in Members, lostReturn(m)
    PROVE  IInv'
<1>1. TypeOK'
    BY RecordsAssumption
    DEF IInv, TypeOK, lostReturn, WorkerStates
<1>2. WorkersKnown'
    BY DEF IInv, TypeOK, WorkersKnown, OneCallback, lostReturn, busy
<1>3. PollBlocks'
    BY DEF IInv, TypeOK, PollBlocks, WorkersKnown, OwnerKnows, lostReturn,
        busy, alive
<1>4. OneCallback'
    BY DEF IInv, TypeOK, OneCallback, OwnerKnows, lostReturn, alive
<1>5. OwnerKnows'
    BY NoMemberAssumption
    DEF IInv, TypeOK, OwnerKnows, WorkersKnown, PollBlocks, lostReturn, busy,
        alive
<1>6. CommitBehind'
    BY NoMemberAssumption, RecordsAssumption
    DEF IInv, TypeOK, CommitBehind, HeldInOrder, WorkersKnown, PollBlocks,
        OwnerKnows, lostReturn, busy, alive
<1>7. LostFindsConsumer' /\ NothingSkipped' /\ HeldInOrder' /\
        CommittedAttempted'
    BY DEF IInv, LostFindsConsumer, NothingSkipped, HeldInOrder,
        CommittedAttempted, lostReturn
<1>. QED
    BY <1>1, <1>2, <1>3, <1>4, <1>5, <1>6, <1>7 DEF IInv

\* The member's poll is over.
LEMMA Signal_IInv ==
    ASSUME IInv, NEW m \in Members, Signal(m)
    PROVE  IInv'
<1>1. TypeOK'
    BY FaultTyped
    DEF IInv, TypeOK, Signal, MainStates, FaultKinds
<1>2. PollBlocks'
    BY DEF IInv, TypeOK, PollBlocks, WorkersKnown, OwnerKnows, Signal, busy,
        alive
<1>3. OwnerKnows'
    BY NoMemberAssumption
    DEF IInv, TypeOK, OwnerKnows, WorkersKnown, PollBlocks, Signal, busy, alive
<1>4. NothingSkipped'
    BY RecordsAssumption
    DEF IInv, TypeOK, NothingSkipped, WorkersKnown, PollBlocks, OwnerKnows,
        CommittedAttempted, Signal, busy, alive
<1>5. WorkersKnown' /\ OneCallback' /\ LostFindsConsumer' /\ HeldInOrder'
        /\ CommitBehind' /\ CommittedAttempted'
    BY DEF IInv, WorkersKnown, OneCallback, LostFindsConsumer, HeldInOrder,
        CommitBehind, CommittedAttempted, Signal, busy
<1>. QED
    BY <1>1, <1>2, <1>3, <1>4, <1>5 DEF IInv

\* Only channels are closed.
LEMMA gracefulShutdown_IInv ==
    ASSUME IInv, NEW m \in Members, gracefulShutdown(m)
    PROVE  IInv'
<1>1. TypeOK'
    BY RecordsAssumption
    DEF IInv, TypeOK, gracefulShutdown, MainStates
<1>2. PollBlocks'
    BY DEF IInv, TypeOK, PollBlocks, WorkersKnown, OwnerKnows,
        gracefulShutdown, busy, alive
<1>3. OwnerKnows'
    BY NoMemberAssumption
    DEF IInv, TypeOK, OwnerKnows, WorkersKnown, PollBlocks, gracefulShutdown,
        busy, alive
<1>4. NothingSkipped'
    BY RecordsAssumption
    DEF IInv, TypeOK, NothingSkipped, WorkersKnown, PollBlocks, OwnerKnows,
        CommittedAttempted, gracefulShutdown, busy, alive
<1>5. WorkersKnown' /\ OneCallback' /\ LostFindsConsumer' /\ HeldInOrder'
        /\ CommitBehind' /\ CommittedAttempted'
    BY DEF IInv, WorkersKnown, OneCallback, LostFindsConsumer, HeldInOrder,
        CommitBehind, CommittedAttempted, gracefulShutdown, busy
<1>. QED
    BY <1>1, <1>2, <1>3, <1>4, <1>5 DEF IInv

\* The client revokes the consumers it still has.
LEMMA closeClient_IInv ==
    ASSUME IInv, NEW m \in Members, closeClient(m)
    PROVE  IInv'
<1>1. TypeOK'
    BY RecordsAssumption
    DEF IInv, TypeOK, closeClient, MainStates
<1>2. PollBlocks'
    BY DEF IInv, TypeOK, PollBlocks, WorkersKnown, OwnerKnows, closeClient,
        busy, alive
<1>3. OneCallback'
    BY DEF IInv, TypeOK, OneCallback, OwnerKnows, closeClient, alive
<1>4. OwnerKnows'
    BY NoMemberAssumption
    DEF IInv, TypeOK, OwnerKnows, WorkersKnown, PollBlocks, closeClient, busy,
        alive
<1>5. LostFindsConsumer'
    BY DEF IInv, TypeOK, LostFindsConsumer, PollBlocks, OwnerKnows,
        closeClient, alive
<1>6. NothingSkipped'
    BY RecordsAssumption
    DEF IInv, TypeOK, NothingSkipped, WorkersKnown, PollBlocks, OwnerKnows,
        CommittedAttempted, closeClient, busy, alive
<1>7. WorkersKnown' /\ HeldInOrder' /\ CommitBehind' /\
        CommittedAttempted'
    BY DEF IInv, WorkersKnown, HeldInOrder, CommitBehind, CommittedAttempted,
        closeClient, busy
<1>. QED
    BY <1>1, <1>2, <1>3, <1>4, <1>5, <1>6, <1>7 DEF IInv

\* The member has nothing left.
LEMMA StartReturn_IInv ==
    ASSUME IInv, NEW m \in Members, StartReturn(m)
    PROVE  IInv'
<1>1. TypeOK'
    BY RecordsAssumption
    DEF IInv, TypeOK, StartReturn, MainStates, PollerStates
<1>2. PollBlocks'
    BY DEF IInv, TypeOK, PollBlocks, WorkersKnown, OwnerKnows, StartReturn,
        busy, alive
<1>3. OwnerKnows'
    BY NoMemberAssumption
    DEF IInv, TypeOK, OwnerKnows, WorkersKnown, PollBlocks, StartReturn, busy,
        alive
<1>4. NothingSkipped'
    BY RecordsAssumption
    DEF IInv, TypeOK, NothingSkipped, WorkersKnown, PollBlocks, OwnerKnows,
        CommittedAttempted, StartReturn, busy, alive
<1>5. WorkersKnown' /\ OneCallback' /\ LostFindsConsumer' /\ HeldInOrder'
        /\ CommitBehind' /\ CommittedAttempted'
    BY DEF IInv, WorkersKnown, OneCallback, LostFindsConsumer, HeldInOrder,
        CommitBehind, CommittedAttempted, StartReturn, busy
<1>. QED
    BY <1>1, <1>2, <1>3, <1>4, <1>5 DEF IInv

\* Everything local is gone.
LEMMA Crash_IInv ==
    ASSUME IInv, NEW m \in Members, Crash(m)
    PROVE  IInv'
<1>1. TypeOK'
    BY FaultTyped
    DEF IInv, TypeOK, Crash, MainStates, PollerStates, WorkerStates, FaultKinds
<1>2. WorkersKnown'
    BY DEF IInv, TypeOK, WorkersKnown, PollBlocks, Crash, busy
<1>3. PollBlocks'
    BY DEF IInv, TypeOK, PollBlocks, WorkersKnown, OwnerKnows, Crash, busy,
        alive
<1>4. OneCallback'
    BY DEF IInv, TypeOK, OneCallback, OwnerKnows, Crash, alive
<1>5. OwnerKnows'
    BY NoMemberAssumption
    DEF IInv, TypeOK, OwnerKnows, WorkersKnown, PollBlocks, Crash, busy, alive
<1>6. LostFindsConsumer'
    BY DEF IInv, TypeOK, LostFindsConsumer, PollBlocks, OwnerKnows, Crash,
        alive
<1>7. NothingSkipped'
    BY RecordsAssumption
    DEF IInv, TypeOK, NothingSkipped, WorkersKnown, PollBlocks, OwnerKnows,
        CommittedAttempted, Crash, busy, alive
<1>8. HeldInOrder'
    BY RecordsAssumption
    DEF IInv, TypeOK, HeldInOrder, WorkersKnown, PollBlocks, Crash, busy, alive
<1>9. CommitBehind'
    BY NoMemberAssumption, RecordsAssumption
    DEF IInv, TypeOK, CommitBehind, HeldInOrder, WorkersKnown, PollBlocks,
        OwnerKnows, Crash, busy, alive
<1>10. CommittedAttempted'
    BY DEF IInv, CommittedAttempted, Crash
<1>. QED
    BY <1>1, <1>2, <1>3, <1>4, <1>5, <1>6, <1>7, <1>8, <1>9, <1>10 DEF IInv

\* A dead member owns nothing.
LEMMA SessionExpire_IInv ==
    ASSUME IInv, NEW m \in Members, SessionExpire(m)
    PROVE  IInv'
<1>1. TypeOK'
    BY RecordsAssumption
    DEF IInv, TypeOK, SessionExpire
<1>2. OwnerKnows'
    BY NoMemberAssumption
    DEF IInv, TypeOK, OwnerKnows, WorkersKnown, PollBlocks, SessionExpire,
        busy, alive
<1>3. CommitBehind'
    BY NoMemberAssumption, RecordsAssumption
    DEF IInv, TypeOK, CommitBehind, HeldInOrder, WorkersKnown, PollBlocks,
        OwnerKnows, SessionExpire, busy, alive
<1>4. WorkersKnown' /\ PollBlocks' /\ OneCallback' /\ LostFindsConsumer'
        /\ NothingSkipped' /\ HeldInOrder' /\ CommittedAttempted'
    BY DEF IInv, WorkersKnown, PollBlocks, OneCallback, LostFindsConsumer,
        NothingSkipped, HeldInOrder, CommittedAttempted, SessionExpire, busy,
        alive
<1>. QED
    BY <1>1, <1>2, <1>3, <1>4 DEF IInv

\* A new process starts with nothing.
LEMMA Restart_IInv ==
    ASSUME IInv, NEW m \in Members, Restart(m)
    PROVE  IInv'
<1>1. TypeOK'
    BY RecordsAssumption
    DEF IInv, TypeOK, Restart, MainStates, PollerStates
<1>2. PollBlocks'
    BY DEF IInv, TypeOK, PollBlocks, WorkersKnown, OwnerKnows, Restart, busy,
        alive
<1>3. OwnerKnows'
    BY NoMemberAssumption
    DEF IInv, TypeOK, OwnerKnows, WorkersKnown, PollBlocks, Restart, busy,
        alive
<1>4. NothingSkipped'
    BY RecordsAssumption
    DEF IInv, TypeOK, NothingSkipped, WorkersKnown, PollBlocks, OwnerKnows,
        CommittedAttempted, Restart, busy, alive
<1>5. WorkersKnown' /\ OneCallback' /\ LostFindsConsumer' /\ HeldInOrder'
        /\ CommitBehind' /\ CommittedAttempted'
    BY DEF IInv, WorkersKnown, OneCallback, LostFindsConsumer, HeldInOrder,
        CommitBehind, CommittedAttempted, Restart, busy
<1>. QED
    BY <1>1, <1>2, <1>3, <1>4, <1>5 DEF IInv

\* A step of the group, or a stutter, preserves the invariant.
LEMMA Next_IInv == IInv /\ [Next]_vars => IInv'
<1>. SUFFICES ASSUME IInv, [Next]_vars PROVE IInv'
    OBVIOUS
<1>1. ASSUME NEW m \in Members, pollStep(m)
      PROVE  IInv'
    BY <1>1, pollRecords_IInv, pollStop_IInv, checkContext_IInv, send_IInv,
       sendCancelled_IInv, AllowRebalance_IInv
    DEF pollStep
<1>2. ASSUME NEW m \in Members, NEW p \in Partitions,
             workerStep(m, p) \/ assigned(m, p)
      PROVE  IInv'
    BY <1>2, consumeQuit_IInv, processRecords_IInv, commit_IInv, assigned_IInv
    DEF workerStep
<1>3. ASSUME NEW m \in Members, callbackStep(m)
      PROVE  IInv'
    BY <1>3, LearnLost_IInv, lost_IInv, lostReturn_IInv DEF callbackStep
<1>4. ASSUME NEW m \in Members, shutdownStep(m)
      PROVE  IInv'
    BY <1>4, gracefulShutdown_IInv, closeClient_IInv, StartReturn_IInv
    DEF shutdownStep
<1>5. ASSUME NEW m \in Members, faultStep(m)
      PROVE  IInv'
    BY <1>5, RequestRevoke_IInv, Evict_IInv, Signal_IInv, Crash_IInv
    DEF faultStep
<1>6. ASSUME NEW m \in Members, SessionExpire(m) \/ Restart(m)
      PROVE  IInv'
    BY <1>6, SessionExpire_IInv, Restart_IInv
<1>7. CASE UNCHANGED vars
    <2>1. TypeOK'
        BY <1>7 DEF vars, IInv, TypeOK
    <2>2. WorkersKnown' /\ PollBlocks' /\ OneCallback'
        BY <1>7 DEF vars, IInv, WorkersKnown, PollBlocks, OneCallback, busy,
                    alive
    <2>3. OwnerKnows' /\ LostFindsConsumer'
        BY <1>7 DEF vars, IInv, OwnerKnows, LostFindsConsumer, alive
    <2>4. NothingSkipped' /\ HeldInOrder'
        BY <1>7 DEF vars, IInv, NothingSkipped, HeldInOrder
    <2>5. CommitBehind' /\ CommittedAttempted'
        BY <1>7 DEF vars, IInv, CommitBehind, CommittedAttempted
    <2>. QED  BY <2>1, <2>2, <2>3, <2>4, <2>5 DEF IInv
<1>. QED
    BY <1>1, <1>2, <1>3, <1>4, <1>5, <1>6, <1>7 DEF Next

-----------------------------------------------------------------------------
(* The theorems                                                            *)

\* Every step of poll, consume, the rebalance callbacks, the shutdown and the
\* environment preserves the invariant.
THEOREM InvariantHolds == Spec => []IInv
    BY Init_IInv, Next_IInv, PTL DEF Spec

\* Every variable of the consumer group keeps its type.
THEOREM TypeCorrect == Spec => []TypeOK
<1>1. IInv => TypeOK
    BY DEF IInv
<1>. QED  BY <1>1, InvariantHolds, PTL

\* At-least-once delivery: processRecordsAndCommit never commits past a record
\* that was not handed to the processor.
THEOREM AtLeastOnce == Spec => []CommittedAttempted
<1>1. IInv => CommittedAttempted
    BY DEF IInv
<1>. QED  BY <1>1, InvariantHolds, PTL

\* lost never meets a partition without a consumer.
THEOREM LostIsSafe == Spec => []LostFindsConsumer
<1>1. IInv => LostFindsConsumer
    BY DEF IInv
<1>. QED  BY <1>1, InvariantHolds, PTL

\* What a worker holds are offsets, and it returns a part of its batch.
LEMMA BatchTyped ==
    ASSUME IInv, NEW m \in Members, NEW p \in Partitions
    PROVE  /\ batch[m][p] \in SUBSET Nat
           /\ processed[m][p] \in SUBSET batch[m][p]
<1>1. batch[m][p] \in SUBSET Nat
    <2>1. batch[m][p] \in SUBSET Records
        BY DEF IInv, TypeOK
    <2>. QED  BY <2>1, RecordsAssumption
<1>2. processed[m][p] \in SUBSET batch[m][p]
    BY DEF IInv, WorkersKnown
<1>. QED  BY <1>1, <1>2

\* Only an accepted commit changes a committed offset, to a point that the
\* owner's batch covers.
LEMMA CommittedChange ==
    ASSUME IInv, [Next]_vars, NEW p \in Partitions, committed'[p] # committed[p]
    PROVE  \E m \in Members :
              /\ commit(m, p) /\ owner[p] = m
              /\ \E next \in CommitRecords(commitableRecords(
                                 processed[m][p], batch[m][p])) :
                    committed' = [committed EXCEPT ![p] = next]
<1>1. PICK m \in Members, q \in Partitions : commit(m, q)
    BY DEF Next, vars, pollStep, workerStep, callbackStep, shutdownStep,
           faultStep, pollRecords, pollStop, checkContext, send, sendCancelled,
           AllowRebalance, consumeQuit, processRecords, assigned, startConsumer,
           RequestRevoke, Evict, LearnLost, lost, lostReturn, Signal,
           gracefulShutdown, closeClient, StartReturn, Crash, SessionExpire,
           Restart
<1>2. /\ owner[q] = m
      /\ \E next \in CommitRecords(commitableRecords(
                         processed[m][q], batch[m][q])) :
            committed' = [committed EXCEPT ![q] = next]
    BY <1>1 DEF commit
<1>3. q = p
    BY <1>2 DEF IInv, TypeOK
<1>. QED  BY <1>1, <1>2, <1>3

\* A committed offset never moves back: the owner's commits are ordered, and
\* those of anybody else are refused.
THEOREM CommitsAdvance == Spec => CommitMonotonic
<1>1. ASSUME IInv, [Next]_vars, NEW p \in Partitions
      PROVE  committed[p] <= committed'[p]
    <2>1. CASE committed'[p] = committed[p]
        BY <1>1, <2>1 DEF IInv, TypeOK
    <2>2. CASE committed'[p] # committed[p]
        <3>1. PICK m \in Members :
                 /\ commit(m, p) /\ owner[p] = m
                 /\ \E next \in CommitRecords(commitableRecords(
                                    processed[m][p], batch[m][p])) :
                       committed' = [committed EXCEPT ![p] = next]
            BY <1>1, <2>2, CommittedChange
        <3>2. /\ batch[m][p] \in SUBSET Nat
              /\ processed[m][p] \in SUBSET batch[m][p]
            BY <1>1, BatchTyped
        <3>3. PICK next \in CommitRecords(commitableRecords(
                                processed[m][p], batch[m][p])) :
                 committed' = [committed EXCEPT ![p] = next]
            BY <3>1
        <3>4. PICK o \in batch[m][p] : next = o + 1
            BY <3>2, <3>3, CommitWithinBatch
        <3>5. committed[p] <= o
            BY <1>1, <3>1 DEF IInv, CommitBehind
        <3>. QED  BY <1>1, <3>2, <3>3, <3>4, <3>5 DEF IInv, TypeOK
    <2>. QED  BY <2>1, <2>2
<1>2. IInv /\ [Next]_vars =>
         [\A p \in Partitions : committed[p] <= committed'[p]]_vars
    BY <1>1
<1>. QED  BY <1>2, InvariantHolds, PTL DEF Spec, CommitMonotonic

\* A commit never passes a record of its batch that processRecords did not
\* return as processed.
THEOREM CommitsStopAtFailure == Spec => CommitStopsAtFirstFailure
<1>1. ASSUME IInv, [Next]_vars, NEW p \in Partitions,
             committed'[p] # committed[p]
      PROVE  \E m \in Members :
                /\ worker[m][p] = "commit"
                /\ \A o \in batch[m][p] \ processed[m][p] : committed'[p] <= o
    <2>1. PICK m \in Members :
             /\ commit(m, p) /\ owner[p] = m
             /\ \E next \in CommitRecords(commitableRecords(
                                processed[m][p], batch[m][p])) :
                   committed' = [committed EXCEPT ![p] = next]
        BY <1>1, CommittedChange
    <2>2. /\ batch[m][p] \in SUBSET Nat
          /\ processed[m][p] \in SUBSET batch[m][p]
        BY <1>1, BatchTyped
    <2>3. PICK next \in CommitRecords(commitableRecords(
                            processed[m][p], batch[m][p])) :
             committed' = [committed EXCEPT ![p] = next]
        BY <2>1
    <2>4. \A o \in batch[m][p] \ processed[m][p] : next <= o
        BY <2>2, <2>3, CommitWithinBatch
    <2>5. committed'[p] = next
        BY <1>1, <2>3 DEF IInv, TypeOK
    <2>. QED  BY <2>1, <2>4, <2>5 DEF commit
<1>2. IInv /\ [Next]_vars =>
         [\A p \in Partitions : committed'[p] # committed[p] =>
             \E m \in Members :
                /\ worker[m][p] = "commit"
                /\ \A o \in batch[m][p] \ processed[m][p] :
                      committed'[p] <= o]_vars
    BY <1>1
<1>. QED  BY <1>2, InvariantHolds, PTL DEF Spec, CommitStopsAtFirstFailure

-----------------------------------------------------------------------------
(* One worker per partition, and nothing left behind                       *)

\* Faults are only counted up, and only an eviction counts as one.
LEMMA EvictionsCounted ==
    ASSUME IInv, NEW kind \in FaultKinds, fault(kind), faults'["evict"] = 0
    PROVE  faults["evict"] = 0 /\ kind # "evict"
BY DEF IInv, TypeOK, fault, FaultKinds

\* A partition changes hands only when its goroutine is gone: it is given away
\* after lost has waited for the worker, and taken when nobody owns it.
LEMMA Next_WorkersOwn == IInv /\ WorkersOwn /\ [Next]_vars => WorkersOwn'
<1>. SUFFICES ASSUME IInv, WorkersOwn, [Next]_vars PROVE WorkersOwn'
    OBVIOUS
<1>. USE NoMemberAssumption DEF IInv, TypeOK, WorkersOwn
<1>1. ASSUME NEW m \in Members, pollStep(m)
      PROVE  WorkersOwn'
    <2>1. UNCHANGED <<owner, faults>>
        BY <1>1 DEF pollStep, pollRecords, pollStop, checkContext, send,
                    sendCancelled, AllowRebalance
    <2>2. ASSUME NEW p \in Partitions, send(m, p)
          PROVE  WorkersOwn'
        <3>1. worker' = [worker EXCEPT ![m][p] = "process"]
            BY <2>2 DEF send
        <3>2. worker[m][p] # "none"
            BY <2>2 DEF send
        <3>. QED  BY <2>1, <3>1, <3>2
    <2>3. CASE UNCHANGED worker
        BY <2>1, <2>3
    <2>. QED
        BY <1>1, <2>2, <2>3
        DEF pollStep, pollRecords, pollStop, checkContext, sendCancelled,
            AllowRebalance
<1>2. ASSUME NEW m \in Members, NEW p \in Partitions, workerStep(m, p)
      PROVE  WorkersOwn'
    <2>1. UNCHANGED <<owner, faults>>
        BY <1>2 DEF workerStep, consumeQuit, processRecords, commit
    <2>2. /\ worker[m][p] # "none"
          /\ \E s \in WorkerStates : worker' = [worker EXCEPT ![m][p] = s]
        BY <1>2 DEF workerStep, consumeQuit, processRecords, commit,
                    WorkerStates
    <2>. QED  BY <2>1, <2>2
<1>3. ASSUME NEW m \in Members, NEW p \in Partitions, assigned(m, p)
      PROVE  WorkersOwn'
    BY <1>3 DEF assigned, startConsumer
<1>4. ASSUME NEW m \in Members, LearnLost(m) \/ lost(m)
      PROVE  WorkersOwn'
    BY <1>4 DEF LearnLost, lost
<1>5. ASSUME NEW m \in Members, lostReturn(m)
      PROVE  WorkersOwn'
    BY <1>5 DEF lostReturn
<1>6. ASSUME NEW m \in Members, shutdownStep(m)
      PROVE  WorkersOwn'
    BY <1>6 DEF shutdownStep, gracefulShutdown, closeClient, StartReturn
<1>7. ASSUME NEW m \in Members, faultStep(m)
      PROVE  WorkersOwn'
    <2>1. ASSUME NEW parts \in SUBSET Partitions, RequestRevoke(m, parts)
          PROVE  WorkersOwn'
        <3>1. faults'["evict"] = 0 => faults["evict"] = 0
            BY <2>1, EvictionsCounted DEF RequestRevoke, FaultKinds
        <3>. QED  BY <2>1, <3>1 DEF RequestRevoke
    <2>2. CASE Evict(m)
        BY <2>2, EvictionsCounted DEF Evict, FaultKinds
    <2>3. CASE Signal(m)
        <3>1. faults'["evict"] = 0 => faults["evict"] = 0
            BY <2>3, EvictionsCounted DEF Signal, FaultKinds
        <3>. QED  BY <2>3, <3>1 DEF Signal
    <2>4. CASE Crash(m)
        <3>1. faults'["evict"] = 0 => faults["evict"] = 0
            BY <2>4, EvictionsCounted DEF Crash, FaultKinds
        <3>. QED  BY <2>4, <3>1 DEF Crash
    <2>. QED  BY <1>7, <2>1, <2>2, <2>3, <2>4 DEF faultStep
<1>8. ASSUME NEW m \in Members, SessionExpire(m)
      PROVE  WorkersOwn'
    <2>1. \A p \in Partitions : worker[m][p] = "none"
        BY <1>8 DEF SessionExpire, OwnerKnows, WorkersKnown, alive
    <2>. QED  BY <1>8, <2>1 DEF SessionExpire
<1>9. ASSUME NEW m \in Members, Restart(m)
      PROVE  WorkersOwn'
    BY <1>9 DEF Restart
<1>10. CASE UNCHANGED vars
    BY <1>10 DEF vars
<1>. QED
    BY <1>1, <1>2, <1>3, <1>4, <1>5, <1>6, <1>7, <1>8, <1>9, <1>10
    DEF Next, callbackStep

\* StartReturn has no consumer left, and a live owner has one.
LEMMA Next_ExitedOwnsNothing ==
    IInv /\ ExitedOwnsNothing /\ [Next]_vars => ExitedOwnsNothing'
<1>. SUFFICES ASSUME IInv, ExitedOwnsNothing, [Next]_vars
              PROVE  ExitedOwnsNothing'
    OBVIOUS
<1>. USE NoMemberAssumption DEF ExitedOwnsNothing
<1>t. owner \in [Partitions -> Members \cup {NoMember}]
      /\ main \in [Members -> MainStates]
    BY DEF IInv, TypeOK
<1>1. ASSUME NEW m \in Members, pollStep(m)
      PROVE  ExitedOwnsNothing'
    <2>1. UNCHANGED <<owner, main>>
        BY <1>1 DEF pollStep, pollRecords, pollStop, checkContext, send,
                    sendCancelled, AllowRebalance
    <2>. QED  BY <2>1
<1>2. ASSUME NEW m \in Members, NEW p \in Partitions,
             workerStep(m, p) \/ assigned(m, p)
      PROVE  ExitedOwnsNothing'
    BY <1>t, <1>2 DEF workerStep, consumeQuit, processRecords, commit, assigned,
                startConsumer
<1>3. ASSUME NEW m \in Members, callbackStep(m)
      PROVE  ExitedOwnsNothing'
    BY <1>t, <1>3 DEF callbackStep, LearnLost, lost, lostReturn
<1>4. ASSUME NEW m \in Members, gracefulShutdown(m) \/ closeClient(m)
      PROVE  ExitedOwnsNothing'
    BY <1>t, <1>4 DEF gracefulShutdown, closeClient
<1>5. ASSUME NEW m \in Members, StartReturn(m)
      PROVE  ExitedOwnsNothing'
    BY <1>t, <1>5 DEF StartReturn, IInv, OwnerKnows, alive
<1>6. ASSUME NEW m \in Members, faultStep(m)
      PROVE  ExitedOwnsNothing'
    BY <1>t, <1>6 DEF faultStep, RequestRevoke, Evict, Signal, Crash
<1>7. ASSUME NEW m \in Members, SessionExpire(m) \/ Restart(m)
      PROVE  ExitedOwnsNothing'
    BY <1>t, <1>7 DEF SessionExpire, Restart
<1>8. CASE UNCHANGED vars
    BY <1>8 DEF vars
<1>. QED
    BY <1>1, <1>2, <1>3, <1>4, <1>5, <1>6, <1>7, <1>8 DEF Next, shutdownStep

\* Who has a goroutine for a partition owns it, and who has left owns nothing.
LEMMA OwnershipHolds == Spec => []OwnershipInv
<1>1. Init => OwnershipInv
    BY DEF Init, OwnershipInv, WorkersOwn, ExitedOwnsNothing
<1>2. IInv /\ OwnershipInv /\ [Next]_vars => OwnershipInv'
    BY Next_WorkersOwn, Next_ExitedOwnsNothing DEF OwnershipInv
<1>. QED  BY <1>1, <1>2, InvariantHolds, PTL DEF Spec

\* Unless the broker evicts a member, no two processes hold batches of one
\* partition: what lost waits for is what makes rebalances safe.
THEOREM WorkIsExclusive == Spec => []ExclusiveWork
<1>1. OwnershipInv => ExclusiveWork
    BY DEF OwnershipInv, WorkersOwn, ExclusiveWork, busy
<1>. QED  BY <1>1, OwnershipHolds, PTL

\* When Start returns no goroutine runs, no rebalance is blocked and the broker
\* counts the member out.
THEOREM ExitIsQuiescent == Spec => []ExitedQuiescent
<1>1. IInv /\ OwnershipInv => ExitedQuiescent
    BY DEF IInv, OwnershipInv, ExitedOwnsNothing, ExitedQuiescent,
           PollBlocks, OwnerKnows, WorkersKnown, alive
<1>. QED  BY <1>1, InvariantHolds, OwnershipHolds, PTL

-----------------------------------------------------------------------------
(* ConsumerGroup implements DeliveryLog                                    *)

\* Every step of the group is, for the committed offsets and the attempted
\* records, an Attempt, a Commit or a stutter of DeliveryLog.
LEMMA StepImplements ==
    ASSUME IInv, [Next]_vars
    PROVE  [Delivery!Next]_(Delivery!vars)
<1>1. ASSUME NEW m \in Members, NEW p \in Partitions, processRecords(m, p)
      PROVE  Delivery!Attempt(p)
    <2>1. batch[m][p] \in SUBSET Records
        BY DEF IInv, TypeOK
    <2>. QED  BY <1>1, <2>1 DEF processRecords, Delivery!Attempt
<1>2. ASSUME NEW m \in Members, NEW p \in Partitions, commit(m, p)
      PROVE  Delivery!Commit(p) \/ UNCHANGED <<committed, attempted>>
    <2>1. CASE UNCHANGED committed
        BY <1>2, <2>1 DEF commit
    <2>2. CASE ~UNCHANGED committed
        <3>1. PICK next \in CommitRecords(commitableRecords(
                                processed[m][p], batch[m][p])) :
                 committed' = [committed EXCEPT ![p] = next]
            BY <1>2, <2>2 DEF commit
        <3>2. owner[p] = m /\ worker[m][p] = "commit"
            BY <1>2, <2>2 DEF commit
        <3>3. PICK o \in batch[m][p] : next = o + 1
            <4>1. /\ batch[m][p] \in SUBSET Nat
                  /\ processed[m][p] \in SUBSET batch[m][p]
                BY BatchTyped
            <4>. QED  BY <3>1, <4>1, CommitWithinBatch
        <3>4. o \in Records /\ committed[p] <= o
            BY <3>2 DEF IInv, TypeOK, CommitBehind
        <3>5. \A r \in Records : r <= o => r \in attempted[p]
            BY <3>2 DEF IInv, NothingSkipped, WorkersKnown
        <3>6. UNCHANGED attempted
            BY <1>2 DEF commit
        <3>. QED  BY <3>1, <3>3, <3>4, <3>5, <3>6 DEF Delivery!Commit
    <2>. QED  BY <2>1, <2>2
<1>3. \/ \E m \in Members, p \in Partitions :
            processRecords(m, p) \/ commit(m, p)
      \/ UNCHANGED <<committed, attempted>>
    BY DEF Next, vars, pollStep, workerStep, callbackStep, shutdownStep,
           faultStep, pollRecords, pollStop, checkContext, send, sendCancelled,
           AllowRebalance, consumeQuit, assigned, startConsumer, RequestRevoke,
           Evict, LearnLost, lost, lostReturn, Signal, gracefulShutdown,
           closeClient, StartReturn, Crash, SessionExpire, Restart
<1>. QED
    BY <1>1, <1>2, <1>3 DEF Delivery!Next, Delivery!vars

\* The consumer group keeps the delivery promise.
THEOREM GroupImplementsDeliveryLog == Spec => DeliverySpec
<1>1. Init => Delivery!Init
    BY DEF Init, Delivery!Init
<1>2. IInv /\ [Next]_vars => [Delivery!Next]_(Delivery!vars)
    BY StepImplements
<1>. QED
    BY <1>1, <1>2, InvariantHolds, PTL DEF Spec, DeliverySpec, Delivery!Spec
=============================================================================
