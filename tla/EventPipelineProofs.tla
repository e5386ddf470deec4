------------------------- MODULE EventPipelineProofs -------------------------
(***************************************************************************)
(* Proofs about EventPipeline, for any records, events, batch sizes and    *)
(* number of faults: through crashes, stops and restarts no event below    *)
(* the committed offset is without an outcome, but for the captures that   *)
(* die in Sentry's queue, and the consumer and the processor together      *)
(* implement DeliveryLog read over outcomes.                               *)
(***************************************************************************)
EXTENDS EventPipeline, EventProcessorProofs

USE DEF goroutines, env, world, log, progress, sentry

-----------------------------------------------------------------------------
(* Outcomes                                                                *)

\* An event that has an outcome keeps it.
LEMMA AccountedStable ==
    ASSUME NEW r \in Records, WorldGrows(r), accounted(r)
    PROVE  accounted(r)'
<1>1. CASE complete(r) \/ givenUp(r)
    BY <1>1, OutcomesStable DEF accounted
<1>2. CASE "result" \in captured[r]
    BY <1>2 DEF WorldGrows, accounted
<1>. QED  BY <1>1, <1>2 DEF accounted

\* Every step of a goroutine adds to the world only.
LEMMA ProcessorGrows ==
    ASSUME IInv, processorStep \/ \E r \in Records : Age(r),
           NEW q \in Records
    PROVE  WorldGrows(q)
<1>1. ASSUME NEW r \in Records, recordStep(r)
      PROVE  WorldGrows(q)
    <2>1. CASE unmarshal(r)
        BY <2>1 DEF IInv, TypeOK, unmarshal, capture, WorldGrows
    <2>2. CASE enrich(r) \/ processEvent(r) \/ waitProducers(r)
        BY <2>2 DEF enrich, processEvent, waitProducers, WorldGrows
    <2>3. CASE FlagSubscriptionRefresh(r)
        BY <2>3 DEF FlagSubscriptionRefresh, WorldGrows
    <2>4. CASE ExpireCache(r)
        BY <2>4 DEF IInv, TypeOK, ExpireCache, capture, WorldGrows
    <2>5. CASE finish(r)
        BY <2>5 DEF IInv, TypeOK, finish, capture, WorldGrows
    <2>6. CASE ProduceToDeadLetterQueue(r)
        BY <2>6
        DEF IInv, TypeOK, ProduceToDeadLetterQueue, deadLetter, capture,
            WorldGrows
    <2>. QED
        BY <1>1, <2>1, <2>2, <2>3, <2>4, <2>5, <2>6 DEF recordStep
<1>2. ASSUME NEW r \in Records, messageStep(r)
      PROVE  WorldGrows(q)
    BY <1>2
    DEF messageStep, IInv, TypeOK, produceEvent, deadLetterMessage, deadLetter,
        capture, WorldGrows
<1>3. ASSUME NEW r \in Records, Age(r)
      PROVE  WorldGrows(q)
    BY <1>3 DEF Age, WorldGrows
<1>. QED  BY <1>1, <1>2, <1>3 DEF processorStep

\* The goroutines do not change which records the call is about.
LEMMA ProcessorKeepsBatch ==
    ASSUME processorStep \/ \E r \in Records : Age(r)
    PROVE  UNCHANGED batch
<1>1. ASSUME NEW r \in Records, recordStep(r) PROVE UNCHANGED batch
    BY <1>1
    DEF recordStep, unmarshal, enrich, processEvent, FlagSubscriptionRefresh,
        ExpireCache, waitProducers, finish, ProduceToDeadLetterQueue
<1>2. ASSUME NEW r \in Records, messageStep(r) PROVE UNCHANGED batch
    BY <1>2 DEF messageStep, produceEvent, deadLetterMessage
<1>. QED  BY <1>1, <1>2 DEF processorStep, Age

\* When ProcessEvents has returned, every record of the batch has an outcome.
LEMMA ReturnedAccounted ==
    ASSUME IInv, returned, NEW r \in batch
    PROVE  r \in Records /\ accounted(r)
<1>1. r \in Records
    BY DEF IInv, TypeOK
<1>. QED
    BY <1>1 DEF IInv, RecordInv, VerdictSound, returned, accounted

\* The offset a batch commits follows one of its records.
LEMMA CommitFollowsRecord ==
    ASSUME NEW records, NEW done \in SUBSET records,
           NEW next \in CommitRecords(commitableRecords(done, records))
    PROVE  \E o \in records : next = o + 1
BY DEF CommitRecords, commitableRecords, findMaxCommitableRecord, highest,
       belowUnprocessed

-----------------------------------------------------------------------------
(* PipelineInv is inductive: one lemma per action                          *)

\* A new process starts at offset 0, with no record and no outcome.
LEMMA PipelineInit_Inv == PipelineInit => PipelineInv
<1>. SUFFICES ASSUME PipelineInit PROVE PipelineInv
    OBVIOUS
<1>1. IInv
    BY Init_IInv DEF PipelineInit
<1>2. LogTyped /\ BatchAhead
    BY DEF PipelineInit, Init, LogTyped, BatchAhead, Losses
<1>3. PassedAccounted /\ CommittedAccounted
    BY EventsAssumption
    DEF PipelineInit, PassedAccounted, CommittedAccounted
<1>. QED  BY <1>1, <1>2, <1>3 DEF PipelineInv

\* A step that changes neither the world nor the committed offset changes no
\* outcome.
LEMMA SameOutcomes ==
    ASSUME UNCHANGED world, NEW r
    PROVE  accounted(r)' <=> accounted(r)
BY DEF accounted, complete, givenUp, delivered, refreshed

\* The next batch starts at the position, and the position moves past it.
LEMMA consume_Inv ==
    ASSUME PipelineInv, consume
    PROVE  PipelineInv'
<1>1. PICK last \in Records :
         /\ ProcessEvents({r \in Records : position <= r /\ r <= last})
         /\ position' = last + 1
         /\ {r \in Records : position <= r /\ r <= last} # {}
         /\ lost' = [r \in Records |->
                        IF /\ r \in {q \in Records : position <= q /\ q <= last}
                           /\ lost[r] = "now"
                        THEN "before" ELSE lost[r]]
    BY DEF consume
<1>2. /\ batch = {} /\ UNCHANGED world
      /\ batch' = {r \in Records : position <= r /\ r <= last}
    BY <1>1 DEF ProcessEvents
<1>3. last \in Nat /\ position \in Nat /\ committed \in Nat /\ position <= last
    <2>1. PICK r \in Records : position <= r /\ r <= last
        BY <1>1
    <2>2. r \in Nat /\ last \in Nat /\ position \in Nat /\ committed \in Nat
        BY EventsAssumption DEF PipelineInv, LogTyped
    <2>. QED  BY <2>1, <2>2
<1>4. IInv'
    BY <1>1, ProcessEvents_IInv DEF PipelineInv
<1>5. LogTyped'
    BY <1>1, <1>3 DEF PipelineInv, LogTyped, Losses, consume
<1>6. BatchAhead'
    BY <1>1, <1>2, <1>3, EventsAssumption
    DEF PipelineInv, BatchAhead, consume
<1>7. PassedAccounted'
    <2>. SUFFICES ASSUME NEW r \in Records, r < position'
                  PROVE  r \in batch' \/ accounted(r)' \/ lost'[r] = "now"
        BY DEF PassedAccounted
    <2>1. CASE r < position
        <3>1. accounted(r) \/ lost[r] = "now"
            BY <1>2, <2>1 DEF PipelineInv, PassedAccounted, consume
        <3>2. lost'[r] = lost[r]
            BY <1>1, <1>3, <2>1, EventsAssumption
        <3>. QED  BY <1>2, <3>1, <3>2, SameOutcomes
    <2>2. CASE ~(r < position)
        BY <1>1, <1>2, <1>3, <2>2, EventsAssumption
    <2>. QED  BY <2>1, <2>2
<1>8. CommittedAccounted'
    <2>. SUFFICES ASSUME NEW r \in Records, r < committed'
                  PROVE  accounted(r)' \/ lost'[r] = "now"
        BY DEF CommittedAccounted
    <2>1. r < committed /\ committed <= position
        BY DEF consume, PipelineInv, BatchAhead
    <2>2. lost'[r] = lost[r]
        BY <1>1, <1>3, <2>1, EventsAssumption
    <2>. QED
        BY <1>2, <2>1, <2>2, SameOutcomes DEF PipelineInv, CommittedAccounted
<1>. QED  BY <1>4, <1>5, <1>6, <1>7, <1>8 DEF PipelineInv

\* Goroutines add outcomes and move no offset.
LEMMA runs_Inv ==
    ASSUME PipelineInv, runs
    PROVE  PipelineInv'
<1>1. /\ processorStep \/ \E r \in Records : Age(r)
      /\ UNCHANGED <<committed, position, up, polling, faults, sentry>>
    BY DEF runs
<1>2. UNCHANGED batch
    BY <1>1, ProcessorKeepsBatch
<1>3. \A r \in Records : accounted(r) => accounted(r)'
    BY <1>1, ProcessorGrows, AccountedStable DEF PipelineInv
<1>4. IInv'
    BY <1>1, processorStep_IInv, environment_IInv DEF PipelineInv
<1>5. LogTyped' /\ BatchAhead'
    BY <1>1, <1>2 DEF PipelineInv, LogTyped, BatchAhead
<1>6. PassedAccounted' /\ CommittedAccounted'
    BY <1>1, <1>2, <1>3 DEF PipelineInv, PassedAccounted, CommittedAccounted
<1>. QED  BY <1>4, <1>5, <1>6 DEF PipelineInv

\* The goroutines are gone and the records start over.
LEMMA stopGoroutines_IInv ==
    ASSUME IInv, stopGoroutines, ctxDone' \in BOOLEAN,
           UNCHANGED <<topics, deadLetters, flagged, expired>>,
           captured' \in [Records -> SUBSET Traces]
    PROVE  IInv'
<1>0. SuccessResult \in Result /\ ~SuccessResult.retryable
    BY DEF SuccessResult, Result
<1>1. TypeOK'
    BY <1>0 DEF IInv, TypeOK, stopGoroutines, Stages
<1>2. ASSUME NEW r \in Records PROVE RecordInv(r)'
    BY <1>0
    DEF IInv, RecordInv, OutputsTracked, RefreshTracked, EffectsAsked,
        VerdictSound, stopGoroutines
<1>. QED  BY <1>1, <1>2 DEF IInv

\* The commit goes over records of the batch, which have outcomes, from a
\* position before them.
LEMMA processRecordsAndCommit_Inv ==
    ASSUME PipelineInv, processRecordsAndCommit
    PROVE  /\ PipelineInv'
           /\ \/ UNCHANGED committed
              \/ \E o \in Records :
                    /\ committed <= o /\ committed' = o + 1
                    /\ \A r \in Records :
                          r <= o => accounted(r) \/ lost[r] = "now"
<1>0. /\ up /\ returned /\ stopGoroutines /\ UNCHANGED world /\ batch' = {}
      /\ UNCHANGED <<ctxDone, position, up, polling, faults, sentry>>
    BY DEF processRecordsAndCommit, stopGoroutines
<1>1. \A r \in Records : r < position => accounted(r) \/ lost[r] = "now"
    BY <1>0, ReturnedAccounted DEF PipelineInv, PassedAccounted
<1>2. \/ UNCHANGED committed
      \/ \E o \in Records : /\ committed <= o /\ o < position
                            /\ committed' = o + 1
    <2>1. CASE committed' \in
                  CommitRecords(commitableRecords(processedRecords, batch))
        <3>1. processedRecords \in SUBSET batch
            BY DEF PipelineInv, IInv, TypeOK, RecordInv, VerdictSound
        <3>2. PICK o \in batch : committed' = o + 1
            BY <2>1, <3>1, CommitFollowsRecord
        <3>. QED
            BY <3>2 DEF PipelineInv, BatchAhead, IInv, TypeOK
    <2>. QED  BY <2>1 DEF processRecordsAndCommit
<1>3. \/ UNCHANGED committed
      \/ \E o \in Records :
            /\ committed <= o /\ committed' = o + 1
            /\ \A r \in Records : r <= o => accounted(r) \/ lost[r] = "now"
    BY <1>1, <1>2, EventsAssumption DEF PipelineInv, LogTyped
<1>4. IInv'
    BY <1>0, stopGoroutines_IInv DEF PipelineInv, IInv, TypeOK
<1>5. LogTyped' /\ BatchAhead'
    BY <1>0, <1>2, EventsAssumption
    DEF PipelineInv, LogTyped, BatchAhead
<1>6. PassedAccounted'
    BY <1>0, <1>1, SameOutcomes DEF PassedAccounted
<1>7. CommittedAccounted'
    BY <1>0, <1>3, SameOutcomes, EventsAssumption
    DEF PipelineInv, LogTyped, CommittedAccounted
<1>. QED  BY <1>3, <1>4, <1>5, <1>6, <1>7 DEF PipelineInv

\* The loss of Sentry's queue is recorded for every outcome it takes along.
LEMMA loseQueue_Outcomes ==
    ASSUME PipelineInv, loseQueue
    PROVE  /\ captured' \in [Records -> SUBSET Traces]
           /\ received' \in [Records -> SUBSET Traces]
           /\ lost' \in [Records -> Losses]
           /\ \A r \in Records :
                 accounted(r) => accounted(r)' \/ lost'[r] = "now"
           /\ \A r \in Records : lost'[r] \in {lost[r], "now"}
<1>1. PICK unsent :
         captured' = [r \in Records |->
                         {t \in captured[r] : <<r, t>> \notin unsent}]
    BY DEF loseQueue
<1>2. captured' \in [Records -> SUBSET Traces]
    BY <1>1 DEF PipelineInv, IInv, TypeOK
<1>3. lost' = [r \in Records |->
                 IF accounted(r) /\ ~accounted(r)' THEN "now" ELSE lost[r]]
    BY DEF loseQueue
<1>4. lost \in [Records -> Losses]
    BY DEF PipelineInv, LogTyped
<1>. QED  BY <1>2, <1>3, <1>4 DEF loseQueue, Losses

\* What the process held is gone; what it had done outside stays.
LEMMA Crash_Inv ==
    ASSUME PipelineInv, Crash
    PROVE  PipelineInv'
<1>0. /\ stopGoroutines /\ batch' = {} /\ ~up' /\ up' \in BOOLEAN
      /\ UNCHANGED <<topics, deadLetters, flagged, expired>>
      /\ UNCHANGED <<ctxDone, committed, position, polling>>
      /\ faults' \in Nat
    <2>1. faults' \in Nat
        BY DEF Crash, fault, PipelineInv, LogTyped
    <2>2. /\ stopGoroutines /\ loseQueue /\ up' = FALSE
          /\ UNCHANGED <<ctxDone, committed, position, polling>>
        BY DEF Crash
    <2>. QED  BY <2>1, <2>2 DEF stopGoroutines, loseQueue
<1>1. /\ captured' \in [Records -> SUBSET Traces]
      /\ received' \in [Records -> SUBSET Traces]
      /\ lost' \in [Records -> Losses]
      /\ \A r \in Records : accounted(r) => accounted(r)' \/ lost'[r] = "now"
      /\ \A r \in Records : lost'[r] \in {lost[r], "now"}
    BY loseQueue_Outcomes DEF Crash
<1>2. IInv'
    BY <1>0, <1>1, stopGoroutines_IInv DEF PipelineInv, IInv, TypeOK
<1>3. LogTyped' /\ BatchAhead' /\ PassedAccounted'
    BY <1>0, <1>1 DEF PipelineInv, LogTyped, BatchAhead, PassedAccounted
<1>4. CommittedAccounted'
    BY <1>0, <1>1 DEF PipelineInv, CommittedAccounted
<1>. QED  BY <1>2, <1>3, <1>4 DEF PipelineInv

\* A signal changes no record.
LEMMA Signal_Inv ==
    ASSUME PipelineInv, Signal
    PROVE  PipelineInv'
<1>0. /\ UNCHANGED <<batch, goroutines, processedRecords, aged, world,
                     committed, position, up, sentry>>
      /\ ctxDone' \in BOOLEAN /\ polling' \in BOOLEAN /\ faults' \in Nat
    BY DEF Signal, fault, PipelineInv, LogTyped
<1>1. IInv'
    <2>1. TypeOK'
        BY <1>0 DEF PipelineInv, IInv, TypeOK
    <2>2. ASSUME NEW r \in Records PROVE RecordInv(r)'
        <3>1. Untouched(r)
            BY <1>0 DEF Untouched
        <3>. QED  BY <3>1, UntouchedInv DEF PipelineInv, IInv
    <2>. QED  BY <2>1, <2>2 DEF IInv
<1>2. LogTyped' /\ BatchAhead'
    BY <1>0 DEF PipelineInv, LogTyped, BatchAhead
<1>3. PassedAccounted' /\ CommittedAccounted'
    BY <1>0, SameOutcomes
    DEF PipelineInv, PassedAccounted, CommittedAccounted
<1>. QED  BY <1>1, <1>2, <1>3 DEF PipelineInv

\* No record is in a goroutine when the process ends; Sentry's queue may end
\* before it is empty.
LEMMA Exit_Inv ==
    ASSUME PipelineInv, Exit
    PROVE  PipelineInv'
<1>0. /\ UNCHANGED <<batch, goroutines, processedRecords, env>>
      /\ UNCHANGED <<topics, deadLetters, flagged, expired>>
      /\ UNCHANGED <<committed, position, polling, faults>>
      /\ batch = {} /\ ~up' /\ up' \in BOOLEAN
    BY DEF Exit, loseQueue
<1>1. /\ captured' \in [Records -> SUBSET Traces]
      /\ received' \in [Records -> SUBSET Traces]
      /\ lost' \in [Records -> Losses]
      /\ \A r \in Records : accounted(r) => accounted(r)' \/ lost'[r] = "now"
      /\ \A r \in Records : lost'[r] \in {lost[r], "now"}
    BY loseQueue_Outcomes DEF Exit
<1>2. TypeOK'
    BY <1>0, <1>1 DEF PipelineInv, IInv, TypeOK
<1>3. ASSUME NEW r \in Records PROVE RecordInv(r)'
    <2>1. RecordInv(r) /\ stage[r] = "idle"
        BY <1>0 DEF PipelineInv, IInv, RecordInv, VerdictSound
    <2>. QED
        BY <1>0, <2>1
        DEF RecordInv, OutputsTracked, RefreshTracked, EffectsAsked,
            VerdictSound
<1>4. LogTyped' /\ BatchAhead' /\ PassedAccounted'
    BY <1>0, <1>1 DEF PipelineInv, LogTyped, BatchAhead, PassedAccounted
<1>5. CommittedAccounted'
    BY <1>0, <1>1 DEF PipelineInv, CommittedAccounted
<1>. QED  BY <1>2, <1>3, <1>4, <1>5 DEF PipelineInv, IInv

\* The new process starts where the committed records end.
LEMMA Restart_Inv ==
    ASSUME PipelineInv, Restart
    PROVE  PipelineInv'
<1>0. /\ UNCHANGED <<batch, goroutines, processedRecords, aged, world,
                     committed, faults, sentry>>
      /\ ctxDone' = FALSE /\ up' = TRUE /\ polling' = TRUE
      /\ position' = committed /\ batch = {}
    BY DEF Restart, startProcess, PipelineInv, BatchAhead
<1>1. IInv'
    <2>1. TypeOK'
        BY <1>0 DEF PipelineInv, IInv, TypeOK
    <2>2. ASSUME NEW r \in Records PROVE RecordInv(r)'
        <3>1. Untouched(r)
            BY <1>0 DEF Untouched
        <3>. QED  BY <3>1, UntouchedInv DEF PipelineInv, IInv
    <2>. QED  BY <2>1, <2>2 DEF IInv
<1>2. LogTyped' /\ BatchAhead'
    BY <1>0 DEF PipelineInv, LogTyped, BatchAhead
<1>3. PassedAccounted' /\ CommittedAccounted'
    BY <1>0, SameOutcomes
    DEF PipelineInv, PassedAccounted, CommittedAccounted
<1>. QED  BY <1>1, <1>2, <1>3 DEF PipelineInv

\* Every step of the goroutines, the consumer, the faults and the restart.
LEMMA PipelineNext_Inv ==
    PipelineInv /\ [PipelineNext]_pipelineVars => PipelineInv'
<1>. SUFFICES ASSUME PipelineInv, [PipelineNext]_pipelineVars
              PROVE  PipelineInv'
    OBVIOUS
<1>1. CASE UNCHANGED pipelineVars
    <2>0. UNCHANGED vars /\ UNCHANGED world
          /\ UNCHANGED <<batch, committed, position, up, polling, faults,
                         sentry>>
        BY <1>1 DEF pipelineVars, vars
    <2>1. IInv'
        BY <2>0, environment_IInv DEF PipelineInv
    <2>2. LogTyped' /\ BatchAhead'
        BY <2>0 DEF PipelineInv, LogTyped, BatchAhead
    <2>3. PassedAccounted' /\ CommittedAccounted'
        BY <2>0, SameOutcomes
        DEF PipelineInv, PassedAccounted, CommittedAccounted
    <2>. QED  BY <2>1, <2>2, <2>3 DEF PipelineInv
<1>. QED
    BY <1>1, consume_Inv, runs_Inv, processRecordsAndCommit_Inv, Crash_Inv,
       Signal_Inv, Exit_Inv, Restart_Inv
    DEF PipelineNext

-----------------------------------------------------------------------------
(* The theorems                                                            *)

\* The invariant of the pipeline, which contains the processor's: its goroutines
\* keep their promises through any number of batches, crashes and restarts.
THEOREM PipelineInvariant == PipelineSpec => []PipelineInv
    BY PipelineInit_Inv, PipelineNext_Inv, PTL DEF PipelineSpec

\* No event below the committed offset disappeared without a trace, unless its
\* one trace was in Sentry's queue when the last process that read it ended.
THEOREM CommittedIsAccounted == PipelineSpec => []CommittedAccounted
<1>1. PipelineInv => CommittedAccounted
    BY DEF PipelineInv
<1>. QED  BY <1>1, PipelineInvariant, PTL

-----------------------------------------------------------------------------
(* EventPipeline implements DeliveryLog over outcomes                      *)

\* Every step of the pipeline adds outcomes, commits over outcomes, or does
\* neither; the loss of the queue leaves the record of what it took.
LEMMA StepImplementsOutcomes ==
    ASSUME PipelineInv, [PipelineNext]_pipelineVars
    PROVE  [Outcomes!Next]_(Outcomes!vars)
<1>. DEFINE outcomes == {r \in Records : hadOutcome(r)}
<1>0. ASSUME UNCHANGED world, UNCHANGED lost PROVE outcomes' = outcomes
    BY <1>0, SameOutcomes DEF hadOutcome
<1>1. CASE processRecordsAndCommit
    <2>1. outcomes' = outcomes
        BY <1>0, <1>1 DEF processRecordsAndCommit
    <2>2. CASE UNCHANGED committed
        BY <2>1, <2>2 DEF Outcomes!vars
    <2>3. CASE \E o \in Records :
                  /\ committed <= o /\ committed' = o + 1
                  /\ \A r \in Records :
                        r <= o => accounted(r) \/ lost[r] = "now"
        <3>1. PICK o \in Records :
                 /\ committed <= o /\ committed' = o + 1
                 /\ \A r \in Records : r <= o => hadOutcome(r)
            BY <2>3 DEF hadOutcome
        <3>2. Outcomes!Commit(1)
            BY <2>1, <3>1 DEF Outcomes!Commit
        <3>. QED  BY <3>2 DEF Outcomes!Next
    <2>. QED  BY <1>1, <2>2, <2>3, processRecordsAndCommit_Inv
<1>2. CASE runs
    <2>1. \A r \in Records : accounted(r) => accounted(r)'
        BY <1>2, ProcessorGrows, AccountedStable DEF PipelineInv, runs
    <2>2. outcomes' = outcomes \cup outcomes' /\ outcomes' \in SUBSET Records
        BY <1>2, <2>1 DEF hadOutcome, runs
    <2>3. Outcomes!Attempt(1)
        BY <1>2, <2>2 DEF Outcomes!Attempt, runs
    <2>. QED  BY <2>3 DEF Outcomes!Next
<1>3. CASE Crash \/ Exit
    <2>1. loseQueue /\ UNCHANGED committed
        BY <1>3 DEF Crash, Exit
    <2>2. ASSUME NEW r \in Records PROVE hadOutcome(r)' <=> hadOutcome(r)
        <3>1. lost'[r] = IF accounted(r) /\ ~accounted(r)' THEN "now"
                         ELSE lost[r]
            BY <2>1 DEF loseQueue
        <3>2. accounted(r)' => accounted(r)
            <4>1. /\ UNCHANGED <<topics, deadLetters, flagged, expired>>
                  /\ captured'[r] \subseteq captured[r]
                BY <2>1 DEF loseQueue
            <4>. QED
                BY <4>1 DEF accounted, complete, givenUp, delivered, refreshed
        <3>. QED  BY <3>1, <3>2 DEF hadOutcome
    <2>3. outcomes' = outcomes
        BY <2>2
    <2>. QED  BY <2>1, <2>3 DEF Outcomes!vars
<1>4. CASE consume
    <2>1. UNCHANGED world /\ UNCHANGED committed
        BY <1>4 DEF consume, ProcessEvents
    <2>2. ASSUME NEW r \in Records
          PROVE  lost'[r] = "never" <=> lost[r] = "never"
        BY <1>4 DEF consume
    <2>3. outcomes' = outcomes
        BY <2>1, <2>2, SameOutcomes DEF hadOutcome
    <2>. QED  BY <2>1, <2>3 DEF Outcomes!vars
<1>5. CASE Signal \/ Restart \/ UNCHANGED pipelineVars
    <2>1. UNCHANGED world /\ UNCHANGED committed /\ UNCHANGED lost
        BY <1>5 DEF Signal, vars, Restart, startProcess, pipelineVars
    <2>. QED  BY <1>0, <2>1 DEF Outcomes!vars
<1>. QED  BY <1>1, <1>2, <1>3, <1>4, <1>5 DEF PipelineNext

\* The consumer and the processor together keep the promise of DeliveryLog over
\* outcomes: only the loss of Sentry's queue takes one back, and the committed
\* offset only advances, over events that came to one.
THEOREM PipelineImplementsDeliveryLog == PipelineSpec => OutcomeSpec
<1>1. PipelineInit => Outcomes!Init
    <2>. SUFFICES ASSUME PipelineInit PROVE Outcomes!Init
        OBVIOUS
    <2>1. ASSUME NEW r \in Records
          PROVE  hadOutcome(r) <=> asksNothing(Events[r])
        BY DEF PipelineInit, Init, hadOutcome, accounted, complete, givenUp,
               delivered, refreshed, asksNothing
    <2>. QED  BY <2>1 DEF PipelineInit, Outcomes!Init
<1>2. PipelineInv /\ [PipelineNext]_pipelineVars =>
         [Outcomes!Next]_(Outcomes!vars)
    BY StepImplementsOutcomes
<1>. QED
    BY <1>1, <1>2, PipelineInvariant, PTL
    DEF PipelineSpec, OutcomeSpec, Outcomes!Spec
=============================================================================
