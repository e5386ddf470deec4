---------------------------- MODULE EventPipeline ----------------------------
(***************************************************************************)
(* One partition end to end: the batches a partition consumer receives     *)
(* (config/kafka/consumer.go) run through ProcessEvents                    *)
(* (processors/events_processor), their longest processed prefix is        *)
(* committed, and the process may die or be told to stop at any step of    *)
(* either and restart from the committed offset.  Captured errors wait in  *)
(* the queue of Sentry's client, inside the process, and may die with it.  *)
(***************************************************************************)
EXTENDS EventProcessor, RecordCommit

CONSTANT MaxFaults   \* bound: SIGTERMs, and crashes that no record causes

ASSUME MaxFaultsAssumption == MaxFaults \in Nat

VARIABLES
    committed,   \* the offset a new process starts from
    position,    \* the offset the next batch starts from
    up,          \* the process runs
    polling,     \* poll may still hand over a batch
    faults,      \* SIGTERMs and crashes so far
    received,    \* received[r]: what Sentry had received of captured[r] when
                 \* this process started
    lost         \* lost[r]: did r lose its only outcome with Sentry's queue?

\* "now": and no process has read r since; "before": one has.
Losses == {"never", "now", "before"}

progress == <<committed, position, up, polling, faults>>
sentry == <<received, lost>>
log == <<progress, sentry>>
pipelineVars == <<vars, log>>

PipelineInit ==
    /\ Init
    /\ committed = 0
    /\ position = 0
    /\ up = TRUE
    /\ polling = TRUE
    /\ faults = 0
    /\ received = [r \in Records |-> {}]
    /\ lost = [r \in Records |-> "never"]

\* The worker receives the next records and calls ProcessEvents.  After a
\* SIGTERM this may be the batch poll was about to hand over, and no other.
consume ==
    /\ up
    /\ polling
    /\ \E last \in Records :
          LET records == {r \in Records : position <= r /\ r <= last} IN
          /\ records # {} /\ Cardinality(records) <= MaxBatch
          /\ ProcessEvents(records)
          /\ position' = last + 1
          /\ lost' = [r \in Records |->
                         IF r \in records /\ lost[r] = "now" THEN "before"
                         ELSE lost[r]]
    /\ polling' = ~ctxDone
    /\ UNCHANGED <<committed, up, faults, received>>

\* Nothing of the call is left in memory.
stopGoroutines ==
    /\ batch' = {}
    /\ stage' = [r \in Records |-> "idle"]
    /\ result' = [r \in Records |-> SuccessResult]
    /\ producing' = [r \in Records |-> {}]
    /\ failing' = [r \in Records |-> {}]
    /\ processedRecords' = {}
    /\ UNCHANGED aged

\* Plausible slip: the commit does not wait for ProcessEvents to return.
processRecordsAndCommit_early ==
    /\ up
    /\ batch # {}
    /\ committed' = position
    /\ stopGoroutines
    /\ UNCHANGED <<ctxDone, world, position, up, polling, faults, sentry>>

\* ProcessEvents has returned; the commit is accepted or fails.
processRecordsAndCommit ==
    /\ up
    /\ returned
    /\ \/ committed' \in
             CommitRecords(commitableRecords(processedRecords, batch))
       \/ UNCHANGED committed
    /\ stopGoroutines
    /\ UNCHANGED <<ctxDone, world, position, up, polling, faults, sentry>>

fault == faults < MaxFaults /\ faults' = faults + 1

-----------------------------------------------------------------------------
(* The end of the process                                                  *)

\* The event left a trace outside the process, or in Sentry's queue.
accounted(r) == complete(r) \/ givenUp(r) \/ "result" \in captured[r]

\* Sentry's queue ends with the process.  Its transport sends in the
\* background: any part of what it was given since the start may be unsent.
loseQueue ==
    /\ \E unsent \in SUBSET UNION {{r} \X (captured[r] \ received[r]) :
                                       r \in Records} :
          captured' = [r \in Records |->
                          {t \in captured[r] : <<r, t>> \notin unsent}]
    /\ received' = captured'
    /\ UNCHANGED <<topics, deadLetters, flagged, expired>>
    /\ lost' = [r \in Records |->
                   IF accounted(r) /\ ~accounted(r)' THEN "now" ELSE lost[r]]

\* The process dies, by itself or because a goroutine panicked: the deferred
\* Flush of main does not run.
Crash ==
    /\ up
    /\ \/ /\ \A r \in Records : stage[r] # "panic"
          /\ fault
       \/ /\ \E r \in Records : stage[r] = "panic"
          /\ UNCHANGED faults
    /\ up' = FALSE
    /\ stopGoroutines
    /\ loseQueue
    /\ UNCHANGED <<ctxDone, committed, position, polling>>

\* SIGTERM cancels the context; poll sees it before it has a batch, or while
\* it hands one over.
Signal ==
    /\ up /\ ~ctxDone
    /\ fault
    /\ ctxDone' = TRUE
    /\ polling' \in BOOLEAN
    /\ UNCHANGED <<batch, goroutines, processedRecords, aged, world, committed,
                   position, up, sentry>>

\* The worker has finished its batch: Start returns and the process ends.  The
\* deferred Flush sends the queue, or what it can of it in two seconds.
Exit ==
    /\ up /\ ctxDone
    /\ batch = {}
    /\ up' = FALSE
    /\ loseQueue
    /\ UNCHANGED <<batch, goroutines, processedRecords, env, committed,
                   position, polling, faults>>

startProcess ==
    /\ ~up
    /\ up' = TRUE
    /\ ctxDone' = FALSE
    /\ polling' = TRUE
    /\ UNCHANGED <<batch, goroutines, processedRecords, aged, world, committed,
                   faults, sentry>>

\* Plausible slip: the partition is read from its start again.
Restart_fromStart ==
    /\ startProcess
    /\ position' = 0

\* Plausible slip: the new process starts after the last polled record.
Restart_keepsPosition ==
    /\ startProcess
    /\ UNCHANGED position

\* A new consumer starts from the committed offset.
Restart ==
    /\ startProcess
    /\ position' = committed

\* Goroutines run while the process does.
runs ==
    /\ up
    /\ processorStep \/ \E r \in Records : Age(r)
    /\ UNCHANGED log

PipelineNext ==
    \/ consume
    \/ runs
    \/ processRecordsAndCommit
    \/ Crash
    \/ Signal
    \/ Exit
    \/ Restart

\* Goroutines, the end of a shutdown (a process that hangs in it is killed)
\* and the supervisor's restart are fair; crashes and signals are not.
PipelineFairness ==
    /\ WF_pipelineVars(consume)
    /\ WF_pipelineVars(processRecordsAndCommit)
    /\ WF_pipelineVars(Exit)
    /\ WF_pipelineVars(Restart)
    /\ \A r \in Records :
          /\ WF_pipelineVars(up /\ recordStep(r) /\ UNCHANGED log)
          /\ WF_pipelineVars(up /\ messageStep(r) /\ UNCHANGED log)

PipelineSpec ==
    PipelineInit /\ [][PipelineNext]_pipelineVars /\ PipelineFairness

-----------------------------------------------------------------------------
(* Properties                                                              *)

\* An event below the committed offset has had all its effects, is in the dead
\* letter queue, or was captured, whatever fails or crashes on the way; the
\* capture is gone only if it was the event's one trace and still in Sentry's
\* queue when the last process that read the event ended.
CommittedAccounted ==
    \A r \in Records : r < committed => accounted(r) \/ lost[r] = "now"

\* Every event comes to an outcome that lasts, also those after a crash, or was
\* passed over before its capture was lost, unless a record makes the process
\* panic again and again.
EveryEventAccounted ==
    \/ \A r \in Records :
          <>[](accounted(r) \/ (lost[r] = "now" /\ r < committed))
    \/ []<>(\E r \in Records : stage[r] = "panic")

-----------------------------------------------------------------------------
(* The inductive invariant behind CommittedAccounted and OutcomeSpec       *)

\* Types of the log's variables.
LogTyped ==
    /\ committed \in Nat /\ position \in Nat /\ faults \in Nat
    /\ up \in BOOLEAN /\ polling \in BOOLEAN
    /\ received \in [Records -> SUBSET Traces] /\ lost \in [Records -> Losses]

\* A process that is down holds nothing; one that is up is at or past the
\* committed offset, with its batch between the two.
BatchAhead ==
    /\ ~up => batch = {}
    /\ up => committed <= position
    /\ \A r \in batch : committed <= r /\ r < position

\* What a running process has left behind has an outcome, or lost it with an
\* earlier one, also where its commit failed or stopped early.
PassedAccounted ==
    up => \A r \in Records : r < position =>
             r \in batch \/ accounted(r) \/ lost[r] = "now"

PipelineInv ==
    IInv /\ LogTyped /\ BatchAhead /\ PassedAccounted /\ CommittedAccounted

-----------------------------------------------------------------------------
\* A reprocessed event without charges has no effect to wait for.
asksNothing(e) == messages(e) = {} /\ ~refreshes(e)

\* The event has an outcome, or had one that died with Sentry's queue.
hadOutcome(r) == accounted(r) \/ lost[r] # "never"

\* DeliveryLog with a stronger reading: what was attempted is what came to an
\* outcome, not what was handed to the processor.
Outcomes == INSTANCE DeliveryLog WITH
    Partitions <- {1},
    Vacuous <- {r \in Records : asksNothing(Events[r])},
    committed <- [p \in {1} |-> committed],
    attempted <- [p \in {1} |-> {r \in Records : hadOutcome(r)}]

\* The consumer and the processor together keep the promise of DeliveryLog in
\* that reading, through crashes, stops and restarts: only the loss of Sentry's
\* queue takes an outcome back, and the committed offset only advances, over
\* events that came to one.
OutcomeSpec == Outcomes!Spec
=============================================================================
