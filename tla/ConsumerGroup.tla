---------------------------- MODULE ConsumerGroup ----------------------------
(***************************************************************************)
(* The Kafka consumer group of the events processor                        *)
(* (events-processor/config/kafka/consumer.go): one poll goroutine per     *)
(* process that hands fetched batches to one goroutine per assigned        *)
(* partition, which processes a batch, then commits its longest processed  *)
(* prefix; the rebalance callbacks; the graceful shutdown; crashes.        *)
(*                                                                         *)
(* The broker and the franz-go client are modelled from the way the code   *)
(* uses them (external): group membership, the BlockRebalanceOnPoll block, *)
(* committed offsets and the client's fetch positions.                     *)
(***************************************************************************)
EXTENDS RecordCommit

CONSTANTS
    Members,       \* processes of the group (a process is one group session)
    NoMember,      \* the owner of an unassigned partition
    Partitions,    \* partitions of the consumed topic
    Records,       \* offsets that hold a record, the same in each partition
    Failing,       \* offsets whose processing may end in a retryable failure
    MaxFaults      \* bound: how often each kind of fault may happen

ASSUME NoMemberAssumption == NoMember \notin Members
ASSUME RecordsAssumption == Records \subseteq Nat /\ Failing \subseteq Records

FaultKinds == {"revoke", "evict", "sigterm", "crash"}

ASSUME BoundsAssumption == MaxFaults \in [FaultKinds -> Nat]

VARIABLES
    \* the broker
    committed,     \* committed[p]: next offset a new consumer of p starts from
    owner,         \* owner[p]: the member whose commits on p are accepted
    \* the process: Start and poll goroutines, franz-go client
    main,          \* main[m]: where Start is
    poller,        \* poller[m]: where poll is
    held,          \* held[m]: the poll still blocks rebalances
    fetches,       \* fetches[m][p]: polled records not yet sent to a worker
    position,      \* position[m][p]: next offset the client fetches
    revoking,      \* revoking[m]: partitions lost must be called with
    waiting,       \* waiting[m]: partitions whose done the running lost awaits
    draining,      \* draining[m]: partitions gracefulShutdown waits for
    \* cg.consumers and the PartitionConsumers
    consumers,     \* consumers[m]: keys of cg.consumers
    quit,          \* quit[m]: partitions whose quit channel is closed
    worker,        \* worker[m][p]: where consume is
    batch,         \* batch[m][p]: the batch the worker holds
    processed,     \* processed[m][p]: what processRecords returned
    \* history
    attempted,     \* attempted[p]: records handed to processRecords
    settled,       \* settled[p]: records processRecords returned as processed
    \* bounded environment
    faults         \* faults[kind]: how often it has happened

broker == <<committed, owner>>
channel == <<consumers, quit>>
work == <<worker, batch, processed>>
rebalance == <<revoking, waiting>>
history == <<attempted, settled>>

vars == <<broker, main, poller, held, fetches, position, rebalance, draining,
          channel, work, history, faults>>

MainStates == {"serving", "cancelled", "draining", "closing", "exited",
               "crashed"}
PollerStates == {"idle", "fetched", "sending", "stopped"}
WorkerStates == {"none", "select", "process", "commit", "done"}

\* ctx.Done() of the context Start and poll share is closed (SIGTERM).
ctxDone(m) == main[m] \in {"cancelled", "draining", "closing"}

alive(m) == main[m] \notin {"exited", "crashed"}

\* The environment may do this to the group a bounded number of times.
fault(kind) ==
    /\ faults[kind] < MaxFaults[kind]
    /\ faults' = [faults EXCEPT ![kind] = @ + 1]

\* A worker that holds a batch.
busy(m, p) == worker[m][p] \in {"process", "commit"}

Init ==
    /\ committed = [p \in Partitions |-> 0]
    /\ owner = [p \in Partitions |-> NoMember]
    /\ main = [m \in Members |-> "serving"]
    /\ poller = [m \in Members |-> "idle"]
    /\ held = [m \in Members |-> FALSE]
    /\ fetches = [m \in Members |-> [p \in Partitions |-> {}]]
    /\ position = [m \in Members |-> [p \in Partitions |-> 0]]
    /\ revoking = [m \in Members |-> {}]
    /\ waiting = [m \in Members |-> {}]
    /\ draining = [m \in Members |-> {}]
    /\ consumers = [m \in Members |-> {}]
    /\ quit = [m \in Members |-> {}]
    /\ worker = [m \in Members |-> [p \in Partitions |-> "none"]]
    /\ batch = [m \in Members |-> [p \in Partitions |-> {}]]
    /\ processed = [m \in Members |-> [p \in Partitions |-> {}]]
    /\ attempted = [p \in Partitions |-> {}]
    /\ settled = [p \in Partitions |-> {}]
    /\ faults = [kind \in FaultKinds |-> 0]

-----------------------------------------------------------------------------
(* poll and pollRecords                                                    *)

\* The records of one fetch: those from the position up to some offset.
fetched(m, p, upTo) == {o \in Records : position[m][p] <= o /\ o < upTo}

\* PollRecords returns records of some of the member's partitions; from here
\* on rebalances are blocked.  It does not start while a callback runs.
pollRecords(m) ==
    /\ main[m] = "serving"
    /\ poller[m] = "idle"
    /\ waiting[m] = {}
    /\ \E upTo \in [Partitions -> {0} \cup {o + 1 : o \in Records}] :
          /\ \A p \in Partitions \ consumers[m] : upTo[p] = 0
          /\ \E p \in consumers[m] : fetched(m, p, upTo[p]) # {}
          /\ fetches' = [fetches EXCEPT ![m] =
                            [p \in Partitions |-> fetched(m, p, upTo[p])]]
          /\ position' = [position EXCEPT ![m] =
                            [p \in Partitions |->
                                IF fetched(m, p, upTo[p]) = {}
                                THEN position[m][p] ELSE upTo[p]]]
    /\ poller' = [poller EXCEPT ![m] = "fetched"]
    /\ held' = [held EXCEPT ![m] = TRUE]
    /\ UNCHANGED <<broker, main, rebalance, draining, channel, work, history,
                   faults>>

\* The select of poll, or PollRecords itself, sees the cancelled context: no
\* record was polled and the poll blocks nothing.
pollStop(m) ==
    /\ ctxDone(m)
    /\ poller[m] = "idle"
    /\ poller' = [poller EXCEPT ![m] = "stopped"]
    /\ UNCHANGED <<broker, main, held, fetches, position, rebalance, draining,
                   channel, work, history, faults>>

\* After a successful fetch the context is checked again; a cancelled one
\* makes pollRecords return at once, without AllowRebalance.
checkContext(m) ==
    /\ poller[m] = "fetched"
    /\ IF ctxDone(m)
       THEN /\ poller' = [poller EXCEPT ![m] = "stopped"]
            /\ fetches' = [fetches EXCEPT ![m] = [p \in Partitions |-> {}]]
       ELSE /\ poller' = [poller EXCEPT ![m] = "sending"]
            /\ UNCHANGED fetches
    /\ UNCHANGED <<broker, main, held, position, rebalance, draining, channel,
                   work, history, faults>>

\* Plausible slip: a select with a default, which drops what a busy worker
\* does not take.
send_nonBlocking(m, p) ==
    /\ poller[m] = "sending"
    /\ p \in consumers[m]
    /\ fetches[m][p] # {}
    /\ IF worker[m][p] = "select"
       THEN /\ worker' = [worker EXCEPT ![m][p] = "process"]
            /\ batch' = [batch EXCEPT ![m][p] = fetches[m][p]]
       ELSE UNCHANGED <<worker, batch>>
    /\ fetches' = [fetches EXCEPT ![m][p] = {}]
    /\ UNCHANGED <<broker, main, poller, held, position, rebalance, draining,
                   channel, processed, history, faults>>

\* consumer.records <- p.Records: an unbuffered send, so a step of the poller
\* and of the worker's select together.
send(m, p) ==
    /\ poller[m] = "sending"
    /\ p \in consumers[m]
    /\ fetches[m][p] # {}
    /\ worker[m][p] = "select"
    /\ worker' = [worker EXCEPT ![m][p] = "process"]
    /\ batch' = [batch EXCEPT ![m][p] = fetches[m][p]]
    /\ fetches' = [fetches EXCEPT ![m][p] = {}]
    /\ UNCHANGED <<broker, main, poller, held, position, rebalance, draining,
                   channel, processed, history, faults>>

\* ... or the cancelled context wins and the records are dropped.
sendCancelled(m, p) ==
    /\ poller[m] = "sending"
    /\ ctxDone(m)
    /\ fetches[m][p] # {}
    /\ fetches' = [fetches EXCEPT ![m][p] = {}]
    /\ UNCHANGED <<broker, main, poller, held, position, rebalance, draining,
                   channel, work, history, faults>>

\* Plausible slip: AllowRebalance is left out.
AllowRebalance_forgotten(m) ==
    /\ poller[m] = "sending"
    /\ \A p \in consumers[m] : fetches[m][p] = {}
    /\ poller' = [poller EXCEPT ![m] = "idle"]
    /\ UNCHANGED <<broker, main, held, fetches, position, rebalance, draining,
                   channel, work, history, faults>>

\* Plausible slip: rebalances are allowed before the records are sent.
AllowRebalance_early(m) ==
    /\ poller[m] = "sending"
    /\ \/ /\ held[m]
          /\ UNCHANGED <<fetches, poller>>
       \/ /\ \A p \in consumers[m] : fetches[m][p] = {}
          /\ fetches' = [fetches EXCEPT ![m] = [p \in Partitions |-> {}]]
          /\ poller' = [poller EXCEPT ![m] = "idle"]
    /\ held' = [held EXCEPT ![m] = FALSE]
    /\ UNCHANGED <<broker, main, position, rebalance, draining, channel, work,
                   history, faults>>

\* Everything polled for a known consumer was sent: the next iteration may
\* start and rebalances may run.
AllowRebalance(m) ==
    /\ poller[m] = "sending"
    /\ \A p \in consumers[m] : fetches[m][p] = {}
    /\ fetches' = [fetches EXCEPT ![m] = [p \in Partitions |-> {}]]
    /\ poller' = [poller EXCEPT ![m] = "idle"]
    /\ held' = [held EXCEPT ![m] = FALSE]
    /\ UNCHANGED <<broker, main, position, rebalance, draining, channel, work,
                   history, faults>>

-----------------------------------------------------------------------------
(* consume and processRecordsAndCommit                                     *)

\* The select of consume takes the closed quit channel; done is closed.  (Its
\* context is the client's own, cancelled only once Close has stopped all.)
consumeQuit(m, p) ==
    /\ worker[m][p] = "select"
    /\ p \in quit[m]
    /\ worker' = [worker EXCEPT ![m][p] = "done"]
    /\ UNCHANGED <<broker, main, poller, held, fetches, position, rebalance,
                   draining, channel, batch, processed, history, faults>>

\* processRecords returns the records that are processed: all but some of
\* those that may fail retryably.
processRecords(m, p) ==
    /\ worker[m][p] = "process"
    /\ \E failed \in SUBSET (batch[m][p] \cap Failing) :
          /\ processed' = [processed EXCEPT ![m][p] = batch[m][p] \ failed]
          /\ settled' = [settled EXCEPT ![p] = @ \cup (batch[m][p] \ failed)]
    /\ attempted' = [attempted EXCEPT ![p] = @ \cup batch[m][p]]
    /\ worker' = [worker EXCEPT ![m][p] = "commit"]
    /\ UNCHANGED <<broker, main, poller, held, fetches, position, rebalance,
                   draining, channel, batch, faults>>

\* Plausible slip: the batch is committed before it is processed.
commit_first(m, p) ==
    /\ busy(m, p)
    /\ \/ /\ worker[m][p] = "process"
          /\ owner[p] = m
          /\ \E next \in CommitRecords(batch[m][p]) :
                committed' = [committed EXCEPT ![p] = next]
          /\ UNCHANGED work
       \/ /\ worker[m][p] = "commit"
          /\ worker' = [worker EXCEPT ![m][p] = "select"]
          /\ batch' = [batch EXCEPT ![m][p] = {}]
          /\ processed' = [processed EXCEPT ![m][p] = {}]
          /\ UNCHANGED committed
    /\ UNCHANGED <<owner, main, poller, held, fetches, position, rebalance,
                   draining, channel, history, faults>>

\* Plausible slip: offsets are committed outside the group's generation.
commit_unfenced(m, p) ==
    LET commitable == commitableRecords(processed[m][p], batch[m][p]) IN
    /\ worker[m][p] = "commit"
    /\ \/ \E next \in CommitRecords(commitable) :
             committed' = [committed EXCEPT ![p] = next]
       \/ UNCHANGED committed
    /\ worker' = [worker EXCEPT ![m][p] = "select"]
    /\ batch' = [batch EXCEPT ![m][p] = {}]
    /\ processed' = [processed EXCEPT ![m][p] = {}]
    /\ UNCHANGED <<owner, main, poller, held, fetches, position, rebalance,
                   draining, channel, history, faults>>

\* The end of processRecordsAndCommit.  The broker accepts the commit of the
\* partition's owner; any other commit, and a commit that fails on the way, is
\* an error that is captured and not retried.
commit(m, p) ==
    LET commitable == commitableRecords(processed[m][p], batch[m][p]) IN
    /\ worker[m][p] = "commit"
    /\ \/ /\ owner[p] = m
          /\ \E next \in CommitRecords(commitable) :
                committed' = [committed EXCEPT ![p] = next]
       \/ UNCHANGED committed
    /\ worker' = [worker EXCEPT ![m][p] = "select"]
    /\ batch' = [batch EXCEPT ![m][p] = {}]
    /\ processed' = [processed EXCEPT ![m][p] = {}]
    /\ UNCHANGED <<owner, main, poller, held, fetches, position, rebalance,
                   draining, channel, history, faults>>

-----------------------------------------------------------------------------
(* Rebalance callbacks.  They never run while a poll is held.              *)

\* The callback starts a worker, and the client fetches the partition from an
\* offset.  An evicted member learns of its loss before it joins again.
startConsumer(m, p, offset) ==
    /\ main[m] \in {"serving", "cancelled", "draining"}
    /\ ~held[m]
    /\ owner[p] = NoMember
    /\ \A q \in consumers[m] : owner[q] = m
    /\ revoking[m] = {} /\ waiting[m] = {}
    /\ owner' = [owner EXCEPT ![p] = m]
    /\ position' = [position EXCEPT ![m][p] = offset]
    /\ consumers' = [consumers EXCEPT ![m] = @ \cup {p}]
    /\ quit' = [quit EXCEPT ![m] = @ \ {p}]
    /\ worker' = [worker EXCEPT ![m][p] = "select"]
    /\ UNCHANGED <<committed, main, poller, held, fetches, rebalance, draining,
                   batch, processed, history, faults>>

\* Plausible slip: the committed offset is taken for the last record's.
assigned_fromLast(m, p) == startConsumer(m, p, committed[p] - 1)

\* Plausible slip: a partition without a commit is read from its end.
assigned_fromEnd(m, p) ==
    \E o \in Records :
        startConsumer(m, p, IF committed[p] = 0 THEN o + 1 ELSE committed[p])

\* The group assigns an unowned partition, consumed from the committed offset.
assigned(m, p) == startConsumer(m, p, committed[p])

\* The group asks a member to give partitions back.
RequestRevoke(m, parts) ==
    /\ alive(m) /\ main[m] # "closing"
    /\ fault("revoke")
    /\ revoking[m] = {} /\ waiting[m] = {}
    /\ parts # {} /\ parts \subseteq consumers[m]
    /\ \A p \in parts : owner[p] = m
    /\ revoking' = [revoking EXCEPT ![m] = parts]
    /\ UNCHANGED <<broker, main, poller, held, fetches, position, waiting,
                   draining, channel, work, history>>

\* The group evicts a member that did not answer in time (its poll was held
\* too long, or its heartbeats were late): others may own its partitions.
Evict(m) ==
    /\ alive(m)
    /\ fault("evict")
    /\ \E p \in Partitions : owner[p] = m
    /\ owner' = [p \in Partitions |-> IF owner[p] = m THEN NoMember
                                                      ELSE owner[p]]
    /\ UNCHANGED <<committed, main, poller, held, fetches, position, rebalance,
                   draining, channel, work, history>>

\* An evicted member learns of it: OnPartitionsLost for all it lost.
LearnLost(m) ==
    /\ alive(m)
    /\ revoking[m] = {} /\ waiting[m] = {}
    /\ {p \in consumers[m] : owner[p] # m} # {}
    /\ revoking' = [revoking EXCEPT ![m] = {p \in consumers[m] : owner[p] # m}]
    /\ UNCHANGED <<broker, main, poller, held, fetches, position, waiting,
                   draining, channel, work, history, faults>>

\* lost removes the consumers, closes their quit channels and waits for them.
lost(m) ==
    /\ revoking[m] # {}
    /\ ~held[m]
    /\ consumers' = [consumers EXCEPT ![m] = @ \ revoking[m]]
    /\ quit' = [quit EXCEPT ![m] = @ \cup revoking[m]]
    /\ waiting' = [waiting EXCEPT ![m] = revoking[m]]
    /\ revoking' = [revoking EXCEPT ![m] = {}]
    /\ position' = [position EXCEPT ![m] =
                       [p \in Partitions |-> IF p \in revoking[m]
                                             THEN 0 ELSE position[m][p]]]
    /\ UNCHANGED <<broker, main, poller, held, fetches, draining, work,
                   history, faults>>

\* Plausible slip: the errgroup is not waited for.  (The slot of a worker that
\* still runs is kept.)
lostReturn_noWait(m) ==
    /\ waiting[m] # {}
    /\ owner' = [p \in Partitions |-> IF p \in waiting[m] /\ owner[p] = m
                                      THEN NoMember ELSE owner[p]]
    /\ waiting' = [waiting EXCEPT ![m] = {}]
    /\ UNCHANGED <<committed, main, poller, held, fetches, position, revoking,
                   draining, channel, work, history, faults>>

\* The deferred Wait returns once every worker is done; only then does the
\* client let the group give the partitions to someone else.  A shutdown that
\* waits for one of these very consumers has its done channel too.
lostReturn(m) ==
    /\ waiting[m] # {}
    /\ \A p \in waiting[m] : worker[m][p] = "done"
    /\ owner' = [p \in Partitions |-> IF p \in waiting[m] /\ owner[p] = m
                                      THEN NoMember ELSE owner[p]]
    /\ worker' = [worker EXCEPT ![m] =
                     [p \in Partitions |-> IF p \in waiting[m]
                                           THEN "none" ELSE worker[m][p]]]
    /\ quit' = [quit EXCEPT ![m] = @ \ waiting[m]]
    /\ draining' = [draining EXCEPT ![m] = @ \ waiting[m]]
    /\ waiting' = [waiting EXCEPT ![m] = {}]
    /\ UNCHANGED <<committed, main, poller, held, fetches, position, revoking,
                   consumers, batch, processed, history, faults>>

-----------------------------------------------------------------------------
(* Start, gracefulShutdown, crashes and restarts                           *)

\* SIGTERM cancels the context.
Signal(m) ==
    /\ main[m] = "serving"
    /\ fault("sigterm")
    /\ main' = [main EXCEPT ![m] = "cancelled"]
    /\ UNCHANGED <<broker, poller, held, fetches, position, rebalance,
                   draining, channel, work, history>>

\* Plausible slip: the quit channels are not closed.
gracefulShutdown_noQuit(m) ==
    /\ main[m] = "cancelled"
    /\ main' = [main EXCEPT ![m] = "draining"]
    /\ draining' = [draining EXCEPT ![m] = consumers[m]]
    /\ UNCHANGED <<broker, poller, held, fetches, position, rebalance,
                   channel, work, history, faults>>

\* Plausible slip: the consumers are removed from the map while callbacks run.
gracefulShutdown_emptiesMap(m) ==
    /\ main[m] = "cancelled"
    /\ main' = [main EXCEPT ![m] = "draining"]
    /\ draining' = [draining EXCEPT ![m] = consumers[m]]
    /\ quit' = [quit EXCEPT ![m] = @ \cup consumers[m]]
    /\ consumers' = [consumers EXCEPT ![m] = {}]
    /\ UNCHANGED <<broker, poller, held, fetches, position, rebalance,
                   work, history, faults>>

\* gracefulShutdown closes the quit channel of every consumer of the map.
gracefulShutdown(m) ==
    /\ main[m] = "cancelled"
    /\ main' = [main EXCEPT ![m] = "draining"]
    /\ draining' = [draining EXCEPT ![m] = consumers[m]]
    /\ quit' = [quit EXCEPT ![m] = @ \cup consumers[m]]
    /\ UNCHANGED <<broker, poller, held, fetches, position, rebalance,
                   consumers, work, history, faults>>

\* Plausible slip: the client is closed without waiting for the workers, and
\* nothing is revoked.
closeClient_noWait(m) ==
    /\ main[m] = "draining"
    /\ revoking[m] = {} /\ waiting[m] = {}
    /\ main' = [main EXCEPT ![m] = "closing"]
    /\ draining' = [draining EXCEPT ![m] = {}]
    /\ consumers' = [consumers EXCEPT ![m] = {}]
    /\ UNCHANGED <<broker, poller, held, fetches, position, rebalance, quit,
                   work, history, faults>>

\* Every consumer it saw is done: client.Close() leaves the group, which
\* revokes what is left.
closeClient(m) ==
    /\ main[m] = "draining"
    /\ \A p \in draining[m] : worker[m][p] = "done"
    /\ revoking[m] = {} /\ waiting[m] = {}
    /\ main' = [main EXCEPT ![m] = "closing"]
    /\ draining' = [draining EXCEPT ![m] = {}]
    /\ revoking' = [revoking EXCEPT ![m] = consumers[m]]
    /\ UNCHANGED <<broker, poller, held, fetches, position, waiting, channel,
                   work, history, faults>>

\* Close returns after the revocation; it hangs while a poll is held.
StartReturn(m) ==
    /\ main[m] = "closing"
    /\ revoking[m] = {} /\ waiting[m] = {} /\ consumers[m] = {}
    /\ ~held[m]
    /\ main' = [main EXCEPT ![m] = "exited"]
    /\ poller' = [poller EXCEPT ![m] = "stopped"]
    /\ UNCHANGED <<broker, held, fetches, position, rebalance, draining,
                   channel, work, history, faults>>

\* The process dies at any point: killed, or the panic on a fetch error.  The
\* broker keeps its partitions assigned until its session expires.
Crash(m) ==
    /\ alive(m)
    /\ fault("crash")
    /\ main' = [main EXCEPT ![m] = "crashed"]
    /\ poller' = [poller EXCEPT ![m] = "stopped"]
    /\ held' = [held EXCEPT ![m] = FALSE]
    /\ fetches' = [fetches EXCEPT ![m] = [p \in Partitions |-> {}]]
    /\ position' = [position EXCEPT ![m] = [p \in Partitions |-> 0]]
    /\ revoking' = [revoking EXCEPT ![m] = {}]
    /\ waiting' = [waiting EXCEPT ![m] = {}]
    /\ draining' = [draining EXCEPT ![m] = {}]
    /\ consumers' = [consumers EXCEPT ![m] = {}]
    /\ quit' = [quit EXCEPT ![m] = {}]
    /\ worker' = [worker EXCEPT ![m] = [p \in Partitions |-> "none"]]
    /\ batch' = [batch EXCEPT ![m] = [p \in Partitions |-> {}]]
    /\ processed' = [processed EXCEPT ![m] = [p \in Partitions |-> {}]]
    /\ UNCHANGED <<broker, history>>

SessionExpire(m) ==
    /\ main[m] = "crashed"
    /\ \E p \in Partitions : owner[p] = m
    /\ owner' = [p \in Partitions |-> IF owner[p] = m THEN NoMember
                                                      ELSE owner[p]]
    /\ UNCHANGED <<committed, main, poller, held, fetches, position, rebalance,
                   draining, channel, work, history, faults>>

\* A new process joins once the session of the old one is over.
Restart(m) ==
    /\ ~alive(m)
    /\ \A p \in Partitions : owner[p] # m
    /\ main' = [main EXCEPT ![m] = "serving"]
    /\ poller' = [poller EXCEPT ![m] = "idle"]
    /\ UNCHANGED <<broker, held, fetches, position, rebalance, draining,
                   channel, work, history, faults>>

-----------------------------------------------------------------------------

pollStep(m) ==
    \/ pollRecords(m)
    \/ pollStop(m)
    \/ checkContext(m)
    \/ AllowRebalance(m)
    \/ \E p \in Partitions : send(m, p) \/ sendCancelled(m, p)

workerStep(m, p) == consumeQuit(m, p) \/ processRecords(m, p) \/ commit(m, p)

callbackStep(m) == LearnLost(m) \/ lost(m) \/ lostReturn(m)

shutdownStep(m) == gracefulShutdown(m) \/ closeClient(m) \/ StartReturn(m)

faultStep(m) ==
    \/ \E parts \in SUBSET Partitions : RequestRevoke(m, parts)
    \/ Evict(m)
    \/ Signal(m)
    \/ Crash(m)

Next ==
    \E m \in Members :
        \/ pollStep(m)
        \/ \E p \in Partitions : workerStep(m, p) \/ assigned(m, p)
        \/ callbackStep(m)
        \/ shutdownStep(m)
        \/ faultStep(m)
        \/ SessionExpire(m)
        \/ Restart(m)

Spec == Init /\ [][Next]_vars

\* Goroutines that can run do; the client runs its callbacks; the broker
\* assigns an unowned partition to a member that serves, and expires dead
\* sessions; the supervisor restarts the process.  Nothing is assumed about
\* faults and signals.
Fairness ==
    /\ \A m \in Members :
          /\ WF_vars(pollStep(m))
          /\ WF_vars(callbackStep(m))
          /\ WF_vars(shutdownStep(m))
          /\ WF_vars(SessionExpire(m))
          /\ WF_vars(Restart(m))
          /\ \A p \in Partitions : WF_vars(workerStep(m, p))
    /\ \A p \in Partitions :
          WF_vars(\E m \in Members : main[m] = "serving" /\ assigned(m, p))

FairSpec == Spec /\ Fairness

-----------------------------------------------------------------------------
(* Properties                                                              *)

\* Types of all variables.
TypeOK ==
    /\ committed \in [Partitions -> Nat]
    /\ owner \in [Partitions -> Members \cup {NoMember}]
    /\ main \in [Members -> MainStates]
    /\ poller \in [Members -> PollerStates]
    /\ held \in [Members -> BOOLEAN]
    /\ fetches \in [Members -> [Partitions -> SUBSET Records]]
    /\ position \in [Members -> [Partitions -> Nat]]
    /\ revoking \in [Members -> SUBSET Partitions]
    /\ waiting \in [Members -> SUBSET Partitions]
    /\ draining \in [Members -> SUBSET Partitions]
    /\ consumers \in [Members -> SUBSET Partitions]
    /\ quit \in [Members -> SUBSET Partitions]
    /\ worker \in [Members -> [Partitions -> WorkerStates]]
    /\ batch \in [Members -> [Partitions -> SUBSET Records]]
    /\ processed \in [Members -> [Partitions -> SUBSET Records]]
    /\ attempted \in [Partitions -> SUBSET Records]
    /\ settled \in [Partitions -> SUBSET Records]
    /\ faults \in [FaultKinds -> Nat]

\* At least once: no record below a committed offset was never handed to the
\* processor, across rebalances, evictions, shutdowns and crashes.
CommittedAttempted ==
    \A p \in Partitions : \A o \in Records :
        o < committed[p] => o \in attempted[p]

\* lost dereferences cg.consumers[tp] without a check: whenever the client may
\* call it, every partition it passes has an entry.
LostFindsConsumer == \A m \in Members : revoking[m] \subseteq consumers[m]

\* The point of waiting for done in lost: unless the broker evicted a member,
\* no two processes ever hold batches of the same partition, so no record is
\* processed twice at the same time.
ExclusiveWork ==
    faults["evict"] = 0 =>
        \A p \in Partitions : \A m, n \in Members :
            busy(m, p) /\ busy(n, p) => m = n

\* When Start returns nothing of the group is left running: no goroutine holds
\* a batch, no rebalance is blocked, and the broker counts the member out.
ExitedQuiescent ==
    \A m \in Members : main[m] = "exited" =>
        /\ ~held[m]
        /\ \A p \in Partitions : worker[m][p] = "none" /\ owner[p] # m

\* A committed offset never moves back, whoever commits: a late commit of a
\* previous owner cannot undo the progress of the next one.
CommitMonotonic ==
    [][\A p \in Partitions : committed[p] <= committed'[p]]_vars

\* A commit never passes a record of its own batch that was not processed
\* (consumer.go: "Ensure we are not committing records that were not processed
\* and can be re-consumed").
CommitStopsAtFirstFailure ==
    [][\A p \in Partitions : committed'[p] # committed[p] =>
          \E m \in Members :
              /\ worker[m][p] = "commit"
              /\ \A o \in batch[m][p] \ processed[m][p] :
                    committed'[p] <= o]_vars

\* Claimed by processor.go of a retryable failure ("we should avoid commiting
\* the record, It will be consumed again and reprocessed"): no record is below
\* the committed offset before it was returned as processed.
CommittedSettled ==
    \A p \in Partitions : \A o \in Records :
        o < committed[p] => o \in settled[p]

\* Every record is eventually handed to the processor, whatever rebalances,
\* evictions and crashes happen on the way.
EveryRecordAttempted ==
    \A p \in Partitions : \A o \in Records : <>(o \in attempted[p])

\* A revocation always gets through: the poll that blocks it ends, and the
\* workers it waits for finish their batch and stop.
RevocationCompletes ==
    \A m \in Members : \A p \in Partitions :
        p \in revoking[m] ~> p \notin revoking[m] \cup waiting[m]

\* Claimed by the end of Start ("Consumer group shutdown is complete"): after
\* a SIGTERM, Start returns.
ShutdownCompletes ==
    \A m \in Members : main[m] = "cancelled" ~> ~alive(m)

\* The only thing that keeps Start from returning is a poll that was held when
\* the context was cancelled: otherwise the workers finish, the client leaves
\* the group and Start ends.
ShutdownUnlessHeld ==
    \A m \in Members : main[m] = "cancelled" ~>
        ~alive(m) \/ (held[m] /\ poller[m] = "stopped")

-----------------------------------------------------------------------------
(* The inductive invariant behind the safety properties                    *)

\* A goroutine exists for exactly the partitions in cg.consumers and those the
\* running lost callback waits for; only a busy one holds a batch.
WorkersKnown ==
    \A m \in Members : \A p \in Partitions :
        /\ worker[m][p] # "none" <=> p \in consumers[m] \cup waiting[m]
        /\ ~busy(m, p) => batch[m][p] = {}
        /\ processed[m][p] \subseteq batch[m][p]
        /\ worker[m][p] = "commit" => batch[m][p] \subseteq attempted[p]

\* Polled records exist only under a held poll, for known consumers, and no
\* callback runs meanwhile.
PollBlocks ==
    \A m \in Members :
        /\ poller[m] \in {"fetched", "sending"} => held[m]
        /\ held[m] => poller[m] # "idle" /\ alive(m)
        /\ held[m] => waiting[m] = {}
        /\ \A p \in Partitions : fetches[m][p] # {} =>
              p \in consumers[m] /\ poller[m] \in {"fetched", "sending"}

\* The client runs one rebalance callback at a time, and the consumers it
\* waits for have left the map.
OneCallback ==
    \A m \in Members :
        /\ revoking[m] = {} \/ waiting[m] = {}
        /\ consumers[m] \cap waiting[m] = {}

\* A live owner knows it owns the partition; a finished process has nothing.
OwnerKnows ==
    /\ \A m \in Members : \A p \in Partitions :
          owner[p] = m /\ alive(m) => p \in consumers[m] \cup waiting[m]
    /\ \A m \in Members : ~alive(m) => consumers[m] = {} /\ waiting[m] = {}

\* Nothing below what a member holds or will fetch was skipped.
NothingSkipped ==
    \A m \in Members : \A p \in Partitions : \A o \in Records :
        /\ \A b \in batch[m][p] :
              o <= b => o \in attempted[p] \cup batch[m][p]
        /\ \A f \in fetches[m][p] :
              o <= f => o \in attempted[p] \cup batch[m][p] \cup fetches[m][p]
        /\ main[m] = "serving" /\ p \in consumers[m] /\ o < position[m][p] =>
              o \in attempted[p] \cup batch[m][p] \cup fetches[m][p]

\* What the worker holds precedes what the poller holds, and both precede
\* what is fetched next.
HeldInOrder ==
    \A m \in Members : \A p \in Partitions :
        /\ \A b \in batch[m][p], f \in fetches[m][p] : b < f
        /\ p \in consumers[m] =>
              \A h \in batch[m][p] \cup fetches[m][p] : h < position[m][p]

\* The committed offset is behind all that the owner holds or will fetch.
CommitBehind ==
    \A m \in Members : \A p \in Partitions : owner[p] = m =>
        /\ \A h \in batch[m][p] \cup fetches[m][p] : committed[p] <= h
        /\ p \in consumers[m] => committed[p] <= position[m][p]

\* Together they are preserved by every step: the strengthening that makes
\* at-least-once delivery (CommittedAttempted) inductive.
IInv ==
    /\ TypeOK
    /\ WorkersKnown
    /\ PollBlocks
    /\ OneCallback
    /\ OwnerKnows
    /\ LostFindsConsumer
    /\ NothingSkipped
    /\ HeldInOrder
    /\ CommitBehind
    /\ CommittedAttempted

\* Unless the broker evicts members, whoever has a goroutine for a partition
\* owns it.
WorkersOwn ==
    faults["evict"] = 0 =>
        \A m \in Members : \A p \in Partitions :
            worker[m][p] # "none" => owner[p] = m

\* A process that has left the group owns nothing.
ExitedOwnsNothing ==
    \A m \in Members : main[m] = "exited" =>
        \A p \in Partitions : owner[p] # m

\* The strengthening behind ExclusiveWork and ExitedQuiescent.
OwnershipInv == WorkersOwn /\ ExitedOwnsNothing

-----------------------------------------------------------------------------
Delivery == INSTANCE DeliveryLog WITH Vacuous <- {}

\* The group keeps the at-least-once promise of DeliveryLog: processRecords and
\* the commit are its Attempt and Commit, everything else is a stutter.
DeliverySpec == Delivery!Spec
=============================================================================
