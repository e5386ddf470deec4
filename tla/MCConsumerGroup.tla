-------------------------- MODULE MCConsumerGroup --------------------------
(***************************************************************************)
(* Small instances of ConsumerGroup for TLC.  Offsets start at 1 and skip  *)
(* 3, as after compaction: the committed offset 0 and the gap are offsets  *)
(* that hold no record.                                                    *)
(***************************************************************************)
EXTENDS ConsumerGroup, TLC

CONSTANTS m1, m2

TwoOffsets == {1, 3}

\* revocations, evictions, SIGTERMs and crashes of a run
Faults(r, e, s, c) ==
    [kind \in FaultKinds |->
        CASE kind = "revoke" -> r
          [] kind = "evict" -> e
          [] kind = "sigterm" -> s
          [] kind = "crash" -> c]

RebalanceFaults == Faults(1, 1, 0, 1)
ShutdownFaults == Faults(1, 0, 1, 0)
DrainFaults == Faults(1, 1, 1, 0)
AllFaults == Faults(1, 1, 1, 1)

Symmetry == Permutations({m1, m2})
=============================================================================
