----------------------------- MODULE DeliveryLog -----------------------------
(***************************************************************************)
(* What the consumer group promises to the rest of the system, whatever    *)
(* its processes do: at-least-once delivery of each partition.  Records    *)
(* are handed to the processor in any order and any number of times, and   *)
(* the committed offset only advances, over records that have been handed  *)
(* to it.                                                                  *)
(***************************************************************************)
EXTENDS Integers

CONSTANTS
    Partitions,
    Records,      \* the offsets that hold a record (compaction leaves gaps)
    Vacuous       \* records that ask for nothing: handled from the start

VARIABLES
    committed,    \* per partition, the next offset a new consumer starts from
    attempted     \* per partition, the records handed to processRecords

vars == <<committed, attempted>>

Init ==
    /\ committed = [p \in Partitions |-> 0]
    /\ attempted = [p \in Partitions |-> Vacuous]

Attempt(p) ==
    /\ \E batch \in SUBSET Records :
          attempted' = [attempted EXCEPT ![p] = @ \cup batch]
    /\ UNCHANGED committed

Commit(p) ==
    /\ \E o \in Records :
          /\ committed[p] <= o
          /\ \A r \in Records : r <= o => r \in attempted[p]
          /\ committed' = [committed EXCEPT ![p] = o + 1]
    /\ UNCHANGED attempted

Next == \E p \in Partitions : Attempt(p) \/ Commit(p)

Spec == Init /\ [][Next]_vars
=============================================================================
