----------------------------- MODULE MCCdcCache -----------------------------
(***************************************************************************)
(* Billable metrics: two rows compete for one code, and one of them may    *)
(* take another code.  Subscriptions: the key holds the id, so every row   *)
(* has its own.                                                            *)
(***************************************************************************)
EXTENDS CdcCache

CONSTANTS i1, i2, i3, k1, k2

Metrics ==
    [keyOf |-> [id \in Ids |-> CASE id = i1 -> {k1, k2}
                                [] id = i2 -> {k1}
                                [] id = i3 -> {k2}],
     keepDeleted |-> FALSE]

\* The third id is not used.
Subscriptions ==
    [keyOf |-> [id \in Ids |-> CASE id = i1 -> {k1}
                                [] id = i2 -> {k2}
                                [] id = i3 -> {}],
     keepDeleted |-> TRUE]

BothTables == {Metrics, Subscriptions}
=============================================================================
