---------------------------- MODULE MCFlatFilters ----------------------------
(***************************************************************************)
(* Every definition of two filters of one charge over two keys, next to a  *)
(* charge with one filter; and calls that race with the consumers, for one *)
(* definition with a parent and a child filter.  A second value stands for *)
(* all values the event does not have.                                     *)
(***************************************************************************)
EXTENDS FlatFilters

CONSTANTS c1, c2, k1, k2, a, b, all

TwoCharges == [f \in ChargeFilters |-> IF f = 3 THEN c2 ELSE c1]

\* What a filter says of a key: nothing, one value or all values.
Rules == {{}, {a}, {b}, {all}}

AnyK1 == [k \in FilterKeys |-> IF k = k1 THEN {all} ELSE {}]

EveryDefinition ==
    {[values |-> [f \in ChargeFilters |-> IF f = 3 THEN AnyK1 ELSE v[f]],
      metricValues |-> mv] :
        v \in [{1, 2} -> [FilterKeys -> Rules]],
        mv \in [FilterKeys -> {{b}, {a, b}}]}

\* Filter 1 is the parent of filter 2.
ParentAndChild ==
    {[values |-> [f \in ChargeFilters |->
                    CASE f = 1 -> [k \in FilterKeys |->
                                     IF k = k1 THEN {a} ELSE {}]
                      [] f = 2 -> [k \in FilterKeys |->
                                     IF k = k1 THEN {a} ELSE {b}]
                      [] f = 3 -> AnyK1],
      metricValues |-> [k \in FilterKeys |-> {a, b}]]}
=============================================================================
