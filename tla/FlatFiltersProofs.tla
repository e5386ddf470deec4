-------------------------- MODULE FlatFiltersProofs --------------------------
(***************************************************************************)
(* Proofs about FlatFilters, for any charges, filters, keys, values and    *)
(* contents of the tables: every charge is answered once, on the strength  *)
(* of rows that were read and, when the cache is complete, by the filter   *)
(* that names most properties.                                             *)
(***************************************************************************)
EXTENDS FlatFilters, FiniteSetTheorems, TLAPS

USE DEF tables, builder, matcher, step

-----------------------------------------------------------------------------
(* The helpers                                                             *)

\* A filter accepts values of properties only: __ALL_FILTER_VALUES__ is
\* replaced by the values of the metric.
LEMMA AcceptedValues ==
    ASSUME definition \in Definition,
           NEW f \in ChargeFilters, NEW k \in FilterKeys
    PROVE  acceptedValues(f, k) \subseteq Values
BY DEF Definition, acceptedValues

\* The number of keys of a flat filter is a number.
LEMMA SizeIsNat ==
    ASSUME NEW ff, FlatFilter(ff)
    PROVE  size(ff) \in Nat
BY FiltersAssumption, FS_Subset, FS_CardinalityType DEF FlatFilter, size

-----------------------------------------------------------------------------
(* IInv is inductive: one lemma per action, one step per part              *)

\* Nothing is read at the start of a call.
LEMMA Init_IInv == Init => IInv
<1>. SUFFICES ASSUME Init PROVE IInv
    OBVIOUS
<1>1. definition \in Definition /\ complete \in BOOLEAN
    BY FiltersAssumption DEF Init
<1>2. cached \in [charges : SUBSET Charges, filters : SUBSET ChargeFilters,
                  values : SUBSET valueRows, keys : SUBSET FilterKeys]
    BY DEF Init
<1>3. changes \in 0 .. MaxChanges
    BY FiltersAssumption DEF Init
<1>4. TypeOK
    BY <1>1, <1>2, <1>3 DEF Init, TypeOK
<1>5. ReadCompletely
    BY DEF Init, ReadCompletely
<1>. QED
    BY <1>4, <1>5 DEF Init, IInv, PhaseInOrder, BuiltFromRows,
        ChargesCovered, BestPerCharge, AnswersFromBest

\* A change of the cache: what was read stays, and nothing is complete any more.
LEMMA processRecord_IInv ==
    ASSUME IInv, processRecord
    PROVE  IInv'
<1>0. /\ UNCHANGED <<tables, phase, builder, matcher>>
      /\ changes' = changes + 1 /\ changes < MaxChanges /\ complete' = FALSE
      /\ cached' \in [charges : SUBSET Charges, filters : SUBSET ChargeFilters,
                      values : SUBSET valueRows, keys : SUBSET FilterKeys]
    <2>1. valueRows' = valueRows
        BY DEF processRecord, valueRows, names
    <2>. QED  BY <2>1 DEF IInv, TypeOK, processRecord, toggle
<1>1. TypeOK'
    <2>1. changes' \in 0 .. MaxChanges
        BY <1>0, FiltersAssumption DEF IInv, TypeOK
    <2>. QED  BY <1>0, <2>1 DEF IInv, TypeOK, FlatFilter, valueRows, names
<1>2. PhaseInOrder'
    BY DEF IInv, TypeOK, PhaseInOrder, processRecord
<1>3. BuiltFromRows'
    BY DEF IInv, TypeOK, PhaseInOrder, BuiltFromRows, acceptedValues,
        processRecord
<1>4. ChargesCovered'
    BY DEF IInv, TypeOK, PhaseInOrder, ChargesCovered, processRecord
<1>5. BestPerCharge'
    BY DEF IInv, PhaseInOrder, BestPerCharge, HasFilters, IsMatchingEvent,
        size, processRecord
<1>6. AnswersFromBest'
    BY DEF IInv, PhaseInOrder, AnswersFromBest, processRecord
<1>7. ReadCompletely'
    BY <1>0 DEF ReadCompletely
<1>. QED
    BY <1>1, <1>2, <1>3, <1>4, <1>5, <1>6, <1>7 DEF IInv

\* The call ends where a read fails.
LEMMA fail_IInv ==
    ASSUME IInv, fail
    PROVE  IInv'
<1>1. TypeOK'
    BY DEF IInv, TypeOK, valueRows, names, FlatFilter, fail
<1>2. PhaseInOrder'
    BY DEF IInv, TypeOK, PhaseInOrder, fail
<1>3. BuiltFromRows'
    BY DEF IInv, TypeOK, PhaseInOrder, BuiltFromRows, acceptedValues, fail
<1>4. ChargesCovered'
    BY DEF IInv, TypeOK, PhaseInOrder, ChargesCovered, fail
<1>5. BestPerCharge'
    BY DEF IInv, PhaseInOrder, BestPerCharge, HasFilters, IsMatchingEvent,
        size, fail
<1>6. AnswersFromBest'
    BY DEF IInv, PhaseInOrder, AnswersFromBest, fail
<1>7. ReadCompletely'
    BY DEF IInv, TypeOK, PhaseInOrder, ReadCompletely, valueRows, names,
        fail
<1>. QED
    BY <1>1, <1>2, <1>3, <1>4, <1>5, <1>6, <1>7 DEF IInv

\* The keys of the metric are read.
LEMMA SearchBillableMetricFilters_IInv ==
    ASSUME IInv, SearchBillableMetricFilters
    PROVE  IInv'
<1>1. TypeOK'
    BY DEF IInv, TypeOK, valueRows, names, FlatFilter,
        SearchBillableMetricFilters
<1>2. PhaseInOrder'
    BY DEF IInv, TypeOK, PhaseInOrder, SearchBillableMetricFilters
<1>3. BuiltFromRows'
    BY DEF IInv, TypeOK, PhaseInOrder, BuiltFromRows, acceptedValues,
        SearchBillableMetricFilters
<1>4. ChargesCovered'
    BY DEF IInv, TypeOK, PhaseInOrder, ChargesCovered,
        SearchBillableMetricFilters
<1>5. BestPerCharge'
    BY DEF IInv, PhaseInOrder, BestPerCharge, HasFilters, IsMatchingEvent,
        size, SearchBillableMetricFilters
<1>6. AnswersFromBest'
    BY DEF IInv, PhaseInOrder, AnswersFromBest, SearchBillableMetricFilters
<1>7. ReadCompletely'
    BY DEF IInv, TypeOK, PhaseInOrder, ReadCompletely, valueRows, names,
        SearchBillableMetricFilters
<1>. QED
    BY <1>1, <1>2, <1>3, <1>4, <1>5, <1>6, <1>7 DEF IInv

\* The charges are read: none has a flat filter yet.
LEMMA SearchCharge_IInv ==
    ASSUME IInv, SearchCharge
    PROVE  IInv'
<1>1. TypeOK'
    BY DEF IInv, TypeOK, valueRows, names, FlatFilter, SearchCharge
<1>2. PhaseInOrder'
    BY DEF IInv, TypeOK, PhaseInOrder, SearchCharge
<1>3. BuiltFromRows'
    BY DEF IInv, TypeOK, PhaseInOrder, BuiltFromRows, acceptedValues,
        SearchCharge
<1>4. ChargesCovered'
    BY DEF IInv, TypeOK, PhaseInOrder, ChargesCovered, SearchCharge
<1>5. BestPerCharge'
    BY DEF IInv, PhaseInOrder, BestPerCharge, HasFilters, IsMatchingEvent,
        size, SearchCharge
<1>6. AnswersFromBest'
    BY DEF IInv, PhaseInOrder, AnswersFromBest, SearchCharge
<1>7. ReadCompletely'
    BY DEF IInv, TypeOK, PhaseInOrder, ReadCompletely, valueRows, names,
        SearchCharge
<1>. QED
    BY <1>1, <1>2, <1>3, <1>4, <1>5, <1>6, <1>7 DEF IInv

\* The filters of a charge are read; a charge without any gets the flat filter
\* that names no key.
LEMMA SearchChargeFilter_IInv ==
    ASSUME IInv, NEW c \in Charges, SearchChargeFilter(c)
    PROVE  IInv'
<1>1. TypeOK'
    BY DEF IInv, TypeOK, valueRows, names, FlatFilter, SearchChargeFilter
<1>2. PhaseInOrder'
    BY DEF IInv, TypeOK, PhaseInOrder, SearchChargeFilter
<1>3. BuiltFromRows'
    BY DEF IInv, TypeOK, PhaseInOrder, BuiltFromRows, acceptedValues,
        SearchChargeFilter
<1>4. ChargesCovered'
    <2>1. ASSUME NEW f \in filtersLeft' PROVE ChargeOf[f] \in charges
        BY DEF IInv, TypeOK, SearchChargeFilter
    <2>2. ASSUME NEW d \in charges \ chargesLeft'
          PROVE  \/ \E f \in filtersLeft' : ChargeOf[f] = d
                 \/ \E ff \in flatFilters' : ff.charge = d
        <3>1. CASE d = c
            <4>. DEFINE ff == [charge |-> c, filter |-> NoFilter,
                               filters |-> [k \in {} |-> {}]]
            <4>1. ff \in flatFilters' \/ filtersLeft' # {}
                BY DEF SearchChargeFilter
            <4>2. ff.charge = d /\ \A f \in filtersLeft' : ChargeOf[f] = d
                BY <3>1 DEF SearchChargeFilter
            <4>. QED  BY <4>1, <4>2
        <3>2. CASE d # c
            <4>1. d \in charges \ chargesLeft /\ filtersLeft = {}
                BY <3>2 DEF SearchChargeFilter
            <4>2. PICK ff \in flatFilters : ff.charge = d
                BY <4>1 DEF IInv, ChargesCovered
            <4>3. ff \in flatFilters'
                BY DEF SearchChargeFilter
            <4>. QED  BY <4>2, <4>3
        <3>. QED  BY <3>1, <3>2
    <2>3. charges' = charges
        BY DEF SearchChargeFilter
    <2>. QED  BY <2>1, <2>2, <2>3 DEF ChargesCovered
<1>5. BestPerCharge'
    BY DEF IInv, PhaseInOrder, BestPerCharge, HasFilters, IsMatchingEvent,
        size, SearchChargeFilter
<1>6. AnswersFromBest'
    BY DEF IInv, PhaseInOrder, AnswersFromBest, SearchChargeFilter
<1>7. ReadCompletely'
    BY DEF IInv, TypeOK, PhaseInOrder, ReadCompletely, valueRows, names,
        SearchChargeFilter
<1>. QED
    BY <1>1, <1>2, <1>3, <1>4, <1>5, <1>6, <1>7 DEF IInv

\* The rows of a filter are read: the flat filter is made of them.
LEMMA SearchChargeFilterValue_IInv ==
    ASSUME IInv, NEW f \in ChargeFilters, SearchChargeFilterValue(f)
    PROVE  IInv'
<1>. DEFINE keys == {k \in bmFilterMap : <<f, k>> \in cached.values}
            new == [charge |-> ChargeOf[f], filter |-> f,
                    filters |-> [k \in keys |-> acceptedValues(f, k)]]
<1>0. /\ flatFilters' = flatFilters \cup {new}
      /\ f \in filtersLeft /\ filtersLeft' = filtersLeft \ {f}
      /\ phase = "filters" /\ phase' = "filters"
      /\ UNCHANGED <<tables, cached, changes, complete, bmFilterMap, charges,
                     chargesLeft, matcher>>
    BY DEF SearchChargeFilterValue
<1>a. /\ new.charge = ChargeOf[f] /\ new.filter = f
      /\ DOMAIN new.filters = keys
      /\ \A k \in keys : new.filters[k] = acceptedValues(f, k)
    OBVIOUS
<1>b. f # NoFilter /\ keys \subseteq FilterKeys /\ ChargeOf[f] \in charges
    BY <1>0, FiltersAssumption DEF IInv, TypeOK, NoFilter, ChargesCovered
<1>. HIDE DEF new
<1>c. FlatFilter(new)
    BY <1>a, <1>b, AcceptedValues, FiltersAssumption
        DEF IInv, TypeOK, FlatFilter
<1>d. \A g, k : acceptedValues(g, k)' = acceptedValues(g, k)
    BY <1>0 DEF acceptedValues
<1>1. TypeOK'
    <2>1. valueRows' = valueRows
        BY <1>0 DEF valueRows, names
    <2>2. \A ff \in flatFilters' : FlatFilter(ff)
        BY <1>0, <1>c DEF IInv, TypeOK
    <2>. QED  BY <1>0, <2>1, <2>2 DEF IInv, TypeOK, FlatFilter
<1>2. PhaseInOrder'
    BY <1>0 DEF IInv, PhaseInOrder
<1>3. BuiltFromRows'
    <2>1. ASSUME NEW ff \in flatFilters
          PROVE  /\ ff.charge \in charges
                 /\ ff.filter = NoFilter => DOMAIN ff.filters = {}
                 /\ ff.filter # NoFilter =>
                       /\ ff.charge = ChargeOf[ff.filter]
                       /\ \A k \in DOMAIN ff.filters :
                             ff.filters[k] = acceptedValues(ff.filter, k)'
        BY <1>d DEF IInv, BuiltFromRows
    <2>2. \A k \in DOMAIN new.filters :
             new.filters[k] = acceptedValues(f, k)'
        BY <1>a, <1>d
    <2>. QED  BY <1>0, <1>a, <1>b, <2>1, <2>2 DEF BuiltFromRows
<1>4. ChargesCovered'
    <2>1. ASSUME NEW c \in charges \ chargesLeft
          PROVE  \/ \E g \in filtersLeft' : ChargeOf[g] = c
                 \/ \E ff \in flatFilters' : ff.charge = c
        <3>1. CASE \E g \in filtersLeft : ChargeOf[g] = c
            BY <1>0, <1>a, <3>1
        <3>2. CASE \E ff \in flatFilters : ff.charge = c
            BY <1>0, <3>2
        <3>. QED  BY <2>1, <3>1, <3>2 DEF IInv, ChargesCovered
    <2>. QED  BY <1>0, <2>1 DEF IInv, ChargesCovered
<1>5. BestPerCharge'
    BY DEF IInv, PhaseInOrder, BestPerCharge, HasFilters, IsMatchingEvent,
        size, SearchChargeFilterValue
<1>6. AnswersFromBest'
    BY DEF IInv, PhaseInOrder, AnswersFromBest, SearchChargeFilterValue
<1>7. ReadCompletely'
    <2>. SUFFICES ASSUME complete PROVE ReadCompletely'
        BY <1>0 DEF ReadCompletely
    <2>1. /\ cached.charges = Charges /\ cached.keys = FilterKeys
          /\ cached.filters = ChargeFilters /\ cached.values = valueRows
          /\ bmFilterMap = FilterKeys
          /\ \A ff \in flatFilters : ff.filter # NoFilter =>
                DOMAIN ff.filters = names(ff.filter)
          /\ \A g \in ChargeFilters \ filtersLeft :
                ChargeOf[g] \in charges \ chargesLeft =>
                    \E ff \in flatFilters : ff.filter = g
        BY <1>0 DEF IInv, ReadCompletely
    <2>2. keys = names(f)
        BY <2>1 DEF valueRows, names
    <2>3. valueRows' = valueRows /\ \A g : names(g)' = names(g)
        BY <1>0 DEF valueRows, names
    <2>4. ASSUME NEW ff \in flatFilters', ff.filter # NoFilter
          PROVE  DOMAIN ff.filters = names(ff.filter)'
        BY <1>0, <1>a, <2>1, <2>2, <2>3, <2>4
    <2>5. ASSUME NEW g \in ChargeFilters \ filtersLeft',
                 ChargeOf[g] \in charges \ chargesLeft
          PROVE  \E ff \in flatFilters' : ff.filter = g
        BY <1>0, <1>a, <2>1, <2>5
    <2>. QED  BY <1>0, <2>1, <2>3, <2>4, <2>5 DEF ReadCompletely
<1>. QED
    BY <1>1, <1>2, <1>3, <1>4, <1>5, <1>6, <1>7 DEF IInv

\* Nothing has been looked at yet.
LEMMA startMatching_IInv ==
    ASSUME IInv, startMatching
    PROVE  IInv'
<1>1. TypeOK'
    BY DEF IInv, TypeOK, valueRows, names, FlatFilter, startMatching
<1>2. PhaseInOrder'
    BY DEF IInv, TypeOK, PhaseInOrder, startMatching
<1>3. BuiltFromRows'
    BY DEF IInv, TypeOK, PhaseInOrder, BuiltFromRows, acceptedValues,
        startMatching
<1>4. ChargesCovered'
    BY DEF IInv, TypeOK, PhaseInOrder, ChargesCovered, startMatching
<1>5. BestPerCharge'
    BY DEF IInv, PhaseInOrder, BestPerCharge, HasFilters, IsMatchingEvent,
        size, startMatching
<1>6. AnswersFromBest'
    BY DEF IInv, PhaseInOrder, AnswersFromBest, startMatching
<1>7. ReadCompletely'
    BY DEF IInv, TypeOK, PhaseInOrder, ReadCompletely, valueRows, names,
        startMatching
<1>. QED
    BY <1>1, <1>2, <1>3, <1>4, <1>5, <1>6, <1>7 DEF IInv

\* A flat filter that matches and names more keys than the best one of its
\* charge takes its place.
LEMMA consider_IInv ==
    ASSUME IInv, NEW ff \in left, consider(ff)
    PROVE  IInv'
<1>1. TypeOK'
    BY DEF IInv, TypeOK, valueRows, names, FlatFilter, consider
<1>2. PhaseInOrder'
    BY DEF IInv, TypeOK, PhaseInOrder, consider
<1>3. BuiltFromRows'
    BY DEF IInv, TypeOK, PhaseInOrder, BuiltFromRows, acceptedValues,
        consider
<1>4. ChargesCovered'
    BY DEF IInv, TypeOK, PhaseInOrder, ChargesCovered, consider
<1>5. BestPerCharge'
    <2>. DEFINE best == {g \in bestFilter : g.charge = ff.charge}
                wins == /\ HasFilters(ff) /\ IsMatchingEvent(ff)
                        /\ \A g \in best : size(ff) > size(g)
    <2>1. /\ left' = left \ {ff} /\ UNCHANGED <<flatFilters, properties>>
          /\ wins => bestFilter' = (bestFilter \ best) \cup {ff}
          /\ ~wins => bestFilter' = bestFilter
          /\ phase = "matching"
        BY DEF consider
    <2>2. /\ \A g \in bestFilter : HasFilters(g) /\ IsMatchingEvent(g)
          /\ \A g, h \in bestFilter : g.charge = h.charge => g = h
          /\ \A g \in flatFilters \ left : HasFilters(g) /\ IsMatchingEvent(g) =>
                \E h \in bestFilter : h.charge = g.charge /\ size(g) <= size(h)
        BY <2>1 DEF IInv, BestPerCharge
    <2>3. \A g : IsMatchingEvent(g)' = IsMatchingEvent(g)
        BY <2>1 DEF IsMatchingEvent
    <2>4. ff \in flatFilters /\ \A g \in flatFilters : size(g) \in Nat
        BY SizeIsNat DEF IInv, TypeOK
    <2>5. bestFilter \subseteq flatFilters
        BY DEF IInv, TypeOK
    <2>6. ASSUME NEW g \in flatFilters \ left',
                 HasFilters(g), IsMatchingEvent(g)
          PROVE  \E h \in bestFilter' :
                    h.charge = g.charge /\ size(g) <= size(h)
        <3>1. CASE g = ff /\ wins
            <4>1. size(g) <= size(ff)
                BY <2>4, <3>1
            <4>. QED  BY <2>1, <3>1, <4>1
        <3>2. CASE g = ff /\ ~wins
            <4>1. PICK h \in best : ~(size(ff) > size(h))
                BY <2>6, <3>2
            <4>2. size(ff) <= size(h)
                BY <2>4, <2>5, <4>1
            <4>. QED  BY <2>1, <3>2, <4>1, <4>2
        <3>3. CASE g # ff
            <4>1. PICK h \in bestFilter :
                     h.charge = g.charge /\ size(g) <= size(h)
                BY <2>1, <2>2, <2>6, <3>3
            <4>2. CASE h \in bestFilter'
                BY <4>1, <4>2
            <4>3. CASE h \notin bestFilter'
                <5>1. wins /\ h \in best
                    BY <2>1, <4>1, <4>3
                <5>2. size(g) <= size(ff)
                    BY <2>1, <2>4, <2>5, <2>6, <4>1, <5>1
                <5>3. ff \in bestFilter' /\ ff.charge = g.charge
                    BY <2>1, <4>1, <5>1
                <5>. QED  BY <5>2, <5>3
            <4>. QED  BY <4>2, <4>3
        <3>. QED  BY <3>1, <3>2, <3>3
    <2>7. \A g \in bestFilter' : HasFilters(g) /\ IsMatchingEvent(g)
        BY <2>1, <2>2
    <2>8. \A g, h \in bestFilter' : g.charge = h.charge => g = h
        BY <2>1, <2>2
    <2>9. \A g : HasFilters(g)' = HasFilters(g) /\ size(g)' = size(g)
        BY DEF HasFilters, size
    <2>. HIDE DEF best, wins
    <2>. QED  BY <2>1, <2>3, <2>6, <2>7, <2>8, <2>9 DEF BestPerCharge
<1>6. AnswersFromBest'
    BY DEF IInv, PhaseInOrder, AnswersFromBest, consider
<1>7. ReadCompletely'
    BY DEF IInv, TypeOK, PhaseInOrder, ReadCompletely, valueRows, names,
        consider
<1>. QED
    BY <1>1, <1>2, <1>3, <1>4, <1>5, <1>6, <1>7 DEF IInv

\* The answer for a charge all whose flat filters were looked at.
LEMMA MatchingFilter_IInv ==
    ASSUME IInv, NEW c \in Charges, MatchingFilter(c)
    PROVE  IInv'
<1>1. TypeOK'
    BY DEF IInv, TypeOK, valueRows, names, FlatFilter, MatchingFilter
<1>2. PhaseInOrder'
    BY DEF IInv, TypeOK, PhaseInOrder, MatchingFilter
<1>3. BuiltFromRows'
    BY DEF IInv, TypeOK, PhaseInOrder, BuiltFromRows, acceptedValues,
        MatchingFilter
<1>4. ChargesCovered'
    BY DEF IInv, TypeOK, PhaseInOrder, ChargesCovered, MatchingFilter
<1>5. BestPerCharge'
    BY DEF IInv, PhaseInOrder, BestPerCharge, HasFilters, IsMatchingEvent,
        size, MatchingFilter
<1>6. AnswersFromBest'
    <2>. DEFINE best == {g \in bestFilter : g.charge = c}
    <2>1. /\ UNCHANGED <<flatFilters, left, bestFilter>>
          /\ c \in {ff.charge : ff \in flatFilters}
          /\ \A a \in answer : a.charge # c
          /\ \A ff \in left : ff.charge # c
          /\ answer' = answer \cup
                (IF best = {} THEN {[charge |-> c, filter |-> NoFilter]}
                 ELSE {[charge |-> c, filter |-> g.filter] : g \in best})
        BY DEF MatchingFilter
    <2>2. \A g, h \in best : g = h
        BY DEF IInv, BestPerCharge
    <2>3. \A g \in bestFilter : g.filter # NoFilter
        BY DEF IInv, TypeOK, BuiltFromRows, BestPerCharge, HasFilters
    <2>4. PICK new : /\ answer' = answer \cup {new} /\ new.charge = c
                     /\ IF new.filter = NoFilter THEN best = {}
                        ELSE \E g \in best : g.filter = new.filter
        <3>1. CASE best = {}
            <4>. DEFINE none == [charge |-> c, filter |-> NoFilter]
            <4>1. answer' = answer \cup {none}
                BY <2>1, <3>1
            <4>2. none.charge = c /\ none.filter = NoFilter
                OBVIOUS
            <4>. HIDE DEF none
            <4>. QED  BY <3>1, <4>1, <4>2
        <3>2. ASSUME NEW g \in best
              PROVE  answer' = answer \cup {[charge |-> c, filter |-> g.filter]}
            BY <2>1, <2>2
        <3>. QED  BY <2>3, <3>1, <3>2
    <2>5. \A a, b \in answer' : a.charge = b.charge => a = b
        BY <2>1, <2>4 DEF IInv, AnswersFromBest
    <2>6. ASSUME NEW a \in answer'
          PROVE  /\ \E ff \in flatFilters : ff.charge = a.charge
                 /\ \A ff \in left : ff.charge # a.charge
                 /\ IF a.filter = NoFilter
                    THEN \A g \in bestFilter : g.charge # a.charge
                    ELSE \E g \in bestFilter :
                            g.charge = a.charge /\ g.filter = a.filter
        <3>1. CASE a \in answer
            BY <3>1 DEF IInv, AnswersFromBest
        <3>2. CASE a = new
            BY <2>1, <2>4, <3>2
        <3>. QED  BY <2>4, <3>1, <3>2
    <2>. QED  BY <2>1, <2>5, <2>6 DEF AnswersFromBest
<1>7. ReadCompletely'
    BY DEF IInv, TypeOK, PhaseInOrder, ReadCompletely, valueRows, names,
        MatchingFilter
<1>. QED
    BY <1>1, <1>2, <1>3, <1>4, <1>5, <1>6, <1>7 DEF IInv

\* Every charge with a flat filter has its answer.
LEMMA return_IInv ==
    ASSUME IInv, return
    PROVE  IInv'
<1>1. TypeOK'
    BY DEF IInv, TypeOK, valueRows, names, FlatFilter, return
<1>2. PhaseInOrder'
    BY DEF IInv, TypeOK, PhaseInOrder, return
<1>3. BuiltFromRows'
    BY DEF IInv, TypeOK, PhaseInOrder, BuiltFromRows, acceptedValues, return
<1>4. ChargesCovered'
    BY DEF IInv, TypeOK, PhaseInOrder, ChargesCovered, return
<1>5. BestPerCharge'
    BY DEF IInv, PhaseInOrder, BestPerCharge, HasFilters, IsMatchingEvent,
        size, return
<1>6. AnswersFromBest'
    BY DEF IInv, PhaseInOrder, AnswersFromBest, return
<1>7. ReadCompletely'
    BY DEF IInv, TypeOK, PhaseInOrder, ReadCompletely, valueRows, names,
        return
<1>. QED
    BY <1>1, <1>2, <1>3, <1>4, <1>5, <1>6, <1>7 DEF IInv

\* A step that changes nothing.
LEMMA Stutter_IInv ==
    ASSUME IInv, UNCHANGED vars
    PROVE  IInv'
<1>1. TypeOK'
    BY DEF IInv, TypeOK, FlatFilter, valueRows, names, vars
<1>2. PhaseInOrder' /\ ChargesCovered' /\ AnswersFromBest'
    BY DEF IInv, PhaseInOrder, ChargesCovered, AnswersFromBest, vars
<1>3. BuiltFromRows'
    BY DEF IInv, BuiltFromRows, acceptedValues, vars
<1>4. BestPerCharge'
    BY DEF IInv, BestPerCharge, HasFilters, IsMatchingEvent, size, vars
<1>5. ReadCompletely'
    BY DEF IInv, ReadCompletely, valueRows, names, vars
<1>. QED  BY <1>1, <1>2, <1>3, <1>4, <1>5 DEF IInv

-----------------------------------------------------------------------------
(* The theorems                                                            *)

\* Whatever is read in whatever state of the tables, the flat filters are made
\* of rows that were read, and the best filter of a charge is the best of
\* those looked at.
THEOREM FiltersInvariant == Spec => []IInv
<1>1. ASSUME IInv, [Next]_vars PROVE IInv'
    BY <1>1, processRecord_IInv, fail_IInv, SearchBillableMetricFilters_IInv,
        SearchCharge_IInv, SearchChargeFilter_IInv,
        SearchChargeFilterValue_IInv, startMatching_IInv, consider_IInv,
        MatchingFilter_IInv, return_IInv, Stutter_IInv DEF Next
<1>. QED  BY <1>1, Init_IInv, PTL DEF Spec

\* BuildFlatFilters and MatchingFilter give every charge that was read exactly
\* one answer, although the tables change between the reads.
THEOREM ChargesAnsweredOnce == Spec => []EachChargeOnce
<1>1. ASSUME IInv, phase = "matched"
      PROVE  /\ \A c \in charges :
                   Cardinality({a \in answer : a.charge = c}) = 1
             /\ \A a \in answer : a.charge \in charges
    <2>1. ASSUME NEW c \in charges
          PROVE  Cardinality({a \in answer : a.charge = c}) = 1
        <3>1. c \in {ff.charge : ff \in flatFilters}
            BY <1>1 DEF IInv, PhaseInOrder, ChargesCovered
        <3>2. PICK a \in answer : a.charge = c
            BY <1>1, <3>1 DEF IInv, PhaseInOrder
        <3>3. {b \in answer : b.charge = c} = {a}
            BY <1>1, <3>2 DEF IInv, AnswersFromBest
        <3>. QED  BY <3>3, FS_Singleton
    <2>2. ASSUME NEW a \in answer PROVE a.charge \in charges
        BY <1>1 DEF IInv, AnswersFromBest, BuiltFromRows
    <2>. QED  BY <2>1, <2>2
<1>2. IInv => EachChargeOnce
    BY <1>1 DEF EachChargeOnce
<1>. QED  BY FiltersInvariant, <1>2, PTL

\* MatchingFilter attributes an event to a filter only if it read a row of that
\* filter, and only if every row it read accepts the event.
THEOREM AttributedOnEvidence == Spec => []MatchedOnEvidence
<1>1. ASSUME IInv, NEW a \in answer, a.filter # NoFilter
      PROVE  \E ff \in flatFilters :
                /\ ff.filter = a.filter /\ ff.charge = a.charge
                /\ DOMAIN ff.filters # {}
                /\ \A k \in DOMAIN ff.filters :
                      properties[k] \in acceptedValues(a.filter, k)
    <2>1. PICK g \in bestFilter : g.charge = a.charge /\ g.filter = a.filter
        BY <1>1 DEF IInv, AnswersFromBest
    <2>2. g \in flatFilters /\ HasFilters(g) /\ IsMatchingEvent(g)
        BY <1>1 DEF IInv, TypeOK, BestPerCharge
    <2>3. \A k \in DOMAIN g.filters : g.filters[k] = acceptedValues(g.filter, k)
        BY <1>1, <2>1, <2>2 DEF IInv, BuiltFromRows
    <2>. QED  BY <2>1, <2>2, <2>3 DEF HasFilters, IsMatchingEvent
<1>2. IInv => MatchedOnEvidence
    BY <1>1 DEF MatchedOnEvidence
<1>. QED  BY FiltersInvariant, <1>2, PTL

\* A flat filter made of all the rows of its filter matches the event exactly
\* when the filter accepts it.
LEMMA MatchesWhenAccepted ==
    ASSUME NEW ff, NEW f, ff.filter = f, DOMAIN ff.filters = names(f),
           \A k \in DOMAIN ff.filters : ff.filters[k] = acceptedValues(f, k)
    PROVE  HasFilters(ff) /\ IsMatchingEvent(ff) <=> accepts(f)
BY DEF HasFilters, IsMatchingEvent, accepts, acceptedValues

\* With a complete cache MatchingFilter finds the filter that accepts the event
\* and names most properties, and the default bucket only if none accepts it.
THEOREM AttributedToMostSpecific == Spec => []MostSpecificMatch
<1>1. ASSUME IInv, phase = "matched", complete, NEW a \in answer
      PROVE  LET candidates == {f \in ChargeFilters :
                                   ChargeOf[f] = a.charge /\ accepts(f)} IN
             IF a.filter = NoFilter THEN candidates = {}
             ELSE /\ a.filter \in candidates
                  /\ \A f \in candidates :
                        Cardinality(names(f)) <= Cardinality(names(a.filter))
    <2>1. \A ff \in flatFilters : ff.filter # NoFilter =>
             /\ ff.charge = ChargeOf[ff.filter]
             /\ ff.filter \in ChargeFilters
             /\ DOMAIN ff.filters = names(ff.filter)
             /\ HasFilters(ff) /\ IsMatchingEvent(ff) <=> accepts(ff.filter)
        <3>. SUFFICES ASSUME NEW ff \in flatFilters, ff.filter # NoFilter
                      PROVE  /\ ff.charge = ChargeOf[ff.filter]
                             /\ ff.filter \in ChargeFilters
                             /\ DOMAIN ff.filters = names(ff.filter)
                             /\ HasFilters(ff) /\ IsMatchingEvent(ff)
                                   <=> accepts(ff.filter)
            OBVIOUS
        <3>1. /\ ff.charge = ChargeOf[ff.filter]
              /\ \A k \in DOMAIN ff.filters :
                    ff.filters[k] = acceptedValues(ff.filter, k)
            BY <1>1 DEF IInv, BuiltFromRows
        <3>2. DOMAIN ff.filters = names(ff.filter)
            BY <1>1 DEF IInv, ReadCompletely
        <3>3. ff.filter \in ChargeFilters
            BY <1>1 DEF IInv, TypeOK, FlatFilter
        <3>. QED  BY <3>1, <3>2, <3>3, MatchesWhenAccepted
    <2>2. ASSUME NEW f \in ChargeFilters, ChargeOf[f] = a.charge, accepts(f)
          PROVE  \E g \in bestFilter :
                    /\ g.charge = a.charge
                    /\ Cardinality(names(f)) <= size(g)
        <3>1. a.charge \in charges /\ chargesLeft = {} /\ filtersLeft = {}
            BY <1>1 DEF IInv, PhaseInOrder, AnswersFromBest, BuiltFromRows
        <3>2. PICK ff \in flatFilters : ff.filter = f
            BY <1>1, <2>2, <3>1 DEF IInv, ReadCompletely
        <3>3. f # NoFilter
            BY FiltersAssumption DEF NoFilter
        <3>4. /\ ff.charge = a.charge /\ HasFilters(ff) /\ IsMatchingEvent(ff)
              /\ size(ff) = Cardinality(names(f))
            BY <2>1, <2>2, <3>2, <3>3 DEF size
        <3>5. ff \notin left
            BY <1>1, <3>4 DEF IInv, AnswersFromBest
        <3>. QED  BY <1>1, <3>4, <3>5 DEF IInv, BestPerCharge
    <2>3. CASE a.filter = NoFilter
        <3>1. \A g \in bestFilter : g.charge # a.charge
            BY <1>1, <2>3 DEF IInv, AnswersFromBest
        <3>. QED  BY <2>2, <2>3, <3>1
    <2>4. CASE a.filter # NoFilter
        <3>1. PICK g \in bestFilter : g.charge = a.charge /\ g.filter = a.filter
            BY <1>1, <2>4 DEF IInv, AnswersFromBest
        <3>2. g \in flatFilters /\ HasFilters(g) /\ IsMatchingEvent(g)
            BY <1>1 DEF IInv, TypeOK, BestPerCharge
        <3>3. /\ a.filter \in ChargeFilters /\ ChargeOf[a.filter] = a.charge
              /\ accepts(a.filter) /\ size(g) = Cardinality(names(a.filter))
            BY <2>1, <2>4, <3>1, <3>2 DEF size
        <3>4. \A h \in bestFilter : h.charge = a.charge => h = g
            BY <1>1, <3>1 DEF IInv, BestPerCharge
        <3>5. ASSUME NEW f \in ChargeFilters, ChargeOf[f] = a.charge, accepts(f)
              PROVE  Cardinality(names(f)) <= Cardinality(names(a.filter))
            BY <2>2, <3>3, <3>4, <3>5
        <3>. QED  BY <2>4, <3>3, <3>5
    <2>. QED  BY <2>3, <2>4
<1>2. IInv => MostSpecificMatch
    BY <1>1 DEF MostSpecificMatch
<1>. QED  BY FiltersInvariant, <1>2, PTL
=============================================================================
