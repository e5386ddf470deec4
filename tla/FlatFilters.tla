----------------------------- MODULE FlatFilters -----------------------------
(***************************************************************************)
(* Which filter of each charge an event is attributed to: BuildFlatFilters *)
(* of the in-memory cache (events-processor/cache/flat_filters.go), then   *)
(* MatchingFilter per charge (events-processor/models/flat_filters.go), as *)
(* enrichWithChargeInfo runs them.  The five tables are read one after the *)
(* other, a transaction each, while their consumers apply changes.         *)
(*                                                                         *)
(* A call is about one plan and one metric; rows are what the database     *)
(* holds for them, cached rows what the cache holds of them.               *)
(***************************************************************************)
EXTENDS FiniteSets, Integers

CONSTANTS
    Charges,        \* charges of the plan
    ChargeFilters,  \* their filters, in the order of their cache keys
    ChargeOf,       \* ChargeOf[f]: the charge of filter f
    FilterKeys,     \* keys of the metric's filters
    Values,         \* values of properties
    AllValues,      \* __ALL_FILTER_VALUES__
    Nil,            \* a property an event does not have
    Definitions,    \* the contents of the tables to look at
    Racing,         \* those whose rows come and go during a call
    MaxChanges      \* bound: changes applied during a call

Definition ==
    [values : [ChargeFilters ->
                  [FilterKeys -> SUBSET (Values \cup {AllValues})]],
     metricValues : [FilterKeys -> SUBSET Values]]

ASSUME FiltersAssumption ==
    /\ ChargeFilters \subseteq Nat /\ IsFiniteSet(FilterKeys)
    /\ ChargeOf \in [ChargeFilters -> Charges]
    /\ AllValues \notin Values /\ Nil \notin Values
    /\ Definitions \subseteq Definition /\ Racing \subseteq Definitions
    /\ MaxChanges \in Nat

NoFilter == -1                \* ChargeFilterID = nil

VARIABLES
    definition,   \* the rows of the database
    properties,   \* properties of the event, formatted with %v
    cached,       \* which rows are in the cache
    phase,
    bmFilterMap,  \* keys of the metric filters that were read
    charges,      \* the charges that were read
    chargesLeft,  \* charges whose filters are not read yet
    filtersLeft,  \* filters whose values are not read yet
    flatFilters,  \* the result of BuildFlatFilters
    left,         \* flat filters MatchingFilter has not looked at
    bestFilter,   \* the best so far, per charge: a set
    answer,       \* what MatchingFilter returned: [charge, filter]
    changes,      \* changes applied during the call
    complete      \* the cache held every row from the call on

tables == <<definition, properties>>
builder == <<bmFilterMap, charges, chargesLeft, filtersLeft, flatFilters>>
matcher == <<left, bestFilter, answer>>
vars == <<tables, cached, phase, builder, matcher, changes, complete>>

\* The keys a filter names, each in a row of charge_filter_values.
names(f) == {k \in FilterKeys : definition.values[f][k] # {}}

valueRows == {fk \in ChargeFilters \X FilterKeys : fk[2] \in names(fk[1])}

\* The cache starts with every row, or before the filters have arrived.
Init ==
    /\ definition \in Definitions
    /\ properties \in [FilterKeys -> Values \cup {Nil}]
    /\ complete \in (IF definition \in Racing THEN BOOLEAN ELSE {TRUE})
    /\ cached = [charges |-> Charges, keys |-> FilterKeys,
                 filters |-> IF complete THEN ChargeFilters ELSE {},
                 values |-> IF complete THEN valueRows ELSE {}]
    /\ phase = "called"
    /\ bmFilterMap = {} /\ charges = {}
    /\ chargesLeft = {} /\ filtersLeft = {}
    /\ flatFilters = {} /\ left = {} /\ bestFilter = {} /\ answer = {}
    /\ changes = 0

-----------------------------------------------------------------------------
(* The consumers of the five tables                                        *)

\* A row arrives or goes.
toggle(rows, row) == IF row \in rows THEN rows \ {row} ELSE rows \cup {row}

processRecord ==
    /\ definition \in Racing
    /\ changes < MaxChanges
    /\ phase \in {"called", "charges", "filters"}
    /\ \/ \E c \in Charges :
             cached' = [cached EXCEPT !.charges = toggle(@, c)]
       \/ \E f \in ChargeFilters :
             cached' = [cached EXCEPT !.filters = toggle(@, f)]
       \/ \E fk \in valueRows :
             cached' = [cached EXCEPT !.values = toggle(@, fk)]
       \/ \E k \in FilterKeys :
             cached' = [cached EXCEPT !.keys = toggle(@, k)]
    /\ changes' = changes + 1
    /\ complete' = FALSE
    /\ UNCHANGED <<tables, phase, builder, matcher>>

-----------------------------------------------------------------------------
(* BuildFlatFilters.  A read that fails ends the call.                     *)

step(from, next) ==
    /\ phase = from
    /\ phase' = next
    /\ UNCHANGED <<tables, cached, changes, complete>>

fail ==
    /\ phase \in {"called", "charges", "filters"}
    /\ step(phase, "failed")
    /\ UNCHANGED <<builder, matcher>>

SearchBillableMetricFilters ==
    /\ step("called", "charges")
    /\ bmFilterMap' = cached.keys
    /\ UNCHANGED <<charges, chargesLeft, filtersLeft, flatFilters, matcher>>

SearchCharge ==
    /\ step("charges", "filters")
    /\ charges' = cached.charges
    /\ chargesLeft' = cached.charges
    /\ UNCHANGED <<bmFilterMap, filtersLeft, flatFilters, matcher>>

\* Plausible slip: a charge without filters gets no flat filter.
SearchChargeFilter_filtersOnly(c) ==
    /\ step("filters", "filters")
    /\ filtersLeft = {}
    /\ c \in chargesLeft
    /\ chargesLeft' = chargesLeft \ {c}
    /\ filtersLeft' = {f \in cached.filters : ChargeOf[f] = c}
    /\ UNCHANGED <<bmFilterMap, charges, flatFilters, matcher>>

\* A charge without filters has one flat filter, which names none.
SearchChargeFilter(c) ==
    LET chargeFilters == {f \in cached.filters : ChargeOf[f] = c} IN
    /\ step("filters", "filters")
    /\ filtersLeft = {}
    /\ c \in chargesLeft
    /\ chargesLeft' = chargesLeft \ {c}
    /\ filtersLeft' = chargeFilters
    /\ flatFilters' = IF chargeFilters # {} THEN flatFilters
                      ELSE flatFilters \cup
                           {[charge |-> c, filter |-> NoFilter,
                             filters |-> [k \in {} |-> {}]]}
    /\ UNCHANGED <<bmFilterMap, charges, matcher>>

\* Plausible slip: __ALL_FILTER_VALUES__ is taken for a value.
acceptedValues_literal(f, k) == definition.values[f][k]

\* The values a filter accepts for a key.
acceptedValues(f, k) ==
    IF AllValues \in definition.values[f][k]
    THEN definition.metricValues[k] ELSE definition.values[f][k]

\* Rows whose metric filter is unknown are skipped.
SearchChargeFilterValue(f) ==
    LET keys == {k \in bmFilterMap : <<f, k>> \in cached.values} IN
    /\ step("filters", "filters")
    /\ f \in filtersLeft
    /\ \A g \in filtersLeft : f <= g
    /\ filtersLeft' = filtersLeft \ {f}
    /\ flatFilters' = flatFilters \cup
          {[charge |-> ChargeOf[f], filter |-> f,
            filters |-> [k \in keys |-> acceptedValues(f, k)]]}
    /\ UNCHANGED <<bmFilterMap, charges, chargesLeft, matcher>>

-----------------------------------------------------------------------------
(* MatchingFilter, for each charge that has flat filters                   *)

startMatching ==
    /\ step("filters", "matching")
    /\ chargesLeft = {} /\ filtersLeft = {}
    /\ left' = flatFilters
    /\ UNCHANGED <<builder, bestFilter, answer>>

\* Plausible slip: an empty set of filters is not told apart.
HasFilters_always(ff) == TRUE

HasFilters(ff) == DOMAIN ff.filters # {}

IsMatchingEvent(ff) ==
    \A k \in DOMAIN ff.filters : properties[k] \in ff.filters[k]

size(ff) == Cardinality(DOMAIN ff.filters)

\* MatchingFilter has looked at flat filters of c and not returned.
matching(c) ==
    /\ \E ff \in flatFilters \ left : ff.charge = c
    /\ \A a \in answer : a.charge # c

\* Plausible slip: the first match wins.
consider_firstMatch(ff) ==
    /\ step("matching", "matching")
    /\ ff \in left
    /\ \A c \in Charges \ {ff.charge} : ~matching(c)
    /\ \A g \in left : g.charge = ff.charge => ff.filter <= g.filter
    /\ left' = left \ {ff}
    /\ bestFilter' =
          IF /\ HasFilters(ff) /\ IsMatchingEvent(ff)
             /\ \A g \in bestFilter : g.charge # ff.charge
          THEN bestFilter \cup {ff} ELSE bestFilter
    /\ UNCHANGED <<builder, answer>>

\* One iteration over the flat filters of a charge, in key order.
consider(ff) ==
    /\ step("matching", "matching")
    /\ ff \in left
    /\ \A c \in Charges \ {ff.charge} : ~matching(c)
    /\ \A g \in left : g.charge = ff.charge => ff.filter <= g.filter
    /\ left' = left \ {ff}
    /\ LET best == {g \in bestFilter : g.charge = ff.charge} IN
       bestFilter' =
          IF /\ HasFilters(ff) /\ IsMatchingEvent(ff)
             /\ \A g \in best : size(ff) > size(g)
          THEN (bestFilter \ best) \cup {ff} ELSE bestFilter
    /\ UNCHANGED <<builder, answer>>

\* The best match of a charge, or its default bucket.
MatchingFilter(c) ==
    /\ step("matching", "matching")
    /\ c \in {ff.charge : ff \in flatFilters} \ {a.charge : a \in answer}
    /\ \A ff \in left : ff.charge # c
    /\ LET best == {g \in bestFilter : g.charge = c} IN
       answer' = answer \cup
          (IF best = {} THEN {[charge |-> c, filter |-> NoFilter]}
           ELSE {[charge |-> c, filter |-> g.filter] : g \in best})
    /\ UNCHANGED <<builder, left, bestFilter>>

return ==
    /\ step("matching", "matched")
    /\ {a.charge : a \in answer} = {ff.charge : ff \in flatFilters}
    /\ UNCHANGED <<builder, matcher>>

Next ==
    \/ processRecord
    \/ fail
    \/ SearchBillableMetricFilters
    \/ SearchCharge
    \/ \E c \in Charges : SearchChargeFilter(c) \/ MatchingFilter(c)
    \/ \E f \in ChargeFilters : SearchChargeFilterValue(f)
    \/ startMatching
    \/ \E ff \in left : consider(ff)
    \/ return

Spec == Init /\ [][Next]_vars

-----------------------------------------------------------------------------
(* Properties                                                              *)

FlatFilter(ff) ==
    /\ ff.charge \in Charges /\ ff.filter \in ChargeFilters \cup {NoFilter}
    /\ DOMAIN ff.filters \subseteq FilterKeys
    /\ \A k \in DOMAIN ff.filters : ff.filters[k] \subseteq Values

\* Types; flat filters accept values of properties only.
TypeOK ==
    /\ definition \in Definition
    /\ properties \in [FilterKeys -> Values \cup {Nil}]
    /\ cached \in [charges : SUBSET Charges, filters : SUBSET ChargeFilters,
                   values : SUBSET valueRows, keys : SUBSET FilterKeys]
    /\ phase \in {"called", "charges", "filters", "matching", "matched",
                  "failed"}
    /\ bmFilterMap \subseteq FilterKeys
    /\ chargesLeft \subseteq charges /\ charges \subseteq Charges
    /\ filtersLeft \subseteq ChargeFilters
    /\ \A ff \in flatFilters : FlatFilter(ff)
    /\ left \cup bestFilter \subseteq flatFilters
    /\ answer \subseteq
          [charge : Charges, filter : ChargeFilters \cup {NoFilter}]
    /\ changes \in 0 .. MaxChanges /\ complete \in BOOLEAN

\* Every charge that was read gets exactly one enriched event, whatever
\* changes are applied to the tables between the reads: none is billed twice
\* and none is left out.
EachChargeOnce ==
    phase = "matched" =>
        /\ \A c \in charges : Cardinality({a \in answer : a.charge = c}) = 1
        /\ \A a \in answer : a.charge \in charges

\* The filter that accepts the event according to the tables: a list with
\* __ALL_FILTER_VALUES__ stands for the values of the metric, whatever else is
\* in it.
accepts(f) ==
    /\ names(f) # {}
    /\ \A k \in names(f) :
          \/ AllValues \notin definition.values[f][k]
             /\ properties[k] \in definition.values[f][k]
          \/ AllValues \in definition.values[f][k]
             /\ properties[k] \in definition.metricValues[k]

\* When the cache is up to date, the event goes to a filter that accepts it and
\* names most properties ("We must take only the one matching the most
\* properties"), and to the default bucket only if no filter accepts it.
MostSpecificMatch ==
    phase = "matched" /\ complete =>
        \A a \in answer :
            LET candidates == {f \in ChargeFilters :
                                  ChargeOf[f] = a.charge /\ accepts(f)} IN
            IF a.filter = NoFilter THEN candidates = {}
            ELSE /\ a.filter \in candidates
                 /\ \A f \in candidates :
                       Cardinality(names(f)) <= Cardinality(names(a.filter))

\* While rows arrive and go, a filter whose rows were not seen takes no event:
\* an event is attributed to a filter on the strength of at least one of its
\* rows, and against none that was read.
MatchedOnEvidence ==
    \A a \in answer : a.filter # NoFilter =>
        \E ff \in flatFilters :
            /\ ff.filter = a.filter /\ ff.charge = a.charge
            /\ DOMAIN ff.filters # {}
            /\ \A k \in DOMAIN ff.filters :
                  properties[k] \in acceptedValues(a.filter, k)

-----------------------------------------------------------------------------
(* The inductive invariant behind the properties                           *)

\* The phases in order: nothing is matched before everything is read.
PhaseInOrder ==
    /\ phase \in {"called", "charges"} => charges = {} /\ flatFilters = {}
    /\ phase \in {"called", "charges", "filters"} =>
          left = {} /\ bestFilter = {} /\ answer = {}
    /\ phase \in {"matching", "matched"} =>
          chargesLeft = {} /\ filtersLeft = {}
    /\ phase = "matched" =>
          {a.charge : a \in answer} = {ff.charge : ff \in flatFilters}

\* A flat filter is one of a charge that was read: its only one, or made from
\* rows of one charge filter.
BuiltFromRows ==
    \A ff \in flatFilters :
        /\ ff.charge \in charges
        /\ ff.filter = NoFilter => DOMAIN ff.filters = {}
        /\ ff.filter # NoFilter =>
              /\ ff.charge = ChargeOf[ff.filter]
              /\ \A k \in DOMAIN ff.filters :
                    ff.filters[k] = acceptedValues(ff.filter, k)

\* A charge whose filters were read has a flat filter, or will have one.
ChargesCovered ==
    /\ \A f \in filtersLeft : ChargeOf[f] \in charges
    /\ \A c \in charges \ chargesLeft :
          \/ \E f \in filtersLeft : ChargeOf[f] = c
          \/ \E ff \in flatFilters : ff.charge = c

\* A charge has at most one best filter, which matches the event, and no flat
\* filter looked at names more properties and matches.
BestPerCharge ==
    /\ \A g \in bestFilter : HasFilters(g) /\ IsMatchingEvent(g)
    /\ \A g, h \in bestFilter : g.charge = h.charge => g = h
    /\ phase \in {"matching", "matched"} =>
          \A ff \in flatFilters \ left : HasFilters(ff) /\ IsMatchingEvent(ff) =>
              \E g \in bestFilter : g.charge = ff.charge /\ size(ff) <= size(g)

\* The answer for a charge is its best filter, final when it is given.
AnswersFromBest ==
    /\ \A a \in answer :
          /\ \E ff \in flatFilters : ff.charge = a.charge
          /\ \A ff \in left : ff.charge # a.charge
          /\ IF a.filter = NoFilter
             THEN \A g \in bestFilter : g.charge # a.charge
             ELSE \E g \in bestFilter :
                     g.charge = a.charge /\ g.filter = a.filter
    /\ \A a, b \in answer : a.charge = b.charge => a = b

\* As long as no row is missing, every filter is read with all its rows.
ReadCompletely ==
    complete =>
        /\ cached.charges = Charges /\ cached.keys = FilterKeys
        /\ cached.filters = ChargeFilters /\ cached.values = valueRows
        /\ phase \notin {"called", "failed"} => bmFilterMap = FilterKeys
        /\ \A ff \in flatFilters : ff.filter # NoFilter =>
              DOMAIN ff.filters = names(ff.filter)
        /\ \A f \in ChargeFilters \ filtersLeft :
              ChargeOf[f] \in charges \ chargesLeft =>
                  \E ff \in flatFilters : ff.filter = f

\* Together they are preserved by every read, every comparison and every change
\* of the tables in between.
IInv ==
    /\ TypeOK
    /\ PhaseInOrder
    /\ BuiltFromRows
    /\ ChargesCovered
    /\ BestPerCharge
    /\ AnswersFromBest
    /\ ReadCompletely
=============================================================================
