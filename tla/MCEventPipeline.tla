--------------------------- MODULE MCEventPipeline ---------------------------
(***************************************************************************)
(* Two records in one partition, in batches of one or two, with crashes    *)
(* and SIGTERMs.                                                           *)
(***************************************************************************)
EXTENDS EventPipeline

CONSTANT c1

Plain ==
    [parses |-> TRUE, validTimestamp |-> TRUE, encodable |-> TRUE,
     properties |-> TRUE, httpRuby |-> FALSE, apiPostProcess |-> FALSE,
     reprocess |-> FALSE, ingestedAt |-> TRUE, metric |-> TRUE,
     expression |-> "ok", subscription |-> TRUE, charges |-> {c1},
     payInAdvance |-> {}]

NoProperties == [Plain EXCEPT !.properties = FALSE, !.ingestedAt = FALSE]
Refreshing == [Plain EXCEPT !.charges = {}]

\* The first event flags its subscription.  The second, which is not dated, makes
\* the process panic, unless the store fails first and it is dead-lettered.
PoisonEvents == [r \in Records |-> CASE r = 1 -> Refreshing
                                     [] r = 2 -> NoProperties]
=============================================================================
