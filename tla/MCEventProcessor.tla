-------------------------- MODULE MCEventProcessor --------------------------
(***************************************************************************)
(* The kinds of events ProcessEvents tells apart, one record each.         *)
(***************************************************************************)
EXTENDS EventProcessor

CONSTANTS c1, c2

Plain ==
    [parses |-> TRUE, validTimestamp |-> TRUE, encodable |-> TRUE,
     properties |-> TRUE, httpRuby |-> FALSE, apiPostProcess |-> FALSE,
     reprocess |-> FALSE, ingestedAt |-> TRUE, metric |-> TRUE,
     expression |-> "ok", subscription |-> TRUE, charges |-> {c1},
     payInAdvance |-> {}]

TwoCharges == [Plain EXCEPT !.charges = {c1, c2}, !.payInAdvance = {c2}]
Unreadable == [Plain EXCEPT !.parses = FALSE]
BadTimestamp == [Plain EXCEPT !.validTimestamp = FALSE]
NotANumber == [Plain EXCEPT !.encodable = FALSE, !.expression = "none"]
UnknownMetric == [Plain EXCEPT !.metric = FALSE]
BadExpression == [Plain EXCEPT !.expression = "invalid", !.ingestedAt = FALSE]
NoProperties == [Plain EXCEPT !.properties = FALSE]
NoSubscription == [Plain EXCEPT !.subscription = FALSE]
Reprocessed == [TwoCharges EXCEPT !.reprocess = TRUE]
ApiProcessed ==
    [TwoCharges EXCEPT !.httpRuby = TRUE, !.apiPostProcess = TRUE]

AllKinds ==
    <<TwoCharges, Unreadable, BadTimestamp, NotANumber, UnknownMetric,
      BadExpression, NoProperties, NoSubscription, Reprocessed, ApiProcessed>>
=============================================================================
