----------------------------- MODULE MCLifecycle -----------------------------
(* Two of the six tables, and the four producers.                          *)
EXTENDS Lifecycle

CONSTANTS metrics, subscriptions

MCTables == {metrics, subscriptions}
=============================================================================
