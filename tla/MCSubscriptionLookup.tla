------------------------ MODULE MCSubscriptionLookup ------------------------
(***************************************************************************)
(* Up to three subscriptions, in half milliseconds.  "a:b" starts with     *)
(* "a:".                                                                   *)
(***************************************************************************)
EXTENDS SubscriptionLookup

Colons == {<<"a", "a:b">>}
=============================================================================
