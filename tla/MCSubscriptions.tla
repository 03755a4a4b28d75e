--------------------------- MODULE MCSubscriptions ---------------------------
(* Instances of Subscriptions: a transaction sent, one in a bundle, one    *)
(* that only the remote has.                                               *)
EXTENDS Subscriptions

CONSTANTS sent, bundled, foreign

MCWanted ==
  <<{<<sent, "received">>, <<sent, "processed">>, <<bundled, "confirmed">>,
     <<foreign, "finalized">>},
    {<<sent, "finalized">>}>>
==============================================================================
