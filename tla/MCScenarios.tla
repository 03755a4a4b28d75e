----------------------------- MODULE MCScenarios -----------------------------
(* Instances of Scenarios: a market whose quote is kept alive, a trader's  *)
(* account that one override writes along with the market, and a token     *)
(* account; two scenarios whose overrides may meet at a slot.              *)
EXTENDS Scenarios, TLC

CONSTANTS market, trader, token, o1, o2, o3, o4

MCTarget == o1 :> market @@ o2 :> market @@ o3 :> trader @@ o4 :> token
MCWrites == o1 :> {market} @@ o2 :> {market} @@ o3 :> {market, trader} @@ o4 :> {token}
MCKeptAlive == o1 :> {market} @@ o2 :> {} @@ o3 :> {market, trader} @@ o4 :> {}
MCScenario ==
  {<<[override |-> o1, relative_slot |-> 0], [override |-> o4, relative_slot |-> 1]>>,
   <<[override |-> o2, relative_slot |-> 0], [override |-> o3, relative_slot |-> 0]>>}
==============================================================================
