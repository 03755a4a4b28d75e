------------------------------ MODULE SlotWalk ------------------------------
(***************************************************************************)
(* A chain reduced to what the walks over the landings read: the open slot *)
(* and the landings, for every order of closed slots and travels up to     *)
(* MaxSlot.                                                                *)
(***************************************************************************)
EXTENDS WalksOfChain

CONSTANTS GenesisSlot,  \* the first slot of the local ledger
          MaxSlot       \* bound: the last slot of the model

ASSUME SlotWalkAssumption ==
  /\ GenesisSlot \in Nat \ {0}
  /\ MaxSlot \in Nat
  /\ GenesisSlot <= MaxSlot

vars == <<open, landings>>

-----------------------------------------------------------------------------
Init == /\ open = GenesisSlot
        /\ landings = EmptyMap

(* A block closes the open slot. *)
CloseSlot == /\ open < MaxSlot
             /\ open' = open + 1
             /\ UNCHANGED landings

(* travel_to: a landing at the open slot is replaced, one past it is       *)
(* dropped with the slots it jumped over, and the block at the slot is     *)
(* built on the last block before the open slot (or before the slot, for a *)
(* travel back).                                                           *)
TravelTo(slot) ==
  LET from == IF slot < open THEN slot ELSE open IN
  /\ landings' = Put(Drop(landings, {l \in DOMAIN landings : l >= from}), slot,
                     [parent |-> BlockAtOrBefore(landings, SatSub(from, 1))])
  /\ open' = slot

Next == CloseSlot \/ \E slot \in GenesisSlot..MaxSlot : TravelTo(slot)

Spec == Init /\ [][Next]_vars
=============================================================================
