------------------------------- MODULE Slots -------------------------------
(***************************************************************************)
(* The slot arithmetic of a surfnet's chain.  A time travel makes the      *)
(* chain jump: its landing slot records the slot of its parent block, and  *)
(* the slots in between are skipped, they hold no block.  Everything else  *)
(* the server knows about a slot (its parent, its depth, its height) is    *)
(* computed from those landings.                                           *)
(*                                                                         *)
(* "landings" is the map SurfnetSvm::landings, from the slot a travel      *)
(* landed on to a record with the parent's slot and the time it opened at. *)
(* The operators are stated over sets of slots; the code walks the         *)
(* landings instead, one step per travel.  Module Walks transcribes the    *)
(* walks, and module SlotWalk states that they return what is defined      *)
(* below.                                                                  *)
(***************************************************************************)
EXTENDS Integers, FiniteSets

(* f with k mapped to v. *)
Put(f, k, v) == [x \in DOMAIN f \cup {k} |-> IF x = k THEN v ELSE f[x]]

(* f without the keys in K. *)
Drop(f, K) == [x \in DOMAIN f \ K |-> f[x]]

EmptyMap == [x \in {} |-> x]

(* saturating_sub on u64 *)
SatSub(a, b) == IF a >= b THEN a - b ELSE 0

(* The parent of the block at a slot: the slot before it, unless a time    *)
(* travel landed there.                                                    *)
ParentSlot(landings, slot) ==
  IF slot \in DOMAIN landings THEN landings[slot].parent ELSE SatSub(slot, 1)

(* The slot, or the last one before it with a block if a travel skipped    *)
(* it: the first landing past the slot says where its parent is.           *)
BlockAtOrBefore(landings, slot) ==
  IF \E next \in DOMAIN landings :
        /\ next > slot
        /\ \A l \in DOMAIN landings : l > slot => next <= l
        /\ landings[next].parent < slot
  THEN LET next == CHOOSE n \in DOMAIN landings :
                     /\ n > slot
                     /\ \A l \in DOMAIN landings : l > slot => n <= l
       IN  landings[next].parent
  ELSE slot

(* A slot that no travel skipped. *)
HoldsBlock(landings, slot) == BlockAtOrBefore(landings, slot) = slot

(* The slots in from..to that hold a block, and how many they are. *)
BlocksWithin(landings, from, to) ==
  {s \in from..to : HoldsBlock(landings, s)}

BlocksIn(landings, from, to) == Cardinality(BlocksWithin(landings, from, to))

(* The block n blocks before the last block at or before the slot, along   *)
(* the chain; slot 0 when the chain is not that deep.                      *)
BlocksBack(landings, slot, n) ==
  LET atDepth == {s \in BlocksWithin(landings, 0, slot) :
                    BlocksIn(landings, s + 1, slot) = n}
  IN  IF atDepth = {} THEN 0 ELSE CHOOSE s \in atDepth : TRUE
=============================================================================
