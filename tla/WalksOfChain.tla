---------------------------- MODULE WalksOfChain ----------------------------
(***************************************************************************)
(* What the walks of module Walks owe a chain, the open slot and the       *)
(* landings that module Chain keeps, and module SlotWalk alone: each walk  *)
(* returns what its definition in module Slots says.                       *)
(***************************************************************************)
EXTENDS Walks

VARIABLES open,     \* latest_epoch_info.absolute_slot
          landings  \* slot a travel landed on -> [parent]

(* Every landing has a parent before it.  One past the open slot, left by  *)
(* a chain that was opened anew before it, skips nothing.                  *)
LandingsBehind ==
  /\ open \in Nat /\ DOMAIN landings \subseteq Nat
  /\ \A l \in DOMAIN landings : landings[l].parent \in 0..(l - 1)
  /\ \A l \in DOMAIN landings : l > open => landings[l].parent = l - 1

(* Following parent_slot from the open slot visits every slot that holds a *)
(* block and no other: the parents travels record and the gaps that        *)
(* block_at_or_before derives from them describe one chain.                *)
ParentsLinkBlocks ==
  \A s \in 1..open :
    HoldsBlock(landings, s) =>
      /\ HoldsBlock(landings, ParentSlot(landings, s))
      /\ BlocksWithin(landings, ParentSlot(landings, s) + 1, s) = {s}

(* blocks_back finds the n-th block before a slot, whatever gaps lie       *)
(* between, and saturates at slot 0.                                       *)
BlocksBackCorrect ==
  \A slot \in 0..open, n \in 0..(open + 1) :
    WalkBlocksBack(landings, slot, n) = BlocksBack(landings, BlockAtOrBefore(landings, slot), n)

(* block_runs yields exactly the slots that hold a block, each once, in    *)
(* order, for any range that starts at a slot that holds one: the callers  *)
(* count and list blocks with it.                                          *)
BlockRunsCorrect ==
  \A from, to \in 0..(open + 1) :
    LET runs == BlockRuns(landings, from, to) IN
    /\ UNION {runs[i][1]..runs[i][2] : i \in DOMAIN runs}
         = BlocksWithin(landings, from, to)
    /\ \A i \in 1..(Len(runs) - 1) : runs[i][2] < runs[i + 1][1]

(* The sum of the runs' lengths is the number of blocks. *)
BlocksInCorrect ==
  \A from, to \in 0..(open + 1) :
    WalkBlocksIn(landings, from, to) = BlocksIn(landings, from, to)

(* Whatever the chain of closes and travels, its landings stay behind the  *)
(* open slot, and the walks the server computes depths, roots, heights and *)
(* block lists with agree with the chain that the parent links describe.   *)
WalksCorrect ==
  LandingsBehind /\ ParentsLinkBlocks /\ BlocksBackCorrect /\ BlockRunsCorrect /\ BlocksInCorrect
=============================================================================
