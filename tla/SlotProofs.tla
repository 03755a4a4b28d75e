----------------------------- MODULE SlotProofs -----------------------------
(***************************************************************************)
(* Lemmas about the slot arithmetic of modules Slots and Walks, for every  *)
(* chain: what the operators return, what closing a block adds, what a     *)
(* time travel leaves as it was, and that the walks over the landings      *)
(* count and list the blocks that module Slots defines.  A walk is a       *)
(* recursive function: StepByStep carries a property along its steps, and  *)
(* Recursion gives the function the equation it is written with.           *)
(***************************************************************************)
EXTENDS Walks, FiniteSetTheorems, WellFoundedInduction, TLAPS

(* The landings of a chain whose open slot is not before any of them. *)
Landings(ls, open) ==
  /\ \A l \in DOMAIN ls : l \in Nat /\ l <= open
  /\ \A l \in DOMAIN ls : ls[l].parent \in Nat

(* What a time travel makes of the landings. *)
AfterTravel(ls, open, slot, landing) ==
  Put(Drop(ls, {l \in DOMAIN ls : l >= open}), slot, landing)

(* The landing that decides whether a slot was skipped. *)
IsNext(ls, slot, n) ==
  n \in DOMAIN ls /\ n > slot /\ \A l \in DOMAIN ls : l > slot => n <= l

(* The landings of one chain: a later landing is built on an earlier one   *)
(* or on a block after it.                                                 *)
Ordered(ls) ==
  /\ DOMAIN ls \subseteq Nat \ {0}
  /\ \A l \in DOMAIN ls : ls[l].parent \in Nat /\ ls[l].parent < l
  /\ \A l, m \in DOMAIN ls : l < m => l <= ls[m].parent

(* f is g, or g with some keys missing. *)
PartOf(f, g) == DOMAIN f \subseteq DOMAIN g /\ \A x \in DOMAIN f : f[x] = g[x]

-----------------------------------------------------------------------------
(* Every non-empty set of natural numbers has a smallest element. *)
LEMMA SmallestExists ==
  ASSUME NEW T \in SUBSET Nat, T # {}
  PROVE  \E x \in T : \A y \in T : x <= y
<1> DEFINE R == {ss \in Nat \X Nat : ss[1] < ss[2]}
<1>1. IsWellFoundedOn(R, Nat)
  BY NatLessThanWellFounded DEF OpToRel
<1>2. \A x, y \in Nat : y < x => <<y, x>> \in R
  OBVIOUS
<1> HIDE DEF R
<1>3. \E x \in T : \A y \in T : ~ (<<y, x>> \in R)
  BY <1>1, WFMin
<1>4. ASSUME NEW x \in Nat, NEW y \in Nat, <<y, x>> \notin R PROVE x <= y
  BY <1>2, <1>4
<1> QED
  BY <1>3, <1>4

(* Every non-empty set of slots up to some slot has a last one. *)
LEMMA LargestExists ==
  ASSUME NEW slot \in Nat, NEW T \in SUBSET (0..slot), T # {}
  PROVE  \E x \in T : \A y \in T : y <= x
<1> DEFINE R == {slot - x : x \in T}
<1>1. R \in SUBSET Nat /\ R # {}
  <2>1. \A x \in T : slot - x \in Nat
    OBVIOUS
  <2>2. PICK x \in T : TRUE
    OBVIOUS
  <2>3. slot - x \in R
    OBVIOUS
  <2> QED
    BY <2>1, <2>3
<1>2. PICK d \in R : \A e \in R : d <= e
  BY <1>1, SmallestExists
<1>3. PICK x \in T : d = slot - x
  BY <1>2
<1>4. ASSUME NEW y \in T PROVE y <= x
  <2>1. slot - x <= slot - y
    BY <1>2, <1>3
  <2> QED
    BY <2>1
<1> QED
  BY <1>4

(* A slot before a landing has a next landing. *)
LEMMA NextExists ==
  ASSUME NEW ls, DOMAIN ls \subseteq Nat, NEW slot \in Nat,
         NEW l \in DOMAIN ls, l > slot
  PROVE  \E n \in DOMAIN ls : IsNext(ls, slot, n)
<1> DEFINE T == {k \in DOMAIN ls : k > slot}
<1>1. PICK n \in T : \A k \in T : n <= k
  BY SmallestExists, T \in SUBSET Nat, l \in T
<1> QED
  BY <1>1 DEF IsNext

(* block_at_or_before reads the next landing only. *)
LEMMA AtNextLanding ==
  ASSUME NEW ls, DOMAIN ls \subseteq Nat, NEW slot \in Nat,
         NEW n \in DOMAIN ls, IsNext(ls, slot, n)
  PROVE  BlockAtOrBefore(ls, slot)
           = IF ls[n].parent < slot THEN ls[n].parent ELSE slot
<1> DEFINE Next(k) == k > slot /\ \A l \in DOMAIN ls : l > slot => k <= l
<1>1. \A k \in DOMAIN ls : Next(k) => k = n
  BY DEF IsNext
<1>2. (CHOOSE k \in DOMAIN ls : Next(k)) = n
  BY <1>1 DEF IsNext
<1>3. (\E k \in DOMAIN ls : Next(k) /\ ls[k].parent < slot) <=> ls[n].parent < slot
  BY <1>1 DEF IsNext
<1> QED
  BY <1>2, <1>3 DEF BlockAtOrBefore

(* Past the last landing every slot holds a block. *)
LEMMA PastLandings ==
  ASSUME NEW ls, NEW slot \in Nat, \A l \in DOMAIN ls : ~(l > slot)
  PROVE  BlockAtOrBefore(ls, slot) = slot
BY DEF BlockAtOrBefore

(* The block at or before a slot is a slot, and not a later one. *)
LEMMA BlockAtOrBeforeType ==
  ASSUME NEW ls, DOMAIN ls \subseteq Nat, \A l \in DOMAIN ls : ls[l].parent \in Nat,
         NEW slot \in Nat
  PROVE  BlockAtOrBefore(ls, slot) \in Nat /\ BlockAtOrBefore(ls, slot) <= slot
<1>1. CASE \A l \in DOMAIN ls : ~(l > slot)
  BY <1>1, PastLandings
<1>2. CASE \E l \in DOMAIN ls : l > slot
  <2>1. PICK n \in DOMAIN ls : IsNext(ls, slot, n)
    BY <1>2, NextExists
  <2> QED
    BY <2>1, AtNextLanding
<1> QED
  BY <1>1, <1>2

-----------------------------------------------------------------------------
(* Blocks in a range are finitely many. *)
LEMMA BlocksFinite ==
  ASSUME NEW ls, NEW from \in Nat, NEW to \in Nat
  PROVE  IsFiniteSet(BlocksWithin(ls, from, to)) /\ BlocksIn(ls, from, to) \in Nat
<1>1. IsFiniteSet(from..to)
  BY FS_Interval
<1>2. BlocksWithin(ls, from, to) \subseteq from..to
  BY DEF BlocksWithin
<1> QED
  BY <1>1, <1>2, FS_Subset, FS_CardinalityType DEF BlocksIn

(* blocks_back returns a slot at or before the one it starts from. *)
LEMMA BlocksBackType ==
  ASSUME NEW ls, NEW slot \in Nat, NEW n
  PROVE  BlocksBack(ls, slot, n) \in 0..slot
<1> DEFINE atDepth == {s \in BlocksWithin(ls, 0, slot) : BlocksIn(ls, s + 1, slot) = n}
<1>1. atDepth \subseteq 0..slot
  BY DEF BlocksWithin
<1> QED
  BY <1>1 DEF BlocksBack

(* Depth n below a block is never deeper than depth n below the next one:  *)
(* what is final stays final when a block is closed.                       *)
LEMMA BlocksBackGrows ==
  ASSUME NEW ls, NEW slot \in Nat, NEW n \in Nat, HoldsBlock(ls, slot + 1)
  PROVE  BlocksBack(ls, slot, n) <= BlocksBack(ls, slot + 1, n)
<1> DEFINE AtDepth(to) == {s \in BlocksWithin(ls, 0, to) : BlocksIn(ls, s + 1, to) = n}
           Above(s) == BlocksWithin(ls, s + 1, slot + 1)
<1> USE DEF BlocksIn
<1>1. CASE AtDepth(slot) = {}
  <2>1. BlocksBack(ls, slot, n) = 0
    BY <1>1 DEF BlocksBack
  <2> QED
    BY <2>1, BlocksBackType
<1>2. CASE AtDepth(slot) # {}
  <2> DEFINE r == BlocksBack(ls, slot, n)
             B == BlocksWithin(ls, r + 1, slot)
  <2>1. r \in AtDepth(slot)
    BY <1>2 DEF BlocksBack
  <2>2. r \in 0..slot /\ Cardinality(B) = n
    BY <2>1 DEF BlocksWithin
  <2> HIDE DEF r
  <2>3. IsFiniteSet(B)
    BY <2>2, BlocksFinite
  <2>4. Above(r) = B \cup {slot + 1} /\ slot + 1 \notin B
    BY <2>2 DEF BlocksWithin
  <2>5. Cardinality(Above(r)) = n + 1 /\ IsFiniteSet(Above(r))
    BY <2>2, <2>3, <2>4, FS_AddElement
  <2>6. Above(r) \in SUBSET Nat /\ Above(r) # {}
    BY <2>2, <2>4 DEF BlocksWithin
  <2>7. PICK m \in Above(r) : \A y \in Above(r) : m <= y
    BY <2>6, SmallestExists
  <2>8. Above(m) = Above(r) \ {m}
    BY <2>2, <2>7 DEF BlocksWithin
  <2>9. Cardinality(Above(m)) = n
    BY <2>5, <2>7, <2>8, FS_RemoveElement
  <2>10. m \in AtDepth(slot + 1)
    BY <2>2, <2>7, <2>9 DEF BlocksWithin
  <2>11. BlocksBack(ls, slot + 1, n) \in AtDepth(slot + 1)
    BY <2>10 DEF BlocksBack
  <2>12. ASSUME NEW q \in AtDepth(slot + 1), q < r PROVE FALSE
    <3>1. q \in Nat /\ Cardinality(Above(q)) = n
      BY <2>12 DEF BlocksWithin
    <3>2. Above(r) \subseteq Above(q)
      BY <2>2, <2>12, <3>1 DEF BlocksWithin
    <3>3. IsFiniteSet(Above(q))
      BY <3>1, BlocksFinite
    <3> QED
      BY <2>5, <3>1, <3>2, <3>3, FS_Subset
  <2>13. BlocksBack(ls, slot + 1, n) \in Nat
    BY BlocksBackType
  <2> QED
    BY <2>2, <2>11, <2>12, <2>13 DEF r
<1> QED
  BY <1>1, <1>2

-----------------------------------------------------------------------------
(* A time travel drops no block and adds none before the slot it lands on. *)
LEMMA TravelKeepsBlocks ==
  ASSUME NEW ls, NEW open \in Nat \ {0}, NEW land \in Nat, open <= land,
         Landings(ls, open),
         NEW landing, landing.parent = BlockAtOrBefore(ls, open - 1),
         NEW s \in 0..(land - 1)
  PROVE  HoldsBlock(AfterTravel(ls, open, land, landing), s)
           <=> s < open /\ HoldsBlock(ls, s)
<1> DEFINE after == AfterTravel(ls, open, land, landing)
           parent == BlockAtOrBefore(ls, open - 1)
<1>1. /\ DOMAIN ls \subseteq Nat /\ \A l \in DOMAIN ls : l <= open
      /\ \A l \in DOMAIN ls : ls[l].parent \in Nat
  BY DEF Landings
<1>2. parent \in Nat /\ parent <= open - 1
  BY <1>1, BlockAtOrBeforeType
<1>3. /\ DOMAIN after = {l \in DOMAIN ls : l < open} \cup {land}
      /\ after[land] = landing
      /\ \A l \in DOMAIN ls : l < open => after[l] = ls[l]
  BY <1>1 DEF AfterTravel, Put, Drop
<1> HIDE DEF after, parent
<1>4. DOMAIN after \subseteq Nat
  BY <1>1, <1>3
<1>5. CASE \E l \in DOMAIN ls : s < l /\ l < open
  <2>1. PICK n \in DOMAIN ls : IsNext(ls, s, n)
    BY <1>1, <1>5, NextExists
  <2>2. n < open
    BY <1>1, <1>5, <2>1 DEF IsNext
  <2>3. n \in DOMAIN after /\ IsNext(after, s, n) /\ after[n] = ls[n]
    BY <1>1, <1>3, <2>1, <2>2 DEF IsNext
  <2>4. BlockAtOrBefore(after, s) = BlockAtOrBefore(ls, s)
    BY <1>1, <1>4, <2>1, <2>3, AtNextLanding
  <2> QED
    BY <1>1, <2>1, <2>2, <2>4 DEF HoldsBlock, after, IsNext
<1>6. CASE ~\E l \in DOMAIN ls : s < l /\ l < open
  <2>1. land \in DOMAIN after /\ IsNext(after, s, land)
    BY <1>1, <1>3, <1>6 DEF IsNext
  <2>2. BlockAtOrBefore(after, s) = IF parent < s THEN parent ELSE s
    BY <1>3, <1>4, <2>1, AtNextLanding DEF parent
  <2>3. HoldsBlock(after, s) <=> s <= parent
    BY <1>2, <2>2 DEF HoldsBlock
  <2>4. CASE s >= open
    BY <1>2, <2>3, <2>4 DEF after
  <2>5. CASE s < open /\ open \notin DOMAIN ls
    <3>1. \A l \in DOMAIN ls : ~(l > s) /\ ~(l > open - 1)
      BY <1>1, <1>6, <2>5
    <3>2. BlockAtOrBefore(ls, s) = s /\ parent = open - 1
      BY <3>1, PastLandings DEF parent
    <3> QED
      BY <2>3, <2>5, <3>2 DEF HoldsBlock, after
  <2>6. CASE s < open /\ open \in DOMAIN ls
    <3>1. IsNext(ls, s, open) /\ IsNext(ls, open - 1, open)
      BY <1>1, <1>6, <2>6 DEF IsNext
    <3>2. /\ BlockAtOrBefore(ls, s)
               = IF ls[open].parent < s THEN ls[open].parent ELSE s
          /\ parent = IF ls[open].parent < open - 1 THEN ls[open].parent ELSE open - 1
      BY <1>1, <2>6, <3>1, AtNextLanding DEF parent
    <3> QED
      BY <1>1, <2>3, <2>6, <3>2 DEF HoldsBlock, after
  <2> QED
    BY <1>1, <2>4, <2>5, <2>6
<1> QED
  BY <1>5, <1>6

(* The blocks counted back from a travel's landing are those counted back  *)
(* from the open slot it left: its gap adds no depth.                      *)
LEMMA SameBlocksSameDepth ==
  ASSUME NEW ls, NEW after, NEW open \in Nat \ {0}, NEW land \in Nat, open <= land,
         \A s \in 0..(land - 1) : HoldsBlock(after, s) <=> s < open /\ HoldsBlock(ls, s),
         NEW n
  PROVE  BlocksBack(after, land - 1, n) = BlocksBack(ls, open - 1, n)
<1>2. ASSUME NEW from \in Nat
      PROVE  BlocksWithin(after, from, land - 1) = BlocksWithin(ls, from, open - 1)
  BY <1>2 DEF BlocksWithin
<1>3. BlocksWithin(after, 0, land - 1) = BlocksWithin(ls, 0, open - 1)
  BY <1>2
<1>4. \A s \in BlocksWithin(ls, 0, open - 1) :
        BlocksIn(after, s + 1, land - 1) = BlocksIn(ls, s + 1, open - 1)
  BY <1>2 DEF BlocksWithin, BlocksIn
<1> DEFINE AtDepth(f, to) == {s \in BlocksWithin(f, 0, to) : BlocksIn(f, s + 1, to) = n}
<1>5. AtDepth(after, land - 1) = AtDepth(ls, open - 1)
  BY <1>3, <1>4
<1>6. \A f, to : BlocksBack(f, to, n)
                    = IF AtDepth(f, to) = {} THEN 0 ELSE CHOOSE s \in AtDepth(f, to) : TRUE
  BY DEF BlocksBack
<1> HIDE DEF AtDepth
<1> QED
  BY <1>5, <1>6

LEMMA TravelKeepsDepth ==
  ASSUME NEW ls, NEW open \in Nat \ {0}, NEW land \in Nat, open <= land,
         Landings(ls, open),
         NEW landing, landing.parent = BlockAtOrBefore(ls, open - 1),
         NEW n
  PROVE  BlocksBack(AfterTravel(ls, open, land, landing), land - 1, n)
           = BlocksBack(ls, open - 1, n)
BY TravelKeepsBlocks, SameBlocksSameDepth

-----------------------------------------------------------------------------
(* Chains whose landings are in order *)

(* Every landing past a slot tells whether it holds a block. *)
LEMMA HoldsBlockIff ==
  ASSUME NEW ls, Ordered(ls), NEW s \in Nat
  PROVE  HoldsBlock(ls, s) <=> \A l \in DOMAIN ls : l > s => s <= ls[l].parent
<1>1. CASE \A l \in DOMAIN ls : ~(l > s)
  BY <1>1, PastLandings DEF HoldsBlock
<1>2. CASE \E l \in DOMAIN ls : l > s
  <2>1. PICK n \in DOMAIN ls : IsNext(ls, s, n)
    BY <1>2, NextExists DEF Ordered
  <2>2. BlockAtOrBefore(ls, s) = IF ls[n].parent < s THEN ls[n].parent ELSE s
    BY <2>1, AtNextLanding DEF Ordered
  <2>3. HoldsBlock(ls, s) <=> s <= ls[n].parent
    BY <2>1, <2>2 DEF HoldsBlock, Ordered
  <2>4. ASSUME NEW l \in DOMAIN ls, l > s, s <= ls[n].parent PROVE s <= ls[l].parent
    <3>1. l = n \/ n < l
      BY <2>1, <2>4 DEF IsNext, Ordered
    <3>2. n < l => n <= ls[l].parent
      BY <2>1 DEF Ordered
    <3> QED
      BY <2>1, <2>4, <3>1, <3>2 DEF IsNext, Ordered
  <2> QED
    BY <2>1, <2>3, <2>4 DEF IsNext
<1> QED
  BY <1>1, <1>2

(* block_at_or_before finds a block, and the last one there is. *)
LEMMA LastBlock ==
  ASSUME NEW ls, Ordered(ls), NEW s \in Nat,
         NEW b, b = BlockAtOrBefore(ls, s)
  PROVE  /\ b \in 0..s /\ HoldsBlock(ls, b)
         /\ \A r \in (b + 1)..s : ~HoldsBlock(ls, r)
         /\ \A l \in DOMAIN ls : l <= s => l <= b
<1>1. b \in 0..s
  BY BlockAtOrBeforeType DEF Ordered
<1>2. CASE b = s
  <2>1. HoldsBlock(ls, s)
    BY <1>2 DEF HoldsBlock
  <2>2. \A r \in (b + 1)..s : FALSE
    BY <1>1, <1>2
  <2> QED
    BY <1>1, <1>2, <2>1, <2>2
<1>3. CASE b # s
  <2>1. \E l \in DOMAIN ls : l > s
    BY <1>3, PastLandings
  <2>2. PICK n \in DOMAIN ls : IsNext(ls, s, n)
    BY <2>1, NextExists DEF Ordered
  <2>3. ls[n].parent = b /\ b < s /\ s < n /\ n \in Nat
    BY <1>3, <2>2, AtNextLanding DEF Ordered, IsNext
  <2>4. HoldsBlock(ls, b)
    <3>1. ASSUME NEW l \in DOMAIN ls, l > b PROVE b <= ls[l].parent
      <4>1. ~(l < n)
        BY <1>1, <2>3, <3>1 DEF Ordered
      <4>2. l = n \/ n < l
        BY <4>1, <2>3 DEF Ordered
      <4>3. n < l => n <= ls[l].parent
        BY <2>2 DEF Ordered
      <4> QED
        BY <1>1, <2>3, <4>2, <4>3 DEF Ordered
    <3> QED
      BY <1>1, <3>1, HoldsBlockIff
  <2>5. ASSUME NEW r \in (b + 1)..s PROVE ~HoldsBlock(ls, r)
    <3>1. r \in Nat /\ n > r /\ ls[n].parent < r
      BY <1>1, <2>3
    <3> QED
      BY <1>1, <3>1, <2>2, <2>3, HoldsBlockIff
  <2>6. ASSUME NEW l \in DOMAIN ls, l <= s PROVE l <= b
    BY <2>3, <2>6 DEF Ordered
  <2> QED
    BY <1>1, <2>4, <2>5, <2>6
<1> QED
  BY <1>2, <1>3

(* Without some of its landings a chain is still in order, and no slot     *)
(* that held a block is skipped.                                           *)
LEMMA PartHoldsBlocks ==
  ASSUME NEW f, NEW g, Ordered(g), PartOf(f, g)
  PROVE  Ordered(f) /\ \A s \in Nat : HoldsBlock(g, s) => HoldsBlock(f, s)
<1>1. Ordered(f)
  BY DEF Ordered, PartOf
<1> QED
  BY <1>1, HoldsBlockIff DEF PartOf

(* A travel keeps the landings in order, drops no block, and adds none     *)
(* before the slot it lands on, whatever landings lie ahead of it.         *)
LEMMA TravelInOrder ==
  ASSUME NEW ls, Ordered(ls), NEW open \in Nat \ {0}, NEW land \in Nat, open <= land,
         NEW landing, landing.parent = BlockAtOrBefore(ls, open - 1)
  PROVE  /\ Ordered(AfterTravel(ls, open, land, landing))
         /\ \A s \in 0..(land - 1) :
              HoldsBlock(AfterTravel(ls, open, land, landing), s) <=> s < open /\ HoldsBlock(ls, s)
<1> DEFINE after == AfterTravel(ls, open, land, landing)
           p     == BlockAtOrBefore(ls, open - 1)
<1>1. /\ DOMAIN after = {l \in DOMAIN ls : l < open} \cup {land}
      /\ after[land] = landing
      /\ \A l \in DOMAIN ls : l < open => after[l] = ls[l]
  BY DEF AfterTravel, Put, Drop, Ordered
<1>2. /\ p \in 0..(open - 1) /\ \A r \in (p + 1)..(open - 1) : ~HoldsBlock(ls, r)
      /\ \A l \in DOMAIN ls : l <= open - 1 => l <= p
  BY LastBlock, open - 1 \in Nat
<1> HIDE DEF after, p
<1>3. after[land].parent = p
  BY <1>1 DEF p
<1>4. Ordered(after)
  <2>1. DOMAIN after \subseteq Nat \ {0}
    BY <1>1 DEF Ordered
  <2>2. ASSUME NEW l \in DOMAIN after PROVE after[l].parent \in Nat /\ after[l].parent < l
    BY <1>1, <1>2, <1>3 DEF Ordered
  <2>3. ASSUME NEW l \in DOMAIN after, NEW m \in DOMAIN after, l < m PROVE l <= after[m].parent
    <3>1. CASE m = land
      <4>1. l \in DOMAIN ls /\ l <= open - 1
        BY <1>1, <2>3, <3>1 DEF Ordered
      <4> QED
        BY <1>2, <1>3, <3>1, <4>1
    <3>2. CASE m # land
      BY <1>1, <2>3, <3>2 DEF Ordered
    <3> QED
      BY <3>1, <3>2
  <2> QED
    BY <2>1, <2>2, <2>3 DEF Ordered
<1>5. ASSUME NEW s \in 0..(land - 1)
      PROVE  HoldsBlock(after, s) <=> s < open /\ HoldsBlock(ls, s)
  <2>1. s \in Nat /\ open - 1 \in Nat
    OBVIOUS
  <2>2. HoldsBlock(after, s)
          <=> s <= p /\ \A l \in DOMAIN ls : l < open /\ l > s => s <= ls[l].parent
    BY <1>1, <1>3, <1>4, <2>1, HoldsBlockIff DEF Ordered
  <2>3. HoldsBlock(ls, s) <=> \A l \in DOMAIN ls : l > s => s <= ls[l].parent
    BY <2>1, HoldsBlockIff
  <2>4. ASSUME s < open, HoldsBlock(ls, s) PROVE s <= p
    BY <1>2, <2>1, <2>4
  <2>5. ASSUME s <= p, NEW l \in DOMAIN ls, l >= open PROVE s <= ls[l].parent
    <3>1. HoldsBlock(ls, p)
      BY <2>1, LastBlock DEF p
    <3>2. p <= ls[l].parent
      BY <1>2, <2>5, <3>1, HoldsBlockIff DEF Ordered
    <3> QED
      BY <1>2, <2>5, <3>2 DEF Ordered
  <2> QED
    BY <1>2, <2>2, <2>3, <2>4, <2>5 DEF Ordered
<1> QED
  BY <1>4, <1>5 DEF after

(* The parent of a block is the last block before it. *)
LEMMA ParentIsLast ==
  ASSUME NEW ls, Ordered(ls), NEW s \in Nat \ {0}, HoldsBlock(ls, s)
  PROVE  ParentSlot(ls, s) = BlockAtOrBefore(ls, s - 1)
<1>1. s - 1 \in Nat /\ (s - 1) + 1 = s
  OBVIOUS
<1>2. CASE s \in DOMAIN ls
  <2>1. IsNext(ls, s - 1, s)
    BY <1>1, <1>2 DEF IsNext, Ordered
  <2>2. BlockAtOrBefore(ls, s - 1) = IF ls[s].parent < s - 1 THEN ls[s].parent ELSE s - 1
    BY <1>1, <1>2, <2>1, AtNextLanding DEF Ordered
  <2>3. ls[s].parent \in Nat /\ ls[s].parent < s
    BY <1>2 DEF Ordered
  <2> QED
    BY <1>1, <1>2, <2>2, <2>3 DEF ParentSlot
<1>3. CASE s \notin DOMAIN ls
  <2>1. ASSUME NEW l \in DOMAIN ls, l > s - 1 PROVE s - 1 <= ls[l].parent
    <3>1. l > s /\ ls[l].parent \in Nat
      BY <1>3, <2>1 DEF Ordered
    <3>2. s <= ls[l].parent
      BY <3>1, HoldsBlockIff
    <3> QED
      BY <3>1, <3>2
  <2>2. HoldsBlock(ls, s - 1)
    BY <1>1, <2>1, HoldsBlockIff
  <2> QED
    BY <1>3, <2>2 DEF HoldsBlock, ParentSlot, SatSub
<1> QED
  BY <1>2, <1>3

(* Counted back from the parent of a block or from the slot before it, the *)
(* blocks are the same.                                                    *)
LEMMA BackFromParent ==
  ASSUME NEW ls, Ordered(ls), NEW s \in Nat \ {0}, HoldsBlock(ls, s), NEW n
  PROVE  BlocksBack(ls, ParentSlot(ls, s), n) = BlocksBack(ls, s - 1, n)
<1> DEFINE p == BlockAtOrBefore(ls, s - 1)
<1>1. s - 1 \in Nat
  OBVIOUS
<1>2. p \in 0..(s - 1) /\ \A r \in (p + 1)..(s - 1) : ~HoldsBlock(ls, r)
  BY <1>1, LastBlock
<1> HIDE DEF p
<1>3. /\ p + 1 \in Nat \ {0} /\ s \in Nat /\ p + 1 <= s /\ (p + 1) - 1 = p
  BY <1>2
<1>4. ASSUME NEW r \in 0..(s - 1)
      PROVE  HoldsBlock(ls, r) <=> r < p + 1 /\ HoldsBlock(ls, r)
  <2>1. r < p + 1 \/ r \in (p + 1)..(s - 1)
    BY <1>3
  <2> QED
    BY <1>2, <2>1
<1>5. BlocksBack(ls, s - 1, n) = BlocksBack(ls, (p + 1) - 1, n)
  BY <1>3, <1>4, SameBlocksSameDepth
<1> QED
  BY <1>3, <1>5, ParentIsLast DEF p

(* The blocks n below a slot: one, unless the chain is not that deep. *)
AtDepth(ls, slot, n) == {s \in BlocksWithin(ls, 0, slot) : BlocksIn(ls, s + 1, slot) = n}

LEMMA OneAtDepth ==
  ASSUME NEW ls, NEW slot \in Nat, NEW n,
         NEW q \in AtDepth(ls, slot, n), NEW r \in AtDepth(ls, slot, n)
  PROVE  q = r
<1>1. ASSUME NEW x \in AtDepth(ls, slot, n), NEW y \in AtDepth(ls, slot, n), x < y PROVE FALSE
  <2> DEFINE Above(s) == BlocksWithin(ls, s + 1, slot)
  <2>1. /\ x \in Nat /\ y \in Nat /\ y <= slot /\ HoldsBlock(ls, y)
        /\ Cardinality(Above(x)) = Cardinality(Above(y))
    BY DEF AtDepth, BlocksWithin, BlocksIn
  <2>2. IsFiniteSet(Above(x)) /\ IsFiniteSet(Above(y))
    BY <2>1, BlocksFinite
  <2>3. Above(y) \subseteq Above(x) /\ y \in Above(x) /\ y \notin Above(y)
    BY <1>1, <2>1 DEF BlocksWithin
  <2>4. Cardinality(Above(y)) <= Cardinality(Above(x)) /\ Above(y) # Above(x)
    BY <2>2, <2>3, FS_Subset
  <2> QED
    BY <2>1, <2>2, <2>3, FS_Subset
<1>2. q \in Nat /\ r \in Nat
  BY DEF AtDepth, BlocksWithin
<1> QED
  BY <1>1, <1>2

(* Counted from one block further up, the chain's n-th block down moves    *)
(* to the next one, or is still the slot 0 of a chain that is too short.   *)
LEMMA BlocksBackStep ==
  ASSUME NEW ls, Ordered(ls), NEW slot \in Nat, NEW n \in Nat, HoldsBlock(ls, slot + 1),
         NEW before, before = BlocksBack(ls, slot, n),
         NEW final, final = BlocksBack(ls, slot + 1, n)
  PROVE  /\ before \in 0..slot /\ final \in 0..(slot + 1) /\ before <= final
         /\ HoldsBlock(ls, final)
         /\ BlocksWithin(ls, before + 1, final) \subseteq {final}
         /\ final # before => ParentSlot(ls, final) = before
<1>1. before \in 0..slot /\ final \in 0..(slot + 1) /\ before <= final
  BY BlocksBackType, BlocksBackGrows
<1>2. HoldsBlock(ls, 0)
  BY HoldsBlockIff DEF Ordered
<1>3. ASSUME NEW s \in AtDepth(ls, slot + 1, n), s # 0
      PROVE  BlockAtOrBefore(ls, s - 1) \in AtDepth(ls, slot, n)
  <2> DEFINE b == BlockAtOrBefore(ls, s - 1)
             Above(x) == BlocksWithin(ls, x + 1, slot + 1)
  <2>1. /\ s \in Nat /\ s - 1 \in Nat /\ s <= slot + 1 /\ HoldsBlock(ls, s)
        /\ Cardinality(Above(s)) = n
    BY <1>3 DEF AtDepth, BlocksWithin, BlocksIn
  <2>2. /\ b \in 0..(s - 1) /\ HoldsBlock(ls, b)
        /\ \A r \in (b + 1)..(s - 1) : ~HoldsBlock(ls, r)
    BY <2>1, LastBlock
  <2> HIDE DEF b
  <2>3. Above(b) = Above(s) \cup {s} /\ s \notin Above(s)
    BY <2>1, <2>2 DEF BlocksWithin
  <2>4. IsFiniteSet(Above(s)) /\ IsFiniteSet(Above(b)) /\ Cardinality(Above(b)) = n + 1
    BY <2>1, <2>2, <2>3, BlocksFinite, FS_AddElement
  <2>5. slot + 1 \in Above(b) /\ BlocksWithin(ls, b + 1, slot) = Above(b) \ {slot + 1}
    BY <2>1, <2>2 DEF BlocksWithin
  <2>6. Cardinality(BlocksWithin(ls, b + 1, slot)) = n
    <3> HIDE DEF Above
    <3>1. Cardinality(Above(b) \ {slot + 1}) = (n + 1) - 1
      BY <2>4, <2>5, FS_RemoveElement
    <3> QED
      BY <2>5, <3>1
  <2>7. b \in BlocksWithin(ls, 0, slot)
    BY <2>1, <2>2 DEF BlocksWithin
  <2> QED
    BY <2>6, <2>7 DEF AtDepth, BlocksIn, b
<1>4. \A to : BlocksBack(ls, to, n) \in AtDepth(ls, to, n) \/ BlocksBack(ls, to, n) = 0
  BY DEF BlocksBack, AtDepth
<1>5. CASE final = 0
  <2>1. before = 0 /\ BlocksWithin(ls, before + 1, final) = {}
    BY <1>1, <1>5 DEF BlocksWithin
  <2> QED
    BY <1>1, <1>2, <1>5, <2>1
<1>6. CASE final # 0
  <2> DEFINE b == BlockAtOrBefore(ls, final - 1)
  <2>1. final \in AtDepth(ls, slot + 1, n)
    BY <1>4, <1>6
  <2>2. b \in AtDepth(ls, slot, n)
    BY <1>3, <1>6, <2>1
  <2>3. before \in AtDepth(ls, slot, n)
    BY <2>2 DEF BlocksBack, AtDepth
  <2>4. b = before
    BY <2>2, <2>3, OneAtDepth
  <2>5. HoldsBlock(ls, final) /\ final \in Nat \ {0} /\ final - 1 \in Nat
    BY <1>1, <1>6, <2>1 DEF AtDepth, BlocksWithin
  <2>6. ParentSlot(ls, final) = b
    BY <2>5, ParentIsLast
  <2>7. \A r \in (b + 1)..(final - 1) : ~HoldsBlock(ls, r)
    BY <2>5, LastBlock
  <2>8. BlocksWithin(ls, before + 1, final) \subseteq {final}
    BY <1>1, <2>4, <2>5, <2>7 DEF BlocksWithin
  <2> QED
    BY <1>1, <2>4, <2>5, <2>6, <2>8
<1> QED
  BY <1>5, <1>6

-----------------------------------------------------------------------------
(* Counting blocks: what heights are made of *)

(* The blocks of a range are those of its two parts. *)
LEMMA BlocksSplit ==
  ASSUME NEW ls, NEW from \in Nat, NEW slot \in Nat, NEW to \in Nat, from <= slot + 1, slot <= to
  PROVE  BlocksIn(ls, from, to) = BlocksIn(ls, from, slot) + BlocksIn(ls, slot + 1, to)
<1> DEFINE B == BlocksWithin(ls, from, slot)
           A == BlocksWithin(ls, slot + 1, to)
<1>1. IsFiniteSet(B) /\ IsFiniteSet(A)
  BY BlocksFinite, slot + 1 \in Nat
<1>2. BlocksWithin(ls, from, to) = B \cup A /\ B \cap A = {}
  BY DEF BlocksWithin
<1> HIDE DEF A, B
<1>3. Cardinality(B \cap A) = 0
  BY <1>2, FS_EmptySet
<1>4. Cardinality(B) \in Nat /\ Cardinality(A) \in Nat
  BY <1>1, FS_CardinalityType
<1>5. Cardinality(B \cup A) = Cardinality(B) + Cardinality(A) - Cardinality(B \cap A)
  BY <1>1, FS_Union
<1> QED
  BY <1>2, <1>3, <1>4, <1>5 DEF BlocksIn, A, B

(* A block more. *)
LEMMA BlocksNext ==
  ASSUME NEW ls, NEW from \in Nat, NEW slot \in Nat \ {0}, from <= slot, HoldsBlock(ls, slot)
  PROVE  BlocksIn(ls, from, slot) = BlocksIn(ls, from, slot - 1) + 1
<1> DEFINE p == slot - 1
<1>1. p \in Nat /\ p + 1 = slot /\ p <= slot /\ from <= p + 1
  OBVIOUS
<1> HIDE DEF p
<1>2. BlocksIn(ls, from, slot) = BlocksIn(ls, from, p) + BlocksIn(ls, slot, slot)
  <2>1. BlocksIn(ls, from, slot) = BlocksIn(ls, from, p) + BlocksIn(ls, p + 1, slot)
    BY <1>1, BlocksSplit
  <2> QED
    BY <1>1, <2>1
<1>3. BlocksWithin(ls, slot, slot) = {slot}
  BY DEF BlocksWithin
<1>4. BlocksIn(ls, slot, slot) = 1
  BY <1>3, FS_Singleton DEF BlocksIn
<1> QED
  BY <1>2, <1>4 DEF p

(* A travel adds no block to count before the slot it lands on, and leaves *)
(* the ones before the open slot.                                          *)
LEMMA SameBlocksSameCount ==
  ASSUME NEW ls, NEW after, NEW open \in Nat \ {0}, NEW land \in Nat, open <= land,
         \A s \in 0..(land - 1) : HoldsBlock(after, s) <=> s < open /\ HoldsBlock(ls, s),
         NEW from \in Nat
  PROVE  /\ BlocksIn(after, from, land - 1) = BlocksIn(ls, from, open - 1)
         /\ \A s \in 0..(open - 1) : BlocksIn(after, from, s) = BlocksIn(ls, from, s)
<1>1. BlocksWithin(after, from, land - 1) = BlocksWithin(ls, from, open - 1)
  BY DEF BlocksWithin
<1>2. ASSUME NEW s \in 0..(open - 1)
      PROVE  BlocksWithin(after, from, s) = BlocksWithin(ls, from, s)
  BY DEF BlocksWithin
<1> QED
  BY <1>1, <1>2 DEF BlocksIn

-----------------------------------------------------------------------------
(* Walks *)

(* Steps 0 to n, of which each gives the next, all happen. *)
LEMMA StepByStep ==
  ASSUME NEW n \in Nat, NEW T, 0 \in T, \A i \in 1..n : i - 1 \in T => i \in T
  PROVE  0..n \subseteq T
<1>1. SUFFICES ASSUME (0..n) \ T # {} PROVE FALSE
  OBVIOUS
<1>2. PICK x \in (0..n) \ T : \A y \in (0..n) \ T : x <= y
  <2>1. (0..n) \ T \in SUBSET Nat
    OBVIOUS
  <2> QED
    BY <1>1, <2>1, SmallestExists
<1>3. x \in 1..n /\ x - 1 \in 0..n /\ ~(x <= x - 1)
  BY <1>2
<1> QED
  BY <1>2, <1>3

(* g goes on from one element of S to the next, n times. *)
Unrolls(g, n, S, base, F) ==
  g \in [0..n -> S] /\ g[0] = base /\ \A i \in 1..n : g[i] = F[i][g[i - 1]]

(* Such a function exists. *)
LEMMA Recursion ==
  ASSUME NEW n \in Nat, NEW S, NEW base \in S, NEW F \in [1..n -> [S -> S]]
  PROVE  \E g : Unrolls(g, n, S, base, F)
<1> DEFINE Upto(g, k) == /\ g[0] = base
                         /\ \A i \in 1..k : g[i] = F[i][g[i - 1]]
                         /\ \A i \in 0..k : g[i] \in S
           T == {k \in 0..n : \E g : Upto(g, k)}
<1>1. 0 \in T
  <2> DEFINE h == [i \in {0} |-> base]
  <2>1. Upto(h, 0)
    OBVIOUS
  <2> HIDE DEF h
  <2> QED
    BY <2>1
<1>2. ASSUME NEW k \in 1..n, k - 1 \in T PROVE k \in T
  <2>1. PICK g : Upto(g, k - 1)
    BY <1>2
  <2> DEFINE h == [i \in 0..k |-> IF i = k THEN F[k][g[k - 1]] ELSE g[i]]
  <2>2. g[k - 1] \in S /\ F[k] \in [S -> S]
    BY <2>1
  <2>3. h[0] = base /\ h[k] = F[k][g[k - 1]] /\ h[k] \in S
    BY <2>1, <2>2
  <2>4. \A i \in 0..(k - 1) : h[i] = g[i]
    OBVIOUS
  <2> HIDE DEF h
  <2>5. ASSUME NEW i \in 1..k PROVE h[i] = F[i][h[i - 1]]
    <3>1. CASE i = k
      <4>1. k - 1 \in 0..(k - 1) /\ h[k - 1] = g[k - 1]
        BY <1>2, <2>4
      <4> QED
        BY <2>3, <3>1, <4>1
    <3>2. CASE i # k
      <4>1. i \in 1..(k - 1) /\ i - 1 \in 0..(k - 1) /\ i \in 0..(k - 1)
        BY <3>2
      <4> QED
        BY <2>1, <2>4, <4>1
    <3> QED
      BY <3>1, <3>2
  <2>6. \A i \in 0..k : h[i] \in S
    BY <2>1, <2>3, <2>4
  <2> QED
    BY <2>3, <2>5, <2>6
<1>3. \E g : Upto(g, n)
  <2>1. 0..n \subseteq T
    <3> HIDE DEF T
    <3> QED
      BY <1>1, <1>2, StepByStep
  <2>2. n \in 0..n
    OBVIOUS
  <2> QED
    BY <2>1, <2>2
<1>4. PICK g : Upto(g, n)
  BY <1>3
<1> DEFINE h == [i \in 0..n |-> g[i]]
<1>5. h \in [0..n -> S] /\ h[0] = base
  BY <1>4
<1>6. ASSUME NEW i \in 1..n PROVE h[i] = F[i][h[i - 1]]
  <2>1. i - 1 \in 0..n /\ i \in 0..n
    OBVIOUS
  <2> QED
    BY <1>4, <2>1
<1> QED
  BY <1>5, <1>6 DEF Unrolls

(* A walk back from slot b, past one slot after the other. *)
WalkedBack(walk, ls, b, n) ==
  /\ walk[0] = [slot |-> b, n |-> n, done |-> FALSE]
  /\ \A i \in 1..(b + 1) : walk[i] = Back(ls, walk[i - 1], b + 1 - i)

(* blocks_back returns where such a walk ends. *)
LEMMA WalkBack ==
  ASSUME NEW ls, \A l \in DOMAIN ls : ls[l].parent \in Nat,
         NEW slot, NEW n \in Nat, BlockAtOrBefore(ls, slot) \in Nat,
         NEW b, b = BlockAtOrBefore(ls, slot)
  PROVE  \E walk : /\ WalkedBack(walk, ls, b, n)
                   /\ WalkBlocksBack(ls, slot, n) = SatSub(walk[b + 1].slot, walk[b + 1].n)
<1> DEFINE At == [slot : Int, n : Int, done : BOOLEAN]
           first == [slot |-> b, n |-> n, done |-> FALSE]
           F == [i \in 1..(b + 1) |-> [w \in At |-> Back(ls, w, b + 1 - i)]]
           Run(g) == [i \in 0..(b + 1) |-> IF i = 0 THEN first ELSE Back(ls, g[i - 1], b + 1 - i)]
           walk == CHOOSE g : g = Run(g)
<1>1. ASSUME NEW w \in At, NEW l \in Int PROVE Back(ls, w, l) \in At
  <2>1. CASE l \notin DOMAIN ls \/ w.done
    BY <2>1 DEF Back
  <2>2. [w EXCEPT !.done = TRUE] \in At
    OBVIOUS
  <2>3. l \in DOMAIN ls =>
          [slot |-> ls[l].parent, n |-> w.n - (w.slot - l + 1), done |-> FALSE] \in At
    <3>1. w.n - (w.slot - l + 1) \in Int
      OBVIOUS
    <3> QED
      BY <3>1
  <2> HIDE DEF At
  <2> QED
    BY <2>1, <2>2, <2>3 DEF Back
<1>2. F \in [1..(b + 1) -> [At -> At]]
  <2>1. \A i \in 1..(b + 1) : b + 1 - i \in Int
    OBVIOUS
  <2> QED
    BY <1>1, <2>1
<1>3. PICK g : Unrolls(g, b + 1, At, first, F)
  <2>1. first \in At /\ b + 1 \in Nat
    OBVIOUS
  <2> HIDE DEF F, first, At
  <2> QED
    BY <1>2, <2>1, Recursion
<1>4. g = Run(g)
  <2>1. g \in [0..(b + 1) -> At] /\ g[0] = first
    BY <1>3 DEF Unrolls
  <2>2. ASSUME NEW i \in 1..(b + 1) PROVE g[i] = Back(ls, g[i - 1], b + 1 - i)
    <3>1. g[i - 1] \in At
      <4>1. i - 1 \in 0..(b + 1)
        OBVIOUS
      <4> QED
        BY <2>1, <4>1
    <3>2. g[i] = F[i][g[i - 1]]
      BY <1>3 DEF Unrolls
    <3> QED
      BY <3>1, <3>2
  <2>3. \A i \in 0..(b + 1) : g[i] = Run(g)[i]
    BY <2>1, <2>2
  <2> QED
    BY <2>1, <2>3
<1>5. walk = Run(walk)
  <2> HIDE DEF Run
  <2> QED
    BY <1>4
<1>6. WalkBlocksBack(ls, slot, n) = SatSub(walk[b + 1].slot, walk[b + 1].n)
  BY DEF WalkBlocksBack
<1>7. WalkedBack(walk, ls, b, n)
  <2> HIDE DEF walk, first
  <2>1. walk[0] = first
    <3>1. 0 \in 0..(b + 1)
      OBVIOUS
    <3> QED
      BY <1>5, <3>1
  <2>2. ASSUME NEW i \in 1..(b + 1) PROVE walk[i] = Back(ls, walk[i - 1], b + 1 - i)
    BY <1>5
  <2> USE DEF first
  <2> QED
    BY <2>1, <2>2 DEF WalkedBack
<1> QED
  BY <1>6, <1>7

(* A range of slots holds no more blocks than slots, and as many when none *)
(* of them was skipped.                                                    *)
LEMMA RunLength ==
  ASSUME NEW ls, NEW from \in Nat, NEW to \in Int, from <= to + 1
  PROVE  /\ BlocksIn(ls, from, to) \in Nat /\ BlocksIn(ls, from, to) <= to - from + 1
         /\ (\A r \in from..to : HoldsBlock(ls, r)) => BlocksIn(ls, from, to) = to - from + 1
<1> DEFINE B == BlocksWithin(ls, from, to)
<1>1. IsFiniteSet(from..to) /\ Cardinality(from..to) = to - from + 1
  BY FS_Interval
<1>2. B \subseteq from..to
  BY DEF BlocksWithin
<1>3. (\A r \in from..to : HoldsBlock(ls, r)) => B = from..to
  BY DEF BlocksWithin
<1>4. IsFiniteSet(B) /\ Cardinality(B) <= Cardinality(from..to)
  BY <1>1, <1>2, FS_Subset
<1>5. Cardinality(B) \in Nat
  BY <1>4, FS_CardinalityType
<1> QED
  BY <1>1, <1>3, <1>4, <1>5 DEF BlocksIn

(* No slot was skipped from the last landing up to a block. *)
LEMMA HoldsFrom ==
  ASSUME NEW ls, Ordered(ls), NEW s \in Nat, HoldsBlock(ls, s),
         NEW m \in Nat, \A l \in DOMAIN ls : l <= s => l <= m
  PROVE  \A r \in m..s : HoldsBlock(ls, r)
<1>1. \A l \in DOMAIN ls : l > s => s <= ls[l].parent
  BY HoldsBlockIff
<1>2. SUFFICES ASSUME NEW r \in m..s PROVE \A l \in DOMAIN ls : l > r => r <= ls[l].parent
  BY HoldsBlockIff
<1>3. ASSUME NEW l \in DOMAIN ls, l > r PROVE r <= ls[l].parent
  <2>1. l \in Nat /\ ls[l].parent \in Nat
    BY DEF Ordered
  <2>2. l > s
    BY <1>3, <2>1
  <2> QED
    BY <1>1, <2>1, <2>2
<1> QED
  BY <1>3

(* Along a run of blocks depth is distance. *)
LEMMA BackInRun ==
  ASSUME NEW ls, NEW slot \in Nat, NEW n \in Nat, n <= slot,
         \A r \in (slot - n)..slot : HoldsBlock(ls, r)
  PROVE  BlocksBack(ls, slot, n) = slot - n
<1>1. slot - n + 1 \in Nat /\ slot - n + 1 <= slot + 1 /\ slot - (slot - n + 1) + 1 = n
  OBVIOUS
<1>2. \A r \in (slot - n + 1)..slot : HoldsBlock(ls, r)
  OBVIOUS
<1>3. BlocksIn(ls, slot - n + 1, slot) = n
  BY <1>1, <1>2, RunLength
<1>4. slot - n \in AtDepth(ls, slot, n)
  BY <1>3 DEF AtDepth, BlocksWithin
<1>5. \A s \in AtDepth(ls, slot, n) : s = slot - n
  BY <1>4, OneAtDepth
<1> QED
  BY <1>4, <1>5 DEF AtDepth, BlocksBack

(* There are fewer blocks below a slot than slots up to it. *)
LEMMA BackBeyond ==
  ASSUME NEW ls, NEW slot \in Nat, NEW n \in Nat, n > slot
  PROVE  BlocksBack(ls, slot, n) = 0
<1>1. ASSUME NEW s \in AtDepth(ls, slot, n) PROVE FALSE
  <2>1. s \in 0..slot /\ BlocksIn(ls, s + 1, slot) = n
    BY DEF AtDepth, BlocksWithin
  <2>2. s + 1 \in Nat /\ s + 1 <= slot + 1
    BY <2>1
  <2>3. BlocksIn(ls, s + 1, slot) <= slot - (s + 1) + 1
    BY <2>2, RunLength
  <2> QED
    BY <2>1, <2>3
<1> QED
  BY <1>1 DEF AtDepth, BlocksBack

(* A landing's parent holds a block, the last one before the landing. *)
LEMMA LandingParent ==
  ASSUME NEW ls, Ordered(ls), NEW l \in DOMAIN ls
  PROVE  /\ ls[l].parent \in 0..(l - 1) /\ HoldsBlock(ls, ls[l].parent)
         /\ \A r \in (ls[l].parent + 1)..(l - 1) : ~HoldsBlock(ls, r)
<1>1. l \in Nat /\ ls[l].parent \in 0..(l - 1)
  BY DEF Ordered
<1> DEFINE p == ls[l].parent
<1>2. \A k \in DOMAIN ls : k > p => p <= ls[k].parent
  <2>1. ASSUME NEW k \in DOMAIN ls, k > p PROVE p <= ls[k].parent
    <3>1. k \in Nat /\ ls[k].parent \in Nat /\ (k < l => k <= p) /\ (l < k => l <= ls[k].parent)
      BY DEF Ordered
    <3> QED
      BY <1>1, <2>1, <3>1
  <2> QED
    BY <2>1
<1>3. HoldsBlock(ls, p)
  BY <1>1, <1>2, HoldsBlockIff
<1>4. ASSUME NEW r \in (p + 1)..(l - 1) PROVE ~HoldsBlock(ls, r)
  <2>1. r \in Nat /\ l > r /\ ~(r <= p)
    BY <1>1
  <2> QED
    BY <2>1, HoldsBlockIff
<1> QED
  BY <1>1, <1>3, <1>4

(* Crossing a landing takes the blocks from it on off the depth. *)
LEMMA BackAcross ==
  ASSUME NEW ls, Ordered(ls), NEW slot \in Nat, NEW l \in DOMAIN ls, l <= slot,
         \A r \in l..slot : HoldsBlock(ls, r),
         NEW n \in Nat, n > slot - l,
         NEW m, m = n - (slot - l + 1)
  PROVE  m \in Nat /\ BlocksBack(ls, ls[l].parent, m) = BlocksBack(ls, slot, n)
<1> DEFINE p == ls[l].parent
<1>1. l \in Nat \ {0} /\ p \in 0..(l - 1)
  BY DEF Ordered
<1>2. \A r \in (p + 1)..(l - 1) : ~HoldsBlock(ls, r)
  BY LandingParent
<1>3. m \in Nat
  BY <1>1
<1> HIDE DEF p
<1>4. BlocksIn(ls, l, slot) = slot - l + 1
  BY <1>1, RunLength
<1>5. ASSUME NEW s \in 0..p
      PROVE  BlocksIn(ls, s + 1, slot) = BlocksIn(ls, s + 1, p) + (slot - l + 1)
  <2>1. /\ s + 1 \in Nat /\ l - 1 \in Nat /\ (l - 1) + 1 = l
        /\ s + 1 <= (l - 1) + 1 /\ l - 1 <= slot
    BY <1>1
  <2>2. BlocksIn(ls, s + 1, slot) = BlocksIn(ls, s + 1, l - 1) + BlocksIn(ls, l, slot)
    BY <2>1, BlocksSplit
  <2>3. BlocksWithin(ls, s + 1, l - 1) = BlocksWithin(ls, s + 1, p)
    BY <1>1, <1>2 DEF BlocksWithin
  <2> QED
    BY <1>4, <2>2, <2>3 DEF BlocksIn
<1>6. ASSUME NEW s \in AtDepth(ls, p, m) PROVE s \in AtDepth(ls, slot, n)
  <2>1. s \in 0..p /\ HoldsBlock(ls, s) /\ BlocksIn(ls, s + 1, p) = m
    BY DEF AtDepth, BlocksWithin
  <2>2. BlocksIn(ls, s + 1, slot) = m + (slot - l + 1)
    BY <1>5, <2>1
  <2>3. s \in 0..slot /\ m + (slot - l + 1) = n
    BY <1>1, <2>1
  <2> QED
    BY <2>1, <2>2, <2>3 DEF AtDepth, BlocksWithin
<1>7. ASSUME NEW s \in AtDepth(ls, slot, n) PROVE s \in AtDepth(ls, p, m)
  <2>1. s \in 0..slot /\ HoldsBlock(ls, s) /\ BlocksIn(ls, s + 1, slot) = n
    BY DEF AtDepth, BlocksWithin
  <2>2. s + 1 \in Nat /\ s + 1 <= slot + 1
    BY <2>1
  <2>3. BlocksIn(ls, s + 1, slot) <= slot - (s + 1) + 1
    BY <2>2, RunLength
  <2>4. s \in 0..(l - 1)
    BY <1>1, <2>1, <2>3
  <2>5. s \in 0..p
    BY <1>1, <1>2, <2>1, <2>4
  <2>6. BlocksIn(ls, s + 1, p) \in Nat
    <3>1. p \in Nat /\ s + 1 \in Nat
      BY <1>1, <2>1
    <3> QED
      BY <3>1, BlocksFinite
  <2>7. BlocksIn(ls, s + 1, p) = m
    BY <1>1, <1>5, <2>1, <2>5, <2>6
  <2> QED
    BY <2>1, <2>5, <2>7 DEF AtDepth, BlocksWithin
<1>8. AtDepth(ls, p, m) = AtDepth(ls, slot, n)
  BY <1>6, <1>7
<1>9. ASSUME NEW to, NEW k
      PROVE  BlocksBack(ls, to, k)
               = IF AtDepth(ls, to, k) = {} THEN 0 ELSE CHOOSE s \in AtDepth(ls, to, k) : TRUE
  BY DEF AtDepth, BlocksBack
<1>10. BlocksBack(ls, p, m) = BlocksBack(ls, slot, n)
  BY <1>8, <1>9
<1> QED
  BY <1>3, <1>10 DEF p

(* What a walk back from slot b knows when only the landings up to slot k  *)
(* are left: the chain's n-th block below b is the one w.n below w.slot,   *)
(* and once it is done that one is in the run up to w.slot.                *)
OnTheWay(w, ls, b, n, k) ==
  /\ w.slot \in Nat /\ w.n \in Nat /\ HoldsBlock(ls, w.slot)
  /\ BlocksBack(ls, w.slot, w.n) = BlocksBack(ls, b, n)
  /\ ~w.done => \A l \in DOMAIN ls : l <= w.slot <=> l <= k
  /\ w.done => w.n <= w.slot /\ \A r \in (w.slot - w.n)..w.slot : HoldsBlock(ls, r)

LEMMA BackPast ==
  ASSUME NEW ls, Ordered(ls), NEW b, NEW n, NEW l \in Nat,
         NEW w, OnTheWay(w, ls, b, n, l)
  PROVE  OnTheWay(Back(ls, w, l), ls, b, n, l - 1)
<1> DEFINE p == ls[l].parent
           m == w.n - (w.slot - l + 1)
<1>1. /\ w.slot \in Nat /\ w.n \in Nat /\ HoldsBlock(ls, w.slot)
      /\ BlocksBack(ls, w.slot, w.n) = BlocksBack(ls, b, n)
  BY DEF OnTheWay
<1>2. CASE w.done
  <2>1. Back(ls, w, l) = w
    BY <1>2 DEF Back
  <2> QED
    BY <1>2, <2>1 DEF OnTheWay
<1>3. CASE ~w.done /\ l \notin DOMAIN ls
  <2>1. Back(ls, w, l) = w
    BY <1>3 DEF Back
  <2>2. \A k \in DOMAIN ls : k \in Nat /\ k # l
    BY <1>3 DEF Ordered
  <2>3. \A k \in DOMAIN ls : k <= l <=> k <= l - 1
    BY <2>2
  <2>4. \A k \in DOMAIN ls : k <= w.slot <=> k <= l
    BY <1>3 DEF OnTheWay
  <2>5. \A k \in DOMAIN ls : k <= w.slot <=> k <= l - 1
    BY <2>3, <2>4
  <2> QED
    BY <1>1, <1>3, <2>1, <2>5 DEF OnTheWay
<1>4. CASE ~w.done /\ l \in DOMAIN ls
  <2>1. l <= w.slot /\ \A k \in DOMAIN ls : k <= w.slot <=> k <= l
    BY <1>4 DEF OnTheWay
  <2>2. \A r \in l..w.slot : HoldsBlock(ls, r)
    BY <1>1, <2>1, HoldsFrom
  <2>3. CASE w.n <= w.slot - l
    <3>1. Back(ls, w, l) = [w EXCEPT !.done = TRUE]
      BY <1>4, <2>3 DEF Back
    <3>2. PICK v : v = Back(ls, w, l)
      OBVIOUS
    <3>3. v.slot = w.slot /\ v.n = w.n
      BY <3>1, <3>2
    <3>4. w.n <= w.slot /\ \A r \in (w.slot - w.n)..w.slot : r \in l..w.slot
      BY <1>1, <2>3
    <3>5. v.n <= v.slot /\ \A r \in (v.slot - v.n)..v.slot : HoldsBlock(ls, r)
      BY <2>2, <3>3, <3>4
    <3>6. v.done
      BY <3>1, <3>2
    <3> QED
      BY <1>1, <3>2, <3>3, <3>5, <3>6 DEF OnTheWay
  <2>4. CASE w.n > w.slot - l
    <3>1. Back(ls, w, l) = [slot |-> p, n |-> m, done |-> FALSE]
      BY <1>1, <1>4, <2>4 DEF Back
    <3>2. m \in Nat /\ BlocksBack(ls, p, m) = BlocksBack(ls, w.slot, w.n)
      BY <1>1, <1>4, <2>1, <2>2, <2>4, BackAcross
    <3>3. p \in 0..(l - 1) /\ HoldsBlock(ls, p)
      BY <1>4, LandingParent
    <3>4. \A k \in DOMAIN ls : k <= p <=> k <= l - 1
      <4>1. \A k \in DOMAIN ls : k \in Nat /\ (k < l => k <= p)
        BY <1>4 DEF Ordered
      <4> QED
        BY <3>3, <4>1
    <3> HIDE DEF p, m
    <3>5. PICK v : v = [slot |-> p, n |-> m, done |-> FALSE]
      OBVIOUS
    <3>6. v.slot = p /\ v.n = m
      BY <3>5
    <3>7. ~v.done
      BY <3>5
    <3>8. p \in Nat
      BY <3>3
    <3> QED
      BY <1>1, <3>1, <3>2, <3>3, <3>4, <3>5, <3>6, <3>7, <3>8 DEF OnTheWay
  <2> QED
    BY <1>1, <2>3, <2>4
<1> QED
  BY <1>2, <1>3, <1>4

(* blocks_back returns the chain's n-th block below the last block at or   *)
(* before a slot.                                                          *)
LEMMA BackIsBlocksBack ==
  ASSUME NEW ls, Ordered(ls), NEW slot \in Nat, NEW n \in Nat
  PROVE  WalkBlocksBack(ls, slot, n) = BlocksBack(ls, BlockAtOrBefore(ls, slot), n)
<1> DEFINE b == BlockAtOrBefore(ls, slot)
<1>1. b \in Nat /\ HoldsBlock(ls, b)
  BY LastBlock
<1>2. \A l \in DOMAIN ls : ls[l].parent \in Nat
  BY DEF Ordered
<1>3. PICK walk : /\ WalkedBack(walk, ls, b, n)
                  /\ WalkBlocksBack(ls, slot, n) = SatSub(walk[b + 1].slot, walk[b + 1].n)
  BY <1>1, <1>2, WalkBack
<1> HIDE DEF b
<1> DEFINE T == {i \in 0..(b + 1) : OnTheWay(walk[i], ls, b, n, b - i)}
<1>4. 0 \in T
  <2>1. PICK w : w = [slot |-> b, n |-> n, done |-> FALSE]
    OBVIOUS
  <2>2. w.slot = b /\ w.n = n
    BY <2>1
  <2>3. ~w.done
    BY <2>1
  <2>4. OnTheWay(w, ls, b, n, b)
    BY <1>1, <2>2, <2>3 DEF OnTheWay
  <2>5. walk[0] = w /\ b - 0 = b /\ 0 \in 0..(b + 1)
    BY <1>1, <1>3, <2>1 DEF WalkedBack
  <2> QED
    BY <2>4, <2>5
<1>5. ASSUME NEW i \in 1..(b + 1), i - 1 \in T PROVE i \in T
  <2>1. PICK l : l = b + 1 - i
    OBVIOUS
  <2>2. l \in Nat /\ b - (i - 1) = l /\ b - i = l - 1 /\ i \in 0..(b + 1)
    BY <1>1, <2>1
  <2>3. walk[i] = Back(ls, walk[i - 1], l)
    BY <1>3, <2>1 DEF WalkedBack
  <2>4. OnTheWay(walk[i - 1], ls, b, n, l)
    BY <1>5, <2>2
  <2>5. OnTheWay(walk[i], ls, b, n, l - 1)
    BY <2>2, <2>3, <2>4, BackPast
  <2> QED
    BY <2>2, <2>5
<1>6. b + 1 \in T
  <2>1. b + 1 \in Nat /\ b + 1 \in 0..(b + 1)
    BY <1>1
  <2>2. 0..(b + 1) \subseteq T
    <3> HIDE DEF T
    <3> QED
      BY <1>4, <1>5, <2>1, StepByStep
  <2> QED
    BY <2>1, <2>2
<1>7. PICK w : w = walk[b + 1]
  OBVIOUS
<1>8. OnTheWay(w, ls, b, n, -1)
  BY <1>1, <1>6, <1>7
<1>9. /\ w.slot \in Nat /\ w.n \in Nat /\ HoldsBlock(ls, w.slot)
      /\ BlocksBack(ls, w.slot, w.n) = BlocksBack(ls, b, n)
  BY <1>8 DEF OnTheWay
<1>10. SatSub(w.slot, w.n) = BlocksBack(ls, w.slot, w.n)
  <2>1. CASE w.n > w.slot
    BY <1>9, <2>1, BackBeyond DEF SatSub
  <2>2. CASE w.n <= w.slot
    <3>1. \A r \in (w.slot - w.n)..w.slot : HoldsBlock(ls, r)
      <4>1. CASE w.done
        BY <1>8, <4>1 DEF OnTheWay
      <4>2. CASE ~w.done
        <5>1. \A l \in DOMAIN ls : l \in Nat /\ (l <= w.slot <=> l <= -1)
          BY <1>8, <4>2 DEF OnTheWay, Ordered
        <5>2. \A l \in DOMAIN ls : l <= w.slot => l <= 0
          BY <5>1
        <5>3. \A r \in 0..w.slot : HoldsBlock(ls, r)
          BY <1>9, <5>2, HoldsFrom
        <5>4. \A r \in (w.slot - w.n)..w.slot : r \in 0..w.slot
          BY <1>9, <2>2
        <5> QED
          BY <5>3, <5>4
      <4> QED
        BY <4>1, <4>2
    <3>2. BlocksBack(ls, w.slot, w.n) = w.slot - w.n
      BY <1>9, <2>2, <3>1, BackInRun
    <3> QED
      BY <1>9, <2>2, <3>2 DEF SatSub
  <2> QED
    BY <1>9, <2>1, <2>2
<1> QED
  BY <1>3, <1>7, <1>9, <1>10 DEF b

-----------------------------------------------------------------------------
(* Runs of blocks *)

(* Runs that follow each other, and the slots they list. *)
Sorted(runs) ==
  /\ runs \in Seq(Nat \X Nat)
  /\ \A j \in DOMAIN runs : runs[j][1] <= runs[j][2]
  /\ \A j, k \in DOMAIN runs : j < k => runs[j][2] < runs[k][1]

Listed(runs, r) == \E j \in DOMAIN runs : runs[j][1] <= r /\ r <= runs[j][2]

(* The slots listed are those in from..to that hold a block. *)
Covers(runs, ls, from, to) ==
  \A r \in Nat : Listed(runs, r) <=> r \in from..to /\ HoldsBlock(ls, r)

LEMMA AppendRun ==
  ASSUME NEW runs, Sorted(runs), NEW a \in Nat, NEW b \in Nat, a <= b,
         \A r \in Nat : Listed(runs, r) => r < a,
         NEW q, q = Append(runs, <<a, b>>)
  PROVE  /\ Sorted(q)
         /\ \A r \in Nat : Listed(q, r) <=> Listed(runs, r) \/ r \in a..b
<1> DEFINE n == Len(runs)
<1>1. /\ runs \in Seq(Nat \X Nat) /\ n \in Nat /\ DOMAIN runs = 1..n
      /\ \A j \in 1..n : runs[j] \in Nat \X Nat
  BY DEF Sorted
<1>2. q \in Seq(Nat \X Nat) /\ DOMAIN q = 1..(n + 1)
  BY <1>1
<1>3. /\ \A j \in 1..n : q[j] = runs[j]
      /\ q[n + 1][1] = a /\ q[n + 1][2] = b
  <2>1. (\A j \in 1..n : q[j] = runs[j]) /\ q[n + 1] = <<a, b>>
    BY <1>1
  <2>2. <<a, b>>[1] = a /\ <<a, b>>[2] = b
    OBVIOUS
  <2> QED
    BY <2>1, <2>2
<1>4. ASSUME NEW j \in 1..n
      PROVE  /\ runs[j][1] \in Nat /\ runs[j][2] \in Nat
             /\ runs[j][1] <= runs[j][2] /\ runs[j][2] < a
  <2>1. runs[j][1] \in Nat /\ runs[j][2] \in Nat
    BY <1>1
  <2>2. runs[j][1] <= runs[j][2]
    BY <1>1 DEF Sorted
  <2>3. PICK e : e = runs[j][2]
    OBVIOUS
  <2>4. Listed(runs, e)
    <3>1. runs[j][1] <= e /\ e <= runs[j][2]
      BY <2>1, <2>2, <2>3
    <3> QED
      BY <1>1, <3>1 DEF Listed
  <2> QED
    BY <2>1, <2>2, <2>3, <2>4
<1>5. \A j \in 1..(n + 1) : j \in 1..n \/ j = n + 1
  BY <1>1
<1>6. n + 1 \in 1..(n + 1) /\ \A j \in 1..n : j \in 1..(n + 1)
  BY <1>1
<1>7. \A j, k \in 1..n : j < k => runs[j][2] < runs[k][1]
  BY <1>1 DEF Sorted
<1> HIDE DEF n
<1>8. \A j \in DOMAIN q : q[j][1] <= q[j][2]
  BY <1>2, <1>3, <1>4, <1>5
<1>9. ASSUME NEW j \in DOMAIN q, NEW k \in DOMAIN q, j < k PROVE q[j][2] < q[k][1]
  <2>2. j \in 1..n
    BY <1>1, <1>2, <1>9
  <2>3. CASE k \in 1..n
    BY <1>3, <1>7, <1>9, <2>2, <2>3
  <2>4. CASE k = n + 1
    BY <1>3, <1>4, <2>2, <2>4
  <2> QED
    BY <1>2, <1>5, <2>3, <2>4
<1>10. ASSUME NEW r \in Nat PROVE Listed(q, r) <=> Listed(runs, r) \/ r \in a..b
  <2>1. ASSUME NEW j \in DOMAIN q, q[j][1] <= r, r <= q[j][2] PROVE Listed(runs, r) \/ r \in a..b
    <3>1. CASE j \in 1..n
      BY <1>1, <1>3, <2>1, <3>1 DEF Listed
    <3>2. CASE j = n + 1
      BY <1>3, <2>1, <3>2
    <3> QED
      BY <1>2, <1>5, <3>1, <3>2
  <2>2. ASSUME NEW j \in DOMAIN runs, runs[j][1] <= r, r <= runs[j][2] PROVE Listed(q, r)
    <3>1. j \in DOMAIN q /\ q[j] = runs[j]
      BY <1>1, <1>2, <1>3, <1>6
    <3> QED
      BY <2>2, <3>1 DEF Listed
  <2>3. ASSUME r \in a..b PROVE Listed(q, r)
    <3>1. n + 1 \in DOMAIN q /\ q[n + 1][1] <= r /\ r <= q[n + 1][2]
      BY <1>2, <1>3, <1>6, <2>3
    <3> QED
      BY <3>1 DEF Listed
  <2> QED
    BY <2>1, <2>2, <2>3 DEF Listed
<1> QED
  BY <1>2, <1>8, <1>9, <1>10 DEF Sorted

(* A run up to the last block before the next landing covers the slots in  *)
(* between.                                                                *)
LEMMA NextRun ==
  ASSUME NEW ls, NEW runs, Sorted(runs),
         NEW from \in Nat, NEW start \in Nat, NEW end \in Nat, NEW upto \in Int,
         from <= start, start = from \/ start <= upto + 1, end <= upto,
         Covers(runs, ls, from, start - 1),
         \A r \in start..upto : HoldsBlock(ls, r) <=> r <= end,
         NEW q, q = IF end >= start THEN Append(runs, <<start, end>>) ELSE runs
  PROVE  Sorted(q) /\ Covers(q, ls, from, upto)
<1>1. \A r \in Nat : Listed(runs, r) => r < start
  BY DEF Covers
<1>2. Sorted(q) /\ \A r \in Nat : Listed(q, r) <=> Listed(runs, r) \/ r \in start..end
  <2>1. CASE end >= start
    <3>1. q = Append(runs, <<start, end>>)
      BY <2>1
    <3> QED
      BY <1>1, <2>1, <3>1, AppendRun
  <2>2. CASE ~(end >= start)
    BY <2>2
  <2> QED
    BY <2>1, <2>2
<1>3. ASSUME NEW r \in Nat PROVE Listed(q, r) <=> r \in from..upto /\ HoldsBlock(ls, r)
  <2>1. Listed(runs, r) <=> r \in from..(start - 1) /\ HoldsBlock(ls, r)
    BY DEF Covers
  <2>2. r \in from..upto <=> r \in from..(start - 1) \/ r \in start..upto
    OBVIOUS
  <2>3. r \in start..end <=> r \in start..upto /\ HoldsBlock(ls, r)
    OBVIOUS
  <2> QED
    BY <1>2, <2>1, <2>2, <2>3
<1> QED
  BY <1>2, <1>3 DEF Covers

(* The runs found once the landings up to slot k are past: those of the    *)
(* slots before the start of the next run, or all of them.                 *)
RunsFound(w, ls, from, to, k) ==
  /\ w.start \in Nat /\ Sorted(w.runs)
  /\ ~w.done => /\ from <= w.start
                /\ w.start = from \/ (w.start <= k /\ w.start <= to)
                /\ \A l \in DOMAIN ls : from < l /\ l <= k => l <= w.start
                /\ Covers(w.runs, ls, from, w.start - 1)
  /\ w.done => Covers(w.runs, ls, from, to)

(* Past a slot no travel landed on, or one before the first of the range,  *)
(* nothing changes.                                                        *)
LEMMA NoLandingPassed ==
  ASSUME NEW ls, Ordered(ls), NEW from \in Nat, NEW to \in Nat, NEW l \in Nat,
         NEW w, RunsFound(w, ls, from, to, l - 1),
         w.done \/ l \notin DOMAIN ls \/ l <= from
  PROVE  RunsFound(w, ls, from, to, l)
<1>1. CASE w.done
  BY <1>1 DEF RunsFound
<1>2. CASE ~w.done
  <2>1. /\ w.start \in Nat /\ Sorted(w.runs) /\ from <= w.start
        /\ w.start = from \/ (w.start <= l - 1 /\ w.start <= to)
        /\ \A m \in DOMAIN ls : from < m /\ m <= l - 1 => m <= w.start
        /\ Covers(w.runs, ls, from, w.start - 1)
    BY <1>2 DEF RunsFound
  <2>2. w.start = from \/ (w.start <= l /\ w.start <= to)
    BY <2>1
  <2>3. \A m \in DOMAIN ls : from < m /\ m <= l => m <= w.start
    <3>1. \A m \in DOMAIN ls : m \in Nat
      BY DEF Ordered
    <3>2. ASSUME NEW m \in DOMAIN ls, from < m, m <= l PROVE m <= w.start
      <4>1. m # l
        BY <1>2, <3>1, <3>2
      <4> QED
        BY <2>1, <3>1, <3>2, <4>1
    <3> QED
      BY <3>2
  <2> QED
    BY <1>2, <2>1, <2>2, <2>3 DEF RunsFound
<1> QED
  BY <1>1, <1>2

(* Past a landing, the run that its parent ends is found. *)
LEMMA LandingPassed ==
  ASSUME NEW ls, Ordered(ls), NEW from \in Nat, NEW to \in Nat, NEW l \in DOMAIN ls, from < l,
         NEW w, RunsFound(w, ls, from, to, l - 1), ~w.done
  PROVE  RunsFound(RunsPast(ls, w, l, to), ls, from, to, l)
<1> DEFINE p == ls[l].parent
           end == IF p < to THEN p ELSE to
           q == IF end >= w.start THEN Append(w.runs, <<w.start, end>>) ELSE w.runs
           next == IF w.start < l THEN l ELSE w.start
<1>1. /\ w.start \in Nat /\ Sorted(w.runs) /\ from <= w.start
      /\ w.start = from \/ (w.start <= l - 1 /\ w.start <= to)
      /\ \A m \in DOMAIN ls : from < m /\ m <= l - 1 => m <= w.start
      /\ Covers(w.runs, ls, from, w.start - 1)
  BY DEF RunsFound
<1>2. l \in Nat /\ p \in 0..(l - 1) /\ \A r \in (p + 1)..(l - 1) : ~HoldsBlock(ls, r)
  BY LandingParent DEF Ordered
<1>3. w.start < l
  BY <1>1, <1>2
<1>4. ASSUME NEW r \in w.start..(l - 1) PROVE HoldsBlock(ls, r) <=> r <= p
  <2>1. CASE r <= p
    <3>1. ASSUME NEW m \in DOMAIN ls, m > r PROVE r <= ls[m].parent
      <4>1. m \in Nat /\ ls[m].parent \in Nat /\ (l < m => l <= ls[m].parent)
        BY DEF Ordered
      <4>2. ~(m <= l - 1)
        BY <1>1, <3>1, <4>1
      <4>3. m = l \/ l < m
        BY <1>2, <4>1, <4>2
      <4> QED
        BY <1>2, <2>1, <4>1, <4>3
    <3>2. r \in Nat
      BY <1>1
    <3> QED
      BY <2>1, <3>1, <3>2, HoldsBlockIff
  <2>2. CASE ~(r <= p)
    <3>1. r \in (p + 1)..(l - 1)
      BY <1>1, <1>2, <2>2
    <3> QED
      BY <1>2, <2>2, <3>1
  <2> QED
    BY <2>1, <2>2
<1> HIDE DEF p
<1>5. end \in Nat /\ end <= to /\ end <= p
  BY <1>2
<1>6. RunsPast(ls, w, l, to)
        = IF l > to THEN [w EXCEPT !.runs = q, !.done = TRUE]
          ELSE [start |-> next, runs |-> q, done |-> FALSE]
  BY DEF RunsPast, p
<1>7. CASE l > to
  <2>1. \A r \in w.start..to : HoldsBlock(ls, r) <=> r <= end
    <3>1. ASSUME NEW r \in w.start..to PROVE HoldsBlock(ls, r) <=> r <= end
      <4>1. r \in w.start..(l - 1) /\ (r <= p <=> r <= end)
        BY <1>1, <1>2, <1>7
      <4> QED
        BY <1>4, <4>1
    <3> QED
      BY <3>1
  <2>2. w.start = from \/ w.start <= to + 1
    BY <1>1
  <2>3. Sorted(q) /\ Covers(q, ls, from, to)
    <3> HIDE DEF end
    <3>1. PICK start : start = w.start
      OBVIOUS
    <3>2. PICK runs : runs = w.runs
      OBVIOUS
    <3>3. PICK longer : longer = IF end >= start THEN Append(runs, <<start, end>>) ELSE runs
      OBVIOUS
    <3>4. PICK upto : upto = to
      OBVIOUS
    <3>5. Sorted(longer) /\ Covers(longer, ls, from, upto)
      <4>1. /\ start \in Nat /\ Sorted(runs) /\ from <= start
            /\ end \in Nat /\ end <= upto /\ upto \in Int
        BY <1>1, <1>5, <2>1, <2>2, <3>1, <3>2, <3>4
      <4>2. start = from \/ start <= upto + 1
        BY <1>1, <1>5, <2>1, <2>2, <3>1, <3>4
      <4>3. Covers(runs, ls, from, start - 1)
        BY <1>1, <1>5, <2>1, <2>2, <3>1, <3>2
      <4>4. \A r \in start..upto : HoldsBlock(ls, r) <=> r <= end
        BY <1>1, <1>5, <2>1, <2>2, <3>1, <3>4
      <4> QED
        BY <3>3, <4>1, <4>2, <4>3, <4>4, NextRun
    <3> QED
      BY <3>1, <3>2, <3>3, <3>4, <3>5
  <2> HIDE DEF q
  <2>4. PICK v : v = [w EXCEPT !.runs = q, !.done = TRUE]
    OBVIOUS
  <2>5. v.start = w.start /\ v.runs = q
    <3>1. DOMAIN w = DOMAIN w
      OBVIOUS
    <3> QED
      BY <2>4
  <2>6. v.done
    BY <2>4
  <2>7. RunsFound(v, ls, from, to, l)
    BY <1>1, <2>3, <2>5, <2>6 DEF RunsFound
  <2> QED
    BY <1>6, <1>7, <2>4, <2>7
<1>8. CASE ~(l > to)
  <2>1. end = p
    BY <1>2, <1>8
  <2>2. \A r \in w.start..(l - 1) : HoldsBlock(ls, r) <=> r <= end
    BY <1>4, <2>1
  <2>3. /\ w.start = from \/ w.start <= (l - 1) + 1
        /\ end <= l - 1 /\ l - 1 \in Int
    BY <1>1, <1>2, <2>1
  <2>4. Sorted(q) /\ Covers(q, ls, from, l - 1)
    <3> HIDE DEF end
    <3>1. PICK start : start = w.start
      OBVIOUS
    <3>2. PICK runs : runs = w.runs
      OBVIOUS
    <3>3. PICK longer : longer = IF end >= start THEN Append(runs, <<start, end>>) ELSE runs
      OBVIOUS
    <3>4. PICK upto : upto = l - 1
      OBVIOUS
    <3>5. Sorted(longer) /\ Covers(longer, ls, from, upto)
      <4>1. /\ start \in Nat /\ Sorted(runs) /\ from <= start
            /\ end \in Nat /\ end <= upto /\ upto \in Int
        BY <1>1, <1>5, <2>2, <2>3, <3>1, <3>2, <3>4
      <4>2. start = from \/ start <= upto + 1
        BY <1>1, <1>5, <2>2, <2>3, <3>1, <3>4
      <4>3. Covers(runs, ls, from, start - 1)
        BY <1>1, <1>5, <2>2, <2>3, <3>1, <3>2
      <4>4. \A r \in start..upto : HoldsBlock(ls, r) <=> r <= end
        BY <1>1, <1>5, <2>2, <2>3, <3>1, <3>4
      <4> QED
        BY <3>3, <4>1, <4>2, <4>3, <4>4, NextRun
    <3> QED
      BY <3>1, <3>2, <3>3, <3>4, <3>5
  <2> HIDE DEF q
  <2>5. PICK v : v = [start |-> l, runs |-> q, done |-> FALSE]
    OBVIOUS
  <2>6. v.start = l /\ v.runs = q
    BY <2>5
  <2>7. ~v.done
    BY <2>5
  <2>8. \A m \in DOMAIN ls : from < m /\ m <= l => m <= l
    OBVIOUS
  <2>9. from <= l /\ l <= l /\ l <= to
    BY <1>1, <1>2, <1>3, <1>8
  <2>10. RunsFound(v, ls, from, to, l)
    BY <1>2, <2>4, <2>6, <2>7, <2>8, <2>9 DEF RunsFound
  <2> QED
    BY <1>3, <1>6, <1>8, <2>5, <2>10
<1> QED
  BY <1>7, <1>8

(* The last landing. *)
LEMMA LastLandingIs ==
  ASSUME NEW ls, Ordered(ls), NEW open \in Nat, \A l \in DOMAIN ls : l <= open
  PROVE  LastLanding(ls) \in Nat /\ \A l \in DOMAIN ls : l <= LastLanding(ls)
<1>1. DOMAIN ls \cup {0} \in SUBSET (0..open)
  BY DEF Ordered
<1>2. PICK m \in DOMAIN ls \cup {0} : \A l \in DOMAIN ls \cup {0} : l <= m
  BY <1>1, LargestExists
<1>3. LastLanding(ls) \in DOMAIN ls \cup {0} /\ \A l \in DOMAIN ls : l <= LastLanding(ls)
  BY <1>2 DEF LastLanding
<1> QED
  BY <1>1, <1>3

(* A walk over the landings past a range's first slot, up to slot n. *)
WalkedRuns(walk, ls, from, to, n) ==
  /\ walk[0] = [start |-> from, runs |-> <<>>, done |-> FALSE]
  /\ \A i \in 1..n : walk[i] = IF i <= from THEN walk[i - 1] ELSE RunsPast(ls, walk[i - 1], i, to)

(* The runs it found, and the last one. *)
RunsOf(walk, to, n) ==
  IF ~walk[n].done /\ to >= walk[n].start
  THEN Append(walk[n].runs, <<walk[n].start, to>>)
  ELSE walk[n].runs

IsRunsOf(runs, ls, from, to, n) ==
  \E walk : WalkedRuns(walk, ls, from, to, n) /\ runs = RunsOf(walk, to, n)

(* block_runs returns those of such a walk. *)
LEMMA WalkRuns ==
  ASSUME NEW ls, \A l \in DOMAIN ls : ls[l].parent \in Nat,
         NEW from \in Nat, NEW to \in Nat, NEW n \in Nat, n = LastLanding(ls)
  PROVE  IsRunsOf(BlockRuns(ls, from, to), ls, from, to, n)
<1> DEFINE At == [start : Int, runs : Seq(Int \X Int), done : BOOLEAN]
           first == [start |-> from, runs |-> <<>>, done |-> FALSE]
           Past(w, i) == IF i <= from THEN w ELSE RunsPast(ls, w, i, to)
           F == [i \in 1..n |-> [w \in At |-> Past(w, i)]]
           Run(g) == [i \in 0..n |->
                        IF i = 0 THEN first
                        ELSE IF i <= from THEN g[i - 1]
                        ELSE RunsPast(ls, g[i - 1], i, to)]
           walk == CHOOSE g : g = Run(g)
<1>1. ASSUME NEW w \in At, NEW l \in Int PROVE RunsPast(ls, w, l, to) \in At
  <2> DEFINE end == IF ls[l].parent < to THEN ls[l].parent ELSE to
             q == IF end >= w.start THEN Append(w.runs, <<w.start, end>>) ELSE w.runs
             next == IF w.start < l THEN l ELSE w.start
  <2>1. CASE l \notin DOMAIN ls \/ w.done
    BY <2>1 DEF RunsPast
  <2>2. CASE l \in DOMAIN ls /\ ~w.done
    <3>1. end \in Int /\ next \in Int /\ w.start \in Int /\ w.runs \in Seq(Int \X Int)
      BY <2>2
    <3>2. q \in Seq(Int \X Int)
      BY <3>1
    <3>3. RunsPast(ls, w, l, to)
            = IF l > to THEN [w EXCEPT !.runs = q, !.done = TRUE]
              ELSE [start |-> next, runs |-> q, done |-> FALSE]
      BY <2>2 DEF RunsPast
    <3> HIDE DEF q, next
    <3>4. [w EXCEPT !.runs = q, !.done = TRUE] \in At
      BY <3>2
    <3>5. [start |-> next, runs |-> q, done |-> FALSE] \in At
      BY <3>1, <3>2
    <3> QED
      BY <3>3, <3>4, <3>5
  <2> QED
    BY <2>1, <2>2
<1>2. F \in [1..n -> [At -> At]]
  <2> HIDE DEF At
  <2>1. \A i \in 1..n, w \in At : Past(w, i) \in At
    BY <1>1
  <2> HIDE DEF Past
  <2> QED
    BY <2>1
<1>3. PICK g : Unrolls(g, n, At, first, F)
  <2>1. first \in At
    BY <<>> \in Seq(Int \X Int)
  <2> HIDE DEF F, first, At
  <2> QED
    BY <1>2, <2>1, Recursion
<1> HIDE DEF first, At
<1>4. g = Run(g)
  <2>1. g \in [0..n -> At] /\ g[0] = first
    BY <1>3 DEF Unrolls
  <2>2. ASSUME NEW i \in 1..n PROVE g[i] = Past(g[i - 1], i)
    <3>1. g[i - 1] \in At
      <4>1. i - 1 \in 0..n
        OBVIOUS
      <4> QED
        BY <2>1, <4>1
    <3>2. g[i] = F[i][g[i - 1]]
      BY <1>3 DEF Unrolls
    <3> HIDE DEF Past
    <3> QED
      BY <3>1, <3>2
  <2>3. \A i \in 0..n : g[i] = Run(g)[i]
    BY <2>1, <2>2
  <2> QED
    BY <2>1, <2>3
<1>5. walk = Run(walk)
  <2> HIDE DEF Run
  <2> QED
    BY <1>4
<1>6. BlockRuns(ls, from, to) = RunsOf(walk, to, n)
  BY DEF BlockRuns, RunsOf, first
<1>7. WalkedRuns(walk, ls, from, to, n)
  <2> HIDE DEF walk
  <2>1. walk[0] = first
    <3>1. 0 \in 0..n
      OBVIOUS
    <3> QED
      BY <1>5, <3>1
  <2>2. ASSUME NEW i \in 1..n
        PROVE  walk[i] = IF i <= from THEN walk[i - 1] ELSE RunsPast(ls, walk[i - 1], i, to)
    BY <1>5
  <2> QED
    BY <2>1, <2>2 DEF WalkedRuns, first
<1> HIDE DEF walk
<1> QED
  BY <1>6, <1>7 DEF IsRunsOf

(* block_runs returns runs that follow each other and list the slots of    *)
(* the range that hold a block.                                            *)
LEMMA RunsAreBlocks ==
  ASSUME NEW ls, Ordered(ls), NEW open \in Nat, \A l \in DOMAIN ls : l <= open,
         NEW from \in Nat, NEW to \in Nat,
         NEW runs, runs = BlockRuns(ls, from, to)
  PROVE  Sorted(runs) /\ Covers(runs, ls, from, to)
<1>1. PICK n : n = LastLanding(ls)
  OBVIOUS
<1>2. n \in Nat /\ \A l \in DOMAIN ls : l <= n
  BY <1>1, LastLandingIs
<1>3. \A l \in DOMAIN ls : l \in Nat /\ ls[l].parent \in Nat
  BY DEF Ordered
<1>4. PICK walk : WalkedRuns(walk, ls, from, to, n) /\ runs = RunsOf(walk, to, n)
  <2>1. IsRunsOf(runs, ls, from, to, n)
    BY <1>1, <1>2, <1>3, WalkRuns
  <2> QED
    BY <2>1 DEF IsRunsOf
<1> DEFINE T == {i \in 0..n : RunsFound(walk[i], ls, from, to, i)}
<1>5. 0 \in T
  <2>1. PICK w : w = [start |-> from, runs |-> <<>>, done |-> FALSE]
    OBVIOUS
  <2>2. w.start = from /\ w.runs = <<>>
    BY <2>1
  <2>3. ~w.done
    BY <2>1
  <2>4. Sorted(<<>>) /\ \A r \in Nat : ~Listed(<<>>, r)
    BY DEF Sorted, Listed
  <2>5. Covers(<<>>, ls, from, from - 1)
    BY <2>4 DEF Covers
  <2>6. \A l \in DOMAIN ls : ~(from < l /\ l <= 0)
    BY <1>3
  <2>7. RunsFound(w, ls, from, to, 0)
    BY <2>2, <2>3, <2>4, <2>5, <2>6 DEF RunsFound
  <2>8. walk[0] = w /\ 0 \in 0..n
    BY <1>2, <1>4, <2>1 DEF WalkedRuns
  <2> QED
    BY <2>7, <2>8
<1>6. ASSUME NEW i \in 1..n, i - 1 \in T PROVE i \in T
  <2>1. PICK w : w = walk[i - 1]
    OBVIOUS
  <2>2. RunsFound(w, ls, from, to, i - 1) /\ i \in Nat /\ i \in 0..n
    BY <1>2, <1>6, <2>1
  <2>3. walk[i] = IF i <= from THEN w ELSE RunsPast(ls, w, i, to)
    BY <1>4, <2>1 DEF WalkedRuns
  <2>4. CASE w.done \/ i \notin DOMAIN ls \/ i <= from
    <3>1. walk[i] = w
      BY <2>3, <2>4 DEF RunsPast
    <3>2. RunsFound(w, ls, from, to, i)
      BY <2>2, <2>4, NoLandingPassed
    <3> QED
      BY <2>2, <3>1, <3>2
  <2>5. CASE ~w.done /\ i \in DOMAIN ls /\ ~(i <= from)
    <3>1. walk[i] = RunsPast(ls, w, i, to)
      BY <2>3, <2>5
    <3>2. from < i
      BY <2>2, <2>5
    <3>3. RunsFound(RunsPast(ls, w, i, to), ls, from, to, i)
      BY <2>2, <2>5, <3>2, LandingPassed
    <3> QED
      BY <2>2, <3>1, <3>3
  <2> QED
    BY <2>4, <2>5
<1>7. n \in T
  <2>1. 0..n \subseteq T
    <3> HIDE DEF T
    <3> QED
      BY <1>2, <1>5, <1>6, StepByStep
  <2> QED
    BY <1>2, <2>1
<1>8. PICK w : w = walk[n]
  OBVIOUS
<1>9. RunsFound(w, ls, from, to, n)
  BY <1>7, <1>8
<1>10. PICK start : start = w.start
  OBVIOUS
<1>11. PICK found : found = w.runs
  OBVIOUS
<1>12. CASE w.done
  <2>1. runs = w.runs
    BY <1>4, <1>8, <1>12 DEF RunsOf
  <2> QED
    BY <1>9, <1>12, <2>1 DEF RunsFound
<1>13. CASE ~w.done
  <2>1. runs = IF to >= start THEN Append(found, <<start, to>>) ELSE found
    BY <1>4, <1>8, <1>10, <1>11, <1>13 DEF RunsOf
  <2>2. /\ start \in Nat /\ Sorted(found) /\ from <= start
        /\ start = from \/ (start <= n /\ start <= to)
        /\ Covers(found, ls, from, start - 1)
        /\ \A l \in DOMAIN ls : from < l /\ l <= n => l <= start
    BY <1>9, <1>10, <1>11, <1>13 DEF RunsFound
  <2>3. \A l \in DOMAIN ls : l <= start
    BY <1>2, <1>3, <2>2
  <2>4. ASSUME NEW r \in start..to PROVE HoldsBlock(ls, r)
    <3>1. r \in Nat /\ \A l \in DOMAIN ls : ~(l > r)
      BY <1>3, <2>2, <2>3
    <3> QED
      BY <3>1, PastLandings DEF HoldsBlock
  <2>5. \A r \in start..to : HoldsBlock(ls, r) <=> r <= to
    BY <2>4
  <2>6. start = from \/ start <= to + 1
    BY <2>2
  <2>7. PICK end : end = to
    OBVIOUS
  <2>8. /\ end \in Nat /\ end <= to /\ to \in Int
        /\ \A r \in start..to : HoldsBlock(ls, r) <=> r <= end
        /\ runs = IF end >= start THEN Append(found, <<start, end>>) ELSE found
    BY <2>1, <2>5, <2>7
  <2> QED
    BY <2>2, <2>6, <2>8, NextRun
<1> QED
  BY <1>12, <1>13

(* blocks_in counts the blocks of a range. *)
LEMMA SumIsBlocksIn ==
  ASSUME NEW ls, Ordered(ls), NEW open \in Nat, \A l \in DOMAIN ls : l <= open,
         NEW from \in Nat, NEW to \in Nat
  PROVE  WalkBlocksIn(ls, from, to) = BlocksIn(ls, from, to)
<1>1. PICK runs : runs = BlockRuns(ls, from, to)
  OBVIOUS
<1>2. Sorted(runs) /\ Covers(runs, ls, from, to)
  BY <1>1, RunsAreBlocks
<1>3. PICK n : n = Len(runs)
  OBVIOUS
<1>4. n \in Nat /\ DOMAIN runs = 1..n
  BY <1>2, <1>3 DEF Sorted
<1>5. \A j \in 1..n : runs[j][1] \in Nat /\ runs[j][2] \in Nat /\ runs[j][1] <= runs[j][2]
  <2>1. \A j \in 1..n : runs[j] \in Nat \X Nat
    BY <1>2, <1>4 DEF Sorted
  <2> QED
    BY <1>2, <1>4, <2>1 DEF Sorted
<1> DEFINE length(j) == runs[j][2] - runs[j][1] + 1
           F == [i \in 1..n |-> [x \in Int |-> x + length(i)]]
           Run(g) == [i \in 0..n |-> IF i = 0 THEN 0
                                     ELSE g[i - 1] + (runs[i][2] - runs[i][1] + 1)]
           sum == CHOOSE g : g = Run(g)
<1>6. \A j \in 1..n : length(j) \in Nat
  BY <1>5
<1>7. F \in [1..n -> [Int -> Int]]
  <2>1. \A i \in 1..n, x \in Int : x + length(i) \in Int
    <3> HIDE DEF length
    <3> QED
      BY <1>6
  <2> HIDE DEF length
  <2> QED
    BY <2>1
<1>8. PICK g : Unrolls(g, n, Int, 0, F)
  <2> HIDE DEF F
  <2>1. 0 \in Int
    OBVIOUS
  <2> QED
    BY <1>4, <1>7, <2>1, Recursion
<1>9. g = Run(g)
  <2>1. g \in [0..n -> Int] /\ g[0] = 0
    BY <1>8 DEF Unrolls
  <2>2. ASSUME NEW i \in 1..n PROVE g[i] = g[i - 1] + length(i)
    <3>1. g[i - 1] \in Int
      <4>1. i - 1 \in 0..n
        BY <1>4
      <4> QED
        BY <2>1, <4>1
    <3>2. g[i] = F[i][g[i - 1]]
      BY <1>8 DEF Unrolls
    <3> HIDE DEF length
    <3> QED
      BY <3>1, <3>2
  <2>3. \A i \in 0..n : g[i] = Run(g)[i]
    BY <2>1, <2>2
  <2> QED
    BY <2>1, <2>3
<1>10. sum = Run(sum)
  <2> HIDE DEF Run
  <2> QED
    BY <1>9
<1>11. WalkBlocksIn(ls, from, to) = sum[n]
  BY <1>1, <1>3 DEF WalkBlocksIn
<1> HIDE DEF sum
<1>12. sum[0] = 0 /\ \A i \in 1..n : sum[i] = sum[i - 1] + length(i)
  BY <1>4, <1>10
<1> DEFINE In(j) == runs[j][1]..runs[j][2]
           First(i) == {r \in Nat : \E j \in 1..i : r \in In(j)}
           T == {i \in 0..n : IsFiniteSet(First(i)) /\ Cardinality(First(i)) = sum[i]}
<1>13. 0 \in T
  <2>1. First(0) = {}
    OBVIOUS
  <2> QED
    BY <1>4, <1>12, <2>1, FS_EmptySet
<1>14. ASSUME NEW i \in 1..n, i - 1 \in T PROVE i \in T
  <2>1. PICK before : before = First(i - 1)
    OBVIOUS
  <2>2. PICK more : more = In(i)
    OBVIOUS
  <2>3. IsFiniteSet(before) /\ Cardinality(before) = sum[i - 1] /\ Cardinality(before) \in Nat
    BY <1>14, <2>1, FS_CardinalityType
  <2>4. IsFiniteSet(more) /\ Cardinality(more) = length(i)
    <3>1. runs[i][1] \in Int /\ runs[i][2] \in Int /\ ~(runs[i][1] > runs[i][2])
      BY <1>5
    <3> QED
      BY <2>2, <3>1, FS_Interval
  <2>5. First(i) = before \cup more
    <3>1. \A j \in 1..i : j \in 1..(i - 1) \/ j = i
      BY <1>4
    <3>2. i \in 1..i /\ \A j \in 1..(i - 1) : j \in 1..i
      BY <1>4
    <3>3. In(i) \subseteq Nat
      BY <1>5
    <3> HIDE DEF In
    <3> QED
      BY <2>1, <2>2, <3>1, <3>2, <3>3
  <2>6. before \cap more = {}
    <3>1. ASSUME NEW r \in Nat, NEW j \in 1..(i - 1), r \in In(j), r \in In(i) PROVE FALSE
      <4>1. j \in 1..n /\ j < i
        BY <1>4
      <4>2. runs[j][2] < runs[i][1]
        BY <1>2, <1>4, <4>1 DEF Sorted
      <4> QED
        BY <1>5, <3>1, <4>1, <4>2
    <3> HIDE DEF In
    <3> QED
      BY <2>1, <2>2, <3>1
  <2>7. /\ IsFiniteSet(before \cup more)
        /\ Cardinality(before \cup more) = Cardinality(before) + length(i)
    <3>1. /\ IsFiniteSet(before \cup more)
          /\ Cardinality(before \cup more)
               = Cardinality(before) + Cardinality(more) - Cardinality(before \cap more)
      BY <2>3, <2>4, FS_Union
    <3>2. Cardinality(before \cap more) = 0
      BY <2>6, FS_EmptySet
    <3> HIDE DEF length
    <3> QED
      BY <1>6, <2>3, <2>4, <3>1, <3>2
  <2>8. Cardinality(First(i)) = sum[i]
    <3> HIDE DEF First, length
    <3> QED
      BY <1>12, <2>3, <2>5, <2>7
  <2>9. i \in 0..n
    BY <1>4
  <2> HIDE DEF First
  <2> QED
    BY <2>5, <2>7, <2>8, <2>9
<1>15. n \in T
  <2>1. 0..n \subseteq T
    <3> HIDE DEF T
    <3> QED
      BY <1>4, <1>13, <1>14, StepByStep
  <2>2. n \in 0..n
    BY <1>4
  <2> HIDE DEF T
  <2> QED
    BY <2>1, <2>2
<1>16. First(n) = BlocksWithin(ls, from, to)
  <2>1. \A r \in Nat : r \in First(n) <=> Listed(runs, r)
    BY <1>4, <1>5 DEF Listed
  <2>2. \A r : r \in BlocksWithin(ls, from, to) <=> r \in Nat /\ r \in from..to /\ HoldsBlock(ls, r)
    BY DEF BlocksWithin
  <2>3. \A r \in First(n) : r \in Nat
    OBVIOUS
  <2> HIDE DEF First
  <2> QED
    BY <1>2, <2>1, <2>2, <2>3 DEF Covers
<1> QED
  BY <1>11, <1>15, <1>16 DEF BlocksIn

(* The parent of a block holds a block, and no slot between them does. *)
LEMMA ParentLinks ==
  ASSUME NEW ls, Ordered(ls), NEW s \in Nat \ {0}, HoldsBlock(ls, s),
         NEW p, p = ParentSlot(ls, s)
  PROVE  HoldsBlock(ls, p) /\ BlocksWithin(ls, p + 1, s) = {s}
<1>1. p = BlockAtOrBefore(ls, s - 1) /\ s - 1 \in Nat
  BY ParentIsLast
<1>2. p \in 0..(s - 1) /\ HoldsBlock(ls, p) /\ \A r \in (p + 1)..(s - 1) : ~HoldsBlock(ls, r)
  BY <1>1, LastBlock
<1>3. \A r \in (p + 1)..s : r = s \/ r \in (p + 1)..(s - 1)
  BY <1>2
<1>4. s \in (p + 1)..s
  BY <1>2
<1> QED
  BY <1>2, <1>3, <1>4 DEF BlocksWithin
=============================================================================
