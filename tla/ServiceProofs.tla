--------------------------- MODULE ServiceProofs ---------------------------
(***************************************************************************)
(* What surfpool promises those it serves: the tools that wait for a       *)
(* surfnet to be ready, and the clients that sign with its blockhashes.    *)
(*                                                                         *)
(* About Ledger, for any remote past its first blocks, and any thresholds, *)
(* limits and bounds: a blockhash that was handed out stays visible at its *)
(* commitment and signs for as long as promised, and RecentBlockhashes and *)
(* SlotHashes follow the chain.                                            *)
(*                                                                         *)
(* About Startup, for any runbooks, projects, early events and capacity of *)
(* the events channel: a surfnet that reports ready has done its work, a   *)
(* startup that is over stays as it is, a surfnet exits without an error   *)
(* only if it was asked to stop, and the runloop refuses a startup command *)
(* only when startup is over.                                              *)
(***************************************************************************)
EXTENDS Startup, Ledger, SlotProofs, SequenceTheorems

-----------------------------------------------------------------------------
(* LEDGER *)

-----------------------------------------------------------------------------
(* The newest of a set of slots *)

(* They are some of the slots, at most n, the last one among them. *)
LEMMA NewestType ==
  ASSUME NEW S \in SUBSET Nat, IsFiniteSet(S), NEW n \in Nat
  PROVE  /\ Newest(S, n) \subseteq S /\ IsFiniteSet(Newest(S, n))
         /\ Cardinality(Newest(S, n)) \in 0..n
<1> DEFINE N == Newest(S, n)
           Above(s) == {r \in S : r > s}
<1>1. N \subseteq S /\ \A s \in N : Cardinality(Above(s)) < n
  BY DEF Newest
<1>2. IsFiniteSet(N) /\ Cardinality(N) \in Nat
  BY <1>1, FS_Subset, FS_CardinalityType
<1>3. \A s \in S : IsFiniteSet(Above(s)) /\ Cardinality(Above(s)) \in Nat
  BY FS_Subset, FS_CardinalityType
<1>4. CASE N = {}
  BY <1>1, <1>2, <1>4, FS_EmptySet
<1>5. CASE N # {}
  <2>1. N \in SUBSET Nat
    <3> HIDE DEF N
    <3> QED
      BY <1>1
  <2>2. PICK x \in N : \A y \in N : x <= y
    BY <1>5, <2>1, SmallestExists
  <2>3. x \in S /\ x \notin Above(x)
    BY <1>1, <2>1
  <2>4. N \subseteq Above(x) \cup {x}
    BY <1>1, <2>1, <2>2
  <2>5. /\ IsFiniteSet(Above(x) \cup {x})
        /\ Cardinality(Above(x) \cup {x}) = Cardinality(Above(x)) + 1
    BY <1>3, <2>3, FS_AddElement
  <2>6. Cardinality(N) <= Cardinality(Above(x)) + 1
    BY <2>4, <2>5, FS_Subset
  <2>7. Cardinality(Above(x)) < n /\ Cardinality(Above(x)) \in Nat
    BY <1>1, <1>3, <2>2
  <2>8. Cardinality(N) \in 0..n
    <3> HIDE DEF N, Above
    <3> QED
      BY <1>2, <2>6, <2>7
  <2> QED
    BY <1>1, <1>2, <2>8
<1> QED
  BY <1>4, <1>5

(* One slot after all of them comes in, and the oldest goes if there are   *)
(* too many.                                                               *)
LEMMA NewestAdds ==
  ASSUME NEW S \in SUBSET Nat, IsFiniteSet(S), NEW n \in Nat \ {0},
         NEW m \in Nat, \A s \in S : s < m
  PROVE  Newest(Newest(S, n) \cup {m}, n) = Newest(S \cup {m}, n)
<1> DEFINE N == Newest(S, n)
           Above(s) == {r \in S : r > s}
           NewAbove(s) == {r \in S \cup {m} : r > s}
           Kept(s) == {r \in N \cup {m} : r > s}
<1>1. \A s \in S : IsFiniteSet(Above(s)) /\ Cardinality(Above(s)) \in Nat
  BY FS_Subset, FS_CardinalityType
<1>2. \A s \in S : s \in N <=> Cardinality(Above(s)) < n
  BY DEF Newest
<1>3. \A s \in S : \A r \in Above(s) : Cardinality(Above(r)) <= Cardinality(Above(s))
  <2> SUFFICES ASSUME NEW s \in S, NEW r \in Above(s)
               PROVE  Cardinality(Above(r)) <= Cardinality(Above(s))
    OBVIOUS
  <2>1. Above(r) \subseteq Above(s)
    <3>1. r \in Nat /\ s \in Nat /\ r > s
      OBVIOUS
    <3>2. ASSUME NEW x \in Above(r) PROVE x \in Above(s)
      <4>1. x \in S /\ x \in Nat /\ x > r
        OBVIOUS
      <4>2. x > s
        BY <3>1, <4>1
      <4> QED
        BY <4>1, <4>2
    <3> QED
      BY <3>2
  <2> QED
    BY <1>1, <2>1, FS_Subset
<1>4. ASSUME NEW s \in S
      PROVE  NewAbove(s) = Above(s) \cup {m} /\ Cardinality(NewAbove(s)) = Cardinality(Above(s)) + 1
  <2>1. NewAbove(s) = Above(s) \cup {m} /\ m \notin Above(s)
    OBVIOUS
  <2> QED
    BY <1>1, <2>1, FS_AddElement
<1>5. NewAbove(m) = {} /\ Kept(m) = {} /\ N \subseteq S
  <2>1. N \subseteq S
    BY DEF Newest
  <2>2. \A x \in S \cup {m} : x \in Nat /\ ~(x > m)
    OBVIOUS
  <2> HIDE DEF N
  <2> QED
    BY <2>1, <2>2
<1>6. ASSUME NEW s \in N PROVE Kept(s) = NewAbove(s)
  <2>1. s \in S /\ Cardinality(Above(s)) < n
    BY <1>2, <1>5
  <2>2. \A r \in Above(s) : r \in N
    <3> SUFFICES ASSUME NEW r \in Above(s) PROVE r \in N
      OBVIOUS
    <3>1. r \in S /\ Cardinality(Above(r)) <= Cardinality(Above(s))
      BY <1>3, <2>1
    <3>2. Cardinality(Above(r)) \in Nat /\ Cardinality(Above(s)) \in Nat
      BY <1>1, <2>1, <3>1
    <3>3. Cardinality(Above(r)) < n
      <4> HIDE DEF Above
      <4> QED
        BY <2>1, <3>1, <3>2
    <3> QED
      BY <1>2, <3>1, <3>3
  <2> QED
    BY <2>1, <2>2, <1>5
<1>7. Newest(N \cup {m}, n) = {s \in N \cup {m} : Cardinality(Kept(s)) < n}
  BY DEF Newest
<1>8. Newest(S \cup {m}, n) = {s \in S \cup {m} : Cardinality(NewAbove(s)) < n}
  BY DEF Newest
<1>9. ASSUME NEW s \in S, Cardinality(NewAbove(s)) < n PROVE s \in N
  <2> HIDE DEF N, Above, NewAbove
  <2> QED
    BY <1>1, <1>2, <1>4, <1>9
<1>10. Cardinality(NewAbove(m)) = 0 /\ Cardinality(Kept(m)) = 0
  BY <1>5, FS_EmptySet
<1>11. \A s \in N : Cardinality(NewAbove(s)) = Cardinality(Kept(s))
  BY <1>6
<1> HIDE DEF N, Above, NewAbove, Kept
<1> QED
  <2>1. ASSUME NEW s \in N \cup {m}
        PROVE  Cardinality(Kept(s)) < n <=> s \in S \cup {m} /\ Cardinality(NewAbove(s)) < n
    BY <1>5, <1>10, <1>11
  <2>2. ASSUME NEW s \in S \cup {m}, Cardinality(NewAbove(s)) < n
        PROVE  s \in N \cup {m}
    BY <1>9, <2>2
  <2>3. N \cup {m} \subseteq S \cup {m}
    BY <1>5
  <2>4. \A s : s \in Newest(N \cup {m}, n) <=> s \in N \cup {m} /\ Cardinality(Kept(s)) < n
    BY <1>7
  <2>5. \A s : s \in Newest(S \cup {m}, n) <=> s \in S \cup {m} /\ Cardinality(NewAbove(s)) < n
    BY <1>8
  <2>6. \A s : s \in Newest(N \cup {m}, n) <=> s \in Newest(S \cup {m}, n)
    BY <2>1, <2>2, <2>3, <2>4, <2>5
  <2>7. Newest(N \cup {m}, n) = Newest(S \cup {m}, n)
    BY <2>6
  <2> QED
    BY <2>7 DEF N

(* The last slot moves further on. *)
LEMMA NewestMoves ==
  ASSUME NEW S \in SUBSET Nat, IsFiniteSet(S), NEW n \in Nat \ {0},
         NEW m \in S, \A s \in S : s <= m, NEW k \in Nat, m < k
  PROVE  Newest((S \ {m}) \cup {k}, n) = (Newest(S, n) \ {m}) \cup {k}
<1> DEFINE T == (S \ {m}) \cup {k}
           Above(s) == {r \in S : r > s}
           NewAbove(s) == {r \in T : r > s}
<1>1. ASSUME NEW s \in S \ {m} PROVE Cardinality(NewAbove(s)) = Cardinality(Above(s))
  <2>1. /\ Above(s) = (Above(s) \ {m}) \cup {m} /\ NewAbove(s) = (Above(s) \ {m}) \cup {k}
        /\ m \notin Above(s) \ {m} /\ k \notin Above(s) \ {m}
    <3>1. \A x \in S : x \in Nat /\ x < k
      OBVIOUS
    <3>2. s < m /\ s < k /\ s \in Nat
      OBVIOUS
    <3> QED
      BY <3>1, <3>2
  <2>2. IsFiniteSet(Above(s) \ {m})
    <3>1. Above(s) \ {m} \subseteq S
      OBVIOUS
    <3> QED
      BY <3>1, FS_Subset
  <2> QED
    BY <2>1, <2>2, FS_AddElement
<1>2. NewAbove(k) = {} /\ Cardinality(NewAbove(k)) = 0
  <2>1. NewAbove(k) = {}
    <3>1. \A x \in T : x \in Nat /\ ~(x > k)
      OBVIOUS
    <3> QED
      BY <3>1
  <2> QED
    BY <2>1, FS_EmptySet
<1>3. Newest(T, n) = {s \in T : Cardinality(NewAbove(s)) < n}
  BY DEF Newest
<1>4. Newest(S, n) = {s \in S : Cardinality(Above(s)) < n}
  BY DEF Newest
<1> HIDE DEF Above, NewAbove
<1> QED
  <2>1. \A s : s \in Newest(T, n) <=> s \in T /\ Cardinality(NewAbove(s)) < n
    BY <1>3
  <2>2. \A s : s \in Newest(S, n) <=> s \in S /\ Cardinality(Above(s)) < n
    BY <1>4
  <2>3. ASSUME NEW s PROVE s \in Newest(T, n) <=> s \in (Newest(S, n) \ {m}) \cup {k}
    <3>1. CASE s = k
      BY <1>2, <2>1, <3>1
    <3>2. CASE s # k
      BY <1>1, <2>1, <2>2, <3>2
    <3> QED
      BY <3>1, <3>2
  <2> QED
    BY <2>3

-----------------------------------------------------------------------------
(* The finalized slot *)

(* Where no block has n others above it, there are not that many but the   *)
(* first.                                                                  *)
LEMMA ShallowChain ==
  ASSUME NEW ls, Ordered(ls), NEW slot \in Nat, NEW n \in Nat, AtDepth(ls, slot, n) = {}
  PROVE  BlocksIn(ls, 1, slot) < n
<1> DEFINE Above(s) == BlocksIn(ls, s + 1, slot)
           D == {s \in 0..slot : Above(s) >= n}
<1>1. \A s \in 0..slot : Above(s) \in Nat
  BY BlocksFinite
<1>2. SUFFICES ASSUME Above(0) >= n PROVE FALSE
  <2>1. Above(0) \in Nat /\ Above(0) = BlocksIn(ls, 1, slot)
    BY <1>1
  <2> HIDE DEF Above
  <2> QED
    BY <2>1
<1>3. 0 \in D
  BY <1>2
<1>4. PICK s \in D : \A r \in D : r <= s
  BY <1>3, LargestExists
<1>5. s \in 0..slot /\ Above(s) >= n
  OBVIOUS
<1>6. Above(s) = n
  <2>1. CASE s = slot
    <3>1. BlocksWithin(ls, slot + 1, slot) = {}
      BY DEF BlocksWithin
    <3>2. Above(s) = 0
      BY <2>1, <3>1, FS_EmptySet DEF BlocksIn
    <3> HIDE DEF Above
    <3> QED
      BY <1>5, <3>2
  <2>2. CASE s < slot
    <3>1. s + 1 \in 0..slot /\ ~(s + 1 <= s)
      BY <1>5, <2>2
    <3>2. ~(Above(s + 1) >= n)
      BY <1>4, <3>1
    <3>3. Above(s) = BlocksIn(ls, s + 1, s + 1) + Above(s + 1)
      <4>1. s + 1 \in Nat /\ s + 1 <= s + 1 + 1 /\ s + 1 <= slot
        BY <1>5, <2>2
      <4> QED
        BY <4>1, BlocksSplit
    <3>4. BlocksIn(ls, s + 1, s + 1) \in Nat /\ BlocksIn(ls, s + 1, s + 1) <= 1
      <4>1. s + 1 \in Nat /\ s + 1 <= s + 1 + 1 /\ s + 1 - (s + 1) + 1 = 1
        BY <1>5
      <4> QED
        BY <4>1, RunLength
    <3>5. Above(s + 1) \in Nat
      BY <1>1, <3>1
    <3> HIDE DEF Above
    <3> QED
      BY <1>5, <3>2, <3>3, <3>4, <3>5
  <2> QED
    BY <1>5, <2>1, <2>2
<1> DEFINE b == BlockAtOrBefore(ls, s)
<1>7. b \in 0..s /\ HoldsBlock(ls, b) /\ \A r \in (b + 1)..s : ~HoldsBlock(ls, r)
  BY <1>5, LastBlock
<1> HIDE DEF b, D
<1>8. BlocksWithin(ls, b + 1, slot) = BlocksWithin(ls, s + 1, slot)
  BY <1>5, <1>7 DEF BlocksWithin
<1>9. b \in AtDepth(ls, slot, n)
  BY <1>5, <1>6, <1>7, <1>8 DEF AtDepth, BlocksWithin, BlocksIn
<1> QED
  BY <1>9

(* The block n blocks back, or the first one of all, has at most one more  *)
(* above it with the open slot's.                                          *)
LEMMA AboveFinal ==
  ASSUME NEW ls, Ordered(ls), NEW slot \in Nat \ {0}, \A l \in DOMAIN ls : l <= slot,
         NEW n \in Nat, NEW final, final = BlocksBack(ls, slot - 1, n)
  PROVE  /\ final \in 0..(slot - 1) /\ HoldsBlock(ls, final)
         /\ BlocksIn(ls, final + 1, slot) \in 1..(n + 1)
<1>1. final \in 0..(slot - 1)
  BY BlocksBackType
<1>2. HoldsBlock(ls, slot)
  <2>1. \A l \in DOMAIN ls : ~(l > slot)
    BY DEF Ordered
  <2> QED
    BY <2>1, PastLandings DEF HoldsBlock
<1>3. BlocksIn(ls, final + 1, slot) = BlocksIn(ls, final + 1, slot - 1) + 1
  BY <1>1, <1>2, BlocksNext
<1>4. BlocksIn(ls, final + 1, slot - 1) \in Nat
  BY <1>1, BlocksFinite
<1>5. CASE AtDepth(ls, slot - 1, n) = {}
  <2>1. final = 0
    BY <1>5 DEF BlocksBack, AtDepth
  <2>2. HoldsBlock(ls, 0)
    BY HoldsBlockIff DEF Ordered
  <2>3. BlocksIn(ls, 1, slot - 1) < n
    BY <1>5, ShallowChain
  <2> QED
    BY <1>1, <1>3, <1>4, <2>1, <2>2, <2>3
<1>6. CASE AtDepth(ls, slot - 1, n) # {}
  <2>1. final \in AtDepth(ls, slot - 1, n)
    BY <1>6 DEF BlocksBack, AtDepth
  <2>2. HoldsBlock(ls, final) /\ BlocksIn(ls, final + 1, slot - 1) = n
    BY <2>1 DEF AtDepth, BlocksWithin
  <2> QED
    BY <1>1, <1>3, <2>2
<1> QED
  BY <1>5, <1>6

-----------------------------------------------------------------------------
(* RecentBlockhashes *)

(* The blockhashes that were streamed, from the tip's back, and those of   *)
(* the last rebuild, which seeded one past the tip it found.               *)
Streamed(k) ==
  \A i \in 1..Len(recents) : recents[i] = IF i <= k THEN tip - i ELSE tip + 1 - i

OldestHash == recents[Len(recents)]

RecentsInv ==
  /\ tip \in Nat \ {0}
  /\ recents \in Seq(Nat) /\ Len(recents) \in 2..MaxRecent
  /\ \E k \in 0..Len(recents) : Streamed(k)
  /\ Len(recents) = MaxRecent \/ OldestHash = 0

(* A rebuild gives them so, *)
LEMMA RebuiltInOrder ==
  ASSUME NEW index \in Nat \ {0}, NEW rs, rs = RebuiltRecents(index)
  PROVE  /\ rs \in Seq(Nat) /\ Len(rs) \in 2..MaxRecent
         /\ \A i \in 1..Len(rs) : rs[i] = index + 1 - i
         /\ Len(rs) = MaxRecent \/ rs[Len(rs)] = 0
<1> DEFINE n == index - SatSub(index, MaxRecent - 1) + 1
<1>1. /\ n \in 2..MaxRecent /\ n <= index + 1
      /\ n = MaxRecent \/ n = index + 1
  BY LedgerAssumption DEF SatSub
<1> HIDE DEF n
<1>2. rs = [i \in 1..n |-> index + 1 - i]
  BY DEF RebuiltRecents, n
<1>3. \A i \in 1..n : index + 1 - i \in Nat
  BY <1>1
<1>4. rs \in Seq(Nat) /\ Len(rs) = n
  BY <1>1, <1>2, <1>3
<1>5. \A i \in 1..n : rs[i] = index + 1 - i
  BY <1>2
<1> QED
  BY <1>1, <1>4, <1>5

(* and so does the next block's. *)
LEMMA MintedInOrder ==
  ASSUME RecentsInv, SysvarsMinted, tip' = tip + 1
  PROVE  RecentsInv' /\ OldestHash' >= OldestHash
<1> DEFINE n == IF Len(recents) < MaxRecent THEN Len(recents) + 1 ELSE MaxRecent
<1>1. PICK k \in 0..Len(recents) : Streamed(k)
  BY DEF RecentsInv
<1>2. /\ tip \in Nat \ {0} /\ recents \in Seq(Nat) /\ Len(recents) \in 2..MaxRecent
      /\ MaxRecent \in Nat
  BY LedgerAssumption DEF RecentsInv
<1>3. n \in 2..MaxRecent /\ n <= Len(recents) + 1
  BY <1>2
<1> DEFINE all == <<tip>> \o recents
<1>4. all \in Seq(Nat) /\ Len(all) = Len(recents) + 1
  BY <1>2
<1>5. all[1] = tip /\ \A i \in 2..(Len(recents) + 1) : all[i] = recents[i - 1]
  BY <1>2
<1>6. recents' = SubSeq(all, 1, n)
  BY DEF SysvarsMinted
<1> HIDE DEF all
<1>7. recents' \in Seq(Nat) /\ Len(recents') = n /\ \A i \in 1..n : recents'[i] = all[i]
  <2> HIDE DEF n
  <2> QED
    BY <1>2, <1>3, <1>4, <1>6
<1>8. \A i \in 1..Len(recents) : recents[i] = IF i <= k THEN tip - i ELSE tip + 1 - i
  BY <1>1 DEF Streamed
<1>9. ASSUME NEW i \in 1..n
      PROVE  recents'[i] = IF i <= k + 1 THEN tip' - i ELSE tip' + 1 - i
  <2>1. CASE i = 1
    BY <1>2, <1>5, <1>7, <2>1
  <2>2. CASE i # 1
    <3>1. i \in 2..(Len(recents) + 1) /\ i - 1 \in 1..Len(recents) /\ i \in Int
      BY <1>2, <1>3, <2>2
    <3>2. recents'[i] = recents[i - 1]
      BY <1>5, <1>7, <3>1
    <3> QED
      BY <1>2, <1>8, <3>1, <3>2
  <2> QED
    BY <2>1, <2>2
<1>10. ASSUME NEW q \in 0..n, q = k + 1 \/ (q = n /\ n < k + 1) PROVE Streamed(q)'
  <2> HIDE DEF n
  <2> QED
    BY <1>7, <1>9, <1>10 DEF Streamed
<1>11. \E q \in 0..n : Streamed(q)'
  <2>1. CASE k + 1 <= n
    <3>1. k + 1 \in 0..n
      BY <2>1
    <3> QED
      BY <1>10, <3>1
  <2>2. CASE n < k + 1
    <3>1. n \in 0..n
      BY <1>3
    <3> QED
      BY <1>10, <2>2, <3>1
  <2> QED
    BY <1>2, <1>3, <2>1, <2>2
<1>12. CASE Len(recents) < MaxRecent
  <2>1. n = Len(recents) + 1 /\ OldestHash = 0
    BY <1>12 DEF RecentsInv
  <2>2. OldestHash' = all[n]
    <3>1. n \in 1..n
      BY <1>3
    <3> QED
      BY <1>7, <3>1 DEF OldestHash
  <2>3. all[n] = OldestHash
    <3>1. n \in 2..(Len(recents) + 1) /\ n - 1 = Len(recents)
      BY <1>2, <2>1
    <3> QED
      BY <1>5, <3>1 DEF OldestHash
  <2> QED
    BY <1>2, <1>3, <1>7, <1>11, <2>1, <2>2, <2>3 DEF RecentsInv
<1>13. CASE Len(recents) = MaxRecent
  <2>1. n = MaxRecent /\ n = Len(recents)
    BY <1>13
  <2>2. OldestHash' = recents'[n] /\ OldestHash = recents[n]
    BY <1>7, <2>1 DEF OldestHash
  <2>3. n \in 1..n
    BY <1>3
  <2>4. OldestHash' >= OldestHash
    BY <1>1, <1>2, <1>8, <1>9, <2>1, <2>2, <2>3
  <2> QED
    BY <1>2, <1>3, <1>7, <1>11, <2>1, <2>4 DEF RecentsInv
<1> QED
  BY <1>2, <1>12, <1>13

-----------------------------------------------------------------------------
(* Reading blockhashes *)

(* What the code reads of the sysvar are the hashes below the tip, each    *)
(* once.                                                                   *)
LEMMA OldestIs ==
  ASSUME RecentsInv
  PROVE  /\ OldestHash \in 0..(tip - 1)
         /\ OldestHash = 0 \/ OldestHash <= tip + 1 - MaxRecent
<1>1. PICK k \in 0..Len(recents) : Streamed(k)
  BY DEF RecentsInv
<1>2. /\ tip \in Nat \ {0} /\ recents \in Seq(Nat) /\ Len(recents) \in 2..MaxRecent
      /\ MaxRecent \in Nat
  BY LedgerAssumption DEF RecentsInv
<1>3. Len(recents) \in 1..Len(recents)
  BY <1>2
<1>4. /\ OldestHash \in Nat
      /\ OldestHash = IF Len(recents) <= k THEN tip - Len(recents)
                      ELSE tip + 1 - Len(recents)
  BY <1>1, <1>2, <1>3 DEF OldestHash, Streamed
<1> QED
  BY <1>1, <1>2, <1>4 DEF RecentsInv

(* The blockhashes from the tip's back are one below the other, down to    *)
(* the oldest.                                                             *)
LEMMA FromTipIs ==
  ASSUME RecentsInv
  PROVE  FromTip = [n \in 1..(tip - OldestHash) |-> tip - n]
<1> DEFINE tips == {i \in DOMAIN recents : recents[i] = tip - 1}
           fromTip == SubSeq(recents, Min(tips), Len(recents))
           first == {i \in DOMAIN fromTip : i = 1 \/ fromTip[i] # fromTip[i - 1]}
           rank(i) == Cardinality({j \in first : j <= i})
<1>1. PICK k \in 0..Len(recents) : Streamed(k)
  BY DEF RecentsInv
<1>2. /\ tip \in Nat \ {0} /\ recents \in Seq(Nat) /\ Len(recents) \in 2..MaxRecent
      /\ MaxRecent \in Nat /\ DOMAIN recents = 1..Len(recents)
  BY LedgerAssumption DEF RecentsInv
<1>3. \A i \in 1..Len(recents) : recents[i] = IF i <= k THEN tip - i ELSE tip + 1 - i
  BY <1>1 DEF Streamed
<1> DEFINE start == IF k = 0 THEN 2 ELSE 1
<1>4. start \in tips /\ \A i \in tips : start <= i
  <2>1. start \in 1..Len(recents) /\ recents[start] = tip - 1
    BY <1>2, <1>3
  <2>2. ASSUME NEW i \in 1..Len(recents), recents[i] = tip - 1 PROVE start <= i
    BY <1>2, <1>3, <2>2
  <2> QED
    BY <1>2, <2>1, <2>2
<1>5. Min(tips) = start
  <2>1. \A i \in tips : i \in Nat
    BY <1>2
  <2>2. \A i \in tips : (\A y \in tips : i <= y) => i = start
    <3> HIDE DEF tips
    <3> QED
      BY <1>4, <2>1
  <2> HIDE DEF tips, start
  <2> QED
    BY <1>4, <2>2 DEF Min
<1> DEFINE L == Len(recents) - start + 1
           d == IF k = 0 THEN L + 1 ELSE k + 1
<1>6. L \in Nat \ {0} /\ d \in 2..(L + 1)
  BY <1>2
<1>7. /\ DOMAIN fromTip = 1..L /\ Len(fromTip) = L
      /\ \A i \in 1..L : fromTip[i] = recents[i + start - 1]
  <2>1. start \in 1..Len(recents) /\ Len(recents) \in Nat
    BY <1>2
  <2> HIDE DEF start, tips
  <2> QED
    BY <1>2, <1>5, <2>1
<1>8. ASSUME NEW i \in 1..L PROVE fromTip[i] = IF i < d THEN tip - i ELSE tip + 1 - i
  <2>1. i + start - 1 \in 1..Len(recents)
    BY <1>2
  <2>2. fromTip[i] = recents[i + start - 1]
    BY <1>7
  <2> HIDE DEF fromTip, tips
  <2> QED
    BY <1>2, <1>3, <2>1, <2>2
<1> HIDE DEF fromTip, start, L, d
<1>9. \A i \in 1..L : i \in first <=> i # d
  <2> SUFFICES ASSUME NEW i \in 1..L PROVE i \in first <=> i # d
    OBVIOUS
  <2>1. i \in first <=> i = 1 \/ fromTip[i] # fromTip[i - 1]
    BY <1>7
  <2>2. CASE i = 1
    BY <1>6, <2>1, <2>2
  <2>3. CASE i # 1
    <3>1. i - 1 \in 1..L
      BY <1>6, <2>3
    <3>2. /\ fromTip[i] = IF i < d THEN tip - i ELSE tip + 1 - i
          /\ fromTip[i - 1] = IF i - 1 < d THEN tip - (i - 1) ELSE tip + 1 - (i - 1)
      BY <1>8, <3>1
    <3> HIDE DEF first
    <3> QED
      BY <1>2, <1>6, <2>1, <2>3, <3>1, <3>2
  <2> QED
    BY <2>2, <2>3
<1>10. first \subseteq 1..L
  BY <1>7
<1>11. first = (1..L) \ {d}
  <2> HIDE DEF first
  <2> QED
    BY <1>9, <1>10
<1>12. Cardinality(first) = IF d = L + 1 THEN L ELSE L - 1
  <2>1. IsFiniteSet(1..L) /\ Cardinality(1..L) = L
    BY <1>6, FS_Interval
  <2>2. CASE d = L + 1
    <3>1. (1..L) \ {d} = 1..L
      BY <1>6, <2>2
    <3> QED
      BY <1>11, <2>1, <2>2, <3>1
  <2>3. CASE d # L + 1
    <3>1. d \in 1..L
      BY <1>6, <2>3
    <3> HIDE DEF first
    <3> QED
      BY <1>11, <2>1, <2>3, <3>1, FS_RemoveElement
  <2> QED
    BY <2>2, <2>3
<1>13. ASSUME NEW i \in first PROVE rank(i) = IF i < d THEN i ELSE i - 1
  <2>1. i \in 1..L /\ i # d
    BY <1>11
  <2>2. IsFiniteSet(1..i) /\ Cardinality(1..i) = i
    BY <2>1, FS_Interval
  <2>3. CASE i < d
    <3>1. {j \in first : j <= i} = 1..i
      <4> HIDE DEF first
      <4> QED
        BY <1>6, <1>11, <2>1, <2>3
    <3> QED
      BY <2>2, <2>3, <3>1
  <2>4. CASE ~(i < d)
    <3>1. d \in 1..i
      BY <1>6, <2>1, <2>4
    <3>2. {j \in first : j <= i} = (1..i) \ {d}
      <4> HIDE DEF first
      <4> QED
        BY <1>6, <1>11, <2>1, <2>4
    <3> QED
      BY <2>2, <2>4, <3>1, <3>2, FS_RemoveElement
  <2> QED
    BY <2>3, <2>4
<1> DEFINE at(n) == IF n < d THEN n ELSE n + 1
<1> HIDE DEF rank
<1>14. ASSUME NEW n \in 1..Cardinality(first)
       PROVE  fromTip[CHOOSE i \in first : rank(i) = n] = tip - n
  <2> HIDE DEF first
  <2>1. at(n) \in first /\ rank(at(n)) = n
    BY <1>6, <1>11, <1>12, <1>13
  <2>2. \A i \in first : rank(i) = n => i = at(n)
    BY <1>6, <1>11, <1>13
  <2>3. (CHOOSE i \in first : rank(i) = n) = at(n)
    <3> HIDE DEF at
    <3> QED
      BY <2>1, <2>2
  <2>4. at(n) \in 1..L /\ at(n) # d /\ n \in Nat
    BY <1>6, <1>11, <1>12, <2>1
  <2>5. fromTip[at(n)] = IF at(n) < d THEN tip - at(n) ELSE tip + 1 - at(n)
    BY <1>8, <2>4
  <2>6. CASE n < d
    <3>1. at(n) = n
      BY <2>6
    <3> HIDE DEF at
    <3> QED
      BY <2>3, <2>5, <2>6, <3>1
  <2>7. CASE ~(n < d)
    <3>1. at(n) = n + 1 /\ ~(n + 1 < d) /\ tip + 1 - (n + 1) = tip - n
      BY <1>2, <1>6, <2>4, <2>7
    <3> HIDE DEF at
    <3> QED
      BY <2>3, <2>5, <3>1
  <2> QED
    BY <2>6, <2>7
<1>15. FromTip = [n \in 1..Cardinality(first) |-> fromTip[CHOOSE i \in first : rank(i) = n]]
  <2>1. tips # {}
    BY <1>4
  <2> HIDE DEF tips
  <2> QED
    BY <2>1 DEF FromTip, tips, fromTip, first, rank
<1>16. Cardinality(first) = tip - OldestHash
  <2>1. OldestHash = fromTip[L]
    <3>1. L \in 1..L /\ L + start - 1 = Len(recents)
      BY <1>2, <1>6 DEF L, start
    <3> QED
      BY <1>7, <3>1 DEF OldestHash
  <2>2. L \in 1..L
    BY <1>6
  <2>3. OldestHash = IF L < d THEN tip - L ELSE tip + 1 - L
    BY <1>8, <2>1, <2>2
  <2> HIDE DEF first
  <2> QED
    BY <1>2, <1>6, <1>12, <2>3
<1> HIDE DEF first, tips
<1> QED
  BY <1>14, <1>15, <1>16

(* The age of a hash is how far it lies below the tip's, unless it is      *)
(* gone.                                                                   *)
LEMMA AgeIs ==
  ASSUME RecentsInv, NEW hash \in Int
  PROVE  AgeOf(hash) = IF hash \in OldestHash..(tip - 1) THEN tip - 1 - hash ELSE Nothing
<1> DEFINE ages == {i \in DOMAIN FromTip : FromTip[i] = hash}
<1>1. OldestHash \in 0..(tip - 1) /\ tip \in Nat
  BY OldestIs DEF RecentsInv
<1>2. /\ DOMAIN FromTip = 1..(tip - OldestHash)
      /\ \A i \in 1..(tip - OldestHash) : FromTip[i] = tip - i
  BY FromTipIs
<1>3. ages = {i \in 1..(tip - OldestHash) : tip - i = hash}
  BY <1>2
<1>4. AgeOf(hash) = IF ages = {} THEN Nothing ELSE Min(ages) - 1
  BY DEF AgeOf
<1> HIDE DEF ages
<1>5. CASE hash \in OldestHash..(tip - 1)
  <2>1. ages = {tip - hash}
    BY <1>1, <1>3, <1>5
  <2>2. Min(ages) = tip - hash
    <3>1. tip - hash <= tip - hash
      BY <1>1
    <3> QED
      BY <2>1, <3>1 DEF Min
  <2> QED
    BY <1>1, <1>4, <1>5, <2>1, <2>2
<1>6. CASE hash \notin OldestHash..(tip - 1)
  <2>1. ages = {}
    BY <1>1, <1>3, <1>6
  <2> QED
    BY <1>4, <1>6, <2>1
<1> QED
  BY <1>5, <1>6

(* A hash of this age is visible where commitments ask for as much. *)
SeenAt(hash, age) ==
  hash >= OldestHash => age <= tip - 1 - hash \/ hash + 1 - OldestHash <= age

(* getLatestBlockhash hands out a hash that the client can see, and its    *)
(* height when the epoch info's is the tip's.                              *)
LEMMA HandedOut ==
  ASSUME RecentsInv, NEW c, MinAge(c) \in Nat, NEW hash, hash = BlockhashAt(c)
  PROVE  /\ hash \in OldestHash..(tip - 1) /\ hash \in Nat /\ SeenAt(hash, MinAge(c))
         /\ height = tip => LastValidHeight(hash) = hash + 1 + MaxRecent
<1> DEFINE age == MinAge(c)
<1>1. OldestHash \in 0..(tip - 1) /\ tip \in Nat /\ MaxRecent \in Nat
  BY OldestIs, LedgerAssumption DEF RecentsInv
<1>2. /\ Len(FromTip) = tip - OldestHash
      /\ \A i \in 1..(tip - OldestHash) : FromTip[i] = tip - i
  <2>1. FromTip = [n \in 1..(tip - OldestHash) |-> tip - n] /\ tip - OldestHash \in Nat
    BY <1>1, FromTipIs
  <2> QED
    BY <2>1
<1>3. hash = IF age < tip - OldestHash THEN FromTip[age + 1] ELSE tip - 1
  BY <1>2 DEF BlockhashAt
<1>4. age \in Nat
  OBVIOUS
<1> HIDE DEF age
<1>5. hash = IF age < tip - OldestHash THEN tip - (age + 1) ELSE tip - 1
  <2>1. age < tip - OldestHash => age + 1 \in 1..(tip - OldestHash)
    BY <1>1, <1>4
  <2> QED
    BY <1>2, <1>3, <2>1
<1>6. hash \in OldestHash..(tip - 1) /\ hash \in Nat
  BY <1>1, <1>4, <1>5
<1>7. SeenAt(hash, age)
  BY <1>1, <1>4, <1>5 DEF SeenAt
<1>8. AgeOf(hash) = tip - 1 - hash /\ AgeOf(hash) # Nothing
  <2>1. tip - 1 - hash \in Nat
    BY <1>1, <1>6
  <2> QED
    BY <1>1, <1>6, <2>1, AgeIs, LedgerAssumption
<1>9. height = tip => LastValidHeight(hash) = hash + 1 + MaxRecent
  BY <1>1, <1>6, <1>8 DEF LastValidHeight, SatSub
<1> QED
  BY <1>6, <1>7, <1>9 DEF age

(* Such a hash is visible, and signs for as long as its age allows.        *)
LEMMA StaysUsable ==
  ASSUME RecentsInv, NEW c, MinAge(c) \in Nat, NEW hash \in Nat, hash <= tip - 1,
         SeenAt(hash, MinAge(c))
  PROVE  /\ Visible(hash, c)
         /\ tip + 2 <= hash + 1 + MaxRecent => Recent(hash)
<1>1. /\ OldestHash \in 0..(tip - 1) /\ tip \in Nat \ {0} /\ MaxRecent \in Nat
      /\ OldestHash = 0 \/ OldestHash <= tip + 1 - MaxRecent
  BY OldestIs, LedgerAssumption DEF RecentsInv
<1>2. Visible(hash, c)
  <2>1. AgeOf(hash) = IF hash \in OldestHash..(tip - 1) THEN tip - 1 - hash ELSE Nothing
    BY AgeIs
  <2>2. Len(FromTip) = tip - OldestHash
    <3>1. FromTip = [n \in 1..(tip - OldestHash) |-> tip - n] /\ tip - OldestHash \in Nat
      BY <1>1, FromTipIs
    <3> QED
      BY <3>1
  <2>3. CASE hash \in OldestHash..(tip - 1)
    BY <1>1, <2>1, <2>2, <2>3 DEF Visible, SeenAt
  <2>4. CASE hash \notin OldestHash..(tip - 1)
    BY <2>1, <2>4 DEF Visible
  <2> QED
    BY <2>3, <2>4
<1>3. ASSUME tip + 2 <= hash + 1 + MaxRecent PROVE Recent(hash)
  <2>1. hash >= OldestHash
    BY <1>1, <1>3
  <2>2. PICK k \in 0..Len(recents) : Streamed(k)
    BY DEF RecentsInv
  <2>3. recents \in Seq(Nat) /\ Len(recents) \in 2..MaxRecent
    BY DEF RecentsInv
  <2>4. \A i \in 1..Len(recents) : recents[i] = IF i <= k THEN tip - i ELSE tip + 1 - i
    BY <2>2 DEF Streamed
  <2>5. OldestHash = IF Len(recents) <= k THEN tip - Len(recents) ELSE tip + 1 - Len(recents)
    BY <2>3, <2>4 DEF OldestHash
  <2> DEFINE i == IF tip - hash <= k THEN tip - hash ELSE tip + 1 - hash
  <2>6. i \in 1..Len(recents)
    BY <1>1, <2>1, <2>2, <2>3, <2>5
  <2>7. recents[i] = hash
    <3>1. tip - (tip - hash) = hash /\ tip + 1 - (tip + 1 - hash) = hash
      BY <1>1
    <3>2. ~(tip - hash <= k) => ~(tip + 1 - hash <= k)
      BY <1>1, <2>2
    <3>3. recents[i] = IF i <= k THEN tip - i ELSE tip + 1 - i
      BY <2>4, <2>6
    <3> QED
      BY <3>1, <3>2, <3>3
  <2> QED
    BY <2>3, <2>6, <2>7 DEF Recent
<1> QED
  BY <1>2, <1>3

-----------------------------------------------------------------------------
(* A chain, given by its landings and its open slot *)

Below(ls, slot) == Ordered(ls) /\ slot \in Nat \ {0} /\ \A l \in DOMAIN ls : l <= slot

FinalIn(ls, slot) == BlocksBack(ls, slot - 1, FinalizationThreshold - 1)

(* The open slot is not one that a travel skipped.                         *)
LEMMA OpenHolds ==
  ASSUME NEW ls, NEW slot, Below(ls, slot)
  PROVE  HoldsBlock(ls, slot)
<1>1. \A l \in DOMAIN ls : ~(l > slot)
  BY DEF Below, Ordered
<1> QED
  BY <1>1, PastLandings DEF HoldsBlock, Below

(* Visible at "confirmed" is what the last block minted, and at            *)
(* "finalized" what as many blocks minted as lie above the finalized one.  *)
LEMMA AgesOf ==
  ASSUME NEW ls, NEW slot, Below(ls, slot)
  PROVE  /\ FinalIn(ls, slot) \in 0..(slot - 1) /\ HoldsBlock(ls, FinalIn(ls, slot))
         /\ BlocksIn(ls, FinalIn(ls, slot) + 1, slot) \in 1..FinalizationThreshold
         /\ BlocksIn(ls, FinalIn(ls, slot) + 1, slot)
              = BlocksIn(ls, FinalIn(ls, slot) + 1, slot - 1) + 1
         /\ BlocksIn(ls, FinalIn(ls, slot) + 1, slot - 1) \in Nat
         /\ SatSub(slot, 1) = slot - 1
         /\ SatSub(BlocksIn(ls, BlockAtOrBefore(ls, slot - 1) + 1, slot), 1) = 0
         /\ SatSub(BlocksIn(ls, FinalIn(ls, slot) + 1, slot), 1)
              = BlocksIn(ls, FinalIn(ls, slot) + 1, slot - 1)
<1> DEFINE final == FinalIn(ls, slot)
           last == BlockAtOrBefore(ls, slot - 1)
<1>1. Ordered(ls) /\ slot \in Nat \ {0} /\ FinalizationThreshold - 1 \in Nat
  BY LedgerAssumption DEF Below
<1>2. /\ final \in 0..(slot - 1) /\ HoldsBlock(ls, final)
      /\ BlocksIn(ls, final + 1, slot) \in 1..(FinalizationThreshold - 1 + 1)
  BY <1>1, AboveFinal DEF FinalIn, Below
<1>3. HoldsBlock(ls, slot)
  BY OpenHolds
<1>4. /\ BlocksIn(ls, final + 1, slot) = BlocksIn(ls, final + 1, slot - 1) + 1
      /\ BlocksIn(ls, final + 1, slot - 1) \in Nat
  <2>1. final + 1 \in Nat /\ final + 1 <= slot /\ slot - 1 \in Nat
    BY <1>1, <1>2
  <2> QED
    BY <1>1, <1>3, <2>1, BlocksNext, BlocksFinite
<1>5. slot - 1 \in Nat
  BY <1>1
<1>6. last \in 0..(slot - 1) /\ \A r \in (last + 1)..(slot - 1) : ~HoldsBlock(ls, r)
  BY <1>1, <1>5, LastBlock
<1>7. BlocksIn(ls, last + 1, slot) = 1
  <2>1. BlocksWithin(ls, last + 1, slot - 1) = {}
    BY <1>6 DEF BlocksWithin
  <2>2. BlocksIn(ls, last + 1, slot - 1) = 0
    BY <2>1, FS_EmptySet DEF BlocksIn
  <2>3. last + 1 \in Nat /\ last + 1 <= slot
    BY <1>1, <1>6
  <2> QED
    BY <1>1, <1>3, <2>2, <2>3, BlocksNext
<1> HIDE DEF final, last
<1>8. SatSub(BlocksIn(ls, last + 1, slot), 1) = 0 /\ SatSub(slot, 1) = slot - 1
  BY <1>1, <1>7 DEF SatSub
<1>9. SatSub(BlocksIn(ls, final + 1, slot), 1) = BlocksIn(ls, final + 1, slot - 1)
  BY <1>4 DEF SatSub
<1>10. BlocksIn(ls, final + 1, slot) \in 1..FinalizationThreshold
  BY <1>1, <1>2, LedgerAssumption
<1> QED
  BY <1>2, <1>4, <1>8, <1>9, <1>10 DEF final, last

(* A block that is closed makes a hash older by one, and none younger that *)
(* the finalized slot asks for.                                            *)
LEMMA FinalSteps ==
  ASSUME NEW ls, NEW slot, Below(ls, slot),
         NEW before, before = FinalIn(ls, slot), NEW after, after = FinalIn(ls, slot + 1)
  PROVE  /\ Below(ls, slot + 1) /\ before <= after
         /\ BlocksIn(ls, after + 1, slot) \in BlocksIn(ls, before + 1, slot - 1)
                                                ..(BlocksIn(ls, before + 1, slot - 1) + 1)
<1>1. Ordered(ls) /\ slot \in Nat \ {0} /\ slot - 1 \in Nat /\ FinalizationThreshold - 1 \in Nat
  BY LedgerAssumption DEF Below
<1>2. Below(ls, slot + 1)
  BY <1>1 DEF Below, Ordered
<1>3. HoldsBlock(ls, (slot - 1) + 1) /\ (slot - 1) + 1 = slot /\ (slot + 1) - 1 = slot
  BY <1>1, OpenHolds
<1>4. /\ before \in 0..(slot - 1) /\ after \in 0..slot /\ before <= after
      /\ BlocksWithin(ls, before + 1, after) \subseteq {after}
  BY <1>1, <1>3, BlocksBackStep DEF FinalIn
<1>5. BlocksIn(ls, before + 1, after) \in 0..1
  <2>1. IsFiniteSet({after}) /\ Cardinality({after}) = 1
    BY FS_Singleton
  <2> QED
    BY <1>4, <2>1, FS_Subset, BlocksFinite DEF BlocksIn
<1>6. BlocksIn(ls, before + 1, slot)
        = BlocksIn(ls, before + 1, after) + BlocksIn(ls, after + 1, slot)
  <2>1. before + 1 \in Nat /\ after \in Nat /\ before + 1 <= after + 1 /\ after <= slot
    BY <1>4
  <2> QED
    BY <1>1, <2>1, BlocksSplit
<1>7. BlocksIn(ls, after + 1, slot) \in Nat
  BY <1>1, <1>4, BlocksFinite
<1>8. /\ BlocksIn(ls, before + 1, slot) = BlocksIn(ls, before + 1, slot - 1) + 1
      /\ BlocksIn(ls, before + 1, slot - 1) \in Nat
  BY AgesOf
<1> QED
  BY <1>2, <1>4, <1>5, <1>6, <1>7, <1>8

(* Two chains with the same blocks below their open slots.                 *)
LEMMA SameFinal ==
  ASSUME NEW ls, NEW slot \in Nat \ {0}, NEW after, NEW land \in Nat \ {0}, slot <= land,
         \A s \in 0..(land - 1) : HoldsBlock(after, s) <=> s < slot /\ HoldsBlock(ls, s)
  PROVE  /\ FinalIn(after, land) = FinalIn(ls, slot)
         /\ \A from \in Nat : BlocksIn(after, from, land - 1) = BlocksIn(ls, from, slot - 1)
<1>1. FinalIn(after, land) = FinalIn(ls, slot)
  BY SameBlocksSameDepth DEF FinalIn
<1> QED
  BY <1>1, SameBlocksSameCount

(* Past the slots that finalize the first block of all, where no travel    *)
(* ever skipped one, the finalized block always has as many others above.  *)
LEMMA DeepAges ==
  ASSUME NEW ls, NEW slot, Below(ls, slot), FinalizationThreshold <= slot,
         \A l \in DOMAIN ls : FinalizationThreshold <= ls[l].parent + 1
  PROVE  BlocksIn(ls, FinalIn(ls, slot) + 1, slot - 1) = FinalizationThreshold - 1
<1> DEFINE n == FinalizationThreshold - 1
<1>1. Ordered(ls) /\ slot \in Nat \ {0} /\ n \in Nat /\ slot - 1 \in Nat /\ n <= slot - 1
  BY LedgerAssumption DEF Below
<1>2. \A l \in DOMAIN ls : ls[l].parent \in Nat /\ n <= ls[l].parent
  <2>1. \A l \in DOMAIN ls : ls[l].parent \in Nat
    BY <1>1 DEF Ordered
  <2> QED
    BY <2>1, LedgerAssumption
<1> HIDE DEF n
<1>3. \A s \in 1..n : HoldsBlock(ls, s)
  <2> SUFFICES ASSUME NEW s \in 1..n PROVE HoldsBlock(ls, s)
    OBVIOUS
  <2>1. \A l \in DOMAIN ls : s <= ls[l].parent
    BY <1>1, <1>2
  <2>2. s \in Nat
    BY <1>1
  <2> QED
    BY <1>1, <2>1, <2>2, HoldsBlockIff
<1>4. BlocksIn(ls, 1, slot - 1) >= n
  <2>1. 1..n \subseteq BlocksWithin(ls, 1, slot - 1)
    BY <1>1, <1>3 DEF BlocksWithin
  <2>2. IsFiniteSet(1..n) /\ Cardinality(1..n) = n
    BY <1>1, FS_Interval
  <2>3. IsFiniteSet(BlocksWithin(ls, 1, slot - 1)) /\ BlocksIn(ls, 1, slot - 1) \in Nat
    BY <1>1, BlocksFinite
  <2>4. Cardinality(1..n) <= Cardinality(BlocksWithin(ls, 1, slot - 1))
    BY <2>1, <2>3, FS_Subset
  <2> QED
    BY <1>1, <2>2, <2>3, <2>4 DEF BlocksIn
<1>5. AtDepth(ls, slot - 1, n) # {}
  <2>1. SUFFICES ASSUME AtDepth(ls, slot - 1, n) = {} PROVE FALSE
    OBVIOUS
  <2>2. BlocksIn(ls, 1, slot - 1) < n /\ BlocksIn(ls, 1, slot - 1) \in Nat
    BY <1>1, <2>1, ShallowChain, BlocksFinite
  <2> QED
    BY <1>1, <1>4, <2>2
<1>6. FinalIn(ls, slot) \in AtDepth(ls, slot - 1, n)
  BY <1>5 DEF FinalIn, BlocksBack, AtDepth, n
<1> QED
  BY <1>6 DEF AtDepth, BlocksWithin, BlocksIn, n

-----------------------------------------------------------------------------
(* SlotHashes *)

(* The newest blocks since one that the finalized slot is not before, each *)
(* with the hash of the one below it.                                      *)
Dated(hashes, index, ls, slot) ==
  \A s \in DOMAIN hashes : hashes[s] = index - 1 - BlocksIn(ls, s + 1, slot)

Holding(hashes, genesis, ls, slot) ==
  \E b \in 0..genesis :
    /\ b <= FinalIn(ls, slot)
    /\ DOMAIN hashes = Newest(BlocksWithin(ls, b, slot), MaxSlotHashes)

(* How many blocks of a range lie above a slot. *)
LEMMA CountAbove ==
  ASSUME NEW ls, NEW slot \in Nat, NEW b \in Nat, NEW s \in Nat, b <= s
  PROVE  {r \in BlocksWithin(ls, b, slot) : r > s} = BlocksWithin(ls, s + 1, slot)
<1>1. ASSUME NEW r \in BlocksWithin(ls, b, slot), r > s PROVE r \in BlocksWithin(ls, s + 1, slot)
  BY <1>1 DEF BlocksWithin
<1>2. ASSUME NEW r \in BlocksWithin(ls, s + 1, slot)
      PROVE  r \in BlocksWithin(ls, b, slot) /\ r > s
  BY DEF BlocksWithin
<1> QED
  BY <1>1, <1>2

(* A rebuild gives such hashes.                                            *)
LEMMA HashesRebuilt ==
  ASSUME NEW ls, NEW slot, Below(ls, slot), NEW genesis \in Nat, NEW index \in Nat,
         NEW hashes, hashes = RebuiltSlotHashes(index, genesis, ls, slot)
  PROVE  Dated(hashes, index, ls, slot) /\ Holding(hashes, genesis, ls, slot)
<1> DEFINE final == FinalIn(ls, slot)
           b == IF genesis < final THEN genesis ELSE final
           slots == BlocksWithin(ls, b, slot)
<1>1. SatSub(slot, 1) = slot - 1 /\ final \in 0..(slot - 1) /\ slot \in Nat
  BY AgesOf DEF Below
<1>2. hashes = [s \in Newest(slots, MaxSlotHashes) |->
                  index - 1 - Cardinality({r \in slots : r > s})]
  BY <1>1 DEF RebuiltSlotHashes, FinalIn
<1>3. b \in 0..genesis /\ b <= final /\ b \in Nat
  BY <1>1
<1> HIDE DEF b, final
<1>4. ASSUME NEW s \in Newest(slots, MaxSlotHashes)
      PROVE  hashes[s] = index - 1 - BlocksIn(ls, s + 1, slot)
  <2>1. s \in Nat /\ b <= s
    BY <1>3 DEF Newest, BlocksWithin
  <2>2. {r \in slots : r > s} = BlocksWithin(ls, s + 1, slot)
    BY <1>1, <1>3, <2>1, CountAbove
  <2> HIDE DEF slots
  <2> QED
    BY <1>2, <2>2 DEF BlocksIn
<1>5. DOMAIN hashes = Newest(slots, MaxSlotHashes)
  BY <1>2
<1> QED
  BY <1>3, <1>4, <1>5 DEF Dated, Holding, final

(* The next block's hash comes in. *)
LEMMA HashesMinted ==
  ASSUME NEW ls, NEW slot, Below(ls, slot), NEW genesis \in Nat,
         NEW index \in Nat, NEW hashes,
         Dated(hashes, index, ls, slot), Holding(hashes, genesis, ls, slot),
         NEW added, added = Put(hashes, slot + 1, index),
         NEW minted, minted = [s \in Newest(DOMAIN added, MaxSlotHashes) |-> added[s]]
  PROVE  Dated(minted, index + 1, ls, slot + 1) /\ Holding(minted, genesis, ls, slot + 1)
<1>1. PICK b \in 0..genesis : /\ b <= FinalIn(ls, slot)
                              /\ DOMAIN hashes = Newest(BlocksWithin(ls, b, slot), MaxSlotHashes)
  BY DEF Holding
<1> DEFINE S == BlocksWithin(ls, b, slot)
<1>2. slot \in Nat \ {0} /\ b \in Nat /\ b <= slot /\ MaxSlotHashes \in Nat \ {0}
  <2>1. FinalIn(ls, slot) \in 0..(slot - 1) /\ slot \in Nat \ {0}
    BY AgesOf DEF Below
  <2> QED
    BY <1>1, <2>1, LedgerAssumption
<1>3. S \in SUBSET Nat /\ IsFiniteSet(S) /\ \A s \in S : s < slot + 1
  <2>1. IsFiniteSet(S)
    BY <1>2, BlocksFinite
  <2> QED
    BY <1>2, <2>1 DEF BlocksWithin
<1>4. Below(ls, slot + 1) /\ FinalIn(ls, slot) <= FinalIn(ls, slot + 1)
  BY FinalSteps
<1>5. BlocksWithin(ls, b, slot + 1) = S \cup {slot + 1}
  <2>1. HoldsBlock(ls, slot + 1)
    BY <1>4, OpenHolds
  <2> QED
    BY <1>2, <2>1 DEF BlocksWithin
<1>6. DOMAIN added = DOMAIN hashes \cup {slot + 1}
  BY DEF Put
<1>7. Newest(DOMAIN added, MaxSlotHashes)
        = Newest(BlocksWithin(ls, b, slot + 1), MaxSlotHashes)
  <2>1. slot + 1 \in Nat
    BY <1>2
  <2> HIDE DEF S
  <2>2. Newest(Newest(S, MaxSlotHashes) \cup {slot + 1}, MaxSlotHashes)
          = Newest(S \cup {slot + 1}, MaxSlotHashes)
    BY <1>2, <1>3, <2>1, NewestAdds
  <2>3. DOMAIN hashes = Newest(S, MaxSlotHashes)
    BY <1>1 DEF S
  <2> QED
    BY <1>5, <1>6, <2>2, <2>3
<1>8. Holding(minted, genesis, ls, slot + 1)
  <2>1. FinalIn(ls, slot) \in Nat /\ FinalIn(ls, slot + 1) \in Nat
    BY <1>4, AgesOf
  <2>2. b <= FinalIn(ls, slot + 1)
    BY <1>1, <1>2, <1>4, <2>1
  <2> QED
    BY <1>7, <2>2 DEF Holding
<1>9. ASSUME NEW s \in DOMAIN minted
      PROVE  minted[s] = (index + 1) - 1 - BlocksIn(ls, s + 1, slot + 1)
  <2>1. minted[s] = added[s] /\ s \in DOMAIN added
    BY DEF Newest
  <2>2. CASE s = slot + 1
    <3>1. BlocksWithin(ls, s + 1, slot + 1) = {}
      BY <1>2, <2>2 DEF BlocksWithin
    <3>2. BlocksIn(ls, s + 1, slot + 1) = 0
      BY <3>1, FS_EmptySet DEF BlocksIn
    <3>3. added[s] = index
      BY <2>2 DEF Put
    <3> QED
      BY <2>1, <3>2, <3>3
  <2>3. CASE s # slot + 1
    <3>1. s \in DOMAIN hashes /\ added[s] = hashes[s]
      BY <1>6, <2>1, <2>3 DEF Put
    <3>2. s \in Nat /\ s <= slot
      <4>1. s \in S
        BY <1>1, <3>1 DEF Newest
      <4> HIDE DEF S
      <4> QED
        BY <1>2, <1>3, <4>1
    <3>3. hashes[s] = index - 1 - BlocksIn(ls, s + 1, slot)
      BY <3>1 DEF Dated
    <3>4. BlocksIn(ls, s + 1, slot + 1) = BlocksIn(ls, s + 1, slot) + 1
      <4>1. HoldsBlock(ls, slot + 1)
        BY <1>4, OpenHolds
      <4>2. slot + 1 \in Nat \ {0} /\ s + 1 \in Nat /\ s + 1 <= slot + 1 /\ (slot + 1) - 1 = slot
        BY <1>2, <3>2
      <4>3. BlocksIn(ls, s + 1, slot + 1) = BlocksIn(ls, s + 1, (slot + 1) - 1) + 1
        BY <4>1, <4>2, BlocksNext
      <4> QED
        BY <4>2, <4>3
    <3>5. BlocksIn(ls, s + 1, slot) \in Nat
      BY <1>2, <3>2, BlocksFinite
    <3> QED
      BY <2>1, <3>1, <3>3, <3>4, <3>5
  <2> QED
    BY <2>2, <2>3
<1>10. Dated(minted, index + 1, ls, slot + 1)
  BY <1>9 DEF Dated
<1> QED
  BY <1>8, <1>10

(* A travel moves the open slot's entry to where it lands. *)
LEMMA HashesMoved ==
  ASSUME NEW ls, NEW slot, Below(ls, slot), NEW genesis \in Nat,
         NEW index \in Nat, NEW hashes,
         Dated(hashes, index, ls, slot), Holding(hashes, genesis, ls, slot),
         NEW after, NEW land \in Nat, slot < land, Below(after, land),
         \A s \in 0..(land - 1) : HoldsBlock(after, s) <=> s < slot /\ HoldsBlock(ls, s),
         NEW moved, moved = [s \in {IF k = slot THEN land ELSE k : k \in DOMAIN hashes} |->
                               IF s = land THEN hashes[slot] ELSE hashes[s]]
  PROVE  Dated(moved, index, after, land) /\ Holding(moved, genesis, after, land)
<1>1. PICK b \in 0..genesis : /\ b <= FinalIn(ls, slot)
                              /\ DOMAIN hashes = Newest(BlocksWithin(ls, b, slot), MaxSlotHashes)
  BY DEF Holding
<1> DEFINE S == BlocksWithin(ls, b, slot)
<1>2. /\ slot \in Nat \ {0} /\ b \in Nat /\ b <= slot /\ MaxSlotHashes \in Nat \ {0}
      /\ land \in Nat \ {0}
  <2>1. FinalIn(ls, slot) \in 0..(slot - 1) /\ slot \in Nat \ {0}
    BY AgesOf DEF Below
  <2> QED
    BY <1>1, <2>1, LedgerAssumption DEF Below
<1>3. S \in SUBSET Nat /\ IsFiniteSet(S) /\ slot \in S /\ \A s \in S : s <= slot
  <2>1. IsFiniteSet(S)
    BY <1>2, BlocksFinite
  <2>2. HoldsBlock(ls, slot)
    BY OpenHolds
  <2> QED
    BY <1>2, <2>1, <2>2 DEF BlocksWithin
<1>4. BlocksWithin(after, b, land) = (S \ {slot}) \cup {land}
  <2>1. HoldsBlock(after, land)
    BY OpenHolds
  <2>2. ASSUME NEW s \in BlocksWithin(after, b, land) PROVE s \in (S \ {slot}) \cup {land}
    <3>1. CASE s = land
      BY <3>1
    <3>2. CASE s # land
      <4>1. s \in 0..(land - 1) /\ HoldsBlock(after, s) /\ b <= s
        BY <1>2, <3>2 DEF BlocksWithin
      <4> QED
        BY <1>2, <4>1 DEF BlocksWithin
    <3> QED
      BY <3>1, <3>2
  <2>3. ASSUME NEW s \in (S \ {slot}) \cup {land} PROVE s \in BlocksWithin(after, b, land)
    <3>1. CASE s = land
      BY <1>2, <2>1, <3>1 DEF BlocksWithin
    <3>2. CASE s # land
      <4>1. s \in b..slot /\ s < slot /\ HoldsBlock(ls, s)
        BY <1>2, <3>2 DEF BlocksWithin
      <4>2. s \in 0..(land - 1) /\ s \in b..land
        BY <1>2, <4>1
      <4> QED
        BY <4>1, <4>2 DEF BlocksWithin
    <3> QED
      BY <3>1, <3>2
  <2> QED
    BY <2>2, <2>3
<1>5. slot \in DOMAIN hashes
  <2>1. {r \in S : r > slot} = {}
    BY <1>2, <1>3
  <2>2. Cardinality({r \in S : r > slot}) = 0
    BY <2>1, FS_EmptySet
  <2> HIDE DEF S
  <2>3. DOMAIN hashes = Newest(S, MaxSlotHashes)
    BY <1>1 DEF S
  <2> QED
    BY <1>2, <1>3, <2>2, <2>3 DEF Newest
<1>6. DOMAIN moved = (DOMAIN hashes \ {slot}) \cup {land}
  BY <1>5
<1>7. DOMAIN moved = Newest(BlocksWithin(after, b, land), MaxSlotHashes)
  <2>1. DOMAIN hashes = Newest(S, MaxSlotHashes)
    BY <1>1 DEF S
  <2> HIDE DEF S
  <2>2. Newest((S \ {slot}) \cup {land}, MaxSlotHashes)
          = (Newest(S, MaxSlotHashes) \ {slot}) \cup {land}
    BY <1>2, <1>3, NewestMoves
  <2> QED
    BY <1>4, <1>6, <2>1, <2>2
<1>8. /\ FinalIn(after, land) = FinalIn(ls, slot)
      /\ \A from \in Nat : BlocksIn(after, from, land - 1) = BlocksIn(ls, from, slot - 1)
  <2>1. slot <= land
    BY <1>2
  <2> QED
    BY <1>2, <2>1, SameFinal
<1>9. Holding(moved, genesis, after, land)
  BY <1>1, <1>7, <1>8 DEF Holding
<1>10. ASSUME NEW s \in DOMAIN moved
       PROVE  moved[s] = index - 1 - BlocksIn(after, s + 1, land)
  <2>1. CASE s = land
    <3>1. BlocksWithin(after, s + 1, land) = {} /\ BlocksWithin(ls, slot + 1, slot) = {}
      BY <1>2, <2>1 DEF BlocksWithin
    <3>2. BlocksIn(after, s + 1, land) = 0 /\ BlocksIn(ls, slot + 1, slot) = 0
      BY <3>1, FS_EmptySet DEF BlocksIn
    <3>3. hashes[slot] = index - 1 - BlocksIn(ls, slot + 1, slot)
      BY <1>5 DEF Dated
    <3> QED
      BY <2>1, <3>2, <3>3
  <2>2. CASE s # land
    <3>1. s \in DOMAIN hashes /\ s # slot /\ moved[s] = hashes[s]
      BY <1>6, <2>2
    <3>2. s \in Nat /\ s < slot
      BY <1>1, <1>2, <1>3, <3>1 DEF Newest
    <3>3. hashes[s] = index - 1 - BlocksIn(ls, s + 1, slot)
      BY <3>1 DEF Dated
    <3>4. /\ BlocksIn(ls, s + 1, slot) = BlocksIn(ls, s + 1, slot - 1) + 1
          /\ BlocksIn(after, s + 1, land) = BlocksIn(after, s + 1, land - 1) + 1
      <4>1. HoldsBlock(ls, slot) /\ HoldsBlock(after, land)
        BY OpenHolds
      <4>2. s + 1 \in Nat /\ s + 1 <= slot /\ s + 1 <= land
        BY <1>2, <3>2
      <4> QED
        BY <1>2, <4>1, <4>2, BlocksNext
    <3>5. BlocksIn(after, s + 1, land - 1) = BlocksIn(ls, s + 1, slot - 1)
      BY <1>8, <3>2
    <3> QED
      BY <3>1, <3>3, <3>4, <3>5
  <2> QED
    BY <2>1, <2>2
<1> QED
  BY <1>9, <1>10 DEF Dated

(* What such hashes show. *)
LEMMA HashesShow ==
  ASSUME NEW ls, NEW slot, Below(ls, slot), NEW genesis \in Nat,
         NEW hashes, Holding(hashes, genesis, ls, slot)
  PROVE  /\ FinalIn(ls, slot) \in DOMAIN hashes
         /\ Newest(BlocksWithin(ls, genesis, slot), MaxSlotHashes) \subseteq DOMAIN hashes
         /\ \A s \in DOMAIN hashes : s \in Nat /\ HoldsBlock(ls, s)
         /\ Cardinality(DOMAIN hashes) \in 1..MaxSlotHashes
<1>1. PICK b \in 0..genesis : /\ b <= FinalIn(ls, slot)
                              /\ DOMAIN hashes = Newest(BlocksWithin(ls, b, slot), MaxSlotHashes)
  BY DEF Holding
<1> DEFINE S == BlocksWithin(ls, b, slot)
           final == FinalIn(ls, slot)
<1>2. /\ slot \in Nat \ {0} /\ b \in Nat /\ b <= slot /\ MaxSlotHashes \in Nat \ {0}
      /\ FinalizationThreshold \in Nat /\ FinalizationThreshold < MaxSlotHashes
  <2>1. FinalIn(ls, slot) \in 0..(slot - 1) /\ slot \in Nat \ {0}
    BY AgesOf DEF Below
  <2> QED
    BY <1>1, <2>1, LedgerAssumption DEF Below
<1>3. S \in SUBSET Nat /\ IsFiniteSet(S) /\ \A s \in S : HoldsBlock(ls, s)
  <2>1. IsFiniteSet(S)
    BY <1>2, BlocksFinite
  <2> QED
    BY <1>2, <2>1 DEF BlocksWithin
<1>4. DOMAIN hashes = Newest(S, MaxSlotHashes)
  BY <1>1
<1>5. /\ final \in 0..(slot - 1) /\ HoldsBlock(ls, final)
      /\ BlocksIn(ls, final + 1, slot) \in 1..FinalizationThreshold
  BY AgesOf
<1>6. final \in DOMAIN hashes
  <2>1. final \in S
    BY <1>1, <1>2, <1>5 DEF BlocksWithin
  <2>2. {r \in S : r > final} = BlocksWithin(ls, final + 1, slot)
    BY <1>1, <1>2, <1>5, CountAbove
  <2>3. Cardinality({r \in S : r > final}) < MaxSlotHashes
    <3>1. Cardinality({r \in S : r > final}) = BlocksIn(ls, final + 1, slot)
      BY <2>2 DEF BlocksIn
    <3> HIDE DEF final, S
    <3> QED
      BY <1>2, <1>5, <3>1
  <2> HIDE DEF S, final
  <2> QED
    BY <1>4, <2>1, <2>3 DEF Newest
<1>7. ASSUME NEW s \in Newest(BlocksWithin(ls, genesis, slot), MaxSlotHashes)
      PROVE  s \in DOMAIN hashes
  <2>1. /\ s \in BlocksWithin(ls, genesis, slot)
        /\ Cardinality({r \in BlocksWithin(ls, genesis, slot) : r > s}) < MaxSlotHashes
    BY DEF Newest
  <2>2. s \in S /\ s \in Nat /\ genesis <= s /\ b <= s
    BY <1>2, <2>1 DEF BlocksWithin
  <2>3. {r \in BlocksWithin(ls, genesis, slot) : r > s} = {r \in S : r > s}
    BY <1>2, <2>2, CountAbove
  <2> HIDE DEF S
  <2> QED
    BY <1>4, <2>1, <2>2, <2>3 DEF Newest
<1>8. Cardinality(DOMAIN hashes) \in 1..MaxSlotHashes
  <2> HIDE DEF S, final
  <2>1. /\ IsFiniteSet(DOMAIN hashes)
        /\ Cardinality(DOMAIN hashes) \in 0..MaxSlotHashes
    BY <1>2, <1>3, <1>4, NewestType
  <2>2. Cardinality(DOMAIN hashes) # 0
    BY <1>6, <2>1, FS_EmptySet
  <2> QED
    BY <1>2, <2>1, <2>2
<1>9. \A s \in DOMAIN hashes : s \in Nat /\ HoldsBlock(ls, s)
  <2> HIDE DEF S
  <2> QED
    BY <1>3, <1>4 DEF Newest
<1> QED
  BY <1>6, <1>7, <1>8, <1>9

-----------------------------------------------------------------------------
(* The invariant *)

(* The remote is past the slots that finalize its first block.             *)
DeepRemote == \A r \in RemoteBlocks : FinalizationThreshold <= r.slot + 1

(* No chain holds a slot below. *)
Floor == IF has_remote THEN FinalizationThreshold ELSE InitialSlot

(* Memory and store are of one chain, and offline the tip counts its       *)
(* blocks.  With a remote the chain may hold less than its anchor says:    *)
(* the checkpoint and the landings stay as they are when a chain still at  *)
(* its genesis is opened anew, on a later block.                           *)
OneChain ==
  /\ anchor \in [slot : Nat \ {0}, height : Nat \ {0}]
  /\ genesis_slot = anchor.slot
  /\ Floor <= anchor.slot /\ Floor <= open
  /\ tip \in Nat \ {0}
  /\ Below(landings, open)
  /\ \A l \in DOMAIN landings : Floor <= l /\ Floor <= landings[l].parent + 1
  /\ \A s \in DOMAIN blocks : s \in Nat /\ Floor <= s /\ s < open
  /\ latest_slot \in Nat => Floor <= latest_slot + 1 /\ latest_slot < open
  /\ ~has_remote => /\ anchor.slot = InitialSlot
                    /\ tip = anchor.height + BlocksIn(landings, anchor.slot, open - 1)

HashesInv ==
  /\ Dated(slot_hashes, tip, landings, open)
  /\ Holding(slot_hashes, genesis_slot, landings, open)

Handed ==
  client.doing = "signs" =>
    /\ client.commitment \in Commitments
    /\ client.hash \in Nat /\ client.hash <= tip - 1
    /\ SeenAt(client.hash, MinAge(client.commitment))
    /\ client.last_valid = client.hash + 1 + MaxRecent \/ client.opening

Doings == {"idle", "signs", "pages", "awaits", "done", "refused"}

OtherTypes ==
  /\ has_remote \in BOOLEAN /\ height \in Nat /\ travelling \in Nat \cup {Nothing}
  /\ queue \in Seq(Tx) /\ ran \in Seq(Tx) /\ DOMAIN transactions \subseteq Tx
  /\ latest_slot \in Nat \cup {Nothing}
  /\ "doing" \in DOMAIN client /\ client.doing \in Doings

LedgerInv == OtherTypes /\ OneChain /\ RecentsInv /\ HashesInv /\ Handed

(* What commitments ask of the age of a hash, *)
LEMMA MinAges ==
  ASSUME Below(landings, open)
  PROVE  /\ MinAge("confirmed") = 0
         /\ MinAge("finalized") = BlocksIn(landings, FinalIn(landings, open) + 1, open - 1)
         /\ \A c \in Commitments : MinAge(c) \in Nat
<1>1. /\ MinAge("confirmed") = 0
      /\ MinAge("finalized") = BlocksIn(landings, FinalIn(landings, open) + 1, open - 1)
      /\ BlocksIn(landings, FinalIn(landings, open) + 1, open - 1) \in Nat
  BY AgesOf DEF MinAge, SlotFor, FinalIn
<1> QED
  BY <1>1 DEF Commitments

(* now and after a step. *)
LEMMA MinAgesNext ==
  ASSUME Below(landings', open')
  PROVE  /\ MinAge("confirmed")' = 0
         /\ MinAge("finalized")' = BlocksIn(landings', FinalIn(landings', open') + 1, open' - 1)
<1> QED
  BY AgesOf DEF MinAge, SlotFor, FinalIn

(* The floor is a slot, past the first of all.                             *)
LEMMA FloorType == Floor \in Nat \ {0}
BY LedgerAssumption DEF Floor

(* The types of the chain.                                                 *)
LEMMA ChainTypes ==
  ASSUME OneChain
  PROVE  /\ open \in Nat \ {0} /\ anchor.slot \in Nat \ {0} /\ genesis_slot = anchor.slot
         /\ anchor.height \in Nat \ {0} /\ Floor \in Nat \ {0} /\ Floor <= open
         /\ tip \in Nat \ {0} /\ Ordered(landings) /\ DOMAIN landings \subseteq Nat
         /\ Below(landings, open) /\ HoldsBlock(landings, open)
<1>1. open \in Nat \ {0} /\ anchor.slot \in Nat \ {0} /\ anchor.height \in Nat \ {0}
  BY DEF OneChain, Below
<1> QED
  BY <1>1, OpenHolds, FloorType DEF OneChain, Below, Ordered

(* The properties follow. *)
LEMMA InvShows ==
  ASSUME LedgerInv
  PROVE  BlockhashesFollowChain
<1>1. /\ open \in Nat \ {0} /\ genesis_slot \in Nat
      /\ tip \in Nat \ {0} /\ Below(landings, open) /\ DOMAIN landings \subseteq Nat
      /\ anchor \in [slot : Nat, height : Nat] /\ DOMAIN blocks \subseteq Nat
  BY ChainTypes DEF LedgerInv, OneChain
<1>2. /\ FinalIn(landings, open) \in DOMAIN slot_hashes
      /\ Newest(BlocksWithin(landings, genesis_slot, open), MaxSlotHashes)
           \subseteq DOMAIN slot_hashes
      /\ \A s \in DOMAIN slot_hashes : s \in Nat /\ HoldsBlock(landings, s)
      /\ Cardinality(DOMAIN slot_hashes) \in 1..MaxSlotHashes
  BY <1>1, HashesShow DEF LedgerInv, HashesInv
<1>3. LedgerTypeOK
  <2>1. Len(recents) \in 1..MaxRecent /\ recents \in Seq(Nat)
    BY LedgerAssumption DEF LedgerInv, RecentsInv
  <2> QED
    BY <1>1, <1>2, <2>1 DEF LedgerInv, OtherTypes, LedgerTypeOK, Doings
<1>4. HandedOutStaysUsable
  <2> SUFFICES ASSUME client.doing = "signs" PROVE HandedOutStaysUsable
    BY DEF HandedOutStaysUsable
  <2>1. /\ client.commitment \in Commitments /\ client.hash \in Nat /\ client.hash <= tip - 1
        /\ SeenAt(client.hash, MinAge(client.commitment))
        /\ client.last_valid = client.hash + 1 + MaxRecent \/ client.opening
    BY DEF LedgerInv, Handed
  <2>2. MinAge(client.commitment) \in Nat
    BY <1>1, <2>1, MinAges
  <2>3. /\ Visible(client.hash, client.commitment)
        /\ tip + 2 <= client.hash + 1 + MaxRecent => Recent(client.hash)
    BY <2>1, <2>2, StaysUsable DEF LedgerInv
  <2> QED
    BY <2>1, <2>3 DEF HandedOutStaysUsable
<1>5. SlotHashesFollowChain
  <2>1. SlotFor("finalized") = FinalIn(landings, open)
    BY <1>1 DEF SlotFor, FinalIn, SatSub
  <2>2. \A s \in DOMAIN slot_hashes :
          slot_hashes[s] = tip - 1 - BlocksIn(landings, s + 1, open)
    BY DEF LedgerInv, HashesInv, Dated
  <2> QED
    BY <1>2, <2>1, <2>2 DEF SlotHashesFollowChain
<1> QED
  BY <1>3, <1>4, <1>5 DEF BlockhashesFollowChain

-----------------------------------------------------------------------------
(* A start *)

(* No block lies below where the range starts.                             *)
LEMMA NoneBefore ==
  ASSUME NEW ls, NEW slot \in Nat
  PROVE  BlocksIn(ls, slot, slot - 1) = 0
<1>1. BlocksWithin(ls, slot, slot - 1) = {}
  BY DEF BlocksWithin
<1> QED
  BY <1>1, FS_EmptySet DEF BlocksIn

(* The sysvars are rebuilt to follow the chain that is found or opened. *)
LEMMA RebuiltFollow ==
  ASSUME OneChain', SysvarsRebuilt
  PROVE  RecentsInv' /\ HashesInv' /\ OldestHash' = SatSub(tip', MaxRecent - 1)
<1>1. /\ open' \in Nat \ {0} /\ anchor'.slot \in Nat \ {0} /\ genesis_slot' = anchor'.slot
      /\ Below(landings', open')
  BY DEF OneChain, Below
<1>2. tip' \in Nat \ {0}
  BY DEF OneChain
<1>3. recents' = RebuiltRecents(tip')
  BY DEF SysvarsRebuilt
<1>4. /\ recents' \in Seq(Nat) /\ Len(recents') \in 2..MaxRecent
      /\ \A i \in 1..Len(recents') : recents'[i] = tip' + 1 - i
      /\ Len(recents') = MaxRecent \/ recents'[Len(recents')] = 0
  BY <1>2, <1>3, RebuiltInOrder
<1>5. 0 \in 0..Len(recents') /\ Streamed(0)'
  BY <1>4 DEF Streamed
<1>6. RecentsInv'
  BY <1>2, <1>4, <1>5 DEF RecentsInv, OldestHash
<1>7. HashesInv'
  BY <1>1, <1>2, HashesRebuilt DEF HashesInv, SysvarsRebuilt
<1>8. OldestHash' = SatSub(tip', MaxRecent - 1)
  <2>1. MaxRecent \in Nat \ {0, 1} /\ Len(recents') \in 1..Len(recents')
    BY <1>4, LedgerAssumption
  <2>2. OldestHash' = tip' + 1 - Len(recents')
    BY <1>4, <2>1 DEF OldestHash
  <2>3. OldestHash' = 0 \/ Len(recents') = MaxRecent
    BY <1>4 DEF OldestHash
  <2> QED
    BY <1>2, <1>4, <2>1, <2>2, <2>3 DEF SatSub
<1> QED
  BY <1>6, <1>7, <1>8

(* A remote's block that a chain is opened on. *)
LEMMA GenesisType ==
  ASSUME NEW remote \in RemoteBlocks
  PROVE  /\ RemoteGenesis(remote) \in [slot : Nat \ {0}, height : Nat \ {0}]
         /\ RemoteGenesis(remote).slot = remote.slot + 1 /\ remote.height \in Nat
<1>1. remote.slot \in Nat /\ remote.height \in Nat
  BY LedgerAssumption
<1> QED
  BY <1>1 DEF RemoteGenesis

(* No travel yet.                                                          *)
LEMMA EmptyOrdered == Ordered(EmptyMap) /\ DOMAIN EmptyMap = {}
BY DEF Ordered, EmptyMap

(* A chain that is opened follows the remote's block, or the first one     *)
(* offline.                                                                *)
LEMMA InvInit == DeepRemote /\ LedgerInit => LedgerInv
<1> SUFFICES ASSUME DeepRemote, LedgerInit PROVE LedgerInv
  OBVIOUS
<1>1. /\ anchor \in [slot : Nat \ {0}, height : Nat \ {0}] /\ Floor <= anchor.slot
      /\ ~has_remote => anchor.slot = InitialSlot
      /\ height \in Nat /\ has_remote \in BOOLEAN
  <2>1. CASE has_remote = FALSE
    <3>1. anchor = [slot |-> InitialSlot, height |-> 1] /\ height = InitialSlot
      BY <2>1 DEF LedgerInit
    <3>2. has_remote \in BOOLEAN
      BY <2>1
    <3>3. Floor <= anchor.slot
      BY <2>1, <3>1, LedgerAssumption DEF Floor
    <3> QED
      BY <3>1, <3>2, <3>3, LedgerAssumption
  <2>2. CASE has_remote # FALSE
    <3>1. PICK remote \in RemoteBlocks : anchor = RemoteGenesis(remote) /\ height = remote.height
      BY <2>2 DEF LedgerInit
    <3>2. has_remote = TRUE
      BY <2>2 DEF LedgerInit
    <3>3. anchor.slot = remote.slot + 1
      BY <3>1, GenesisType
    <3>4. Floor <= anchor.slot
      BY <3>2, <3>3 DEF Floor, DeepRemote
    <3> QED
      BY <3>1, <3>2, <3>4, GenesisType
  <2> QED
    BY <2>1, <2>2
<1>2. anchor.slot \in Nat \ {0} /\ anchor.height \in Nat \ {0}
  BY <1>1
<1>3. /\ open = anchor.slot /\ genesis_slot = anchor.slot /\ tip = anchor.height
      /\ landings = EmptyMap /\ blocks = EmptyMap /\ latest_slot = Nothing
      /\ travelling = Nothing /\ queue = <<>> /\ ran = <<>> /\ transactions = EmptyMap
      /\ client = Idle
  BY DEF LedgerInit
<1>4. Below(landings, open)
  BY <1>2, <1>3, EmptyOrdered DEF Below
<1>5. OneChain
  <2>1. BlocksIn(landings, anchor.slot, open - 1) = 0
    BY <1>2, <1>3, NoneBefore
  <2>2. latest_slot \notin Nat
    BY <1>3, LedgerAssumption
  <2> QED
    BY <1>1, <1>2, <1>3, <1>4, <2>1, <2>2, EmptyOrdered DEF OneChain
<1>6. tip \in Nat \ {0}
  BY <1>2, <1>3
<1>7. RecentsInv
  <2>1. recents = RebuiltRecents(tip)
    BY DEF LedgerInit
  <2>2. /\ recents \in Seq(Nat) /\ Len(recents) \in 2..MaxRecent
        /\ \A i \in 1..Len(recents) : recents[i] = tip + 1 - i
        /\ Len(recents) = MaxRecent \/ recents[Len(recents)] = 0
    BY <1>6, <2>1, RebuiltInOrder
  <2>3. 0 \in 0..Len(recents) /\ Streamed(0)
    BY <2>2 DEF Streamed
  <2> QED
    BY <1>6, <2>2, <2>3 DEF RecentsInv, OldestHash
<1>8. HashesInv
  <2>1. slot_hashes = RebuiltSlotHashes(tip, genesis_slot, landings, open)
    BY DEF LedgerInit
  <2> QED
    BY <1>2, <1>3, <1>4, <1>6, <2>1, HashesRebuilt DEF HashesInv
<1>9. OtherTypes
  BY <1>1, <1>3, EmptyOrdered DEF OtherTypes, Idle, Doings
<1>10. Handed
  BY <1>3 DEF Handed, Idle
<1> QED
  BY <1>5, <1>7, <1>8, <1>9, <1>10 DEF LedgerInv

-----------------------------------------------------------------------------
(* A block *)

(* The last block before the open slot lies at most one below the floor.   *)
LEMMA LastParent ==
  ASSUME OneChain, NEW b,
         b = ParentSlot(landings, open) \/ b = BlockAtOrBefore(landings, SatSub(open, 1))
  PROVE  /\ b = BlockAtOrBefore(landings, open - 1) /\ b \in Nat
         /\ Floor <= b + 1 /\ b < open
<1>1. /\ open \in Nat \ {0} /\ Floor \in Nat \ {0} /\ Floor <= open
      /\ Ordered(landings) /\ HoldsBlock(landings, open) /\ open - 1 \in Nat
  BY ChainTypes
<1>2. b = BlockAtOrBefore(landings, open - 1)
  BY <1>1, ParentIsLast DEF SatSub
<1>3. b \in 0..(open - 1) /\ \A r \in (b + 1)..(open - 1) : ~HoldsBlock(landings, r)
  BY <1>1, <1>2, LastBlock
<1>4. Floor <= b + 1
  <2>1. SUFFICES ASSUME b + 1 < Floor PROVE FALSE
    BY <1>1, <1>3
  <2>2. Floor - 1 \in (b + 1)..(open - 1) /\ Floor - 1 \in Nat
    BY <1>1, <1>3, <2>1
  <2>3. ~HoldsBlock(landings, Floor - 1)
    BY <1>3, <2>2
  <2>4. PICK l \in DOMAIN landings : ~(Floor - 1 <= landings[l].parent)
    BY <1>1, <2>2, <2>3, HoldsBlockIff
  <2>5. Floor <= landings[l].parent + 1 /\ landings[l].parent \in Nat
    BY <1>1 DEF OneChain, Ordered
  <2> QED
    BY <1>1, <2>4, <2>5
<1> QED
  BY <1>1, <1>2, <1>3, <1>4

(* A block that is closed mints the next hash and leaves what was handed   *)
(* out as it is.                                                           *)
LEMMA CloseKeeps ==
  ASSUME LedgerInv, CloseBlock, has_remote' = has_remote
  PROVE  /\ OneChain' /\ RecentsInv' /\ HashesInv'
         /\ client' = client => Handed'
         /\ height' \in Nat /\ queue' \in Seq(Tx) /\ latest_slot' \in Nat \cup {Nothing}
<1>1. /\ open \in Nat \ {0} /\ anchor.slot \in Nat \ {0} /\ Floor \in Nat \ {0}
      /\ Floor <= open /\ genesis_slot = anchor.slot /\ anchor.height \in Nat \ {0}
      /\ tip \in Nat \ {0} /\ Below(landings, open) /\ HoldsBlock(landings, open)
  BY ChainTypes DEF LedgerInv
<1>2. /\ SysvarsMinted /\ tip' = tip + 1 /\ height' = tip + 1 /\ open' = open + 1
      /\ DOMAIN blocks' \subseteq DOMAIN blocks \cup {open}
      /\ latest_slot' \in {latest_slot, open}
      /\ genesis_slot' = genesis_slot /\ landings' = landings /\ anchor' = anchor
      /\ queue' = <<>>
  BY DEF CloseBlock, Put
<1>3. /\ Below(landings, open + 1)
      /\ BlocksIn(landings, FinalIn(landings, open + 1) + 1, open)
           \in BlocksIn(landings, FinalIn(landings, open) + 1, open - 1)
                 ..(BlocksIn(landings, FinalIn(landings, open) + 1, open - 1) + 1)
  BY <1>1, FinalSteps
<1>4. OneChain'
  <2>1. Floor' = Floor
    BY DEF Floor
  <2>2. ASSUME ~has_remote
        PROVE  /\ anchor.slot = InitialSlot
               /\ tip + 1 = anchor.height + BlocksIn(landings, anchor.slot, (open + 1) - 1)
    <3>1. /\ anchor.slot = InitialSlot /\ anchor.slot <= open
          /\ tip = anchor.height + BlocksIn(landings, anchor.slot, open - 1)
      BY <2>2 DEF LedgerInv, OneChain, Floor
    <3>2. BlocksIn(landings, anchor.slot, open) = BlocksIn(landings, anchor.slot, open - 1) + 1
      BY <1>1, <3>1, BlocksNext
    <3>3. BlocksIn(landings, anchor.slot, open - 1) \in Nat /\ (open + 1) - 1 = open
      BY <1>1, BlocksFinite
    <3> QED
      BY <1>1, <3>1, <3>2, <3>3
  <2>3. \A s \in DOMAIN blocks' : s \in Nat /\ Floor <= s /\ s < open + 1
    <3>1. \A s \in DOMAIN blocks : s \in Nat /\ Floor <= s /\ s < open
      BY DEF LedgerInv, OneChain
    <3>2. \A s \in DOMAIN blocks' : s \in DOMAIN blocks \/ s = open
      BY <1>2
    <3> QED
      BY <1>1, <3>1, <3>2
  <2>4. latest_slot' \in Nat => Floor <= latest_slot' + 1 /\ latest_slot' < open + 1
    <3>1. latest_slot \in Nat => Floor <= latest_slot + 1 /\ latest_slot < open
      BY DEF LedgerInv, OneChain
    <3>2. CASE latest_slot' = latest_slot
      BY <1>1, <3>1, <3>2
    <3>3. CASE latest_slot' = open
      BY <1>1, <3>3
    <3> QED
      BY <1>2, <3>2, <3>3
  <2>5. /\ anchor \in [slot : Nat \ {0}, height : Nat \ {0}] /\ Floor <= anchor.slot
        /\ \A l \in DOMAIN landings : Floor <= l /\ Floor <= landings[l].parent + 1
    BY DEF LedgerInv, OneChain
  <2>6. Floor <= open + 1 /\ tip + 1 \in Nat \ {0}
    BY <1>1
  <2>7. ~has_remote' => /\ anchor'.slot = InitialSlot
                        /\ tip' = anchor'.height + BlocksIn(landings', anchor'.slot, open' - 1)
    BY <1>2, <2>2
  <2> HIDE DEF Floor
  <2> QED
    BY <1>1, <1>2, <1>3, <2>1, <2>3, <2>4, <2>5, <2>6, <2>7 DEF OneChain
<1>5. RecentsInv' /\ OldestHash' >= OldestHash
  BY <1>2, MintedInOrder DEF LedgerInv
<1>6. HashesInv'
  <2>1. slot_hashes' = [s \in Newest(DOMAIN Put(slot_hashes, open + 1, tip), MaxSlotHashes) |->
                          Put(slot_hashes, open + 1, tip)[s]]
    BY <1>2 DEF SysvarsMinted
  <2>2. /\ Dated(slot_hashes, tip, landings, open)
        /\ Holding(slot_hashes, genesis_slot, landings, open)
    BY DEF LedgerInv, HashesInv
  <2>3. genesis_slot \in Nat /\ tip \in Nat
    BY <1>1
  <2>4. /\ Dated(slot_hashes', tip + 1, landings, open + 1)
        /\ Holding(slot_hashes', genesis_slot, landings, open + 1)
    BY <1>1, <2>1, <2>2, <2>3, HashesMinted
  <2> QED
    BY <1>2, <2>4 DEF HashesInv
<1>7. ASSUME client' = client PROVE Handed'
  <2> SUFFICES ASSUME client.doing = "signs" PROVE Handed'
    BY <1>7 DEF Handed
  <2> DEFINE c == client.commitment
             hash == client.hash
  <2>1. /\ c \in Commitments /\ hash \in Nat /\ hash <= tip - 1 /\ SeenAt(hash, MinAge(c))
        /\ client.last_valid = hash + 1 + MaxRecent \/ client.opening
    BY DEF LedgerInv, Handed
  <2>2. MinAge(c) \in Nat /\ MinAge(c)' \in MinAge(c)..(MinAge(c) + 1)
    <3>1. /\ MinAge("confirmed") = 0
          /\ MinAge("finalized") = BlocksIn(landings, FinalIn(landings, open) + 1, open - 1)
          /\ MinAge(c) \in Nat
      BY <1>1, <2>1, MinAges
    <3>2. /\ MinAge("confirmed")' = 0
          /\ MinAge("finalized")' = BlocksIn(landings', FinalIn(landings', open') + 1, open' - 1)
      BY <1>2, <1>3, MinAgesNext
    <3>3. (open + 1) - 1 = open
      BY <1>1
    <3>4. MinAge("finalized")' \in MinAge("finalized")..(MinAge("finalized") + 1)
      BY <1>2, <1>3, <3>1, <3>2, <3>3
    <3>5. CASE c = "confirmed"
      <4>1. c' = "confirmed"
        BY <1>7, <3>5
      <4>2. MinAge(c)' = 0 /\ MinAge(c) = 0
        BY <3>1, <3>2, <3>5, <4>1
      <4> QED
        BY <4>2
    <3>6. CASE c = "finalized"
      <4>1. c' = "finalized"
        BY <1>7, <3>6
      <4> QED
        BY <3>1, <3>4, <3>6, <4>1
    <3> QED
      BY <2>1, <3>5, <3>6 DEF Commitments
  <2>3. OldestHash \in Nat /\ OldestHash' \in Nat
    <3>1. OldestHash \in 0..(tip - 1)
      BY OldestIs DEF LedgerInv
    <3>2. recents' \in Seq(Nat) /\ Len(recents') \in 1..Len(recents')
      BY <1>5, LedgerAssumption DEF RecentsInv
    <3> QED
      BY <3>1, <3>2 DEF OldestHash
  <2>4. SeenAt(hash, MinAge(c))'
    BY <1>1, <1>2, <1>5, <1>7, <2>1, <2>2, <2>3 DEF SeenAt
  <2> QED
    BY <1>1, <1>2, <1>7, <2>1, <2>4 DEF Handed
<1>8. height' \in Nat /\ queue' \in Seq(Tx) /\ latest_slot' \in Nat \cup {Nothing}
  BY <1>1, <1>2 DEF LedgerInv, OtherTypes
<1> QED
  BY <1>4, <1>5, <1>6, <1>7, <1>8

-----------------------------------------------------------------------------
(* A travel *)

(* What was handed out stays right where the tip stays, and as many blocks *)
(* lie above the finalized one.                                            *)
LEMMA HandedKeeps ==
  ASSUME LedgerInv, Below(landings', open'), client' = client, tip' = tip,
         OldestHash' \in Nat, OldestHash' >= OldestHash,
         BlocksIn(landings', FinalIn(landings', open') + 1, open' - 1)
           = BlocksIn(landings, FinalIn(landings, open) + 1, open - 1)
  PROVE  Handed'
<1> SUFFICES ASSUME client.doing = "signs" PROVE Handed'
  BY DEF Handed
<1> DEFINE c == client.commitment
           hash == client.hash
<1>1. /\ c \in Commitments /\ hash \in Nat /\ hash <= tip - 1 /\ SeenAt(hash, MinAge(c))
      /\ client.last_valid = hash + 1 + MaxRecent \/ client.opening
  BY DEF LedgerInv, Handed
<1>2. Below(landings, open) /\ tip \in Nat \ {0} /\ OldestHash \in Nat
  BY ChainTypes, OldestIs DEF LedgerInv
<1>3. MinAge(c)' = MinAge(c) /\ MinAge(c) \in Nat
  <2>1. /\ MinAge("confirmed") = 0
        /\ MinAge("finalized") = BlocksIn(landings, FinalIn(landings, open) + 1, open - 1)
        /\ MinAge(c) \in Nat
    BY <1>1, <1>2, MinAges
  <2>2. /\ MinAge("confirmed")' = 0
        /\ MinAge("finalized")' = BlocksIn(landings', FinalIn(landings', open') + 1, open' - 1)
    BY MinAgesNext
  <2>3. MinAge("finalized")' = MinAge("finalized")
    BY <2>1, <2>2
  <2>4. CASE c = "confirmed"
    <3>1. c' = "confirmed"
      BY <2>4
    <3>2. MinAge(c)' = 0 /\ MinAge(c) = 0
      BY <2>1, <2>2, <2>4, <3>1
    <3> QED
      BY <3>2
  <2>5. CASE c = "finalized"
    <3>1. c' = "finalized"
      BY <2>5
    <3> QED
      BY <2>1, <2>3, <2>5, <3>1
  <2> QED
    BY <1>1, <2>4, <2>5 DEF Commitments
<1>4. SeenAt(hash, MinAge(c))'
  BY <1>1, <1>2, <1>3 DEF SeenAt
<1> QED
  BY <1>1, <1>4 DEF Handed

(* The open slot, its entry in SlotHashes and the landings move together.  *)
LEMMA TravelKeeps ==
  ASSUME LedgerInv, TravelTo
  PROVE  LedgerInv'
<1> DEFINE slot == IF travelling > open THEN travelling ELSE open
           parent == BlockAtOrBefore(landings, SatSub(open, 1))
           landing == [parent |-> parent]
<1>1. /\ open \in Nat \ {0} /\ anchor.slot \in Nat \ {0} /\ Floor \in Nat \ {0}
      /\ Floor <= open /\ genesis_slot = anchor.slot /\ Ordered(landings)
      /\ tip \in Nat \ {0} /\ Below(landings, open) /\ DOMAIN landings \subseteq Nat
  BY ChainTypes DEF LedgerInv
<1>2. /\ travelling # Nothing /\ travelling' = Nothing
      /\ open' = slot /\ landings' = AfterTravel(landings, open, slot, landing)
      /\ slot_hashes' = IF slot > open THEN SlotHashesMoved(slot) ELSE slot_hashes
      /\ UNCHANGED <<has_remote, height, tip, genesis_slot, recents, queue, stored, ran, client>>
  BY DEF TravelTo, AfterTravel
<1>3. slot \in Nat \ {0} /\ open <= slot
  BY <1>1, <1>2 DEF LedgerInv, OtherTypes
<1>4. /\ landing.parent = BlockAtOrBefore(landings, open - 1) /\ parent \in Nat
      /\ Floor <= parent + 1 /\ parent < open
  BY LastParent DEF LedgerInv
<1> HIDE DEF slot, parent
<1>5. /\ Ordered(landings')
      /\ \A s \in 0..(slot - 1) : HoldsBlock(landings', s) <=> s < open /\ HoldsBlock(landings, s)
  BY <1>1, <1>2, <1>3, <1>4, TravelInOrder
<1>6. /\ DOMAIN landings' = {l \in DOMAIN landings : l < open} \cup {slot}
      /\ landings'[slot].parent = parent
      /\ \A l \in DOMAIN landings : l < open => landings'[l] = landings[l]
  <2>1. \A l \in DOMAIN landings : l \in Nat /\ (~(l >= open) <=> l < open)
    BY <1>1
  <2> QED
    BY <1>1, <1>2, <1>3, <2>1 DEF AfterTravel, Put, Drop
<1>7. Below(landings', open')
  <2>1. \A l \in DOMAIN landings' : l <= slot
    BY <1>1, <1>3, <1>6
  <2> QED
    BY <1>2, <1>3, <1>5, <2>1 DEF Below
<1>8. /\ FinalIn(landings', slot) = FinalIn(landings, open)
      /\ \A from \in Nat : BlocksIn(landings', from, slot - 1) = BlocksIn(landings, from, open - 1)
  BY <1>1, <1>3, <1>5, SameFinal
<1>9. OneChain'
  <2>1. \A l \in DOMAIN landings' : Floor <= l /\ Floor <= landings'[l].parent + 1
    BY <1>1, <1>3, <1>4, <1>6 DEF LedgerInv, OneChain
  <2>2. /\ anchor' = anchor /\ blocks' = blocks /\ latest_slot' = latest_slot
        /\ genesis_slot' = genesis_slot /\ tip' = tip /\ open' = slot
        /\ has_remote' = has_remote
    BY <1>2 DEF stored
  <2>3. Floor' = Floor
    BY <2>2 DEF Floor
  <2>4. ~has_remote => /\ anchor.slot = InitialSlot
                       /\ tip = anchor.height + BlocksIn(landings', anchor.slot, slot - 1)
    BY <1>1, <1>8 DEF LedgerInv, OneChain
  <2>5. \A s \in DOMAIN blocks : s \in Nat /\ Floor <= s /\ s < slot
    BY <1>1, <1>3 DEF LedgerInv, OneChain
  <2>6. latest_slot \in Nat => Floor <= latest_slot + 1 /\ latest_slot < slot
    BY <1>1, <1>3 DEF LedgerInv, OneChain
  <2>7. /\ anchor \in [slot : Nat \ {0}, height : Nat \ {0}]
        /\ Floor <= anchor.slot /\ Floor <= slot
    BY <1>1, <1>3 DEF LedgerInv, OneChain
  <2> QED
    BY <1>1, <1>7, <2>1, <2>2, <2>3, <2>4, <2>5, <2>6, <2>7 DEF OneChain
<1>10. RecentsInv' /\ OldestHash' = OldestHash
  BY <1>2 DEF LedgerInv, RecentsInv, Streamed, OldestHash
<1>11. HashesInv'
  <2>1. /\ Dated(slot_hashes, tip, landings, open)
        /\ Holding(slot_hashes, genesis_slot, landings, open)
    BY DEF LedgerInv, HashesInv
  <2>2. CASE slot > open
    <3>1. slot_hashes' = [s \in {IF k = open THEN slot ELSE k : k \in DOMAIN slot_hashes} |->
                            IF s = slot THEN slot_hashes[open] ELSE slot_hashes[s]]
      BY <1>2, <2>2 DEF SlotHashesMoved
    <3>2. /\ genesis_slot \in Nat /\ tip \in Nat /\ slot \in Nat
          /\ open < slot /\ Below(landings', slot)
      BY <1>1, <1>2, <1>3, <1>7, <2>2
    <3>3. /\ Dated(slot_hashes', tip, landings', slot)
          /\ Holding(slot_hashes', genesis_slot, landings', slot)
      BY <1>1, <1>5, <2>1, <3>1, <3>2, HashesMoved
    <3> QED
      BY <1>2, <3>3 DEF HashesInv
  <2>3. CASE ~(slot > open)
    <3>1. slot = open /\ slot_hashes' = slot_hashes
      BY <1>1, <1>2, <1>3, <2>3
    <3>2. \A s \in 0..(open - 1) : HoldsBlock(landings', s) <=> HoldsBlock(landings, s)
      <4>1. \A s \in 0..(open - 1) : s < open /\ s \in 0..(slot - 1)
        BY <1>1, <3>1
      <4> QED
        BY <1>5, <4>1
    <3>3. HoldsBlock(landings', open) /\ HoldsBlock(landings, open)
      BY <1>1, <1>2, <1>7, <3>1, OpenHolds
    <3>4. \A s \in 0..open : HoldsBlock(landings', s) <=> HoldsBlock(landings, s)
      BY <1>1, <3>2, <3>3
    <3>5. ASSUME NEW b \in Nat
          PROVE  BlocksWithin(landings', b, open) = BlocksWithin(landings, b, open)
      BY <1>1, <3>4 DEF BlocksWithin
    <3>6. FinalIn(landings', open) = FinalIn(landings, open)
      BY <1>8, <3>1
    <3>7. Holding(slot_hashes, genesis_slot, landings', open)
      BY <1>1, <2>1, <3>5, <3>6 DEF Holding
    <3>8. Dated(slot_hashes, tip, landings', open)
      <4>1. genesis_slot \in Nat
        BY <1>1
      <4>2. \A s \in DOMAIN slot_hashes : s \in Nat
        BY <1>1, <2>1, <4>1, HashesShow
      <4>3. \A s \in DOMAIN slot_hashes :
              BlocksIn(landings', s + 1, open) = BlocksIn(landings, s + 1, open)
        BY <3>5, <4>2 DEF BlocksIn
      <4> QED
        BY <2>1, <4>3 DEF Dated
    <3> QED
      BY <1>2, <3>1, <3>7, <3>8 DEF HashesInv
  <2> QED
    BY <2>2, <2>3
<1>12. Handed'
  <2>1. OldestHash \in Nat
    BY OldestIs DEF LedgerInv
  <2>2. OldestHash' \in Nat /\ OldestHash' >= OldestHash
    BY <1>10, <2>1
  <2>3. FinalIn(landings, open) + 1 \in Nat
    BY <1>1, AgesOf
  <2>4. BlocksIn(landings', FinalIn(landings', open') + 1, open' - 1)
          = BlocksIn(landings, FinalIn(landings, open) + 1, open - 1)
    BY <1>2, <1>8, <2>3
  <2> QED
    BY <1>2, <1>7, <2>2, <2>4, HandedKeeps
<1>13. OtherTypes'
  BY <1>2 DEF LedgerInv, OtherTypes, stored
<1> QED
  BY <1>9, <1>10, <1>11, <1>12, <1>13 DEF LedgerInv

-----------------------------------------------------------------------------
(* Resets, stops and restarts *)

(* A chain is opened on the remote's block, or on the first one offline.   *)
LEMMA OpensNoOlder ==
  ASSUME LedgerInv, DeepRemote, has_remote' = has_remote,
         \/ /\ has_remote
            /\ \E remote \in RemoteAnswers :
                 anchor' = RemoteGenesis(remote) /\ height' = remote.height
         \/ /\ ~has_remote
            /\ \E n \in Nat \ {0} : anchor' = [slot |-> InitialSlot, height |-> n]
            /\ height' = InitialSlot
  PROVE  /\ anchor' \in [slot : Nat \ {0}, height : Nat \ {0}] /\ height' \in Nat
         /\ Floor' = Floor /\ Floor <= anchor'.slot /\ anchor.slot <= anchor'.slot
         /\ ~has_remote => anchor'.slot = InitialSlot
<1>1. Floor' = Floor
  BY DEF Floor
<1>2. CASE has_remote
  <2>1. PICK remote \in RemoteAnswers : anchor' = RemoteGenesis(remote) /\ height' = remote.height
    BY <1>2
  <2>2. remote \in RemoteBlocks /\ remote.slot + 1 >= anchor.slot
    BY DEF RemoteAnswers
  <2>3. /\ anchor' \in [slot : Nat \ {0}, height : Nat \ {0}]
        /\ anchor'.slot = remote.slot + 1 /\ height' \in Nat
    BY <2>1, <2>2, GenesisType
  <2>4. Floor <= anchor'.slot
    BY <1>2, <2>2, <2>3 DEF Floor, DeepRemote
  <2>5. anchor.slot <= anchor'.slot
    <3>1. anchor.slot \in Nat /\ anchor'.slot \in Nat
      BY <2>3 DEF LedgerInv, OneChain
    <3> QED
      BY <2>2, <2>3, <3>1
  <2> QED
    BY <1>1, <1>2, <2>3, <2>4, <2>5
<1>3. CASE ~has_remote
  <2>1. PICK n \in Nat \ {0} : anchor' = [slot |-> InitialSlot, height |-> n]
    BY <1>3
  <2>2. anchor.slot = InitialSlot /\ height' = InitialSlot
    BY <1>3 DEF LedgerInv, OneChain
  <2> QED
    BY <1>1, <1>3, <2>1, <2>2, LedgerAssumption DEF Floor
<1> QED
  BY <1>2, <1>3

(* A reset opens a chain and drops what was stored of the old one.         *)
LEMMA ResetKeeps ==
  ASSUME LedgerInv, DeepRemote, ResetLedger
  PROVE  LedgerInv'
<1>1. /\ open' = anchor'.slot /\ genesis_slot' = anchor'.slot /\ tip' = anchor'.height
      /\ landings' = EmptyMap /\ SysvarsRebuilt
      /\ queue' = <<>> /\ transactions' = EmptyMap /\ blocks' = EmptyMap /\ latest_slot' = Nothing
      /\ ran' = <<>> /\ client' = Idle /\ has_remote' = has_remote /\ travelling' = travelling
  BY DEF ResetLedger
<1>2. /\ anchor' \in [slot : Nat \ {0}, height : Nat \ {0}] /\ height' \in Nat
      /\ Floor' = Floor /\ Floor <= anchor'.slot
      /\ ~has_remote => anchor'.slot = InitialSlot
  <2>1. InitialSlot \in Nat \ {0}
    BY LedgerAssumption
  <2>2. \/ /\ has_remote
           /\ \E remote \in RemoteAnswers :
                anchor' = RemoteGenesis(remote) /\ height' = remote.height
        \/ /\ ~has_remote
           /\ \E n \in Nat \ {0} : anchor' = [slot |-> InitialSlot, height |-> n]
           /\ height' = InitialSlot
    BY <2>1 DEF ResetLedger
  <2> QED
    BY <1>1, <2>2, OpensNoOlder
<1>3. anchor'.slot \in Nat \ {0} /\ anchor'.height \in Nat \ {0}
  BY <1>2
<1>4. Below(landings', open')
  BY <1>1, <1>3, EmptyOrdered DEF Below
<1>5. OneChain'
  <2>1. BlocksIn(landings', anchor'.slot, open' - 1) = 0
    BY <1>1, <1>3, NoneBefore
  <2>2. latest_slot' \notin Nat
    BY <1>1, LedgerAssumption
  <2> HIDE DEF Floor
  <2> QED
    BY <1>1, <1>2, <1>3, <1>4, <2>1, <2>2, EmptyOrdered DEF OneChain
<1>6. RecentsInv' /\ HashesInv'
  BY <1>1, <1>5, RebuiltFollow
<1>7. OtherTypes'
  BY <1>1, <1>2, EmptyOrdered DEF LedgerInv, OtherTypes, Idle, Doings
<1>8. Handed'
  BY <1>1 DEF Handed, Idle
<1> QED
  BY <1>5, <1>6, <1>7, <1>8 DEF LedgerInv

(* The slots a stop leaves in the store: none below the floor, and none    *)
(* past where the chain was open.                                          *)
LEMMA SlotsLeft ==
  ASSUME OneChain, NEW checkpoint \in Nat \cup {Nothing},
         checkpoint \in Nat => Floor <= checkpoint + 1 /\ checkpoint < open,
         NEW slot, slot = Max(RecoveredSlots(checkpoint) \cup {0})
  PROVE  /\ slot \in (Floor..open) \cup {0}
         /\ \A s \in DOMAIN blocks : s < slot
         /\ \A l \in DOMAIN landings : l <= slot
         /\ checkpoint \in Nat => checkpoint < slot
<1> DEFINE R == RecoveredSlots(checkpoint)
<1>1. /\ open \in Nat \ {0} /\ Floor \in Nat \ {0} /\ Floor <= open
      /\ DOMAIN landings \subseteq Nat /\ \A l \in DOMAIN landings : l <= open
  BY ChainTypes DEF Below
<1>2. \A s \in DOMAIN blocks : s \in Nat /\ Floor <= s /\ s < open
  BY DEF OneChain
<1>3. \A l \in DOMAIN landings : Floor <= l /\ l <= open /\ l \in Nat
  BY <1>1 DEF OneChain
<1>4. \A s \in ({checkpoint} \ {Nothing}) \cup DOMAIN blocks :
        s \in Nat /\ Floor <= s + 1 /\ s + 1 <= open
  BY <1>1, <1>2
<1>5. ASSUME NEW x \in R PROVE x \in Floor..open
  <2>1. CASE x \in DOMAIN landings
    BY <1>1, <1>3, <2>1
  <2>2. CASE x \notin DOMAIN landings
    <3>1. PICK s \in ({checkpoint} \ {Nothing}) \cup DOMAIN blocks : x = s + 1
      BY <2>2 DEF RecoveredSlots
    <3> QED
      BY <1>1, <1>4, <3>1
  <2> QED
    BY <2>1, <2>2
<1>6. /\ \A s \in DOMAIN blocks : s + 1 \in R
      /\ \A l \in DOMAIN landings : l \in R
      /\ checkpoint \in Nat => checkpoint + 1 \in R
  BY LedgerAssumption DEF RecoveredSlots
<1> DEFINE U == R \cup {0}
<1>7. U \in SUBSET (0..open) /\ U # {} /\ U \subseteq (Floor..open) \cup {0}
  BY <1>1, <1>5
<1>8. slot = Max(U)
  OBVIOUS
<1>9. 0 \in U /\ R \subseteq U
  OBVIOUS
<1> HIDE DEF R, U
<1>10. slot \in U /\ \A x \in U : slot >= x
  <2>1. \E m \in U : \A x \in U : x <= m
    BY <1>1, <1>7, LargestExists
  <2>2. \E m \in U : \A x \in U : m >= x
    BY <1>7, <2>1
  <2> QED
    BY <1>8, <2>2 DEF Max
<1>11. slot \in Nat
  BY <1>1, <1>7, <1>10
<1>12. \A s \in DOMAIN blocks : s < slot
  BY <1>2, <1>6, <1>9, <1>10, <1>11
<1>13. \A l \in DOMAIN landings : l <= slot
  BY <1>3, <1>6, <1>9, <1>10, <1>11
<1>14. checkpoint \in Nat => checkpoint < slot
  BY <1>6, <1>9, <1>10, <1>11
<1> QED
  BY <1>7, <1>10, <1>12, <1>13, <1>14

(* What a restart finds: the chain, as far as it was stored, or none.      *)
LEMMA RestartFinds ==
  ASSUME LedgerInv, DeepRemote, NEW checkpoint \in Nat \cup {Nothing},
         checkpoint \in Nat => Floor <= checkpoint + 1 /\ checkpoint < open,
         StopAndRestart(checkpoint)
  PROVE  /\ OneChain' /\ height' \in Nat /\ Floor' = Floor
         /\ ~has_remote /\ tip' = tip =>
              /\ open' <= open
              /\ \A s \in open'..(open - 1) : ~HoldsBlock(landings, s)
<1> DEFINE slot == Max(RecoveredSlots(checkpoint) \cup {0})
           Anew == slot = 0 \/ (has_remote /\ slot = anchor.slot)
<1>1. /\ open \in Nat \ {0} /\ anchor.slot \in Nat \ {0}
      /\ genesis_slot = anchor.slot /\ anchor.height \in Nat \ {0} /\ Ordered(landings)
      /\ tip \in Nat \ {0} /\ Below(landings, open) /\ DOMAIN landings \subseteq Nat
      /\ Floor \in Nat \ {0} /\ Floor <= open
  BY ChainTypes DEF LedgerInv
<1>2. /\ genesis_slot' = anchor'.slot /\ landings' = landings /\ latest_slot' = checkpoint
      /\ blocks' = blocks /\ has_remote' = has_remote
  BY DEF StopAndRestart
<1>3. /\ slot \in (Floor..open) \cup {0}
      /\ \A s \in DOMAIN blocks : s < slot
      /\ \A l \in DOMAIN landings : l <= slot
      /\ checkpoint \in Nat => checkpoint < slot
  BY SlotsLeft DEF LedgerInv
<1>4. /\ \A l \in DOMAIN landings : Floor <= l /\ Floor <= landings[l].parent + 1
      /\ \A s \in DOMAIN blocks : s \in Nat /\ Floor <= s
      /\ checkpoint \in Nat => Floor <= checkpoint + 1
      /\ anchor \in [slot : Nat \ {0}, height : Nat \ {0}] /\ Floor <= anchor.slot
      /\ ~has_remote => /\ anchor.slot = InitialSlot /\ Floor = InitialSlot
                        /\ tip = anchor.height + BlocksIn(landings, anchor.slot, open - 1)
  BY DEF LedgerInv, OneChain, Floor
<1>5. CASE Anew
  <2>1. /\ open' = anchor'.slot /\ tip' = anchor'.height
        /\ \/ /\ has_remote
              /\ \E remote \in RemoteAnswers :
                   anchor' = RemoteGenesis(remote) /\ height' = remote.height
           \/ /\ ~has_remote
              /\ anchor' = [slot |-> InitialSlot, height |-> 1] /\ height' = InitialSlot
    BY <1>5 DEF StopAndRestart
  <2>2. /\ anchor' \in [slot : Nat \ {0}, height : Nat \ {0}] /\ height' \in Nat
        /\ Floor' = Floor /\ Floor <= anchor'.slot /\ anchor.slot <= anchor'.slot
        /\ ~has_remote => anchor'.slot = InitialSlot
    <3>1. \/ /\ has_remote
             /\ \E remote \in RemoteAnswers :
                  anchor' = RemoteGenesis(remote) /\ height' = remote.height
          \/ /\ ~has_remote
             /\ \E n \in Nat \ {0} : anchor' = [slot |-> InitialSlot, height |-> n]
             /\ height' = InitialSlot
      BY <2>1
    <3> QED
      BY <1>2, <3>1, OpensNoOlder
  <2> HIDE DEF slot
  <2>3. slot \in Nat /\ slot <= anchor'.slot /\ anchor'.slot \in Nat \ {0}
    BY <1>1, <1>3, <1>5, <2>2
  <2>4. Below(landings, anchor'.slot)
    BY <1>1, <1>3, <2>3 DEF Below
  <2>5. OneChain'
    <3>1. BlocksIn(landings, anchor'.slot, anchor'.slot - 1) = 0
      BY <2>3, NoneBefore
    <3>2. \A s \in DOMAIN blocks : s \in Nat /\ Floor <= s /\ s < anchor'.slot
      BY <1>3, <1>4, <2>3
    <3>3. checkpoint \in Nat => Floor <= checkpoint + 1 /\ checkpoint < anchor'.slot
      BY <1>3, <1>4, <2>3
    <3>4. anchor'.height \in Nat \ {0} /\ anchor'.height = anchor'.height + 0
      BY <2>2
    <3> HIDE DEF Floor
    <3> QED
      BY <1>2, <1>4, <2>1, <2>2, <2>4, <3>1, <3>2, <3>3, <3>4 DEF OneChain
  <2>6. ASSUME ~has_remote, tip' = tip
        PROVE  /\ open' <= open
               /\ \A s \in open'..(open - 1) : ~HoldsBlock(landings, s)
    <3>1. /\ open' = InitialSlot /\ tip' = 1 /\ anchor.slot = InitialSlot
          /\ InitialSlot <= open
      <4>1. anchor' = [slot |-> InitialSlot, height |-> 1]
        BY <2>1, <2>6
      <4>2. Floor = InitialSlot /\ anchor.slot = InitialSlot
        BY <1>4, <2>6
      <4> HIDE DEF Floor
      <4> QED
        BY <1>1, <2>1, <4>1, <4>2
    <3>2. BlocksIn(landings, anchor.slot, open - 1) = 0
      <4>1. BlocksIn(landings, anchor.slot, open - 1) \in Nat
        BY <1>1, BlocksFinite
      <4>2. tip = 1 /\ tip = anchor.height + BlocksIn(landings, anchor.slot, open - 1)
        BY <1>4, <2>6, <3>1
      <4> DEFINE b == BlocksIn(landings, anchor.slot, open - 1)
                 h == anchor.height
      <4>3. h \in Nat \ {0} /\ b \in Nat /\ 1 = h + b
        BY <1>1, <4>1, <4>2
      <4> HIDE DEF b, h
      <4>4. b = 0
        BY <4>3
      <4> QED
        BY <4>4 DEF b
    <3>3. BlocksWithin(landings, anchor.slot, open - 1) = {}
      BY <1>1, <3>2, BlocksFinite, FS_EmptySet DEF BlocksIn
    <3> QED
      BY <1>1, <3>1, <3>3 DEF BlocksWithin
  <2> QED
    BY <2>2, <2>5, <2>6
<1>6. CASE ~Anew
  <2>1. /\ open' = slot /\ anchor' = anchor /\ height' = tip'
        /\ tip' = anchor.height + BlocksIn(landings, anchor.slot, slot - 1)
    BY <1>6 DEF StopAndRestart
  <2> HIDE DEF slot
  <2>2. slot \in Nat \ {0} /\ Floor <= slot /\ slot <= open
    BY <1>1, <1>3, <1>6
  <2>3. BlocksIn(landings, anchor.slot, slot - 1) \in Nat
    BY <1>1, <2>2, BlocksFinite
  <2>4. tip' \in Nat \ {0} /\ height' \in Nat
    BY <1>1, <2>1, <2>3
  <2>5. Floor' = Floor
    BY <1>2 DEF Floor
  <2>6. OneChain'
    <3>1. Below(landings, slot)
      BY <1>1, <1>3, <2>2 DEF Below
    <3> HIDE DEF Floor
    <3> QED
      BY <1>2, <1>3, <1>4, <2>1, <2>2, <2>4, <2>5, <3>1 DEF OneChain
  <2>7. ASSUME ~has_remote, tip' = tip
        PROVE  \A s \in slot..(open - 1) : ~HoldsBlock(landings, s)
    <3>1. CASE slot = open
      BY <1>1, <3>1
    <3>2. CASE slot < open
      <4>1. BlocksIn(landings, anchor.slot, open - 1)
              = BlocksIn(landings, anchor.slot, slot - 1)
                  + BlocksIn(landings, (slot - 1) + 1, open - 1)
        <5>1. /\ slot - 1 \in Nat /\ open - 1 \in Nat /\ anchor.slot <= (slot - 1) + 1
              /\ slot - 1 <= open - 1
          BY <1>1, <1>4, <2>2, <2>7, <3>2
        <5> QED
          BY <1>1, <5>1, BlocksSplit
      <4>2. (slot - 1) + 1 = slot /\ BlocksIn(landings, slot, open - 1) \in Nat
        BY <1>1, <2>2, BlocksFinite
      <4>3. BlocksIn(landings, slot, open - 1) = 0
        BY <1>1, <1>4, <2>1, <2>3, <2>7, <4>1, <4>2
      <4>4. BlocksWithin(landings, slot, open - 1) = {}
        BY <1>1, <2>2, <4>3, BlocksFinite, FS_EmptySet DEF BlocksIn
      <4> QED
        BY <4>4 DEF BlocksWithin
    <3> QED
      BY <1>1, <2>2, <3>1, <3>2
  <2> QED
    BY <2>1, <2>2, <2>4, <2>5, <2>6, <2>7
<1> QED
  BY <1>5, <1>6

(* A restart rebuilds the sysvars for it.                                  *)
LEMMA RestartKeeps ==
  ASSUME LedgerInv, DeepRemote, NEW checkpoint \in Nat \cup {Nothing},
         checkpoint \in Nat => Floor <= checkpoint + 1 /\ checkpoint < open,
         StopAndRestart(checkpoint)
  PROVE  LedgerInv'
<1>1. /\ OneChain' /\ height' \in Nat /\ Floor' = Floor
      /\ ~has_remote /\ tip' = tip =>
           /\ open' <= open
           /\ \A s \in open'..(open - 1) : ~HoldsBlock(landings, s)
  BY RestartFinds
<1>2. /\ landings' = landings /\ latest_slot' = checkpoint
      /\ SysvarsRebuilt /\ queue' = <<>> /\ travelling' = Nothing
      /\ ran' = SubSeq(ran, 1, Len(ran) - Len(queue))
      /\ client' = IF tip' = tip /\ anchor' = anchor THEN client ELSE Idle
      /\ UNCHANGED <<has_remote, transactions, blocks>>
  BY DEF StopAndRestart
<1>3. RecentsInv' /\ HashesInv' /\ OldestHash' = SatSub(tip', MaxRecent - 1)
  BY <1>1, <1>2, RebuiltFollow
<1>4. OtherTypes'
  <2>1. /\ ran \in Seq(Tx) /\ queue \in Seq(Tx) /\ has_remote \in BOOLEAN
        /\ DOMAIN transactions \subseteq Tx /\ "doing" \in DOMAIN client /\ client.doing \in Doings
    BY DEF LedgerInv, OtherTypes
  <2>2. ran' \in Seq(Tx)
    <3>1. Len(ran) \in Nat /\ Len(queue) \in Nat /\ Len(ran) - Len(queue) <= Len(ran)
      BY <2>1
    <3>2. \A i \in 1..(Len(ran) - Len(queue)) : i \in 1..Len(ran)
      BY <3>1
    <3>3. \A i \in 1..(Len(ran) - Len(queue)) : ran[i] \in Tx
      BY <2>1, <3>2
    <3> QED
      BY <1>2, <2>1, <3>1, <3>3, SubSeqProperties
  <2>3. "doing" \in DOMAIN client' /\ client'.doing \in Doings
    BY <1>2, <2>1 DEF Idle, Doings
  <2>4. queue' \in Seq(Tx)
    BY <1>2
  <2> QED
    BY <1>1, <1>2, <2>1, <2>2, <2>3, <2>4 DEF OtherTypes
<1>5. Handed'
  <2>1. CASE tip' = tip /\ anchor' = anchor
    <3>1. /\ open \in Nat \ {0} /\ tip \in Nat \ {0} /\ Below(landings, open)
          /\ Ordered(landings)
      BY ChainTypes DEF LedgerInv
    <3>2. open' \in Nat \ {0} /\ Below(landings', open')
      BY <1>1 DEF OneChain, Below
    <3>3. ASSUME ~has_remote
          PROVE  BlocksIn(landings, FinalIn(landings, open') + 1, open' - 1)
                   = BlocksIn(landings, FinalIn(landings, open) + 1, open - 1)
      <4>1. \A s \in 0..(open - 1) :
              HoldsBlock(landings, s) <=> s < open' /\ HoldsBlock(landings, s)
        <5>1. \A s \in 0..(open - 1) : s < open' \/ s \in open'..(open - 1)
          BY <3>1, <3>2
        <5> QED
          BY <1>1, <2>1, <3>3, <5>1
      <4>2. /\ FinalIn(landings, open) = FinalIn(landings, open')
            /\ \A from \in Nat :
                 BlocksIn(landings, from, open - 1) = BlocksIn(landings, from, open' - 1)
        BY <1>1, <2>1, <3>1, <3>2, <3>3, <4>1, SameFinal
      <4>3. FinalIn(landings, open) + 1 \in Nat
        BY <3>1, AgesOf
      <4> QED
        BY <4>2, <4>3
    <3>4. ASSUME has_remote
          PROVE  BlocksIn(landings, FinalIn(landings, open') + 1, open' - 1)
                   = BlocksIn(landings, FinalIn(landings, open) + 1, open - 1)
      <4>1. Floor = FinalizationThreshold
        BY <3>4 DEF Floor
      <4>2. /\ FinalizationThreshold <= open /\ FinalizationThreshold <= open'
            /\ \A l \in DOMAIN landings : FinalizationThreshold <= landings[l].parent + 1
        <5>1. Floor <= open /\ \A l \in DOMAIN landings : Floor <= landings[l].parent + 1
          BY DEF LedgerInv, OneChain
        <5>2. Floor' <= open'
          BY <1>1 DEF OneChain
        <5> QED
          BY <1>1, <4>1, <5>1, <5>2
      <4>3. /\ BlocksIn(landings, FinalIn(landings, open) + 1, open - 1)
                 = FinalizationThreshold - 1
            /\ BlocksIn(landings, FinalIn(landings, open') + 1, open' - 1)
                 = FinalizationThreshold - 1
        <5>1. Below(landings, open')
          BY <1>2, <3>2
        <5> QED
          BY <3>1, <4>2, <5>1, DeepAges
      <4> QED
        BY <4>3
    <3>5. BlocksIn(landings', FinalIn(landings', open') + 1, open' - 1)
            = BlocksIn(landings, FinalIn(landings, open) + 1, open - 1)
      BY <1>2, <3>3, <3>4
    <3>6. OldestHash \in Nat /\ OldestHash' \in Nat /\ OldestHash' >= OldestHash
      <4>1. /\ OldestHash \in 0..(tip - 1)
            /\ OldestHash = 0 \/ OldestHash <= tip + 1 - MaxRecent
        BY OldestIs DEF LedgerInv
      <4>2. OldestHash' = SatSub(tip, MaxRecent - 1)
        BY <1>3, <2>1
      <4> QED
        BY <3>1, <4>1, <4>2, LedgerAssumption DEF SatSub
    <3> QED
      BY <1>2, <2>1, <3>2, <3>5, <3>6, HandedKeeps
  <2>2. CASE ~(tip' = tip /\ anchor' = anchor)
    BY <1>2, <2>2 DEF Handed, Idle
  <2> QED
    BY <2>1, <2>2
<1> QED
  BY <1>1, <1>3, <1>4, <1>5 DEF LedgerInv

(* A shutdown stores the last block's slot, a crash what the last          *)
(* checkpoint did.                                                         *)
LEMMA StopsKeep ==
  ASSUME LedgerInv, DeepRemote, ShutdownAndRestart \/ CrashAndRestart
  PROVE  LedgerInv'
<1>1. CASE ShutdownAndRestart
  <2> DEFINE last == ParentSlot(landings, open)
  <2>1. StopAndRestart(last)
    BY <1>1 DEF ShutdownAndRestart
  <2>2. last \in Nat /\ Floor <= last + 1 /\ last < open
    BY LastParent DEF LedgerInv
  <2> HIDE DEF last
  <2> QED
    BY <2>1, <2>2, RestartKeeps
<1>2. CASE CrashAndRestart
  <2>1. StopAndRestart(latest_slot)
    BY <1>2 DEF CrashAndRestart
  <2>2. latest_slot \in Nat \cup {Nothing}
    BY DEF LedgerInv, OtherTypes
  <2>3. latest_slot \in Nat => Floor <= latest_slot + 1 /\ latest_slot < open
    BY DEF LedgerInv, OneChain
  <2> QED
    BY <2>1, <2>2, <2>3, RestartKeeps
<1> QED
  BY <1>1, <1>2

-----------------------------------------------------------------------------
(* The clock and the transactions *)

(* Closing the open slot, with or without a travel that follows.           *)
LEMMA ClosesKeep ==
  ASSUME LedgerInv,
         \/ CloseSlot
         \/ \E slot \in open..MaxSlot : CloseBeforeTravel(slot)
  PROVE  LedgerInv'
<1>1. /\ CloseBlock /\ has_remote' = has_remote /\ client' = client
      /\ travelling' \in Nat \cup {Nothing}
  <2>1. open \in Nat /\ MaxSlot \in Nat /\ travelling \in Nat \cup {Nothing}
    BY ChainTypes, LedgerAssumption DEF LedgerInv, OtherTypes
  <2>2. \A slot \in open..MaxSlot : slot \in Nat
    BY <2>1
  <2> QED
    BY <2>1, <2>2 DEF CloseSlot, CloseBeforeTravel
<1>2. /\ OneChain' /\ RecentsInv' /\ HashesInv' /\ Handed'
      /\ height' \in Nat /\ queue' \in Seq(Tx) /\ latest_slot' \in Nat \cup {Nothing}
  BY <1>1, CloseKeeps
<1>3. ran' = ran /\ transactions' = transactions
  BY <1>1 DEF CloseBlock
<1> QED
  BY <1>1, <1>2, <1>3 DEF LedgerInv, OtherTypes

(* What does not touch the chain or the sysvars keeps them right. *)
LEMMA SameChain ==
  ASSUME LedgerInv,
         UNCHANGED <<has_remote, chain, sysvars, blocks, latest_slot, anchor>>
  PROVE  /\ OneChain' /\ RecentsInv' /\ HashesInv'
         /\ client' = client => Handed'
<1>1. /\ open' = open /\ height' = height /\ tip' = tip /\ genesis_slot' = genesis_slot
      /\ landings' = landings /\ recents' = recents /\ slot_hashes' = slot_hashes
      /\ blocks' = blocks /\ latest_slot' = latest_slot /\ anchor' = anchor
      /\ has_remote' = has_remote
  BY DEF chain, sysvars
<1>2. OneChain'
  BY <1>1 DEF LedgerInv, OneChain, Floor
<1>3. RecentsInv'
  BY <1>1 DEF LedgerInv, RecentsInv, Streamed, OldestHash
<1>4. HashesInv'
  BY <1>1 DEF LedgerInv, HashesInv
<1>5. ASSUME client' = client PROVE Handed'
  <2>1. Below(landings', open')
    BY <1>2 DEF OneChain
  <2>2. OldestHash' = OldestHash /\ OldestHash \in Nat
    BY <1>1, OldestIs DEF LedgerInv, OldestHash
  <2>3. OldestHash' \in Nat /\ OldestHash' >= OldestHash
    BY <2>2
  <2>4. BlocksIn(landings', FinalIn(landings', open') + 1, open' - 1)
          = BlocksIn(landings, FinalIn(landings, open) + 1, open - 1)
    BY <1>1
  <2> QED
    BY <1>1, <1>5, <2>1, <2>3, <2>4, HandedKeeps
<1> QED
  BY <1>2, <1>3, <1>4, <1>5

(* A transaction that runs changes neither the chain nor the sysvars.      *)
LEMMA ProcessKeeps ==
  ASSUME LedgerInv, NEW t \in Tx, ProcessTransaction(t)
  PROVE  LedgerInv'
<1>1. OneChain' /\ RecentsInv' /\ HashesInv' /\ Handed'
  BY SameChain DEF ProcessTransaction
<1>2. OtherTypes'
  <2>1. queue' \in Seq(Tx) /\ ran' \in Seq(Tx)
    BY DEF LedgerInv, OtherTypes, ProcessTransaction
  <2>2. DOMAIN transactions' \subseteq Tx
    BY DEF LedgerInv, OtherTypes, ProcessTransaction, Put
  <2> QED
    BY <2>1, <2>2 DEF LedgerInv, OtherTypes, ProcessTransaction, chain
<1> QED
  BY <1>1, <1>2 DEF LedgerInv

-----------------------------------------------------------------------------
(* The client *)

(* What getLatestBlockhash hands out.                                      *)
LEMMA GetsHash ==
  ASSUME LedgerInv, NEW c \in Commitments, GetLatestBlockhash(c)
  PROVE  LedgerInv'
<1> DEFINE hash == BlockhashAt(c)
           handed == [doing |-> "signs", hash |-> hash, commitment |-> c,
                      last_valid |-> LastValidHeight(hash), opening |-> height # tip]
<1>1. /\ client' = handed
      /\ UNCHANGED <<has_remote, chain, travelling, sysvars, queue, stored, ran>>
  BY DEF GetLatestBlockhash
<1>2. OneChain' /\ RecentsInv' /\ HashesInv'
  BY <1>1, SameChain DEF stored
<1>3. MinAge(c) \in Nat
  BY ChainTypes, MinAges DEF LedgerInv
<1>4. /\ hash \in OldestHash..(tip - 1) /\ hash \in Nat /\ SeenAt(hash, MinAge(c))
      /\ height = tip => LastValidHeight(hash) = hash + 1 + MaxRecent
  BY <1>3, HandedOut DEF LedgerInv
<1>5. OldestHash \in Nat /\ tip \in Nat
  BY OldestIs, ChainTypes DEF LedgerInv
<1> HIDE DEF hash
<1>6. Handed'
  <2>1. /\ client'.commitment = c /\ client'.hash = hash /\ tip' = tip
        /\ client'.last_valid = hash + 1 + MaxRecent \/ client'.opening
    BY <1>1, <1>4 DEF chain
  <2>2. OldestHash' = OldestHash
    BY <1>1 DEF OldestHash, sysvars
  <2>3. MinAge(client.commitment)' = MinAge(c)
    BY <1>1, <2>1 DEF MinAge, SlotFor, chain
  <2>4. hash <= tip - 1
    BY <1>4, <1>5
  <2>5. SeenAt(client.hash, MinAge(client.commitment))'
    BY <1>4, <2>1, <2>2, <2>3 DEF SeenAt
  <2> QED
    BY <1>4, <2>1, <2>4, <2>5 DEF Handed
<1>7. OtherTypes'
  BY <1>1 DEF LedgerInv, OtherTypes, Doings, chain, stored
<1> QED
  BY <1>2, <1>6, <1>7 DEF LedgerInv

(* A page leaves the client with more to read, or done, and with no hash.  *)
LEMMA PageReads ==
  ASSUME NEW request, "doing" \in DOMAIN request, NEW next,
         \/ next = Page(request)
         \/ \E page : next = PageRead(request, page)
  PROVE  "doing" \in DOMAIN next /\ next.doing \in Doings \ {"signs"}
<1>1. ASSUME NEW page, next = PageRead(request, page)
      PROVE  "doing" \in DOMAIN next /\ next.doing \in Doings \ {"signs"}
  BY <1>1 DEF PageRead, Doings
<1>2. CASE next = Page(request)
  <2>1. CASE request.commitment = Nothing
    <3>1. next = TransactionPage(request)
      BY <1>2, <2>1 DEF Page
    <3> QED
      BY <1>1, <3>1 DEF TransactionPage
  <2>2. CASE request.commitment # Nothing
    <3>1. next = SignaturePage(request)
      BY <1>2, <2>2 DEF Page
    <3> DEFINE page == Window(SignatureListing(request.commitment), request.before,
                              request.until, request.limit)
               boundary == IF IsLocal(request.before) THEN Nothing ELSE request.before
    <3>2. \/ next = [request EXCEPT !.doing = "refused"]
          \/ next = PageRead(request, page)
          \/ next = [request EXCEPT !.doing = "awaits", !.local = page, !.boundary = boundary]
      BY <3>1 DEF SignaturePage
    <3> HIDE DEF page, boundary
    <3> QED
      BY <1>1, <3>2 DEF Doings
  <2> QED
    BY <2>1, <2>2
<1> QED
  BY <1>1, <1>2

(* Reading the history of an address hands out no blockhash.               *)
LEMMA ReadsKeep ==
  ASSUME LedgerInv,
         \/ GetSignaturesForAddress
         \/ GetTransactionsForAddress
         \/ NextPage
         \/ ReadRemotePage
  PROVE  LedgerInv'
<1>1. \E request :
        /\ "doing" \in DOMAIN request
        /\ client' = Page(request) \/ \E page : client' = PageRead(request, page)
  <2>1. ASSUME NEW c, NEW order, NEW limit, NEW until, FirstPage(c, order, limit, until)
        PROVE  \E request : "doing" \in DOMAIN request /\ client' = Page(request)
    BY <2>1 DEF FirstPage
  <2>2. "doing" \in DOMAIN client
    BY DEF LedgerInv, OtherTypes
  <2>3. CASE GetSignaturesForAddress
    BY <2>1, <2>3 DEF GetSignaturesForAddress
  <2>4. CASE GetTransactionsForAddress
    BY <2>1, <2>4 DEF GetTransactionsForAddress
  <2>5. CASE NextPage
    BY <2>2, <2>5 DEF NextPage
  <2>6. CASE ReadRemotePage
    BY <2>2, <2>6 DEF ReadRemotePage
  <2> QED
    BY <2>3, <2>4, <2>5, <2>6
<1>2. "doing" \in DOMAIN client' /\ client'.doing \in Doings \ {"signs"}
  BY <1>1, PageReads
<1>3. UNCHANGED <<has_remote, chain, travelling, sysvars, queue, stored, ran>>
  BY DEF GetSignaturesForAddress, GetTransactionsForAddress, FirstPage, NextPage, ReadRemotePage
<1>4. OneChain' /\ RecentsInv' /\ HashesInv'
  BY <1>3, SameChain DEF stored
<1>5. Handed'
  BY <1>2 DEF Handed
<1>6. OtherTypes'
  BY <1>2, <1>3 DEF LedgerInv, OtherTypes, chain, stored
<1> QED
  BY <1>4, <1>5, <1>6 DEF LedgerInv

-----------------------------------------------------------------------------
(* The theorem *)

(* Every step keeps the invariant.                                         *)
LEMMA InvNext == DeepRemote /\ LedgerInv /\ [LedgerNext]_ledgerVars => LedgerInv'
<1> SUFFICES ASSUME DeepRemote, LedgerInv, [LedgerNext]_ledgerVars PROVE LedgerInv'
  OBVIOUS
<1>1. CASE \E t \in Tx : ProcessTransaction(t)
  BY <1>1, ProcessKeeps
<1>2. CASE CloseSlot \/ \E slot \in open..MaxSlot : CloseBeforeTravel(slot)
  BY <1>2, ClosesKeep
<1>3. CASE TravelTo
  BY <1>3, TravelKeeps
<1>4. CASE ResetLedger
  BY <1>4, ResetKeeps
<1>5. CASE ShutdownAndRestart \/ CrashAndRestart
  BY <1>5, StopsKeep
<1>6. CASE \E c \in Commitments : GetLatestBlockhash(c)
  BY <1>6, GetsHash
<1>7. CASE \/ GetSignaturesForAddress
           \/ GetTransactionsForAddress
           \/ NextPage
           \/ ReadRemotePage
  BY <1>7, ReadsKeep
<1>8. CASE UNCHANGED ledgerVars
  <2>1. OneChain' /\ RecentsInv' /\ HashesInv' /\ Handed'
    BY <1>8, SameChain DEF ledgerVars, stored
  <2>2. OtherTypes'
    BY <1>8 DEF LedgerInv, OtherTypes, ledgerVars, chain, stored
  <2> QED
    BY <2>1, <2>2 DEF LedgerInv
<1> QED
  BY <1>1, <1>2, <1>3, <1>4, <1>5, <1>6, <1>7, <1>8 DEF LedgerNext

(* getLatestBlockhash, isBlockhashValid: the blockhashes that are handed   *)
(* out at a commitment stay visible at it and sign for as long as          *)
(* promised, and RecentBlockhashes and SlotHashes follow the chain,        *)
(* through closed slots, travels, resets, shutdowns and crashes, if the    *)
(* remote is past the slots that finalize its first block.  Else a chain   *)
(* still at its genesis when the process stops may be found again with     *)
(* the same tip and fewer blocks above the finalized one.                  *)
THEOREM BlockhashesFollow ==
  ASSUME DeepRemote
  PROVE  LedgerSpec => []BlockhashesFollowChain
<1>1. DeepRemote /\ LedgerInit => LedgerInv
  BY InvInit
<1>2. LedgerInv /\ [LedgerNext]_ledgerVars => LedgerInv'
  BY InvNext
<1>3. LedgerInv => BlockhashesFollowChain
  BY InvShows
<1> QED
  BY <1>1, <1>2, <1>3, PTL DEF LedgerSpec

-----------------------------------------------------------------------------
(* STARTUP *)

USE StartupAssumption

Queued(kind) == {i \in DOMAIN commands : commands[i].kind = kind}

(* What queued commands say is so. *)
CommandsTellTheTruth ==
  /\ \A i \in Queued("seal") : commands[i].tasks = Planned
  /\ \A i \in Queued("start") : commands[i].task \in Planned
  /\ \A i \in Queued("complete") :
       /\ commands[i].task = "runbookExecutions"
       /\ commands[i].ok => worker = "done" /\ \A r \in config.runbooks : run[r] = "ok"

BeforeClones == {"started", "planning", "sealing", "clones"}
BeforeRunbooks == BeforeClones \cup {"runbooks"}

(* The clones are fetched at most once. *)
FetchedOnce ==
  /\ cli \in BeforeClones => Queued("fetch") = {} /\ runloop # "fetching" /\ fetched = None
  /\ runloop = "fetching" \/ fetched # None => Queued("fetch") = {}
  /\ runloop = "fetching" => fetched = None
  /\ \A i, j \in Queued("fetch") : i = j

(* The thread of the runbooks is made at most once. *)
WorkerOnce == cli \in BeforeRunbooks => worker = "none"

(* A sealed plan is the project's, and what succeeded in it was done. *)
SucceededMeansDone ==
  status.plan = "sealed" =>
    /\ DOMAIN status.tasks = Planned
    /\ "remoteAccounts" \in Planned /\ status.tasks["remoteAccounts"] = "succeeded"
         => fetched = "ok"
    /\ "runbookExecutions" \in Planned /\ status.tasks["runbookExecutions"] = "succeeded"
         => worker = "done" /\ \A r \in config.runbooks : run[r] = "ok"

WorkInv == CommandsTellTheTruth /\ FetchedOnce /\ WorkerOnce /\ SucceededMeansDone

(* A shutdown that nobody asked for comes after the abort that caused it. *)
AbortQueued == \E i \in DOMAIN events : events[i].kind = "aborted"

Asked == interrupted \/ asked

AbortComesFirst ==
  EventsOpen /\ ~Asked =>
    /\ \A i \in DOMAIN events :
         events[i].kind = "shutdown" => \E j \in 1..(i - 1) : events[j].kind = "aborted"
    /\ watchdog = "terminating" \/ runloop = "stopped" \/ Queued("terminate") # {}
         => AbortQueued

(* Only a headless surfnet has a watchdog, and so an abort. *)
AbortsAreHeadless ==
  watchdog # "none" \/ AbortQueued => config.headless

ExitInv == AbortComesFirst /\ AbortsAreHeadless /\ ExitOkMeansAsked

-----------------------------------------------------------------------------
(* Sequences of one and two commands. *)
LEMMA ShortSequences ==
  ASSUME NEW S, NEW x \in S, NEW y \in S
  PROVE  /\ <<x>> \in Seq(S) /\ Len(<<x>>) = 1 /\ <<x>>[1] = x
         /\ <<x, y>> \in Seq(S) /\ Len(<<x, y>>) = 2 /\ <<x, y>>[1] = x /\ <<x, y>>[2] = y
OBVIOUS

(* What is sent comes after what is queued; a runloop that stopped hears   *)
(* nothing.                                                                *)
LEMMA CommandsSent ==
  ASSUME commands \in Seq(Commands), NEW new \in Seq(Commands), Send(new)
  PROVE  /\ commands' \in Seq(Commands)
         /\ runloop = "stopped" => commands' = commands
         /\ DOMAIN commands = 1..Len(commands) /\ Len(commands) \in Nat /\ Len(new) \in Nat
         /\ runloop # "stopped" =>
              /\ Len(commands') = Len(commands) + Len(new)
              /\ DOMAIN commands' = 1..(Len(commands) + Len(new))
              /\ \A i \in 1..Len(commands) : commands'[i] = commands[i]
              /\ \A i \in 1..Len(new) : commands'[Len(commands) + i] = new[i]
<1>1. /\ DOMAIN commands = 1..Len(commands) /\ Len(commands) \in Nat /\ Len(new) \in Nat
      /\ runloop = "stopped" => commands' = commands
      /\ runloop # "stopped" => commands' = commands \o new
  BY LenProperties DEF Send
<1>2. /\ commands \o new \in Seq(Commands)
      /\ Len(commands \o new) = Len(commands) + Len(new)
      /\ \A i \in 1..(Len(commands) + Len(new)) :
           (commands \o new)[i] = IF i <= Len(commands) THEN commands[i]
                                                       ELSE new[i - Len(commands)]
  BY ConcatProperties
<1>3. DOMAIN (commands \o new) = 1..(Len(commands) + Len(new))
  BY <1>2, LenProperties
<1>4. /\ \A i \in 1..Len(commands) : (commands \o new)[i] = commands[i]
      /\ \A i \in 1..Len(new) : (commands \o new)[Len(commands) + i] = new[i]
  <2>1. \A i \in 1..Len(new) : /\ Len(commands) + i \in 1..(Len(commands) + Len(new))
                               /\ ~(Len(commands) + i <= Len(commands))
                               /\ Len(commands) + i - Len(commands) = i
    BY <1>1
  <2>2. \A i \in 1..Len(commands) : i \in 1..(Len(commands) + Len(new)) /\ i <= Len(commands)
    BY <1>1
  <2> QED
    BY <1>2, <2>1, <2>2
<1> QED
  BY <1>1, <1>2, <1>3, <1>4

(* Taking a command leaves the ones behind it one place further to the     *)
(* front.                                                                  *)
LEMMA CommandTaken ==
  ASSUME commands \in Seq(Commands), commands # <<>>, commands' = Tail(commands)
  PROVE  /\ Head(commands) \in Commands /\ Head(commands) = commands[1]
         /\ commands' \in Seq(Commands)
         /\ DOMAIN commands = 1..Len(commands) /\ Len(commands) \in Nat \ {0}
         /\ DOMAIN commands' = 1..(Len(commands) - 1) /\ Len(commands') = Len(commands) - 1
         /\ \A i \in DOMAIN commands' : commands'[i] = commands[i + 1]
<1>1. /\ Len(commands) \in Nat \ {0}
      /\ DOMAIN commands = 1..Len(commands)
      /\ commands \in [1..Len(commands) -> Commands]
  BY EmptySeq, LenProperties
<1>2. /\ Tail(commands) \in Seq(Commands) /\ Len(Tail(commands)) = Len(commands) - 1
      /\ Head(commands) \in Commands
      /\ \A i \in 1..Len(Tail(commands)) : Tail(commands)[i] = commands[i + 1]
  BY HeadTailProperties
<1>3. DOMAIN Tail(commands) = 1..Len(Tail(commands))
  BY <1>2, LenProperties
<1>4. Head(commands) = commands[1]
  BY <1>1
<1> QED
  BY <1>1, <1>2, <1>3, <1>4

(* The fields of a command that its kind tells it has. *)
LEMMA CommandFields ==
  ASSUME NEW x \in Commands
  PROVE  /\ x.kind = "seal" => x.tasks \subseteq Tasks
         /\ x.kind = "start" => x.task \in Tasks
         /\ x.kind = "complete" => x.task \in Tasks /\ x.ok \in BOOLEAN
         /\ x.kind \in {"started", "completed"} => x.runbook \in Runbook
BY DEF Commands

(* An event that finds room keeps the channel within its capacity. *)
LEMMA EventEmitted ==
  ASSUME events \in Seq(Events), Len(events) <= EventCapacity, NEW event \in Events, Emit(event)
  PROVE  events' \in Seq(Events) /\ Len(events') <= EventCapacity
<1>1. Append(events, event) \in Seq(Events) /\ Len(Append(events, event)) = Len(events) + 1
  BY AppendProperties
<1>2. Len(events) \in Nat
  BY LenProperties
<1> QED
  BY <1>1, <1>2 DEF Emit, Room

(* Every operation on the startup status gives one. *)
LEMMA StatusOperations ==
  ASSUME NEW s \in Statuses
  PROVE  /\ \A T \in SUBSET Tasks : SealPlan(s, T) \in Statuses
         /\ FailPlanning(s) \in Statuses
         /\ \A t \in Tasks : StartTask(s, t) \in Statuses
         /\ \A t \in Tasks, ok \in BOOLEAN : CompleteTask(s, t, ok) \in Statuses
<1> DEFINE Tables == UNION {[T -> TaskStates] : T \in SUBSET Tasks}
<1>1. s.plan \in {"unsealed", "failed", "sealed"} /\ s.tasks \in Tables
  BY DEF Statuses
<1>2. \A T \in SUBSET Tasks : [t \in T |-> "pending"] \in Tables
  BY DEF TaskStates
<1>3. NoTasks \in Tables
  BY <1>2 DEF NoTasks
<1>4. \A task \in Tasks, from \in SUBSET TaskStates, to \in TaskStates :
        MoveTask(s, task, from, to) \in Statuses
  <2> TAKE task \in Tasks, from \in SUBSET TaskStates, to \in TaskStates
  <2>1. PICK T \in SUBSET Tasks : s.tasks \in [T -> TaskStates]
    BY <1>1
  <2>2. [s.tasks EXCEPT ![task] = to] \in [T -> TaskStates]
    BY <2>1
  <2>3. [s EXCEPT !.tasks[task] = to] = [plan |-> s.plan, tasks |-> [s.tasks EXCEPT ![task] = to]]
    BY DEF Statuses
  <2> QED
    BY <1>1, <2>1, <2>2, <2>3 DEF MoveTask, Statuses
<1>5. \A T \in SUBSET Tasks : SealPlan(s, T) \in Statuses
  BY <1>2 DEF SealPlan, Statuses
<1>6. FailPlanning(s) \in Statuses
  BY <1>3 DEF FailPlanning, Statuses
<1> QED
  BY <1>4, <1>5, <1>6 DEF StartTask, CompleteTask, TaskStates

-----------------------------------------------------------------------------
LEMMA TypeInit == Init => TypeOK
<1> SUFFICES ASSUME Init PROVE TypeOK
  OBVIOUS
<1>1. commands \in Seq(Commands) /\ events \in Seq(Events) /\ Len(events) <= EventCapacity
  BY EmptySeq DEF Init
<1>2. NoTasks \in [{} -> TaskStates]
  BY DEF NoTasks
<1>3. status \in Statuses
  <2>1. NoTasks \in UNION {[T -> TaskStates] : T \in SUBSET Tasks}
    BY <1>2
  <2> QED
    BY <2>1 DEF Init, Statuses
<1>4. /\ run \in [Runbook -> {"idle", "running", "ok", "failed", "panicked"}]
      /\ executions \in [Runbook -> {"absent", "open", "complete"}]
  BY DEF Init
<1>5. replay \in 0..EarlyEvents /\ profiling \in BOOLEAN
  BY DEF Init
<1> QED
  BY <1>1, <1>3, <1>4, <1>5 DEF Init, TypeOK

LEMMA TypeStep == TypeOK /\ [Next]_vars => TypeOK'
<1> SUFFICES ASSUME TypeOK, [Next]_vars PROVE TypeOK'
  OBVIOUS
<1> USE DEF main, svm, asks
<1>t. /\ commands \in Seq(Commands) /\ events \in Seq(Events) /\ Len(events) <= EventCapacity
      /\ config \in Configs /\ status \in Statuses
  BY DEF TypeOK
<1>e. \A event \in Events : Emit(event) => events' \in Seq(Events) /\ Len(events') <= EventCapacity
  BY <1>t, EventEmitted
<1>n. <<>> \in Seq(Commands) /\ <<>> \in Seq(Events) /\ Len(<<>>) <= EventCapacity
  BY EmptySeq
<1>1. CASE BeginPlanning
  BY <1>1 DEF BeginPlanning, TypeOK
<1>2. CASE PlanningFails
  <2>1. [kind |-> "failPlanning"] \in Commands
    BY DEF Commands
  <2>2. commands' \in Seq(Commands)
    BY <1>2, <1>t, <2>1, ShortSequences, CommandsSent DEF PlanningFails
  <2> QED
    BY <1>2, <2>2 DEF PlanningFails, TypeOK
<1>3. CASE SubmitPlan
  <2>1. [kind |-> "seal", tasks |-> Planned] \in Commands
    BY DEF Commands, Planned, Tasks
  <2>2. commands' \in Seq(Commands)
    BY <1>3, <1>t, <2>1, ShortSequences, CommandsSent DEF SubmitPlan
  <2> QED
    BY <1>3, <2>2 DEF SubmitPlan, TypeOK
<1>4. CASE HearSeal \/ SealUnreachable \/ Join \/ SpawnWatchdog \/ SpawnWatchdogFails
  BY <1>4 DEF HearSeal, SealUnreachable, Join, SpawnWatchdog, SpawnWatchdogFails, TypeOK
<1>5. CASE DispatchClones
  <2>1. /\ [kind |-> "start", task |-> "remoteAccounts"] \in Commands
        /\ [kind |-> "fetch"] \in Commands
    BY DEF Commands, Tasks
  <2>2. FetchCommands \in Seq(Commands)
    BY <2>1, ShortSequences DEF FetchCommands
  <2>3. commands' \in Seq(Commands)
    BY <1>5, <1>t, <1>n, <2>2, CommandsSent DEF DispatchClones
  <2> QED
    BY <1>5, <2>3 DEF DispatchClones, TypeOK
<1>6. CASE DispatchRunbooks
  <2>1. RunbooksStarted \in Commands /\ RunbooksCompleted(FALSE) \in Commands
    BY DEF Commands, Tasks, RunbooksStarted, RunbooksCompleted
  <2>2. <<RunbooksStarted>> \in Seq(Commands) /\ SpawnFailure \in Seq(Commands)
    BY <2>1, ShortSequences DEF SpawnFailure
  <2>3. <<RunbooksStarted>> \o SpawnFailure \in Seq(Commands)
    BY <2>2, ConcatProperties
  <2>4. commands' \in Seq(Commands)
    BY <1>6, <1>t, <2>2, <2>3, CommandsSent DEF DispatchRunbooks
  <2> QED
    BY <1>6, <2>4 DEF DispatchRunbooks, TypeOK
<1>7. CASE ServeEvent
  <2> DEFINE event == Head(events)
             left == Tail(events)
             command == [kind |-> event.kind, runbook |-> event.runbook]
  <2>1. event \in Events /\ left \in Seq(Events) /\ Len(left) <= EventCapacity
    BY <1>7, <1>t, HeadTailProperties, LenProperties DEF ServeEvent
  <2>2. \/ /\ event.kind \in {"started", "completed"} /\ Send(<<command>>)
           /\ events' = left /\ cli' = cli /\ exit' = exit
        \/ exit' = ExitOn(event.kind) /\ cli' = "joining" /\ events' = <<>> /\ commands' = commands
        \/ events' = left /\ commands' = commands /\ cli' = cli /\ exit' = exit
    BY <1>7 DEF ServeEvent
  <2>3. UNCHANGED <<config, seal, asks, replay, watchdog, worker, run, runloop, servers, svm>>
    BY <1>7 DEF ServeEvent
  <2> HIDE DEF event, left
  <2>4. event.kind \in {"started", "completed"} => command \in Commands
    BY <2>1 DEF Events, Commands
  <2> HIDE DEF command
  <2>5. commands' \in Seq(Commands)
    BY <1>t, <2>2, <2>4, ShortSequences, CommandsSent
  <2>6. cli' \in {cli, "joining"} /\ exit' \in {exit, "ok", "error"}
    BY <2>2 DEF ExitOn
  <2>7. events' \in Seq(Events) /\ Len(events') <= EventCapacity
    BY <1>n, <2>1, <2>2
  <2> QED
    BY <2>3, <2>5, <2>6, <2>7 DEF TypeOK
<1>8. CASE ServeInterrupt
  BY <1>8, <1>n DEF ServeInterrupt, TypeOK
<1>9. CASE Replay \/ CloseServers
  <2>1. Event("early", None) \in Events /\ Event("shutdown", None) \in Events
    BY DEF Event, Events
  <2> QED
    BY <1>9, <1>e, <2>1 DEF Replay, CloseServers, TypeOK
<1>10. CASE Watch
  <2>1. Event("aborted", None) \in Events
    BY DEF Event, Events
  <2> QED
    BY <1>10, <1>e, <2>1 DEF Watch, TypeOK
<1>11. CASE WatchdogTerminates \/ Interrupt \/ AdminExit \/ Quit
  <2>1. [kind |-> "terminate"] \in Commands
    BY DEF Commands
  <2>2. Send(<<[kind |-> "terminate"]>>)
    BY <1>11 DEF WatchdogTerminates, Interrupt, AdminExit, Quit
  <2>3. <<[kind |-> "terminate"]>> \in Seq(Commands)
    BY <2>1, ShortSequences
  <2>4. commands' \in Seq(Commands)
    BY <1>t, <2>2, <2>3, CommandsSent
  <2>5. /\ UNCHANGED <<config, seal, replay, worker, run, runloop, servers, svm>>
        /\ cli' \in {cli, "joining"} /\ exit' \in {exit, "ok"} /\ events' \in {events, <<>>}
    BY <1>11 DEF WatchdogTerminates, Interrupt, AdminExit, Quit
  <2>6. interrupted' \in BOOLEAN /\ asked' \in BOOLEAN /\ watchdog' \in {watchdog, "done"}
    BY <1>11 DEF WatchdogTerminates, Interrupt, AdminExit, Quit, TypeOK
  <2>7. events' \in Seq(Events) /\ Len(events') <= EventCapacity
    BY <1>t, <1>n, <2>5
  <2> QED
    BY <2>4, <2>5, <2>6, <2>7 DEF TypeOK
<1>12. CASE Worker
  <2>0. config.runbooks \subseteq Runbook
    BY <1>t DEF Configs
  <2>1. ASSUME NEW r \in config.runbooks, NEW result \in {"ok", "failed"},
               BeginRunbook(r) \/ EndRunbook(r, result)
        PROVE TypeOK'
    <3>1. Event("started", r) \in Events /\ Event("completed", r) \in Events
      BY <2>0 DEF Event, Events
    <3> QED
      BY <2>0, <2>1, <1>e, <3>1 DEF BeginRunbook, EndRunbook, TypeOK
  <2>2. ASSUME NEW r \in config.runbooks, NEW result \in {"ok", "failed"},
               RunbookPanics(r) \/ SkipRunbook(r, result)
        PROVE TypeOK'
    BY <2>0, <2>2 DEF RunbookPanics, SkipRunbook, TypeOK
  <2>3. CASE ReportRunbooks
    <3>1. RunbooksCompleted(\A r \in config.runbooks : run[r] = "ok") \in Commands
      BY DEF Commands, Tasks, RunbooksCompleted
    <3>2. commands' \in Seq(Commands)
      BY <2>3, <1>t, <3>1, ShortSequences, CommandsSent DEF ReportRunbooks
    <3> QED
      BY <2>3, <3>2 DEF ReportRunbooks, TypeOK
  <2> QED
    BY <1>12, <2>1, <2>2, <2>3 DEF Worker
<1>13. CASE \E result \in {"ok", "failed"} : FetchEnds(result)
  <2>1. status' \in Statuses
    BY <1>13, <1>t, StatusOperations DEF FetchEnds, Tasks
  <2> QED
    BY <1>13, <2>1 DEF FetchEnds, TypeOK
<1>14. ASSUME NEW kind, Taking(kind)
       PROVE  /\ commands' \in Seq(Commands)
              /\ kind = "seal" => Head(commands).tasks \subseteq Tasks
              /\ kind = "start" => Head(commands).task \in Tasks
              /\ kind = "complete" => Head(commands).task \in Tasks /\ Head(commands).ok \in BOOLEAN
              /\ kind \in {"started", "completed"} => Head(commands).runbook \in Runbook
  BY <1>14, <1>t, CommandTaken, CommandFields DEF Taking
<1>15. CASE TakeSeal \/ TakeFailPlanning \/ TakeStart \/ TakeComplete
  <2>1. status' \in Statuses /\ commands' \in Seq(Commands)
    BY <1>15, <1>14, <1>t, StatusOperations DEF TakeSeal, TakeFailPlanning, TakeStart, TakeComplete
  <2> QED
    BY <1>15, <2>1 DEF TakeSeal, TakeFailPlanning, TakeStart, TakeComplete, TypeOK
<1>16. CASE TakeFetch
  BY <1>16, <1>14 DEF TakeFetch, TypeOK
<1>17. CASE TakeStarted \/ TakeCompleted
  <2>1. profiling' \in BOOLEAN
    BY <1>17 DEF TakeStarted, TakeCompleted, ProfilesAgain, NoneOpen, TypeOK
  <2>2. executions' \in [Runbook -> {"absent", "open", "complete"}]
    BY <1>17, <1>14 DEF TakeStarted, TakeCompleted, Marked, TypeOK
  <2> QED
    BY <1>17, <1>14, <2>1, <2>2 DEF TakeStarted, TakeCompleted, TypeOK
<1>18. CASE TakeTerminate
  BY <1>18, <1>n DEF TakeTerminate, TypeOK
<1>19. CASE ResetNetwork
  BY <1>19 DEF ResetNetwork, TypeOK
<1>20. CASE UNCHANGED vars
  BY <1>20 DEF vars, TypeOK
<1> QED
  BY <1>1, <1>2, <1>3, <1>4, <1>5, <1>6, <1>7, <1>8, <1>9, <1>10, <1>11, <1>12, <1>13, <1>15,
     <1>16, <1>17, <1>18, <1>19, <1>20 DEF Next, Cli, Runloop

(* Every variable of the command line, the runloop and their channels      *)
(* keeps its type, and the events channel its bound.                       *)
THEOREM StartupTypeCorrect == Spec => []TypeOK
BY TypeInit, TypeStep, PTL DEF Spec

-----------------------------------------------------------------------------
(* Which commands are queued after one is sent. *)
LEMMA QueuedAfterSend ==
  ASSUME commands \in Seq(Commands), NEW x \in Commands, Send(<<x>>)
  PROVE  /\ DOMAIN commands = 1..Len(commands) /\ Len(commands) \in Nat
         /\ \A i \in DOMAIN commands : i \in DOMAIN commands' /\ commands'[i] = commands[i]
         /\ \A i \in DOMAIN commands' \ DOMAIN commands :
              runloop # "stopped" /\ i = Len(commands) + 1 /\ commands'[i] = x
         /\ runloop # "stopped" =>
              Len(commands) + 1 \in DOMAIN commands' /\ Len(commands') = Len(commands) + 1
         /\ \A k : k # x.kind => Queued(k)' = Queued(k)
         /\ \A i \in Queued(x.kind)' : i \in Queued(x.kind) \/ i = Len(commands) + 1
<1> DEFINE new == <<x>>
<1>1. new \in Seq(Commands) /\ Len(new) = 1 /\ new[1] = x /\ Send(new)
  BY ShortSequences
<1> HIDE DEF new
<1>2. /\ DOMAIN commands = 1..Len(commands) /\ Len(commands) \in Nat
      /\ runloop = "stopped" => commands' = commands
      /\ runloop # "stopped" =>
           /\ Len(commands') = Len(commands) + 1
           /\ DOMAIN commands' = 1..(Len(commands) + 1)
           /\ \A i \in 1..Len(commands) : commands'[i] = commands[i]
           /\ commands'[Len(commands) + 1] = x
  <2>1. /\ DOMAIN commands = 1..Len(commands) /\ Len(commands) \in Nat
        /\ runloop = "stopped" => commands' = commands
        /\ runloop # "stopped" =>
             /\ Len(commands') = Len(commands) + Len(new)
             /\ DOMAIN commands' = 1..(Len(commands) + Len(new))
             /\ \A i \in 1..Len(commands) : commands'[i] = commands[i]
             /\ \A i \in 1..Len(new) : commands'[Len(commands) + i] = new[i]
    BY <1>1, CommandsSent, SMTT(60)
  <2>2. 1 \in 1..Len(new)
    BY <1>1
  <2> QED
    BY <1>1, <2>1, <2>2
<1>3. /\ \A i \in DOMAIN commands : i \in DOMAIN commands' /\ commands'[i] = commands[i]
      /\ \A i \in DOMAIN commands' \ DOMAIN commands :
           runloop # "stopped" /\ i = Len(commands) + 1 /\ commands'[i] = x
      /\ runloop # "stopped" => Len(commands) + 1 \in DOMAIN commands'
  BY <1>2
<1>4. \A k : k # x.kind => Queued(k)' = Queued(k)
  BY <1>3 DEF Queued
<1>5. \A i \in Queued(x.kind)' : i \in Queued(x.kind) \/ i = Len(commands) + 1
  BY <1>3 DEF Queued
<1> QED
  BY <1>2, <1>3, <1>4, <1>5

(* The same for more than one command: of other kinds nothing changes. *)
LEMMA OthersAfterSend ==
  ASSUME commands \in Seq(Commands), NEW new \in Seq(Commands), Send(new), NEW k,
         \A i \in 1..Len(new) : new[i].kind # k
  PROVE  Queued(k)' = Queued(k) /\ \A i \in Queued(k) : commands'[i] = commands[i]
<1>1. /\ DOMAIN commands = 1..Len(commands) /\ Len(commands) \in Nat /\ Len(new) \in Nat
      /\ runloop = "stopped" => commands' = commands
      /\ runloop # "stopped" =>
           /\ DOMAIN commands' = 1..(Len(commands) + Len(new))
           /\ \A i \in 1..Len(commands) : commands'[i] = commands[i]
           /\ \A i \in 1..Len(new) : commands'[Len(commands) + i] = new[i]
  BY CommandsSent
<1>2. CASE runloop = "stopped"
  BY <1>1, <1>2 DEF Queued
<1>3. CASE runloop # "stopped"
  <2>1. \A i \in DOMAIN commands' \ DOMAIN commands : commands'[i].kind # k
    <3> TAKE i \in DOMAIN commands' \ DOMAIN commands
    <3>1. i - Len(commands) \in 1..Len(new) /\ Len(commands) + (i - Len(commands)) = i
      BY <1>1, <1>3
    <3> QED
      BY <1>1, <1>3, <3>1
  <2> QED
    BY <1>1, <1>3, <2>1 DEF Queued
<1> QED
  BY <1>2, <1>3

(* What the CLI sends to dispatch the work. *)
LEMMA DispatchedCommands ==
  /\ FetchCommands \in Seq(Commands) /\ Len(FetchCommands) = 2
  /\ FetchCommands[1] = [kind |-> "start", task |-> "remoteAccounts"]
  /\ FetchCommands[2] = [kind |-> "fetch"]
  /\ RunbooksStarted \in Commands
  /\ <<RunbooksStarted>> \o SpawnFailure \in Seq(Commands)
  /\ Len(<<RunbooksStarted>> \o SpawnFailure) = 2
  /\ (<<RunbooksStarted>> \o SpawnFailure)[1] = RunbooksStarted
  /\ (<<RunbooksStarted>> \o SpawnFailure)[2] = RunbooksCompleted(FALSE)
<1>1. /\ [kind |-> "start", task |-> "remoteAccounts"] \in Commands
      /\ [kind |-> "fetch"] \in Commands
      /\ RunbooksStarted \in Commands /\ RunbooksCompleted(FALSE) \in Commands
  BY DEF Commands, Tasks, RunbooksStarted, RunbooksCompleted
<1>2. /\ FetchCommands \in Seq(Commands) /\ Len(FetchCommands) = 2
      /\ FetchCommands[1] = [kind |-> "start", task |-> "remoteAccounts"]
      /\ FetchCommands[2] = [kind |-> "fetch"]
  BY <1>1, ShortSequences DEF FetchCommands
<1>3. /\ <<RunbooksStarted>> \in Seq(Commands) /\ SpawnFailure \in Seq(Commands)
      /\ Len(<<RunbooksStarted>>) = 1 /\ Len(SpawnFailure) = 1
      /\ <<RunbooksStarted>>[1] = RunbooksStarted /\ SpawnFailure[1] = RunbooksCompleted(FALSE)
  BY <1>1, ShortSequences DEF SpawnFailure
<1>4. \A s, t \in Seq(Commands) : Len(s) = 1 /\ Len(t) = 1 =>
        /\ s \o t \in Seq(Commands) /\ Len(s \o t) = 2
        /\ (s \o t)[1] = s[1] /\ (s \o t)[2] = t[1]
  <2> TAKE s, t \in Seq(Commands)
  <2> HAVE Len(s) = 1 /\ Len(t) = 1
  <2>1. /\ s \o t \in Seq(Commands)
        /\ Len(s \o t) = Len(s) + Len(t)
        /\ \A i \in 1..(Len(s) + Len(t)) : (s \o t)[i] = IF i <= Len(s) THEN s[i] ELSE t[i - Len(s)]
    BY ConcatProperties
  <2> QED
    BY <2>1
<1> QED
  BY <1>1, <1>2, <1>3, <1>4

(* Every command queued after a send was queued before, or was sent.       *)
LEMMA QueuedOrSent ==
  ASSUME commands \in Seq(Commands), NEW new \in Seq(Commands), Send(new)
  PROVE  /\ DOMAIN commands = 1..Len(commands) /\ Len(commands) \in Nat
         /\ DOMAIN commands' \subseteq Nat
         /\ \A i \in DOMAIN commands : i \in DOMAIN commands' /\ commands'[i] = commands[i]
         /\ \A i \in DOMAIN commands' \ DOMAIN commands :
              \E j \in 1..Len(new) : i = Len(commands) + j /\ commands'[i] = new[j]
<1>1. /\ DOMAIN commands = 1..Len(commands) /\ Len(commands) \in Nat /\ Len(new) \in Nat
      /\ runloop = "stopped" => commands' = commands
      /\ runloop # "stopped" =>
           /\ DOMAIN commands' = 1..(Len(commands) + Len(new))
           /\ \A i \in 1..Len(commands) : commands'[i] = commands[i]
           /\ \A i \in 1..Len(new) : commands'[Len(commands) + i] = new[i]
  BY CommandsSent
<1>2. CASE runloop = "stopped"
  BY <1>1, <1>2
<1>3. CASE runloop # "stopped"
  <2>1. \A i \in DOMAIN commands' \ DOMAIN commands :
          \E j \in 1..Len(new) : i = Len(commands) + j /\ commands'[i] = new[j]
    <3> TAKE i \in DOMAIN commands' \ DOMAIN commands
    <3>1. i - Len(commands) \in 1..Len(new) /\ i = Len(commands) + (i - Len(commands))
      BY <1>1, <1>3
    <3> QED
      BY <1>1, <1>3, <3>1
  <2> QED
    BY <1>1, <1>3, <2>1
<1> QED
  BY <1>2, <1>3

(* And after the first one is taken. *)
LEMMA QueuedAfterTake ==
  ASSUME commands \in Seq(Commands), commands # <<>>, commands' = Tail(commands)
  PROVE  /\ 1 \in DOMAIN commands /\ Head(commands) = commands[1] /\ Head(commands) \in Commands
         /\ DOMAIN commands \subseteq Nat \ {0}
         /\ Len(commands) \in Nat /\ Len(commands') = Len(commands) - 1
         /\ \A i \in DOMAIN commands' : /\ i \in Nat \ {0} /\ i + 1 \in DOMAIN commands
                                       /\ commands'[i] = commands[i + 1]
         /\ \A k : \A i \in Queued(k)' : i + 1 \in Queued(k)
         /\ \A k : \A i \in Queued(k) : i # 1 => i - 1 \in Queued(k)' /\ commands'[i - 1] = commands[i]
<1>1. /\ Head(commands) \in Commands /\ Head(commands) = commands[1]
      /\ DOMAIN commands = 1..Len(commands) /\ Len(commands) \in Nat \ {0}
      /\ DOMAIN commands' = 1..(Len(commands) - 1) /\ Len(commands') = Len(commands) - 1
      /\ \A i \in DOMAIN commands' : commands'[i] = commands[i + 1]
  BY CommandTaken
<1>2. /\ 1 \in DOMAIN commands /\ DOMAIN commands \subseteq Nat \ {0}
      /\ \A i \in DOMAIN commands' : i \in Nat \ {0} /\ i + 1 \in DOMAIN commands
      /\ \A i \in DOMAIN commands : i # 1 => i - 1 \in DOMAIN commands' /\ i - 1 + 1 = i
  BY <1>1
<1>3. \A k : \A i \in Queued(k)' : i + 1 \in Queued(k)
  BY <1>1, <1>2 DEF Queued
<1>4. \A k : \A i \in Queued(k) : i # 1 => i - 1 \in Queued(k)' /\ commands'[i - 1] = commands[i]
  BY <1>1, <1>2 DEF Queued
<1> QED
  BY <1>1, <1>2, <1>3, <1>4

-----------------------------------------------------------------------------
(* Only a few steps touch the startup status, and none once it is over.    *)
LEMMA OverIsFinalStep == TypeOK /\ [Next]_vars /\ Over(status) => status' = status
<1> SUFFICES ASSUME TypeOK, [Next]_vars, Over(status) PROVE status' = status
  OBVIOUS
<1>1. status.plan # "unsealed"
  BY DEF Over, Phase
<1>2. /\ \A T : SealPlan(status, T) = status
      /\ FailPlanning(status) = status
      /\ \A t : StartTask(status, t) = status
      /\ \A t, ok : CompleteTask(status, t, ok) = status
  BY <1>1 DEF SealPlan, FailPlanning, StartTask, CompleteTask, MoveTask
<1>3. CASE Runloop
  BY <1>2, <1>3 DEF Runloop, TakeSeal, TakeFailPlanning, TakeStart, TakeComplete, TakeFetch,
                    FetchEnds, TakeStarted, TakeCompleted, TakeTerminate, svm
<1>4. CASE Cli
  BY <1>4 DEF Cli, BeginPlanning, PlanningFails, SubmitPlan, HearSeal, SealUnreachable,
              DispatchClones, DispatchRunbooks, SpawnWatchdog, SpawnWatchdogFails, ServeEvent,
              ServeInterrupt, Join, svm
<1>5. CASE Worker
  BY <1>5 DEF Worker, BeginRunbook, RunbookPanics, EndRunbook, SkipRunbook, ReportRunbooks, svm
<1>6. CASE Replay \/ Watch \/ WatchdogTerminates \/ CloseServers \/ Interrupt \/ AdminExit
           \/ Quit \/ ResetNetwork
  BY <1>6 DEF Replay, Watch, WatchdogTerminates, CloseServers, Interrupt, AdminExit, Quit,
              ResetNetwork, svm
<1>7. CASE UNCHANGED vars
  BY <1>7 DEF vars, svm
<1> QED
  BY <1>3, <1>4, <1>5, <1>6, <1>7 DEF Next

(* A startup that is over stays as it is: what the watchdog saw, and what  *)
(* a polling client was told, is final.                                    *)
THEOREM StartupIsFinal == Spec => OverIsFinal
<1>1. TypeOK /\ [Next]_vars => [Over(status) => status' = status]_vars
  BY OverIsFinalStep
<1> QED
  BY <1>1, StartupTypeCorrect, PTL DEF Spec, OverIsFinal

-----------------------------------------------------------------------------
(* What is emitted goes behind the events there are. *)
LEMMA EventsAfterEmit ==
  ASSUME events \in Seq(Events), NEW e \in Events, Emit(e), EventsOpen
  PROVE  /\ DOMAIN events = 1..Len(events) /\ Len(events) \in Nat
         /\ DOMAIN events' = 1..(Len(events) + 1)
         /\ \A i \in DOMAIN events : events'[i] = events[i]
         /\ events'[Len(events) + 1] = e
<1>1. events' = Append(events, e)
  BY DEF Emit
<1> QED
  BY <1>1, LenProperties, AppendProperties

LEMMA AbortInit == Init => ExitInv
<1> SUFFICES ASSUME Init PROVE ExitInv
  OBVIOUS
<1>1. DOMAIN events = {} /\ DOMAIN commands = {}
  BY DEF Init
<1> QED
  BY <1>1 DEF Init, ExitInv, AbortComesFirst, AbortsAreHeadless, AbortQueued,
              ExitOkMeansAsked, Queued

LEMMA HeadlessStep == TypeOK /\ AbortsAreHeadless /\ [Next]_vars => AbortsAreHeadless'
<1> SUFFICES ASSUME TypeOK, AbortsAreHeadless, [Next]_vars PROVE AbortsAreHeadless'
  OBVIOUS
<1> USE DEF main, svm, asks
<1>t. events \in Seq(Events)
  BY DEF TypeOK
<1>same. ASSUME config' = config, watchdog' # "none" => config.headless, events' = events
         PROVE  AbortsAreHeadless'
  BY <1>same DEF AbortsAreHeadless, AbortQueued
<1>none. ASSUME config' = config, watchdog' # "none" => config.headless, events' = <<>>
         PROVE  AbortsAreHeadless'
  <2>1. DOMAIN events' = {}
    BY <1>none
  <2> QED
    BY <1>none, <2>1 DEF AbortsAreHeadless, AbortQueued
<1>emit. ASSUME config' = config, watchdog' # "none" => config.headless,
                NEW e \in Events, Emit(e), e.kind = "aborted" => config.headless
         PROVE  AbortsAreHeadless'
  <2>1. CASE EventsOpen
    <3>1. /\ DOMAIN events = 1..Len(events) /\ Len(events) \in Nat
          /\ DOMAIN events' = 1..(Len(events) + 1)
          /\ \A i \in DOMAIN events : events'[i] = events[i]
          /\ events'[Len(events) + 1] = e
      BY <1>emit, <1>t, <2>1, EventsAfterEmit
    <3> QED
      BY <1>emit, <3>1 DEF AbortsAreHeadless, AbortQueued
  <2>2. CASE ~EventsOpen
    BY <1>emit, <1>same, <2>2 DEF Emit
  <2> QED
    BY <2>1, <2>2
<1>1. CASE Cli
  <2>1. CASE SpawnWatchdog
    BY <1>same, <2>1 DEF SpawnWatchdog
  <2>2. CASE ServeEvent
    <3>0. config' = config /\ (watchdog' # "none" => config.headless) /\ events # <<>>
      BY <2>2 DEF ServeEvent, AbortsAreHeadless
    <3>1. CASE events' = <<>>
      BY <1>none, <3>0, <3>1
    <3>2. CASE events' = Tail(events)
      <4>1. /\ DOMAIN events = 1..Len(events) /\ Len(events) \in Nat \ {0}
            /\ DOMAIN events' = 1..(Len(events) - 1)
            /\ \A i \in DOMAIN events' : events'[i] = events[i + 1]
        BY <1>t, <3>0, <3>2, HeadTailProperties, LenProperties, EmptySeq
      <4>2. AbortQueued' => AbortQueued
        BY <4>1 DEF AbortQueued
      <4> QED
        BY <3>0, <4>2 DEF AbortsAreHeadless
    <3> QED
      BY <2>2, <3>1, <3>2 DEF ServeEvent
  <2>3. CASE ServeInterrupt
    BY <1>none, <2>3 DEF ServeInterrupt, AbortsAreHeadless
  <2>4. CASE ~SpawnWatchdog /\ ~ServeEvent /\ ~ServeInterrupt
    <3>1. config' = config /\ events' = events /\ watchdog' = watchdog
      BY <1>1, <2>4 DEF Cli, BeginPlanning, PlanningFails, SubmitPlan, HearSeal, SealUnreachable,
                  DispatchClones, DispatchRunbooks, SpawnWatchdogFails, Join
    <3> QED
      BY <1>same, <3>1 DEF AbortsAreHeadless
  <2> QED
    BY <2>1, <2>2, <2>3, <2>4
<1>2. CASE Worker
  <2>0. config' = config /\ watchdog' = watchdog /\ config.runbooks \subseteq Runbook
    BY <1>2 DEF Worker, BeginRunbook, RunbookPanics, EndRunbook, SkipRunbook, ReportRunbooks,
                TypeOK, Configs
  <2>1. ASSUME NEW r \in config.runbooks, NEW result \in {"ok", "failed"},
               BeginRunbook(r) \/ EndRunbook(r, result)
        PROVE AbortsAreHeadless'
    <3>1. PICK e \in Events : Emit(e) /\ e.kind \in {"started", "completed"}
      <4>1. Event("started", r) \in Events /\ Event("completed", r) \in Events
        BY <2>0 DEF Event, Events
      <4> QED
        BY <2>1, <4>1 DEF BeginRunbook, EndRunbook, Event
    <3> QED
      BY <1>emit, <2>0, <3>1 DEF AbortsAreHeadless
  <2>2. ASSUME NEW r \in config.runbooks, NEW result \in {"ok", "failed"},
               RunbookPanics(r) \/ SkipRunbook(r, result)
        PROVE AbortsAreHeadless'
    BY <1>same, <2>0, <2>2 DEF RunbookPanics, SkipRunbook, AbortsAreHeadless
  <2>3. CASE ReportRunbooks
    BY <1>same, <2>0, <2>3 DEF ReportRunbooks, AbortsAreHeadless
  <2> QED
    BY <1>2, <2>1, <2>2, <2>3 DEF Worker
<1>3. CASE Runloop
  <2>1. config' = config /\ events' = events /\ watchdog' = watchdog
    BY <1>3 DEF Runloop, TakeSeal, TakeFailPlanning, TakeStart, TakeComplete, TakeFetch,
                FetchEnds, TakeStarted, TakeCompleted, TakeTerminate
  <2> QED
    BY <1>same, <2>1 DEF AbortsAreHeadless
<1>4. CASE Replay \/ CloseServers
  <2>1. config' = config /\ watchdog' = watchdog
    BY <1>4 DEF Replay, CloseServers
  <2>2. PICK e \in Events : Emit(e) /\ e.kind \in {"early", "shutdown"}
    <3>1. Event("early", None) \in Events /\ Event("shutdown", None) \in Events
      BY DEF Event, Events
    <3> QED
      BY <1>4, <3>1 DEF Replay, CloseServers, Event
  <2> QED
    BY <1>emit, <2>1, <2>2 DEF AbortsAreHeadless
<1>5. CASE Watch
  <2>1. config' = config /\ config.headless
    BY <1>5 DEF Watch, AbortsAreHeadless
  <2>2. Event("aborted", None) \in Events
    BY DEF Event, Events
  <2> QED
    BY <1>5, <1>emit, <1>same, <2>1, <2>2 DEF Watch
<1>6. CASE WatchdogTerminates
  BY <1>6, <1>same DEF WatchdogTerminates, AbortsAreHeadless
<1>7. CASE Interrupt \/ AdminExit \/ ResetNetwork \/ UNCHANGED vars
  BY <1>7, <1>same DEF Interrupt, AdminExit, ResetNetwork, vars, AbortsAreHeadless
<1>8. CASE Quit
  BY <1>8, <1>none DEF Quit, AbortsAreHeadless
<1> QED
  BY <1>1, <1>2, <1>3, <1>4, <1>5, <1>6, <1>7, <1>8 DEF Next

LEMMA AbortStep ==
  TypeOK /\ AbortComesFirst /\ AbortsAreHeadless /\ [Next]_vars => AbortComesFirst'
<1> SUFFICES ASSUME TypeOK, AbortComesFirst, AbortsAreHeadless, [Next]_vars, EventsOpen', ~Asked'
             PROVE  /\ \A i \in DOMAIN events' : events'[i].kind = "shutdown" =>
                         \E j \in 1..(i - 1) : events'[j].kind = "aborted"
                    /\ watchdog' = "terminating" \/ runloop' = "stopped" \/ Queued("terminate")' # {}
                         => AbortQueued'
  BY DEF AbortComesFirst
<1> DEFINE Shutdowns ==
      \A i \in DOMAIN events : events[i].kind = "shutdown" =>
        \E j \in 1..(i - 1) : events[j].kind = "aborted"
<1> DEFINE Ending == watchdog = "terminating" \/ runloop = "stopped" \/ Queued("terminate") # {}
<1> SUFFICES Shutdowns' /\ (Ending' => AbortQueued')
  BY Zenon
<1> USE DEF main, svm, asks
<1>t. commands \in Seq(Commands) /\ events \in Seq(Events) /\ config \in Configs
  BY DEF TypeOK
<1>o. EventsOpen /\ ~Asked
  <2>1. CASE Cli
    BY <2>1 DEF Cli, BeginPlanning, PlanningFails, SubmitPlan, HearSeal, SealUnreachable,
                DispatchClones, DispatchRunbooks, SpawnWatchdog, SpawnWatchdogFails, ServeEvent,
                ServeInterrupt, Join, EventsOpen, Asked
  <2>2. CASE Worker
    BY <2>2 DEF Worker, BeginRunbook, RunbookPanics, EndRunbook, SkipRunbook, ReportRunbooks,
                EventsOpen, Asked
  <2>3. CASE Runloop
    BY <2>3 DEF Runloop, TakeSeal, TakeFailPlanning, TakeStart, TakeComplete, TakeFetch,
                FetchEnds, TakeStarted, TakeCompleted, TakeTerminate, EventsOpen, Asked
  <2>4. CASE Replay \/ Watch \/ WatchdogTerminates \/ CloseServers \/ Interrupt \/ AdminExit
             \/ ResetNetwork
    BY <2>4 DEF Replay, Watch, WatchdogTerminates, CloseServers, Interrupt, AdminExit,
                ResetNetwork, EventsOpen, Asked
  <2>5. CASE UNCHANGED vars
    BY <2>5 DEF vars, EventsOpen, Asked
  <2>6. CASE Quit
    BY <2>6 DEF Quit, EventsOpen
  <2> QED
    BY <2>1, <2>2, <2>3, <2>4, <2>5, <2>6 DEF Next
<1>i. Shutdowns /\ (Ending => AbortQueued)
  BY <1>o DEF AbortComesFirst
<1>same. ASSUME events' = events, watchdog' = "terminating" => watchdog = "terminating",
                runloop' = "stopped" => runloop = "stopped",
                Queued("terminate")' # {} => Queued("terminate") # {}
         PROVE  Shutdowns' /\ (Ending' => AbortQueued')
  BY <1>same, <1>i DEF AbortQueued
<1>send. ASSUME NEW x \in Commands, Send(<<x>>), x.kind # "terminate"
         PROVE  Queued("terminate")' = Queued("terminate")
  BY <1>send, <1>t, QueuedAfterSend
<1>take. ASSUME commands # <<>>, commands' = Tail(commands)
         PROVE  Queued("terminate")' # {} => Queued("terminate") # {}
  BY <1>take, <1>t, QueuedAfterTake
<1>emit. ASSUME NEW e \in Events, Emit(e), e.kind # "shutdown" \/ AbortQueued,
                Ending' => Ending \/ e.kind = "aborted"
         PROVE  Shutdowns' /\ (Ending' => AbortQueued')
  <2>1. /\ DOMAIN events = 1..Len(events) /\ Len(events) \in Nat
        /\ DOMAIN events' = 1..(Len(events) + 1)
        /\ \A i \in DOMAIN events : events'[i] = events[i]
        /\ events'[Len(events) + 1] = e
    BY <1>emit, <1>t, <1>o, EventsAfterEmit
  <2>2. AbortQueued \/ e.kind = "aborted" => AbortQueued'
    BY <2>1 DEF AbortQueued
  <2>3. ASSUME NEW i \in DOMAIN events', events'[i].kind = "shutdown"
        PROVE  \E j \in 1..(i - 1) : events'[j].kind = "aborted"
    <3>1. CASE i \in DOMAIN events
      <4>1. PICK j \in 1..(i - 1) : events[j].kind = "aborted"
        BY <1>i, <2>1, <2>3, <3>1
      <4> QED
        BY <2>1, <3>1, <4>1
    <3>2. CASE i = Len(events) + 1
      <4>1. PICK j \in DOMAIN events : events[j].kind = "aborted"
        BY <1>emit, <2>1, <2>3, <3>2 DEF AbortQueued
      <4> QED
        BY <2>1, <3>2, <4>1
    <3> QED
      BY <2>1, <3>1, <3>2
  <2> QED
    BY <1>emit, <1>i, <2>2, <2>3
<1>1. CASE Cli
  <2>1. CASE BeginPlanning \/ HearSeal \/ SealUnreachable \/ Join \/ SpawnWatchdog
             \/ SpawnWatchdogFails
    <3>1. events' = events /\ commands' = commands /\ runloop' = runloop
      BY <2>1 DEF BeginPlanning, HearSeal, SealUnreachable, Join, SpawnWatchdog, SpawnWatchdogFails
    <3>2. watchdog' = "terminating" => watchdog = "terminating"
      BY <2>1 DEF BeginPlanning, HearSeal, SealUnreachable, Join, SpawnWatchdog, SpawnWatchdogFails
    <3> QED
      BY <1>same, <3>1, <3>2 DEF Queued
  <2>2. CASE PlanningFails
    BY <2>2, <1>same, <1>send DEF PlanningFails, Commands
  <2>3. CASE SubmitPlan
    <3>1. [kind |-> "seal", tasks |-> Planned] \in Commands
      BY DEF Commands, Planned, Tasks
    <3> QED
      BY <2>3, <3>1, <1>same, <1>send DEF SubmitPlan
  <2>4. CASE DispatchClones \/ DispatchRunbooks
    <3>1. events' = events /\ runloop' = runloop /\ watchdog' = watchdog
      BY <2>4 DEF DispatchClones, DispatchRunbooks
    <3>2. \/ commands' = commands
          \/ \E new \in Seq(Commands) :
               Send(new) /\ \A i \in 1..Len(new) : new[i].kind # "terminate"
      <4>1. \A i \in 1..2 : FetchCommands[i].kind # "terminate"
        BY DispatchedCommands
      <4>2. \A i \in 1..2 : (<<RunbooksStarted>> \o SpawnFailure)[i].kind # "terminate"
        BY DispatchedCommands DEF RunbooksStarted, RunbooksCompleted
      <4>3. /\ <<RunbooksStarted>> \in Seq(Commands)
            /\ \A i \in 1..Len(<<RunbooksStarted>>) : <<RunbooksStarted>>[i].kind # "terminate"
        BY DispatchedCommands, ShortSequences DEF RunbooksStarted
      <4>4. <<>> \in Seq(Commands) /\ Len(<<>>) = 0
        BY EmptySeq
      <4>5. CASE DispatchClones
        <5>1. CASE config.clones
          <6>1. Send(FetchCommands)
            BY <4>5, <5>1 DEF DispatchClones
          <6> QED
            BY <4>1, <6>1, DispatchedCommands
        <5>2. CASE ~config.clones
          <6>1. Send(<<>>)
            BY <4>5, <5>2 DEF DispatchClones
          <6>2. \A i \in 1..Len(<<>>) : <<>>[i].kind # "terminate"
            BY <4>4
          <6> QED
            BY <4>4, <6>1, <6>2
        <5> QED
          BY <5>1, <5>2
      <4>6. CASE DispatchRunbooks
        BY <4>2, <4>3, <4>6, DispatchedCommands DEF DispatchRunbooks
      <4> QED
        BY <2>4, <4>5, <4>6
    <3>3. Queued("terminate")' = Queued("terminate")
      BY <1>t, <3>2, OthersAfterSend DEF Queued
    <3> QED
      BY <1>same, <3>1, <3>3
  <2>5. CASE ServeEvent
    <3> DEFINE event == Head(events)
               left == Tail(events)
               command == [kind |-> event.kind, runbook |-> event.runbook]
    <3>1. \/ /\ event.kind \in {"started", "completed"}
             /\ Send(<<command>>) /\ events' = left
          \/ /\ event.kind \in {"early", "aborted"} /\ ~LeavesOn(event.kind)
             /\ commands' = commands /\ events' = left
      BY <2>5 DEF ServeEvent, EventsOpen
    <3>h. event.kind = "aborted" => LeavesOn(event.kind)
      <4>1. ASSUME event.kind = "aborted" PROVE AbortQueued
        <5>1. events # <<>>
          BY <2>5 DEF ServeEvent
        <5>2. 1 \in DOMAIN events /\ event = events[1]
          BY <1>t, <5>1, HeadTailProperties, LenProperties, EmptySeq
        <5> QED
          BY <4>1, <5>2 DEF AbortQueued
      <4> QED
        BY <4>1 DEF AbortsAreHeadless, LeavesOn
    <3>k. event.kind \in {"started", "completed", "early"} /\ events' = left
      BY <3>1, <3>h
    <3>2. events # <<>> /\ runloop' = runloop /\ watchdog' = watchdog
      BY <2>5 DEF ServeEvent
    <3>3. /\ event \in Events /\ event = events[1]
          /\ DOMAIN events = 1..Len(events) /\ Len(events) \in Nat \ {0}
          /\ DOMAIN left = 1..(Len(events) - 1)
          /\ \A i \in DOMAIN left : left[i] = events[i + 1]
      BY <1>t, <3>2, HeadTailProperties, LenProperties, EmptySeq
    <3>4. event.kind \in {"started", "completed"} => command \in Commands /\ command.kind = event.kind
      BY <3>3 DEF Events, Commands
    <3> HIDE DEF event, left, command
    <3>5. Queued("terminate")' = Queued("terminate")
      BY <1>send, <3>1, <3>4 DEF Queued
    <3>6. AbortQueued => AbortQueued'
      <4> SUFFICES ASSUME NEW j \in DOMAIN events, events[j].kind = "aborted" PROVE AbortQueued'
        BY DEF AbortQueued
      <4>1. j # 1
        BY <3>k, <3>3
      <4>2. j - 1 \in DOMAIN left /\ left[j - 1] = events[j]
        BY <3>3, <4>1
      <4> QED
        BY <3>k, <4>2 DEF AbortQueued
    <3>7. Shutdowns'
      <4> SUFFICES ASSUME NEW i \in DOMAIN left, left[i].kind = "shutdown"
                   PROVE  \E j \in 1..(i - 1) : left[j].kind = "aborted"
        BY <3>k
      <4>1. PICK j \in 1..i : events[j].kind = "aborted"
        BY <1>i, <3>3
      <4>2. j # 1
        BY <3>k, <3>3, <4>1
      <4>3. j - 1 \in 1..(i - 1) /\ left[j - 1] = events[j]
        BY <3>3, <4>1, <4>2
      <4> QED
        BY <4>1, <4>3
    <3> QED
      BY <1>i, <3>2, <3>5, <3>6, <3>7
  <2>6. CASE ServeInterrupt
    BY <2>6, <1>o DEF ServeInterrupt, Asked
  <2> QED
    BY <1>1, <2>1, <2>2, <2>3, <2>4, <2>5, <2>6 DEF Cli
<1>2. CASE Worker
  <2>0. config.runbooks \subseteq Runbook
    BY <1>t DEF Configs
  <2>1. ASSUME NEW r \in config.runbooks, NEW result \in {"ok", "failed"},
               BeginRunbook(r) \/ EndRunbook(r, result)
        PROVE Shutdowns' /\ (Ending' => AbortQueued')
    <3>1. PICK e \in Events : Emit(e) /\ e.kind \in {"started", "completed"}
      <4>1. Event("started", r) \in Events /\ Event("completed", r) \in Events
        BY <2>0 DEF Event, Events
      <4> QED
        BY <2>1, <4>1 DEF BeginRunbook, EndRunbook, Event
    <3>2. Ending' <=> Ending
      BY <2>1 DEF BeginRunbook, EndRunbook, Queued
    <3> QED
      BY <1>emit, <3>1, <3>2
  <2>2. ASSUME NEW r \in config.runbooks, NEW result \in {"ok", "failed"},
               RunbookPanics(r) \/ SkipRunbook(r, result)
        PROVE Shutdowns' /\ (Ending' => AbortQueued')
    BY <2>2, <1>same DEF RunbookPanics, SkipRunbook, Queued
  <2>3. CASE ReportRunbooks
    <3>1. RunbooksCompleted(\A r \in config.runbooks : run[r] = "ok") \in Commands
      BY DEF Commands, Tasks, RunbooksCompleted
    <3>2. RunbooksCompleted(\A r \in config.runbooks : run[r] = "ok").kind # "terminate"
      BY DEF RunbooksCompleted
    <3> QED
      BY <2>3, <3>1, <3>2, <1>same, <1>send DEF ReportRunbooks
  <2> QED
    BY <1>2, <2>1, <2>2, <2>3 DEF Worker
<1>3. CASE Runloop
  <2>1. CASE TakeTerminate
    <3>1. Queued("terminate") # {}
      BY <2>1, <1>t, EmptySeq, LenProperties DEF TakeTerminate, Queued
    <3>2. AbortQueued /\ events' = events
      BY <2>1, <3>1, <1>i DEF TakeTerminate
    <3> QED
      BY <3>2, <1>i DEF AbortQueued
  <2>2. CASE \E result \in {"ok", "failed"} : FetchEnds(result)
    BY <2>2, <1>same DEF FetchEnds, Queued
  <2>3. CASE TakeSeal \/ TakeFailPlanning \/ TakeStart \/ TakeComplete \/ TakeFetch \/ TakeStarted
             \/ TakeCompleted
    <3>1. commands # <<>> /\ commands' = Tail(commands)
      BY <2>3 DEF Taking, TakeSeal, TakeFailPlanning, TakeStart, TakeComplete, TakeFetch, TakeStarted,
                  TakeCompleted
    <3>2. events' = events /\ watchdog' = watchdog /\ (runloop' = "stopped" => runloop = "stopped")
      BY <2>3 DEF TakeSeal, TakeFailPlanning, TakeStart, TakeComplete, TakeFetch, TakeStarted,
                  TakeCompleted
    <3> QED
      BY <1>same, <1>take, <3>1, <3>2
  <2> QED
    BY <1>3, <2>1, <2>2, <2>3 DEF Runloop
<1>4. CASE Replay
  <2>1. Event("early", None) \in Events /\ Event("early", None).kind = "early"
    BY DEF Event, Events
  <2>2. Ending' <=> Ending
    BY <1>4 DEF Replay, Queued
  <2> QED
    BY <1>4, <1>emit, <2>1, <2>2 DEF Replay
<1>5. CASE Watch
  <2>1. Event("aborted", None) \in Events /\ Event("aborted", None).kind = "aborted"
    BY DEF Event, Events
  <2>2. commands' = commands /\ runloop' = runloop
    BY <1>5 DEF Watch
  <2>3. CASE Phase(status) = "failed"
    BY <1>5, <1>emit, <2>1, <2>2, <2>3 DEF Watch
  <2>4. CASE Phase(status) # "failed"
    BY <1>5, <1>same, <2>2, <2>4 DEF Watch, Queued
  <2> QED
    BY <2>3, <2>4
<1>6. CASE WatchdogTerminates
  <2>1. AbortQueued /\ events' = events
    BY <1>6, <1>i DEF WatchdogTerminates
  <2> QED
    BY <2>1, <1>i DEF AbortQueued
<1>7. CASE CloseServers
  <2>1. Event("shutdown", None) \in Events
    BY DEF Event, Events
  <2>2. (Ending' <=> Ending) /\ AbortQueued
    BY <1>7, <1>i DEF CloseServers, Queued
  <2> QED
    BY <1>7, <1>emit, <2>1, <2>2 DEF CloseServers
<1>8. CASE Interrupt \/ AdminExit \/ Quit
  BY <1>8 DEF Interrupt, AdminExit, Quit, Asked
<1>9. CASE ResetNetwork \/ UNCHANGED vars
  BY <1>9, <1>same DEF ResetNetwork, vars, Queued
<1> QED
  BY <1>1, <1>2, <1>3, <1>4, <1>5, <1>6, <1>7, <1>8, <1>9 DEF Next

LEMMA ExitStep == TypeOK /\ ExitInv /\ [Next]_vars => ExitOkMeansAsked'
<1> SUFFICES ASSUME TypeOK, ExitInv, [Next]_vars, exit' = "ok" PROVE Asked'
  BY DEF ExitOkMeansAsked, Asked
<1> USE DEF main, svm, asks
<1>i. AbortComesFirst /\ (exit = "ok" => Asked)
  BY DEF ExitInv, ExitOkMeansAsked, Asked
<1>1. CASE Cli
  <2>1. Asked' = Asked
    BY <1>1 DEF Cli, BeginPlanning, PlanningFails, SubmitPlan, HearSeal, SealUnreachable,
                DispatchClones, DispatchRunbooks, SpawnWatchdog, SpawnWatchdogFails, ServeEvent,
                ServeInterrupt, Join, Asked
  <2>2. CASE ServeEvent
    <3>1. CASE exit' = exit
      BY <1>i, <2>1, <3>1
    <3>2. CASE exit' # exit
      <4>1. events # <<>> /\ Head(events).kind = "shutdown" /\ EventsOpen
        BY <2>2, <3>2 DEF ServeEvent, LeavesOn, ExitOn, EventsOpen
      <4>2. 1 \in DOMAIN events /\ Head(events) = events[1]
        BY <4>1, HeadTailProperties, LenProperties, EmptySeq DEF TypeOK
      <4>3. \A j \in 1..(1 - 1) : FALSE
        OBVIOUS
      <4> QED
        BY <1>i, <2>1, <4>1, <4>2, <4>3 DEF AbortComesFirst
    <3> QED
      BY <3>1, <3>2
  <2>3. CASE ServeInterrupt
    BY <2>1, <2>3 DEF ServeInterrupt, Asked
  <2>4. CASE ~ServeEvent /\ ~ServeInterrupt
    <3>1. exit' = exit
      BY <1>1, <2>4 DEF Cli, BeginPlanning, PlanningFails, SubmitPlan, HearSeal, SealUnreachable,
                  DispatchClones, DispatchRunbooks, SpawnWatchdog, SpawnWatchdogFails, Join
    <3> QED
      BY <1>i, <2>1, <3>1
  <2> QED
    BY <2>2, <2>3, <2>4
<1>2. CASE ~Cli /\ ~Quit
  <2>1. exit' = exit /\ (Asked => Asked')
    <3>1. CASE Worker
      BY <3>1 DEF Worker, BeginRunbook, RunbookPanics, EndRunbook, SkipRunbook, ReportRunbooks,
                  Asked
    <3>2. CASE Runloop
      BY <3>2 DEF Runloop, TakeSeal, TakeFailPlanning, TakeStart, TakeComplete, TakeFetch,
                  FetchEnds, TakeStarted, TakeCompleted, TakeTerminate, Asked
    <3>3. CASE Replay \/ Watch \/ WatchdogTerminates \/ CloseServers \/ Interrupt \/ AdminExit
               \/ ResetNetwork
      BY <3>3 DEF Replay, Watch, WatchdogTerminates, CloseServers, Interrupt, AdminExit,
                  ResetNetwork, Asked
    <3>4. CASE UNCHANGED vars
      BY <3>4 DEF vars, Asked
    <3> QED
      BY <1>2, <3>1, <3>2, <3>3, <3>4 DEF Next
  <2> QED
    BY <1>i, <2>1
<1>3. CASE Quit
  BY <1>3 DEF Quit, Asked
<1> QED
  BY <1>1, <1>2, <1>3

(* A surfnet exits without an error only if a signal, an exit call or the  *)
(* quit key asked it to: the abort of a failed startup reaches the event   *)
(* loop before the shutdown it leads to, whatever is in the channel        *)
(* between them.                                                           *)
THEOREM ExitsCleanlyOnlyIfAsked == Spec => []ExitOkMeansAsked
<1>1. ExitInv => ExitOkMeansAsked
  BY DEF ExitInv
<1>2. TypeOK /\ ExitInv /\ [Next]_vars => ExitInv'
  BY AbortStep, HeadlessStep, ExitStep DEF ExitInv
<1> QED
  BY <1>1, <1>2, AbortInit, StartupTypeCorrect, PTL DEF Spec

-----------------------------------------------------------------------------
(* A step that queues no startup command, and takes at most the first      *)
(* command, moves nothing backwards.  "shift" tells which.                 *)
Shifted(shift) ==
  /\ DOMAIN commands' \subseteq Nat
  /\ \A k \in {"seal", "failPlanning", "start", "fetch", "complete"} :
       \A i \in Queued(k)' : i + shift \in Queued(k) /\ commands'[i] = commands[i + shift]

CliGoesOn ==
  /\ cli' \in BeforeClones => cli \in BeforeClones
  /\ cli' \in BeforeRunbooks => cli \in BeforeRunbooks

LEMMA WorkKept ==
  ASSUME TypeOK, WorkInv, NEW shift \in {0, 1}, Shifted(shift), CliGoesOn,
         config' = config, fetched' = fetched, worker' = worker,
         runloop' = "fetching" => runloop = "fetching",
         worker = "done" => run' = run
  PROVE  /\ CommandsTellTheTruth' /\ FetchedOnce' /\ WorkerOnce'
         /\ status' = status => SucceededMeansDone'
<1> USE DEF WorkInv
<1>1. Planned' = Planned
  BY DEF Planned
<1>2. CommandsTellTheTruth'
  BY <1>1 DEF CommandsTellTheTruth, Shifted
<1>3. FetchedOnce'
  <2>1. \A i \in Queued("fetch")' : i + shift \in Queued("fetch")
    BY DEF Shifted
  <2>2. Queued("fetch")' \subseteq Nat
    BY DEF Shifted, Queued
  <2>3. \A i, j \in Queued("fetch")' : i = j
    <3> TAKE i, j \in Queued("fetch")'
    <3>1. i + shift = j + shift
      BY <2>1 DEF FetchedOnce
    <3> QED
      BY <2>2, <3>1
  <2>4. Queued("fetch") = {} => Queued("fetch")' = {}
    BY <2>1
  <2> QED
    BY <2>3, <2>4 DEF FetchedOnce, CliGoesOn
<1>4. WorkerOnce'
  BY DEF WorkerOnce, CliGoesOn
<1>5. status' = status => SucceededMeansDone'
  BY <1>1 DEF SucceededMeansDone
<1> QED
  BY <1>2, <1>3, <1>4, <1>5

(* Which steps these are. *)
LEMMA ShiftedAfterTake ==
  ASSUME commands \in Seq(Commands), commands # <<>>, commands' = Tail(commands)
  PROVE  Shifted(1)
BY QueuedAfterTake DEF Shifted, Queued

LEMMA ShiftedAfterSend ==
  ASSUME commands \in Seq(Commands), NEW x \in Commands, Send(<<x>>),
         x.kind \notin {"seal", "failPlanning", "start", "fetch", "complete"}
  PROVE  Shifted(0)
<1>1. commands' \in Seq(Commands)
  BY ShortSequences, CommandsSent
<1>2. DOMAIN commands' \subseteq Nat /\ DOMAIN commands \subseteq Nat
  BY <1>1, LenProperties
<1> QED
  BY <1>2, QueuedAfterSend DEF Shifted, Queued

LEMMA ShiftedUnchanged ==
  ASSUME commands \in Seq(Commands), commands' = commands
  PROVE  Shifted(0)
BY LenProperties DEF Shifted, Queued

(* The steps that neither queue a startup command nor handle one.          *)
QuietStep ==
  \/ BeginPlanning \/ HearSeal \/ SealUnreachable \/ SpawnWatchdog \/ SpawnWatchdogFails
  \/ ServeEvent \/ ServeInterrupt \/ Join
  \/ Replay \/ Watch \/ WatchdogTerminates \/ CloseServers
  \/ Interrupt \/ AdminExit \/ Quit \/ ResetNetwork
  \/ \E r \in config.runbooks :
       \/ BeginRunbook(r) \/ RunbookPanics(r)
       \/ \E result \in {"ok", "failed"} : EndRunbook(r, result) \/ SkipRunbook(r, result)
  \/ TakeStarted \/ TakeCompleted \/ TakeTerminate
  \/ UNCHANGED vars

LEMMA QuietSteps ==
  ASSUME TypeOK, QuietStep
  PROVE  /\ \E shift \in {0, 1} : Shifted(shift)
         /\ CliGoesOn
         /\ UNCHANGED <<config, status, fetched, worker>>
         /\ runloop' = "fetching" <=> runloop = "fetching"
         /\ worker # "running" => run' = run
         /\ runloop = "stopped" => runloop' = "stopped" /\ commands' = commands
         /\ runloop # "stopped" /\ runloop' = "stopped" => commands' = <<>>
         /\ seal' = seal
<1> USE DEF main, svm, asks, CliGoesOn, BeforeClones, BeforeRunbooks
<1>t. commands \in Seq(Commands) /\ events \in Seq(Events)
  BY DEF TypeOK
<1>1. ASSUME commands' = commands PROVE \E shift \in {0, 1} : Shifted(shift)
  BY <1>t, <1>1, ShiftedUnchanged
<1>2. ASSUME commands # <<>>, commands' = Tail(commands)
      PROVE  \E shift \in {0, 1} : Shifted(shift)
  BY <1>t, <1>2, ShiftedAfterTake
<1>3. ASSUME NEW x \in Commands, Send(<<x>>), x.kind \in {"terminate", "started", "completed"}
      PROVE  \E shift \in {0, 1} : Shifted(shift)
  BY <1>t, <1>3, ShiftedAfterSend
<1>4. CASE BeginPlanning \/ HearSeal \/ SealUnreachable \/ SpawnWatchdog \/ SpawnWatchdogFails
           \/ ServeInterrupt \/ Join
  BY <1>1, <1>4 DEF BeginPlanning, HearSeal, SealUnreachable, SpawnWatchdog, SpawnWatchdogFails,
                    ServeInterrupt, Join
<1>5. CASE ServeEvent
  <2> DEFINE event == Head(events)
             command == [kind |-> event.kind, runbook |-> event.runbook]
  <2>1. event \in Events
    BY <1>t, <1>5, HeadTailProperties DEF ServeEvent
  <2>2. \/ event.kind \in {"started", "completed"} /\ Send(<<command>>)
        \/ commands' = commands
    BY <1>5 DEF ServeEvent
  <2>3. /\ cli' \in {cli, "joining"}
        /\ UNCHANGED <<config, seal, status, fetched, worker, run, runloop>>
    BY <1>5 DEF ServeEvent
  <2> HIDE DEF event
  <2>4. event.kind \in {"started", "completed"} => command \in Commands /\ command.kind = event.kind
    BY <2>1 DEF Events, Commands
  <2> HIDE DEF command
  <2>5. runloop = "stopped" => commands' = commands
    BY <2>2 DEF Send
  <2> QED
    BY <1>1, <1>3, <2>2, <2>3, <2>4, <2>5
<1>6. CASE Replay \/ Watch \/ CloseServers \/ ResetNetwork
  BY <1>1, <1>6 DEF Replay, Watch, CloseServers, ResetNetwork
<1>7. CASE WatchdogTerminates \/ Interrupt \/ AdminExit \/ Quit
  <2>1. [kind |-> "terminate"] \in Commands
    BY DEF Commands
  <2>2. Send(<<[kind |-> "terminate"]>>)
    BY <1>7 DEF WatchdogTerminates, Interrupt, AdminExit, Quit
  <2>3. /\ cli' \in {cli, "joining"}
        /\ UNCHANGED <<config, seal, status, fetched, worker, run, runloop>>
    BY <1>7 DEF WatchdogTerminates, Interrupt, AdminExit, Quit
  <2>4. runloop = "stopped" => commands' = commands
    BY <2>2 DEF Send
  <2> QED
    BY <1>3, <2>1, <2>2, <2>3, <2>4
<1>8. ASSUME NEW r \in config.runbooks, NEW result,
             BeginRunbook(r) \/ RunbookPanics(r) \/ EndRunbook(r, result) \/ SkipRunbook(r, result)
      PROVE  /\ UNCHANGED <<commands, config, cli, seal, status, fetched, worker, runloop>>
             /\ worker = "running"
  BY <1>8 DEF BeginRunbook, RunbookPanics, EndRunbook, SkipRunbook
<1>9. CASE TakeStarted \/ TakeCompleted
  BY <1>2, <1>9 DEF TakeStarted, TakeCompleted, Taking
<1>10. CASE TakeTerminate
  <2>1. Shifted(0)
    BY <1>10 DEF TakeTerminate, Shifted, Queued
  <2> QED
    BY <1>10, <2>1 DEF TakeTerminate
<1>11. CASE UNCHANGED vars
  BY <1>1, <1>11 DEF vars
<1> QED
  BY <1>1, <1>4, <1>5, <1>6, <1>7, <1>8, <1>9, <1>10, <1>11 DEF QuietStep

(* The others. *)
LEMMA NextSteps ==
  ASSUME [Next]_vars
  PROVE  \/ QuietStep
         \/ PlanningFails \/ SubmitPlan \/ DispatchClones \/ DispatchRunbooks \/ ReportRunbooks
         \/ TakeSeal \/ TakeFailPlanning \/ TakeStart \/ TakeComplete
         \/ TakeFetch \/ \E result \in {"ok", "failed"} : FetchEnds(result)
BY DEF Next, Cli, Worker, Runloop, QuietStep

-----------------------------------------------------------------------------
LEMMA WorkInit == Init => WorkInv
<1> SUFFICES ASSUME Init PROVE WorkInv
  OBVIOUS
<1>1. DOMAIN commands = {}
  BY DEF Init
<1> QED
  BY <1>1 DEF Init, WorkInv, CommandsTellTheTruth, FetchedOnce, WorkerOnce, SucceededMeansDone, Queued

(* What a task becomes when the runloop starts or completes it. *)
LEMMA TaskMoved ==
  ASSUME NEW s \in Statuses, NEW task, NEW from, NEW to
  PROVE  /\ MoveTask(s, task, from, to).plan = s.plan
         /\ DOMAIN MoveTask(s, task, from, to).tasks = DOMAIN s.tasks
         /\ \A t \in DOMAIN s.tasks :
              \/ MoveTask(s, task, from, to).tasks[t] = s.tasks[t]
              \/ t = task /\ MoveTask(s, task, from, to).tasks[t] = to
<1>1. [s EXCEPT !.tasks[task] = to] = [plan |-> s.plan, tasks |-> [s.tasks EXCEPT ![task] = to]]
  BY DEF Statuses
<1> QED
  BY <1>1 DEF MoveTask

LEMMA WorkStep == TypeOK /\ WorkInv /\ [Next]_vars => WorkInv'
<1> SUFFICES ASSUME TypeOK, WorkInv, [Next]_vars PROVE WorkInv'
  OBVIOUS
<1> USE DEF main, svm, asks
<1>t. commands \in Seq(Commands) /\ status \in Statuses
  BY DEF TypeOK
<1>w. CommandsTellTheTruth /\ FetchedOnce /\ WorkerOnce /\ SucceededMeansDone
  BY DEF WorkInv
<1>b. /\ BeforeClones = {"started", "planning", "sealing", "clones"}
      /\ BeforeRunbooks = {"started", "planning", "sealing", "clones", "runbooks"}
  BY DEF BeforeClones, BeforeRunbooks
<1>1. CASE QuietStep
  <2>1. /\ CliGoesOn /\ UNCHANGED <<config, status, fetched, worker>>
        /\ runloop' = "fetching" <=> runloop = "fetching"
        /\ worker # "running" => run' = run
    BY <1>1, QuietSteps
  <2>2. PICK shift \in {0, 1} : Shifted(shift)
    BY <1>1, QuietSteps
  <2> QED
    BY <2>1, <2>2, WorkKept DEF WorkInv
<1>2. CASE PlanningFails
  <2> DEFINE x == [kind |-> "failPlanning"]
  <2>1. x \in Commands /\ x.kind = "failPlanning" /\ Send(<<x>>)
    BY <1>2 DEF PlanningFails, Commands
  <2> HIDE DEF x
  <2>2. /\ \A i \in DOMAIN commands : commands'[i] = commands[i]
        /\ \A k : k # "failPlanning" => Queued(k)' = Queued(k)
    BY <1>t, <2>1, QueuedAfterSend
  <2>3. /\ cli = "planning" /\ cli' = "dispatched"
        /\ UNCHANGED <<config, worker, run, runloop, status, fetched>>
    BY <1>2 DEF PlanningFails
  <2>4. Planned' = Planned
    BY <2>3 DEF Planned
  <2>5. CommandsTellTheTruth'
    BY <1>w, <2>2, <2>3, <2>4 DEF CommandsTellTheTruth, Queued
  <2>6. FetchedOnce' /\ WorkerOnce'
    BY <1>w, <1>b, <2>2, <2>3 DEF FetchedOnce, WorkerOnce
  <2>7. SucceededMeansDone'
    BY <1>w, <2>3, <2>4 DEF SucceededMeansDone
  <2> QED
    BY <2>5, <2>6, <2>7 DEF WorkInv
<1>3. CASE SubmitPlan
  <2> DEFINE x == [kind |-> "seal", tasks |-> Planned]
  <2>1. x \in Commands /\ x.kind = "seal" /\ x.tasks = Planned /\ Send(<<x>>)
    BY <1>3 DEF SubmitPlan, Commands, Planned, Tasks
  <2> HIDE DEF x
  <2>2. /\ \A i \in DOMAIN commands : commands'[i] = commands[i]
        /\ \A i \in DOMAIN commands' \ DOMAIN commands : commands'[i] = x
        /\ \A k : k # "seal" => Queued(k)' = Queued(k)
    BY <1>t, <2>1, QueuedAfterSend
  <2>3. /\ cli = "planning" /\ cli' = "sealing" /\ Planned' = Planned
        /\ UNCHANGED <<config, worker, run, runloop, status, fetched>>
    BY <1>3 DEF SubmitPlan, Planned
  <2>4. \A i \in Queued("seal")' : commands'[i].tasks = Planned'
    BY <1>w, <2>1, <2>2, <2>3 DEF CommandsTellTheTruth, Queued
  <2>5. CommandsTellTheTruth'
    BY <1>w, <2>2, <2>3, <2>4 DEF CommandsTellTheTruth, Queued
  <2> QED
    BY <1>w, <1>b, <2>2, <2>3, <2>5 DEF WorkInv, FetchedOnce, WorkerOnce, SucceededMeansDone
<1>4. CASE DispatchClones
  <2>1. /\ cli = "clones" /\ cli' = "runbooks" /\ Planned' = Planned
        /\ UNCHANGED <<config, worker, run, runloop, status, fetched>>
    BY <1>4 DEF DispatchClones, Planned
  <2>2. PICK new \in Seq(Commands) :
          /\ Send(new)
          /\ \/ new = <<>>
             \/ new = FetchCommands /\ config.clones
    <3>1. CASE config.clones
      BY <1>4, <3>1, DispatchedCommands DEF DispatchClones
    <3>2. CASE ~config.clones
      BY <1>4, <3>2, EmptySeq DEF DispatchClones
    <3> QED
      BY <3>1, <3>2
  <2>3. /\ DOMAIN commands = 1..Len(commands) /\ Len(commands) \in Nat
        /\ \A i \in DOMAIN commands : i \in DOMAIN commands' /\ commands'[i] = commands[i]
        /\ \A i \in DOMAIN commands' \ DOMAIN commands :
             \E j \in 1..Len(new) : i = Len(commands) + j /\ commands'[i] = new[j]
    BY <1>t, <2>2, QueuedOrSent
  <2>4. \A j \in 1..Len(new) :
          /\ new[j].kind = "start" => new[j].task = "remoteAccounts" /\ config.clones
          /\ new[j].kind \in {"start", "fetch"}
          /\ new[j].kind = "fetch" => j = 2
    <3>1. CASE new = <<>>
      BY <3>1, EmptySeq
    <3>2. CASE new = FetchCommands /\ config.clones
      BY <3>2, DispatchedCommands
    <3> QED
      BY <2>2, <3>1, <3>2
  <2>5. config.clones => "remoteAccounts" \in Planned
    BY DEF Planned, Tasks
  <2>6. CommandsTellTheTruth'
    <3>1. \A i \in DOMAIN commands' \ DOMAIN commands :
            /\ commands'[i].kind \in {"start", "fetch"}
            /\ commands'[i].kind = "start" => commands'[i].task \in Planned
      BY <2>3, <2>4, <2>5
    <3> QED
      BY <1>w, <2>1, <2>3, <3>1 DEF CommandsTellTheTruth, Queued
  <2>7. /\ Queued("fetch") = {} /\ runloop # "fetching" /\ fetched = None
        /\ \A i, j \in Queued("fetch")' : i = j
    <3>1. Queued("fetch") = {} /\ runloop # "fetching" /\ fetched = None
      BY <1>w, <1>b, <2>1 DEF FetchedOnce
    <3>2. \A i \in Queued("fetch")' : i = Len(commands) + 2
      BY <2>3, <2>4, <3>1 DEF Queued
    <3> QED
      BY <3>1, <3>2
  <2>8. FetchedOnce'
    BY <1>b, <2>1, <2>7 DEF FetchedOnce, BeforeClones
  <2> QED
    BY <1>w, <1>b, <2>1, <2>6, <2>8 DEF WorkInv, WorkerOnce, SucceededMeansDone
<1>5. CASE DispatchRunbooks
  <2>1. /\ cli = "runbooks" /\ cli' = "dispatched" /\ Planned' = Planned
        /\ UNCHANGED <<config, run, runloop, status, fetched>>
        /\ worker = "none"
    <3>1. cli = "runbooks" /\ cli' = "dispatched" /\ UNCHANGED <<config, run, runloop, status, fetched>>
      BY <1>5 DEF DispatchRunbooks
    <3>2. worker = "none"
      BY <1>w, <1>b, <3>1 DEF WorkerOnce
    <3>3. Planned' = Planned
      BY <3>1 DEF Planned
    <3> QED
      BY <3>1, <3>2, <3>3
  <2>2. \/ commands' = commands
        \/ \E new \in Seq(Commands) :
             /\ Send(new) /\ config.runbooks # {}
             /\ \A j \in 1..Len(new) : new[j] \in {RunbooksStarted, RunbooksCompleted(FALSE)}
    <3>1. CASE config.runbooks = {} /\ UNCHANGED <<commands, worker>>
      BY <3>1
    <3>2. CASE config.runbooks # {} /\ Send(<<RunbooksStarted>>)
      <4> DEFINE sent == <<RunbooksStarted>>
      <4>0. RunbooksStarted \in Commands
        BY DispatchedCommands
      <4>1. sent \in Seq(Commands) /\ Len(sent) = 1 /\ sent[1] = RunbooksStarted
        BY <4>0, ShortSequences
      <4>2. Send(sent)
        BY <3>2
      <4> HIDE DEF sent
      <4>3. \A j \in 1..Len(sent) : j = 1
        BY <4>1
      <4>4. Send(sent) /\ config.runbooks # {}
              /\ \A j \in 1..Len(sent) : sent[j] \in {RunbooksStarted, RunbooksCompleted(FALSE)}
        BY <3>2, <4>1, <4>2, <4>3
      <4> QED
        BY <4>1, <4>4, Zenon
    <3>3. CASE config.runbooks # {} /\ Send(<<RunbooksStarted>> \o SpawnFailure)
      <4> DEFINE sent == <<RunbooksStarted>> \o SpawnFailure
      <4>1. sent \in Seq(Commands) /\ Len(sent) = 2
            /\ sent[1] = RunbooksStarted /\ sent[2] = RunbooksCompleted(FALSE)
        BY DispatchedCommands
      <4>2. Send(sent)
        BY <3>3
      <4> HIDE DEF sent
      <4>3. \A j \in 1..Len(sent) : sent[j] \in {RunbooksStarted, RunbooksCompleted(FALSE)}
        <5>1. \A j \in 1..Len(sent) : j = 1 \/ j = 2
          BY <4>1
        <5> QED
          BY <4>1, <5>1
      <4>4. Send(sent) /\ config.runbooks # {}
              /\ \A j \in 1..Len(sent) : sent[j] \in {RunbooksStarted, RunbooksCompleted(FALSE)}
        BY <3>3, <4>2, <4>3
      <4> QED
        BY <4>1, <4>4, Zenon
    <3> QED
      BY <1>5, <3>1, <3>2, <3>3 DEF DispatchRunbooks
  <2>3. /\ RunbooksStarted.kind = "start" /\ RunbooksStarted.task = "runbookExecutions"
        /\ RunbooksCompleted(FALSE).kind = "complete"
        /\ RunbooksCompleted(FALSE).task = "runbookExecutions" /\ ~RunbooksCompleted(FALSE).ok
    BY DEF RunbooksStarted, RunbooksCompleted
  <2>4. config.runbooks # {} => "runbookExecutions" \in Planned
    BY DEF Planned, Tasks
  <2>5. /\ \A i \in DOMAIN commands : i \in DOMAIN commands' /\ commands'[i] = commands[i]
        /\ \A i \in DOMAIN commands' \ DOMAIN commands :
             config.runbooks # {} /\ commands'[i] \in {RunbooksStarted, RunbooksCompleted(FALSE)}
    BY <1>t, <2>2, QueuedOrSent
  <2>6. Queued("fetch")' = Queued("fetch")
    BY <2>3, <2>5 DEF Queued
  <2>7. \A i \in Queued("complete") : ~commands[i].ok
    BY <1>w, <2>1 DEF CommandsTellTheTruth
  <2>8. CommandsTellTheTruth'
    BY <1>w, <2>1, <2>3, <2>4, <2>5, <2>7 DEF CommandsTellTheTruth, Queued
  <2>9. FetchedOnce' /\ WorkerOnce'
    BY <1>w, <1>b, <2>1, <2>6 DEF FetchedOnce, WorkerOnce, BeforeClones, BeforeRunbooks
  <2>10. SucceededMeansDone'
    BY <1>w, <2>1 DEF SucceededMeansDone
  <2> QED
    BY <2>8, <2>9, <2>10 DEF WorkInv
<1>6. CASE ReportRunbooks
  <2> DEFINE allOk == \A r \in config.runbooks : run[r] = "ok"
             x == RunbooksCompleted(allOk)
  <2>1. /\ x \in Commands /\ Send(<<x>>)
        /\ x.kind = "complete" /\ x.task = "runbookExecutions" /\ (x.ok => allOk)
    BY <1>6 DEF ReportRunbooks, RunbooksCompleted, Commands, Tasks
  <2> HIDE DEF x
  <2>2. /\ \A i \in DOMAIN commands : commands'[i] = commands[i]
        /\ \A i \in DOMAIN commands' \ DOMAIN commands : commands'[i] = x
        /\ \A k : k # "complete" => Queued(k)' = Queued(k)
    BY <1>t, <2>1, QueuedAfterSend
  <2>3. /\ worker = "running" /\ worker' = "done" /\ Planned' = Planned
        /\ UNCHANGED <<config, cli, run, runloop, status, fetched>>
    BY <1>6 DEF ReportRunbooks, Planned
  <2>4. CommandsTellTheTruth'
    BY <1>w, <2>1, <2>2, <2>3 DEF CommandsTellTheTruth, Queued
  <2> QED
    BY <1>w, <2>2, <2>3, <2>4 DEF WorkInv, FetchedOnce, WorkerOnce, SucceededMeansDone
<1>7. ASSUME NEW kind, Taking(kind), UNCHANGED <<config, cli, worker, run, fetched>>,
             runloop' = runloop \/ kind = "fetch"
      PROVE  /\ CommandsTellTheTruth' /\ WorkerOnce'
             /\ kind # "fetch" => FetchedOnce'
             /\ 1 \in Queued(kind) /\ Head(commands) = commands[1]
  <2>1. commands # <<>> /\ commands' = Tail(commands)
    BY <1>7 DEF Taking
  <2>2. Shifted(1) /\ CliGoesOn
    BY <1>7, <1>t, <2>1, ShiftedAfterTake DEF CliGoesOn
  <2>3. Planned' = Planned
    BY <1>7 DEF Planned
  <2>4. CommandsTellTheTruth' /\ WorkerOnce'
    BY <1>7, <1>w, <2>2, <2>3 DEF CommandsTellTheTruth, WorkerOnce, Shifted
  <2>5. kind # "fetch" => FetchedOnce'
    BY <1>7, <2>2, WorkKept
  <2>6. 1 \in Queued(kind) /\ Head(commands) = commands[1]
    BY <1>7, <1>t, <2>1, QueuedAfterTake DEF Taking, Queued
  <2> QED
    BY <2>4, <2>5, <2>6
<1>8. CASE TakeSeal \/ TakeFailPlanning
  <2>1. CommandsTellTheTruth' /\ WorkerOnce' /\ FetchedOnce'
    BY <1>7, <1>8 DEF TakeSeal, TakeFailPlanning
  <2>2. Planned' = Planned /\ UNCHANGED <<config, worker, run, fetched>>
    BY <1>8 DEF TakeSeal, TakeFailPlanning, Planned
  <2>3. SucceededMeansDone'
    <3>1. CASE status' = status
      BY <1>w, <2>2, <3>1 DEF SucceededMeansDone
    <3>2. CASE TakeSeal /\ status' # status
      <4>1. status' = [plan |-> "sealed", tasks |-> [t \in Head(commands).tasks |-> "pending"]]
        BY <3>2 DEF TakeSeal, SealPlan
      <4>2. Head(commands).tasks = Planned
        BY <1>7, <1>w, <3>2 DEF TakeSeal, CommandsTellTheTruth
      <4> QED
        BY <2>2, <4>1, <4>2 DEF SucceededMeansDone
    <3>3. CASE TakeFailPlanning /\ status' # status
      BY <3>3 DEF TakeFailPlanning, FailPlanning, SucceededMeansDone
    <3> QED
      BY <1>8, <3>1, <3>2, <3>3
  <2> QED
    BY <2>1, <2>3 DEF WorkInv
<1>9. CASE TakeStart
  <2>1. CommandsTellTheTruth' /\ WorkerOnce' /\ FetchedOnce'
    BY <1>7, <1>9 DEF TakeStart
  <2>2. Planned' = Planned /\ UNCHANGED <<config, worker, run, fetched>>
    BY <1>9 DEF TakeStart, Planned
  <2>3. /\ status'.plan = status.plan /\ DOMAIN status'.tasks = DOMAIN status.tasks
        /\ \A t \in DOMAIN status.tasks :
             status'.tasks[t] = status.tasks[t] \/ status'.tasks[t] = "running"
    BY <1>9, <1>t, TaskMoved DEF TakeStart, StartTask
  <2>4. SucceededMeansDone'
    BY <1>w, <2>2, <2>3 DEF SucceededMeansDone
  <2> QED
    BY <2>1, <2>4 DEF WorkInv
<1>10. CASE TakeComplete
  <2> DEFINE task == Head(commands).task
             ok == Head(commands).ok
  <2>1. CommandsTellTheTruth' /\ WorkerOnce' /\ FetchedOnce'
    BY <1>7, <1>10 DEF TakeComplete
  <2>2. Planned' = Planned /\ UNCHANGED <<config, worker, run, fetched>>
    BY <1>10 DEF TakeComplete, Planned
  <2>3. /\ task = "runbookExecutions"
        /\ ok => worker = "done" /\ \A r \in config.runbooks : run[r] = "ok"
    BY <1>7, <1>10, <1>w DEF TakeComplete, CommandsTellTheTruth
  <2>4. /\ status'.plan = status.plan /\ DOMAIN status'.tasks = DOMAIN status.tasks
        /\ \A t \in DOMAIN status.tasks :
             \/ status'.tasks[t] = status.tasks[t]
             \/ t = "runbookExecutions" /\ (status'.tasks[t] = "succeeded" => ok)
    <3>1. CASE ok
      BY <1>10, <1>t, <2>3, <3>1, TaskMoved DEF TakeComplete, CompleteTask
    <3>2. CASE ~ok
      BY <1>10, <1>t, <2>3, <3>2, TaskMoved DEF TakeComplete, CompleteTask
    <3> QED
      BY <3>1, <3>2
  <2>5. SucceededMeansDone'
    BY <1>w, <2>2, <2>3, <2>4 DEF SucceededMeansDone
  <2> QED
    BY <2>1, <2>5 DEF WorkInv
<1>11. CASE TakeFetch
  <2>1. CommandsTellTheTruth' /\ WorkerOnce' /\ 1 \in Queued("fetch")
    BY <1>7, <1>11 DEF TakeFetch
  <2>2. /\ UNCHANGED <<config, cli, worker, run, fetched, status>> /\ Planned' = Planned
        /\ commands # <<>> /\ commands' = Tail(commands)
    BY <1>11 DEF TakeFetch, Taking, Planned
  <2>3. Queued("fetch")' = {}
    <3> SUFFICES ASSUME NEW i \in Queued("fetch")' PROVE FALSE
      OBVIOUS
    <3>1. i + 1 \in Queued("fetch") /\ i \in Nat \ {0}
      BY <1>t, <2>2, QueuedAfterTake DEF Queued
    <3> QED
      BY <1>w, <2>1, <3>1 DEF FetchedOnce
  <2>4. FetchedOnce'
    BY <1>w, <2>1, <2>2, <2>3 DEF FetchedOnce
  <2>5. SucceededMeansDone'
    BY <1>w, <2>2 DEF SucceededMeansDone
  <2> QED
    BY <2>1, <2>4, <2>5 DEF WorkInv
<1>12. ASSUME NEW result \in {"ok", "failed"}, FetchEnds(result) PROVE WorkInv'
  <2>1. /\ UNCHANGED <<config, cli, commands, worker, run>> /\ Planned' = Planned
        /\ runloop = "fetching" /\ runloop' = "running" /\ fetched' = result
    BY <1>12 DEF FetchEnds, Planned
  <2>2. CommandsTellTheTruth' /\ WorkerOnce'
    BY <1>w, <2>1 DEF CommandsTellTheTruth, WorkerOnce, Queued
  <2>3. FetchedOnce'
    BY <1>w, <2>1 DEF FetchedOnce, Queued
  <2>4. /\ status'.plan = status.plan /\ DOMAIN status'.tasks = DOMAIN status.tasks
        /\ \A t \in DOMAIN status.tasks :
             \/ status'.tasks[t] = status.tasks[t]
             \/ t = "remoteAccounts" /\ (status'.tasks[t] = "succeeded" => result = "ok")
    <3>1. status' = CompleteTask(status, "remoteAccounts", result = "ok")
      BY <1>12 DEF FetchEnds
    <3>2. CASE result = "ok"
      <4>1. status' = MoveTask(status, "remoteAccounts", {"running"}, "succeeded")
        BY <3>1, <3>2 DEF CompleteTask
      <4> QED
        BY <1>t, <3>2, <4>1, TaskMoved
    <3>3. CASE result # "ok"
      <4>1. status' = MoveTask(status, "remoteAccounts", {"pending", "running"}, "failed")
        BY <3>1, <3>3 DEF CompleteTask
      <4> QED
        BY <1>t, <4>1, TaskMoved
    <3> QED
      BY <3>2, <3>3
  <2>5. fetched = None /\ None # "ok"
    BY <1>w, <2>1 DEF FetchedOnce
  <2>6. SucceededMeansDone'
    BY <1>w, <2>1, <2>4, <2>5 DEF SucceededMeansDone
  <2> QED
    BY <2>2, <2>3, <2>6 DEF WorkInv
<1> QED
  BY <1>1, <1>2, <1>3, <1>4, <1>5, <1>6, <1>8, <1>9, <1>10, <1>11, <1>12, NextSteps

(* A surfnet that reports ready has fetched every clone and executed every *)
(* runbook it was started with: the phase is computed from tasks that only *)
(* reports of finished work complete.                                      *)
THEOREM ReadyIsEarned == Spec => []ReadyMeansWorkDone
<1>1. TypeOK /\ WorkInv => ReadyMeansWorkDone
  <2> SUFFICES ASSUME TypeOK, SucceededMeansDone, Phase(status) = "ready" PROVE WorkDone
    BY DEF WorkInv, ReadyMeansWorkDone
  <2>1. status.plan = "sealed"
    BY DEF Phase, TypeOK, Statuses
  <2>2. \A t \in DOMAIN status.tasks : status.tasks[t] = "succeeded"
    BY <2>1 DEF Phase, SealedPhase
  <2>3. DOMAIN status.tasks = Planned
    BY <2>1 DEF SucceededMeansDone
  <2>4. config.clones => "remoteAccounts" \in Planned
    BY DEF Planned, Tasks
  <2>5. config.runbooks # {} => "runbookExecutions" \in Planned
    BY DEF Planned, Tasks
  <2> QED
    BY <2>1, <2>2, <2>3, <2>4, <2>5 DEF SucceededMeansDone, WorkDone
<1> QED
  BY <1>1, WorkInit, WorkStep, StartupTypeCorrect, PTL DEF Spec

-----------------------------------------------------------------------------
(* The order of the startup commands *)

Plans == Queued("seal") \cup Queued("failPlanning")
Starts(task) == {i \in Queued("start") : commands[i].task = task}

(* One plan is submitted, or given up, to a status that has none yet, and  *)
(* the CLI goes on only when it was sealed.                                *)
PlanFirst ==
  /\ \A i, j \in Plans : i = j
  /\ Plans # {} => status.plan = "unsealed"
  /\ cli \in {"started", "planning"} => status.plan = "unsealed" /\ Plans = {}
  /\ seal = "sealed" \/ cli \in {"clones", "runbooks"} => status.plan = "sealed"
  /\ Queued("start") # {} \/ Queued("complete") # {} \/ Queued("fetch") # {}
       \/ runloop = "fetching" \/ worker = "running" => status.plan = "sealed"

Has(task, state) == task \in DOMAIN status.tasks /\ status.tasks[task] = state

(* When a command at some place in the queue ends a task, it was started:  *)
(* it is running, or its start is queued before that place.                *)
Begun(task, place) ==
  \/ Over(status) \/ Has(task, "running")
  \/ Has(task, "pending") /\ \E i \in Starts(task) : i < place

(* Each task is started once. *)
StartsOnce ==
  /\ \A i \in Queued("start") : Over(status) \/ Has(commands[i].task, "pending")
  /\ \A task : \A i, j \in Starts(task) : i = j
  /\ cli \in BeforeClones =>
       Queued("start") = {} /\ \A task \in DOMAIN status.tasks : status.tasks[task] = "pending"
  /\ cli \in BeforeRunbooks =>
       /\ Starts("runbookExecutions") = {} /\ Queued("complete") = {}
       /\ "runbookExecutions" \in DOMAIN status.tasks => Has("runbookExecutions", "pending")

(* And ends once, after it was started. *)
EndsAfterStart ==
  /\ \A i \in Queued("complete") : Begun("runbookExecutions", i)
  /\ \A i, j \in Queued("complete") : i = j
  /\ \A i \in Queued("fetch") : Begun("remoteAccounts", i)
  /\ runloop = "fetching" => Begun("remoteAccounts", 1)
  /\ worker = "running" => Queued("complete") = {} /\ \E place \in Nat : Begun("runbookExecutions", place)

InOrder == PlanFirst /\ StartsOnce /\ EndsAfterStart

(* A runloop that stopped takes nothing more. *)
OrderInv == runloop # "stopped" => InOrder

StartupKinds == {"seal", "failPlanning", "start", "fetch", "complete"}

(* The queue moved forward, and got no new startup command. *)
Moves(shift) ==
  /\ Shifted(shift)
  /\ \A k \in StartupKinds :
       \A i \in Queued(k) : i > shift => i - shift \in Queued(k)' /\ commands'[i - shift] = commands[i]

LEMMA Places ==
  ASSUME commands \in Seq(Commands)
  PROVE  \A k : \A i \in Queued(k) : i \in Nat \ {0} /\ i < Len(commands) + 1
BY LenProperties DEF Queued

LEMMA PlacesMove ==
  ASSUME commands \in Seq(Commands), NEW shift \in {0, 1}, Moves(shift)
  PROVE  /\ \A i \in Plans' : i + shift \in Plans
         /\ \A task : \A i \in Starts(task)' : i + shift \in Starts(task)
         /\ \A task : \A i \in Starts(task) : i > shift => i - shift \in Starts(task)'
         /\ \A k : \A i \in Queued(k)' : i \in Nat
  <1>1. \A k : \A i \in Queued(k)' : i \in Nat
    BY DEF Moves, Shifted, Queued
  <1>2. \A i \in Plans' : i + shift \in Plans
    BY DEF Plans, Moves, Shifted
  <1>3. \A task : \A i \in Starts(task)' : i + shift \in Starts(task)
    BY DEF Starts, Moves, Shifted
  <1>4. \A task : \A i \in Starts(task) : i > shift => i - shift \in Starts(task)'
    BY DEF Starts, Moves, StartupKinds
  <1> QED
    BY <1>1, <1>2, <1>3, <1>4

(* The place of an end moves with that of the start before it. *)
LEMMA BegunMoves ==
  ASSUME commands \in Seq(Commands), NEW shift \in {0, 1}, Moves(shift), status' = status,
         shift = 1 => 1 \notin Queued("start"), NEW task, NEW place \in Nat,
         Begun(task, place + shift)
  PROVE  Begun(task, place)'
<1>1. Over(status)' = Over(status) /\ \A t, x : Has(t, x)' = Has(t, x)
  BY DEF Over, Phase, SealedPhase, Has
<1>2. ASSUME NEW i \in Starts(task), i < place + shift
      PROVE  \E j \in Starts(task)' : j < place
  <2>1. i \in Queued("start") /\ i \in Nat \ {0}
    BY Places DEF Starts
  <2>2. i > shift
    BY <2>1
  <2>3. i - shift \in Starts(task)' /\ i - shift < place
    BY <1>2, <2>1, <2>2, PlacesMove
  <2> QED
    BY <2>3
<1> QED
  BY <1>1, <1>2 DEF Begun

LEMMA OrderKept ==
  ASSUME TypeOK, InOrder, NEW shift \in {0, 1}, Moves(shift),
         shift = 1 => 1 \notin Queued("start"),
         UNCHANGED <<status, seal, worker>>,
         runloop' = "fetching" => status.plan = "sealed" /\ Begun("remoteAccounts", 1),
         CliGoesOn,
         cli' \in {"started", "planning"} => cli \in {"started", "planning"},
         cli' \in {"clones", "runbooks"} => cli \in {"clones", "runbooks"} \/ seal = "sealed"
  PROVE  InOrder'
<1>t. commands \in Seq(Commands)
  BY DEF TypeOK
<1>p. /\ \A i \in Plans' : i + shift \in Plans
      /\ \A task : \A i \in Starts(task)' : i + shift \in Starts(task)
      /\ \A k : \A i \in Queued(k)' : i \in Nat
      /\ \A k \in StartupKinds :
           \A i \in Queued(k)' : i + shift \in Queued(k) /\ commands'[i] = commands[i + shift]
  BY <1>t, PlacesMove DEF Moves, Shifted, StartupKinds
<1>s. Over(status)' = Over(status) /\ \A t, x : Has(t, x)' = Has(t, x)
  BY DEF Over, Phase, SealedPhase, Has
<1>k. {"start", "complete", "fetch"} \subseteq StartupKinds
  BY DEF StartupKinds
<1>e. \A k \in StartupKinds : Queued(k) = {} => Queued(k)' = {}
  BY <1>p
<1>1. PlanFirst'
  <2>1. \A i, j \in Plans' : i = j
    <3> TAKE i, j \in Plans'
    <3>1. i + shift = j + shift
      BY <1>p DEF InOrder, PlanFirst
    <3>2. i \in Nat /\ j \in Nat
      BY <1>p DEF Plans
    <3> QED
      BY <3>1, <3>2
  <2>2. Plans = {} => Plans' = {}
    BY <1>p
  <2> QED
    BY <1>k, <1>e, <2>1, <2>2 DEF InOrder, PlanFirst
<1>2. StartsOnce'
  <2>1. \A task : \A i, j \in Starts(task)' : i = j
    <3> TAKE task
    <3> TAKE i, j \in Starts(task)'
    <3>1. i + shift = j + shift
      BY <1>p DEF InOrder, StartsOnce
    <3>2. i \in Nat /\ j \in Nat
      BY <1>p DEF Starts
    <3> QED
      BY <3>1, <3>2
  <2>2. \A i \in Queued("start")' : Over(status)' \/ Has(commands[i].task, "pending")'
    BY <1>k, <1>p, <1>s DEF InOrder, StartsOnce
  <2>3. Starts("runbookExecutions") = {} => Starts("runbookExecutions")' = {}
    BY <1>p
  <2> QED
    BY <1>k, <1>e, <1>s, <2>1, <2>2, <2>3 DEF InOrder, StartsOnce, CliGoesOn
<1>3. EndsAfterStart'
  <2>1. \A i \in Queued("complete")' : Begun("runbookExecutions", i)'
    BY <1>t, <1>k, <1>p, BegunMoves DEF InOrder, EndsAfterStart
  <2>2. \A i \in Queued("fetch")' : Begun("remoteAccounts", i)'
    BY <1>t, <1>k, <1>p, BegunMoves DEF InOrder, EndsAfterStart
  <2>3. \A i, j \in Queued("complete")' : i = j
    <3> TAKE i, j \in Queued("complete")'
    <3>1. i + shift = j + shift
      BY <1>k, <1>p DEF InOrder, EndsAfterStart
    <3>2. i \in Nat /\ j \in Nat
      BY <1>p
    <3> QED
      BY <3>1, <3>2
  <2>4. runloop' = "fetching" => Begun("remoteAccounts", 1)'
    <3>1. ASSUME Begun("remoteAccounts", 1) PROVE Begun("remoteAccounts", 1)'
      <4>1. Begun("remoteAccounts", 1 + shift)
        BY <1>t, <3>1, Places DEF Begun, Starts
      <4> QED
        BY <1>t, <4>1, BegunMoves
    <3> QED
      BY <3>1 DEF InOrder, EndsAfterStart
  <2>5. worker' = "running" =>
          Queued("complete")' = {} /\ \E place \in Nat : Begun("runbookExecutions", place)'
    <3> SUFFICES ASSUME worker = "running"
                 PROVE  /\ Queued("complete")' = {}
                        /\ \E place \in Nat : Begun("runbookExecutions", place)'
      OBVIOUS
    <3>1. PICK place \in Nat : Begun("runbookExecutions", place)
      BY DEF InOrder, EndsAfterStart
    <3>2. Begun("runbookExecutions", place + shift)
      BY <1>t, <3>1, Places DEF Begun, Starts
    <3>3. Begun("runbookExecutions", place)'
      BY <1>t, <3>2, BegunMoves
    <3>4. Queued("complete")' = {}
      BY <1>k, <1>e DEF InOrder, EndsAfterStart
    <3> QED
      BY <3>3, <3>4
  <2> QED
    BY <2>1, <2>2, <2>3, <2>4, <2>5 DEF EndsAfterStart
<1> QED
  BY <1>1, <1>2, <1>3 DEF InOrder

(* What the steps that handle no startup command do to the queue.          *)
LEMMA QuietQueue ==
  ASSUME TypeOK, QuietStep, runloop' # "stopped"
  PROVE  /\ \/ commands' = commands
            \/ \E x \in Commands : Send(<<x>>) /\ x.kind \notin StartupKinds
            \/ /\ commands # <<>> /\ commands' = Tail(commands)
               /\ Head(commands).kind \notin StartupKinds
         /\ cli' \in {"started", "planning"} => cli \in {"started", "planning"}
         /\ cli' \in {"clones", "runbooks"} => cli \in {"clones", "runbooks"} \/ seal = "sealed"
<1> USE DEF main, svm, asks
<1>1. CASE BeginPlanning \/ SealUnreachable \/ SpawnWatchdog \/ SpawnWatchdogFails
           \/ ServeInterrupt \/ Join
  BY <1>1 DEF BeginPlanning, SealUnreachable, SpawnWatchdog, SpawnWatchdogFails, ServeInterrupt, Join
<1>2. CASE HearSeal
  BY <1>2 DEF HearSeal
<1>3. CASE ServeEvent
  <2> DEFINE event == Head(events)
             command == [kind |-> event.kind, runbook |-> event.runbook]
  <2>1. event \in Events
    BY <1>3, HeadTailProperties DEF ServeEvent, TypeOK
  <2>2. \/ event.kind \in {"started", "completed"} /\ Send(<<command>>)
        \/ commands' = commands
    BY <1>3 DEF ServeEvent
  <2>3. cli' \in {cli, "joining"}
    BY <1>3 DEF ServeEvent
  <2> HIDE DEF event
  <2>4. event.kind \in {"started", "completed"} => command \in Commands /\ command.kind = event.kind
    BY <2>1 DEF Events, Commands
  <2> HIDE DEF command
  <2> QED
    BY <2>2, <2>3, <2>4 DEF StartupKinds
<1>4. CASE Replay \/ Watch \/ CloseServers \/ ResetNetwork
  BY <1>4 DEF Replay, Watch, CloseServers, ResetNetwork
<1>5. CASE WatchdogTerminates \/ Interrupt \/ AdminExit \/ Quit
  <2> DEFINE x == [kind |-> "terminate"]
  <2>1. x \in Commands /\ x.kind \notin StartupKinds
    BY DEF Commands, StartupKinds
  <2>2. Send(<<x>>) /\ cli' \in {cli, "joining"}
    BY <1>5 DEF WatchdogTerminates, Interrupt, AdminExit, Quit
  <2> QED
    BY <2>1, <2>2
<1>6. CASE \E r \in config.runbooks :
             \/ BeginRunbook(r) \/ RunbookPanics(r)
             \/ \E result \in {"ok", "failed"} : EndRunbook(r, result) \/ SkipRunbook(r, result)
  BY <1>6 DEF BeginRunbook, RunbookPanics, EndRunbook, SkipRunbook
<1>7. CASE TakeStarted \/ TakeCompleted
  <2>1. /\ commands # <<>> /\ commands' = Tail(commands) /\ cli' = cli
        /\ Head(commands).kind \in {"started", "completed"}
    BY <1>7 DEF TakeStarted, TakeCompleted, Taking
  <2> QED
    BY <2>1 DEF StartupKinds
<1>8. CASE TakeTerminate
  BY <1>8 DEF TakeTerminate
<1>9. CASE UNCHANGED vars
  BY <1>9 DEF vars
<1> QED
  BY <1>1, <1>2, <1>3, <1>4, <1>5, <1>6, <1>7, <1>8, <1>9 DEF QuietStep

LEMMA MovesAfterTake ==
  ASSUME commands \in Seq(Commands), commands # <<>>, commands' = Tail(commands)
  PROVE  Moves(1)
<1>1. Shifted(1)
  BY ShiftedAfterTake
<1>2. \A k : \A i \in Queued(k) : i # 1 => i - 1 \in Queued(k)' /\ commands'[i - 1] = commands[i]
  BY QueuedAfterTake
<1>3. \A k : \A i \in Queued(k) : i > 1 => i # 1
  OBVIOUS
<1> QED
  BY <1>1, <1>2, <1>3 DEF Moves

LEMMA MovesAfterSend ==
  ASSUME commands \in Seq(Commands), NEW x \in Commands, Send(<<x>>), x.kind \notin StartupKinds
  PROVE  Moves(0)
<1>1. Shifted(0)
  BY ShiftedAfterSend DEF StartupKinds
<1>2. \A k \in StartupKinds :
        \A i \in Queued(k) : i \in Nat /\ i \in Queued(k)' /\ commands'[i] = commands[i]
  BY QueuedAfterSend, Places DEF Queued
<1>3. \A i \in Nat : i - 0 = i
  OBVIOUS
<1> QED
  BY <1>1, <1>2, <1>3 DEF Moves

LEMMA MovesUnchanged ==
  ASSUME commands \in Seq(Commands), commands' = commands
  PROVE  Moves(0)
<1>1. Shifted(0)
  BY ShiftedUnchanged
<1>2. \A k : \A i \in Queued(k) : i - 0 = i
  BY Places
<1> QED
  BY <1>1, <1>2 DEF Moves, Queued

LEMMA QuietOrder ==
  ASSUME TypeOK, InOrder, QuietStep, runloop' # "stopped"
  PROVE  InOrder'
<1>t. commands \in Seq(Commands)
  BY DEF TypeOK
<1>1. /\ CliGoesOn /\ UNCHANGED <<status, worker, seal>>
      /\ runloop' = "fetching" => status.plan = "sealed" /\ Begun("remoteAccounts", 1)
  BY QuietSteps DEF InOrder, PlanFirst, EndsAfterStart
<1>2. /\ cli' \in {"started", "planning"} => cli \in {"started", "planning"}
      /\ cli' \in {"clones", "runbooks"} => cli \in {"clones", "runbooks"} \/ seal = "sealed"
  BY QuietQueue
<1>3. \E shift \in {0, 1} : Moves(shift) /\ (shift = 1 => 1 \notin Queued("start"))
  <2>1. CASE commands' = commands
    BY <1>t, <2>1, MovesUnchanged
  <2>2. CASE \E x \in Commands : Send(<<x>>) /\ x.kind \notin StartupKinds
    BY <1>t, <2>2, MovesAfterSend
  <2>3. CASE /\ commands # <<>> /\ commands' = Tail(commands)
             /\ Head(commands).kind \notin StartupKinds
    <3>1. Moves(1) /\ Head(commands) = commands[1]
      BY <1>t, <2>3, MovesAfterTake, QueuedAfterTake
    <3>2. 1 \notin Queued("start")
      BY <2>3, <3>1 DEF Queued, StartupKinds
    <3> QED
      BY <3>1, <3>2
  <2> QED
    BY <2>1, <2>2, <2>3, QuietQueue
<1> QED
  BY <1>1, <1>2, <1>3, OrderKept

(* What the runloop takes is in front, and what is behind moves forward.   *)
LEMMA Takes ==
  ASSUME TypeOK, NEW kind, Taking(kind)
  PROVE  /\ Moves(1) /\ 1 \in Queued(kind) /\ Head(commands) = commands[1]
         /\ commands \in Seq(Commands) /\ commands' \in Seq(Commands)
         /\ \A k : k # kind => 1 \notin Queued(k)
<1>1. commands \in Seq(Commands) /\ commands # <<>> /\ commands' = Tail(commands)
  BY DEF TypeOK, Taking
<1>2. 1 \in DOMAIN commands /\ Head(commands) = commands[1] /\ Head(commands).kind = kind
  BY <1>1, QueuedAfterTake DEF Taking
<1> QED
  BY <1>1, <1>2, MovesAfterTake, CommandTaken DEF Queued

(* A step that moves one task, after its start was taken.                  *)
LEMMA TaskChanges ==
  ASSUME TypeOK, InOrder, NEW shift \in {0, 1}, Moves(shift), NEW task,
         commands' \in Seq(Commands),
         UNCHANGED <<cli, seal, worker>>, runloop' # "fetching", cli \notin BeforeClones,
         cli \in BeforeRunbooks => task # "runbookExecutions",
         \/ Over(status) /\ status' = status
         \/ /\ ~Over(status)
            /\ status'.plan = status.plan /\ DOMAIN status'.tasks = DOMAIN status.tasks
            /\ \A t \in DOMAIN status.tasks : t # task => status'.tasks[t] = status.tasks[t]
            /\ \A i \in Starts(task) : i = shift,
         shift = 1 => \A i \in Queued("start") : i = 1 => commands[i].task = task,
         task = "runbookExecutions" =>
           \/ \A place \in Nat : Begun(task, place)'
           \/ Queued("complete")' = {} /\ worker # "running",
         task = "remoteAccounts" =>
           (\A place \in Nat : Begun(task, place)') \/ Queued("fetch")' = {}
  PROVE  InOrder'
<1>t. commands \in Seq(Commands)
  BY DEF TypeOK
<1>p. /\ \A i \in Plans' : i + shift \in Plans
      /\ \A t : \A i \in Starts(t)' : i + shift \in Starts(t)
      /\ \A t : \A i \in Starts(t) : i > shift => i - shift \in Starts(t)'
      /\ \A k : \A i \in Queued(k)' : i \in Nat /\ i # 0
      /\ \A k \in {"start", "complete", "fetch"} :
           \A i \in Queued(k)' : i + shift \in Queued(k) /\ commands'[i] = commands[i + shift]
  <2>1. DOMAIN commands' = 1..Len(commands') /\ Len(commands') \in Nat
    BY LenProperties
  <2>2. \A k : \A i \in Queued(k)' : i # 0
    BY <2>1 DEF Queued
  <2> QED
    BY <1>t, <2>2, PlacesMove DEF Moves, Shifted, StartupKinds
<1>s. /\ Over(status) => Over(status)'
      /\ ~Over(status) => \A i \in Starts(task) : i = shift
      /\ \A t, x : t # task \/ Over(status) => (Has(t, x) <=> Has(t, x)')
      /\ status'.plan = status.plan /\ DOMAIN status'.tasks = DOMAIN status.tasks
  <2>1. CASE status' = status
    BY <2>1 DEF Over, Phase, SealedPhase, Has
  <2>2. CASE status' # status
    BY <2>2 DEF Has
  <2> QED
    BY <2>1, <2>2
<1>b. ASSUME NEW t, NEW place \in Nat, Begun(t, place + shift), t # task \/ Over(status)
      PROVE  Begun(t, place)'
  <2>1. ASSUME NEW i \in Starts(t), i < place + shift, t # task
        PROVE  \E j \in Starts(t)' : j < place
    <3>1. i \in Queued("start") /\ i \in Nat \ {0} /\ commands[i].task = t
      BY <1>t, Places DEF Starts
    <3>2. i > shift
      BY <2>1, <3>1
    <3>3. i - shift \in Starts(t)' /\ i - shift < place
      BY <2>1, <3>1, <3>2, <1>p
    <3> QED
      BY <3>3
  <2> QED
    BY <1>b, <1>s, <2>1 DEF Begun
<1>1. PlanFirst'
  <2>1. \A i, j \in Plans' : i = j
    <3> TAKE i, j \in Plans'
    <3>1. i + shift = j + shift
      BY <1>p DEF InOrder, PlanFirst
    <3>2. i \in Nat /\ j \in Nat
      BY <1>p DEF Plans
    <3> QED
      BY <3>1, <3>2
  <2>2. /\ Plans = {} => Plans' = {}
        /\ \A k \in {"start", "complete", "fetch"} : Queued(k) = {} => Queued(k)' = {}
    BY <1>p
  <2> QED
    BY <1>s, <2>1, <2>2 DEF InOrder, PlanFirst, BeforeClones
<1>2. StartsOnce'
  <2>1. \A t : \A i, j \in Starts(t)' : i = j
    <3> TAKE t
    <3> TAKE i, j \in Starts(t)'
    <3>1. i + shift = j + shift
      BY <1>p DEF InOrder, StartsOnce
    <3>2. i \in Nat /\ j \in Nat
      BY <1>p DEF Starts
    <3> QED
      BY <3>1, <3>2
  <2>2. ASSUME NEW i \in Queued("start")', ~Over(status) PROVE Has(commands[i].task, "pending")'
    <3>1. i + shift \in Queued("start") /\ commands'[i] = commands[i + shift] /\ i \in Nat /\ i # 0
      BY <1>p
    <3>2. commands[i + shift].task # task
      <4>1. i + shift # shift
        BY <3>1
      <4> QED
        BY <1>s, <2>2, <3>1, <4>1 DEF Starts
    <3>3. Has(commands[i + shift].task, "pending")
      BY <2>2, <3>1 DEF InOrder, StartsOnce
    <3> QED
      BY <1>s, <3>1, <3>2, <3>3
  <2>3. cli \in BeforeRunbooks =>
          /\ Starts("runbookExecutions")' = {} /\ Queued("complete")' = {}
          /\ "runbookExecutions" \in DOMAIN status'.tasks => Has("runbookExecutions", "pending")'
    BY <1>p, <1>s DEF InOrder, StartsOnce
  <2> QED
    BY <1>s, <2>1, <2>2, <2>3 DEF StartsOnce
<1>3. EndsAfterStart'
  <2>1. ASSUME NEW i \in Queued("complete")' PROVE Begun("runbookExecutions", i)'
    <3>1. i + shift \in Queued("complete") /\ i \in Nat
      BY <1>p
    <3>2. Begun("runbookExecutions", i + shift)
      BY <3>1 DEF InOrder, EndsAfterStart
    <3> QED
      BY <1>b, <2>1, <3>1, <3>2
  <2>2. ASSUME NEW i \in Queued("fetch")' PROVE Begun("remoteAccounts", i)'
    <3>1. i + shift \in Queued("fetch") /\ i \in Nat
      BY <1>p
    <3>2. Begun("remoteAccounts", i + shift)
      BY <3>1 DEF InOrder, EndsAfterStart
    <3> QED
      BY <1>b, <2>2, <3>1, <3>2
  <2>3. \A i, j \in Queued("complete")' : i = j
    <3> TAKE i, j \in Queued("complete")'
    <3>1. i + shift = j + shift
      BY <1>p DEF InOrder, EndsAfterStart
    <3>2. i \in Nat /\ j \in Nat
      BY <1>p
    <3> QED
      BY <3>1, <3>2
  <2>4. worker' = "running" =>
          Queued("complete")' = {} /\ \E place \in Nat : Begun("runbookExecutions", place)'
    <3> SUFFICES ASSUME worker = "running"
                 PROVE  /\ Queued("complete")' = {}
                        /\ \E place \in Nat : Begun("runbookExecutions", place)'
      OBVIOUS
    <3>1. PICK place \in Nat : Begun("runbookExecutions", place)
      BY DEF InOrder, EndsAfterStart
    <3>2. Begun("runbookExecutions", place + shift)
      BY <1>t, <3>1, Places DEF Begun, Starts
    <3>3. Begun("runbookExecutions", place)'
      BY <1>b, <3>2
    <3>4. Queued("complete")' = {}
      BY <1>p DEF InOrder, EndsAfterStart
    <3> QED
      BY <3>3, <3>4
  <2> QED
    BY <2>1, <2>2, <2>3, <2>4 DEF EndsAfterStart
<1> QED
  BY <1>1, <1>2, <1>3 DEF InOrder

(* A task moves if it is where the step expects it and startup is not over. *)
LEMMA TaskMoves ==
  ASSUME TypeOK, NEW task, NEW from, NEW to, status' = MoveTask(status, task, from, to)
  PROVE  /\ status'.plan = status.plan /\ DOMAIN status'.tasks = DOMAIN status.tasks
         /\ \A t \in DOMAIN status.tasks : t # task => status'.tasks[t] = status.tasks[t]
         /\ Over(status) => status' = status
         /\ \A x \in from : ~Over(status) /\ status.plan = "sealed" /\ Has(task, x) =>
              status'.tasks[task] = to
<1>1. status \in Statuses
  BY DEF TypeOK
<1>2. /\ status'.plan = status.plan /\ DOMAIN status'.tasks = DOMAIN status.tasks
      /\ \A t \in DOMAIN status.tasks : t # task => status'.tasks[t] = status.tasks[t]
  BY <1>1, TaskMoved
<1>3. Over(status) => status' = status
  BY DEF MoveTask
<1>4. ASSUME NEW x \in from, ~Over(status), status.plan = "sealed", Has(task, x)
      PROVE  status'.tasks[task] = to
  <2>1. status' = [status EXCEPT !.tasks[task] = to]
    BY <1>4 DEF MoveTask, Has
  <2>2. status' = [plan |-> status.plan, tasks |-> [status.tasks EXCEPT ![task] = to]]
    BY <1>1, <2>1 DEF Statuses
  <2> QED
    BY <1>4, <2>2 DEF Has
<1> QED
  BY <1>2, <1>3, <1>4

LEMMA StartOrder ==
  ASSUME TypeOK, InOrder, TakeStart
  PROVE  InOrder' /\ (status' # status \/ Over(status))
<1> USE DEF main
<1>0. PICK task : task = commands[1].task
  OBVIOUS
<1>1. /\ Moves(1) /\ 1 \in Queued("start") /\ status' = StartTask(status, task)
      /\ commands \in Seq(Commands) /\ commands' \in Seq(Commands)
      /\ UNCHANGED <<cli, seal, worker, runloop>> /\ runloop = "running"
  BY <1>0, Takes DEF TakeStart, Taking
<1>2. /\ status.plan = "sealed" /\ (Over(status) \/ Has(task, "pending"))
      /\ 1 \in Starts(task) /\ \A i \in Starts(task) : i = 1
      /\ cli \notin BeforeClones
      /\ cli \in BeforeRunbooks => task # "runbookExecutions"
  <2>1. 1 \in Starts(task)
    BY <1>0, <1>1 DEF Starts
  <2> QED
    BY <1>0, <1>1, <2>1 DEF InOrder, PlanFirst, StartsOnce
<1>3. /\ status'.plan = status.plan /\ DOMAIN status'.tasks = DOMAIN status.tasks
      /\ \A t \in DOMAIN status.tasks : t # task => status'.tasks[t] = status.tasks[t]
      /\ Over(status) => status' = status
      /\ ~Over(status) => status'.tasks[task] = "running"
  <2>1. \A x \in {"pending"} : ~Over(status) /\ status.plan = "sealed" /\ Has(task, x) =>
          status'.tasks[task] = "running"
    BY <1>1, TaskMoves DEF StartTask
  <2> QED
    BY <1>1, <1>2, <2>1, TaskMoves DEF StartTask
<1>4. \A place \in Nat : Begun(task, place)'
  <2>1. CASE Over(status)
    <3>1. status' = status
      BY <1>3, <2>1
    <3>2. Over(status)'
      BY <2>1, <3>1 DEF Over, Phase, SealedPhase
    <3> QED
      BY <3>2 DEF Begun
  <2>2. CASE ~Over(status)
    <3>1. Has(task, "running")'
      BY <1>2, <1>3, <2>2 DEF Has
    <3> QED
      BY <3>1 DEF Begun
  <2> QED
    BY <2>1, <2>2
<1>5. \A i \in Queued("start") : i = 1 => commands[i].task = task
  BY <1>0
<1>6. InOrder'
  <2>1. \/ Over(status) /\ status' = status
        \/ /\ ~Over(status)
           /\ status'.plan = status.plan /\ DOMAIN status'.tasks = DOMAIN status.tasks
           /\ \A t \in DOMAIN status.tasks : t # task => status'.tasks[t] = status.tasks[t]
           /\ \A i \in Starts(task) : i = 1
    BY <1>2, <1>3
  <2>2. runloop' # "fetching"
    BY <1>1
  <2> QED
    BY <1>1, <1>2, <1>4, <1>5, <2>1, <2>2, TaskChanges
<1>7. status' # status \/ Over(status)
  BY <1>2, <1>3 DEF Has
<1> QED
  BY <1>6, <1>7

LEMMA CompleteOrder ==
  ASSUME TypeOK, WorkInv, InOrder, TakeComplete
  PROVE  InOrder' /\ (status' # status \/ Over(status))
<1> USE DEF main
<1> DEFINE task == "runbookExecutions"
<1>1. /\ Moves(1) /\ 1 \in Queued("complete") /\ 1 \notin Queued("start")
      /\ commands \in Seq(Commands) /\ commands' \in Seq(Commands)
      /\ status' = CompleteTask(status, task, commands[1].ok)
      /\ UNCHANGED <<cli, seal, worker, runloop>> /\ runloop = "running"
  BY Takes DEF TakeComplete, Taking, WorkInv, CommandsTellTheTruth
<1>2. /\ status.plan = "sealed" /\ (Over(status) \/ Has(task, "running"))
      /\ cli \notin BeforeRunbooks /\ worker # "running"
      /\ \A i \in Queued("complete") : i = 1
      /\ ~Over(status) => Starts(task) = {}
  <2>1. Begun(task, 1)
    BY <1>1 DEF InOrder, EndsAfterStart
  <2>2. \A i \in Starts(task) : ~(i < 1)
    BY <1>1, Places DEF Starts
  <2>3. Over(status) \/ Has(task, "running")
    BY <2>1, <2>2 DEF Begun
  <2>4. \A i \in Starts(task) : Over(status) \/ Has(task, "pending")
    BY DEF InOrder, StartsOnce, Starts
  <2> QED
    BY <1>1, <2>3, <2>4 DEF InOrder, PlanFirst, StartsOnce, EndsAfterStart, Has
<1>3. PICK to \in {"succeeded", "failed"} :
        \E from : status' = MoveTask(status, task, from, to) /\ "running" \in from
  BY <1>1 DEF CompleteTask
<1>4. /\ status'.plan = status.plan /\ DOMAIN status'.tasks = DOMAIN status.tasks
      /\ \A t \in DOMAIN status.tasks : t # task => status'.tasks[t] = status.tasks[t]
      /\ Over(status) => status' = status
      /\ ~Over(status) => status'.tasks[task] = to
  BY <1>2, <1>3, TaskMoves
<1>5. Queued("complete")' = {}
  <2> SUFFICES ASSUME NEW i \in Queued("complete")' PROVE FALSE
    OBVIOUS
  <2>1. i + 1 \in Queued("complete")
    BY <1>1 DEF Moves, Shifted
  <2>2. i + 1 = 1 /\ DOMAIN commands' = 1..Len(commands') /\ Len(commands') \in Nat
    BY <1>1, <1>2, <2>1, LenProperties
  <2> QED
    BY <2>2 DEF Queued
<1>6. InOrder'
  <2>1. \/ Over(status) /\ status' = status
        \/ /\ ~Over(status)
           /\ status'.plan = status.plan /\ DOMAIN status'.tasks = DOMAIN status.tasks
           /\ \A t \in DOMAIN status.tasks : t # task => status'.tasks[t] = status.tasks[t]
           /\ \A i \in Starts(task) : i = 1
    BY <1>2, <1>4
  <2>2. runloop' # "fetching" /\ cli \notin BeforeClones
    BY <1>1, <1>2 DEF BeforeRunbooks
  <2>3. \A i \in Queued("start") : i = 1 => commands[i].task = task
    BY <1>1
  <2> QED
    BY <1>1, <1>2, <1>5, <2>1, <2>2, <2>3, TaskChanges
<1>7. status' # status \/ Over(status)
  BY <1>2, <1>3, <1>4 DEF Has
<1> QED
  BY <1>6, <1>7

LEMMA FetchOrder ==
  ASSUME TypeOK, WorkInv, InOrder, NEW result \in {"ok", "failed"}, FetchEnds(result)
  PROVE  InOrder' /\ (status' # status \/ Over(status))
<1> USE DEF main
<1> DEFINE task == "remoteAccounts"
<1>1. /\ commands \in Seq(Commands) /\ commands' = commands
      /\ status' = CompleteTask(status, task, result = "ok")
      /\ UNCHANGED <<cli, seal, worker>> /\ runloop = "fetching" /\ runloop' = "running"
  BY DEF FetchEnds, TypeOK
<1>2. Moves(0)
  BY <1>1, MovesUnchanged
<1>3. /\ status.plan = "sealed" /\ (Over(status) \/ Has(task, "running"))
      /\ cli \notin BeforeClones /\ Queued("fetch") = {}
      /\ ~Over(status) => Starts(task) = {}
  <2>1. Begun(task, 1)
    BY <1>1 DEF InOrder, EndsAfterStart
  <2>2. \A i \in Starts(task) : ~(i < 1)
    BY <1>1, Places DEF Starts
  <2>3. Over(status) \/ Has(task, "running")
    BY <2>1, <2>2 DEF Begun
  <2>4. \A i \in Starts(task) : Over(status) \/ Has(task, "pending")
    BY DEF InOrder, StartsOnce, Starts
  <2>5. cli \notin BeforeClones /\ Queued("fetch") = {}
    BY <1>1 DEF WorkInv, FetchedOnce
  <2> QED
    BY <1>1, <2>3, <2>4, <2>5 DEF InOrder, PlanFirst, Has
<1>4. PICK to \in {"succeeded", "failed"} :
        \E from : status' = MoveTask(status, task, from, to) /\ "running" \in from
  BY <1>1 DEF CompleteTask
<1>5. /\ status'.plan = status.plan /\ DOMAIN status'.tasks = DOMAIN status.tasks
      /\ \A t \in DOMAIN status.tasks : t # task => status'.tasks[t] = status.tasks[t]
      /\ Over(status) => status' = status
      /\ ~Over(status) => status'.tasks[task] = to
  BY <1>3, <1>4, TaskMoves
<1>6. InOrder'
  <2>1. \/ Over(status) /\ status' = status
        \/ /\ ~Over(status)
           /\ status'.plan = status.plan /\ DOMAIN status'.tasks = DOMAIN status.tasks
           /\ \A t \in DOMAIN status.tasks : t # task => status'.tasks[t] = status.tasks[t]
           /\ \A i \in Starts(task) : i = 0
    BY <1>3, <1>5
  <2>2. runloop' # "fetching" /\ commands' \in Seq(Commands) /\ Queued("fetch")' = {}
    BY <1>1, <1>3 DEF Queued
  <2>3. 0 \in {0, 1} /\ 0 # 1 /\ task # "runbookExecutions"
    OBVIOUS
  <2>4. UNCHANGED <<cli, seal, worker>> /\ cli \notin BeforeClones
    BY <1>1, <1>3
  <2> HIDE DEF task
  <2> QED
    BY <1>2, <2>1, <2>2, <2>3, <2>4, TaskChanges
<1>7. status' # status \/ Over(status)
  BY <1>3, <1>4, <1>5 DEF Has
<1> QED
  BY <1>6, <1>7

LEMMA TakeFetchOrder ==
  ASSUME TypeOK, InOrder, TakeFetch
  PROVE  InOrder'
<1> USE DEF main, svm, asks
<1>1. /\ Moves(1) /\ 1 \in Queued("fetch") /\ 1 \notin Queued("start")
      /\ UNCHANGED <<cli, seal, worker, status>>
  BY Takes DEF TakeFetch
<1>2. status.plan = "sealed" /\ Begun("remoteAccounts", 1)
  BY <1>1 DEF InOrder, PlanFirst, EndsAfterStart
<1>3. CliGoesOn
  BY <1>1 DEF CliGoesOn
<1> QED
  BY <1>1, <1>2, <1>3, OrderKept

(* Before there is a plan no task is started, ended or under way. *)
LEMMA PlanOrder ==
  ASSUME TypeOK, InOrder, TakeSeal \/ TakeFailPlanning
  PROVE  InOrder' /\ status' # status
<1> USE DEF main
<1>1. /\ Moves(1) /\ 1 \in Plans /\ commands \in Seq(Commands) /\ commands' \in Seq(Commands)
      /\ UNCHANGED <<cli, worker, runloop>> /\ runloop = "running"
  BY Takes DEF TakeSeal, TakeFailPlanning, Taking, Plans
<1>2. /\ status.plan = "unsealed"
      /\ Queued("start") = {} /\ Queued("complete") = {} /\ Queued("fetch") = {}
      /\ worker # "running" /\ cli \notin {"started", "planning", "clones", "runbooks"}
      /\ seal # "sealed" /\ \A i \in Plans : i = 1
  BY <1>1 DEF InOrder, PlanFirst
<1>3. /\ Queued("start")' = {} /\ Queued("complete")' = {} /\ Queued("fetch")' = {}
  BY <1>1, <1>2 DEF Moves, Shifted
<1>4. Plans' = {}
  <2> SUFFICES ASSUME NEW i \in Plans' PROVE FALSE
    OBVIOUS
  <2>1. i + 1 \in Plans
    BY <1>1, PlacesMove
  <2>2. i + 1 = 1 /\ DOMAIN commands' = 1..Len(commands') /\ Len(commands') \in Nat
    BY <1>1, <1>2, <2>1, LenProperties
  <2> QED
    BY <2>2 DEF Plans, Queued
<1>5. Starts("runbookExecutions")' = {} /\ \A task : Starts(task)' = {}
  BY <1>3 DEF Starts
<1>6. CASE TakeSeal
  <2>1. status' = [plan |-> "sealed", tasks |-> [t \in Head(commands).tasks |-> "pending"]]
    BY <1>2, <1>6 DEF TakeSeal, SealPlan
  <2>2. status'.plan = "sealed" /\ \A t \in DOMAIN status'.tasks : status'.tasks[t] = "pending"
    BY <2>1
  <2>3. PlanFirst' /\ StartsOnce' /\ EndsAfterStart'
    BY <1>1, <1>2, <1>3, <1>4, <1>5, <2>2 DEF PlanFirst, StartsOnce, EndsAfterStart, Has, BeforeClones
  <2> QED
    BY <1>2, <2>2, <2>3 DEF InOrder
<1>7. CASE TakeFailPlanning
  <2>1. status' = [plan |-> "failed", tasks |-> NoTasks] /\ seal' = seal
    BY <1>2, <1>7 DEF TakeFailPlanning, FailPlanning
  <2>2. status'.plan = "failed" /\ DOMAIN status'.tasks = {}
    BY <2>1 DEF NoTasks
  <2>3. PlanFirst' /\ StartsOnce' /\ EndsAfterStart'
    BY <1>1, <1>2, <1>3, <1>4, <1>5, <2>1, <2>2 DEF PlanFirst, StartsOnce, EndsAfterStart, BeforeClones
  <2> QED
    BY <1>2, <2>2, <2>3 DEF InOrder
<1> QED
  BY <1>6, <1>7

(* The CLI submits its plan, or gives it up. *)
LEMMA SubmitOrder ==
  ASSUME TypeOK, InOrder, runloop # "stopped", SubmitPlan \/ PlanningFails
  PROVE  InOrder'
<1> USE DEF main, svm, asks
<1>t. commands \in Seq(Commands)
  BY DEF TypeOK
<1>1. PICK x \in Commands : Send(<<x>>) /\ x.kind \in {"seal", "failPlanning"}
  <2>1. /\ [kind |-> "seal", tasks |-> Planned] \in Commands /\ [kind |-> "failPlanning"] \in Commands
    BY DEF Commands, Planned, Tasks
  <2> QED
    BY <2>1 DEF SubmitPlan, PlanningFails
<1>2. /\ cli = "planning" /\ cli' \in {"sealing", "dispatched"}
      /\ UNCHANGED <<seal, worker, runloop, status>>
  BY DEF SubmitPlan, PlanningFails
<1>3. /\ status.plan = "unsealed" /\ Plans = {} /\ cli \in BeforeClones /\ cli \in BeforeRunbooks
      /\ Queued("start") = {} /\ Queued("complete") = {} /\ Queued("fetch") = {}
      /\ runloop # "fetching" /\ worker # "running" /\ seal # "sealed"
  BY <1>2 DEF InOrder, PlanFirst, BeforeClones, BeforeRunbooks
<1>4. /\ Queued("start")' = {} /\ Queued("complete")' = {} /\ Queued("fetch")' = {}
      /\ \A i \in Plans' : i \in Plans \/ i = Len(commands) + 1
  <2>1. /\ \A k : k # x.kind => Queued(k)' = Queued(k)
        /\ \A i \in Queued(x.kind)' : i \in Queued(x.kind) \/ i = Len(commands) + 1
    BY <1>t, <1>1, QueuedAfterSend
  <2> QED
    BY <1>1, <1>3, <2>1 DEF Plans
<1>5. \A task : Starts(task)' = {}
  BY <1>4 DEF Starts
<1>6. PlanFirst'
  BY <1>2, <1>3, <1>4 DEF PlanFirst
<1>7. StartsOnce' /\ EndsAfterStart'
  BY <1>2, <1>3, <1>4, <1>5 DEF InOrder, StartsOnce, EndsAfterStart, Has
<1> QED
  BY <1>6, <1>7 DEF InOrder

(* Sending starts and ends of tasks: what was queued stays in its place.   *)
LEMMA SentBehind ==
  ASSUME commands \in Seq(Commands), NEW new \in Seq(Commands), Send(new), runloop # "stopped",
         \A i \in 1..Len(new) : new[i].kind \in {"start", "complete", "fetch"}
  PROVE  /\ Plans' = Plans /\ Len(commands) \in Nat /\ Len(new) \in Nat
         /\ \A k : \A i \in Queued(k) :
              i \in Queued(k)' /\ i \in Nat /\ i <= Len(commands) /\ commands'[i] = commands[i]
         /\ \A k : \A i \in Queued(k)' \ Queued(k) :
              \E j \in 1..Len(new) : i = Len(commands) + j /\ new[j].kind = k /\ commands'[i] = new[j]
         /\ \A j \in 1..Len(new) :
              Len(commands) + j \in Queued(new[j].kind)' /\ commands'[Len(commands) + j] = new[j]
<1>1. /\ DOMAIN commands = 1..Len(commands) /\ Len(commands) \in Nat /\ Len(new) \in Nat
      /\ DOMAIN commands' = 1..(Len(commands) + Len(new))
      /\ \A i \in 1..Len(commands) : commands'[i] = commands[i]
      /\ \A i \in 1..Len(new) : commands'[Len(commands) + i] = new[i]
  BY CommandsSent
<1>2. \A k : \A i \in Queued(k) :
        i \in Queued(k)' /\ i \in Nat /\ i <= Len(commands) /\ commands'[i] = commands[i]
  BY <1>1 DEF Queued
<1>3. \A j \in 1..Len(new) :
        Len(commands) + j \in Queued(new[j].kind)' /\ commands'[Len(commands) + j] = new[j]
  BY <1>1 DEF Queued
<1>4. ASSUME NEW k, NEW i \in Queued(k)', i \notin Queued(k)
      PROVE  \E j \in 1..Len(new) : i = Len(commands) + j /\ new[j].kind = k /\ commands'[i] = new[j]
  <2>1. i \in DOMAIN commands' /\ i \notin DOMAIN commands
    BY <1>1, <1>4 DEF Queued
  <2>2. i - Len(commands) \in 1..Len(new) /\ i = Len(commands) + (i - Len(commands))
    BY <1>1, <2>1
  <2>3. commands'[i] = new[i - Len(commands)]
    BY <1>1, <2>2
  <2> QED
    BY <1>4, <2>2, <2>3 DEF Queued
<1>5. ASSUME NEW k \in {"seal", "failPlanning"} PROVE Queued(k)' = Queued(k)
  <2>1. \A i \in Queued(k)' : i \in Queued(k)
    <3> SUFFICES ASSUME NEW i \in Queued(k)', i \notin Queued(k) PROVE FALSE
      OBVIOUS
    <3>1. \E j \in 1..Len(new) : new[j].kind = k
      BY <1>4
    <3> QED
      BY <3>1
  <2>2. \A i \in Queued(k) : i \in Queued(k)'
    BY <1>2
  <2> QED
    BY <2>1, <2>2
<1>6. Plans' = Plans
  BY <1>5 DEF Plans
<1>7. \A k : \A i \in Queued(k)' \ Queued(k) :
        \E j \in 1..Len(new) : i = Len(commands) + j /\ new[j].kind = k /\ commands'[i] = new[j]
  BY <1>4
<1> QED
  BY <1>1, <1>2, <1>3, <1>6, <1>7

(* What was queued stays after the start before it. *)
LEMMA BegunStays ==
  ASSUME status' = status, NEW task, NEW place, Begun(task, place),
         \A i \in Starts(task) : i \in Starts(task)'
  PROVE  Begun(task, place)'
<1>1. Over(status)' = Over(status) /\ \A t, x : Has(t, x)' = Has(t, x)
  BY DEF Over, Phase, SealedPhase, Has
<1> QED
  BY <1>1 DEF Begun

LEMMA DispatchClonesOrder ==
  ASSUME TypeOK, WorkInv, InOrder, runloop # "stopped", DispatchClones
  PROVE  InOrder'
<1> USE DEF main, svm, asks
<1>t. commands \in Seq(Commands)
  BY DEF TypeOK
<1>1. /\ cli = "clones" /\ cli' = "runbooks"
      /\ UNCHANGED <<config, seal, worker, runloop, status>>
  BY DEF DispatchClones
<1>2. /\ status.plan = "sealed" /\ Queued("start") = {} /\ Queued("complete") = {}
      /\ Queued("fetch") = {} /\ runloop # "fetching" /\ worker # "running"
      /\ \A task \in DOMAIN status.tasks : Has(task, "pending")
      /\ DOMAIN status.tasks = Planned
  BY <1>1 DEF InOrder, PlanFirst, StartsOnce, WorkInv, FetchedOnce, WorkerOnce, SucceededMeansDone,
              BeforeClones, BeforeRunbooks, Has
<1>3. Over(status)' = Over(status) /\ \A t, x : Has(t, x)' = Has(t, x)
  BY <1>1 DEF Over, Phase, SealedPhase, Has
<1>4. CASE config.clones
  <2> DEFINE n == Len(commands)
  <2>1. /\ FetchCommands \in Seq(Commands) /\ Send(FetchCommands) /\ Len(FetchCommands) = 2
        /\ FetchCommands[1].kind = "start" /\ FetchCommands[1].task = "remoteAccounts"
        /\ FetchCommands[2].kind = "fetch"
    BY <1>4, DispatchedCommands DEF DispatchClones
  <2>2. \A i \in 1..Len(FetchCommands) : FetchCommands[i].kind \in {"start", "complete", "fetch"}
    <3>1. \A i \in 1..2 : i = 1 \/ i = 2
      OBVIOUS
    <3> QED
      BY <2>1, <3>1
  <2>3. /\ Plans' = Plans /\ n \in Nat
        /\ \A i \in Queued("start")' : i = n + 1 /\ commands'[i] = FetchCommands[1]
        /\ \A i \in Queued("fetch")' : i = n + 2
        /\ Queued("complete")' = {}
        /\ n + 1 \in Queued("start")' /\ commands'[n + 1] = FetchCommands[1]
    <3>1. /\ Plans' = Plans /\ Len(commands) \in Nat
          /\ \A k : \A i \in Queued(k)' \ Queued(k) :
               \E j \in 1..Len(FetchCommands) :
                 i = Len(commands) + j /\ FetchCommands[j].kind = k /\ commands'[i] = FetchCommands[j]
          /\ \A j \in 1..Len(FetchCommands) :
               /\ Len(commands) + j \in Queued(FetchCommands[j].kind)'
               /\ commands'[Len(commands) + j] = FetchCommands[j]
      BY <1>t, <2>1, <2>2, SentBehind, Zenon
    <3>2. \A i \in 1..2 : i = 1 \/ i = 2
      OBVIOUS
    <3>3. \A i \in Queued("start")' : i = n + 1 /\ commands'[i] = FetchCommands[1]
      BY <1>2, <2>1, <3>1, <3>2
    <3>4. \A i \in Queued("fetch")' : i = n + 2
      BY <1>2, <2>1, <3>1, <3>2
    <3>5. Queued("complete")' = {}
      BY <1>2, <2>1, <3>1, <3>2
    <3>6. 1 \in 1..2
      OBVIOUS
    <3> QED
      BY <2>1, <3>1, <3>3, <3>4, <3>5, <3>6
  <2> HIDE DEF n
  <2>4. /\ \A task : \A i \in Starts(task)' : i = n + 1 /\ task = "remoteAccounts"
        /\ n + 1 \in Starts("remoteAccounts")'
    BY <2>1, <2>3 DEF Starts
  <2>5. Has("remoteAccounts", "pending")
    BY <1>2, <1>4 DEF Planned, Tasks
  <2>6. n + 1 < n + 2
    BY <2>3
  <2>7. \A i \in Queued("fetch")' : Begun("remoteAccounts", i)'
    BY <1>3, <2>3, <2>4, <2>5, <2>6 DEF Begun
  <2>8. PlanFirst'
    BY <1>1, <1>2, <2>3 DEF InOrder, PlanFirst
  <2>9. StartsOnce'
    BY <1>1, <1>2, <1>3, <2>1, <2>3, <2>4, <2>5 DEF StartsOnce, BeforeClones
  <2>10. EndsAfterStart'
    BY <1>1, <1>2, <2>3, <2>7 DEF EndsAfterStart
  <2> QED
    BY <2>8, <2>9, <2>10 DEF InOrder
<1>5. CASE ~config.clones
  <2>1. commands' = commands
    <3>1. Send(<<>>)
      BY <1>5 DEF DispatchClones
    <3> QED
      BY <1>t, <3>1, EmptySeq, ConcatProperties DEF Send
  <2>2. Moves(0)
    BY <1>t, <2>1, MovesUnchanged
  <2>3. CliGoesOn
    BY <1>1 DEF CliGoesOn, BeforeClones, BeforeRunbooks
  <2> QED
    BY <1>1, <1>2, <2>2, <2>3, OrderKept
<1> QED
  BY <1>4, <1>5

(* The start of the runbooks, and their end when no thread can be made. *)
LEMMA RunbooksSent ==
  ASSUME TypeOK, WorkInv, InOrder, runloop # "stopped", cli = "runbooks", cli' = "dispatched",
         config.runbooks # {}, UNCHANGED <<status, seal, runloop>>,
         NEW new \in Seq(Commands), Send(new), Len(new) \in {1, 2},
         new[1] = RunbooksStarted, Len(new) = 2 => new[2] = RunbooksCompleted(FALSE),
         worker' = worker \/ Len(new) = 1
  PROVE  InOrder'
<1> DEFINE task == "runbookExecutions"
<1>n. PICK n : n = Len(commands)
  OBVIOUS
<1>t. commands \in Seq(Commands)
  BY DEF TypeOK
<1>k. /\ new[1].kind = "start" /\ new[1].task = task
      /\ Len(new) = 2 => new[2].kind = "complete"
  BY DEF RunbooksStarted, RunbooksCompleted
<1>j. \A j \in 1..Len(new) : j = 1 \/ (j = 2 /\ Len(new) = 2)
  <2>1. CASE Len(new) = 1
    BY <2>1
  <2>2. CASE Len(new) = 2
    BY <2>2
  <2> QED
    BY <2>1, <2>2
<1>1. /\ status.plan = "sealed" /\ Starts(task) = {} /\ Queued("complete") = {}
      /\ Has(task, "pending") /\ worker # "running"
  <2>1. task \in Planned
    BY DEF Planned, Tasks
  <2>2. status.plan = "sealed" /\ DOMAIN status.tasks = Planned
    BY DEF InOrder, PlanFirst, WorkInv, SucceededMeansDone
  <2>3. worker = "none"
    BY DEF WorkInv, WorkerOnce, BeforeRunbooks
  <2> QED
    BY <2>1, <2>2, <2>3 DEF InOrder, StartsOnce, BeforeRunbooks
<1>2. Over(status)' = Over(status) /\ \A t, x : Has(t, x)' = Has(t, x)
  BY DEF Over, Phase, SealedPhase, Has
<1>3. \A j \in 1..Len(new) : new[j].kind \in {"start", "complete", "fetch"}
  BY <1>j, <1>k
<1>4. /\ Plans' = Plans /\ n \in Nat
      /\ \A k : \A i \in Queued(k) :
           i \in Queued(k)' /\ i \in Nat /\ i <= n /\ commands'[i] = commands[i]
      /\ \A k : \A i \in Queued(k)' \ Queued(k) :
           \E j \in 1..Len(new) : i = n + j /\ new[j].kind = k /\ commands'[i] = new[j]
      /\ \A j \in 1..Len(new) : n + j \in Queued(new[j].kind)' /\ commands'[n + j] = new[j]
  <2>1. /\ Plans' = Plans /\ Len(commands) \in Nat
        /\ \A k : \A i \in Queued(k) :
             i \in Queued(k)' /\ i \in Nat /\ i <= Len(commands) /\ commands'[i] = commands[i]
        /\ \A k : \A i \in Queued(k)' \ Queued(k) :
             \E j \in 1..Len(new) :
               i = Len(commands) + j /\ new[j].kind = k /\ commands'[i] = new[j]
        /\ \A j \in 1..Len(new) :
             Len(commands) + j \in Queued(new[j].kind)' /\ commands'[Len(commands) + j] = new[j]
    BY <1>t, <1>3, SentBehind, Zenon
  <2> QED
    BY <1>n, <2>1
<1>5. \A i \in Queued("start")' : i \in Queued("start") \/ (i = n + 1 /\ commands'[i] = new[1])
  BY <1>4, <1>j, <1>k
<1>6. n + 1 \in Queued("start")' /\ commands'[n + 1] = new[1]
  <2>1. 1 \in 1..1 /\ 1 \in 1..2
    OBVIOUS
  <2> QED
    BY <1>4, <1>k, <2>1
<1>7. \A i \in Queued("complete")' : i = n + 2 /\ Len(new) = 2
  BY <1>1, <1>4, <1>j, <1>k
<1>8. \A i \in Queued("fetch")' : i \in Queued("fetch")
  BY <1>4, <1>j, <1>k
<1>9. /\ \A t : \A i \in Starts(t) : i \in Starts(t)'
      /\ \A t : \A i \in Starts(t)' : i \in Starts(t) \/ (i = n + 1 /\ t = task)
      /\ n + 1 \in Starts(task)'
  BY <1>4, <1>5, <1>6, <1>k DEF Starts
<1>10. \A place : Begun("remoteAccounts", place) => Begun("remoteAccounts", place)'
  BY <1>9, BegunStays
<1>11. Begun(task, n + 2)'
  <2>1. n + 1 < n + 2
    BY <1>4
  <2> QED
    BY <1>1, <1>2, <1>9, <2>1 DEF Begun
<1>12. PlanFirst'
  BY <1>1, <1>4 DEF InOrder, PlanFirst
<1>13. StartsOnce'
  <2>1. \A i \in Queued("start")' : Over(status)' \/ Has(commands[i].task, "pending")'
    BY <1>1, <1>2, <1>4, <1>5, <1>k DEF InOrder, StartsOnce
  <2>2. \A t : \A i, j \in Starts(t)' : i = j
    BY <1>1, <1>9 DEF InOrder, StartsOnce
  <2> QED
    BY <2>1, <2>2 DEF StartsOnce, BeforeClones, BeforeRunbooks
<1>14. EndsAfterStart'
  <2>1. n + 2 \in Nat
    BY <1>4
  <2>2. runloop' = "fetching" => Begun("remoteAccounts", 1)'
    BY <1>10 DEF InOrder, EndsAfterStart
  <2>3. \A i \in Queued("fetch")' : Begun("remoteAccounts", i)'
    BY <1>8, <1>10 DEF InOrder, EndsAfterStart
  <2>4. worker' = "running" => Queued("complete")' = {}
    <3> SUFFICES ASSUME worker' = "running", NEW i \in Queued("complete")' PROVE FALSE
      OBVIOUS
    <3>1. Len(new) # 1
      <4>1. Len(new) = 2 /\ 2 # 1
        BY <1>7
      <4> QED
        BY <4>1
    <3>2. worker' = worker
      BY <3>1
    <3> QED
      BY <1>1, <3>2
  <2> QED
    BY <1>7, <1>11, <2>1, <2>2, <2>3, <2>4 DEF EndsAfterStart
<1> QED
  BY <1>12, <1>13, <1>14 DEF InOrder

LEMMA DispatchRunbooksOrder ==
  ASSUME TypeOK, WorkInv, InOrder, runloop # "stopped", DispatchRunbooks
  PROVE  InOrder'
<1> USE DEF main, svm, asks
<1>t. commands \in Seq(Commands)
  BY DEF TypeOK
<1>1. /\ cli = "runbooks" /\ cli' = "dispatched"
      /\ UNCHANGED <<config, seal, runloop, status>>
  BY DEF DispatchRunbooks
<1>2. CASE config.runbooks = {} /\ UNCHANGED <<commands, worker>>
  <2>1. Moves(0)
    BY <1>t, <1>2, MovesUnchanged
  <2>2. CliGoesOn
    BY <1>1 DEF CliGoesOn, BeforeClones, BeforeRunbooks
  <2>3. runloop' = "fetching" => status.plan = "sealed" /\ Begun("remoteAccounts", 1)
    BY <1>1 DEF InOrder, PlanFirst, EndsAfterStart
  <2> QED
    BY <1>1, <1>2, <2>1, <2>2, <2>3, OrderKept
<1>3. CASE config.runbooks # {} /\ Send(<<RunbooksStarted>>) /\ worker' = "running"
  <2> DEFINE new == <<RunbooksStarted>>
  <2>1. new \in Seq(Commands) /\ Send(new) /\ Len(new) = 1 /\ new[1] = RunbooksStarted
    BY <1>3, DispatchedCommands, ShortSequences
  <2> HIDE DEF new
  <2>2. Len(new) \in {1, 2} /\ (Len(new) = 2 => new[2] = RunbooksCompleted(FALSE))
    BY <2>1
  <2> QED
    BY <1>1, <1>3, <2>1, <2>2, RunbooksSent
<1>4. CASE config.runbooks # {} /\ Send(<<RunbooksStarted>> \o SpawnFailure) /\ UNCHANGED worker
  <2> DEFINE new == <<RunbooksStarted>> \o SpawnFailure
  <2>1. /\ new \in Seq(Commands) /\ Send(new) /\ Len(new) = 2
        /\ new[1] = RunbooksStarted /\ new[2] = RunbooksCompleted(FALSE)
    BY <1>4, DispatchedCommands
  <2> HIDE DEF new
  <2> QED
    BY <1>1, <1>4, <2>1, RunbooksSent
<1> QED
  BY <1>2, <1>3, <1>4 DEF DispatchRunbooks

LEMMA ReportRunbooksOrder ==
  ASSUME TypeOK, WorkInv, InOrder, runloop # "stopped", ReportRunbooks
  PROVE  InOrder'
<1> USE DEF main, svm, asks
<1> DEFINE task == "runbookExecutions"
<1>n. PICK n : n = Len(commands)
  OBVIOUS
<1>t. commands \in Seq(Commands)
  BY DEF TypeOK
<1>1. PICK x \in Commands : Send(<<x>>) /\ x.kind = "complete"
  <2>1. \A ok \in BOOLEAN :
          RunbooksCompleted(ok) \in Commands /\ RunbooksCompleted(ok).kind = "complete"
    BY DEF RunbooksCompleted, Commands, Tasks
  <2> QED
    BY <2>1 DEF ReportRunbooks
<1>2. /\ worker = "running" /\ worker' = "done"
      /\ UNCHANGED <<config, cli, seal, runloop, status>>
  BY DEF ReportRunbooks
<1>3. /\ status.plan = "sealed" /\ Queued("complete") = {} /\ cli \notin BeforeRunbooks
      /\ \E place \in Nat : Begun(task, place)
  BY <1>2 DEF InOrder, PlanFirst, EndsAfterStart, WorkInv, WorkerOnce
<1>4. Over(status)' = Over(status) /\ \A t, y : Has(t, y)' = Has(t, y)
  BY <1>2 DEF Over, Phase, SealedPhase, Has
<1>5. /\ \A i \in DOMAIN commands : i \in DOMAIN commands' /\ commands'[i] = commands[i]
      /\ \A k : k # "complete" => Queued(k)' = Queued(k)
      /\ \A i \in Queued("complete")' : i = n + 1
  BY <1>n, <1>t, <1>1, <1>3, QueuedAfterSend
<1>6. Plans' = Plans /\ \A t : Starts(t)' = Starts(t)
  <2>1. \A i \in Queued("start") : commands'[i] = commands[i]
    BY <1>5 DEF Queued
  <2>2. Queued("start")' = Queued("start")
    BY <1>5
  <2>3. Queued("seal")' = Queued("seal") /\ Queued("failPlanning")' = Queued("failPlanning")
    BY <1>5
  <2> QED
    BY <2>1, <2>2, <2>3 DEF Plans, Starts
<1>7. Begun(task, n + 1)'
  <2>1. \A i \in Starts(task) : i < n + 1
    BY <1>n, <1>t, Places DEF Starts
  <2>2. Begun(task, n + 1)
    BY <1>3, <2>1 DEF Begun
  <2> QED
    BY <1>2, <1>6, <2>2, BegunStays
<1>8. \A place : Begun("remoteAccounts", place) => Begun("remoteAccounts", place)'
  BY <1>2, <1>6, BegunStays
<1>9. PlanFirst'
  BY <1>2, <1>3, <1>6 DEF InOrder, PlanFirst
<1>10. StartsOnce'
  <2>1. \A i \in Queued("start")' : Over(status)' \/ Has(commands[i].task, "pending")'
    <3> SUFFICES ASSUME NEW i \in Queued("start")'
                 PROVE  Over(status)' \/ Has(commands[i].task, "pending")'
      OBVIOUS
    <3>1. i \in Queued("start") /\ commands'[i] = commands[i]
      BY <1>5 DEF Queued
    <3>2. Over(status) \/ Has(commands[i].task, "pending")
      BY <3>1 DEF InOrder, StartsOnce
    <3> QED
      BY <1>4, <3>1, <3>2
  <2>2. \A t : \A i, j \in Starts(t)' : i = j
    BY <1>6 DEF InOrder, StartsOnce
  <2> QED
    BY <1>2, <1>3, <2>1, <2>2 DEF StartsOnce, BeforeRunbooks
<1>11. EndsAfterStart'
  <2>1. Queued("fetch")' = Queued("fetch")
    BY <1>5
  <2> QED
    BY <1>2, <1>5, <1>7, <1>8, <2>1 DEF InOrder, EndsAfterStart
<1> QED
  BY <1>9, <1>10, <1>11 DEF InOrder

-----------------------------------------------------------------------------
LEMMA OrderInit == Init => OrderInv
<1> SUFFICES ASSUME Init PROVE InOrder
  BY DEF OrderInv
<1>0. DOMAIN commands = {}
  BY DEF Init
<1>1. \A k : Queued(k) = {}
  BY <1>0 DEF Queued
<1>2. Plans = {} /\ \A task : Starts(task) = {}
  BY <1>1 DEF Plans, Starts
<1>3. status.plan = "unsealed" /\ DOMAIN status.tasks = {}
  BY DEF Init, NoTasks
<1>4. cli = "started" /\ seal # "sealed" /\ worker = "none" /\ runloop = "running"
  BY DEF Init
<1> QED
  BY <1>1, <1>2, <1>3, <1>4 DEF InOrder, PlanFirst, StartsOnce, EndsAfterStart

LEMMA OrderStep == TypeOK /\ WorkInv /\ OrderInv /\ [Next]_vars => OrderInv'
<1> SUFFICES ASSUME TypeOK, WorkInv, OrderInv, [Next]_vars, runloop' # "stopped"
             PROVE  InOrder'
  BY DEF OrderInv
<1> USE DEF main, svm, asks
<1>1. ASSUME runloop # "stopped" PROVE InOrder
  BY <1>1 DEF OrderInv
<1>2. CASE QuietStep
  BY <1>1, <1>2, QuietSteps, QuietOrder
<1>3. CASE PlanningFails \/ SubmitPlan
  <2>1. runloop # "stopped"
    BY <1>3 DEF PlanningFails, SubmitPlan
  <2> QED
    BY <1>1, <1>3, <2>1, SubmitOrder
<1>4. CASE DispatchClones
  <2>1. runloop # "stopped"
    BY <1>4 DEF DispatchClones
  <2> QED
    BY <1>1, <1>4, <2>1, DispatchClonesOrder
<1>5. CASE DispatchRunbooks
  <2>1. runloop # "stopped"
    BY <1>5 DEF DispatchRunbooks
  <2> QED
    BY <1>1, <1>5, <2>1, DispatchRunbooksOrder
<1>6. CASE ReportRunbooks
  <2>1. runloop # "stopped"
    BY <1>6 DEF ReportRunbooks
  <2> QED
    BY <1>1, <1>6, <2>1, ReportRunbooksOrder
<1>7. CASE TakeSeal \/ TakeFailPlanning
  <2>1. runloop # "stopped"
    BY <1>7 DEF TakeSeal, TakeFailPlanning, Taking
  <2> QED
    BY <1>1, <1>7, <2>1, PlanOrder
<1>8. CASE TakeStart
  BY <1>1, <1>8, StartOrder DEF TakeStart, Taking
<1>9. CASE TakeComplete
  BY <1>1, <1>9, CompleteOrder DEF TakeComplete, Taking
<1>10. CASE TakeFetch
  BY <1>1, <1>10, TakeFetchOrder DEF TakeFetch, Taking
<1>11. CASE \E result \in {"ok", "failed"} : FetchEnds(result)
  BY <1>1, <1>11, FetchOrder DEF FetchEnds
<1> QED
  BY <1>2, <1>3, <1>4, <1>5, <1>6, <1>7, <1>8, <1>9, <1>10, <1>11, NextSteps

(* Only the steps that answer a startup command take one. *)
LEMMA AnswersWhatItTakes ==
  ASSUME TypeOK, [Next]_vars, StartupCommandTaken
  PROVE  \/ TakeSeal \/ TakeFailPlanning \/ TakeStart \/ TakeComplete
         \/ \E result \in {"ok", "failed"} : FetchEnds(result)
<1> USE DEF main, svm, asks
<1>t. commands \in Seq(Commands) /\ Len(commands) \in Nat
  BY LenProperties DEF TypeOK
<1>1. CASE runloop = "fetching" /\ runloop' = "running"
  <2>1. ~QuietStep
    BY <1>1, QuietSteps
  <2>2. ~(PlanningFails \/ SubmitPlan \/ DispatchClones \/ DispatchRunbooks \/ ReportRunbooks)
    BY <1>1 DEF PlanningFails, SubmitPlan, DispatchClones, DispatchRunbooks, ReportRunbooks
  <2>3. ~TakeFetch
    BY <1>1 DEF TakeFetch, Taking
  <2> QED
    BY <2>1, <2>2, <2>3, NextSteps
<1>2. CASE /\ commands # <<>> /\ commands' = Tail(commands)
           /\ Head(commands).kind \in {"seal", "failPlanning", "start", "complete"}
  <2>0. Len(commands') = Len(commands) - 1
    BY <1>t, <1>2, CommandTaken
  <2>s. ASSUME NEW new \in Seq(Commands), Send(new) PROVE FALSE
    <3>1. Len(commands') = Len(commands) \/ Len(commands') = Len(commands) + Len(new)
      BY <1>t, <2>s, CommandsSent
    <3>2. Len(new) \in Nat
      BY LenProperties
    <3> QED
      BY <1>t, <2>0, <3>1, <3>2
  <2>o. ASSUME NEW x \in Commands, Send(<<x>>) PROVE FALSE
    BY <2>o, <2>s, ShortSequences
  <2>u. commands' # commands
    BY <1>t, <2>0
  <2>1. ~QuietStep
    <3>1. CASE runloop' # "stopped"
      <4> SUFFICES ASSUME QuietStep PROVE FALSE
        OBVIOUS
      <4>1. ~(\E x \in Commands : Send(<<x>>) /\ x.kind \notin StartupKinds)
        BY <2>o
      <4>2. Head(commands).kind \notin StartupKinds
        BY <3>1, <2>u, <4>1, QuietQueue
      <4> QED
        BY <1>2, <4>2 DEF StartupKinds
    <3>2. CASE runloop' = "stopped"
      <4> SUFFICES ASSUME QuietStep PROVE FALSE
        OBVIOUS
      <4>1. runloop # "stopped"
        BY <2>u, QuietSteps
      <4>2. TakeTerminate
        BY <3>2, <4>1 DEF QuietStep, BeginPlanning, HearSeal, SealUnreachable, SpawnWatchdog,
              SpawnWatchdogFails, ServeEvent, ServeInterrupt, Join, Replay, Watch,
              WatchdogTerminates, CloseServers, Interrupt, AdminExit, Quit, ResetNetwork,
              BeginRunbook,
              RunbookPanics, EndRunbook, SkipRunbook, TakeStarted, TakeCompleted, vars
      <4> QED
        BY <1>2, <4>2 DEF TakeTerminate
    <3> QED
      BY <3>1, <3>2
  <2>2. ~(PlanningFails \/ SubmitPlan)
    <3>1. /\ [kind |-> "seal", tasks |-> Planned] \in Commands /\ [kind |-> "failPlanning"] \in Commands
      BY DEF Commands, Planned, Tasks
    <3> QED
      BY <2>o, <3>1 DEF PlanningFails, SubmitPlan
  <2>3. ~DispatchClones
    <3>1. <<>> \in Seq(Commands)
      BY EmptySeq
    <3>2. FetchCommands \in Seq(Commands)
      BY DispatchedCommands
    <3> QED
      BY <2>s, <3>1, <3>2 DEF DispatchClones
  <2>4. ~DispatchRunbooks
    <3>1. RunbooksStarted \in Commands /\ <<RunbooksStarted>> \o SpawnFailure \in Seq(Commands)
      BY DispatchedCommands
    <3> QED
      BY <2>o, <2>s, <2>u, <3>1 DEF DispatchRunbooks
  <2>5. ~ReportRunbooks
    <3>1. \A ok \in BOOLEAN : RunbooksCompleted(ok) \in Commands
      BY DEF RunbooksCompleted, Commands, Tasks
    <3> QED
      BY <2>o, <3>1 DEF ReportRunbooks
  <2>6. ~TakeFetch
    BY <1>2 DEF TakeFetch, Taking
  <2> QED
    BY <2>1, <2>2, <2>3, <2>4, <2>5, <2>6, NextSteps
<1> QED
  BY <1>1, <1>2 DEF StartupCommandTaken

LEMMA NothingRefusedStep ==
  TypeOK /\ WorkInv /\ OrderInv /\ [Next]_vars /\ StartupCommandTaken
    => status' # status \/ Over(status)
<1> SUFFICES ASSUME TypeOK, WorkInv, OrderInv, [Next]_vars, StartupCommandTaken
             PROVE  status' # status \/ Over(status)
  OBVIOUS
<1>1. CASE TakeSeal \/ TakeFailPlanning \/ TakeStart \/ TakeComplete
  <2>1. InOrder
    BY <1>1 DEF TakeSeal, TakeFailPlanning, TakeStart, TakeComplete, Taking, OrderInv
  <2> QED
    BY <1>1, <2>1, PlanOrder, StartOrder, CompleteOrder
<1>2. CASE \E result \in {"ok", "failed"} : FetchEnds(result)
  <2>1. InOrder
    BY <1>2 DEF FetchEnds, OrderInv
  <2> QED
    BY <1>2, <2>1, FetchOrder
<1> QED
  BY <1>1, <1>2, AnswersWhatItTakes

(* The runloop refuses a startup command only when startup is over: the    *)
(* CLI and the thread of the runbooks send the start of a task before the  *)
(* work that ends it, and the CLI starts nothing before the plan is sealed. *)
THEOREM NothingIsRefused == Spec => NothingRefused
<1>1. TypeOK /\ WorkInv /\ OrderInv /\ [Next]_vars
        => [StartupCommandTaken => status' # status \/ Over(status)]_vars
  BY NothingRefusedStep
<1> QED
  BY <1>1, StartupTypeCorrect, WorkInit, WorkStep, OrderInit, OrderStep, PTL
     DEF Spec, NothingRefused
=============================================================================
