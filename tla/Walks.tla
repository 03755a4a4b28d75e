------------------------------- MODULE Walks -------------------------------
(***************************************************************************)
(* The walks over the landings that the server computes slots with, one    *)
(* step per time travel rather than per slot.  A walk of the code goes     *)
(* over the keys of a BTreeMap in their order; here it goes over the slots *)
(* in that order and a slot that is no landing changes nothing.  Module    *)
(* Slots states what the walks are meant to return.                        *)
(***************************************************************************)
EXTENDS Slots, Sequences

(* blocks_back, past the slot l. *)
BackShort(landings, walk, l) ==  \* mutant: a crossed run counts one block too few
  IF l \notin DOMAIN landings \/ walk.done THEN walk
  ELSE IF walk.n <= walk.slot - l THEN [walk EXCEPT !.done = TRUE]
  ELSE [slot |-> landings[l].parent, n |-> walk.n - (walk.slot - l), done |-> FALSE]

(* blocks_back, past the slot l: a landing ends the walk inside the run    *)
(* that holds the n-th block, else it is crossed to its parent.            *)
Back(landings, walk, l) ==
  IF l \notin DOMAIN landings \/ walk.done THEN walk
  ELSE IF walk.n <= walk.slot - l THEN [walk EXCEPT !.done = TRUE]
  ELSE [slot |-> landings[l].parent, n |-> walk.n - (walk.slot - l + 1), done |-> FALSE]

(* blocks_back: from the last block at or before the slot, newest landing  *)
(* first.                                                                  *)
WalkBlocksBack(landings, slot, n) ==
  LET start == BlockAtOrBefore(landings, slot)
      walk[i \in 0..(start + 1)] ==
        IF i = 0 THEN [slot |-> start, n |-> n, done |-> FALSE]
        ELSE Back(landings, walk[i - 1], start + 1 - i)
  IN SatSub(walk[start + 1].slot, walk[start + 1].n)

(* block_runs, past the slot l: a landing ends the run that its parent is  *)
(* the last block of, and starts the next one.                             *)
RunsPast(landings, walk, l, to) ==
  IF l \notin DOMAIN landings \/ walk.done THEN walk
  ELSE LET end == IF landings[l].parent < to THEN landings[l].parent ELSE to
           runs == IF end >= walk.start THEN Append(walk.runs, <<walk.start, end>>)
                   ELSE walk.runs
       IN IF l > to THEN [walk EXCEPT !.runs = runs, !.done = TRUE]
          ELSE [start |-> IF walk.start < l THEN l ELSE walk.start, runs |-> runs, done |-> FALSE]

(* The last slot a travel landed on, 0 if there was none. *)
LastLanding(landings) ==
  CHOOSE l \in DOMAIN landings \cup {0} : \A k \in DOMAIN landings : k <= l

(* block_runs: the runs of consecutive slots holding a block in from..to,  *)
(* in order, as <<first, last>> pairs; oldest landing first.               *)
BlockRuns(landings, from, to) ==
  LET last == LastLanding(landings)
      walk[i \in 0..last] ==
        IF i = 0 THEN [start |-> from, runs |-> <<>>, done |-> FALSE]
        ELSE IF i <= from THEN walk[i - 1]
        ELSE RunsPast(landings, walk[i - 1], i, to)
  IN IF ~walk[last].done /\ to >= walk[last].start
     THEN Append(walk[last].runs, <<walk[last].start, to>>)
     ELSE walk[last].runs

(* blocks_in: the lengths of the runs, summed. *)
WalkBlocksIn(landings, from, to) ==
  LET runs == BlockRuns(landings, from, to)
      sum[i \in 0..Len(runs)] ==
        IF i = 0 THEN 0 ELSE sum[i - 1] + (runs[i][2] - runs[i][1] + 1)
  IN sum[Len(runs)]
=============================================================================
