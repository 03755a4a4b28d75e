------------------------------- MODULE Chain -------------------------------
(***************************************************************************)
(* The chain of a surfnet: the open slot, the blocks it closes, the time   *)
(* travels that skip slots, the sparse block store and what a restart      *)
(* recovers from it, and the transactions on their way from processed to   *)
(* finalized.                                                              *)
(*                                                                         *)
(* Actors: the block production runloop, which owns every step that closes *)
(* a slot or runs a transaction; RPC threads, which read the chain, queue  *)
(* commands for the runloop and reset the network under the write lock;    *)
(* and the operator, who stops, kills and restarts the process on the same *)
(* database.                                                               *)
(*                                                                         *)
(* A block's height stands for its blockhash and its parent's: the server  *)
(* derives both from it.  Times count in seconds, the unit of a Clock.     *)
(* The lag that Alpenglow adds to every block time is left out: it is the  *)
(* same constant on a stored, a streamed and a reconstructed block.        *)
(***************************************************************************)
EXTENDS WalksOfChain, Sequences

CONSTANTS
  Tx,                     \* transactions, each with its own signature
  InitialSlot,            \* INITIAL_SLOT, where an offline chain opens
  FinalizationThreshold,  \* finalization_slot_threshold
  CheckpointInterval,     \* checkpoint_interval_slots
  SlotTimes,              \* slot times an operator may set; Init uses one of them
  WallTimes,              \* readings of the host's clock, and times asked for
  RemoteBlocks,           \* epoch infos a remote RPC may answer with: [slot, height]
  TravelForms,            \* forms of TimeTravelConfig in use
  MaxSlot,                \* bound: no travel past it, no slot closed at it
  Headroom,               \* bound: slots kept for closing after a travel or a transaction
  MaxTravels, MaxResets, MaxStops,       \* bounds: how often each happens
  MaxLandingFailures, MaxBlockFailures

ASSUME ChainAssumption ==
  /\ InitialSlot \in Nat \ {0}
  /\ FinalizationThreshold \in Nat \ {0}
  /\ CheckpointInterval \in Nat \ {0}
  /\ SlotTimes \subseteq Nat \ {0} /\ SlotTimes # {}
  /\ WallTimes \subseteq Nat /\ WallTimes # {}
  /\ RemoteBlocks \subseteq [slot : Nat, height : Nat]
  /\ TravelForms \subseteq {"absoluteSlot", "absoluteTimestamp", "absoluteSlotAt"}
  /\ MaxSlot \in Nat /\ Headroom \in Nat
  /\ MaxTravels \in Nat /\ MaxResets \in Nat /\ MaxStops \in Nat
  /\ MaxLandingFailures \in Nat /\ MaxBlockFailures \in Nat

VARIABLES
  has_remote,          \* the process was started with a remote RPC
  remote_slot,         \* the slot of the remote's last answer, or NoSlot
  (* In memory, with open and landings, whose entries are [parent, time] *)
  tip,                 \* chain_tip.index: the height of the last block
  updated_at,          \* the time the open slot opened at
  slot_time,
  genesis_slot, genesis_updated_at,
  restarts,            \* slot a restart reopened -> time
  last_checkpoint_slot,
  confirmation_queue,  \* transactions processed in the open slot
  finalization_queue,  \* [slot, tx] of closed slots, not finalized yet
  (* In the database *)
  blocks,              \* slot -> [height, parent, time, signatures], sparse
  transactions,        \* tx -> slot that processed it
  landings_db, restarts_db,
  latest_slot,         \* slot_checkpoint["latest_slot"], or NoSlot
  anchor,              \* slot_checkpoint's genesis entries: [slot, height, time]
  (* Between the RPC threads and the runloop *)
  travels_queued,      \* clocks of UpdateInternalClock commands not handled yet
  travelling,          \* the clock whose block is closed but not applied, or NoClock
  (* What clients were told, and counters of the bounds *)
  streamed,            \* slot -> [height, parent, time] of the blocks Geyser was given
  created,             \* [slot, parent] of the last bank announced
  rooted,              \* slot -> how often this process announced it as rooted
  finalized,           \* transactions whose finalization was announced
  interrupted,         \* transactions whose queue a stop of the process lost
  left_open,           \* slots with a stored block that a refused checkpoint left open
  travels, resets, stops, landing_failures, block_failures

remote_rpc == <<has_remote, remote_slot>>
memory == <<open, tip, updated_at, slot_time, genesis_slot, genesis_updated_at, landings,
            restarts, last_checkpoint_slot, confirmation_queue, finalization_queue>>
database == <<blocks, transactions, landings_db, restarts_db, latest_slot, anchor>>
channel == <<travels_queued, travelling>>
told == <<streamed, created, rooted, finalized, interrupted, left_open>>
counters == <<travels, resets, stops, landing_failures, block_failures>>
vars == <<remote_rpc, memory, database, channel, told, counters>>

NoSlot == -1
NoClock == [slot |-> NoSlot, time |-> NoSlot]

-----------------------------------------------------------------------------
(* Reading the chain *)

(* slot_for_commitment at finalized: threshold - 1 blocks below the last. *)
FinalizedAt(ls, slot) == BlocksBack(ls, SatSub(slot, 1), FinalizationThreshold - 1)
FinalizedSlot == FinalizedAt(landings, open)

(* calculate_block_time_for_slot: slot_time per slot from the time its run *)
(* opened at, the last landing or restart at or before it, else genesis.   *)
(* A restart at a landing's slot came after it.                            *)
RunTimeOfLanding(start) ==  \* mutant: the landing's time wins
  IF start \in DOMAIN landings THEN landings[start].time ELSE restarts[start]

RunTime(start) == IF start \in DOMAIN restarts THEN restarts[start] ELSE landings[start].time

BlockTime(slot) ==
  LET starts == {s \in DOMAIN landings \cup DOMAIN restarts : s <= slot}
      last   == CHOOSE s \in starts : \A r \in starts : r <= s
  IN  IF starts # {} /\ last >= genesis_slot
      THEN RunTime(last) + (slot - last) * slot_time
      ELSE genesis_updated_at + SatSub(slot, genesis_slot) * slot_time

(* reconstruct_empty_block: one height per block below the one that the    *)
(* open slot will hold.                                                    *)
BlocksAfter(slot) == BlocksIn(landings, slot + 1, open)

ReconstructBlock(slot) ==
  [height |-> SatSub(tip + 1, BlocksAfter(slot)),
   parent |-> ParentSlot(landings, slot),
   time   |-> BlockTime(slot)]

-----------------------------------------------------------------------------
(* Starting the process *)

(* The chain a remote gives: it opens the slot after the remote's block,   *)
(* on top of it (at height 1 at least).                                    *)
RemoteGenesis(remote, now) ==
  [slot |-> remote.slot + 1,
   height |-> IF remote.height = 0 THEN 1 ELSE remote.height,
   time |-> now]

(* The chain of an empty store, before a remote is asked. *)
DefaultGenesis(now) == [slot |-> InitialSlot, height |-> 1, time |-> now]

(* What an offline reset starts over from. *)
ResetGenesis(now) == [slot |-> InitialSlot, height |-> InitialSlot, time |-> now]

(* A remote's chain only grows: no answer is older than the one before.    *)
RemoteAnswers(since) == {remote \in RemoteBlocks : remote.slot >= since}

(* The chain a process starts on an empty store, or a reset starts over    *)
(* from.                                                                   *)
NewChains(online, since, offline, now) ==
  IF online THEN {RemoteGenesis(remote, now) : remote \in RemoteAnswers(since)} ELSE {offline}

Answered(online, chain, before) == IF online THEN chain.slot - 1 ELSE before

RemoteOrNot == IF RemoteBlocks = {} THEN {FALSE} ELSE BOOLEAN

(* build on an empty store, then initialize if there is a remote. *)
Init ==
  \E now \in WallTimes :
    /\ has_remote \in RemoteOrNot
    /\ anchor \in NewChains(has_remote, NoSlot, DefaultGenesis(now), now)
    /\ remote_slot = Answered(has_remote, anchor, NoSlot)
    /\ open = anchor.slot /\ genesis_slot = anchor.slot
    /\ tip = anchor.height
    /\ updated_at = now /\ genesis_updated_at = now
    /\ slot_time \in SlotTimes
    /\ landings = EmptyMap /\ restarts = EmptyMap
    /\ landings_db = EmptyMap /\ restarts_db = EmptyMap
    /\ blocks = EmptyMap /\ transactions = EmptyMap
    /\ latest_slot = NoSlot /\ last_checkpoint_slot = 0
    /\ confirmation_queue = {} /\ finalization_queue = {}
    /\ travels_queued = <<>> /\ travelling = NoClock
    /\ streamed = EmptyMap /\ rooted = EmptyMap
    /\ created = [slot |-> open, parent |-> open - 1]
    /\ finalized = {} /\ interrupted = {} /\ left_open = {}
    /\ travels = 0 /\ resets = 0 /\ stops = 0
    /\ landing_failures = 0 /\ block_failures = 0

-----------------------------------------------------------------------------
(* The block production runloop *)

OpenHeader ==
  [height |-> tip + 1, parent |-> ParentSlot(landings, open), time |-> updated_at]

(* Only blocks with transactions are stored. *)
BlocksStoredAtNextSlot ==  \* mutant: filed under the slot that opens
  IF confirmation_queue = {} THEN blocks
  ELSE Put(blocks, open + 1, [height |-> OpenHeader.height, parent |-> OpenHeader.parent,
                              time |-> OpenHeader.time, signatures |-> confirmation_queue])

BlocksStored ==
  IF confirmation_queue = {} THEN blocks
  ELSE Put(blocks, open, [height |-> OpenHeader.height, parent |-> OpenHeader.parent,
                          time |-> OpenHeader.time, signatures |-> confirmation_queue])

(* confirm_transactions: what is processed moves on under the open slot. *)
ConfirmedOnly == [slot : {open}, tx : confirmation_queue]  \* mutant: drops the older ones

Confirmed == finalization_queue \cup [slot : {open}, tx : confirmation_queue]

(* The finalized slot once the open slot is closed. *)
FinalBeforeClose == FinalizedAt(landings, open)  \* mutant: read before the slot opens

FinalAfterClose == FinalizedAt(landings, open + 1)

(* The blocks after the parent block's root, up to the new root. *)
NewRoots ==
  LET before == BlocksBack(landings, OpenHeader.parent, FinalizationThreshold - 1)
      from   == IF before + 1 > genesis_slot THEN before + 1 ELSE genesis_slot
  IN  BlocksWithin(landings, from, FinalAfterClose)

(* confirm_current_block: the open slot's block is built on the tip; the   *)
(* transactions processed in it are confirmed with it, and it is stored if *)
(* there are any; the next slot opens; what became final is announced.     *)
CloseBlock ==
  /\ open < MaxSlot
  /\ tip' = tip + 1
  /\ updated_at' = updated_at + slot_time
  /\ blocks' = BlocksStored
  /\ IF SatSub(open, last_checkpoint_slot) >= CheckpointInterval
     THEN latest_slot' = open /\ last_checkpoint_slot' = open
     ELSE UNCHANGED <<latest_slot, last_checkpoint_slot>>
  /\ open' = open + 1
  /\ confirmation_queue' = {}
  /\ finalization_queue' = {q \in Confirmed : q.slot > FinalAfterClose}
  /\ finalized' = finalized \cup {q.tx : q \in {e \in Confirmed : e.slot <= FinalAfterClose}}
  /\ streamed' = Put(streamed, open, OpenHeader)
  /\ rooted' = [s \in DOMAIN rooted \cup NewRoots |->
                  (IF s \in DOMAIN rooted THEN rooted[s] ELSE 0)
                    + (IF s \in NewRoots THEN 1 ELSE 0)]
  /\ created' = [slot |-> open + 1, parent |-> ParentSlot(landings, open + 1)]
  /\ left_open' = left_open \ {open}
  /\ UNCHANGED <<slot_time, genesis_slot, genesis_updated_at, landings, restarts,
                 transactions, landings_db, restarts_db, anchor, interrupted>>

(* A clock tick, a slot step or a block owed to a transaction. *)
CloseSlot ==
  /\ travelling = NoClock
  /\ CloseBlock
  /\ UNCHANGED <<remote_rpc, channel, counters>>

(* Execution of a transaction, an airdrop or a bundle that commits: the    *)
(* transaction is stored at once, under the open slot.  A duplicate of one *)
(* that was already processed is dropped.                                  *)
ProcessTransaction(t) ==
  /\ travelling = NoClock
  /\ open + Headroom <= MaxSlot
  /\ t \notin DOMAIN transactions
  /\ transactions' = Put(transactions, t, open)
  /\ confirmation_queue' = confirmation_queue \cup {t}
  /\ UNCHANGED <<open, tip, updated_at, slot_time, genesis_slot, genesis_updated_at, landings,
                 restarts, last_checkpoint_slot, finalization_queue, blocks, landings_db,
                 restarts_db, latest_slot, anchor, channel, told, counters, remote_rpc>>

(* UpdateInternalClock, first half: the open slot's block is closed, in a  *)
(* write access of its own.                                                *)
TakeTravel ==
  /\ travelling = NoClock
  /\ travels_queued # <<>>
  /\ travelling' = Head(travels_queued)
  /\ travels_queued' = Tail(travels_queued)

CloseBeforeTravel ==
  /\ TakeTravel
  /\ CloseBlock
  /\ UNCHANGED <<remote_rpc, counters>>

(* The store refuses the block. *)
BlockRefused == confirmation_queue # {} /\ UNCHANGED <<blocks, left_open>>

(* It took the block, if there is one, and refuses the checkpoint that is  *)
(* due.                                                                    *)
CheckpointRefused ==
  /\ SatSub(open, last_checkpoint_slot) >= CheckpointInterval
  /\ blocks' = BlocksStored
  /\ left_open' = IF confirmation_queue = {} THEN left_open ELSE left_open \cup {open}

(* That block is not closed: the tip has moved and the transactions count  *)
(* as confirmed, the slot stays open and nothing is announced.  The error  *)
(* is logged and the travel goes on.  (An error later than these leaves    *)
(* the chain as CloseBeforeTravel does.)                                   *)
CloseBeforeTravelFails ==
  /\ block_failures < MaxBlockFailures
  /\ block_failures' = block_failures + 1
  /\ TakeTravel
  /\ BlockRefused \/ CheckpointRefused
  /\ tip' = tip + 1
  /\ updated_at' = updated_at + slot_time
  /\ confirmation_queue' = {}
  /\ finalization_queue' = Confirmed
  /\ UNCHANGED <<open, slot_time, genesis_slot, genesis_updated_at, landings, restarts,
                 last_checkpoint_slot, transactions, landings_db, restarts_db, latest_slot,
                 anchor, streamed, created, rooted, finalized, interrupted, travels, resets,
                 stops, landing_failures, remote_rpc>>

(* Where the travel lands: the clock's slot, or the open one if that is    *)
(* past it by now; the block there is built on the last one before the     *)
(* open slot, even if the open slot was itself a landing.                  *)
LandingSlot == IF travelling.slot > open THEN travelling.slot ELSE open

Landing == [parent |-> BlockAtOrBefore(landings, SatSub(open, 1)),
            time   |-> travelling.time]

NotYetClosed(f) == {s \in DOMAIN f : s >= open}

(* The slot is announced only if the chain moved. *)
CreatedByTravel ==
  IF LandingSlot > open THEN [slot |-> LandingSlot, parent |-> Landing.parent] ELSE created

(* Second half, apply_time_travel and travel_to: a landing or restart at   *)
(* the open slot is replaced by the new landing.                           *)
ApplyTravel ==
  /\ travelling # NoClock
  /\ travelling' = NoClock
  /\ updated_at' = travelling.time
  /\ landings' = Put(Drop(landings, NotYetClosed(landings)), LandingSlot, Landing)
  /\ restarts' = Drop(restarts, NotYetClosed(restarts))
  /\ landings_db' = Put(Drop(landings_db, NotYetClosed(landings)), LandingSlot, Landing)
  /\ restarts_db' = Drop(restarts_db, NotYetClosed(restarts))
  /\ open' = LandingSlot
  /\ created' = CreatedByTravel
  /\ UNCHANGED <<tip, slot_time, genesis_slot, genesis_updated_at, last_checkpoint_slot,
                 confirmation_queue, finalization_queue, blocks, transactions, latest_slot,
                 anchor, travels_queued, streamed, rooted, finalized, interrupted, left_open,
                 counters, remote_rpc>>

(* The store refuses the landing: memory is left as it was, the records of *)
(* a landing or restart at the open slot are gone from the store.          *)
ApplyTravelFails ==
  /\ travelling # NoClock
  /\ landing_failures < MaxLandingFailures
  /\ landing_failures' = landing_failures + 1
  /\ travelling' = NoClock
  /\ landings_db' = Drop(landings_db, NotYetClosed(landings) \ {LandingSlot})
  /\ restarts_db' = Drop(restarts_db, NotYetClosed(restarts))
  /\ UNCHANGED <<memory, blocks, transactions, latest_slot, anchor, travels_queued, told,
                 travels, resets, stops, block_failures, remote_rpc>>

(* CommandClock(UpdateSlotInterval) *)
UpdateSlotInterval ==
  /\ travelling = NoClock
  /\ slot_time' \in SlotTimes \ {slot_time}
  /\ UNCHANGED <<open, tip, updated_at, genesis_slot, genesis_updated_at, landings, restarts,
                 last_checkpoint_slot, confirmation_queue, finalization_queue, database,
                 channel, told, counters, remote_rpc>>

-----------------------------------------------------------------------------
(* RPC threads *)

(* The clocks a surfnet_timeTravel may ask for, computed from the chain as *)
(* it stands when the request reads it.                                    *)
RequestedClocks ==
  LET slots == open..(MaxSlot - Headroom) IN
  {[slot |-> s, time |-> updated_at + (s - open) * slot_time] :
      s \in {s \in slots : "absoluteSlot" \in TravelForms}}
  \cup
  {[slot |-> open + (t - updated_at) \div slot_time, time |-> t] :
      t \in {t \in WallTimes : "absoluteTimestamp" \in TravelForms /\ t >= updated_at}}
  \cup
  {[slot |-> s, time |-> t] :
      s \in {s \in slots : "absoluteSlotAt" \in TravelForms}, t \in WallTimes}

(* The clock is queued; the chain may move before the runloop gets to it.  *)
RequestTravel ==
  /\ travels < MaxTravels
  /\ travels' = travels + 1
  /\ \E clock \in RequestedClocks :
       /\ clock.slot + Headroom <= MaxSlot
       /\ travels_queued' = Append(travels_queued, clock)
  /\ UNCHANGED <<memory, database, travelling, told, resets, stops, landing_failures,
                 block_failures, remote_rpc>>

(* surfnet_resetNetwork: the chain, its transactions and everything stored *)
(* about them are dropped, and a chain opens after the remote's block, or  *)
(* at INITIAL_SLOT.  It takes the write lock from an RPC thread, between   *)
(* any two steps of the runloop.                                           *)
ResetNetwork ==
  \E now \in WallTimes :
    /\ resets < MaxResets
    /\ resets' = resets + 1
    /\ anchor' \in NewChains(has_remote, remote_slot, ResetGenesis(now), now)
    /\ remote_slot' = Answered(has_remote, anchor', remote_slot)
    /\ genesis_slot' = anchor'.slot /\ open' = anchor'.slot /\ tip' = anchor'.height
    /\ updated_at' = now /\ genesis_updated_at' = now
    /\ blocks' = EmptyMap /\ transactions' = EmptyMap
    /\ confirmation_queue' = {} /\ finalization_queue' = {}
    /\ landings' = EmptyMap /\ landings_db' = EmptyMap
    /\ restarts' = EmptyMap /\ restarts_db' = EmptyMap
    /\ latest_slot' = NoSlot
    /\ last_checkpoint_slot' = anchor'.slot
    /\ created' = [slot |-> open', parent |-> open' - 1]
    /\ streamed' = EmptyMap /\ rooted' = EmptyMap
    /\ finalized' = {} /\ interrupted' = {} /\ left_open' = {}
    /\ UNCHANGED <<slot_time, channel, travels, stops, landing_failures, block_failures,
                   has_remote>>

-----------------------------------------------------------------------------
(* Stops and restarts of the process *)

(* The slots a chain found in the store may reopen at, of which it takes   *)
(* the last: the one after the last block, checkpointed or stored, or the  *)
(* one a time travel landed on since.                                      *)
LastStored(checkpoint) ==  \* mutant: reopens the last block's own slot
  ({checkpoint} \ {NoSlot}) \cup DOMAIN blocks \cup DOMAIN landings_db

StoredEnds(checkpoint) ==
  {s + 1 : s \in ({checkpoint} \ {NoSlot}) \cup DOMAIN blocks} \cup DOMAIN landings_db

(* The height of the chain tip when the chain reopens at a slot. *)
TipBySlots(slot) == anchor.height + (slot - anchor.slot)  \* mutant: counts skipped slots

RecoveredTip(slot) == anchor.height + BlocksIn(landings_db, anchor.slot, slot - 1)

(* Where the periodic checkpoint counts from: the last block found, 0 if   *)
(* there is none.                                                          *)
CheckpointOrZero(last) == IF last = NoSlot THEN 0 ELSE last

CheckpointFound(checkpoint) ==
  {s \in {checkpoint} \cup DOMAIN blocks :
     \A r \in {checkpoint} \cup DOMAIN blocks : r <= s}

Start(chain, slot, height, now) ==
  /\ anchor' = chain
  /\ genesis_slot' = chain.slot /\ genesis_updated_at' = chain.time
  /\ open' = slot /\ tip' = height /\ updated_at' = now
  /\ created' = [slot |-> slot, parent |-> ParentSlot(landings_db, slot)]

(* build on a store that holds a chain: it reopens where it stopped, now.  *)
(* Then initialize: a chain still at its genesis is opened anew on the     *)
(* remote's block, read later.                                             *)
Recover(checkpoint) ==
  \E now, later \in WallTimes, slot \in StoredEnds(checkpoint) :
    /\ now <= later
    /\ \A s \in StoredEnds(checkpoint) : s <= slot
    /\ restarts' = Put(restarts_db, slot, now)
    /\ IF has_remote' /\ slot = anchor.slot
       THEN /\ \E remote \in RemoteAnswers(remote_slot) :
                 LET chain == RemoteGenesis(remote, later)
                 IN  Start(chain, chain.slot, chain.height, later)
            /\ remote_slot' = Answered(TRUE, anchor', remote_slot)
            /\ streamed' = EmptyMap
       ELSE /\ Start(anchor, slot, RecoveredTip(slot), now)
            /\ UNCHANGED remote_slot
            /\ streamed' = Drop(streamed, {s \in DOMAIN streamed : s >= slot})

(* build on a store where no chain is found: a new one starts. *)
StartOver(checkpoint) ==
  \E now \in WallTimes :
    /\ StoredEnds(checkpoint) = {}
    /\ \E chain \in NewChains(has_remote', remote_slot, DefaultGenesis(now), now) :
         Start(chain, chain.slot, chain.height, now)
    /\ remote_slot' = Answered(has_remote', anchor', remote_slot)
    /\ restarts' = restarts_db
    /\ streamed' = EmptyMap

(* The process ends and is started again; "checkpoint" is the latest_slot  *)
(* entry it leaves.                                                        *)
StopAndRestart(checkpoint) ==
  /\ stops < MaxStops
  /\ stops' = stops + 1
  /\ has_remote' \in RemoteOrNot
  /\ Recover(checkpoint) \/ StartOver(checkpoint)
  /\ slot_time' \in SlotTimes
  /\ landings' = landings_db
  /\ restarts_db' = restarts'
  /\ latest_slot' = checkpoint
  /\ \E last \in CheckpointFound(checkpoint) :
       last_checkpoint_slot' = CheckpointOrZero(last)
  /\ confirmation_queue' = {} /\ finalization_queue' = {}
  /\ travels_queued' = <<>> /\ travelling' = NoClock
  /\ rooted' = EmptyMap
  /\ interrupted' = interrupted \cup confirmation_queue
  /\ UNCHANGED <<blocks, transactions, landings_db, finalized, left_open, travels, resets,
                 landing_failures, block_failures>>

(* Terminate: shutdown checkpoints the last block before the process ends. *)
ShutdownAndRestart ==
  /\ travelling = NoClock
  /\ StopAndRestart(ParentSlot(landings, open))

(* The process is killed between two write accesses. *)
CrashAndRestart == StopAndRestart(latest_slot)

Next ==
  \/ CloseSlot
  \/ \E t \in Tx : ProcessTransaction(t)
  \/ CloseBeforeTravel
  \/ CloseBeforeTravelFails
  \/ ApplyTravel
  \/ ApplyTravelFails
  \/ UpdateSlotInterval
  \/ RequestTravel
  \/ ResetNetwork
  \/ ShutdownAndRestart
  \/ CrashAndRestart

Spec == Init /\ [][Next]_vars

(* The clock thread keeps ticking and the runloop keeps handling commands. *)
FairSpec == Spec /\ WF_vars(CloseSlot) /\ WF_vars(CloseBeforeTravel) /\ WF_vars(ApplyTravel)

-----------------------------------------------------------------------------
(* Properties *)

(* What a restart of the process on this database would recompute as the   *)
(* height of the block at a slot.                                          *)
HeightFromAnchor(slot) == anchor.height + BlocksIn(landings_db, anchor.slot, slot)

(* Types of the chain's state. *)
TypeOK ==
  /\ has_remote \in BOOLEAN /\ remote_slot \in Nat \cup {NoSlot}
  /\ open \in Nat /\ tip \in Nat /\ updated_at \in Nat /\ slot_time \in SlotTimes
  /\ genesis_slot \in Nat /\ genesis_updated_at \in Nat /\ last_checkpoint_slot \in Nat
  /\ DOMAIN landings \subseteq Nat
  /\ landings \in [DOMAIN landings -> [parent : Nat, time : Nat]]
  /\ DOMAIN landings_db \subseteq Nat
  /\ landings_db \in [DOMAIN landings_db -> [parent : Nat, time : Nat]]
  /\ DOMAIN restarts \subseteq Nat /\ restarts \in [DOMAIN restarts -> Nat]
  /\ DOMAIN restarts_db \subseteq Nat /\ restarts_db \in [DOMAIN restarts_db -> Nat]
  /\ confirmation_queue \subseteq Tx
  /\ finalization_queue \subseteq [slot : Nat, tx : Tx]
  /\ DOMAIN blocks \subseteq Nat
  /\ blocks \in [DOMAIN blocks -> [height : Nat, parent : Nat, time : Nat,
                                   signatures : SUBSET Tx]]
  /\ DOMAIN transactions \subseteq Tx /\ transactions \in [DOMAIN transactions -> Nat]
  /\ latest_slot \in Nat \cup {NoSlot}
  /\ anchor \in [slot : Nat, height : Nat, time : Nat]
  /\ travels_queued \in Seq([slot : Nat, time : Nat])
  /\ travelling \in [slot : Nat, time : Nat] \cup {NoClock}
  /\ DOMAIN streamed \subseteq Nat
  /\ streamed \in [DOMAIN streamed -> [height : Nat, parent : Nat, time : Nat]]
  /\ created \in [slot : Nat, parent : Nat]
  /\ DOMAIN rooted \subseteq Nat /\ rooted \in [DOMAIN rooted -> Nat]
  /\ finalized \subseteq Tx /\ interrupted \subseteq Tx /\ left_open \subseteq Nat
  /\ travels \in Nat /\ resets \in Nat /\ stops \in Nat
  /\ landing_failures \in Nat /\ block_failures \in Nat

(* Height (which fixes both hashes) and parent of a rebuilt block.         *)
RebuiltAt(s) ==
  LET rebuilt == ReconstructBlock(s) IN
  rebuilt.height = streamed[s].height /\ rebuilt.parent = streamed[s].parent

(* calculate_block_time_for_slot gives a block's time "as the stream gave  *)
(* it".                                                                    *)
TimedAsStreamed(s) == BlockTime(s) = streamed[s].time

(* Sparse storage: an empty block is not stored, and what getBlock         *)
(* rebuilds for a slot (height, parent and time) is what the block that    *)
(* closed the slot was streamed with, whatever travels and restarts came   *)
(* since.                                                                  *)
RebuiltAsStreamed == \A s \in DOMAIN streamed : RebuiltAt(s) /\ TimedAsStreamed(s)

(* A block that was stored is never produced again: no restart reopens its *)
(* slot or an earlier one, and no travel jumps over it.  Not so if the     *)
(* store took the block and refused the checkpoint after it: the slot is   *)
(* still open, and the travel may skip it.                                 *)
StoredBlocksAreFinal ==
  \A s \in DOMAIN blocks \ left_open : s < open /\ HoldsBlock(landings, s)

(* A restart on this database, at any moment, would count every stored     *)
(* block at the height it was stored with.                                 *)
RestartKeepsHeights == \A s \in DOMAIN blocks : blocks[s].height = HeightFromAnchor(s)

(* What waits to be confirmed ran in the open slot, and what waits to be   *)
(* finalized sits in a closed block that is not final.                     *)
QueuesMatchChain ==
  /\ \A t \in confirmation_queue : t \in DOMAIN transactions /\ transactions[t] = open
  /\ \A q \in finalization_queue :
       /\ q.tx \in DOMAIN transactions /\ transactions[q.tx] = q.slot
       /\ FinalizedSlot < q.slot /\ q.slot < open
       /\ HoldsBlock(landings, q.slot)

(* confirmation_status: a transaction whose slot is closed is reported     *)
(* confirmed, so the block of that slot holds it.  Not so if a stop of the *)
(* process came between its execution and the close: it is stored, but its *)
(* queue was in memory only.                                               *)
ConfirmedInBlocks ==
  \A t \in DOMAIN transactions \ interrupted :
    transactions[t] < open =>
      /\ transactions[t] \in DOMAIN blocks
      /\ t \in blocks[transactions[t]].signatures

(* No travel, reset or restart strands a transaction in a queue whose slot *)
(* has gone by, and one that left the confirmation queue is in the block   *)
(* of the slot it ran in.                                                  *)
TransactionsFollowBlocks == TypeOK /\ QueuesMatchChain /\ ConfirmedInBlocks

(* Roots are announced once each, without a gap along the chain, up to the *)
(* finalized block.                                                        *)
RootsFollowChain ==
  /\ (DOMAIN rooted # {} \/ (stops = 0 /\ FinalizedSlot >= genesis_slot))
       => FinalizedSlot \in DOMAIN rooted
  /\ \A s \in DOMAIN rooted :
       /\ rooted[s] = 1 /\ s <= FinalizedSlot
       /\ \/ ParentSlot(landings, s) \in DOMAIN rooted
          \/ \A r \in DOMAIN rooted : s <= r

InFlight(t) == t \in confirmation_queue \/ \E q \in finalization_queue : q.tx = t

(* While blocks are produced, a processed transaction does not stay        *)
(* unfinalized for ever, and it leaves the queues only as finalized, or    *)
(* with a reset or a stop of the process.                                  *)
ProcessedLeadsToFinalized ==
  \A t \in Tx : InFlight(t) ~> (t \in finalized \/ resets > 0 \/ stops > 0)
=============================================================================
