----------------------------- MODULE ChainProofs -----------------------------
(***************************************************************************)
(* Safety of the chain, for any transactions, slot times, thresholds,      *)
(* remotes and number of travels, resets, stops and refused writes.        *)
(*                                                                         *)
(* Three things carry the proofs.  The landings stay in the order of the   *)
(* chain, so that a slot holds a block if no landing skips it, and a       *)
(* travel, a lost landing or a restart skips no slot that held one.  What  *)
(* was stored since genesis lies past the anchor, unless the anchor is a   *)
(* remote's block, in which case a chain opened anew on the remote is      *)
(* opened past it.  And a transaction in the open slot is queued, unless a *)
(* stop of the process lost its queue.                                     *)
(*                                                                         *)
(* As the landings stay in order, the walks over them return what module   *)
(* Slots defines.                                                          *)
(***************************************************************************)
EXTENDS Chain, SlotProofs

-----------------------------------------------------------------------------
(* Maps *)

IsMap(f, K, V) == DOMAIN f \subseteq K /\ f \in [DOMAIN f -> V]

LEMMA PutMap ==
  ASSUME NEW K, NEW V, NEW f, IsMap(f, K, V), NEW k \in K, NEW v \in V
  PROVE  IsMap(Put(f, k, v), K, V)
BY DEF IsMap, Put

LEMMA DropMap ==
  ASSUME NEW K, NEW V, NEW f, IsMap(f, K, V), NEW D
  PROVE  IsMap(Drop(f, D), K, V)
BY DEF IsMap, Drop

LEMMA NoMap ==
  ASSUME NEW K, NEW V
  PROVE  DOMAIN EmptyMap = {} /\ IsMap(EmptyMap, K, V)
BY DEF IsMap, EmptyMap

-----------------------------------------------------------------------------
(* Types *)

Stamp == [parent : Nat, time : Nat]
Header == [height : Nat, parent : Nat, time : Nat]
StoredBlock == [height : Nat, parent : Nat, time : Nat, signatures : SUBSET Tx]
ClockOf == [slot : Nat, time : Nat]
AnchorOf == [slot : Nat, height : Nat, time : Nat]

RemoteType == has_remote \in BOOLEAN /\ remote_slot \in Nat \cup {NoSlot}

MemoryType ==
  /\ open \in Nat /\ tip \in Nat /\ updated_at \in Nat /\ slot_time \in SlotTimes
  /\ genesis_slot \in Nat /\ genesis_updated_at \in Nat /\ last_checkpoint_slot \in Nat
  /\ IsMap(landings, Nat, Stamp) /\ IsMap(restarts, Nat, Nat)
  /\ confirmation_queue \subseteq Tx /\ finalization_queue \subseteq [slot : Nat, tx : Tx]

DatabaseType ==
  /\ IsMap(blocks, Nat, StoredBlock) /\ IsMap(transactions, Tx, Nat)
  /\ IsMap(landings_db, Nat, Stamp) /\ IsMap(restarts_db, Nat, Nat)
  /\ latest_slot \in Nat \cup {NoSlot} /\ anchor \in AnchorOf

ChannelType == travels_queued \in Seq(ClockOf) /\ travelling \in ClockOf \cup {NoClock}

ToldType ==
  /\ IsMap(streamed, Nat, Header) /\ created \in [slot : Nat, parent : Nat]
  /\ IsMap(rooted, Nat, Nat) /\ finalized \subseteq Tx /\ interrupted \subseteq Tx
  /\ left_open \subseteq Nat

CountersType ==
  /\ travels \in Nat /\ resets \in Nat /\ stops \in Nat
  /\ landing_failures \in Nat /\ block_failures \in Nat

LEMMA TypeParts ==
  TypeOK <=> RemoteType /\ MemoryType /\ DatabaseType /\ ChannelType /\ ToldType /\ CountersType
BY DEF TypeOK, RemoteType, MemoryType, DatabaseType, ChannelType, ToldType, CountersType, IsMap,
       Stamp, Header, StoredBlock, ClockOf, AnchorOf

LEMMA TypePartsNext ==
  TypeOK' <=> RemoteType' /\ MemoryType' /\ DatabaseType' /\ ChannelType' /\ ToldType' /\ CountersType'
BY DEF TypeOK, RemoteType, MemoryType, DatabaseType, ChannelType, ToldType, CountersType, IsMap,
       Stamp, Header, StoredBlock, ClockOf, AnchorOf

(* A chain and a slot of it: the parent, the final slot, the header. *)
LEMMA ParentType ==
  ASSUME NEW ls, IsMap(ls, Nat, Stamp), NEW slot \in Nat
  PROVE  ParentSlot(ls, slot) \in Nat
BY DEF IsMap, Stamp, ParentSlot, SatSub

LEMMA HeaderType ==
  ASSUME MemoryType
  PROVE  OpenHeader \in Header
<1>1. ParentSlot(landings, open) \in Nat
  BY ParentType DEF MemoryType
<1> QED
  BY <1>1 DEF OpenHeader, Header, MemoryType

LEMMA FinalTypes ==
  ASSUME MemoryType
  PROVE  /\ FinalAfterClose = BlocksBack(landings, open, FinalizationThreshold - 1)
         /\ FinalAfterClose \in 0..open
         /\ NewRoots \subseteq Nat
<1>1. SatSub(open + 1, 1) = open /\ open \in Nat
  BY DEF SatSub, MemoryType
<1>2. FinalAfterClose = BlocksBack(landings, open, FinalizationThreshold - 1)
  BY <1>1 DEF FinalAfterClose, FinalizedAt
<1>3. FinalAfterClose \in 0..open
  BY <1>1, <1>2, BlocksBackType
<1>4. OpenHeader.parent \in Nat
  BY HeaderType DEF Header
<1>5. BlocksBack(landings, OpenHeader.parent, FinalizationThreshold - 1) \in Nat
  BY <1>4, BlocksBackType
<1>6. NewRoots \subseteq Nat
  BY <1>3, <1>5 DEF NewRoots, BlocksWithin, MemoryType
<1> QED
  BY <1>2, <1>3, <1>6

LEMMA BlocksStoredType ==
  ASSUME MemoryType, DatabaseType
  PROVE  IsMap(BlocksStored, Nat, StoredBlock)
<1>1. [height |-> OpenHeader.height, parent |-> OpenHeader.parent, time |-> OpenHeader.time,
       signatures |-> confirmation_queue] \in StoredBlock
  BY HeaderType DEF Header, StoredBlock, MemoryType
<1> QED
  BY <1>1, PutMap DEF BlocksStored, MemoryType, DatabaseType

LEMMA CloseBlockTypes ==
  ASSUME TypeOK, CloseBlock
  PROVE  MemoryType' /\ DatabaseType' /\ ToldType'
<1>1. MemoryType /\ DatabaseType /\ ToldType
  BY TypeParts
<1>2. OpenHeader \in Header /\ FinalAfterClose \in Nat /\ NewRoots \subseteq Nat /\ slot_time \in Nat
  BY <1>1, HeaderType, FinalTypes, ChainAssumption DEF MemoryType
<1>3. Confirmed \subseteq [slot : Nat, tx : Tx]
  BY <1>1 DEF Confirmed, MemoryType
<1>4. MemoryType'
  BY <1>1, <1>2, <1>3 DEF CloseBlock, MemoryType
<1>5. DatabaseType'
  <2>1. IsMap(BlocksStored, Nat, StoredBlock)
    BY <1>1, BlocksStoredType
  <2>2. latest_slot' \in Nat \cup {NoSlot}
    BY <1>1 DEF CloseBlock, MemoryType, DatabaseType
  <2> QED
    BY <1>1, <2>1, <2>2 DEF CloseBlock, DatabaseType
<1>6. ToldType'
  <2>1. IsMap(streamed', Nat, Header)
    BY <1>1, <1>2, PutMap DEF CloseBlock, ToldType, MemoryType
  <2>2. IsMap(rooted', Nat, Nat)
    BY <1>1, <1>2 DEF CloseBlock, ToldType, IsMap
  <2>3. created' \in [slot : Nat, parent : Nat]
    <3>1. open + 1 \in Nat /\ ParentSlot(landings, open + 1) \in Nat
      BY <1>1, ParentType DEF MemoryType
    <3> QED
      BY <3>1 DEF CloseBlock
  <2>4. finalized' \subseteq Tx /\ interrupted' \subseteq Tx /\ left_open' \subseteq Nat
    BY <1>1, <1>3 DEF CloseBlock, ToldType
  <2> QED
    BY <2>1, <2>2, <2>3, <2>4 DEF ToldType
<1> QED
  BY <1>4, <1>5, <1>6

(* A clock that a request may ask for. *)
LEMMA RequestedClocksType ==
  ASSUME MemoryType
  PROVE  RequestedClocks \subseteq ClockOf
<1>1. /\ open \in Nat /\ updated_at \in Nat /\ slot_time \in Nat \ {0} /\ WallTimes \subseteq Nat
      /\ MaxSlot - Headroom \in Int
  BY ChainAssumption DEF MemoryType
<1>2. ASSUME NEW a \in Nat, NEW b \in Nat \ {0} PROVE a * b \in Nat /\ a \div b \in Nat
  BY <1>2
<1>3. ASSUME NEW s \in open..(MaxSlot - Headroom)
      PROVE  s \in Nat /\ updated_at + (s - open) * slot_time \in Nat
  <2>1. s \in Nat /\ s - open \in Nat
    BY <1>1
  <2>2. (s - open) * slot_time \in Nat
    BY <1>1, <1>2, <2>1
  <2> QED
    BY <1>1, <2>1, <2>2
<1>4. ASSUME NEW t \in WallTimes, t >= updated_at
      PROVE  t \in Nat /\ open + (t - updated_at) \div slot_time \in Nat
  <2>1. t \in Nat /\ t - updated_at \in Nat
    BY <1>1, <1>4
  <2>2. (t - updated_at) \div slot_time \in Nat
    BY <1>1, <1>2, <2>1
  <2> QED
    BY <1>1, <2>1, <2>2
<1>5. ASSUME NEW c \in RequestedClocks PROVE c \in ClockOf
  <2>1. \/ \E s \in open..(MaxSlot - Headroom) :
             c = [slot |-> s, time |-> updated_at + (s - open) * slot_time]
        \/ \E t \in WallTimes : /\ t >= updated_at
             /\ c = [slot |-> open + (t - updated_at) \div slot_time, time |-> t]
        \/ \E s \in open..(MaxSlot - Headroom), t \in WallTimes : c = [slot |-> s, time |-> t]
    BY <1>5 DEF RequestedClocks
  <2>2. \A s \in open..(MaxSlot - Headroom) :
          [slot |-> s, time |-> updated_at + (s - open) * slot_time] \in ClockOf
    BY <1>3 DEF ClockOf
  <2>3. \A t \in WallTimes : t >= updated_at =>
          [slot |-> open + (t - updated_at) \div slot_time, time |-> t] \in ClockOf
    BY <1>4 DEF ClockOf
  <2>4. \A s \in open..(MaxSlot - Headroom), t \in WallTimes : [slot |-> s, time |-> t] \in ClockOf
    BY <1>1, <1>3 DEF ClockOf
  <2> QED
    BY <2>1, <2>2, <2>3, <2>4
<1> QED
  BY <1>5

(* The chains a process may start. *)
LEMMA NewChainsType ==
  ASSUME NEW online \in BOOLEAN, NEW since \in Nat \cup {NoSlot}, NEW now \in Nat,
         NEW offline \in AnchorOf, offline.slot # 0,
         NEW chain \in NewChains(online, since, offline, now)
  PROVE  /\ chain \in AnchorOf /\ chain.slot \in Nat \ {0}
         /\ Answered(online, chain, since) \in Nat \cup {NoSlot}
         /\ online => /\ Answered(online, chain, since) = chain.slot - 1
                      /\ since <= chain.slot - 1
         /\ ~online => chain = offline /\ Answered(online, chain, since) = since
<1>1. CASE online
  <2>1. PICK remote \in RemoteAnswers(since) : chain = RemoteGenesis(remote, now)
    BY <1>1 DEF NewChains
  <2>2. remote \in [slot : Nat, height : Nat] /\ remote.slot >= since
    BY <2>1, ChainAssumption DEF RemoteAnswers
  <2>3. chain \in AnchorOf /\ chain.slot = remote.slot + 1
    BY <2>1, <2>2 DEF RemoteGenesis, AnchorOf
  <2> QED
    BY <1>1, <2>2, <2>3 DEF Answered, NoSlot
<1>2. CASE ~online
  BY <1>2 DEF NewChains, Answered, AnchorOf
<1> QED
  BY <1>1, <1>2

LEMMA OfflineChains ==
  ASSUME NEW now \in WallTimes
  PROVE  /\ DefaultGenesis(now) \in AnchorOf /\ DefaultGenesis(now).slot # 0
         /\ ResetGenesis(now) \in AnchorOf /\ ResetGenesis(now).slot # 0
         /\ now \in Nat
BY ChainAssumption DEF DefaultGenesis, ResetGenesis, AnchorOf

-----------------------------------------------------------------------------
(* Every step keeps the types *)

LEMMA InitTypes == Init => TypeOK
<1> SUFFICES ASSUME Init PROVE TypeOK
  OBVIOUS
<1>1. PICK now \in WallTimes :
        /\ anchor \in NewChains(has_remote, NoSlot, DefaultGenesis(now), now)
        /\ updated_at = now /\ genesis_updated_at = now
  BY DEF Init
<1>2. has_remote \in BOOLEAN /\ remote_slot = Answered(has_remote, anchor, NoSlot)
  BY DEF Init, RemoteOrNot
<1>3. now \in Nat /\ anchor \in AnchorOf /\ remote_slot \in Nat \cup {NoSlot}
  BY <1>1, <1>2, OfflineChains, NewChainsType
<1>4. anchor.slot \in Nat \ {0} /\ anchor.height \in Nat
  <2>1. anchor.slot \in Nat \ {0}
    BY <1>1, <1>2, OfflineChains, NewChainsType
  <2>2. anchor.height \in Nat
    BY <1>3 DEF AnchorOf
  <2> QED
    BY <2>1, <2>2
<1>5. MemoryType
  BY <1>1, <1>3, <1>4, NoMap DEF Init, MemoryType
<1>6. DatabaseType
  BY <1>3, NoMap DEF Init, DatabaseType
<1>7. ChannelType
  BY DEF Init, ChannelType
<1>8. ToldType
  BY <1>4, NoMap DEF Init, ToldType
<1>9. CountersType /\ RemoteType
  BY <1>2, <1>3 DEF Init, CountersType, RemoteType
<1> QED
  BY <1>5, <1>6, <1>7, <1>8, <1>9, TypeParts

LEMMA CloseSlotTypes ==
  ASSUME TypeOK, CloseSlot
  PROVE  TypeOK'
BY CloseBlockTypes, TypeParts, TypePartsNext
DEF CloseSlot, RemoteType, ChannelType, CountersType, remote_rpc, channel, counters

LEMMA ProcessTransactionTypes ==
  ASSUME TypeOK, NEW t \in Tx, ProcessTransaction(t)
  PROVE  TypeOK'
<1> USE TypeParts
<1>1. MemoryType' /\ RemoteType' /\ ChannelType' /\ ToldType' /\ CountersType'
  BY DEF ProcessTransaction, MemoryType, RemoteType, ChannelType, ToldType, CountersType,
         remote_rpc, channel, told, counters
<1>2. DatabaseType'
  BY PutMap DEF ProcessTransaction, DatabaseType, MemoryType
<1> QED
  BY <1>1, <1>2, TypePartsNext

LEMMA TakeTravelTypes ==
  ASSUME ChannelType, TakeTravel
  PROVE  ChannelType'
BY DEF ChannelType, TakeTravel

LEMMA CloseBeforeTravelTypes ==
  ASSUME TypeOK, CloseBeforeTravel
  PROVE  TypeOK'
<1>1. RemoteType' /\ CountersType'
  BY TypeParts DEF CloseBeforeTravel, RemoteType, CountersType, remote_rpc, counters
<1>2. ChannelType'
  BY TypeParts, TakeTravelTypes DEF CloseBeforeTravel
<1> QED
  BY <1>1, <1>2, CloseBlockTypes, TypePartsNext DEF CloseBeforeTravel

LEMMA CloseBeforeTravelFailsTypes ==
  ASSUME TypeOK, CloseBeforeTravelFails
  PROVE  TypeOK'
<1>1. RemoteType' /\ CountersType'
  BY TypeParts DEF CloseBeforeTravelFails, RemoteType, CountersType, remote_rpc
<1>2. ChannelType'
  BY TypeParts, TakeTravelTypes DEF CloseBeforeTravelFails
<1>3. MemoryType'
  <2>1. MemoryType /\ slot_time \in Nat
    BY TypeParts, ChainAssumption DEF MemoryType
  <2>2. Confirmed \subseteq [slot : Nat, tx : Tx]
    BY <2>1 DEF Confirmed, MemoryType
  <2> QED
    BY <2>1, <2>2 DEF CloseBeforeTravelFails, MemoryType
<1>4. blocks' \in {blocks, BlocksStored} /\ left_open' \in {left_open, left_open \cup {open}}
  BY DEF CloseBeforeTravelFails, BlockRefused, CheckpointRefused
<1>5. DatabaseType'
  <2>1. IsMap(blocks', Nat, StoredBlock)
    BY <1>4, TypeParts, BlocksStoredType DEF DatabaseType
  <2> QED
    BY <2>1, TypeParts DEF CloseBeforeTravelFails, DatabaseType
<1>6. ToldType'
  BY <1>4, TypeParts DEF CloseBeforeTravelFails, ToldType, MemoryType
<1> QED
  BY <1>1, <1>2, <1>3, <1>5, <1>6, TypePartsNext

(* What a travel lands with. *)
LEMMA LandingType ==
  ASSUME TypeOK, travelling # NoClock
  PROVE  /\ LandingSlot \in Nat /\ LandingSlot >= open /\ Landing \in Stamp
         /\ Landing.parent = BlockAtOrBefore(landings, SatSub(open, 1))
<1>1. travelling \in ClockOf /\ open \in Nat /\ IsMap(landings, Nat, Stamp)
  BY TypeParts DEF ChannelType, MemoryType
<1>2. SatSub(open, 1) \in Nat
  BY <1>1 DEF SatSub
<1>3. BlockAtOrBefore(landings, SatSub(open, 1)) \in Nat
  BY <1>1, <1>2, BlockAtOrBeforeType DEF IsMap, Stamp
<1> QED
  BY <1>1, <1>3 DEF LandingSlot, Landing, Stamp, ClockOf

LEMMA ApplyTravelTypes ==
  ASSUME TypeOK, ApplyTravel
  PROVE  TypeOK'
<1>1. /\ MemoryType /\ DatabaseType /\ ChannelType /\ ToldType
      /\ LandingSlot \in Nat /\ Landing \in Stamp
  BY TypeParts, LandingType DEF ApplyTravel
<1>2. RemoteType' /\ CountersType'
  BY TypeParts DEF ApplyTravel, RemoteType, CountersType, remote_rpc, counters
<1>3. ChannelType' /\ updated_at' \in Nat
  BY <1>1 DEF ApplyTravel, ChannelType, ClockOf
<1>4. MemoryType'
  BY <1>1, <1>3, PutMap, DropMap DEF ApplyTravel, MemoryType
<1>5. DatabaseType'
  BY <1>1, PutMap, DropMap DEF ApplyTravel, DatabaseType
<1>6. ToldType'
  BY <1>1 DEF ApplyTravel, ToldType, CreatedByTravel, Stamp
<1> QED
  BY <1>2, <1>3, <1>4, <1>5, <1>6, TypePartsNext

LEMMA ApplyTravelFailsTypes ==
  ASSUME TypeOK, ApplyTravelFails
  PROVE  TypeOK'
<1>1. RemoteType' /\ MemoryType' /\ ChannelType' /\ ToldType' /\ CountersType'
  BY TypeParts DEF ApplyTravelFails, RemoteType, MemoryType, ChannelType, ToldType, CountersType,
                   remote_rpc, memory, told
<1>2. DatabaseType'
  BY TypeParts, DropMap DEF ApplyTravelFails, DatabaseType
<1> QED
  BY <1>1, <1>2, TypePartsNext

LEMMA UpdateSlotIntervalTypes ==
  ASSUME TypeOK, UpdateSlotInterval
  PROVE  TypeOK'
BY TypeParts, TypePartsNext
DEF UpdateSlotInterval, RemoteType, MemoryType, DatabaseType, ChannelType, ToldType, CountersType,
    remote_rpc, database, channel, told, counters

LEMMA RequestTravelTypes ==
  ASSUME TypeOK, RequestTravel
  PROVE  TypeOK'
<1>1. RemoteType' /\ MemoryType' /\ DatabaseType' /\ ToldType' /\ CountersType'
  BY TypeParts DEF RequestTravel, RemoteType, MemoryType, DatabaseType, ToldType, CountersType,
                   remote_rpc, memory, database, told
<1>2. ChannelType'
  BY TypeParts, RequestedClocksType DEF RequestTravel, ChannelType
<1> QED
  BY <1>1, <1>2, TypePartsNext

LEMMA ResetNetworkTypes ==
  ASSUME TypeOK, ResetNetwork
  PROVE  TypeOK'
<1>1. PICK now \in WallTimes :
        /\ anchor' \in NewChains(has_remote, remote_slot, ResetGenesis(now), now)
        /\ updated_at' = now /\ genesis_updated_at' = now
  BY DEF ResetNetwork
<1>2. RemoteType /\ MemoryType /\ ChannelType /\ CountersType
  BY TypeParts
<1>3. /\ now \in Nat /\ anchor' \in AnchorOf /\ anchor'.slot \in Nat \ {0}
      /\ Answered(has_remote, anchor', remote_slot) \in Nat \cup {NoSlot}
  BY <1>1, <1>2, OfflineChains, NewChainsType DEF RemoteType
<1>4. anchor'.height \in Nat
  BY <1>3 DEF AnchorOf
<1>5. MemoryType'
  BY <1>1, <1>2, <1>3, <1>4, NoMap DEF ResetNetwork, MemoryType
<1>6. DatabaseType'
  BY <1>3, NoMap DEF ResetNetwork, DatabaseType
<1>7. ToldType'
  BY <1>3, NoMap DEF ResetNetwork, ToldType
<1>8. RemoteType' /\ ChannelType' /\ CountersType'
  BY <1>2, <1>3 DEF ResetNetwork, RemoteType, ChannelType, CountersType, channel
<1> QED
  BY <1>5, <1>6, <1>7, <1>8, TypePartsNext

(* The three ways a process starts on the store of the one before it: the  *)
(* chain at its genesis is opened anew on the remote, or reopens where it  *)
(* stopped, or there is none.                                              *)
LastEnd(checkpoint, slot) ==
  slot \in StoredEnds(checkpoint) /\ \A s \in StoredEnds(checkpoint) : s <= slot

OpensAnew(checkpoint) ==
  /\ LastEnd(checkpoint, anchor.slot)
  /\ anchor'.slot \in Nat \ {0} /\ anchor'.slot >= remote_slot + 1
  /\ open' = anchor'.slot /\ remote_slot' = anchor'.slot - 1

Reopens(checkpoint) ==
  /\ LastEnd(checkpoint, open')
  /\ anchor' = anchor /\ remote_slot' = remote_slot

StartsOver(checkpoint) ==
  /\ StoredEnds(checkpoint) = {}
  /\ anchor'.slot \in Nat \ {0} /\ open' = anchor'.slot
  /\ remote_slot' = anchor'.slot - 1 \/ remote_slot' = remote_slot

LEMMA StoredEndsType ==
  ASSUME DatabaseType, NEW checkpoint \in Nat \cup {NoSlot}
  PROVE  StoredEnds(checkpoint) \subseteq Nat
BY DEF DatabaseType, IsMap, StoredEnds

LEMMA RestartCases ==
  ASSUME TypeOK, NEW checkpoint \in Nat \cup {NoSlot}, StopAndRestart(checkpoint)
  PROVE  /\ OpensAnew(checkpoint) \/ Reopens(checkpoint) \/ StartsOver(checkpoint)
         /\ open' \in Nat /\ tip' \in Nat /\ updated_at' \in Nat /\ anchor' \in AnchorOf
         /\ genesis_slot' = anchor'.slot /\ genesis_updated_at' = anchor'.time
         /\ remote_slot' \in Nat \cup {NoSlot}
         /\ IsMap(restarts', Nat, Nat) /\ IsMap(streamed', Nat, Header)
         /\ created' \in [slot : Nat, parent : Nat]
<1>1. /\ DatabaseType /\ ToldType /\ remote_slot \in Nat \cup {NoSlot}
      /\ StoredEnds(checkpoint) \subseteq Nat
      /\ anchor \in AnchorOf /\ anchor.slot \in Nat /\ anchor.height \in Nat
  BY TypeParts, StoredEndsType DEF DatabaseType, RemoteType, AnchorOf
<1>2. ASSUME NEW chain \in AnchorOf, NEW slot \in Nat, NEW height \in Nat, NEW now \in Nat,
             Start(chain, slot, height, now)
      PROVE  /\ anchor' = chain /\ open' = slot /\ tip' = height /\ updated_at' = now
             /\ genesis_slot' = chain.slot /\ genesis_updated_at' = chain.time
             /\ created' \in [slot : Nat, parent : Nat]
  <2>1. ParentSlot(landings_db, slot) \in Nat
    BY <1>1, ParentType DEF DatabaseType
  <2> QED
    BY <1>2, <2>1 DEF Start
<1>3. CASE Recover(checkpoint)
  <2>1. PICK now \in WallTimes, later \in WallTimes, slot \in StoredEnds(checkpoint) :
          /\ \A s \in StoredEnds(checkpoint) : s <= slot
          /\ restarts' = Put(restarts_db, slot, now)
          /\ IF has_remote' /\ slot = anchor.slot
             THEN /\ \E remote \in RemoteAnswers(remote_slot) :
                       LET chain == RemoteGenesis(remote, later)
                       IN  Start(chain, chain.slot, chain.height, later)
                  /\ remote_slot' = Answered(TRUE, anchor', remote_slot)
                  /\ streamed' = EmptyMap
             ELSE /\ Start(anchor, slot, RecoveredTip(slot), now)
                  /\ UNCHANGED remote_slot
                  /\ streamed' = Drop(streamed, {s \in DOMAIN streamed : s >= slot})
    BY <1>3 DEF Recover
  <2>2. slot \in Nat /\ now \in Nat /\ later \in Nat /\ LastEnd(checkpoint, slot)
    BY <1>1, <2>1, ChainAssumption DEF LastEnd
  <2>3. IsMap(restarts', Nat, Nat) /\ IsMap(streamed', Nat, Header)
    <3>1. IsMap(restarts', Nat, Nat)
      BY <1>1, <2>1, <2>2, PutMap DEF DatabaseType
    <3>2. streamed' = EmptyMap \/ streamed' = Drop(streamed, {s \in DOMAIN streamed : s >= slot})
      BY <2>1
    <3>3. IsMap(streamed, Nat, Header)
      BY <1>1 DEF ToldType
    <3>4. IsMap(streamed', Nat, Header)
      BY <3>2, <3>3, DropMap, NoMap
    <3> QED
      BY <3>1, <3>4
  <2>4. CASE has_remote' /\ slot = anchor.slot
    <3>1. PICK remote \in RemoteAnswers(remote_slot) :
            Start(RemoteGenesis(remote, later), RemoteGenesis(remote, later).slot,
                  RemoteGenesis(remote, later).height, later)
      BY <2>1, <2>4
    <3> DEFINE chain == RemoteGenesis(remote, later)
    <3>2. chain \in NewChains(TRUE, remote_slot, DefaultGenesis(later), later)
      BY DEF NewChains
    <3>3. chain \in AnchorOf /\ chain.slot \in Nat \ {0} /\ remote_slot <= chain.slot - 1
      BY <1>1, <2>2, <3>2, OfflineChains, NewChainsType
    <3>4. chain.height \in Nat
      BY <3>3 DEF AnchorOf
    <3> HIDE DEF chain
    <3>5. Start(chain, chain.slot, chain.height, later)
      BY <3>1 DEF chain
    <3>6. anchor' = chain /\ open' = chain.slot /\ tip' = chain.height /\ updated_at' = later
      BY <1>2, <2>2, <3>3, <3>4, <3>5
    <3>7. /\ genesis_slot' = chain.slot /\ genesis_updated_at' = chain.time
          /\ created' \in [slot : Nat, parent : Nat]
      BY <1>2, <2>2, <3>3, <3>4, <3>5
    <3>8. remote_slot' = chain.slot - 1
      BY <2>1, <2>4, <3>6 DEF Answered
    <3>9. OpensAnew(checkpoint)
      BY <1>1, <2>2, <2>4, <3>3, <3>6, <3>8 DEF OpensAnew, NoSlot
    <3> QED
      BY <2>2, <2>3, <3>3, <3>4, <3>6, <3>7, <3>8, <3>9
  <2>5. CASE ~(has_remote' /\ slot = anchor.slot)
    <3>1. RecoveredTip(slot) \in Nat
      <4>1. CASE slot = 0
        <5>1. BlocksWithin(landings_db, anchor.slot, slot - 1) = {}
          BY <1>1, <4>1 DEF BlocksWithin
        <5> QED
          BY <1>1, <5>1, FS_EmptySet DEF RecoveredTip, BlocksIn
      <4>2. CASE slot # 0
        <5>1. BlocksIn(landings_db, anchor.slot, slot - 1) \in Nat
          BY <1>1, <2>2, <4>2, BlocksFinite
        <5> QED
          BY <1>1, <5>1 DEF RecoveredTip
      <4> QED
        BY <4>1, <4>2
    <3>2. Start(anchor, slot, RecoveredTip(slot), now) /\ remote_slot' = remote_slot
      BY <2>1, <2>5
    <3>3. /\ anchor' = anchor /\ open' = slot /\ tip' \in Nat /\ updated_at' = now
          /\ genesis_slot' = anchor.slot /\ genesis_updated_at' = anchor.time
          /\ created' \in [slot : Nat, parent : Nat]
      BY <1>1, <1>2, <2>2, <3>1, <3>2
    <3>4. Reopens(checkpoint)
      BY <2>2, <3>2, <3>3 DEF Reopens, LastEnd
    <3> QED
      BY <1>1, <2>2, <2>3, <3>2, <3>3, <3>4
  <2> QED
    BY <2>4, <2>5
<1>4. CASE StartOver(checkpoint)
  <2>1. PICK now \in WallTimes :
          /\ StoredEnds(checkpoint) = {}
          /\ \E chain \in NewChains(has_remote', remote_slot, DefaultGenesis(now), now) :
               Start(chain, chain.slot, chain.height, now)
          /\ remote_slot' = Answered(has_remote', anchor', remote_slot)
          /\ restarts' = restarts_db
          /\ streamed' = EmptyMap
    BY <1>4 DEF StartOver
  <2>2. PICK chain \in NewChains(has_remote', remote_slot, DefaultGenesis(now), now) :
          Start(chain, chain.slot, chain.height, now)
    BY <2>1
  <2>3. has_remote' \in BOOLEAN
    BY DEF StopAndRestart, RemoteOrNot
  <2>4. /\ chain \in AnchorOf /\ chain.slot \in Nat \ {0} /\ now \in Nat
        /\ Answered(has_remote', chain, remote_slot) \in Nat \cup {NoSlot}
        /\ \/ Answered(has_remote', chain, remote_slot) = chain.slot - 1
           \/ Answered(has_remote', chain, remote_slot) = remote_slot
    BY <1>1, <2>2, <2>3, OfflineChains, NewChainsType
  <2>5. chain.height \in Nat
    BY <2>4 DEF AnchorOf
  <2>6. /\ anchor' = chain /\ open' = chain.slot /\ tip' = chain.height /\ updated_at' = now
        /\ genesis_slot' = chain.slot /\ genesis_updated_at' = chain.time
        /\ created' \in [slot : Nat, parent : Nat]
    BY <1>2, <2>2, <2>4, <2>5
  <2>7. StartsOver(checkpoint)
    BY <2>1, <2>4, <2>6 DEF StartsOver
  <2>8. IsMap(restarts', Nat, Nat) /\ IsMap(streamed', Nat, Header)
    BY <1>1, <2>1, NoMap DEF DatabaseType
  <2> QED
    BY <2>1, <2>4, <2>5, <2>6, <2>7, <2>8
<1> QED
  BY <1>3, <1>4 DEF StopAndRestart

LEMMA RestartTypes ==
  ASSUME TypeOK, NEW checkpoint \in Nat \cup {NoSlot}, StopAndRestart(checkpoint)
  PROVE  TypeOK'
<1>1. RemoteType /\ MemoryType /\ DatabaseType /\ ToldType /\ CountersType
  BY TypeParts
<1>2. /\ open' \in Nat /\ tip' \in Nat /\ updated_at' \in Nat /\ anchor' \in AnchorOf
      /\ genesis_slot' = anchor'.slot /\ genesis_updated_at' = anchor'.time
      /\ remote_slot' \in Nat \cup {NoSlot}
      /\ IsMap(restarts', Nat, Nat) /\ IsMap(streamed', Nat, Header)
      /\ created' \in [slot : Nat, parent : Nat]
  BY RestartCases
<1>3. last_checkpoint_slot' \in Nat
  BY <1>1 DEF StopAndRestart, CheckpointFound, CheckpointOrZero, DatabaseType, IsMap
<1>4. genesis_slot' \in Nat /\ genesis_updated_at' \in Nat
  BY <1>2 DEF AnchorOf
<1>5. MemoryType'
  BY <1>1, <1>2, <1>3, <1>4 DEF StopAndRestart, MemoryType, DatabaseType
<1>6. DatabaseType'
  BY <1>1, <1>2 DEF StopAndRestart, DatabaseType
<1>7. ToldType'
  BY <1>1, <1>2, NoMap DEF StopAndRestart, MemoryType, ToldType, EmptyMap
<1>8. RemoteType' /\ ChannelType' /\ CountersType'
  <2>1. has_remote' \in BOOLEAN
    BY DEF StopAndRestart, RemoteOrNot
  <2>2. ChannelType'
    BY DEF StopAndRestart, ChannelType
  <2>3. CountersType'
    BY <1>1 DEF StopAndRestart, CountersType
  <2> QED
    BY <1>2, <2>1, <2>2, <2>3 DEF RemoteType
<1> QED
  BY <1>5, <1>6, <1>7, <1>8, TypePartsNext

(* The checkpoints of a shutdown and of a crash. *)
LEMMA CheckpointTypes ==
  ASSUME TypeOK
  PROVE  ParentSlot(landings, open) \in Nat /\ latest_slot \in Nat \cup {NoSlot}
BY TypeParts, ParentType DEF MemoryType, DatabaseType

LEMMA TypesNext == TypeOK /\ [Next]_vars => TypeOK'
<1> SUFFICES ASSUME TypeOK, [Next]_vars PROVE TypeOK'
  OBVIOUS
<1>1. CASE ShutdownAndRestart \/ CrashAndRestart
  BY <1>1, CheckpointTypes, RestartTypes DEF ShutdownAndRestart, CrashAndRestart
<1>2. CASE UNCHANGED vars
  BY <1>2, TypeParts, TypePartsNext
  DEF vars, remote_rpc, memory, database, channel, told, counters,
      RemoteType, MemoryType, DatabaseType, ChannelType, ToldType, CountersType
<1> QED
  BY <1>1, <1>2, CloseSlotTypes, ProcessTransactionTypes, CloseBeforeTravelTypes,
     CloseBeforeTravelFailsTypes, ApplyTravelTypes, ApplyTravelFailsTypes, UpdateSlotIntervalTypes,
     RequestTravelTypes, ResetNetworkTypes
  DEF Next

(* Every variable of the chain, its store and its clients keeps its type.  *)
THEOREM ChainTypeCorrect == Spec => []TypeOK
BY InitTypes, TypesNext, PTL DEF Spec

-----------------------------------------------------------------------------
(* The chain and what is stored of it *)

(* The store has no landing that memory does not have.  A landing past the *)
(* open slot is of a chain that was opened anew at its genesis: it skips   *)
(* nothing.                                                                *)
LandingsInv ==
  /\ Ordered(landings)
  /\ PartOf(landings_db, landings)
  /\ \A l \in DOMAIN landings : l > open => landings[l].parent = l - 1

(* A chain that no remote opened: everything stored is past its anchor.    *)
LocalChain ==
  /\ anchor.slot <= open
  /\ \A s \in DOMAIN blocks : anchor.slot <= s
  /\ \A l \in DOMAIN landings : /\ anchor.slot <= l /\ l <= open
                                /\ anchor.slot <= landings[l].parent + 1
  /\ latest_slot = NoSlot \/ anchor.slot <= latest_slot + 1

AnchorInv == anchor.slot <= remote_slot + 1 \/ LocalChain

(* Only a refused write leaves a stored block's slot open. *)
LeftOpenInv == block_failures = 0 => left_open = {}

ChainInv ==
  TypeOK /\ open # 0 /\ LandingsInv /\ AnchorInv /\ StoredBlocksAreFinal /\ LeftOpenInv

(* What the proofs below need of the types. *)
LEMMA ChainTypes ==
  ASSUME TypeOK
  PROVE  /\ open \in Nat /\ anchor.slot \in Nat /\ remote_slot \in Nat \cup {NoSlot}
         /\ DOMAIN blocks \subseteq Nat /\ DOMAIN landings \subseteq Nat
         /\ DOMAIN landings_db \subseteq Nat /\ latest_slot \in Nat \cup {NoSlot}
         /\ FinalizationThreshold - 1 \in Nat
BY TypeParts, ChainAssumption
DEF RemoteType, MemoryType, DatabaseType, IsMap, AnchorOf

(* The open slot will hold a block. *)
LEMMA OpenHoldsBlock ==
  ASSUME ChainInv
  PROVE  HoldsBlock(landings, open)
<1>1. open \in Nat /\ Ordered(landings)
  BY ChainTypes DEF ChainInv, LandingsInv
<1>2. \A l \in DOMAIN landings : l > open => open <= landings[l].parent
  BY <1>1 DEF ChainInv, LandingsInv, Ordered
<1> QED
  BY <1>1, <1>2, HoldsBlockIff

(* The parent of the open slot is not before the slot before the anchor. *)
LEMMA LocalParent ==
  ASSUME ChainInv, LocalChain,
         NEW b, b = ParentSlot(landings, open) \/ b = BlockAtOrBefore(landings, SatSub(open, 1))
  PROVE  b \in Nat /\ anchor.slot <= b + 1 /\ b < open
<1>1. /\ open \in Nat \ {0} /\ open - 1 \in Nat /\ SatSub(open, 1) = open - 1 /\ Ordered(landings)
      /\ anchor.slot \in Nat
  BY ChainTypes DEF ChainInv, LandingsInv, SatSub
<1>2. b = BlockAtOrBefore(landings, open - 1)
  BY <1>1, OpenHoldsBlock, ParentIsLast
<1>3. /\ b \in 0..(open - 1) /\ HoldsBlock(landings, b)
      /\ \A r \in (b + 1)..(open - 1) : ~HoldsBlock(landings, r)
  BY <1>1, <1>2, LastBlock
<1>4. CASE b = open - 1
  BY <1>1, <1>4 DEF LocalChain
<1>5. CASE b # open - 1
  <2>1. b + 1 \in (b + 1)..(open - 1) /\ b + 1 \in Nat
    BY <1>1, <1>3, <1>5
  <2>2. ~HoldsBlock(landings, b + 1)
    BY <1>3, <2>1
  <2>3. PICK l \in DOMAIN landings : l > b + 1 /\ ~(b + 1 <= landings[l].parent)
    BY <1>1, <2>1, <2>2, HoldsBlockIff
  <2>4. landings[l].parent \in Nat /\ anchor.slot <= landings[l].parent + 1
    BY <1>1, <2>3 DEF LocalChain, Ordered
  <2> QED
    BY <1>1, <1>3, <2>3, <2>4
<1> QED
  BY <1>4, <1>5

LEMMA InRangeBelow ==
  ASSUME NEW s \in Nat, NEW a \in Nat, NEW b \in Nat, s < a, a <= b
  PROVE  s < b /\ s \in 0..(b - 1)
OBVIOUS

(* A travel lands: the landings stay in order, no block is dropped or      *)
(* added, and what is final stays final.                                   *)
LEMMA TravelLands ==
  ASSUME ChainInv, ApplyTravel
  PROVE  /\ landings' = AfterTravel(landings, open, LandingSlot, Landing)
         /\ open' \in Nat /\ open <= open' /\ open' = LandingSlot
         /\ DOMAIN landings' = {l \in DOMAIN landings : l < open} \cup {open'}
         /\ landings'[open'] = Landing
         /\ \A l \in DOMAIN landings : l < open => landings'[l] = landings[l]
         /\ Ordered(landings') /\ PartOf(landings_db', landings')
         /\ \A s \in 0..(open' - 1) : HoldsBlock(landings', s) <=> s < open /\ HoldsBlock(landings, s)
         /\ FinalizedSlot' = FinalizedSlot
<1>1. /\ LandingSlot \in Nat /\ LandingSlot >= open
      /\ Landing.parent = BlockAtOrBefore(landings, SatSub(open, 1))
  BY LandingType DEF ChainInv, ApplyTravel
<1>2. /\ open \in Nat \ {0} /\ SatSub(open, 1) = open - 1 /\ Ordered(landings)
      /\ DOMAIN landings \subseteq Nat /\ FinalizationThreshold - 1 \in Nat
  BY ChainTypes DEF ChainInv, LandingsInv, SatSub
<1>3. landings' = AfterTravel(landings, open, LandingSlot, Landing) /\ open' = LandingSlot
  BY DEF ApplyTravel, NotYetClosed, AfterTravel
<1>4. /\ Ordered(landings')
      /\ \A s \in 0..(LandingSlot - 1) : HoldsBlock(landings', s) <=> s < open /\ HoldsBlock(landings, s)
  BY <1>1, <1>2, <1>3, TravelInOrder
<1>5. /\ DOMAIN landings' = {l \in DOMAIN landings : l < open} \cup {LandingSlot}
      /\ landings'[LandingSlot] = Landing
      /\ \A l \in DOMAIN landings : l < open => landings'[l] = landings[l]
  BY <1>1, <1>2, <1>3 DEF AfterTravel, Put, Drop
<1>6. PartOf(landings_db', landings')
  BY <1>2 DEF ApplyTravel, NotYetClosed, ChainInv, LandingsInv, PartOf, Put, Drop
<1>7. FinalizedSlot' = FinalizedSlot
  <2>1. FinalizedSlot = BlocksBack(landings, open - 1, FinalizationThreshold - 1)
    BY <1>2 DEF FinalizedSlot, FinalizedAt
  <2>2. FinalizedSlot' = BlocksBack(landings', LandingSlot - 1, FinalizationThreshold - 1)
    BY <1>1, <1>2, <1>3 DEF FinalizedSlot, FinalizedAt, SatSub
  <2>3. BlocksBack(landings', LandingSlot - 1, FinalizationThreshold - 1)
          = BlocksBack(landings, open - 1, FinalizationThreshold - 1)
    BY <1>1, <1>2, <1>4, SameBlocksSameDepth
  <2> QED
    BY <2>1, <2>2, <2>3
<1> QED
  BY <1>1, <1>2, <1>3, <1>4, <1>5, <1>6, <1>7

-----------------------------------------------------------------------------
LEMMA ChainInvInit == Init => ChainInv
<1> SUFFICES ASSUME Init PROVE ChainInv
  OBVIOUS
<1>1. TypeOK
  BY InitTypes
<1>2. PICK now \in WallTimes : anchor \in NewChains(has_remote, NoSlot, DefaultGenesis(now), now)
  BY DEF Init
<1>3. has_remote \in BOOLEAN
  BY <1>1 DEF TypeOK
<1>4. anchor.slot \in Nat \ {0} /\ open = anchor.slot
  <2>1. /\ NoSlot \in Nat \cup {NoSlot} /\ now \in Nat
        /\ DefaultGenesis(now) \in AnchorOf /\ DefaultGenesis(now).slot # 0
    BY OfflineChains
  <2>2. anchor.slot \in Nat \ {0}
    BY <1>2, <1>3, <2>1, NewChainsType
  <2> QED
    BY <2>2 DEF Init
<1>5. /\ DOMAIN landings = {} /\ DOMAIN landings_db = {} /\ DOMAIN blocks = {}
      /\ latest_slot = NoSlot
  BY DEF Init, EmptyMap
<1>6. LandingsInv /\ AnchorInv /\ StoredBlocksAreFinal
  BY <1>4, <1>5 DEF LandingsInv, Ordered, PartOf, AnchorInv, LocalChain, StoredBlocksAreFinal
<1>7. LeftOpenInv
  BY DEF Init, LeftOpenInv
<1> QED
  BY <1>1, <1>4, <1>6, <1>7 DEF ChainInv

LEMMA CloseBlockKeeps ==
  ASSUME ChainInv, CloseBlock, remote_slot' = remote_slot
  PROVE  /\ open' # 0 /\ LandingsInv' /\ AnchorInv' /\ StoredBlocksAreFinal'
         /\ LocalChain => LocalChain'
<1>1. open \in Nat /\ open' = open + 1 /\ landings' = landings /\ landings_db' = landings_db
  BY ChainTypes DEF ChainInv, CloseBlock
<1>2. HoldsBlock(landings, open)
  BY OpenHoldsBlock
<1>3. LandingsInv'
  BY <1>1, ChainTypes DEF ChainInv, LandingsInv
<1>4. DOMAIN blocks' \subseteq DOMAIN blocks \cup {open} /\ left_open' = left_open \ {open}
  BY DEF CloseBlock, BlocksStored, Put
<1>5. StoredBlocksAreFinal'
  BY <1>1, <1>2, <1>4, ChainTypes DEF ChainInv, StoredBlocksAreFinal
<1>6. anchor' = anchor /\ latest_slot' \in {open, latest_slot}
  BY DEF CloseBlock
<1>7. LocalChain => LocalChain'
  BY <1>1, <1>4, <1>6, ChainTypes DEF ChainInv, LocalChain
<1>8. AnchorInv'
  BY <1>6, <1>7 DEF ChainInv, AnchorInv
<1> QED
  BY <1>1, <1>3, <1>5, <1>7, <1>8

LEMMA ApplyTravelKeeps ==
  ASSUME ChainInv, ApplyTravel
  PROVE  /\ open' # 0 /\ LandingsInv' /\ AnchorInv' /\ StoredBlocksAreFinal'
         /\ LocalChain => LocalChain'
<1>1. /\ open' \in Nat /\ open <= open' /\ open \in Nat \ {0} /\ DOMAIN landings \subseteq Nat
      /\ DOMAIN blocks \subseteq Nat /\ anchor.slot \in Nat
  BY TravelLands, ChainTypes DEF ChainInv
<1>2. LandingsInv'
  <2>1. \A l \in DOMAIN landings' : l <= open'
    BY <1>1, TravelLands
  <2> QED
    BY <1>1, <2>1, TravelLands DEF LandingsInv
<1>3. StoredBlocksAreFinal'
  <2>1. blocks' = blocks /\ left_open' = left_open
    BY DEF ApplyTravel
  <2>2. ASSUME NEW s \in Nat, s \in DOMAIN blocks, s \notin left_open
        PROVE  s < open' /\ HoldsBlock(landings', s)
    <3>1. s < open /\ HoldsBlock(landings, s)
      BY <2>2 DEF ChainInv, StoredBlocksAreFinal
    <3>2. s < open' /\ s \in 0..(open' - 1)
      <4>1. s < open /\ open \in Nat /\ open' \in Nat /\ open <= open'
        BY <1>1, <3>1
      <4> QED
        BY <4>1, InRangeBelow
    <3> QED
      BY <1>1, <3>1, <3>2, TravelLands
  <2> QED
    BY <1>1, <2>1, <2>2 DEF StoredBlocksAreFinal
<1>4. UNCHANGED <<anchor, latest_slot, blocks, remote_slot>>
  BY DEF ApplyTravel, remote_rpc
<1>5. ASSUME LocalChain PROVE LocalChain'
  <2>1. Landing.parent = BlockAtOrBefore(landings, SatSub(open, 1))
    BY LandingType DEF ChainInv, ApplyTravel
  <2>2. anchor.slot <= Landing.parent + 1
    BY <1>5, <2>1, LocalParent
  <2>3. ASSUME NEW l \in DOMAIN landings'
        PROVE  /\ anchor.slot <= l /\ l <= open'
               /\ anchor.slot <= landings'[l].parent + 1
    <3>1. CASE l = open'
      BY <1>1, <1>5, <2>2, <3>1, TravelLands DEF LocalChain
    <3>2. CASE l \in DOMAIN landings /\ l < open
      BY <1>1, <1>5, <3>2, TravelLands DEF LocalChain
    <3> QED
      BY <3>1, <3>2, TravelLands
  <2> QED
    BY <1>1, <1>4, <1>5, <2>3 DEF LocalChain
<1>6. AnchorInv'
  BY <1>4, <1>5 DEF ChainInv, AnchorInv
<1> QED
  BY <1>1, <1>2, <1>3, <1>5, <1>6

LEMMA ApplyTravelFailsKeeps ==
  ASSUME ChainInv, ApplyTravelFails
  PROVE  /\ open' # 0 /\ LandingsInv' /\ AnchorInv' /\ StoredBlocksAreFinal'
         /\ LocalChain => LocalChain'
<1>1. UNCHANGED <<memory, blocks, latest_slot, anchor, remote_slot, left_open>>
  BY DEF ApplyTravelFails, remote_rpc, told
<1>2. PartOf(landings_db', landings)
  BY DEF ApplyTravelFails, ChainInv, LandingsInv, PartOf, Drop
<1> QED
  BY <1>1, <1>2 DEF memory, ChainInv, LandingsInv, AnchorInv, LocalChain, StoredBlocksAreFinal

LEMMA ResetNetworkKeeps ==
  ASSUME ChainInv, ResetNetwork
  PROVE  /\ open' # 0 /\ LandingsInv' /\ AnchorInv' /\ StoredBlocksAreFinal'
         /\ LocalChain'
<1>1. PICK now \in WallTimes : anchor' \in NewChains(has_remote, remote_slot, ResetGenesis(now), now)
  BY DEF ResetNetwork
<1>2. has_remote \in BOOLEAN /\ remote_slot \in Nat \cup {NoSlot}
  BY DEF ChainInv, TypeOK
<1>3. anchor'.slot \in Nat \ {0}
  BY <1>1, <1>2, OfflineChains, NewChainsType
<1>4. /\ open' = anchor'.slot
      /\ DOMAIN landings' = {} /\ DOMAIN landings_db' = {} /\ DOMAIN blocks' = {}
      /\ latest_slot' = NoSlot
  BY DEF ResetNetwork, EmptyMap
<1> QED
  BY <1>3, <1>4 DEF LandingsInv, Ordered, PartOf, AnchorInv, LocalChain, StoredBlocksAreFinal

(* A restart opens past every block that is stored. *)
LEMMA RestartOpensPast ==
  ASSUME ChainInv, NEW checkpoint \in Nat \cup {NoSlot}, StopAndRestart(checkpoint),
         LocalChain => checkpoint = NoSlot \/ anchor.slot <= checkpoint + 1
  PROVE  /\ open' \in Nat \ {0} /\ AnchorInv'
         /\ LocalChain /\ ~OpensAnew(checkpoint) => LocalChain'
         /\ \A s \in DOMAIN blocks : s < open'
         /\ \A l \in DOMAIN landings_db : l > open' => landings_db[l].parent = l - 1
<1>1. /\ TypeOK /\ DOMAIN blocks \subseteq Nat /\ DOMAIN landings_db \subseteq Nat /\ anchor.slot \in Nat
      /\ remote_slot \in Nat \cup {NoSlot} /\ open' \in Nat
      /\ blocks' = blocks /\ landings' = landings_db /\ latest_slot' = checkpoint
  BY ChainTypes, RestartCases DEF ChainInv, StopAndRestart
<1>2. /\ \A s \in DOMAIN blocks : s + 1 \in StoredEnds(checkpoint)
      /\ \A l \in DOMAIN landings_db : l \in StoredEnds(checkpoint)
      /\ \A e \in StoredEnds(checkpoint) :
           \/ checkpoint # NoSlot /\ e = checkpoint + 1
           \/ \E s \in DOMAIN blocks : e = s + 1
           \/ e \in DOMAIN landings_db
      /\ checkpoint # NoSlot => checkpoint + 1 \in StoredEnds(checkpoint)
  BY DEF StoredEnds
<1>3. ASSUME NEW l \in DOMAIN landings_db
      PROVE  /\ l \in DOMAIN landings /\ landings_db[l] = landings[l]
             /\ l \in Nat \ {0} /\ landings[l].parent \in Nat /\ landings[l].parent < l
  BY DEF ChainInv, LandingsInv, PartOf, Ordered
<1>4. CASE OpensAnew(checkpoint)
  <2>1. /\ LastEnd(checkpoint, anchor.slot) /\ open' = anchor'.slot /\ open' \in Nat \ {0}
        /\ open' >= remote_slot + 1 /\ remote_slot' = open' - 1
    BY <1>4 DEF OpensAnew
  <2>2. AnchorInv'
    BY <2>1 DEF AnchorInv
  <2>3. CASE anchor.slot <= remote_slot + 1
    <3>1. anchor.slot <= open'
      BY <1>1, <2>1, <2>3 DEF NoSlot
    <3>2. \A s \in DOMAIN blocks : s < open'
      BY <1>1, <1>2, <2>1, <3>1 DEF LastEnd
    <3>3. \A l \in DOMAIN landings_db : l <= open'
      BY <1>1, <1>2, <2>1, <3>1 DEF LastEnd
    <3> QED
      BY <1>1, <1>4, <2>1, <2>2, <3>2, <3>3
  <2>4. CASE LocalChain
    <3>1. DOMAIN blocks = {}
      <4>1. ASSUME NEW s \in DOMAIN blocks PROVE FALSE
        <5>1. anchor.slot <= s /\ s + 1 <= anchor.slot
          BY <1>2, <2>1, <2>4 DEF LastEnd, LocalChain
        <5>2. s \in Nat /\ anchor.slot \in Nat
          BY <1>1, ChainTypes DEF ChainInv
        <5> QED
          BY <5>1, <5>2
      <4> QED
        BY <4>1
    <3>2. ASSUME NEW l \in DOMAIN landings_db PROVE landings_db[l].parent = l - 1
      <4>1. l <= anchor.slot /\ anchor.slot <= landings[l].parent + 1
        BY <1>2, <1>3, <2>1, <2>4 DEF LastEnd, LocalChain
      <4> QED
        BY <1>1, <1>3, <4>1
    <3> QED
      BY <1>4, <2>1, <2>2, <3>1, <3>2
  <2> QED
    BY <2>3, <2>4 DEF ChainInv, AnchorInv
<1>5. CASE Reopens(checkpoint)
  <2>1. /\ open' \in StoredEnds(checkpoint) /\ \A e \in StoredEnds(checkpoint) : e <= open'
        /\ anchor' = anchor /\ remote_slot' = remote_slot
    BY <1>5 DEF Reopens, LastEnd
  <2>2. open' # 0
    BY <1>1, <1>2, <1>3, <2>1
  <2>3. (\A s \in DOMAIN blocks : s < open') /\ (\A l \in DOMAIN landings_db : l <= open')
    BY <1>1, <1>2, <2>1
  <2>4. CASE LocalChain
    <3>1. \A e \in StoredEnds(checkpoint) : anchor.slot <= e
      BY <1>1, <1>2, <1>3, <2>4 DEF LocalChain, NoSlot
    <3>2. \A l \in DOMAIN landings_db : /\ anchor.slot <= l
                                        /\ anchor.slot <= landings_db[l].parent + 1
      BY <1>3, <2>4 DEF LocalChain
    <3>3. LocalChain'
      BY <1>1, <2>1, <2>3, <2>4, <3>1, <3>2 DEF LocalChain
    <3> QED
      BY <1>1, <2>2, <2>3, <3>3 DEF AnchorInv
  <2>5. CASE ~LocalChain
    BY <1>1, <2>1, <2>2, <2>3, <2>5 DEF AnchorInv, ChainInv
  <2> QED
    BY <2>4, <2>5
<1>6. CASE StartsOver(checkpoint)
  <2>1. /\ DOMAIN blocks = {} /\ DOMAIN landings_db = {} /\ checkpoint = NoSlot
        /\ anchor'.slot \in Nat \ {0} /\ open' = anchor'.slot
    BY <1>2, <1>6 DEF StartsOver
  <2>2. LocalChain'
    BY <1>1, <2>1 DEF LocalChain
  <2> QED
    BY <2>1, <2>2 DEF AnchorInv
<1> QED
  BY <1>1, <1>4, <1>5, <1>6, RestartCases

LEMMA RestartKeeps ==
  ASSUME ChainInv, NEW checkpoint \in Nat \cup {NoSlot}, StopAndRestart(checkpoint),
         LocalChain => checkpoint = NoSlot \/ anchor.slot <= checkpoint + 1
  PROVE  open' # 0 /\ LandingsInv' /\ AnchorInv' /\ StoredBlocksAreFinal'
<1>1. /\ open' \in Nat \ {0} /\ AnchorInv'
      /\ \A s \in DOMAIN blocks : s < open'
      /\ \A l \in DOMAIN landings_db : l > open' => landings_db[l].parent = l - 1
  BY RestartOpensPast
<1>2. /\ landings' = landings_db /\ landings_db' = landings_db /\ blocks' = blocks
      /\ left_open' = left_open
  BY DEF StopAndRestart
<1>3. Ordered(landings_db) /\ \A s \in Nat : HoldsBlock(landings, s) => HoldsBlock(landings_db, s)
  BY PartHoldsBlocks DEF ChainInv, LandingsInv
<1>4. LandingsInv'
  BY <1>1, <1>2, <1>3 DEF LandingsInv, PartOf
<1>5. StoredBlocksAreFinal'
  BY <1>1, <1>2, <1>3, ChainTypes DEF ChainInv, StoredBlocksAreFinal
<1> QED
  BY <1>1, <1>4, <1>5

(* A refused block or checkpoint leaves the chain where it was.            *)
LEMMA CloseBeforeTravelFailsKeeps ==
  ASSUME ChainInv, CloseBeforeTravelFails
  PROVE  /\ open' # 0 /\ LandingsInv' /\ AnchorInv' /\ StoredBlocksAreFinal'
         /\ LocalChain => LocalChain'
<1>1. UNCHANGED <<open, landings, landings_db, latest_slot, anchor, remote_slot>>
  BY DEF CloseBeforeTravelFails, remote_rpc
<1>2. DOMAIN blocks' \ left_open' \subseteq DOMAIN blocks \ left_open
  BY DEF CloseBeforeTravelFails, BlockRefused, CheckpointRefused, BlocksStored, Put
<1>3. DOMAIN blocks' \subseteq DOMAIN blocks \cup {open}
  BY DEF CloseBeforeTravelFails, BlockRefused, CheckpointRefused, BlocksStored, Put
<1>4. LandingsInv' /\ StoredBlocksAreFinal'
  BY <1>1, <1>2 DEF ChainInv, LandingsInv, StoredBlocksAreFinal
<1>5. LocalChain => LocalChain'
  BY <1>1, <1>3 DEF LocalChain
<1> QED
  BY <1>1, <1>4, <1>5 DEF ChainInv, AnchorInv

LEMMA LeftOpenNext == ChainInv /\ [Next]_vars => LeftOpenInv'
<1> SUFFICES ASSUME ChainInv, [Next]_vars, block_failures' = 0 PROVE left_open' = {}
  BY DEF LeftOpenInv
<1>1. block_failures \in Nat /\ (block_failures = 0 => left_open = {})
  BY TypeParts DEF ChainInv, LeftOpenInv, CountersType
<1>2. CASE CloseSlot \/ CloseBeforeTravel
  BY <1>1, <1>2 DEF CloseSlot, CloseBeforeTravel, CloseBlock, counters
<1>3. CASE CloseBeforeTravelFails
  BY <1>1, <1>3 DEF CloseBeforeTravelFails
<1>4. CASE ResetNetwork
  BY <1>4 DEF ResetNetwork
<1>5. CASE ShutdownAndRestart \/ CrashAndRestart
  BY <1>1, <1>5 DEF ShutdownAndRestart, CrashAndRestart, StopAndRestart
<1>6. CASE \/ \E t \in Tx : ProcessTransaction(t)
           \/ ApplyTravel \/ ApplyTravelFails \/ UpdateSlotInterval \/ RequestTravel
           \/ UNCHANGED vars
  BY <1>1, <1>6 DEF ProcessTransaction, ApplyTravel, ApplyTravelFails, UpdateSlotInterval,
                    RequestTravel, vars, told, counters
<1> QED
  BY <1>2, <1>3, <1>4, <1>5, <1>6 DEF Next

LEMMA ChainInvNext == ChainInv /\ [Next]_vars => ChainInv'
<1> SUFFICES ASSUME ChainInv, [Next]_vars PROVE ChainInv'
  OBVIOUS
<1>1. TypeOK' /\ LeftOpenInv'
  BY TypesNext, LeftOpenNext DEF ChainInv
<1>2. CASE CloseSlot \/ CloseBeforeTravel
  BY <1>1, <1>2, CloseBlockKeeps DEF CloseSlot, CloseBeforeTravel, remote_rpc, ChainInv
<1>3. CASE ApplyTravel
  BY <1>1, <1>3, ApplyTravelKeeps DEF ChainInv
<1>4. CASE ApplyTravelFails
  BY <1>1, <1>4, ApplyTravelFailsKeeps DEF ChainInv
<1>5. CASE ResetNetwork
  BY <1>1, <1>5, ResetNetworkKeeps DEF ChainInv
<1>6. CASE ShutdownAndRestart
  <2>1. ParentSlot(landings, open) \in Nat
    BY CheckpointTypes DEF ChainInv
  <2>2. LocalChain => anchor.slot <= ParentSlot(landings, open) + 1
    BY LocalParent
  <2> QED
    BY <1>1, <1>6, <2>1, <2>2, RestartKeeps DEF ShutdownAndRestart, ChainInv
<1>7. CASE CrashAndRestart
  <2>1. latest_slot \in Nat \cup {NoSlot}
    BY CheckpointTypes DEF ChainInv
  <2>2. LocalChain => latest_slot = NoSlot \/ anchor.slot <= latest_slot + 1
    BY DEF LocalChain
  <2> QED
    BY <1>1, <1>7, <2>1, <2>2, RestartKeeps DEF CrashAndRestart, ChainInv
<1>8. CASE UNCHANGED <<open, landings, landings_db, blocks, latest_slot, anchor, remote_slot,
                    left_open>>
  BY <1>1, <1>8 DEF ChainInv, LandingsInv, AnchorInv, LocalChain, StoredBlocksAreFinal
<1>9. CASE \/ \E t \in Tx : ProcessTransaction(t)
           \/ UpdateSlotInterval \/ RequestTravel
           \/ UNCHANGED vars
  BY <1>8, <1>9 DEF ProcessTransaction, UpdateSlotInterval, RequestTravel, vars, memory,
                    database, told, remote_rpc
<1>10. CASE CloseBeforeTravelFails
  BY <1>1, <1>10, CloseBeforeTravelFailsKeeps DEF ChainInv
<1> QED
  BY <1>2, <1>3, <1>4, <1>5, <1>6, <1>7, <1>9, <1>10 DEF Next

LEMMA ChainInvHolds == Spec => []ChainInv
BY ChainInvInit, ChainInvNext, PTL DEF Spec

(* No stored block is produced again: neither a travel nor a restart, on   *)
(* whatever the store holds by then, reopens its slot, an earlier one, or  *)
(* a chain that skips it, unless its slot is still open as the checkpoint  *)
(* after it was refused.                                                   *)
THEOREM BlocksStayFinal == Spec => []StoredBlocksAreFinal
<1>1. ChainInv => StoredBlocksAreFinal
  BY DEF ChainInv
<1> QED
  BY <1>1, ChainInvHolds, PTL

-----------------------------------------------------------------------------
(* Transactions and the blocks they ran in *)

(* The finalized slot is a block before the open slot; closing the open    *)
(* slot moves it to the next block at most, and a reset starts it over     *)
(* before the genesis.                                                     *)
LEMMA FinalizedBeforeOpen ==
  ASSUME ChainInv
  PROVE  /\ FinalizedSlot = BlocksBack(landings, open - 1, FinalizationThreshold - 1)
         /\ FinalizedSlot \in 0..(open - 1)
<1>1. open - 1 \in Nat /\ SatSub(open, 1) = open - 1
  BY ChainTypes DEF ChainInv, SatSub
<1> QED
  BY <1>1, BlocksBackType DEF FinalizedSlot, FinalizedAt

LEMMA CloseFinalizes ==
  ASSUME ChainInv, CloseBlock
  PROVE  /\ FinalizedSlot' = FinalAfterClose
         /\ FinalAfterClose = BlocksBack(landings, open, FinalizationThreshold - 1)
<1>1. open \in Nat /\ open' = open + 1 /\ landings' = landings /\ SatSub(open + 1, 1) = open
  BY ChainTypes DEF ChainInv, CloseBlock, SatSub
<1> QED
  BY <1>1 DEF FinalizedSlot, FinalizedAt, FinalAfterClose

(* A transaction that no stop interrupted waits in the queue as long as    *)
(* the slot it ran in is open.                                             *)
OpenQueued ==
  \A t \in DOMAIN transactions \ interrupted :
    transactions[t] <= open /\ (transactions[t] = open => t \in confirmation_queue)

(* Nothing waits to be confirmed between the two halves of a travel.       *)
TxInv ==
  /\ travelling # NoClock => confirmation_queue = {}
  /\ block_failures = 0 => QueuesMatchChain /\ OpenQueued /\ ConfirmedInBlocks

LEMMA TxTypes ==
  ASSUME TypeOK
  PROVE  /\ open \in Nat /\ transactions \in [DOMAIN transactions -> Nat]
         /\ finalization_queue \subseteq [slot : Nat, tx : Tx]
         /\ block_failures \in Nat /\ DOMAIN blocks \subseteq Nat
BY DEF TypeOK

LEMMA TxInvInit == Init => TxInv
BY DEF Init, TxInv, QueuesMatchChain, OpenQueued, ConfirmedInBlocks, EmptyMap

LEMMA CloseBlockKeepsTx ==
  ASSUME ChainInv, QueuesMatchChain, OpenQueued, ConfirmedInBlocks, CloseBlock
  PROVE  QueuesMatchChain' /\ OpenQueued' /\ ConfirmedInBlocks'
<1>1. /\ open \in Nat /\ transactions \in [DOMAIN transactions -> Nat]
      /\ finalization_queue \subseteq [slot : Nat, tx : Tx]
  BY TxTypes DEF ChainInv
<1>2. /\ open' = open + 1 /\ landings' = landings /\ transactions' = transactions
      /\ interrupted' = interrupted /\ confirmation_queue' = {}
      /\ finalization_queue' = {q \in Confirmed : q.slot > FinalAfterClose}
      /\ blocks' = BlocksStored
  BY DEF CloseBlock
<1>3. FinalizedSlot' = FinalAfterClose /\ FinalAfterClose \in Nat
  BY <1>1, CloseFinalizes, BlocksBackType
<1>4. QueuesMatchChain'
  <2>1. ASSUME NEW q \in finalization_queue'
        PROVE  /\ q.tx \in DOMAIN transactions /\ transactions[q.tx] = q.slot
               /\ FinalAfterClose < q.slot /\ q.slot < open + 1 /\ HoldsBlock(landings, q.slot)
    <3>1. q.slot > FinalAfterClose /\ q \in Confirmed
      BY <1>2
    <3>2. CASE q \in finalization_queue
      <4>1. /\ q.tx \in DOMAIN transactions /\ transactions[q.tx] = q.slot
            /\ q.slot < open /\ HoldsBlock(landings, q.slot) /\ q.slot \in Nat
        BY <1>1, <3>2 DEF QueuesMatchChain
      <4> QED
        BY <1>1, <1>3, <3>1, <4>1
    <3>3. CASE q \in [slot : {open}, tx : confirmation_queue]
      <4>1. /\ q.slot = open /\ q.tx \in DOMAIN transactions /\ transactions[q.tx] = open
        BY <3>3 DEF QueuesMatchChain
      <4>2. HoldsBlock(landings, open)
        BY OpenHoldsBlock
      <4> QED
        BY <1>1, <1>3, <3>1, <4>1, <4>2
    <3> QED
      BY <3>1, <3>2, <3>3 DEF Confirmed
  <2> QED
    BY <1>2, <1>3, <2>1 DEF QueuesMatchChain
<1>5. OpenQueued'
  BY <1>1, <1>2 DEF OpenQueued
<1>6. ConfirmedInBlocks'
  <2>1. ASSUME NEW t \in DOMAIN transactions \ interrupted, transactions[t] < open + 1
        PROVE  transactions[t] \in DOMAIN blocks' /\ t \in blocks'[transactions[t]].signatures
    <3>1. transactions[t] \in Nat
      BY <1>1
    <3>2. CASE transactions[t] < open
      <4>1. transactions[t] \in DOMAIN blocks /\ t \in blocks[transactions[t]].signatures
        BY <3>2 DEF ConfirmedInBlocks
      <4> QED
        BY <1>1, <1>2, <3>1, <3>2, <4>1 DEF BlocksStored, Put
    <3>3. CASE transactions[t] = open
      <4>1. t \in confirmation_queue
        BY <3>3 DEF OpenQueued
      <4> QED
        BY <1>2, <3>3, <4>1 DEF BlocksStored, Put
    <3> QED
      BY <1>1, <2>1, <3>1, <3>2, <3>3
  <2> QED
    BY <1>2, <2>1 DEF ConfirmedInBlocks
<1> QED
  BY <1>4, <1>5, <1>6

LEMMA ProcessKeepsTx ==
  ASSUME ChainInv, QueuesMatchChain, OpenQueued, ConfirmedInBlocks,
         NEW t \in Tx, ProcessTransaction(t)
  PROVE  QueuesMatchChain' /\ OpenQueued' /\ ConfirmedInBlocks'
<1>1. open \in Nat
  BY TxTypes DEF ChainInv
<1>2. /\ UNCHANGED <<open, landings, finalization_queue, blocks, interrupted>>
      /\ confirmation_queue' = confirmation_queue \cup {t}
      /\ DOMAIN transactions' = DOMAIN transactions \cup {t} /\ transactions'[t] = open
      /\ \A r \in DOMAIN transactions : r # t /\ transactions'[r] = transactions[r]
  BY DEF ProcessTransaction, told, Put
<1>3. FinalizedSlot' = FinalizedSlot
  BY <1>2 DEF FinalizedSlot
<1>4. QueuesMatchChain'
  BY <1>2, <1>3 DEF QueuesMatchChain
<1>5. OpenQueued'
  BY <1>1, <1>2 DEF OpenQueued
<1>6. ConfirmedInBlocks'
  BY <1>1, <1>2 DEF ConfirmedInBlocks
<1> QED
  BY <1>4, <1>5, <1>6

LEMMA TravelKeepsTx ==
  ASSUME ChainInv, QueuesMatchChain, OpenQueued, ConfirmedInBlocks,
         confirmation_queue = {}, ApplyTravel
  PROVE  QueuesMatchChain' /\ OpenQueued' /\ ConfirmedInBlocks'
<1>1. /\ open \in Nat /\ open' \in Nat /\ open <= open' /\ FinalizedSlot' = FinalizedSlot
      /\ transactions \in [DOMAIN transactions -> Nat]
      /\ finalization_queue \subseteq [slot : Nat, tx : Tx]
  BY TravelLands, TxTypes DEF ChainInv
<1>2. UNCHANGED <<transactions, interrupted, confirmation_queue, finalization_queue, blocks>>
  BY DEF ApplyTravel
<1>3. \A t \in DOMAIN transactions \ interrupted : transactions[t] < open
  BY <1>1 DEF OpenQueued
<1>4. ASSUME NEW q \in finalization_queue
      PROVE  q.slot < open' /\ HoldsBlock(landings', q.slot)
  <2>1. q.slot \in Nat /\ q.slot < open /\ HoldsBlock(landings, q.slot)
    BY <1>1 DEF QueuesMatchChain
  <2>2. q.slot \in 0..(open' - 1)
    BY <1>1, <2>1
  <2> QED
    BY <1>1, <2>1, <2>2, TravelLands
<1>5. QueuesMatchChain'
  BY <1>1, <1>2, <1>4 DEF QueuesMatchChain
<1>6. OpenQueued'
  BY <1>1, <1>2, <1>3 DEF OpenQueued
<1>7. ConfirmedInBlocks'
  BY <1>2, <1>3 DEF ConfirmedInBlocks
<1> QED
  BY <1>5, <1>6, <1>7

(* A stop loses the queues, and interrupts what waits in the open slot.    *)
LEMMA RestartKeepsTx ==
  ASSUME ChainInv, QueuesMatchChain, OpenQueued, ConfirmedInBlocks,
         NEW checkpoint \in Nat \cup {NoSlot}, StopAndRestart(checkpoint),
         LocalChain => checkpoint = NoSlot \/ anchor.slot <= checkpoint + 1
  PROVE  QueuesMatchChain' /\ OpenQueued' /\ ConfirmedInBlocks'
<1>1. /\ open \in Nat /\ open' \in Nat /\ \A s \in DOMAIN blocks : s < open'
      /\ transactions \in [DOMAIN transactions -> Nat]
  BY RestartOpensPast, TxTypes DEF ChainInv
<1>2. /\ UNCHANGED <<transactions, blocks>>
      /\ interrupted' = interrupted \cup confirmation_queue
      /\ confirmation_queue' = {} /\ finalization_queue' = {}
  BY DEF StopAndRestart
<1>3. ASSUME NEW t \in DOMAIN transactions \ interrupted'
      PROVE  /\ transactions[t] \in DOMAIN blocks
             /\ t \in blocks[transactions[t]].signatures
  <2>1. /\ t \in DOMAIN transactions \ interrupted /\ t \notin confirmation_queue
        /\ transactions[t] \in Nat
    BY <1>1, <1>2
  <2>2. transactions[t] < open
    BY <1>1, <2>1 DEF OpenQueued
  <2> QED
    BY <2>1, <2>2 DEF ConfirmedInBlocks
<1>4. \A t \in DOMAIN transactions \ interrupted' : transactions[t] \in Nat /\ transactions[t] < open'
  BY <1>1, <1>3
<1>5. OpenQueued'
  BY <1>1, <1>2, <1>4 DEF OpenQueued
<1> QED
  BY <1>2, <1>3, <1>5 DEF QueuesMatchChain, ConfirmedInBlocks

LEMMA TxInvNext == ChainInv /\ TxInv /\ [Next]_vars => TxInv'
<1> SUFFICES ASSUME ChainInv, TxInv, [Next]_vars PROVE TxInv'
  OBVIOUS
<1>1. block_failures \in Nat
  BY TxTypes DEF ChainInv
<1>2. CASE CloseSlot \/ CloseBeforeTravel
  <2>1. CloseBlock /\ block_failures' = block_failures /\ confirmation_queue' = {}
    BY <1>2 DEF CloseSlot, CloseBeforeTravel, CloseBlock, counters
  <2> QED
    BY <2>1, CloseBlockKeepsTx DEF TxInv
<1>3. ASSUME NEW t \in Tx, ProcessTransaction(t) PROVE TxInv'
  <2>1. block_failures' = block_failures /\ travelling' = NoClock
    BY <1>3 DEF ProcessTransaction, counters, channel
  <2> QED
    BY <1>3, <2>1, ProcessKeepsTx DEF TxInv
<1>4. CASE CloseBeforeTravelFails
  <2>1. block_failures' # 0 /\ confirmation_queue' = {}
    BY <1>1, <1>4 DEF CloseBeforeTravelFails
  <2> QED
    BY <2>1 DEF TxInv
<1>5. CASE ApplyTravel
  <2>1. /\ block_failures' = block_failures /\ travelling # NoClock /\ travelling' = NoClock
    BY <1>5 DEF ApplyTravel, counters
  <2> QED
    BY <1>5, <2>1, TravelKeepsTx DEF TxInv
<1>6. CASE ResetNetwork
  BY <1>6 DEF ResetNetwork, TxInv, QueuesMatchChain, OpenQueued, ConfirmedInBlocks, EmptyMap
<1>7. CASE ShutdownAndRestart
  <2>1. ParentSlot(landings, open) \in Nat
    BY CheckpointTypes DEF ChainInv
  <2>2. LocalChain => anchor.slot <= ParentSlot(landings, open) + 1
    BY LocalParent
  <2>3. block_failures' = block_failures /\ travelling' = NoClock
    BY <1>7 DEF ShutdownAndRestart, StopAndRestart
  <2> QED
    BY <1>7, <2>1, <2>2, <2>3, RestartKeepsTx DEF ShutdownAndRestart, TxInv
<1>8. CASE CrashAndRestart
  <2>1. latest_slot \in Nat \cup {NoSlot}
    BY CheckpointTypes DEF ChainInv
  <2>2. LocalChain => latest_slot = NoSlot \/ anchor.slot <= latest_slot + 1
    BY DEF LocalChain
  <2>3. block_failures' = block_failures /\ travelling' = NoClock
    BY <1>8 DEF CrashAndRestart, StopAndRestart
  <2> QED
    BY <1>8, <2>1, <2>2, <2>3, RestartKeepsTx DEF CrashAndRestart, TxInv
<1>9. CASE \/ ApplyTravelFails \/ UpdateSlotInterval \/ RequestTravel \/ UNCHANGED vars
  <2>1. /\ UNCHANGED <<open, landings, transactions, interrupted, confirmation_queue,
                       finalization_queue, blocks, block_failures>>
        /\ travelling' # NoClock => travelling # NoClock
    BY <1>9 DEF ApplyTravelFails, UpdateSlotInterval, RequestTravel, vars, memory, database,
                channel, told, counters
  <2> QED
    BY <2>1 DEF TxInv, QueuesMatchChain, OpenQueued, ConfirmedInBlocks, FinalizedSlot
<1> QED
  BY <1>2, <1>3, <1>4, <1>5, <1>6, <1>7, <1>8, <1>9 DEF Next

(* As long as the store refused no block, every transaction waits in the   *)
(* queue of the slot it ran in or is in that slot's block: no travel,      *)
(* reset or restart strands it.                                            *)
THEOREM TransactionsKept == Spec => [](block_failures = 0 => TransactionsFollowBlocks)
<1>1. Spec => []TxInv
  BY TxInvInit, TxInvNext, ChainInvHolds, PTL DEF Spec
<1>2. ChainInv /\ TxInv => (block_failures = 0 => TransactionsFollowBlocks)
  BY DEF ChainInv, TxInv, TransactionsFollowBlocks
<1> QED
  BY <1>1, <1>2, ChainInvHolds, PTL

-----------------------------------------------------------------------------
(* Roots *)

RootsInv == RootsFollowChain /\ \A s \in DOMAIN rooted : genesis_slot <= s

LEMMA RootsTypes ==
  ASSUME TypeOK
  PROVE  /\ genesis_slot \in Nat /\ DOMAIN rooted \subseteq Nat /\ stops \in Nat
         /\ rooted \in [DOMAIN rooted -> Nat]
BY DEF TypeOK

(* A chain that has just opened has no finalized block past its genesis.   *)
LEMMA RootsInvInit == Init => RootsInv
<1> SUFFICES ASSUME Init PROVE RootsInv
  OBVIOUS
<1>1. ChainInv
  BY ChainInvInit
<1>2. genesis_slot = open /\ DOMAIN rooted = {} /\ open \in Nat
  BY <1>1, ChainTypes DEF Init, EmptyMap, ChainInv
<1>3. FinalizedSlot < genesis_slot
  BY <1>1, <1>2, FinalizedBeforeOpen
<1>4. ~(FinalizedSlot >= genesis_slot)
  BY <1>1, <1>2, <1>3, FinalizedBeforeOpen
<1> QED
  BY <1>2, <1>4 DEF RootsInv, RootsFollowChain

(* The roots a close announces: the new finalized block, if it is another  *)
(* one and not before the genesis.                                         *)
LEMMA RootsOfClose ==
  ASSUME ChainInv
  PROVE  /\ FinalizedSlot \in Nat /\ FinalAfterClose \in Nat /\ FinalizedSlot <= FinalAfterClose
         /\ NewRoots = {s \in {FinalAfterClose} : FinalizedSlot # s /\ genesis_slot <= s}
         /\ FinalAfterClose # FinalizedSlot => ParentSlot(landings, FinalAfterClose) = FinalizedSlot
<1> DEFINE before == BlocksBack(landings, OpenHeader.parent, FinalizationThreshold - 1)
           from == IF before + 1 > genesis_slot THEN before + 1 ELSE genesis_slot
<1>1. /\ open \in Nat \ {0} /\ Ordered(landings) /\ genesis_slot \in Nat
      /\ FinalizationThreshold - 1 \in Nat /\ HoldsBlock(landings, open)
  BY ChainTypes, RootsTypes, OpenHoldsBlock DEF ChainInv, LandingsInv
<1>2. FinalizedSlot = BlocksBack(landings, open - 1, FinalizationThreshold - 1)
  BY FinalizedBeforeOpen
<1>3. before = FinalizedSlot
  BY <1>1, <1>2, BackFromParent DEF OpenHeader
<1>4. FinalAfterClose = BlocksBack(landings, open, FinalizationThreshold - 1)
  BY <1>1 DEF FinalAfterClose, FinalizedAt, SatSub
<1>5. open - 1 \in Nat /\ (open - 1) + 1 = open
  BY <1>1
<1>6. /\ FinalizedSlot \in 0..(open - 1) /\ FinalAfterClose \in 0..((open - 1) + 1)
      /\ FinalizedSlot <= FinalAfterClose
      /\ HoldsBlock(landings, FinalAfterClose)
      /\ BlocksWithin(landings, FinalizedSlot + 1, FinalAfterClose) \subseteq {FinalAfterClose}
      /\ FinalAfterClose # FinalizedSlot
           => ParentSlot(landings, FinalAfterClose) = FinalizedSlot
  BY <1>1, <1>2, <1>4, <1>5, BlocksBackStep
<1>7. FinalizedSlot \in Nat /\ FinalAfterClose \in Nat
  BY <1>1, <1>6
<1>8. NewRoots = BlocksWithin(landings, from, FinalAfterClose)
  BY DEF NewRoots
<1>9. /\ from \in Nat /\ FinalizedSlot + 1 <= from /\ genesis_slot <= from
      /\ from = FinalizedSlot + 1 \/ from = genesis_slot
  BY <1>1, <1>3, <1>7
<1> HIDE DEF from, before
<1>10. ASSUME NEW s \in NewRoots
       PROVE  s = FinalAfterClose /\ FinalizedSlot # s /\ genesis_slot <= s
  <2>1. s \in from..FinalAfterClose /\ HoldsBlock(landings, s)
    BY <1>8, <1>10 DEF BlocksWithin
  <2>2. s \in Nat /\ from <= s /\ s <= FinalAfterClose
    BY <1>7, <1>9, <2>1
  <2>3. FinalizedSlot + 1 <= s /\ genesis_slot <= s
    BY <1>1, <1>7, <1>9, <2>2
  <2>4. s \in BlocksWithin(landings, FinalizedSlot + 1, FinalAfterClose)
    BY <1>7, <2>1, <2>2, <2>3 DEF BlocksWithin
  <2> QED
    BY <1>6, <1>7, <2>3, <2>4
<1>11. ASSUME FinalizedSlot # FinalAfterClose, genesis_slot <= FinalAfterClose
       PROVE  FinalAfterClose \in NewRoots
  <2>1. FinalAfterClose \in from..FinalAfterClose
    BY <1>1, <1>6, <1>7, <1>9, <1>11
  <2> QED
    BY <1>6, <1>8, <2>1 DEF BlocksWithin
<1> QED
  BY <1>6, <1>7, <1>10, <1>11

LEMMA CloseBlockKeepsRoots ==
  ASSUME ChainInv, RootsInv, CloseBlock, stops' = stops
  PROVE  RootsInv'
<1>1. /\ FinalizedSlot \in Nat /\ FinalAfterClose \in Nat /\ FinalizedSlot <= FinalAfterClose
      /\ NewRoots = {s \in {FinalAfterClose} : FinalizedSlot # s /\ genesis_slot <= s}
      /\ FinalAfterClose # FinalizedSlot => ParentSlot(landings, FinalAfterClose) = FinalizedSlot
  BY RootsOfClose
<1>2. /\ genesis_slot \in Nat /\ DOMAIN rooted \subseteq Nat
  BY RootsTypes DEF ChainInv
<1>3. /\ FinalizedSlot' = FinalAfterClose /\ landings' = landings
      /\ genesis_slot' = genesis_slot /\ DOMAIN rooted' = DOMAIN rooted \cup NewRoots
  BY CloseFinalizes DEF CloseBlock
<1>4. \A s \in DOMAIN rooted' :
        rooted'[s] = (IF s \in DOMAIN rooted THEN rooted[s] ELSE 0)
                       + (IF s \in NewRoots THEN 1 ELSE 0)
  BY DEF CloseBlock
<1>5. \A s \in DOMAIN rooted :
        /\ rooted[s] = 1 /\ s <= FinalizedSlot /\ genesis_slot <= s /\ s \in Nat
        /\ ParentSlot(landings, s) \in DOMAIN rooted \/ \A r \in DOMAIN rooted : s <= r
  BY <1>2 DEF RootsInv, RootsFollowChain
<1>6. DOMAIN rooted # {} \/ (stops = 0 /\ FinalizedSlot >= genesis_slot)
        => FinalizedSlot \in DOMAIN rooted
  BY DEF RootsInv, RootsFollowChain
<1>7. ASSUME NEW s \in DOMAIN rooted'
      PROVE  /\ rooted'[s] = 1 /\ s <= FinalAfterClose /\ genesis_slot <= s
             /\ ParentSlot(landings, s) \in DOMAIN rooted' \/ \A r \in DOMAIN rooted' : s <= r
  <2>1. CASE s \in DOMAIN rooted
    <3>1. s \in Nat /\ s <= FinalizedSlot /\ genesis_slot <= s /\ rooted[s] = 1
      BY <1>5, <2>1
    <3>2. s \notin NewRoots
      BY <1>1, <3>1
    <3>3. rooted'[s] = 1
      BY <1>4, <2>1, <3>1, <3>2
    <3>4. s <= FinalAfterClose
      BY <1>1, <3>1
    <3>5. ParentSlot(landings, s) \in DOMAIN rooted' \/ \A r \in DOMAIN rooted' : s <= r
      BY <1>1, <1>3, <1>5, <2>1, <3>4
    <3> QED
      BY <3>1, <3>3, <3>4, <3>5
  <2>2. CASE s \in NewRoots
    <3>1. s = FinalAfterClose /\ FinalizedSlot # s /\ genesis_slot <= s
      BY <1>1, <2>2
    <3>2. s \notin DOMAIN rooted
      BY <1>1, <1>5, <3>1
    <3>3. rooted'[s] = 1
      BY <1>4, <2>2, <3>2
    <3>4. CASE DOMAIN rooted = {}
      BY <1>1, <1>3, <3>1, <3>3, <3>4
    <3>5. CASE DOMAIN rooted # {}
      BY <1>1, <1>3, <1>6, <3>1, <3>3, <3>5
    <3> QED
      BY <3>4, <3>5
  <2> QED
    BY <1>3, <2>1, <2>2
<1>8. ASSUME DOMAIN rooted' # {} \/ (stops = 0 /\ FinalAfterClose >= genesis_slot)
      PROVE  FinalAfterClose \in DOMAIN rooted'
  <2>1. CASE FinalAfterClose = FinalizedSlot
    BY <1>1, <1>3, <1>6, <1>8, <2>1
  <2>2. CASE FinalAfterClose # FinalizedSlot /\ genesis_slot <= FinalAfterClose
    BY <1>1, <1>3, <2>2
  <2>3. CASE ~(genesis_slot <= FinalAfterClose)
    <3>1. PICK s \in DOMAIN rooted' : TRUE
      BY <1>1, <1>2, <1>8, <2>3
    <3>2. s \in Nat
      BY <1>1, <1>2, <1>3, <3>1
    <3> QED
      BY <1>1, <1>2, <1>7, <2>3, <3>1, <3>2
  <2> QED
    BY <2>1, <2>2, <2>3
<1> QED
  BY <1>3, <1>7, <1>8 DEF RootsInv, RootsFollowChain

LEMMA TravelKeepsRoots ==
  ASSUME ChainInv, RootsInv, ApplyTravel
  PROVE  RootsInv'
<1>1. /\ open \in Nat \ {0} /\ open' \in Nat /\ open <= open' /\ FinalizedSlot' = FinalizedSlot
      /\ FinalizedSlot \in 0..(open - 1) /\ DOMAIN rooted \subseteq Nat
  BY TravelLands, ChainTypes, RootsTypes, FinalizedBeforeOpen DEF ChainInv
<1>2. UNCHANGED <<rooted, stops, genesis_slot>>
  BY DEF ApplyTravel, counters
<1>3. ASSUME NEW s \in DOMAIN rooted
      PROVE  ParentSlot(landings', s) = ParentSlot(landings, s)
  <2>1. s \in Nat /\ s < open
    BY <1>1 DEF RootsInv, RootsFollowChain
  <2> QED
    BY <1>1, <2>1, TravelLands DEF ParentSlot
<1> QED
  BY <1>1, <1>2, <1>3 DEF RootsInv, RootsFollowChain

LEMMA Below ==
  ASSUME NEW slot \in Nat \ {0}, NEW s \in 0..(slot - 1)
  PROVE  ~(s >= slot)
OBVIOUS

LEMMA ResetKeepsRoots ==
  ASSUME ChainInv', ResetNetwork
  PROVE  RootsInv'
<1>1. DOMAIN rooted' = {} /\ genesis_slot' = open'
  BY DEF ResetNetwork, EmptyMap
<1>2. open' \in Nat \ {0} /\ SatSub(open', 1) = open' - 1 /\ open' - 1 \in Nat
  BY DEF ChainInv, TypeOK, SatSub
<1>3. FinalizedSlot' \in 0..(open' - 1)
  BY <1>2, BlocksBackType DEF FinalizedSlot, FinalizedAt
<1>4. ~(FinalizedSlot' >= genesis_slot')
  BY <1>1, <1>2, <1>3, Below
<1> QED
  BY <1>1, <1>4 DEF RootsInv, RootsFollowChain

LEMMA RootsInvNext == ChainInv /\ ChainInv' /\ RootsInv /\ [Next]_vars => RootsInv'
<1> SUFFICES ASSUME ChainInv, ChainInv', RootsInv, [Next]_vars PROVE RootsInv'
  OBVIOUS
<1>1. CASE CloseSlot \/ CloseBeforeTravel
  BY <1>1, CloseBlockKeepsRoots DEF CloseSlot, CloseBeforeTravel, counters
<1>2. CASE ApplyTravel
  BY <1>2, TravelKeepsRoots
<1>3. CASE ResetNetwork
  BY <1>3, ResetKeepsRoots
<1>4. CASE ShutdownAndRestart \/ CrashAndRestart
  <2>1. DOMAIN rooted' = {} /\ stops' = stops + 1 /\ stops \in Nat
    BY <1>4, RootsTypes DEF ShutdownAndRestart, CrashAndRestart, StopAndRestart, EmptyMap, ChainInv
  <2> QED
    BY <2>1 DEF RootsInv, RootsFollowChain
<1>5. CASE \/ \E t \in Tx : ProcessTransaction(t)
           \/ CloseBeforeTravelFails \/ ApplyTravelFails \/ UpdateSlotInterval \/ RequestTravel
           \/ UNCHANGED vars
  <2>1. UNCHANGED <<open, landings, rooted, stops, genesis_slot>>
    BY <1>5 DEF ProcessTransaction, CloseBeforeTravelFails, ApplyTravelFails, UpdateSlotInterval,
                RequestTravel, vars, memory, told, counters
  <2> QED
    BY <2>1 DEF RootsInv, RootsFollowChain, FinalizedSlot
<1> QED
  BY <1>1, <1>2, <1>3, <1>4, <1>5 DEF Next

(* The finalized block is a root as soon as it is past the genesis of a    *)
(* chain that was not stopped, and the roots announced are a piece of the  *)
(* chain without a gap, each announced once.                               *)
THEOREM RootsFollow == Spec => []RootsFollowChain
<1>1. Spec => []RootsInv
  BY RootsInvInit, RootsInvNext, ChainInvHolds, PTL DEF Spec
<1>2. RootsInv => RootsFollowChain
  BY DEF RootsInv
<1> QED
  BY <1>1, <1>2, PTL

-----------------------------------------------------------------------------
(* Heights *)

(* The store refused no block, and no restart may have opened the chain    *)
(* anew on a remote.                                                       *)
Lasting == (RemoteBlocks = {} \/ stops = 0) /\ block_failures = 0

(* What is stored of such a chain is what memory holds, and its restarts   *)
(* are recorded no later than where it would reopen.                       *)
StoreInv ==
  /\ LocalChain /\ genesis_slot = anchor.slot /\ genesis_updated_at = anchor.time
  /\ landings_db = landings /\ restarts_db = restarts
  /\ \A r \in DOMAIN restarts :
       anchor.slot <= r /\ r <= open /\ \E e \in StoredEnds(latest_slot) : r <= e
  /\ travelling # NoClock => /\ \A l \in DOMAIN landings : l < open
                             /\ \A r \in DOMAIN restarts : r < open

HeightAt(slot) == anchor.height + BlocksIn(landings, anchor.slot, slot)

(* Blocks, stored or streamed, have the height and the parent that follow  *)
(* from the landings.                                                      *)
HeightsInv ==
  /\ tip = HeightAt(open - 1)
  /\ \A s \in DOMAIN blocks : blocks[s].height = HeightAt(s)
  /\ \A s \in DOMAIN streamed :
       /\ anchor.slot <= s /\ s < open /\ HoldsBlock(landings, s)
       /\ streamed[s].height = HeightAt(s) /\ streamed[s].parent = ParentSlot(landings, s)

LastingInv == Lasting => StoreInv /\ HeightsInv

LEMMA NothingLeftOpen ==
  ASSUME ChainInv, Lasting
  PROVE  left_open = {}
BY DEF ChainInv, LeftOpenInv, Lasting

LEMMA LastingTypes ==
  ASSUME ChainInv
  PROVE  /\ open \in Nat \ {0} /\ anchor.slot \in Nat /\ anchor.height \in Nat
         /\ DOMAIN landings \subseteq Nat /\ DOMAIN restarts \subseteq Nat
         /\ DOMAIN blocks \subseteq Nat /\ DOMAIN streamed \subseteq Nat
         /\ landings_db = [l \in DOMAIN landings_db |-> landings_db[l]]
         /\ restarts_db = [r \in DOMAIN restarts_db |-> restarts_db[r]]
         /\ latest_slot \in Nat \cup {NoSlot}
         /\ tip \in Nat /\ block_failures \in Nat /\ stops \in Nat
BY DEF ChainInv, TypeOK

LEMMA NoBlocks ==
  ASSUME NEW ls, NEW slot \in Nat
  PROVE  BlocksIn(ls, slot, slot - 1) = 0
<1>1. BlocksWithin(ls, slot, slot - 1) = {}
  BY DEF BlocksWithin
<1> QED
  BY <1>1, FS_EmptySet DEF BlocksIn

LEMMA DropNothing ==
  ASSUME NEW f, f = [x \in DOMAIN f |-> f[x]], NEW D, D \cap DOMAIN f = {}
  PROVE  Drop(f, D) = f
<1>1. DOMAIN f \ D = DOMAIN f
  OBVIOUS
<1> QED
  BY <1>1 DEF Drop

(* A new chain is stamped with the time it opens at. *)
LEMMA NewChainsTime ==
  ASSUME NEW online, NEW since, NEW now,
         NEW offline, offline.time = now, NEW chain \in NewChains(online, since, offline, now)
  PROVE  chain.time = now
<1>1. CASE online
  BY <1>1 DEF NewChains, RemoteGenesis
<1>2. CASE ~online
  BY <1>2 DEF NewChains
<1> QED
  BY <1>1, <1>2

LEMMA LastingInvInit == Init => StoreInv /\ HeightsInv
<1> SUFFICES ASSUME Init PROVE StoreInv /\ HeightsInv
  OBVIOUS
<1>1. ChainInv /\ open \in Nat /\ anchor.slot = open
  BY ChainInvInit, LastingTypes DEF Init
<1>2. PICK now \in WallTimes :
        /\ anchor \in NewChains(has_remote, NoSlot, DefaultGenesis(now), now)
        /\ genesis_updated_at = now
  BY DEF Init
<1>3. anchor.time = now
  BY <1>2, NewChainsTime DEF DefaultGenesis
<1>4. /\ genesis_slot = anchor.slot /\ tip = anchor.height /\ latest_slot = NoSlot
      /\ landings = EmptyMap /\ landings_db = EmptyMap
      /\ restarts = EmptyMap /\ restarts_db = EmptyMap
      /\ DOMAIN landings = {} /\ DOMAIN restarts = {}
      /\ DOMAIN blocks = {} /\ DOMAIN streamed = {}
  BY DEF Init, EmptyMap
<1>5. LocalChain
  BY <1>1, <1>4 DEF LocalChain
<1>6. StoreInv
  BY <1>2, <1>3, <1>4, <1>5 DEF StoreInv
<1>7. BlocksIn(landings, anchor.slot, open - 1) = 0 /\ anchor.height \in Nat
  BY <1>1, NoBlocks, LastingTypes
<1> QED
  BY <1>4, <1>6, <1>7 DEF HeightsInv, HeightAt

LEMMA CloseKeepsHeights ==
  ASSUME ChainInv, StoreInv, HeightsInv, CloseBlock, remote_slot' = remote_slot
  PROVE  StoreInv' /\ HeightsInv'
<1>1. /\ open \in Nat \ {0} /\ anchor.slot \in Nat /\ anchor.height \in Nat
      /\ DOMAIN landings \subseteq Nat /\ DOMAIN restarts \subseteq Nat
      /\ DOMAIN blocks \subseteq Nat /\ DOMAIN streamed \subseteq Nat
  BY LastingTypes
<1>2. /\ open' = open + 1 /\ tip' = tip + 1
      /\ UNCHANGED <<anchor, genesis_slot, genesis_updated_at, landings, landings_db,
                     restarts, restarts_db>>
      /\ blocks' = BlocksStored /\ streamed' = Put(streamed, open, OpenHeader)
      /\ latest_slot' \in {open, latest_slot}
  BY DEF CloseBlock
<1>3. LocalChain' /\ HoldsBlock(landings, open) /\ anchor.slot <= open
  BY CloseBlockKeeps, OpenHoldsBlock DEF StoreInv, LocalChain
<1>4. StoreInv'
  <2>1. \A l \in DOMAIN landings : l < open'
    BY <1>1, <1>2 DEF StoreInv, LocalChain
  <2>2. \A r \in DOMAIN restarts : anchor.slot <= r /\ r < open' /\ r <= open'
    BY <1>1, <1>2 DEF StoreInv
  <2>3. ASSUME NEW r \in DOMAIN restarts PROVE \E e \in StoredEnds(latest_slot)' : r <= e
    <3>1. CASE latest_slot' = open
      <4>1. latest_slot' \in {latest_slot'} \ {NoSlot} /\ latest_slot' + 1 = open + 1
        BY <1>1, <3>1 DEF NoSlot
      <4>2. open + 1 \in StoredEnds(latest_slot)'
        BY <4>1 DEF StoredEnds
      <4> QED
        BY <1>2, <2>2, <2>3, <4>2
    <3>2. CASE latest_slot' = latest_slot
      <4>1. StoredEnds(latest_slot) \subseteq StoredEnds(latest_slot)'
        BY <1>2, <3>2 DEF StoredEnds, BlocksStored, Put
      <4> QED
        BY <2>3, <4>1 DEF StoreInv
    <3> QED
      BY <1>2, <3>1, <3>2
  <2> QED
    BY <1>2, <1>3, <2>1, <2>2, <2>3 DEF StoreInv
<1>5. HeightAt(open) = tip + 1
  <2>1. BlocksIn(landings, anchor.slot, open) = BlocksIn(landings, anchor.slot, open - 1) + 1
    BY <1>1, <1>3, BlocksNext
  <2>2. BlocksIn(landings, anchor.slot, open - 1) \in Nat
    BY <1>1, BlocksFinite, open - 1 \in Nat
  <2> QED
    BY <1>1, <2>1, <2>2 DEF HeightsInv, HeightAt
<1>6. \A s : HeightAt(s)' = HeightAt(s)
  BY <1>2 DEF HeightAt
<1>7. tip' = HeightAt(open - 1)'
  BY <1>1, <1>2, <1>5 DEF HeightAt
<1>8. \A s \in DOMAIN blocks' : blocks'[s].height = HeightAt(s)
  BY <1>2, <1>5 DEF HeightsInv, BlocksStored, OpenHeader, Put
<1>9. ASSUME NEW s \in DOMAIN streamed'
      PROVE  /\ anchor.slot <= s /\ s < open + 1 /\ HoldsBlock(landings, s)
             /\ streamed'[s].height = HeightAt(s) /\ streamed'[s].parent = ParentSlot(landings, s)
  <2>1. CASE s = open
    BY <1>1, <1>2, <1>3, <1>5, <2>1 DEF OpenHeader, Put
  <2>2. CASE s \in DOMAIN streamed /\ s # open
    BY <1>1, <1>2, <2>2 DEF HeightsInv, Put
  <2> QED
    BY <1>2, <2>1, <2>2 DEF Put
<1> QED
  BY <1>2, <1>4, <1>6, <1>7, <1>8, <1>9 DEF HeightsInv

LEMMA TravelKeepsHeights ==
  ASSUME ChainInv, Lasting, StoreInv, HeightsInv, ApplyTravel
  PROVE  StoreInv' /\ HeightsInv'
<1>1. /\ open \in Nat \ {0} /\ anchor.slot \in Nat /\ DOMAIN blocks \subseteq Nat
      /\ DOMAIN restarts \subseteq Nat /\ DOMAIN streamed \subseteq Nat
  BY LastingTypes
<1>2. /\ open' \in Nat /\ open <= open' /\ open' = LandingSlot
      /\ \A s \in 0..(open' - 1) : HoldsBlock(landings', s) <=> s < open /\ HoldsBlock(landings, s)
  BY TravelLands
<1>3. UNCHANGED <<anchor, genesis_slot, genesis_updated_at, blocks, streamed, tip>>
  BY DEF ApplyTravel
<1>4. landings_db' = landings' /\ restarts_db' = restarts' /\ DOMAIN restarts' \subseteq DOMAIN restarts
  BY DEF ApplyTravel, StoreInv, Drop
<1>5. StoreInv'
  <2>1. LocalChain' /\ travelling' = NoClock
    BY ApplyTravelKeeps DEF ApplyTravel, StoreInv
  <2>2. LandingSlot \in StoredEnds(latest_slot)'
    BY DEF ApplyTravel, StoredEnds, Put
  <2>3. \A r \in DOMAIN restarts' : anchor.slot <= r /\ r <= open'
    BY <1>1, <1>2, <1>4 DEF StoreInv
  <2> QED
    BY <1>2, <1>3, <1>4, <2>1, <2>2, <2>3 DEF StoreInv
<1>6. /\ BlocksIn(landings', anchor.slot, open' - 1) = BlocksIn(landings, anchor.slot, open - 1)
      /\ \A s \in 0..(open - 1) :
           BlocksIn(landings', anchor.slot, s) = BlocksIn(landings, anchor.slot, s)
  BY <1>1, <1>2, SameBlocksSameCount
<1>7. tip' = HeightAt(open - 1)'
  BY <1>3, <1>6 DEF HeightsInv, HeightAt
<1>8. ASSUME NEW s \in DOMAIN blocks PROVE blocks[s].height = HeightAt(s)'
  <2>1. s \in 0..(open - 1)
    BY <1>1, NothingLeftOpen DEF ChainInv, StoredBlocksAreFinal
  <2> QED
    BY <1>3, <1>6, <2>1 DEF HeightsInv, HeightAt
<1>9. ASSUME NEW s \in DOMAIN streamed
      PROVE  /\ anchor.slot <= s /\ s < open' /\ HoldsBlock(landings', s)
             /\ streamed[s].height = HeightAt(s)'
             /\ streamed[s].parent = ParentSlot(landings', s)
  <2>1. /\ anchor.slot <= s /\ s \in 0..(open - 1) /\ HoldsBlock(landings, s)
        /\ streamed[s].height = HeightAt(s) /\ streamed[s].parent = ParentSlot(landings, s)
    BY <1>1 DEF HeightsInv
  <2>2. s \in Nat /\ s < open /\ s < open' /\ s \in 0..(open' - 1)
    BY <1>1, <1>2, <2>1
  <2>3. HeightAt(s)' = HeightAt(s)
    BY <1>3, <1>6, <2>1 DEF HeightAt
  <2>4. ParentSlot(landings', s) = ParentSlot(landings, s)
    BY <1>1, <1>2, <2>2, TravelLands DEF ParentSlot
  <2> QED
    BY <1>2, <2>1, <2>2, <2>3, <2>4
<1> QED
  BY <1>3, <1>5, <1>7, <1>8, <1>9 DEF HeightsInv

LEMMA TravelFailsKeepsHeights ==
  ASSUME ChainInv, StoreInv, HeightsInv, ApplyTravelFails
  PROVE  StoreInv' /\ HeightsInv'
<1>1. /\ landings_db = [l \in DOMAIN landings_db |-> landings_db[l]]
      /\ restarts_db = [r \in DOMAIN restarts_db |-> restarts_db[r]]
      /\ DOMAIN landings \subseteq Nat /\ DOMAIN restarts \subseteq Nat /\ open \in Nat
  BY LastingTypes
<1>2. /\ UNCHANGED <<memory, anchor, blocks, latest_slot, streamed>> /\ travelling' = NoClock
      /\ landings_db' = Drop(landings_db, NotYetClosed(landings) \ {LandingSlot})
      /\ restarts_db' = Drop(restarts_db, NotYetClosed(restarts))
  BY DEF ApplyTravelFails, told
<1>3. NotYetClosed(landings) = {} /\ NotYetClosed(restarts) = {}
  BY <1>1 DEF ApplyTravelFails, StoreInv, NotYetClosed
<1>4. landings_db' = landings_db /\ restarts_db' = restarts_db
  BY <1>1, <1>2, <1>3, DropNothing
<1>5. UNCHANGED <<open, tip, genesis_slot, genesis_updated_at, landings, restarts>>
  BY <1>2 DEF memory
<1>6. StoredEnds(latest_slot)' = StoredEnds(latest_slot)
  BY <1>2, <1>4 DEF StoredEnds
<1>7. StoreInv'
  BY <1>2, <1>4, <1>5, <1>6 DEF StoreInv, LocalChain
<1> QED
  BY <1>2, <1>5, <1>7 DEF HeightsInv, HeightAt

LEMMA ResetHeights ==
  ASSUME ChainInv, ResetNetwork
  PROVE  StoreInv' /\ HeightsInv'
<1>1. PICK now \in WallTimes :
        /\ anchor' \in NewChains(has_remote, remote_slot, ResetGenesis(now), now)
        /\ genesis_updated_at' = now
  BY DEF ResetNetwork
<1>2. anchor'.time = now
  BY <1>1, NewChainsTime DEF ResetGenesis
<1>3. /\ has_remote \in BOOLEAN /\ remote_slot \in Nat \cup {NoSlot}
      /\ ResetGenesis(now) \in AnchorOf /\ ResetGenesis(now).slot # 0 /\ now \in Nat
  BY OfflineChains DEF ChainInv, TypeOK
<1>4. anchor' \in AnchorOf
  BY <1>1, <1>3, NewChainsType
<1>5. anchor'.slot \in Nat /\ anchor'.height \in Nat
  BY <1>4 DEF AnchorOf
<1>6. /\ genesis_slot' = anchor'.slot /\ open' = anchor'.slot /\ tip' = anchor'.height
      /\ landings' = EmptyMap /\ landings_db' = EmptyMap
      /\ restarts' = EmptyMap /\ restarts_db' = EmptyMap
      /\ DOMAIN landings' = {} /\ DOMAIN restarts' = {}
      /\ DOMAIN blocks' = {} /\ DOMAIN streamed' = {}
  BY DEF ResetNetwork, EmptyMap
<1>7. LocalChain'
  BY ResetNetworkKeeps
<1>8. StoreInv'
  BY <1>1, <1>2, <1>6, <1>7 DEF StoreInv
<1>9. BlocksIn(landings', anchor'.slot, open' - 1) = 0
  BY <1>5, <1>6, NoBlocks
<1> QED
  BY <1>5, <1>6, <1>8, <1>9 DEF HeightsInv, HeightAt

(* A process without a remote: the chain reopens where it stopped, or      *)
(* there is none and a new one starts.                                     *)
ReopensOffline(checkpoint, now) ==
  /\ LastEnd(checkpoint, open') /\ anchor' = anchor
  /\ tip' = RecoveredTip(open') /\ updated_at' = now
  /\ restarts' = Put(restarts_db, open', now)
  /\ streamed' = Drop(streamed, {s \in DOMAIN streamed : s >= open'})

StartsOverOffline(checkpoint, now) ==
  /\ StoredEnds(checkpoint) = {} /\ open' = anchor'.slot
  /\ tip' = anchor'.height /\ updated_at' = now /\ anchor'.time = now
  /\ restarts' = restarts_db /\ streamed' = EmptyMap

LEMMA OfflineRestart ==
  ASSUME RemoteBlocks = {}, NEW checkpoint, StopAndRestart(checkpoint)
  PROVE  /\ \E now \in WallTimes :
              ReopensOffline(checkpoint, now) \/ StartsOverOffline(checkpoint, now)
         /\ genesis_slot' = anchor'.slot /\ genesis_updated_at' = anchor'.time
<1>1. has_remote' = FALSE
  BY DEF StopAndRestart, RemoteOrNot
<1>2. CASE Recover(checkpoint)
  <2>1. PICK now \in WallTimes, slot \in StoredEnds(checkpoint) :
          /\ \A s \in StoredEnds(checkpoint) : s <= slot
          /\ restarts' = Put(restarts_db, slot, now)
          /\ Start(anchor, slot, RecoveredTip(slot), now)
          /\ streamed' = Drop(streamed, {s \in DOMAIN streamed : s >= slot})
    BY <1>1, <1>2 DEF Recover
  <2>2. ReopensOffline(checkpoint, now)
    BY <2>1 DEF ReopensOffline, Start, LastEnd
  <2> QED
    BY <2>1, <2>2 DEF Start
<1>3. CASE StartOver(checkpoint)
  <2>1. PICK now \in WallTimes :
          /\ StoredEnds(checkpoint) = {} /\ restarts' = restarts_db /\ streamed' = EmptyMap
          /\ \E chain \in NewChains(has_remote', remote_slot, DefaultGenesis(now), now) :
               Start(chain, chain.slot, chain.height, now)
    BY <1>3 DEF StartOver
  <2>2. Start(DefaultGenesis(now), DefaultGenesis(now).slot, DefaultGenesis(now).height, now)
    BY <1>1, <2>1 DEF NewChains
  <2>3. StartsOverOffline(checkpoint, now)
    BY <2>1, <2>2 DEF StartsOverOffline, Start, DefaultGenesis
  <2> QED
    BY <2>2, <2>3 DEF Start
<1> QED
  BY <1>2, <1>3 DEF StopAndRestart

(* Where a restart would reopen is no earlier than any recorded restart.   *)
EndsPastRestarts(checkpoint) ==
  \A r \in DOMAIN restarts : \E e \in StoredEnds(checkpoint) : r <= e

LEMMA OpenIsEnd ==
  ASSUME ChainInv, StoreInv
  PROVE  EndsPastRestarts(ParentSlot(landings, open))
<1>1. open \in Nat \ {0}
  BY LastingTypes
<1>2. open \in StoredEnds(ParentSlot(landings, open))
  <2>1. CASE open \in DOMAIN landings
    BY <2>1 DEF StoreInv, StoredEnds
  <2>2. CASE open \notin DOMAIN landings
    <3>1. ParentSlot(landings, open) = open - 1 /\ open - 1 # NoSlot
      BY <1>1, <2>2 DEF ParentSlot, SatSub, NoSlot
    <3>2. (open - 1) + 1 \in StoredEnds(open - 1)
      BY <3>1 DEF StoredEnds
    <3> QED
      BY <1>1, <3>1, <3>2
  <2> QED
    BY <2>1, <2>2
<1> QED
  BY <1>2 DEF StoreInv, EndsPastRestarts

LEMMA RestartKeepsStore ==
  ASSUME ChainInv, StoreInv, HeightsInv, RemoteBlocks = {},
         NEW checkpoint \in Nat \cup {NoSlot}, StopAndRestart(checkpoint),
         checkpoint = NoSlot \/ anchor.slot <= checkpoint + 1,
         EndsPastRestarts(checkpoint)
  PROVE  StoreInv' /\ HeightsInv'
<1>1. PICK now \in WallTimes :
        ReopensOffline(checkpoint, now) \/ StartsOverOffline(checkpoint, now)
  BY OfflineRestart
<1>2. /\ genesis_slot' = anchor'.slot /\ genesis_updated_at' = anchor'.time
      /\ landings' = landings /\ landings_db' = landings' /\ restarts_db' = restarts'
      /\ blocks' = blocks /\ latest_slot' = checkpoint /\ travelling' = NoClock
  BY OfflineRestart DEF StopAndRestart, StoreInv
<1>3. StoredEnds(latest_slot)' = StoredEnds(checkpoint)
  BY <1>2 DEF StoredEnds, StoreInv
<1>4. /\ anchor.slot \in Nat /\ anchor.height \in Nat /\ DOMAIN restarts \subseteq Nat
      /\ DOMAIN streamed \subseteq Nat
  BY LastingTypes
<1>5. CASE ReopensOffline(checkpoint, now)
  <2>1. /\ anchor' = anchor /\ LastEnd(checkpoint, open')
        /\ open' \in Nat \ {0}
    BY <1>5, RestartOpensPast DEF ReopensOffline, StoreInv
  <2>2. LocalChain'
    <3>1. OpensAnew(checkpoint) => open' = anchor.slot
      BY <2>1 DEF OpensAnew
    <3>2. CASE ~OpensAnew(checkpoint)
      BY <3>2, RestartOpensPast DEF StoreInv
    <3>3. CASE open' = anchor.slot
      <4>1. \A e \in StoredEnds(checkpoint) : e <= open'
        BY <2>1 DEF LastEnd
      <4>2. \A l \in DOMAIN landings : l \in StoredEnds(checkpoint)
        BY DEF StoreInv, StoredEnds
      <4> QED
        BY <1>2, <2>1, <3>3, <4>1, <4>2, LastingTypes DEF LocalChain, StoreInv
    <3> QED
      BY <3>1, <3>2, <3>3
  <2>3. DOMAIN restarts' = DOMAIN restarts \cup {open'}
    BY <1>5 DEF ReopensOffline, StoreInv, Put
  <2>4. anchor.slot <= open'
    BY <2>1, <2>2 DEF LocalChain
  <2>5. ASSUME NEW r \in DOMAIN restarts
        PROVE  anchor.slot <= r /\ r <= open'
    <3>1. anchor.slot <= r /\ r \in Nat
      BY <1>4 DEF StoreInv
    <3>2. PICK e \in StoredEnds(checkpoint) : r <= e
      BY DEF EndsPastRestarts
    <3>3. e \in Nat /\ e <= open'
      BY <2>1, StoredEndsType, TypeParts DEF LastEnd, ChainInv
    <3> QED
      BY <2>1, <3>1, <3>2, <3>3
  <2>6. StoreInv'
    <3>1. open' \in StoredEnds(checkpoint)
      BY <2>1 DEF LastEnd
    <3> QED
      BY <1>2, <1>3, <2>1, <2>2, <2>3, <2>4, <2>5, <3>1 DEF StoreInv, LastEnd
  <2>7. tip' = HeightAt(open - 1)'
    BY <1>2, <1>5, <2>1 DEF ReopensOffline, RecoveredTip, HeightAt, StoreInv
  <2>8. \A s : HeightAt(s)' = HeightAt(s)
    BY <1>2, <2>1 DEF HeightAt
  <2>9. ASSUME NEW s \in DOMAIN streamed'
        PROVE  s \in DOMAIN streamed /\ streamed'[s] = streamed[s] /\ s < open'
    BY <1>4, <1>5, <2>1 DEF ReopensOffline, Drop
  <2> QED
    BY <1>2, <2>1, <2>6, <2>7, <2>8, <2>9 DEF HeightsInv
<1>6. CASE StartsOverOffline(checkpoint, now)
  <2>1. /\ StoredEnds(checkpoint) = {} /\ open' = anchor'.slot /\ tip' = anchor'.height
        /\ restarts' = restarts /\ DOMAIN streamed' = {}
    BY <1>6 DEF StartsOverOffline, StoreInv, EmptyMap
  <2>2. DOMAIN blocks' = {} /\ DOMAIN landings' = {} /\ checkpoint = NoSlot
    <3>1. /\ \A s \in DOMAIN blocks : s + 1 \in StoredEnds(checkpoint)
          /\ \A l \in DOMAIN landings_db : l \in StoredEnds(checkpoint)
          /\ checkpoint # NoSlot => checkpoint + 1 \in StoredEnds(checkpoint)
      BY DEF StoredEnds
    <3>2. landings_db = landings
      BY DEF StoreInv
    <3> QED
      BY <1>2, <2>1, <3>1, <3>2
  <2>3. DOMAIN restarts' = {}
    BY <2>1 DEF EndsPastRestarts
  <2>4. anchor'.slot \in Nat /\ anchor'.height \in Nat
    BY RestartCases DEF ChainInv, AnchorOf
  <2>5. StoreInv'
    BY <1>2, <2>1, <2>2, <2>3, <2>4 DEF StoreInv, LocalChain
  <2>6. BlocksIn(landings', anchor'.slot, open' - 1) = 0
    BY <2>1, <2>4, NoBlocks
  <2> QED
    BY <2>1, <2>2, <2>4, <2>5, <2>6 DEF HeightsInv, HeightAt
<1> QED
  BY <1>1, <1>5, <1>6

(* Only closes that fail change what a lasting chain's heights are made of *)
(* without keeping them in step.                                           *)
LEMMA LastingInvNext == ChainInv /\ LastingInv /\ [Next]_vars => LastingInv'
<1> SUFFICES ASSUME ChainInv, LastingInv, [Next]_vars, Lasting' PROVE StoreInv' /\ HeightsInv'
  BY DEF LastingInv
<1>1. block_failures \in Nat /\ stops \in Nat
  BY LastingTypes
<1>2. CASE CloseSlot \/ CloseBeforeTravel
  <2>1. CloseBlock /\ remote_slot' = remote_slot /\ stops' = stops /\ block_failures' = block_failures
    BY <1>2 DEF CloseSlot, CloseBeforeTravel, counters, remote_rpc
  <2> QED
    BY <2>1, CloseKeepsHeights DEF LastingInv, Lasting
<1>3. CASE CloseBeforeTravelFails
  BY <1>1, <1>3 DEF CloseBeforeTravelFails, Lasting
<1>4. CASE ApplyTravel
  BY <1>4, TravelKeepsHeights DEF ApplyTravel, counters, LastingInv, Lasting
<1>5. CASE ApplyTravelFails
  BY <1>5, TravelFailsKeepsHeights DEF ApplyTravelFails, LastingInv, Lasting
<1>6. CASE ResetNetwork
  BY <1>6, ResetHeights
<1>7. CASE ShutdownAndRestart \/ CrashAndRestart
  <2>1. RemoteBlocks = {} /\ Lasting
    BY <1>1, <1>7 DEF ShutdownAndRestart, CrashAndRestart, StopAndRestart, Lasting
  <2>2. StoreInv /\ HeightsInv
    BY <2>1 DEF LastingInv
  <2>3. CASE ShutdownAndRestart
    <3>1. ParentSlot(landings, open) \in Nat
      BY CheckpointTypes DEF ChainInv
    <3>2. anchor.slot <= ParentSlot(landings, open) + 1
      BY <2>2, LocalParent DEF StoreInv
    <3>3. EndsPastRestarts(ParentSlot(landings, open))
      BY <2>2, OpenIsEnd
    <3> QED
      BY <2>1, <2>2, <2>3, <3>1, <3>2, <3>3, RestartKeepsStore DEF ShutdownAndRestart
  <2>4. CASE CrashAndRestart
    <3>1. latest_slot \in Nat \cup {NoSlot}
      BY CheckpointTypes DEF ChainInv
    <3>2. latest_slot = NoSlot \/ anchor.slot <= latest_slot + 1
      BY <2>2 DEF StoreInv, LocalChain
    <3>3. EndsPastRestarts(latest_slot)
      BY <2>2 DEF StoreInv, EndsPastRestarts
    <3> QED
      BY <2>1, <2>2, <2>4, <3>1, <3>2, <3>3, RestartKeepsStore DEF CrashAndRestart
  <2> QED
    BY <1>7, <2>3, <2>4
<1>8. CASE \/ \E t \in Tx : ProcessTransaction(t)
           \/ UpdateSlotInterval \/ RequestTravel \/ UNCHANGED vars
  <2>1. /\ UNCHANGED <<open, tip, genesis_slot, genesis_updated_at, landings, restarts, blocks,
                       landings_db, restarts_db, latest_slot, anchor, streamed, stops,
                       block_failures>>
        /\ travelling' # NoClock => travelling # NoClock
    BY <1>8 DEF ProcessTransaction, UpdateSlotInterval, RequestTravel, vars, memory, database,
                channel, told, counters
  <2>2. StoreInv /\ HeightsInv
    BY <2>1 DEF Lasting, LastingInv
  <2>3. StoredEnds(latest_slot)' = StoredEnds(latest_slot)
    BY <2>1 DEF StoredEnds
  <2> QED
    BY <2>1, <2>2, <2>3 DEF StoreInv, LocalChain, HeightsInv, HeightAt
<1> QED
  BY <1>2, <1>3, <1>4, <1>5, <1>6, <1>7, <1>8 DEF Next

LEMMA LastingInvHolds == Spec => []LastingInv
<1>1. Init => LastingInv
  BY LastingInvInit DEF LastingInv
<1> QED
  BY <1>1, LastingInvNext, ChainInvHolds, PTL DEF Spec

(* As long as the store refused no block and no chain was opened anew on a *)
(* remote, a restart at any moment counts every stored block at the height *)
(* it was stored with.                                                     *)
THEOREM HeightsKept ==
  Spec => []((RemoteBlocks = {} \/ stops = 0) /\ block_failures = 0 => RestartKeepsHeights)
<1>1. LastingInv => (Lasting => RestartKeepsHeights)
  BY DEF LastingInv, StoreInv, HeightsInv, HeightAt, RestartKeepsHeights, HeightFromAnchor
<1> QED
  BY <1>1, LastingInvHolds, PTL DEF Lasting

-----------------------------------------------------------------------------
(* Block times *)

(* calculate_block_time_for_slot as a function of what it reads. *)
RunTimeOf(ls, rs, start) == IF start \in DOMAIN rs THEN rs[start] ELSE ls[start].time

TimeOf(ls, rs, genesis, from, interval, slot) ==
  LET starts == {s \in DOMAIN ls \cup DOMAIN rs : s <= slot}
      last   == CHOOSE s \in starts : \A r \in starts : r <= s
  IN  IF starts # {} /\ last >= genesis
      THEN RunTimeOf(ls, rs, last) + (slot - last) * interval
      ELSE from + SatSub(slot, genesis) * interval

LEMMA BlockTimeIs ==
  ASSUME NEW slot
  PROVE  /\ BlockTime(slot) = TimeOf(landings, restarts, genesis_slot, genesis_updated_at,
                                     slot_time, slot)
         /\ BlockTime(slot)' = TimeOf(landings', restarts', genesis_slot', genesis_updated_at',
                                      slot_time', slot)
<1>1. BlockTime(slot) = TimeOf(landings, restarts, genesis_slot, genesis_updated_at, slot_time, slot)
  BY DEF BlockTime, TimeOf, RunTime, RunTimeOf
<1>2. BlockTime(slot)' = TimeOf(landings', restarts', genesis_slot', genesis_updated_at',
                                slot_time', slot)
  BY DEF BlockTime, TimeOf, RunTime, RunTimeOf
<1> QED
  BY <1>1, <1>2

(* The last landing or restart at or before a slot. *)
LastStart(ls, rs, slot, last) ==
  /\ last \in DOMAIN ls \cup DOMAIN rs /\ last <= slot
  /\ \A r \in DOMAIN ls \cup DOMAIN rs : r <= slot => r <= last

NoStart(ls, rs, slot) == \A r \in DOMAIN ls \cup DOMAIN rs : ~(r <= slot)

LEMMA TimeFromStart ==
  ASSUME NEW ls, NEW rs, DOMAIN ls \subseteq Nat, DOMAIN rs \subseteq Nat,
         NEW genesis, NEW from, NEW interval, NEW slot \in Nat,
         NEW last, LastStart(ls, rs, slot, last), last >= genesis
  PROVE  TimeOf(ls, rs, genesis, from, interval, slot)
           = RunTimeOf(ls, rs, last) + (slot - last) * interval
<1> DEFINE starts == {s \in DOMAIN ls \cup DOMAIN rs : s <= slot}
           found == CHOOSE s \in starts : \A r \in starts : r <= s
<1>1. last \in starts /\ \A r \in starts : r <= last
  BY DEF LastStart
<1>2. found \in starts /\ \A r \in starts : r <= found
  BY <1>1
<1>3. found = last
  BY <1>1, <1>2
<1>4. TimeOf(ls, rs, genesis, from, interval, slot)
        = IF starts # {} /\ found >= genesis
          THEN RunTimeOf(ls, rs, found) + (slot - found) * interval
          ELSE from + SatSub(slot, genesis) * interval
  BY DEF TimeOf
<1> HIDE DEF starts, found
<1> QED
  BY <1>1, <1>3, <1>4

LEMMA TimeFromGenesis ==
  ASSUME NEW ls, NEW rs, NEW genesis, NEW from, NEW interval, NEW slot, NoStart(ls, rs, slot)
  PROVE  TimeOf(ls, rs, genesis, from, interval, slot) = from + SatSub(slot, genesis) * interval
<1>1. {s \in DOMAIN ls \cup DOMAIN rs : s <= slot} = {}
  BY DEF NoStart
<1> QED
  BY <1>1 DEF TimeOf

LEMMA StartOrNone ==
  ASSUME NEW ls, NEW rs, DOMAIN ls \subseteq Nat, DOMAIN rs \subseteq Nat, NEW slot \in Nat
  PROVE  NoStart(ls, rs, slot) \/ \E last : LastStart(ls, rs, slot, last)
<1> DEFINE T == {s \in DOMAIN ls \cup DOMAIN rs : s <= slot}
<1>1. T \in SUBSET (0..slot)
  OBVIOUS
<1>2. CASE T = {}
  BY <1>2 DEF NoStart
<1>3. CASE T # {}
  <2>1. PICK x \in T : \A y \in T : y <= x
    BY <1>1, <1>3, LargestExists
  <2>2. LastStart(ls, rs, slot, x)
    BY <2>1 DEF LastStart
  <2> QED
    BY <2>2
<1> QED
  BY <1>2, <1>3

(* Runs of slots that all start at the genesis or later. *)
Timed(ls, rs, genesis) ==
  /\ DOMAIN ls \subseteq Nat /\ DOMAIN rs \subseteq Nat /\ genesis \in Nat
  /\ \A r \in DOMAIN ls : r >= genesis /\ ls[r].time \in Nat
  /\ \A r \in DOMAIN rs : r >= genesis /\ rs[r] \in Nat

(* The time of a slot's block depends on what starts at or before it only. *)
LEMMA SameTime ==
  ASSUME NEW ls, NEW rs, NEW ls2, NEW rs2, NEW genesis, NEW from, NEW interval, NEW slot \in Nat,
         Timed(ls, rs, genesis), Timed(ls2, rs2, genesis),
         \A x \in 0..slot : /\ x \in DOMAIN ls2 <=> x \in DOMAIN ls
                            /\ x \in DOMAIN rs2 <=> x \in DOMAIN rs
                            /\ x \in DOMAIN ls => ls2[x] = ls[x]
                            /\ x \in DOMAIN rs => rs2[x] = rs[x]
  PROVE  TimeOf(ls2, rs2, genesis, from, interval, slot)
           = TimeOf(ls, rs, genesis, from, interval, slot)
<1>1. /\ DOMAIN ls \subseteq Nat /\ DOMAIN rs \subseteq Nat
      /\ DOMAIN ls2 \subseteq Nat /\ DOMAIN rs2 \subseteq Nat
  BY DEF Timed
<1>2. CASE NoStart(ls, rs, slot)
  <2>1. NoStart(ls2, rs2, slot)
    BY <1>1, <1>2 DEF NoStart
  <2> QED
    BY <1>2, <2>1, TimeFromGenesis
<1>3. ASSUME NEW last, LastStart(ls, rs, slot, last)
      PROVE  TimeOf(ls2, rs2, genesis, from, interval, slot)
               = TimeOf(ls, rs, genesis, from, interval, slot)
  <2>1. last \in 0..slot /\ last >= genesis
    BY <1>1, <1>3 DEF LastStart, Timed
  <2>2. LastStart(ls2, rs2, slot, last)
    BY <1>1, <1>3, <2>1 DEF LastStart
  <2>3. RunTimeOf(ls2, rs2, last) = RunTimeOf(ls, rs, last)
    BY <1>3, <2>1 DEF RunTimeOf, LastStart
  <2>4. /\ TimeOf(ls, rs, genesis, from, interval, slot)
             = RunTimeOf(ls, rs, last) + (slot - last) * interval
        /\ TimeOf(ls2, rs2, genesis, from, interval, slot)
             = RunTimeOf(ls2, rs2, last) + (slot - last) * interval
    BY <1>1, <1>3, <2>1, <2>2, TimeFromStart
  <2> QED
    BY <2>3, <2>4
<1> QED
  BY <1>1, <1>2, <1>3, StartOrNone

(* The block of the next slot, if no run starts there, is a slot time      *)
(* later.                                                                  *)
LEMMA NextTime ==
  ASSUME NEW ls, NEW rs, NEW genesis, NEW from \in Nat, NEW interval \in Nat, NEW slot \in Nat,
         Timed(ls, rs, genesis), genesis <= slot,
         slot + 1 \notin DOMAIN ls, slot + 1 \notin DOMAIN rs
  PROVE  TimeOf(ls, rs, genesis, from, interval, slot + 1)
           = TimeOf(ls, rs, genesis, from, interval, slot) + interval
<1>1. ASSUME NEW k \in Nat
      PROVE  (k + 1) * interval = k * interval + interval /\ k * interval \in Nat
  OBVIOUS
<1>2. DOMAIN ls \subseteq Nat /\ DOMAIN rs \subseteq Nat /\ genesis \in Nat /\ slot + 1 \in Nat
  BY DEF Timed
<1>3. CASE NoStart(ls, rs, slot)
  <2>1. NoStart(ls, rs, slot + 1)
    BY <1>2, <1>3 DEF NoStart
  <2>2. /\ slot - genesis \in Nat /\ SatSub(slot, genesis) = slot - genesis
        /\ SatSub(slot + 1, genesis) = (slot - genesis) + 1
    BY <1>2 DEF SatSub
  <2>3. /\ TimeOf(ls, rs, genesis, from, interval, slot) = from + (slot - genesis) * interval
        /\ TimeOf(ls, rs, genesis, from, interval, slot + 1)
             = from + ((slot - genesis) + 1) * interval
    BY <1>3, <2>1, <2>2, TimeFromGenesis
  <2> QED
    BY <1>1, <2>2, <2>3
<1>4. ASSUME NEW last, LastStart(ls, rs, slot, last)
      PROVE  TimeOf(ls, rs, genesis, from, interval, slot + 1)
               = TimeOf(ls, rs, genesis, from, interval, slot) + interval
  <2>1. LastStart(ls, rs, slot + 1, last)
    BY <1>2, <1>4 DEF LastStart
  <2>2. /\ last >= genesis /\ RunTimeOf(ls, rs, last) \in Nat /\ slot - last \in Nat
        /\ (slot + 1) - last = (slot - last) + 1
    BY <1>2, <1>4 DEF LastStart, RunTimeOf, Timed
  <2>3. TimeOf(ls, rs, genesis, from, interval, slot)
          = RunTimeOf(ls, rs, last) + (slot - last) * interval
    BY <1>2, <1>4, <2>2, TimeFromStart
  <2>4. TimeOf(ls, rs, genesis, from, interval, slot + 1)
          = RunTimeOf(ls, rs, last) + ((slot + 1) - last) * interval
    BY <1>2, <2>1, <2>2, TimeFromStart
  <2> QED
    BY <1>1, <2>2, <2>3, <2>4
<1> QED
  BY <1>2, <1>3, <1>4, StartOrNone

(* A run's first slot opens at the run's time. *)
LEMMA StartTime ==
  ASSUME NEW ls, NEW rs, NEW genesis, NEW from, NEW interval \in Nat, NEW slot \in Nat,
         Timed(ls, rs, genesis), slot \in DOMAIN ls \cup DOMAIN rs
  PROVE  TimeOf(ls, rs, genesis, from, interval, slot) = RunTimeOf(ls, rs, slot)
<1>1. /\ DOMAIN ls \subseteq Nat /\ DOMAIN rs \subseteq Nat /\ slot >= genesis
      /\ RunTimeOf(ls, rs, slot) \in Nat
  BY DEF Timed, RunTimeOf
<1>2. LastStart(ls, rs, slot, slot)
  BY <1>1 DEF LastStart
<1>3. TimeOf(ls, rs, genesis, from, interval, slot)
        = RunTimeOf(ls, rs, slot) + (slot - slot) * interval
  BY <1>1, <1>2, TimeFromStart
<1> QED
  BY <1>1, <1>3

(* The open slot's time follows the same rule as that of the blocks that   *)
(* were streamed.                                                          *)
TimesInv ==
  /\ updated_at = BlockTime(open)
  /\ \A s \in DOMAIN streamed : TimedAsStreamed(s)

OneSlotTime == \A a, b \in SlotTimes : a = b

LEMMA TimedRuns ==
  ASSUME ChainInv, StoreInv
  PROVE  /\ Timed(landings, restarts, genesis_slot) /\ genesis_updated_at \in Nat
         /\ slot_time \in Nat /\ open \in Nat /\ genesis_slot <= open
         /\ DOMAIN streamed \subseteq Nat /\ open + 1 \notin DOMAIN landings \cup DOMAIN restarts
<1>1. /\ landings \in [DOMAIN landings -> [parent : Nat, time : Nat]]
      /\ restarts \in [DOMAIN restarts -> Nat] /\ genesis_updated_at \in Nat
      /\ slot_time \in SlotTimes /\ DOMAIN landings \subseteq Nat /\ DOMAIN restarts \subseteq Nat
      /\ open \in Nat /\ genesis_slot \in Nat /\ DOMAIN streamed \subseteq Nat
  BY DEF ChainInv, TypeOK
<1>2. /\ \A l \in DOMAIN landings : l >= genesis_slot /\ l <= open
      /\ \A r \in DOMAIN restarts : r >= genesis_slot /\ r <= open
      /\ genesis_slot <= open
  BY <1>1 DEF StoreInv, LocalChain
<1> QED
  BY <1>1, <1>2, ChainAssumption DEF Timed

LEMMA TimedRunsNext ==
  ASSUME ChainInv', StoreInv'
  PROVE  /\ Timed(landings', restarts', genesis_slot') /\ genesis_updated_at' \in Nat
         /\ slot_time' \in Nat /\ open' \in Nat
<1>1. /\ landings' \in [DOMAIN landings' -> [parent : Nat, time : Nat]]
      /\ restarts' \in [DOMAIN restarts' -> Nat] /\ genesis_updated_at' \in Nat
      /\ slot_time' \in SlotTimes /\ DOMAIN landings' \subseteq Nat /\ DOMAIN restarts' \subseteq Nat
      /\ open' \in Nat /\ genesis_slot' \in Nat
  BY DEF ChainInv, TypeOK
<1>2. /\ \A l \in DOMAIN landings' : l >= genesis_slot'
      /\ \A r \in DOMAIN restarts' : r >= genesis_slot'
  BY <1>1 DEF StoreInv, LocalChain
<1> QED
  BY <1>1, <1>2, ChainAssumption DEF Timed

LEMMA SameSlotTime ==
  ASSUME ChainInv, ChainInv', OneSlotTime
  PROVE  slot_time' = slot_time
BY DEF ChainInv, TypeOK, OneSlotTime

(* A step that moves no landing and no restart before slots keeps their    *)
(* times.                                                                  *)
LEMMA SameBlockTime ==
  ASSUME ChainInv, StoreInv, ChainInv', StoreInv', OneSlotTime, NEW slot \in Nat,
         UNCHANGED <<genesis_slot, genesis_updated_at>>,
         \A x \in 0..slot : /\ x \in DOMAIN landings' <=> x \in DOMAIN landings
                            /\ x \in DOMAIN restarts' <=> x \in DOMAIN restarts
                            /\ x \in DOMAIN landings => landings'[x] = landings[x]
                            /\ x \in DOMAIN restarts => restarts'[x] = restarts[x]
  PROVE  BlockTime(slot)' = BlockTime(slot)
<1>1. Timed(landings, restarts, genesis_slot) /\ Timed(landings', restarts', genesis_slot)
  BY TimedRuns, TimedRunsNext
<1>2. TimeOf(landings', restarts', genesis_slot, genesis_updated_at, slot_time, slot)
        = TimeOf(landings, restarts, genesis_slot, genesis_updated_at, slot_time, slot)
  BY <1>1, SameTime
<1> QED
  BY <1>2, SameSlotTime, BlockTimeIs

LEMMA CloseKeepsTimes ==
  ASSUME ChainInv, StoreInv, ChainInv', StoreInv', OneSlotTime, TimesInv, CloseBlock
  PROVE  TimesInv'
<1>1. /\ open' = open + 1 /\ updated_at' = updated_at + slot_time
      /\ UNCHANGED <<landings, restarts, genesis_slot, genesis_updated_at>>
      /\ streamed' = Put(streamed, open, OpenHeader)
  BY DEF CloseBlock
<1>2. /\ Timed(landings, restarts, genesis_slot) /\ genesis_updated_at \in Nat
      /\ slot_time \in Nat /\ open \in Nat /\ genesis_slot <= open
      /\ DOMAIN streamed \subseteq Nat /\ open + 1 \notin DOMAIN landings \cup DOMAIN restarts
  BY TimedRuns
<1>3. updated_at' = BlockTime(open)'
  <2>1. TimeOf(landings, restarts, genesis_slot, genesis_updated_at, slot_time, open + 1)
          = TimeOf(landings, restarts, genesis_slot, genesis_updated_at, slot_time, open) + slot_time
    BY <1>2, NextTime
  <2>2. BlockTime(open)' = TimeOf(landings', restarts', genesis_slot', genesis_updated_at',
                                  slot_time', open')
    BY DEF BlockTime, TimeOf, RunTime, RunTimeOf
  <2>3. updated_at = TimeOf(landings, restarts, genesis_slot, genesis_updated_at, slot_time, open)
    BY BlockTimeIs DEF TimesInv
  <2> QED
    BY <1>1, <2>1, <2>2, <2>3, SameSlotTime
<1>4. ASSUME NEW s \in DOMAIN streamed' PROVE BlockTime(s)' = streamed'[s].time
  <2>1. s \in Nat
    BY <1>1, <1>2 DEF Put
  <2>2. BlockTime(s)' = BlockTime(s)
    BY <1>1, <2>1, SameBlockTime
  <2>3. CASE s = open
    BY <1>1, <2>2, <2>3 DEF TimesInv, OpenHeader, Put
  <2>4. CASE s \in DOMAIN streamed /\ s # open
    BY <1>1, <2>2, <2>4 DEF TimesInv, TimedAsStreamed, Put
  <2> QED
    BY <1>1, <2>3, <2>4 DEF Put
<1> QED
  BY <1>3, <1>4 DEF TimesInv, TimedAsStreamed

LEMMA TravelKeepsTimes ==
  ASSUME ChainInv, StoreInv, HeightsInv, ChainInv', StoreInv', OneSlotTime, TimesInv, ApplyTravel
  PROVE  TimesInv'
<1>1. /\ UNCHANGED <<genesis_slot, genesis_updated_at, streamed>>
      /\ updated_at' = travelling.time /\ restarts' = Drop(restarts, NotYetClosed(restarts))
  BY DEF ApplyTravel
<1>2. /\ open \in Nat /\ open' \in Nat /\ open <= open'
      /\ DOMAIN landings' = {l \in DOMAIN landings : l < open} \cup {open'}
      /\ landings'[open'] = Landing
      /\ \A l \in DOMAIN landings : l < open => landings'[l] = landings[l]
  BY TravelLands, LastingTypes
<1>3. /\ Timed(landings', restarts', genesis_slot') /\ slot_time' \in Nat
      /\ DOMAIN streamed \subseteq Nat /\ DOMAIN restarts \subseteq Nat
  BY TimedRuns, TimedRunsNext, LastingTypes
<1>4. /\ DOMAIN restarts' = {r \in DOMAIN restarts : r < open}
      /\ \A r \in DOMAIN restarts' : restarts'[r] = restarts[r]
  BY <1>1, <1>2, <1>3 DEF Drop, NotYetClosed
<1>5. updated_at' = BlockTime(open)'
  <2>1. open' \notin DOMAIN restarts' /\ open' \in DOMAIN landings'
    BY <1>2, <1>3, <1>4
  <2>2. RunTimeOf(landings', restarts', open') = travelling.time
    BY <1>2, <2>1 DEF RunTimeOf, Landing
  <2>3. TimeOf(landings', restarts', genesis_slot', genesis_updated_at', slot_time', open')
          = RunTimeOf(landings', restarts', open')
    BY <1>2, <1>3, <2>1, StartTime
  <2>4. BlockTime(open)' = TimeOf(landings', restarts', genesis_slot', genesis_updated_at',
                                  slot_time', open')
    BY DEF BlockTime, TimeOf, RunTime, RunTimeOf
  <2> QED
    BY <1>1, <2>2, <2>3, <2>4
<1>6. ASSUME NEW s \in DOMAIN streamed PROVE BlockTime(s)' = BlockTime(s)
  <2>1. s \in Nat /\ s < open
    BY <1>3 DEF HeightsInv
  <2>2. ASSUME NEW x \in 0..s
        PROVE  /\ x \in DOMAIN landings' <=> x \in DOMAIN landings
               /\ x \in DOMAIN restarts' <=> x \in DOMAIN restarts
               /\ x \in DOMAIN landings => landings'[x] = landings[x]
               /\ x \in DOMAIN restarts => restarts'[x] = restarts[x]
    <3>1. x < open /\ x # open'
      BY <1>2, <2>1
    <3> QED
      BY <1>2, <1>4, <3>1
  <2> QED
    BY <1>1, <2>1, <2>2, SameBlockTime
<1> QED
  BY <1>1, <1>5, <1>6 DEF TimesInv, TimedAsStreamed

(* A chain that has just opened stamps its open slot with its genesis'     *)
(* time.                                                                   *)
LEMMA GenesisTime ==
  ASSUME NEW ls, NEW rs, DOMAIN ls = {}, DOMAIN rs = {}, NEW genesis \in Nat, NEW from \in Nat,
         NEW interval \in Nat
  PROVE  TimeOf(ls, rs, genesis, from, interval, genesis) = from
<1>1. NoStart(ls, rs, genesis) /\ SatSub(genesis, genesis) = 0 /\ 0 * interval = 0
  BY DEF NoStart, SatSub
<1> QED
  BY <1>1, TimeFromGenesis

LEMMA RestartKeepsTimes ==
  ASSUME ChainInv, StoreInv, HeightsInv, ChainInv', StoreInv', HeightsInv', OneSlotTime, TimesInv,
         RemoteBlocks = {}, NEW checkpoint, StopAndRestart(checkpoint)
  PROVE  TimesInv'
<1>1. PICK now \in WallTimes :
        ReopensOffline(checkpoint, now) \/ StartsOverOffline(checkpoint, now)
  BY OfflineRestart
<1>2. landings' = landings /\ restarts_db = restarts /\ latest_slot' = checkpoint /\ blocks' = blocks
  BY DEF StopAndRestart, StoreInv
<1>3. /\ Timed(landings', restarts', genesis_slot') /\ slot_time' \in Nat /\ open' \in Nat
      /\ genesis_updated_at' \in Nat /\ DOMAIN streamed \subseteq Nat
      /\ genesis_slot' = anchor'.slot /\ genesis_updated_at' = anchor'.time
  BY TimedRuns, TimedRunsNext DEF StoreInv
<1>4. BlockTime(open)' = TimeOf(landings', restarts', genesis_slot', genesis_updated_at',
                                slot_time', open')
  BY DEF BlockTime, TimeOf, RunTime, RunTimeOf
<1>5. CASE ReopensOffline(checkpoint, now)
  <2>1. /\ UNCHANGED <<genesis_slot, genesis_updated_at>> /\ updated_at' = now
        /\ restarts' = Put(restarts, open', now)
        /\ streamed' = Drop(streamed, {s \in DOMAIN streamed : s >= open'})
    BY <1>2, <1>3, <1>5 DEF ReopensOffline, StoreInv
  <2>2. updated_at' = BlockTime(open)'
    <3>1. open' \in DOMAIN restarts' /\ RunTimeOf(landings', restarts', open') = now
      BY <2>1 DEF Put, RunTimeOf
    <3> QED
      BY <1>3, <1>4, <2>1, <3>1, StartTime
  <2>3. ASSUME NEW s \in DOMAIN streamed'
        PROVE  s \in DOMAIN streamed /\ streamed'[s] = streamed[s] /\ BlockTime(s)' = BlockTime(s)
    <3>1. s \in DOMAIN streamed /\ streamed'[s] = streamed[s] /\ s \in Nat /\ s < open'
      BY <1>3, <2>1 DEF Drop
    <3>2. \A x \in 0..s : x # open'
      BY <1>3, <3>1
    <3>3. BlockTime(s)' = BlockTime(s)
      BY <1>2, <2>1, <3>1, <3>2, SameBlockTime DEF Put
    <3> QED
      BY <3>1, <3>3
  <2> QED
    BY <2>2, <2>3 DEF TimesInv, TimedAsStreamed
<1>6. CASE StartsOverOffline(checkpoint, now)
  <2>1. /\ StoredEnds(checkpoint) = {} /\ open' = anchor'.slot /\ updated_at' = anchor'.time
        /\ DOMAIN streamed' = {}
    BY <1>6 DEF StartsOverOffline, EmptyMap
  <2>2. DOMAIN landings' = {}
    BY <1>2, <2>1 DEF StoredEnds, StoreInv
  <2>3. DOMAIN restarts' = {}
    <3>1. StoredEnds(latest_slot)' = StoredEnds(checkpoint)
      BY <1>2 DEF StoredEnds, StopAndRestart
    <3> QED
      BY <2>1, <3>1 DEF StoreInv
  <2>4. open' = genesis_slot' /\ updated_at' = genesis_updated_at'
    BY <1>3, <2>1
  <2>5. updated_at' = BlockTime(open)'
    BY <1>3, <1>4, <2>2, <2>3, <2>4, GenesisTime
  <2> QED
    BY <2>1, <2>5 DEF TimesInv
<1> QED
  BY <1>1, <1>5, <1>6

LEMMA ResetTimes ==
  ASSUME ChainInv', StoreInv', ResetNetwork
  PROVE  TimesInv'
<1>1. /\ open' = genesis_slot' /\ updated_at' = genesis_updated_at'
      /\ DOMAIN landings' = {} /\ DOMAIN restarts' = {} /\ DOMAIN streamed' = {}
  BY DEF ResetNetwork, EmptyMap
<1>2. open' \in Nat /\ genesis_updated_at' \in Nat /\ slot_time' \in Nat
  BY TimedRunsNext
<1>3. BlockTime(open)' = TimeOf(landings', restarts', genesis_slot', genesis_updated_at',
                                slot_time', open')
  BY DEF BlockTime, TimeOf, RunTime, RunTimeOf
<1> QED
  BY <1>1, <1>2, <1>3, GenesisTime DEF TimesInv

LEMMA TimesInvInit == Init => TimesInv
<1> SUFFICES ASSUME Init PROVE TimesInv
  OBVIOUS
<1>1. /\ open = genesis_slot /\ updated_at = genesis_updated_at
      /\ DOMAIN landings = {} /\ DOMAIN restarts = {} /\ DOMAIN streamed = {}
  BY DEF Init, EmptyMap
<1>2. open \in Nat /\ genesis_updated_at \in Nat /\ slot_time \in Nat
  BY ChainInvInit, LastingInvInit, TimedRuns
<1> QED
  BY <1>1, <1>2, BlockTimeIs, GenesisTime DEF TimesInv

LEMMA TimesInvNext ==
  ChainInv /\ ChainInv' /\ LastingInv /\ LastingInv' /\ (Lasting => TimesInv) /\ OneSlotTime
    /\ [Next]_vars => (Lasting' => TimesInv')
<1> SUFFICES ASSUME ChainInv, ChainInv', LastingInv, LastingInv', Lasting => TimesInv, OneSlotTime,
                    [Next]_vars, Lasting'
             PROVE  TimesInv'
  OBVIOUS
<1>1. block_failures \in Nat /\ stops \in Nat
  BY LastingTypes
<1>2. StoreInv' /\ HeightsInv'
  BY DEF LastingInv
<1>3. CASE ResetNetwork
  BY <1>2, <1>3, ResetTimes
<1>4. CASE ~ResetNetwork
  <2>1. Lasting
    BY <1>1, <1>4
    DEF Next, CloseSlot, ProcessTransaction, CloseBeforeTravel, CloseBeforeTravelFails, ApplyTravel,
        ApplyTravelFails, UpdateSlotInterval, RequestTravel, ShutdownAndRestart, CrashAndRestart,
        StopAndRestart, vars, counters, Lasting
  <2>2. StoreInv /\ HeightsInv /\ TimesInv
    BY <2>1 DEF LastingInv
  <2>3. CASE CloseSlot \/ CloseBeforeTravel
    BY <1>2, <2>2, <2>3, CloseKeepsTimes DEF CloseSlot, CloseBeforeTravel
  <2>4. CASE ApplyTravel
    BY <1>2, <2>2, <2>4, TravelKeepsTimes
  <2>5. CASE ShutdownAndRestart \/ CrashAndRestart
    <3>1. PICK checkpoint : StopAndRestart(checkpoint)
      BY <2>5 DEF ShutdownAndRestart, CrashAndRestart
    <3>2. RemoteBlocks = {}
      BY <1>1, <3>1 DEF StopAndRestart, Lasting
    <3> QED
      BY <1>2, <2>2, <3>1, <3>2, RestartKeepsTimes
  <2>6. CASE CloseBeforeTravelFails
    BY <1>1, <2>6 DEF CloseBeforeTravelFails, Lasting
  <2>7. CASE \/ \E t \in Tx : ProcessTransaction(t)
             \/ ApplyTravelFails \/ UpdateSlotInterval \/ RequestTravel \/ UNCHANGED vars
    <3>1. UNCHANGED <<open, updated_at, genesis_slot, genesis_updated_at, landings, restarts, streamed>>
      BY <2>7 DEF ProcessTransaction, ApplyTravelFails, UpdateSlotInterval, RequestTravel, vars,
                  memory, told
    <3>2. \A s \in Nat : BlockTime(s)' = BlockTime(s)
      BY <1>2, <2>2, <3>1, SameBlockTime
    <3>3. open \in Nat /\ DOMAIN streamed \subseteq Nat
      BY LastingTypes
    <3>4. BlockTime(open)' = BlockTime(open)
      BY <3>1, BlockTimeIs, SameSlotTime
    <3> QED
      BY <2>2, <3>1, <3>2, <3>3, <3>4 DEF TimesInv, TimedAsStreamed
  <2> QED
    BY <1>4, <2>3, <2>4, <2>5, <2>6, <2>7 DEF Next
<1> QED
  BY <1>3, <1>4

(* What a rebuilt block's height and parent are computed from agrees with  *)
(* what was streamed.                                                      *)
LEMMA RebuiltFromHeights ==
  ASSUME ChainInv, StoreInv, HeightsInv, NEW s \in DOMAIN streamed
  PROVE  RebuiltAt(s)
<1>1. /\ open \in Nat \ {0} /\ anchor.slot \in Nat /\ anchor.height \in Nat /\ s \in Nat
      /\ anchor.slot <= s /\ s < open /\ anchor.slot <= open
      /\ streamed[s].height = HeightAt(s) /\ streamed[s].parent = ParentSlot(landings, s)
      /\ tip = HeightAt(open - 1) /\ HoldsBlock(landings, open)
  BY LastingTypes, OpenHoldsBlock DEF HeightsInv, StoreInv, LocalChain
<1>2. BlocksIn(landings, anchor.slot, open) = BlocksIn(landings, anchor.slot, open - 1) + 1
  BY <1>1, BlocksNext
<1>3. BlocksIn(landings, anchor.slot, open)
        = BlocksIn(landings, anchor.slot, s) + BlocksIn(landings, s + 1, open)
  BY <1>1, BlocksSplit
<1>4. /\ BlocksIn(landings, anchor.slot, s) \in Nat /\ BlocksIn(landings, s + 1, open) \in Nat
      /\ BlocksIn(landings, anchor.slot, open - 1) \in Nat
  BY <1>1, BlocksFinite, s + 1 \in Nat, open - 1 \in Nat
<1>5. tip + 1 = HeightAt(s) + BlocksAfter(s) /\ HeightAt(s) \in Nat /\ BlocksAfter(s) \in Nat
  BY <1>1, <1>2, <1>3, <1>4 DEF HeightAt, BlocksAfter
<1>6. SatSub(tip + 1, BlocksAfter(s)) = HeightAt(s)
  BY <1>5 DEF SatSub
<1> QED
  BY <1>1, <1>6 DEF RebuiltAt, ReconstructBlock

(* On such a chain, if the slot time is never changed either, every empty  *)
(* slot is rebuilt as the block that closed it was streamed: same height,  *)
(* parent and time.                                                        *)
THEOREM Rebuilt ==
  Spec => []((RemoteBlocks = {} \/ stops = 0) /\ block_failures = 0
               /\ (\A a, b \in SlotTimes : a = b) => RebuiltAsStreamed)
<1>1. Spec => [](OneSlotTime => (Lasting => TimesInv))
  <2>1. Init => (OneSlotTime => (Lasting => TimesInv))
    BY TimesInvInit
  <2>2. ChainInv /\ ChainInv' /\ LastingInv /\ LastingInv'
          /\ (OneSlotTime => (Lasting => TimesInv)) /\ [Next]_vars
          => (OneSlotTime => (Lasting => TimesInv))'
    BY TimesInvNext DEF OneSlotTime
  <2> QED
    BY <2>1, <2>2, ChainInvHolds, LastingInvHolds, PTL DEF Spec
<1>2. ChainInv /\ LastingInv /\ (OneSlotTime => (Lasting => TimesInv))
        => ((RemoteBlocks = {} \/ stops = 0) /\ block_failures = 0
              /\ (\A a, b \in SlotTimes : a = b) => RebuiltAsStreamed)
  <2> SUFFICES ASSUME ChainInv, LastingInv, Lasting, TimesInv PROVE RebuiltAsStreamed
    BY DEF OneSlotTime, Lasting
  <2>1. StoreInv /\ HeightsInv
    BY DEF LastingInv
  <2> QED
    BY <2>1, RebuiltFromHeights DEF RebuiltAsStreamed, TimesInv
<1> QED
  BY <1>1, <1>2, ChainInvHolds, LastingInvHolds, PTL

-----------------------------------------------------------------------------
(* The walks over the landings *)

(* There are finitely many landings. *)
FewLandings == \E m \in Nat : \A l \in DOMAIN landings : l <= m

LEMMA FewLandingsNext ==
  ASSUME ChainInv, FewLandings, [Next]_vars
  PROVE  FewLandings'
<1>1. PICK m \in Nat : \A l \in DOMAIN landings : l <= m
  BY DEF FewLandings
<1>2. DOMAIN landings \subseteq Nat /\ DOMAIN landings_db \subseteq DOMAIN landings
  BY ChainTypes DEF ChainInv, LandingsInv, PartOf
<1>3. CASE ApplyTravel
  <2>1. /\ open' \in Nat
        /\ DOMAIN landings' = {l \in DOMAIN landings : l < open} \cup {open'}
    BY <1>3, TravelLands
  <2>2. \A l \in DOMAIN landings' : l <= open'
    BY <1>2, <1>3, <2>1, TravelLands, ChainTypes DEF ChainInv
  <2> QED
    BY <2>1, <2>2 DEF FewLandings
<1>4. CASE ~ApplyTravel
  <2>1. DOMAIN landings' \subseteq DOMAIN landings
    BY <1>2, <1>4
    DEF Next, vars, CloseSlot, CloseBlock, ProcessTransaction, CloseBeforeTravel,
        CloseBeforeTravelFails, ApplyTravelFails, UpdateSlotInterval, RequestTravel, ResetNetwork,
        EmptyMap, ShutdownAndRestart, CrashAndRestart, StopAndRestart, memory, database, remote_rpc
  <2> QED
    BY <1>1, <2>1 DEF FewLandings
<1> QED
  BY <1>3, <1>4

LEMMA WalksReturn ==
  ASSUME ChainInv, FewLandings
  PROVE  WalksCorrect
<1>0. PICK m \in Nat : \A l \in DOMAIN landings : l <= m
  BY DEF FewLandings
<1>1. open \in Nat /\ Ordered(landings) /\ LandingsBehind
  BY ChainTypes DEF ChainInv, LandingsInv, LandingsBehind, Ordered
<1>2. ParentsLinkBlocks
  <2> SUFFICES ASSUME NEW s \in 1..open, HoldsBlock(landings, s)
               PROVE  /\ HoldsBlock(landings, ParentSlot(landings, s))
                      /\ BlocksWithin(landings, ParentSlot(landings, s) + 1, s) = {s}
    BY DEF ParentsLinkBlocks
  <2>1. s \in Nat \ {0}
    BY <1>1
  <2> QED
    BY <1>1, <2>1, ParentLinks
<1>3. BlocksBackCorrect
  <2> SUFFICES ASSUME NEW slot \in 0..open, NEW n \in 0..(open + 1)
               PROVE  WalkBlocksBack(landings, slot, n)
                        = BlocksBack(landings, BlockAtOrBefore(landings, slot), n)
    BY DEF BlocksBackCorrect
  <2>1. slot \in Nat /\ n \in Nat
    BY <1>1
  <2> QED
    BY <1>1, <2>1, BackIsBlocksBack
<1>4. BlockRunsCorrect
  <2> SUFFICES ASSUME NEW from \in 0..(open + 1), NEW to \in 0..(open + 1),
                      NEW runs, runs = BlockRuns(landings, from, to)
               PROVE  /\ UNION {runs[i][1]..runs[i][2] : i \in DOMAIN runs}
                           = BlocksWithin(landings, from, to)
                      /\ \A i \in 1..(Len(runs) - 1) : runs[i][2] < runs[i + 1][1]
    BY DEF BlockRunsCorrect
  <2>1. from \in Nat /\ to \in Nat
    BY <1>1
  <2>2. Sorted(runs) /\ Covers(runs, landings, from, to)
    BY <1>0, <1>1, <2>1, RunsAreBlocks
  <2>3. DOMAIN runs = 1..Len(runs) /\ Len(runs) \in Nat
    BY <2>2 DEF Sorted
  <2>4. \A i \in 1..(Len(runs) - 1) : runs[i][2] < runs[i + 1][1]
    <3>1. ASSUME NEW i \in 1..(Len(runs) - 1) PROVE runs[i][2] < runs[i + 1][1]
      <4>1. i \in DOMAIN runs /\ i + 1 \in DOMAIN runs /\ i < i + 1
        BY <2>3
      <4> QED
        BY <2>2, <4>1 DEF Sorted
    <3> QED
      BY <3>1
  <2>5. \A i \in DOMAIN runs : runs[i][1] \in Nat /\ runs[i][2] \in Nat
    <3>1. \A i \in DOMAIN runs : runs[i] \in Nat \X Nat
      BY <2>2 DEF Sorted
    <3> QED
      BY <3>1
  <2>6. \A r : r \in UNION {runs[i][1]..runs[i][2] : i \in DOMAIN runs}
                 <=> r \in Nat /\ Listed(runs, r)
    <3>1. \A r : r \in UNION {runs[i][1]..runs[i][2] : i \in DOMAIN runs}
                   <=> \E i \in DOMAIN runs : r \in runs[i][1]..runs[i][2]
      OBVIOUS
    <3>2. \A r, i : i \in DOMAIN runs
                      => (r \in runs[i][1]..runs[i][2]
                            <=> r \in Nat /\ runs[i][1] <= r /\ r <= runs[i][2])
      BY <2>5
    <3> QED
      BY <3>1, <3>2 DEF Listed
  <2>7. \A r : r \in BlocksWithin(landings, from, to)
                 <=> r \in Nat /\ r \in from..to /\ HoldsBlock(landings, r)
    BY <2>1 DEF BlocksWithin
  <2>8. UNION {runs[i][1]..runs[i][2] : i \in DOMAIN runs} = BlocksWithin(landings, from, to)
    BY <2>2, <2>6, <2>7 DEF Covers
  <2> QED
    BY <2>4, <2>8
<1>5. BlocksInCorrect
  <2> SUFFICES ASSUME NEW from \in 0..(open + 1), NEW to \in 0..(open + 1)
               PROVE  WalkBlocksIn(landings, from, to) = BlocksIn(landings, from, to)
    BY DEF BlocksInCorrect
  <2>1. from \in Nat /\ to \in Nat
    BY <1>1
  <2> QED
    BY <1>0, <1>1, <2>1, SumIsBlocksIn
<1> QED
  BY <1>1, <1>2, <1>3, <1>4, <1>5 DEF WalksCorrect

(* Whatever travels, resets, refused writes and restarts come, parent      *)
(* links visit the slots that hold a block, and blocks_back, block_runs    *)
(* and blocks_in return the block at a depth, the runs of blocks of a      *)
(* range and their number.                                                 *)
THEOREM WalksReturnBlocks == Spec => []WalksCorrect
<1>1. Init => FewLandings
  BY DEF Init, FewLandings, EmptyMap
<1>2. ChainInv /\ FewLandings /\ [Next]_vars => FewLandings'
  BY FewLandingsNext
<1>3. ChainInv /\ FewLandings => WalksCorrect
  BY WalksReturn
<1> QED
  BY <1>1, <1>2, <1>3, ChainInvHolds, PTL DEF Spec
=============================================================================
