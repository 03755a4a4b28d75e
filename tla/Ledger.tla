------------------------------- MODULE Ledger -------------------------------
(***************************************************************************)
(* What a client reads of a moving chain over several requests: the        *)
(* blockhash it signs with, and the history of an address, page by page.   *)
(* Between two requests blocks close, travels skip slots, the process      *)
(* stops and the network is reset.                                         *)
(*                                                                         *)
(* A blockhash is SyntheticBlockhash of an index and stands for it here:   *)
(* the block at height h has the hash of h - 1, and the tip's hash is the  *)
(* one transactions sign with.  Two sysvars hold them, RecentBlockhashes   *)
(* and SlotHashes.  They are streamed block by block while the process     *)
(* runs, and rebuilt from the tip and the landings when it starts.         *)
(*                                                                         *)
(* A transaction is a number, which orders the signatures.                 *)
(***************************************************************************)
EXTENDS Slots, SequencesExt

CONSTANTS
  Tx,                     \* transactions that involve the address
  Nothing,                \* no slot, no signature, no age
  InitialSlot,            \* INITIAL_SLOT
  FinalizationThreshold,  \* finalization_slot_threshold
  MaxRecent,              \* MAX_RECENT_BLOCKHASHES_STANDARD
  MaxSlotHashes,          \* MAX_SLOT_HASHES_ENTRIES
  RemoteBlocks,           \* epoch infos a remote may answer with: [slot, height]
  RemoteHistory,          \* the address' signatures on the remote, newest first: [tx, slot]
  RemotePage,             \* MAX_GET_CONFIRMED_SIGNATURES_FOR_ADDRESS2_LIMIT
  Limits,                 \* page sizes a client asks for
  MaxSlot,                \* bound: no travel past it, no slot closed at it
  MaxUpsets               \* bound: travels, resets and stops

ASSUME LedgerAssumption ==
  /\ Tx \subseteq Nat /\ Nothing \notin Nat
  /\ InitialSlot \in Nat \ {0}
  /\ FinalizationThreshold \in Nat \ {0}
  /\ MaxRecent \in Nat \ {0, 1} /\ MaxSlotHashes \in Nat
  /\ FinalizationThreshold < MaxSlotHashes
  /\ RemoteBlocks \subseteq [slot : Nat, height : Nat]
  /\ RemoteHistory \in Seq([tx : Nat \ Tx, slot : Nat])
  /\ RemotePage \in Nat \ {0} /\ Limits \subseteq Nat \ {0}
  /\ MaxSlot \in Nat /\ MaxUpsets \in Nat

VARIABLES
  has_remote,
  open,           \* latest_epoch_info.absolute_slot
  height,         \* latest_epoch_info.block_height
  tip,            \* chain_tip.index
  genesis_slot,
  landings,       \* slot a travel landed on -> [parent]; memory and store
  travelling,     \* slot of the travel whose block is closed, or Nothing
  recents,        \* RecentBlockhashes, newest first
  slot_hashes,    \* SlotHashes: slot -> blockhash
  queue,          \* transactions_queued_for_confirmation
  transactions,   \* tx -> slot that processed it
  blocks,         \* slot -> signatures, in the order they ran; sparse
  latest_slot,    \* slot_checkpoint["latest_slot"], or Nothing
  anchor,         \* slot_checkpoint's genesis entries: [slot, height]
  ran,            \* transactions in the order they ran, but those a stop lost
  client,         \* what the client is doing
  upsets          \* travels, resets and stops so far

chain == <<open, height, tip, genesis_slot, landings>>
sysvars == <<recents, slot_hashes>>
stored == <<transactions, blocks, latest_slot, anchor>>
ledgerVars == <<has_remote, chain, travelling, sysvars, queue, stored, ran, client, upsets>>

Commitments == {"confirmed", "finalized"}

-----------------------------------------------------------------------------
(* The sysvars *)

(* slot_for_commitment *)
SlotFor(commitment) ==
  IF commitment = "confirmed" THEN BlockAtOrBefore(landings, SatSub(open, 1))
  ELSE BlocksBack(landings, SatSub(open, 1), FinalizationThreshold - 1)

(* The newest n of a set of slots. *)
Newest(slots, n) == {s \in slots : Cardinality({r \in slots : r > s}) < n}

(* reconstruct_sysvars: the blockhashes from the one that the next block   *)
(* will mint, one past the tip's, down.                                    *)
RebuiltRecents(index) ==
  [i \in 1..(index - SatSub(index, MaxRecent - 1) + 1) |-> index + 1 - i]

(* The open slot with the tip's hash and each block before it one index    *)
(* lower, back to genesis or to the finalized slot, below zero if need be. *)
RebuiltSlotHashes(index, genesis, ls, slot) ==
  LET final == BlocksBack(ls, SatSub(slot, 1), FinalizationThreshold - 1)
      slots == BlocksWithin(ls, IF genesis < final THEN genesis ELSE final, slot)
  IN  [s \in Newest(slots, MaxSlotHashes) |->
         index - 1 - Cardinality({r \in slots : r > s})]

SysvarsRebuilt ==
  /\ recents' = RebuiltRecents(tip')
  /\ slot_hashes' = RebuiltSlotHashes(tip', genesis_slot', landings', open')

(* new_blockhash *)
SysvarsMinted ==
  /\ recents' = SubSeq(<<tip>> \o recents, 1,
                       IF Len(recents) < MaxRecent THEN Len(recents) + 1 ELSE MaxRecent)
  /\ LET added == Put(slot_hashes, open + 1, tip) IN
     slot_hashes' = [s \in Newest(DOMAIN added, MaxSlotHashes) |-> added[s]]

SlotHashesLeftBehind(slot) == slot_hashes  \* mutant: the entry stays at the skipped slot

(* travel_to: the open slot's entry moves to where the travel lands. *)
SlotHashesMoved(slot) ==
  [s \in {IF k = open THEN slot ELSE k : k \in DOMAIN slot_hashes} |->
     IF s = slot THEN slot_hashes[open] ELSE slot_hashes[s]]

-----------------------------------------------------------------------------
(* Reading blockhashes *)

(* The blockhashes from the tip's back.  A rebuild seeds one past the tip, *)
(* which the next block repeats.                                           *)
FromTip ==
  LET tips    == {i \in DOMAIN recents : recents[i] = tip - 1}
      fromTip == SubSeq(recents, Min(tips), Len(recents))
      first   == {i \in DOMAIN fromTip : i = 1 \/ fromTip[i] # fromTip[i - 1]}
  IN  IF tips = {} THEN <<>>
      ELSE [n \in 1..Cardinality(first) |->
              fromTip[CHOOSE i \in first : Cardinality({j \in first : j <= i}) = n]]

(* blockhash_age, over the ages blocks count from 0; Nothing if old.       *)
AgeOf(hash) ==
  LET ages == {i \in DOMAIN FromTip : FromTip[i] = hash}
  IN  IF ages = {} THEN Nothing ELSE Min(ages) - 1

(* min_blockhash_age *)
MinAge(commitment) == SatSub(BlocksIn(landings, SlotFor(commitment) + 1, open), 1)

(* latest_blockhash_at: the tip's while the chain is too short. *)
BlockhashAt(commitment) ==
  IF MinAge(commitment) < Len(FromTip) THEN FromTip[MinAge(commitment) + 1] ELSE tip - 1

LastValidHeight(hash) ==
  SatSub(height, IF AgeOf(hash) = Nothing THEN 0 ELSE AgeOf(hash)) + MaxRecent

(* is_blockhash_visible_at: old enough, or minted while the chain was too  *)
(* short.                                                                  *)
Visible(hash, commitment) ==
  AgeOf(hash) # Nothing =>
    \/ AgeOf(hash) >= MinAge(commitment)
    \/ Len(FromTip) - AgeOf(hash) <= MinAge(commitment)

(* check_blockhash_is_recent *)
Recent(hash) == \E i \in DOMAIN recents : recents[i] = hash

-----------------------------------------------------------------------------
(* The history of the address *)

(* The transactions by slot, then by their place in the slot's block, then *)
(* by signature; those of a slot without them in its block come last.      *)
Place(t) ==
  LET block  == IF transactions[t] \in DOMAIN blocks THEN blocks[transactions[t]] ELSE <<>>
      places == {i \in DOMAIN block : block[i] = t}
  IN  IF places = {} THEN Cardinality(Tx) + 1 ELSE Min(places)

Older(a, b) ==
  \/ transactions[a] < transactions[b]
  \/ /\ transactions[a] = transactions[b]
     /\ Place(a) < Place(b) \/ (Place(a) = Place(b) /\ a < b)

OldestFirst(txs) == SetToSortSeq(txs, LAMBDA a, b : Older(a, b))

(* getSignaturesForAddress lists the slots visible at the commitment, the  *)
(* newest first; getTransactionsForAddress lists all, either way.          *)
SignatureListing(commitment) ==
  Reverse(OldestFirst({t \in DOMAIN transactions : transactions[t] <= SlotFor(commitment)}))

TransactionListing(order) ==
  LET oldest == OldestFirst(DOMAIN transactions)
  IN  IF order = "asc" THEN oldest ELSE Reverse(oldest)

(* The window between the boundaries, both exclusive, and at most a page   *)
(* of it.  A "before" that is not there leaves nothing, an "until" that is *)
(* not there leaves all.                                                   *)
After(listing, before) ==
  LET at == {i \in DOMAIN listing : listing[i] = before} IN
  IF before = Nothing THEN listing
  ELSE IF at = {} THEN <<>> ELSE SubSeq(listing, Min(at) + 1, Len(listing))

UpTo(listing, until) ==
  LET at == {i \in DOMAIN listing : listing[i] = until} IN
  IF at = {} THEN listing ELSE SubSeq(listing, 1, Min(at) - 1)

AtMost(listing, n) == SubSeq(listing, 1, IF Len(listing) < n THEN Len(listing) ELSE n)

Window(listing, before, until, limit) ==
  AtMost(UpTo(After(listing, before), until), limit)

(* get_signatures_for_address of the remote. *)
RemoteAnswer(before, until) ==
  LET txs == [i \in DOMAIN RemoteHistory |-> RemoteHistory[i].tx]
  IN  Window(txs, before, until, RemotePage)

RemoteSlot(t) ==
  RemoteHistory[CHOOSE i \in DOMAIN RemoteHistory : RemoteHistory[i].tx = t].slot

OlderThanFork(page) == SelectSeq(page, LAMBDA t : RemoteSlot(t) < genesis_slot)

(* get_remote_signatures_before_slot: pages of the remote's own size, of   *)
(* which only what is older than the local chain counts, until there are   *)
(* enough or the remote has no more.                                       *)
OnePage(before, until, limit) ==  \* mutant: one page, which may hold only newer signatures
  AtMost(OlderThanFork(RemoteAnswer(before, until)), limit)

RemotePages(before, until, limit) ==
  LET step(acc, n) ==
        LET page  == RemoteAnswer(acc.before, until)
            found == AtMost(acc.found \o OlderThanFork(page), limit)
        IN  IF acc.done THEN acc
            ELSE IF Len(found) = limit \/ Len(page) < RemotePage
            THEN [acc EXCEPT !.found = found, !.done = TRUE]
            ELSE [acc EXCEPT !.found = found, !.before = Last(page)]
  IN  FoldLeft(step, [found |-> <<>>, before |-> before, done |-> limit = 0],
               [n \in 1..(Len(RemoteHistory) + 1) |-> n]).found

-----------------------------------------------------------------------------
(* The process starts *)

RemoteGenesis(remote) ==
  [slot |-> remote.slot + 1, height |-> IF remote.height = 0 THEN 1 ELSE remote.height]

Idle == [doing |-> "idle"]

(* build on an empty store, then initialize if there is a remote.  The     *)
(* epoch info an offline chain opens with has INITIAL_SLOT as its height.  *)
LedgerInit ==
  /\ \/ /\ has_remote = FALSE
        /\ anchor = [slot |-> InitialSlot, height |-> 1] /\ height = InitialSlot
     \/ /\ has_remote = TRUE
        /\ \E remote \in RemoteBlocks :
             anchor = RemoteGenesis(remote) /\ height = remote.height
  /\ open = anchor.slot /\ genesis_slot = anchor.slot /\ tip = anchor.height
  /\ landings = EmptyMap /\ travelling = Nothing
  /\ recents = RebuiltRecents(tip)
  /\ slot_hashes = RebuiltSlotHashes(tip, genesis_slot, landings, open)
  /\ queue = <<>> /\ transactions = EmptyMap /\ blocks = EmptyMap /\ latest_slot = Nothing
  /\ ran = <<>> /\ client = Idle
  /\ upsets = 0

-----------------------------------------------------------------------------
(* The block production runloop *)

ProcessTransaction(t) ==
  /\ travelling = Nothing
  /\ t \notin DOMAIN transactions
  /\ transactions' = Put(transactions, t, open)
  /\ queue' = Append(queue, t)
  /\ ran' = Append(ran, t)
  /\ UNCHANGED <<has_remote, chain, travelling, sysvars, blocks, latest_slot, anchor, client,
                 upsets>>

(* confirm_current_block, which checkpoints the slot every minute or so. *)
CloseBlock ==
  /\ open < MaxSlot
  /\ SysvarsMinted
  /\ tip' = tip + 1 /\ height' = tip + 1
  /\ blocks' = IF queue = <<>> THEN blocks ELSE Put(blocks, open, queue)
  /\ queue' = <<>>
  /\ latest_slot' \in {latest_slot, open}
  /\ open' = open + 1
  /\ UNCHANGED <<genesis_slot, landings, transactions, anchor, ran>>

CloseSlot ==
  /\ travelling = Nothing
  /\ CloseBlock
  /\ UNCHANGED <<has_remote, travelling, client, upsets>>

Upset == upsets < MaxUpsets /\ upsets' = upsets + 1

(* UpdateInternalClock: the open slot's block is closed, then the open     *)
(* slot moves in a write access of its own.                                *)
CloseBeforeTravel(slot) ==
  /\ travelling = Nothing
  /\ Upset
  /\ travelling' = slot
  /\ CloseBlock
  /\ UNCHANGED <<has_remote, client>>

TravelTo ==
  /\ travelling # Nothing
  /\ travelling' = Nothing
  /\ LET slot   == IF travelling > open THEN travelling ELSE open
         parent == BlockAtOrBefore(landings, SatSub(open, 1))
     IN  /\ open' = slot
         /\ landings' = Put(Drop(landings, {l \in DOMAIN landings : l >= open}), slot,
                            [parent |-> parent])
         /\ slot_hashes' = IF slot > open THEN SlotHashesMoved(slot) ELSE slot_hashes
  /\ UNCHANGED <<has_remote, height, tip, genesis_slot, recents, queue, stored, ran, client,
                 upsets>>

-----------------------------------------------------------------------------
(* Resets, stops and restarts *)

(* A remote's chain only grows: no answer is older than the block that the *)
(* chain is forked at.                                                     *)
RemoteAnswers == {remote \in RemoteBlocks : remote.slot + 1 >= anchor.slot}

(* What the client was told or shown holds only on the chain it saw: it    *)
(* starts over when that chain is gone, or shorter.                        *)
ResetLedger ==
  /\ Upset
  /\ \/ /\ has_remote
        /\ \E remote \in RemoteAnswers :
             anchor' = RemoteGenesis(remote) /\ height' = remote.height
     \/ /\ ~has_remote
        /\ anchor' = [slot |-> InitialSlot, height |-> InitialSlot] /\ height' = InitialSlot
  /\ open' = anchor'.slot /\ genesis_slot' = anchor'.slot /\ tip' = anchor'.height
  /\ landings' = EmptyMap
  /\ SysvarsRebuilt
  /\ queue' = <<>> /\ transactions' = EmptyMap /\ blocks' = EmptyMap /\ latest_slot' = Nothing
  /\ ran' = <<>> /\ client' = Idle
  /\ UNCHANGED <<has_remote, travelling>>

RecoveredSlots(checkpoint) ==
  {s + 1 : s \in ({checkpoint} \ {Nothing}) \cup DOMAIN blocks} \cup DOMAIN landings

(* A chain is found and reopened where it stopped, or else a new one       *)
(* starts; a chain still at its genesis is opened anew on the remote's     *)
(* block.  Either way reconstruct_sysvars comes last.  The transactions    *)
(* that wait for a block, the last that ran, are lost.                     *)
StopAndRestart(checkpoint) ==
  /\ Upset
  /\ latest_slot' = checkpoint
  /\ LET slot == Max(RecoveredSlots(checkpoint) \cup {0}) IN
     IF slot = 0 \/ (has_remote /\ slot = anchor.slot)
     THEN \/ /\ has_remote
             /\ \E remote \in RemoteAnswers :
                  anchor' = RemoteGenesis(remote) /\ height' = remote.height
             /\ open' = anchor'.slot /\ tip' = anchor'.height
          \/ /\ ~has_remote
             /\ anchor' = [slot |-> InitialSlot, height |-> 1] /\ height' = InitialSlot
             /\ open' = anchor'.slot /\ tip' = anchor'.height
     ELSE /\ open' = slot
          /\ tip' = anchor.height + BlocksIn(landings, anchor.slot, slot - 1)
          /\ height' = tip'
          /\ UNCHANGED anchor
  /\ genesis_slot' = anchor'.slot /\ landings' = landings
  /\ SysvarsRebuilt
  /\ queue' = <<>> /\ travelling' = Nothing
  /\ ran' = SubSeq(ran, 1, Len(ran) - Len(queue))
  /\ client' = IF tip' = tip /\ anchor' = anchor THEN client ELSE Idle
  /\ UNCHANGED <<has_remote, transactions, blocks>>

ShutdownAndRestart ==
  travelling = Nothing /\ StopAndRestart(ParentSlot(landings, open))

CrashAndRestart == StopAndRestart(latest_slot)

-----------------------------------------------------------------------------
(* The client *)

(* getLatestBlockhash *)
GetLatestBlockhash(commitment) ==
  /\ client.doing = "idle"
  /\ LET hash == BlockhashAt(commitment) IN
     client' = [doing |-> "signs", hash |-> hash, commitment |-> commitment,
                last_valid |-> LastValidHeight(hash), opening |-> height # tip]
  /\ UNCHANGED <<has_remote, chain, travelling, sysvars, queue, stored, ran, upsets>>

Signatures == Tx \cup {RemoteHistory[i].tx : i \in DOMAIN RemoteHistory}

IsLocal(t) == t \in DOMAIN transactions

(* The client goes on after the last signature of a page, until one is     *)
(* short.                                                                  *)
PageRead(request, page) ==
  [request EXCEPT !.seen = request.seen \o page,
                  !.local = <<>>, !.boundary = Nothing,
                  !.before = IF page = <<>> THEN request.before ELSE Last(page),
                  !.doing = IF Len(page) < request.limit THEN "done" ELSE "pages"]

(* getSignaturesForAddress: the local part of a page is read under the     *)
(* lock, and a boundary above the commitment's slot is refused.  The rest  *)
(* is asked of the remote unless "until" is local; a local "before" is     *)
(* newer than all the remote has.                                          *)
Refused(t, commitment) == IsLocal(t) /\ transactions[t] > SlotFor(commitment)

SignaturePage(request) ==
  LET page == Window(SignatureListing(request.commitment), request.before, request.until,
                     request.limit)
  IN  IF Refused(request.before, request.commitment) \/ Refused(request.until, request.commitment)
      THEN [request EXCEPT !.doing = "refused"]
      ELSE IF ~has_remote \/ Len(page) = request.limit \/ IsLocal(request.until)
      THEN PageRead(request, page)
      ELSE [request EXCEPT !.doing = "awaits", !.local = page,
                           !.boundary = IF IsLocal(request.before) THEN Nothing
                                        ELSE request.before]

(* getTransactionsForAddress: local only, by pagination token. *)
TransactionPage(request) ==
  PageRead(request, AtMost(After(TransactionListing(request.order), request.before),
                           request.limit))

Page(request) ==
  IF request.commitment = Nothing THEN TransactionPage(request) ELSE SignaturePage(request)

(* What the pages are to show: the transactions of the blocks visible when *)
(* the client starts, as they ran, and the remote's older than the chain.  *)
Due(commitment, order) ==
  LET shown(t) == IF commitment = Nothing THEN transactions[t] < open
                  ELSE transactions[t] <= SlotFor(commitment)
      local    == SelectSeq(ran, shown)
      older    == OlderThanFork([i \in DOMAIN RemoteHistory |-> RemoteHistory[i].tx])
  IN  IF order = "asc" THEN local
      ELSE Reverse(local) \o (IF has_remote /\ commitment # Nothing THEN older ELSE <<>>)

FirstPage(commitment, order, limit, until) ==
  /\ client.doing = "idle"
  /\ LET due == Due(commitment, order) IN
     /\ until # Nothing => \E i \in DOMAIN due : due[i] = until
     /\ client' = Page([doing |-> "pages", commitment |-> commitment, order |-> order,
                        limit |-> limit, until |-> until, due |-> UpTo(due, until),
                        before |-> Nothing, seen |-> <<>>, local |-> <<>>, boundary |-> Nothing])
  /\ UNCHANGED <<has_remote, chain, travelling, sysvars, queue, stored, ran, upsets>>

GetSignaturesForAddress ==
  \E c \in Commitments, limit \in Limits, until \in Signatures \cup {Nothing} :
    FirstPage(c, "desc", limit, until)

GetTransactionsForAddress ==
  \E order \in {"asc", "desc"}, limit \in Limits : FirstPage(Nothing, order, limit, Nothing)

NextPage ==
  /\ client.doing = "pages"
  /\ client' = Page(client)
  /\ UNCHANGED <<has_remote, chain, travelling, sysvars, queue, stored, ran, upsets>>

(* The remote is awaited without the lock. *)
ReadRemotePage ==
  /\ client.doing = "awaits"
  /\ client' = PageRead(client, client.local \o
                          RemotePages(client.boundary, client.until,
                                      client.limit - Len(client.local)))
  /\ UNCHANGED <<has_remote, chain, travelling, sysvars, queue, stored, ran, upsets>>

LedgerNext ==
  \/ \E t \in Tx : ProcessTransaction(t)
  \/ CloseSlot
  \/ \E slot \in open..MaxSlot : CloseBeforeTravel(slot)
  \/ TravelTo
  \/ ResetLedger
  \/ ShutdownAndRestart
  \/ CrashAndRestart
  \/ \E c \in Commitments : GetLatestBlockhash(c)
  \/ GetSignaturesForAddress
  \/ GetTransactionsForAddress
  \/ NextPage
  \/ ReadRemotePage

LedgerSpec == LedgerInit /\ [][LedgerNext]_ledgerVars

-----------------------------------------------------------------------------
(* Properties *)

LedgerTypeOK ==
  /\ has_remote \in BOOLEAN
  /\ open \in Nat /\ height \in Nat /\ tip \in Nat /\ genesis_slot \in Nat
  /\ DOMAIN landings \subseteq Nat /\ travelling \in Nat \cup {Nothing}
  /\ Len(recents) \in 1..MaxRecent /\ recents \in Seq(Nat)
  /\ Cardinality(DOMAIN slot_hashes) \in 1..MaxSlotHashes
  /\ queue \in Seq(Tx) /\ ran \in Seq(Tx) /\ DOMAIN transactions \subseteq Tx
  /\ DOMAIN blocks \subseteq Nat /\ latest_slot \in Nat \cup {Nothing}
  /\ anchor \in [slot : Nat, height : Nat]
  /\ client.doing \in {"idle", "signs", "pages", "awaits", "done", "refused"}

(* getLatestBlockhash, isBlockhashValid: a blockhash that was handed out   *)
(* at a commitment stays visible at it, and signs transactions until its   *)
(* last valid block height, but for the last block: a rebuild seeds one    *)
(* blockhash that the next block repeats.  That height is the one the age  *)
(* of the blockhash promises, but for the epoch info a chain opens with.   *)
HandedOutStaysUsable ==
  client.doing = "signs" =>
    /\ Visible(client.hash, client.commitment)
    /\ tip + 2 <= client.hash + 1 + MaxRecent => Recent(client.hash)
    /\ client.last_valid = client.hash + 1 + MaxRecent \/ client.opening

(* SlotHashes, streamed or rebuilt, holds the newest blocks, down to the   *)
(* finalized one, no slot that a travel skipped, and for each block the    *)
(* blockhash of the one before it.                                         *)
SlotHashesFollowChain ==
  /\ SlotFor("finalized") \in DOMAIN slot_hashes
  /\ Newest(BlocksWithin(landings, genesis_slot, open), MaxSlotHashes) \subseteq DOMAIN slot_hashes
  /\ \A s \in DOMAIN slot_hashes :
       s >= genesis_slot =>
         /\ HoldsBlock(landings, s)
         /\ slot_hashes[s] = tip - 1 - BlocksIn(landings, s + 1, open)

(* The two sysvars that hold blockhashes agree with the chain and with     *)
(* what clients were told, through travels, resets, stops and restarts.    *)
BlockhashesFollowChain == LedgerTypeOK /\ HandedOutStaysUsable /\ SlotHashesFollowChain

(* The signatures of the pages that were due: of the others, those of      *)
(* getTransactionsForAddress ran in the open slot or later, those of       *)
(* getSignaturesForAddress belong to transactions that a stop lost.        *)
Counted(t) ==
  IF client.commitment = Nothing THEN \E i \in DOMAIN client.due : client.due[i] = t
  ELSE IsLocal(t) => \E i \in DOMAIN ran : ran[i] = t

(* getSignaturesForAddress, getTransactionsForAddress: the pages that a    *)
(* client reads one after the other hold every transaction of the blocks   *)
(* visible when it began, once and in the order they ran, then the         *)
(* remote's that are older than the chain, whatever is processed, closed   *)
(* or skipped between two pages and while the remote is awaited; and no    *)
(* boundary taken from a page is refused.                                  *)
PagesCoverHistory ==
  /\ client.doing # "refused"
  /\ client.doing \in {"pages", "awaits"} => IsPrefix(SelectSeq(client.seen, Counted), client.due)
  /\ client.doing = "done" => SelectSeq(client.seen, Counted) = client.due
=============================================================================
