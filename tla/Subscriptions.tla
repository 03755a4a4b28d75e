---------------------------- MODULE Subscriptions ----------------------------
(***************************************************************************)
(* Signature, logs and block subscriptions over WebSocket.  A              *)
(* signatureSubscribe call gets its id at once; a task spawned for it then *)
(* stores the sink, looks the transaction up locally, asks the remote      *)
(* without holding the lock, and at last registers with the SVM, unless    *)
(* the status it waits for was reached meanwhile.  The runloop notifies    *)
(* what is registered as it executes transactions and closes blocks.       *)
(*                                                                         *)
(* The chain is reduced to what decides a transaction's status: the open   *)
(* slot, the landings of time travels, the stored transactions and the two *)
(* queues they pass on their way to finality (module Chain has the rest).  *)
(* One logs and one block subscription at each level, to all transactions, *)
(* stand from the start of the process.                                    *)
(***************************************************************************)
EXTENDS Slots, Sequences

CONSTANTS
  Tx,                     \* transactions sent to this surfnet, or executed on the remote
  Sub,                    \* subscription ids, given in order: 1..n
  Wanted,                 \* sub -> the <<tx, level>> its client may subscribe to
  Bundled,                \* the transactions that come in a bundle
  RemoteTx,               \* the transactions that only the remote executed
  HasRemote,
  InitialSlot, FinalizationThreshold,
  None,
  MaxSlot, Headroom,      \* bounds: the last slot, and what a new transaction leaves of them
  MaxUpsets               \* bound: travels, resets, restarts and rejections, together

Levels == {"received", "processed", "confirmed", "finalized"}

ASSUME SubscriptionsAssumption ==
  /\ Sub \subseteq Nat
  /\ Wanted \in [Sub -> SUBSET (Tx \X Levels)]
  /\ Bundled \subseteq Tx /\ RemoteTx \subseteq Tx /\ HasRemote \in BOOLEAN
  /\ InitialSlot \in Nat \ {0} /\ FinalizationThreshold \in Nat \ {0}
  /\ None \notin Tx
  /\ MaxSlot \in Nat /\ Headroom \in Nat /\ MaxUpsets \in Nat

VARIABLES
  open, landings,
  transactions,        \* tx -> slot that processed it
  confirmation_queue,  \* set of tx
  finalization_queue,  \* set of [slot, tx]
  running,             \* the transaction between its receipt and its execution, or None
  travelling,          \* the slot a time travel lands on once its block is closed, or 0
  tasks,               \* sub -> [at, tx, level]: where its task is
  active,              \* signature_subscription_map: subs whose sink is stored
  registered,          \* signature_subscriptions: subs registered with the SVM
  channel,             \* sub -> what the SVM sent its task: a sequence of levels
  told,                \* sub -> how often its client was notified
  unsubscribed,        \* subs whose client was answered that it unsubscribed
  logged,              \* level -> transactions whose logs were sent
  block_sent,          \* level -> slots whose block was sent
  carried,             \* history: transactions that a stop of the process left without a queue
  undisturbed,         \* history: the chain was neither reset nor stopped
  upsets

chain == <<open, landings, transactions, confirmation_queue, finalization_queue, running,
           travelling>>
clients == <<tasks, active, told, unsubscribed>>
svm_subs == <<registered, channel, logged, block_sent>>
history == <<carried, undisturbed>>
vars == <<chain, clients, svm_subs, history, upsets>>

NoTask == [at |-> "idle", tx |-> None, level |-> None]
Nothing == [confirmed |-> {}, finalized |-> {}]

Init ==
  /\ open = InitialSlot /\ landings = EmptyMap
  /\ transactions = EmptyMap /\ confirmation_queue = {} /\ finalization_queue = {}
  /\ running = None /\ travelling = 0
  /\ tasks = [s \in Sub |-> NoTask] /\ told = [s \in Sub |-> 0]
  /\ active = {} /\ registered = {} /\ unsubscribed = {}
  /\ channel = [s \in Sub |-> <<>>]
  /\ logged = Nothing /\ block_sent = Nothing
  /\ carried = {} /\ undisturbed = TRUE
  /\ upsets = 0

Upset == upsets < MaxUpsets /\ upsets' = upsets + 1

-----------------------------------------------------------------------------
(* Status *)

(* slot_for_commitment at finalized, with a slot open. *)
FinalizedAt(ls, slot) == BlocksBack(ls, SatSub(slot, 1), FinalizationThreshold - 1)

(* confirmation_status, of a stored transaction *)
Status(t) ==
  IF transactions[t] <= FinalizedAt(landings, open) THEN "finalized"
  ELSE IF transactions[t] < open THEN "confirmed" ELSE "processed"

(* is_satisfied_by *)
Satisfies(status, level) ==
  CASE level = "confirmed" -> status \in {"confirmed", "finalized"}
    [] level = "finalized" -> status = "finalized"
    [] OTHER -> TRUE

Reached(t, level) == t \in DOMAIN transactions /\ Satisfies(Status(t), level)

-----------------------------------------------------------------------------
(* What the SVM sends, under its lock *)

SentTo(hit, level) ==
  [s \in Sub |-> IF s \in hit THEN Append(channel[s], level) ELSE channel[s]]

NotifyAndDropAll(level, ts) ==  \* mutant: the entry goes with the first level it is sent at
  LET hit == {s \in registered : tasks[s].tx \in ts}
  IN /\ channel' = SentTo({s \in hit : tasks[s].level = level}, level)
     /\ registered' = registered \ hit

(* notify_signature_subscribers, for some transactions: a subscription at  *)
(* the level is sent it and dropped, the others stay.                      *)
NotifySignatures(level, ts) ==
  LET hit == {s \in registered : tasks[s].tx \in ts /\ tasks[s].level = level}
  IN /\ channel' = SentTo(hit, level)
     /\ registered' = registered \ hit

(* fetch_all_tx_accounts_then_process_tx..: the transaction is announced   *)
(* as received, then its accounts are fetched without the lock.            *)
Receive(t) ==
  /\ running = None /\ travelling = 0
  /\ t \notin DOMAIN transactions /\ t \notin RemoteTx \cup Bundled
  /\ open + Headroom <= MaxSlot
  /\ running' = t
  /\ NotifySignatures("received", {t})
  /\ UNCHANGED <<open, landings, transactions, confirmation_queue, finalization_queue,
                 travelling, clients, logged, block_sent, history, upsets>>

Stored(t) ==
  /\ transactions' = Put(transactions, t, open)
  /\ confirmation_queue' = confirmation_queue \cup {t}
  /\ NotifySignatures("processed", {t})

(* handle_execution_success and handle_execution_failure: the transaction  *)
(* is stored, queued and announced, with or without an error.              *)
Execute ==
  /\ running # None
  /\ Stored(running)
  /\ running' = None
  /\ UNCHANGED <<open, landings, finalization_queue, travelling, clients, logged, block_sent,
                 history, upsets>>

(* handle_simulation_failure: the preflight's error is announced as        *)
(* processed, and nothing is stored.                                       *)
RejectInPreflight ==
  /\ running # None
  /\ Upset
  /\ NotifySignatures("processed", {running})
  /\ running' = None
  /\ UNCHANGED <<open, landings, transactions, confirmation_queue, finalization_queue,
                 travelling, clients, logged, block_sent, history>>

(* The accounts cannot be fetched: the sender gets the error. *)
FetchFails ==
  /\ running # None
  /\ Upset
  /\ running' = None
  /\ UNCHANGED <<open, landings, transactions, confirmation_queue, finalization_queue,
                 travelling, clients, svm_subs, history>>

(* commit_sandbox: announced as processed, never as received. *)
CommitBundle(t) ==
  /\ running = None /\ travelling = 0
  /\ t \in Bundled \ DOMAIN transactions
  /\ open + Headroom <= MaxSlot
  /\ Stored(t)
  /\ UNCHANGED <<open, landings, finalization_queue, running, travelling, clients, logged,
                 block_sent, history, upsets>>

Confirmed == finalization_queue \cup [slot : {open}, tx : confirmation_queue]

RootTooSoon ==  \* mutant: a block less below the last
  BlocksBack(landings, open, FinalizationThreshold - 2)

NewRoot == FinalizedAt(landings, open + 1)

Final == {q.tx : q \in {e \in Confirmed : e.slot <= NewRoot}}

(* The blocks after the parent block's root, up to the new one. *)
RootsUpToParents ==  \* mutant: a block's root is announced with the next block
  BlocksWithin(landings, InitialSlot, FinalizedAt(landings, open))

NewRoots ==
  LET before == BlocksBack(landings, ParentSlot(landings, open), FinalizationThreshold - 1)
      from == IF before + 1 > InitialSlot THEN before + 1 ELSE InitialSlot
  IN BlocksWithin(landings, from, NewRoot)

(* confirm_transactions and finalize_transactions send the levels a block  *)
(* moves its transactions to; one with a subscription at each gets both.   *)
NotifyLevels ==
  LET hit(s) == \/ tasks[s].level = "confirmed" /\ tasks[s].tx \in confirmation_queue
                \/ tasks[s].level = "finalized" /\ tasks[s].tx \in Final
  IN /\ channel' = [s \in Sub |->
          IF s \in registered /\ hit(s) THEN Append(channel[s], tasks[s].level) ELSE channel[s]]
     /\ registered' = {s \in registered : ~hit(s)}

(* confirm_current_block *)
CloseBlock ==
  /\ running = None /\ open < MaxSlot
  /\ open' = open + 1
  /\ confirmation_queue' = {}
  /\ finalization_queue' = {q \in Confirmed : q.slot > NewRoot}
  /\ NotifyLevels
  /\ logged' = [confirmed |-> logged.confirmed \cup confirmation_queue,
                finalized |-> logged.finalized \cup Final]
  /\ block_sent' = [confirmed |-> block_sent.confirmed \cup {open},
                    finalized |-> block_sent.finalized \cup NewRoots]
  /\ UNCHANGED <<landings, transactions, running, clients, history>>

CloseSlot ==
  /\ travelling = 0
  /\ CloseBlock
  /\ UNCHANGED <<travelling, upsets>>

(* A time travel closes the open slot, then lands in an access of its own. *)
CloseBeforeTravel(slot) ==
  /\ travelling = 0
  /\ Upset
  /\ slot > open + 1 /\ slot + Headroom <= MaxSlot
  /\ CloseBlock
  /\ travelling' = slot

Land ==
  /\ travelling # 0
  /\ landings' = Put(Drop(landings, {l \in DOMAIN landings : l >= open}), travelling,
                     [parent |-> BlockAtOrBefore(landings, open - 1)])
  /\ open' = travelling
  /\ travelling' = 0
  /\ UNCHANGED <<transactions, confirmation_queue, finalization_queue, running, clients,
                 svm_subs, history, upsets>>

(* surfnet_resetNetwork, from an RPC thread: the chain starts over, the    *)
(* subscriptions stay.                                                     *)
ResetNetwork ==
  /\ Upset
  /\ open' = InitialSlot /\ landings' = EmptyMap
  /\ transactions' = EmptyMap /\ confirmation_queue' = {} /\ finalization_queue' = {}
  /\ logged' = Nothing /\ block_sent' = Nothing
  /\ carried' = {} /\ undisturbed' = FALSE
  /\ UNCHANGED <<running, travelling, clients, registered, channel>>

(* The process stops and reopens the chain in its database, at a slot past *)
(* its last stored block and landing; connections and queues are gone.     *)
Restart ==
  /\ Upset
  /\ \E slot \in InitialSlot..open :
       /\ \A t \in DOMAIN transactions :
            transactions[t] >= slot => t \in confirmation_queue
       /\ \A l \in DOMAIN landings : l <= slot
       /\ open' = slot
  /\ confirmation_queue' = {} /\ finalization_queue' = {}
  /\ running' = None /\ travelling' = 0
  /\ tasks' = [s \in Sub |-> NoTask] /\ told' = [s \in Sub |-> 0]
  /\ active' = {} /\ registered' = {} /\ unsubscribed' = {}
  /\ channel' = [s \in Sub |-> <<>>]
  /\ logged' = Nothing /\ block_sent' = Nothing
  /\ carried' = DOMAIN transactions /\ undisturbed' = FALSE
  /\ UNCHANGED <<landings, transactions>>

-----------------------------------------------------------------------------
(* The WebSocket server: clients and the task of each subscription *)

(* signature_subscribe: the next id is assigned and the task spawned. *)
Subscribe(s, t, level) ==
  /\ tasks[s] = NoTask /\ \A r \in Sub : r < s => tasks[r] # NoTask
  /\ tasks' = [tasks EXCEPT ![s] = [at |-> "spawned", tx |-> t, level |-> level]]
  /\ UNCHANGED <<chain, active, told, unsubscribed, svm_subs, history, upsets>>

GoesTo(s, place) == tasks' = [tasks EXCEPT ![s].at = place]

InsertSink(s) ==
  /\ tasks[s].at = "spawned"
  /\ active' = active \cup {s}
  /\ GoesTo(s, "looking")
  /\ UNCHANGED <<chain, told, unsubscribed, svm_subs, history, upsets>>

(* notify_signature_subscriber: the one notification, if the sink is still *)
(* there; the task ends.                                                   *)
NotifyClient(s) ==
  /\ told' = [told EXCEPT ![s] = IF s \in active THEN @ + 1 ELSE @]
  /\ active' = active \ {s}
  /\ GoesTo(s, "done")

GoesOn(s, place) == GoesTo(s, place) /\ UNCHANGED <<active, told>>

(* get_transaction_local *)
LookLocally(s) ==
  /\ tasks[s].at = "looking"
  /\ IF Reached(tasks[s].tx, tasks[s].level) THEN NotifyClient(s)
     ELSE GoesOn(s, IF tasks[s].tx \in DOMAIN transactions \/ ~HasRemote
                    THEN "checking" ELSE "asking")
  /\ UNCHANGED <<chain, unsubscribed, svm_subs, history, upsets>>

(* The remote's answer: nothing (an error counts as that), or a            *)
(* transaction at a status that the local chain's slots decide.            *)
RemoteAnswers(s) ==
  /\ tasks[s].at = "asking"
  /\ \/ GoesOn(s, "checking")
     \/ tasks[s].tx \in RemoteTx /\ NotifyClient(s)
  /\ UNCHANGED <<chain, unsubscribed, svm_subs, history, upsets>>

(* get_local_signature_status_or_subscribe *)
RegisterUnseen(s) ==  \* mutant: what the lookup saw still holds
  /\ tasks[s].at = "checking"
  /\ registered' = registered \cup {s} /\ GoesOn(s, "waiting")
  /\ UNCHANGED <<chain, unsubscribed, channel, logged, block_sent, history, upsets>>

CheckOrRegister(s) ==
  /\ tasks[s].at = "checking"
  /\ IF Reached(tasks[s].tx, tasks[s].level)
     THEN NotifyClient(s) /\ UNCHANGED registered
     ELSE registered' = registered \cup {s} /\ GoesOn(s, "waiting")
  /\ UNCHANGED <<chain, unsubscribed, channel, logged, block_sent, history, upsets>>

Deliver(s) ==
  /\ tasks[s].at = "waiting" /\ channel[s] # <<>>
  /\ channel' = [channel EXCEPT ![s] = Tail(@)]
  /\ NotifyClient(s)
  /\ UNCHANGED <<chain, unsubscribed, registered, logged, block_sent, history, upsets>>

(* signature_unsubscribe: the sink goes, the task and what it registered   *)
(* stay; the answer is true, whether there was a sink or not.  Once the    *)
(* task has ended it changes nothing.                                      *)
Unsubscribe(s) ==
  /\ tasks[s].at \notin {"idle", "done"} /\ s \notin unsubscribed
  /\ active' = active \ {s}
  /\ unsubscribed' = unsubscribed \cup {s}
  /\ UNCHANGED <<chain, tasks, told, svm_subs, history, upsets>>

TaskStep(s) ==
  InsertSink(s) \/ LookLocally(s) \/ RemoteAnswers(s) \/ CheckOrRegister(s) \/ Deliver(s)

Next ==
  \/ \E t \in Tx : Receive(t) \/ CommitBundle(t)
  \/ Execute \/ RejectInPreflight \/ FetchFails
  \/ CloseSlot \/ (\E slot \in InitialSlot..MaxSlot : CloseBeforeTravel(slot)) \/ Land
  \/ ResetNetwork \/ Restart
  \/ \E s \in Sub :
       \/ \E w \in Wanted[s] : Subscribe(s, w[1], w[2])
       \/ TaskStep(s) \/ Unsubscribe(s)

(* Blocks keep being produced, tasks keep running and the remote answers   *)
(* or fails within its timeout.                                            *)
Spec ==
  /\ Init /\ [][Next]_vars
  /\ WF_vars(CloseSlot) /\ WF_vars(Land)
  /\ WF_vars(Execute \/ RejectInPreflight \/ FetchFails)
  /\ \A s \in Sub : WF_vars(TaskStep(s))

-----------------------------------------------------------------------------
(* Properties *)

Places == {"idle", "spawned", "looking", "asking", "checking", "waiting", "done"}

(* Types, and at most one level sent to a task, one notice to its client.  *)
TypeOK ==
  /\ open \in Nat /\ InitialSlot <= open /\ travelling \in Nat
  /\ DOMAIN landings \subseteq Nat
  /\ \A l \in DOMAIN landings : landings[l].parent \in Nat
  /\ DOMAIN transactions \subseteq Tx
  /\ \A t \in DOMAIN transactions : transactions[t] \in Nat
  /\ confirmation_queue \subseteq Tx /\ carried \subseteq Tx
  /\ finalization_queue \subseteq [slot : Nat, tx : Tx]
  /\ running \in Tx \cup {None}
  /\ tasks \in [Sub -> [at : Places, tx : Tx \cup {None}, level : Levels \cup {None}]]
  /\ active \subseteq Sub /\ registered \subseteq Sub /\ unsubscribed \subseteq Sub
  /\ channel \in [Sub -> {<<>>} \cup {<<l>> : l \in Levels}]
  /\ told \in [Sub -> 0..1]
  /\ logged \in [confirmed : SUBSET Tx, finalized : SUBSET Tx]
  /\ block_sent \in [confirmed : SUBSET Nat, finalized : SUBSET Nat]
  /\ undisturbed \in BOOLEAN /\ upsets \in Nat

(* get_local_signature_status_or_subscribe, "closes the check-then-        *)
(* subscribe race": nobody stays registered for a status that was already  *)
(* reached, however the lookups, the remote's answers and the chain        *)
(* interleave.  Left out: a receipt, which is announced once only, and     *)
(* transactions whose queue a stop of the process lost.                    *)
NobodyWaitsForThePast ==
  \A s \in registered :
    tasks[s].level # "received" /\ tasks[s].tx \notin carried
      => ~Reached(tasks[s].tx, tasks[s].level)

Sent(s) == Len(channel'[s]) > Len(channel[s])

(* A level is sent when the transaction reaches it, not before: the        *)
(* receipt of a transaction before its accounts are there, a preflight's   *)
(* error in place of processing.                                           *)
SentWhenReached ==
  [][\A s \in Sub : Sent(s) =>
       LET t == tasks[s].tx
           level == tasks[s].level
       IN \/ Reached(t, level)'
          \/ level = "received" /\ running' = t
          \/ level = "processed" /\ running = t /\ running' = None]_vars

(* logsSubscribe and blockSubscribe agree, at confirmed and at finalized:  *)
(* the transactions whose logs were sent are those of the blocks that were *)
(* sent, though queues drive the one and the slots' arithmetic the other.  *)
LogsMatchBlocks ==
  \A level \in {"confirmed", "finalized"} :
    \A t \in DOMAIN transactions \ carried :
      t \in logged[level] <=> transactions[t] \in block_sent[level]

(* Whoever subscribes to a transaction that is processed here, before or   *)
(* after, hears of it once it has the level, unless it unsubscribes or the *)
(* chain is reset or stopped.                                              *)
EverySubscriberTold ==
  \A s \in Sub :
    (tasks[s] # NoTask /\ tasks[s].level # "received" /\ tasks[s].tx \in DOMAIN transactions)
      ~> (told[s] = 1 \/ s \in unsubscribed \/ ~undisturbed)
==============================================================================
