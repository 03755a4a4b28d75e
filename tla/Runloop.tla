------------------------------ MODULE Runloop ------------------------------
(***************************************************************************)
(* The block production runloop, the one thread that runs transactions and *)
(* closes slots, between the RPC threads that queue commands for it, the   *)
(* clock thread that ticks, and its own follow-up tokens.  Blocks are made *)
(* on ticks (mode "clock"), for transactions ("transaction") or on demand  *)
(* ("manual").                                                             *)
(*                                                                         *)
(* Of the chain this module keeps how many blocks have followed a          *)
(* transaction's own (module Chain has the slots).  An airdrop and a Jito  *)
(* bundle (module Bundle) are the command "mutation", of one transaction.  *)
(* Startup commands are in module Startup.  The expiry of a surfnet (a      *)
(* Terminate of its own) and the count of ticks that were coalesced, which *)
(* is only logged, are left out.                                           *)
(***************************************************************************)
EXTENDS Integers, Sequences, FiniteSets

CONSTANTS
  Client, Tx, None,
  FinalizationThreshold,              \* finalization_slot_threshold
  Modes,                              \* modes an operator switches to
  ClockCommands,                      \* "pause", "resume", "toggle"
  MaxRequests, MaxCommands, MaxResets \* bounds: how often each happens

ASSUME RunloopAssumption ==
  /\ IsFiniteSet(Client)
  /\ None \notin Tx \cup {"ok", "error"}
  /\ FinalizationThreshold \in Nat \ {0}
  /\ Modes \subseteq {"clock", "transaction", "manual"}
  /\ ClockCommands \subseteq {"pause", "resume", "toggle"}
  /\ MaxRequests \in Nat /\ MaxCommands \in Nat /\ MaxResets \in Nat

VARIABLES
  (* The runloop *)
  running,
  phase,               \* "select", "execute", "complete" or "block"
  current,             \* the ProcessTransaction it handles, or None
  mode,                \* block_production_mode
  clock_paused,
  commands,            \* simnet_commands, unbounded
  token,               \* scheduled_block, bounded(1)
  (* The clock thread *)
  tick,                \* clock_event, bounded(1)
  clock_enabled,
  clock_commands,
  (* The SVM *)
  transactions,        \* signatures stored as processed
  confirmation_queue,
  finalization_queue,  \* tx -> blocks after its own, Unclosed while that one is not closed
  pending,             \* pending_transaction_signatures
  (* The clients of sendTransaction *)
  stage,               \* client -> "idle", "marked" or "sent"
  request,             \* client -> the transaction it sent last
  answer,              \* client -> None, "ok" or "error"
  ran,                 \* history: tx -> how often it ran on this chain
  unasked,             \* history: transactions of bundles that failed once they were
                       \* committed, until a block is asked for
  requests, operated, resets

loop == <<running, phase, current, mode, clock_paused, token>>
clock == <<tick, clock_enabled, clock_commands>>
chain == <<transactions, confirmation_queue, finalization_queue>>
clients == <<stage, request, answer>>
counters == <<requests, operated, resets>>
history == <<ran, unasked>>
vars == <<loop, commands, clock, chain, pending, clients, history, counters>>

NoEntries == [t \in {} |-> 0]
Unclosed == -1

Init ==
  /\ running = TRUE /\ phase = "select" /\ current = None
  /\ mode \in Modes /\ clock_paused = FALSE /\ token = FALSE
  /\ commands = <<>>
  /\ tick = FALSE /\ clock_enabled = TRUE /\ clock_commands = <<>>
  /\ transactions = {} /\ confirmation_queue = {} /\ finalization_queue = NoEntries
  /\ pending = [t \in Tx |-> 0]
  /\ stage = [c \in Client |-> "idle"]
  /\ request = [c \in Client |-> None] /\ answer = [c \in Client |-> None]
  /\ ran = [t \in Tx |-> 0] /\ unasked = {}
  /\ requests = 0 /\ operated = 0 /\ resets = 0

-----------------------------------------------------------------------------
(* RPC threads *)

(* sendTransaction past its preflight, which refuses only some duplicates: *)
(* the signature is marked as pending, then the command is queued.         *)
Marked(t) == [pending EXCEPT ![t] = @ + 1]

(* mark_transaction_complete; a signature not pending stays so. *)
StaysPending(t) == pending  \* mutant: the mark is not taken back

Completed(t) == [pending EXCEPT ![t] = IF @ > 0 THEN @ - 1 ELSE 0]

MarkPending(c, t) ==
  /\ stage[c] = "idle" /\ requests < MaxRequests
  /\ requests' = requests + 1
  /\ pending' = Marked(t)
  /\ stage' = [stage EXCEPT ![c] = "marked"]
  /\ request' = [request EXCEPT ![c] = t]
  /\ answer' = [answer EXCEPT ![c] = None]
  /\ UNCHANGED <<loop, commands, clock, chain, history, operated, resets>>

SendCommand(c) ==
  /\ stage[c] = "marked"
  /\ IF running
     THEN /\ commands' = Append(commands, [kind |-> "transaction", client |-> c, tx |-> request[c]])
          /\ stage' = [stage EXCEPT ![c] = "sent"]
          /\ UNCHANGED <<pending, answer>>
     ELSE /\ pending' = Completed(request[c])
          /\ stage' = [stage EXCEPT ![c] = "idle"]
          /\ answer' = [answer EXCEPT ![c] = "error"]
          /\ UNCHANGED commands
  /\ UNCHANGED <<loop, clock, chain, request, history, counters>>

OperatorCommands ==
  [kind : {"mode"}, mode : Modes] \cup [kind : {"clock"}, command : ClockCommands]
    \cup [kind : {"mutation"}, tx : Tx] \cup [kind : {"step", "travel", "terminate"}]

Operate(command) ==
  /\ running /\ operated < MaxCommands
  /\ operated' = operated + 1
  /\ commands' = Append(commands, command)
  /\ UNCHANGED <<loop, clock, chain, pending, clients, history, requests, resets>>

(* surfnet_resetNetwork leaves the pending signatures. *)
ResetNetwork ==
  /\ resets < MaxResets
  /\ resets' = resets + 1
  /\ transactions' = {} /\ confirmation_queue' = {} /\ finalization_queue' = NoEntries
  /\ ran' = [t \in Tx |-> 0] /\ unasked' = {}
  /\ UNCHANGED <<loop, commands, clock, pending, clients, requests, operated>>

-----------------------------------------------------------------------------
(* The clock thread: a tick that finds the last one not taken is dropped.  *)

Tick ==
  /\ running /\ clock_enabled
  /\ tick' = TRUE
  /\ UNCHANGED <<loop, commands, clock_enabled, clock_commands, chain, pending, clients, history,
                 counters>>

ObeyClockCommand ==
  /\ running /\ clock_commands # <<>>
  /\ clock_enabled' = CASE Head(clock_commands) = "pause" -> FALSE
                        [] Head(clock_commands) = "resume" -> TRUE
                        [] Head(clock_commands) = "toggle" -> ~clock_enabled
  /\ clock_commands' = Tail(clock_commands)
  /\ UNCHANGED <<loop, commands, tick, chain, pending, clients, history, counters>>

-----------------------------------------------------------------------------
(* Blocks *)

(* confirm_current_block: what was processed is confirmed, what is deep    *)
(* enough is final and leaves.                                             *)
CloseBlock ==
  /\ confirmation_queue' = {}
  /\ finalization_queue' =
       [t \in {q \in DOMAIN finalization_queue :
                 finalization_queue[q] + 1 < FinalizationThreshold - 1}
              \cup (IF FinalizationThreshold > 1 THEN confirmation_queue ELSE {}) |->
          IF t \in confirmation_queue THEN 0 ELSE finalization_queue[t] + 1]

(* The store refuses the block, or the checkpoint after it: what was       *)
(* processed counts as confirmed, in a block that is not closed.           *)
RefuseBlock ==
  /\ confirmation_queue' = {}
  /\ finalization_queue' =
       [t \in DOMAIN finalization_queue \cup confirmation_queue |->
          IF t \in confirmation_queue THEN Unclosed ELSE finalization_queue[t]]

(* confirm_current_block fails, early, or once the block is closed. *)
BlockRefused == RefuseBlock \/ CloseBlock

HasPendingFinalization == confirmation_queue # {} \/ DOMAIN finalization_queue # {}

ScheduledOnlyAtSwitch == token  \* mutant: a block does not ask for the next one

(* Asks for one more block if finalization still needs it. *)
ScheduledAfterBlock == token \/ (mode = "transaction" /\ HasPendingFinalization')

StillUnasked == IF token' THEN {} ELSE unasked

ProduceBlock ==
  /\ running /\ phase = "block"
  /\ CloseBlock
  /\ token' = ScheduledAfterBlock
  /\ unasked' = StillUnasked
  /\ phase' = "select"
  /\ UNCHANGED <<running, current, mode, clock_paused, commands, clock, transactions, pending,
                 clients, ran, counters>>

NoneDropped(left) == {}  \* mutant: the commands are kept, and their senders wait

Dropped(left) == {left[i].client : i \in {j \in DOMAIN left : left[j].kind = "transaction"}}

(* The runloop ends: commands not taken are dropped with their reply       *)
(* channels, and the clients that wait get an error.                       *)
Stop(left) ==
  /\ running' = FALSE /\ phase' = "select" /\ commands' = <<>>
  /\ stage' = [c \in Client |-> IF c \in Dropped(left) THEN "idle" ELSE stage[c]]
  /\ answer' = [c \in Client |-> IF c \in Dropped(left) THEN "error" ELSE answer[c]]
  /\ UNCHANGED <<current, mode, clock_paused, token, clock, transactions, pending, request,
                 history, counters>>

(* A block that fails ends the runloop. *)
BlockFails == running /\ phase = "block" /\ BlockRefused /\ Stop(commands)

-----------------------------------------------------------------------------
(* The select of the runloop takes any event that is ready. *)

Selecting == running /\ phase = "select"

TakeTick ==
  /\ Selecting /\ tick
  /\ tick' = FALSE
  /\ phase' = IF mode = "clock" /\ ~clock_paused THEN "block" ELSE "select"
  /\ UNCHANGED <<running, current, mode, clock_paused, token, commands, clock_enabled,
                 clock_commands, chain, pending, clients, history, counters>>

TakeToken ==
  /\ Selecting /\ token
  /\ token' = FALSE
  /\ phase' = IF mode = "transaction" THEN "block" ELSE "select"
  /\ UNCHANGED <<running, current, mode, clock_paused, commands, clock, chain, pending, clients,
                 history, counters>>

TakeCommand(kind) ==
  /\ Selecting /\ commands # <<>> /\ Head(commands).kind = kind
  /\ commands' = Tail(commands)

NoDuplicate(t) == FALSE  \* mutant: a duplicate is run again

IsDuplicate(t) == t \in transactions

Answer(c, outcome) ==
  /\ answer' = [answer EXCEPT ![c] = outcome]
  /\ stage' = [stage EXCEPT ![c] = "idle"]
  /\ UNCHANGED request

(* ProcessTransaction: a duplicate is dropped, and its sender told that    *)
(* the transaction is processed.                                           *)
DropDuplicate ==
  /\ TakeCommand("transaction")
  /\ IsDuplicate(Head(commands).tx)
  /\ pending' = Completed(Head(commands).tx)
  /\ Answer(Head(commands).client, "ok")
  /\ UNCHANGED <<loop, clock, chain, history, counters>>

TakeTransaction ==
  /\ TakeCommand("transaction")
  /\ ~IsDuplicate(Head(commands).tx)
  /\ current' = Head(commands)
  /\ phase' = "execute"
  /\ UNCHANGED <<running, mode, clock_paused, token, clock, chain, pending, clients, history,
                 counters>>

Stored(t) ==
  /\ transactions' = transactions \cup {t}
  /\ confirmation_queue' = confirmation_queue \cup {t}
  /\ ran' = [ran EXCEPT ![t] = @ + 1]
  /\ UNCHANGED <<finalization_queue, unasked>>

(* The transaction runs and is stored, whether it succeeds or not.         *)
Execute ==
  /\ running /\ phase = "execute"
  /\ Stored(current.tx)
  /\ Answer(current.client, "ok")
  /\ phase' = "complete"
  /\ UNCHANGED <<running, current, mode, clock_paused, token, commands, clock, pending, counters>>

AnswerAnyway == "ok"  \* mutant: the client is told it was processed

AnswerOfRejected == "error"

(* It fails its checks, or an account cannot be fetched: nothing is stored. *)
Reject ==
  /\ running /\ phase = "execute"
  /\ Answer(current.client, AnswerOfRejected)
  /\ phase' = "complete"
  /\ UNCHANGED <<running, current, mode, clock_paused, token, commands, clock, chain, pending,
                 history, counters>>

PhaseAfterTransaction == IF mode = "transaction" THEN "block" ELSE "select"

Complete ==
  /\ running /\ phase = "complete"
  /\ pending' = Completed(current.tx)
  /\ current' = None
  /\ phase' = PhaseAfterTransaction
  /\ UNCHANGED <<running, mode, clock_paused, token, commands, clock, chain, clients, history,
                 counters>>

(* ProcessBundle, ProcessSerialVmMutation: only what succeeds gets a block. *)
MutationRuns(t) ==
  /\ ~IsDuplicate(t)
  /\ Stored(t)
  /\ phase' = PhaseAfterTransaction

MutationFails(t) == UNCHANGED <<phase, chain, history>>

(* store_bundle fails: the bundle's sender is told so, but it is committed. *)
BundleNotRecorded(t) ==
  /\ ~IsDuplicate(t)
  /\ transactions' = transactions \cup {t}
  /\ confirmation_queue' = confirmation_queue \cup {t}
  /\ ran' = [ran EXCEPT ![t] = @ + 1]
  /\ unasked' = IF token THEN unasked ELSE unasked \cup {t}
  /\ UNCHANGED <<phase, finalization_queue>>

(* commit_sandbox fails on its way: the transaction is stored, and not     *)
(* queued for a block; its accounts are the live ones, or not.             *)
BundleHalfCommitted(t) ==
  /\ ~IsDuplicate(t)
  /\ transactions' = transactions \cup {t}
  /\ ran' \in {ran, [ran EXCEPT ![t] = @ + 1]}
  /\ UNCHANGED <<phase, confirmation_queue, finalization_queue, unasked>>

Mutate ==
  /\ TakeCommand("mutation")
  /\ LET t == Head(commands).tx IN
       MutationRuns(t) \/ MutationFails(t) \/ BundleNotRecorded(t) \/ BundleHalfCommitted(t)
  /\ UNCHANGED <<running, current, mode, clock_paused, token, clock, pending, clients, counters>>

SlotForward ==
  /\ TakeCommand("step")
  /\ mode' = "manual"
  /\ phase' = "block"
  /\ UNCHANGED <<running, current, clock_paused, token, clock, chain, pending, clients, history,
                 counters>>

NotScheduledAtSwitch == token  \* mutant: a switch of modes asks for no block

ScheduledAtSwitch == token \/ (mode' = "transaction" /\ HasPendingFinalization)

UpdateBlockProductionMode ==
  /\ TakeCommand("mode")
  /\ mode' = Head(commands).mode
  /\ token' = ScheduledAtSwitch
  /\ unasked' = StillUnasked
  /\ UNCHANGED <<running, phase, current, clock_paused, clock, chain, pending, clients, ran,
                 counters>>

CommandClock ==
  /\ TakeCommand("clock")
  /\ clock_paused' = CASE Head(commands).command = "pause" -> TRUE
                       [] Head(commands).command = "resume" -> FALSE
                       [] Head(commands).command = "toggle" -> ~clock_paused
  /\ clock_commands' = Append(clock_commands, Head(commands).command)
  /\ UNCHANGED <<running, phase, current, mode, token, tick, clock_enabled, chain, pending,
                 clients, history, counters>>

(* UpdateInternalClock closes a block on its way, and asks for none.  If   *)
(* the block fails, that is logged.                                        *)
TimeTravel ==
  /\ TakeCommand("travel")
  /\ CloseBlock \/ BlockRefused
  /\ UNCHANGED <<loop, clock, transactions, pending, clients, history, counters>>

Terminate ==
  /\ Selecting /\ commands # <<>> /\ Head(commands).kind = "terminate"
  /\ Stop(Tail(commands))
  /\ UNCHANGED chain

HandleCommand ==
  \/ DropDuplicate \/ TakeTransaction \/ Mutate \/ SlotForward
  \/ UpdateBlockProductionMode \/ CommandClock \/ TimeTravel \/ Terminate

Work == Execute \/ Reject \/ Complete \/ ProduceBlock \/ BlockFails

Next ==
  \/ \E c \in Client, t \in Tx : MarkPending(c, t)
  \/ \E c \in Client : SendCommand(c)
  \/ \E command \in OperatorCommands : Operate(command)
  \/ ResetNetwork
  \/ Tick
  \/ ObeyClockCommand
  \/ TakeTick
  \/ TakeToken
  \/ HandleCommand
  \/ Work

Spec == Init /\ [][Next]_vars

(* Every thread goes on.  The select takes a random one of the events that *)
(* are ready, so one that is ready again and again is taken.               *)
FairSpec ==
  /\ Spec
  /\ WF_vars(Work) /\ SF_vars(HandleCommand) /\ SF_vars(TakeToken) /\ SF_vars(TakeTick)
  /\ WF_vars(Tick) /\ WF_vars(ObeyClockCommand)
  /\ \A c \in Client : WF_vars(SendCommand(c))

-----------------------------------------------------------------------------
(* Properties *)

TransactionCommands == [kind : {"transaction"}, client : Client, tx : Tx]
Commands == OperatorCommands \cup TransactionCommands

TypeOK ==
  /\ running \in BOOLEAN /\ phase \in {"select", "execute", "complete", "block"}
  /\ current \in TransactionCommands \cup {None}
  /\ mode \in {"clock", "transaction", "manual"}
  /\ clock_paused \in BOOLEAN /\ token \in BOOLEAN /\ tick \in BOOLEAN
  /\ clock_enabled \in BOOLEAN /\ clock_commands \in Seq(ClockCommands)
  /\ commands \in Seq(Commands)
  /\ transactions \subseteq Tx /\ confirmation_queue \subseteq transactions
  /\ DOMAIN finalization_queue \subseteq transactions \ confirmation_queue
  /\ \A t \in DOMAIN finalization_queue :
       finalization_queue[t] \in Unclosed..(FinalizationThreshold - 2)
  /\ pending \in [Tx -> Nat]
  /\ stage \in [Client -> {"idle", "marked", "sent"}]
  /\ request \in [Client -> Tx \cup {None}]
  /\ answer \in [Client -> {None, "ok", "error"}]
  /\ ran \in [Tx -> Nat] /\ unasked \subseteq Tx
  /\ requests \in Nat /\ operated \in Nat /\ resets \in Nat

Marking(t) == {c \in Client : stage[c] = "marked" /\ request[c] = t}
SendsIn(queue, t) == {i \in DOMAIN queue : queue[i].kind = "transaction" /\ queue[i].tx = t}
Processing(t) == phase \in {"execute", "complete"} /\ current.tx = t

(* A lookup goes to the remote for a signature that is neither stored nor  *)
(* pending, so a signature is pending exactly for the sends of it on their *)
(* way: marked, queued or being processed, duplicates counted.             *)
PendingCountsSends ==
  running =>
    \A t \in Tx :
      pending[t] = Cardinality(Marking(t)) + Cardinality(SendsIn(commands, t))
                     + (IF Processing(t) THEN 1 ELSE 0)

(* However often, by however many clients and next to whatever airdrop or  *)
(* bundle a transaction is sent, it runs at most once on a chain.          *)
RunsOnce == \A t \in Tx : ran[t] <= 1

(* A client is told its transaction was processed only if it was.          *)
OkMeansProcessed ==
  \A c \in Client : answer[c] = "ok" => request[c] \in transactions \/ resets > 0

(* In transaction mode no clock makes blocks: while a transaction is not   *)
(* final and the runloop is back at its select, the next block is asked    *)
(* for, whatever travels, switches, refused blocks and failed bundles came *)
(* in between.  Not so for a bundle that is committed and whose record the *)
(* store refuses: it waits until something else asks for a block.          *)
NotFinal == confirmation_queue \cup DOMAIN finalization_queue

FollowUpScheduled ==
  (Selecting /\ mode = "transaction" /\ ~(NotFinal \subseteq unasked)) => token

(* Every sendTransaction is answered, at the latest when the runloop ends. *)
EveryRequestAnswered == \A c \in Client : (stage[c] = "sent") ~> (stage[c] # "sent")

Producing == running /\ (mode = "transaction" \/ (mode = "clock" /\ ~clock_paused))

(* While blocks are produced, by the clock or for transactions, what was   *)
(* processed becomes final (or is dropped with its chain), unless it is of *)
(* a bundle that no block is asked for.                                    *)
ProcessedBecomesFinal ==
  \A t \in Tx :
    (t \in NotFinal) ~>
      \/ t \notin NotFinal
      \/ ~Producing
      \/ mode = "transaction" /\ t \in unasked
=============================================================================
