--------------------------- MODULE RunloopProofs ---------------------------
(***************************************************************************)
(* Proofs about Runloop, for any clients, transactions, thresholds and     *)
(* numbers of requests, commands and resets: a transaction runs at most    *)
(* once on a chain, a client is told "ok" only for what was processed, in  *)
(* transaction mode a block is always asked for while one is needed, and   *)
(* the pending count of a signature is the number of sends on their way.   *)
(***************************************************************************)
EXTENDS Runloop, SequenceTheorems, FiniteSetTheorems, TLAPS

USE RunloopAssumption

(* What the runloop holds between its steps: a command while it works on   *)
(* one, whose transaction is not stored as long as it has not run.         *)
Handling ==
  /\ phase \in {"execute", "complete"} => current \in TransactionCommands
  /\ phase \in {"select", "block"} => current = None
  /\ phase = "execute" => current.tx \notin transactions

(* What runs is stored, and so is not run again. *)
RanIsStored == \A t \in Tx : ran[t] = 0 \/ (ran[t] = 1 /\ t \in transactions)

(* A client waits for the transaction it sent, so a mark and the command   *)
(* that takes it back are for the same signature.                          *)
SendersKnown == \A c \in Client : stage[c] # "idle" => request[c] \in Tx

SafeInv == TypeOK /\ Handling /\ RanIsStored /\ SendersKnown

-----------------------------------------------------------------------------
(* The fields of a command that its kind tells it has. *)
LEMMA CommandFields ==
  ASSUME NEW x \in Commands
  PROVE  /\ x.kind = "transaction" =>
              x \in TransactionCommands /\ x.client \in Client /\ x.tx \in Tx
         /\ x.kind = "mode" => x.mode \in Modes
         /\ x.kind = "clock" => x.command \in ClockCommands
         /\ x.kind = "mutation" => x.tx \in Tx
BY DEF Commands, OperatorCommands, TransactionCommands

(* Taking a command leaves the ones behind it, one place further to the    *)
(* front.                                                                  *)
LEMMA CommandTaken ==
  ASSUME commands \in Seq(Commands), commands # <<>>
  PROVE  /\ Head(commands) \in Commands /\ Head(commands) = commands[1]
         /\ Tail(commands) \in Seq(Commands)
         /\ DOMAIN commands = 1..Len(commands) /\ Len(commands) \in Nat \ {0}
         /\ DOMAIN Tail(commands) = 1..(Len(commands) - 1)
         /\ \A i \in DOMAIN Tail(commands) : Tail(commands)[i] = commands[i + 1]
<1>1. /\ Len(commands) \in Nat \ {0}
      /\ DOMAIN commands = 1..Len(commands)
      /\ commands \in [1..Len(commands) -> Commands]
  BY EmptySeq, LenProperties
<1>2. /\ Tail(commands) \in Seq(Commands) /\ Len(Tail(commands)) = Len(commands) - 1
      /\ Head(commands) \in Commands
      /\ \A i \in 1..Len(Tail(commands)) : Tail(commands)[i] = commands[i + 1]
  BY HeadTailProperties
<1>3. DOMAIN Tail(commands) = 1..Len(Tail(commands))
  BY <1>2, LenProperties
<1>4. Head(commands) = commands[1]
  BY <1>1
<1> QED
  BY <1>1, <1>2, <1>3, <1>4

(* Taking back a mark leaves a count of marks for every signature. *)
LEMMA CompletedIsCount ==
  ASSUME pending \in [Tx -> Nat], NEW t
  PROVE  Completed(t) \in [Tx -> Nat]
<1>1. \A n \in Nat : (IF n > 0 THEN n - 1 ELSE 0) \in Nat
  OBVIOUS
<1> QED
  BY <1>1 DEF Completed

(* Closing a block keeps the types of the queues and empties neither into  *)
(* nowhere: no entry of the new queue was in neither of the old.           *)
LEMMA QueuesAfterClose ==
  ASSUME TypeOK, CloseBlock
  PROVE  /\ confirmation_queue' = {}
         /\ DOMAIN finalization_queue' \subseteq confirmation_queue \cup DOMAIN finalization_queue
         /\ \A t \in DOMAIN finalization_queue' :
              finalization_queue'[t] \in Unclosed..(FinalizationThreshold - 2)
BY DEF TypeOK, CloseBlock, Unclosed

(* Nor does a block that fails. *)
LEMMA QueuesAfterRefusal ==
  ASSUME TypeOK, BlockRefused
  PROVE  /\ confirmation_queue' = {}
         /\ DOMAIN finalization_queue' \subseteq confirmation_queue \cup DOMAIN finalization_queue
         /\ \A t \in DOMAIN finalization_queue' :
              finalization_queue'[t] \in Unclosed..(FinalizationThreshold - 2)
<1>1. CASE CloseBlock
  BY <1>1, QueuesAfterClose
<1>2. CASE RefuseBlock
  BY <1>2 DEF TypeOK, RefuseBlock, Unclosed
<1> QED
  BY <1>1, <1>2 DEF BlockRefused

-----------------------------------------------------------------------------
(* Types, with what the runloop and the clients hold; the runs check the   *)
(* parts of it they list.                                                  *)
LEMMA SafeInvInit == Init => SafeInv
<1> SUFFICES ASSUME Init PROVE SafeInv
  OBVIOUS
<1>1. /\ commands \in Seq(Commands)
      /\ clock_commands \in Seq(ClockCommands)
  BY EmptySeq DEF Init
<1>2. DOMAIN finalization_queue = {}
  BY DEF Init, NoEntries
<1> QED
  BY <1>1, <1>2 DEF Init, SafeInv, TypeOK, Handling, RanIsStored, SendersKnown

LEMMA SafeInvStep == SafeInv /\ [Next]_vars => SafeInv'
<1> SUFFICES ASSUME SafeInv, [Next]_vars PROVE SafeInv'
  OBVIOUS
<1> USE DEF SafeInv, Handling, RanIsStored, SendersKnown
<1> USE DEF loop, clock, chain, clients, history, counters
<1>1. ASSUME NEW c \in Client, NEW t \in Tx, MarkPending(c, t) PROVE SafeInv'
  BY <1>1 DEF MarkPending, Marked, TypeOK
<1>2. ASSUME NEW c \in Client, SendCommand(c) PROVE SafeInv'
  <2>1. commands' \in Seq(Commands)
    <3> DEFINE command == [kind |-> "transaction", client |-> c, tx |-> request[c]]
    <3>1. command \in Commands
      BY <1>2 DEF SendCommand, Commands, TransactionCommands
    <3> HIDE DEF command
    <3>2. Append(commands, command) \in Seq(Commands)
      BY <3>1, AppendProperties DEF TypeOK
    <3> QED
      BY <3>2, <1>2 DEF SendCommand, TypeOK, command
  <2>2. pending' \in [Tx -> Nat]
    BY <1>2, CompletedIsCount DEF SendCommand, TypeOK
  <2> QED
    BY <1>2, <2>1, <2>2 DEF SendCommand, TypeOK
<1>3. ASSUME NEW command \in OperatorCommands, Operate(command) PROVE SafeInv'
  <2>1. command \in Commands
    BY DEF Commands
  <2>2. commands' \in Seq(Commands)
    BY <1>3, <2>1, AppendProperties DEF Operate, TypeOK
  <2> QED
    BY <1>3, <2>2 DEF Operate, TypeOK
<1>4. CASE ResetNetwork
  BY <1>4 DEF ResetNetwork, NoEntries, TypeOK
<1>5. CASE Tick
  BY <1>5 DEF Tick, TypeOK
<1>6. CASE ObeyClockCommand
  <2>1. /\ Head(clock_commands) \in {"pause", "resume", "toggle"}
        /\ clock_commands' \in Seq(ClockCommands)
    BY <1>6, HeadTailProperties DEF ObeyClockCommand, TypeOK
  <2>2. clock_enabled' \in BOOLEAN
    BY <1>6, <2>1 DEF ObeyClockCommand, TypeOK
  <2> QED
    BY <1>6, <2>1, <2>2 DEF ObeyClockCommand, TypeOK
<1>7. CASE TakeTick
  BY <1>7 DEF TakeTick, Selecting, TypeOK
<1>8. CASE TakeToken
  BY <1>8 DEF TakeToken, Selecting, TypeOK
<1>9. CASE HandleCommand
  <2> commands \in Seq(Commands)
    BY DEF TypeOK
  <2>0. commands # <<>>
    BY <1>9 DEF HandleCommand, DropDuplicate, TakeTransaction, Mutate, SlotForward,
                UpdateBlockProductionMode, CommandClock, TimeTravel, Terminate, TakeCommand
  <2> DEFINE head == Head(commands)
  <2>h. /\ head \in Commands
        /\ Tail(commands) \in Seq(Commands)
    BY <2>0, CommandTaken
  <2>f. /\ head.kind = "transaction" =>
             head \in TransactionCommands /\ head.client \in Client /\ head.tx \in Tx
        /\ head.kind = "mode" => head.mode \in Modes
        /\ head.kind = "clock" => head.command \in ClockCommands
        /\ head.kind = "mutation" => head.tx \in Tx
    BY <2>h, CommandFields
  <2>1. CASE DropDuplicate
    BY <2>1, <2>h, <2>f, CompletedIsCount DEF DropDuplicate, TakeCommand, Selecting, Answer, TypeOK
  <2>2. CASE TakeTransaction
    BY <2>2, <2>h, <2>f DEF TakeTransaction, TakeCommand, Selecting, IsDuplicate, TypeOK
  <2>3. CASE Mutate
    <3>0. head.tx \in Tx /\ commands' = Tail(commands) /\ phase = "select"
      BY <2>3, <2>f DEF Mutate, TakeCommand, Selecting
    <3>t. ASSUME ~IsDuplicate(head.tx), ran' = [ran EXCEPT ![head.tx] = @ + 1],
                 transactions' = transactions \cup {head.tx}
          PROVE  ran' \in [Tx -> Nat] /\ RanIsStored'
      BY <3>0, <3>t DEF IsDuplicate, TypeOK
    <3>1. CASE MutationRuns(head.tx) \/ BundleNotRecorded(head.tx)
      <4>1. /\ transactions' = transactions \cup {head.tx}
            /\ confirmation_queue' = confirmation_queue \cup {head.tx}
            /\ ran' = [ran EXCEPT ![head.tx] = @ + 1]
            /\ finalization_queue' = finalization_queue
            /\ ~IsDuplicate(head.tx) /\ head.tx \notin transactions
            /\ unasked' \subseteq unasked \cup {head.tx}
            /\ phase' \in {"select", "block"}
        BY <3>0, <3>1 DEF MutationRuns, BundleNotRecorded, Stored, IsDuplicate, PhaseAfterTransaction
      <4>2. ran' \in [Tx -> Nat] /\ RanIsStored'
        BY <3>t, <4>1
      <4> QED
        BY <2>3, <2>h, <3>0, <4>1, <4>2 DEF Mutate, TypeOK
    <3>2. CASE MutationFails(head.tx)
      BY <2>3, <2>h, <3>0, <3>2 DEF Mutate, MutationFails, TypeOK
    <3>3. CASE BundleHalfCommitted(head.tx)
      <4>1. /\ transactions' = transactions \cup {head.tx}
            /\ UNCHANGED <<phase, confirmation_queue, finalization_queue, unasked>>
            /\ ~IsDuplicate(head.tx)
            /\ ran' = ran \/ ran' = [ran EXCEPT ![head.tx] = @ + 1]
        BY <3>3 DEF BundleHalfCommitted
      <4>2. ran' \in [Tx -> Nat] /\ RanIsStored'
        BY <3>t, <4>1 DEF TypeOK
      <4> QED
        BY <2>3, <2>h, <3>0, <4>1, <4>2 DEF Mutate, TypeOK
    <3> QED
      BY <2>3, <3>1, <3>2, <3>3 DEF Mutate
  <2>4. CASE SlotForward
    BY <2>4, <2>h DEF SlotForward, TakeCommand, Selecting, TypeOK
  <2>5. CASE UpdateBlockProductionMode
    BY <2>5, <2>h, <2>f DEF UpdateBlockProductionMode, TakeCommand, Selecting, ScheduledAtSwitch,
                            StillUnasked, HasPendingFinalization, TypeOK
  <2>6. CASE CommandClock
    <3>1. clock_commands' \in Seq(ClockCommands)
      BY <2>6, <2>f, AppendProperties DEF CommandClock, TakeCommand, TypeOK
    <3>2. clock_paused' \in BOOLEAN
      BY <2>6, <2>f DEF CommandClock, TakeCommand, TypeOK
    <3> QED
      BY <2>6, <2>h, <3>1, <3>2 DEF CommandClock, TakeCommand, Selecting, TypeOK
  <2>7. CASE TimeTravel
    <3>1. BlockRefused
      BY <2>7 DEF TimeTravel, BlockRefused
    <3>2. /\ confirmation_queue' = {}
          /\ DOMAIN finalization_queue' \subseteq transactions
          /\ \A t \in DOMAIN finalization_queue' :
               finalization_queue'[t] \in Unclosed..(FinalizationThreshold - 2)
      BY <3>1, QueuesAfterRefusal DEF TypeOK
    <3> QED
      BY <2>7, <2>h, <3>2 DEF TimeTravel, TakeCommand, Selecting, TypeOK
  <2>8. CASE Terminate
    BY <2>8, EmptySeq DEF Terminate, Stop, Selecting, TypeOK
  <2> QED
    BY <1>9, <2>1, <2>2, <2>3, <2>4, <2>5, <2>6, <2>7, <2>8 DEF HandleCommand
<1>10. CASE Execute
  <2>1. current.client \in Client /\ current.tx \in Tx /\ current.tx \notin transactions
    BY <1>10 DEF Execute, TransactionCommands
  <2> QED
    BY <1>10, <2>1 DEF Execute, Stored, Answer, TypeOK
<1>11. CASE Reject
  BY <1>11 DEF Reject, Answer, AnswerOfRejected, TypeOK
<1>12. CASE Complete
  <2>1. pending' \in [Tx -> Nat]
    BY <1>12, CompletedIsCount DEF Complete, TypeOK
  <2> QED
    BY <1>12, <2>1 DEF Complete, PhaseAfterTransaction, TypeOK
<1>13. CASE ProduceBlock
  <2>1. /\ confirmation_queue' = {}
        /\ DOMAIN finalization_queue' \subseteq transactions
        /\ \A t \in DOMAIN finalization_queue' :
             finalization_queue'[t] \in Unclosed..(FinalizationThreshold - 2)
    BY <1>13, QueuesAfterClose DEF ProduceBlock, TypeOK
  <2>2. token' \in BOOLEAN
    BY <1>13 DEF ProduceBlock, ScheduledAfterBlock, HasPendingFinalization, TypeOK
  <2> QED
    BY <1>13, <2>1, <2>2 DEF ProduceBlock, StillUnasked, TypeOK
<1>14. CASE BlockFails
  <2>1. /\ confirmation_queue' = {}
        /\ DOMAIN finalization_queue' \subseteq transactions
        /\ \A t \in DOMAIN finalization_queue' :
             finalization_queue'[t] \in Unclosed..(FinalizationThreshold - 2)
    BY <1>14, QueuesAfterRefusal DEF BlockFails, TypeOK
  <2> QED
    BY <1>14, <2>1, EmptySeq DEF BlockFails, Stop, TypeOK
<1>15. CASE UNCHANGED vars
  BY <1>15 DEF vars, TypeOK
<1> QED
  BY <1>1, <1>2, <1>3, <1>4, <1>5, <1>6, <1>7, <1>8, <1>9, <1>10, <1>11, <1>12, <1>13, <1>14,
     <1>15 DEF Next, Work

LEMMA SafeInvariant == Spec => []SafeInv
BY SafeInvInit, SafeInvStep, PTL DEF Spec

(* The types of the runloop, the clock thread, the clients and the chain.  *)
THEOREM RunloopTypeCorrect == Spec => []TypeOK
BY SafeInvariant, PTL DEF SafeInv

(* A transaction runs at most once on a chain, whoever sends it: only the  *)
(* runloop runs transactions, it looks for the stored signature first, and *)
(* nothing but itself stores one until it has run.                         *)
THEOREM TransactionsRunOnce == Spec => []RunsOnce
<1>1. SafeInv => RunsOnce
  BY DEF SafeInv, RanIsStored, RunsOnce
<1> QED
  BY <1>1, SafeInvariant, PTL

-----------------------------------------------------------------------------
(* Answers.  A queued or executing command is the one its client waits     *)
(* for, and the only one of that client.                                   *)
Awaited ==
  /\ \A i \in DOMAIN commands :
       commands[i].kind = "transaction" =>
         /\ stage[commands[i].client] = "sent"
         /\ request[commands[i].client] = commands[i].tx
  /\ \A i, j \in DOMAIN commands :
       /\ commands[i].kind = "transaction" /\ commands[j].kind = "transaction"
       /\ commands[i].client = commands[j].client
       => i = j
  /\ phase = "execute" =>
       /\ stage[current.client] = "sent" /\ request[current.client] = current.tx
       /\ \A i \in DOMAIN commands :
            commands[i].kind = "transaction" => commands[i].client # current.client

(* Taking a command leaves Awaited true of those behind it; if it is a     *)
(* transaction, none of them is of its client.                             *)
LEMMA AwaitedAfterTake ==
  ASSUME SafeInv, Awaited, commands # <<>>, commands' = Tail(commands),
         stage' = stage, request' = request, phase # "execute", phase' # "execute"
  PROVE  Awaited'
<1>1. commands \in Seq(Commands)
  BY DEF SafeInv, TypeOK
<1>2. /\ DOMAIN commands = 1..Len(commands) /\ Len(commands) \in Nat \ {0}
      /\ DOMAIN commands' = 1..(Len(commands) - 1)
      /\ \A i \in DOMAIN commands' : commands'[i] = commands[i + 1]
  BY <1>1, CommandTaken
<1>3. \A i \in DOMAIN commands' : i + 1 \in DOMAIN commands /\ i \in Int
  BY <1>2
<1> HIDE DEF SafeInv
<1> QED
  BY <1>2, <1>3 DEF Awaited

LEMMA OkInvInit == Init => Awaited /\ OkMeansProcessed
BY DEF Init, Awaited, OkMeansProcessed

LEMMA OkInvStep ==
  SafeInv /\ SafeInv' /\ Awaited /\ OkMeansProcessed /\ [Next]_vars
    => Awaited' /\ OkMeansProcessed'
<1> SUFFICES ASSUME SafeInv, SafeInv', Awaited, OkMeansProcessed, [Next]_vars
             PROVE  Awaited' /\ OkMeansProcessed'
  OBVIOUS
<1> USE DEF loop, clock, chain, clients, history, counters
<1> commands \in Seq(Commands) /\ stage \in [Client -> {"idle", "marked", "sent"}]
  BY DEF SafeInv, TypeOK
<1>t. \A i \in DOMAIN commands :
        commands[i].kind = "transaction" => commands[i].client \in Client /\ commands[i].tx \in Tx
  <2>1. \A i \in DOMAIN commands : commands[i] \in Commands
    BY ElementOfSeq, LenProperties
  <2> QED
    BY <2>1, CommandFields
<1>1. ASSUME NEW c \in Client, NEW t \in Tx, MarkPending(c, t) PROVE Awaited' /\ OkMeansProcessed'
  <2>1. Awaited'
    BY <1>1, <1>t DEF MarkPending, Awaited, SafeInv, TypeOK, Handling, TransactionCommands
  <2>2. OkMeansProcessed'
    BY <1>1 DEF MarkPending, OkMeansProcessed, SafeInv, TypeOK
  <2> QED
    BY <2>1, <2>2
<1>2. ASSUME NEW c \in Client, SendCommand(c) PROVE Awaited' /\ OkMeansProcessed'
  <2>1. CASE running
    <3> DEFINE command == [kind |-> "transaction", client |-> c, tx |-> request[c]]
    <3>1. command \in Commands
      BY <1>2 DEF SendCommand, Commands, TransactionCommands, SafeInv, SendersKnown
    <3>2. command.kind = "transaction" /\ command.client = c /\ command.tx = request[c]
      OBVIOUS
    <3>3. commands' = Append(commands, command) /\ stage' = [stage EXCEPT ![c] = "sent"]
      BY <1>2, <2>1 DEF SendCommand
    <3> HIDE DEF command
    <3>4. /\ DOMAIN commands = 1..Len(commands) /\ Len(commands) \in Nat
          /\ DOMAIN commands' = 1..(Len(commands) + 1)
          /\ \A i \in DOMAIN commands : commands'[i] = commands[i]
          /\ commands'[Len(commands) + 1] = command
      BY <3>1, <3>3, AppendProperties, LenProperties
    <3>5. \A i \in DOMAIN commands :
            commands[i].kind = "transaction" => commands[i].client # c
      BY <1>2 DEF SendCommand, Awaited
    <3>6. phase = "execute" => current.client # c /\ current.client \in Client
      BY <1>2 DEF SendCommand, Awaited, SafeInv, Handling, TransactionCommands
    <3>7. request' = request /\ phase' = phase /\ current' = current
      BY <1>2, <2>1 DEF SendCommand
    <3>8. DOMAIN commands' = DOMAIN commands \cup {Len(commands) + 1}
      BY <3>4
    <3>9. Awaited'
      BY <1>t, <3>2, <3>3, <3>4, <3>5, <3>6, <3>7, <3>8 DEF Awaited
    <3>10. OkMeansProcessed'
      BY <1>2, <2>1 DEF SendCommand, OkMeansProcessed
    <3> QED
      BY <3>9, <3>10
  <2>2. CASE ~running
    BY <1>2, <1>t, <2>2 DEF SendCommand, Awaited, OkMeansProcessed, SafeInv, TypeOK, Handling,
                            TransactionCommands
  <2> QED
    BY <2>1, <2>2
<1>3. ASSUME NEW command \in OperatorCommands, Operate(command)
      PROVE  Awaited' /\ OkMeansProcessed'
  <2>1. command \in Commands /\ command.kind # "transaction"
    BY DEF Commands, OperatorCommands
  <2>2. /\ DOMAIN commands = 1..Len(commands) /\ Len(commands) \in Nat
        /\ DOMAIN commands' = 1..(Len(commands) + 1)
        /\ \A i \in DOMAIN commands : commands'[i] = commands[i]
        /\ commands'[Len(commands) + 1] = command
    BY <1>3, <2>1, AppendProperties, LenProperties DEF Operate
  <2>3. DOMAIN commands' = DOMAIN commands \cup {Len(commands) + 1}
    BY <2>2
  <2>4. Awaited'
    BY <1>3, <2>1, <2>2, <2>3 DEF Operate, Awaited
  <2> QED
    BY <1>3, <2>4 DEF Operate, OkMeansProcessed
<1>4. CASE ResetNetwork
  BY <1>4 DEF ResetNetwork, Awaited, OkMeansProcessed, SafeInv, TypeOK
<1>5. CASE Tick \/ ObeyClockCommand \/ TakeTick \/ TakeToken \/ ProduceBlock \/ UNCHANGED vars
  BY <1>5 DEF Tick, ObeyClockCommand, TakeTick, TakeToken, Selecting, ProduceBlock, vars,
              Awaited, OkMeansProcessed
<1>6. CASE DropDuplicate
  <2> DEFINE head == Head(commands)
  <2>1. /\ commands # <<>> /\ commands' = Tail(commands) /\ head.kind = "transaction"
        /\ phase = "select" /\ phase' = "select"
        /\ head.tx \in transactions
        /\ stage' = [stage EXCEPT ![head.client] = "idle"]
        /\ answer' = [answer EXCEPT ![head.client] = "ok"]
        /\ request' = request /\ transactions' = transactions /\ resets' = resets
    BY <1>6 DEF DropDuplicate, TakeCommand, Selecting, IsDuplicate, Answer
  <2>2. /\ DOMAIN commands = 1..Len(commands) /\ Len(commands) \in Nat \ {0}
        /\ DOMAIN commands' = 1..(Len(commands) - 1)
        /\ \A i \in DOMAIN commands' : commands'[i] = commands[i + 1]
        /\ head = commands[1]
    BY <2>1, CommandTaken
  <2>3. \A i \in DOMAIN commands' : i + 1 \in DOMAIN commands /\ i \in Int /\ i + 1 # 1
    BY <2>2
  <2>4. 1 \in DOMAIN commands
    BY <2>2
  <2>5. Awaited'
    BY <1>t, <2>1, <2>2, <2>3, <2>4 DEF Awaited
  <2>6. request[head.client] = head.tx
    BY <2>1, <2>2, <2>4 DEF Awaited
  <2>7. \A c \in Client : answer'[c] = IF c = head.client THEN "ok" ELSE answer[c]
    BY <2>1 DEF SafeInv, TypeOK
  <2>8. OkMeansProcessed'
    BY <2>1, <2>6, <2>7 DEF OkMeansProcessed
  <2> QED
    BY <2>5, <2>8
<1>7. CASE TakeTransaction
  <2> DEFINE head == Head(commands)
  <2>1. /\ commands # <<>> /\ commands' = Tail(commands) /\ head.kind = "transaction"
        /\ phase' = "execute" /\ current' = head
        /\ stage' = stage /\ request' = request
    BY <1>7 DEF TakeTransaction, TakeCommand, Selecting
  <2>2. /\ DOMAIN commands = 1..Len(commands) /\ Len(commands) \in Nat \ {0}
        /\ DOMAIN commands' = 1..(Len(commands) - 1)
        /\ \A i \in DOMAIN commands' : commands'[i] = commands[i + 1]
        /\ head = commands[1]
    BY <2>1, CommandTaken
  <2>3. \A i \in DOMAIN commands' : i + 1 \in DOMAIN commands /\ i \in Int /\ i + 1 # 1
    BY <2>2
  <2>4. 1 \in DOMAIN commands
    BY <2>2
  <2>5. Awaited'
    BY <2>1, <2>2, <2>3, <2>4 DEF Awaited
  <2> QED
    BY <1>7, <2>5 DEF TakeTransaction, OkMeansProcessed
<1>8. CASE \/ Mutate \/ SlotForward \/ UpdateBlockProductionMode \/ CommandClock \/ TimeTravel
  <2>1. /\ commands # <<>> /\ commands' = Tail(commands)
        /\ stage' = stage /\ request' = request /\ answer' = answer /\ resets' = resets
        /\ phase # "execute" /\ phase' # "execute"
        /\ transactions \subseteq transactions'
    BY <1>8 DEF Mutate, MutationRuns, MutationFails, BundleNotRecorded, BundleHalfCommitted,
                SlotForward, UpdateBlockProductionMode, CommandClock, TimeTravel,
                TakeCommand, Selecting, Stored, PhaseAfterTransaction
  <2>2. Awaited'
    BY <2>1, AwaitedAfterTake
  <2> QED
    BY <2>1, <2>2 DEF OkMeansProcessed
<1>9. CASE Terminate \/ BlockFails
  <2>1. /\ commands' = <<>> /\ request' = request /\ transactions' = transactions
        /\ resets' = resets /\ phase' = "select"
        /\ \A c \in Client : answer'[c] = "error" \/ answer'[c] = answer[c]
    BY <1>9 DEF Terminate, BlockFails, Stop
  <2>2. DOMAIN commands' = {}
    BY <2>1
  <2> QED
    BY <2>1, <2>2 DEF Awaited, OkMeansProcessed
<1>10. CASE Execute
  <2>1. current.client \in Client /\ current.tx \in Tx
    BY <1>10 DEF Execute, SafeInv, Handling, TransactionCommands
  <2>2. Awaited'
    BY <1>10, <1>t, <2>1 DEF Execute, Stored, Answer, Awaited
  <2>3. OkMeansProcessed'
    BY <1>10, <2>1 DEF Execute, Stored, Answer, Awaited, OkMeansProcessed, SafeInv, TypeOK
  <2> QED
    BY <2>2, <2>3
<1>11. CASE Reject
  <2>1. current.client \in Client /\ current.tx \in Tx
    BY <1>11 DEF Reject, SafeInv, Handling, TransactionCommands
  <2>2. Awaited'
    BY <1>11, <1>t, <2>1 DEF Reject, Answer, Awaited
  <2>3. OkMeansProcessed'
    BY <1>11, <2>1 DEF Reject, Answer, AnswerOfRejected, OkMeansProcessed, SafeInv, TypeOK
  <2> QED
    BY <2>2, <2>3
<1>12. CASE Complete
  BY <1>12 DEF Complete, PhaseAfterTransaction, Awaited, OkMeansProcessed
<1> QED
  BY <1>1, <1>2, <1>3, <1>4, <1>5, <1>6, <1>7, <1>8, <1>9, <1>10, <1>11, <1>12
  DEF Next, HandleCommand, Work

(* A client told "ok" has its transaction stored: neither a command mixed  *)
(* up with another client's nor a duplicate is answered for a transaction  *)
(* that was refused.                                                       *)
THEOREM OkOnlyForProcessed == Spec => []OkMeansProcessed
<1>1. Spec => [](Awaited /\ OkMeansProcessed)
  BY OkInvInit, OkInvStep, SafeInvariant, PTL DEF Spec
<1> QED
  BY <1>1, PTL

-----------------------------------------------------------------------------
(* Follow-up blocks. *)
LEMMA FollowUpStep == SafeInv /\ FollowUpScheduled /\ [Next]_vars => FollowUpScheduled'
<1> SUFFICES ASSUME SafeInv, FollowUpScheduled, [Next]_vars PROVE FollowUpScheduled'
  OBVIOUS
<1> USE DEF loop, clock, chain, clients, history, counters, FollowUpScheduled, NotFinal, Selecting
<1>1. ASSUME NEW c \in Client, NEW t \in Tx, MarkPending(c, t) PROVE FollowUpScheduled'
  BY <1>1 DEF MarkPending
<1>2. ASSUME NEW c \in Client, SendCommand(c) PROVE FollowUpScheduled'
  BY <1>2 DEF SendCommand
<1>3. ASSUME NEW command \in OperatorCommands, Operate(command) PROVE FollowUpScheduled'
  BY <1>3 DEF Operate
<1>4. CASE ResetNetwork
  BY <1>4 DEF ResetNetwork, NoEntries
<1>5. CASE Tick \/ ObeyClockCommand \/ TakeTick \/ TakeToken \/ UNCHANGED vars
  BY <1>5 DEF Tick, ObeyClockCommand, TakeTick, TakeToken, vars
<1>6. CASE DropDuplicate \/ TakeTransaction \/ SlotForward \/ CommandClock
  BY <1>6 DEF DropDuplicate, TakeTransaction, SlotForward, CommandClock
<1>7. CASE Mutate
  BY <1>7 DEF Mutate, MutationRuns, MutationFails, BundleNotRecorded, BundleHalfCommitted,
              TakeCommand, PhaseAfterTransaction
<1>8. CASE UpdateBlockProductionMode
  BY <1>8 DEF UpdateBlockProductionMode, TakeCommand, ScheduledAtSwitch, HasPendingFinalization
<1>9. CASE TimeTravel
  <2>1. NotFinal' \subseteq NotFinal
    BY <1>9, QueuesAfterRefusal DEF TimeTravel, BlockRefused, SafeInv
  <2> QED
    BY <1>9, <2>1 DEF TimeTravel, TakeCommand
<1>10. CASE Terminate \/ BlockFails
  BY <1>10 DEF Terminate, BlockFails, Stop
<1>11. CASE ProduceBlock
  BY <1>11 DEF ProduceBlock, ScheduledAfterBlock, HasPendingFinalization
<1>12. CASE Execute \/ Reject \/ Complete
  BY <1>12 DEF Execute, Reject, Complete, PhaseAfterTransaction
<1> QED
  BY <1>1, <1>2, <1>3, <1>4, <1>5, <1>6, <1>7, <1>8, <1>9, <1>10, <1>11, <1>12
  DEF Next, HandleCommand, Work

(* In transaction mode a transaction short of finalization always has a    *)
(* block coming, whatever else the runloop is asked to do in between; only *)
(* a committed bundle whose record was refused may wait for the next one.  *)
THEOREM FollowUpAlwaysScheduled == Spec => []FollowUpScheduled
<1>1. Init => FollowUpScheduled
  BY DEF Init, FollowUpScheduled, NotFinal, NoEntries
<1> QED
  BY <1>1, FollowUpStep, SafeInvariant, PTL DEF Spec

-----------------------------------------------------------------------------
(* Pending counts.  How the number of queued sends of a signature changes  *)
(* as commands join and leave the queue.                                   *)
LEMMA SendsAreFinite ==
  ASSUME NEW queue \in Seq(Commands), NEW t
  PROVE  IsFiniteSet(SendsIn(queue, t)) /\ Cardinality(SendsIn(queue, t)) \in Nat
<1>1. DOMAIN queue = 1..Len(queue) /\ Len(queue) \in Nat
  BY LenProperties
<1>2. IsFiniteSet(DOMAIN queue)
  BY <1>1, FS_Interval
<1> QED
  BY <1>2, FS_Subset, FS_CardinalityType DEF SendsIn

LEMMA SendsAfterAppend ==
  ASSUME NEW queue \in Seq(Commands), NEW x \in Commands, NEW t
  PROVE  Cardinality(SendsIn(Append(queue, x), t)) =
           Cardinality(SendsIn(queue, t))
             + (IF x.kind = "transaction" /\ x.tx = t THEN 1 ELSE 0)
<1> DEFINE last == Len(queue) + 1
<1>1. /\ DOMAIN queue = 1..Len(queue) /\ Len(queue) \in Nat
      /\ DOMAIN Append(queue, x) = 1..last
      /\ \A i \in 1..Len(queue) : Append(queue, x)[i] = queue[i]
      /\ Append(queue, x)[last] = x
  BY AppendProperties, LenProperties
<1>2. last \notin SendsIn(queue, t)
  BY <1>1 DEF SendsIn
<1>3. SendsIn(Append(queue, x), t) =
        IF x.kind = "transaction" /\ x.tx = t THEN SendsIn(queue, t) \cup {last}
        ELSE SendsIn(queue, t)
  BY <1>1 DEF SendsIn
<1> HIDE DEF last
<1>4. Cardinality(SendsIn(queue, t) \cup {last}) = Cardinality(SendsIn(queue, t)) + 1
  BY <1>2, SendsAreFinite, FS_AddElement
<1>5. Cardinality(SendsIn(queue, t)) \in Nat
  BY SendsAreFinite
<1> QED
  BY <1>3, <1>4, <1>5

LEMMA SendsAfterTake ==
  ASSUME NEW queue \in Seq(Commands), queue # <<>>, NEW t
  PROVE  Cardinality(SendsIn(queue, t)) =
           Cardinality(SendsIn(Tail(queue), t))
             + (IF Head(queue).kind = "transaction" /\ Head(queue).tx = t THEN 1 ELSE 0)
<1>1. /\ DOMAIN queue = 1..Len(queue) /\ Len(queue) \in Nat \ {0}
      /\ DOMAIN Tail(queue) = 1..(Len(queue) - 1)
      /\ \A i \in DOMAIN Tail(queue) : Tail(queue)[i] = queue[i + 1]
      /\ Head(queue) = queue[1]
      /\ Tail(queue) \in Seq(Commands)
  BY EmptySeq, LenProperties, HeadTailProperties
<1> DEFINE behind == SendsIn(queue, t) \ {1}
           shift == [i \in SendsIn(Tail(queue), t) |-> i + 1]
<1>2. shift \in Bijection(SendsIn(Tail(queue), t), behind)
  <2>1. \A i \in SendsIn(Tail(queue), t) : i \in Int /\ i + 1 \in behind
    BY <1>1 DEF SendsIn
  <2>2. \A j \in behind : j - 1 \in SendsIn(Tail(queue), t) /\ shift[j - 1] = j
    <3> SUFFICES ASSUME NEW j \in behind
                 PROVE  j - 1 \in SendsIn(Tail(queue), t) /\ shift[j - 1] = j
      OBVIOUS
    <3>1. j \in 2..Len(queue) /\ queue[j].kind = "transaction" /\ queue[j].tx = t
      BY <1>1 DEF SendsIn
    <3>2. j - 1 \in DOMAIN Tail(queue) /\ Tail(queue)[j - 1] = queue[j]
      BY <1>1, <3>1
    <3>3. j - 1 \in SendsIn(Tail(queue), t)
      BY <3>1, <3>2 DEF SendsIn
    <3> QED
      BY <3>1, <3>3
  <2>3. shift \in [SendsIn(Tail(queue), t) -> behind]
    BY <2>1
  <2>4. \A i, j \in SendsIn(Tail(queue), t) : shift[i] = shift[j] => i = j
    BY <2>1
  <2> HIDE DEF shift, behind
  <2> QED
    BY <2>2, <2>3, <2>4 DEF Bijection, Injection, Surjection, IsInjective
<1>3. Cardinality(behind) = Cardinality(SendsIn(Tail(queue), t))
  <2>1. IsFiniteSet(SendsIn(Tail(queue), t))
    BY <1>1, SendsAreFinite
  <2> HIDE DEF behind, shift
  <2>2. ExistsBijection(SendsIn(Tail(queue), t), behind)
    BY <1>2 DEF ExistsBijection
  <2> QED
    BY <2>1, <2>2, FS_Bijection
<1>4. 1 \in SendsIn(queue, t) <=> Head(queue).kind = "transaction" /\ Head(queue).tx = t
  BY <1>1 DEF SendsIn
<1>5. /\ IsFiniteSet(SendsIn(queue, t)) /\ Cardinality(SendsIn(queue, t)) \in Nat
      /\ Cardinality(SendsIn(Tail(queue), t)) \in Nat
  BY <1>1, SendsAreFinite
<1>6. Cardinality(behind) = IF 1 \in SendsIn(queue, t) THEN Cardinality(SendsIn(queue, t)) - 1
                            ELSE Cardinality(SendsIn(queue, t))
  BY <1>5, FS_RemoveElement
<1> HIDE DEF behind
<1> QED
  BY <1>3, <1>4, <1>5, <1>6

(* How the number of clients between mark and send changes with one of     *)
(* them.                                                                   *)
LEMMA MarkingIsFinite ==
  ASSUME NEW t
  PROVE  IsFiniteSet(Marking(t)) /\ Cardinality(Marking(t)) \in Nat
BY FS_Subset, FS_CardinalityType DEF Marking

LEMMA MarkingAfterMark ==
  ASSUME SafeInv, NEW c \in Client, NEW t \in Tx, NEW u \in Tx, MarkPending(c, t)
  PROVE  Cardinality(Marking(u)') = Cardinality(Marking(u)) + (IF u = t THEN 1 ELSE 0)
<1>1. Marking(u)' = IF u = t THEN Marking(u) \cup {c} ELSE Marking(u)
  BY DEF MarkPending, Marking, SafeInv, TypeOK
<1>2. c \notin Marking(u)
  BY DEF MarkPending, Marking
<1>3. /\ Cardinality(Marking(u) \cup {c}) = Cardinality(Marking(u)) + 1
      /\ Cardinality(Marking(u)) \in Nat
  BY <1>2, MarkingIsFinite, FS_AddElement
<1> QED
  BY <1>1, <1>3

LEMMA MarkingAfterSend ==
  ASSUME SafeInv, NEW c \in Client, NEW u \in Tx, SendCommand(c)
  PROVE  Cardinality(Marking(u)) =
           Cardinality(Marking(u)') + (IF u = request[c] THEN 1 ELSE 0)
<1>1. Marking(u)' = IF u = request[c] THEN Marking(u) \ {c} ELSE Marking(u)
  BY DEF SendCommand, Marking, SafeInv, TypeOK
<1>2. u = request[c] => c \in Marking(u)
  BY DEF SendCommand, Marking
<1>3. /\ c \in Marking(u) => Cardinality(Marking(u) \ {c}) = Cardinality(Marking(u)) - 1
      /\ Cardinality(Marking(u)) \in Nat
  BY MarkingIsFinite, FS_RemoveElement
<1> QED
  BY <1>1, <1>2, <1>3

(* Nothing changes for the signatures when only a client that is no longer *)
(* marking one changes its stage.                                          *)
LEMMA MarkingUnchanged ==
  ASSUME SafeInv, request' = request, NEW c \in Client, stage[c] = "sent",
         stage' = [stage EXCEPT ![c] = "idle"], NEW u
  PROVE  Marking(u)' = Marking(u)
BY DEF Marking, SafeInv, TypeOK

LEMMA PendingStep ==
  SafeInv /\ Awaited /\ PendingCountsSends /\ [Next]_vars => PendingCountsSends'
<1> SUFFICES ASSUME SafeInv, Awaited, PendingCountsSends, [Next]_vars, running',
                    NEW u \in Tx
             PROVE  pending'[u] = Cardinality(Marking(u)') + Cardinality(SendsIn(commands', u))
                                    + (IF Processing(u)' THEN 1 ELSE 0)
  BY DEF PendingCountsSends
<1> USE DEF loop, clock, chain, clients, history, counters
<1> DEFINE Goal == pending'[u] = Cardinality(Marking(u)') + Cardinality(SendsIn(commands', u))
                                   + (IF Processing(u)' THEN 1 ELSE 0)
<1>0. running
  BY DEF Next, HandleCommand, Work, MarkPending, SendCommand, Operate, ResetNetwork, Tick,
         ObeyClockCommand, TakeTick, TakeToken, DropDuplicate, TakeTransaction, Mutate,
         SlotForward, UpdateBlockProductionMode, CommandClock, TimeTravel, Terminate, Stop,
         Execute, Reject, Complete, ProduceBlock, BlockFails, TakeCommand, Selecting, vars
<1>p. pending[u] = Cardinality(Marking(u)) + Cardinality(SendsIn(commands, u))
                     + (IF Processing(u) THEN 1 ELSE 0)
  BY <1>0 DEF PendingCountsSends
<1>n. /\ Cardinality(Marking(u)) \in Nat /\ Cardinality(Marking(u)') \in Nat
      /\ Cardinality(SendsIn(commands, u)) \in Nat
      /\ commands \in Seq(Commands) /\ pending \in [Tx -> Nat]
  <2>1. Marking(u)' \in SUBSET Client
    BY DEF Marking
  <2>2. IsFiniteSet(Marking(u)') /\ Cardinality(Marking(u)') \in Nat
    BY <2>1, FS_Subset, FS_CardinalityType
  <2>3. commands \in Seq(Commands) /\ pending \in [Tx -> Nat]
    BY DEF SafeInv, TypeOK
  <2> QED
    BY <2>2, <2>3, MarkingIsFinite, SendsAreFinite
<1>1. ASSUME NEW c \in Client, NEW t \in Tx, MarkPending(c, t) PROVE Goal
  <2>1. pending'[u] = pending[u] + (IF u = t THEN 1 ELSE 0)
    BY <1>1, <1>n DEF MarkPending, Marked
  <2>2. commands' = commands /\ Processing(u)' = Processing(u)
    BY <1>1 DEF MarkPending, Processing
  <2> QED
    BY <1>1, <1>p, <1>n, <2>1, <2>2, MarkingAfterMark
<1>2. ASSUME NEW c \in Client, SendCommand(c) PROVE Goal
  <2> DEFINE command == [kind |-> "transaction", client |-> c, tx |-> request[c]]
  <2>1. command \in Commands /\ command.kind = "transaction" /\ command.tx = request[c]
    BY <1>2 DEF SendCommand, Commands, TransactionCommands, SafeInv, SendersKnown
  <2>2. commands' = Append(commands, command) /\ pending' = pending
    BY <1>2, <1>0 DEF SendCommand
  <2> HIDE DEF command
  <2>3. Cardinality(SendsIn(commands', u)) =
          Cardinality(SendsIn(commands, u)) + (IF u = request[c] THEN 1 ELSE 0)
    BY <1>n, <2>1, <2>2, SendsAfterAppend
  <2>4. Processing(u)' = Processing(u)
    BY <1>2 DEF SendCommand, Processing
  <2> QED
    BY <1>2, <1>p, <1>n, <2>2, <2>3, <2>4, MarkingAfterSend
<1>3. ASSUME NEW command \in OperatorCommands, Operate(command) PROVE Goal
  <2>1. command \in Commands /\ command.kind # "transaction"
    BY DEF Commands, OperatorCommands
  <2>2. Cardinality(SendsIn(commands', u)) = Cardinality(SendsIn(commands, u))
    BY <1>3, <1>n, <2>1, SendsAfterAppend DEF Operate
  <2>3. Marking(u)' = Marking(u) /\ Processing(u)' = Processing(u) /\ pending' = pending
    BY <1>3 DEF Operate, Marking, Processing
  <2> QED
    BY <1>p, <2>2, <2>3
<1>4. CASE \/ ResetNetwork \/ Tick \/ ObeyClockCommand \/ TakeTick \/ TakeToken
           \/ ProduceBlock \/ UNCHANGED vars
  <2>1. /\ Marking(u)' = Marking(u) /\ Processing(u)' = Processing(u) /\ pending' = pending
        /\ commands' = commands
    BY <1>4 DEF ResetNetwork, Tick, ObeyClockCommand, TakeTick, TakeToken, Selecting,
                ProduceBlock, vars, Marking, Processing
  <2> QED
    BY <1>p, <2>1
<1>5. CASE BlockFails \/ Terminate
  BY <1>5 DEF BlockFails, Terminate, Stop
<1>6. CASE DropDuplicate \/ TakeTransaction
  <2> DEFINE head == Head(commands)
  <2>1. /\ commands # <<>> /\ commands' = Tail(commands) /\ head.kind = "transaction"
        /\ phase = "select"
    BY <1>6 DEF DropDuplicate, TakeTransaction, TakeCommand, Selecting
  <2>2. /\ Cardinality(SendsIn(commands, u)) =
             Cardinality(SendsIn(commands', u)) + (IF u = head.tx THEN 1 ELSE 0)
        /\ Cardinality(SendsIn(commands', u)) \in Nat
        /\ ~Processing(u)
    BY <1>n, <2>1, SendsAfterTake, SendsAreFinite, HeadTailProperties DEF Processing
  <2>3. CASE DropDuplicate
    <3>1. /\ 1 \in DOMAIN commands /\ head = commands[1]
          /\ head.client \in Client /\ head.tx \in Tx
      BY <1>n, <2>1, CommandTaken, CommandFields
    <3>2. stage[head.client] = "sent"
      BY <2>1, <3>1 DEF Awaited
    <3>3. Marking(u)' = Marking(u)
      BY <2>3, <3>1, <3>2, MarkingUnchanged DEF DropDuplicate, Answer
    <3>4. pending'[u] = IF u = head.tx /\ pending[u] > 0 THEN pending[u] - 1 ELSE pending[u]
      BY <2>3, <1>n DEF DropDuplicate, Completed
    <3>5. ~Processing(u)'
      BY <2>1, <2>3 DEF DropDuplicate, Processing
    <3> QED
      BY <1>p, <1>n, <2>2, <3>3, <3>4, <3>5
  <2>4. CASE TakeTransaction
    <3>1. /\ Marking(u)' = Marking(u) /\ pending' = pending
          /\ Processing(u)' <=> u = head.tx
      BY <2>4 DEF TakeTransaction, Marking, Processing
    <3> QED
      BY <1>p, <1>n, <2>2, <3>1
  <2> QED
    BY <1>6, <2>3, <2>4
<1>7. CASE Mutate \/ SlotForward \/ UpdateBlockProductionMode \/ CommandClock \/ TimeTravel
  <2>1. /\ commands # <<>> /\ commands' = Tail(commands) /\ Head(commands).kind # "transaction"
        /\ Marking(u)' = Marking(u) /\ pending' = pending
        /\ ~Processing(u) /\ ~Processing(u)'
    BY <1>7 DEF Mutate, MutationRuns, MutationFails, BundleNotRecorded, BundleHalfCommitted,
                SlotForward, UpdateBlockProductionMode, CommandClock, TimeTravel,
                TakeCommand, Selecting, PhaseAfterTransaction, Marking, Processing
  <2>2. Tail(commands) \in Seq(Commands)
    BY <1>n, <2>1, HeadTailProperties
  <2>3. /\ Cardinality(SendsIn(commands, u)) = Cardinality(SendsIn(Tail(commands), u)) + 0
        /\ Cardinality(SendsIn(Tail(commands), u)) \in Nat
    BY <1>n, <2>1, <2>2, SendsAfterTake, SendsAreFinite
  <2> QED
    BY <1>p, <2>1, <2>3
<1>8. CASE Execute \/ Reject
  <2>1. /\ current.client \in Client /\ stage[current.client] = "sent"
    BY <1>8 DEF Execute, Reject, SafeInv, Handling, Awaited, TransactionCommands
  <2>2. Marking(u)' = Marking(u)
    BY <1>8, <2>1, MarkingUnchanged DEF Execute, Reject, Answer
  <2>3. commands' = commands /\ pending' = pending /\ Processing(u)' = Processing(u)
    BY <1>8 DEF Execute, Reject, Processing
  <2> QED
    BY <1>p, <2>2, <2>3
<1>9. CASE Complete
  <2>1. /\ Marking(u)' = Marking(u) /\ commands' = commands /\ ~Processing(u)'
        /\ Processing(u) <=> u = current.tx
    BY <1>9 DEF Complete, PhaseAfterTransaction, Marking, Processing
  <2>2. pending'[u] = IF u = current.tx /\ pending[u] > 0 THEN pending[u] - 1 ELSE pending[u]
    BY <1>9, <1>n DEF Complete, Completed
  <2> QED
    BY <1>p, <1>n, <2>1, <2>2
<1> QED
  BY <1>1, <1>2, <1>3, <1>4, <1>5, <1>6, <1>7, <1>8, <1>9 DEF Next, HandleCommand, Work

(* A signature is pending exactly while a send of it is on its way, so a   *)
(* lookup asks the remote for it neither too early nor, in the end, never. *)
THEOREM PendingIsExact == Spec => []PendingCountsSends
<1>1. Init => PendingCountsSends
  <2> SUFFICES ASSUME Init, NEW t \in Tx
               PROVE  /\ pending[t] = 0 /\ Marking(t) = {} /\ SendsIn(commands, t) = {}
                      /\ ~Processing(t)
    BY FS_EmptySet DEF PendingCountsSends
  <2> QED
    BY DEF Init, Marking, SendsIn, Processing
<1>2. Spec => []Awaited
  <2>1. Spec => [](Awaited /\ OkMeansProcessed)
    BY OkInvInit, OkInvStep, SafeInvariant, PTL DEF Spec
  <2> QED
    BY <2>1, PTL
<1> QED
  BY <1>1, <1>2, PendingStep, SafeInvariant, PTL DEF Spec
=============================================================================
