------------------------- MODULE SubscriptionsProofs -------------------------
(***************************************************************************)
(* Theorems about module Subscriptions, for any transactions, subscribers  *)
(* and thresholds: its types, that nobody waits for a status that was      *)
(* already reached, that a status is sent no sooner than it is reached,    *)
(* and that logs and blocks are sent of the same transactions.             *)
(***************************************************************************)
EXTENDS Subscriptions, SlotProofs

USE SubscriptionsAssumption

-----------------------------------------------------------------------------
(* The inductive invariant *)

(* A registered subscription has a waiting task that was sent nothing yet, *)
(* only a task that has ended told its client, and a task has a level.     *)
TasksInStep ==
  \A s \in Sub :
    /\ s \in registered => tasks[s].at = "waiting" /\ channel[s] = <<>>
    /\ tasks[s].at # "waiting" => channel[s] = <<>>
    /\ tasks[s].at # "done" => told[s] = 0
    /\ tasks[s].at # "idle" => tasks[s].level \in Levels

(* No landing lies ahead of the open slot; while a travel is between its   *)
(* two accesses nothing runs, so that nothing is processed in the slot it  *)
(* is about to leave.                                                      *)
TravelInStep ==
  /\ \A l \in DOMAIN landings : l <= open
  /\ travelling # 0 =>
       travelling >= open /\ running = None /\ confirmation_queue = {}

(* A transaction that no stop of the process left behind waits in a queue, *)
(* under the slot that processed it, or is final.                          *)
QueuedOrFinal ==
  /\ \A t \in DOMAIN transactions \ carried :
       \/ t \in confirmation_queue /\ transactions[t] = open
       \/ [slot |-> transactions[t], tx |-> t] \in finalization_queue
       \/ transactions[t] <= FinalizedAt(landings, open)
  /\ \A q \in finalization_queue : q.slot < open

Inv == TypeOK /\ TasksInStep /\ TravelInStep /\ QueuedOrFinal /\ NobodyWaitsForThePast

-----------------------------------------------------------------------------
(* Sequences of at most one element *)

LEMMA AppendToEmpty == \A x : Append(<<>>, x) = <<x>>
  OBVIOUS

LEMMA TailOfOne == \A x : Tail(<<x>>) = <<>>
  OBVIOUS

-----------------------------------------------------------------------------
(* What the SVM sends keeps the tasks in step. *)
LEMMA NotifyInStep ==
  ASSUME TypeOK, TasksInStep,
         NEW hit, hit \subseteq registered,
         \A s \in hit : tasks[s].level \in Levels,
         channel' = [s \in Sub |-> IF s \in hit THEN Append(channel[s], tasks[s].level)
                                   ELSE channel[s]],
         registered' = registered \ hit,
         UNCHANGED <<tasks, told>>
  PROVE  /\ TasksInStep'
         /\ registered' \subseteq Sub
         /\ channel' \in [Sub -> {<<>>} \cup {<<l>> : l \in Levels}]
<1>1. \A s \in hit : channel[s] = <<>> /\ tasks[s].at = "waiting"
  BY DEF TypeOK, TasksInStep
<1>2. \A s \in Sub : s \in hit => channel'[s] = <<tasks[s].level>>
  BY <1>1, AppendToEmpty
<1>3. \A s \in Sub : s \notin hit => channel'[s] = channel[s]
  OBVIOUS
<1>4. channel' \in [Sub -> {<<>>} \cup {<<l>> : l \in Levels}]
  <2>1. \A s \in Sub : channel'[s] \in {<<>>} \cup {<<l>> : l \in Levels}
    BY <1>2, <1>3 DEF TypeOK
  <2> QED
    BY <2>1
<1>5. TasksInStep'
  BY <1>1, <1>3 DEF TasksInStep, TypeOK
<1> QED
  BY <1>4, <1>5 DEF TypeOK

LEMMA NotifySignaturesInStep ==
  ASSUME TypeOK, TasksInStep, UNCHANGED <<tasks, told>>,
         NEW level \in Levels, NEW ts, NotifySignatures(level, ts)
  PROVE  /\ TasksInStep'
         /\ registered' \subseteq Sub
         /\ channel' \in [Sub -> {<<>>} \cup {<<l>> : l \in Levels}]
<1> DEFINE hit == {s \in registered : tasks[s].tx \in ts /\ tasks[s].level = level}
<1>1. \A s \in hit : tasks[s].level \in Levels
  OBVIOUS
<1>2. channel' = [s \in Sub |-> IF s \in hit THEN Append(channel[s], tasks[s].level)
                                ELSE channel[s]]
  BY DEF NotifySignatures, SentTo
<1>3. registered' = registered \ hit
  BY DEF NotifySignatures
<1>4. hit \subseteq registered
  OBVIOUS
<1> HIDE DEF hit
<1> QED
  BY <1>1, <1>2, <1>3, <1>4, NotifyInStep

LEMMA NotifyLevelsInStep ==
  ASSUME TypeOK, TasksInStep, UNCHANGED <<tasks, told>>, NotifyLevels
  PROVE  /\ TasksInStep'
         /\ registered' \subseteq Sub
         /\ channel' \in [Sub -> {<<>>} \cup {<<l>> : l \in Levels}]
<1> DEFINE Hit(s) ==
             \/ tasks[s].level = "confirmed" /\ tasks[s].tx \in confirmation_queue
             \/ tasks[s].level = "finalized" /\ tasks[s].tx \in Final
           hit == {s \in registered : Hit(s)}
<1>1. \A s \in hit : tasks[s].level \in Levels
  BY DEF Levels
<1>2. channel' = [s \in Sub |-> IF s \in hit THEN Append(channel[s], tasks[s].level)
                                ELSE channel[s]]
  BY DEF NotifyLevels
<1>3. registered' = registered \ hit
  BY DEF NotifyLevels
<1>4. hit \subseteq registered
  OBVIOUS
<1> HIDE DEF hit
<1> QED
  BY <1>1, <1>2, <1>3, <1>4, NotifyInStep

(* A task that goes on keeps its transaction and its level. *)
TaskType == [at : Places, tx : Tx \cup {None}, level : Levels \cup {None}]

LEMMA TaskGoesOn ==
  ASSUME tasks \in [Sub -> TaskType], NEW s \in Sub, NEW place \in Places, GoesTo(s, place)
  PROVE  /\ tasks' \in [Sub -> TaskType]
         /\ tasks'[s].at = place
         /\ \A r \in Sub : tasks'[r].tx = tasks[r].tx /\ tasks'[r].level = tasks[r].level
         /\ \A r \in Sub \ {s} : tasks'[r] = tasks[r]
BY DEF GoesTo, TaskType

(* A task that did not wait, or was sent a level, may tell its client. *)
LEMMA NotifyClientInStep ==
  ASSUME TypeOK, TasksInStep, NEW s \in Sub, tasks[s].at \notin {"idle", "done"}, s \notin registered,
         NotifyClient(s), UNCHANGED registered,
         channel' \in [Sub -> {<<>>} \cup {<<l>> : l \in Levels}],
         channel'[s] = <<>>, \A r \in Sub \ {s} : channel'[r] = channel[r]
  PROVE  /\ TasksInStep'
         /\ tasks' \in [Sub -> TaskType] /\ told' \in [Sub -> 0..1] /\ active' \subseteq Sub
         /\ \A r \in registered : tasks'[r] = tasks[r]
<1>1. tasks \in [Sub -> TaskType] /\ told \in [Sub -> 0..1] /\ active \subseteq Sub
  BY DEF TypeOK, TaskType
<1>2. "done" \in Places /\ GoesTo(s, "done")
  BY DEF Places, NotifyClient
<1>3. /\ tasks' \in [Sub -> TaskType] /\ tasks'[s].at = "done"
      /\ \A r \in Sub \ {s} : tasks'[r] = tasks[r]
  BY <1>1, <1>2, TaskGoesOn
<1>4. told[s] = 0
  BY DEF TasksInStep
<1>5. told' \in [Sub -> 0..1] /\ \A r \in Sub \ {s} : told'[r] = told[r]
  BY <1>1, <1>4 DEF NotifyClient
<1>6. tasks'[s].level \in Levels
  BY <1>1, <1>2, TaskGoesOn DEF TasksInStep
<1>7. TasksInStep'
  BY <1>3, <1>5, <1>6 DEF TasksInStep, TypeOK
<1> QED
  BY <1>1, <1>3, <1>5, <1>7 DEF NotifyClient, TypeOK

(* A task that goes on without telling its client. *)
LEMMA GoesOnInStep ==
  ASSUME TypeOK, TasksInStep, NEW s \in Sub, tasks[s].at \notin {"idle", "waiting", "done"},
         NEW place \in Places, GoesTo(s, place), UNCHANGED <<channel, told>>,
         \/ UNCHANGED registered
         \/ place = "waiting" /\ registered' = registered \cup {s}
  PROVE  /\ TasksInStep'
         /\ tasks' \in [Sub -> TaskType] /\ registered' \subseteq Sub
         /\ \A r \in Sub : tasks'[r].tx = tasks[r].tx /\ tasks'[r].level = tasks[r].level
<1>1. tasks \in [Sub -> TaskType] /\ registered \subseteq Sub
  BY DEF TypeOK, TaskType
<1>2. /\ tasks' \in [Sub -> TaskType] /\ tasks'[s].at = place
      /\ \A r \in Sub : tasks'[r].tx = tasks[r].tx /\ tasks'[r].level = tasks[r].level
      /\ \A r \in Sub \ {s} : tasks'[r] = tasks[r]
  BY <1>1, TaskGoesOn
<1>3. s \notin registered /\ channel[s] = <<>> /\ told[s] = 0
  BY DEF TasksInStep
<1>4. channel' = channel /\ told' = told /\ s \in Sub
  OBVIOUS
<1>5. /\ s \in registered' => tasks'[s].at = "waiting"
      /\ tasks[s].level \in Levels
  BY <1>2, <1>3 DEF TasksInStep
<1>6. \A r \in Sub \ {s} : r \in registered' => r \in registered
  OBVIOUS
<1>7. TasksInStep'
  <2> SUFFICES ASSUME NEW r \in Sub
               PROVE  /\ r \in registered' => tasks'[r].at = "waiting" /\ channel'[r] = <<>>
                      /\ tasks'[r].at # "waiting" => channel'[r] = <<>>
                      /\ tasks'[r].at # "done" => told'[r] = 0
                      /\ tasks'[r].at # "idle" => tasks'[r].level \in Levels
    BY DEF TasksInStep
  <2>1. CASE r = s
    BY <1>2, <1>3, <1>4, <1>5, <2>1
  <2>2. CASE r # s
    BY <1>2, <1>4, <1>6, <2>2 DEF TasksInStep
  <2> QED
    BY <2>1, <2>2
<1> QED
  BY <1>1, <1>2, <1>7

-----------------------------------------------------------------------------
(* Types *)

LEMMA FinalizedAtType ==
  ASSUME NEW ls, NEW slot \in Nat
  PROVE  FinalizedAt(ls, slot) \in 0..SatSub(slot, 1)
<1>1. SatSub(slot, 1) \in Nat
  BY DEF SatSub
<1> QED
  BY <1>1, BlocksBackType DEF FinalizedAt

Safe == TypeOK /\ TasksInStep /\ TravelInStep

LEMMA SafeInit == Init => Safe
<1> SUFFICES ASSUME Init PROVE Safe
  OBVIOUS
<1>1. TypeOK
  BY DEF Init, TypeOK, EmptyMap, NoTask, Nothing, Places
<1>2. TasksInStep
  BY DEF Init, TasksInStep, NoTask
<1>3. TravelInStep
  BY DEF Init, TravelInStep, EmptyMap
<1> QED
  BY <1>1, <1>2, <1>3 DEF Safe

LEMMA SafeStored ==
  ASSUME Safe, NEW t \in Tx, Stored(t), running # None \/ travelling = 0,
         running' = None \/ UNCHANGED running,
         UNCHANGED <<open, landings, finalization_queue, travelling, clients, logged,
                     block_sent, history, upsets>>
  PROVE  Safe'
<1>1. /\ TasksInStep' /\ registered' \subseteq Sub
      /\ channel' \in [Sub -> {<<>>} \cup {<<l>> : l \in Levels}]
  BY NotifySignaturesInStep DEF Safe, Stored, clients, Levels
<1>2. TypeOK'
  BY <1>1 DEF Safe, Stored, TypeOK, Put, clients, history
<1>3. TravelInStep'
  BY DEF Safe, TravelInStep
<1> QED
  BY <1>1, <1>2, <1>3 DEF Safe

LEMMA SafeCloseBlock ==
  ASSUME Safe, CloseBlock, travelling = 0,
         \/ UNCHANGED <<travelling, upsets>>
         \/ travelling' \in Nat /\ travelling' > open + 1 /\ upsets' \in Nat
  PROVE  Safe'
<1>1. /\ TasksInStep' /\ registered' \subseteq Sub
      /\ channel' \in [Sub -> {<<>>} \cup {<<l>> : l \in Levels}]
  BY NotifyLevelsInStep DEF Safe, CloseBlock, clients
<1>2. Confirmed \subseteq [slot : Nat, tx : Tx] /\ Final \subseteq Tx
  BY DEF Safe, TypeOK, Confirmed, Final
<1>3. NewRoots \subseteq Nat
  <2>1. ASSUME NEW from \in Nat, NEW to \in Nat
        PROVE  BlocksWithin(landings, from, to) \subseteq Nat
    BY DEF BlocksWithin
  <2>2. NewRoot \in Nat
    BY FinalizedAtType DEF NewRoot, Safe, TypeOK
  <2>3. ParentSlot(landings, open) \in Nat
    BY DEF ParentSlot, SatSub, Safe, TypeOK
  <2>4. BlocksBack(landings, ParentSlot(landings, open), FinalizationThreshold - 1) \in Nat
    BY <2>3, BlocksBackType
  <2> QED
    BY <2>1, <2>2, <2>4 DEF NewRoots
<1>4. /\ logged' \in [confirmed : SUBSET Tx, finalized : SUBSET Tx]
      /\ block_sent' \in [confirmed : SUBSET Nat, finalized : SUBSET Nat]
  BY <1>2, <1>3 DEF CloseBlock, Safe, TypeOK
<1>5. TypeOK'
  BY <1>1, <1>2, <1>4 DEF CloseBlock, Safe, TypeOK, clients, history
<1>6. TravelInStep'
  BY DEF CloseBlock, Safe, TravelInStep, TypeOK
<1> QED
  BY <1>1, <1>5, <1>6 DEF Safe

(* A restart and a reset leave a chain of typed landings behind an open    *)
(* slot past its genesis.                                                  *)
LEMMA SafeStep == Safe /\ [Next]_vars => Safe'
<1> SUFFICES ASSUME Safe, [Next]_vars PROVE Safe'
  OBVIOUS
<1> USE DEF Safe
<1>1. ASSUME NEW t \in Tx, Receive(t) PROVE Safe'
  <2>1. /\ TasksInStep' /\ registered' \subseteq Sub
        /\ channel' \in [Sub -> {<<>>} \cup {<<l>> : l \in Levels}]
    BY <1>1, NotifySignaturesInStep DEF Receive, clients, Levels
  <2>2. TypeOK'
    BY <1>1, <2>1 DEF Receive, TypeOK, clients, history
  <2>3. TravelInStep'
    BY <1>1 DEF Receive, TravelInStep
  <2> QED
    BY <2>1, <2>2, <2>3
<1>2. ASSUME NEW t \in Tx, CommitBundle(t) PROVE Safe'
  BY <1>2, SafeStored DEF CommitBundle
<1>3. CASE Execute
  <2>1. running \in Tx
    BY <1>3 DEF Execute, TypeOK
  <2> QED
    BY <1>3, <2>1, SafeStored DEF Execute
<1>4. CASE RejectInPreflight
  <2>1. /\ TasksInStep' /\ registered' \subseteq Sub
        /\ channel' \in [Sub -> {<<>>} \cup {<<l>> : l \in Levels}]
    BY <1>4, NotifySignaturesInStep DEF RejectInPreflight, clients, Levels
  <2>2. TypeOK'
    BY <1>4, <2>1 DEF RejectInPreflight, TypeOK, clients, history, Upset
  <2>3. TravelInStep'
    BY <1>4 DEF RejectInPreflight, TravelInStep
  <2> QED
    BY <2>1, <2>2, <2>3
<1>5. CASE FetchFails
  BY <1>5 DEF FetchFails, TypeOK, TasksInStep, TravelInStep, Upset, clients, svm_subs, history
<1>6. CASE CloseSlot
  BY <1>6, SafeCloseBlock DEF CloseSlot
<1>7. ASSUME NEW slot \in InitialSlot..MaxSlot, CloseBeforeTravel(slot) PROVE Safe'
  <2>1. slot \in Nat /\ upsets' \in Nat
    BY <1>7 DEF CloseBeforeTravel, Upset, TypeOK
  <2> QED
    BY <1>7, <2>1, SafeCloseBlock DEF CloseBeforeTravel
<1>8. CASE Land
  <2>1. BlockAtOrBefore(landings, open - 1) \in Nat
    BY BlockAtOrBeforeType DEF TypeOK
  <2>2. TypeOK'
    BY <1>8, <2>1 DEF Land, TypeOK, TravelInStep, Put, Drop, clients, svm_subs, history
  <2>3. TravelInStep'
    BY <1>8 DEF Land, TypeOK, TravelInStep, Put, Drop
  <2>4. TasksInStep'
    BY <1>8 DEF Land, TasksInStep, clients, svm_subs
  <2> QED
    BY <2>2, <2>3, <2>4
<1>9. CASE ResetNetwork
  <2>1. TypeOK'
    <3>1. /\ open' = InitialSlot /\ landings' = EmptyMap /\ transactions' = EmptyMap
          /\ upsets' \in Nat /\ logged' = Nothing /\ block_sent' = Nothing
      BY <1>9 DEF ResetNetwork, TypeOK, Upset
    <3>2. DOMAIN landings' = {} /\ DOMAIN transactions' = {}
      BY <3>1 DEF EmptyMap
    <3>3. /\ logged' \in [confirmed : SUBSET Tx, finalized : SUBSET Tx]
          /\ block_sent' \in [confirmed : SUBSET Nat, finalized : SUBSET Nat]
      BY <3>1 DEF Nothing
    <3>4. open' \in Nat /\ InitialSlot <= open'
      BY <3>1 DEF SubscriptionsAssumption
    <3>5. UNCHANGED <<running, travelling, tasks, active, told, unsubscribed, registered, channel>>
      BY <1>9 DEF ResetNetwork, clients
    <3>6. /\ confirmation_queue' = {} /\ finalization_queue' = {} /\ carried' = {}
          /\ undisturbed' \in BOOLEAN
      BY <1>9 DEF ResetNetwork
    <3> QED
      BY <3>1, <3>2, <3>3, <3>4, <3>5, <3>6 DEF TypeOK
  <2>2. TravelInStep'
    BY <1>9 DEF ResetNetwork, TravelInStep, TypeOK, EmptyMap
  <2>3. TasksInStep'
    BY <1>9 DEF ResetNetwork, TasksInStep, clients
  <2> QED
    BY <2>1, <2>2, <2>3
<1>10. CASE Restart
  <2>1. /\ tasks' = [s \in Sub |-> NoTask] /\ told' = [s \in Sub |-> 0]
        /\ channel' = [s \in Sub |-> <<>>] /\ logged' = Nothing /\ block_sent' = Nothing
    BY <1>10 DEF Restart
  <2>4. /\ tasks' \in [Sub -> TaskType] /\ told' \in [Sub -> 0..1]
        /\ channel' \in [Sub -> {<<>>} \cup {<<l>> : l \in Levels}]
        /\ logged' \in [confirmed : SUBSET Tx, finalized : SUBSET Tx]
        /\ block_sent' \in [confirmed : SUBSET Nat, finalized : SUBSET Nat]
    BY <2>1 DEF TaskType, NoTask, Nothing, Places
  <2>5. open' \in Nat /\ InitialSlot <= open' /\ upsets' \in Nat
    BY <1>10 DEF Restart, Upset, TypeOK
  <2>6. TypeOK'
    BY <1>10, <2>4, <2>5 DEF Restart, TypeOK, TaskType
  <2>2. TravelInStep'
    BY <1>10 DEF Restart, TravelInStep
  <2>3. TasksInStep'
    BY <1>10 DEF Restart, TasksInStep, NoTask
  <2> QED
    BY <2>2, <2>3, <2>6
<1>11. ASSUME NEW s \in Sub, NEW w \in Wanted[s], Subscribe(s, w[1], w[2]) PROVE Safe'
  <2>1. w[1] \in Tx /\ w[2] \in Levels
    BY DEF SubscriptionsAssumption
  <2>2. TypeOK'
    BY <1>11, <2>1 DEF Subscribe, TypeOK, Places, chain, svm_subs, history
  <2>3. s \notin registered /\ channel[s] = <<>> /\ told[s] = 0
    <3>1. tasks[s].at = "idle"
      BY <1>11 DEF Subscribe, NoTask
    <3> QED
      BY <3>1 DEF TasksInStep
  <2>6. /\ tasks'[s] = [at |-> "spawned", tx |-> w[1], level |-> w[2]]
        /\ \A r \in Sub \ {s} : tasks'[r] = tasks[r]
    <3>1. tasks' = [tasks EXCEPT ![s] = [at |-> "spawned", tx |-> w[1], level |-> w[2]]]
      BY <1>11 DEF Subscribe
    <3>2. tasks \in [Sub -> TaskType]
      BY DEF TypeOK, TaskType
    <3> QED
      BY <3>1, <3>2
  <2>7. UNCHANGED <<registered, channel, told>>
    BY <1>11 DEF Subscribe, svm_subs
  <2>4. TasksInStep'
    BY <2>1, <2>3, <2>6, <2>7 DEF TasksInStep
  <2>5. TravelInStep'
    BY <1>11 DEF Subscribe, TravelInStep, chain
  <2> QED
    BY <2>2, <2>4, <2>5
<1>12. ASSUME NEW s \in Sub, TaskStep(s) PROVE Safe'
  <2>1. TravelInStep'
    BY <1>12 DEF TaskStep, InsertSink, LookLocally, RemoteAnswers, CheckOrRegister, Deliver,
                 TravelInStep, chain
  <2> DEFINE TypesOfTasks ==
               /\ TasksInStep' /\ tasks' \in [Sub -> TaskType] /\ told' \in [Sub -> 0..1]
               /\ active' \subseteq Sub /\ registered' \subseteq Sub
               /\ channel' \in [Sub -> {<<>>} \cup {<<l>> : l \in Levels}]
  <2>2. ASSUME tasks[s].at \notin {"idle", "waiting", "done"}, NEW place \in Places,
               GoesTo(s, place), UNCHANGED <<channel, told>>, active' \subseteq Sub,
               UNCHANGED registered \/ (place = "waiting" /\ registered' = registered \cup {s})
        PROVE  TypesOfTasks
    BY <2>2, GoesOnInStep DEF TypeOK
  <2>3. ASSUME tasks[s].at \notin {"idle", "waiting", "done"}, NotifyClient(s),
               UNCHANGED <<channel, registered>>
        PROVE  TypesOfTasks
    <3>1. s \notin registered /\ channel[s] = <<>>
      BY <2>3 DEF TasksInStep
    <3> QED
      BY <2>3, <3>1, NotifyClientInStep DEF TypeOK
  <2>4. ASSUME InsertSink(s) PROVE TypesOfTasks
    BY <2>4, <2>2 DEF InsertSink, TypeOK, Places, svm_subs
  <2>5. ASSUME LookLocally(s) PROVE TypesOfTasks
    BY <2>5, <2>2, <2>3 DEF LookLocally, GoesOn, TypeOK, Places, svm_subs
  <2>6. ASSUME RemoteAnswers(s) PROVE TypesOfTasks
    BY <2>6, <2>2, <2>3 DEF RemoteAnswers, GoesOn, TypeOK, Places, svm_subs
  <2>7. ASSUME CheckOrRegister(s) PROVE TypesOfTasks
    BY <2>7, <2>2, <2>3 DEF CheckOrRegister, GoesOn, TypeOK, Places
  <2>8. ASSUME Deliver(s) PROVE TypesOfTasks
    <3>1. s \notin registered
      BY <2>8 DEF Deliver, TasksInStep
    <3>5. channel[s] # <<>>
      BY <2>8 DEF Deliver
    <3>6. channel[s] \in {<<>>} \cup {<<l>> : l \in Levels}
      BY Zenon DEF TypeOK
    <3>2. PICK l \in Levels : channel[s] = <<l>>
      BY <3>5, <3>6, Zenon
    <3>3. /\ channel' \in [Sub -> {<<>>} \cup {<<k>> : k \in Levels}]
          /\ channel'[s] = <<>> /\ \A r \in Sub \ {s} : channel'[r] = channel[r]
      BY <2>8, <3>2, TailOfOne DEF Deliver, TypeOK
    <3> QED
      BY <2>8, <3>1, <3>3, NotifyClientInStep DEF Deliver, TypeOK
  <2>9. TypesOfTasks
    BY <1>12, <2>4, <2>5, <2>6, <2>7, <2>8 DEF TaskStep
  <2>10. /\ UNCHANGED <<chain, unsubscribed, logged, block_sent, history, upsets>>
    BY <1>12 DEF TaskStep, InsertSink, LookLocally, RemoteAnswers, CheckOrRegister, Deliver,
                 svm_subs
  <2>11. TypeOK'
    BY <2>9, <2>10 DEF TypeOK, TaskType, chain, history
  <2> QED
    BY <2>1, <2>9, <2>11
<1>13. ASSUME NEW s \in Sub, Unsubscribe(s) PROVE Safe'
  BY <1>13 DEF Unsubscribe, TypeOK, TasksInStep, TravelInStep, chain, svm_subs, history
<1>14. CASE UNCHANGED vars
  BY <1>14 DEF vars, TypeOK, TasksInStep, TravelInStep, chain, clients, svm_subs, history
<1> QED
  BY <1>1, <1>2, <1>3, <1>4, <1>5, <1>6, <1>7, <1>8, <1>9, <1>10, <1>11, <1>12, <1>13, <1>14
     DEF Next

(* Every variable keeps its type, and no task is sent two levels.          *)
THEOREM SubscriptionsTypeCorrect == Spec => []TypeOK
<1>1. Safe => TypeOK
  BY DEF Safe
<1> QED
  BY SafeInit, SafeStep, <1>1, PTL DEF Spec

-----------------------------------------------------------------------------
(* The race between a status and its subscribers *)

(* What it means for a stored transaction to have reached a level. *)
LEMMA ReachedMeans ==
  ASSUME NEW t
  PROVE  /\ Reached(t, "finalized")
              <=> t \in DOMAIN transactions /\ transactions[t] <= FinalizedAt(landings, open)
         /\ Reached(t, "confirmed")
              <=> /\ t \in DOMAIN transactions
                  /\ transactions[t] <= FinalizedAt(landings, open) \/ transactions[t] < open
         /\ Reached(t, "processed") <=> t \in DOMAIN transactions
BY DEF Reached, Satisfies, Status

LEMMA ReachedMeansNext ==
  ASSUME NEW t
  PROVE  /\ Reached(t, "finalized")'
              <=> (t \in DOMAIN transactions /\ transactions[t] <= FinalizedAt(landings, open))'
         /\ Reached(t, "confirmed")'
              <=> (/\ t \in DOMAIN transactions
                   /\ transactions[t] <= FinalizedAt(landings, open) \/ transactions[t] < open)'
         /\ Reached(t, "processed")' <=> (t \in DOMAIN transactions)'
BY DEF Reached, Satisfies, Status

(* The finalized slot lies behind the open one, a closed block never moves *)
(* it back, and a travel leaves it where it is.                            *)
LEMMA FinalizedBehind ==
  ASSUME Safe
  PROVE  FinalizedAt(landings, open) \in Nat /\ FinalizedAt(landings, open) < open
<1>1. open \in Nat /\ open > 0
  BY DEF Safe, TypeOK, SubscriptionsAssumption
<1> QED
  BY <1>1, FinalizedAtType DEF SatSub

LEMMA FinalizedGrows ==
  ASSUME Safe
  PROVE  FinalizedAt(landings, open) <= NewRoot
<1>1. open \in Nat /\ open > 0 /\ open - 1 \in Nat /\ FinalizationThreshold - 1 \in Nat
  BY DEF Safe, TypeOK, SubscriptionsAssumption
<1>2. HoldsBlock(landings, open)
  <2>1. \A l \in DOMAIN landings : ~(l > open)
    BY DEF Safe, TypeOK, TravelInStep
  <2> QED
    BY <1>1, <2>1, PastLandings DEF HoldsBlock
<1>3. SatSub(open, 1) = open - 1 /\ SatSub(open + 1, 1) = (open - 1) + 1
  BY <1>1 DEF SatSub
<1>4. (open - 1) + 1 = open
  BY <1>1
<1>5. BlocksBack(landings, open - 1, FinalizationThreshold - 1)
        <= BlocksBack(landings, (open - 1) + 1, FinalizationThreshold - 1)
  BY <1>1, <1>2, <1>4, BlocksBackGrows
<1> QED
  BY <1>3, <1>5 DEF FinalizedAt, NewRoot

LEMMA FinalizedStays ==
  ASSUME Safe, Land
  PROVE  FinalizedAt(landings, open)' = FinalizedAt(landings, open)
<1> DEFINE landing == [parent |-> BlockAtOrBefore(landings, open - 1)]
<1>1. /\ open \in Nat \ {0} /\ travelling \in Nat /\ open <= travelling
      /\ Landings(landings, open)
  BY DEF Safe, TypeOK, TravelInStep, Land, Landings, SubscriptionsAssumption
<1>2. landings' = AfterTravel(landings, open, travelling, landing) /\ open' = travelling
  BY DEF Land, AfterTravel
<1>3. landing.parent = BlockAtOrBefore(landings, open - 1)
  OBVIOUS
<1> HIDE DEF landing
<1>4. BlocksBack(landings', travelling - 1, FinalizationThreshold - 1)
        = BlocksBack(landings, open - 1, FinalizationThreshold - 1)
  BY <1>1, <1>2, <1>3, TravelKeepsDepth
<1>5. SatSub(open, 1) = open - 1 /\ SatSub(travelling, 1) = travelling - 1
  BY <1>1 DEF SatSub
<1> QED
  BY <1>2, <1>4, <1>5 DEF FinalizedAt

(* Between a status and the notice of it nothing can slip in: who is       *)
(* registered for a level after a step, and was before, was not sent it;   *)
(* who registers in the step has just been told that it is not reached.    *)
LEMMA InvStored ==
  ASSUME Inv, NEW t \in Tx, Stored(t), ~(travelling # 0),
         UNCHANGED <<open, landings, finalization_queue, carried, tasks>>
  PROVE  QueuedOrFinal' /\ NobodyWaitsForThePast'
<1> USE DEF Inv
<1>1. /\ DOMAIN transactions' = DOMAIN transactions \cup {t}
      /\ transactions'[t] = open
      /\ \A r \in DOMAIN transactions \ {t} : transactions'[r] = transactions[r]
      /\ confirmation_queue' = confirmation_queue \cup {t}
  BY DEF Stored, Put
<1>2. QueuedOrFinal'
  BY <1>1 DEF QueuedOrFinal, FinalizedAt
<1>3. NobodyWaitsForThePast'
  <2> SUFFICES ASSUME NEW s \in registered', tasks[s].level # "received",
                      tasks[s].tx \notin carried,
                      Reached(tasks[s].tx, tasks[s].level)'
               PROVE  FALSE
    BY DEF NobodyWaitsForThePast
  <2>1. /\ s \in registered
        /\ ~(tasks[s].tx = t /\ tasks[s].level = "processed")
    BY DEF Stored, NotifySignatures
  <2>2. ~Reached(tasks[s].tx, tasks[s].level)
    BY <2>1 DEF NobodyWaitsForThePast
  <2>3. tasks[s].level \in {"processed", "confirmed", "finalized"}
    BY <2>1 DEF TasksInStep, TypeOK, Levels
  <2>4. tasks[s].tx = t
    BY <1>1, <2>2, <2>3, ReachedMeans, ReachedMeansNext DEF FinalizedAt
  <2>5. FinalizedAt(landings, open) < open /\ open \in Nat /\ FinalizedAt(landings, open) \in Nat
    BY FinalizedBehind DEF Safe, TypeOK
  <2> QED
    BY <1>1, <2>1, <2>3, <2>4, <2>5, ReachedMeansNext DEF FinalizedAt
<1> QED
  BY <1>2, <1>3

LEMMA InvCloseBlock ==
  ASSUME Inv, CloseBlock
  PROVE  QueuedOrFinal' /\ NobodyWaitsForThePast'
<1> USE DEF Inv
<1>1. /\ open \in Nat /\ open' = open + 1
      /\ FinalizedAt(landings, open)' = NewRoot
      /\ NewRoot \in Nat
      /\ FinalizedAt(landings, open) \in Nat
      /\ FinalizedAt(landings, open) < open
      /\ FinalizedAt(landings, open) <= NewRoot
  <2>1. open \in Nat /\ open + 1 \in Nat
    BY DEF TypeOK
  <2>2. FinalizedAt(landings, open + 1) \in Nat
    BY <2>1, FinalizedAtType
  <2> QED
    BY <2>1, <2>2, FinalizedBehind, FinalizedGrows DEF CloseBlock, NewRoot, FinalizedAt, Safe
<1>2. /\ transactions' = transactions /\ carried' = carried /\ tasks' = tasks
      /\ confirmation_queue' = {}
      /\ finalization_queue' = {q \in Confirmed : q.slot > NewRoot}
  BY DEF CloseBlock, clients, history
<1>3. \A r \in DOMAIN transactions : transactions[r] \in Nat
  BY DEF TypeOK
<1>4. \A r \in DOMAIN transactions \ carried :
        \/ [slot |-> transactions[r], tx |-> r] \in Confirmed
        \/ transactions[r] <= FinalizedAt(landings, open)
  BY DEF QueuedOrFinal, Confirmed
<1>5. QueuedOrFinal'
  <2>1. \A q \in Confirmed : q.slot \in Nat /\ q.slot < open + 1
    BY <1>1 DEF Confirmed, QueuedOrFinal, TypeOK
  <2>2. \A r \in DOMAIN transactions \ carried :
          \/ [slot |-> transactions[r], tx |-> r] \in finalization_queue'
          \/ transactions[r] <= NewRoot
    BY <1>1, <1>2, <1>3, <1>4
  <2> QED
    BY <1>1, <1>2, <2>1, <2>2 DEF QueuedOrFinal
<1>6. NobodyWaitsForThePast'
  <2> SUFFICES ASSUME NEW s \in registered', tasks[s].level # "received",
                      tasks[s].tx \notin carried,
                      Reached(tasks[s].tx, tasks[s].level)'
               PROVE  FALSE
    BY <1>2 DEF NobodyWaitsForThePast
  <2> DEFINE t == tasks[s].tx
  <2>1. /\ s \in registered
        /\ tasks[s].level = "confirmed" => t \notin confirmation_queue
        /\ tasks[s].level = "finalized" => t \notin Final
    BY DEF CloseBlock, NotifyLevels
  <2>2. ~Reached(t, tasks[s].level)
    BY <2>1 DEF NobodyWaitsForThePast
  <2>3. tasks[s].level \in {"processed", "confirmed", "finalized"}
    BY <2>1 DEF TasksInStep, TypeOK, Levels
  <2>4. t \in DOMAIN transactions \ carried
    BY <1>2, <2>3, ReachedMeansNext
  <2>5. CASE tasks[s].level = "processed"
    BY <2>2, <2>4, <2>5, ReachedMeans
  <2>6. CASE tasks[s].level = "finalized"
    <3>1. transactions[t] <= NewRoot /\ ~(transactions[t] <= FinalizedAt(landings, open))
      BY <1>1, <1>2, <2>2, <2>4, <2>6, ReachedMeans, ReachedMeansNext
    <3>2. [slot |-> transactions[t], tx |-> t] \in Confirmed
      BY <1>4, <2>4, <3>1
    <3>3. t \in Final
      BY <3>1, <3>2 DEF Final
    <3> QED
      BY <2>1, <2>6, <3>3
  <2>7. CASE tasks[s].level = "confirmed"
    <3>1. ~(transactions[t] <= FinalizedAt(landings, open)) /\ ~(transactions[t] < open)
      BY <2>2, <2>4, <2>7, ReachedMeans
    <3>2. t \in confirmation_queue
      BY <2>4, <3>1 DEF QueuedOrFinal
    <3> QED
      BY <2>1, <2>7, <3>2
  <2> QED
    BY <2>3, <2>5, <2>6, <2>7
<1> QED
  BY <1>5, <1>6

LEMMA InvLand ==
  ASSUME Inv, Land
  PROVE  QueuedOrFinal' /\ NobodyWaitsForThePast'
<1> USE DEF Inv
<1>1. /\ FinalizedAt(landings, open)' = FinalizedAt(landings, open)
      /\ open \in Nat /\ open' \in Nat /\ open <= open'
      /\ confirmation_queue = {} /\ confirmation_queue' = {}
      /\ UNCHANGED <<transactions, finalization_queue, carried, tasks, registered>>
  BY FinalizedStays DEF Land, TravelInStep, TypeOK, Safe, clients, svm_subs, history
<1>2. QueuedOrFinal'
  <2>1. \A q \in finalization_queue : q.slot \in Nat
    BY DEF TypeOK
  <2> QED
    BY <1>1, <2>1 DEF QueuedOrFinal
<1>3. NobodyWaitsForThePast'
  <2> SUFFICES ASSUME NEW s \in registered, tasks[s].level # "received",
                      tasks[s].tx \notin carried,
                      Reached(tasks[s].tx, tasks[s].level)'
               PROVE  FALSE
    BY <1>1 DEF NobodyWaitsForThePast
  <2> DEFINE t == tasks[s].tx
  <2>1. ~Reached(t, tasks[s].level)
    BY DEF NobodyWaitsForThePast
  <2>2. tasks[s].level \in {"processed", "confirmed", "finalized"}
    BY DEF TasksInStep, TypeOK, Levels
  <2>3. t \in DOMAIN transactions \ carried
    BY <1>1, <2>2, ReachedMeansNext
  <2>4. CASE tasks[s].level = "processed"
    BY <2>1, <2>3, <2>4, ReachedMeans
  <2>5. CASE tasks[s].level = "finalized"
    BY <1>1, <2>1, <2>3, <2>5, ReachedMeans, ReachedMeansNext
  <2>6. CASE tasks[s].level = "confirmed"
    <3>1. ~(transactions[t] <= FinalizedAt(landings, open)) /\ ~(transactions[t] < open)
      BY <2>1, <2>3, <2>6, ReachedMeans
    <3>2. [slot |-> transactions[t], tx |-> t] \in finalization_queue
      BY <1>1, <2>3, <3>1 DEF QueuedOrFinal
    <3> QED
      BY <3>1, <3>2 DEF QueuedOrFinal
  <2> QED
    BY <2>2, <2>4, <2>5, <2>6
<1> QED
  BY <1>2, <1>3

(* A step that leaves the chain alone, registers nobody whom it did not    *)
(* check, and keeps what the registered ones wait for.                     *)
LEMMA InvChainStays ==
  ASSUME Inv, UNCHANGED <<open, landings, transactions, confirmation_queue,
                          finalization_queue, carried>>,
         \A s \in registered' :
           \/ /\ s \in registered
              /\ tasks'[s].tx = tasks[s].tx /\ tasks'[s].level = tasks[s].level
           \/ ~Reached(tasks'[s].tx, tasks'[s].level)
  PROVE  QueuedOrFinal' /\ NobodyWaitsForThePast'
<1>1. QueuedOrFinal'
  BY DEF Inv, QueuedOrFinal, FinalizedAt
<1>2. \A t, level : Reached(t, level)' <=> Reached(t, level)
  BY DEF Reached, Satisfies, Status, FinalizedAt
<1>3. NobodyWaitsForThePast'
  BY <1>2 DEF Inv, NobodyWaitsForThePast
<1> QED
  BY <1>1, <1>3

LEMMA InvInit == Init => Inv
<1> SUFFICES ASSUME Init PROVE Inv
  OBVIOUS
<1>1. QueuedOrFinal /\ NobodyWaitsForThePast
  BY DEF Init, QueuedOrFinal, NobodyWaitsForThePast, EmptyMap
<1> QED
  BY <1>1, SafeInit DEF Inv, Safe

LEMMA InvStep == Inv /\ [Next]_vars => Inv'
<1> SUFFICES ASSUME Inv, [Next]_vars PROVE Inv'
  OBVIOUS
<1> USE DEF Inv
<1>0. Safe'
  BY SafeStep DEF Safe
<1> SUFFICES QueuedOrFinal' /\ NobodyWaitsForThePast'
  BY <1>0 DEF Safe
<1>1. ASSUME NEW t \in Tx, Receive(t) PROVE QueuedOrFinal' /\ NobodyWaitsForThePast'
  BY <1>1, InvChainStays DEF Receive, NotifySignatures, clients, history
<1>2. ASSUME NEW t \in Tx, CommitBundle(t) PROVE QueuedOrFinal' /\ NobodyWaitsForThePast'
  BY <1>2, InvStored DEF CommitBundle, clients, history
<1>3. CASE Execute
  <2>1. running \in Tx /\ ~(travelling # 0)
    BY <1>3 DEF Execute, TypeOK, TravelInStep
  <2> QED
    BY <1>3, <2>1, InvStored DEF Execute, clients, history
<1>4. CASE RejectInPreflight
  BY <1>4, InvChainStays DEF RejectInPreflight, NotifySignatures, clients, history
<1>5. CASE FetchFails
  BY <1>5, InvChainStays DEF FetchFails, clients, svm_subs, history
<1>6. CASE CloseSlot
  BY <1>6, InvCloseBlock DEF CloseSlot
<1>7. ASSUME NEW slot \in InitialSlot..MaxSlot, CloseBeforeTravel(slot)
      PROVE  QueuedOrFinal' /\ NobodyWaitsForThePast'
  BY <1>7, InvCloseBlock DEF CloseBeforeTravel
<1>8. CASE Land
  BY <1>8, InvLand
<1>9. CASE ResetNetwork
  <2>1. DOMAIN transactions' = {} /\ finalization_queue' = {}
    BY <1>9 DEF ResetNetwork, EmptyMap
  <2> QED
    BY <2>1 DEF QueuedOrFinal, NobodyWaitsForThePast, Reached
<1>10. CASE Restart
  BY <1>10 DEF Restart, QueuedOrFinal, NobodyWaitsForThePast
<1>11. ASSUME NEW s \in Sub, NEW w \in Wanted[s], Subscribe(s, w[1], w[2])
       PROVE  QueuedOrFinal' /\ NobodyWaitsForThePast'
  <2>1. s \notin registered
    BY <1>11 DEF Subscribe, TasksInStep, NoTask
  <2>2. \A r \in registered : tasks'[r] = tasks[r]
    BY <1>11, <2>1 DEF Subscribe, TypeOK
  <2> QED
    BY <1>11, <2>2, InvChainStays DEF Subscribe, chain, svm_subs, history
<1>12. ASSUME NEW s \in Sub, TaskStep(s) PROVE QueuedOrFinal' /\ NobodyWaitsForThePast'
  <2>1. UNCHANGED <<open, landings, transactions, confirmation_queue, finalization_queue,
                    carried>>
    BY <1>12 DEF TaskStep, InsertSink, LookLocally, RemoteAnswers, CheckOrRegister, Deliver,
                 chain, history
  <2>2. \E place \in Places : GoesTo(s, place)
    BY <1>12 DEF TaskStep, InsertSink, LookLocally, RemoteAnswers, CheckOrRegister, Deliver,
                 NotifyClient, GoesOn, Places
  <2>3. \A r \in Sub : tasks'[r].tx = tasks[r].tx /\ tasks'[r].level = tasks[r].level
    BY <2>2, TaskGoesOn DEF TypeOK, TaskType
  <2>4. \/ registered' = registered
        \/ /\ registered' = registered \cup {s}
           /\ ~Reached(tasks[s].tx, tasks[s].level)
    BY <1>12 DEF TaskStep, InsertSink, LookLocally, RemoteAnswers, CheckOrRegister, Deliver,
                 svm_subs
  <2>5. registered \subseteq Sub
    BY DEF TypeOK
  <2> QED
    BY <2>1, <2>3, <2>4, <2>5, InvChainStays
<1>13. ASSUME NEW s \in Sub, Unsubscribe(s) PROVE QueuedOrFinal' /\ NobodyWaitsForThePast'
  BY <1>13, InvChainStays DEF Unsubscribe, chain, svm_subs, history
<1>14. CASE UNCHANGED vars
  BY <1>14, InvChainStays DEF vars, chain, clients, svm_subs, history
<1> QED
  BY <1>1, <1>2, <1>3, <1>4, <1>5, <1>6, <1>7, <1>8, <1>9, <1>10, <1>11, <1>12, <1>13, <1>14
     DEF Next

(* However the lookups, the remote's answers, blocks, travels, resets and  *)
(* stops interleave, nobody is left registered for a status that was       *)
(* reached: get_local_signature_status_or_subscribe closes the race, for   *)
(* any number of subscribers, transactions and slots.                      *)
THEOREM NobodyWaits == Spec => []NobodyWaitsForThePast
<1>1. Inv => NobodyWaitsForThePast
  BY DEF Inv
<1> QED
  BY InvInit, InvStep, <1>1, PTL DEF Spec
-----------------------------------------------------------------------------
(* The logs and the blocks that were sent *)

(* A transaction in a queue ran in the slot the queue has it under, in a   *)
(* block that is not final, and its logs were not sent at the level it     *)
(* waits for.                                                              *)
WaitingInv ==
  /\ running # None => running \notin DOMAIN transactions
  /\ \A t \in DOMAIN transactions : transactions[t] >= InitialSlot
  /\ \A t \in confirmation_queue :
       /\ t \in DOMAIN transactions /\ transactions[t] = open
       /\ t \notin logged.confirmed /\ t \notin logged.finalized
  /\ \A q \in finalization_queue :
       /\ q.tx \in DOMAIN transactions /\ transactions[q.tx] = q.slot
       /\ q.tx \notin logged.finalized
       /\ FinalizedAt(landings, open) < q.slot /\ HoldsBlock(landings, q.slot)

(* Only closed blocks are sent as confirmed and final ones as finalized;   *)
(* a transaction of this process whose logs were not sent at a level is in *)
(* a queue before it, and otherwise its block was sent too.                *)
SentInv ==
  /\ logged.confirmed \subseteq DOMAIN transactions
  /\ logged.finalized \subseteq DOMAIN transactions
  /\ \A s \in block_sent.confirmed : s < open
  /\ \A s \in block_sent.finalized : s <= FinalizedAt(landings, open)
  /\ \A t \in DOMAIN transactions \ carried :
       /\ \/ t \in confirmation_queue
          \/ t \in logged.confirmed /\ transactions[t] \in block_sent.confirmed
       /\ \/ t \in confirmation_queue
          \/ [slot |-> transactions[t], tx |-> t] \in finalization_queue
          \/ t \in logged.finalized /\ transactions[t] \in block_sent.finalized

LogsInv == Inv /\ Ordered(landings) /\ WaitingInv /\ SentInv

Kept == Ordered(landings)' /\ WaitingInv' /\ SentInv'

LEMMA LogsStored ==
  ASSUME LogsInv, NEW t \in Tx, Stored(t), t \notin DOMAIN transactions, running' = None,
         UNCHANGED <<open, landings, finalization_queue, carried, logged, block_sent>>
  PROVE  Kept
<1>1. /\ DOMAIN transactions' = DOMAIN transactions \cup {t}
      /\ transactions'[t] = open
      /\ \A r \in DOMAIN transactions : transactions'[r] = transactions[r]
      /\ confirmation_queue' = confirmation_queue \cup {t}
  BY DEF Stored, Put
<1>2. open >= InitialSlot /\ open \in Nat
  BY DEF LogsInv, Inv, TypeOK
<1>3. t \notin logged.confirmed /\ t \notin logged.finalized
  BY DEF LogsInv, SentInv
<1>4. FinalizedAt(landings, open)' = FinalizedAt(landings, open)
  BY DEF FinalizedAt
<1>5. Ordered(landings)'
  BY DEF LogsInv
<1>6. WaitingInv'
  BY <1>1, <1>2, <1>3, <1>4 DEF LogsInv, WaitingInv
<1>7. SentInv'
  BY <1>1, <1>4 DEF LogsInv, SentInv
<1> QED
  BY <1>5, <1>6, <1>7 DEF Kept

(* The one block that becomes final when the open slot closes, if any: no  *)
(* queued transaction lies before it, and it is the one that is sent.      *)
LEMMA OneRoot ==
  ASSUME LogsInv
  PROVE  /\ NewRoot \in Nat /\ FinalizedAt(landings, open) \in Nat
         /\ FinalizedAt(landings, open) <= NewRoot
         /\ NewRoots \subseteq {NewRoot}
         /\ \A q \in Confirmed : q.slot <= NewRoot => q.slot = NewRoot /\ q.slot \in NewRoots
<1> DEFINE n == FinalizationThreshold - 1
           before == FinalizedAt(landings, open)
           from == IF before + 1 > InitialSlot THEN before + 1 ELSE InitialSlot
<1>1. /\ open \in Nat \ {0} /\ open - 1 \in Nat /\ (open - 1) + 1 = open /\ n \in Nat
      /\ InitialSlot \in Nat /\ InitialSlot <= open
  BY DEF LogsInv, Inv, TypeOK, SubscriptionsAssumption
<1>2. Ordered(landings) /\ \A l \in DOMAIN landings : l \in Nat /\ ~(l > open)
  BY DEF LogsInv, Inv, TypeOK, TravelInStep
<1>3. HoldsBlock(landings, open)
  BY <1>1, <1>2, PastLandings DEF HoldsBlock
<1>4. SatSub(open, 1) = open - 1 /\ SatSub(open + 1, 1) = open
  BY <1>1 DEF SatSub
<1>5. before = BlocksBack(landings, open - 1, n) /\ NewRoot = BlocksBack(landings, open, n)
  BY <1>4 DEF FinalizedAt, NewRoot
<1>6. BlocksBack(landings, ParentSlot(landings, open), n) = before
  BY <1>1, <1>2, <1>3, <1>5, BackFromParent
<1>7. NewRoots = BlocksWithin(landings, from, NewRoot)
  BY <1>6 DEF NewRoots
<1> HIDE DEF before, n
<1>8. /\ before \in 0..(open - 1) /\ NewRoot \in 0..open /\ before <= NewRoot
      /\ BlocksWithin(landings, before + 1, NewRoot) \subseteq {NewRoot}
  BY <1>1, <1>2, <1>3, <1>5, BlocksBackStep
<1>9. BlocksWithin(landings, from, NewRoot) \subseteq BlocksWithin(landings, before + 1, NewRoot)
  BY <1>1, <1>8 DEF BlocksWithin
<1>10. \A q \in Confirmed : /\ q.slot \in Nat /\ before < q.slot /\ InitialSlot <= q.slot
                            /\ HoldsBlock(landings, q.slot)
  <2>1. ASSUME NEW q \in finalization_queue
        PROVE  q.slot \in Nat /\ before < q.slot /\ InitialSlot <= q.slot /\ HoldsBlock(landings, q.slot)
    BY DEF LogsInv, Inv, TypeOK, WaitingInv, before
  <2>2. ASSUME NEW q \in [slot : {open}, tx : confirmation_queue]
        PROVE  q.slot \in Nat /\ before < q.slot /\ InitialSlot <= q.slot /\ HoldsBlock(landings, q.slot)
    BY <1>1, <1>3, <1>8
  <2> QED
    BY <2>1, <2>2 DEF Confirmed
<1>11. ASSUME NEW q \in Confirmed, q.slot <= NewRoot
       PROVE  q.slot = NewRoot /\ q.slot \in NewRoots
  <2>1. q.slot \in BlocksWithin(landings, before + 1, NewRoot)
    BY <1>8, <1>10, <1>11 DEF BlocksWithin
  <2>2. q.slot \in BlocksWithin(landings, from, NewRoot)
    BY <1>1, <1>8, <1>10, <1>11 DEF BlocksWithin
  <2> QED
    BY <1>7, <1>8, <2>1, <2>2
<1> QED
  BY <1>7, <1>8, <1>9, <1>11 DEF before

LEMMA LogsCloseBlock ==
  ASSUME LogsInv, CloseBlock
  PROVE  Kept
<1> DEFINE before == FinalizedAt(landings, open)
<1>1. /\ open \in Nat /\ open' = open + 1 /\ landings' = landings
      /\ transactions' = transactions /\ carried' = carried
      /\ running = None /\ running' = None
      /\ confirmation_queue' = {}
      /\ finalization_queue' = {q \in Confirmed : q.slot > NewRoot}
      /\ logged'.confirmed = logged.confirmed \cup confirmation_queue
      /\ logged'.finalized = logged.finalized \cup Final
      /\ block_sent'.confirmed = block_sent.confirmed \cup {open}
      /\ block_sent'.finalized = block_sent.finalized \cup NewRoots
  BY DEF CloseBlock, LogsInv, Inv, TypeOK, clients, history
<1>2. FinalizedAt(landings, open)' = NewRoot
  BY <1>1 DEF NewRoot, FinalizedAt
<1>3. /\ NewRoot \in Nat /\ before \in Nat /\ before <= NewRoot
      /\ NewRoots \subseteq {NewRoot}
      /\ \A q \in Confirmed : q.slot <= NewRoot => q.slot = NewRoot /\ q.slot \in NewRoots
  BY OneRoot
<1>4. \A r \in DOMAIN transactions : transactions[r] \in Nat
  BY DEF LogsInv, Inv, TypeOK
<1>5. HoldsBlock(landings, open)
  <2>1. \A l \in DOMAIN landings : l \in Nat /\ ~(l > open)
    BY DEF LogsInv, Inv, TypeOK, TravelInStep
  <2> QED
    BY <1>1, <2>1, PastLandings DEF HoldsBlock
<1>6. \A q \in Confirmed :
        /\ q.slot \in Nat /\ q.slot <= open
        /\ q.tx \in DOMAIN transactions /\ transactions[q.tx] = q.slot
        /\ q.tx \notin logged.finalized /\ HoldsBlock(landings, q.slot)
  <2>1. ASSUME NEW q \in finalization_queue
        PROVE  /\ q.slot \in Nat /\ q.slot <= open
               /\ q.tx \in DOMAIN transactions /\ transactions[q.tx] = q.slot
               /\ q.tx \notin logged.finalized /\ HoldsBlock(landings, q.slot)
    BY <1>1 DEF LogsInv, Inv, TypeOK, WaitingInv, QueuedOrFinal
  <2>2. ASSUME NEW q \in [slot : {open}, tx : confirmation_queue]
        PROVE  /\ q.slot \in Nat /\ q.slot <= open
               /\ q.tx \in DOMAIN transactions /\ transactions[q.tx] = q.slot
               /\ q.tx \notin logged.finalized /\ HoldsBlock(landings, q.slot)
    BY <1>1, <1>5 DEF LogsInv, WaitingInv
  <2> QED
    BY <2>1, <2>2 DEF Confirmed
<1>7. \A t : t \in Final <=> \E q \in Confirmed : q.tx = t /\ q.slot <= NewRoot
  BY DEF Final
<1>8. Ordered(landings)'
  BY <1>1 DEF LogsInv
<1>9. WaitingInv'
  <2>1. \A t \in DOMAIN transactions' : transactions'[t] >= InitialSlot
    BY <1>1 DEF LogsInv, WaitingInv
  <2>2. ASSUME NEW q \in finalization_queue'
        PROVE  /\ q.tx \in DOMAIN transactions' /\ transactions'[q.tx] = q.slot
               /\ q.tx \notin logged'.finalized
               /\ NewRoot < q.slot /\ HoldsBlock(landings', q.slot)
    <3>1. q \in Confirmed /\ q.slot > NewRoot
      BY <1>1
    <3>2. q.tx \notin Final
      BY <1>3, <1>6, <1>7, <3>1
    <3> QED
      BY <1>1, <1>3, <1>6, <3>1, <3>2
  <2> QED
    BY <1>1, <1>2, <2>1, <2>2 DEF WaitingInv
<1>10. SentInv'
  <2>1. Final \subseteq DOMAIN transactions /\ confirmation_queue \subseteq DOMAIN transactions
    BY <1>6, <1>7 DEF LogsInv, WaitingInv
  <2>2. logged'.confirmed \subseteq DOMAIN transactions' /\ logged'.finalized \subseteq DOMAIN transactions'
    BY <1>1, <2>1 DEF LogsInv, SentInv
  <2>3. \A s \in block_sent'.confirmed : s < open'
    <3>1. \A s \in block_sent.confirmed : s \in Nat /\ s < open
      BY DEF LogsInv, Inv, TypeOK, SentInv
    <3> QED
      BY <1>1, <3>1
  <2>4. \A s \in block_sent'.finalized : s <= NewRoot
    <3>1. \A s \in block_sent.finalized : s \in Nat /\ s <= before
      BY DEF LogsInv, Inv, TypeOK, SentInv
    <3>2. ASSUME NEW s \in block_sent.finalized PROVE s <= NewRoot
      <4> HIDE DEF before
      <4> QED
        BY <1>3, <3>1
    <3>3. \A s \in NewRoots : s <= NewRoot
      BY <1>3
    <3> QED
      BY <1>1, <3>2, <3>3
  <2>5. ASSUME NEW t \in DOMAIN transactions \ carried
        PROVE  /\ t \in logged'.confirmed /\ transactions[t] \in block_sent'.confirmed
               /\ \/ [slot |-> transactions[t], tx |-> t] \in finalization_queue'
                  \/ t \in logged'.finalized /\ transactions[t] \in block_sent'.finalized
    <3>1. t \in confirmation_queue => transactions[t] = open
      BY DEF LogsInv, WaitingInv
    <3>2. t \in logged'.confirmed /\ transactions[t] \in block_sent'.confirmed
      BY <1>1, <3>1 DEF LogsInv, SentInv
    <3>3. \/ [slot |-> transactions[t], tx |-> t] \in Confirmed
          \/ t \in logged.finalized /\ transactions[t] \in block_sent.finalized
      BY <3>1 DEF LogsInv, SentInv, Confirmed
    <3>4. ASSUME [slot |-> transactions[t], tx |-> t] \in Confirmed,
                 ~(transactions[t] > NewRoot)
          PROVE  t \in Final /\ transactions[t] \in NewRoots
      BY <1>3, <1>4, <1>7, <3>4
    <3> QED
      BY <1>1, <3>2, <3>3, <3>4
  <2> QED
    BY <1>1, <1>2, <2>2, <2>3, <2>4, <2>5 DEF SentInv
<1> QED
  BY <1>8, <1>9, <1>10 DEF Kept

LEMMA LogsLand ==
  ASSUME LogsInv, Land
  PROVE  Kept
<1> DEFINE landing == [parent |-> BlockAtOrBefore(landings, open - 1)]
<1>1. /\ open \in Nat \ {0} /\ travelling \in Nat /\ open <= travelling
      /\ running = None /\ confirmation_queue = {}
  BY DEF LogsInv, Inv, TypeOK, TravelInStep, Land, SubscriptionsAssumption
<1>2. landings' = AfterTravel(landings, open, travelling, landing) /\ open' = travelling
  BY DEF Land, AfterTravel
<1>3. /\ running' = None /\ confirmation_queue' = {}
      /\ UNCHANGED <<transactions, finalization_queue, carried, logged, block_sent>>
  BY <1>1 DEF Land, svm_subs, history
<1>4. landing.parent = BlockAtOrBefore(landings, open - 1)
  OBVIOUS
<1> HIDE DEF landing
<1>5. /\ Ordered(landings')
      /\ \A s \in 0..(travelling - 1) : HoldsBlock(landings', s) <=> s < open /\ HoldsBlock(landings, s)
  BY <1>1, <1>2, <1>4, TravelInOrder DEF LogsInv
<1>6. FinalizedAt(landings, open)' = FinalizedAt(landings, open)
  BY FinalizedStays DEF LogsInv, Inv, Safe
<1>7. WaitingInv'
  <2>1. ASSUME NEW q \in finalization_queue
        PROVE  HoldsBlock(landings', q.slot)
    <3>1. q.slot \in Nat /\ q.slot < open /\ HoldsBlock(landings, q.slot)
      BY DEF LogsInv, Inv, TypeOK, QueuedOrFinal, WaitingInv
    <3> QED
      BY <1>1, <1>5, <3>1
  <2> QED
    BY <1>3, <1>6, <2>1 DEF LogsInv, WaitingInv
<1>8. SentInv'
  <2>1. \A s \in block_sent.confirmed : s \in Nat /\ s < open'
    BY <1>1, <1>2 DEF LogsInv, Inv, TypeOK, SentInv
  <2> QED
    BY <1>1, <1>3, <1>6, <2>1 DEF LogsInv, SentInv
<1> QED
  BY <1>5, <1>7, <1>8 DEF Kept

(* A step that leaves the chain and what was sent alone. *)
LEMMA LogsStay ==
  ASSUME LogsInv,
         UNCHANGED <<open, landings, transactions, confirmation_queue, finalization_queue,
                     carried, logged, block_sent>>,
         running' \in {None, running} \/ running' \notin DOMAIN transactions
  PROVE  Kept
<1>1. FinalizedAt(landings, open)' = FinalizedAt(landings, open)
  BY DEF FinalizedAt
<1>2. Ordered(landings)'
  BY DEF LogsInv
<1>3. WaitingInv'
  BY <1>1 DEF LogsInv, WaitingInv
<1>4. SentInv'
  BY <1>1 DEF LogsInv, SentInv
<1> QED
  BY <1>2, <1>3, <1>4 DEF Kept

LEMMA LogsInit == Init => LogsInv
<1> SUFFICES ASSUME Init PROVE LogsInv
  OBVIOUS
<1>1. Ordered(landings)
  BY DEF Init, Ordered, EmptyMap
<1>2. WaitingInv /\ SentInv
  BY DEF Init, WaitingInv, SentInv, EmptyMap, Nothing
<1> QED
  BY <1>1, <1>2, InvInit DEF LogsInv

LEMMA LogsStep == LogsInv /\ [Next]_vars => LogsInv'
<1> SUFFICES ASSUME LogsInv, [Next]_vars PROVE LogsInv'
  OBVIOUS
<1>0. Inv'
  BY InvStep DEF LogsInv
<1> SUFFICES Kept
  BY <1>0 DEF LogsInv, Kept
<1>1. ASSUME NEW t \in Tx, Receive(t) PROVE Kept
  BY <1>1, LogsStay DEF Receive, history
<1>2. ASSUME NEW t \in Tx, CommitBundle(t) PROVE Kept
  BY <1>2, LogsStored DEF CommitBundle, history
<1>3. CASE Execute
  <2>1. running \in Tx /\ running \notin DOMAIN transactions
    BY <1>3 DEF Execute, LogsInv, Inv, TypeOK, WaitingInv
  <2> QED
    BY <1>3, <2>1, LogsStored DEF Execute, history
<1>4. CASE RejectInPreflight
  BY <1>4, LogsStay DEF RejectInPreflight, history
<1>5. CASE FetchFails
  BY <1>5, LogsStay DEF FetchFails, svm_subs, history
<1>6. CASE CloseSlot
  BY <1>6, LogsCloseBlock DEF CloseSlot
<1>7. ASSUME NEW slot \in InitialSlot..MaxSlot, CloseBeforeTravel(slot) PROVE Kept
  BY <1>7, LogsCloseBlock DEF CloseBeforeTravel
<1>8. CASE Land
  BY <1>8, LogsLand
<1>9. CASE ResetNetwork
  <2>1. /\ DOMAIN landings' = {} /\ DOMAIN transactions' = {}
        /\ confirmation_queue' = {} /\ finalization_queue' = {}
        /\ logged' = Nothing /\ block_sent' = Nothing
    BY <1>9 DEF ResetNetwork, EmptyMap
  <2>2. Ordered(landings)'
    BY <2>1 DEF Ordered
  <2>3. WaitingInv'
    BY <2>1 DEF WaitingInv
  <2>4. SentInv'
    BY <2>1 DEF SentInv, Nothing
  <2> QED
    BY <2>2, <2>3, <2>4 DEF Kept
<1>10. CASE Restart
  <2>1. /\ UNCHANGED <<landings, transactions>> /\ carried' = DOMAIN transactions
        /\ confirmation_queue' = {} /\ finalization_queue' = {} /\ running' = None
        /\ logged' = Nothing /\ block_sent' = Nothing
    BY <1>10 DEF Restart
  <2>2. Ordered(landings)'
    BY <2>1 DEF LogsInv
  <2>3. WaitingInv'
    BY <2>1 DEF LogsInv, WaitingInv
  <2>4. SentInv'
    BY <2>1 DEF SentInv, Nothing
  <2> QED
    BY <2>2, <2>3, <2>4 DEF Kept
<1>11. ASSUME NEW s \in Sub, NEW w \in Wanted[s], Subscribe(s, w[1], w[2]) PROVE Kept
  BY <1>11, LogsStay DEF Subscribe, chain, svm_subs, history
<1>12. ASSUME NEW s \in Sub, TaskStep(s) PROVE Kept
  <2>1. UNCHANGED <<chain, history, logged, block_sent>>
    BY <1>12 DEF TaskStep, InsertSink, LookLocally, RemoteAnswers, CheckOrRegister, Deliver,
                 svm_subs
  <2> QED
    BY <2>1, LogsStay DEF chain, history
<1>13. ASSUME NEW s \in Sub, Unsubscribe(s) PROVE Kept
  BY <1>13, LogsStay DEF Unsubscribe, chain, svm_subs, history
<1>14. CASE UNCHANGED vars
  BY <1>14, LogsStay DEF vars, chain, svm_subs, history
<1> QED
  BY <1>1, <1>2, <1>3, <1>4, <1>5, <1>6, <1>7, <1>8, <1>9, <1>10, <1>11, <1>12, <1>13, <1>14
     DEF Next

(* The logs sent at confirmed and at finalized are those of the            *)
(* transactions in the blocks sent at that level: the queues that drive    *)
(* the logs and the walk over the landings that drives the blocks never    *)
(* disagree.                                                               *)
THEOREM LogsOfBlocks == Spec => []LogsMatchBlocks
<1>1. LogsInv => LogsMatchBlocks
  <2> SUFFICES ASSUME LogsInv, NEW t \in DOMAIN transactions \ carried
               PROVE  /\ t \in logged.confirmed <=> transactions[t] \in block_sent.confirmed
                      /\ t \in logged.finalized <=> transactions[t] \in block_sent.finalized
    BY DEF LogsMatchBlocks
  <2>1. /\ open \in Nat /\ transactions[t] \in Nat
        /\ FinalizedAt(landings, open) \in Nat /\ FinalizedAt(landings, open) < open
    BY FinalizedBehind DEF LogsInv, Inv, Safe, TypeOK
  <2>2. /\ \A s \in block_sent.confirmed : s \in Nat /\ s < open
        /\ \A s \in block_sent.finalized : s \in Nat /\ s <= FinalizedAt(landings, open)
    BY DEF LogsInv, Inv, TypeOK, SentInv
  <2>3. CASE t \in confirmation_queue
    BY <2>1, <2>2, <2>3 DEF LogsInv, WaitingInv
  <2>4. CASE t \notin confirmation_queue
    <3>1. t \in logged.confirmed /\ transactions[t] \in block_sent.confirmed
      BY <2>4 DEF LogsInv, SentInv
    <3>2. CASE t \in logged.finalized /\ transactions[t] \in block_sent.finalized
      BY <3>1, <3>2
    <3>3. CASE [slot |-> transactions[t], tx |-> t] \in finalization_queue
      <4>1. t \notin logged.finalized /\ FinalizedAt(landings, open) < transactions[t]
        BY <3>3 DEF LogsInv, WaitingInv
      <4> QED
        BY <2>1, <2>2, <3>1, <4>1
    <3> QED
      BY <2>4, <3>2, <3>3 DEF LogsInv, SentInv
  <2> QED
    BY <2>3, <2>4
<1> QED
  BY LogsInit, LogsStep, <1>1, PTL DEF Spec
-----------------------------------------------------------------------------
(* What is sent was reached *)

LEMMA SentBySignatures ==
  ASSUME LogsInv, NEW level, NEW ts, NotifySignatures(level, ts), NEW s \in Sub, Sent(s)
  PROVE  tasks[s].tx \in ts /\ tasks[s].level = level
<1>1. ~(Len(channel[s]) > Len(channel[s]))
  <2>1. channel[s] \in {<<>>} \cup {<<l>> : l \in Levels}
    BY DEF LogsInv, Inv, TypeOK
  <2>2. Len(channel[s]) \in Nat
    <3>1. CASE channel[s] = <<>>
      BY <3>1
    <3>2. ASSUME NEW l \in Levels, channel[s] = <<l>> PROVE Len(channel[s]) \in Nat
      BY <3>2
    <3> QED
      BY <2>1, <3>1, <3>2
  <2> QED
    BY <2>2
<1>2. channel'[s] = channel[s]
        \/ (s \in registered /\ tasks[s].tx \in ts /\ tasks[s].level = level)
  BY DEF NotifySignatures, SentTo
<1> QED
  BY <1>1, <1>2 DEF Sent

LEMMA NothingSent ==
  ASSUME LogsInv, NEW s \in Sub, channel'[s] \in {<<>>, channel[s]}
  PROVE  ~Sent(s)
<1>1. channel[s] \in {<<>>} \cup {<<l>> : l \in Levels}
  BY DEF LogsInv, Inv, TypeOK
<1>2. Len(channel[s]) \in Nat
  <2>1. CASE channel[s] = <<>>
    BY <2>1
  <2>2. ASSUME NEW l \in Levels, channel[s] = <<l>> PROVE Len(channel[s]) \in Nat
    BY <2>2
  <2> QED
    BY <1>1, <2>1, <2>2
<1>3. Len(<<>>) = 0
  OBVIOUS
<1> QED
  BY <1>2, <1>3 DEF Sent

LEMMA SentByBlock ==
  ASSUME LogsInv, CloseBlock, NEW s \in Sub, Sent(s)
  PROVE  Reached(tasks[s].tx, tasks[s].level)'
<1>1. /\ open \in Nat /\ open' = open + 1 /\ landings' = landings
      /\ transactions' = transactions /\ tasks' = tasks
  BY DEF CloseBlock, LogsInv, Inv, TypeOK, clients
<1>2. FinalizedAt(landings, open)' = NewRoot
  BY <1>1 DEF NewRoot, FinalizedAt
<1>3. channel'[s] # channel[s]
  BY NothingSent
<1>4. \/ tasks[s].level = "confirmed" /\ tasks[s].tx \in confirmation_queue
      \/ tasks[s].level = "finalized" /\ tasks[s].tx \in Final
  BY <1>3 DEF CloseBlock, NotifyLevels
<1>5. CASE tasks[s].level = "confirmed" /\ tasks[s].tx \in confirmation_queue
  <2>1. tasks[s].tx \in DOMAIN transactions /\ transactions[tasks[s].tx] = open
    BY <1>5 DEF LogsInv, WaitingInv
  <2>2. (transactions[tasks[s].tx] < open)'
    BY <1>1, <2>1
  <2> QED
    BY <1>1, <1>5, <2>1, <2>2, ReachedMeansNext
<1>6. CASE tasks[s].level = "finalized" /\ tasks[s].tx \in Final
  <2>1. PICK q \in Confirmed : q.tx = tasks[s].tx /\ q.slot <= NewRoot
    BY <1>6 DEF Final
  <2>2. q.tx \in DOMAIN transactions /\ transactions[q.tx] = q.slot
    <3>1. CASE q \in finalization_queue
      BY <3>1 DEF LogsInv, WaitingInv
    <3>2. CASE q \in [slot : {open}, tx : confirmation_queue]
      BY <3>2 DEF LogsInv, WaitingInv
    <3> QED
      BY <3>1, <3>2 DEF Confirmed
  <2>3. (transactions[tasks[s].tx] <= FinalizedAt(landings, open))'
    BY <1>1, <1>2, <2>1, <2>2
  <2> QED
    BY <1>1, <1>6, <2>1, <2>2, <2>3, ReachedMeansNext
<1> QED
  BY <1>4, <1>5, <1>6

(* What a step sends to a task is the level its transaction reaches with   *)
(* the step, the receipt of it, or the error that stands for processing.   *)
LEMMA SentStep ==
  ASSUME LogsInv, Next, NEW s \in Sub, Sent(s)
  PROVE  \/ Reached(tasks[s].tx, tasks[s].level)'
         \/ (tasks[s].level = "received" /\ running' = tasks[s].tx)
         \/ (tasks[s].level = "processed" /\ running = tasks[s].tx /\ running' = None)
<1>1. ASSUME NEW t \in Tx, Receive(t)
      PROVE  tasks[s].level = "received" /\ running' = tasks[s].tx
  BY <1>1, SentBySignatures DEF Receive
<1>2. ASSUME NEW t \in Tx, Stored(t), UNCHANGED clients
      PROVE  Reached(tasks[s].tx, tasks[s].level)'
  <2>1. tasks[s].tx = t /\ tasks[s].level = "processed"
    <3>1. NotifySignatures("processed", {t})
      BY <1>2 DEF Stored
    <3> QED
      BY <3>1, SentBySignatures
  <2>2. (tasks[s].tx \in DOMAIN transactions)'
    BY <1>2, <2>1 DEF Stored, Put, clients
  <2>3. (tasks[s].level = "processed")'
    BY <1>2, <2>1 DEF clients
  <2> QED
    BY <2>2, <2>3 DEF Reached, Satisfies
<1>3. CASE RejectInPreflight
  BY <1>3, SentBySignatures DEF RejectInPreflight
<1>4. CASE CloseBlock
  BY <1>4, SentByBlock
<1>5. CASE UNCHANGED channel
  BY <1>5, NothingSent
<1>6. CASE Restart
  BY <1>6, NothingSent DEF Restart
<1>7. ASSUME NEW r \in Sub, Deliver(r) PROVE FALSE
  <2>1. channel[r] \in {<<>>} \cup {<<l>> : l \in Levels} /\ channel[r] # <<>>
    BY <1>7 DEF LogsInv, Inv, TypeOK, Deliver
  <2>2. PICK l \in Levels : channel[r] = <<l>>
    BY <2>1
  <2>3. channel' = [channel EXCEPT ![r] = Tail(channel[r])]
    BY <1>7 DEF Deliver
  <2>4. Tail(channel[r]) = <<>>
    BY <2>2, TailOfOne
  <2>5. channel'[s] \in {<<>>, channel[s]}
    BY <2>3, <2>4 DEF LogsInv, Inv, TypeOK
  <2> QED
    BY <2>5, NothingSent
<1>8. ASSUME NEW r \in Sub, TaskStep(r) PROVE UNCHANGED channel \/ Deliver(r)
  BY <1>8 DEF TaskStep, InsertSink, LookLocally, RemoteAnswers, CheckOrRegister, svm_subs
<1>9. CASE Execute
  <2>1. running \in Tx
    BY <1>9 DEF Execute, LogsInv, Inv, TypeOK
  <2> QED
    BY <1>2, <1>9, <2>1 DEF Execute
<1>10. ASSUME NEW t \in Tx, CommitBundle(t) PROVE Reached(tasks[s].tx, tasks[s].level)'
  BY <1>2, <1>10 DEF CommitBundle
<1>11. CASE FetchFails \/ Land \/ ResetNetwork
  BY <1>5, <1>11 DEF FetchFails, Land, ResetNetwork, svm_subs
<1>12. ASSUME NEW r \in Sub, NEW w \in Wanted[r], Subscribe(r, w[1], w[2])
       PROVE  UNCHANGED channel
  BY <1>12 DEF Subscribe, svm_subs
<1>13. ASSUME NEW r \in Sub, Unsubscribe(r) PROVE UNCHANGED channel
  BY <1>13 DEF Unsubscribe, svm_subs
<1> QED
  BY <1>1, <1>3, <1>4, <1>5, <1>6, <1>7, <1>8, <1>9, <1>10, <1>11, <1>12, <1>13
     DEF Next, CloseSlot, CloseBeforeTravel

(* No subscriber is told of a status before its transaction has it.        *)
THEOREM SentInTime == Spec => SentWhenReached
<1>1. LogsInv /\ [Next]_vars =>
        [\A s \in Sub : Sent(s) =>
           LET t == tasks[s].tx
               level == tasks[s].level
           IN \/ Reached(t, level)'
              \/ level = "received" /\ running' = t
              \/ level = "processed" /\ running = t /\ running' = None]_vars
  BY SentStep
<1> QED
  BY LogsInit, LogsStep, <1>1, PTL DEF Spec, SentWhenReached
==============================================================================
