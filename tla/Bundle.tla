------------------------------- MODULE Bundle -------------------------------
(***************************************************************************)
(* Atomic execution of a Jito bundle.  The runloop clones the live SVM     *)
(* into a sandbox, runs the bundle's transactions there without holding    *)
(* the live lock, and commits the sandbox over the live state only if      *)
(* nothing wrote to that state since; else it runs the bundle again, at    *)
(* most MaxAttempts times in all.  RPC threads write accounts and reset    *)
(* the network at any moment in between.                                   *)
(*                                                                         *)
(* A transaction moves one lamport from From[t] to To[t] and fails if      *)
(* there is none.  The stores a sandbox overlays (module OverlayStorage)   *)
(* are represented by the one its duplicate check reads, transactions.     *)
(* Accounts are local: what a bundle fetches from a remote is written to   *)
(* the live state before the sandbox is cloned.                            *)
(***************************************************************************)
EXTENDS Integers, Sequences, Functions, FiniteSets

CONSTANTS
  Account, Tx, From, To,
  Bundles,       \* the bundles clients may send: non-empty sequences of transactions
  Sent,          \* transactions clients also send one by one
  Balances,      \* what a cheatcode may set an account to
  MaxAttempts,   \* MAX_BUNDLE_COMMIT_ATTEMPTS
  StoreKinds,    \* where stores may be: in "memory" or in a "database"
  Revisions,     \* state_revision wraps at this (2^64)
  MaxWrites, MaxBlocks, MaxStoreFailures  \* bounds: how often each happens

ASSUME BundleAssumption ==
  /\ From \in [Tx -> Account] /\ To \in [Tx -> Account]
  /\ Bundles \subseteq Seq(Tx) \ {<<>>}
  /\ Sent \subseteq Tx
  /\ Balances \subseteq Nat /\ Balances # {}
  /\ MaxAttempts \in Nat \ {0}
  /\ StoreKinds \subseteq {"memory", "database"} /\ StoreKinds # {}
  /\ Revisions \in Nat \ {0}
  /\ MaxWrites \in Nat /\ MaxBlocks \in Nat /\ MaxStoreFailures \in Nat
  /\ MaxWrites < Revisions  \* no 2^64 writes come between a sandbox's clone and its commit

VARIABLES
  (* The live SVM *)
  store_kind,    \* a sandbox copies stores in memory and reads through to a database
  accounts,      \* account -> lamports
  transactions,  \* signatures stored as processed
  queue,         \* transactions_queued_for_confirmation
  revision,      \* state_revision
  jito_bundles,  \* bundles stored under their id
  announced,     \* [tx, index] of the open block's transactions, as Geyser was told
  (* The runloop *)
  bundle,        \* the bundle it processes, <<>> if none
  attempt,
  sandbox,       \* the sandbox it runs in, or NoSandbox
  executed,      \* how many of the bundle's transactions have run in it
  (* Clients *)
  answer,        \* bundle -> "ok" or "failed", for those answered
  effects,       \* history: transaction -> how often it ran on the live state
  writes, blocks_closed, store_failures

live == <<store_kind, accounts, transactions, queue, revision, jito_bundles, announced>>
runloop == <<bundle, attempt, sandbox, executed>>
counters == <<writes, blocks_closed, store_failures>>
vars == <<live, runloop, answer, effects, counters>>

NoSandbox == [accounts |-> <<>>]

\* Every write access counts, one that changes nothing too.
NextRevision == (revision + 1) % Revisions

-----------------------------------------------------------------------------
(* Executing a transaction *)

Succeeds(t, balances) == balances[From[t]] > 0

Transferred(t, balances) ==
  [a \in Account |->
     balances[a] - (IF a = From[t] THEN 1 ELSE 0) + (IF a = To[t] THEN 1 ELSE 0)]

(* The balances after the first n transactions of a run, and after all. *)
AfterFirst(n, ts, balances) ==
  LET after[i \in Nat] == IF i = 0 THEN balances ELSE Transferred(ts[i], after[i - 1])
  IN  after[n]

AfterAll(ts, balances) == AfterFirst(Len(ts), ts, balances)

Init ==
  /\ store_kind \in StoreKinds
  /\ accounts \in [Account -> Balances]
  /\ transactions = {} /\ queue = <<>> /\ revision = 0
  /\ jito_bundles = {} /\ announced = {}
  /\ bundle = <<>> /\ attempt = 0 /\ sandbox = NoSandbox /\ executed = 0
  /\ answer = [b \in {} |-> ""] /\ effects = [t \in Tx |-> 0]
  /\ writes = 0 /\ blocks_closed = 0 /\ store_failures = 0

Idle == bundle = <<>>

(* ProcessTransaction: a failed transaction is stored and confirmed too.  *)
(* A duplicate is dropped.                                                 *)
ProcessTransaction(t) ==
  /\ Idle
  /\ t \notin transactions
  /\ accounts' = IF Succeeds(t, accounts) THEN Transferred(t, accounts) ELSE accounts
  /\ transactions' = transactions \cup {t}
  /\ announced' = announced \cup {[tx |-> t, index |-> Len(queue)]}
  /\ queue' = Append(queue, t)
  /\ effects' = [effects EXCEPT ![t] = @ + 1]
  /\ revision' = NextRevision
  /\ UNCHANGED <<store_kind, jito_bundles, runloop, answer, counters>>

(* The open block is closed with what is queued. *)
CloseBlock ==
  /\ Idle
  /\ blocks_closed < MaxBlocks
  /\ blocks_closed' = blocks_closed + 1
  /\ queue' = <<>> /\ announced' = {}
  /\ revision' = NextRevision
  /\ UNCHANGED <<store_kind, accounts, transactions, jito_bundles, runloop, answer, effects, writes,
                 store_failures>>

-----------------------------------------------------------------------------
(* process_bundle *)

(* clone_for_bundle_sandbox; the events of the sandbox go to buffers. *)
CloneForBundle ==
  [accounts |-> accounts, processed |-> transactions, written |-> {}, queue |-> queue,
   base_len |-> Len(queue), base_revision |-> revision, events |-> {}]

TakeBundle(b) ==
  /\ Idle
  /\ b \in DOMAIN answer => answer[b] = "failed"
  /\ bundle' = b
  /\ attempt' = 1
  /\ sandbox' = CloneForBundle
  /\ executed' = 0
  /\ UNCHANGED <<live, answer, effects, counters>>

(* sigverify's duplicate check: the sandbox's own writes, then its base. *)
SeesInBaseOnly(t) ==  \* mutant: the sandbox does not see what it wrote
  t \in (IF store_kind = "database" THEN transactions ELSE sandbox.processed)

SeesProcessed(t) ==
  t \in sandbox.written \cup (IF store_kind = "database" THEN transactions ELSE sandbox.processed)

Running == ~Idle /\ sandbox # NoSandbox

NextTx == bundle[executed + 1]

ExecuteInSandbox ==
  /\ Running /\ executed < Len(bundle)
  /\ ~SeesProcessed(NextTx)
  /\ Succeeds(NextTx, sandbox.accounts)
  /\ sandbox' = [sandbox EXCEPT
       !.accounts = Transferred(NextTx, @),
       !.written  = @ \cup {NextTx},
       !.events   = @ \cup {[tx |-> NextTx, index |-> Len(sandbox.queue)]},
       !.queue    = Append(@, NextTx)]
  /\ executed' = executed + 1
  /\ UNCHANGED <<live, bundle, attempt, answer, effects, counters>>

Reply(outcome) ==
  /\ answer' = [b \in DOMAIN answer \cup {bundle} |->
                  IF b = bundle THEN outcome ELSE answer[b]]
  /\ bundle' = <<>> /\ attempt' = 0 /\ sandbox' = NoSandbox /\ executed' = 0

(* A transaction fails: the sandbox is dropped. *)
AbortBundle ==
  /\ Running /\ executed < Len(bundle)
  /\ SeesProcessed(NextTx) \/ ~Succeeds(NextTx, sandbox.accounts)
  /\ Reply("failed")
  /\ UNCHANGED <<live, effects, counters>>

NeverStale == FALSE  \* mutant: the sandbox is committed whatever was written since

IsStale == revision # sandbox.base_revision

GivesUp == attempt >= MaxAttempts

(* The commit attempt is a write access of its own: it counts before the  *)
(* next sandbox is cloned.                                                 *)
RetryBundle ==
  /\ Running /\ executed = Len(bundle)
  /\ IsStale
  /\ revision' = NextRevision
  /\ IF GivesUp
     THEN Reply("failed")
     ELSE /\ attempt' = attempt + 1
          /\ sandbox' = [CloneForBundle EXCEPT !.base_revision = NextRevision]
          /\ executed' = 0
          /\ UNCHANGED <<bundle, answer>>
  /\ UNCHANGED <<store_kind, accounts, transactions, queue, jito_bundles, announced, effects,
                 counters>>

(* commit_sandbox: the sandbox's accounts replace the live ones, its new   *)
(* transactions are queued after the live ones, and its events are         *)
(* replayed with their index moved to that place.                          *)
IndexInSandbox(e) == e.index - sandbox.base_len  \* mutant: not moved past the live queue

RebasedIndex(e) == Len(queue) + (e.index - sandbox.base_len)

NewInSandbox == SubSeq(sandbox.queue, sandbox.base_len + 1, Len(sandbox.queue))

TimesRun(t) == Cardinality({i \in DOMAIN NewInSandbox : NewInSandbox[i] = t})

CommitToLive ==
  /\ accounts' = sandbox.accounts
  /\ transactions' = transactions \cup sandbox.written
  /\ queue' = queue \o NewInSandbox
  /\ announced' = announced \cup {[tx |-> e.tx, index |-> RebasedIndex(e)] : e \in sandbox.events}
  /\ revision' = NextRevision
  /\ effects' = [t \in Tx |-> effects[t] + TimesRun(t)]

CommitsEarly == Running /\ ~IsStale  \* mutant: not every transaction has run

NotOnLastAttempt ==  \* mutant: the last attempt is only there to be refused
  Running /\ executed = Len(bundle) /\ ~IsStale /\ ~GivesUp

ReadyToCommit == Running /\ executed = Len(bundle) /\ ~IsStale

(* The commit, then the bundle's id is stored in a write of its own. *)
CommitBundle ==
  /\ ReadyToCommit
  /\ CommitToLive
  /\ sandbox' = NoSandbox
  /\ UNCHANGED <<store_kind, jito_bundles, bundle, attempt, executed, answer, counters>>

Committed == ~Idle /\ sandbox = NoSandbox

StoreBundle ==
  /\ Committed
  /\ jito_bundles' = jito_bundles \cup {bundle}
  /\ revision' = NextRevision
  /\ Reply("ok")
  /\ UNCHANGED <<store_kind, accounts, transactions, queue, announced, effects, counters>>

StoreRefuses ==
  /\ store_failures < MaxStoreFailures
  /\ store_failures' = store_failures + 1
  /\ revision' = NextRevision
  /\ Reply("failed")
  /\ UNCHANGED <<store_kind, queue, jito_bundles, announced, writes, blocks_closed>>

(* The store refuses a write of the commit, and the rest of it does not    *)
(* happen: while the transactions are stored, after any part of them, or   *)
(* (with a database) while the accounts are, after the swap in memory.     *)
CommitFails ==
  /\ ReadyToCommit
  /\ StoreRefuses
  /\ \/ /\ \E stored \in SUBSET sandbox.written : transactions' = transactions \cup stored
        /\ UNCHANGED <<accounts, effects>>
     \/ /\ store_kind = "database"
        /\ transactions' = transactions \cup sandbox.written
        /\ accounts' = sandbox.accounts
        /\ effects' = [t \in Tx |-> effects[t] + TimesRun(t)]

StoreBundleFails ==
  /\ Committed
  /\ StoreRefuses
  /\ UNCHANGED <<accounts, transactions, effects>>

-----------------------------------------------------------------------------
(* RPC threads *)

CountWrite == writes < MaxWrites /\ writes' = writes + 1

(* surfnet_setAccount and the like, an account fetched for a read. *)
SetAccount(a, lamports) ==
  /\ CountWrite
  /\ accounts' = [accounts EXCEPT ![a] = lamports]
  /\ revision' = NextRevision
  /\ UNCHANGED <<store_kind, transactions, queue, jito_bundles, announced, runloop, answer, effects,
                 blocks_closed, store_failures>>

(* surfnet_resetNetwork leaves the bundles' ids. *)
ResetNetwork ==
  /\ CountWrite
  /\ accounts' = [a \in Account |-> 0]
  /\ transactions' = {} /\ queue' = <<>> /\ announced' = {}
  /\ revision' = NextRevision
  /\ effects' = [t \in Tx |-> 0]
  /\ UNCHANGED <<store_kind, jito_bundles, runloop, answer, blocks_closed, store_failures>>

RunloopNext ==
  \/ \E b \in Bundles : TakeBundle(b)
  \/ ExecuteInSandbox \/ AbortBundle \/ RetryBundle
  \/ CommitBundle \/ StoreBundle
  \/ CommitFails \/ StoreBundleFails

Next ==
  \/ RunloopNext
  \/ \E t \in Sent : ProcessTransaction(t)
  \/ CloseBlock
  \/ \E a \in Account, lamports \in Balances : SetAccount(a, lamports)
  \/ ResetNetwork

Spec == Init /\ [][Next]_vars

(* The runloop goes on with a bundle it has taken. *)
FairSpec == Spec /\ WF_vars(~Idle /\ RunloopNext)

-----------------------------------------------------------------------------
(* Properties *)

TypeOK ==
  /\ store_kind \in StoreKinds
  /\ accounts \in [Account -> Nat] /\ transactions \subseteq Tx /\ queue \in Seq(Tx)
  /\ revision \in 0..(Revisions - 1) /\ jito_bundles \subseteq Bundles
  /\ announced \subseteq [tx : Tx, index : Nat]
  /\ bundle \in Bundles \cup {<<>>} /\ attempt \in 0..MaxAttempts
  /\ executed \in 0..Len(bundle)
  /\ Running => sandbox.written = {bundle[i] : i \in 1..executed}
  /\ DOMAIN answer \subseteq Bundles
  /\ effects \in [Tx -> Nat]

(* The step in which commit_sandbox succeeds. *)
Commits == Running /\ ~Idle' /\ sandbox' = NoSandbox

(* A commit does to the live state exactly what running the bundle there,  *)
(* in that instant, would have done: no write made meanwhile by an RPC     *)
(* thread is lost, and the bundle saw no older state.                      *)
CommitIsAtomic ==
  [][Commits => /\ accounts' = AfterAll(bundle, accounts)
                /\ queue' = queue \o bundle]_vars

(* Unless the store refused a write, what a bundle stores, it stores       *)
(* whole: a transaction nobody sent by itself is there together with all   *)
(* of a bundle it came in.                                                 *)
AllOrNothing ==
  store_failures = 0 =>
  \A t \in transactions \ Sent :
    \E b \in Bundles : t \in Range(b) /\ Range(b) \subseteq transactions

(* No transaction runs twice on the live state: not in two bundles, nor    *)
(* twice in one, nor in a bundle and by itself, nor when a bundle whose    *)
(* commit failed is sent again.                                            *)
RunsAtMostOnce == \A t \in Tx : effects[t] <= 1

(* The place in the block that Geyser was told of a transaction is its     *)
(* place in the queue the block will be made from.                         *)
AnnouncedInOrder ==
  /\ TypeOK
  /\ announced = {[tx |-> queue[i], index |-> i - 1] : i \in DOMAIN queue}

(* A bundle taken is answered, however often its sandbox goes stale. *)
EveryBundleAnswered == (bundle # <<>>) ~> (bundle = <<>>)
=============================================================================
