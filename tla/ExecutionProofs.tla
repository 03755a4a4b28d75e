-------------------------- MODULE ExecutionProofs --------------------------
(***************************************************************************)
(* Safety of what transactions run on: bundles, the overlays their         *)
(* sandboxes are made of, and the programs that LiteSVM compiled.          *)
(*                                                                         *)
(* Bundles, for any accounts, number of writers' steps and number of       *)
(* attempts: what carries the proofs is Distance.  While a sandbox runs,   *)
(* the live revision is as far past the sandbox's as there were writes     *)
(* since the clone, and if there was none the live state is the one that   *)
(* was cloned.  Overlays (module OverlayStorage), for any keys, values and *)
(* base.                                                                   *)
(*                                                                         *)
(* Programs, for any programs, images, callers, snapshots and remote: what *)
(* carries the proofs is Inv.  The database holds what LiteSVM does; what  *)
(* a program's programdata compiles to is what LiteSVM runs of it, unless  *)
(* a call is about to have it compiled or it was written by itself; and    *)
(* what a client was told, and the chunks it wrote, are what is stored.    *)
(* Every step but a write keeps, for every program, what is stored of it   *)
(* (Keeps), and a write keeps it for every other program.                  *)
(***************************************************************************)
EXTENDS Bundle, Programs, OverlayStorage, SequenceTheorems, FiniteSetTheorems,
        WellFoundedInduction, TLAPS

-----------------------------------------------------------------------------
(* Running transactions one after the other *)

(* The balances after each of the first n transactions. *)
IsRun(g, n, ts, balances) ==
  /\ g[0] = balances
  /\ \A i \in 1..n : g[i] = Transferred(ts[i], g[i - 1])

(* Every non-empty set of natural numbers has a smallest element. *)
LEMMA SmallestOf ==
  ASSUME NEW T \in SUBSET Nat, T # {}
  PROVE  \E x \in T : \A y \in T : x <= y
<1> DEFINE Below == {p \in Nat \X Nat : p[1] < p[2]}
<1>1. IsWellFoundedOn(Below, Nat)
  BY NatLessThanWellFounded DEF OpToRel
<1>2. \A x, y \in Nat : y < x => <<y, x>> \in Below
  OBVIOUS
<1> HIDE DEF Below
<1>3. \E x \in T : \A y \in T : ~ (<<y, x>> \in Below)
  BY <1>1, WFMin
<1>4. ASSUME NEW x \in Nat, NEW y \in Nat, <<y, x>> \notin Below PROVE x <= y
  BY <1>2, <1>4
<1> QED
  BY <1>3, <1>4

(* A set of numbers with 0, and with n + 1 for every n in it, has all. *)
LEMMA Induction ==
  ASSUME NEW T \in SUBSET Nat, 0 \in T, \A n \in T : n + 1 \in T
  PROVE  T = Nat
<1>1. SUFFICES ASSUME Nat \ T # {} PROVE FALSE
  OBVIOUS
<1>2. PICK x \in Nat \ T : \A y \in Nat \ T : x <= y
  BY <1>1, SmallestOf
<1>3. x # 0 /\ x - 1 \in Nat
  BY <1>2
<1>4. x - 1 \in T
  BY <1>2, <1>3
<1> QED
  BY <1>2, <1>3, <1>4

(* A run of any length exists, and two runs agree where both are defined. *)
LEMMA RunExists ==
  ASSUME NEW ts, NEW balances, NEW n \in Nat
  PROVE  \E g : IsRun(g, n, ts, balances)
<1> DEFINE T == {k \in Nat : \E g : IsRun(g, k, ts, balances)}
<1>1. 0 \in T
  <2>1. IsRun([i \in {0} |-> balances], 0, ts, balances)
    BY DEF IsRun
  <2> QED
    BY <2>1
<1>2. ASSUME NEW k \in T PROVE k + 1 \in T
  <2>1. PICK g : IsRun(g, k, ts, balances)
    BY <1>2
  <2> DEFINE h == [i \in 0..(k + 1) |-> IF i = k + 1 THEN Transferred(ts[i], g[k]) ELSE g[i]]
  <2>2. h[0] = balances
    BY <2>1 DEF IsRun
  <2>3. ASSUME NEW i \in 1..(k + 1) PROVE h[i] = Transferred(ts[i], h[i - 1])
    <3>1. CASE i = k + 1
      BY <3>1
    <3>2. CASE i \in 1..k
      BY <2>1, <3>2 DEF IsRun
    <3> QED
      BY <3>1, <3>2
  <2>4. IsRun(h, k + 1, ts, balances)
    BY <2>2, <2>3 DEF IsRun
  <2> QED
    BY <2>4
<1>3. T = Nat
  <2> HIDE DEF T
  <2> QED
    BY <1>1, <1>2, Induction DEF T
<1> QED
  BY <1>3

LEMMA RunUnique ==
  ASSUME NEW ts, NEW balances, NEW m \in Nat, NEW n \in Nat, m <= n,
         NEW g, NEW h, IsRun(g, m, ts, balances), IsRun(h, n, ts, balances)
  PROVE  g[m] = h[m]
<1> DEFINE T == {k \in Nat : k <= m => g[k] = h[k]}
<1>1. 0 \in T
  BY DEF IsRun
<1>2. ASSUME NEW k \in T PROVE k + 1 \in T
  <2>1. CASE k + 1 <= m
    <3>1. k + 1 \in 1..m /\ k + 1 \in 1..n /\ (k + 1) - 1 = k
      BY <2>1
    <3>2. g[k] = h[k]
      BY <1>2, <2>1
    <3> QED
      BY <3>1, <3>2 DEF IsRun
  <2> QED
    BY <2>1
<1>3. T = Nat
  <2> HIDE DEF T
  <2> QED
    BY <1>1, <1>2, Induction DEF T
<1> QED
  BY <1>3

(* AfterFirst is such a run: it starts from the balances given, and each   *)
(* transaction runs on what the one before it left.                        *)
LEMMA AfterFirstSteps ==
  ASSUME NEW ts, NEW balances
  PROVE  /\ AfterFirst(0, ts, balances) = balances
         /\ \A n \in Nat : AfterFirst(n + 1, ts, balances)
                             = Transferred(ts[n + 1], AfterFirst(n, ts, balances))
<1> DEFINE Step(g) == [i \in Nat |-> IF i = 0 THEN balances ELSE Transferred(ts[i], g[i - 1])]
           run(n)  == CHOOSE g : IsRun(g, n, ts, balances)
           all     == [i \in Nat |-> run(i)[i]]
<1>1. \A n \in Nat : IsRun(run(n), n, ts, balances)
  BY RunExists
<1>2. all[0] = balances
  BY <1>1 DEF IsRun
<1>3. ASSUME NEW i \in Nat, i # 0 PROVE all[i] = Transferred(ts[i], all[i - 1])
  <2>1. i - 1 \in Nat /\ i \in 1..i /\ i - 1 <= i
    BY <1>3
  <2> HIDE DEF run
  <2>3. run(i)[i] = Transferred(ts[i], run(i)[i - 1])
    BY <1>1, <2>1 DEF IsRun
  <2>4. run(i - 1)[i - 1] = run(i)[i - 1]
    BY <1>1, <2>1, RunUnique
  <2> QED
    BY <2>1, <2>3, <2>4
<1> HIDE DEF run
<1>4. all = Step(all)
  <2>1. ASSUME NEW i \in Nat PROVE all[i] = Step(all)[i]
    <3> HIDE DEF all
    <3> QED
      BY <1>2, <1>3
  <2> QED
    BY <2>1
<1> HIDE DEF all
<1>5. \E g : g = Step(g)
  BY <1>4
<1> DEFINE after == CHOOSE g : g = Step(g)
<1>6. after = Step(after)
  BY <1>5
<1>7. \A n : AfterFirst(n, ts, balances) = after[n]
  BY DEF AfterFirst
<1> HIDE DEF after
<1>8. after[0] = balances
  BY <1>6
<1>9. ASSUME NEW n \in Nat PROVE after[n + 1] = Transferred(ts[n + 1], after[n])
  BY <1>6
<1> QED
  BY <1>7, <1>8, <1>9

-----------------------------------------------------------------------------
(* The inductive invariant *)

(* What a sandbox is made of. *)
SandboxSet ==
  [accounts : [Account -> Nat], processed : SUBSET Tx, written : SUBSET Tx,
   queue : Seq(Tx), base_len : Nat, base_revision : 0..(Revisions - 1),
   events : SUBSET [tx : Tx, index : Nat]]

SandboxType == Running => sandbox \in SandboxSet

(* What ran in a sandbox: the first transactions of the bundle, no one     *)
(* twice, queued after the ones it was cloned with.                        *)
SandboxRan ==
  Running =>
    /\ Len(sandbox.queue) = sandbox.base_len + executed
    /\ \A i \in 1..executed : sandbox.queue[sandbox.base_len + i] = bundle[i]
    /\ sandbox.events = {[tx |-> bundle[i], index |-> sandbox.base_len + i - 1] : i \in 1..executed}
    /\ \A i, j \in 1..executed : bundle[i] = bundle[j] => i = j

(* The live state is what the sandbox was cloned from. *)
Untouched ==
  /\ sandbox.base_len = Len(queue)
  /\ sandbox.processed = transactions
  /\ sandbox.written \cap transactions = {}
  /\ sandbox.accounts = AfterFirst(executed, bundle, accounts)

(* The live revision is k writes past the sandbox's. *)
Ahead(k) ==
  \/ revision = sandbox.base_revision + k
  \/ revision = sandbox.base_revision + k - Revisions

Distance == Running => \E k \in 0..writes : Ahead(k) /\ (k = 0 => Untouched)

(* What ran is stored. *)
RanIsStored == \A t \in Tx : effects[t] > 0 => t \in transactions

BundleInv ==
  /\ TypeOK /\ writes \in 0..MaxWrites /\ store_failures \in Nat
  /\ SandboxType /\ SandboxRan /\ Distance
  /\ RanIsStored /\ RunsAtMostOnce

-----------------------------------------------------------------------------
(* What the steps are made of *)

(* A revision moves by one and wraps. *)
LEMMA RevisionMoves ==
  ASSUME revision \in 0..(Revisions - 1)
  PROVE  /\ NextRevision = IF revision + 1 = Revisions THEN 0 ELSE revision + 1
         /\ NextRevision \in 0..(Revisions - 1)
BY BundleAssumption DEF NextRevision

(* No sandbox is the missing one. *)
LEMMA SandboxIsThere ==
  ASSUME NEW s, "processed" \in DOMAIN s
  PROVE  s # NoSandbox
BY DEF NoSandbox

LEMMA SandboxRecord ==
  ASSUME NEW as \in [Account -> Nat], NEW processed \in SUBSET Tx, NEW written \in SUBSET Tx,
         NEW q \in Seq(Tx), NEW len \in Nat, NEW since \in 0..(Revisions - 1),
         NEW events \in SUBSET [tx : Tx, index : Nat]
  PROVE  [accounts |-> as, processed |-> processed, written |-> written, queue |-> q,
          base_len |-> len, base_revision |-> since, events |-> events] \in SandboxSet
BY DEF SandboxSet

(* A transaction that succeeds leaves no account below zero. *)
LEMMA TransferType ==
  ASSUME NEW t \in Tx, NEW balances \in [Account -> Nat], Succeeds(t, balances)
  PROVE  Transferred(t, balances) \in [Account -> Nat]
<1>1. ASSUME NEW a \in Account
      PROVE  balances[a] - (IF a = From[t] THEN 1 ELSE 0) + (IF a = To[t] THEN 1 ELSE 0) \in Nat
  <2>1. balances[a] \in Nat /\ (a = From[t] => balances[a] > 0)
    BY DEF Succeeds
  <2> QED
    BY <2>1
<1> QED
  BY <1>1 DEF Transferred

(* A bundle is a sequence of transactions, and not empty. *)
LEMMA BundleShape ==
  ASSUME TypeOK, ~Idle
  PROVE  /\ bundle \in Seq(Tx) /\ Len(bundle) \in Nat \ {0} /\ bundle \in Bundles
         /\ \A i \in 1..Len(bundle) : bundle[i] \in Tx
BY BundleAssumption DEF TypeOK, Idle

(* Without a sandbox there is nothing to say about one. *)
LEMMA WithoutSandbox ==
  ASSUME ~Running'
  PROVE  SandboxType' /\ SandboxRan' /\ Distance'
BY DEF SandboxType, SandboxRan, Distance

(* A sandbox that was just cloned. *)
LEMMA FreshClone ==
  ASSUME BundleInv, NEW since \in 0..(Revisions - 1),
         sandbox' = [accounts |-> accounts, processed |-> transactions, written |-> {},
                     queue |-> queue, base_len |-> Len(queue), base_revision |-> since,
                     events |-> {}],
         executed' = 0, bundle' \in Bundles,
         UNCHANGED <<store_kind, accounts, transactions, queue, writes>>,
         revision' = since
  PROVE  /\ SandboxType' /\ SandboxRan' /\ Distance'
         /\ Running' => sandbox'.written = {bundle'[i] : i \in 1..executed'}
<1>1. /\ accounts \in [Account -> Nat] /\ transactions \subseteq Tx /\ queue \in Seq(Tx)
      /\ writes \in Nat
  BY DEF BundleInv, TypeOK
<1>2. sandbox' = [accounts |-> accounts, processed |-> transactions, written |-> {},
                  queue |-> queue, base_len |-> Len(queue), base_revision |-> since,
                  events |-> {}]
  OBVIOUS
<1>3. SandboxType'
  <2>1. /\ transactions \in SUBSET Tx /\ {} \in SUBSET Tx /\ Len(queue) \in Nat
        /\ {} \in SUBSET [tx : Tx, index : Nat]
    BY <1>1
  <2>2. sandbox' \in SandboxSet
    BY ONLY <1>1, <1>2, <2>1, since \in 0..(Revisions - 1), SandboxRecord
  <2> QED
    BY <2>2 DEF SandboxType
<1>4. SandboxRan'
  BY <1>1, <1>2 DEF SandboxRan
<1>5. Untouched'
  <2>1. AfterFirst(0, bundle', accounts) = accounts
    BY AfterFirstSteps
  <2> QED
    BY <1>2, <2>1 DEF Untouched
<1>6. Ahead(0)'
  BY <1>2, BundleAssumption DEF Ahead
<1>7. Distance'
  BY <1>1, <1>5, <1>6 DEF Distance
<1> QED
  BY <1>2, <1>3, <1>4, <1>7

(* What the new part of a sandbox's queue is once the bundle has run. *)
LEMMA NewIsBundle ==
  ASSUME BundleInv, Running, executed = Len(bundle)
  PROVE  /\ NewInSandbox = bundle
         /\ sandbox.written = Range(bundle)
         /\ \A t \in Tx : TimesRun(t) = IF t \in sandbox.written THEN 1 ELSE 0
<1>1. /\ sandbox.queue \in Seq(Tx) /\ sandbox.base_len \in Nat
      /\ Len(sandbox.queue) = sandbox.base_len + Len(bundle)
      /\ \A i \in 1..Len(bundle) : sandbox.queue[sandbox.base_len + i] = bundle[i]
      /\ \A i, j \in 1..Len(bundle) : bundle[i] = bundle[j] => i = j
      /\ sandbox.written = {bundle[i] : i \in 1..Len(bundle)}
  BY DEF BundleInv, SandboxType, SandboxSet, SandboxRan, TypeOK
<1>2. bundle \in Seq(Tx) /\ Len(bundle) \in Nat
  BY BundleShape DEF BundleInv, Running
<1>3. NewInSandbox = bundle
  <2>1. /\ NewInSandbox \in Seq(Tx) /\ Len(NewInSandbox) = Len(bundle)
        /\ \A i \in 1..Len(bundle) : NewInSandbox[i] = bundle[i]
    <3> DEFINE m == sandbox.base_len + 1
               n == Len(sandbox.queue)
    <3>1. m \in Int /\ n \in Int /\ n - m + 1 = Len(bundle)
      BY <1>1, <1>2
    <3>2. \A i \in m..n : sandbox.queue[i] \in Tx
      BY <1>1
    <3>3. \A i \in 1..Len(bundle) : m + i - 1 = sandbox.base_len + i
      BY <1>1, <1>2
    <3>4. NewInSandbox = SubSeq(sandbox.queue, m, n)
      BY DEF NewInSandbox
    <3> HIDE DEF m, n
    <3>5. /\ NewInSandbox \in Seq(Tx) /\ Len(NewInSandbox) = IF m <= n THEN n - m + 1 ELSE 0
          /\ \A i \in 1..(n - m + 1) : NewInSandbox[i] = sandbox.queue[m + i - 1]
      BY <3>1, <3>2, <3>4, SubSeqProperties
    <3>6. Len(NewInSandbox) = Len(bundle)
      BY <1>2, <3>1, <3>5
    <3>7. ASSUME NEW i \in 1..Len(bundle) PROVE NewInSandbox[i] = bundle[i]
      <4>1. i \in 1..(n - m + 1) /\ m + i - 1 = sandbox.base_len + i
        BY <3>1, <3>3
      <4> QED
        BY <1>1, <3>5, <4>1
    <3> QED
      BY <3>5, <3>6, <3>7
  <2> QED
    BY <1>2, <2>1, SeqEqual
<1>4. sandbox.written = Range(bundle)
  BY <1>1, <1>2 DEF Range
<1>5. ASSUME NEW t \in Tx PROVE TimesRun(t) = IF t \in sandbox.written THEN 1 ELSE 0
  <2> DEFINE places == {i \in DOMAIN bundle : bundle[i] = t}
  <2>1. CASE t \in sandbox.written
    <3>1. PICK i \in 1..Len(bundle) : bundle[i] = t
      BY <1>1, <2>1
    <3>2. places = {i}
      BY <1>1, <1>2, <3>1
    <3>3. Cardinality(places) = 1
      BY <3>2, FS_Singleton
    <3> QED
      BY <1>3, <2>1, <3>3 DEF TimesRun
  <2>2. CASE t \notin sandbox.written
    <3>1. places = {}
      BY <1>1, <1>2, <2>2
    <3>2. Cardinality(places) = 0
      BY <3>1, FS_EmptySet
    <3> QED
      BY <1>3, <2>2, <3>2 DEF TimesRun
  <2> QED
    BY <2>1, <2>2
<1> QED
  BY <1>3, <1>4, <1>5

(* A sandbox that is not stale was cloned from the live state as it is. *)
LEMMA NotStaleIsUntouched ==
  ASSUME BundleInv, Running, ~IsStale
  PROVE  Untouched
<1>1. PICK k \in 0..writes : Ahead(k) /\ (k = 0 => Untouched)
  BY DEF BundleInv, Distance
<1>2. /\ revision = sandbox.base_revision /\ revision \in 0..(Revisions - 1)
      /\ writes \in 0..MaxWrites
  BY DEF BundleInv, IsStale, TypeOK
<1>3. k = 0
  BY <1>1, <1>2, BundleAssumption DEF Ahead
<1> QED
  BY <1>1, <1>3

-----------------------------------------------------------------------------
(* Every step preserves the invariant *)

LEMMA BundleInvInit == Init => BundleInv
<1> SUFFICES ASSUME Init PROVE BundleInv
  OBVIOUS
<1>1. ~Running
  BY DEF Init, Running, Idle
<1>2. TypeOK
  <2>1. accounts \in [Account -> Nat]
    BY BundleAssumption DEF Init
  <2>2. revision \in 0..(Revisions - 1) /\ attempt \in 0..MaxAttempts /\ executed \in 0..Len(bundle)
    BY BundleAssumption DEF Init
  <2>3. effects \in [Tx -> Nat]
    BY DEF Init
  <2>4. DOMAIN answer \subseteq Bundles
    BY DEF Init
  <2>5. queue \in Seq(Tx)
    BY DEF Init
  <2> QED
    BY <1>1, <2>1, <2>2, <2>3, <2>4, <2>5 DEF Init, TypeOK
<1>3. SandboxType /\ SandboxRan /\ Distance
  BY <1>1 DEF SandboxType, SandboxRan, Distance
<1>4. RanIsStored /\ RunsAtMostOnce
  BY DEF Init, RanIsStored, RunsAtMostOnce
<1> QED
  BY <1>2, <1>3, <1>4, BundleAssumption DEF Init, BundleInv

LEMMA ProcessTransactionKeeps ==
  ASSUME BundleInv, NEW t \in Tx, ProcessTransaction(t)
  PROVE  BundleInv'
<1>1. ~Running'
  BY DEF ProcessTransaction, runloop, Running, Idle
<1>2. accounts' \in [Account -> Nat]
  BY TransferType DEF ProcessTransaction, BundleInv, TypeOK
<1>3. /\ transactions' \subseteq Tx /\ queue' \in Seq(Tx)
      /\ announced' \subseteq [tx : Tx, index : Nat]
  BY DEF ProcessTransaction, BundleInv, TypeOK
<1>4. effects[t] = 0 /\ effects' \in [Tx -> Nat]
  BY DEF ProcessTransaction, BundleInv, TypeOK, RanIsStored
<1>5. TypeOK'
  BY <1>1, <1>2, <1>3, <1>4, RevisionMoves DEF ProcessTransaction, BundleInv, TypeOK, runloop
<1>6. RanIsStored' /\ RunsAtMostOnce'
  BY <1>4 DEF ProcessTransaction, BundleInv, TypeOK, RanIsStored, RunsAtMostOnce
<1> QED
  BY <1>1, <1>5, <1>6, WithoutSandbox DEF ProcessTransaction, counters, BundleInv

LEMMA CloseBlockKeeps ==
  ASSUME BundleInv, CloseBlock
  PROVE  BundleInv'
<1>1. ~Running'
  BY DEF CloseBlock, runloop, Running, Idle
<1>2. TypeOK'
  BY <1>1, RevisionMoves DEF CloseBlock, BundleInv, TypeOK, runloop
<1>3. RanIsStored' /\ RunsAtMostOnce'
  BY DEF CloseBlock, BundleInv, RanIsStored, RunsAtMostOnce
<1> QED
  BY <1>1, <1>2, <1>3, WithoutSandbox DEF CloseBlock, BundleInv

LEMMA TakeBundleKeeps ==
  ASSUME BundleInv, NEW b \in Bundles, TakeBundle(b)
  PROVE  BundleInv'
<1>1. /\ revision \in 0..(Revisions - 1)
      /\ sandbox' = [accounts |-> accounts, processed |-> transactions, written |-> {},
                     queue |-> queue, base_len |-> Len(queue), base_revision |-> revision,
                     events |-> {}]
  BY DEF TakeBundle, CloneForBundle, BundleInv, TypeOK
<1>2. /\ SandboxType' /\ SandboxRan' /\ Distance'
      /\ Running' => sandbox'.written = {bundle'[i] : i \in 1..executed'}
  BY <1>1, FreshClone DEF TakeBundle, live, counters
<1>3. executed' \in 0..Len(bundle') /\ attempt' \in 0..MaxAttempts
  BY BundleAssumption DEF TakeBundle
<1>4. TypeOK'
  BY <1>2, <1>3 DEF TakeBundle, BundleInv, TypeOK, live
<1>5. RanIsStored' /\ RunsAtMostOnce'
  BY DEF TakeBundle, live, BundleInv, RanIsStored, RunsAtMostOnce
<1> QED
  BY <1>2, <1>4, <1>5 DEF TakeBundle, counters, BundleInv

(* The sandbox gains the next transaction; the live state is not touched. *)
LEMMA ExecuteInSandboxKeeps ==
  ASSUME BundleInv, ExecuteInSandbox
  PROVE  BundleInv'
<1> DEFINE n == executed + 1
<1>1. /\ Running /\ executed \in Nat /\ n \in 1..Len(bundle) /\ NextTx = bundle[n] /\ NextTx \in Tx
      /\ executed' = n /\ bundle \in Seq(Tx) /\ bundle \in Bundles
  BY BundleShape DEF ExecuteInSandbox, BundleInv, TypeOK, Running, NextTx
<1>2. /\ sandbox \in SandboxSet
      /\ Len(sandbox.queue) = sandbox.base_len + executed
      /\ \A i \in 1..executed : sandbox.queue[sandbox.base_len + i] = bundle[i]
      /\ sandbox.events =
           {[tx |-> bundle[i], index |-> sandbox.base_len + i - 1] : i \in 1..executed}
      /\ \A i, j \in 1..executed : bundle[i] = bundle[j] => i = j
      /\ sandbox.written = {bundle[i] : i \in 1..executed}
  BY <1>1 DEF BundleInv, SandboxType, SandboxRan, TypeOK
<1>3. 1..n = 1..executed \cup {n}
  BY <1>1
<1>4. /\ sandbox'.accounts = Transferred(NextTx, sandbox.accounts)
      /\ sandbox'.processed = sandbox.processed
      /\ sandbox'.written = sandbox.written \cup {NextTx}
      /\ sandbox'.events = sandbox.events \cup {[tx |-> NextTx, index |-> Len(sandbox.queue)]}
      /\ sandbox'.queue = Append(sandbox.queue, NextTx)
      /\ sandbox'.base_len = sandbox.base_len
      /\ sandbox'.base_revision = sandbox.base_revision
  BY <1>2 DEF ExecuteInSandbox, SandboxSet
<1>5. sandbox' \in SandboxSet
  <2>1. Transferred(NextTx, sandbox.accounts) \in [Account -> Nat]
    BY <1>1, <1>2, TransferType DEF ExecuteInSandbox, SandboxSet
  <2>2. [tx |-> NextTx, index |-> Len(sandbox.queue)] \in [tx : Tx, index : Nat]
    BY <1>1, <1>2 DEF SandboxSet
  <2>3. sandbox' = [accounts |-> sandbox'.accounts, processed |-> sandbox'.processed,
                    written |-> sandbox'.written, queue |-> sandbox'.queue,
                    base_len |-> sandbox'.base_len, base_revision |-> sandbox'.base_revision,
                    events |-> sandbox'.events]
    BY <1>2 DEF ExecuteInSandbox, SandboxSet
  <2>4. /\ sandbox'.accounts \in [Account -> Nat] /\ sandbox'.processed \in SUBSET Tx
        /\ sandbox'.written \in SUBSET Tx /\ sandbox'.queue \in Seq(Tx)
        /\ sandbox'.base_len \in Nat /\ sandbox'.base_revision \in 0..(Revisions - 1)
        /\ sandbox'.events \in SUBSET [tx : Tx, index : Nat]
    BY <1>1, <1>2, <1>4, <2>1, <2>2 DEF SandboxSet
  <2> DEFINE as == sandbox'.accounts
             ps == sandbox'.processed
             ws == sandbox'.written
             q  == sandbox'.queue
             l  == sandbox'.base_len
             r  == sandbox'.base_revision
             es == sandbox'.events
  <2> HIDE DEF as, ps, ws, q, l, r, es
  <2>5. [accounts |-> as, processed |-> ps, written |-> ws, queue |-> q, base_len |-> l,
         base_revision |-> r, events |-> es] \in SandboxSet
    BY ONLY <2>4, SandboxRecord DEF as, ps, ws, q, l, r, es
  <2> QED
    BY <2>3, <2>5 DEF as, ps, ws, q, l, r, es
<1>6. SandboxType'
  BY <1>5 DEF SandboxType
<1>7. SandboxRan'
  <2>1. Len(sandbox'.queue) = sandbox'.base_len + n
    <3>1. sandbox.queue \in Seq(Tx) /\ sandbox.base_len \in Nat
      BY <1>2 DEF SandboxSet
    <3>2. Len(Append(sandbox.queue, NextTx)) = Len(sandbox.queue) + 1
      BY <3>1, <1>1
    <3>3. Len(sandbox.queue) = sandbox.base_len + executed /\ executed \in Nat
      BY <1>1, <1>2
    <3>4. sandbox'.queue = Append(sandbox.queue, NextTx) /\ sandbox'.base_len = sandbox.base_len
      BY <1>4
    <3> QED
      BY <3>1, <3>2, <3>3, <3>4
  <2>2. ASSUME NEW i \in 1..n PROVE sandbox'.queue[sandbox'.base_len + i] = bundle[i]
    <3>1. /\ sandbox.queue \in Seq(Tx) /\ sandbox.base_len \in Nat
          /\ sandbox'.queue = Append(sandbox.queue, NextTx)
      BY <1>2, <1>4 DEF SandboxSet
    <3>2. CASE i = n
      BY <1>1, <1>2, <1>4, <3>1, <3>2
    <3>3. CASE i \in 1..executed
      <4>1. sandbox.base_len + i \in 1..Len(sandbox.queue)
        BY <1>1, <1>2, <3>1, <3>3
      <4>2. sandbox'.queue[sandbox.base_len + i] = sandbox.queue[sandbox.base_len + i]
        BY <3>1, <4>1
      <4> QED
        BY <1>2, <1>4, <3>3, <4>2
    <3> QED
      BY <1>3, <3>2, <3>3
  <2>3. sandbox'.events = {[tx |-> bundle[i], index |-> sandbox'.base_len + i - 1] : i \in 1..n}
    <3>1. Len(sandbox.queue) = sandbox.base_len + n - 1
      BY <1>1, <1>2 DEF SandboxSet
    <3> QED
      BY <1>1, <1>2, <1>3, <1>4, <3>1
  <2>4. NextTx \notin sandbox.written
    BY DEF ExecuteInSandbox, SeesProcessed
  <2>5. \A i, j \in 1..n : bundle[i] = bundle[j] => i = j
    BY <1>1, <1>2, <1>3, <2>4
  <2>6. bundle' = bundle /\ executed' = n
    BY <1>1 DEF ExecuteInSandbox
  <2> HIDE DEF n
  <2> QED
    BY <2>1, <2>2, <2>3, <2>5, <2>6 DEF SandboxRan
<1>8. Distance'
  <2>1. PICK k \in 0..writes : Ahead(k) /\ (k = 0 => Untouched)
    BY <1>1 DEF BundleInv, Distance
  <2>2. Ahead(k)'
    BY <1>4, <2>1 DEF Ahead, ExecuteInSandbox, live
  <2>3. ASSUME Untouched PROVE Untouched'
    <3>1. NextTx \notin transactions
      BY <2>3 DEF Untouched, ExecuteInSandbox, SeesProcessed
    <3>2. Transferred(NextTx, sandbox.accounts) = AfterFirst(n, bundle, accounts)
      <4>1. AfterFirst(n, bundle, accounts)
              = Transferred(bundle[n], AfterFirst(executed, bundle, accounts))
        BY <1>1, AfterFirstSteps
      <4> QED
        BY <1>1, <2>3, <4>1 DEF Untouched
    <3> QED
      BY <1>1, <1>4, <2>3, <3>1, <3>2 DEF Untouched, ExecuteInSandbox, live
  <2> QED
    BY <2>1, <2>2, <2>3 DEF Distance, ExecuteInSandbox, counters
<1>9. TypeOK'
  <2>1. sandbox'.written = {bundle[i] : i \in 1..n}
    BY <1>1, <1>2, <1>3, <1>4
  <2> QED
    BY <1>1, <2>1 DEF ExecuteInSandbox, BundleInv, TypeOK, live
<1>10. RanIsStored' /\ RunsAtMostOnce'
  BY DEF ExecuteInSandbox, live, BundleInv, RanIsStored, RunsAtMostOnce
<1> QED
  BY <1>6, <1>7, <1>8, <1>9, <1>10 DEF ExecuteInSandbox, counters, BundleInv

(* A reply ends the bundle. *)
LEMMA ReplyType ==
  ASSUME BundleInv, ~Idle, NEW outcome, Reply(outcome)
  PROVE  /\ ~Running' /\ bundle' = <<>>
         /\ attempt' \in 0..MaxAttempts /\ executed' \in 0..Len(bundle')
         /\ DOMAIN answer' \subseteq Bundles
BY BundleShape, BundleAssumption DEF Reply, Running, Idle, BundleInv, TypeOK

LEMMA AbortBundleKeeps ==
  ASSUME BundleInv, AbortBundle
  PROVE  BundleInv'
<1>1. ~Idle /\ Reply("failed")
  BY DEF AbortBundle, Running
<1>2. TypeOK'
  BY <1>1, ReplyType DEF AbortBundle, live, BundleInv, TypeOK
<1>3. RanIsStored' /\ RunsAtMostOnce'
  BY DEF AbortBundle, live, BundleInv, RanIsStored, RunsAtMostOnce
<1> QED
  BY <1>1, <1>2, <1>3, ReplyType, WithoutSandbox DEF AbortBundle, counters, BundleInv

LEMMA RetryBundleKeeps ==
  ASSUME BundleInv, RetryBundle
  PROVE  BundleInv'
<1>1. ~Idle /\ NextRevision \in 0..(Revisions - 1)
  BY RevisionMoves DEF RetryBundle, Running, BundleInv, TypeOK
<1>2. RanIsStored' /\ RunsAtMostOnce'
  BY DEF RetryBundle, BundleInv, RanIsStored, RunsAtMostOnce
<1>3. CASE GivesUp
  <2>1. Reply("failed")
    BY <1>3 DEF RetryBundle
  <2>2. TypeOK'
    BY <1>1, <2>1, ReplyType DEF RetryBundle, BundleInv, TypeOK
  <2> QED
    BY <1>1, <1>2, <2>1, <2>2, ReplyType, WithoutSandbox DEF RetryBundle, counters, BundleInv
<1>4. CASE ~GivesUp
  <2>1. bundle \in Bundles /\ Len(bundle) \in Nat
    BY <1>1, BundleShape DEF BundleInv
  <2>2. /\ SandboxType' /\ SandboxRan' /\ Distance'
        /\ Running' => sandbox'.written = {bundle'[i] : i \in 1..executed'}
    <3>1. sandbox' = [accounts |-> accounts, processed |-> transactions, written |-> {},
                      queue |-> queue, base_len |-> Len(queue), base_revision |-> NextRevision,
                      events |-> {}]
      BY <1>4 DEF RetryBundle, CloneForBundle
    <3> QED
      BY <1>1, <1>4, <2>1, <3>1, FreshClone DEF RetryBundle, counters
  <2>3. attempt' \in 0..MaxAttempts /\ executed' \in 0..Len(bundle')
    <3>1. attempt \in 0..MaxAttempts /\ MaxAttempts \in Nat
      BY BundleAssumption DEF BundleInv, TypeOK
    <3>2. attempt' = attempt + 1 /\ attempt < MaxAttempts /\ executed' = 0 /\ bundle' = bundle
      BY <1>4, <3>1 DEF RetryBundle, GivesUp
    <3> QED
      BY <2>1, <3>1, <3>2
  <2>4. TypeOK'
    BY <1>1, <1>4, <2>2, <2>3 DEF RetryBundle, BundleInv, TypeOK
  <2> QED
    BY <1>2, <2>2, <2>4 DEF RetryBundle, counters, BundleInv
<1> QED
  BY <1>3, <1>4

(* A commit is of transactions that were not stored, each once. *)
LEMMA CommitRunsOnce ==
  ASSUME BundleInv, ReadyToCommit,
         transactions' = transactions \cup sandbox.written,
         effects' = [t \in Tx |-> effects[t] + TimesRun(t)]
  PROVE  /\ effects' \in [Tx -> Nat]
         /\ RanIsStored' /\ RunsAtMostOnce'
<1>1. /\ sandbox.written \cap transactions = {}
      /\ \A t \in Tx : TimesRun(t) = IF t \in sandbox.written THEN 1 ELSE 0
  BY NewIsBundle, NotStaleIsUntouched DEF ReadyToCommit, Untouched
<1>2. /\ effects \in [Tx -> Nat]
      /\ \A t \in Tx : effects[t] <= 1 /\ (effects[t] > 0 => t \in transactions)
  BY DEF BundleInv, TypeOK, RanIsStored, RunsAtMostOnce
<1>3. ASSUME NEW t \in Tx
      PROVE  effects'[t] \in Nat /\ effects'[t] <= 1 /\ (effects'[t] > 0 => t \in transactions')
  <2>1. effects'[t] = effects[t] + TimesRun(t) /\ effects[t] \in Nat
    BY <1>2
  <2>2. CASE t \in sandbox.written
    BY <1>1, <1>2, <2>1, <2>2
  <2>3. CASE t \notin sandbox.written
    BY <1>1, <1>2, <2>1, <2>3
  <2> QED
    BY <2>2, <2>3
<1> QED
  BY <1>3 DEF RanIsStored, RunsAtMostOnce

(* What a sandbox holds has the types of the live state. *)
LEMMA CommitTypes ==
  ASSUME BundleInv, Running, executed = Len(bundle)
  PROVE  /\ bundle \in Bundles /\ bundle \in Seq(Tx)
         /\ sandbox.accounts \in [Account -> Nat] /\ sandbox.written \subseteq Tx
         /\ queue \o NewInSandbox \in Seq(Tx)
         /\ announced \cup {[tx |-> e.tx, index |-> RebasedIndex(e)] : e \in sandbox.events}
              \subseteq [tx : Tx, index : Nat]
<1>1. /\ bundle \in Seq(Tx) /\ Len(bundle) \in Nat /\ bundle \in Bundles
      /\ \A i \in 1..Len(bundle) : bundle[i] \in Tx
  BY BundleShape DEF BundleInv, Running
<1>2. sandbox \in SandboxSet
  BY DEF BundleInv, SandboxType
<1>3. queue \in Seq(Tx) /\ announced \subseteq [tx : Tx, index : Nat]
  BY DEF BundleInv, TypeOK
<1>4. ASSUME NEW e \in sandbox.events
      PROVE  [tx |-> e.tx, index |-> RebasedIndex(e)] \in [tx : Tx, index : Nat]
  <2>1. PICK i \in 1..Len(bundle) : e = [tx |-> bundle[i], index |-> sandbox.base_len + i - 1]
    BY <1>4 DEF BundleInv, SandboxRan
  <2>2. RebasedIndex(e) = Len(queue) + (i - 1)
    BY <1>2, <1>3, <2>1 DEF RebasedIndex, SandboxSet
  <2> QED
    BY <1>1, <1>3, <2>1, <2>2
<1>5. queue \o NewInSandbox \in Seq(Tx)
  BY <1>1, <1>3, NewIsBundle
<1> QED
  BY <1>1, <1>2, <1>3, <1>4, <1>5 DEF SandboxSet

LEMMA CommitBundleKeeps ==
  ASSUME BundleInv, CommitBundle
  PROVE  BundleInv'
<1>1. ReadyToCommit /\ CommitToLive /\ Running /\ executed = Len(bundle)
  BY DEF CommitBundle, ReadyToCommit
<1>2. ~Running'
  BY DEF CommitBundle, Running
<1>3. effects' \in [Tx -> Nat] /\ RanIsStored' /\ RunsAtMostOnce'
  BY <1>1, CommitRunsOnce DEF CommitToLive
<1>4. TypeOK'
  BY <1>1, <1>2, <1>3, CommitTypes, RevisionMoves
  DEF CommitBundle, CommitToLive, BundleInv, TypeOK
<1> QED
  BY <1>2, <1>3, <1>4, WithoutSandbox DEF CommitBundle, counters, BundleInv

LEMMA StoreBundleKeeps ==
  ASSUME BundleInv, StoreBundle
  PROVE  BundleInv'
<1>1. ~Idle /\ Reply("ok") /\ bundle \in Bundles
  BY BundleShape DEF StoreBundle, Committed, BundleInv
<1>2. TypeOK'
  BY <1>1, ReplyType, RevisionMoves DEF StoreBundle, BundleInv, TypeOK
<1>3. RanIsStored' /\ RunsAtMostOnce'
  BY DEF StoreBundle, BundleInv, RanIsStored, RunsAtMostOnce
<1> QED
  BY <1>1, <1>2, <1>3, ReplyType, WithoutSandbox DEF StoreBundle, counters, BundleInv

(* A commit that the store cut short: some of its transactions are stored  *)
(* and none ran, or all are and ran.                                       *)
LEMMA CommitFailsKeeps ==
  ASSUME BundleInv, CommitFails
  PROVE  BundleInv'
<1>1. /\ ReadyToCommit /\ Running /\ executed = Len(bundle) /\ StoreRefuses
      /\ ~Idle /\ Reply("failed")
  BY DEF CommitFails, ReadyToCommit, Running, StoreRefuses
<1>2. /\ transactions' \subseteq Tx /\ accounts' \in [Account -> Nat] /\ effects' \in [Tx -> Nat]
      /\ RanIsStored' /\ RunsAtMostOnce'
  <2>1. CASE /\ \E stored \in SUBSET sandbox.written : transactions' = transactions \cup stored
             /\ UNCHANGED <<accounts, effects>>
    BY <1>1, <2>1, CommitTypes DEF BundleInv, TypeOK, RanIsStored, RunsAtMostOnce
  <2>2. CASE /\ transactions' = transactions \cup sandbox.written
             /\ accounts' = sandbox.accounts
             /\ effects' = [t \in Tx |-> effects[t] + TimesRun(t)]
    BY <1>1, <2>2, CommitTypes, CommitRunsOnce DEF BundleInv, TypeOK
  <2> QED
    BY <2>1, <2>2 DEF CommitFails
<1>3. TypeOK'
  BY <1>1, <1>2, ReplyType, RevisionMoves DEF StoreRefuses, BundleInv, TypeOK
<1>4. writes' \in 0..MaxWrites /\ store_failures' \in Nat
  BY <1>1 DEF StoreRefuses, BundleInv
<1> QED
  BY <1>1, <1>2, <1>3, <1>4, ReplyType, WithoutSandbox DEF BundleInv

LEMMA StoreBundleFailsKeeps ==
  ASSUME BundleInv, StoreBundleFails
  PROVE  BundleInv'
<1>1. StoreRefuses /\ ~Idle /\ Reply("failed")
  BY DEF StoreBundleFails, Committed, StoreRefuses
<1>2. TypeOK'
  BY <1>1, ReplyType, RevisionMoves DEF StoreBundleFails, StoreRefuses, BundleInv, TypeOK
<1>3. RanIsStored' /\ RunsAtMostOnce'
  BY DEF StoreBundleFails, BundleInv, RanIsStored, RunsAtMostOnce
<1>4. writes' \in 0..MaxWrites /\ store_failures' \in Nat
  BY <1>1 DEF StoreRefuses, BundleInv
<1> QED
  BY <1>1, <1>2, <1>3, <1>4, ReplyType, WithoutSandbox DEF BundleInv

(* A write of an RPC thread puts the live state one revision further away  *)
(* from whatever sandbox is running.                                       *)
LEMMA WriteMovesAway ==
  ASSUME BundleInv, CountWrite, revision' = NextRevision,
         UNCHANGED <<bundle, sandbox, executed>>
  PROVE  SandboxType' /\ SandboxRan' /\ Distance' /\ writes' \in 0..MaxWrites
<1>1. Running' = Running
  BY DEF Running, Idle
<1>2. SandboxType' /\ SandboxRan'
  BY <1>1 DEF BundleInv, SandboxType, SandboxRan
<1>3. writes \in 0..MaxWrites /\ writes' = writes + 1 /\ writes' \in 0..MaxWrites
  BY BundleAssumption DEF CountWrite, BundleInv
<1>4. ASSUME Running PROVE \E k \in 0..writes' : Ahead(k)' /\ (k = 0 => Untouched')
  <2>1. PICK k \in 0..writes : Ahead(k)
    BY <1>4 DEF BundleInv, Distance
  <2>2. /\ revision \in 0..(Revisions - 1) /\ sandbox.base_revision \in 0..(Revisions - 1)
        /\ revision' = IF revision + 1 = Revisions THEN 0 ELSE revision + 1
    BY <1>4, RevisionMoves DEF BundleInv, TypeOK, SandboxType, SandboxSet
  <2>3. k + 1 <= MaxWrites /\ k + 1 \in 0..writes' /\ k + 1 # 0
    <3>1. k \in 0..writes /\ MaxWrites \in Nat
      BY <2>1, BundleAssumption
    <3> QED
      BY <1>3, <3>1
  <2>4. Ahead(k + 1)'
    BY <1>3, <2>1, <2>2, <2>3, BundleAssumption DEF Ahead
  <2> QED
    BY <2>3, <2>4
<1> QED
  BY <1>1, <1>2, <1>3, <1>4 DEF Distance

LEMMA SetAccountKeeps ==
  ASSUME BundleInv, NEW a \in Account, NEW lamports \in Balances, SetAccount(a, lamports)
  PROVE  BundleInv'
<1>1. SandboxType' /\ SandboxRan' /\ Distance' /\ writes' \in 0..MaxWrites
  BY WriteMovesAway DEF SetAccount, runloop
<1>2. accounts' \in [Account -> Nat]
  BY BundleAssumption DEF SetAccount, BundleInv, TypeOK
<1>3. TypeOK'
  BY <1>2, RevisionMoves DEF SetAccount, BundleInv, TypeOK, runloop, Running, Idle
<1>4. RanIsStored' /\ RunsAtMostOnce'
  BY DEF SetAccount, BundleInv, RanIsStored, RunsAtMostOnce
<1> QED
  BY <1>1, <1>3, <1>4 DEF SetAccount, BundleInv

LEMMA ResetNetworkKeeps ==
  ASSUME BundleInv, ResetNetwork
  PROVE  BundleInv'
<1>1. SandboxType' /\ SandboxRan' /\ Distance' /\ writes' \in 0..MaxWrites
  BY WriteMovesAway DEF ResetNetwork, runloop
<1>2. TypeOK'
  BY RevisionMoves DEF ResetNetwork, BundleInv, TypeOK, runloop, Running, Idle
<1>3. RanIsStored' /\ RunsAtMostOnce'
  BY DEF ResetNetwork, RanIsStored, RunsAtMostOnce
<1> QED
  BY <1>1, <1>2, <1>3 DEF ResetNetwork, BundleInv

LEMMA BundleInvNext == BundleInv /\ [Next]_vars => BundleInv'
<1> SUFFICES ASSUME BundleInv, [Next]_vars PROVE BundleInv'
  OBVIOUS
<1>1. CASE RunloopNext
  BY <1>1, TakeBundleKeeps, ExecuteInSandboxKeeps, AbortBundleKeeps, RetryBundleKeeps,
     CommitBundleKeeps, StoreBundleKeeps, CommitFailsKeeps, StoreBundleFailsKeeps
  DEF RunloopNext
<1>2. CASE \E t \in Sent : ProcessTransaction(t)
  BY <1>2, ProcessTransactionKeeps, BundleAssumption
<1>3. CASE CloseBlock
  BY <1>3, CloseBlockKeeps
<1>4. CASE \E a \in Account, lamports \in Balances : SetAccount(a, lamports)
  BY <1>4, SetAccountKeeps
<1>5. CASE ResetNetwork
  BY <1>5, ResetNetworkKeeps
<1>6. CASE UNCHANGED vars
  BY <1>6 DEF vars, live, runloop, counters, BundleInv, TypeOK, SandboxType, SandboxRan, Distance,
              Untouched, Ahead, RanIsStored, RunsAtMostOnce, Running, Idle
<1> QED
  BY <1>1, <1>2, <1>3, <1>4, <1>5, <1>6 DEF Next

LEMMA BundleInvHolds == Spec => []BundleInv
BY BundleInvInit, BundleInvNext, PTL DEF Spec

-----------------------------------------------------------------------------
(* Theorems *)

(* Every variable keeps its type, and what a sandbox has written is the    *)
(* part of the bundle that has run.                                        *)
THEOREM BundleTypeCorrect == Spec => []TypeOK
<1>1. BundleInv => TypeOK
  BY DEF BundleInv
<1> QED
  BY <1>1, BundleInvHolds, PTL

(* No transaction runs twice on the live state, however bundles, single    *)
(* transactions, writes of RPC threads, refused commits and repeats come.  *)
THEOREM RunsOnce == Spec => []RunsAtMostOnce
<1>1. BundleInv => RunsAtMostOnce
  BY DEF BundleInv
<1> QED
  BY <1>1, BundleInvHolds, PTL

(* A commit gives the live state the accounts and the queue that running   *)
(* the whole bundle there in that instant would have given it.             *)
THEOREM CommitsAtomically == Spec => CommitIsAtomic
<1> DEFINE Atomic == Commits => /\ accounts' = AfterAll(bundle, accounts)
                                /\ queue' = queue \o bundle
<1>1. ASSUME BundleInv, [Next]_vars, Commits PROVE CommitBundle
  <2>1. Running /\ ~Idle' /\ sandbox' = NoSandbox /\ sandbox # NoSandbox
    BY <1>1 DEF Commits, Running
  <2>2. ASSUME NEW outcome, Reply(outcome) PROVE FALSE
    BY <2>1, <2>2 DEF Reply, Idle
  <2>3. ~ExecuteInSandbox
    <3>1. ASSUME ExecuteInSandbox PROVE FALSE
      <4>1. "processed" \in DOMAIN sandbox /\ DOMAIN sandbox' = DOMAIN sandbox
        BY <1>1, <2>1, <3>1 DEF ExecuteInSandbox, BundleInv, SandboxType, SandboxSet
      <4> QED
        BY <2>1, <4>1, SandboxIsThere
    <3> QED
      BY <3>1
  <2>4. ~RetryBundle
    <3>1. [CloneForBundle EXCEPT !.base_revision = NextRevision] # NoSandbox
      BY SandboxIsThere DEF CloneForBundle
    <3> QED
      BY <2>1, <2>2, <3>1 DEF RetryBundle
  <2>5. /\ ~\E b \in Bundles : TakeBundle(b)
        /\ ~AbortBundle /\ ~StoreBundle /\ ~CommitFails /\ ~StoreBundleFails
    BY <2>1, <2>2 DEF TakeBundle, AbortBundle, StoreBundle, CommitFails, StoreBundleFails,
                      StoreRefuses, Running
  <2>6. /\ ~\E t \in Sent : ProcessTransaction(t)
        /\ ~CloseBlock /\ ~ResetNetwork
        /\ ~\E a \in Account, lamports \in Balances : SetAccount(a, lamports)
        /\ ~UNCHANGED vars
    BY <2>1 DEF ProcessTransaction, CloseBlock, SetAccount, ResetNetwork, vars, runloop
  <2> QED
    BY <1>1, <2>3, <2>4, <2>5, <2>6 DEF Next, RunloopNext
<1>2. ASSUME BundleInv, [Next]_vars PROVE [Atomic]_vars
  <2>1. SUFFICES ASSUME Commits PROVE /\ accounts' = AfterAll(bundle, accounts)
                                      /\ queue' = queue \o bundle
    OBVIOUS
  <2>2. /\ Running /\ executed = Len(bundle) /\ ~IsStale
        /\ accounts' = sandbox.accounts /\ queue' = queue \o NewInSandbox
    BY <1>1, <1>2, <2>1 DEF CommitBundle, ReadyToCommit, CommitToLive
  <2>3. Untouched /\ NewInSandbox = bundle
    BY <1>2, <2>2, NotStaleIsUntouched, NewIsBundle
  <2> QED
    BY <2>2, <2>3 DEF Untouched, AfterAll
<1>3. BundleInv /\ [Next]_vars => [Atomic]_vars
  BY <1>2
<1> QED
  BY <1>3, BundleInvHolds, PTL DEF Spec, CommitIsAtomic

(* While the store refused nothing, a stored transaction that nobody sent  *)
(* by itself is there together with all of a bundle it came in.            *)
THEOREM BundlesAreWhole == Spec => []AllOrNothing
<1>1. Init => AllOrNothing
  BY DEF Init, AllOrNothing
<1>2. ASSUME BundleInv, AllOrNothing, [Next]_vars PROVE AllOrNothing'
  <2>1. CASE UNCHANGED <<transactions, store_failures>>
    BY <1>2, <2>1 DEF AllOrNothing
  <2>2. ASSUME NEW t \in Sent, ProcessTransaction(t) PROVE AllOrNothing'
    BY <1>2, <2>2 DEF ProcessTransaction, counters, AllOrNothing
  <2>3. CASE ResetNetwork
    BY <2>3 DEF ResetNetwork, AllOrNothing
  <2>4. CASE StoreRefuses
    BY <1>2, <2>4 DEF StoreRefuses, BundleInv, AllOrNothing
  <2>5. CASE CommitBundle
    <3>1. sandbox.written = Range(bundle) /\ bundle \in Bundles
      BY <1>2, <2>5, NewIsBundle, BundleShape DEF CommitBundle, ReadyToCommit, Running, BundleInv
    <3> QED
      BY <1>2, <2>5, <3>1 DEF CommitBundle, CommitToLive, counters, AllOrNothing
  <2>6. CASE \/ \E b \in Bundles : TakeBundle(b)
             \/ ExecuteInSandbox \/ AbortBundle \/ RetryBundle \/ StoreBundle \/ CloseBlock
             \/ \E a \in Account, lamports \in Balances : SetAccount(a, lamports)
             \/ UNCHANGED vars
    BY <2>1, <2>6 DEF TakeBundle, ExecuteInSandbox, AbortBundle, RetryBundle, StoreBundle,
                      CloseBlock, SetAccount, vars, live, counters
  <2> QED
    BY <1>2, <2>2, <2>3, <2>4, <2>5, <2>6 DEF Next, RunloopNext, CommitFails, StoreBundleFails
<1>3. BundleInv /\ AllOrNothing /\ [Next]_vars => AllOrNothing'
  BY <1>2
<1> QED
  BY <1>1, <1>3, BundleInvHolds, PTL DEF Spec

(* What Geyser was told of the transactions of the open block is their     *)
(* order in it: the commit moves a bundle's indices past the live queue.   *)
THEOREM AnnouncesInOrder == Spec => []AnnouncedInOrder
<1> DEFINE Told == announced = {[tx |-> queue[i], index |-> i - 1] : i \in DOMAIN queue}
<1>1. Init => Told
  BY DEF Init
<1>2. ASSUME BundleInv, Told, [Next]_vars PROVE Told'
  <2>1. CASE UNCHANGED <<announced, queue>>
    BY <1>2, <2>1
  <2>2. CASE queue' = <<>> /\ announced' = {}
    BY <2>2
  <2>3. ASSUME NEW q \in Seq(Tx), queue' = queue \o q,
               announced' = announced \cup
                 {[tx |-> q[i], index |-> Len(queue) + i - 1] : i \in 1..Len(q)}
        PROVE  Told'
    <3>1. /\ queue \in Seq(Tx) /\ Len(queue) \in Nat /\ Len(q) \in Nat
          /\ DOMAIN queue = 1..Len(queue) /\ DOMAIN queue' = 1..(Len(queue) + Len(q))
      BY <1>2, <2>3 DEF BundleInv, TypeOK
    <3>2. \A i \in 1..Len(queue) : queue'[i] = queue[i]
      BY <2>3, <3>1
    <3>3. ASSUME NEW i \in 1..Len(q)
          PROVE  queue'[Len(queue) + i] = q[i] /\ (Len(queue) + i) - 1 = Len(queue) + i - 1
      BY <2>3, <3>1
    <3> DEFINE old   == {[tx |-> queue[i], index |-> i - 1] : i \in 1..Len(queue)}
               fresh == {[tx |-> q[i], index |-> Len(queue) + i - 1] : i \in 1..Len(q)}
               all   == {[tx |-> queue'[i], index |-> i - 1] : i \in 1..(Len(queue) + Len(q))}
    <3>4. old \cup fresh \subseteq all
      <4>1. \A i \in 1..Len(queue) : i \in 1..(Len(queue) + Len(q))
        BY <3>1
      <4>2. \A i \in 1..Len(q) : Len(queue) + i \in 1..(Len(queue) + Len(q))
        BY <3>1
      <4>3. old \subseteq all
        BY <3>2, <4>1
      <4>4. fresh \subseteq all
        BY <3>3, <4>2
      <4> QED
        BY <4>3, <4>4
    <3>5. all \subseteq old \cup fresh
      <4>1. ASSUME NEW i \in 1..(Len(queue) + Len(q))
            PROVE  [tx |-> queue'[i], index |-> i - 1] \in old \cup fresh
        <5>1. CASE i \in 1..Len(queue)
          BY <3>2, <5>1
        <5>2. CASE i \notin 1..Len(queue)
          <6>1. i - Len(queue) \in 1..Len(q) /\ Len(queue) + (i - Len(queue)) = i
            BY <3>1, <5>2
          <6> QED
            BY <3>3, <6>1
        <5> QED
          BY <5>1, <5>2
      <4> QED
        BY <4>1
    <3> QED
      BY <1>2, <2>3, <3>1, <3>4, <3>5
  <2>4. ASSUME NEW t \in Sent, ProcessTransaction(t) PROVE Told'
    <3>1. queue \in Seq(Tx) /\ t \in Tx /\ Len(queue) \in Nat
      BY <1>2, BundleAssumption DEF BundleInv, TypeOK
    <3>2. <<t>> \in Seq(Tx) /\ queue' = queue \o <<t>> /\ Len(<<t>>) = 1 /\ <<t>>[1] = t
      BY <2>4, <3>1, AppendIsConcat DEF ProcessTransaction
    <3>3. announced' = announced \cup
            {[tx |-> <<t>>[i], index |-> Len(queue) + i - 1] : i \in 1..Len(<<t>>)}
      BY <2>4, <3>1, <3>2 DEF ProcessTransaction
    <3> QED
      BY <2>3, <3>2, <3>3
  <2>5. CASE CommitBundle
    <3>1. Running /\ executed = Len(bundle) /\ ~IsStale
      BY <2>5 DEF CommitBundle, ReadyToCommit
    <3>2. /\ bundle \in Seq(Tx) /\ queue' = queue \o bundle
          /\ sandbox.base_len = Len(queue) /\ sandbox.base_len \in Nat
      BY <1>2, <2>5, <3>1, NewIsBundle, NotStaleIsUntouched, CommitTypes
      DEF CommitBundle, CommitToLive, Untouched, BundleInv, SandboxType, SandboxSet
    <3>3. sandbox.events =
            {[tx |-> bundle[i], index |-> sandbox.base_len + i - 1] : i \in 1..Len(bundle)}
      BY <1>2, <3>1 DEF BundleInv, SandboxRan
    <3>4. ASSUME NEW e \in sandbox.events PROVE [tx |-> e.tx, index |-> RebasedIndex(e)] = e
      BY <3>2, <3>3 DEF RebasedIndex
    <3>5. announced' = announced \cup sandbox.events
      BY <2>5, <3>4 DEF CommitBundle, CommitToLive
    <3> QED
      BY <2>3, <3>2, <3>3, <3>5
  <2>6. CASE CloseBlock \/ ResetNetwork
    BY <2>2, <2>6 DEF CloseBlock, ResetNetwork
  <2>7. CASE \/ \E b \in Bundles : TakeBundle(b)
             \/ ExecuteInSandbox \/ AbortBundle \/ RetryBundle \/ StoreBundle \/ StoreRefuses
             \/ \E a \in Account, lamports \in Balances : SetAccount(a, lamports)
             \/ UNCHANGED vars
    BY <2>1, <2>7 DEF TakeBundle, ExecuteInSandbox, AbortBundle, RetryBundle, StoreBundle,
                      StoreRefuses, SetAccount, vars, live
  <2> QED
    BY <1>2, <2>4, <2>5, <2>6, <2>7 DEF Next, RunloopNext, CommitFails, StoreBundleFails
<1>3. BundleInv /\ Told /\ [Next]_vars => Told'
  BY <1>2
<1>4. BundleInv /\ Told => AnnouncedInOrder
  BY DEF BundleInv, AnnouncedInOrder
<1> QED
  BY <1>1, <1>3, <1>4, BundleInvHolds, PTL DEF Spec

-----------------------------------------------------------------------------
(* Programs: module Programs.  Code                                        *)

(* Code that is the placeholder's, or holds none of it. *)
CleanDatas ==
  {d \in Datas : d.code = Code(Noop) \/ \A k \in DOMAIN d.code : d.code[k] \notin NoopChunks}

LEMMA CodeIs ==
  ASSUME NEW i \in Image
  PROVE  /\ Size[i] \in Nat \ {0}
         /\ Code(i) \in Seq(Chunks) /\ Len(Code(i)) = Size[i] /\ DOMAIN Code(i) = 1..Size[i]
         /\ \A k \in 1..Size[i] : Code(i)[k] = <<i, k>> /\ <<i, k>> \in Chunks
<1>1. Size[i] \in Nat \ {0}
  BY ProgramsAssumption
<1>2. \A k \in 1..Size[i] : <<i, k>> \in Chunks
  BY DEF Chunks
<1>3. DOMAIN Code(i) = 1..Size[i] /\ \A k \in 1..Size[i] : Code(i)[k] = <<i, k>>
  BY DEF Code
<1>4. Code(i) \in [1..Size[i] -> Chunks]
  BY <1>2 DEF Code
<1> QED
  BY <1>1, <1>2, <1>3, <1>4

(* LiteSVM compiles one image at most: the one that the first chunk is of. *)
LEMMA CompiledImage ==
  ASSUME NEW d \in Datas
  PROVE  /\ d # None /\ d.code \in Seq(Chunks)
         /\ Compiled(d) \in Image \cup {None}
         /\ \A i \in Image :
              Compiled(d) = i <=> /\ Len(d.code) >= Size[i]
                                  /\ \A k \in 1..Size[i] : d.code[k] = <<i, k>>
<1> DEFINE whole == {i \in Image : Len(d.code) >= Size[i] /\ SubSeq(d.code, 1, Size[i]) = Code(i)}
<1>1. d # None /\ d.code \in Seq(Chunks) /\ None \notin Image
  BY ProgramsAssumption DEF Datas
<1>2. ASSUME NEW i \in Image
      PROVE  i \in whole <=> /\ Len(d.code) >= Size[i]
                             /\ \A k \in 1..Size[i] : d.code[k] = <<i, k>>
  <2>1. CASE ~(Len(d.code) >= Size[i])
    BY <2>1
  <2>2. CASE Len(d.code) >= Size[i]
    <3>1. PICK sub : sub = SubSeq(d.code, 1, Size[i])
      OBVIOUS
    <3>2. sub \in Seq(Chunks) /\ Len(sub) = Size[i] /\ \A k \in 1..Size[i] : sub[k] = d.code[k]
      BY <1>1, <2>2, <3>1, CodeIs
    <3>3. DOMAIN sub = 1..Size[i]
      BY <3>2
    <3>4. sub = Code(i) <=> \A k \in 1..Size[i] : sub[k] = Code(i)[k]
      <4>1. sub \in [1..Size[i] -> Chunks]
        BY <3>2, <3>3
      <4>2. Code(i) \in [1..Size[i] -> Chunks]
        BY CodeIs
      <4>3. ASSUME NEW K, NEW f \in [K -> Chunks], NEW g \in [K -> Chunks]
            PROVE  f = g <=> \A k \in K : f[k] = g[k]
        OBVIOUS
      <4> QED
        BY <4>1, <4>2, <4>3
    <3>5. sub = Code(i) <=> \A k \in 1..Size[i] : d.code[k] = <<i, k>>
      BY <3>2, <3>4, CodeIs
    <3> QED
      BY <2>2, <3>1, <3>5
  <2> QED
    BY <2>1, <2>2
<1>3. \A i, j \in whole : i = j
  <2>1. ASSUME NEW i \in whole, NEW j \in whole PROVE i = j
    <3>1. i \in Image /\ j \in Image
      OBVIOUS
    <3>2. 1 \in 1..Size[i] /\ 1 \in 1..Size[j]
      BY <3>1, CodeIs
    <3>3. d.code[1] = <<i, 1>> /\ d.code[1] = <<j, 1>>
      BY <1>2, <3>1, <3>2
    <3>4. <<i, 1>> = <<j, 1>>
      BY <3>3
    <3> QED
      BY <3>4
  <2> QED
    BY <2>1
<1>4. Compiled(d) = IF whole = {} THEN None ELSE CHOOSE i \in whole : TRUE
  BY <1>1 DEF Compiled
<1>5. whole \subseteq Image
  OBVIOUS
<1> HIDE DEF whole
<1>6. \A i \in Image : Compiled(d) = i <=> i \in whole
  BY <1>1, <1>3, <1>4, <1>5
<1>7. Compiled(d) \in Image \cup {None}
  BY <1>4, <1>5
<1> QED
  BY <1>1, <1>2, <1>6, <1>7

LEMMA NothingCompiled == Compiled(None) = None
BY DEF Compiled

(* What is compiled depends on the code alone. *)
LEMMA SameCode ==
  ASSUME NEW d \in Datas, NEW e \in Datas, d.code = e.code
  PROVE  Compiled(d) = Compiled(e)
BY CompiledImage DEF Compiled

(* No chunk of the placeholder is left behind in code that compiles to     *)
(* another image.                                                          *)
LEMMA NoPlaceholder ==
  ASSUME NEW d \in CleanDatas, NEW i \in Image \ {Noop}, Compiled(d) = i
  PROVE  \A k \in DOMAIN d.code : d.code[k] \notin NoopChunks
<1>1. d \in Datas /\ Noop \in Image
  BY ProgramsAssumption DEF CleanDatas
<1>2. 1 \in 1..Size[i] /\ d.code[1] = <<i, 1>>
  BY <1>1, CompiledImage, CodeIs
<1>3. Code(Noop)[1] = <<Noop, 1>>
  <2>1. 1 \in 1..Size[Noop]
    BY <1>1, CodeIs
  <2> QED
    BY <1>1, <2>1, CodeIs
<1>4. <<i, 1>> # <<Noop, 1>>
  OBVIOUS
<1>5. d.code # Code(Noop)
  BY <1>2, <1>3, <1>4
<1> QED
  BY <1>5 DEF CleanDatas

(* The programdata that the server makes up or fetches. *)
LEMMA CodeClean ==
  ASSUME NEW i \in Image
  PROVE  \A a \in Authority \cup {System, None} : [authority |-> a, code |-> Code(i)] \in CleanDatas
<1>1. SUFFICES ASSUME NEW a \in Authority \cup {System, None}
               PROVE  [authority |-> a, code |-> Code(i)] \in CleanDatas
  OBVIOUS
<1>2. PICK d : d = [authority |-> a, code |-> Code(i)]
  OBVIOUS
<1>3. d \in Datas /\ d.code = Code(i)
  BY <1>2, CodeIs DEF Datas
<1>4. CASE i = Noop
  BY <1>2, <1>3, <1>4 DEF CleanDatas
<1>5. CASE i # Noop
  <2>1. ASSUME NEW k \in DOMAIN d.code PROVE d.code[k] \notin NoopChunks
    <3>1. d.code[k] = <<i, k>>
      BY <1>3, CodeIs
    <3> QED
      BY <1>5, <3>1 DEF NoopChunks
  <2> QED
    BY <1>2, <1>3, <2>1 DEF CleanDatas
<1> QED
  BY <1>4, <1>5

LEMMA MadeData ==
  /\ SyntheticData \in CleanDatas
  /\ \A p \in Program : RemoteData(p) \in CleanDatas \cup {None}
<1>1. SyntheticData \in CleanDatas
  BY CodeClean, ProgramsAssumption DEF SyntheticData
<1>2. ASSUME NEW p \in Program PROVE RemoteData(p) \in CleanDatas \cup {None}
  <2>1. Remote[p] \in Image \cup {None}
    BY ProgramsAssumption
  <2> QED
    BY <2>1, CodeClean DEF RemoteData
<1> QED
  BY <1>1, <1>2

-----------------------------------------------------------------------------
(* Banks *)

Bank ==
  [programs : SUBSET Program, data : [Program -> CleanDatas \cup {None}],
   cache : [Program -> Image \cup {None}],
   db_programs : SUBSET Program, db_data : [Program -> CleanDatas \cup {None}]]

(* A program's data as it is or would be restored. *)
Stored(b, p) == IF b.data[p] # None THEN b.data[p] ELSE b.db_data[p]

(* A program LiteSVM has was compiled, and its programdata, if there is    *)
(* one, is there too; the database, if there is one, holds what LiteSVM    *)
(* does.                                                                   *)
Good(b) ==
  /\ b \in Bank
  /\ \A p \in b.programs : b.cache[p] # None /\ (b.data[p] = None => b.db_data[p] = None)
  /\ has_db => /\ b.programs \subseteq b.db_programs
               /\ \A p \in Program : b.data[p] # None => b.db_data[p] = b.data[p]
  /\ ~has_db => b.db_programs = {} /\ \A p \in Program : b.db_data[p] = None

(* From bank b to r a program keeps what is stored of it, and is compiled  *)
(* from that if it is compiled again.                                      *)
Keeps(b, r, q) ==
  /\ Stored(b, q) # None => Stored(r, q) = Stored(b, q)
  /\ q \in b.programs \cup b.db_programs => q \in r.programs \cup r.db_programs
  /\ q \in r.programs => \/ r.cache[q] = Compiled(Stored(r, q))
                         \/ q \in b.programs /\ r.cache[q] = b.cache[q]

(* LiteSVM runs what it would compile. *)
Fits(b, q) ==
  q \in b.programs => b.data[q] # None /\ Compiled(b.data[q]) \in {None, b.cache[q]}

LEMMA KeepsOn ==
  ASSUME NEW b, NEW r, NEW u, NEW q \in Program, Good(r), Keeps(b, r, q), Keeps(r, u, q)
  PROVE  Keeps(b, u, q)
<1>1. q \in r.programs => r.cache[q] # Compiled(Stored(r, q)) \/ Stored(r, q) # None
  BY NothingCompiled DEF Good
<1> QED
  BY <1>1 DEF Keeps

LEMMA KeepsFit ==
  ASSUME NEW b, NEW r, NEW q \in Program, Good(b), Good(r), Keeps(b, r, q), Fits(b, q)
  PROVE  Fits(r, q)
<1>1. /\ q \in b.programs => Stored(b, q) = b.data[q]
      /\ q \in r.programs => Stored(r, q) = r.data[q] /\ r.cache[q] # None
  BY DEF Good, Stored
<1> QED
  BY <1>1, NothingCompiled DEF Keeps, Fits

LEMMA KeepsItself == \A b, q : Keeps(b, b, q)
BY DEF Keeps

(* set_account of a programdata account *)
LEMMA DataSet ==
  ASSUME NEW b, Good(b), NEW p \in Program, NEW d \in CleanDatas,
         NEW r, r = SetData(b, p, d)
  PROVE  /\ Good(r) /\ Stored(r, p) = d /\ r.data[p] = d
         /\ r.programs = b.programs /\ r.cache = b.cache /\ r.db_programs = b.db_programs
         /\ \A q \in Program \ {p} : Keeps(b, r, q) /\ (Fits(b, q) => Fits(r, q))
<1>1. /\ b \in Bank /\ d # None
      /\ \A q \in b.programs : /\ q \in Program /\ b.cache[q] # None
                               /\ b.data[q] = None => b.db_data[q] = None
  BY CompiledImage DEF Good, CleanDatas, Bank
<1>2. /\ r.programs = b.programs /\ r.cache = b.cache /\ r.db_programs = b.db_programs
      /\ r.data = [b.data EXCEPT ![p] = d]
      /\ r.db_data = [b.db_data EXCEPT ![p] = IF has_db THEN d ELSE @]
  BY <1>1 DEF SetData, Bank
<1>3. r \in Bank
  <2>1. /\ r = [programs |-> r.programs, data |-> r.data, cache |-> r.cache,
                db_programs |-> r.db_programs, db_data |-> r.db_data]
    BY <1>1 DEF SetData, Bank
  <2>2. /\ b.programs \in SUBSET Program /\ b.cache \in [Program -> Image \cup {None}]
        /\ b.db_programs \in SUBSET Program
        /\ b.data \in [Program -> CleanDatas \cup {None}]
        /\ b.db_data \in [Program -> CleanDatas \cup {None}]
    BY <1>1 DEF Bank
  <2>3. /\ r.data \in [Program -> CleanDatas \cup {None}]
        /\ r.db_data \in [Program -> CleanDatas \cup {None}]
    BY <1>2, <2>2
  <2> QED
    BY <1>2, <2>1, <2>2, <2>3 DEF Bank
<1>4. /\ r.data[p] = d /\ (has_db => r.db_data[p] = d) /\ (~has_db => r.db_data[p] = b.db_data[p])
      /\ \A q \in Program : q # p => r.data[q] = b.data[q] /\ r.db_data[q] = b.db_data[q]
  BY <1>1, <1>2 DEF Bank
<1>5. Good(r)
  BY <1>1, <1>2, <1>3, <1>4 DEF Good
<1>6. \A q \in Program \ {p} : Keeps(b, r, q) /\ (Fits(b, q) => Fits(r, q))
  BY <1>2, <1>4 DEF Keeps, Fits, Stored
<1> QED
  BY <1>1, <1>2, <1>4, <1>5, <1>6 DEF Stored

(* set_account of a program account *)
LEMMA ProgramSet ==
  ASSUME NEW b, Good(b), NEW p \in Program,
         NEW r, r = SetProgram(b, p)
  PROVE  /\ Good(r) /\ r.data = b.data /\ r.db_data = b.db_data
         /\ Accepted(b, p) => p \in r.programs /\ r.cache[p] = Compiled(b.data[p])
         /\ p \notin b.programs /\ ~Accepted(b, p) => p \notin r.programs
         /\ has_db => p \in r.db_programs
         /\ p \notin b.programs \/ b.data[p] # None => Fits(r, p)
         /\ \A q \in Program : Keeps(b, r, q) /\ (Fits(b, q) => Fits(r, q))
<1>1. /\ b \in Bank /\ b.data[p] \in CleanDatas \cup {None}
      /\ \A q \in b.programs : /\ q \in Program /\ b.cache[q] # None
                               /\ b.data[q] = None => b.db_data[q] = None
  BY DEF Good, Bank
<1>2. Compiled(b.data[p]) \in Image \cup {None}
  BY <1>1, CompiledImage, NothingCompiled DEF CleanDatas
<1>3. /\ r.data = b.data /\ r.db_data = b.db_data
      /\ r.db_programs = IF has_db THEN b.db_programs \cup {p} ELSE b.db_programs
      /\ r.programs = IF Accepted(b, p) THEN b.programs \cup {p} ELSE b.programs
      /\ r.cache = IF Accepted(b, p) THEN [b.cache EXCEPT ![p] = Compiled(b.data[p])] ELSE b.cache
  BY <1>1 DEF SetProgram, Bank
<1>4. r \in Bank
  <2>1. /\ r = [programs |-> r.programs, data |-> r.data, cache |-> r.cache,
                db_programs |-> r.db_programs, db_data |-> r.db_data]
    BY <1>1 DEF SetProgram, Bank
  <2>2. /\ b.programs \in SUBSET Program /\ b.cache \in [Program -> Image \cup {None}]
        /\ b.db_programs \in SUBSET Program
        /\ b.data \in [Program -> CleanDatas \cup {None}]
        /\ b.db_data \in [Program -> CleanDatas \cup {None}]
    BY <1>1 DEF Bank
  <2>3. /\ r.programs \in SUBSET Program /\ r.cache \in [Program -> Image \cup {None}]
        /\ r.db_programs \in SUBSET Program
    BY <1>2, <1>3, <2>2
  <2> QED
    BY <1>3, <2>1, <2>2, <2>3 DEF Bank
<1>5. /\ Accepted(b, p) => r.cache[p] = Compiled(b.data[p])
      /\ ~Accepted(b, p) => r.cache[p] = b.cache[p]
      /\ \A q \in Program : q # p => r.cache[q] = b.cache[q]
  BY <1>1, <1>3 DEF Bank
<1>6. Accepted(b, p) <=> b.data[p] # None /\ Compiled(b.data[p]) # None
  BY DEF Accepted
<1>7. Good(r)
  <2>1. \A q \in r.programs : r.cache[q] # None /\ (r.data[q] = None => r.db_data[q] = None)
    BY <1>1, <1>3, <1>5, <1>6
  <2> QED
    BY <1>1, <1>3, <1>4, <2>1 DEF Good
<1>8. p \notin b.programs \/ b.data[p] # None => Fits(r, p)
  BY <1>1, <1>3, <1>5, <1>6 DEF Fits
<1>9. \A q \in Program : Keeps(b, r, q)
  <2>1. \A q \in Program : Stored(r, q) = Stored(b, q)
    BY <1>3 DEF Stored
  <2>2. b.data[p] # None => Stored(b, p) = b.data[p]
    BY DEF Stored
  <2> QED
    BY <1>3, <1>5, <1>6, <2>1, <2>2 DEF Keeps
<1>10. \A q \in Program : Fits(b, q) => Fits(r, q)
  BY <1>7, <1>9, KeepsFit
<1> QED
  BY <1>3, <1>5, <1>7, <1>8, <1>9, <1>10

(* HydrateIfAbsent of a programdata account *)
LEMMA DataFilled ==
  ASSUME NEW b, Good(b), NEW p \in Program, NEW d \in CleanDatas,
         NEW r, r = FillData(b, p, d)
  PROVE  /\ Good(r) /\ r.data[p] # None
         /\ r.programs = b.programs /\ r.cache = b.cache /\ r.db_programs = b.db_programs
         /\ \A q \in Program : Keeps(b, r, q) /\ (Fits(b, q) => Fits(r, q))
<1>1. CASE b.data[p] # None
  <2>1. r = b
    BY <1>1 DEF FillData
  <2> QED
    BY <1>1, <2>1, KeepsItself
<1>2. CASE b.data[p] = None
  <2>1. PICK e : e = IF b.db_data[p] # None THEN b.db_data[p] ELSE d
    OBVIOUS
  <2>2. e \in CleanDatas /\ e # None
    <3>1. b.db_data[p] \in CleanDatas \cup {None}
      BY DEF Good, Bank
    <3>2. \A x \in CleanDatas : x # None
      BY CompiledImage DEF CleanDatas
    <3> QED
      BY <2>1, <3>1, <3>2
  <2>3. r = SetData(b, p, e)
    BY <1>2, <2>1 DEF FillData
  <2>4. /\ Good(r) /\ Stored(r, p) = e /\ r.data[p] = e
        /\ r.programs = b.programs /\ r.cache = b.cache /\ r.db_programs = b.db_programs
        /\ \A q \in Program \ {p} : Keeps(b, r, q) /\ (Fits(b, q) => Fits(r, q))
    BY <2>2, <2>3, DataSet
  <2>5. Keeps(b, r, p)
    <3>1. Stored(b, p) # None => Stored(b, p) = e
      BY <1>2, <2>1 DEF Stored
    <3> QED
      BY <2>4, <3>1 DEF Keeps
  <2>6. Fits(b, p) => Fits(r, p)
    BY <2>4, <2>5, KeepsFit
  <2> QED
    BY <2>2, <2>4, <2>5, <2>6
<1> QED
  BY <1>1, <1>2

(* garbage_collect, a restart: what the database holds stays. *)
LEMMA BankEmptied ==
  ASSUME NEW b, Good(b), NEW r, r = Emptied(b)
  PROVE  /\ Good(r) /\ r.programs = {}
         /\ has_db => \A q \in Program : Keeps(b, r, q)
<1>1. b \in Bank
  BY DEF Good
<1>2. /\ r.programs = {} /\ r.db_programs = b.db_programs /\ r.db_data = b.db_data
      /\ r.data = [p \in Program |-> None] /\ r.cache = [p \in Program |-> None]
  BY <1>1 DEF Emptied, Bank
<1>3. r \in Bank
  <2>1. /\ r = [programs |-> r.programs, data |-> r.data, cache |-> r.cache,
                db_programs |-> r.db_programs, db_data |-> r.db_data]
    BY <1>1 DEF Emptied, Bank
  <2>2. b.db_programs \in SUBSET Program /\ b.db_data \in [Program -> CleanDatas \cup {None}]
    BY <1>1 DEF Bank
  <2> QED
    BY <1>2, <2>1, <2>2 DEF Bank
<1>4. Good(r)
  BY <1>2, <1>3 DEF Good
<1>5. ASSUME has_db, NEW q \in Program PROVE Keeps(b, r, q)
  BY <1>2, <1>5 DEF Good, Keeps, Stored
<1> QED
  BY <1>2, <1>4, <1>5

-----------------------------------------------------------------------------
(* What getting accounts and loading a snapshot make of a bank *)

(* Another bank that kept all programs. *)
Kept(b, r) ==
  /\ Good(r)
  /\ \A q \in Program : Keeps(b, r, q) /\ (Fits(b, q) => Fits(r, q))

LEMMA KeptOn ==
  ASSUME NEW b, NEW r, NEW u, Kept(b, r), Kept(r, u)
  PROVE  Kept(b, u)
BY KeepsOn DEF Kept

LEMMA KeptItself == \A b : Good(b) => Kept(b, b)
BY KeepsItself DEF Kept

LEMMA DataOfBank ==
  ASSUME NEW b, Good(b), NEW p \in Program
  PROVE  /\ b.data[p] \in CleanDatas \cup {None} /\ b.db_data[p] \in CleanDatas \cup {None}
         /\ Stored(b, p) \in CleanDatas \cup {None}
BY DEF Good, Bank, Stored

LEMMA Hydrated ==
  ASSUME NEW b, Good(b), NEW p \in Program, NEW d \in CleanDatas \cup {None},
         NEW r, r = Hydrate(b, p, d)
  PROVE  Kept(b, r) /\ (p \notin b.programs => Fits(r, p))
<1>1. CASE p \in b.programs
  <2>1. r = b
    BY <1>1 DEF Hydrate
  <2> QED
    BY <1>1, <2>1, KeptItself
<1>2. CASE p \notin b.programs
  <2>1. PICK with : with = IF p \in b.db_programs THEN b.db_data[p] ELSE d
    OBVIOUS
  <2>2. with \in CleanDatas \cup {None}
    BY <2>1, DataOfBank
  <2>3. PICK e : e = IF with = None THEN SyntheticData ELSE with
    OBVIOUS
  <2>4. e \in CleanDatas
    BY <2>2, <2>3, MadeData
  <2>5. PICK f : f = FillData(b, p, e)
    OBVIOUS
  <2>6. r = SetProgram(f, p)
    BY <1>2, <2>1, <2>3, <2>5 DEF Hydrate
  <2>7. Kept(b, f) /\ p \notin f.programs
    BY <1>2, <2>4, <2>5, DataFilled DEF Kept
  <2>8. Kept(f, r) /\ Fits(r, p)
    BY <2>6, <2>7, ProgramSet DEF Kept
  <2> QED
    BY <2>7, <2>8, KeptOn
<1> QED
  BY <1>1, <1>2

LEMMA ProgramGot ==
  ASSUME NEW b, Good(b), NEW p \in Program, NEW d \in CleanDatas \cup {None},
         NEW got, got = GotProgram(b, p, d)
  PROVE  /\ Kept(b, got.bank) /\ got.data \in CleanDatas \cup {None}
         /\ got.found \in {"alone", "coupled", "none"}
<1>1. PICK filled : filled = Hydrate(b, p, d)
  OBVIOUS
<1>2. Kept(b, filled) /\ Kept(b, b)
  BY <1>1, Hydrated, KeptItself
<1>3. filled.data[p] \in CleanDatas \cup {None} /\ b.db_data[p] \in CleanDatas \cup {None}
  BY <1>2, DataOfBank DEF Kept
<1>4. /\ got.bank \in {b, filled}
      /\ got.data \in {None, b.db_data[p], filled.data[p]}
      /\ got.found \in {"alone", "coupled", "none"}
  BY <1>1 DEF GotProgram
<1> QED
  BY <1>2, <1>3, <1>4

LEMMA DataGot ==
  ASSUME NEW b, Good(b), NEW p \in Program, NEW d \in CleanDatas \cup {None},
         NEW got, got = GotData(b, p, d)
  PROVE  Kept(b, got.bank) /\ got.data \in CleanDatas \cup {None}
<1>1. PICK e : e = IF b.data[p] # None THEN b.data[p]
                   ELSE IF b.db_data[p] # None THEN b.db_data[p] ELSE d
  OBVIOUS
<1>2. e \in CleanDatas \cup {None}
  BY <1>1, DataOfBank
<1>3. got.data = e /\ got.bank = IF e = None THEN b ELSE FillData(b, p, e)
  BY <1>1 DEF GotData
<1>4. CASE e = None
  BY <1>2, <1>3, <1>4, KeptItself
<1>5. CASE e # None
  <2>1. PICK r : r = FillData(b, p, e)
    OBVIOUS
  <2>2. Kept(b, r)
    BY <1>2, <1>5, <2>1, DataFilled DEF Kept
  <2> QED
    BY <1>2, <1>3, <1>5, <2>1, <2>2
<1> QED
  BY <1>4, <1>5

LEMMA StoredIs == \A b, p : GotData(b, p, None).data = Stored(b, p)
BY DEF GotData, Stored

LEMMA HydratedStrict ==
  ASSUME NEW b, Good(b), NEW p \in Program, NEW r, r = HydrateStrict(b, p)
  PROVE  Kept(b, r) /\ (p \notin b.programs => Fits(r, p))
<1>1. CASE p \in b.programs
  <2>1. r = b
    BY <1>1 DEF HydrateStrict
  <2> QED
    BY <1>1, <2>1, KeptItself
<1>2. CASE p \notin b.programs /\ p \in b.db_programs /\ b.db_data[p] # None
  <2>1. PICK f : f = FillData(b, p, b.db_data[p])
    OBVIOUS
  <2>2. r = SetProgram(f, p)
    BY <1>2, <2>1 DEF HydrateStrict
  <2>3. b.db_data[p] \in CleanDatas
    BY <1>2, DataOfBank
  <2>4. Kept(b, f) /\ p \notin f.programs
    BY <1>2, <2>1, <2>3, DataFilled DEF Kept
  <2>5. Kept(f, r) /\ Fits(r, p)
    BY <2>2, <2>4, ProgramSet DEF Kept
  <2> QED
    BY <2>4, <2>5, KeptOn
<1>3. CASE p \notin b.programs /\ ~(p \in b.db_programs /\ b.db_data[p] # None)
  <2>1. r = SetProgram(b, p)
    BY <1>3 DEF HydrateStrict
  <2> QED
    BY <2>1, ProgramSet DEF Kept
<1> QED
  BY <1>1, <1>2, <1>3

(* What was fetched for a snapshot. *)
Fetches == [program : {"absent", "given"}, data : CleanDatas \cup {None}]

LEMMA ProgramAfterLoad ==
  ASSUME NEW b, Good(b), NEW s \in Snapshots, NEW fetched \in Fetches,
         NEW r, r = ProgramLoaded(b, s, fetched)
  PROVE  /\ Kept(b, r)
         /\ s.p \notin b.programs => Fits(r, s.p)
         /\ s.program = "given" /\ (b.data[s.p] # None \/ r.data[s.p] # None) => Fits(r, s.p)
<1>1. s.p \in Program
  BY ProgramsAssumption
<1>2. CASE s.program = "given"
  <2>1. r = SetProgram(b, s.p)
    BY <1>2 DEF ProgramLoaded
  <2> QED
    BY <1>1, <2>1, ProgramSet DEF Kept
<1>3. CASE s.program # "given" /\ fetched.program = "absent"
  <2>1. r = b
    BY <1>3 DEF ProgramLoaded
  <2> QED
    BY <1>3, <2>1, KeptItself DEF Fits
<1>4. CASE s.program # "given" /\ fetched.program # "absent"
  <2>1. r = IF s.strict THEN HydrateStrict(b, s.p) ELSE Hydrate(b, s.p, None)
    BY <1>4 DEF ProgramLoaded
  <2> QED
    BY <1>1, <1>4, <2>1, HydratedStrict, Hydrated
<1> QED
  BY <1>2, <1>3, <1>4

LEMMA DataAfterLoad ==
  ASSUME NEW b, Good(b), NEW s \in Snapshots, NEW fetched \in Fetches,
         NEW r, r = DataLoaded(b, s, fetched)
  PROVE  /\ Good(r) /\ r.programs = b.programs
         /\ s.data \notin Image => Kept(b, r)
         /\ \A q \in Program \ {s.p} : Keeps(b, r, q) /\ (Fits(b, q) => Fits(r, q))
         /\ s.data \in Image => r.data[s.p] = [authority |-> None, code |-> Code(s.data)]
<1>1. s.p \in Program /\ fetched.data \in CleanDatas \cup {None}
  BY ProgramsAssumption DEF Fetches
<1>2. PICK given : given = IF s.data \in Image
                           THEN SetData(b, s.p, [authority |-> None, code |-> Code(s.data)]) ELSE b
  OBVIOUS
<1>3. /\ Good(given) /\ given.programs = b.programs
      /\ s.data \notin Image => Kept(b, given)
      /\ \A q \in Program \ {s.p} : Keeps(b, given, q) /\ (Fits(b, q) => Fits(given, q))
      /\ s.data \in Image => given.data[s.p] = [authority |-> None, code |-> Code(s.data)]
  <2>1. CASE s.data \in Image
    <3>1. PICK d : d = [authority |-> None, code |-> Code(s.data)]
      OBVIOUS
    <3>2. d \in CleanDatas
      BY <2>1, <3>1, CodeClean
    <3> QED
      BY <1>1, <1>2, <2>1, <3>1, <3>2, DataSet
  <2>2. CASE s.data \notin Image
    BY <1>2, <2>2, KeptItself DEF Kept
  <2> QED
    BY <2>1, <2>2
<1>4. r = IF fetched.data = None THEN given ELSE FillData(given, s.p, fetched.data)
  BY <1>2 DEF DataLoaded
<1>5. CASE fetched.data = None
  BY <1>3, <1>4, <1>5
<1>6. CASE fetched.data # None
  <2>1. r = FillData(given, s.p, fetched.data) /\ fetched.data \in CleanDatas
    BY <1>1, <1>4, <1>6
  <2>2. Kept(given, r) /\ r.programs = given.programs
    BY <1>1, <1>3, <2>1, DataFilled DEF Kept
  <2>3. s.data \in Image => r.data[s.p] = given.data[s.p]
    <3>1. s.data \in Image => given.data[s.p] # None
      <4>1. s.data \in Image => given.data[s.p] \in CleanDatas
        BY <1>3, CodeClean
      <4> QED
        BY <4>1, CompiledImage DEF CleanDatas
    <3> QED
      BY <2>1, <3>1 DEF FillData
  <2>4. s.data \notin Image => Kept(b, r)
    BY <1>3, <2>2, KeptOn
  <2>5. \A q \in Program \ {s.p} : Keeps(b, r, q) /\ (Fits(b, q) => Fits(r, q))
    BY <1>3, <2>2, KeepsOn DEF Kept
  <2> QED
    BY <1>3, <2>2, <2>3, <2>4, <2>5 DEF Kept
<1> QED
  BY <1>5, <1>6
-----------------------------------------------------------------------------
(* Calls *)

Waiting == CleanDatas \cup {None}

WriteCall ==
  {x \in [op : {"write"}, p : Program, image : Deployed, chunk : Nat,
          authority : Authority \cup {None},
          at : {"program", "asked program", "create", "data", "asked data", "write", "recompile"},
          copy : Waiting] :
     x.chunk \in 1..Size[x.image] /\ (x.at = "write" => x.copy # None)}

AuthorityCall ==
  {x \in [op : {"authority"}, p : Program, authority : Authority \cup {None},
          at : {"program", "asked program", "data", "asked data", "write"}, copy : Waiting] :
     x.at = "write" => x.copy # None}

CloneCall ==
  {x \in [op : {"clone"}, p : Program, to : Program,
          at : {"both", "asked data", "asked both", "write"}, copy : Waiting] :
     x.at = "write" => x.copy # None}

ReadCall ==
  [op : {"read"}, p : Program, at : {"program", "data", "asked program", "asked data"}]

LoadCall ==
  {x \in [op : {"load"}, p : Program, snapshot : Snapshots, at : {"load", "asked both"},
          fetched : Fetches, failed : BOOLEAN] : x.p = x.snapshot.p}

Call == {NoCall} \cup WriteCall \cup AuthorityCall \cup CloneCall \cup ReadCall \cup LoadCall

LEMMA CallIs ==
  ASSUME NEW x \in Call
  PROVE  /\ x.op \in {"none", "write", "authority", "clone", "read", "load"}
         /\ x = NoCall <=> x.op = "none"
         /\ x.op = "write" => x \in WriteCall
         /\ x.op = "authority" => x \in AuthorityCall
         /\ x.op = "clone" => x \in CloneCall
         /\ x.op = "read" => x \in ReadCall
         /\ x.op = "load" => x \in LoadCall
<1>1. \A y \in WriteCall : y.op = "write"
  BY DEF WriteCall
<1>2. \A y \in AuthorityCall : y.op = "authority"
  BY DEF AuthorityCall
<1>3. \A y \in CloneCall : y.op = "clone"
  BY DEF CloneCall
<1>4. \A y \in ReadCall : y.op = "read"
  BY DEF ReadCall
<1>5. \A y \in LoadCall : y.op = "load"
  BY DEF LoadCall
<1>6. NoCall.op = "none"
  BY DEF NoCall
<1> HIDE DEF WriteCall, AuthorityCall, CloneCall, ReadCall, LoadCall
<1> QED
  BY <1>1, <1>2, <1>3, <1>4, <1>5, <1>6 DEF Call

(* Until the server serves there is one call at most, a load; and only     *)
(* until then may it be strict.                                            *)
Calls ==
  /\ calls \in [Caller -> Call]
  /\ ~serving => /\ \A c \in Caller : calls[c].op \in {"none", "load"}
                 /\ \A c, d \in Caller : calls[c] # NoCall /\ calls[d] # NoCall => c = d
  /\ \A c \in Caller : calls[c].op = "load" /\ calls[c].snapshot.strict => ~serving

(* A call goes on, or ends. *)
LEMMA CallGoesOn ==
  ASSUME Calls, NEW c \in Caller, calls[c] # NoCall, NEW x \in Call,
         calls' = [calls EXCEPT ![c] = x], serving' = serving,
         x.op \in {"none", calls[c].op}, x.op = "load" => x.snapshot = calls[c].snapshot
  PROVE  Calls'
<1>1. /\ calls' \in [Caller -> Call] /\ calls'[c] = x
      /\ \A d \in Caller : d # c => calls'[d] = calls[d]
  BY DEF Calls
<1>2. ~serving => \A d \in Caller : d # c => calls[d] = NoCall
  BY DEF Calls
<1>3. \A d \in Caller : calls[d] = NoCall <=> calls[d].op = "none"
  BY CallIs DEF Calls
<1>4. ~serving => \A d \in Caller : calls'[d].op \in {"none", "load"}
  BY <1>1 DEF Calls
<1>5. ~serving => \A d \in Caller : d # c => calls'[d] = NoCall
  BY <1>1, <1>2
<1>6. \A d \in Caller : calls'[d].op = "load" /\ calls'[d].snapshot.strict => ~serving
  BY <1>1, <1>3 DEF Calls
<1> QED
  BY <1>1, <1>4, <1>5, <1>6 DEF Calls

LEMMA CallBegins ==
  ASSUME Calls, NEW c \in Caller, NEW x \in Call, Begin(c, x),
         x.op = "load" /\ x.snapshot.strict => ~serving
  PROVE  Calls'
<1>1. /\ calls' = [calls EXCEPT ![c] = x] /\ serving' = serving
      /\ ~serving => x.op = "load" /\ \A d \in Caller : calls[d] = NoCall
  BY DEF Begin
<1>2. /\ calls' \in [Caller -> Call] /\ calls'[c] = x
      /\ \A d \in Caller : d # c => calls'[d] = calls[d]
  BY <1>1 DEF Calls
<1>3. NoCall.op = "none"
  BY DEF NoCall
<1> QED
  BY <1>1, <1>2, <1>3 DEF Calls

(* A program that waits to be recompiled goes on waiting, as long as its   *)
(* call does.                                                              *)
LEMMA RecompilingOn ==
  ASSUME Calls, NEW c \in Caller, NEW x, calls' = [calls EXCEPT ![c] = x],
         NEW q, Recompiling(q), calls[c] = NoCall \/ calls[c].at # "recompile" \/ calls[c].p # q
  PROVE  Recompiling(q)'
<1>1. PICK d \in Caller : calls[d] # NoCall /\ calls[d].at = "recompile" /\ calls[d].p = q
  BY DEF Recompiling
<1>2. d # c /\ calls'[d] = calls[d]
  BY <1>1 DEF Calls
<1> QED
  BY <1>1, <1>2 DEF Recompiling

-----------------------------------------------------------------------------
(* The invariant *)

(* What a client was told of a program is stored, and is what LiteSVM      *)
(* compiled, if it did.                                                    *)
ToldStored(b, q, t) ==
  /\ t.code # None =>
       /\ Stored(b, q) # None /\ Compiled(Stored(b, q)) # None
       /\ q \in b.programs \cup b.db_programs
       /\ q \in b.programs => b.cache[q] = Compiled(Stored(b, q))
       /\ t.code # AnyCode => Compiled(Stored(b, q)) = t.code
  /\ t.authority # AnyCode => Stored(b, q) # None /\ Stored(b, q).authority = t.authority

(* The chunks written of an image are stored. *)
ChunksStored(b, q, w) ==
  w.image # None =>
    /\ w.image \in Deployed /\ w.written \subseteq 1..Size[w.image] /\ Stored(b, q) # None
    /\ \A k \in w.written : k <= Len(Stored(b, q).code) /\ Stored(b, q).code[k] = <<w.image, k>>

HistoryStored(q) == ToldStored(bank, q, told[q]) /\ ChunksStored(bank, q, progress[q])

(* LiteSVM runs what is stored, will be told to, or was passed by. *)
Compiles(q) ==
  Fits(bank, q) \/ q \in detached \/ (Recompiling(q) /\ Stored(bank, q) # None)

(* What nobody stored is lost when the start on a snapshot fails; by then  *)
(* no client was told of it.                                               *)
NothingToldYet ==
  ~has_db /\ ~serving => \A q \in Program : told[q] = Untold /\ progress[q] = Unwritten

Types ==
  /\ has_db \in BOOLEAN /\ serving \in BOOLEAN /\ detached \subseteq Program
  /\ told \in [Program -> [code : Image \cup {None, AnyCode},
                           authority : Authority \cup {System, None, AnyCode}]]
  /\ progress \in [Program -> [image : Image \cup {None}, written : SUBSET Nat]]

Inv ==
  /\ Types /\ Good(bank) /\ Calls /\ NothingToldYet
  /\ \A q \in Program : Compiles(q) /\ HistoryStored(q)

LEMMA ToldKept ==
  ASSUME NEW b, NEW r, NEW q \in Program, NEW t, Keeps(b, r, q), ToldStored(b, q, t)
  PROVE  ToldStored(r, q, t)
BY DEF ToldStored, Keeps

LEMMA ChunksKept ==
  ASSUME NEW b, NEW r, NEW q \in Program, NEW w, Keeps(b, r, q), ChunksStored(b, q, w)
  PROVE  ChunksStored(r, q, w)
BY DEF ChunksStored, Keeps

LEMMA HistoryKept ==
  ASSUME Inv, NEW q \in Program, Keeps(bank, bank', q),
         told'[q] = told[q], progress'[q] = progress[q]
  PROVE  HistoryStored(q)'
BY ToldKept, ChunksKept DEF Inv, HistoryStored, ToldStored, ChunksStored, Stored

LEMMA NothingTold ==
  ASSUME Inv, NEW q \in Program, told'[q] = Untold,
         \/ progress'[q] = Unwritten
         \/ progress'[q] = progress[q] /\ Keeps(bank, bank', q)
  PROVE  HistoryStored(q)'
<1>1. ToldStored(bank', q, told'[q])
  BY DEF ToldStored, Untold
<1>2. ChunksStored(bank', q, progress'[q])
  <2>1. CASE progress'[q] = Unwritten
    BY <2>1 DEF ChunksStored, Unwritten
  <2>2. CASE progress'[q] = progress[q] /\ Keeps(bank, bank', q)
    BY <2>2, ChunksKept DEF Inv, HistoryStored
  <2> QED
    BY <2>1, <2>2
<1> QED
  BY <1>1, <1>2 DEF HistoryStored, ToldStored, ChunksStored, Stored

LEMMA UntoldTypes ==
  /\ Untold \in [code : Image \cup {None, AnyCode},
                  authority : Authority \cup {System, None, AnyCode}]
  /\ Unwritten \in [image : Image \cup {None}, written : SUBSET Nat]
BY DEF Untold, Unwritten

LEMMA GoodProgramsNext ==
  ASSUME has_db' = has_db, Good(bank')
  PROVE  Good(bank)'
BY DEF Good, Bank

(* A program that was written by itself is no longer noted once LiteSVM    *)
(* compiled it again.                                                      *)
LEMMA Noted ==
  ASSUME NEW alone \in SUBSET Program, NoteDetached(alone)
  PROVE  /\ Inv => detached' \subseteq Program
         /\ Good(bank') => \A q \in detached \cup alone : Fits(bank', q) \/ q \in detached'
<1>1. detached' = {p \in (detached \cup alone) \cap bank'.programs :
                     bank'.cache[p] # Compiled(bank'.data[p])}
  BY DEF NoteDetached
<1>2. Inv => detached' \subseteq Program
  BY <1>1 DEF Inv, Types
<1>3. ASSUME Good(bank'), NEW q \in detached \cup alone, q \notin detached'
      PROVE  Fits(bank', q)
  <2>1. q \in bank'.programs => /\ bank'.cache[q] = Compiled(bank'.data[q])
                                /\ bank'.cache[q] # None
    BY <1>1, <1>3 DEF Good
  <2> QED
    BY <2>1, NothingCompiled DEF Fits
<1> QED
  BY <1>2, <1>3

(* A step that keeps all programs, and what was told of them. *)
LEMMA KeptInv ==
  ASSUME Inv, Kept(bank, bank'), NoteDetached({}),
         UNCHANGED <<has_db, serving, told, progress>>, Calls',
         \A q \in Program : Recompiling(q) => Recompiling(q)' \/ Fits(bank', q)
  PROVE  Inv'
<1>1. Types'
  BY Noted DEF Inv, Types
<1>2. Good(bank)'
  BY GoodProgramsNext DEF Kept
<1>3. ASSUME NEW q \in Program PROVE Compiles(q)' /\ HistoryStored(q)'
  <2>1. Fits(bank, q) => Fits(bank', q)
    BY DEF Kept
  <2>2. q \in detached => Fits(bank', q) \/ q \in detached'
    BY Noted DEF Kept
  <2>3. /\ Fits(bank', q) <=> Fits(bank, q)'
        /\ Stored(bank, q) # None => Stored(bank, q)' # None
    BY DEF Fits, Kept, Keeps, Stored
  <2>4. Compiles(q)'
    BY <2>1, <2>2, <2>3 DEF Inv, Compiles
  <2>5. HistoryStored(q)'
    BY HistoryKept DEF Kept
  <2> QED
    BY <2>4, <2>5
<1>4. NothingToldYet'
  BY DEF Inv, NothingToldYet
<1> QED
  BY <1>1, <1>2, <1>3, <1>4 DEF Inv

(* A step of the calls alone. *)
LEMMA CallsOnlyInv ==
  ASSUME Inv, UNCHANGED <<has_db, bank, history>>, serving' = serving, Calls',
         \A q \in Program : Recompiling(q) => Recompiling(q)'
  PROVE  Inv'
<1>1. Types' /\ NothingToldYet'
  BY DEF Inv, Types, NothingToldYet, history
<1>2. Good(bank)'
  BY DEF Inv, Good, Bank
<1>3. \A q \in Program : Compiles(q)' /\ HistoryStored(q)'
  BY DEF Inv, Compiles, HistoryStored, Fits, ToldStored, ChunksStored, Stored, history
<1> QED
  BY <1>1, <1>2, <1>3 DEF Inv

-----------------------------------------------------------------------------
(* Calls begin, ask the remote, and fail *)

LEMMA BeginInv ==
  ASSUME Inv, NEW c \in Caller, NEW x \in Call, Begin(c, x),
         x.op = "load" /\ x.snapshot.strict => ~serving
  PROVE  Inv'
<1>1. /\ calls[c] = NoCall /\ calls' = [calls EXCEPT ![c] = x]
      /\ UNCHANGED <<has_db, serving, bank, history>>
  BY DEF Begin
<1>2. Calls'
  BY CallBegins DEF Inv
<1>3. \A q \in Program : Recompiling(q) => Recompiling(q)'
  BY <1>1, RecompilingOn DEF Inv
<1> QED
  BY <1>1, <1>2, <1>3, CallsOnlyInv

LEMMA BeginsInv ==
  ASSUME Inv, NEW c \in Caller,
         \/ WriteProgram(c) \/ SetProgramAuthority(c) \/ CloneProgram(c)
         \/ ReadAccount(c) \/ LoadSnapshot(c)
  PROVE  Inv'
<1>1. CASE WriteProgram(c)
  <2>1. PICK p \in Program, i \in Deployed, a \in Authority \cup {None} : \E k \in 1..Size[i] :
          Begin(c, [op |-> "write", p |-> p, image |-> i, chunk |-> k, authority |-> a,
                    at |-> "program", copy |-> None])
    BY <1>1 DEF WriteProgram
  <2>2. PICK k \in 1..Size[i] :
          Begin(c, [op |-> "write", p |-> p, image |-> i, chunk |-> k, authority |-> a,
                    at |-> "program", copy |-> None])
    BY <2>1
  <2>3. PICK x : x = [op |-> "write", p |-> p, image |-> i, chunk |-> k, authority |-> a,
                      at |-> "program", copy |-> None]
    OBVIOUS
  <2>4. k \in Nat
    BY ProgramsAssumption
  <2>5. x \in Call /\ x.op = "write"
    BY <2>3, <2>4 DEF Call, WriteCall, Waiting
  <2> QED
    BY <2>2, <2>3, <2>5, BeginInv
<1>2. CASE SetProgramAuthority(c)
  <2>1. PICK p \in Program, a \in Authority \cup {None} :
          Begin(c, [op |-> "authority", p |-> p, authority |-> a, at |-> "program", copy |-> None])
    BY <1>2 DEF SetProgramAuthority
  <2>2. PICK x : x = [op |-> "authority", p |-> p, authority |-> a, at |-> "program",
                      copy |-> None]
    OBVIOUS
  <2>3. x \in Call /\ x.op = "authority"
    BY <2>2 DEF Call, AuthorityCall, Waiting
  <2> QED
    BY <2>1, <2>2, <2>3, BeginInv
<1>3. CASE CloneProgram(c)
  <2>1. PICK p \in Program, q \in Program :
          Begin(c, [op |-> "clone", p |-> p, to |-> q, at |-> "both", copy |-> None])
    BY <1>3 DEF CloneProgram
  <2>2. PICK x : x = [op |-> "clone", p |-> p, to |-> q, at |-> "both", copy |-> None]
    OBVIOUS
  <2>3. x \in Call /\ x.op = "clone"
    BY <2>2 DEF Call, CloneCall, Waiting
  <2> QED
    BY <2>1, <2>2, <2>3, BeginInv
<1>4. CASE ReadAccount(c)
  <2>1. PICK p \in Program, at \in {"program", "data"} :
          Begin(c, [op |-> "read", p |-> p, at |-> at])
    BY <1>4 DEF ReadAccount
  <2>2. PICK x : x = [op |-> "read", p |-> p, at |-> at]
    OBVIOUS
  <2>3. x \in Call /\ x.op = "read"
    BY <2>2 DEF Call, ReadCall
  <2> QED
    BY <2>1, <2>2, <2>3, BeginInv
<1>5. CASE LoadSnapshot(c)
  <2>1. PICK s \in Snapshots :
          /\ serving => ~s.strict
          /\ Begin(c, [op |-> "load", p |-> s.p, snapshot |-> s,
                       at |-> IF "null" \in {s.program, s.data} /\ ~serving
                              THEN "asked both" ELSE "load",
                       fetched |-> [program |-> "absent", data |-> None], failed |-> FALSE])
    BY <1>5 DEF LoadSnapshot
  <2>2. PICK at \in {"asked both", "load"} :
          at = IF "null" \in {s.program, s.data} /\ ~serving THEN "asked both" ELSE "load"
    OBVIOUS
  <2>3. PICK x : x = [op |-> "load", p |-> s.p, snapshot |-> s, at |-> at,
                      fetched |-> [program |-> "absent", data |-> None], failed |-> FALSE]
    OBVIOUS
  <2>4. s.p \in Program
    BY ProgramsAssumption
  <2>5. x \in Call /\ x.op = "load" /\ x.snapshot = s
    BY <2>3, <2>4 DEF Call, LoadCall, Fetches
  <2>6. Begin(c, x)
    BY <2>1, <2>2, <2>3
  <2>7. x.snapshot.strict => ~serving
    BY <2>1, <2>5
  <2> QED
    BY <2>5, <2>6, <2>7, BeginInv
<1> QED
  BY <1>1, <1>2, <1>3, <1>4, <1>5

(* A call that has not written yet goes on, or ends. *)
LEMMA GoOnInv ==
  ASSUME Inv, NEW c \in Caller, calls[c] # NoCall, NEW x \in Call,
         calls' = [calls EXCEPT ![c] = x], calls[c].at # "recompile",
         x.op \in {"none", calls[c].op}, x.op = "load" => x.snapshot = calls[c].snapshot,
         UNCHANGED <<has_db, serving, bank, history>>
  PROVE  Inv'
<1>1. Calls'
  BY CallGoesOn DEF Inv
<1>2. \A q \in Program : Recompiling(q) => Recompiling(q)'
  BY RecompilingOn DEF Inv
<1> QED
  BY <1>1, <1>2, CallsOnlyInv

LEMMA NoCallIs == NoCall \in Call /\ NoCall.op = "none"
BY DEF NoCall, Call

LEMMA AskRemoteInv ==
  ASSUME Inv, NEW c \in Caller, AskRemote(c)
  PROVE  Inv'
<1>1. /\ calls[c] # NoCall /\ calls[c].at \in {"program", "data", "both"}
      /\ calls' = [calls EXCEPT ![c].at = Asked(calls[c])]
      /\ UNCHANGED <<has_db, serving, bank, history>>
  BY DEF AskRemote
<1>2. calls \in [Caller -> Call] /\ calls[c] \in Call
  BY DEF Inv, Calls
<1>3. PICK x : x = [calls[c] EXCEPT !.at = Asked(calls[c])]
  OBVIOUS
<1>4. calls' = [calls EXCEPT ![c] = x]
  BY <1>1, <1>3
<1>5. /\ calls[c].at = "program" => Asked(calls[c]) = "asked program"
      /\ calls[c].at = "data" => Asked(calls[c]) = "asked data"
      /\ calls[c].at = "both" => Asked(calls[c]) \in {"asked data", "asked both"}
  BY DEF Asked
<1>6. x \in Call /\ x.op = calls[c].op /\ x.op # "load"
  <2>1. CASE calls[c].op = "write"
    <3>1. calls[c] \in WriteCall
      BY <1>2, <2>1, CallIs
    <3> QED
      BY <1>1, <1>3, <1>5, <2>1, <3>1 DEF WriteCall, Call
  <2>2. CASE calls[c].op = "authority"
    <3>1. calls[c] \in AuthorityCall
      BY <1>2, <2>2, CallIs
    <3> QED
      BY <1>1, <1>3, <1>5, <2>2, <3>1 DEF AuthorityCall, Call
  <2>3. CASE calls[c].op = "clone"
    <3>1. calls[c] \in CloneCall
      BY <1>2, <2>3, CallIs
    <3> QED
      BY <1>1, <1>3, <1>5, <2>3, <3>1 DEF CloneCall, Call
  <2>4. CASE calls[c].op = "read"
    <3>1. calls[c] \in ReadCall
      BY <1>2, <2>4, CallIs
    <3> QED
      BY <1>1, <1>3, <1>5, <2>4, <3>1 DEF ReadCall, Call
  <2>5. calls[c].op \notin {"none", "load"}
    BY <1>1, <1>2, CallIs DEF LoadCall
  <2> QED
    BY <1>2, <2>1, <2>2, <2>3, <2>4, <2>5, CallIs
<1> QED
  BY <1>1, <1>4, <1>6, GoOnInv

LEMMA RemoteFailsInv ==
  ASSUME Inv, NEW c \in Caller, RemoteFails(c)
  PROVE  Inv'
<1>1. /\ calls[c] # NoCall /\ IsAsked(calls[c].at)
      /\ UNCHANGED <<has_db, serving, bank, history>>
  BY DEF RemoteFails
<1>2. calls \in [Caller -> Call] /\ calls[c] \in Call /\ calls[c].at # "recompile"
  BY <1>1 DEF Inv, Calls, IsAsked
<1>3. CASE calls[c].op # "load"
  <2>1. calls' = [calls EXCEPT ![c] = NoCall]
    BY <1>3 DEF RemoteFails, End
  <2> QED
    BY <1>1, <1>2, <2>1, GoOnInv, NoCallIs
<1>4. CASE calls[c].op = "load"
  <2>1. PICK x : x = [calls[c] EXCEPT !.at = "load", !.failed = TRUE]
    OBVIOUS
  <2>2. calls' = [calls EXCEPT ![c] = x]
    BY <1>2, <1>4, <2>1 DEF RemoteFails
  <2>3. calls[c] \in LoadCall
    BY <1>2, <1>4, CallIs
  <2>4. x \in Call /\ x.op = "load" /\ x.snapshot = calls[c].snapshot
    BY <2>1, <2>3 DEF LoadCall, Call
  <2> QED
    BY <1>1, <1>2, <1>4, <2>2, <2>4, GoOnInv
<1> QED
  BY <1>3, <1>4

LEMMA FetchForSnapshotInv ==
  ASSUME Inv, NEW c \in Caller, FetchForSnapshot(c)
  PROVE  Inv'
<1>1. /\ calls[c] # NoCall /\ calls[c].op = "load" /\ calls[c].at = "asked both"
      /\ UNCHANGED <<has_db, serving, bank, history>>
  BY DEF FetchForSnapshot
<1>2. calls \in [Caller -> Call] /\ calls[c] \in Call
  BY DEF Inv, Calls
<1>3. calls[c] \in LoadCall
  BY <1>1, <1>2, CallIs
<1> DEFINE s == calls[c].snapshot
           here == Remote[s.p] # None
           program == IF s.program = "null" /\ here THEN "given" ELSE "absent"
           data == IF "null" \in {s.program, s.data} THEN RemoteData(s.p) ELSE None
<1>4. PICK fetched : fetched = [program |-> program, data |-> data]
  OBVIOUS
<1>5. PICK x : x = [calls[c] EXCEPT !.at = "load", !.fetched = fetched, !.failed = ~here]
  OBVIOUS
<1>6. calls' = [calls EXCEPT ![c] = x]
  BY <1>2, <1>4, <1>5 DEF FetchForSnapshot
<1>7. fetched \in Fetches
  <2>1. s.p \in Program
    BY <1>3, ProgramsAssumption DEF LoadCall
  <2>2. data \in CleanDatas \cup {None}
    BY <2>1, MadeData
  <2>3. program \in {"absent", "given"}
    OBVIOUS
  <2> HIDE DEF data, program
  <2> QED
    BY <1>4, <2>2, <2>3 DEF Fetches
<1>8. x \in Call /\ x.op = "load" /\ x.snapshot = calls[c].snapshot
  <2>1. (~here) \in BOOLEAN
    OBVIOUS
  <2> HIDE DEF here
  <2> QED
    BY <1>3, <1>5, <1>7, <2>1 DEF LoadCall, Call
<1> QED
  BY <1>1, <1>6, <1>8, GoOnInv

-----------------------------------------------------------------------------
(* Getting accounts *)

(* A call that got an account goes on, or ends. *)
LEMMA GotInv ==
  ASSUME Inv, NEW c \in Caller, calls[c] # NoCall, NEW x \in Call,
         calls' = [calls EXCEPT ![c] = x], calls[c].at # "recompile",
         x.op \in {"none", calls[c].op}, x.op # "load",
         Kept(bank, bank'), NoteDetached({}), UNCHANGED <<has_db, serving, told, progress>>
  PROVE  Inv'
<1>1. Calls'
  BY CallGoesOn DEF Inv
<1>2. \A q \in Program : Recompiling(q) => Recompiling(q)' \/ Fits(bank', q)
  BY RecompilingOn DEF Inv
<1> QED
  BY <1>1, <1>2, KeptInv

LEMMA FetchedIs ==
  ASSUME NEW c, calls[c].p \in Program
  PROVE  Fetched(c) \in CleanDatas \cup {None}
BY MadeData DEF Fetched

LEMMA GetProgramAccountInv ==
  ASSUME Inv, NEW c \in Caller, GetProgramAccount(c)
  PROVE  Inv'
<1> DEFINE call == calls[c]
<1>1. /\ call # NoCall /\ call.at \in {"asked program", "program"}
      /\ NoteDetached({}) /\ UNCHANGED <<has_db, serving, told, progress>>
  BY DEF GetProgramAccount, Takes
<1>2. calls \in [Caller -> Call] /\ call \in Call /\ Good(bank)
  BY DEF Inv, Calls
<1>3. PICK got : got = GotProgram(bank, call.p, Fetched(c))
  OBVIOUS
<1>4. /\ bank' = got.bank
      /\ \/ call.op = "read" /\ End(c)
         \/ /\ call.op = "write"
            /\ calls' = [calls EXCEPT ![c].at = IF got.found = "none" THEN "create" ELSE "data"]
         \/ /\ call.op = "authority"
            /\ IF got.found = "none" \/ (got.found = "coupled" /\ got.data = None) THEN End(c)
               ELSE calls' = [calls EXCEPT ![c].copy = got.data,
                                ![c].at = IF got.found = "alone" THEN "data" ELSE "write"]
  BY <1>3 DEF GetProgramAccount
<1>5. call.op \in {"read", "write", "authority"}
  BY <1>4
<1>6. call.p \in Program
  BY <1>2, <1>5, CallIs DEF ReadCall, WriteCall, AuthorityCall
<1>7. /\ Kept(bank, bank') /\ got.data \in CleanDatas \cup {None}
      /\ got.found \in {"alone", "coupled", "none"}
  BY <1>2, <1>3, <1>4, <1>6, FetchedIs, ProgramGot
<1>8. CASE End(c)
  <2>1. calls' = [calls EXCEPT ![c] = NoCall]
    BY <1>8 DEF End
  <2> QED
    BY <1>1, <1>7, <2>1, GotInv, NoCallIs
<1>9. CASE call.op = "write" /\ ~End(c)
  <2>1. PICK at : at = IF got.found = "none" THEN "create" ELSE "data"
    OBVIOUS
  <2>2. PICK x : x = [call EXCEPT !.at = at]
    OBVIOUS
  <2>3. calls' = [calls EXCEPT ![c] = x]
    BY <1>2, <1>4, <1>9, <2>1, <2>2
  <2>4. call \in WriteCall /\ at \in {"create", "data"}
    BY <1>2, <1>9, <2>1, CallIs
  <2>5. x \in Call /\ x.op = "write"
    BY <2>2, <2>4 DEF WriteCall, Call
  <2> QED
    BY <1>1, <1>7, <1>9, <2>3, <2>5, GotInv
<1>10. CASE call.op = "authority" /\ ~End(c)
  <2>1. PICK at : at = IF got.found = "alone" THEN "data" ELSE "write"
    OBVIOUS
  <2>2. PICK x : x = [call EXCEPT !.copy = got.data, !.at = at]
    OBVIOUS
  <2>3. calls' = [calls EXCEPT ![c] = x]
    BY <1>2, <1>4, <1>10, <2>1, <2>2
  <2>4. call \in AuthorityCall /\ at \in {"data", "write"} /\ (at = "write" => got.data # None)
    BY <1>2, <1>4, <1>7, <1>10, <2>1, CallIs
  <2>5. x \in Call /\ x.op = "authority"
    BY <1>7, <2>2, <2>4 DEF AuthorityCall, Call, Waiting
  <2> QED
    BY <1>1, <1>7, <1>10, <2>3, <2>5, GotInv
<1> QED
  BY <1>4, <1>5, <1>8, <1>9, <1>10

LEMMA CreateProgramInv ==
  ASSUME Inv, NEW c \in Caller, CreateProgram(c)
  PROVE  Inv'
<1>1. /\ calls[c] # NoCall /\ calls[c].at = "create"
      /\ NoteDetached({}) /\ UNCHANGED <<has_db, serving, told, progress>>
      /\ calls' = [calls EXCEPT ![c].at = "data"]
      /\ bank' = SetProgram(FillData(bank, calls[c].p, SyntheticData), calls[c].p)
  BY DEF CreateProgram
<1>2. calls \in [Caller -> Call] /\ calls[c] \in Call /\ Good(bank)
  BY DEF Inv, Calls
<1>3. calls[c] \in WriteCall
  BY <1>1, <1>2, CallIs DEF AuthorityCall, CloneCall, ReadCall, LoadCall
<1>4. calls[c].p \in Program /\ calls[c].op = "write"
  BY <1>3 DEF WriteCall
<1>5. PICK b : b = FillData(bank, calls[c].p, SyntheticData)
  OBVIOUS
<1>6. Kept(bank, b)
  BY <1>2, <1>4, <1>5, MadeData, DataFilled DEF Kept
<1>7. Kept(b, bank')
  BY <1>1, <1>4, <1>5, <1>6, ProgramSet DEF Kept
<1>8. PICK x : x = [calls[c] EXCEPT !.at = "data"]
  OBVIOUS
<1>9. x \in Call /\ x.op = "write" /\ calls' = [calls EXCEPT ![c] = x]
  BY <1>1, <1>2, <1>3, <1>8 DEF WriteCall, Call
<1> QED
  BY <1>1, <1>4, <1>6, <1>7, <1>9, KeptOn, GotInv

LEMMA GetDataAccountInv ==
  ASSUME Inv, NEW c \in Caller, GetDataAccount(c)
  PROVE  Inv'
<1> DEFINE call == calls[c]
           new == [authority |-> IF call.authority = None THEN System ELSE call.authority,
                   code |-> <<>>]
<1>1. /\ call # NoCall /\ call.at \in {"asked data", "data"}
      /\ NoteDetached({}) /\ UNCHANGED <<has_db, serving, told, progress>>
  BY DEF GetDataAccount, Takes
<1>2. calls \in [Caller -> Call] /\ call \in Call /\ Good(bank)
  BY DEF Inv, Calls
<1>3. PICK got : got = GotData(bank, call.p, Fetched(c))
  OBVIOUS
<1>4. /\ bank' = got.bank
      /\ \/ call.op = "read" /\ End(c)
         \/ /\ call.op = "write"
            /\ calls' = [calls EXCEPT ![c].at = "write",
                           ![c].copy = IF got.data = None THEN new ELSE got.data]
         \/ /\ call.op = "authority"
            /\ IF got.data = None THEN End(c)
               ELSE calls' = [calls EXCEPT ![c].at = "write", ![c].copy = got.data]
  BY <1>3 DEF GetDataAccount
<1>5. call.op \in {"read", "write", "authority"}
  BY <1>4
<1>6. call.p \in Program
  BY <1>2, <1>5, CallIs DEF ReadCall, WriteCall, AuthorityCall
<1>7. Kept(bank, bank') /\ got.data \in CleanDatas \cup {None}
  BY <1>2, <1>3, <1>4, <1>6, FetchedIs, DataGot
<1>8. CASE End(c)
  <2>1. calls' = [calls EXCEPT ![c] = NoCall]
    BY <1>8 DEF End
  <2> QED
    BY <1>1, <1>7, <2>1, GotInv, NoCallIs
<1>9. CASE call.op = "write" /\ ~End(c)
  <2>1. PICK d : d = IF got.data = None THEN new ELSE got.data
    OBVIOUS
  <2>2. PICK x : x = [call EXCEPT !.at = "write", !.copy = d]
    OBVIOUS
  <2>3. calls' = [calls EXCEPT ![c] = x]
    BY <1>2, <1>4, <1>9, <2>1, <2>2
  <2>4. call \in WriteCall
    BY <1>2, <1>9, CallIs
  <2>5. d \in CleanDatas
    <3>1. PICK e : e = new
      OBVIOUS
    <3>2. PICK a : a = IF call.authority = None THEN System ELSE call.authority
      OBVIOUS
    <3>3. a \in Authority \cup {System, None}
      BY <2>4, <3>2 DEF WriteCall
    <3>4. e = [authority |-> a, code |-> <<>>]
      BY <3>1, <3>2
    <3>5. e \in Datas /\ e.code = <<>>
      BY <3>3, <3>4 DEF Datas
    <3>6. e \in CleanDatas
      BY <3>5 DEF CleanDatas
    <3> HIDE DEF new
    <3> QED
      BY <1>7, <2>1, <3>1, <3>6
  <2>6. d # None
    BY <2>5, CompiledImage DEF CleanDatas
  <2>7. x \in Call /\ x.op = "write"
    BY <2>2, <2>4, <2>5, <2>6 DEF WriteCall, Call, Waiting
  <2> QED
    BY <1>1, <1>7, <1>9, <2>3, <2>7, GotInv
<1>10. CASE call.op = "authority" /\ ~End(c)
  <2>1. PICK x : x = [call EXCEPT !.at = "write", !.copy = got.data]
    OBVIOUS
  <2>2. calls' = [calls EXCEPT ![c] = x] /\ got.data # None
    BY <1>2, <1>4, <1>10, <2>1
  <2>3. call \in AuthorityCall
    BY <1>2, <1>10, CallIs
  <2>4. x \in Call /\ x.op = "authority"
    BY <1>7, <2>1, <2>2, <2>3 DEF AuthorityCall, Call, Waiting
  <2> QED
    BY <1>1, <1>7, <1>10, <2>2, <2>4, GotInv
<1> QED
  BY <1>4, <1>5, <1>8, <1>9, <1>10

LEMMA GetBothAccountsInv ==
  ASSUME Inv, NEW c \in Caller, GetBothAccounts(c)
  PROVE  Inv'
<1> DEFINE call == calls[c]
<1>1. /\ call # NoCall /\ call.op = "clone" /\ call.at \in {"asked data", "asked both", "both"}
      /\ NoteDetached({}) /\ UNCHANGED <<has_db, serving, told, progress>>
  BY DEF GetBothAccounts, Takes
<1>2. calls \in [Caller -> Call] /\ call \in Call /\ Good(bank)
  BY DEF Inv, Calls
<1>3. call \in CloneCall /\ call.p \in Program
  BY <1>1, <1>2, CallIs DEF CloneCall
<1>4. PICK first : first = IF call.at = "asked data" THEN None ELSE Fetched(c)
  OBVIOUS
<1>5. PICK program : program = GotProgram(bank, call.p, first)
  OBVIOUS
<1>6. PICK got : got = GotData(program.bank, call.p, Fetched(c))
  OBVIOUS
<1>7. /\ bank' = got.bank
      /\ IF program.found = "none" \/ got.data = None THEN End(c)
         ELSE calls' = [calls EXCEPT ![c].at = "write", ![c].copy = got.data]
  BY <1>4, <1>5, <1>6 DEF GetBothAccounts
<1>8. Fetched(c) \in CleanDatas \cup {None} /\ first \in CleanDatas \cup {None}
  BY <1>3, <1>4, FetchedIs
<1>9. Kept(bank, program.bank)
  BY <1>2, <1>3, <1>5, <1>8, ProgramGot
<1>10. Kept(program.bank, got.bank) /\ got.data \in CleanDatas \cup {None}
  BY <1>3, <1>6, <1>8, <1>9, DataGot DEF Kept
<1>11. Kept(bank, bank')
  BY <1>7, <1>9, <1>10, KeptOn
<1>12. CASE End(c)
  <2>1. calls' = [calls EXCEPT ![c] = NoCall]
    BY <1>12 DEF End
  <2> QED
    BY <1>1, <1>11, <2>1, GotInv, NoCallIs
<1>13. CASE ~End(c)
  <2>1. PICK x : x = [call EXCEPT !.at = "write", !.copy = got.data]
    OBVIOUS
  <2>2. calls' = [calls EXCEPT ![c] = x] /\ got.data # None
    BY <1>2, <1>7, <1>13, <2>1
  <2>3. x \in Call /\ x.op = "clone"
    BY <1>3, <1>10, <2>1, <2>2 DEF CloneCall, Call, Waiting
  <2> QED
    BY <1>1, <1>11, <2>2, <2>3, GotInv
<1> QED
  BY <1>12, <1>13

-----------------------------------------------------------------------------
(* Writing *)

(* A chunk that is written leaves none of the placeholder, and the chunks  *)
(* of other images where they are.                                         *)
LEMMA ChunkIs ==
  ASSUME NEW call \in WriteCall, NEW d \in CleanDatas, NEW e, e = ChunkWritten(d, call)
  PROVE  /\ e \in CleanDatas
         /\ call.chunk <= Len(e.code) /\ e.code[call.chunk] = <<call.image, call.chunk>>
         /\ \A i \in Image \ {Noop}, k \in Nat \ {0} :
              k <= Len(d.code) /\ d.code[k] = <<i, k>> /\ k # call.chunk
                => k <= Len(e.code) /\ e.code[k] = <<i, k>>
<1>1. /\ call.image \in Image \ {Noop} /\ call.chunk \in 1..Size[call.image] /\ call.chunk \in Nat
      /\ call.authority \in Authority \cup {None}
  BY ProgramsAssumption DEF WriteCall
<1>2. d.code \in Seq(Chunks) /\ d.authority \in Authority \cup {System, None} /\ Noop \in Image
  BY ProgramsAssumption DEF CleanDatas, Datas
<1>3. PICK kept : kept = WithoutPlaceholder(d.code)
  OBVIOUS
<1>4. /\ kept \in Seq(Chunks)
      /\ \A k \in 1..Len(kept) : kept[k] \in Chunks /\ kept[k] \notin NoopChunks
  <2>1. CASE d.code = Code(Noop)
    <3>1. kept = <<>>
      BY <1>3, <2>1 DEF WithoutPlaceholder
    <3> QED
      BY <3>1
  <2>2. CASE d.code # Code(Noop)
    <3>1. kept = d.code
      BY <1>3, <2>2 DEF WithoutPlaceholder
    <3>2. \A k \in DOMAIN d.code : d.code[k] \notin NoopChunks
      BY <2>2 DEF CleanDatas
    <3> QED
      BY <1>2, <3>1, <3>2
  <2> QED
    BY <2>1, <2>2
<1>5. PICK size : size = IF Len(kept) < call.chunk THEN call.chunk ELSE Len(kept)
  OBVIOUS
<1>6. size \in Nat /\ size >= call.chunk /\ size >= Len(kept)
  BY <1>1, <1>4, <1>5
<1>7. PICK code : code = [k \in 1..size |-> IF k = call.chunk THEN <<call.image, k>>
                                            ELSE IF k <= Len(kept) THEN kept[k] ELSE Zero]
  OBVIOUS
<1>8. e = [authority |-> NewAuthority(d.authority, call.authority), code |-> code]
  BY <1>3, <1>5, <1>7 DEF ChunkWritten
<1>9. /\ \A k \in 1..size : code[k] = IF k = call.chunk THEN <<call.image, k>>
                                      ELSE IF k <= Len(kept) THEN kept[k] ELSE Zero
      /\ DOMAIN code = 1..size
  BY <1>7
<1>10. Zero \in Chunks /\ Zero \notin NoopChunks
  BY ProgramsAssumption DEF Chunks
<1>11. <<call.image, call.chunk>> \in Chunks /\ <<call.image, call.chunk>> \notin NoopChunks
  <2>1. <<call.image, call.chunk>> \in Chunks
    BY <1>1 DEF Chunks
  <2>2. \A k : <<call.image, call.chunk>> # <<Noop, k>>
    BY <1>1
  <2> QED
    BY <2>1, <2>2 DEF NoopChunks
<1>12. \A k \in 1..size : code[k] \in Chunks /\ code[k] \notin NoopChunks
  <2>1. \A k \in 1..size : k <= Len(kept) => k \in 1..Len(kept)
    BY <1>4, <1>6
  <2> QED
    BY <1>4, <1>9, <1>10, <1>11, <2>1
<1>13. code \in Seq(Chunks) /\ Len(code) = size
  <2>1. code \in [1..size -> Chunks]
    BY <1>7, <1>9, <1>12
  <2> QED
    BY <1>6, <2>1
<1>14. NewAuthority(d.authority, call.authority) \in Authority \cup {System, None}
  BY <1>1, <1>2 DEF NewAuthority
<1>15. e.code = code /\ e \in CleanDatas
  BY <1>8, <1>9, <1>12, <1>13, <1>14 DEF CleanDatas, Datas
<1>16. call.chunk <= Len(e.code) /\ e.code[call.chunk] = <<call.image, call.chunk>>
  BY <1>1, <1>6, <1>9, <1>13, <1>15
<1>17. ASSUME NEW i \in Image \ {Noop}, NEW k \in Nat \ {0},
              k <= Len(d.code), d.code[k] = <<i, k>>, k # call.chunk
       PROVE  k <= Len(e.code) /\ e.code[k] = <<i, k>>
  <2>1. d.code # Code(Noop)
    <3>1. SUFFICES ASSUME d.code = Code(Noop) PROVE FALSE
      OBVIOUS
    <3>2. k \in 1..Size[Noop]
      BY <1>2, <1>17, <3>1, CodeIs
    <3>3. d.code[k] = <<Noop, k>>
      BY <1>2, <3>1, <3>2, CodeIs
    <3>4. <<i, k>> = <<Noop, k>>
      BY <1>17, <3>3
    <3> QED
      BY <3>4
  <2>2. kept = d.code
    BY <1>3, <2>1 DEF WithoutPlaceholder
  <2>3. k \in 1..size /\ k <= Len(kept)
    BY <1>2, <1>6, <1>17, <2>2
  <2> QED
    BY <1>9, <1>13, <1>15, <1>17, <2>2, <2>3
<1> QED
  BY <1>15, <1>16, <1>17

LEMMA WritesServed ==
  ASSUME Inv, NEW c \in Caller, calls[c].op \in {"write", "authority", "clone"}
  PROVE  serving
BY DEF Inv, Calls, Types

(* A step that rewrites one program, and notes what became of it. *)
LEMMA RewrittenInv ==
  ASSUME Inv, NEW p \in Program, Good(bank'), has_db' = has_db, serving' = serving, serving,
         \A q \in Program \ {p} : Keeps(bank, bank', q) /\ (Fits(bank, q) => Fits(bank', q)),
         \A q \in Program \ {p} : told'[q] = told[q] /\ progress'[q] = progress[q],
         \A q \in Program \ {p} : Recompiling(q) => Recompiling(q)' \/ Fits(bank', q),
         \A q \in Program \ {p} : q \in detached => Fits(bank', q) \/ q \in detached',
         Types', Calls', Compiles(p)', HistoryStored(p)'
  PROVE  Inv'
<1>1. Good(bank)'
  BY GoodProgramsNext
<1>2. ASSUME NEW q \in Program \ {p} PROVE Compiles(q)' /\ HistoryStored(q)'
  <2>1. /\ Fits(bank', q) <=> Fits(bank, q)'
        /\ Stored(bank, q) # None => Stored(bank, q)' # None
    BY DEF Fits, Keeps, Stored
  <2>2. Compiles(q)'
    BY <2>1 DEF Inv, Compiles
  <2>3. HistoryStored(q)'
    BY HistoryKept
  <2> QED
    BY <2>2, <2>3
<1>3. NothingToldYet'
  BY DEF NothingToldYet
<1> QED
  BY <1>1, <1>2, <1>3 DEF Inv

LEMMA WriteChunkInv ==
  ASSUME Inv, NEW c \in Caller, WriteChunk(c)
  PROVE  Inv'
<1> DEFINE call == calls[c]
<1>1. /\ call # NoCall /\ call.at = "write" /\ call.op = "write"
      /\ UNCHANGED <<has_db, serving, detached>>
      /\ calls' = [calls EXCEPT ![c].at = "recompile", ![c].copy = None]
  BY DEF WriteChunk
<1>2. calls \in [Caller -> Call] /\ call \in Call /\ Good(bank)
  BY DEF Inv, Calls
<1>3. call \in WriteCall
  BY <1>1, <1>2, CallIs
<1>4. /\ call.p \in Program /\ call.copy \in CleanDatas /\ call.image \in Deployed
      /\ call.chunk \in 1..Size[call.image]
  BY <1>1, <1>3 DEF WriteCall, Waiting
<1>25. PICK p \in Program : p = call.p
  BY <1>4
<1>5. PICK e : e = ChunkWritten(call.copy, call)
  OBVIOUS
<1>6. bank' = SetData(bank, call.p, e)
  BY <1>5 DEF WriteChunk
<1>7. e \in CleanDatas
  BY <1>3, <1>4, <1>5, ChunkIs
<1>8. /\ Good(bank') /\ Stored(bank', call.p) = e
      /\ \A q \in Program \ {call.p} : Keeps(bank, bank', q) /\ (Fits(bank, q) => Fits(bank', q))
  BY <1>2, <1>4, <1>6, <1>7, DataSet
<1>9. PICK x : x = [call EXCEPT !.at = "recompile", !.copy = None]
  OBVIOUS
<1>10. calls' = [calls EXCEPT ![c] = x]
  BY <1>1, <1>2, <1>9
<1>11. x \in Call /\ x.op = "write" /\ x.at = "recompile" /\ x.p = call.p
  BY <1>3, <1>9 DEF WriteCall, Call, Waiting
<1>12. Calls'
  BY <1>1, <1>10, <1>11, CallGoesOn DEF Inv
<1>13. serving
  BY <1>1, WritesServed
<1>14. \A q \in Program : Recompiling(q) => Recompiling(q)'
  BY <1>1, <1>10, RecompilingOn DEF Inv
<1>15. Compiles(p)'
  <2>1. calls'[c] = x
    BY <1>2, <1>10
  <2>2. x # NoCall
    BY <1>11, CallIs
  <2>3. Recompiling(p)'
    BY <1>11, <1>25, <2>1, <2>2 DEF Recompiling
  <2>4. Stored(bank, p)' # None
    BY <1>7, <1>8, <1>25, CompiledImage DEF CleanDatas, Stored
  <2> QED
    BY <2>3, <2>4 DEF Compiles
<1>16. PICK same : same = (progress[call.p].image = call.image /\ Stored(bank, call.p) = call.copy)
  OBVIOUS
<1>17. PICK w : w = [image |-> call.image,
                     written |-> {call.chunk} \cup (IF same THEN progress[call.p].written ELSE {})]
  OBVIOUS
<1>18. /\ progress' = [progress EXCEPT ![call.p] = w]
       /\ told' = [told EXCEPT ![call.p] = Untold]
  <2>1. (~Overtaken(call)) <=> Stored(bank, call.p) = call.copy
    BY StoredIs DEF Overtaken
  <2> QED
    BY <1>4, <1>16, <1>17, <2>1 DEF WriteChunk, Inv, Types
<1>19. progress[call.p].written \subseteq Nat /\ Size[call.image] \in Nat /\ call.image \in Image
  BY <1>4, ProgramsAssumption DEF Inv, Types
<1>20. Types'
  <2>1. w \in [image : Image \cup {None}, written : SUBSET Nat]
    BY <1>4, <1>17, <1>19
  <2> QED
    BY <1>1, <1>4, <1>18, <2>1, UntoldTypes DEF Inv, Types
<1>21. /\ told'[call.p] = Untold /\ progress'[call.p] = w
       /\ \A q \in Program \ {call.p} : told'[q] = told[q] /\ progress'[q] = progress[q]
  BY <1>4, <1>18 DEF Inv, Types
<1>22. ChunksStored(bank', call.p, w)
  <2>1. ASSUME NEW k \in w.written
        PROVE  k \in 1..Size[call.image] /\ k <= Len(e.code) /\ e.code[k] = <<call.image, k>>
    <3>1. CASE k = call.chunk
      BY <1>3, <1>4, <1>5, <3>1, ChunkIs
    <3>2. CASE k # call.chunk
      <4>1. /\ progress[call.p].image = call.image /\ Stored(bank, call.p) = call.copy
            /\ k \in progress[call.p].written
        BY <1>16, <1>17, <2>1, <3>2
      <4>2. /\ k \in 1..Size[call.image] /\ k <= Len(call.copy.code)
            /\ call.copy.code[k] = <<call.image, k>>
        <5>1. ChunksStored(bank, call.p, progress[call.p]) /\ call.image # None
          BY <1>4, <1>19, ProgramsAssumption DEF Inv, HistoryStored
        <5> QED
          BY <4>1, <5>1 DEF ChunksStored
      <4>3. call.image \in Image \ {Noop} /\ k \in Nat \ {0}
        BY <1>4, <1>19, <4>2, ProgramsAssumption
      <4> QED
        BY <1>3, <1>4, <1>5, <3>2, <4>2, <4>3, ChunkIs
    <3> QED
      BY <3>1, <3>2
  <2>2. e # None
    BY <1>7, CompiledImage DEF CleanDatas
  <2> QED
    BY <1>4, <1>8, <1>17, <2>1, <2>2 DEF ChunksStored
<1>23. HistoryStored(p)'
  <2>1. ToldStored(bank', p, told'[p])
    BY <1>21, <1>25 DEF ToldStored, Untold
  <2> QED
    BY <1>21, <1>22, <1>25, <2>1 DEF HistoryStored, ToldStored, ChunksStored, Stored
<1>24. /\ \A q \in Program \ {p} : Recompiling(q) => Recompiling(q)' \/ Fits(bank', q)
       /\ \A q \in Program \ {p} : q \in detached => Fits(bank', q) \/ q \in detached'
  BY <1>1, <1>14
<1> HIDE DEF call
<1> QED
  BY <1>1, <1>25, <1>8, <1>12, <1>13, <1>15, <1>20, <1>21, <1>23, <1>24, RewrittenInv

(* An image whose chunks are all stored compiles to itself. *)
LEMMA ChunksCompile ==
  ASSUME NEW b, Good(b), NEW p \in Program, NEW i \in Deployed, NEW w,
         ChunksStored(b, p, w), w.image = i, w.written = 1..Size[i]
  PROVE  Stored(b, p) \in CleanDatas /\ Compiled(Stored(b, p)) = i
<1>1. i \in Image /\ i # None /\ Size[i] \in Nat \ {0}
  BY ProgramsAssumption
<1>2. PICK d : d = Stored(b, p)
  OBVIOUS
<1>3. d \in CleanDatas /\ \A k \in 1..Size[i] : k <= Len(d.code) /\ d.code[k] = <<i, k>>
  BY <1>1, <1>2, DataOfBank DEF ChunksStored
<1>4. d \in Datas
  BY <1>3 DEF CleanDatas
<1>5. d.code \in Seq(Chunks)
  BY <1>4, CompiledImage
<1>6. Len(d.code) >= Size[i]
  <2>1. Size[i] \in 1..Size[i]
    BY <1>1
  <2>2. Len(d.code) \in Nat
    BY <1>5
  <2> QED
    BY <1>1, <1>3, <2>1, <2>2
<1> QED
  BY <1>1, <1>2, <1>3, <1>4, <1>6, CompiledImage

LEMMA FinishWriteInv ==
  ASSUME Inv, NEW c \in Caller, FinishWrite(c)
  PROVE  Inv'
<1>1. PICK call : call = calls[c]
  OBVIOUS
<1>2. /\ call # NoCall /\ call.at = "recompile"
      /\ UNCHANGED <<has_db, serving, progress>> /\ NoteDetached({})
      /\ calls' = [calls EXCEPT ![c] = NoCall]
      /\ bank' = SetProgram(bank, call.p)
  BY <1>1 DEF FinishWrite, End, Recompile
<1>3. calls \in [Caller -> Call] /\ call \in Call /\ Good(bank)
  BY <1>1 DEF Inv, Calls
<1>4. call \in WriteCall
  BY <1>2, <1>3, CallIs DEF AuthorityCall, CloneCall, ReadCall, LoadCall
<1>5. PICK p \in Program : p = call.p
  BY <1>4 DEF WriteCall
<1>6. PICK i \in Deployed : i = call.image
  BY <1>4 DEF WriteCall
<1>7. call.op = "write" /\ serving
  <2>1. call.op = "write"
    BY <1>4 DEF WriteCall
  <2> QED
    BY <1>1, <2>1, WritesServed
<1>8. /\ Good(bank') /\ bank'.data = bank.data /\ bank'.db_data = bank.db_data
      /\ Accepted(bank, p) => p \in bank'.programs
      /\ has_db => p \in bank'.db_programs
      /\ p \notin bank.programs \/ bank.data[p] # None => Fits(bank', p)
      /\ \A q \in Program : Keeps(bank, bank', q) /\ (Fits(bank, q) => Fits(bank', q))
  BY <1>2, <1>3, <1>5, ProgramSet
<1>9. Calls'
  BY <1>1, <1>2, CallGoesOn, NoCallIs DEF Inv
<1>10. \A q \in Program \ {p} : Recompiling(q) => Recompiling(q)'
  BY <1>1, <1>2, <1>5, RecompilingOn DEF Inv
<1>11. PICK complete : complete = (progress[p].image = i /\ progress[p].written = 1..Size[i])
  OBVIOUS
<1>12. PICK t : t = IF complete THEN [code |-> i, authority |-> AnyCode] ELSE told[p]
  OBVIOUS
<1>13. told' = [told EXCEPT ![p] = t]
  BY <1>1, <1>5, <1>6, <1>11, <1>12 DEF FinishWrite, Inv, Types
<1>14. /\ told'[p] = t /\ progress'[p] = progress[p]
       /\ \A q \in Program \ {p} : told'[q] = told[q] /\ progress'[q] = progress[q]
  BY <1>2, <1>13 DEF Inv, Types
<1>15. Types'
  <2>1. t \in [code : Image \cup {None, AnyCode},
               authority : Authority \cup {System, None, AnyCode}]
    <3>1. i \in Image
      BY ProgramsAssumption
    <3> QED
      BY <1>12, <3>1 DEF Inv, Types
  <2> QED
    BY <1>2, <1>13, <2>1, Noted DEF Inv, Types
<1>16. Compiles(p)'
  <2>1. CASE p \notin bank.programs \/ bank.data[p] # None
    BY <1>8, <2>1 DEF Compiles, Fits
  <2>2. CASE p \in bank.programs /\ bank.data[p] = None
    <3>1. Stored(bank, p) = None /\ ~Fits(bank, p)
      BY <1>3, <2>2 DEF Good, Stored, Fits
    <3>2. p \in detached
      BY <3>1 DEF Inv, Compiles
    <3>3. Fits(bank', p) \/ p \in detached'
      BY <1>2, <1>8, <3>2, Noted
    <3> QED
      BY <3>3 DEF Compiles, Fits
  <2> QED
    BY <2>1, <2>2
<1>17. ToldStored(bank', p, t)
  <2>1. CASE ~complete
    BY <1>8, <1>12, <2>1, ToldKept DEF Inv, HistoryStored
  <2>2. CASE complete
    <3>1. PICK w : w = progress[p]
      OBVIOUS
    <3>2. ChunksStored(bank, p, w) /\ w.image = i /\ w.written = 1..Size[i]
      BY <1>11, <2>2, <3>1 DEF Inv, HistoryStored
    <3>3. Stored(bank, p) \in CleanDatas /\ Compiled(Stored(bank, p)) = i
      BY <1>3, <3>2, ChunksCompile
    <3>4. i # None /\ Stored(bank, p) # None
      <4>1. Stored(bank, p) # None
        BY <3>3, CompiledImage DEF CleanDatas
      <4> QED
        BY <4>1, ProgramsAssumption
    <3>5. Stored(bank', p) = Stored(bank, p)
      BY <1>8 DEF Stored
    <3>6. p \in bank'.programs \cup bank'.db_programs
      <4>1. CASE bank.data[p] # None
        BY <1>8, <3>3, <3>4, <4>1 DEF Accepted, Stored
      <4>2. CASE bank.data[p] = None
        BY <1>3, <1>8, <3>4, <4>2 DEF Good, Stored
      <4> QED
        BY <4>1, <4>2
    <3>7. p \in bank'.programs => bank'.cache[p] = i
      <4>1. p \in bank'.programs => bank'.data[p] = Stored(bank', p)
        BY <1>8 DEF Good, Stored
      <4>2. p \notin bank.programs \/ bank.data[p] # None
        BY <1>3, <3>4 DEF Good, Stored
      <4> QED
        BY <1>8, <3>3, <3>4, <3>5, <4>1, <4>2 DEF Fits
    <3>8. t.code = i /\ t.authority = AnyCode
      BY <1>12, <2>2
    <3> QED
      BY <3>3, <3>4, <3>5, <3>6, <3>7, <3>8 DEF ToldStored
  <2> QED
    BY <2>1, <2>2
<1>18. HistoryStored(p)'
  <2>1. ChunksStored(bank', p, progress'[p])
    BY <1>8, <1>14, ChunksKept DEF Inv, HistoryStored
  <2> QED
    BY <1>14, <1>17, <2>1 DEF HistoryStored, ToldStored, ChunksStored, Stored
<1>19. \A q \in Program \ {p} : q \in detached => Fits(bank', q) \/ q \in detached'
  BY <1>2, <1>8, Noted
<1> QED
  BY <1>2, <1>7, <1>8, <1>9, <1>10, <1>14, <1>15, <1>16, <1>18, <1>19, RewrittenInv

(* Programdata, then program. *)
LEMMA BothSet ==
  ASSUME NEW b, Good(b), NEW p \in Program, NEW d \in CleanDatas,
         NEW b1, b1 = SetData(b, p, d), NEW r, r = SetProgram(b1, p)
  PROVE  /\ Good(r) /\ Stored(r, p) = d /\ Fits(r, p)
         /\ Accepted(b1, p) <=> Compiled(d) # None
         /\ Compiled(d) # None => p \in r.programs /\ r.cache[p] = Compiled(d)
         /\ \A q \in Program \ {p} : Keeps(b, r, q) /\ (Fits(b, q) => Fits(r, q))
<1>1. /\ Good(b1) /\ Stored(b1, p) = d /\ b1.data[p] = d
      /\ \A q \in Program \ {p} : Keeps(b, b1, q) /\ (Fits(b, q) => Fits(b1, q))
  BY DataSet
<1>3. d # None
  BY CompiledImage DEF CleanDatas
<1>2. /\ Good(r) /\ r.data = b1.data /\ r.db_data = b1.db_data
      /\ Accepted(b1, p) => p \in r.programs /\ r.cache[p] = Compiled(b1.data[p])
      /\ Fits(r, p)
      /\ \A q \in Program : Keeps(b1, r, q) /\ (Fits(b1, q) => Fits(r, q))
  BY <1>1, <1>3, ProgramSet
<1>4. Accepted(b1, p) <=> Compiled(d) # None
  BY <1>1, <1>3 DEF Accepted
<1>5. Stored(r, p) = d
  BY <1>1, <1>2 DEF Stored
<1>6. \A q \in Program \ {p} : Keeps(b, r, q)
  BY <1>1, <1>2, KeepsOn
<1> QED
  BY <1>1, <1>2, <1>4, <1>5, <1>6

LEMMA WriteAuthorityInv ==
  ASSUME Inv, NEW c \in Caller, WriteAuthority(c)
  PROVE  Inv'
<1>1. PICK call : call = calls[c]
  OBVIOUS
<1>2. /\ call # NoCall /\ call.at = "write" /\ call.op = "authority"
      /\ UNCHANGED <<has_db, serving>> /\ NoteDetached({})
      /\ calls' = [calls EXCEPT ![c] = NoCall]
  BY <1>1 DEF WriteAuthority, End
<1>3. calls \in [Caller -> Call] /\ call \in Call /\ Good(bank)
  BY <1>1 DEF Inv, Calls
<1>4. call \in AuthorityCall
  BY <1>2, <1>3, CallIs
<1>5. PICK p \in Program : p = call.p
  BY <1>4 DEF AuthorityCall
<1>6. PICK copy \in CleanDatas : copy = call.copy
  BY <1>2, <1>4 DEF AuthorityCall, Waiting
<1>7. PICK a \in Authority \cup {None} : a = call.authority
  BY <1>4 DEF AuthorityCall
<1>8. PICK d : d = [copy EXCEPT !.authority = a]
  OBVIOUS
<1>9. d \in CleanDatas /\ d.code = copy.code /\ d.authority = a /\ d \in Datas /\ copy \in Datas
  BY <1>8 DEF CleanDatas, Datas
<1>10. PICK b1 : b1 = SetData(bank, p, d)
  OBVIOUS
<1>11. bank' = SetProgram(b1, p)
  BY <1>1, <1>5, <1>6, <1>7, <1>8, <1>10 DEF WriteAuthority
<1>12. /\ Good(bank') /\ Stored(bank', p) = d /\ Fits(bank', p)
       /\ Compiled(d) # None => p \in bank'.programs /\ bank'.cache[p] = Compiled(d)
       /\ \A q \in Program \ {p} : Keeps(bank, bank', q) /\ (Fits(bank, q) => Fits(bank', q))
  BY <1>3, <1>9, <1>10, <1>11, BothSet
<1>13. serving
  BY <1>1, <1>2, WritesServed
<1>14. Calls'
  BY <1>1, <1>2, CallGoesOn, NoCallIs DEF Inv
<1>15. \A q \in Program \ {p} : Recompiling(q) => Recompiling(q)'
  BY <1>1, <1>2, <1>5, RecompilingOn DEF Inv
<1>16. PICK same : same = (Stored(bank, p) = copy)
  OBVIOUS
<1>17. PICK t : t = [code |-> IF same THEN told[p].code ELSE None, authority |-> a]
  OBVIOUS
<1>18. PICK w : w = IF same THEN progress[p] ELSE Unwritten
  OBVIOUS
<1>19. told' = [told EXCEPT ![p] = t] /\ progress' = [progress EXCEPT ![p] = w]
  <2>1. (~Overtaken(call)) <=> same
    BY <1>5, <1>6, <1>16, StoredIs DEF Overtaken
  <2> QED
    BY <1>1, <1>5, <1>7, <1>17, <1>18, <2>1 DEF WriteAuthority, Inv, Types
<1>20. /\ told'[p] = t /\ progress'[p] = w
       /\ \A q \in Program \ {p} : told'[q] = told[q] /\ progress'[q] = progress[q]
  BY <1>19 DEF Inv, Types
<1>21. Types'
  <2>1. t \in [code : Image \cup {None, AnyCode},
               authority : Authority \cup {System, None, AnyCode}]
    BY <1>17 DEF Inv, Types
  <2>2. w \in [image : Image \cup {None}, written : SUBSET Nat]
    BY <1>18, UntoldTypes DEF Inv, Types
  <2> QED
    BY <1>2, <1>19, <2>1, <2>2, Noted DEF Inv, Types
<1>22. Compiles(p)'
  BY <1>12 DEF Compiles, Fits
<1>23. d # None
  BY <1>9, CompiledImage
<1>24. ToldStored(bank', p, t)
  <2>1. t.authority = a /\ (t.code # None => same /\ t.code = told[p].code)
    BY <1>17
  <2>2. ASSUME t.code # None
        PROVE  Compiled(d) # None /\ (t.code # AnyCode => Compiled(d) = t.code)
    <3>1. Compiled(d) = Compiled(copy)
      BY <1>9, SameCode
    <3>2. ToldStored(bank, p, told[p])
      BY DEF Inv, HistoryStored
    <3> QED
      BY <1>16, <2>1, <2>2, <3>1, <3>2 DEF ToldStored
  <2> QED
    BY <1>9, <1>12, <1>23, <2>1, <2>2 DEF ToldStored
<1>25. ChunksStored(bank', p, w)
  <2>1. CASE same
    <3>1. ChunksStored(bank, p, w)
      BY <1>18, <2>1 DEF Inv, HistoryStored
    <3> QED
      BY <1>9, <1>12, <1>16, <1>23, <2>1, <3>1 DEF ChunksStored
  <2>2. CASE ~same
    BY <1>18, <2>2 DEF ChunksStored, Unwritten
  <2> QED
    BY <2>1, <2>2
<1>26. HistoryStored(p)'
  BY <1>20, <1>24, <1>25 DEF HistoryStored, ToldStored, ChunksStored, Stored
<1>27. \A q \in Program \ {p} : q \in detached => Fits(bank', q) \/ q \in detached'
  BY <1>2, <1>12, Noted
<1> QED
  BY <1>2, <1>12, <1>13, <1>14, <1>15, <1>20, <1>21, <1>22, <1>26, <1>27, RewrittenInv

LEMMA WriteCloneInv ==
  ASSUME Inv, NEW c \in Caller, WriteClone(c)
  PROVE  Inv'
<1>1. PICK call : call = calls[c]
  OBVIOUS
<1>2. /\ call # NoCall /\ call.at = "write" /\ call.op = "clone"
      /\ UNCHANGED <<has_db, serving>> /\ NoteDetached({})
      /\ calls' = [calls EXCEPT ![c] = NoCall]
  BY <1>1 DEF WriteClone, End
<1>3. calls \in [Caller -> Call] /\ call \in Call /\ Good(bank)
  BY <1>1 DEF Inv, Calls
<1>4. call \in CloneCall
  BY <1>2, <1>3, CallIs
<1>5. PICK p \in Program : p = call.to
  BY <1>4 DEF CloneCall
<1>6. PICK d \in CleanDatas : d = call.copy
  BY <1>2, <1>4 DEF CloneCall, Waiting
<1>7. PICK b1 : b1 = SetData(bank, p, d)
  OBVIOUS
<1>8. bank' = SetProgram(b1, p)
  BY <1>1, <1>5, <1>6, <1>7 DEF WriteClone
<1>9. /\ Good(bank') /\ Stored(bank', p) = d /\ Fits(bank', p)
      /\ Accepted(b1, p) <=> Compiled(d) # None
      /\ Compiled(d) # None => p \in bank'.programs /\ bank'.cache[p] = Compiled(d)
      /\ \A q \in Program \ {p} : Keeps(bank, bank', q) /\ (Fits(bank, q) => Fits(bank', q))
  BY <1>3, <1>7, <1>8, BothSet
<1>10. serving
  BY <1>1, <1>2, WritesServed
<1>11. Calls'
  BY <1>1, <1>2, CallGoesOn, NoCallIs DEF Inv
<1>12. \A q \in Program \ {p} : Recompiling(q) => Recompiling(q)'
  BY <1>1, <1>2, RecompilingOn DEF Inv
<1>13. PICK t : t = IF Accepted(b1, p) THEN [code |-> Compiled(d), authority |-> d.authority]
                    ELSE Untold
  OBVIOUS
<1>14. told' = [told EXCEPT ![p] = t] /\ progress' = [progress EXCEPT ![p] = Unwritten]
  BY <1>1, <1>5, <1>6, <1>7, <1>13 DEF WriteClone
<1>15. /\ told'[p] = t /\ progress'[p] = Unwritten
       /\ \A q \in Program \ {p} : told'[q] = told[q] /\ progress'[q] = progress[q]
  BY <1>14 DEF Inv, Types
<1>16. /\ Compiled(d) \in Image \cup {None} /\ d # None
       /\ d.authority \in Authority \cup {System, None}
  BY CompiledImage DEF CleanDatas, Datas
<1>17. Types'
  <2>1. t \in [code : Image \cup {None, AnyCode},
               authority : Authority \cup {System, None, AnyCode}]
    BY <1>13, <1>16, UntoldTypes
  <2> QED
    BY <1>2, <1>14, <2>1, UntoldTypes, Noted DEF Inv, Types
<1>18. Compiles(p)'
  BY <1>9 DEF Compiles, Fits
<1>19. ToldStored(bank', p, t)
  <2>1. CASE Accepted(b1, p)
    BY <1>9, <1>13, <1>16, <2>1 DEF ToldStored
  <2>2. CASE ~Accepted(b1, p)
    BY <1>13, <2>2 DEF ToldStored, Untold
  <2> QED
    BY <2>1, <2>2
<1>20. HistoryStored(p)'
  <2>1. ChunksStored(bank', p, Unwritten)
    BY DEF ChunksStored, Unwritten
  <2> QED
    BY <1>15, <1>19, <2>1 DEF HistoryStored, ToldStored, ChunksStored, Stored
<1>21. \A q \in Program \ {p} : q \in detached => Fits(bank', q) \/ q \in detached'
  BY <1>2, <1>9, Noted
<1> QED
  BY <1>2, <1>9, <1>10, <1>11, <1>12, <1>15, <1>17, <1>18, <1>20, <1>21, RewrittenInv

-----------------------------------------------------------------------------
(* Loading a snapshot *)

(* Programdata before programs: every other program keeps what is stored   *)
(* of it; the loaded one has the programdata given, and is compiled from   *)
(* it if it is given too or was not there.                                 *)
LEMMA SnapshotLoaded ==
  ASSUME NEW b, Good(b), NEW s \in Snapshots, NEW fetched \in Fetches,
         NEW r, r = Loaded(b, s, fetched)
  PROVE  /\ Good(r) /\ s.p \in Program
         /\ s.data \notin Image => Kept(b, r)
         /\ \A q \in Program \ {s.p} : Keeps(b, r, q) /\ (Fits(b, q) => Fits(r, q))
         /\ s.data \in Image => Compiled(Stored(r, s.p)) = s.data
         /\ s.p \notin b.programs => Fits(r, s.p)
         /\ s.program = "given" /\ (s.data \in Image \/ r.data[s.p] # None) => Fits(r, s.p)
         /\ s.p \in r.programs \ b.programs => r.cache[s.p] = Compiled(Stored(r, s.p))
<1>1. PICK p : p = s.p
  OBVIOUS
<1>2. p \in Program
  BY <1>1, ProgramsAssumption
<1>3. PICK mid : mid = DataLoaded(b, s, fetched)
  OBVIOUS
<1>4. r = ProgramLoaded(mid, s, fetched)
  BY <1>3 DEF Loaded
<1>5. /\ Good(mid) /\ mid.programs = b.programs
      /\ s.data \notin Image => Kept(b, mid)
      /\ \A q \in Program \ {s.p} : Keeps(b, mid, q) /\ (Fits(b, q) => Fits(mid, q))
      /\ s.data \in Image => mid.data[p] = [authority |-> None, code |-> Code(s.data)]
  BY <1>1, <1>3, DataAfterLoad
<1>6. /\ Kept(mid, r)
      /\ p \notin mid.programs => Fits(r, p)
      /\ s.program = "given" /\ (mid.data[p] # None \/ r.data[p] # None) => Fits(r, p)
  BY <1>1, <1>4, <1>5, ProgramAfterLoad
<1>12. s.data \in Image => mid.data[p] # None
  <2>1. s.data \in Image => mid.data[p] \in CleanDatas
    BY <1>5, CodeClean
  <2> QED
    BY <2>1, CompiledImage DEF CleanDatas
<1>7. s.data \notin Image => Kept(b, r)
  BY <1>5, <1>6, KeptOn
<1>8. \A q \in Program \ {p} : Keeps(b, r, q) /\ (Fits(b, q) => Fits(r, q))
  BY <1>1, <1>5, <1>6, KeepsOn DEF Kept
<1>9. ASSUME s.data \in Image PROVE Compiled(Stored(r, p)) = s.data
  <2>1. PICK i \in Image : i = s.data
    BY <1>9
  <2>2. PICK d : d = [authority |-> None, code |-> Code(i)]
    OBVIOUS
  <2>3. d \in Datas /\ d.code = Code(i)
    BY <2>2, CodeIs DEF Datas
  <2>4. Compiled(d) = i
    <3>1. Len(d.code) >= Size[i] /\ \A k \in 1..Size[i] : d.code[k] = <<i, k>>
      <4>1. Size[i] \in Nat /\ Len(Code(i)) = Size[i] /\ \A k \in 1..Size[i] : Code(i)[k] = <<i, k>>
        BY CodeIs
      <4>2. Len(Code(i)) >= Size[i]
        BY <4>1
      <4> QED
        BY <2>3, <4>1, <4>2
    <3> QED
      BY <2>3, <3>1, CompiledImage
  <2>5. d # None
    BY <2>3, CompiledImage
  <2>6. Stored(mid, p) = d
    BY <1>5, <1>9, <2>1, <2>2, <2>5 DEF Stored
  <2>7. Stored(r, p) = d
    BY <1>2, <1>6, <2>5, <2>6 DEF Kept, Keeps
  <2> QED
    BY <2>1, <2>4, <2>7
<1>10. p \in r.programs \ b.programs => r.cache[p] = Compiled(Stored(r, p))
  BY <1>2, <1>5, <1>6 DEF Kept, Keeps
<1>11. Good(r)
  BY <1>6 DEF Kept
<1> QED
  BY <1>1, <1>2, <1>5, <1>6, <1>7, <1>8, <1>9, <1>10, <1>11, <1>12

(* A load that ends may be what the server waited for to serve. *)
LEMMA CallsServe ==
  ASSUME Calls, NEW c \in Caller, calls[c] # NoCall,
         calls' = [calls EXCEPT ![c] = NoCall], serving \in BOOLEAN, serving' \in BOOLEAN,
         serving => serving'
  PROVE  Calls'
<1>1. CASE serving' = serving
  BY <1>1, CallGoesOn, NoCallIs
<1>2. CASE serving' # serving
  <2>1. ~serving /\ serving'
    BY <1>2
  <2>2. \A d \in Caller : d # c => calls[d] = NoCall
    BY <2>1 DEF Calls
  <2>3. calls' \in [Caller -> Call] /\ \A d \in Caller : calls'[d] = NoCall
    BY <2>2, NoCallIs DEF Calls
  <2>4. \A d \in Caller : calls'[d].op = "none"
    BY <2>3, NoCallIs
  <2> QED
    BY <2>1, <2>3, <2>4 DEF Calls
<1> QED
  BY <1>1, <1>2

LEMMA FinishLoadInv ==
  ASSUME Inv, NEW c \in Caller, FinishLoad(c)
  PROVE  Inv'
<1>1. PICK call : call = calls[c]
  OBVIOUS
<1>2. /\ call # NoCall /\ call.at = "load" /\ has_db' = has_db
      /\ calls' = [calls EXCEPT ![c] = NoCall]
  BY <1>1 DEF FinishLoad, End
<1>3. calls \in [Caller -> Call] /\ call \in Call /\ Good(bank)
  BY <1>1 DEF Inv, Calls
<1>4. call \in LoadCall
  BY <1>2, <1>3, CallIs DEF WriteCall, AuthorityCall, CloneCall, ReadCall
<1>5. PICK s \in Snapshots : s = call.snapshot
  BY <1>4 DEF LoadCall
<1>6. PICK fetched \in Fetches : fetched = call.fetched
  BY <1>4 DEF LoadCall
<1>7. PICK p : p = s.p
  OBVIOUS
<1>8. PICK after : after = Loaded(bank, s, fetched)
  OBVIOUS
<1>9. /\ Good(after) /\ p \in Program
      /\ s.data \notin Image => Kept(bank, after)
      /\ \A q \in Program \ {p} : Keeps(bank, after, q) /\ (Fits(bank, q) => Fits(after, q))
      /\ s.data \in Image => Compiled(Stored(after, p)) = s.data
      /\ p \notin bank.programs => Fits(after, p)
      /\ s.program = "given" /\ (s.data \in Image \/ after.data[p] # None) => Fits(after, p)
      /\ p \in after.programs \ bank.programs => after.cache[p] = Compiled(Stored(after, p))
  BY <1>3, <1>7, <1>8, SnapshotLoaded
<1>10. PICK whole : whole = LoadedWhole(bank, after, s, call)
  OBVIOUS
<1>11. PICK sure : sure = (/\ s.strict /\ whole
                           /\ \/ s.program = "given"
                              \/ fetched.program = "given" /\ p \notin bank.programs)
  OBVIOUS
<1>12. PICK alone : alone = IF s.data \in Image /\ s.program # "given" /\ p \in bank.programs
                            THEN {p} ELSE {}
  OBVIOUS
<1>13. PICK t : t = IF sure
                    THEN [code |-> IF s.data \in Image THEN s.data ELSE AnyCode,
                          authority |-> AnyCode]
                    ELSE IF s.data \in Image THEN Untold ELSE told[p]
  OBVIOUS
<1>14. PICK w : w = IF s.data \in Image THEN Unwritten ELSE progress[p]
  OBVIOUS
<1>15. /\ serving' = (whole \/ ~s.strict)
       /\ bank' = IF serving' THEN after ELSE Emptied(after)
       /\ told' = [told EXCEPT ![p] = t] /\ progress' = [progress EXCEPT ![p] = w]
       /\ NoteDetached(alone)
  <2>1. /\ serving' = (whole \/ ~s.strict)
        /\ bank' = IF serving' THEN after ELSE Emptied(after)
    BY <1>1, <1>5, <1>6, <1>8, <1>10 DEF FinishLoad
  <2>2. told' = [told EXCEPT ![p] = t]
    BY <1>1, <1>5, <1>6, <1>7, <1>8, <1>10, <1>11, <1>13 DEF FinishLoad, Inv, Types
  <2>3. progress' = [progress EXCEPT ![p] = w]
    BY <1>1, <1>5, <1>7, <1>14 DEF FinishLoad, Inv, Types
  <2>4. NoteDetached(alone)
    BY <1>1, <1>5, <1>7, <1>12 DEF FinishLoad
  <2> QED
    BY <2>1, <2>2, <2>3, <2>4
<1>16. /\ serving \in BOOLEAN /\ serving' \in BOOLEAN
       /\ s.strict => ~serving
       /\ ~serving' => s.strict /\ ~whole /\ ~sure
  <2>1. serving \in BOOLEAN
    BY DEF Inv, Types
  <2>2. call.op = "load"
    BY <1>4 DEF LoadCall
  <2>3. s.strict => ~serving
    BY <1>1, <1>5, <2>2 DEF Inv, Calls
  <2> QED
    BY <1>11, <1>15, <2>1, <2>3
<1>17. Calls'
  BY <1>1, <1>2, <1>16, CallsServe DEF Inv
<1>18. alone \in SUBSET Program
  BY <1>9, <1>12
<1>19. Good(bank') /\ (~serving' => bank'.programs = {})
  BY <1>9, <1>15, BankEmptied
<1>20. Types'
  <2>1. t \in [code : Image \cup {None, AnyCode},
               authority : Authority \cup {System, None, AnyCode}]
    BY <1>9, <1>13, UntoldTypes DEF Inv, Types
  <2>2. w \in [image : Image \cup {None}, written : SUBSET Nat]
    BY <1>9, <1>14, UntoldTypes DEF Inv, Types
  <2> QED
    BY <1>2, <1>15, <1>16, <1>18, <2>1, <2>2, Noted DEF Inv, Types
<1>21. /\ told'[p] = t /\ progress'[p] = w
       /\ \A q \in Program \ {p} : told'[q] = told[q] /\ progress'[q] = progress[q]
  BY <1>9, <1>15 DEF Inv, Types
<1>22. ASSUME ~serving', ~has_db, NEW q \in Program
       PROVE  told'[q] = Untold /\ progress'[q] = Unwritten
  <2>1. told[q] = Untold /\ progress[q] = Unwritten
    BY <1>16, <1>22 DEF Inv, NothingToldYet
  <2>2. q = p => t = Untold /\ w = Unwritten
    BY <1>13, <1>14, <1>16, <1>22, <2>1
  <2> QED
    BY <1>21, <2>1, <2>2
<1>23. NothingToldYet'
  BY <1>2, <1>22 DEF NothingToldYet
(* What a program keeps through the load, it keeps through its failure. *)
<1>24. ASSUME NEW q \in Program, Keeps(bank, after, q), serving' \/ has_db
       PROVE  Keeps(bank, bank', q)
  <2>1. CASE serving'
    BY <1>15, <1>24, <2>1
  <2>2. CASE ~serving' /\ has_db
    <3>1. Good(bank') /\ Keeps(after, bank', q)
      BY <1>9, <1>15, <1>24, <2>2, BankEmptied
    <3> QED
      BY <1>9, <1>24, <3>1, KeepsOn
  <2> QED
    BY <1>24, <2>1, <2>2
<1>25. ASSUME NEW q \in Program PROVE Compiles(q)'
  <2>1. CASE ~serving'
    BY <1>19, <2>1 DEF Compiles, Fits
  <2>2. CASE serving'
    <3>1. bank' = after
      BY <1>15, <2>2
    <3>2. Fits(bank', q) => Compiles(q)'
      BY DEF Compiles, Fits
    <3>3. CASE q = p /\ s.data \in Image
      <4>1. CASE s.program = "given" \/ p \notin bank.programs
        BY <1>9, <3>1, <3>2, <3>3, <4>1
      <4>2. CASE ~(s.program = "given" \/ p \notin bank.programs)
        <5>1. q \in alone
          BY <1>12, <3>3, <4>2
        <5>2. Fits(bank', q) \/ q \in detached'
          BY <1>15, <1>18, <1>19, <5>1, Noted
        <5> QED
          BY <3>2, <5>2 DEF Compiles
      <4> QED
        BY <4>1, <4>2
    <3>4. CASE ~(q = p /\ s.data \in Image)
      <4>1. Fits(bank, q) => Fits(bank', q)
        BY <1>9, <3>1, <3>4 DEF Kept
      <4>2. q \in detached => Fits(bank', q) \/ q \in detached'
        BY <1>15, <1>18, <1>19, Noted
      <4>3. Recompiling(q) => Recompiling(q)'
        BY <1>1, <1>2, RecompilingOn DEF Inv
      <4>5. Stored(bank, q) # None => Stored(bank, q)' # None
        BY <1>9, <3>1, <3>4 DEF Kept, Keeps, Stored
      <4>4. Compiles(q)
        BY DEF Inv
      <4> QED
        BY <3>2, <4>1, <4>2, <4>3, <4>4, <4>5 DEF Compiles
    <3> QED
      BY <3>3, <3>4
  <2> QED
    BY <2>1, <2>2
<1>26. ASSUME NEW q \in Program PROVE HistoryStored(q)'
  <2>1. CASE ~serving' /\ ~has_db
    <3>1. told'[q] = Untold /\ progress'[q] = Unwritten
      BY <1>22, <2>1
    <3> QED
      BY <3>1, NothingTold
  <2>2. CASE (serving' \/ has_db) /\ q # p
    <3>1. Keeps(bank, bank', q)
      BY <1>9, <1>24, <2>2
    <3> QED
      BY <1>21, <2>2, <3>1, HistoryKept
  <2>3. CASE (serving' \/ has_db) /\ q = p /\ ~sure
    <3>1. CASE s.data \in Image
      <4>1. t = Untold /\ w = Unwritten
        BY <1>13, <1>14, <2>3, <3>1
      <4>2. told'[q] = Untold /\ progress'[q] = Unwritten
        BY <1>21, <2>3, <4>1
      <4> QED
        BY <4>2, NothingTold
    <3>2. CASE s.data \notin Image
      <4>1. Keeps(bank, bank', p) /\ t = told[p] /\ w = progress[p]
        BY <1>9, <1>13, <1>14, <1>24, <2>3, <3>2 DEF Kept
      <4> QED
        BY <1>9, <1>21, <2>3, <4>1, HistoryKept
    <3> QED
      BY <3>1, <3>2
  <2>4. CASE q = p /\ sure
    <3>1. /\ bank' = after /\ whole
          /\ \/ s.program = "given"
             \/ fetched.program = "given" /\ p \notin bank.programs
      BY <1>11, <1>15, <1>16, <2>4
    <3>2. /\ p \in after.programs /\ after.data[p] # None
          /\ s.program = "given" => Accepted(after, p)
      BY <1>6, <1>7, <1>10, <3>1 DEF LoadedWhole
    <3>3. Stored(after, p) = after.data[p] /\ Stored(after, p) # None
      BY <3>2 DEF Stored
    <3>4. Compiled(Stored(after, p)) # None /\ after.cache[p] = Compiled(Stored(after, p))
      <4>1. CASE s.program = "given"
        BY <1>9, <3>2, <3>3, <4>1 DEF Accepted, Fits
      <4>2. CASE p \notin bank.programs
        <5>1. after.cache[p] = Compiled(Stored(after, p))
          BY <1>9, <3>2, <4>2
        <5> QED
          BY <1>9, <3>2, <5>1 DEF Good
      <4> QED
        BY <3>1, <4>1, <4>2
    <3>5. /\ t.authority = AnyCode
          /\ t.code = AnyCode \/ (s.data \in Image /\ t.code = s.data)
      <4>1. PICK code : code = IF s.data \in Image THEN s.data ELSE AnyCode
        OBVIOUS
      <4>2. t = [code |-> code, authority |-> AnyCode]
        BY <1>13, <2>4, <4>1
      <4> QED
        BY <4>1, <4>2
    <3>6. ToldStored(bank', p, t)
      BY <1>9, <3>1, <3>2, <3>3, <3>4, <3>5 DEF ToldStored
    <3>7. ChunksStored(bank', p, w)
      <4>1. CASE s.data \in Image
        BY <1>14, <4>1 DEF ChunksStored, Unwritten
      <4>2. CASE s.data \notin Image
        <5>1. Keeps(bank, bank', p) /\ w = progress[p]
          BY <1>9, <1>14, <3>1, <4>2 DEF Kept
        <5>2. ChunksStored(bank, p, progress[p])
          BY <1>9 DEF Inv, HistoryStored
        <5> QED
          BY <1>9, <5>1, <5>2, ChunksKept
      <4> QED
        BY <4>1, <4>2
    <3> QED
      BY <1>21, <2>4, <3>6, <3>7 DEF HistoryStored, ToldStored, ChunksStored, Stored
  <2> QED
    BY <2>1, <2>2, <2>3, <2>4
<1>27. Good(bank)'
  BY <1>2, <1>19, GoodProgramsNext
<1> QED
  BY <1>17, <1>20, <1>23, <1>25, <1>26, <1>27 DEF Inv

-----------------------------------------------------------------------------
(* What happens meanwhile *)

LEMMA CollectGarbageInv ==
  ASSUME Inv, CollectGarbage
  PROVE  Inv'
<1>1. /\ has_db /\ bank' = Emptied(bank) /\ NoteDetached({})
      /\ UNCHANGED <<has_db, serving, calls, progress, told>>
  BY DEF CollectGarbage
<1>2. Good(bank') /\ bank'.programs = {} /\ \A q \in Program : Keeps(bank, bank', q)
  BY <1>1, BankEmptied DEF Inv
<1>3. Kept(bank, bank')
  BY <1>2 DEF Kept, Fits
<1>4. Calls'
  BY <1>1 DEF Inv, Calls
<1>5. \A q \in Program : Recompiling(q) => Recompiling(q)'
  BY <1>1 DEF Recompiling
<1> QED
  BY <1>1, <1>3, <1>4, <1>5, KeptInv

LEMMA RestartInv ==
  ASSUME Inv, Restart
  PROVE  Inv'
<1>1. /\ has_db /\ bank' = Emptied(bank) /\ NoteDetached({}) /\ serving' = FALSE
      /\ calls' = [c \in Caller |-> NoCall]
      /\ UNCHANGED <<has_db, progress, told>>
  BY DEF Restart
<1>2. Good(bank') /\ bank'.programs = {} /\ \A q \in Program : Keeps(bank, bank', q)
  BY <1>1, BankEmptied DEF Inv
<1>3. Types'
  BY <1>1, Noted DEF Inv, Types
<1>4. Calls'
  BY <1>1, NoCallIs DEF Calls
<1>5. NothingToldYet'
  BY <1>1 DEF NothingToldYet
<1>6. Good(bank)'
  BY <1>1, <1>2, GoodProgramsNext
<1>7. ASSUME NEW q \in Program PROVE Compiles(q)' /\ HistoryStored(q)'
  <2>1. Compiles(q)'
    BY <1>2 DEF Compiles, Fits
  <2>2. HistoryStored(q)'
    BY <1>1, <1>2, HistoryKept
  <2> QED
    BY <2>1, <2>2
<1> QED
  BY <1>3, <1>4, <1>5, <1>6, <1>7 DEF Inv

LEMMA ServeInv ==
  ASSUME Inv, Serve
  PROVE  Inv'
<1>1. /\ serving' = TRUE /\ \A c \in Caller : calls[c] = NoCall
      /\ UNCHANGED <<has_db, bank, calls, progress, told, detached>>
  BY DEF Serve, history
<1>2. Types' /\ NothingToldYet'
  BY <1>1 DEF Inv, Types, NothingToldYet
<1>3. Calls'
  BY <1>1, NoCallIs DEF Inv, Calls
<1>4. Good(bank)'
  BY <1>1 DEF Inv, Good, Bank
<1>5. \A q \in Program : Compiles(q)' /\ HistoryStored(q)'
  BY <1>1
     DEF Inv, Compiles, Recompiling, HistoryStored, Fits, ToldStored, ChunksStored, Stored
<1> QED
  BY <1>2, <1>3, <1>4, <1>5 DEF Inv

(* A client rewrites or resets one program, and nothing is told of it.     *)
LEMMA ForgottenInv ==
  ASSUME Inv, NEW p \in Program, serving, Good(bank'), NEW alone \in SUBSET Program,
         NoteDetached(alone), UNCHANGED <<has_db, serving, calls>>,
         \A q \in Program \ {p} : Keeps(bank, bank', q) /\ (Fits(bank, q) => Fits(bank', q)),
         told' = [told EXCEPT ![p] = Untold], progress' = [progress EXCEPT ![p] = Unwritten],
         Fits(bank', p) \/ p \in alone
  PROVE  Inv'
<1>1. /\ told'[p] = Untold /\ progress'[p] = Unwritten
      /\ \A q \in Program \ {p} : told'[q] = told[q] /\ progress'[q] = progress[q]
  BY DEF Inv, Types
<1>2. Types'
  BY UntoldTypes, Noted DEF Inv, Types
<1>3. Calls'
  BY DEF Inv, Calls
<1>4. \A q \in Program : Recompiling(q) => Recompiling(q)'
  BY DEF Recompiling
<1>5. \A q \in detached \cup alone : Fits(bank', q) \/ q \in detached'
  BY Noted
<1>6. Compiles(p)'
  BY <1>5 DEF Compiles, Fits
<1>7. HistoryStored(p)'
  BY <1>1, NothingTold
<1> QED
  BY <1>1, <1>2, <1>3, <1>4, <1>5, <1>6, <1>7, RewrittenInv

LEMMA SetDataAccountInv ==
  ASSUME Inv, SetDataAccount
  PROVE  Inv'
<1>1. PICK p \in Program, i \in Deployed :
        /\ bank' = SetData(bank, p, [authority |-> System, code |-> Code(i)])
        /\ progress' = [progress EXCEPT ![p] = Unwritten]
        /\ told' = [told EXCEPT ![p] = Untold]
        /\ NoteDetached({p})
  BY DEF SetDataAccount
<1>2. PICK d : d = [authority |-> System, code |-> Code(i)]
  OBVIOUS
<1>3. d \in CleanDatas
  BY <1>2, CodeClean, ProgramsAssumption
<1>4. /\ Good(bank')
      /\ \A q \in Program \ {p} : Keeps(bank, bank', q) /\ (Fits(bank, q) => Fits(bank', q))
  BY <1>1, <1>2, <1>3, DataSet DEF Inv
<1>5. serving /\ UNCHANGED <<has_db, serving, calls>>
  BY DEF SetDataAccount, Upset
<1> QED
  BY <1>1, <1>4, <1>5, ForgottenInv

LEMMA ResetAccountInv ==
  ASSUME Inv, ResetAccount
  PROVE  Inv'
<1> DEFINE Reset(p, P, alone) ==
      /\ bank' = [bank EXCEPT !.programs = @ \ P, !.data[p] = None,
                              !.db_programs = @ \ P, !.db_data[p] = None]
      /\ progress' = [progress EXCEPT ![p] = Unwritten]
      /\ told' = [told EXCEPT ![p] = Untold]
      /\ NoteDetached(alone)
<1>a. PICK p \in Program : Reset(p, {p}, {}) \/ Reset(p, {}, {p})
  <2>1. PICK p \in Program :
          /\ \/ /\ bank' = [bank EXCEPT !.programs = @ \ {p}, !.data[p] = None,
                                        !.db_programs = @ \ {p}, !.db_data[p] = None]
                /\ NoteDetached({})
             \/ /\ bank' = [bank EXCEPT !.data[p] = None, !.db_data[p] = None]
                /\ NoteDetached({p})
          /\ progress' = [progress EXCEPT ![p] = Unwritten]
          /\ told' = [told EXCEPT ![p] = Untold]
    BY DEF ResetAccount
  <2>2. [bank EXCEPT !.data[p] = None, !.db_data[p] = None]
          = [bank EXCEPT !.programs = @ \ {}, !.data[p] = None,
                         !.db_programs = @ \ {}, !.db_data[p] = None]
    BY DEF Inv, Good, Bank
  <2>3. Reset(p, {p}, {}) \/ Reset(p, {}, {p})
    <3>1. CASE /\ bank' = [bank EXCEPT !.programs = @ \ {p}, !.data[p] = None,
                                       !.db_programs = @ \ {p}, !.db_data[p] = None]
               /\ NoteDetached({})
      BY <2>1, <3>1, Zenon
    <3>2. CASE /\ bank' = [bank EXCEPT !.data[p] = None, !.db_data[p] = None]
               /\ NoteDetached({p})
      BY <2>1, <2>2, <3>2, Zenon
    <3> QED
      BY <2>1, <3>1, <3>2
  <2> HIDE DEF Reset
  <2> QED
    BY <2>3
<1>1. PICK P \in SUBSET Program, alone \in SUBSET Program :
        ((P = {p} /\ alone = {}) \/ (P = {} /\ alone = {p})) /\ Reset(p, P, alone)
  <2> HIDE DEF Reset
  <2>1. CASE Reset(p, {p}, {})
    BY <2>1
  <2>2. CASE Reset(p, {}, {p})
    BY <2>2
  <2> QED
    BY <1>a, <2>1, <2>2
<1>2. Good(bank) /\ bank \in Bank
  BY DEF Inv, Good
<1>3. /\ bank'.programs = bank.programs \ P /\ bank'.db_programs = bank.db_programs \ P
      /\ bank'.data = [bank.data EXCEPT ![p] = None]
      /\ bank'.db_data = [bank.db_data EXCEPT ![p] = None] /\ bank'.cache = bank.cache
  BY <1>1, <1>2 DEF Bank
<1>4. /\ bank.programs \in SUBSET Program /\ bank.cache \in [Program -> Image \cup {None}]
      /\ bank.db_programs \in SUBSET Program
      /\ bank.data \in [Program -> CleanDatas \cup {None}]
      /\ bank.db_data \in [Program -> CleanDatas \cup {None}]
  BY <1>2 DEF Bank
<1>5. bank' \in Bank
  <2>1. bank' = [programs |-> bank'.programs, data |-> bank'.data, cache |-> bank'.cache,
                 db_programs |-> bank'.db_programs, db_data |-> bank'.db_data]
    BY <1>1, <1>2 DEF Bank
  <2>2. /\ bank'.data \in [Program -> CleanDatas \cup {None}]
        /\ bank'.db_data \in [Program -> CleanDatas \cup {None}]
    BY <1>3, <1>4
  <2>3. bank'.programs \in SUBSET Program /\ bank'.db_programs \in SUBSET Program
    BY <1>3, <1>4
  <2> QED
    BY <1>3, <1>4, <2>1, <2>2, <2>3 DEF Bank
<1>6. /\ bank'.data[p] = None /\ bank'.db_data[p] = None
      /\ \A q \in Program \ {p} : bank'.data[q] = bank.data[q] /\ bank'.db_data[q] = bank.db_data[q]
  BY <1>3, <1>4
<1>7. Good(bank')
  BY <1>1, <1>2, <1>3, <1>4, <1>5, <1>6 DEF Good
<1>8. \A q \in Program \ {p} : Keeps(bank, bank', q) /\ (Fits(bank, q) => Fits(bank', q))
  BY <1>1, <1>3, <1>6 DEF Keeps, Fits, Stored
<1>9. Fits(bank', p) \/ p \in alone
  BY <1>1, <1>3 DEF Fits
<1>10. serving /\ UNCHANGED <<has_db, serving, calls>>
  BY DEF ResetAccount, Upset
<1> QED
  BY <1>1, <1>7, <1>8, <1>9, <1>10, ForgottenInv

LEMMA FirstBank == Good(InitialBank) /\ InitialBank.programs = {}
<1>1. PICK b : b = InitialBank
  OBVIOUS
<1>2. /\ b.programs = {} /\ b.db_programs = {}
      /\ \A q \in Program : b.data[q] = None /\ b.db_data[q] = None
  BY <1>1 DEF InitialBank
<1>3. b \in Bank
  BY <1>1 DEF Bank, InitialBank
<1> QED
  BY <1>1, <1>2, <1>3 DEF Good

(* A network that nothing is known of. *)
New ==
  /\ bank = InitialBank /\ Calls /\ has_db \in BOOLEAN /\ serving \in BOOLEAN
  /\ progress = [p \in Program |-> Unwritten] /\ told = [p \in Program |-> Untold]
  /\ detached = {}

LEMMA NewInv == New => Inv
<1> SUFFICES ASSUME New PROVE Inv
  OBVIOUS
<1> USE DEF New
<1>1. Types
  BY UntoldTypes DEF Types
<1>2. Good(bank) /\ bank.programs = {}
  BY FirstBank
<1>3. \A q \in Program : Compiles(q)
  BY <1>2 DEF Compiles, Fits
<1>4. \A q \in Program : HistoryStored(q)
  BY DEF HistoryStored, ToldStored, ChunksStored, Untold, Unwritten
<1>5. NothingToldYet
  BY DEF NothingToldYet
<1> QED
  BY <1>1, <1>2, <1>3, <1>4, <1>5 DEF Inv

LEMMA ResetNetworkInv ==
  ASSUME Inv, ResetPrograms
  PROVE  Inv'
<1>1. /\ bank' = InitialBank /\ detached' = {}
      /\ progress' = [p \in Program |-> Unwritten] /\ told' = [p \in Program |-> Untold]
      /\ UNCHANGED <<has_db, serving, calls>>
  BY DEF ResetPrograms
<1>2. Calls'
  BY <1>1 DEF Inv, Calls
<1>3. InitialBank' = InitialBank
  BY DEF InitialBank
<1>4. has_db' \in BOOLEAN /\ serving' \in BOOLEAN
  BY <1>1 DEF Inv, Types
<1>5. New'
  BY <1>1, <1>2, <1>3, <1>4 DEF New
<1>6. New' => Inv'
  BY NewInv, PTL
<1> QED
  BY <1>5, <1>6

LEMMA InvProgramsInit == ProgramsInit => Inv
<1>1. ProgramsInit => Calls
  BY NoCallIs DEF ProgramsInit, Calls
<1> QED
  BY <1>1, NewInv DEF ProgramsInit, New

LEMMA InvProgramsNext ==
  ASSUME Inv, [ProgramsNext]_programVars
  PROVE  Inv'
<1>1. ASSUME NEW c \in Caller, CallProgramsNext(c) PROVE Inv'
  BY <1>1, BeginsInv, AskRemoteInv, RemoteFailsInv, GetProgramAccountInv, CreateProgramInv,
     GetDataAccountInv, GetBothAccountsInv, WriteChunkInv, FinishWriteInv, WriteAuthorityInv,
     WriteCloneInv, FetchForSnapshotInv, FinishLoadInv DEF CallProgramsNext
<1>2. CASE UNCHANGED programVars
  BY <1>2 DEF programVars, history, Inv, Types, Good, Bank, Calls, NothingToldYet, Compiles,
              Recompiling,
              HistoryStored, Fits, ToldStored, ChunksStored, Stored
<1> QED
  BY <1>1, <1>2, CollectGarbageInv, RestartInv, ServeInv, SetDataAccountInv, ResetAccountInv,
     ResetNetworkInv DEF ProgramsNext

LEMMA ProgramsInvariant == ProgramsSpec => []Inv
BY InvProgramsInit, InvProgramsNext, PTL DEF ProgramsSpec

-----------------------------------------------------------------------------
(* What the invariant says of what runs *)

LEMMA InvRunsStored == Inv => RunsWhatIsStored
<1> SUFFICES ASSUME Inv PROVE RunsWhatIsStored
  OBVIOUS
<1>1. ProgramsTypeOK
  <2>1. /\ bank.programs \subseteq Program /\ bank.db_programs \subseteq Program
        /\ bank.cache \in [Program -> Image \cup {None}]
        /\ bank.data \in [Program -> CleanDatas \cup {None}]
        /\ bank.db_data \in [Program -> CleanDatas \cup {None}]
    BY DEF Inv, Good, Bank
  <2>2. CleanDatas \subseteq Datas
    BY DEF CleanDatas
  <2>3. \A c \in Caller : calls[c].op \in {"none", "write", "authority", "clone", "read", "load"}
    BY CallIs DEF Inv, Calls
  <2> QED
    BY <2>1, <2>2, <2>3 DEF ProgramsTypeOK, Inv, Types
<1>2. ASSUME NEW p \in bank.programs \ detached
      PROVE  /\ bank.cache[p] # None
             /\ Recompiling(p) \/ Compiled(bank.data[p]) \in {None, bank.cache[p]}
  BY <1>1 DEF Inv, Good, Compiles, Fits, ProgramsTypeOK
<1> QED
  BY <1>1, <1>2 DEF RunsWhatIsStored

LEMMA InvToldRuns == Inv => ToldRuns
<1> SUFFICES ASSUME Inv, NEW p \in Program
             PROVE  LET t == told[p] IN
                    /\ t.code # None =>
                         /\ Runs(p) # None
                         /\ t.code # AnyCode => Runs(p) = t.code
                         /\ t.code \in Deployed =>
                              \A k \in DOMAIN StoredData(p).code :
                                StoredData(p).code[k] \notin NoopChunks
                    /\ t.authority # AnyCode => StoredData(p).authority = t.authority
  BY DEF ToldRuns
<1>1. PICK t : t = told[p]
  OBVIOUS
<1>2. ToldStored(bank, p, t) /\ Good(bank)
  BY <1>1 DEF Inv, HistoryStored
<1>3. StoredData(p) = Stored(bank, p)
  BY StoredIs DEF StoredData
<1>4. t.authority # AnyCode => StoredData(p).authority = t.authority
  BY <1>2, <1>3 DEF ToldStored
<1>5. ASSUME t.code # None
      PROVE  /\ Runs(p) # None /\ (t.code # AnyCode => Runs(p) = t.code)
             /\ t.code \in Deployed => \A k \in DOMAIN StoredData(p).code :
                                         StoredData(p).code[k] \notin NoopChunks
  <2>1. PICK d : d = Stored(bank, p)
    OBVIOUS
  <2>2. /\ d # None /\ Compiled(d) # None /\ d \in CleanDatas
        /\ p \in bank.programs \cup bank.db_programs
        /\ p \in bank.programs => bank.cache[p] = Compiled(d)
        /\ t.code # AnyCode => Compiled(d) = t.code
    BY <1>2, <1>5, <2>1, DataOfBank DEF ToldStored
  <2>3. PICK b : b = Hydrate(bank, p, None)
    OBVIOUS
  <2>4. Runs(p) = IF p \in b.programs THEN b.cache[p] ELSE None
    BY <2>2, <2>3 DEF Runs, ProgramHere
  <2>5. p \in b.programs /\ b.cache[p] = Compiled(d)
    <3>1. CASE p \in bank.programs
      BY <2>2, <2>3, <3>1 DEF Hydrate
    <3>2. CASE p \notin bank.programs
      <4>1. p \in bank.db_programs /\ (bank.data[p] # None => bank.db_data[p] = bank.data[p])
        BY <1>2, <2>2, <3>2 DEF Good
      <4>2. bank.db_data[p] = d
        BY <2>1, <4>1 DEF Stored
      <4>3. PICK f : f = FillData(bank, p, d)
        OBVIOUS
      <4>4. b = SetProgram(f, p)
        BY <2>2, <2>3, <3>2, <4>1, <4>2, <4>3 DEF Hydrate
      <4>5. Good(f) /\ f.data[p] # None /\ Keeps(bank, f, p)
        BY <1>2, <2>2, <4>3, DataFilled
      <4>6. f.data[p] = d
        BY <2>1, <2>2, <4>5 DEF Keeps, Stored
      <4>7. Accepted(f, p)
        BY <2>2, <4>6 DEF Accepted
      <4> QED
        BY <4>4, <4>5, <4>6, <4>7, ProgramSet
    <3> QED
      BY <3>1, <3>2
  <2>6. t.code \in Deployed => \A k \in DOMAIN d.code : d.code[k] \notin NoopChunks
    <3>1. SUFFICES ASSUME t.code \in Deployed
                   PROVE  \A k \in DOMAIN d.code : d.code[k] \notin NoopChunks
      OBVIOUS
    <3>2. t.code \in Image \ {Noop} /\ Compiled(d) = t.code
      BY <2>2, <3>1, ProgramsAssumption
    <3> QED
      BY <2>2, <3>2, NoPlaceholder
  <2> QED
    BY <1>3, <2>1, <2>2, <2>4, <2>5, <2>6
<1> QED
  BY <1>1, <1>4, <1>5

(* However calls, garbage collection, resets and restarts interleave,      *)
(* LiteSVM runs what is stored of a program, for any programs, images,     *)
(* callers and snapshots.                                                  *)
THEOREM StoredProgramsRun == ProgramsSpec => []RunsWhatIsStored
BY ProgramsInvariant, InvRunsStored, PTL

(* What a client was told of a program's code and authority stays so until *)
(* a client changes it.                                                    *)
THEOREM ToldProgramsRun == ProgramsSpec => []ToldRuns
BY ProgramsInvariant, InvToldRuns, PTL

-----------------------------------------------------------------------------
(* The stores of a sandbox: module OverlayStorage, for any sets of keys    *)
(* and values: its types, and that it implements the contract in module    *)
(* Storage.                                                                *)

USE DEF NoEntries

(* The base only ever holds values, and the overlay values and tombstones. *)
THEOREM OverlayTypeCorrect == OverlaySpec => []OverlayTypeOK
<1>1. OverlayInit => OverlayTypeOK
  BY DEF OverlayInit, OverlayTypeOK
<1>2. OverlayTypeOK /\ [OverlayNext]_overlayVars => OverlayTypeOK'
  <2> SUFFICES ASSUME OverlayTypeOK, [OverlayNext]_overlayVars PROVE OverlayTypeOK'
    OBVIOUS
  <2> USE OverlayAssumption DEF OverlayTypeOK
  <2>1. ASSUME NEW k \in Key, NEW v \in Value, Store(k, v) PROVE OverlayTypeOK'
    BY <2>1 DEF Store, Put
  <2>2. ASSUME NEW k \in Key, Take(k) PROVE OverlayTypeOK'
    BY <2>2 DEF Take, OverlayAfterTake, Put
  <2>3. ASSUME NEW k \in Key, NEW v \in Value \cup {Nothing}, Modify(k, v) PROVE OverlayTypeOK'
    BY <2>3 DEF Modify, OverlayAfterTake, Put
  <2>4. CASE Clear
    BY <2>4 DEF Clear
  <2>5. CASE Commit
    BY <2>5 DEF Commit, Replayed, Written, Tombstones
  <2>6. CASE Discard
    BY <2>6 DEF Discard
  <2>7. CASE \/ \E k \in Key : Get(k)
             \/ Keys \/ IntoIter \/ Count
             \/ UNCHANGED overlayVars
    BY <2>7 DEF Get, Keys, IntoIter, Count, overlayVars
  <2> QED
    BY <2>1, <2>2, <2>3, <2>4, <2>5, <2>6, <2>7 DEF OverlayNext
<1> QED
  BY <1>1, <1>2, PTL DEF OverlaySpec

-----------------------------------------------------------------------------
(* The keys listed are the keys of the view. *)
LEMMA KeysOfView ==
  ASSUME OverlayTypeOK
  PROVE  /\ KeySet = DOMAIN View
         /\ Entries = View
<1> USE OverlayAssumption DEF OverlayTypeOK
<1>1. KeySet = {k \in Key : Find(k) # Nothing}
  BY DEF KeySet, Find, FindInBase, Written, Tombstones
<1>2. \A k \in KeySet : Find(k) = IF k \in Written THEN overlay[k] ELSE base[k]
  BY DEF KeySet, Find, FindInBase, Written, Tombstones
<1> QED
  BY <1>1, <1>2 DEF View, Entries

(* The view holds a key under the value that is found for it. *)
LEMMA ContractFind ==
  ASSUME OverlayTypeOK, NEW k \in Key
  PROVE  Contract!Find(k) = Find(k)
BY DEF Contract!Find, View

(* Writing an entry for one key changes what is found at that key only. *)
LEMMA ViewAfterStore ==
  ASSUME OverlayTypeOK, NEW k \in Key, NEW v \in Value,
         overlay' = Put(k, v), UNCHANGED <<base, base_cleared>>
  PROVE  View' = Contract!With(k, v)
<1> USE OverlayAssumption DEF OverlayTypeOK
<1>1. \A x \in Key : Find(x)' = IF x = k THEN v ELSE Find(x)
  BY DEF Find, FindInBase, Written, Tombstones, Put
<1>2. {x \in Key : Find(x)' # Nothing} = {x \in Key : Find(x) # Nothing} \cup {k}
  BY <1>1
<1> QED
  BY <1>1, <1>2 DEF View, Contract!With

(* A take hides its key and no other. *)
LEMMA ViewAfterTake ==
  ASSUME OverlayTypeOK, NEW k \in Key,
         overlay' = OverlayAfterTake(k), UNCHANGED <<base, base_cleared>>
  PROVE  View' = Contract!Without(k)
<1> USE OverlayAssumption DEF OverlayTypeOK
<1>1. \A x \in Key : Find(x)' = IF x = k THEN Nothing ELSE Find(x)
  BY DEF Find, FindInBase, Written, Tombstones, OverlayAfterTake, Put
<1>2. {x \in Key : Find(x)' # Nothing} = {x \in Key : Find(x) # Nothing} \ {k}
  BY <1>1
<1> QED
  BY <1>1, <1>2 DEF View, Contract!Without

(* With nothing in the overlay, the view is the base. *)
LEMMA ViewOfEmptyOverlay ==
  ASSUME OverlayTypeOK, overlay = NoEntries, base_cleared = FALSE
  PROVE  View = base
<1> USE OverlayAssumption DEF OverlayTypeOK
<1>1. \A x \in Key : Find(x) = FindInBase(x)
  BY DEF Find, Written, Tombstones
<1>2. {x \in Key : Find(x) # Nothing} = DOMAIN base
  BY <1>1 DEF FindInBase
<1> QED
  BY <1>1, <1>2 DEF View, FindInBase

(* Replaying the overlay onto its base gives the view. *)
LEMMA ReplayedIsView ==
  ASSUME OverlayTypeOK
  PROVE  Replayed(base) = View
<1> USE OverlayAssumption DEF OverlayTypeOK
<1>1. Replayed(base) = Entries
  BY DEF Replayed, Entries, KeySet, Written, Tombstones
<1> QED
  BY <1>1, KeysOfView

(* The overlay implements the contract: every operation on it is the same  *)
(* operation on its view, with the base untouched until a commit makes it  *)
(* the view.                                                               *)
THEOREM OverlayImplementsContract == OverlaySpec => ImplementsContract
<1>1. OverlayInit => Contract!Init
  <2> SUFFICES ASSUME OverlayInit PROVE Contract!Init
    OBVIOUS
  <2>1. OverlayTypeOK
    BY DEF OverlayInit, OverlayTypeOK
  <2>2. View = base
    BY <2>1, ViewOfEmptyOverlay DEF OverlayInit
  <2> QED
    BY <2>2 DEF OverlayInit, Contract!Init, Contract!Maps
<1>2. OverlayTypeOK /\ OverlayTypeOK' /\ [OverlayNext]_overlayVars
        => [Contract!Next]_(Contract!vars)
  <2> SUFFICES ASSUME OverlayTypeOK, OverlayTypeOK', [OverlayNext]_overlayVars
               PROVE  [Contract!Next]_(Contract!vars)
    OBVIOUS
  <2>1. ASSUME NEW k \in Key, NEW v \in Value, Store(k, v) PROVE Contract!Next
    <3>1. Contract!Store(k, v)
      BY <2>1, ViewAfterStore DEF Store, Contract!Store
    <3> QED
      BY <3>1 DEF Contract!Next
  <2>2. ASSUME UNCHANGED <<base, overlay, base_cleared>> PROVE View' = View
    BY <2>2 DEF View, Find, FindInBase, Written, Tombstones
  <2>3. ASSUME NEW k \in Key, Get(k) PROVE Contract!Next
    <3>1. Contract!Get(k)
      BY <2>3, <2>2, ContractFind DEF Get, Contract!Get
    <3> QED
      BY <3>1 DEF Contract!Next
  <2>4. ASSUME NEW k \in Key, Take(k) PROVE Contract!Next
    <3>1. Contract!Take(k)
      BY <2>4, ViewAfterTake, ContractFind DEF Take, Contract!Take
    <3> QED
      BY <3>1 DEF Contract!Next
  <2>5. CASE Clear
    <3>1. View' = NoEntries
      <4>1. \A x \in Key : Find(x)' = Nothing
        BY <2>5 DEF Clear, Find, Written, Tombstones
      <4> QED
        BY <4>1 DEF View
    <3>2. Contract!Clear
      BY <2>5, <3>1 DEF Clear, Contract!Clear
    <3> QED
      BY <3>2 DEF Contract!Next
  <2>6. CASE Keys \/ IntoIter
    <3>1. Contract!Keys \/ Contract!IntoIter
      BY <2>6, <2>2, KeysOfView DEF Keys, IntoIter, Contract!Keys, Contract!IntoIter
    <3> QED
      BY <3>1 DEF Contract!Next
  <2>7. CASE Count
    <3>1. Cardinality(KeySet) = Contract!Cardinality(KeySet)
      BY DEF Cardinality, Contract!Cardinality
    <3>2. Contract!Count
      BY <2>7, <2>2, <3>1, KeysOfView DEF Count, Contract!Count
    <3> QED
      BY <3>2 DEF Contract!Next
  <2>8. ASSUME NEW k \in Key, NEW v \in Value \cup {Nothing}, Modify(k, v) PROVE Contract!Next
    <3>1. View' = IF v = Nothing THEN Contract!Without(k) ELSE Contract!With(k, v)
      BY <2>8, ViewAfterStore, ViewAfterTake DEF Modify
    <3>2. Contract!Modify(k, v)
      BY <2>8, <3>1 DEF Modify, Contract!Modify
    <3> QED
      BY <3>2 DEF Contract!Next
  <2>9. CASE Commit
    <3>1. base' = View
      BY <2>9, ReplayedIsView DEF Commit
    <3>2. View' = base'
      <4>1. \A x \in Key : Find(x)' = FindInBase(x)'
        BY <2>9 DEF Commit, Find, Written, Tombstones
      <4>2. {x \in Key : Find(x)' # Nothing} = DOMAIN base'
        BY <4>1, OverlayAssumption DEF FindInBase, OverlayTypeOK
      <4> QED
        BY <4>1, <4>2 DEF View, FindInBase, OverlayTypeOK
    <3>3. Contract!Commit
      BY <2>9, <3>1, <3>2 DEF Commit, Contract!Commit
    <3> QED
      BY <3>3 DEF Contract!Next
  <2>10. CASE Discard
    <3>1. View' = base'
      <4>1. \A x \in Key : Find(x)' = FindInBase(x)'
        BY <2>10 DEF Discard, Find, Written, Tombstones
      <4>2. {x \in Key : Find(x)' # Nothing} = DOMAIN base'
        BY <4>1, OverlayAssumption DEF FindInBase, OverlayTypeOK
      <4> QED
        BY <4>1, <4>2 DEF View, FindInBase, OverlayTypeOK
    <3>2. Contract!Discard
      BY <2>10, <3>1 DEF Discard, Contract!Discard
    <3> QED
      BY <3>2 DEF Contract!Next
  <2>11. CASE UNCHANGED overlayVars
    BY <2>11, <2>2 DEF overlayVars, Contract!vars
  <2> QED
    BY <2>1, <2>3, <2>4, <2>5, <2>6, <2>7, <2>8, <2>9, <2>10, <2>11 DEF OverlayNext
<1> QED
  BY <1>1, <1>2, OverlayTypeCorrect, PTL DEF OverlaySpec, ImplementsContract, Contract!Spec
=============================================================================
