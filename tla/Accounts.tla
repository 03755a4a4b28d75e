------------------------------ MODULE Accounts ------------------------------
(***************************************************************************)
(* The accounts of a surfnet: LiteSVM, the optional database behind it,    *)
(* the indexes by owner, token holder, mint and delegate, and the marks    *)
(* that keep an account from being downloaded.  RPC threads read accounts  *)
(* through to a remote without holding the lock and write what they got    *)
(* afterwards; cheatcodes edit, reset, mark and stream accounts; the       *)
(* runloop executes transactions, closes blocks, and has LiteSVM garbage   *)
(* collected.                                                              *)
(*                                                                         *)
(* An account is what decides its place in the indexes: owner, whether it  *)
(* is an upgradeable program, and the token account in its data, if any;   *)
(* ver tells contents apart.  None is Account::default() as much as an     *)
(* absent account.  Another account may have no lamports: LiteSVM keeps    *)
(* none of those, a database does.                                         *)
(***************************************************************************)
EXTENDS Integers, Sequences, SequencesExt

CONSTANTS
  Pubkeys,       \* accounts
  Values,        \* pubkey -> the accounts it may hold, local or remote
  None, NoKey, NoToken,
  TokenPrograms, \* owners whose accounts may be token accounts or mints
  ProgramData,   \* get_program_data_address
  Synthetic,     \* the programdata made up for a program that has none
  Loadable,      \* the programdata LiteSVM can load a program from
  Remote,        \* the remote's accounts at the start
  Readers,       \* RPC threads
  Requests,      \* what one call asks for: sequences of pubkeys
  TxKeys,        \* the accounts a transaction may write: sets of pubkeys
  Marked,        \* accounts clients mark offline, reset or stream
  MaxWrites, MaxReads, MaxCommands  \* bounds

ASSUME AccountsAssumption ==
  /\ None \notin UNION {Values[p] : p \in Pubkeys} /\ Synthetic # None
  /\ IsFiniteSet(Pubkeys) /\ NoKey \notin Pubkeys /\ ProgramData \in [Pubkeys -> Pubkeys]
  /\ \A a \in (UNION {Values[p] : p \in Pubkeys}) \cup {Synthetic} :
       a.token # NoToken => a.token.mint \in Pubkeys
  /\ Remote \in [Pubkeys -> (UNION {Values[p] : p \in Pubkeys}) \cup {None}]
  /\ \A p \in Pubkeys : Remote[p] # None => Remote[p].lamports > 0
  /\ Requests \subseteq Seq(Pubkeys) /\ TxKeys \subseteq SUBSET Pubkeys
  /\ Marked \subseteq Pubkeys
  /\ MaxWrites \in Nat /\ MaxReads \in Nat /\ MaxCommands \in Nat

VARIABLES
  has_db,
  bank,       \* what the lock guards: see InitialBank
  remote,     \* pubkey -> account
  streamed,   \* pubkey -> "no", "alone" or "owned" (include_owned_accounts)
  readers,    \* RPC thread -> the call it is in
  tx,         \* the transaction between its two accesses: accounts_before
  resetting,  \* a reset_account between its two accesses
  blurred,    \* history: accounts whose index entries were left behind
  writes, reads, commands

counters == <<writes, reads, commands>>
vars == <<has_db, bank, remote, streamed, readers, tx, resetting, blurred, counters>>

Offline == {"online", "alone", "owned"}
InitialBank ==
  [live           |-> [p \in Pubkeys |-> None],   \* LiteSVM
   db             |-> [p \in Pubkeys |-> None],   \* the database, if there is one
   by_owner       |-> {},                         \* <<owner, pubkey>>
   token_accounts |-> [p \in Pubkeys |-> NoToken],
   by_token       |-> {},                         \* <<role, key, pubkey>>
   offline        |-> [p \in Pubkeys |-> "online"],
   unsettled      |-> {}]   \* history: accounts LiteSVM does not hold as they were set

NoCall == [keys |-> <<>>]
NoTx == [p \in {} |-> None]
NoReset == NoKey

Init ==
  /\ has_db \in BOOLEAN
  /\ bank = InitialBank /\ remote = Remote /\ streamed = [p \in Pubkeys |-> "no"]
  /\ readers = [r \in Readers |-> NoCall] /\ tx = NoTx /\ resetting = NoReset
  /\ blurred = {}
  /\ writes = 0 /\ reads = 0 /\ commands = 0

-----------------------------------------------------------------------------
(* The accounts under the lock; b is a bank *)

Visible(b, p) == IF b.live[p] # None THEN b.live[p] ELSE b.db[p]

FromDatabase(b, p) == b.live[p] = None /\ b.db[p] # None

Entries(token, p) ==
  {<<"owner", token.owner, p>>, <<"mint", token.mint, p>>}
    \cup (IF token.delegate = NoKey THEN {} ELSE {<<"delegate", token.delegate, p>>})

(* f with the values of g, where g has one. *)
Over(f, g) == [p \in DOMAIN f |-> IF p \in DOMAIN g THEN g[p] ELSE f[p]]

One(p, a) == [q \in {p} |-> a]

Present(f) == [p \in {q \in DOMAIN f : f[q] # None} |-> f[p]]

KeepTokenEntries(b, old) ==  \* mutant: token indexes keep what an account was
  [b EXCEPT !.by_owner = @ \ {<<old[p].owner, p>> : p \in DOMAIN old}]

(* What is removed is found through the accounts as the caller knew them:  *)
(* "old" maps each to its version.                                         *)
RemoveFromIndexes(b, old) ==
  LET indexed == {p \in DOMAIN old :
                    old[p].owner \in TokenPrograms /\ b.token_accounts[p] # NoToken}
  IN [b EXCEPT
        !.by_owner = @ \ {<<old[p].owner, p>> : p \in DOMAIN old},
        !.token_accounts = Over(@, [p \in indexed |-> NoToken]),
        !.by_token = @ \ UNION {Entries(b.token_accounts[p], p) : p \in indexed}]

AddToIndexes(b, new) ==
  LET indexed == {p \in DOMAIN new : new[p].owner \in TokenPrograms /\ new[p].token # NoToken}
  IN [b EXCEPT
        !.by_owner = @ \cup {<<new[p].owner, p>> : p \in DOMAIN new},
        !.token_accounts = Over(@, [p \in indexed |-> new[p].token]),
        !.by_token = @ \cup UNION {Entries(new[p].token, p) : p \in indexed}]

NotMirrored(b, after) == b  \* mutant: a transaction's writes stay in LiteSVM

Mirrored(b, after) == IF has_db THEN [b EXCEPT !.db = Over(@, after)] ELSE b

(* update_account_registries, of every account written by one access.  One *)
(* that was deleted is marked offline, whatever mark it had.               *)
UpdateRegistries(b, before, after) ==
  LET removed == RemoveFromIndexes(Mirrored(b, after), Present(before))
      deleted == {p \in DOMAIN after : after[p] = None}
  IN AddToIndexes([removed EXCEPT !.offline = Over(@, [p \in deleted |-> "alone"])],
                  Present(after))

Held(a) == IF a # None /\ a.lamports > 0 THEN a ELSE None

(* LiteSVM loads a program as it is set. *)
Accepts(b, p, a) == a # None /\ a.program => b.live[ProgramData[p]] \in Loadable

(* LiteSVM has the account, and the registries follow.  One without        *)
(* lamports is indexed though only a database holds it.                    *)
SetAccepted(b, p, a) ==
  UpdateRegistries(
    [b EXCEPT !.live[p] = Held(a),
              !.unsettled = @ \cup (IF has_db \/ Held(a) = a THEN {} ELSE {p})],
    One(p, Visible(b, p)), One(p, a))

(* LiteSVM fails once the database has the account: the registries stay    *)
(* as they were.                                                           *)
SetRefused(b, p, a) ==
  [Mirrored(b, One(p, a)) EXCEPT
     !.unsettled = @ \cup (IF has_db /\ b.db[p] # a THEN {p} ELSE {})]

SetAccount(b, p, a) ==
  IF Accepts(b, p, a) THEN SetAccepted(b, p, a) ELSE SetRefused(b, p, a)

(* Accounts are purged as if each were "old". *)
Purge(b, ps, old) ==
  [RemoveFromIndexes(b, [p \in ps |-> old]) EXCEPT
     !.live = Over(@, [p \in ps |-> None]), !.db = Over(@, [p \in ps |-> None])]

OwnedBy(b, p) == {q \in Pubkeys : <<p, q>> \in b.by_owner /\ Visible(b, q) # None}

(* The accounts purged along with p are purged as if they were p's account *)
(* itself.                                                                 *)
PurgedWith(b, p, owned) ==
  (IF Visible(b, p).program THEN {ProgramData[p]} ELSE {})
    \cup (IF owned THEN OwnedBy(b, p) ELSE {})

ResetAccount(b, p, owned) ==
  IF Visible(b, p) = None THEN b
  ELSE Purge(b, PurgedWith(b, p, owned) \cup {p}, Visible(b, p))

-----------------------------------------------------------------------------
(* Filling in what was read elsewhere *)

(* The account read along with a: a token account's mint, a program's      *)
(* programdata.                                                            *)
Coupled(p, a) ==
  IF a.program THEN ProgramData[p]
  ELSE IF a.token # NoToken THEN a.token.mint ELSE NoKey

FillOver(b, p, a) == SetAccount(b, p, a)  \* mutant: what was fetched replaces what is there

(* HydrateIfAbsent: LiteSVM's own account stays, and the database's comes  *)
(* before the one given.                                                   *)
Fill(b, p, a) ==
  IF b.live[p] # None THEN b
  ELSE SetAccount(b, p, IF b.db[p] # None THEN b.db[p] ELSE a)

(* A program without programdata gets a synthetic one.                     *)
Dependency(a, with) == IF with = None /\ a.program THEN Synthetic ELSE with

Hydrate(b, p, a, with) ==
  LET dep == Dependency(a, with)
      key == Coupled(p, a)
  IN Fill(IF key = NoKey \/ dep = None THEN b ELSE Fill(b, key, dep), p, a)

OwnerOffline(b, a) == a.owner \in Pubkeys /\ b.offline[a.owner] = "owned"

(* resolve_fetched_account: the bank is looked at again under the lock.    *)
ResolveUnlessPresent(b, p, answer) ==  \* mutant: the marks are not looked at again
  IF Visible(b, p) = None /\ answer.account # None
  THEN Hydrate(b, p, answer.account, answer.with)
  ELSE b

Resolve(b, p, answer) ==
  IF FromDatabase(b, p)
  THEN LET key == Coupled(p, b.db[p])
       IN Hydrate(b, p, b.db[p], IF key = NoKey THEN None ELSE b.db[key])
  ELSE IF \/ b.live[p] # None
          \/ b.offline[p] # "online"
          \/ answer.account = None
          \/ OwnerOffline(b, answer.account)
       THEN b
       ELSE Hydrate(b, p, answer.account, answer.with)

RemoteAnswer(p) ==
  LET a == remote[p]
      key == IF a = None THEN NoKey ELSE Coupled(p, a)
  IN [account |-> a, with |-> IF key = NoKey THEN None ELSE remote[key]]

NoAnswer == [account |-> None, with |-> None]

-----------------------------------------------------------------------------
(* RPC threads *)

Missing(p) == Visible(bank, p) = None /\ bank.offline[p] = "online"

(* The first look, and the remote's answers: no lock is held from here on. *)
Fetch(r, keys, edits) ==
  /\ readers[r] = NoCall
  /\ reads < MaxReads /\ reads' = reads + 1
  /\ \E i \in DOMAIN keys : Missing(keys[i]) \/ FromDatabase(bank, keys[i])
  /\ readers' = [readers EXCEPT ![r] =
       [keys |-> keys, edits |-> edits,
        answers |-> [i \in DOMAIN keys |->
                       IF Missing(keys[i]) THEN RemoteAnswer(keys[i]) ELSE NoAnswer]]]
  /\ UNCHANGED <<has_db, bank, remote, streamed, tx, resetting, blurred, writes, commands>>

(* The bank once the first n accounts of a call are resolved. *)
LandedTo(b, call, n) ==
  LET landed[i \in 0..n] ==
        IF i = 0 THEN b ELSE Resolve(landed[i - 1], call.keys[i], call.answers[i])
  IN  landed[n]

Landed(b, call) == LandedTo(b, call, Len(call.keys))

InFetch(r) == readers[r] # NoCall /\ "answers" \in DOMAIN readers[r]

(* What surfnet_setAccount goes on to edit: the account as it now is, and  *)
(* the one coupled with it if it was not in LiteSVM before.                *)
EditOf(p, before, after) ==
  LET key == IF Visible(after, p) = None \/ before.live[p] # None THEN NoKey
             ELSE Coupled(p, Visible(after, p))
  IN [keys |-> <<p>>, key |-> key,
      with |-> IF key = NoKey THEN None
               ELSE IF FromDatabase(before, p) THEN before.db[key] ELSE Visible(after, key)]

Land(r) ==
  /\ InFetch(r)
  /\ bank' = Landed(bank, readers[r])
  /\ readers' = [readers EXCEPT ![r] =
       IF readers[r].edits THEN EditOf(readers[r].keys[1], bank, bank') ELSE NoCall]
  /\ UNCHANGED <<has_db, remote, streamed, tx, resetting, blurred, counters>>

(* The remote fails or its deadline passes: the call fails. *)
FetchFails(r) ==
  /\ InFetch(r)
  /\ readers' = [readers EXCEPT ![r] = NoCall]
  /\ UNCHANGED <<has_db, bank, remote, streamed, tx, resetting, blurred, counters>>

CountWrite == writes < MaxWrites /\ writes' = writes + 1

(* surfnet_setAccount with some fields, second access: authoritative, for  *)
(* the coupled account too.                                                *)
ApplyEdit(r, a) ==
  /\ readers[r] # NoCall /\ ~InFetch(r)
  /\ LET p == readers[r].keys[1]
         call == readers[r]
         b == IF call.with # None THEN SetAccount(bank, call.key, call.with)
              ELSE IF a # None /\ a.program THEN Fill(bank, ProgramData[p], Synthetic) ELSE bank
     IN /\ a \in Values[p] \cup {None}
        /\ bank' = SetAccount(b, p, a)
  /\ readers' = [readers EXCEPT ![r] = NoCall]
  /\ UNCHANGED <<has_db, remote, streamed, tx, resetting, blurred, counters>>

(* surfnet_setAccount with every field: one access. *)
WriteAccount(p, a) ==
  /\ CountWrite
  /\ bank' = SetAccount(IF a # None /\ a.program THEN Fill(bank, ProgramData[p], Synthetic)
                        ELSE bank, p, a)
  /\ UNCHANGED <<has_db, remote, streamed, readers, tx, resetting, blurred, reads, commands>>

CountCommand == commands < MaxCommands /\ commands' = commands + 1

(* surfnet_offlineAccount *)
MarkOffline(p, owned) ==
  /\ CountCommand
  /\ bank' = [bank EXCEPT !.offline[p] = IF owned THEN "owned" ELSE "alone"]
  /\ UNCHANGED <<has_db, remote, streamed, readers, tx, resetting, blurred, writes, reads>>

(* surfnet_streamAccount *)
StreamAccount(p, owned) ==
  /\ CountCommand
  /\ streamed' = [streamed EXCEPT ![p] = IF owned THEN "owned" ELSE "alone"]
  /\ UNCHANGED <<has_db, bank, remote, readers, tx, resetting, blurred, writes, reads>>

(* surfnet_resetAccount: remove_offline_account, then the reset in an      *)
(* access of its own.                                                      *)
BringOnline(p, owned) ==
  /\ resetting = NoReset
  /\ CountCommand
  /\ resetting' = <<p, owned>>
  /\ bank' = [bank EXCEPT !.offline = [q \in Pubkeys |->
       IF q = p \/ (owned /\ <<p, q>> \in bank.by_owner) THEN "online" ELSE @[q]]]
  /\ UNCHANGED <<has_db, remote, streamed, readers, tx, blurred, writes, reads>>

(* The accounts a reset purges as another owner's than their own. *)
LeftBehind(b, p, owned) ==
  IF Visible(b, p) = None THEN {}
  ELSE {q \in PurgedWith(b, p, owned) :
          Visible(b, q) # None /\ Visible(b, q).owner # Visible(b, p).owner}

FinishReset ==
  /\ resetting # NoReset
  /\ bank' = ResetAccount(bank, resetting[1], resetting[2])
  /\ blurred' = blurred \cup LeftBehind(bank, resetting[1], resetting[2])
  /\ resetting' = NoReset
  /\ UNCHANGED <<has_db, remote, streamed, readers, tx, counters>>

(* surfnet_resetNetwork, second access; the remote's epoch was fetched     *)
(* before it.                                                              *)
ResetNetwork ==
  /\ CountCommand
  /\ bank' = InitialBank /\ streamed' = [p \in Pubkeys |-> "no"]
  /\ blurred' = {}
  /\ UNCHANGED <<has_db, remote, readers, tx, resetting, writes, reads>>

-----------------------------------------------------------------------------
(* The runloop *)

(* accounts_before: what the transaction's accounts are, after the missing *)
(* ones were fetched and the database's restored, where LiteSVM takes them. *)
CaptureAccounts(keys) ==
  /\ tx = NoTx
  /\ CountWrite
  /\ \A p \in keys : FromDatabase(bank, p) =>
       ~Accepts(bank, p, bank.db[p]) \/ Held(bank.db[p]) = None
  /\ tx' = [p \in keys |-> Visible(bank, p)]
  /\ UNCHANGED <<has_db, bank, remote, streamed, readers, resetting, blurred, reads, commands>>

MissedSince(keys) == {p \in keys : tx[p] # Visible(bank, p)}

RegisterAll(b, keys, after) ==
  UpdateRegistries(b, [p \in keys |-> tx[p]], [p \in keys |-> after[p]])

Changed(after) == {p \in DOMAIN tx : tx[p] # after[p]}

(* send_transaction succeeds: any of its accounts is written, made or      *)
(* closed, and the registries follow those that differ from accounts_before. *)
ExecuteTransaction(after) ==
  /\ tx # NoTx /\ \A p \in DOMAIN tx : Held(after[p]) = after[p]
  /\ bank' = RegisterAll([bank EXCEPT !.live = Over(@, after)], Changed(after), after)
  /\ blurred' = blurred \cup MissedSince(DOMAIN tx)
  /\ tx' = NoTx
  /\ UNCHANGED <<has_db, remote, streamed, readers, resetting, counters>>

(* It fails: only the fee payer is written.  One that paid its last        *)
(* lamport is read back from the database, or is gone from LiteSVM alone.  *)
FailTransaction(payer, a) ==
  /\ payer \in DOMAIN tx /\ bank.live[payer] # None /\ Held(a) = a
  /\ LET spent == [bank EXCEPT !.live[payer] = a]
         after == [p \in DOMAIN tx |-> Visible(spent, p)]
     IN bank' = RegisterAll(spent, {p \in Changed(after) : after[p] # None}, after)
  /\ blurred' = blurred \cup MissedSince(DOMAIN tx) \cup (IF a = None THEN {payer} ELSE {})
  /\ tx' = NoTx
  /\ UNCHANGED <<has_db, remote, streamed, readers, resetting, counters>>

Streamed == {p \in Pubkeys : streamed[p] # "no"}

(* The bank once the first n streamed accounts are reset, in an order the  *)
(* store gives them in.                                                    *)
ResetTo(b, order, n) ==
  LET reset[i \in 0..n] ==
        IF i = 0 THEN b ELSE ResetAccount(reset[i - 1], order[i], streamed[order[i]] = "owned")
  IN  reset[n]

StreamedLeftBehind(b) ==
  UNION {LeftBehind(b, p, streamed[p] = "owned") : p \in Streamed}

Collected(b) == IF has_db THEN [b EXCEPT !.live = [p \in Pubkeys |-> None]] ELSE b

(* confirm_current_block: at some slots LiteSVM is garbage collected; at   *)
(* each, the streamed accounts are reset.                                  *)
CloseBlock(collects) ==
  /\ tx = NoTx
  /\ LET b == IF collects THEN Collected(bank) ELSE bank
     IN /\ \E order \in SetToSeqs(Streamed) : bank' = ResetTo(b, order, Len(order))
        /\ blurred' = blurred \cup StreamedLeftBehind(b)
  /\ UNCHANGED <<has_db, remote, streamed, readers, tx, resetting, counters>>

(* The surfnet stops and starts again; what is in memory is lost. *)
Restart ==
  /\ has_db
  /\ CountCommand
  /\ bank' = Collected(bank)
  /\ readers' = [r \in Readers |-> NoCall] /\ tx' = NoTx /\ resetting' = NoReset
  /\ UNCHANGED <<has_db, remote, streamed, blurred, writes, reads>>

(* The remote's network goes on. *)
RemoteWrite(p, a) ==
  /\ Held(a) = a
  /\ CountWrite
  /\ remote' = [remote EXCEPT ![p] = a]
  /\ UNCHANGED <<has_db, bank, streamed, readers, tx, resetting, blurred, reads, commands>>

Next ==
  \/ \E r \in Readers :
       \/ \E keys \in Requests : Fetch(r, keys, FALSE)
       \/ \E p \in Pubkeys : Fetch(r, <<p>>, TRUE)
       \/ Land(r) \/ FetchFails(r)
       \/ \E p \in Pubkeys : \E a \in Values[p] \cup {None} : ApplyEdit(r, a)
  \/ \E p \in Pubkeys : \E a \in Values[p] \cup {None} : WriteAccount(p, a) \/ RemoteWrite(p, a)
  \/ \E p \in Marked, owned \in BOOLEAN :
       MarkOffline(p, owned) \/ StreamAccount(p, owned) \/ BringOnline(p, owned)
  \/ FinishReset \/ ResetNetwork \/ Restart
  \/ \E keys \in TxKeys : CaptureAccounts(keys)
  \/ \E after \in [DOMAIN tx -> (UNION {Values[p] : p \in DOMAIN tx}) \cup {None}] :
       /\ \A p \in DOMAIN tx : after[p] \in Values[p] \cup {None}
       /\ ExecuteTransaction(after)
  \/ \E payer \in DOMAIN tx : \E a \in Values[payer] \cup {None} : FailTransaction(payer, a)
  \/ \E collects \in BOOLEAN : CloseBlock(collects)

Spec == Init /\ [][Next]_vars

-----------------------------------------------------------------------------
(* Properties *)

Accounts == (UNION {Values[p] : p \in Pubkeys}) \cup {Synthetic}

Tokens == {a.token : a \in Accounts} \ {NoToken}

Keys == UNION {{t.owner, t.mint, t.delegate} : t \in Tokens}

Banks ==
  [live           : [Pubkeys -> Accounts \cup {None}],
   db             : [Pubkeys -> IF has_db THEN Accounts \cup {None} ELSE {None}],
   by_owner       : SUBSET ({a.owner : a \in Accounts} \X Pubkeys),
   token_accounts : [Pubkeys -> Tokens \cup {NoToken}],
   by_token       : SUBSET ({"owner", "mint", "delegate"} \X Keys \X Pubkeys),
   offline        : [Pubkeys -> Offline],
   unsettled      : SUBSET Pubkeys]

Answers == [account : Accounts \cup {None}, with : Accounts \cup {None}]

FetchOK(call) ==
  /\ call.keys \in Seq(Pubkeys) /\ call.answers \in [DOMAIN call.keys -> Answers]
  /\ call.edits => Len(call.keys) = 1

EditOK(call) ==
  /\ call.keys[1] \in Pubkeys /\ call.with \in Accounts \cup {None}
  /\ call.with # None => call.key \in Pubkeys

TypeOK ==
  /\ has_db \in BOOLEAN /\ bank \in Banks
  /\ remote \in [Pubkeys -> Accounts \cup {None}]
  /\ streamed \in [Pubkeys -> {"no", "alone", "owned"}]
  /\ DOMAIN readers = Readers
  /\ \A r \in Readers :
       readers[r] # NoCall => IF InFetch(r) THEN FetchOK(readers[r]) ELSE EditOK(readers[r])
  /\ DOMAIN tx \subseteq Pubkeys /\ tx \in [DOMAIN tx -> Accounts \cup {None}]
  /\ resetting \in (Pubkeys \X BOOLEAN) \cup {NoReset}
  /\ blurred \subseteq Pubkeys

(* update_account_registries: an account is listed under its owner, and a  *)
(* token account under its holder, mint and delegate, and nowhere else,    *)
(* through writes, closes, fetches, resets, garbage collection and         *)
(* restarts.  The exceptions are the accounts of which the caller did not  *)
(* hold the registered version: those a reset purges as another account,   *)
(* those written between a transaction's two accesses, and a fee payer     *)
(* that a failed transaction emptied; and two that the code indexes as     *)
(* they are not: without a database, an account set without lamports is    *)
(* indexed and absent, and with one, a program LiteSVM refused is seen     *)
(* and not indexed.                                                        *)
RegistriesFollow ==
  \A p \in Pubkeys \ (blurred \cup bank.unsettled) :
    LET a == Visible(bank, p)
        indexed == a # None /\ a.owner \in TokenPrograms /\ a.token # NoToken
    IN /\ {e \in bank.by_owner : e[2] = p} = IF a = None THEN {} ELSE {<<a.owner, p>>}
       /\ {e \in bank.by_token : e[3] = p} = IF indexed THEN Entries(a.token, p) ELSE {}

(* Indexes and accounts agree, in every state of the right type.           *)
IndexesFollowAccounts == TypeOK /\ RegistriesFollow

(* With a database, garbage collection and a restart lose no account and   *)
(* bring no older one back: what LiteSVM holds, the database holds too,    *)
(* but for a program LiteSVM refused, which the database alone took.       *)
DatabaseHoldsAccounts ==
  has_db => \A p \in Pubkeys \ (blurred \cup bank.unsettled) :
              bank.live[p] # None => bank.db[p] = bank.live[p]

(* resolve_account_after_fetch: what was fetched without the lock never    *)
(* replaces what a writer put there meanwhile, the coupled account's       *)
(* included.                                                               *)
FetchKeepsLocal ==
  [][\A r \in Readers : Land(r) =>
       \A p \in Pubkeys : Visible(bank, p) # None => Visible(bank', p) = Visible(bank, p)]_vars

Brought(p) == Visible(bank, p) = None /\ Visible(bank', p) # None

MayBeFetched(p) ==
  bank.offline[p] = "online" /\ ~OwnerOffline(bank, Visible(bank', p))

BroughtAlong(p, call) ==
  \E i \in DOMAIN call.keys :
    /\ bank.live[call.keys[i]] = None
    /\ \E a \in {call.answers[i].account, Visible(bank', call.keys[i])} \ {None} :
         Coupled(call.keys[i], a) = p

(* An account marked offline or closed while it was being fetched, or      *)
(* whose owner was marked with its accounts, is not brought back, unless   *)
(* along with an account it is coupled with.                               *)
MarkedStaysAway ==
  [][\A r \in Readers : Land(r) =>
       \A p \in Pubkeys :
         Brought(p) => MayBeFetched(p) \/ BroughtAlong(p, readers[r])]_vars
=============================================================================
