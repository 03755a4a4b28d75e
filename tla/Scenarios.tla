------------------------------ MODULE Scenarios ------------------------------
(***************************************************************************)
(* Scenarios: the overrides of accounts that a client schedules for slots  *)
(* to come, how a slot's overrides are applied as the slot opens, and the  *)
(* keep-alive that from then on rewrites, at every slot, the accounts      *)
(* their templates name.                                                   *)
(*                                                                         *)
(* An account's data is reduced to whose values it holds: the overrides    *)
(* that wrote it since it was last replaced, and the moment keep-alive     *)
(* last wrote, which is the Clock its placeholders were filled from.       *)
(* Closing a slot and materializing the next one is one write access, so   *)
(* one step; a time travel closes a slot in one and lands in another.      *)
(* What comes along with a fetched account, and the marks that keep an     *)
(* owner's accounts from being downloaded, are in module Accounts: here    *)
(* "offline" is whatever must not be downloaded.                           *)
(***************************************************************************)
EXTENDS Integers, Sequences, SequencesExt, FiniteSets

CONSTANTS
  Account, Override,
  Target,               \* override -> the account it addresses
  Writes,               \* override -> the accounts it writes, all or none, its target included
  FetchBeforeUse,       \* overrides that fetch their account first
  KeptAlive,            \* override -> the accounts its template's keep-alive imports rewrite
  TokenAccounts,        \* accounts written on the token path
  Scenario,             \* sequences of [override, relative_slot], each override once
  OnRemote,             \* the accounts the remote has
  HasRemote,
  InitialSlot,
  None,
  MaxSlot, Headroom,    \* bounds: the last slot, what a travel or a scenario leaves of them
  MaxFailures, MaxUpsets, MaxEdits

Moments == [slot : Nat, landed : BOOLEAN]

(* An account that is there. *)
Held == [by : SUBSET Override, kept : Moments \cup {None}]

ASSUME ScenariosAssumption ==
  /\ Target \in [Override -> Account]
  /\ Writes \in [Override -> SUBSET Account]
  /\ \A o \in Override : Target[o] \in Writes[o]
  /\ FetchBeforeUse \subseteq Override
  /\ KeptAlive \in [Override -> SUBSET Account]
  /\ TokenAccounts \subseteq Account /\ OnRemote \subseteq Account
  /\ HasRemote \in BOOLEAN
  /\ InitialSlot \in Nat /\ MaxSlot \in Nat /\ Headroom \in Nat
  /\ MaxFailures \in Nat /\ MaxUpsets \in Nat /\ MaxEdits \in Nat
  /\ Scenario \subseteq Seq([override : Override, relative_slot : Nat])
  /\ \A s \in Scenario : IsInjective([i \in DOMAIN s |-> s[i].override])
  /\ None \notin Held

VARIABLES
  open, landed,         \* the open slot, and whether a travel landed on it
  producing,            \* the block production runloop has not ended on an error
  travelling,           \* the slot a travel lands on once its block is closed, or 0
  scheduled_overrides,  \* slot -> sequence of overrides, in the database
  accounts,             \* account -> [by, kept], or None
  offline,
  keep_alive_bindings,  \* the accounts keep-alive rewrites
  registered,           \* history: overrides registered on this chain
  done,                 \* history: of those, the ones taken from the schedule for good
  lost,                 \* history: of those, the ones taken whose way back was refused too
  wrote,                \* history: overrides that wrote since the bindings were empty
  passed,               \* history: slots that opened without their overrides, or failed on one
  unkept,               \* history: accounts keep-alive was refused, or did not come to, when
                        \* the clock last moved
  failures, upsets, edits

world == <<open, landed, producing, travelling>>
history == <<registered, done, lost, wrote, passed, unkept>>
vars == <<world, scheduled_overrides, accounts, offline, keep_alive_bindings, history, failures,
          upsets, edits>>

(* What the Clock shows. *)
Moment == [slot |-> open, landed |-> landed]

Fresh == [by |-> {}, kept |-> None]

Init ==
  /\ open = InitialSlot /\ landed = FALSE /\ producing = TRUE /\ travelling = 0
  /\ scheduled_overrides = <<>>
  /\ accounts \in [Account -> {Fresh, None}]
  /\ offline = {} /\ keep_alive_bindings = {}
  /\ registered = {} /\ done = {} /\ lost = {}
  /\ wrote = {} /\ passed = {} /\ unkept = {}
  /\ failures = 0 /\ upsets = 0 /\ edits = 0

Upset == upsets < MaxUpsets /\ upsets' = upsets + 1
Edit == edits < MaxEdits /\ edits' = edits + 1

-----------------------------------------------------------------------------
(* Registering *)

(* The locker's register_scenario rejects a base that is already produced. *)
BaseSlots == (open + 1)..(MaxSlot - Headroom)

ScheduledAt(slot) ==
  IF slot \in DOMAIN scheduled_overrides THEN scheduled_overrides[slot] ELSE <<>>

(* What a scenario adds to a slot's overrides: one after the other, each   *)
(* is pushed to those of the slot it is due at.                            *)
DueAt(scenario, base, slot) ==
  LET due[n \in 0..Len(scenario)] ==
        IF n = 0 THEN <<>>
        ELSE IF base + scenario[n].relative_slot # slot THEN due[n - 1]
        ELSE Append(due[n - 1], scenario[n].override)
  IN due[Len(scenario)]

RegisterScenario(scenario, base) ==
  LET overrides == {scenario[i].override : i \in DOMAIN scenario}
      slots == {base + scenario[i].relative_slot : i \in DOMAIN scenario}
  IN /\ overrides \cap registered = {}
     /\ base \in BaseSlots
     /\ scheduled_overrides' = [slot \in DOMAIN scheduled_overrides \cup slots |->
                                  ScheduledAt(slot) \o DueAt(scenario, base, slot)]
     /\ registered' = registered \cup overrides
     /\ UNCHANGED <<world, accounts, offline, keep_alive_bindings, done, lost, wrote, passed,
                    unkept, failures, upsets, edits>>

-----------------------------------------------------------------------------
(* Materializing *)

(* What can go wrong as a slot opens: the store refuses the read, or on    *)
(* the token path the write, of the override at "stop", and may refuse to  *)
(* take the unprocessed ones back ("lost"); an override has values that do *)
(* not fit or, on the other paths, is refused its write; the remote does   *)
(* not answer for an account; keep-alive is refused.                       *)
Faults(due) ==
  {fault \in [stop : 0..Len(due), lost : BOOLEAN, bad : SUBSET ToSet(due),
              silent : SUBSET OnRemote, unkept : SUBSET keep_alive_bindings] :
     fault.lost => fault.stop # 0}

FaultCount(fault) ==
  (IF fault.stop = 0 THEN 0 ELSE IF fault.lost THEN 2 ELSE 1)
    + Cardinality(fault.bad) + Cardinality(fault.silent) + Cardinality(fault.unkept)

CanFetch(a, fault) == HasRemote /\ a \in OnRemote \ fault.silent

(* Whether the accounts an override wrote count as settled for the later   *)
(* overrides of the slot: the token path does not say.                     *)
NeverSettled(o) == {}  \* mutant: only a fetch settles an account

SettledBy(o) == Writes[o] \ TokenAccounts

(* Whether an override fetches its account first. *)
FetchesFirst(o, settled, fault) ==
  o \in FetchBeforeUse /\ Target[o] \notin settled /\ CanFetch(Target[o], fault)

(* One override of apply_overrides; "stops" if it is the one that fails.   *)
ApplyOverride(state, o, fault, stops) ==
  LET fetches == FetchesFirst(o, state.settled, fault)
      before == IF fetches THEN [state.accounts EXCEPT ![Target[o]] = Fresh] ELSE state.accounts
      writes == ~stops /\ o \notin fault.bad /\ before[Target[o]] # None
      with(a) == IF before[a] = None THEN [Fresh EXCEPT !.by = {o}]
                 ELSE [before[a] EXCEPT !.by = @ \cup {o}]
  IN [accounts |-> [a \in Account |-> IF writes /\ a \in Writes[o] THEN with(a) ELSE before[a]],
      settled |-> state.settled \cup (IF fetches THEN {Target[o]} ELSE {})
                                \cup (IF writes THEN SettledBy(o) ELSE {}),
      wrote |-> state.wrote \cup (IF writes THEN {o} ELSE {})]

(* apply_overrides, up to the override that fails. *)
ApplyOverrides(due, fault) ==
  LET last == IF fault.stop = 0 THEN Len(due) ELSE fault.stop
      state[i \in 0..last] ==
        IF i = 0 THEN [accounts |-> accounts, settled |-> {}, wrote |-> {}]
        ELSE ApplyOverride(state[i - 1], due[i], fault, i = fault.stop)
  IN state[last]

Processed(due, fault) == IF fault.stop = 0 THEN due ELSE SubSeq(due, 1, fault.stop - 1)

(* restore_unprocessed: the failed override and those after it go back,    *)
(* unless that store is refused as well, which is only logged.             *)
RestoreAfterFailed(due, fault) ==  \* mutant: the failed one is given up
  IF fault.stop = 0 THEN <<>> ELSE SubSeq(due, fault.stop + 1, Len(due))

Unprocessed(due, fault) ==
  IF fault.stop = 0 THEN <<>> ELSE SubSeq(due, fault.stop, Len(due))

Restored(due, fault) == IF fault.lost THEN <<>> ELSE Unprocessed(due, fault)

(* The schedule once a slot's overrides are taken from it. *)
Rescheduled(slot, left) ==
  [s \in (DOMAIN scheduled_overrides \ {slot}) \cup (IF left = <<>> THEN {} ELSE {slot}) |->
     IF s = slot THEN left ELSE scheduled_overrides[s]]

(* enroll_keep_alive, for the overrides that wrote. *)
EnrollKeepAlive(writers, fault) ==
  keep_alive_bindings \cup UNION {KeptAlive[o] : o \in writers}

(* apply_keep_alive: the bound accounts that are there, or can be fetched, *)
(* are written for the moment.                                             *)
Fetchable(a, fault) == a \notin offline /\ CanFetch(a, fault)

ApplyKeepAlive(held, bindings, moment, fault) ==
  [a \in Account |->
     IF a \notin bindings \/ (held[a] = None /\ ~Fetchable(a, fault)) THEN held[a]
     ELSE LET base == IF held[a] = None THEN Fresh ELSE held[a]
          IN IF a \in fault.unkept THEN base ELSE [base EXCEPT !.kept = moment]]

(* materialize_overrides_for_slot: keep-alive comes last, even when an     *)
(* override failed.                                                        *)
KeepAliveFirst(due, fault, moment) ==  \* mutant: before the overrides and their fetches
  LET result == ApplyOverrides(due, fault)
      kept == ApplyKeepAlive(accounts, keep_alive_bindings, moment, fault)
  IN /\ accounts' = [a \in Account |-> IF result.accounts[a] = accounts[a] THEN kept[a]
                                       ELSE result.accounts[a]]
     /\ keep_alive_bindings' = EnrollKeepAlive(result.wrote, fault)
     /\ wrote' = wrote \cup result.wrote

Materialize(due, fault, moment) ==
  LET result == ApplyOverrides(due, fault)
      bindings == EnrollKeepAlive(result.wrote, fault)
  IN /\ accounts' = ApplyKeepAlive(result.accounts, bindings, moment, fault)
     /\ keep_alive_bindings' = bindings
     /\ wrote' = wrote \cup result.wrote

(* confirm_current_block of the locker: the block is closed, the next slot *)
(* opens and its overrides are taken from the schedule and applied.        *)
CloseBlock(fault) ==
  LET due == ScheduledAt(open + 1)
  IN /\ open < MaxSlot
     /\ failures + FaultCount(fault) <= MaxFailures
     /\ failures' = failures + FaultCount(fault)
     /\ open' = open + 1 /\ landed' = FALSE
     /\ Materialize(due, fault, Moment')
     /\ scheduled_overrides' = Rescheduled(open + 1, Restored(due, fault))
     /\ done' = done \cup ToSet(Processed(due, fault))
     /\ lost' = IF fault.lost THEN lost \cup ToSet(Unprocessed(due, fault)) ELSE lost
     /\ passed' = IF fault.stop = 0 THEN passed ELSE passed \cup {open + 1}
     /\ unkept' = fault.unkept
     /\ UNCHANGED <<offline, registered, edits>>

(* The SVM's confirm_current_block fails, and the locker returns before it *)
(* materializes anything.  Refused its block or checkpoint, it leaves the  *)
(* slot open.  Refused a finalization or an eviction, it has moved the     *)
(* Clock: the next slot is open without its overrides or keep-alive.       *)
SlotStaysOpen == UNCHANGED <<open, landed, passed, unkept>>

SlotOpensBare ==
  /\ open < MaxSlot
  /\ open' = open + 1 /\ landed' = FALSE
  /\ passed' = passed \cup {open + 1}
  /\ unkept' = keep_alive_bindings

CloseFails ==
  /\ failures < MaxFailures /\ failures' = failures + 1
  /\ SlotStaysOpen \/ SlotOpensBare
  /\ UNCHANGED <<scheduled_overrides, accounts, offline, keep_alive_bindings, registered, done,
                 lost, wrote, edits>>

(* A tick or a block owed to a transaction: an error ends the runloop.     *)
CloseSlot ==
  /\ producing /\ travelling = 0
  /\ \/ \E fault \in Faults(ScheduledAt(open + 1)) :
          CloseBlock(fault) /\ producing' = (fault.stop = 0)
     \/ CloseFails /\ producing' = FALSE
  /\ UNCHANGED <<travelling, upsets>>

(* A time travel: the error of the block it closes is logged. *)
CloseBeforeTravel(slot) ==
  /\ producing /\ travelling = 0
  /\ slot > open /\ slot + Headroom <= MaxSlot
  /\ Upset
  /\ (\E fault \in Faults(ScheduledAt(open + 1)) : CloseBlock(fault)) \/ CloseFails
  /\ travelling' = slot
  /\ UNCHANGED producing

(* apply_time_travel of the locker: only keep-alive runs where it lands.   *)
KeptWhereLanded(moment, fault) ==
  ApplyKeepAlive(accounts, keep_alive_bindings, moment, fault)

Land ==
  /\ travelling # 0
  /\ open' = IF travelling > open THEN travelling ELSE open
  /\ landed' = TRUE /\ travelling' = 0
  /\ \E fault \in Faults(<<>>) :
       /\ failures + FaultCount(fault) <= MaxFailures
       /\ failures' = failures + FaultCount(fault)
       /\ accounts' = KeptWhereLanded(Moment', fault)
       /\ unkept' = fault.unkept
  /\ passed' = passed \cup ((open + 1)..open')
  /\ UNCHANGED <<producing, scheduled_overrides, offline, keep_alive_bindings, registered, done,
                 lost, wrote, upsets, edits>>

-----------------------------------------------------------------------------
(* RPC threads, transactions and the operator *)

(* A transaction, a cheatcode or the hydration of a missing account puts   *)
(* other data in an account.                                               *)
ReplaceAccount(a) ==
  /\ Edit
  /\ accounts' = [accounts EXCEPT ![a] = Fresh]
  /\ UNCHANGED <<world, scheduled_overrides, offline, keep_alive_bindings, history, failures,
                 upsets>>

(* surfnet_resetAccount, or a transaction that closes the account, which   *)
(* marks it offline.                                                       *)
RemoveAccount(a) ==
  /\ Edit
  /\ accounts[a] # None
  /\ accounts' = [accounts EXCEPT ![a] = None]
  /\ offline' \in {offline, offline \cup {a}}
  /\ UNCHANGED <<world, scheduled_overrides, keep_alive_bindings, history, failures, upsets>>

(* surfnet_offlineAccount *)
MarkOffline(a) ==
  /\ Edit
  /\ a \notin offline
  /\ offline' = offline \cup {a}
  /\ UNCHANGED <<world, scheduled_overrides, accounts, keep_alive_bindings, history, failures,
                 upsets>>

(* reset_network drops the accounts, the schedule and the bindings. *)
ResetNetwork ==
  /\ Upset
  /\ open' = InitialSlot /\ landed' = FALSE
  /\ scheduled_overrides' = <<>>
  /\ accounts' = [a \in Account |-> None] /\ offline' = {}
  /\ keep_alive_bindings' = {}
  /\ registered' = {} /\ done' = {} /\ lost' = {}
  /\ wrote' = {} /\ passed' = {} /\ unkept' = {}
  /\ UNCHANGED <<producing, travelling, failures, edits>>

(* The process stops and starts again on its database, which holds the     *)
(* schedule and the accounts, at a slot it had opened.                     *)
Restart ==
  /\ Upset
  /\ open' \in InitialSlot..open /\ landed' = FALSE
  /\ producing' = TRUE /\ travelling' = 0
  /\ keep_alive_bindings' = {} /\ wrote' = {} /\ unkept' = {}
  /\ UNCHANGED <<scheduled_overrides, accounts, offline, registered, done, lost, passed, failures,
                 edits>>

Next ==
  \/ \E s \in Scenario, base \in InitialSlot..MaxSlot : RegisterScenario(s, base)
  \/ CloseSlot \/ (\E slot \in InitialSlot..MaxSlot : CloseBeforeTravel(slot)) \/ Land
  \/ \E a \in Account : ReplaceAccount(a) \/ RemoveAccount(a) \/ MarkOffline(a)
  \/ ResetNetwork \/ Restart

Spec == Init /\ [][Next]_vars

-----------------------------------------------------------------------------
(* Properties *)

TypeOK ==
  /\ open \in Nat /\ landed \in BOOLEAN /\ producing \in BOOLEAN /\ travelling \in Nat
  /\ DOMAIN scheduled_overrides \subseteq Nat
  /\ \A slot \in DOMAIN scheduled_overrides : scheduled_overrides[slot] \in Seq(Override) \ {<<>>}
  /\ accounts \in [Account -> Held \cup {None}]
  /\ offline \subseteq Account /\ keep_alive_bindings \subseteq Account
  /\ registered \subseteq Override /\ done \subseteq registered
  /\ lost \subseteq registered \ done
  /\ wrote \subseteq done
  /\ passed \subseteq Nat /\ unkept \subseteq Account

(* Where an override is in the schedule: its slot and index there. *)
Places(o) ==
  LET slots == DOMAIN scheduled_overrides IN
  {p \in UNION {{slot} \X DOMAIN scheduled_overrides[slot] : slot \in slots} :
     scheduled_overrides[p[1]][p[2]] = o}

(* The accounts keep-alive rewrites are those of the overrides that wrote. *)
EnrolledAreWriters == keep_alive_bindings = UNION {KeptAlive[o] : o \in wrote}

(* apply_overrides, "bailing out mid-loop would drop every override that   *)
(* has not been reached yet": an override that was registered is in the    *)
(* schedule once or was processed, never both, whatever failed, but for    *)
(* those whose way back to the schedule was refused in turn, which are in  *)
(* neither.  What is scheduled is ahead, but for slots that a travel       *)
(* passed or an error left.                                                *)
(* A failed override enrolls nothing with keep-alive, and what was written *)
(* before another one failed still joins.                                  *)
EveryOverrideAccountedFor ==
  /\ TypeOK
  /\ \A o \in Override :
       Cardinality(Places(o)) = (IF o \in registered \ (done \cup lost) THEN 1 ELSE 0)
  /\ \A slot \in DOMAIN scheduled_overrides : slot > open \/ slot \in passed
  /\ EnrolledAreWriters

(* Whenever the Clock moves, to the next slot or to where a travel lands,  *)
(* the accounts keep-alive knows hold its values for the new moment, after *)
(* whatever the slot's overrides fetched and wrote, also if one failed.    *)
(* Left out are the accounts whose refresh was refused, and all of them    *)
(* when closing the block failed once the Clock had moved.                 *)
(* Keep-alive fetches unasked, so it honours the marks: of an account that *)
(* is not to be downloaded, only an override asks for a fetch.             *)
KeepAliveFresh ==
  [][Moment' # Moment =>
       /\ \A a \in keep_alive_bindings' \ unkept' :
            accounts'[a] # None => accounts'[a].kept = Moment'
       /\ \A a \in offline :
            accounts[a] = None /\ accounts'[a] # None
              => travelling = 0 /\ \E o \in ToSet(ScheduledAt(open + 1)) : a \in Writes[o]]_vars

(* What the overrides that wrote as a slot opened left in some accounts.   *)
StillThere(ours) == \A o \in wrote' \ wrote : \A a \in Writes[o] \cap ours : o \in accounts'[a].by

(* No override's fetch wipes what an earlier override of its slot wrote,   *)
(* on the raw, Phoenix and IDL paths; the token path settles nothing, and  *)
(* there a second override's fetch does.                                   *)
WritesSurviveFetches == [][StillThere(Account \ TokenAccounts)]_vars
==============================================================================
