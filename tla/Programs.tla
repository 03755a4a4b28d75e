------------------------------ MODULE Programs ------------------------------
(***************************************************************************)
(* Upgradeable programs: the program account, the programdata account with *)
(* its authority and its code, and what LiteSVM compiled from them.        *)
(* The server loads it from a snapshot as it starts; clients write it      *)
(* chunk by chunk, change its authority, clone it, import a snapshot or    *)
(* have it fetched from the remote.  A call takes the lock for each of its *)
(* accesses, and holds it neither between them nor while it awaits the     *)
(* remote; LiteSVM is garbage collected, the network is reset and the      *)
(* process restarts in between.                                            *)
(*                                                                         *)
(* Code is a sequence of chunks <<image, k>>.  A program account says only *)
(* where its programdata is, so it is there or not.                        *)
(***************************************************************************)
EXTENDS Integers, Sequences, FiniteSets

CONSTANTS
  Program,      \* program ids
  Image,        \* programs' binaries
  Size,         \* image -> its chunks
  Noop,         \* NOOP_PROGRAM_ELF, an image
  Zero,         \* a chunk of zeros
  None, System, AnyCode,
  Authority,
  Caller,       \* RPC threads
  Remote,       \* program -> its image on the remote, or None
  Snapshots,    \* what is loaded: [p, program, data, strict]
  Deployed,     \* images a client writes
  MaxCalls, MaxUpsets  \* bounds

Chunks == (UNION {{<<i, k>> : k \in 1..Size[i]} : i \in Image}) \cup {Zero}
NoopChunks == {<<Noop, k>> : k \in 1..Size[Noop]}
Datas == [authority : Authority \cup {System, None}, code : Seq(Chunks)]

ASSUME ProgramsAssumption ==
  /\ Noop \in Image /\ Deployed \subseteq Image \ {Noop}
  /\ Size \in [Image -> Nat \ {0}]
  /\ None \notin Image \cup Authority \cup {System, AnyCode} /\ AnyCode \notin Image
  /\ None \notin Datas /\ Zero \notin NoopChunks
  /\ Remote \in [Program -> Image \cup {None}]
  /\ Snapshots \subseteq [p : Program, program : {"absent", "given", "null"},
                          data : Image \cup {"absent", "null"}, strict : BOOLEAN]
  /\ MaxCalls \in Nat /\ MaxUpsets \in Nat

VARIABLES
  has_db,
  serving,     \* the snapshot is loaded and clients are served
  bank,        \* what the lock guards: see InitialBank
  calls,       \* RPC thread -> the call it is in
  progress,    \* history: program -> the image being written, its chunks written
  told,        \* history: program -> the code and authority a client was told of
  detached,    \* history: programs whose programdata was set or reset by itself
  begun, upsets

history == <<progress, told, detached>>
programVars == <<has_db, serving, bank, calls, history, begun, upsets>>

InitialBank ==
  [programs |-> {},                             \* program accounts in LiteSVM
   data     |-> [p \in Program |-> None],       \* programdata in LiteSVM
   cache    |-> [p \in Program |-> None],       \* what LiteSVM compiled
   db_programs |-> {}, db_data |-> [p \in Program |-> None]]

NoCall == [op |-> "none"]
Unwritten == [image |-> None, written |-> {}]
Untold == [code |-> None, authority |-> AnyCode]

ProgramsInit ==
  /\ has_db \in BOOLEAN /\ serving = FALSE
  /\ bank = InitialBank /\ calls = [c \in Caller |-> NoCall]
  /\ progress = [p \in Program |-> Unwritten] /\ told = [p \in Program |-> Untold]
  /\ detached = {} /\ begun = 0 /\ upsets = 0

-----------------------------------------------------------------------------
(* The accounts under the lock; b is a bank, d a programdata account *)

Code(image) == [k \in 1..Size[image] |-> <<image, k>>]

(* LiteSVM compiles code that starts with a whole image. *)
Compiled(d) ==
  LET whole == {i \in Image : Len(d.code) >= Size[i] /\ SubSeq(d.code, 1, Size[i]) = Code(i)}
  IN  IF d = None \/ whole = {} THEN None ELSE CHOOSE i \in whole : TRUE

(* set_account of a programdata account: nothing is compiled. *)
SetData(b, p, d) ==
  [b EXCEPT !.data[p] = d, !.db_data[p] = IF has_db THEN d ELSE @]

(* set_account of a program account: LiteSVM compiles its programdata, and *)
(* refuses it if that fails, after the database took it.                   *)
Accepted(b, p) == b.data[p] # None /\ Compiled(b.data[p]) # None

SetProgram(b, p) ==
  LET stored == [b EXCEPT !.db_programs = IF has_db THEN @ \cup {p} ELSE @]
  IN  IF Accepted(b, p)
      THEN [stored EXCEPT !.programs = @ \cup {p}, !.cache[p] = Compiled(b.data[p])]
      ELSE stored

NotRecompiled(b, p) ==  \* mutant: a program that is there is left alone
  IF p \in b.programs THEN b ELSE SetProgram(b, p)

Recompile(b, p) == SetProgram(b, p)

(* HydrateIfAbsent, of a programdata account: LiteSVM's own stays, the     *)
(* database's comes before the one given.                                  *)
FillData(b, p, d) ==
  IF b.data[p] # None THEN b
  ELSE SetData(b, p, IF b.db_data[p] # None THEN b.db_data[p] ELSE d)

SyntheticData == [authority |-> System, code |-> Code(Noop)]

(* HydrateIfAbsent, of a program: with the database's programdata if it is *)
(* in the database, and a synthetic one if there is none.                  *)
Hydrate(b, p, d) ==
  LET with == IF p \in b.db_programs THEN b.db_data[p] ELSE d
  IN  IF p \in b.programs THEN b
      ELSE SetProgram(FillData(b, p, IF with = None THEN SyntheticData ELSE with), p)

RemoteData(p) ==
  IF Remote[p] = None THEN None ELSE [authority |-> None, code |-> Code(Remote[p])]

-----------------------------------------------------------------------------
(* Getting accounts: what get_account does under the lock and answers *)

ProgramHere(b, p) == p \in b.programs \/ p \in b.db_programs
DataHere(b, p) == b.data[p] # None \/ b.db_data[p] # None

(* A program from LiteSVM comes alone; one from the database or the remote *)
(* comes with its programdata, the remote's as it now is in LiteSVM.       *)
GotProgram(b, p, fetched) ==
  LET filled == Hydrate(b, p, fetched)
  IN  IF p \in b.programs THEN [bank |-> b, found |-> "alone", data |-> None]
      ELSE IF p \in b.db_programs
      THEN [bank |-> filled, found |-> "coupled", data |-> b.db_data[p]]
      ELSE IF fetched = None THEN [bank |-> b, found |-> "none", data |-> None]
      ELSE [bank |-> filled, found |-> "coupled", data |-> filled.data[p]]

GotData(b, p, fetched) ==
  LET d == IF b.data[p] # None THEN b.data[p]
           ELSE IF b.db_data[p] # None THEN b.db_data[p] ELSE fetched
  IN  [bank |-> IF d = None THEN b ELSE FillData(b, p, d), data |-> d]

-----------------------------------------------------------------------------
(* Calls *)

Begin(c, call) ==
  /\ calls[c] = NoCall
  /\ ~serving => call.op = "load" /\ \A d \in Caller : calls[d] = NoCall
  /\ begun < MaxCalls /\ begun' = begun + 1
  /\ calls' = [calls EXCEPT ![c] = call]
  /\ UNCHANGED <<has_db, serving, bank, history, upsets>>

(* surfnet_writeProgram, one chunk *)
WriteProgram(c) ==
  \E p \in Program, i \in Deployed, a \in Authority \cup {None} : \E k \in 1..Size[i] :
    Begin(c, [op |-> "write", p |-> p, image |-> i, chunk |-> k, authority |-> a,
              at |-> "program", copy |-> None])

(* surfnet_setProgramAuthority *)
SetProgramAuthority(c) ==
  \E p \in Program, a \in Authority \cup {None} :
    Begin(c, [op |-> "authority", p |-> p, authority |-> a, at |-> "program", copy |-> None])

(* surfnet_cloneProgramAccount *)
CloneProgram(c) ==
  \E p, q \in Program :
    Begin(c, [op |-> "clone", p |-> p, to |-> q, at |-> "both", copy |-> None])

(* Any read of an account, or a transaction that names it. *)
ReadAccount(c) ==
  \E p \in Program, at \in {"program", "data"} :
    Begin(c, [op |-> "read", p |-> p, at |-> at])

(* load_snapshot_with_options.  Only the one at the start asks the remote  *)
(* for what the snapshot leaves null, and only it may be strict.           *)
LoadSnapshot(c) ==
  \E s \in Snapshots :
    /\ serving => ~s.strict
    /\ Begin(c, [op |-> "load", p |-> s.p, snapshot |-> s,
              at |-> IF "null" \in {s.program, s.data} /\ ~serving THEN "asked both" ELSE "load",
              fetched |-> [program |-> "absent", data |-> None], failed |-> FALSE])

Here(call) ==
  CASE call.at = "program" -> ProgramHere(bank, call.p)
    [] call.at = "data"    -> DataHere(bank, call.p)
    [] call.at = "both"    -> ProgramHere(bank, call.p) /\ DataHere(bank, call.p)
    [] OTHER               -> FALSE

(* What is neither in LiteSVM nor in the database is asked of the remote;  *)
(* a program brings its programdata along.                                 *)
Asked(call) ==
  CASE call.at = "program" -> "asked program"
    [] call.at = "data"    -> "asked data"
    [] OTHER -> IF ProgramHere(bank, call.p) THEN "asked data" ELSE "asked both"

IsAsked(at) == at \in {"asked program", "asked data", "asked both"}

AskRemote(c) ==
  /\ calls[c] # NoCall
  /\ calls[c].at \in {"program", "data", "both"} /\ ~Here(calls[c])
  /\ calls' = [calls EXCEPT ![c].at = Asked(calls[c])]
  /\ UNCHANGED <<has_db, serving, bank, history, begun, upsets>>

End(c) == calls' = [calls EXCEPT ![c] = NoCall]

(* The remote fails: the call does, but loading a snapshot goes on.        *)
RemoteFails(c) ==
  /\ calls[c] # NoCall /\ IsAsked(calls[c].at)
  /\ IF calls[c].op = "load"
     THEN calls' = [calls EXCEPT ![c].at = "load", ![c].failed = TRUE]
     ELSE End(c)
  /\ UNCHANGED <<has_db, serving, bank, history, begun, upsets>>

(* A programdata set or reset alone leaves its program as it was compiled. *)
NoteDetached(alone) ==
  detached' = {p \in (detached \cup alone) \cap bank'.programs :
                 bank'.cache[p] # Compiled(bank'.data[p])}

(* Answers are resolved against what is there by then. *)
Takes(c, what, answers) ==
  /\ calls[c] # NoCall
  /\ calls[c].at \in answers \/ (calls[c].at = what /\ Here(calls[c]))

Fetched(c) == IF IsAsked(calls[c].at) THEN RemoteData(calls[c].p) ELSE None

GetProgramAccount(c) ==
  /\ Takes(c, "program", {"asked program"})
  /\ LET call == calls[c]
         got  == GotProgram(bank, call.p, Fetched(c))
     IN  /\ bank' = got.bank
         /\ \/ call.op = "read" /\ End(c)
            \/ /\ call.op = "write"
               /\ calls' = [calls EXCEPT ![c].at = IF got.found = "none" THEN "create" ELSE "data"]
            \/ /\ call.op = "authority"
               /\ IF got.found = "none" \/ (got.found = "coupled" /\ got.data = None) THEN End(c)
                  ELSE calls' = [calls EXCEPT ![c].copy = got.data,
                                   ![c].at = IF got.found = "alone" THEN "data" ELSE "write"]
  /\ NoteDetached({})
  /\ UNCHANGED <<has_db, serving, progress, told, begun, upsets>>

(* get_or_create_program_account: the program was nowhere, and is made,    *)
(* with a synthetic programdata unless there is one.                       *)
CreateProgram(c) ==
  /\ calls[c] # NoCall /\ calls[c].at = "create"
  /\ bank' = SetProgram(FillData(bank, calls[c].p, SyntheticData), calls[c].p)
  /\ calls' = [calls EXCEPT ![c].at = "data"]
  /\ NoteDetached({})
  /\ UNCHANGED <<has_db, serving, progress, told, begun, upsets>>

GetDataAccount(c) ==
  /\ Takes(c, "data", {"asked data"})
  /\ LET call == calls[c]
         got  == GotData(bank, call.p, Fetched(c))
         new  == [authority |-> IF call.authority = None THEN System ELSE call.authority,
                  code |-> <<>>]
     IN  /\ bank' = got.bank
         /\ \/ call.op = "read" /\ End(c)
            \/ /\ call.op = "write"
               /\ calls' = [calls EXCEPT ![c].at = "write",
                              ![c].copy = IF got.data = None THEN new ELSE got.data]
            \/ /\ call.op = "authority"
               /\ IF got.data = None THEN End(c)
                  ELSE calls' = [calls EXCEPT ![c].at = "write", ![c].copy = got.data]
  /\ NoteDetached({})
  /\ UNCHANGED <<has_db, serving, progress, told, begun, upsets>>

(* get_multiple_accounts resolves both under one lock. *)
GetBothAccounts(c) ==
  /\ calls[c].op = "clone"
  /\ Takes(c, "both", {"asked data", "asked both"})
  /\ LET call    == calls[c]
         program == GotProgram(bank, call.p, IF call.at = "asked data" THEN None ELSE Fetched(c))
         got     == GotData(program.bank, call.p, Fetched(c))
     IN  /\ bank' = got.bank
         /\ IF program.found = "none" \/ got.data = None THEN End(c)
            ELSE calls' = [calls EXCEPT ![c].at = "write", ![c].copy = got.data]
  /\ NoteDetached({})
  /\ UNCHANGED <<has_db, serving, progress, told, begun, upsets>>

-----------------------------------------------------------------------------
(* Writing programdata that was read in an earlier access *)

NewAuthority(old, given) ==
  IF old = given THEN old ELSE IF given = None THEN System ELSE given

WithoutPlaceholder(code) == IF code = Code(Noop) THEN <<>> ELSE code

(* write_program_data_account_with_offset *)
ChunkWritten(d, call) ==
  LET kept == WithoutPlaceholder(d.code)
      size == IF Len(kept) < call.chunk THEN call.chunk ELSE Len(kept)
  IN  [authority |-> NewAuthority(d.authority, call.authority),
       code |-> [k \in 1..size |-> IF k = call.chunk THEN <<call.image, k>>
                                   ELSE IF k <= Len(kept) THEN kept[k] ELSE Zero]]

(* Another call wrote the programdata since it was read: what that call    *)
(* wrote is lost.                                                          *)
Overtaken(call) == GotData(bank, call.p, None).data # call.copy

WriteChunk(c) ==
  /\ calls[c] # NoCall /\ calls[c].at = "write" /\ calls[c].op = "write"
  /\ LET call == calls[c]
         same == progress[call.p].image = call.image /\ ~Overtaken(call)
     IN  /\ bank' = SetData(bank, call.p, ChunkWritten(call.copy, call))
         /\ progress' = [progress EXCEPT ![call.p] =
              [image |-> call.image,
               written |-> {call.chunk} \cup (IF same THEN @.written ELSE {})]]
         /\ told' = [told EXCEPT ![call.p] = Untold]
  /\ calls' = [calls EXCEPT ![c].at = "recompile", ![c].copy = None]
  /\ UNCHANGED <<has_db, serving, detached, begun, upsets>>

(* write_program sets the program account again, so that LiteSVM compiles  *)
(* what was written; incomplete code is refused, and the call succeeds.    *)
FinishWrite(c) ==
  /\ calls[c] # NoCall /\ calls[c].at = "recompile"
  /\ LET call == calls[c]
         now  == progress[call.p]
     IN  /\ bank' = Recompile(bank, call.p)
         /\ told' = [told EXCEPT ![call.p] =
              IF now.image = call.image /\ now.written = 1..Size[call.image]
              THEN [code |-> call.image, authority |-> AnyCode] ELSE @]
  /\ End(c)
  /\ NoteDetached({})
  /\ UNCHANGED <<has_db, serving, progress, begun, upsets>>

(* set_program_authority: programdata, then program, as they were read.    *)
WriteAuthority(c) ==
  /\ calls[c] # NoCall /\ calls[c].at = "write" /\ calls[c].op = "authority"
  /\ LET call == calls[c]
         d    == [call.copy EXCEPT !.authority = call.authority]
     IN  /\ bank' = SetProgram(SetData(bank, call.p, d), call.p)
         /\ told' = [told EXCEPT ![call.p] =
              [code |-> IF Overtaken(call) THEN None ELSE @.code, authority |-> call.authority]]
         /\ progress' = [progress EXCEPT ![call.p] = IF Overtaken(call) THEN Unwritten ELSE @]
  /\ End(c)
  /\ NoteDetached({})
  /\ UNCHANGED <<has_db, serving, begun, upsets>>

(* clone_program_account: both in one access; it fails if LiteSVM refuses  *)
(* the program.                                                            *)
WriteClone(c) ==
  /\ calls[c] # NoCall /\ calls[c].at = "write" /\ calls[c].op = "clone"
  /\ LET call == calls[c]
         b    == SetData(bank, call.to, call.copy)
     IN  /\ bank' = SetProgram(b, call.to)
         /\ told' = [told EXCEPT ![call.to] =
              IF Accepted(b, call.to)
              THEN [code |-> Compiled(call.copy), authority |-> call.copy.authority] ELSE Untold]
         /\ progress' = [progress EXCEPT ![call.to] = Unwritten]
  /\ End(c)
  /\ NoteDetached({})
  /\ UNCHANGED <<has_db, serving, begun, upsets>>

-----------------------------------------------------------------------------
(* Loading a snapshot *)

(* A program is fetched together with its programdata. *)
FetchForSnapshot(c) ==
  /\ calls[c] # NoCall /\ calls[c].op = "load" /\ calls[c].at = "asked both"
  /\ LET s    == calls[c].snapshot
         here == Remote[s.p] # None
     IN  calls' = [calls EXCEPT ![c].at = "load",
           ![c].fetched = [program |-> IF s.program = "null" /\ here THEN "given" ELSE "absent",
                           data |-> IF "null" \in {s.program, s.data} THEN RemoteData(s.p)
                                    ELSE None],
           ![c].failed = ~here]
  /\ UNCHANGED <<has_db, serving, bank, history, begun, upsets>>

(* snapshot_load_priority: programdata before programs; what was given     *)
(* replaces what is there, what was fetched does not.                      *)
DataLoaded(b, s, fetched) ==
  LET given == IF s.data \in Image
               THEN SetData(b, s.p, [authority |-> None, code |-> Code(s.data)]) ELSE b
  IN  IF fetched.data = None THEN given ELSE FillData(given, s.p, fetched.data)

HydrateStrict(b, p) ==
  IF p \in b.programs THEN b
  ELSE IF p \in b.db_programs /\ b.db_data[p] # None
  THEN SetProgram(FillData(b, p, b.db_data[p]), p)
  ELSE SetProgram(b, p)

ProgramLoaded(b, s, fetched) ==
  IF s.program = "given" THEN SetProgram(b, s.p)
  ELSE IF fetched.program = "absent" THEN b
  ELSE IF s.strict THEN HydrateStrict(b, s.p) ELSE Hydrate(b, s.p, None)

ProgramsFirst(b, s, fetched) ==  \* mutant: without the sort by priority
  DataLoaded(ProgramLoaded(b, s, fetched), s, fetched)

Loaded(b, s, fetched) == ProgramLoaded(DataLoaded(b, s, fetched), s, fetched)

(* Strict: every account asked for is in LiteSVM, the program was accepted *)
(* and has its programdata.                                                *)
LoadedWhole(b, after, s, call) ==
  LET wanted == "given" \in {s.program, call.fetched.program} IN
  /\ ~call.failed
  /\ wanted => s.p \in after.programs /\ after.data[s.p] # None
  /\ s.program = "given" => Accepted(after, s.p)

Emptied(b) ==
  [b EXCEPT !.programs = {}, !.data = [p \in Program |-> None], !.cache = [p \in Program |-> None]]

(* A strict load that fails ends the process, with what it installed left  *)
(* in the database.                                                        *)
FinishLoad(c) ==
  /\ calls[c] # NoCall /\ calls[c].at = "load"
  /\ LET call  == calls[c]
         s     == call.snapshot
         after == Loaded(bank, s, call.fetched)
         whole == LoadedWhole(bank, after, s, call)
         alone == s.data \in Image /\ s.program # "given" /\ s.p \in bank.programs
         sure  == /\ s.strict /\ whole
                  /\ \/ s.program = "given"
                     \/ call.fetched.program = "given" /\ s.p \notin bank.programs
     IN  /\ serving' = (whole \/ ~s.strict)
         /\ bank' = IF serving' THEN after ELSE Emptied(after)
         /\ told' = [told EXCEPT ![s.p] =
              IF sure
              THEN [code |-> IF s.data \in Image THEN s.data ELSE AnyCode, authority |-> AnyCode]
              ELSE IF s.data \in Image THEN Untold ELSE @]
         /\ progress' = [progress EXCEPT ![s.p] = IF s.data \in Image THEN Unwritten ELSE @]
         /\ NoteDetached(IF alone THEN {s.p} ELSE {})
  /\ End(c)
  /\ UNCHANGED <<has_db, begun, upsets>>

-----------------------------------------------------------------------------
(* What happens meanwhile *)

Upset == serving /\ upsets < MaxUpsets /\ upsets' = upsets + 1

(* garbage_collect, with a database *)
CollectGarbage ==
  /\ Upset /\ has_db
  /\ bank' = Emptied(bank)
  /\ NoteDetached({})
  /\ UNCHANGED <<has_db, serving, calls, progress, told, begun>>

(* The process stops or crashes, and starts again on its database. *)
Restart ==
  /\ upsets < MaxUpsets /\ upsets' = upsets + 1 /\ has_db
  /\ serving' = FALSE /\ bank' = Emptied(bank)
  /\ calls' = [c \in Caller |-> NoCall]
  /\ NoteDetached({})
  /\ UNCHANGED <<has_db, progress, told, begun>>

(* Without a snapshot the server starts at once. *)
Serve ==
  /\ ~serving /\ \A c \in Caller : calls[c] = NoCall
  /\ serving' = TRUE
  /\ UNCHANGED <<has_db, bank, calls, history, begun, upsets>>

(* surfnet_setAccount of a programdata account. *)
SetDataAccount ==
  /\ Upset
  /\ \E p \in Program, i \in Deployed :
       /\ bank' = SetData(bank, p, [authority |-> System, code |-> Code(i)])
       /\ progress' = [progress EXCEPT ![p] = Unwritten]
       /\ told' = [told EXCEPT ![p] = Untold]
       /\ NoteDetached({p})
  /\ UNCHANGED <<has_db, serving, calls, begun>>

(* surfnet_resetAccount of a program purges its programdata too; that of a *)
(* programdata account leaves its program as it was compiled.              *)
ResetAccount ==
  /\ Upset
  /\ \E p \in Program :
       /\ \/ /\ ProgramHere(bank, p)
             /\ bank' = [bank EXCEPT !.programs = @ \ {p}, !.data[p] = None,
                                     !.db_programs = @ \ {p}, !.db_data[p] = None]
             /\ NoteDetached({})
          \/ /\ DataHere(bank, p)
             /\ bank' = [bank EXCEPT !.data[p] = None, !.db_data[p] = None]
             /\ NoteDetached({p})
       /\ progress' = [progress EXCEPT ![p] = Unwritten]
       /\ told' = [told EXCEPT ![p] = Untold]
  /\ UNCHANGED <<has_db, serving, calls, begun>>

(* surfnet_resetNetwork *)
ResetPrograms ==
  /\ Upset
  /\ bank' = InitialBank
  /\ progress' = [p \in Program |-> Unwritten] /\ told' = [p \in Program |-> Untold]
  /\ detached' = {}
  /\ UNCHANGED <<has_db, serving, calls, begun>>

CallProgramsNext(c) ==
  \/ WriteProgram(c) \/ SetProgramAuthority(c) \/ CloneProgram(c) \/ ReadAccount(c)
  \/ LoadSnapshot(c)
  \/ AskRemote(c) \/ RemoteFails(c)
  \/ GetProgramAccount(c) \/ CreateProgram(c) \/ GetDataAccount(c) \/ GetBothAccounts(c)
  \/ WriteChunk(c) \/ FinishWrite(c) \/ WriteAuthority(c) \/ WriteClone(c)
  \/ FetchForSnapshot(c) \/ FinishLoad(c)

ProgramsNext ==
  \/ \E c \in Caller : CallProgramsNext(c)
  \/ Serve \/ Restart \/ CollectGarbage \/ SetDataAccount \/ ResetAccount \/ ResetPrograms

ProgramsSpec == ProgramsInit /\ [][ProgramsNext]_programVars

-----------------------------------------------------------------------------
(* Properties *)

ProgramsTypeOK ==
  /\ has_db \in BOOLEAN /\ serving \in BOOLEAN
  /\ bank.programs \subseteq Program /\ bank.db_programs \subseteq Program
  /\ bank.data \in [Program -> Datas \cup {None}]
  /\ bank.db_data \in [Program -> Datas \cup {None}]
  /\ bank.cache \in [Program -> Image \cup {None}]
  /\ \A c \in Caller : calls[c].op \in {"none", "write", "authority", "clone", "read", "load"}
  /\ detached \subseteq Program

Recompiling(p) == \E c \in Caller : calls[c] # NoCall /\ calls[c].at = "recompile" /\ calls[c].p = p

(* write_program, "the program cache retains the noop placeholder": what   *)
(* LiteSVM runs for a program is what its programdata holds, if that is    *)
(* whole, however calls interleave, but for a programdata that was set or  *)
(* reset by itself.                                                        *)
RunsWhatIsStored ==
  /\ ProgramsTypeOK
  /\ \A p \in bank.programs \ detached :
       /\ bank.cache[p] # None
       /\ Recompiling(p) \/ bank.data[p] = None
          \/ Compiled(bank.data[p]) \in {None, bank.cache[p]}

(* What a transaction that calls the program runs, once its accounts are   *)
(* restored from the database.                                             *)
Runs(p) ==
  LET b == IF ProgramHere(bank, p) THEN Hydrate(bank, p, None) ELSE bank
  IN  IF p \in b.programs THEN b.cache[p] ELSE None

StoredData(p) == GotData(bank, p, None).data

(* A program that was written in all its chunks, in any order, that was    *)
(* cloned or that a strict snapshot load reported, runs; with the code it  *)
(* was given, no byte of the placeholder left behind, and the authority    *)
(* set last.  Reads, fetches, changes of authority, garbage collection and *)
(* calls for other programs change nothing of that.                        *)
ToldRuns ==
  \A p \in Program :
    LET t == told[p] IN
    /\ t.code # None =>
         /\ Runs(p) # None
         /\ t.code # AnyCode => Runs(p) = t.code
         /\ t.code \in Deployed =>
              \A k \in DOMAIN StoredData(p).code : StoredData(p).code[k] \notin NoopChunks
    /\ t.authority # AnyCode => StoredData(p).authority = t.authority
=============================================================================
