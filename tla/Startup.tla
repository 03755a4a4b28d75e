------------------------------ MODULE Startup ------------------------------
(***************************************************************************)
(* How a surfnet started from the command line becomes ready.  The CLI     *)
(* plans the work (accounts to clone, runbooks to execute), has the        *)
(* runloop seal the plan, dispatches the work and then serves the events;  *)
(* the runloop owns the status, the readiness a client polls for is        *)
(* projected from it, and when headless a watchdog ends a surfnet whose    *)
(* startup failed.                                                         *)
(*                                                                         *)
(* Commands go to the runloop through an unbounded channel, events to the  *)
(* CLI through a bounded one that nobody drains before the CLI serves.     *)
(* Log events, which are dropped when it is full, are left out.            *)
(***************************************************************************)
EXTENDS Integers, Sequences, FiniteSets

CONSTANTS
  Runbook,
  Projects,       \* what projects ask for: [clones, runbooks]
  Profiling,      \* instruction_profiling_enabled at the start
  EarlyEvents,    \* events received before CoreStarted, to be sent again
  EventCapacity,  \* of the events channel
  None

ASSUME StartupAssumption ==
  /\ IsFiniteSet(Runbook) /\ Profiling \in BOOLEAN
  /\ Projects \subseteq [clones : BOOLEAN, runbooks : SUBSET Runbook]
  /\ EarlyEvents \in Nat /\ EventCapacity \in Nat \ {0}
  /\ None \notin {"sealed", "refused", "ok", "error", "failed"}

VARIABLES
  (* The command line *)
  config,       \* [headless, deploy, clones : BOOLEAN, runbooks : SUBSET Runbook]
  cli,          \* where the main thread is
  seal,         \* the answer to its SealStartupPlan, or None
  exit,         \* how it will exit: None, "ok" or "error"
  interrupted,  \* runloop_terminator, set by the signal handler
  asked,        \* history: the exit method or the quit key sent Terminate
  replay,       \* early events not sent again yet
  watchdog,     \* "none", "watching", "terminating" or "done"
  (* The thread of the startup runbooks *)
  worker,       \* "none", "running" or "done"
  run,          \* runbook -> how far it is
  (* The channels *)
  commands, events,
  (* The runloop, its SVM and its RPC servers *)
  runloop,      \* "running", "fetching" or "stopped"
  servers,      \* "open" or "closed"
  status,       \* startup_status: [plan, tasks]
  executions,   \* runbook_executions: runbook -> "absent", "open" or "complete"
  profiling,    \* instruction_profiling_enabled
  fetched       \* history: how the clones were fetched, None, "ok" or "failed"

main == <<cli, seal, exit>>
svm == <<status, executions, profiling, fetched>>
asks == <<interrupted, asked>>
vars == <<config, main, asks, replay, watchdog, worker, run, commands, events, runloop,
          servers, svm>>

Tasks == {"remoteAccounts", "runbookExecutions"}
NoTasks == [t \in {} |-> "pending"]
Phases == {"planning", "cloningRemoteAccounts", "executingRunbooks", "ready", "failed"}

-----------------------------------------------------------------------------
(* The startup status *)

SealedPhase(tasks) ==
  IF \E t \in DOMAIN tasks : tasks[t] = "failed" THEN "failed"
  ELSE IF \A t \in DOMAIN tasks : tasks[t] = "succeeded" THEN "ready"
  ELSE IF "remoteAccounts" \in DOMAIN tasks /\ tasks["remoteAccounts"] # "succeeded"
  THEN "cloningRemoteAccounts" ELSE "executingRunbooks"

Phase(s) ==
  CASE s.plan = "unsealed" -> "planning"
    [] s.plan = "failed" -> "failed"
    [] s.plan = "sealed" -> SealedPhase(s.tasks)

Over(s) == Phase(s) \in {"ready", "failed"}

SealPlan(s, tasks) ==
  IF s.plan = "unsealed" THEN [plan |-> "sealed", tasks |-> [t \in tasks |-> "pending"]] ELSE s

FailPlanning(s) == IF s.plan = "unsealed" THEN [plan |-> "failed", tasks |-> NoTasks] ELSE s

(* A task moves only in an active sealed plan that declares it. *)
MoveTask(s, task, from, to) ==
  IF s.plan = "sealed" /\ ~Over(s) /\ task \in DOMAIN s.tasks /\ s.tasks[task] \in from
  THEN [s EXCEPT !.tasks[task] = to]
  ELSE s

StartTask(s, task) == MoveTask(s, task, {"pending"}, "running")

CompleteTask(s, task, ok) ==
  IF ok THEN MoveTask(s, task, {"running"}, "succeeded")
        ELSE MoveTask(s, task, {"pending", "running"}, "failed")

-----------------------------------------------------------------------------
(* Channels.  A send to a channel whose receiver is gone is lost. *)

Alive == cli # "exited"  \* the process, with all its threads

Send(new) == commands' = IF runloop = "stopped" THEN commands ELSE commands \o new

EventsOpen == cli \notin {"joining", "exited"}

Room == EventsOpen => Len(events) < EventCapacity

(* emit blocks until there is room. *)
Emit(event) ==
  /\ Room
  /\ events' = IF EventsOpen THEN Append(events, event) ELSE events

Event(kind, runbook) == [kind |-> kind, runbook |-> runbook]

-----------------------------------------------------------------------------
(* The main thread of the CLI *)

Configs ==
  {c \in [headless : BOOLEAN, deploy : BOOLEAN, clones : BOOLEAN, runbooks : SUBSET Runbook] :
     IF c.deploy THEN [clones |-> c.clones, runbooks |-> c.runbooks] \in Projects
     ELSE ~c.clones /\ c.runbooks = {}}

(* mutant: runbooks run outside the plan *)
PlannedClonesOnly == {t \in Tasks : t = "remoteAccounts" /\ config.clones}

Planned ==
  {t \in Tasks : IF t = "remoteAccounts" THEN config.clones ELSE config.runbooks # {}}

(* An interrupt seen before planning leaves the plan unsealed. *)
BeginPlanning ==
  /\ cli = "started"
  /\ cli' = IF interrupted THEN "dispatched" ELSE "planning"
  /\ UNCHANGED <<config, seal, exit, asks, replay, watchdog, worker, run, commands, events,
                 runloop, servers, svm>>

PlanningFails ==
  /\ cli = "planning" /\ config.deploy
  /\ Send(<<[kind |-> "failPlanning"]>>)
  /\ cli' = "dispatched"
  /\ UNCHANGED <<config, seal, exit, asks, replay, watchdog, worker, run, events,
                 runloop, servers, svm>>

SubmitPlan ==
  /\ cli = "planning"
  /\ Send(<<[kind |-> "seal", tasks |-> Planned]>>)
  /\ cli' = "sealing"
  /\ UNCHANGED <<config, seal, exit, asks, replay, watchdog, worker, run, events,
                 runloop, servers, svm>>

HearSeal ==
  /\ cli = "sealing" /\ seal # None
  /\ IF seal = "sealed" THEN cli' = "clones" /\ UNCHANGED exit
                        ELSE cli' = "exited" /\ exit' = "error"
  /\ UNCHANGED <<config, seal, asks, replay, watchdog, worker, run, commands, events,
                 runloop, servers, svm>>

(* The runloop is gone, or busy for five seconds. *)
SealUnreachable ==
  /\ cli = "sealing" /\ seal = None
  /\ cli' = "exited" /\ exit' = "error"
  /\ UNCHANGED <<config, seal, asks, replay, watchdog, worker, run, commands, events,
                 runloop, servers, svm>>

(* mutant: dispatched before it is started *)
FetchFirst == <<[kind |-> "fetch"], [kind |-> "start", task |-> "remoteAccounts"]>>

(* A task is started before its work is dispatched. *)
FetchCommands == <<[kind |-> "start", task |-> "remoteAccounts"], [kind |-> "fetch"]>>

DispatchClones ==
  /\ cli = "clones"
  /\ Send(IF config.clones THEN FetchCommands ELSE <<>>)
  /\ cli' = "runbooks"
  /\ UNCHANGED <<config, seal, exit, asks, replay, watchdog, worker, run, events,
                 runloop, servers, svm>>

RunbooksStarted == [kind |-> "start", task |-> "runbookExecutions"]
RunbooksCompleted(ok) == [kind |-> "complete", task |-> "runbookExecutions", ok |-> ok]

SilentSpawnFailure == <<>>  \* mutant: the failure is only logged

(* The commands that follow when the thread of the runbooks cannot be made. *)
SpawnFailure == <<RunbooksCompleted(FALSE)>>

DispatchRunbooks ==
  /\ cli = "runbooks"
  /\ cli' = "dispatched"
  /\ \/ config.runbooks = {} /\ UNCHANGED <<commands, worker>>
     \/ config.runbooks # {} /\ Send(<<RunbooksStarted>>) /\ worker' = "running"
     \/ config.runbooks # {} /\ Send(<<RunbooksStarted>> \o SpawnFailure) /\ UNCHANGED worker
  /\ UNCHANGED <<config, seal, exit, asks, replay, watchdog, run, events,
                 runloop, servers, svm>>

SpawnWatchdog ==
  /\ cli = "dispatched"
  /\ cli' = "serving"
  /\ watchdog' = IF config.headless THEN "watching" ELSE "none"
  /\ UNCHANGED <<config, seal, exit, asks, replay, worker, run, commands, events,
                 runloop, servers, svm>>

SpawnWatchdogFails ==
  /\ cli = "dispatched" /\ config.headless
  /\ cli' = "exited" /\ exit' = "error"
  /\ UNCHANGED <<config, seal, asks, replay, watchdog, worker, run, commands, events,
                 runloop, servers, svm>>

AlwaysOk(kind) == "ok"  \* mutant: log_events breaks on Aborted

(* How the event loop leaves, if it does: log_events, when headless,       *)
(* returns the error it is aborted with; the TUI only draws, and goes on.  *)
LeavesOn(kind) == kind = "shutdown" \/ (kind = "aborted" /\ config.headless)

ExitOn(kind) == IF kind = "aborted" THEN "error" ELSE "ok"

ServeEvent ==
  /\ cli = "serving" /\ events # <<>>
  /\ \/ /\ Head(events).kind \in {"started", "completed"}
        /\ Send(<<[kind |-> Head(events).kind, runbook |-> Head(events).runbook]>>)
        /\ events' = Tail(events)
        /\ UNCHANGED <<cli, exit>>
     \/ /\ LeavesOn(Head(events).kind)
        /\ exit' = ExitOn(Head(events).kind) /\ cli' = "joining" /\ events' = <<>>
        /\ UNCHANGED commands
     \/ /\ Head(events).kind \in {"early", "aborted"} /\ ~LeavesOn(Head(events).kind)
        /\ events' = Tail(events)
        /\ UNCHANGED <<commands, cli, exit>>
  /\ UNCHANGED <<config, seal, asks, replay, watchdog, worker, run,
                 runloop, servers, svm>>

ServeInterrupt ==
  /\ cli = "serving" /\ interrupted
  /\ cli' = "joining" /\ exit' = "ok" /\ events' = <<>>
  /\ UNCHANGED <<config, seal, asks, replay, watchdog, worker, run, commands,
                 runloop, servers, svm>>

(* The CLI waits for the thread of the runloop before it exits. *)
Join ==
  /\ cli = "joining" /\ runloop = "stopped"
  /\ cli' = "exited"
  /\ UNCHANGED <<config, seal, exit, asks, replay, watchdog, worker, run, commands, events,
                 runloop, servers, svm>>

Cli ==
  \/ BeginPlanning \/ PlanningFails \/ SubmitPlan \/ HearSeal \/ SealUnreachable
  \/ DispatchClones \/ DispatchRunbooks \/ SpawnWatchdog \/ SpawnWatchdogFails
  \/ ServeEvent \/ ServeInterrupt \/ Join

-----------------------------------------------------------------------------
(* The other threads of the process *)

(* replay_early_events blocks in a thread of its own. *)
Replay ==
  /\ Alive /\ replay > 0
  /\ Emit(Event("early", None))
  /\ replay' = replay - 1
  /\ UNCHANGED <<config, main, asks, watchdog, worker, run, commands, runloop, servers,
                 svm>>

(* The watchdog looks at the status it has before it waits for a change. *)
Watch ==
  /\ Alive /\ watchdog = "watching"
  /\ IF Phase(status) = "failed"
     THEN Emit(Event("aborted", None)) /\ watchdog' = "terminating"
     ELSE /\ Phase(status) = "ready" \/ runloop = "stopped"
          /\ watchdog' = "done" /\ UNCHANGED events
  /\ UNCHANGED <<config, main, asks, replay, worker, run, commands, runloop, servers,
                 svm>>

WatchdogTerminates ==
  /\ Alive /\ watchdog = "terminating"
  /\ Send(<<[kind |-> "terminate"]>>)
  /\ watchdog' = "done"
  /\ UNCHANGED <<config, main, asks, replay, worker, run, events, runloop, servers,
                 svm>>

NoPanic == \A r \in config.runbooks : run[r] # "panicked"

(* join_all polls the runbooks on one thread. *)
BeginRunbook(r) ==
  /\ Alive /\ worker = "running" /\ NoPanic
  /\ run[r] = "idle"
  /\ Emit(Event("started", r))
  /\ run' = [run EXCEPT ![r] = "running"]
  /\ UNCHANGED <<config, main, asks, replay, watchdog, worker, commands, runloop, servers,
                 svm>>

EndRunbook(r, result) ==
  /\ Alive /\ worker = "running" /\ NoPanic
  /\ run[r] = "running"
  /\ Emit(Event("completed", r))
  /\ run' = [run EXCEPT ![r] = result]
  /\ UNCHANGED <<config, main, asks, replay, watchdog, worker, commands, runloop, servers,
                 svm>>

(* A runbook that cannot be loaded, or has nothing to do, is not announced. *)
(* One whose snapshots cannot be compared or whose prompt is declined is   *)
(* not executed, yet reported ok.                                          *)
SkipRunbook(r, result) ==
  /\ Alive /\ worker = "running" /\ NoPanic
  /\ run[r] = "idle"
  /\ run' = [run EXCEPT ![r] = result]
  /\ UNCHANGED <<config, main, asks, replay, watchdog, worker, commands, events, runloop,
                 servers, svm>>

(* A panic unwinds out of join_all and drops the other runbooks. *)
RunbookPanics(r) ==
  /\ Alive /\ worker = "running" /\ NoPanic
  /\ run[r] \in {"idle", "running"}
  /\ run' = [run EXCEPT ![r] = "panicked"]
  /\ UNCHANGED <<config, main, asks, replay, watchdog, worker, commands, events, runloop,
                 servers, svm>>

ReportRunbooks ==
  /\ Alive /\ worker = "running"
  /\ NoPanic => \A r \in config.runbooks : run[r] \in {"ok", "failed"}
  /\ Send(<<RunbooksCompleted(\A r \in config.runbooks : run[r] = "ok")>>)
  /\ worker' = "done"
  /\ UNCHANGED <<config, main, asks, replay, watchdog, run, events, runloop, servers,
                 svm>>

Worker ==
  \/ \E r \in config.runbooks :
       \/ BeginRunbook(r) \/ RunbookPanics(r)
       \/ \E result \in {"ok", "failed"} : EndRunbook(r, result) \/ SkipRunbook(r, result)
  \/ ReportRunbooks

-----------------------------------------------------------------------------
(* The runloop *)

Taking(kind) ==
  /\ Alive /\ runloop = "running"
  /\ commands # <<>> /\ Head(commands).kind = kind
  /\ commands' = Tail(commands)

TakeSeal ==
  /\ Taking("seal")
  /\ status' = SealPlan(status, Head(commands).tasks)
  /\ seal' = IF status.plan = "unsealed" THEN "sealed" ELSE "refused"
  /\ UNCHANGED <<config, cli, exit, asks, replay, watchdog, worker, run, events, runloop,
                 servers, executions, profiling, fetched>>

TakeFailPlanning ==
  /\ Taking("failPlanning")
  /\ status' = FailPlanning(status)
  /\ UNCHANGED <<config, main, asks, replay, watchdog, worker, run, events, runloop,
                 servers, executions, profiling, fetched>>

TakeStart ==
  /\ Taking("start")
  /\ status' = StartTask(status, Head(commands).task)
  /\ UNCHANGED <<config, main, asks, replay, watchdog, worker, run, events, runloop,
                 servers, executions, profiling, fetched>>

TakeComplete ==
  /\ Taking("complete")
  /\ status' = CompleteTask(status, Head(commands).task, Head(commands).ok)
  /\ UNCHANGED <<config, main, asks, replay, watchdog, worker, run, events, runloop,
                 servers, executions, profiling, fetched>>

(* The fetch is awaited: no other command is taken meanwhile. *)
TakeFetch ==
  /\ Taking("fetch")
  /\ runloop' = "fetching"
  /\ UNCHANGED <<config, main, asks, replay, watchdog, worker, run, events, servers,
                 svm>>

FetchEnds(result) ==
  /\ Alive /\ runloop = "fetching"
  /\ runloop' = "running" /\ fetched' = result
  /\ status' = CompleteTask(status, "remoteAccounts", result = "ok")
  /\ UNCHANGED <<config, main, asks, replay, watchdog, worker, run, commands, events,
                 servers, executions, profiling>>

TakeStarted ==
  /\ Taking("started")
  /\ executions' = [executions EXCEPT ![Head(commands).runbook] = "open"]
  /\ profiling' = FALSE
  /\ UNCHANGED <<config, main, asks, replay, watchdog, worker, run, events, runloop,
                 servers, status, fetched>>

NoneOpen(execs) == \A r \in Runbook : execs[r] # "open"

Marked(r) == [executions EXCEPT ![r] = IF @ = "open" THEN "complete" ELSE @]

(* mutant: looks for open executions before it completes this one *)
ProfilesAgainLate(execs) == profiling \/ (NoneOpen(executions) /\ Profiling)

ProfilesAgain(execs) == profiling \/ (NoneOpen(execs) /\ Profiling)

TakeCompleted ==
  /\ Taking("completed")
  /\ executions' = Marked(Head(commands).runbook)
  /\ profiling' = ProfilesAgain(Marked(Head(commands).runbook))
  /\ UNCHANGED <<config, main, asks, replay, watchdog, worker, run, events, runloop,
                 servers, status, fetched>>

(* The channel goes with its receiver, and an answer nobody gave with it. *)
TakeTerminate ==
  /\ Alive /\ runloop = "running"
  /\ commands # <<>> /\ Head(commands).kind = "terminate"
  /\ commands' = <<>> /\ runloop' = "stopped"
  /\ UNCHANGED <<config, main, asks, replay, watchdog, worker, run, events, servers,
                 svm>>

Runloop ==
  \/ TakeSeal \/ TakeFailPlanning \/ TakeStart \/ TakeComplete
  \/ TakeFetch \/ \E result \in {"ok", "failed"} : FetchEnds(result)
  \/ TakeStarted \/ TakeCompleted \/ TakeTerminate

(* A server that was closed announces the shutdown. *)
CloseServers ==
  /\ Alive /\ runloop = "stopped" /\ servers = "open"
  /\ Emit(Event("shutdown", None))
  /\ servers' = "closed"
  /\ UNCHANGED <<config, main, asks, replay, watchdog, worker, run, commands, runloop,
                 svm>>

-----------------------------------------------------------------------------
(* What happens to the process *)

Interrupt ==
  /\ Alive /\ ~interrupted
  /\ interrupted' = TRUE
  /\ Send(<<[kind |-> "terminate"]>>)
  /\ UNCHANGED <<config, main, asked, replay, watchdog, worker, run, events, runloop, servers,
                 svm>>

(* The exit method of the admin RPC, which surfpool stop calls, and the    *)
(* quit key of the TUI send Terminate and leave runloop_terminator alone;  *)
(* a second exit call is left out, as the first one stops the runloop.     *)
AdminExit ==
  /\ Alive /\ servers = "open" /\ ~asked
  /\ asked' = TRUE
  /\ Send(<<[kind |-> "terminate"]>>)
  /\ UNCHANGED <<config, main, interrupted, replay, watchdog, worker, run, events, runloop,
                 servers, svm>>

Quit ==
  /\ cli = "serving" /\ ~config.headless
  /\ asked' = TRUE
  /\ Send(<<[kind |-> "terminate"]>>)
  /\ cli' = "joining" /\ exit' = "ok" /\ events' = <<>>
  /\ UNCHANGED <<config, seal, interrupted, replay, watchdog, worker, run, runloop, servers,
                 svm>>

(* surfnet_resetNetwork forgets the runbooks, not the startup status. *)
ResetNetwork ==
  /\ Alive /\ servers = "open"
  /\ executions' = [r \in Runbook |-> "absent"]
  /\ UNCHANGED <<config, main, asks, replay, watchdog, worker, run, commands, events,
                 runloop, servers, status, profiling, fetched>>

CompletedWhenReady == {"ready"}  \* mutant: a failed startup stays incomplete

(* What get_surfnet_info answers: with_startup adds to the executions an    *)
(* entry of its own, incomplete until startup is over.                     *)
CompletedPhases == {"ready", "failed"}

EveryEntryComplete == NoneOpen(executions) /\ Phase(status) \in CompletedPhases

Init ==
  /\ config \in Configs
  /\ cli = "started" /\ seal = None /\ exit = None
  /\ interrupted = FALSE /\ asked = FALSE /\ replay = EarlyEvents /\ watchdog = "none"
  /\ worker = "none" /\ run = [r \in Runbook |-> "idle"]
  /\ commands = <<>> /\ events = <<>>
  /\ runloop = "running" /\ servers = "open"
  /\ status = [plan |-> "unsealed", tasks |-> NoTasks]
  /\ executions = [r \in Runbook |-> "absent"]
  /\ profiling = Profiling /\ fetched = None

Next ==
  \/ Cli \/ Replay \/ Watch \/ WatchdogTerminates \/ Worker \/ Runloop \/ CloseServers
  \/ Interrupt \/ AdminExit \/ Quit \/ ResetNetwork

Spec == Init /\ [][Next]_vars

(* Every thread is scheduled; a fetch and a runbook end.                   *)
Fairness ==
  /\ WF_vars(Cli) /\ WF_vars(Replay) /\ WF_vars(Watch) /\ WF_vars(WatchdogTerminates)
  /\ WF_vars(Worker) /\ WF_vars(Runloop) /\ WF_vars(CloseServers)

FairSpec == Spec /\ Fairness

-----------------------------------------------------------------------------
TaskStates == {"pending", "running", "succeeded", "failed"}

Statuses ==
  [plan : {"unsealed", "failed", "sealed"},
   tasks : UNION {[T -> TaskStates] : T \in SUBSET Tasks}]

Commands ==
  [kind : {"seal"}, tasks : SUBSET Tasks] \cup [kind : {"failPlanning", "fetch", "terminate"}]
    \cup [kind : {"start"}, task : Tasks] \cup [kind : {"complete"}, task : Tasks, ok : BOOLEAN]
    \cup [kind : {"started", "completed"}, runbook : Runbook]

Events ==
  [kind : {"started", "completed"}, runbook : Runbook]
    \cup [kind : {"early", "aborted", "shutdown"}, runbook : {None}]

(* Every variable has its type, and the events channel its bound. *)
TypeOK ==
  /\ config \in Configs
  /\ cli \in {"started", "planning", "sealing", "clones", "runbooks", "dispatched", "serving",
              "joining", "exited"}
  /\ seal \in {None, "sealed", "refused"} /\ exit \in {None, "ok", "error"}
  /\ interrupted \in BOOLEAN /\ asked \in BOOLEAN /\ replay \in 0..EarlyEvents
  /\ watchdog \in {"none", "watching", "terminating", "done"}
  /\ worker \in {"none", "running", "done"}
  /\ run \in [Runbook -> {"idle", "running", "ok", "failed", "panicked"}]
  /\ commands \in Seq(Commands)
  /\ events \in Seq(Events) /\ Len(events) <= EventCapacity
  /\ runloop \in {"running", "fetching", "stopped"} /\ servers \in {"open", "closed"}
  /\ status \in Statuses
  /\ executions \in [Runbook -> {"absent", "open", "complete"}]
  /\ profiling \in BOOLEAN /\ fetched \in {None, "ok", "failed"}

WorkDone ==
  /\ config.clones => fetched = "ok"
  /\ \A r \in config.runbooks : run[r] = "ok"

(* A surfnet that reports ready has fetched every clone, and every runbook *)
(* it was started with has ended and reported ok, whatever the order of    *)
(* their commands.                                                         *)
ReadyMeansWorkDone == Phase(status) = "ready" => WorkDone

(* The runloop refuses a startup command only when startup is over: every  *)
(* task is started before its end is reported, and sealed before both.     *)
StartupCommandTaken ==
  \/ /\ commands # <<>> /\ Head(commands).kind \in {"seal", "failPlanning", "start", "complete"}
     /\ commands' = Tail(commands)
  \/ runloop = "fetching" /\ runloop' = "running"

NothingRefused == [][StartupCommandTaken => status' # status \/ Over(status)]_vars

(* A startup that is over stays as it is: what the watchdog saw is final.  *)
OverIsFinal == [][Over(status) => status' = status]_vars

(* A surfnet that exits without an error was asked to stop, by a signal,   *)
(* the exit method or the quit key: of itself it stops only when a         *)
(* headless startup failed, and then it exits with an error.               *)
ExitOkMeansAsked == exit = "ok" => interrupted \/ asked

(* Startup becomes ready, or fails where a terminal shows it, or the       *)
(* process ends; in particular a failed headless surfnet ends.             *)
EveryStartupEnds ==
  Alive ~> \/ Phase(status) = "ready"
           \/ Phase(status) = "failed" /\ ~config.headless
           \/ ~Alive

(* A client that waits as Anchor does, until every entry is complete, is   *)
(* not parked for ever by a surfnet that stays up.  (A runbook that panics *)
(* after it was announced leaves its entry open: nobody completes it.)     *)
NobodyParked == <>[](EveryEntryComplete \/ ~NoPanic \/ servers = "closed" \/ ~Alive)

(* Instruction profiling, off while runbooks run, is back on after them.   *)
ProfilingComesBack ==
  worker = "done" ~> profiling = Profiling \/ ~NoPanic \/ runloop = "stopped" \/ ~Alive
=============================================================================
