------------------------------ MODULE Service ------------------------------
(***************************************************************************)
(* The service around the engine: the supervisor (`premptictl daemon`,     *)
(* daemon/mod.rs) that registers the hooks, runs Falco with the plugin in  *)
(* it and takes the hooks away again; the service manager that runs the    *)
(* supervisor; and the commands of premptictl that stop, start and         *)
(* reconfigure it (main.rs).  `mode` stands for `default-action` and `roe  *)
(* set` too, which take the same steps around another value.               *)
(*                                                                         *)
(* A registration or removal is one step here that may fail; HookRegistry  *)
(* has the steps it is made of.                                            *)
(***************************************************************************)
EXTENDS Integers, FiniteSets

CONSTANTS Installs,     \* platforms, and whether Codex is enabled there
          Modes,        \* values of `mode` in the plugin's configuration
          Daemons,      \* supervisors that can exist at once
          Clis,         \* numbers of premptictl processes that can exist at once
          MaxCommands,  \* bound: commands given
          MaxFaults     \* bound: operations that fail and processes that die

ASSUME ConstantsAssumption ==
  /\ Installs \subseteq {"systemd", "launchd", "windows"} \X BOOLEAN
  /\ Modes # {} /\ "unread" \notin Modes /\ "torn" \notin Modes
  /\ MaxCommands \in Nat /\ MaxFaults \in Nat
  /\ Daemons # {} /\ "absent" \notin Daemons

VARIABLES platform,  \* where this is installed
          marker,    \* Codex is enabled
          unit,      \* the manager's state of the service
          daemon,    \* the supervisors
          engine,    \* their Falco processes
          sock,      \* whose socket is at the supervisor's path, or "absent"
          hooks,     \* agents whose hook is registered
          left,      \* hooks that a failure left with nobody to take them away
          cfg,       \* the mode in the configuration, "torn" if writing it failed
          excused,   \* a command failed to apply its change or said so, or could not stop
          cli,       \* the commands
          budget     \* commands and faults left

vars == <<platform, marker, unit, daemon, engine, sock, hooks, left, cfg, excused, cli, budget>>

Main == CHOOSE d \in Daemons : TRUE
HasManager == platform # "windows"

Configs == Modes \cup {"torn"}
Fault == budget.faults > 0 /\ budget' = [budget EXCEPT !.faults = @ - 1]
NoFault == UNCHANGED budget

-----------------------------------------------------------------------------
(* The engine.                                                             *)

NoEngine == [st |-> "none", mode |-> "unread", term |-> FALSE, code |-> 0]
Alive(e) == e.st \in {"loading", "binding", "serving"}
Serving == \E d \in Daemons : engine[d].st = "serving"
DeadEngine(e, code) == [e EXCEPT !.st = "exited", !.term = FALSE, !.code = code]

\* The plugin's configuration is read once, when Falco loads it.  A torn one may be
\* refused, or be a configuration of its own.
EngineReads(d) ==
  /\ engine[d].st = "loading"
  /\ \/ engine' = [engine EXCEPT ![d].st = "binding", ![d].mode = cfg]
     \/ cfg = "torn" /\ engine' = [engine EXCEPT ![d] = DeadEngine(@, 1)]
  /\ excused' = FALSE
  /\ UNCHANGED <<platform, marker, unit, daemon, sock, hooks, left, cfg, cli, budget>>

\* A second plugin on the same broker socket gives up, and Falco with it.
EngineBinds(d) ==
  /\ engine[d].st = "binding"
  /\ engine' = [engine EXCEPT ![d] = IF Serving THEN DeadEngine(@, 1) ELSE [@ EXCEPT !.st = "serving"]]
  /\ UNCHANGED <<platform, marker, unit, daemon, sock, hooks, left, cfg, excused, cli, budget>>

\* It obeys SIGTERM, in its own time or not at all; or exits by itself.
EngineExits(d) ==
  /\ Alive(engine[d])
  /\ \/ engine[d].term /\ NoFault /\ engine' = [engine EXCEPT ![d] = DeadEngine(@, 0)]
     \/ Fault /\ \E code \in {0, 1} : engine' = [engine EXCEPT ![d] = DeadEngine(@, code)]
  /\ UNCHANGED <<platform, marker, unit, daemon, sock, hooks, left, cfg, excused, cli>>

-----------------------------------------------------------------------------
(* The supervisor.                                                         *)

Off == [pc |-> "off", managed |-> FALSE, sig |-> FALSE, code |-> 0]
Launched(d) == daemon[d].pc = "off" /\ ~Alive(engine[d])
Launch(d) == /\ daemon' = [daemon EXCEPT ![d] = [Off EXCEPT !.pc = "preflight"]]
             /\ engine' = [engine EXCEPT ![d] = NoEngine]

Goes(d, pc) == daemon' = [daemon EXCEPT ![d].pc = pc]

\* A command that waits for supervisor d has waited long enough.
Left(d) == cli' = [c \in Clis |-> [cli[c] EXCEPT !.live = @ \ {d}]]
Exits(d, code) == daemon' = [daemon EXCEPT ![d] = [Off EXCEPT !.code = code]] /\ Left(d)

\* What is hooked then, by a restart or by itself, stays.
Fails(d) == Exits(d, 1) /\ left' = hooks

\* Bound but not yet answering until the control thread runs; closed again as soon
\* as the main loop is left.
Listening(d) == daemon[d].pc \in {"hook", "codex", "spawn", "run"}
Answers == sock # "absent" /\ daemon[sock].pc = "run"
HasLivePeer == sock # "absent" /\ Listening(sock)

\* The binary, the configuration and the logs are there, and no other supervisor is.
Preflight(d) ==
  /\ daemon[d].pc = "preflight"
  /\ \/ NoFault /\ HasLivePeer /\ Exits(d, 1) /\ UNCHANGED left
     \/ NoFault /\ ~HasLivePeer /\ Goes(d, "unlink") /\ UNCHANGED <<left, cli>>
     \/ Fault /\ Fails(d)
  /\ UNCHANGED <<platform, marker, unit, engine, sock, hooks, cfg, excused>>

Unlink(d) ==
  /\ daemon[d].pc = "unlink"
  /\ sock' = "absent" /\ Goes(d, "bind")
  /\ UNCHANGED <<platform, marker, unit, engine, hooks, left, cfg, excused, cli, budget>>

Bind(d) ==
  /\ daemon[d].pc = "bind"
  /\ \/ NoFault /\ sock = "absent" /\ sock' = d /\ Goes(d, "hook") /\ UNCHANGED <<left, cli>>
     \/ (Fault \/ (NoFault /\ sock # "absent")) /\ Fails(d) /\ UNCHANGED sock
  /\ UNCHANGED <<platform, marker, unit, engine, hooks, cfg, excused>>

Adds(a) == hooks' = hooks \cup {a} /\ left' = left \ {a}
Removes(a) == hooks' = hooks \ {a} /\ left' = left \ {a}

\* Without Claude's hook there is no service ...
AddHook(d) ==
  /\ daemon[d].pc = "hook"
  /\ \/ NoFault /\ Adds("claude") /\ Goes(d, "codex") /\ UNCHANGED <<sock, cli>>
     \/ Fault /\ Fails(d) /\ sock' = "absent" /\ UNCHANGED hooks
  /\ UNCHANGED <<platform, marker, unit, engine, cfg, excused>>

\* ... but there is without Codex's.  Then come the signal handlers.
AddCodexHook(d) ==
  /\ daemon[d].pc = "codex"
  /\ daemon' = [daemon EXCEPT ![d].pc = "spawn", ![d].managed = marker, ![d].sig = FALSE]
  /\ \/ marker /\ NoFault /\ Adds("codex")
     \/ marker /\ Fault /\ UNCHANGED <<hooks, left>>
     \/ ~marker /\ NoFault /\ UNCHANGED <<hooks, left>>
  /\ UNCHANGED <<platform, marker, unit, engine, sock, cfg, excused, cli>>

Managed(d) == {"claude"} \cup (IF daemon[d].managed THEN {"codex"} ELSE {})

SpawnSucceeds(d) ==
  /\ NoFault /\ Goes(d, "run")
  /\ engine' = [engine EXCEPT ![d] = [NoEngine EXCEPT !.st = "loading"]]
  /\ UNCHANGED <<sock, hooks, left, cli>>

\* Mutated form: the error is returned at once.
SpawnFailsAtOnce(d) ==
  /\ Fault /\ Exits(d, 1) /\ sock' = "absent"
  /\ UNCHANGED <<engine, hooks, left>>

\* A removal that fails too is ignored.
SpawnFails(d) ==
  /\ Fault /\ Exits(d, 1) /\ sock' = "absent"
  /\ \E gone \in SUBSET Managed(d) : hooks' = hooks \ gone
  /\ left' = (left \cup Managed(d)) \cap hooks'
  /\ UNCHANGED engine

\* A thread of the supervisor cannot be started, the control listener or another: it
\* ends with hooks and socket in place, and under a manager its engine goes with it.
StartFails(d) ==
  /\ Fault /\ Fails(d)
  /\ \E e \in {[NoEngine EXCEPT !.st = "loading"]} :
       engine' = [engine EXCEPT ![d] = IF HasManager THEN DeadEngine(e, 1) ELSE e]
  /\ UNCHANGED <<sock, hooks>>

Spawn(d) ==
  /\ daemon[d].pc = "spawn"
  /\ SpawnSucceeds(d) \/ SpawnFails(d) \/ StartFails(d)
  /\ UNCHANGED <<platform, marker, unit, cfg, excused>>

\* Mutated form: the exit of a child that is not reaped goes unnoticed.
NoticesByPid(d) ==
  /\ daemon[d].pc = "run" /\ engine[d].st = "none"
  /\ UNCHANGED vars

\* try_wait, every half second.
NoticesExit(d) ==
  /\ daemon[d].pc = "run" /\ engine[d].st = "exited"
  /\ daemon' = [daemon EXCEPT ![d].pc = "unhook", ![d].code = engine[d].code]
  /\ UNCHANGED <<platform, marker, unit, engine, sock, hooks, left, cfg, excused, cli, budget>>

\* A signal or a STOP.  The request to the engine can fail, and the code goes on.
BeginsStop(d) ==
  /\ daemon[d].pc = "run" /\ daemon[d].sig
  /\ \/ /\ NoFault /\ Goes(d, "wait")
        /\ IF engine[d].st = "exited" THEN UNCHANGED engine
           ELSE engine' = [engine EXCEPT ![d].term = TRUE]
     \/ Fault /\ daemon' = [daemon EXCEPT ![d].pc = "join", ![d].code = 1] /\ UNCHANGED engine
  /\ UNCHANGED <<platform, marker, unit, sock, hooks, left, cfg, excused, cli>>

\* graceful_stop: what has not exited by the timeout is killed.
GracefulStop(d) ==
  /\ daemon[d].pc = "wait"
  /\ engine' = [engine EXCEPT ![d] = IF @.st = "exited" THEN @ ELSE DeadEngine(@, 1)]
  /\ daemon' = [daemon EXCEPT ![d].pc = "unhook", ![d].code = engine'[d].code]
  /\ UNCHANGED <<platform, marker, unit, sock, hooks, left, cfg, excused, cli, budget>>

\* The drains end when the engine closes its ends of the pipes, which the other ways
\* out of the main loop have waited for already.
Joins(d) ==
  /\ daemon[d].pc = "join" /\ ~Alive(engine[d]) /\ Goes(d, "unhook")
  /\ UNCHANGED <<platform, marker, unit, engine, sock, hooks, left, cfg, excused, cli, budget>>

RemoveHook(d) ==
  /\ daemon[d].pc = "unhook" /\ Goes(d, "uncodex")
  /\ \/ NoFault /\ Removes("claude")
     \/ Fault /\ left' = left \cup (hooks \cap {"claude"}) /\ UNCHANGED hooks
  /\ UNCHANGED <<platform, marker, unit, engine, sock, cfg, excused, cli>>

\* The socket goes whosever it is by now.
RemoveCodexHook(d) ==
  /\ daemon[d].pc = "uncodex" /\ sock' = "absent" /\ Exits(d, daemon[d].code)
  /\ engine' = [engine EXCEPT ![d] = IF Alive(@) THEN @ ELSE NoEngine]
  /\ \/ daemon[d].managed /\ NoFault /\ Removes("codex")
     \/ daemon[d].managed /\ Fault /\ left' = left \cup (hooks \cap {"codex"}) /\ UNCHANGED hooks
     \/ ~daemon[d].managed /\ NoFault /\ UNCHANGED <<hooks, left>>
  /\ UNCHANGED <<platform, marker, unit, cfg, excused>>

\* The hooks a supervisor has registered or is going to, and will take away.
Charge(s) ==
  CASE s.pc \in {"preflight", "unlink", "bind", "hook", "codex"} -> {"claude", "codex"}
    [] s.pc \in {"spawn", "run", "wait", "join", "unhook"} ->
         {"claude"} \cup (IF s.managed THEN {"codex"} ELSE {})
    [] s.pc = "uncodex" -> IF s.managed THEN {"codex"} ELSE {}
    [] OTHER -> {}

\* Before its handlers are installed a supervisor dies of SIGTERM as it stands.
DiesOfTerm(d) == daemon[d].pc \in {"preflight", "unlink", "bind", "hook", "codex"}

DaemonSteps(d) ==
  \/ Preflight(d) \/ Unlink(d) \/ Bind(d) \/ AddHook(d) \/ AddCodexHook(d) \/ Spawn(d)
  \/ NoticesExit(d) \/ BeginsStop(d) \/ GracefulStop(d) \/ Joins(d)
  \/ RemoveHook(d) \/ RemoveCodexHook(d)

\* External: the process is killed.  Under a manager its engine goes with it.
DaemonKilled(d) ==
  /\ daemon[d].pc # "off" /\ Fault /\ Fails(d)
  /\ engine' = IF HasManager /\ Alive(engine[d]) THEN [engine EXCEPT ![d] = DeadEngine(@, 1)] ELSE engine
  /\ UNCHANGED <<platform, marker, unit, sock, hooks, cfg, excused>>

-----------------------------------------------------------------------------
(* The service manager: a unit with Restart=on-failure, or a job that is   *)
(* kept alive unless it exits successfully.                                *)

SeesExit ==
  /\ HasManager /\ unit \in {"active", "stopping"} /\ daemon[Main].pc = "off"
  /\ unit' = IF unit = "active" /\ daemon[Main].code # 0 THEN "waiting"
             ELSE IF unit = "active" /\ platform = "launchd" THEN "loaded" ELSE "inactive"
  /\ daemon' = [daemon EXCEPT ![Main] = Off] /\ engine' = [engine EXCEPT ![Main] = NoEngine]
  /\ UNCHANGED <<platform, marker, sock, hooks, left, cfg, excused, cli, budget>>

Restarts ==
  /\ unit = "waiting" /\ Launched(Main)
  /\ unit' = "active" /\ Launch(Main)
  /\ UNCHANGED <<platform, marker, sock, hooks, left, cfg, excused, cli, budget>>

\* SIGTERM to the supervisor, and under systemd to all of its control group.
ManagerStops ==
  /\ unit' = IF unit \in {"waiting", "loaded"} THEN "inactive"
             ELSE IF unit = "active" THEN "stopping" ELSE unit
  /\ IF unit # "active" \/ daemon[Main].pc = "off" THEN UNCHANGED <<daemon, engine, left>>
     ELSE /\ IF DiesOfTerm(Main) THEN daemon' = [daemon EXCEPT ![Main] = Off] /\ left' = hooks
             ELSE daemon' = [daemon EXCEPT ![Main].sig = TRUE] /\ UNCHANGED left
          /\ engine' = IF platform = "systemd" /\ Alive(engine[Main])
                       THEN [engine EXCEPT ![Main].term = TRUE] ELSE engine

-----------------------------------------------------------------------------
(* The commands.                                                           *)

Idle == [pc |-> "idle", op |-> "none", mode |-> "unread", run |-> FALSE, delivered |-> FALSE,
         restore |-> {}, live |-> {}]
Ops == {"mode", "restart", "start", "stop"}

CliGoes(c, pc) == cli' = [cli EXCEPT ![c].pc = pc]
CliEnds(c) == cli' = [cli EXCEPT ![c] = Idle]

\* `systemctl is-active`; `launchctl list`; a Falco of this install runs.
IsServiceRunning ==
  CASE platform = "systemd" -> unit = "active"
    [] platform = "launchd" -> unit # "inactive"
    [] OTHER -> \E d \in Daemons : Alive(engine[d])

\* A query that fails finds nothing.
Finds(running) ==
  \/ NoFault /\ (running <=> IsServiceRunning)
  \/ Fault /\ IsServiceRunning /\ ~running

FirstPc(op) ==
  CASE op \in {"mode", "restart"} -> "snapshot" [] op = "start" -> "start" [] OTHER -> "stop"

Command(c, op, mode) ==
  /\ cli[c].pc = "idle" /\ budget.commands > 0
  /\ \A x \in Clis : x < c => cli[x].pc # "idle"
  /\ budget' = [budget EXCEPT !.commands = @ - 1]
  /\ cli' = [cli EXCEPT ![c] = [Idle EXCEPT !.op = op, !.mode = mode, !.pc = FirstPc(op)]]
  /\ UNCHANGED <<platform, marker, unit, daemon, engine, sock, hooks, left, cfg, excused>>

\* What a restart is to put back: Claude's hook if it is there now, Codex's by the marker.
Looks(c, pc, running) ==
  cli' = [cli EXCEPT ![c].pc = pc, ![c].run = running,
                     ![c].restore = (hooks \cap {"claude"}) \cup (IF marker THEN {"codex"} ELSE {})]

\* `mode` reads the configuration first, which may have no mode any more, and looks
\* whether the service runs.
Snapshot(c) ==
  /\ cli[c].pc = "snapshot"
  /\ \/ cli[c].op # "mode" /\ NoFault /\ Looks(c, "stop", FALSE)
     \/ cli[c].op = "mode" /\ \E running \in BOOLEAN : Finds(running) /\ Looks(c, "write", running)
     \/ cli[c].op = "mode" /\ (Fault \/ (NoFault /\ cfg = "torn")) /\ CliEnds(c)
  /\ UNCHANGED <<platform, marker, unit, daemon, engine, sock, hooks, left, cfg, excused>>

\* Mutated form: the running service is taken to see the change.
WritesWithoutRestart(c) ==
  /\ cli[c].pc = "write" /\ cfg' = cli[c].mode
  /\ CliEnds(c) /\ excused' = (excused \/ ~cli[c].run)
  /\ UNCHANGED <<platform, marker, unit, daemon, engine, sock, hooks, left, budget>>

\* "(Service is not running. Start it to apply: premptictl start)".  The write truncates
\* the file first; if it fails the command ends.
WritesMode(c) ==
  /\ cli[c].pc = "write"
  /\ \/ NoFault /\ cli[c].run /\ cfg' = cli[c].mode /\ UNCHANGED excused
        /\ cli' = [cli EXCEPT ![c].pc = "stop", ![c].mode = "unread", ![c].run = FALSE]
     \/ NoFault /\ ~cli[c].run /\ cfg' = cli[c].mode /\ excused' = TRUE /\ CliEnds(c)
     \/ Fault /\ cfg' \in {cfg, cli[c].mode, "torn"} /\ excused' = TRUE /\ CliEnds(c)
  /\ UNCHANGED <<platform, marker, unit, daemon, engine, sock, hooks, left>>

Running == {d \in Daemons : daemon[d].pc = "run"}
AfterStop(c) ==
  IF cli[c].op = "stop" THEN CliEnds(c)
  ELSE cli' = [cli EXCEPT ![c].pc = "readd", ![c].live = {}, ![c].delivered = FALSE]

\* A change that was written and then not applied has been reported as an error ...
Excuses(c) == excused' = (excused \/ cli[c].op = "mode")
CliFails(c) == CliEnds(c) /\ Excuses(c)

\* ... unless the stop failed and took itself for done.
StopsNothing(c) == AfterStop(c) /\ Excuses(c)

\* `systemctl stop`, of a service that runs or not.
StopsUnit(c) ==
  /\ cli[c].pc = "stop" /\ platform = "systemd"
  /\ \/ /\ NoFault /\ ManagerStops
        /\ cli' = [cli EXCEPT ![c].pc = "stopping", ![c].live = Running] /\ UNCHANGED excused
     \/ Fault /\ CliFails(c) /\ UNCHANGED <<unit, daemon, engine, left>>
  /\ UNCHANGED <<platform, marker, sock, hooks, cfg>>

\* `launchctl unload`, of a job that is found loaded.
UnloadsJob(c) ==
  /\ cli[c].pc = "stop" /\ platform = "launchd"
  /\ \/ /\ NoFault /\ unit # "inactive" /\ ManagerStops
        /\ cli' = [cli EXCEPT ![c].pc = "stopping", ![c].live = Running] /\ UNCHANGED excused
     \/ NoFault /\ unit = "inactive" /\ AfterStop(c) /\ UNCHANGED <<unit, daemon, engine, left, excused>>
     \/ Fault /\ unit # "inactive" /\ StopsNothing(c) /\ UNCHANGED <<unit, daemon, engine, left>>
     \/ Fault /\ unit # "inactive" /\ CliFails(c) /\ UNCHANGED <<unit, daemon, engine, left>>
  /\ UNCHANGED <<platform, marker, sock, hooks, cfg>>

\* Another command's start may have cancelled the stop.
StopReturns(c) ==
  /\ cli[c].pc = "stopping" /\ unit # "stopping"
  /\ IF unit = "inactive" THEN AfterStop(c) /\ UNCHANGED excused ELSE CliFails(c)
  /\ UNCHANGED <<platform, marker, unit, daemon, engine, sock, hooks, left, cfg, budget>>

\* Without one: STATUS tells who is there.  No answer within two seconds counts as
\* a stale socket.
AsksStatus(c) ==
  /\ cli[c].pc = "stop" /\ ~HasManager
  /\ \/ /\ Answers
        /\ cli' = [cli EXCEPT ![c].pc = "deliver", ![c].live = {sock}]
        /\ UNCHANGED sock
     \/ /\ ~Answers
        /\ CliGoes(c, "sweep") /\ sock' = "absent"
  /\ UNCHANGED <<platform, marker, unit, daemon, engine, hooks, left, cfg, excused, budget>>

SendsStop(c) ==
  /\ cli[c].pc = "deliver"
  /\ cli' = [cli EXCEPT ![c].pc = "exit", ![c].delivered = Answers]
  /\ daemon' = IF Answers THEN [daemon EXCEPT ![sock].sig = TRUE] ELSE daemon
  /\ UNCHANGED <<platform, marker, unit, engine, sock, hooks, left, cfg, excused, budget>>

\* Mutated form: the supervisor is gone, so all is well.
SupervisorGoneIsEnough(c) ==
  /\ cli[c].pc = "exit" /\ cli[c].live = {} /\ AfterStop(c)
  /\ UNCHANGED <<platform, marker, unit, daemon, engine, sock, hooks, left, cfg, excused, budget>>

SupervisorGone(c) ==
  /\ cli[c].pc = "exit" /\ cli[c].live = {}
  /\ IF cli[c].delivered THEN AfterStop(c) ELSE CliGoes(c, "sweep")
  /\ UNCHANGED <<platform, marker, unit, daemon, engine, sock, hooks, left, cfg, excused, budget>>

\* After thirty seconds the supervisor is killed, if taskkill can.
ForceKills(c) ==
  /\ cli[c].pc = "exit" /\ cli[c].live # {} /\ Fault
  /\ \E killed \in {{}, cli[c].live} :
       /\ daemon' = [d \in Daemons |-> IF d \in killed THEN [Off EXCEPT !.code = 1] ELSE daemon[d]]
       /\ cli' = [x \in Clis |-> [cli[x] EXCEPT !.live = @ \ killed, !.pc = IF x = c THEN "sweep" ELSE @]]
       /\ left' = IF killed = {} THEN left ELSE hooks
  /\ UNCHANGED <<platform, marker, unit, engine, sock, hooks, cfg, excused>>

\* taskkill of every Falco of this install.
Kills(ds) == engine' = [d \in Daemons |-> IF d \in ds /\ Alive(engine[d]) THEN DeadEngine(engine[d], 1)
                                          ELSE engine[d]]

Sweeps(c) ==
  /\ cli[c].pc = "sweep" /\ Kills(Daemons) /\ AfterStop(c)
  /\ UNCHANGED <<platform, marker, unit, daemon, sock, hooks, left, cfg, excused, budget>>

\* It kills some or none; a query that fails finds none.  The stop says that it is done.
SweepFails(c) ==
  /\ cli[c].pc = "sweep" /\ Fault /\ StopsNothing(c)
  /\ \E ds \in SUBSET Daemons : Kills(ds) /\ \E d \in Daemons \ ds : Alive(engine[d])
  /\ UNCHANGED <<platform, marker, unit, daemon, sock, hooks, left, cfg>>

\* "without re-adding it here, the gap between stop and start would let tool calls
\* through unchecked"; a failure is a warning.
ReAdds(c) ==
  /\ cli[c].pc = "readd" /\ CliGoes(c, "start")
  /\ \E added \in SUBSET cli[c].restore :
       /\ hooks' = hooks \cup added /\ left' = left \ added
       /\ IF added = cli[c].restore THEN NoFault ELSE Fault
  /\ UNCHANGED <<platform, marker, unit, daemon, engine, sock, cfg, excused>>

\* A start that launches nothing leaves what was put back, unless a supervisor is there
\* that will take it away.
LaunchesNothing(c) ==
  /\ left' = left \cup ((cli[c].restore \cap hooks) \ UNION {Charge(daemon[d]) : d \in Daemons})
  /\ UNCHANGED <<unit, daemon, engine>>

ManagerLaunches(c) ==
  /\ Launched(Main) /\ unit' = "active" /\ Launch(Main) /\ CliGoes(c, "await")
  /\ UNCHANGED <<left, excused>>

StartsUnit(c) ==
  /\ cli[c].pc = "start" /\ platform = "systemd" /\ unit # "stopping"
  /\ \/ NoFault /\ unit # "active" /\ ManagerLaunches(c)
     \/ NoFault /\ unit = "active" /\ CliGoes(c, "await") /\ LaunchesNothing(c) /\ UNCHANGED excused
     \/ Fault /\ CliFails(c) /\ LaunchesNothing(c)
  /\ UNCHANGED <<platform, marker, sock, hooks, cfg>>

\* A loaded job is taken for a running service, whether its process lives or not.
LoadsJob(c) ==
  /\ cli[c].pc = "start" /\ platform = "launchd" /\ unit # "stopping"
  /\ \/ NoFault /\ unit = "inactive" /\ ManagerLaunches(c)
     \/ NoFault /\ unit # "inactive" /\ CliEnds(c) /\ LaunchesNothing(c) /\ UNCHANGED excused
     \/ Fault /\ CliFails(c) /\ LaunchesNothing(c)
  /\ UNCHANGED <<platform, marker, sock, hooks, cfg>>

\* So is an install whose Falco runs, whether a supervisor lives or not.
StartsLauncher(c) ==
  /\ cli[c].pc = "start" /\ ~HasManager
  /\ \/ /\ Finds(FALSE) /\ CliGoes(c, "await")
        /\ \E d \in Daemons : Launched(d) /\ Launch(d)
        /\ UNCHANGED <<unit, left, excused>>
     \/ Finds(TRUE) /\ CliEnds(c) /\ LaunchesNothing(c) /\ UNCHANGED excused
     \/ Fault /\ CliFails(c) /\ LaunchesNothing(c)
  /\ UNCHANGED <<platform, marker, sock, hooks, cfg>>

\* Up to five seconds for the broker's socket to accept, which only decides what is
\* printed; or ten for an engine to be there, without which the command fails.
Awaited(c) ==
  /\ cli[c].pc = "await"
  /\ \/ HasManager /\ NoFault /\ CliEnds(c) /\ UNCHANGED excused
     \/ ~HasManager /\ Finds(TRUE) /\ CliEnds(c) /\ UNCHANGED excused
     \/ ~HasManager /\ Finds(FALSE) /\ CliFails(c)
  /\ UNCHANGED <<platform, marker, unit, daemon, engine, sock, hooks, left, cfg>>

CliSteps(c) ==
  \/ Snapshot(c) \/ WritesMode(c) \/ StopsUnit(c) \/ UnloadsJob(c) \/ StopReturns(c)
  \/ AsksStatus(c) \/ SendsStop(c) \/ SupervisorGone(c) \/ ForceKills(c) \/ Sweeps(c)
  \/ SweepFails(c) \/ ReAdds(c) \/ StartsUnit(c) \/ LoadsJob(c) \/ StartsLauncher(c) \/ Awaited(c)

-----------------------------------------------------------------------------
Init ==
  /\ \E install \in Installs : platform = install[1] /\ marker = install[2]
  /\ unit = "inactive" /\ sock = "absent"
  /\ daemon = [d \in Daemons |-> Off] /\ engine = [d \in Daemons |-> NoEngine]
  /\ hooks = {} /\ left = {}
  /\ cfg = (CHOOSE mode \in Modes : TRUE) /\ excused = FALSE
  /\ cli = [c \in Clis |-> Idle]
  /\ budget = [commands |-> MaxCommands, faults |-> MaxFaults]

\* Logging in starts the service.
LogsIn ==
  /\ unit = "inactive" /\ budget.commands = MaxCommands /\ Launched(Main) /\ ~Serving
  /\ \A d \in Daemons : daemon[d].pc = "off"
  /\ Launch(Main) /\ unit' = IF HasManager THEN "active" ELSE unit
  /\ UNCHANGED <<platform, marker, sock, hooks, left, cfg, excused, cli, budget>>

Next ==
  \/ LogsIn \/ SeesExit \/ Restarts
  \/ \E d \in Daemons : DaemonSteps(d) \/ DaemonKilled(d) \/ EngineReads(d) \/ EngineBinds(d) \/ EngineExits(d)
  \/ \E c \in Clis : CliSteps(c) \/ \E op \in Ops, mode \in Modes \cup {"unread"} : (op = "mode" <=> mode # "unread") /\ Command(c, op, mode)

\* Processes run to their ends, and the manager does its work; nothing is assumed of
\* an engine that is asked to exit, or of people and faults.
Fairness ==
  /\ \A d \in Daemons : WF_vars(DaemonSteps(d)) /\ WF_vars(EngineReads(d)) /\ WF_vars(EngineBinds(d))
  /\ \A c \in Clis : WF_vars(CliSteps(c))
  /\ WF_vars(SeesExit) /\ WF_vars(Restarts)

Spec == Init /\ [][Next]_vars /\ Fairness

-----------------------------------------------------------------------------
(* Properties.                                                             *)

DaemonStates ==
  [pc : {"off", "preflight", "unlink", "bind", "hook", "codex", "spawn", "run", "wait", "join",
         "unhook", "uncodex"},
   managed : BOOLEAN, sig : BOOLEAN, code : {0, 1}]
EngineStates ==
  [st : {"none", "loading", "binding", "serving", "exited"}, mode : Configs \cup {"unread"},
   term : BOOLEAN, code : {0, 1}]
CliStates ==
  [pc : {"idle", "snapshot", "write", "stop", "stopping", "deliver", "exit", "sweep", "readd",
         "start", "await"},
   op : Ops \cup {"none"}, mode : Modes \cup {"unread"}, run : BOOLEAN, delivered : BOOLEAN,
   restore : SUBSET {"claude", "codex"}, live : SUBSET Daemons]

TypeOK ==
  /\ <<platform, marker>> \in Installs /\ excused \in BOOLEAN
  /\ unit \in {"inactive", "active", "waiting", "stopping", "loaded"}
  /\ daemon \in [Daemons -> DaemonStates] /\ engine \in [Daemons -> EngineStates]
  /\ cli \in [Clis -> CliStates]
  /\ hooks \subseteq {"claude", "codex"} /\ left \subseteq hooks
  /\ sock \in Daemons \cup {"absent"} /\ cfg \in Configs
  /\ \A d \in Daemons : engine[d].st # "none" /\ daemon[d].pc # "off" =>
                          daemon[d].pc \in {"run", "wait", "join", "unhook", "uncodex"}

\* As long as an engine answers under its supervisor, Claude's calls go through the
\* hook: it is registered before the engine runs and taken away only after the
\* engine is gone, however the stop went.
ServedIsHooked ==
  \A d \in Daemons : engine[d].st = "serving" /\ daemon[d].pc # "off" => "claude" \in hooks

AtRest == /\ \A d \in Daemons : daemon[d].pc = "off"
          /\ \A c \in Clis : cli[c].pc = "idle"

\* Once nothing runs any more, no hook keeps blocking the agents, except one that a
\* failure left: its removal failed, its supervisor was killed or failed in its start,
\* or a restart had put it back and its start failed or took for running a service whose
\* supervisor had gone.
StoppedUnblocks == AtRest => hooks \subseteq left

\* The hook is there as long as an engine answers, and gone when nothing runs.
HookFollowsService == TypeOK /\ ServedIsHooked /\ StoppedUnblocks

\* However a supervisor ends, it leaves no engine behind, even if it could not tell it to
\* stop; save that where no manager takes it along, the engine survives a supervisor that
\* is killed, or that fails when it has just spawned it.
NoOrphanEngine ==
  [][ \A d \in Daemons : daemon[d].pc # "off" /\ daemon'[d].pc = "off" /\ Alive(engine'[d]) =>
        /\ ~HasManager
        /\ DaemonKilled(d) \/ StartFails(d) \/ \E c \in Clis : ForceKills(c) ]_vars

\* With no command under way, the engine that answers under a supervisor runs in the
\* configured mode, unless the command that changed it failed, said that the change was
\* not applied, or could not stop the service, which it does not say.
ModeApplies ==
  (\A c \in Clis : cli[c].pc = "idle") =>
    \A d \in Daemons : engine[d].st = "serving" /\ daemon[d].pc # "off" => engine[d].mode = cfg \/ excused

StopsWell(c) == /\ cli[c].pc \in {"stopping", "exit", "sweep"} /\ cli'[c].pc \in {"idle", "readd"}
                /\ ~(excused' /\ ~excused)

Orphaned == {d \in Daemons : daemon[d].pc = "off" /\ Alive(engine[d])}

\* A stop that reports success has stopped the engines of the supervisors it found,
\* and has swept up those whose supervisor was gone; except that of a supervisor
\* that acknowledged STOP and died then, and those a sweep failed to kill, of which the
\* command does not tell.  Without a manager a supervisor is found once it listens: one
\* that is still starting goes on, and its engine comes after the report.
StopReportsTruth ==
  [][ \A c \in Clis : StopsWell(c) /\ ~SweepFails(c) =>
        /\ \A d \in cli[c].live : ~Alive(engine'[d])
        /\ Orphaned' = {} \/ cli[c].delivered ]_vars

\* Neither the end of a supervisor nor a stop that reports success leaves an engine, but
\* for the failures named.
StopsLeaveNoEngine == NoOrphanEngine /\ StopReportsTruth

\* A supervisor told to stop ends, even if its engine does not listen; only if it could
\* not even ask, it joins drains that may never end.
StopCompletes == \A d \in Daemons : daemon[d].sig ~> daemon[d].pc \in {"off", "join"}

\* Claude is not blocked for ever by a service that does not answer: the engine comes
\* up or the hook goes, unless one of the failures of StoppedUnblocks has left it.
BlockedEnds == "claude" \in hooks /\ ~Serving ~> Serving \/ "claude" \notin hooks \ left

\* No stop lasts for ever, and only what a failure has left blocks an agent for ever.
StopsAndBlocksEnd == StopCompletes /\ BlockedEnds

-----------------------------------------------------------------------------
\* print_restart_warning: during the restart "ALL Claude Code tool calls will be
\* BLOCKED (fail-closed)".
RestartBlocksCalls ==
  \A c \in Clis : cli[c].pc \in {"stopping", "readd"} /\ "claude" \in cli[c].restore => "claude" \in hooks

\* service_stop: without the sweep, "`Service stopped.` would be a lie".
StoppedIsNoLie == [][ \A c \in Clis : StopsWell(c) /\ ~SweepFails(c) => Orphaned' = {} ]_vars

\* bind: "abort if a live peer answers (another supervisor is running for this prefix)".
OneSupervisor == Cardinality({d \in Daemons : Listening(d)}) <= 1
=============================================================================
