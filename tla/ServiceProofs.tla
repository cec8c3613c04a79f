----------------------------- MODULE ServiceProofs -----------------------------
(***************************************************************************)
(* Theorems about Service, for any number of commands, faults and modes:   *)
(* with any number of supervisors, that stops leave no engine behind and   *)
(* tell the truth; with one, that the hook follows the service and the     *)
(* mode that runs is the configured one.                                   *)
(*                                                                         *)
(* Service has the configured mode in one variable, which `premptictl      *)
(* mode` sets.  The last section shows of the file, whatever is in it,     *)
(* that the command sets what the plugin reads there, and nothing else.    *)
(***************************************************************************)
EXTENDS Service, Settings, WellFoundedInduction, TLAPS

(***************************************************************************)
(* The invariant for any number of supervisors.                            *)
(***************************************************************************)
\* What a supervisor is doing and the state of its engine go together; and under a
\* manager, which knows one supervisor, no engine survives it.
Sound(d) ==
  /\ Alive(engine[d]) /\ daemon[d].pc # "off" => daemon[d].pc \in {"run", "wait", "join"}
  /\ HasManager /\ daemon[d].pc = "off" => ~Alive(engine[d])
  /\ HasManager /\ (d # Main \/ unit \in {"inactive", "waiting", "loaded"}) => daemon[d].pc = "off"

\* How a command stops the service depends on who runs it; whom it waits for under a
\* manager is being stopped.
Placed(s) ==
  /\ s.pc = "stopping" => HasManager
  /\ s.pc \in {"deliver", "exit", "sweep"} => ~HasManager
  /\ s.pc = "stopping" => \A d \in s.live : unit = "stopping" /\ daemon[d].pc # "off"
  /\ s.pc \in {"snapshot", "write"} /\ s.op = "mode" => s.mode \in Modes
  /\ s.pc = "write" => s.op = "mode"

FInv ==
  /\ TypeOK
  /\ \A d \in Daemons : Sound(d)
  /\ \A c \in Clis : Placed(cli[c])

(***************************************************************************)
(* The invariant with one supervisor.                                      *)
(***************************************************************************)
OneDaemon == Daemons = {Main}

\* What a restart has put back before it starts the service.
PutBack == UNION {cli[c].restore : c \in {x \in Clis : cli[x].pc = "start"}}

HooksKept ==
  /\ daemon[Main].pc \in {"codex", "spawn", "run", "wait", "join"} => "claude" \in hooks
  /\ hooks \subseteq left \cup Charge(daemon[Main]) \cup PutBack
  /\ "codex" \in hooks => marker
  /\ \A c \in Clis : "codex" \in cli[c].restore => marker

\* The engine runs in another mode than the configured one.
Outdated ==
  /\ engine[Main].st \in {"binding", "serving"} /\ daemon[Main].pc # "off"
  /\ engine[Main].mode # cfg /\ ~excused

\* A command has changed the mode and has yet to stop that engine.
WillRestart(s) ==
  /\ s.op = "mode"
  /\ \/ s.pc \in {"stop", "stopping", "sweep"}
     \/ s.pc = "deliver" /\ s.live # {}
     \/ s.pc = "exit" /\ (s.live # {} \/ ~s.delivered)

ModeKept == Outdated => \E c \in Clis : WillRestart(cli[c])

SoloInv == HooksKept /\ ModeKept

(***************************************************************************)
(* Helpers.                                                                *)
(***************************************************************************)
HookNames == {"claude", "codex"}

LEMMA MainIs == Main \in Daemons
BY ConstantsAssumption DEF Main

LEMMA OffIs ==
  /\ Off \in DaemonStates /\ Off.pc = "off" /\ Off.sig = FALSE /\ Off.managed = FALSE
  /\ \A code \in {0, 1} : [Off EXCEPT !.code = code] \in DaemonStates
                          /\ [Off EXCEPT !.code = code].pc = "off"
  /\ [Off EXCEPT !.pc = "preflight"] \in DaemonStates
  /\ [Off EXCEPT !.pc = "preflight"].pc = "preflight"
BY DEF Off, DaemonStates

LEMMA NoEngineIs ==
  NoEngine \in EngineStates /\ NoEngine.st = "none" /\ ~Alive(NoEngine)
BY DEF NoEngine, EngineStates, Alive

LEMMA IdleIs ==
  /\ Idle \in CliStates /\ Idle.pc = "idle" /\ Idle.op = "none" /\ Idle.live = {}
  /\ Idle.restore = {}
BY DEF Idle, CliStates, Ops

LEMMA LoadingIs ==
  /\ [NoEngine EXCEPT !.st = "loading"] \in EngineStates
  /\ [NoEngine EXCEPT !.st = "loading"].st = "loading"
BY NoEngineIs DEF NoEngine, EngineStates

LEMMA DeadIs ==
  ASSUME NEW e \in EngineStates, NEW code \in {0, 1}
  PROVE  /\ DeadEngine(e, code) \in EngineStates /\ DeadEngine(e, code).st = "exited"
         /\ DeadEngine(e, code).mode = e.mode /\ ~Alive(DeadEngine(e, code))
         /\ DeadEngine(e, code).code = code
BY DEF DeadEngine, EngineStates, Alive

LEMMA GoesIs ==
  ASSUME TypeOK, NEW d \in Daemons, NEW pc, Goes(d, pc),
         pc \in {"unlink", "bind", "hook", "codex", "spawn", "run", "wait", "join", "unhook", "uncodex"}
  PROVE  /\ daemon' \in [Daemons -> DaemonStates] /\ daemon'[d].pc = pc
         /\ daemon'[d].managed = daemon[d].managed
         /\ \A x \in Daemons : x # d => daemon'[x] = daemon[x]
<1>1. daemon \in [Daemons -> DaemonStates]
  BY DEF TypeOK
<1>2. PICK s : s = [daemon[d] EXCEPT !.pc = pc]
  OBVIOUS
<1>3. s \in DaemonStates /\ s.pc = pc /\ s.managed = daemon[d].managed
  BY <1>1, <1>2 DEF DaemonStates
<1>4. daemon' = [daemon EXCEPT ![d] = s]
  BY <1>1, <1>2 DEF Goes
<1> QED BY <1>1, <1>3, <1>4

\* The commands are as they were, but wait for fewer supervisors.
CliWaits ==
  /\ cli' \in [Clis -> CliStates]
  /\ \A c \in Clis : /\ cli'[c].pc = cli[c].pc /\ cli'[c].op = cli[c].op /\ cli'[c].mode = cli[c].mode
                     /\ cli'[c].live \subseteq cli[c].live /\ cli'[c].delivered = cli[c].delivered
                     /\ cli'[c].run = cli[c].run /\ cli'[c].restore = cli[c].restore

LEMMA LeftIs ==
  ASSUME TypeOK, NEW d \in Daemons, Left(d) PROVE CliWaits
<1>1. ASSUME NEW c \in Clis
      PROVE  /\ cli'[c] \in CliStates
             /\ cli'[c].pc = cli[c].pc /\ cli'[c].op = cli[c].op /\ cli'[c].mode = cli[c].mode
             /\ cli'[c].live \subseteq cli[c].live /\ cli'[c].delivered = cli[c].delivered
             /\ cli'[c].run = cli[c].run /\ cli'[c].restore = cli[c].restore
  <2>1. cli[c] \in CliStates /\ cli[c].live \ {d} \in SUBSET Daemons
    BY DEF TypeOK, CliStates
  <2>2. cli'[c] = [cli[c] EXCEPT !.live = cli[c].live \ {d}]
    BY DEF Left
  <2> QED BY <2>1, <2>2 DEF CliStates
<1>2. cli' \in [Clis -> CliStates]
  BY <1>1 DEF Left
<1> QED BY <1>1, <1>2 DEF CliWaits

LEMMA ExitsIs ==
  ASSUME TypeOK, NEW d \in Daemons, NEW code \in {0, 1}, Exits(d, code)
  PROVE  /\ daemon' \in [Daemons -> DaemonStates] /\ daemon'[d].pc = "off" /\ CliWaits
         /\ \A x \in Daemons : x # d => daemon'[x] = daemon[x]
         /\ \A c \in Clis : d \notin cli'[c].live
<1>1. Left(d) /\ daemon' = [daemon EXCEPT ![d] = [Off EXCEPT !.code = code]]
  BY DEF Exits
<1>2. \A c \in Clis : d \notin cli'[c].live
  <2> SUFFICES ASSUME NEW c \in Clis PROVE d \notin cli'[c].live
    OBVIOUS
  <2>1. cli[c] \in CliStates /\ cli'[c] = [cli[c] EXCEPT !.live = cli[c].live \ {d}]
    BY <1>1 DEF TypeOK, Left
  <2> QED BY <2>1 DEF CliStates
<1> QED BY <1>1, <1>2, OffIs, LeftIs DEF TypeOK

(***************************************************************************)
(* Steps of a supervisor and of its engine.                                *)
(***************************************************************************)
\* What stays typed.
RestTyped ==
  /\ UNCHANGED <<platform, marker, cfg>> /\ excused' \in BOOLEAN
  /\ hooks' \subseteq HookNames /\ left' \subseteq hooks' /\ sock' \in Daemons \cup {"absent"}

\* Supervisor d alone moves, from one step to the next or to its end.
Walks(d) ==
  /\ daemon[d].pc # "off"
  /\ daemon' \in [Daemons -> DaemonStates] /\ engine' \in [Daemons -> EngineStates]
  /\ \A x \in Daemons : x # d => daemon'[x] = daemon[x] /\ engine'[x] = engine[x]
  /\ CliWaits /\ UNCHANGED unit /\ RestTyped
  /\ daemon'[d].pc = "off" => \A c \in Clis : d \notin cli'[c].live
  /\ engine'[d].st # "none" => daemon'[d].pc \in {"off", "run", "wait", "join", "unhook", "uncodex"}
  /\ Alive(engine'[d]) => daemon'[d].pc \in {"run", "wait", "join"} \/ (daemon'[d].pc = "off" /\ ~HasManager)

LEMMA CliWaitsKeeps ==
  ASSUME FInv, CliWaits, UNCHANGED <<platform, unit>>,
         \A c \in Clis, x \in Daemons :
           x \in cli'[c].live /\ daemon[x].pc # "off" => daemon'[x].pc # "off"
  PROVE  \A c \in Clis : Placed(cli[c])'
<1> SUFFICES ASSUME NEW c \in Clis PROVE Placed(cli[c])'
  OBVIOUS
<1>1. Placed(cli[c]) /\ cli[c].live \subseteq Daemons /\ cli'[c].live \subseteq Daemons
  BY DEF FInv, TypeOK, CliWaits, CliStates
<1> QED BY <1>1 DEF CliWaits, Placed, HasManager

LEMMA WalksKeeps ==
  ASSUME FInv, NEW d \in Daemons, Walks(d) PROVE FInv'
<1>1. TypeOK'
  BY DEF FInv, TypeOK, Walks, CliWaits, RestTyped, HookNames
<1>2. ASSUME NEW x \in Daemons PROVE Sound(x)'
  <2>1. CASE x # d
    <3>1. daemon'[x] = daemon[x] /\ engine'[x] = engine[x] /\ UNCHANGED <<unit, platform>>
      BY <2>1 DEF Walks, RestTyped
    <3>2. Sound(x)
      BY DEF FInv
    <3> QED BY <3>1, <3>2 DEF Sound, HasManager
  <2>2. CASE x = d
    <3>1. Sound(d)
      BY DEF FInv
    <3> QED BY <2>2, <3>1 DEF Sound, Walks, RestTyped, HasManager
  <2> QED BY <2>1, <2>2
<1>3. \A c \in Clis : Placed(cli[c])'
  BY CliWaitsKeeps DEF Walks, RestTyped
<1> QED BY <1>1, <1>2, <1>3 DEF FInv

\* Nothing moves but the supervisor.
Quiet == /\ UNCHANGED <<engine, unit, platform, marker, cfg, excused>>
         /\ hooks' \subseteq HookNames /\ left' \subseteq hooks'
         /\ sock' \in Daemons \cup {"absent"}

LEMMA QuietWalks ==
  ASSUME FInv, NEW d \in Daemons, daemon[d].pc # "off", Quiet, cli' = cli \/ CliWaits,
         daemon' \in [Daemons -> DaemonStates],
         \A x \in Daemons : x # d => daemon'[x] = daemon[x],
         daemon'[d].pc = "off" => \A c \in Clis : d \notin cli'[c].live,
         engine[d].st # "none" =>
           daemon'[d].pc \in {"off", "run", "wait", "join", "unhook", "uncodex"},
         Alive(engine[d]) => daemon'[d].pc \in {"run", "wait", "join"}
  PROVE  FInv'
<1>1. CliWaits
  BY DEF FInv, TypeOK, CliWaits
<1>2. Walks(d)
  BY <1>1 DEF FInv, TypeOK, Walks, RestTyped, Quiet
<1> QED BY <1>2, WalksKeeps

LEMMA EarlyIsNone ==
  ASSUME FInv, NEW d \in Daemons,
         daemon[d].pc \in {"preflight", "unlink", "bind", "hook", "codex", "spawn"}
  PROVE  engine[d].st = "none" /\ ~Alive(engine[d])
BY DEF FInv, TypeOK, Alive

LEMMA TypedNow ==
  ASSUME FInv PROVE /\ TypeOK /\ hooks \subseteq HookNames /\ left \subseteq hooks
                    /\ sock \in Daemons \cup {"absent"} /\ excused \in BOOLEAN
                    /\ daemon \in [Daemons -> DaemonStates] /\ engine \in [Daemons -> EngineStates]
                    /\ cli \in [Clis -> CliStates] /\ (cli' = cli => CliWaits)
BY DEF FInv, TypeOK, HookNames, CliWaits

LEMMA FailsIs ==
  ASSUME NEW d \in Daemons, Fails(d) PROVE Exits(d, 1) /\ left' = hooks
BY DEF Fails

LEMMA PreflightKeeps ==
  ASSUME FInv, NEW d \in Daemons, Preflight(d) PROVE FInv'
<1>1. Quiet /\ daemon[d].pc = "preflight" /\ daemon[d].pc # "off"
  BY TypedNow, FailsIs DEF Preflight, Quiet
<1>2. \/ Exits(d, 1)
      \/ Goes(d, "unlink") /\ cli' = cli
  BY FailsIs DEF Preflight
<1> QED BY <1>1, <1>2, TypedNow, ExitsIs, GoesIs, EarlyIsNone, QuietWalks

LEMMA UnlinkKeeps ==
  ASSUME FInv, NEW d \in Daemons, Unlink(d) PROVE FInv'
<1>1. Quiet /\ daemon[d].pc = "unlink" /\ daemon[d].pc # "off" /\ cli' = cli /\ Goes(d, "bind")
  BY TypedNow DEF Unlink, Quiet
<1> QED BY <1>1, TypedNow, GoesIs, EarlyIsNone, QuietWalks

LEMMA BindKeeps ==
  ASSUME FInv, NEW d \in Daemons, Bind(d) PROVE FInv'
<1>1. Quiet /\ daemon[d].pc = "bind" /\ daemon[d].pc # "off"
  BY TypedNow, FailsIs DEF Bind, Quiet
<1>2. \/ Exits(d, 1)
      \/ Goes(d, "hook") /\ cli' = cli
  BY FailsIs DEF Bind
<1> QED BY <1>1, <1>2, TypedNow, ExitsIs, GoesIs, EarlyIsNone, QuietWalks

LEMMA AddsIs ==
  ASSUME FInv, NEW a \in HookNames, Adds(a)
  PROVE  hooks' \subseteq HookNames /\ left' \subseteq hooks'
BY TypedNow DEF Adds

LEMMA RemovesIs ==
  ASSUME FInv, NEW a, Removes(a)
  PROVE  hooks' \subseteq HookNames /\ left' \subseteq hooks'
BY TypedNow DEF Removes

LEMMA AddHookKeeps ==
  ASSUME FInv, NEW d \in Daemons, AddHook(d) PROVE FInv'
<1>1. hooks' \subseteq HookNames /\ left' \subseteq hooks'
  BY TypedNow, AddsIs, FailsIs DEF AddHook, HookNames
<1>2. Quiet /\ daemon[d].pc = "hook" /\ daemon[d].pc # "off"
  BY <1>1, TypedNow DEF AddHook, Quiet
<1>3. \/ Exits(d, 1)
      \/ Goes(d, "codex") /\ cli' = cli
  BY FailsIs DEF AddHook
<1> QED BY <1>2, <1>3, TypedNow, ExitsIs, GoesIs, EarlyIsNone, QuietWalks

LEMMA AddCodexHookIs ==
  ASSUME FInv, NEW d \in Daemons, AddCodexHook(d)
  PROVE  /\ daemon' \in [Daemons -> DaemonStates] /\ daemon'[d].pc = "spawn"
         /\ daemon'[d].managed = marker
         /\ \A x \in Daemons : x # d => daemon'[x] = daemon[x]
<1>1. marker \in BOOLEAN /\ daemon \in [Daemons -> DaemonStates]
  BY ConstantsAssumption DEF FInv, TypeOK
<1>2. PICK s : s = [daemon[d] EXCEPT !.pc = "spawn", !.managed = marker, !.sig = FALSE]
  OBVIOUS
<1>3. s \in DaemonStates /\ s.pc = "spawn" /\ s.managed = marker
  BY <1>1, <1>2 DEF DaemonStates
<1>4. daemon' = [daemon EXCEPT ![d] = s]
  BY <1>1, <1>2 DEF AddCodexHook
<1> QED BY <1>1, <1>3, <1>4

LEMMA AddCodexHookKeeps ==
  ASSUME FInv, NEW d \in Daemons, AddCodexHook(d) PROVE FInv'
<1>1. hooks' \subseteq HookNames /\ left' \subseteq hooks'
  BY TypedNow, AddsIs DEF AddCodexHook, HookNames
<1>2. Quiet /\ daemon[d].pc = "codex" /\ daemon[d].pc # "off" /\ cli' = cli
  BY <1>1, TypedNow DEF AddCodexHook, Quiet
<1> QED BY <1>2, TypedNow, AddCodexHookIs, EarlyIsNone, QuietWalks

LEMMA SpawnKeeps ==
  ASSUME FInv, NEW d \in Daemons, Spawn(d) PROVE FInv'
<1>1. /\ daemon[d].pc = "spawn" /\ daemon[d].pc # "off"
      /\ UNCHANGED <<platform, marker, unit, cfg, excused>>
  BY DEF Spawn
<1>2. CASE SpawnFails(d)
  <2>1. hooks' \subseteq HookNames /\ left' \subseteq hooks'
    BY <1>2, TypedNow DEF SpawnFails
  <2>2. Quiet /\ Exits(d, 1)
    BY <1>1, <1>2, <2>1 DEF SpawnFails, Quiet
  <2> QED BY <1>1, <2>2, TypedNow, ExitsIs, EarlyIsNone, QuietWalks
<1>3. CASE SpawnSucceeds(d)
  <2>1. PICK e : e = [NoEngine EXCEPT !.st = "loading"]
    OBVIOUS
  <2>2. e \in EngineStates
    BY <2>1, NoEngineIs DEF EngineStates
  <2>3. engine' = [engine EXCEPT ![d] = e] /\ Goes(d, "run") /\ UNCHANGED <<sock, hooks, left, cli>>
    BY <1>3, <2>1 DEF SpawnSucceeds
  <2>4. /\ daemon' \in [Daemons -> DaemonStates] /\ daemon'[d].pc = "run"
        /\ \A x \in Daemons : x # d => daemon'[x] = daemon[x]
    BY <2>3, TypedNow, GoesIs
  <2>5. Walks(d)
    BY <1>1, <2>2, <2>3, <2>4, TypedNow DEF Walks, RestTyped
  <2> QED BY <2>5, WalksKeeps
<1>4. CASE StartFails(d)
  <2>1. Exits(d, 1) /\ left' = hooks /\ UNCHANGED <<sock, hooks>>
    BY <1>4, FailsIs DEF StartFails
  <2>2. PICK e \in EngineStates : engine' = [engine EXCEPT ![d] = e] /\ (HasManager => ~Alive(e))
    BY <1>4, LoadingIs, DeadIs DEF StartFails
  <2>3. Walks(d)
    BY <1>1, <2>1, <2>2, ExitsIs, TypedNow DEF Walks, RestTyped
  <2> QED BY <2>3, WalksKeeps
<1> QED BY <1>2, <1>3, <1>4 DEF Spawn

LEMMA NoticesExitIs ==
  ASSUME FInv, NEW d \in Daemons, NoticesExit(d)
  PROVE  /\ daemon' \in [Daemons -> DaemonStates] /\ daemon'[d].pc = "unhook"
         /\ daemon'[d].managed = daemon[d].managed
         /\ \A x \in Daemons : x # d => daemon'[x] = daemon[x]
<1>1. daemon \in [Daemons -> DaemonStates] /\ engine[d].code \in {0, 1}
  BY DEF FInv, TypeOK, EngineStates
<1>2. PICK s : s = [daemon[d] EXCEPT !.pc = "unhook", !.code = engine[d].code]
  OBVIOUS
<1>3. s \in DaemonStates /\ s.pc = "unhook" /\ s.managed = daemon[d].managed
  BY <1>1, <1>2 DEF DaemonStates
<1>4. daemon' = [daemon EXCEPT ![d] = s]
  BY <1>1, <1>2 DEF NoticesExit
<1> QED BY <1>1, <1>3, <1>4

LEMMA NoticesExitKeeps ==
  ASSUME FInv, NEW d \in Daemons, NoticesExit(d) PROVE FInv'
<1>1. Quiet /\ daemon[d].pc = "run" /\ daemon[d].pc # "off" /\ cli' = cli /\ ~Alive(engine[d])
  BY TypedNow DEF NoticesExit, Quiet, Alive
<1> QED BY <1>1, TypedNow, NoticesExitIs, QuietWalks

LEMMA BeginsStopIs ==
  ASSUME FInv, NEW d \in Daemons, BeginsStop(d)
  PROVE  /\ daemon' \in [Daemons -> DaemonStates] /\ daemon'[d].pc \in {"wait", "join"}
         /\ daemon'[d].managed = daemon[d].managed
         /\ \A x \in Daemons : x # d => daemon'[x] = daemon[x] /\ engine'[x] = engine[x]
         /\ engine' \in [Daemons -> EngineStates] /\ engine'[d].st = engine[d].st
         /\ engine'[d].mode = engine[d].mode
<1>1. daemon \in [Daemons -> DaemonStates] /\ engine \in [Daemons -> EngineStates]
  BY TypedNow
<1>2. CASE Goes(d, "wait") /\ (engine' = engine \/ engine' = [engine EXCEPT ![d].term = TRUE])
  <2>1. PICK e : e = [engine[d] EXCEPT !.term = TRUE]
    OBVIOUS
  <2>2. e \in EngineStates /\ e.st = engine[d].st /\ e.mode = engine[d].mode
    BY <1>1, <2>1 DEF EngineStates
  <2>3. engine' = engine \/ engine' = [engine EXCEPT ![d] = e]
    BY <1>1, <1>2, <2>1
  <2>4. /\ engine' \in [Daemons -> EngineStates] /\ engine'[d].st = engine[d].st
        /\ engine'[d].mode = engine[d].mode
        /\ \A x \in Daemons : x # d => engine'[x] = engine[x]
    BY <1>1, <2>2, <2>3
  <2> QED BY <1>2, <2>4, TypedNow, GoesIs
<1>3. CASE daemon' = [daemon EXCEPT ![d].pc = "join", ![d].code = 1] /\ engine' = engine
  <2>1. PICK s : s = [daemon[d] EXCEPT !.pc = "join", !.code = 1]
    OBVIOUS
  <2>2. s \in DaemonStates /\ s.pc = "join" /\ s.managed = daemon[d].managed
    BY <1>1, <2>1 DEF DaemonStates
  <2>3. daemon' = [daemon EXCEPT ![d] = s]
    BY <1>1, <1>3, <2>1
  <2> QED BY <1>1, <1>3, <2>2, <2>3
<1> QED BY <1>2, <1>3 DEF BeginsStop

LEMMA BeginsStopKeeps ==
  ASSUME FInv, NEW d \in Daemons, BeginsStop(d) PROVE FInv'
<1>1. /\ daemon[d].pc # "off" /\ UNCHANGED <<platform, marker, unit, sock, hooks, left, cfg, excused, cli>>
  BY DEF BeginsStop
<1>2. Walks(d)
  BY <1>1, BeginsStopIs, TypedNow DEF Walks, RestTyped
<1> QED BY <1>2, WalksKeeps

LEMMA GracefulStopIs ==
  ASSUME FInv, NEW d \in Daemons, GracefulStop(d)
  PROVE  /\ daemon' \in [Daemons -> DaemonStates] /\ daemon'[d].pc = "unhook"
         /\ daemon'[d].managed = daemon[d].managed
         /\ \A x \in Daemons : x # d => daemon'[x] = daemon[x] /\ engine'[x] = engine[x]
         /\ engine' \in [Daemons -> EngineStates] /\ engine'[d].st = "exited"
<1>1. daemon \in [Daemons -> DaemonStates] /\ engine \in [Daemons -> EngineStates]
  BY TypedNow
<1>2. PICK e : e = IF engine[d].st = "exited" THEN engine[d] ELSE DeadEngine(engine[d], 1)
  OBVIOUS
<1>3. e \in EngineStates /\ e.st = "exited"
  BY <1>1, <1>2, DeadIs
<1>4. engine' = [engine EXCEPT ![d] = e]
  BY <1>1, <1>2 DEF GracefulStop
<1>5. engine'[d] = e /\ e.code \in {0, 1}
  BY <1>1, <1>3, <1>4 DEF EngineStates
<1>6. PICK s : s = [daemon[d] EXCEPT !.pc = "unhook", !.code = e.code]
  OBVIOUS
<1>7. s \in DaemonStates /\ s.pc = "unhook" /\ s.managed = daemon[d].managed
  BY <1>1, <1>5, <1>6 DEF DaemonStates
<1>8. daemon' = [daemon EXCEPT ![d] = s]
  BY <1>1, <1>5, <1>6 DEF GracefulStop
<1> QED BY <1>1, <1>3, <1>4, <1>7, <1>8

LEMMA GracefulStopKeeps ==
  ASSUME FInv, NEW d \in Daemons, GracefulStop(d) PROVE FInv'
<1>1. /\ daemon[d].pc # "off" /\ UNCHANGED <<platform, marker, unit, sock, hooks, left, cfg, excused, cli>>
  BY DEF GracefulStop
<1>2. Walks(d)
  BY <1>1, GracefulStopIs, TypedNow DEF Walks, RestTyped, Alive
<1> QED BY <1>2, WalksKeeps

LEMMA JoinsKeeps ==
  ASSUME FInv, NEW d \in Daemons, Joins(d) PROVE FInv'
<1>1. Quiet /\ daemon[d].pc # "off" /\ cli' = cli /\ ~Alive(engine[d]) /\ Goes(d, "unhook")
  BY TypedNow DEF Joins, Quiet
<1> QED BY <1>1, TypedNow, GoesIs, QuietWalks

LEMMA RemoveHookKeeps ==
  ASSUME FInv, NEW d \in Daemons, RemoveHook(d) PROVE FInv'
<1>1. hooks' \subseteq HookNames /\ left' \subseteq hooks'
  BY TypedNow, RemovesIs DEF RemoveHook
<1>2. Quiet /\ daemon[d].pc = "unhook" /\ daemon[d].pc # "off" /\ cli' = cli /\ Goes(d, "uncodex")
  BY <1>1, TypedNow DEF RemoveHook, Quiet
<1>3. ~Alive(engine[d])
  BY <1>2 DEF FInv, Sound
<1> QED BY <1>2, <1>3, TypedNow, GoesIs, QuietWalks

LEMMA RemoveCodexHookIs ==
  ASSUME FInv, NEW d \in Daemons, RemoveCodexHook(d)
  PROVE  /\ daemon[d].pc = "uncodex" /\ ~Alive(engine[d]) /\ engine'[d] = NoEngine
         /\ engine' = [engine EXCEPT ![d] = NoEngine]
         /\ Exits(d, daemon[d].code) /\ daemon[d].code \in {0, 1}
<1>1. daemon[d].pc = "uncodex"
  BY DEF RemoveCodexHook
<1>2. ~Alive(engine[d])
  BY <1>1 DEF FInv, Sound
<1>3. engine' = [engine EXCEPT ![d] = NoEngine]
  BY <1>2, TypedNow DEF RemoveCodexHook
<1>4. daemon[d].code \in {0, 1}
  BY TypedNow DEF DaemonStates
<1> QED BY <1>1, <1>2, <1>3, <1>4, TypedNow DEF RemoveCodexHook

LEMMA RemoveCodexHookKeeps ==
  ASSUME FInv, NEW d \in Daemons, RemoveCodexHook(d) PROVE FInv'
<1>1. hooks' \subseteq HookNames /\ left' \subseteq hooks'
  BY TypedNow, RemovesIs DEF RemoveCodexHook
<1>2. sock' = "absent" /\ UNCHANGED <<platform, marker, unit, cfg, excused>>
  BY DEF RemoveCodexHook
<1>3. Walks(d)
  BY <1>1, <1>2, RemoveCodexHookIs, ExitsIs, NoEngineIs, TypedNow DEF Walks, RestTyped
<1> QED BY <1>3, WalksKeeps

LEMMA DaemonStepsKeeps ==
  ASSUME FInv, NEW d \in Daemons, DaemonSteps(d) PROVE FInv'
BY PreflightKeeps, UnlinkKeeps, BindKeeps, AddHookKeeps, AddCodexHookKeeps, SpawnKeeps,
   NoticesExitKeeps, BeginsStopKeeps, GracefulStopKeeps, JoinsKeeps, RemoveHookKeeps,
   RemoveCodexHookKeeps DEF DaemonSteps

LEMMA DaemonKilledKeeps ==
  ASSUME FInv, NEW d \in Daemons, DaemonKilled(d) PROVE FInv'
<1>1. /\ daemon[d].pc # "off" /\ Exits(d, 1) /\ left' = hooks /\ hooks' = hooks
      /\ UNCHANGED <<platform, marker, unit, sock, cfg, excused>>
  BY FailsIs DEF DaemonKilled
<1>2. PICK e : e = IF HasManager /\ Alive(engine[d]) THEN DeadEngine(engine[d], 1) ELSE engine[d]
  OBVIOUS
<1>3. e \in EngineStates /\ (HasManager => ~Alive(e))
  BY <1>2, DeadIs, TypedNow
<1>4. engine' = [engine EXCEPT ![d] = e]
  BY <1>2, TypedNow DEF DaemonKilled
<1>5. Walks(d)
  BY <1>1, <1>3, <1>4, ExitsIs, TypedNow DEF Walks, RestTyped
<1> QED BY <1>5, WalksKeeps

\* An engine moves by itself, and does not come back to life.
LEMMA EngineKeeps ==
  ASSUME FInv, NEW d \in Daemons, UNCHANGED <<platform, marker, unit, daemon, sock, hooks, left, cfg, cli>>,
         NEW e \in EngineStates, engine' = [engine EXCEPT ![d] = e], excused' \in BOOLEAN,
         Alive(e) => Alive(engine[d]), e.st # "none" => engine[d].st # "none"
  PROVE  FInv'
<1>1. TypeOK'
  BY DEF FInv, TypeOK
<1>2. ASSUME NEW x \in Daemons PROVE Sound(x)'
  <2>1. Sound(x) /\ (Alive(engine'[x]) => Alive(engine[x]))
    BY TypedNow DEF FInv
  <2> QED BY <2>1 DEF Sound, HasManager
<1>3. \A c \in Clis : Placed(cli[c])'
  BY TypedNow, CliWaitsKeeps
<1> QED BY <1>1, <1>2, <1>3 DEF FInv

LEMMA EngineStepsKeep ==
  ASSUME FInv, NEW d \in Daemons, EngineReads(d) \/ EngineBinds(d) \/ EngineExits(d) PROVE FInv'
<1>1. engine[d] \in EngineStates /\ cfg \in Configs /\ excused \in BOOLEAN
      /\ UNCHANGED <<platform, marker, unit, daemon, sock, hooks, left, cfg, cli>>
  BY TypedNow DEF FInv, TypeOK, EngineReads, EngineBinds, EngineExits
<1>2. ASSUME EngineReads(d) PROVE FInv'
  <2>1. PICK e : e = [engine[d] EXCEPT !.st = "binding", !.mode = cfg]
    OBVIOUS
  <2>2. e \in EngineStates
    BY <1>1, <2>1 DEF EngineStates
  <2>3. excused' = FALSE /\ engine[d].st = "loading"
    BY <1>2 DEF EngineReads
  <2>4. CASE engine' = [engine EXCEPT ![d] = e]
    BY <1>1, <2>2, <2>3, <2>4, EngineKeeps DEF Alive
  <2>5. CASE engine' = [engine EXCEPT ![d] = DeadEngine(engine[d], 1)]
    BY <1>1, <2>3, <2>5, DeadIs, EngineKeeps DEF Alive
  <2> QED BY <1>2, <2>1, <2>4, <2>5, TypedNow DEF EngineReads
<1>3. ASSUME EngineBinds(d) PROVE FInv'
  <2>1. PICK e : e = IF Serving THEN DeadEngine(engine[d], 1) ELSE [engine[d] EXCEPT !.st = "serving"]
    OBVIOUS
  <2>2. e \in EngineStates
    BY <1>1, <2>1, DeadIs DEF EngineStates
  <2>3. engine' = [engine EXCEPT ![d] = e] /\ excused' = excused /\ engine[d].st = "binding"
    BY <1>3, <2>1, TypedNow DEF EngineBinds
  <2> QED BY <1>1, <2>2, <2>3, EngineKeeps DEF Alive
<1>4. ASSUME EngineExits(d) PROVE FInv'
  <2>1. PICK code \in {0, 1} : engine' = [engine EXCEPT ![d] = DeadEngine(engine[d], code)]
    BY <1>4, TypedNow DEF EngineExits
  <2>2. excused' = excused /\ Alive(engine[d])
    BY <1>4 DEF EngineExits
  <2> QED BY <1>1, <2>1, <2>2, DeadIs, EngineKeeps DEF Alive
<1> QED BY <1>2, <1>3, <1>4

(***************************************************************************)
(* Steps of a command.                                                     *)
(***************************************************************************)
LEMMA CliMoveKeeps ==
  ASSUME FInv, NEW c \in Clis, NEW s \in CliStates, cli' = [cli EXCEPT ![c] = s], Placed(s),
         UNCHANGED <<platform, marker, unit, daemon, engine>>, cfg' \in Configs, excused' \in BOOLEAN,
         hooks' \subseteq HookNames, left' \subseteq hooks', sock' \in Daemons \cup {"absent"}
  PROVE  FInv'
<1>1. cli' \in [Clis -> CliStates] /\ cli'[c] = s /\ \A x \in Clis : x # c => cli'[x] = cli[x]
  BY TypedNow
<1>2. TypeOK'
  BY <1>1 DEF FInv, TypeOK, HookNames
<1>3. ASSUME NEW d \in Daemons PROVE Sound(d)'
  BY DEF FInv, Sound, HasManager
<1>4. ASSUME NEW x \in Clis PROVE Placed(cli[x])'
  BY <1>1 DEF FInv, Placed, HasManager
<1> QED BY <1>2, <1>3, <1>4 DEF FInv

\* Where the commands go.
LEMMA AfterStopIs ==
  ASSUME TypeOK, NEW c \in Clis, AfterStop(c)
  PROVE  \E s \in CliStates : /\ cli' = [cli EXCEPT ![c] = s] /\ s.pc \in {"idle", "readd"}
                              /\ s.restore \subseteq cli[c].restore
<1>1. cli \in [Clis -> CliStates]
  BY DEF TypeOK
<1>2. CASE cli[c].op = "stop"
  BY <1>2, IdleIs DEF AfterStop, CliEnds
<1>3. CASE cli[c].op # "stop"
  <2>1. PICK s : s = [cli[c] EXCEPT !.pc = "readd", !.live = {}, !.delivered = FALSE]
    OBVIOUS
  <2>2. s \in CliStates /\ s.pc = "readd" /\ s.restore = cli[c].restore
    BY <1>1, <2>1 DEF CliStates
  <2>3. cli' = [cli EXCEPT ![c] = s]
    BY <1>1, <1>3, <2>1 DEF AfterStop
  <2> QED BY <2>2, <2>3
<1> QED BY <1>2, <1>3

LEMMA CliGoesIs ==
  ASSUME TypeOK, NEW c \in Clis,
         NEW pc \in {"idle", "snapshot", "write", "stop", "stopping", "deliver", "exit", "sweep",
                     "readd", "start", "await"},
         CliGoes(c, pc)
  PROVE  \E s \in CliStates :
           /\ cli' = [cli EXCEPT ![c] = s] /\ s.pc = pc /\ s.op = cli[c].op /\ s.mode = cli[c].mode
           /\ s.live = cli[c].live /\ s.delivered = cli[c].delivered /\ s.run = cli[c].run
           /\ s.restore = cli[c].restore
<1>1. cli \in [Clis -> CliStates]
  BY DEF TypeOK
<1>2. PICK s : s = [cli[c] EXCEPT !.pc = pc]
  OBVIOUS
<1>3. /\ s \in CliStates /\ s.pc = pc /\ s.op = cli[c].op /\ s.mode = cli[c].mode
      /\ s.live = cli[c].live /\ s.delivered = cli[c].delivered /\ s.run = cli[c].run
      /\ s.restore = cli[c].restore
  BY <1>1, <1>2 DEF CliStates
<1>4. cli' = [cli EXCEPT ![c] = s]
  BY <1>1, <1>2 DEF CliGoes
<1> QED BY <1>3, <1>4

\* A step of a command that ends it, or takes it to where nothing is asked of it.
LEMMA CliLeavesKeeps ==
  ASSUME FInv, NEW c \in Clis, UNCHANGED <<platform, marker, unit, daemon, engine>>,
         \/ CliEnds(c) \/ AfterStop(c) \/ CliFails(c)
         \/ \E pc \in {"stop", "readd", "start", "await"} : CliGoes(c, pc),
         cfg' \in Configs, excused' \in BOOLEAN,
         hooks' \subseteq HookNames, left' \subseteq hooks', sock' \in Daemons \cup {"absent"}
  PROVE  FInv'
<1>1. \E s \in CliStates : /\ cli' = [cli EXCEPT ![c] = s]
                           /\ s.pc \in {"idle", "stop", "readd", "start", "await"}
  BY IdleIs, AfterStopIs, CliGoesIs, TypedNow DEF CliEnds, CliFails
<1>2. PICK s \in CliStates : /\ cli' = [cli EXCEPT ![c] = s]
                             /\ s.pc \in {"idle", "stop", "readd", "start", "await"}
  BY <1>1
<1>3. Placed(s)
  BY <1>2 DEF Placed
<1> QED BY <1>2, <1>3, CliMoveKeeps

LEMMA CommandIs ==
  ASSUME NEW c \in Clis, NEW op \in Ops, NEW mode \in Modes \cup {"unread"}, Command(c, op, mode)
  PROVE  \E s \in CliStates :
           /\ cli' = [cli EXCEPT ![c] = s] /\ s.op = op /\ s.mode = mode /\ s.restore = {}
           /\ s.pc \in {"snapshot", "start", "stop"}
<1>1. PICK pc : pc = FirstPc(op)
  OBVIOUS
<1>2. pc \in {"snapshot", "start", "stop"}
  BY <1>1 DEF FirstPc
<1>3. PICK s : s = [Idle EXCEPT !.op = op, !.mode = mode, !.pc = pc]
  OBVIOUS
<1>4. s \in CliStates /\ s.op = op /\ s.mode = mode /\ s.pc = pc /\ s.restore = {}
  BY <1>2, <1>3, IdleIs DEF CliStates
<1>5. cli' = [cli EXCEPT ![c] = s]
  BY <1>1, <1>3 DEF Command
<1> QED BY <1>2, <1>4, <1>5

LEMMA CommandKeeps ==
  ASSUME FInv, NEW c \in Clis, NEW op \in Ops, NEW mode \in Modes \cup {"unread"},
         op = "mode" <=> mode # "unread", Command(c, op, mode)
  PROVE  FInv'
<1>1. PICK s \in CliStates : /\ cli' = [cli EXCEPT ![c] = s] /\ s.op = op /\ s.mode = mode
                             /\ s.pc \in {"snapshot", "start", "stop"}
  BY CommandIs
<1>2. Placed(s)
  BY <1>1 DEF Placed
<1>3. /\ UNCHANGED <<platform, marker, unit, daemon, engine, sock, hooks, left, cfg, excused>>
      /\ cfg \in Configs
  BY DEF Command, FInv, TypeOK
<1> QED BY <1>1, <1>2, <1>3, TypedNow, CliMoveKeeps

LEMMA LooksIs ==
  ASSUME FInv, NEW c \in Clis, NEW pc \in {"stop", "write"}, NEW b \in BOOLEAN, Looks(c, pc, b)
  PROVE  \E s \in CliStates :
           /\ cli' = [cli EXCEPT ![c] = s] /\ s.op = cli[c].op /\ s.mode = cli[c].mode
           /\ s.pc = pc /\ ("codex" \in s.restore => marker)
<1>1. cli \in [Clis -> CliStates] /\ hooks \subseteq HookNames
  BY TypedNow
<1>3. PICK keep : keep = (hooks \cap {"claude"}) \cup (IF marker THEN {"codex"} ELSE {})
  OBVIOUS
<1>4. keep \in SUBSET HookNames
  BY <1>1, <1>3 DEF HookNames
<1>6. PICK s : s = [cli[c] EXCEPT !.pc = pc, !.run = b, !.restore = keep]
  OBVIOUS
<1>7. s \in CliStates /\ s.op = cli[c].op /\ s.mode = cli[c].mode /\ s.pc = pc /\ s.restore = keep
  BY <1>1, <1>4, <1>6 DEF CliStates, HookNames
<1>8. cli' = [cli EXCEPT ![c].pc = pc, ![c].run = b, ![c].restore = keep]
  BY <1>3 DEF Looks
<1>9. cli' = [cli EXCEPT ![c] = s]
  BY <1>1, <1>6, <1>8
<1>10. "codex" \in keep => marker
  BY <1>3
<1> QED BY <1>7, <1>9, <1>10

LEMMA SnapshotIs ==
  ASSUME FInv, NEW c \in Clis, Snapshot(c)
  PROVE  \E s \in CliStates :
           /\ cli' = [cli EXCEPT ![c] = s] /\ ("codex" \in s.restore => marker)
           /\ \/ s = Idle
              \/ /\ s.op = cli[c].op /\ s.mode = cli[c].mode
                 /\ s.pc = IF cli[c].op = "mode" THEN "write" ELSE "stop"
BY LooksIs, IdleIs, TypedNow DEF Snapshot, CliEnds

LEMMA SnapshotKeeps ==
  ASSUME FInv, NEW c \in Clis, Snapshot(c) PROVE FInv'
<1>1. PICK s \in CliStates :
         /\ cli' = [cli EXCEPT ![c] = s]
         /\ \/ s = Idle
            \/ /\ s.op = cli[c].op /\ s.mode = cli[c].mode
               /\ s.pc = IF cli[c].op = "mode" THEN "write" ELSE "stop"
  BY SnapshotIs
<1>2. Placed(cli[c]) /\ cli[c].pc = "snapshot" /\ cfg \in Configs
      /\ UNCHANGED <<platform, marker, unit, daemon, engine, sock, hooks, left, cfg, excused>>
  BY DEF Snapshot, FInv, TypeOK
<1>3. Placed(s)
  BY <1>1, <1>2, IdleIs DEF Placed
<1> QED BY <1>1, <1>2, <1>3, TypedNow, CliMoveKeeps

LEMMA WritesModeIs ==
  ASSUME FInv, NEW c \in Clis, WritesMode(c)
  PROVE  /\ cfg' \in Configs /\ cli[c].op = "mode"
         /\ \/ \E s \in CliStates : /\ cli' = [cli EXCEPT ![c] = s] /\ s.op = "mode" /\ s.pc = "stop"
                                    /\ excused' = excused /\ s.restore = cli[c].restore
            \/ CliEnds(c) /\ excused' = TRUE
<1>1. cli[c].pc = "write" /\ cfg \in Configs
  BY DEF WritesMode, FInv, TypeOK
<1>2. cli[c].op = "mode" /\ cli[c].mode \in Modes
  BY <1>1 DEF FInv, Placed
<1>3. CASE cfg' = cli[c].mode /\ excused' = excused
           /\ cli' = [cli EXCEPT ![c].pc = "stop", ![c].mode = "unread", ![c].run = FALSE]
  <2>1. PICK s : s = [cli[c] EXCEPT !.pc = "stop", !.mode = "unread", !.run = FALSE]
    OBVIOUS
  <2>2. s \in CliStates /\ s.op = "mode" /\ s.pc = "stop" /\ s.restore = cli[c].restore
    BY <1>2, <2>1, TypedNow DEF CliStates
  <2>3. cli' = [cli EXCEPT ![c] = s]
    BY <1>3, <2>1, TypedNow
  <2> QED BY <1>2, <1>3, <2>2, <2>3 DEF Configs
<1>4. CASE CliEnds(c) /\ excused' = TRUE /\ cfg' \in {cfg, cli[c].mode, "torn"}
  BY <1>1, <1>2, <1>4 DEF Configs
<1> QED BY <1>3, <1>4 DEF WritesMode

LEMMA WritesModeKeeps ==
  ASSUME FInv, NEW c \in Clis, WritesMode(c) PROVE FInv'
<1>1. UNCHANGED <<platform, marker, unit, daemon, engine, sock, hooks, left>> /\ cfg' \in Configs
  BY WritesModeIs DEF WritesMode
<1>2. CASE CliEnds(c) /\ excused' = TRUE
  BY <1>1, <1>2, TypedNow, CliLeavesKeeps
<1>3. CASE \E s \in CliStates : /\ cli' = [cli EXCEPT ![c] = s] /\ s.op = "mode" /\ s.pc = "stop"
                                /\ excused' = excused
  <2>1. PICK s \in CliStates : /\ cli' = [cli EXCEPT ![c] = s] /\ s.op = "mode" /\ s.pc = "stop"
                               /\ excused' = excused
    BY <1>3
  <2>2. Placed(s)
    BY <2>1 DEF Placed
  <2> QED BY <1>1, <2>1, <2>2, TypedNow, CliMoveKeeps
<1> QED BY <1>2, <1>3, WritesModeIs

LEMMA ExcusedTyped == ASSUME FInv, NEW c \in Clis, Excuses(c) PROVE excused' \in BOOLEAN
BY TypedNow DEF Excuses

LEMMA StopReturnsKeeps ==
  ASSUME FInv, NEW c \in Clis, StopReturns(c) PROVE FInv'
<1>1. UNCHANGED <<platform, marker, unit, daemon, engine, sock, hooks, left, cfg>> /\ cfg \in Configs
  BY DEF StopReturns, FInv, TypeOK
<1>2. (AfterStop(c) /\ excused' = excused) \/ CliFails(c)
  BY DEF StopReturns
<1> QED BY <1>1, <1>2, TypedNow, ExcusedTyped, CliLeavesKeeps DEF CliFails

LEMMA AsksStatusIs ==
  ASSUME FInv, NEW c \in Clis, AsksStatus(c)
  PROVE  \E s \in CliStates :
           /\ cli' = [cli EXCEPT ![c] = s] /\ s.op = cli[c].op /\ s.pc \in {"deliver", "sweep"}
           /\ s.pc = "deliver" => s.live # {}
           /\ s.restore = cli[c].restore
<1>1. CASE Answers
  <2>1. PICK s : s = [cli[c] EXCEPT !.pc = "deliver", !.live = {sock}]
    OBVIOUS
  <2>2. sock \in Daemons
    BY <1>1, TypedNow DEF Answers
  <2>3. s \in CliStates /\ s.op = cli[c].op /\ s.pc = "deliver" /\ s.live # {}
        /\ s.restore = cli[c].restore
    BY <2>1, <2>2, TypedNow DEF CliStates
  <2>4. cli' = [cli EXCEPT ![c] = s]
    BY <1>1, <2>1, TypedNow DEF AsksStatus
  <2> QED BY <2>3, <2>4
<1>2. CASE ~Answers
  <2>1. CliGoes(c, "sweep")
    BY <1>2 DEF AsksStatus
  <2> QED BY <2>1, TypedNow, CliGoesIs
<1> QED BY <1>1, <1>2

LEMMA AsksStatusKeeps ==
  ASSUME FInv, NEW c \in Clis, AsksStatus(c) PROVE FInv'
<1>1. /\ UNCHANGED <<platform, marker, unit, daemon, engine, hooks, left, cfg, excused>>
      /\ cfg \in Configs /\ ~HasManager /\ sock' \in Daemons \cup {"absent"}
  BY TypedNow DEF AsksStatus, FInv, TypeOK
<1>2. PICK s \in CliStates : /\ cli' = [cli EXCEPT ![c] = s] /\ s.pc \in {"deliver", "sweep"}
  BY AsksStatusIs
<1>3. Placed(s)
  BY <1>1, <1>2 DEF Placed
<1> QED BY <1>1, <1>2, <1>3, TypedNow, CliMoveKeeps

LEMMA SendsStopIs ==
  ASSUME FInv, NEW c \in Clis, SendsStop(c)
  PROVE  \E s \in CliStates :
           /\ cli' = [cli EXCEPT ![c] = s] /\ s.op = cli[c].op /\ s.pc = "exit"
           /\ s.live = cli[c].live /\ cli[c].pc = "deliver" /\ s.restore = cli[c].restore
           /\ daemon' \in [Daemons -> DaemonStates]
           /\ \A d \in Daemons : daemon'[d].pc = daemon[d].pc /\ daemon'[d].managed = daemon[d].managed
<1>1. PICK b \in BOOLEAN : b = Answers
  BY DEF Answers
<1>2. PICK s : s = [cli[c] EXCEPT !.pc = "exit", !.delivered = b]
  OBVIOUS
<1>3. s \in CliStates /\ s.op = cli[c].op /\ s.pc = "exit" /\ s.live = cli[c].live
      /\ s.restore = cli[c].restore
  BY <1>2, TypedNow DEF CliStates
<1>4. cli' = [cli EXCEPT ![c].pc = "exit", ![c].delivered = b]
  BY <1>1 DEF SendsStop
<1>5. cli' = [cli EXCEPT ![c] = s]
  BY <1>2, <1>4, TypedNow
<1>6. /\ daemon' \in [Daemons -> DaemonStates]
      /\ \A d \in Daemons : daemon'[d].pc = daemon[d].pc /\ daemon'[d].managed = daemon[d].managed
  <2>1. CASE Answers
    <3>1. PICK d \in Daemons : d = sock
      BY <2>1, TypedNow DEF Answers
    <3>2. PICK t : t = [daemon[d] EXCEPT !.sig = TRUE]
      OBVIOUS
    <3>3. t \in DaemonStates /\ t.pc = daemon[d].pc /\ t.managed = daemon[d].managed
      BY <3>2, TypedNow DEF DaemonStates
    <3>4. daemon' = [daemon EXCEPT ![d] = t]
      BY <2>1, <3>1, <3>2, TypedNow DEF SendsStop
    <3> QED BY <3>3, <3>4, TypedNow
  <2>2. CASE ~Answers
    BY <2>2, TypedNow DEF SendsStop
  <2> QED BY <2>1, <2>2
<1> QED BY <1>3, <1>5, <1>6 DEF SendsStop

\* A command moves, and supervisors are signalled or launched.
LEMMA MixedKeeps ==
  ASSUME FInv, NEW c \in Clis, NEW s \in CliStates, cli' = [cli EXCEPT ![c] = s],
         UNCHANGED <<platform, marker, cfg>>, excused' \in BOOLEAN,
         unit' \in {"inactive", "active", "waiting", "stopping", "loaded"},
         hooks' \subseteq HookNames, left' \subseteq hooks', sock' \in Daemons \cup {"absent"},
         daemon' \in [Daemons -> DaemonStates], engine' \in [Daemons -> EngineStates],
         \A d \in Daemons : /\ Sound(d)'
                            /\ engine'[d].st # "none" /\ daemon'[d].pc # "off" =>
                                 daemon'[d].pc \in {"run", "wait", "join", "unhook", "uncodex"},
         Placed(s)', \A x \in Clis : x # c => Placed(cli[x])'
  PROVE  FInv'
<1>1. cli' \in [Clis -> CliStates] /\ cli'[c] = s /\ \A x \in Clis : x # c => cli'[x] = cli[x]
  BY TypedNow
<1>2. TypeOK'
  BY <1>1 DEF FInv, TypeOK, HookNames
<1> QED BY <1>1, <1>2 DEF FInv

LEMMA SendsStopKeeps ==
  ASSUME FInv, NEW c \in Clis, SendsStop(c) PROVE FInv'
<1>1. UNCHANGED <<platform, marker, unit, engine, sock, hooks, left, cfg, excused>>
  BY DEF SendsStop
<1>2. PICK s \in CliStates :
         /\ cli' = [cli EXCEPT ![c] = s] /\ s.pc = "exit" /\ cli[c].pc = "deliver"
         /\ daemon' \in [Daemons -> DaemonStates]
         /\ \A d \in Daemons : daemon'[d].pc = daemon[d].pc
  BY SendsStopIs
<1>3. ASSUME NEW d \in Daemons
      PROVE  /\ Sound(d)'
             /\ engine'[d].st # "none" /\ daemon'[d].pc # "off" =>
                  daemon'[d].pc \in {"run", "wait", "join", "unhook", "uncodex"}
  BY <1>1, <1>2 DEF FInv, TypeOK, Sound, HasManager
<1>4. Placed(s)'
  BY <1>1, <1>2 DEF FInv, Placed, HasManager
<1>5. ASSUME NEW x \in Clis, x # c PROVE Placed(cli[x])'
  <2>1. cli'[x] = cli[x] /\ Placed(cli[x]) /\ cli[x].live \subseteq Daemons
    BY <1>2, <1>5, TypedNow DEF FInv, CliStates
  <2> QED BY <1>1, <1>2, <2>1 DEF Placed, HasManager
<1> QED BY <1>1, <1>2, <1>3, <1>4, <1>5, TypedNow, MixedKeeps DEF FInv, TypeOK

LEMMA SupervisorGoneKeeps ==
  ASSUME FInv, NEW c \in Clis, SupervisorGone(c) PROVE FInv'
<1>1. UNCHANGED <<platform, marker, unit, daemon, engine, sock, hooks, left, cfg, excused>>
      /\ cfg \in Configs
  BY DEF SupervisorGone, FInv, TypeOK
<1>2. CASE AfterStop(c)
  BY <1>1, <1>2, TypedNow, CliLeavesKeeps
<1>3. CASE CliGoes(c, "sweep")
  <2>1. ~HasManager
    BY DEF SupervisorGone, FInv, Placed
  <2>2. PICK s \in CliStates : cli' = [cli EXCEPT ![c] = s] /\ s.pc = "sweep"
    BY <1>3, TypedNow, CliGoesIs
  <2>3. Placed(s)
    BY <2>1, <2>2 DEF Placed
  <2> QED BY <1>1, <2>2, <2>3, TypedNow, CliMoveKeeps
<1> QED BY <1>2, <1>3 DEF SupervisorGone

LEMMA ForceKillsIs ==
  ASSUME FInv, NEW c \in Clis, ForceKills(c)
  PROVE  \E killed \in {{}, cli[c].live} :
         /\ cli[c].pc = "exit" /\ cli[c].live # {} /\ cli' \in [Clis -> CliStates]
         /\ cli'[c].pc = "sweep" /\ cli'[c].op = cli[c].op
         /\ \A x \in Clis : /\ x # c => cli'[x].pc = cli[x].pc
                            /\ cli'[x].op = cli[x].op /\ cli'[x].mode = cli[x].mode
                            /\ cli'[x].live = cli[x].live \ killed
                            /\ cli'[x].restore = cli[x].restore /\ cli'[x].delivered = cli[x].delivered
         /\ daemon' \in [Daemons -> DaemonStates]
         /\ \A d \in Daemons : IF d \in killed THEN daemon'[d].pc = "off" ELSE daemon'[d] = daemon[d]
         /\ left' = IF killed = {} THEN left ELSE hooks
<1>1. PICK killed \in {{}, cli[c].live} :
        /\ cli[c].pc = "exit" /\ cli[c].live # {}
        /\ daemon' = [d \in Daemons |-> IF d \in killed THEN [Off EXCEPT !.code = 1] ELSE daemon[d]]
        /\ cli' = [x \in Clis |-> [cli[x] EXCEPT !.live = cli[x].live \ killed,
                                                 !.pc = IF x = c THEN "sweep" ELSE cli[x].pc]]
        /\ left' = IF killed = {} THEN left ELSE hooks
  BY DEF ForceKills
<1>2. ASSUME NEW x \in Clis
      PROVE  /\ cli'[x] \in CliStates
             /\ cli'[x].pc = IF x = c THEN "sweep" ELSE cli[x].pc
             /\ cli'[x].op = cli[x].op /\ cli'[x].mode = cli[x].mode
             /\ cli'[x].live = cli[x].live \ killed
             /\ cli'[x].restore = cli[x].restore /\ cli'[x].delivered = cli[x].delivered
  <2>1. PICK pc : pc = IF x = c THEN "sweep" ELSE cli[x].pc
    OBVIOUS
  <2>2. cli'[x] = [cli[x] EXCEPT !.live = cli[x].live \ killed, !.pc = pc]
    BY <1>1, <2>1
  <2>3. cli[x].live \ killed \in SUBSET Daemons /\ cli[x] \in CliStates
    BY TypedNow DEF CliStates
  <2>4. pc \in {"idle", "snapshot", "write", "stop", "stopping", "deliver", "exit", "sweep", "readd",
                "start", "await"}
    BY <2>1, <2>3 DEF CliStates
  <2>5. cli'[x] \in CliStates
    BY <2>2, <2>3, <2>4 DEF CliStates
  <2> QED BY <2>1, <2>2, <2>3, <2>5 DEF CliStates
<1>3. cli' \in [Clis -> CliStates]
  BY <1>1, <1>2
<1>4. ASSUME NEW d \in Daemons
      PROVE  /\ daemon'[d] \in DaemonStates
             /\ IF d \in killed THEN daemon'[d].pc = "off" ELSE daemon'[d] = daemon[d]
  BY <1>1, OffIs, TypedNow
<1>5. daemon' \in [Daemons -> DaemonStates]
  BY <1>1, <1>4
<1>6. cli'[c].pc = "sweep" /\ cli'[c].op = cli[c].op
  BY <1>2
<1>7. ASSUME NEW x \in Clis
      PROVE  /\ x # c => cli'[x].pc = cli[x].pc
             /\ cli'[x].op = cli[x].op /\ cli'[x].mode = cli[x].mode
             /\ cli'[x].live = cli[x].live \ killed
             /\ cli'[x].restore = cli[x].restore /\ cli'[x].delivered = cli[x].delivered
  BY <1>2
<1> QED BY <1>1, <1>3, <1>4, <1>5, <1>6, <1>7, Zenon

LEMMA ForceKillsKeeps ==
  ASSUME FInv, NEW c \in Clis, ForceKills(c) PROVE FInv'
<1>1. /\ UNCHANGED <<platform, marker, unit, engine, sock, hooks, cfg, excused>> /\ ~HasManager
  BY DEF ForceKills, FInv, Placed
<1>2. /\ cli' \in [Clis -> CliStates] /\ daemon' \in [Daemons -> DaemonStates]
      /\ left' \subseteq hooks /\ cli'[c].pc = "sweep" /\ cli[c].pc = "exit"
      /\ \A x \in Clis : /\ x # c => cli'[x].pc = cli[x].pc
                         /\ cli'[x].op = cli[x].op /\ cli'[x].mode = cli[x].mode
      /\ \A d \in Daemons : daemon'[d].pc = "off" \/ daemon'[d] = daemon[d]
  BY ForceKillsIs, TypedNow
<1>3. TypeOK'
  BY <1>1, <1>2 DEF FInv, TypeOK
<1>4. ASSUME NEW d \in Daemons PROVE Sound(d)'
  BY <1>1, <1>2 DEF FInv, Sound, HasManager
<1>5. ASSUME NEW x \in Clis PROVE Placed(cli[x])'
  BY <1>1, <1>2 DEF FInv, Placed, HasManager
<1> QED BY <1>3, <1>4, <1>5 DEF FInv

\* Engines are killed, and none comes to be.
LEMMA KillsIs ==
  ASSUME FInv, NEW ds, Kills(ds)
  PROVE  /\ engine' \in [Daemons -> EngineStates]
         /\ \A d \in Daemons : /\ d \in ds => ~Alive(engine'[d])
                               /\ Alive(engine'[d]) => engine'[d] = engine[d]
                               /\ engine'[d].st # "none" => engine[d].st # "none"
<1>1. engine' = [d \in Daemons |-> IF d \in ds /\ Alive(engine[d]) THEN DeadEngine(engine[d], 1)
                                  ELSE engine[d]]
  BY DEF Kills
<1>2. ASSUME NEW d \in Daemons
      PROVE  /\ engine'[d] \in EngineStates /\ (d \in ds => ~Alive(engine'[d]))
             /\ Alive(engine'[d]) => engine'[d] = engine[d]
             /\ engine'[d].st # "none" => engine[d].st # "none"
  BY <1>1, DeadIs, TypedNow DEF Alive
<1>3. engine' \in [Daemons -> EngineStates]
  BY <1>1, <1>2
<1> QED BY <1>2, <1>3

LEMMA SweepsKeeps ==
  ASSUME FInv, NEW c \in Clis, Sweeps(c) \/ SweepFails(c) PROVE FInv'
<1>1. /\ UNCHANGED <<platform, marker, unit, daemon, sock, hooks, left, cfg>>
      /\ \E ds \in SUBSET Daemons : Kills(ds)
      /\ AfterStop(c) /\ excused' \in BOOLEAN
  BY TypedNow, ExcusedTyped DEF Sweeps, SweepFails, StopsNothing
<1>2. PICK s \in CliStates : cli' = [cli EXCEPT ![c] = s] /\ s.pc \in {"idle", "readd"}
  BY <1>1, AfterStopIs, TypedNow
<1>3. /\ engine' \in [Daemons -> EngineStates]
      /\ \A d \in Daemons : /\ Alive(engine'[d]) => engine'[d] = engine[d]
                            /\ engine'[d].st # "none" => engine[d].st # "none"
  BY <1>1, KillsIs
<1>5. ASSUME NEW d \in Daemons
      PROVE  /\ Sound(d)'
             /\ engine'[d].st # "none" /\ daemon'[d].pc # "off" =>
                  daemon'[d].pc \in {"run", "wait", "join", "unhook", "uncodex"}
  BY <1>1, <1>3 DEF FInv, TypeOK, Sound, HasManager
<1>6. Placed(s)'
  BY <1>2 DEF Placed
<1>7. ASSUME NEW x \in Clis, x # c PROVE Placed(cli[x])'
  BY <1>1, <1>2, <1>7, TypedNow DEF FInv, Placed, HasManager
<1>8. unit' \in {"inactive", "active", "waiting", "stopping", "loaded"}
  BY <1>1 DEF FInv, TypeOK
<1> QED BY <1>1, <1>2, <1>3, <1>5, <1>6, <1>7, <1>8, TypedNow, MixedKeeps

LEMMA ReAddsIs ==
  ASSUME FInv, NEW c \in Clis, ReAdds(c)
  PROVE  /\ \E s \in CliStates : /\ cli' = [cli EXCEPT ![c] = s] /\ s.pc = "start"
                                 /\ s.op = cli[c].op /\ s.restore = cli[c].restore
         /\ hooks' \subseteq HookNames /\ left' \subseteq hooks'
         /\ \E added \in SUBSET cli[c].restore : hooks' = hooks \cup added /\ left' = left \ added
<1>1. \E s \in CliStates : /\ cli' = [cli EXCEPT ![c] = s] /\ s.pc = "start"
                           /\ s.op = cli[c].op /\ s.restore = cli[c].restore
  BY CliGoesIs, TypedNow DEF ReAdds
<1>2. PICK added \in SUBSET cli[c].restore : hooks' = hooks \cup added /\ left' = left \ added
  BY DEF ReAdds
<1>3. cli[c].restore \subseteq HookNames
  BY TypedNow DEF CliStates, HookNames
<1>4. hooks' \subseteq HookNames /\ left' \subseteq hooks'
  BY <1>2, <1>3, TypedNow
<1> QED BY <1>1, <1>2, <1>4

LEMMA ReAddsKeeps ==
  ASSUME FInv, NEW c \in Clis, ReAdds(c) PROVE FInv'
<1>1. UNCHANGED <<platform, marker, unit, daemon, engine, sock, cfg, excused>> /\ cfg \in Configs
  BY DEF ReAdds, FInv, TypeOK
<1>2. PICK s \in CliStates : cli' = [cli EXCEPT ![c] = s] /\ s.pc = "start"
  BY ReAddsIs
<1>3. Placed(s)
  BY <1>2 DEF Placed
<1> QED BY <1>1, <1>2, <1>3, ReAddsIs, TypedNow, CliMoveKeeps

(***************************************************************************)
(* Steps of the service manager, and commands that make it act.            *)
(***************************************************************************)
LEMMA ManagerStopsIs ==
  ASSUME FInv, ManagerStops
  PROVE  /\ daemon' \in [Daemons -> DaemonStates] /\ engine' \in [Daemons -> EngineStates]
         /\ \A d \in Daemons : engine'[d].st = engine[d].st /\ engine'[d].mode = engine[d].mode
         /\ \A d \in Daemons : d # Main => daemon'[d] = daemon[d]
         /\ \/ daemon'[Main].pc = daemon[Main].pc /\ daemon'[Main].managed = daemon[Main].managed
               /\ left' = left
            \/ /\ unit = "active" /\ DiesOfTerm(Main) /\ daemon'[Main].pc = "off" /\ left' = hooks
         /\ unit' = IF unit \in {"waiting", "loaded"} THEN "inactive"
                    ELSE IF unit = "active" THEN "stopping" ELSE unit
<1>1. unit' = IF unit \in {"waiting", "loaded"} THEN "inactive"
              ELSE IF unit = "active" THEN "stopping" ELSE unit
  BY DEF ManagerStops
<1>2. CASE UNCHANGED <<daemon, engine, left>>
  BY <1>1, <1>2, TypedNow
<1>3. CASE ~(UNCHANGED <<daemon, engine, left>>)
  <2>1. /\ unit = "active"
        /\ IF DiesOfTerm(Main) THEN daemon' = [daemon EXCEPT ![Main] = Off] /\ left' = hooks
           ELSE daemon' = [daemon EXCEPT ![Main].sig = TRUE] /\ UNCHANGED left
        /\ engine' = IF platform = "systemd" /\ Alive(engine[Main])
                     THEN [engine EXCEPT ![Main].term = TRUE] ELSE engine
    BY <1>3 DEF ManagerStops
  <2>2. PICK m \in Daemons : m = Main
    BY MainIs
  <2>3. PICK e : e = [engine[m] EXCEPT !.term = TRUE]
    OBVIOUS
  <2>4. e \in EngineStates /\ e.st = engine[m].st /\ e.mode = engine[m].mode
    BY <2>3, TypedNow DEF EngineStates
  <2>5. engine' = engine \/ engine' = [engine EXCEPT ![m] = e]
    BY <2>1, <2>2, <2>3, TypedNow
  <2>6. /\ engine' \in [Daemons -> EngineStates]
        /\ \A d \in Daemons : engine'[d].st = engine[d].st /\ engine'[d].mode = engine[d].mode
    BY <2>4, <2>5, TypedNow
  <2>7. PICK t : t = [daemon[m] EXCEPT !.sig = TRUE]
    OBVIOUS
  <2>8. t \in DaemonStates /\ t.pc = daemon[m].pc /\ t.managed = daemon[m].managed
    BY <2>7, TypedNow DEF DaemonStates
  <2>9. \/ DiesOfTerm(m) /\ daemon' = [daemon EXCEPT ![m] = Off] /\ left' = hooks
        \/ daemon' = [daemon EXCEPT ![m] = t] /\ left' = left
    BY <2>1, <2>2, <2>7, TypedNow
  <2> QED BY <1>1, <2>1, <2>2, <2>6, <2>8, <2>9, OffIs, TypedNow
<1> QED BY <1>2, <1>3

LEMMA ManagerStopsKeeps ==
  ASSUME FInv, NEW c \in Clis, ManagerStops, HasManager,
         cli' = [cli EXCEPT ![c].pc = "stopping", ![c].live = Running],
         UNCHANGED <<platform, marker, sock, hooks, cfg, excused>>
  PROVE  /\ FInv'
         /\ \E s \in CliStates : /\ cli' = [cli EXCEPT ![c] = s] /\ s.pc = "stopping"
                                 /\ s.op = cli[c].op /\ s.restore = cli[c].restore
<1>1. Running \in SUBSET Daemons
  BY DEF Running
<1>2. PICK s : s = [cli[c] EXCEPT !.pc = "stopping", !.live = Running]
  OBVIOUS
<1>3. s \in CliStates /\ s.pc = "stopping" /\ s.live = Running /\ s.op = cli[c].op
      /\ s.restore = cli[c].restore
  BY <1>1, <1>2, TypedNow DEF CliStates
<1>4. cli' = [cli EXCEPT ![c] = s]
  BY <1>2, TypedNow
<1>5. left' \subseteq hooks' /\ unit' \in {"inactive", "active", "waiting", "stopping", "loaded"}
  BY ManagerStopsIs, TypedNow DEF FInv, TypeOK
<1>6. ASSUME NEW d \in Daemons
      PROVE  /\ Sound(d)'
             /\ engine'[d].st # "none" /\ daemon'[d].pc # "off" =>
                  daemon'[d].pc \in {"run", "wait", "join", "unhook", "uncodex"}
  <2>1. /\ engine'[d].st = engine[d].st
        /\ \/ daemon'[d].pc = daemon[d].pc
           \/ /\ daemon'[d].pc = "off" /\ unit = "active" /\ d = Main
              /\ daemon[d].pc \in {"preflight", "unlink", "bind", "hook", "codex"}
    BY ManagerStopsIs DEF DiesOfTerm
  <2>2. daemon'[d].pc # daemon[d].pc => engine[d].st = "none"
    BY <2>1, EarlyIsNone
  <2>3. unit' \in {"inactive", "waiting", "loaded"} => unit \in {"inactive", "waiting", "loaded"}
    BY ManagerStopsIs DEF FInv, TypeOK
  <2>4. /\ Sound(d)
        /\ engine[d].st # "none" /\ daemon[d].pc # "off" =>
             daemon[d].pc \in {"run", "wait", "join", "unhook", "uncodex"}
    BY DEF FInv, TypeOK
  <2> QED BY <2>1, <2>2, <2>3, <2>4 DEF Sound, Alive, HasManager
<1>7. ASSUME NEW d \in Running PROVE unit' = "stopping" /\ daemon'[d].pc # "off"
  <2>1. d \in Daemons /\ daemon[d].pc = "run" /\ Sound(d)
    BY DEF Running, FInv
  <2>2. unit \in {"active", "stopping"}
    BY <2>1 DEF Sound, FInv, TypeOK
  <2> QED BY <2>1, <2>2, ManagerStopsIs DEF DiesOfTerm
<1>8. Placed(s)'
  BY <1>3, <1>7 DEF Placed, HasManager
<1>9. ASSUME NEW x \in Clis, x # c PROVE Placed(cli[x])'
  <2>1. cli'[x] = cli[x] /\ Placed(cli[x]) /\ cli[x].live \subseteq Daemons
    BY <1>4, <1>9, TypedNow DEF FInv, CliStates
  <2>2. unit = "stopping" => unit' = "stopping" /\ \A d \in Daemons : daemon'[d].pc = daemon[d].pc
    BY ManagerStopsIs
  <2> QED BY <2>1, <2>2 DEF Placed, HasManager
<1>10. FInv'
  BY <1>3, <1>4, <1>5, <1>6, <1>8, <1>9, ManagerStopsIs, TypedNow, MixedKeeps
<1> QED BY <1>3, <1>4, <1>10

LEMMA StopsKeeps ==
  ASSUME FInv, NEW c \in Clis, StopsUnit(c) \/ UnloadsJob(c) PROVE FInv'
<1>1. UNCHANGED <<platform, marker, sock, hooks, cfg>> /\ cfg \in Configs /\ HasManager
  BY DEF StopsUnit, UnloadsJob, FInv, TypeOK, HasManager
<1>2. \/ /\ ManagerStops /\ cli' = [cli EXCEPT ![c].pc = "stopping", ![c].live = Running]
         /\ excused' = excused
      \/ (AfterStop(c) \/ CliFails(c)) /\ UNCHANGED <<unit, daemon, engine, left>>
         /\ excused' \in BOOLEAN
  BY TypedNow, ExcusedTyped DEF StopsUnit, UnloadsJob, CliFails, StopsNothing
<1> QED BY <1>1, <1>2, TypedNow, ManagerStopsKeeps, CliLeavesKeeps

\* A supervisor is launched where none runs.
LEMMA LaunchIs ==
  ASSUME FInv, NEW d \in Daemons, Launch(d)
  PROVE  /\ daemon' \in [Daemons -> DaemonStates] /\ engine' \in [Daemons -> EngineStates]
         /\ daemon'[d].pc = "preflight" /\ engine'[d] = NoEngine /\ engine'[d].st = "none"
         /\ \A x \in Daemons : x # d => daemon'[x] = daemon[x] /\ engine'[x] = engine[x]
BY OffIs, NoEngineIs, TypedNow DEF Launch

LEMMA LaunchKeeps ==
  ASSUME FInv, NEW d \in Daemons, Launched(d), Launch(d),
         UNCHANGED <<platform, marker, sock, hooks, left, cfg, excused>>,
         unit' \in {"inactive", "active", "waiting", "stopping", "loaded"},
         HasManager => d = Main /\ unit # "stopping" /\ unit' = "active",
         cli' = cli \/ \E c \in Clis : CliGoes(c, "await")
  PROVE  FInv'
<1>1. ASSUME NEW x \in Daemons
      PROVE  /\ Sound(x)'
             /\ engine'[x].st # "none" /\ daemon'[x].pc # "off" =>
                  daemon'[x].pc \in {"run", "wait", "join", "unhook", "uncodex"}
  BY LaunchIs, NoEngineIs DEF FInv, TypeOK, Sound, HasManager
<1>2. ASSUME NEW s, Placed(s), s.live \subseteq Daemons PROVE Placed(s)'
  BY <1>2, LaunchIs DEF Placed, HasManager, Launched
<1>3. \A x \in Clis : Placed(cli[x]) /\ cli[x].live \subseteq Daemons
  BY TypedNow DEF FInv, CliStates
<1>4. CASE cli' = cli
  <2>1. TypeOK'
    BY <1>1, <1>4, LaunchIs DEF FInv, TypeOK
  <2>2. \A x \in Clis : Placed(cli[x])'
    BY <1>2, <1>3, <1>4 DEF Placed
  <2> QED BY <1>1, <2>1, <2>2 DEF FInv
<1>5. CASE \E c \in Clis : CliGoes(c, "await")
  <2>1. PICK c \in Clis : CliGoes(c, "await")
    BY <1>5
  <2>2. PICK s \in CliStates : cli' = [cli EXCEPT ![c] = s] /\ s.pc = "await"
    BY <2>1, CliGoesIs, TypedNow
  <2>3. Placed(s)'
    BY <2>2 DEF Placed
  <2>4. ASSUME NEW x \in Clis, x # c PROVE Placed(cli[x])'
    <3>1. cli'[x] = cli[x]
      BY <2>2, <2>4, TypedNow
    <3> QED BY <1>2, <1>3, <3>1 DEF Placed
  <2> QED BY <1>1, <2>2, <2>3, <2>4, LaunchIs, TypedNow, MixedKeeps
<1> QED BY <1>4, <1>5

LEMMA StartsKeeps ==
  ASSUME FInv, NEW c \in Clis, StartsUnit(c) \/ LoadsJob(c) \/ StartsLauncher(c) PROVE FInv'
<1>1. /\ UNCHANGED <<platform, marker, sock, hooks, cfg>> /\ cfg \in Configs
      /\ unit \in {"inactive", "active", "waiting", "stopping", "loaded"}
  BY DEF StartsUnit, LoadsJob, StartsLauncher, FInv, TypeOK
<1>2. CASE HasManager /\ unit # "stopping" /\ ManagerLaunches(c)
  BY <1>1, <1>2, MainIs, LaunchKeeps DEF ManagerLaunches
<1>3. CASE /\ ~HasManager /\ CliGoes(c, "await") /\ UNCHANGED <<unit, left, excused>>
           /\ \E d \in Daemons : Launched(d) /\ Launch(d)
  BY <1>1, <1>3, LaunchKeeps
<1>4. CASE LaunchesNothing(c) /\ (CliGoes(c, "await") \/ CliEnds(c)) /\ excused' = excused
  <2>1. left' \subseteq hooks' /\ UNCHANGED <<unit, daemon, engine>>
    BY <1>1, <1>4, TypedNow DEF LaunchesNothing
  <2> QED BY <1>1, <1>4, <2>1, CliLeavesKeeps, TypedNow
<1>5. CASE LaunchesNothing(c) /\ CliFails(c)
  <2>1. left' \subseteq hooks' /\ UNCHANGED <<unit, daemon, engine>>
    BY <1>1, <1>5, TypedNow DEF LaunchesNothing
  <2> QED BY <1>1, <1>5, <2>1, ExcusedTyped, CliLeavesKeeps, TypedNow DEF CliFails
<1> QED BY <1>2, <1>3, <1>4, <1>5 DEF StartsUnit, LoadsJob, StartsLauncher, HasManager

LEMMA AwaitedKeeps ==
  ASSUME FInv, NEW c \in Clis, Awaited(c) PROVE FInv'
<1>1. UNCHANGED <<platform, marker, unit, daemon, engine, sock, hooks, left, cfg>> /\ cfg \in Configs
  BY DEF Awaited, FInv, TypeOK
<1>2. (CliEnds(c) /\ excused' = excused) \/ CliFails(c)
  BY DEF Awaited
<1> QED BY <1>1, <1>2, TypedNow, ExcusedTyped, CliLeavesKeeps DEF CliFails

LEMMA CliStepsKeep ==
  ASSUME FInv, NEW c \in Clis, CliSteps(c) PROVE FInv'
BY SnapshotKeeps, WritesModeKeeps, StopsKeeps, StopReturnsKeeps, AsksStatusKeeps, SendsStopKeeps,
   SupervisorGoneKeeps, ForceKillsKeeps, SweepsKeeps, ReAddsKeeps, StartsKeeps, AwaitedKeeps
   DEF CliSteps

LEMMA SeesExitIs ==
  ASSUME FInv, SeesExit
  PROVE  /\ daemon' \in [Daemons -> DaemonStates] /\ engine' \in [Daemons -> EngineStates]
         /\ \A d \in Daemons : daemon'[d].pc = daemon[d].pc
         /\ daemon[Main].pc = "off" /\ engine'[Main].st = "none" /\ ~Alive(engine'[Main])
         /\ \A d \in Daemons : d # Main => daemon'[d] = daemon[d] /\ engine'[d] = engine[d]
BY MainIs, OffIs, NoEngineIs, TypedNow DEF SeesExit

LEMMA SeesExitKeeps ==
  ASSUME FInv, SeesExit PROVE FInv'
<1>1. /\ UNCHANGED <<platform, marker, sock, hooks, left, cfg, excused, cli>> /\ HasManager
      /\ unit' \in {"inactive", "waiting", "loaded"}
  BY DEF SeesExit
<1>2. TypeOK'
  BY <1>1, SeesExitIs DEF FInv, TypeOK
<1>3. ASSUME NEW d \in Daemons PROVE Sound(d)'
  BY <1>1, SeesExitIs DEF FInv, Sound, HasManager
<1>4. ASSUME NEW x \in Clis PROVE Placed(cli[x])'
  <2>1. Placed(cli[x]) /\ cli[x].live \subseteq Daemons
    BY TypedNow DEF FInv, CliStates
  <2>2. \A d \in Daemons : d # Main => daemon[d].pc = "off"
    BY <1>1 DEF FInv, Sound
  <2>3. cli[x].pc = "stopping" => cli[x].live = {}
    BY <2>1, <2>2, SeesExitIs DEF Placed
  <2> QED BY <1>1, <2>1, <2>3 DEF Placed, HasManager
<1> QED BY <1>2, <1>3, <1>4 DEF FInv

LEMMA LaunchesKeep ==
  ASSUME FInv, Restarts \/ LogsIn PROVE FInv'
BY MainIs, LaunchKeeps, ConstantsAssumption DEF Restarts, LogsIn, FInv, TypeOK, HasManager

LEMMA FInvInit == Init => FInv
<1> SUFFICES ASSUME Init PROVE FInv
  OBVIOUS
<1>1. (CHOOSE mode \in Modes : TRUE) \in Modes
  BY ConstantsAssumption
<1>2. TypeOK
  <2>1. PICK install \in Installs : platform = install[1] /\ marker = install[2]
    BY DEF Init
  <2>2. <<platform, marker>> \in Installs
    <3>1. install \in {"systemd", "launchd", "windows"} \X BOOLEAN
      BY <2>1, ConstantsAssumption
    <3>2. install = <<install[1], install[2]>>
      BY <3>1
    <3> QED BY <2>1, <3>2
  <2>3. daemon \in [Daemons -> DaemonStates] /\ engine \in [Daemons -> EngineStates]
    BY OffIs, NoEngineIs DEF Init
  <2>4. cli \in [Clis -> CliStates]
    BY IdleIs DEF Init
  <2>5. \A d \in Daemons : engine[d].st = "none"
    BY NoEngineIs DEF Init
  <2>6. cfg \in Configs /\ excused \in BOOLEAN
    BY <1>1 DEF Init, Configs
  <2>7. unit = "inactive" /\ hooks = {} /\ left = {} /\ sock = "absent"
    BY DEF Init
  <2> QED BY <2>2, <2>3, <2>4, <2>5, <2>6, <2>7 DEF TypeOK
<1>3. \A d \in Daemons : Sound(d)
  BY OffIs, NoEngineIs DEF Init, Sound
<1>4. \A c \in Clis : Placed(cli[c])
  BY IdleIs DEF Init, Placed
<1> QED BY <1>2, <1>3, <1>4 DEF FInv

LEMMA FInvNext == FInv /\ [Next]_vars => FInv'
<1> SUFFICES ASSUME FInv, [Next]_vars PROVE FInv'
  OBVIOUS
<1>1. CASE LogsIn \/ Restarts
  BY <1>1, LaunchesKeep
<1>2. CASE SeesExit
  BY <1>2, SeesExitKeeps
<1>3. ASSUME NEW d \in Daemons,
             DaemonSteps(d) \/ DaemonKilled(d) \/ EngineReads(d) \/ EngineBinds(d) \/ EngineExits(d)
      PROVE  FInv'
  BY <1>3, DaemonStepsKeeps, DaemonKilledKeeps, EngineStepsKeep
<1>4. ASSUME NEW c \in Clis, CliSteps(c) PROVE FInv'
  BY <1>4, CliStepsKeep
<1>5. ASSUME NEW c \in Clis, NEW op \in Ops, NEW mode \in Modes \cup {"unread"},
             (op = "mode" <=> mode # "unread") /\ Command(c, op, mode)
      PROVE  FInv'
  BY <1>5, CommandKeeps
<1>6. CASE UNCHANGED vars
  BY <1>6 DEF vars, FInv, TypeOK, Sound, Placed, HasManager
<1> QED BY <1>1, <1>2, <1>3, <1>4, <1>5, <1>6 DEF Next

\* With any number of supervisors, an engine that lives has a supervisor that keeps it,
\* or none at all; under a manager, which knows one supervisor, none is left by itself
\* (daemon/mod.rs run; systemd's unit, launchd's job).
THEOREM EnginesAreKept == Spec => []FInv
BY FInvInit, FInvNext, PTL DEF Spec

(***************************************************************************)
(* Stops leave no engine and tell the truth.                               *)
(***************************************************************************)
LEMMA InstallStays == [Next]_vars => UNCHANGED <<platform, marker>>
<1> SUFFICES ASSUME [Next]_vars PROVE UNCHANGED <<platform, marker>>
  OBVIOUS
<1>1. ASSUME NEW d \in Daemons,
             DaemonSteps(d) \/ DaemonKilled(d) \/ EngineReads(d) \/ EngineBinds(d) \/ EngineExits(d)
      PROVE  UNCHANGED <<platform, marker>>
  BY <1>1 DEF DaemonSteps, DaemonKilled, Preflight, Unlink, Bind, AddHook, AddCodexHook, Spawn,
              NoticesExit, BeginsStop, GracefulStop, Joins, RemoveHook, RemoveCodexHook, EngineReads,
              EngineBinds, EngineExits
<1>2. ASSUME NEW c \in Clis, CliSteps(c) PROVE UNCHANGED <<platform, marker>>
  BY <1>2 DEF CliSteps, Snapshot, WritesMode, StopsUnit, UnloadsJob, StopReturns, AsksStatus,
              SendsStop, SupervisorGone, ForceKills, Sweeps, SweepFails, ReAdds, StartsUnit, LoadsJob,
              StartsLauncher, Awaited
<1>3. ASSUME NEW c, NEW op, NEW mode, Command(c, op, mode) PROVE UNCHANGED <<platform, marker>>
  BY <1>3 DEF Command
<1> QED BY <1>1, <1>2, <1>3 DEF Next, SeesExit, Restarts, LogsIn, vars

\* The last step of a supervisor, however it ends.
LEMMA LastStep ==
  ASSUME FInv, NEW d \in Daemons, NEW x \in Daemons, DaemonSteps(x),
         daemon[d].pc # "off", daemon'[d].pc = "off", Alive(engine'[d])
  PROVE  StartFails(d)
<1>1. CASE x # d
  <2>1. daemon'[d] = daemon[d]
    <3>1. \/ \E code : Exits(x, code)
          \/ \E pc : Goes(x, pc)
          \/ AddCodexHook(x) \/ NoticesExit(x) \/ BeginsStop(x) \/ GracefulStop(x)
      BY DEF DaemonSteps, Preflight, Unlink, Bind, AddHook, Spawn, SpawnSucceeds, SpawnFails,
             StartFails, Joins, RemoveHook, RemoveCodexHook, Fails
    <3>2. CASE AddCodexHook(x) \/ NoticesExit(x) \/ BeginsStop(x) \/ GracefulStop(x)
      BY <1>1, <3>2, AddCodexHookIs, NoticesExitIs, BeginsStopIs, GracefulStopIs
    <3>3. CASE (\E code : Exits(x, code)) \/ \E pc : Goes(x, pc)
      BY <1>1, <3>3, TypedNow DEF Exits, Goes
    <3> QED BY <3>1, <3>2, <3>3
  <2> QED BY <2>1
<1>2. CASE x = d
  <2>1. CASE Preflight(d) \/ Unlink(d) \/ Bind(d) \/ AddHook(d) \/ (SpawnFails(d) /\ Spawn(d))
    <3>1. engine' = engine
      BY <2>1 DEF Preflight, Unlink, Bind, AddHook, SpawnFails
    <3>2. ~Alive(engine[d])
      BY <2>1, EarlyIsNone DEF Preflight, Unlink, Bind, AddHook, Spawn
    <3> QED BY <3>1, <3>2 DEF Alive
  <2>2. CASE AddCodexHook(d) \/ NoticesExit(d) \/ BeginsStop(d) \/ GracefulStop(d)
    BY <2>2, AddCodexHookIs, NoticesExitIs, BeginsStopIs, GracefulStopIs
  <2>3. CASE SpawnSucceeds(d) \/ Joins(d) \/ RemoveHook(d)
    BY <2>3, TypedNow, GoesIs DEF SpawnSucceeds, Joins, RemoveHook
  <2>4. CASE RemoveCodexHook(d)
    BY <2>4, RemoveCodexHookIs, NoEngineIs
  <2> QED BY <1>2, <2>1, <2>2, <2>3, <2>4 DEF DaemonSteps, Spawn
<1> QED BY <1>1, <1>2

LEMMA EndLeavesNone ==
  ASSUME FInv, FInv', [Next]_vars, NEW d \in Daemons,
         daemon[d].pc # "off", daemon'[d].pc = "off", Alive(engine'[d])
  PROVE  ~HasManager /\ (DaemonKilled(d) \/ StartFails(d) \/ \E c \in Clis : ForceKills(c))
<1>1. ~HasManager
  BY InstallStays DEF FInv, Sound, HasManager
<1>2. ASSUME NEW x \in Daemons, DaemonKilled(x) PROVE x = d
  BY <1>2, TypedNow, FailsIs, ExitsIs DEF DaemonKilled
<1>3. ASSUME NEW x \in Daemons, EngineReads(x) \/ EngineBinds(x) \/ EngineExits(x) PROVE FALSE
  <2>1. daemon' = daemon
    BY <1>3 DEF EngineReads, EngineBinds, EngineExits
  <2> QED BY <2>1
<1>4. ASSUME NEW c \in Clis, CliSteps(c), ~ForceKills(c) PROVE FALSE
  <2>1. CASE UNCHANGED daemon
    BY <2>1
  <2>2. CASE ManagerStops
    <3>1. d = Main /\ DiesOfTerm(Main) /\ engine'[d].st = engine[d].st
      BY <2>2, ManagerStopsIs
    <3>2. engine[d].st = "none"
      BY <3>1, EarlyIsNone DEF DiesOfTerm
    <3> QED BY <3>1, <3>2 DEF Alive
  <2>3. CASE SendsStop(c)
    <3>1. daemon'[d].pc = daemon[d].pc
      BY <2>3, SendsStopIs
    <3> QED BY <3>1
  <2>4. CASE \E x \in Daemons : Launch(x)
    BY <2>4, LaunchIs
  <2> QED BY <1>4, <2>1, <2>2, <2>3, <2>4, MainIs
          DEF CliSteps, Snapshot, WritesMode, StopReturns, AsksStatus, SupervisorGone, Sweeps,
              SweepFails, ReAdds, Awaited, StopsUnit, UnloadsJob, StartsUnit, LoadsJob,
              StartsLauncher, ManagerLaunches, LaunchesNothing
<1>5. CASE SeesExit
  <2>1. daemon'[d].pc = daemon[d].pc
    BY <1>5, SeesExitIs
  <2> QED BY <2>1
<1>6. CASE LogsIn \/ Restarts
  <2>1. Launch(Main)
    BY <1>6 DEF LogsIn, Restarts
  <2> QED BY <2>1, MainIs, LaunchIs
<1>7. ASSUME NEW c, NEW op, NEW mode, Command(c, op, mode) PROVE FALSE
  BY <1>7 DEF Command
<1>8. ~ UNCHANGED vars
  BY DEF vars
<1> QED BY <1>1, <1>2, <1>3, <1>4, <1>5, <1>6, <1>7, <1>8, LastStep DEF Next

\* Where a command's stop ends.
LEMMA StopEnds ==
  ASSUME FInv, [Next]_vars, NEW c \in Clis, cli[c].pc \in {"stopping", "exit", "sweep"},
         cli'[c].pc \in {"idle", "readd"}
  PROVE  StopReturns(c) \/ SupervisorGone(c) \/ Sweeps(c) \/ SweepFails(c)
<1>1. cli'[c].pc # cli[c].pc
  OBVIOUS
<1>2. ASSUME NEW d \in Daemons,
             DaemonSteps(d) \/ DaemonKilled(d) \/ EngineReads(d) \/ EngineBinds(d) \/ EngineExits(d)
      PROVE  FALSE
  <2>1. cli' = cli \/ Left(d)
    BY <1>2 DEF DaemonSteps, DaemonKilled, Preflight, Unlink, Bind, AddHook, AddCodexHook, Spawn,
                SpawnSucceeds, SpawnFails, StartFails, NoticesExit, BeginsStop, GracefulStop, Joins,
                RemoveHook, RemoveCodexHook, Fails, Exits, EngineReads, EngineBinds, EngineExits
  <2>2. CliWaits
    BY <2>1, TypedNow, LeftIs
  <2> QED BY <1>1, <2>2 DEF CliWaits
<1>3. ~(SeesExit \/ LogsIn \/ Restarts \/ UNCHANGED vars)
  BY <1>1 DEF SeesExit, LogsIn, Restarts, vars
<1>4. ASSUME NEW x \in Clis, NEW op, NEW mode, Command(x, op, mode) PROVE FALSE
  <2>1. x = c
    BY <1>1, <1>4, TypedNow DEF Command
  <2> QED BY <1>4, <2>1 DEF Command
<1>5. ASSUME NEW x \in Clis, CliSteps(x), ~ForceKills(x) PROVE x = c
  <2>1. \A y \in Clis : y # x => cli'[y] = cli[y]
    BY <1>5, TypedNow
       DEF CliSteps, Snapshot, Looks, WritesMode, StopsUnit, UnloadsJob, StopReturns, AsksStatus,
           SendsStop, SupervisorGone, Sweeps, SweepFails, ReAdds, StartsUnit, LoadsJob, StartsLauncher,
           Awaited, CliGoes, CliEnds, CliFails, AfterStop, StopsNothing, ManagerLaunches
  <2> QED BY <1>1, <2>1
<1>6. ASSUME NEW x \in Clis, ForceKills(x) PROVE FALSE
  BY <1>1, <1>6, ForceKillsIs
<1>7. CliSteps(c)
  BY <1>2, <1>3, <1>4, <1>5, <1>6 DEF Next, CliSteps
<1> QED BY <1>6, <1>7
        DEF CliSteps, Snapshot, WritesMode, StopsUnit, UnloadsJob, AsksStatus, SendsStop, ReAdds,
            StartsUnit, LoadsJob, StartsLauncher, Awaited

LEMMA ReportIsTrue ==
  ASSUME FInv, [Next]_vars, NEW c \in Clis, StopsWell(c), ~SweepFails(c)
  PROVE  /\ \A d \in cli[c].live : ~Alive(engine'[d])
         /\ Orphaned' = {} \/ cli[c].delivered
<1>1. StopReturns(c) \/ SupervisorGone(c) \/ Sweeps(c)
  BY StopEnds DEF StopsWell
<1>2. cli[c].live \subseteq Daemons
  BY TypedNow DEF CliStates
<1>3. CASE StopReturns(c)
  <2>1. /\ cli[c].pc = "stopping" /\ HasManager /\ unit # "stopping" /\ UNCHANGED <<daemon, engine>>
        /\ Placed(cli[c])
    BY <1>3 DEF StopReturns, FInv, Placed
  <2>2. cli[c].live = {}
    BY <2>1 DEF Placed
  <2>3. Orphaned' = {}
    BY <2>1 DEF Orphaned, FInv, Sound
  <2> QED BY <2>2, <2>3
<1>4. CASE SupervisorGone(c)
  <2>1. cli[c].live = {}
    BY <1>4 DEF SupervisorGone
  <2>2. cli[c].delivered
    <3>1. SUFFICES ASSUME ~cli[c].delivered PROVE FALSE
      OBVIOUS
    <3>2. CliGoes(c, "sweep")
      BY <1>4, <3>1 DEF SupervisorGone
    <3>3. cli'[c].pc = "sweep"
      BY <3>2, CliGoesIs, TypedNow
    <3> QED BY <3>3 DEF StopsWell
  <2> QED BY <2>1, <2>2
<1>5. CASE Sweeps(c)
  <2>1. \A d \in Daemons : ~Alive(engine'[d])
    BY <1>5, KillsIs DEF Sweeps
  <2> QED BY <1>2, <2>1 DEF Orphaned
<1> QED BY <1>1, <1>3, <1>4, <1>5

\* With any number of supervisors, commands and faults, a supervisor leaves an engine
\* behind only if nothing manages it and it is killed or cannot start its threads, and a
\* stop that reports success leaves none of those it was to end, unless its sweep failed:
\* a supervisor that comes to its end has seen its engine gone, systemd and launchd take
\* it along, and the launcher's stop sweeps (graceful_stop, service_stop).
THEOREM StopsTellTheTruth == Spec => StopsLeaveNoEngine
<1>1. FInv /\ FInv' /\ [Next]_vars =>
        [\A d \in Daemons : daemon[d].pc # "off" /\ daemon'[d].pc = "off" /\ Alive(engine'[d]) =>
           /\ ~HasManager
           /\ DaemonKilled(d) \/ StartFails(d) \/ \E c \in Clis : ForceKills(c)]_vars
  BY EndLeavesNone
<1>2. FInv /\ [Next]_vars =>
        [\A c \in Clis : StopsWell(c) /\ ~SweepFails(c) =>
           /\ \A d \in cli[c].live : ~Alive(engine'[d])
           /\ Orphaned' = {} \/ cli[c].delivered]_vars
  BY ReportIsTrue
<1> QED BY <1>1, <1>2, EnginesAreKept, PTL
        DEF Spec, StopsLeaveNoEngine, NoOrphanEngine, StopReportsTruth

(***************************************************************************)
(* One supervisor: the hooks.                                              *)
(***************************************************************************)
\* What the commands have put back stays put back, and they put Codex's hook back only
\* if it is enabled.
Held ==
  /\ PutBack \subseteq PutBack'
  /\ \A c \in Clis : "codex" \in cli'[c].restore => marker

LEMMA CliWaitsHolds == ASSUME HooksKept, CliWaits PROVE Held
<1>1. \A c \in Clis : cli'[c].pc = cli[c].pc /\ cli'[c].restore = cli[c].restore
  BY DEF CliWaits
<1>2. PutBack \subseteq PutBack'
  BY <1>1 DEF PutBack
<1> QED BY <1>1, <1>2 DEF HooksKept, Held

\* A command that is not about to start the service moves.
LEMMA MovesHolds ==
  ASSUME FInv, HooksKept, NEW c \in Clis, NEW s \in CliStates, cli' = [cli EXCEPT ![c] = s],
         cli[c].pc # "start", "codex" \in s.restore => marker
  PROVE  Held
<1>1. cli'[c] = s /\ \A x \in Clis : x # c => cli'[x] = cli[x]
  BY TypedNow
<1>2. ASSUME NEW a \in PutBack PROVE a \in PutBack'
  <2>1. PICK x \in Clis : cli[x].pc = "start" /\ a \in cli[x].restore
    BY DEF PutBack
  <2>2. cli'[x].pc = "start" /\ a \in cli'[x].restore
    BY <1>1, <2>1
  <2> QED BY <2>2 DEF PutBack
<1>3. \A x \in Clis : "codex" \in cli'[x].restore => marker
  BY <1>1 DEF HooksKept
<1> QED BY <1>2, <1>3 DEF Held

LEMMA HooksBy ==
  ASSUME HooksKept, Held, marker' = marker, "codex" \in hooks' => "codex" \in hooks \/ marker,
         daemon'[Main].pc \in {"codex", "spawn", "run", "wait", "join"} => "claude" \in hooks',
         hooks' \subseteq left' \cup Charge(daemon[Main])' \cup PutBack
  PROVE  HooksKept'
BY DEF HooksKept, Held

\* The supervisor stays where it is.
LEMMA HooksStay ==
  ASSUME HooksKept, Held, marker' = marker, daemon'[Main].pc = daemon[Main].pc,
         daemon'[Main].managed = daemon[Main].managed, UNCHANGED <<hooks, left>>
  PROVE  HooksKept'
<1>1. Charge(daemon[Main])' = Charge(daemon[Main])
  BY DEF Charge
<1> QED BY <1>1, HooksBy DEF HooksKept

\* A supervisor is gone, and has left what is hooked.
LEMMA HooksLeft ==
  ASSUME HooksKept, Held, marker' = marker, daemon'[Main].pc = "off",
         hooks' \subseteq hooks, hooks' \subseteq left' \cup PutBack
  PROVE  HooksKept'
BY HooksBy

\* A supervisor is on its way to register the hooks.
LEMMA HooksMet ==
  ASSUME FInv, HooksKept, daemon'[Main].pc \in {"preflight", "unlink", "bind", "hook"},
         marker' = marker, hooks' = hooks, \A c \in Clis : "codex" \in cli'[c].restore => marker
  PROVE  HooksKept'
<1>1. Charge(daemon[Main])' = HookNames
  BY DEF Charge, HookNames
<1> QED BY <1>1, TypedNow DEF HooksKept

LEMMA DaemonStepsHooks ==
  ASSUME FInv, OneDaemon, HooksKept, DaemonSteps(Main), marker' = marker PROVE HooksKept'
<1>0. Held
  <2>1. cli' = cli \/ \E code \in {0, 1} : Exits(Main, code)
    BY MainIs, FailsIs, RemoveCodexHookIs
       DEF DaemonSteps, Preflight, Unlink, Bind, AddHook, AddCodexHook, Spawn, SpawnSucceeds,
           SpawnFails, StartFails, NoticesExit, BeginsStop, GracefulStop, Joins, RemoveHook
  <2>2. CliWaits
    BY <2>1, MainIs, TypedNow, ExitsIs
  <2> QED BY <2>2, CliWaitsHolds
<1>1. CASE Preflight(Main) \/ Unlink(Main) \/ Bind(Main)
  <2>1. /\ hooks' = hooks
        /\ \/ Fails(Main) \/ Goes(Main, "unlink") \/ Goes(Main, "bind") \/ Goes(Main, "hook")
    <3>1. ~(daemon[Main].pc = "preflight" /\ HasLivePeer)
      BY TypedNow DEF HasLivePeer, Listening, OneDaemon
    <3> QED BY <1>1, <3>1 DEF Preflight, Unlink, Bind
  <2>2. CASE Fails(Main)
    BY <1>0, <2>1, <2>2, FailsIs, MainIs, TypedNow, ExitsIs, HooksLeft
  <2>3. CASE Goes(Main, "unlink") \/ Goes(Main, "bind") \/ Goes(Main, "hook")
    <3>1. daemon'[Main].pc \in {"unlink", "bind", "hook"}
      BY <2>3, MainIs, TypedNow, GoesIs
    <3> QED BY <1>0, <2>1, <3>1, HooksMet DEF Held
  <2> QED BY <2>1, <2>2, <2>3
<1>2. CASE AddHook(Main)
  <2>1. CASE Fails(Main) /\ UNCHANGED hooks
    BY <1>0, <2>1, FailsIs, MainIs, TypedNow, ExitsIs, HooksLeft
  <2>2. CASE Adds("claude") /\ Goes(Main, "codex")
    <3>1. daemon'[Main].pc = "codex"
      BY <2>2, MainIs, TypedNow, GoesIs
    <3>2. Charge(daemon[Main])' = HookNames
      BY <3>1 DEF Charge, HookNames
    <3>3. "claude" \in hooks' /\ hooks' \subseteq HookNames /\ ("codex" \in hooks' => "codex" \in hooks)
      BY <2>2, TypedNow DEF Adds, HookNames
    <3> QED BY <1>0, <3>1, <3>2, <3>3, HooksBy
  <2> QED BY <1>2, <2>1, <2>2 DEF AddHook
<1>3. CASE AddCodexHook(Main)
  <2>1. "claude" \in hooks /\ ("codex" \in hooks => marker)
    BY <1>3 DEF AddCodexHook, HooksKept
  <2>2. daemon'[Main].pc = "spawn" /\ daemon'[Main].managed = marker
    BY <1>3, MainIs, AddCodexHookIs
  <2>3. "claude" \in hooks' /\ hooks' \subseteq {"claude"} \cup (IF marker THEN {"codex"} ELSE {})
    BY <1>3, <2>1, TypedNow DEF AddCodexHook, Adds, HookNames
  <2>4. Charge(daemon[Main])' = {"claude"} \cup (IF marker THEN {"codex"} ELSE {})
    BY <2>2 DEF Charge
  <2> QED BY <1>0, <2>2, <2>3, <2>4, HooksBy
<1>4. CASE Spawn(Main)
  <2>1. "claude" \in hooks /\ hooks \subseteq left \cup Managed(Main) \cup PutBack
    BY <1>4 DEF Spawn, HooksKept, Charge, Managed
  <2>2. CASE SpawnFails(Main)
    <3>1. hooks' \subseteq hooks /\ hooks' \subseteq left' \cup PutBack /\ Exits(Main, 1)
      BY <2>1, <2>2 DEF SpawnFails
    <3> QED BY <1>0, <3>1, MainIs, TypedNow, ExitsIs, HooksLeft
  <2>3. CASE SpawnSucceeds(Main)
    <3>1. daemon'[Main].pc = "run" /\ daemon'[Main].managed = daemon[Main].managed
          /\ UNCHANGED <<hooks, left>>
      BY <2>3, MainIs, TypedNow, GoesIs DEF SpawnSucceeds
    <3>2. Charge(daemon[Main])' = Managed(Main)
      BY <3>1 DEF Charge, Managed
    <3> QED BY <1>0, <2>1, <3>1, <3>2, HooksBy
  <2>4. CASE StartFails(Main)
    <3>1. hooks' = hooks /\ left' = hooks /\ Exits(Main, 1)
      BY <2>4, MainIs, FailsIs DEF StartFails
    <3> QED BY <1>0, <3>1, MainIs, TypedNow, ExitsIs, HooksLeft
  <2> QED BY <1>4, <2>2, <2>3, <2>4 DEF Spawn
<1>5. CASE NoticesExit(Main) \/ BeginsStop(Main) \/ GracefulStop(Main) \/ Joins(Main)
  <2>1. daemon[Main].pc \in {"run", "wait", "join"} /\ UNCHANGED <<hooks, left>>
    BY <1>5 DEF NoticesExit, BeginsStop, GracefulStop, Joins
  <2>2. daemon'[Main].pc \in {"wait", "join", "unhook"} /\ daemon'[Main].managed = daemon[Main].managed
    BY <1>5, MainIs, TypedNow, NoticesExitIs, BeginsStopIs, GracefulStopIs, GoesIs DEF Joins
  <2>3. Charge(daemon[Main])' = Charge(daemon[Main])
    BY <2>1, <2>2 DEF Charge
  <2> QED BY <1>0, <2>1, <2>3, HooksBy DEF HooksKept
<1>6. CASE RemoveHook(Main)
  <2>1. daemon[Main].pc = "unhook" /\ Goes(Main, "uncodex")
    BY <1>6 DEF RemoveHook
  <2>2. daemon'[Main].pc = "uncodex" /\ daemon'[Main].managed = daemon[Main].managed
    BY <2>1, MainIs, TypedNow, GoesIs
  <2>3. PICK codex : codex = IF daemon[Main].managed THEN {"codex"} ELSE {}
    OBVIOUS
  <2>4. hooks \subseteq left \cup {"claude"} \cup codex \cup PutBack
    BY <2>1, <2>3 DEF HooksKept, Charge
  <2>5. hooks' \subseteq hooks /\ hooks' \subseteq left' \cup codex \cup PutBack
    BY <1>6, <2>4 DEF RemoveHook, Removes
  <2>6. Charge(daemon[Main])' = codex
    BY <2>2, <2>3 DEF Charge
  <2> QED BY <1>0, <2>2, <2>5, <2>6, HooksBy
<1>7. CASE RemoveCodexHook(Main)
  <2>1. hooks \subseteq left \cup (IF daemon[Main].managed THEN {"codex"} ELSE {}) \cup PutBack
    BY <1>7 DEF RemoveCodexHook, HooksKept, Charge
  <2>2. hooks' \subseteq hooks /\ hooks' \subseteq left' \cup PutBack
    BY <1>7, <2>1 DEF RemoveCodexHook, Removes
  <2>3. daemon'[Main].pc = "off"
    BY <1>7, MainIs, TypedNow, RemoveCodexHookIs, ExitsIs
  <2> QED BY <1>0, <2>2, <2>3, HooksLeft
<1> QED BY <1>1, <1>2, <1>3, <1>4, <1>5, <1>6, <1>7 DEF DaemonSteps

Starts(c) == StartsUnit(c) \/ LoadsJob(c) \/ StartsLauncher(c)

LEMMA CliMovesOn ==
  ASSUME FInv, HooksKept, NEW c \in Clis, CliSteps(c), ~ForceKills(c), ~Starts(c) PROVE Held
<1> DEFINE Moves == \E s \in CliStates : cli' = [cli EXCEPT ![c] = s] /\ ("codex" \in s.restore => marker)
<1>1. "codex" \in cli[c].restore => marker
  BY DEF HooksKept
<1>2. cli[c].pc # "start" /\ Moves => Held
  BY MovesHolds
<1>3. CliEnds(c) \/ CliFails(c) \/ AfterStop(c) \/ CliGoes(c, "sweep") => Moves
  BY <1>1, IdleIs, AfterStopIs, CliGoesIs, TypedNow DEF CliEnds, CliFails
<1>4. Snapshot(c) \/ WritesMode(c) => cli[c].pc # "start" /\ Moves
  BY <1>1, <1>3, SnapshotIs, WritesModeIs DEF Snapshot, WritesMode
<1>5. CASE StopsUnit(c) \/ UnloadsJob(c)
  <2>1. HasManager /\ cli[c].pc # "start" /\ UNCHANGED <<platform, marker, sock, hooks, cfg>>
    BY <1>5 DEF StopsUnit, UnloadsJob, HasManager
  <2>2. CASE ManagerStops /\ cli' = [cli EXCEPT ![c].pc = "stopping", ![c].live = Running]
             /\ UNCHANGED excused
    BY <1>1, <1>2, <2>1, <2>2, ManagerStopsKeeps
  <2>3. CASE AfterStop(c) \/ CliFails(c)
    BY <1>2, <1>3, <2>1, <2>3
  <2> QED BY <1>5, <2>2, <2>3 DEF StopsUnit, UnloadsJob, StopsNothing
<1>6. StopReturns(c) \/ SupervisorGone(c) \/ Sweeps(c) \/ SweepFails(c) \/ Awaited(c)
        => cli[c].pc # "start" /\ Moves
  BY <1>3 DEF StopReturns, SupervisorGone, Sweeps, SweepFails, StopsNothing, Awaited
<1>7. AsksStatus(c) \/ SendsStop(c) \/ ReAdds(c) => cli[c].pc # "start" /\ Moves
  BY <1>1, AsksStatusIs, SendsStopIs, ReAddsIs DEF AsksStatus, SendsStop, ReAdds
<1> QED BY <1>2, <1>4, <1>5, <1>6, <1>7 DEF CliSteps, Starts

LEMMA CliStepsHooks ==
  ASSUME FInv, OneDaemon, HooksKept, NEW c \in Clis, CliSteps(c), marker' = marker PROVE HooksKept'
<1>1. CASE UNCHANGED <<daemon, hooks, left>> /\ Held
  BY <1>1, HooksStay
<1>2. CASE StopsUnit(c) \/ UnloadsJob(c)
  <2>1. Held
    BY <1>2, CliMovesOn DEF StopsUnit, UnloadsJob, ForceKills, Starts, StartsUnit, LoadsJob, StartsLauncher
  <2>2. CASE ManagerStops /\ hooks' = hooks
    <3>1. CASE daemon'[Main].pc = "off" /\ left' = hooks
      BY <2>1, <2>2, <3>1, HooksLeft
    <3>2. CASE daemon'[Main].pc = daemon[Main].pc /\ daemon'[Main].managed = daemon[Main].managed
               /\ left' = left
      BY <2>1, <2>2, <3>2, HooksStay
    <3> QED BY <2>2, <3>1, <3>2, ManagerStopsIs
  <2> QED BY <1>1, <1>2, <2>1, <2>2 DEF StopsUnit, UnloadsJob
<1>3. CASE SendsStop(c)
  <2>1. UNCHANGED <<hooks, left>> /\ Held
    BY <1>3, CliMovesOn DEF SendsStop, ForceKills, Starts, StartsUnit, LoadsJob, StartsLauncher
  <2> QED BY <1>3, <2>1, MainIs, SendsStopIs, HooksStay
<1>4. CASE ForceKills(c)
  <2>1. PICK killed \in {{}, cli[c].live} :
          /\ cli[c].pc = "exit" /\ cli[c].live # {} /\ cli'[c].pc = "sweep"
          /\ \A x \in Clis : (x # c => cli'[x].pc = cli[x].pc) /\ cli'[x].restore = cli[x].restore
          /\ \A d \in Daemons : IF d \in killed THEN daemon'[d].pc = "off" ELSE daemon'[d] = daemon[d]
          /\ left' = IF killed = {} THEN left ELSE hooks
    BY <1>4, ForceKillsIs
  <2>2. Held
    <3>1. PutBack \subseteq PutBack'
      BY <2>1 DEF PutBack
    <3> QED BY <2>1, <3>1 DEF Held, HooksKept
  <2>3. hooks' = hooks
    BY <1>4 DEF ForceKills
  <2>4. CASE killed = {}
    BY <2>1, <2>2, <2>3, <2>4, MainIs, HooksStay
  <2>5. CASE killed = cli[c].live /\ killed # {}
    <3>1. Main \in killed
      BY <2>1, <2>5, TypedNow DEF OneDaemon, CliStates
    <3> QED BY <2>1, <2>2, <2>3, <2>5, <3>1, MainIs, HooksLeft
  <2> QED BY <2>1, <2>4, <2>5
<1>5. CASE ReAdds(c)
  <2>1. daemon' = daemon /\ cli[c].pc # "start"
    BY <1>5 DEF ReAdds
  <2>2. PICK s \in CliStates : /\ cli' = [cli EXCEPT ![c] = s] /\ s.pc = "start"
                               /\ s.restore = cli[c].restore
    BY <1>5, ReAddsIs
  <2>3. PICK added \in SUBSET cli[c].restore : hooks' = hooks \cup added /\ left' = left \ added
    BY <1>5, ReAddsIs
  <2>4. Held /\ added \subseteq PutBack'
    <3>1. cli'[c] = s
      BY <2>2, TypedNow
    <3>2. added \subseteq PutBack'
      BY <2>2, <3>1 DEF PutBack
    <3> QED BY <2>1, <2>2, <3>2, MovesHolds DEF HooksKept
  <2>5. "codex" \in hooks' => marker
    BY <2>3 DEF HooksKept
  <2>6. hooks' \subseteq left' \cup Charge(daemon[Main]) \cup PutBack'
    BY <2>3, <2>4 DEF HooksKept, Held
  <2> QED BY <2>1, <2>3, <2>4, <2>5, <2>6 DEF HooksKept, Held
<1>6. CASE Starts(c)
  <2>1. cli[c].pc = "start" /\ hooks' = hooks
    BY <1>6 DEF Starts, StartsUnit, LoadsJob, StartsLauncher
  <2>2. PICK s \in CliStates : cli' = [cli EXCEPT ![c] = s] /\ s.restore \subseteq cli[c].restore
    <3>1. CliEnds(c) \/ CliFails(c) \/ CliGoes(c, "await")
      BY <1>6 DEF Starts, StartsUnit, LoadsJob, StartsLauncher, ManagerLaunches
    <3> QED BY <3>1, IdleIs, TypedNow, CliGoesIs DEF CliEnds, CliFails
  <2>3. /\ cli'[c] = s /\ \A x \in Clis : x # c => cli'[x] = cli[x]
        /\ \A x \in Clis : "codex" \in cli'[x].restore => marker
    BY <2>2, TypedNow DEF HooksKept
  <2>4. CASE \E d \in Daemons : Launch(d)
    <3>1. Launch(Main)
      BY <2>4 DEF OneDaemon
    <3>2. daemon'[Main].pc = "preflight"
      BY <3>1, MainIs, LaunchIs
    <3> QED BY <2>1, <2>3, <3>2, HooksMet
  <2>5. CASE LaunchesNothing(c)
    <3>1. UNION {Charge(daemon[d]) : d \in Daemons} = Charge(daemon[Main])
      BY DEF OneDaemon
    <3>2. left' = left \cup ((cli[c].restore \cap hooks) \ Charge(daemon[Main])) /\ daemon' = daemon
      BY <2>5, <3>1 DEF LaunchesNothing
    <3>3. ASSUME NEW a \in PutBack PROVE a \in PutBack' \cup cli[c].restore
      <4>1. PICK x \in Clis : cli[x].pc = "start" /\ a \in cli[x].restore
        BY DEF PutBack
      <4>2. CASE x # c
        <5>1. cli'[x].pc = "start" /\ a \in cli'[x].restore
          BY <2>3, <4>1, <4>2
        <5> QED BY <5>1 DEF PutBack
      <4> QED BY <4>1, <4>2
    <3>4. hooks' \subseteq left' \cup Charge(daemon[Main])' \cup PutBack'
      BY <2>1, <3>2, <3>3 DEF HooksKept
    <3> QED BY <2>1, <2>3, <3>2, <3>4 DEF HooksKept
  <2> QED BY <1>6, <2>4, <2>5, MainIs DEF Starts, StartsUnit, LoadsJob, StartsLauncher, ManagerLaunches
<1>7. CASE /\ Snapshot(c) \/ WritesMode(c) \/ StopReturns(c) \/ AsksStatus(c) \/ SupervisorGone(c)
              \/ Sweeps(c) \/ SweepFails(c) \/ Awaited(c)
           /\ ~ForceKills(c) /\ ~Starts(c)
  <2>1. UNCHANGED <<daemon, hooks, left>>
    BY <1>7 DEF Snapshot, WritesMode, StopReturns, AsksStatus, SupervisorGone, Sweeps, SweepFails, Awaited
  <2> QED BY <1>1, <1>7, <2>1, CliMovesOn
<1> QED BY <1>2, <1>3, <1>4, <1>5, <1>6, <1>7 DEF CliSteps, Starts

LEMMA HooksKeptNext ==
  ASSUME FInv, OneDaemon, HooksKept, [Next]_vars PROVE HooksKept'
<1>0. marker' = marker /\ (cli' = cli => Held)
  BY InstallStays, TypedNow, CliWaitsHolds
<1>1. ASSUME NEW d \in Daemons,
             DaemonSteps(d) \/ DaemonKilled(d) \/ EngineReads(d) \/ EngineBinds(d) \/ EngineExits(d)
      PROVE  HooksKept'
  <2>1. d = Main
    BY DEF OneDaemon
  <2>2. CASE DaemonKilled(d)
    <3>1. Exits(Main, 1) /\ left' = hooks /\ hooks' = hooks
      BY <2>1, <2>2, FailsIs DEF DaemonKilled
    <3> QED BY <1>0, <3>1, MainIs, TypedNow, ExitsIs, CliWaitsHolds, HooksLeft
  <2>3. CASE UNCHANGED <<daemon, hooks, left, cli>>
    BY <1>0, <2>3, HooksStay
  <2> QED BY <1>0, <1>1, <2>1, <2>2, <2>3, DaemonStepsHooks DEF EngineReads, EngineBinds, EngineExits
<1>2. CASE SeesExit
  <2>1. daemon'[Main].pc = "off" /\ daemon[Main].pc = "off" /\ UNCHANGED <<hooks, left, cli>>
    BY <1>2, MainIs, SeesExitIs DEF SeesExit
  <2> QED BY <1>0, <2>1, HooksLeft DEF HooksKept, Charge
<1>3. CASE LogsIn \/ Restarts
  <2>1. Launch(Main) /\ UNCHANGED <<hooks, cli>>
    BY <1>3 DEF LogsIn, Restarts
  <2>2. daemon'[Main].pc = "preflight"
    BY <2>1, MainIs, LaunchIs
  <2> QED BY <1>0, <2>1, <2>2, HooksMet DEF HooksKept
<1>4. ASSUME NEW c \in Clis, NEW op \in Ops, NEW mode \in Modes \cup {"unread"}, Command(c, op, mode)
      PROVE  HooksKept'
  <2>1. cli[c].pc # "start" /\ UNCHANGED <<daemon, hooks, left>>
    BY <1>4 DEF Command
  <2>2. \E s \in CliStates : cli' = [cli EXCEPT ![c] = s] /\ s.restore = {}
    BY <1>4, CommandIs
  <2>3. Held
    BY <2>1, <2>2, MovesHolds
  <2> QED BY <1>0, <2>1, <2>3, HooksStay
<1>5. CASE UNCHANGED vars
  BY <1>0, <1>5, HooksStay DEF vars
<1> QED BY <1>0, <1>1, <1>2, <1>3, <1>4, <1>5, CliStepsHooks DEF Next

(***************************************************************************)
(* One supervisor: the mode.                                               *)
(***************************************************************************)
\* A command moves, and an engine that is still outdated was so before.
LEMMA ModeByCli ==
  ASSUME FInv, ModeKept, NEW c \in Clis, NEW s \in CliStates, cli' = [cli EXCEPT ![c] = s],
         Outdated' => Outdated, Outdated' /\ WillRestart(cli[c]) => WillRestart(s)
  PROVE  ModeKept'
<1> SUFFICES ASSUME Outdated' PROVE \E x \in Clis : WillRestart(cli'[x])
  BY DEF ModeKept, WillRestart
<1>1. PICK x \in Clis : WillRestart(cli[x])
  BY DEF ModeKept
<1>2. cli'[c] = s /\ \A y \in Clis : y # c => cli'[y] = cli[y]
  BY TypedNow
<1>3. CASE x = c
  BY <1>1, <1>2, <1>3
<1>4. CASE x # c
  BY <1>1, <1>2, <1>4
<1> QED BY <1>3, <1>4

\* No command moves.
LEMMA ModeStays ==
  ASSUME ModeKept, cli' = cli, Outdated' => Outdated PROVE ModeKept'
BY DEF ModeKept, WillRestart

LEMMA ModeFresh == ASSUME ~Outdated' PROVE ModeKept'
BY DEF ModeKept

\* The engine and its supervisor are no more there than before.
LEMMA OutdatedWas ==
  ASSUME engine'[Main].st = engine[Main].st, engine'[Main].mode = engine[Main].mode, cfg' = cfg,
         excused => excused', daemon'[Main].pc # "off" => daemon[Main].pc # "off"
  PROVE  Outdated' => Outdated
BY DEF Outdated

LEMMA DaemonStepsMode ==
  ASSUME FInv, OneDaemon, ModeKept, DaemonSteps(Main) PROVE ModeKept'
<1>1. UNCHANGED <<cfg, excused>> /\ daemon[Main].pc # "off"
  BY DEF DaemonSteps, Preflight, Unlink, Bind, AddHook, AddCodexHook, Spawn, NoticesExit,
         BeginsStop, GracefulStop, Joins, RemoveHook, RemoveCodexHook
<1>2. CASE daemon'[Main].pc = "off"
  BY <1>2, ModeFresh DEF Outdated
<1>3. CASE \E code \in {0, 1} : Exits(Main, code)
  BY <1>2, <1>3, MainIs, TypedNow, ExitsIs
<1>9. CASE Fails(Main)
  BY <1>3, <1>9, MainIs, FailsIs
<1>4. CASE UNCHANGED <<engine, cli>>
  BY <1>1, <1>4, OutdatedWas, ModeStays
<1>5. CASE SpawnSucceeds(Main)
  <2>1. engine'[Main].st = "loading"
    BY <1>5, MainIs, TypedNow DEF SpawnSucceeds, NoEngine
  <2> QED BY <2>1, ModeFresh DEF Outdated
<1>6. CASE BeginsStop(Main)
  <2>1. cli' = cli
    BY <1>6 DEF BeginsStop
  <2> QED BY <1>1, <1>6, <2>1, MainIs, BeginsStopIs, OutdatedWas, ModeStays
<1>7. CASE GracefulStop(Main)
  BY <1>7, MainIs, GracefulStopIs, ModeFresh DEF Outdated
<1>8. CASE RemoveCodexHook(Main)
  BY <1>3, <1>8, MainIs, RemoveCodexHookIs
<1> QED BY <1>3, <1>4, <1>5, <1>6, <1>7, <1>8, <1>9
        DEF DaemonSteps, Preflight, Unlink, Bind, AddHook, AddCodexHook, Spawn, SpawnFails,
            StartFails, NoticesExit, Joins, RemoveHook

LEMMA EngineStepsMode ==
  ASSUME FInv, OneDaemon, ModeKept, EngineReads(Main) \/ EngineBinds(Main) \/ EngineExits(Main)
  PROVE  ModeKept'
<1>1. UNCHANGED <<daemon, cfg, cli>> /\ Main \in Daemons /\ engine[Main] \in EngineStates
  BY MainIs, TypedNow DEF EngineReads, EngineBinds, EngineExits
<1>2. ASSUME EngineReads(Main) PROVE ~Outdated'
  <2>1. PICK e : e = [engine[Main] EXCEPT !.st = "binding", !.mode = cfg]
    OBVIOUS
  <2>2. e.mode = cfg
    BY <1>1, <2>1 DEF EngineStates
  <2>3. engine'[Main] = e \/ engine'[Main] = DeadEngine(engine[Main], 1)
    BY <1>1, <1>2, <2>1, TypedNow DEF EngineReads
  <2>4. engine'[Main].st = "exited" \/ engine'[Main].mode = cfg
    BY <1>1, <2>2, <2>3, DeadIs
  <2> QED BY <1>1, <2>4 DEF Outdated
<1>3. ASSUME EngineBinds(Main) PROVE Outdated' => Outdated
  <2>1. PICK e : e = [engine[Main] EXCEPT !.st = "serving"]
    OBVIOUS
  <2>2. e.mode = engine[Main].mode
    BY <1>1, <2>1 DEF EngineStates
  <2>3. /\ engine'[Main] = e \/ engine'[Main] = DeadEngine(engine[Main], 1)
        /\ engine[Main].st = "binding" /\ excused' = excused
    BY <1>1, <1>3, <2>1, TypedNow DEF EngineBinds
  <2>4. engine'[Main].mode = engine[Main].mode
    BY <1>1, <2>2, <2>3, DeadIs
  <2> QED BY <1>1, <2>3, <2>4 DEF Outdated
<1>4. ASSUME EngineExits(Main) PROVE ~Outdated'
  <2>1. PICK code \in {0, 1} : engine'[Main] = DeadEngine(engine[Main], code)
    BY <1>1, <1>4, TypedNow DEF EngineExits
  <2>2. engine'[Main].st = "exited"
    BY <1>1, <2>1, DeadIs
  <2> QED BY <2>2 DEF Outdated
<1> QED BY <1>1, <1>2, <1>3, <1>4, ModeStays, ModeFresh

\* A command that is not stopping the service.
LEMMA CliLeavesMode ==
  ASSUME FInv, ModeKept, NEW c \in Clis, NEW s \in CliStates, cli' = [cli EXCEPT ![c] = s],
         UNCHANGED <<daemon, engine, cfg>>, excused => excused',
         ~WillRestart(cli[c]) \/ WillRestart(s) \/ excused'
  PROVE  ModeKept'
<1>1. Outdated' => Outdated
  BY OutdatedWas
<1>2. Outdated' => ~excused'
  BY DEF Outdated
<1> QED BY <1>1, <1>2, ModeByCli

\* A change that is not applied after all is excused.
LEMMA ExcusesMode ==
  ASSUME FInv, ModeKept, NEW c \in Clis, CliEnds(c) \/ AfterStop(c), Excuses(c), Outdated' => Outdated
  PROVE  ModeKept'
<1>1. PICK s \in CliStates : cli' = [cli EXCEPT ![c] = s]
  BY IdleIs, AfterStopIs, TypedNow DEF CliEnds
<1>2. ~WillRestart(cli[c]) \/ excused'
  BY DEF WillRestart, Excuses
<1>3. Outdated' => ~excused'
  BY DEF Outdated
<1> QED BY <1>1, <1>2, <1>3, ModeByCli

LEMMA CliFailsMode ==
  ASSUME FInv, ModeKept, NEW c \in Clis, CliFails(c) \/ StopsNothing(c),
         UNCHANGED <<daemon, engine, cfg>>
  PROVE  ModeKept'
<1>1. excused => excused'
  BY DEF CliFails, StopsNothing, Excuses
<1> QED BY <1>1, OutdatedWas, ExcusesMode DEF CliFails, StopsNothing

LEMMA CommandMode ==
  ASSUME FInv, ModeKept, NEW c \in Clis, NEW op \in Ops, NEW mode \in Modes \cup {"unread"},
         Command(c, op, mode)
  PROVE  ModeKept'
<1>1. PICK s \in CliStates : cli' = [cli EXCEPT ![c] = s]
  BY CommandIs
<1>2. ~WillRestart(cli[c]) /\ UNCHANGED <<daemon, engine, cfg, excused>>
  BY DEF Command, WillRestart
<1> QED BY <1>1, <1>2, CliLeavesMode

\* A stop that succeeds has ended the supervisor of the engine, or the engine.
LEMMA NoneUnderInactive ==
  ASSUME FInv, OneDaemon, HasManager, unit = "inactive", daemon' = daemon PROVE ~Outdated'
<1>1. daemon[Main].pc = "off"
  BY MainIs DEF FInv, Sound
<1> QED BY <1>1 DEF Outdated

LEMMA StopsMode ==
  ASSUME FInv, OneDaemon, ModeKept, NEW c \in Clis, StopsUnit(c) \/ UnloadsJob(c) PROVE ModeKept'
<1>1. cfg' = cfg /\ HasManager
  BY DEF StopsUnit, UnloadsJob, HasManager
<1>2. CASE (CliFails(c) \/ StopsNothing(c)) /\ UNCHANGED <<daemon, engine>>
  BY <1>1, <1>2, CliFailsMode
<1>3. CASE unit = "inactive" /\ UNCHANGED daemon
  BY <1>1, <1>3, NoneUnderInactive, ModeFresh
<1>4. CASE ManagerStops /\ cli' = [cli EXCEPT ![c].pc = "stopping", ![c].live = Running]
           /\ UNCHANGED excused
  <2>1. PICK s : s = [cli[c] EXCEPT !.pc = "stopping", !.live = Running]
    OBVIOUS
  <2>2. s \in CliStates /\ s.op = cli[c].op /\ s.pc = "stopping"
    BY <2>1, TypedNow DEF CliStates, Running
  <2>3. cli' = [cli EXCEPT ![c] = s]
    BY <1>4, <2>1, TypedNow
  <2>4. Outdated' => Outdated
    BY <1>1, <1>4, MainIs, ManagerStopsIs, OutdatedWas DEF DiesOfTerm
  <2>5. WillRestart(cli[c]) => WillRestart(s)
    BY <2>2 DEF WillRestart
  <2> QED BY <2>2, <2>3, <2>4, <2>5, ModeByCli
<1> QED BY <1>2, <1>3, <1>4 DEF StopsUnit, UnloadsJob

LEMMA CliStepsMode ==
  ASSUME FInv, OneDaemon, ModeKept, NEW c \in Clis, CliSteps(c) PROVE ModeKept'
<1>1. CASE Snapshot(c)
  <2>1. ~WillRestart(cli[c]) /\ UNCHANGED <<daemon, engine, cfg, excused>>
    BY <1>1 DEF Snapshot, WillRestart
  <2>2. \E s \in CliStates : cli' = [cli EXCEPT ![c] = s]
    BY <1>1, SnapshotIs
  <2> QED BY <2>1, <2>2, CliLeavesMode
<1>2. CASE WritesMode(c)
  <2>1. CASE excused' = TRUE
    BY <2>1, ModeFresh DEF Outdated
  <2>2. CASE \E s \in CliStates : cli' = [cli EXCEPT ![c] = s] /\ s.op = "mode" /\ s.pc = "stop"
    <3>1. PICK s \in CliStates : cli' = [cli EXCEPT ![c] = s] /\ s.op = "mode" /\ s.pc = "stop"
      BY <2>2
    <3>2. cli'[c] = s
      BY <3>1, TypedNow
    <3>3. WillRestart(cli'[c])
      BY <3>1, <3>2 DEF WillRestart
    <3> QED BY <3>3 DEF ModeKept
  <2> QED BY <1>2, <2>1, <2>2, WritesModeIs
<1>3. CASE StopReturns(c)
  <2>1. UNCHANGED <<daemon, engine, cfg>> /\ HasManager
    BY <1>3 DEF StopReturns, FInv, Placed
  <2>2. CASE unit = "inactive"
    BY <2>1, <2>2, NoneUnderInactive, ModeFresh
  <2>3. CASE CliFails(c)
    BY <2>1, <2>3, CliFailsMode
  <2> QED BY <1>3, <2>2, <2>3 DEF StopReturns
<1>4. CASE AsksStatus(c)
  <2>1. PICK s \in CliStates :
           /\ cli' = [cli EXCEPT ![c] = s] /\ s.op = cli[c].op /\ s.pc \in {"deliver", "sweep"}
           /\ s.pc = "deliver" => s.live # {}
    BY <1>4, AsksStatusIs
  <2>2. ~WillRestart(cli[c]) \/ WillRestart(s)
    BY <2>1 DEF WillRestart
  <2> QED BY <1>4, <2>1, <2>2, CliLeavesMode DEF AsksStatus
<1>5. CASE SendsStop(c)
  <2>1. PICK s \in CliStates :
           /\ cli' = [cli EXCEPT ![c] = s] /\ s.op = cli[c].op /\ s.pc = "exit"
           /\ s.live = cli[c].live /\ cli[c].pc = "deliver"
           /\ \A d \in Daemons : daemon'[d].pc = daemon[d].pc
    BY <1>5, SendsStopIs
  <2>2. WillRestart(cli[c]) => WillRestart(s)
    BY <2>1 DEF WillRestart
  <2>3. Outdated' => Outdated
    BY <1>5, <2>1, MainIs, OutdatedWas DEF SendsStop
  <2> QED BY <2>1, <2>2, <2>3, ModeByCli
<1>6. CASE SupervisorGone(c)
  <2>1. cli[c].pc = "exit" /\ cli[c].live = {} /\ UNCHANGED <<daemon, engine, cfg, excused>>
    BY <1>6 DEF SupervisorGone
  <2>2. CASE cli[c].delivered /\ AfterStop(c)
    <3>1. ~WillRestart(cli[c])
      BY <2>1, <2>2 DEF WillRestart
    <3> QED BY <2>1, <2>2, <3>1, TypedNow, AfterStopIs, CliLeavesMode
  <2>3. CASE CliGoes(c, "sweep")
    <3>1. PICK s \in CliStates : cli' = [cli EXCEPT ![c] = s] /\ s.pc = "sweep" /\ s.op = cli[c].op
      BY <2>3, TypedNow, CliGoesIs
    <3>2. ~WillRestart(cli[c]) \/ WillRestart(s)
      BY <3>1 DEF WillRestart
    <3> QED BY <2>1, <3>1, <3>2, CliLeavesMode
  <2> QED BY <1>6, <2>2, <2>3 DEF SupervisorGone
<1>7. CASE ForceKills(c)
  <2>1. PICK killed \in {{}, cli[c].live} :
          /\ cli[c].live # {} /\ cli'[c].pc = "sweep"
          /\ \A x \in Clis : /\ x # c => cli'[x].pc = cli[x].pc
                             /\ cli'[x].op = cli[x].op /\ cli'[x].live = cli[x].live \ killed
                             /\ cli'[x].delivered = cli[x].delivered
          /\ \A d \in Daemons : IF d \in killed THEN daemon'[d].pc = "off" ELSE daemon'[d] = daemon[d]
    BY <1>7, ForceKillsIs
  <2>2. CASE killed = cli[c].live
    <3>1. Main \in killed
      BY <2>1, <2>2, TypedNow DEF OneDaemon, CliStates
    <3>2. daemon'[Main].pc = "off"
      BY <2>1, <3>1, MainIs
    <3> QED BY <3>2, ModeFresh DEF Outdated
  <2>3. CASE killed = {}
    <3>1. Outdated' => Outdated
      BY <1>7, <2>1, <2>3, MainIs, OutdatedWas DEF ForceKills
    <3>2. ASSUME NEW x \in Clis, WillRestart(cli[x]) PROVE WillRestart(cli'[x])
      BY <2>1, <2>3, <3>2 DEF WillRestart
    <3> QED BY <3>1, <3>2 DEF ModeKept, WillRestart
  <2> QED BY <2>1, <2>2, <2>3
<1>8. CASE Sweeps(c)
  <2>1. ~Alive(engine'[Main])
    BY <1>8, MainIs, KillsIs DEF Sweeps
  <2> QED BY <2>1, ModeFresh DEF Outdated, Alive
<1>12. CASE SweepFails(c)
  <2>1. PICK ds \in SUBSET Daemons : Kills(ds)
    BY <1>12 DEF SweepFails
  <2>2. AfterStop(c) /\ Excuses(c) /\ UNCHANGED <<daemon, cfg>>
    BY <1>12 DEF SweepFails, StopsNothing
  <2>3. (excused => excused') /\ (Alive(engine'[Main]) => engine'[Main] = engine[Main])
    BY <2>1, <2>2, MainIs, KillsIs DEF Excuses
  <2>4. Outdated' => Outdated
    BY <2>2, <2>3 DEF Outdated, Alive
  <2> QED BY <2>2, <2>4, ExcusesMode
<1>9. CASE ReAdds(c)
  <2>1. ~WillRestart(cli[c]) /\ UNCHANGED <<daemon, engine, cfg, excused>>
    BY <1>9 DEF ReAdds, WillRestart
  <2> QED BY <1>9, <2>1, ReAddsIs, CliLeavesMode
<1>10. CASE Starts(c) /\ \E d \in Daemons : Launch(d)
  <2>1. Launch(Main)
    BY <1>10 DEF OneDaemon
  <2>2. engine'[Main].st = "none"
    BY <2>1, MainIs, LaunchIs
  <2> QED BY <2>2, ModeFresh DEF Outdated
<1>11. CASE (Starts(c) \/ Awaited(c)) /\ UNCHANGED <<daemon, engine>>
  <2>1. cfg' = cfg /\ ~WillRestart(cli[c]) /\ excused \in BOOLEAN
    BY <1>11, TypedNow DEF Starts, StartsUnit, LoadsJob, StartsLauncher, Awaited, WillRestart
  <2>2. CASE CliFails(c)
    BY <1>11, <2>1, <2>2, CliFailsMode
  <2>3. CASE excused' = excused /\ (CliEnds(c) \/ CliGoes(c, "await"))
    <3>1. \E s \in CliStates : cli' = [cli EXCEPT ![c] = s]
      BY <2>3, IdleIs, TypedNow, CliGoesIs DEF CliEnds
    <3> QED BY <1>11, <2>1, <2>3, <3>1, CliLeavesMode
  <2>4. CliFails(c) \/ (excused' = excused /\ (CliEnds(c) \/ CliGoes(c, "await")))
    BY <1>11 DEF Starts, StartsUnit, LoadsJob, StartsLauncher, Awaited, ManagerLaunches
  <2> QED BY <2>2, <2>3, <2>4
<1>13. Starts(c) => UNCHANGED <<daemon, engine>> \/ \E d \in Daemons : Launch(d)
  BY MainIs DEF Starts, StartsUnit, LoadsJob, StartsLauncher, ManagerLaunches, LaunchesNothing
<1>14. Awaited(c) => UNCHANGED <<daemon, engine>>
  BY DEF Awaited
<1> QED BY <1>1, <1>2, <1>3, <1>4, <1>5, <1>6, <1>7, <1>8, <1>9, <1>10, <1>11, <1>12, <1>13, <1>14,
           StopsMode
        DEF CliSteps, Starts

LEMMA ModeKeptNext ==
  ASSUME FInv, OneDaemon, ModeKept, [Next]_vars PROVE ModeKept'
<1>1. ASSUME NEW d \in Daemons,
             DaemonSteps(d) \/ DaemonKilled(d) \/ EngineReads(d) \/ EngineBinds(d) \/ EngineExits(d)
      PROVE  ModeKept'
  <2>1. d = Main
    BY DEF OneDaemon
  <2>2. CASE DaemonKilled(d)
    <3>1. daemon'[Main].pc = "off"
      BY <2>1, <2>2, MainIs, TypedNow, FailsIs, ExitsIs DEF DaemonKilled
    <3> QED BY <3>1, ModeFresh DEF Outdated
  <2> QED BY <1>1, <2>1, <2>2, DaemonStepsMode, EngineStepsMode
<1>2. CASE SeesExit
  <2>1. daemon'[Main].pc = "off"
    BY <1>2, MainIs, SeesExitIs
  <2> QED BY <2>1, ModeFresh DEF Outdated
<1>3. CASE LogsIn \/ Restarts
  <2>1. engine'[Main].st = "none"
    BY <1>3, MainIs, LaunchIs DEF LogsIn, Restarts
  <2> QED BY <2>1, ModeFresh DEF Outdated
<1>4. CASE UNCHANGED vars
  BY <1>4, OutdatedWas, ModeStays DEF vars
<1> QED BY <1>1, <1>2, <1>3, <1>4, CliStepsMode, CommandMode DEF Next

(***************************************************************************)
(* One supervisor: the theorems.                                           *)
(***************************************************************************)
LEMMA SoloInit == Init => SoloInv
<1> SUFFICES ASSUME Init PROVE SoloInv
  OBVIOUS
<1>1. daemon[Main].pc = "off" /\ engine[Main].st = "none" /\ hooks = {}
  BY MainIs, OffIs, NoEngineIs DEF Init
<1>2. \A c \in Clis : cli[c].restore = {}
  BY IdleIs DEF Init
<1> QED BY <1>1, <1>2 DEF SoloInv, HooksKept, ModeKept, Outdated

\* With one supervisor, a hook is registered for Claude as long as its engine may answer,
\* every hook is somebody's to take away, is put back for a start to come, or has been left
\* by a failure, and only a
\* command that is about to restart it leaves the engine in an outdated mode
\* (daemon/mod.rs run, hook_supervision.rs, main.rs mode_set, service_restart_inner).
THEOREM SupervisorKeepsOrder ==
  ASSUME OneDaemon PROVE Spec => []SoloInv
<1>1. SoloInv /\ FInv /\ [Next]_vars => SoloInv'
  BY HooksKeptNext, ModeKeptNext DEF SoloInv
<1> QED BY SoloInit, <1>1, EnginesAreKept, PTL DEF Spec

\* With one supervisor, after any sequence of starts, stops, restarts, kills and failures:
\* Claude's hook is there as long as an engine answers, and when nothing runs a hook is
\* there only if its removal failed, its supervisor was killed or failed in its start
\* (daemon/mod.rs run), or a restart had put it back and its start launched nothing
\* (main.rs service_restart_inner).
THEOREM HookIsWhereTheServiceIs ==
  ASSUME OneDaemon PROVE Spec => []HookFollowsService
<1>1. FInv /\ SoloInv => HookFollowsService
  <2> SUFFICES ASSUME FInv, SoloInv PROVE HookFollowsService
    OBVIOUS
  <2>1. ServedIsHooked
    <3> SUFFICES ASSUME NEW d \in Daemons, engine[d].st = "serving", daemon[d].pc # "off"
                 PROVE  "claude" \in hooks
      BY DEF ServedIsHooked
    <3>1. d = Main
      BY DEF OneDaemon
    <3>2. daemon[d].pc \in {"run", "wait", "join"}
      BY DEF FInv, Sound, Alive
    <3> QED BY <3>1, <3>2 DEF SoloInv, HooksKept
  <2>2. StoppedUnblocks
    <3> SUFFICES ASSUME AtRest PROVE hooks \subseteq left
      BY DEF StoppedUnblocks
    <3>1. Charge(daemon[Main]) = {}
      BY MainIs DEF AtRest, Charge
    <3>2. PutBack = {}
      BY DEF AtRest, PutBack
    <3> QED BY <3>1, <3>2 DEF SoloInv, HooksKept
  <2> QED BY <2>1, <2>2 DEF HookFollowsService, FInv
<1> QED BY <1>1, EnginesAreKept, SupervisorKeepsOrder, PTL

\* With one supervisor, a change of the mode is in force once no command is under way; or a
\* command that was to apply it has failed, has said that it is not applied, or could not
\* stop the service (main.rs mode_set, service_stop).
THEOREM ConfiguredModeApplies ==
  ASSUME OneDaemon PROVE Spec => []ModeApplies
<1>1. SoloInv => ModeApplies
  <2> SUFFICES ASSUME SoloInv, \A c \in Clis : cli[c].pc = "idle",
                      NEW d \in Daemons, engine[d].st = "serving", daemon[d].pc # "off"
               PROVE  engine[d].mode = cfg \/ excused
    BY DEF ModeApplies
  <2>1. d = Main
    BY DEF OneDaemon
  <2>2. \A c \in Clis : ~WillRestart(cli[c])
    BY DEF WillRestart
  <2> QED BY <2>1, <2>2 DEF SoloInv, ModeKept, Outdated
<1> QED BY <1>1, SupervisorKeepsOrder, PTL

(***************************************************************************)
(* The configuration file, of lines with any values.                       *)
(***************************************************************************)
ConfigFile(Values) == Seq([indent : Nat, key : STRING, value : Values, note : BOOLEAN])
SettingCommands(Values) == [name : {"mode", "default_action"}, value : Values]

LEMMA LeastLine ==
  ASSUME NEW N \in Nat, NEW S, S \subseteq 1 .. N, S # {}
  PROVE  Min(S) \in S /\ \A n \in S : Min(S) <= n
<1>1. S \subseteq Nat
  OBVIOUS
<1>2. PICK m \in S : \A n \in S : ~ (<<n, m>> \in OpToRel(<, Nat))
  BY <1>1, NatLessThanWellFounded, WFMin
<1>3. ASSUME NEW n \in S PROVE m <= n
  <2>1. ~ (n < m)
    BY <1>1, <1>2 DEF OpToRel
  <2> QED BY <1>1, <2>1
<1>4. \E x \in S : \A n \in S : x <= n
  BY <1>3
<1> QED BY <1>4 DEF Min

LEMMA LastLine ==
  ASSUME NEW N \in Nat, NEW S, S \subseteq 1 .. N, S # {}
  PROVE  Max(S) \in S /\ \A n \in S : Max(S) >= n
<1> DEFINE T == {k \in 1 .. N : N + 1 - k \in S}
<1>1. T \subseteq 1 .. N /\ T # {}
  <2>1. PICK n \in S : TRUE
    OBVIOUS
  <2>2. N + 1 - n \in 1 .. N /\ N + 1 - (N + 1 - n) = n
    BY <2>1
  <2> QED BY <2>1, <2>2
<1>2. Min(T) \in T /\ \A k \in T : Min(T) <= k
  BY <1>1, LeastLine
<1>3. PICK k \in T : \A j \in T : k <= j
  BY <1>2
<1>4. k \in 1 .. N /\ N + 1 - k \in S
  BY <1>3
<1>5. ASSUME NEW n \in S PROVE N + 1 - k >= n
  <2>1. n \in 1 .. N /\ N + 1 - n \in T
    OBVIOUS
  <2>2. k <= N + 1 - n
    BY <1>3, <2>1
  <2> QED BY <1>4, <2>1, <2>2
<1>6. \E x \in S : \A n \in S : x >= n
  BY <1>4, <1>5
<1> QED BY <1>6 DEF Max

\* A command rewrites the value of its lines, and leaves every other line.
LEMMA PerformIs ==
  ASSUME NEW Values, NEW data \in ConfigFile(Values), NEW command \in SettingCommands(Values)
  PROVE  LET done == Perform(data, command) IN
         /\ Len(data) \in Nat /\ DOMAIN data = 1 .. Len(data)
         /\ DOMAIN done = DOMAIN data /\ Len(done) = Len(data)
         /\ \A n \in DOMAIN data :
              /\ done[n].key = data[n].key /\ done[n].indent = data[n].indent
              /\ data[n].key = command.name => done[n].value = command.value /\ ~done[n].note
              /\ data[n].key # command.name => done[n] = data[n]
<1> DEFINE done == Perform(data, command)
<1>1. Len(data) \in Nat /\ DOMAIN data = 1 .. Len(data)
  BY DEF ConfigFile
<1>2. \A n \in DOMAIN data : data[n] \in [indent : Nat, key : STRING, value : Values, note : BOOLEAN]
  <2>1. \A S : \A s \in Seq(S) : \A i \in DOMAIN s : s[i] \in S
    OBVIOUS
  <2> QED BY <2>1, Zenon DEF ConfigFile
<1>3. done = [n \in DOMAIN data |-> IF data[n].key = command.name
                                    THEN [data[n] EXCEPT !.value = command.value, !.note = FALSE]
                                    ELSE data[n]]
  <2>1. CASE command.name = "mode"
    BY <2>1 DEF Perform, RewriteMode, IsSetting, Rewritten
  <2>2. CASE command.name = "default_action"
    BY <2>2 DEF Perform, RewriteDefaultAction, IsSetting, Rewritten
  <2> QED BY <2>1, <2>2 DEF SettingCommands
<1> HIDE DEF done
<1>4. DOMAIN done = DOMAIN data /\ Len(done) = Len(data)
  <2>1. DOMAIN done = 1 .. Len(data)
    BY <1>1, <1>3
  <2> QED BY <1>1, <2>1
<1>5. ASSUME NEW n \in DOMAIN data
      PROVE  /\ done[n].key = data[n].key /\ done[n].indent = data[n].indent
             /\ data[n].key = command.name => done[n].value = command.value /\ ~done[n].note
             /\ data[n].key # command.name => done[n] = data[n]
  <2>1. PICK line \in [indent : Nat, key : STRING, value : Values, note : BOOLEAN] : line = data[n]
    BY <1>2
  <2>2. CASE line.key = command.name
    <3>1. done[n] = [line EXCEPT !.value = command.value, !.note = FALSE]
      BY <1>3, <2>1, <2>2
    <3> QED BY <2>1, <2>2, <3>1
  <2>3. CASE line.key # command.name
    BY <1>3, <2>1, <2>3
  <2> QED BY <2>2, <2>3
<1> QED BY <1>1, <1>4, <1>5 DEF done

\* What the plugin reads at the top of the file, and in a block.
LEMMA TopIsRead ==
  ASSUME NEW Values, NEW data \in ConfigFile(Values), NEW command \in SettingCommands(Values),
         NEW key, NEW default
  PROVE  YamlTop(Perform(data, command), key, default) =
           IF key = command.name /\ \E n \in DOMAIN data : data[n].key = key /\ data[n].indent = 1
           THEN command.value ELSE YamlTop(data, key, default)
<1>1. PICK done : done = Perform(data, command)
  OBVIOUS
<1>2. /\ Len(data) \in Nat /\ DOMAIN data = 1 .. Len(data) /\ DOMAIN done = DOMAIN data
      /\ \A n \in DOMAIN data :
           /\ done[n].key = data[n].key /\ done[n].indent = data[n].indent
           /\ data[n].key = command.name => done[n].value = command.value
           /\ data[n].key # command.name => done[n] = data[n]
  BY <1>1, PerformIs
<1>3. PICK at : at = {n \in DOMAIN data : data[n].key = key /\ data[n].indent = 1}
  OBVIOUS
<1>4. at = {n \in DOMAIN done : done[n].key = key /\ done[n].indent = 1}
  BY <1>2, <1>3
<1>5. YamlTop(data, key, default) = IF at = {} THEN default ELSE data[Max(at)].value
  BY <1>3 DEF YamlTop
<1>6. YamlTop(done, key, default) = IF at = {} THEN default ELSE done[Max(at)].value
  BY <1>4 DEF YamlTop
<1>7. CASE at = {}
  BY <1>1, <1>3, <1>5, <1>6, <1>7
<1>8. CASE at # {}
  <2>1. at \subseteq 1 .. Len(data)
    BY <1>2, <1>3
  <2>2. Max(at) \in at
    BY <1>2, <1>8, <2>1, LastLine
  <2>3. Max(at) \in DOMAIN data /\ data[Max(at)].key = key
    BY <1>3, <2>2
  <2>4. CASE key = command.name
    BY <1>1, <1>2, <1>3, <1>6, <1>8, <2>3, <2>4
  <2>5. CASE key # command.name
    BY <1>1, <1>2, <1>5, <1>6, <1>8, <2>3, <2>5
  <2> QED BY <2>4, <2>5
<1> QED BY <1>7, <1>8

LEMMA BlockIsRead ==
  ASSUME NEW Values, NEW data \in ConfigFile(Values), NEW command \in SettingCommands(Values),
         NEW block, NEW key, NEW default, key # command.name
  PROVE  YamlIn(Perform(data, command), block, key, default) = YamlIn(data, block, key, default)
<1>1. PICK done : done = Perform(data, command)
  OBVIOUS
<1>2. /\ Len(data) \in Nat /\ DOMAIN data = 1 .. Len(data) /\ DOMAIN done = DOMAIN data
      /\ \A n \in DOMAIN data :
           /\ done[n].key = data[n].key /\ done[n].indent = data[n].indent
           /\ data[n].key # command.name => done[n] = data[n]
  BY <1>1, PerformIs
<1>3. PICK opens : opens = {n \in DOMAIN data : data[n].key = block}
  OBVIOUS
<1>4. opens = {n \in DOMAIN done : done[n].key = block}
  BY <1>2, <1>3
<1>5. PICK inside : inside = {n \in DOMAIN data : data[n].key = key /\ data[n].indent = 2 /\
        \E o \in opens : o < n /\ \A k \in o + 1 .. n : data[k].key # "#" => data[k].indent = 2}
  OBVIOUS
<1>6. inside = {n \in DOMAIN done : done[n].key = key /\ done[n].indent = 2 /\
        \E o \in opens : o < n /\ \A k \in o + 1 .. n : done[k].key # "#" => done[k].indent = 2}
  <2>1. ASSUME NEW n \in DOMAIN data, NEW o \in opens, NEW k \in o + 1 .. n
        PROVE  done[k].key = data[k].key /\ done[k].indent = data[k].indent
    <3>1. k \in 1 .. Len(data)
      BY <1>2, <1>3
    <3> QED BY <1>2, <3>1
  <2> QED BY <1>2, <1>5, <2>1
<1>7. YamlIn(data, block, key, default) = IF inside = {} THEN default ELSE data[Max(inside)].value
  BY <1>3, <1>5 DEF YamlIn
<1>8. YamlIn(done, block, key, default) = IF inside = {} THEN default ELSE done[Max(inside)].value
  BY <1>4, <1>6 DEF YamlIn
<1>9. CASE inside # {}
  <2>1. inside \subseteq 1 .. Len(data)
    BY <1>2, <1>5
  <2>2. Max(inside) \in inside
    BY <1>2, <1>9, <2>1, LastLine
  <2>3. Max(inside) \in DOMAIN data /\ data[Max(inside)].key = key
    BY <1>5, <2>2
  <2> QED BY <1>1, <1>2, <1>7, <1>8, <2>3
<1> QED BY <1>1, <1>7, <1>8, <1>9

\* What premptictl reads in a block.
LEMMA BlockIsParsed ==
  ASSUME NEW Values, NEW data \in ConfigFile(Values), NEW command \in SettingCommands(Values),
         NEW block, block # command.name, NEW key, NEW default, key # command.name
  PROVE  Get(ParseBlock(Perform(data, command), block), key, default) =
           Get(ParseBlock(data, block), key, default)
<1>1. PICK done : done = Perform(data, command)
  OBVIOUS
<1>2. /\ Len(data) \in Nat /\ DOMAIN data = 1 .. Len(data)
      /\ DOMAIN done = DOMAIN data /\ Len(done) = Len(data)
      /\ \A n \in DOMAIN data :
           /\ done[n].key = data[n].key /\ done[n].indent = data[n].indent
           /\ data[n].key # command.name => done[n] = data[n]
  BY <1>1, PerformIs
<1>3. PICK opens : opens = {n \in DOMAIN data : data[n].key = block /\ ~data[n].note}
  OBVIOUS
<1>4. opens = {n \in DOMAIN done : done[n].key = block /\ ~done[n].note}
  BY <1>2, <1>3
<1>5. CASE opens = {}
  <2>1. ParseBlock(data, block) = <<>>
    BY <1>3, <1>5 DEF ParseBlock
  <2>2. ParseBlock(done, block) = <<>>
    BY <1>4, <1>5 DEF ParseBlock
  <2> QED BY <1>1, <2>1, <2>2
<1>6. CASE opens # {}
  <2>1. PICK first : first = Min(opens)
    OBVIOUS
  <2>2. first \in 1 .. Len(data)
    <3>1. opens \subseteq 1 .. Len(data)
      BY <1>2, <1>3
    <3> QED BY <1>2, <1>6, <2>1, <3>1, LeastLine
  <2>3. PICK ends : ends = {Len(data) + 1} \cup
          {k \in first + 1 .. Len(data) : data[k].key # "#" /\ data[k].indent <= data[first].indent}
    OBVIOUS
  <2>4. BlockEnds(data, first) = Min(ends)
    BY <2>3 DEF BlockEnds
  <2>5. BlockEnds(done, first) = Min(ends)
    <3>1. \A k \in first + 1 .. Len(data) : k \in DOMAIN data
      BY <1>2, <2>2
    <3>2. ends = {Len(done) + 1} \cup
            {k \in first + 1 .. Len(done) : done[k].key # "#" /\ done[k].indent <= done[first].indent}
      BY <1>2, <2>2, <2>3, <3>1
    <3> QED BY <3>2 DEF BlockEnds
  <2>6. Min(ends) \in 1 .. Len(data) + 1
    <3>1. ends \subseteq 1 .. Len(data) + 1 /\ ends # {} /\ Len(data) + 1 \in Nat
      BY <1>2, <2>2, <2>3
    <3>2. Min(ends) \in ends
      BY <3>1, LeastLine
    <3> QED BY <3>1, <3>2
  <2>7. PICK inside : inside = {k \in first + 1 .. Min(ends) - 1 : data[k].key # "#"}
    OBVIOUS
  <2>8. inside \subseteq 1 .. Len(data) /\ inside \subseteq DOMAIN data
    BY <1>2, <2>2, <2>6, <2>7
  <2>9. inside = {k \in first + 1 .. Min(ends) - 1 : done[k].key # "#"}
    <3>1. \A k \in first + 1 .. Min(ends) - 1 : k \in DOMAIN data
      BY <1>2, <2>2, <2>6
    <3> QED BY <1>2, <2>7, <3>1
  <2>10. PICK keys : keys = {data[i].key : i \in inside}
    OBVIOUS
  <2>11. keys = {done[i].key : i \in inside}
    BY <1>2, <2>8, <2>10
  <2>12. ParseBlock(data, block) =
           [k \in keys |-> data[Max({i \in inside : data[i].key = k})].value]
    BY <1>3, <1>6, <2>1, <2>4, <2>7, <2>10 DEF ParseBlock
  <2>13. ParseBlock(done, block) =
           [k \in keys |-> done[Max({i \in inside : done[i].key = k})].value]
    BY <1>4, <1>6, <2>1, <2>5, <2>9, <2>11 DEF ParseBlock
  <2>14. CASE key \notin keys
    BY <1>1, <2>12, <2>13, <2>14 DEF Get
  <2>15. CASE key \in keys
    <3>1. PICK lines : lines = {i \in inside : data[i].key = key}
      OBVIOUS
    <3>2. lines = {i \in inside : done[i].key = key}
      BY <1>2, <2>8, <3>1
    <3>3. lines \subseteq 1 .. Len(data) /\ lines # {}
      BY <2>8, <2>10, <2>15, <3>1
    <3>4. Max(lines) \in lines
      BY <1>2, <3>3, LastLine
    <3>5. Max(lines) \in DOMAIN data /\ data[Max(lines)].key # command.name
      BY <2>8, <3>1, <3>4
    <3>6. done[Max(lines)].value = data[Max(lines)].value
      BY <1>2, <3>5
    <3>7. Get(ParseBlock(data, block), key, default) = data[Max(lines)].value
      BY <2>12, <2>15, <3>1 DEF Get
    <3>8. Get(ParseBlock(done, block), key, default) = done[Max(lines)].value
      BY <2>13, <2>15, <3>2 DEF Get
    <3> QED BY <1>1, <3>6, <3>7, <3>8
  <2> QED BY <2>14, <2>15
<1> QED BY <1>5, <1>6

\* The file has the setting where the plugin looks for it.
AtTop(data, key) == \E n \in DOMAIN data : data[n].key = key /\ data[n].indent = 1

\* `premptictl mode` and `default-action` (rewrite_mode_in_yaml, rewrite_default_action_in_yaml)
\* rewrite the line of their setting at whatever depth; of all that the plugin reads they
\* change that setting alone, and neither the monitor, nor the sign-off, nor the time the
\* hook is given is read differently by premptictl.
THEOREM CommandSetsOneSetting ==
  ASSUME NEW Values, NEW data \in ConfigFile(Values), NEW command \in SettingCommands(Values)
  PROVE  LET done == Perform(data, command)
             sets(key) == command.name = key /\ AtTop(data, key)
         IN  /\ PluginReads(done) =
                  [PluginReads(data) EXCEPT
                     !.mode = IF sets("mode") THEN command.value ELSE @,
                     !.defaultAction = IF sets("default_action") THEN command.value ELSE @]
             /\ MonitorSettings(done) = MonitorSettings(data)
             /\ SignoffSettings(done) = SignoffSettings(data)
             /\ HookTimeout(done) = HookTimeout(data)
<1>1. PICK done : done = Perform(data, command)
  OBVIOUS
<1>2. command.name \in {"mode", "default_action"}
  BY DEF SettingCommands
<1>3. /\ YamlTop(done, "mode", "guardrails") =
           IF command.name = "mode" /\ AtTop(data, "mode")
           THEN command.value ELSE YamlTop(data, "mode", "guardrails")
      /\ YamlTop(done, "default_action", "allow") =
           IF command.name = "default_action" /\ AtTop(data, "default_action")
           THEN command.value ELSE YamlTop(data, "default_action", "allow")
  BY <1>1, TopIsRead DEF AtTop
<1>4. \A block, key, default : key \notin {"mode", "default_action"} =>
        YamlIn(done, block, key, default) = YamlIn(data, block, key, default)
  BY <1>1, <1>2, BlockIsRead
<1>5. /\ YamlIn(done, "monitor", "enabled", "false") = YamlIn(data, "monitor", "enabled", "false")
      /\ YamlIn(done, "monitor", "timeout_ms", 20000) = YamlIn(data, "monitor", "timeout_ms", 20000)
      /\ YamlIn(done, "monitor", "model", "none") = YamlIn(data, "monitor", "model", "none")
      /\ YamlIn(done, "signoff", "enabled", "false") = YamlIn(data, "signoff", "enabled", "false")
      /\ YamlIn(done, "signoff", "ttl_secs", 300) = YamlIn(data, "signoff", "ttl_secs", 300)
  BY <1>4
<1>6. PluginReads(done) =
        [PluginReads(data) EXCEPT
           !.mode = IF command.name = "mode" /\ AtTop(data, "mode") THEN command.value ELSE @,
           !.defaultAction = IF command.name = "default_action" /\ AtTop(data, "default_action")
                             THEN command.value ELSE @]
  <2>1. PICK mode, action, monitor, model, signoff :
          /\ mode = YamlTop(data, "mode", "guardrails")
          /\ action = YamlTop(data, "default_action", "allow")
          /\ monitor = PluginReads(data).monitor /\ model = YamlIn(data, "monitor", "model", "none")
          /\ signoff = PluginReads(data).signoff
    OBVIOUS
  <2>2. PluginReads(data) = [mode |-> mode, defaultAction |-> action, monitor |-> monitor,
                             model |-> model, signoff |-> signoff]
    BY <2>1 DEF PluginReads
  <2>3. /\ PluginReads(done).monitor = PluginReads(data).monitor
        /\ PluginReads(done).signoff = PluginReads(data).signoff
    BY <1>5 DEF PluginReads
  <2>4. PICK newMode, newAction :
          /\ newMode = YamlTop(done, "mode", "guardrails")
          /\ newAction = YamlTop(done, "default_action", "allow")
    OBVIOUS
  <2>5. PluginReads(done) = [mode |-> newMode, defaultAction |-> newAction, monitor |-> monitor,
                             model |-> model, signoff |-> signoff]
    BY <1>5, <2>1, <2>3, <2>4 DEF PluginReads
  <2>6. /\ newMode = IF command.name = "mode" /\ AtTop(data, "mode") THEN command.value ELSE mode
        /\ newAction = IF command.name = "default_action" /\ AtTop(data, "default_action")
                       THEN command.value ELSE action
    BY <1>3, <2>1, <2>4
  <2>7. PluginReads(done) = [PluginReads(data) EXCEPT !.mode = newMode, !.defaultAction = newAction]
    <3>1. PICK old : old = [mode |-> mode, defaultAction |-> action, monitor |-> monitor,
                            model |-> model, signoff |-> signoff]
      OBVIOUS
    <3>2. PICK new : new = [old EXCEPT !.mode = newMode, !.defaultAction = newAction]
      OBVIOUS
    <3>3. DOMAIN new = {"mode", "defaultAction", "monitor", "model", "signoff"}
      BY <3>1, <3>2
    <3>4. /\ new.mode = newMode /\ new.defaultAction = newAction
          /\ new.monitor = monitor /\ new.model = model /\ new.signoff = signoff
      BY <3>1, <3>2
    <3>5. new = [key \in {"mode", "defaultAction", "monitor", "model", "signoff"} |-> new[key]]
      BY <3>1, <3>2
    <3>6. new = PluginReads(done)
      BY <2>5, <3>3, <3>4, <3>5
    <3> QED BY <2>2, <3>1, <3>2, <3>6
  <2>8. PluginReads(data).mode = mode /\ PluginReads(data).defaultAction = action
    BY <2>2
  <2>9. /\ newMode = IF command.name = "mode" /\ AtTop(data, "mode")
                     THEN command.value ELSE PluginReads(data).mode
        /\ newAction = IF command.name = "default_action" /\ AtTop(data, "default_action")
                       THEN command.value ELSE PluginReads(data).defaultAction
    BY <2>6, <2>8
  <2> QED BY <2>7, <2>9, Zenon
<1>7. \A block, key, default :
        block \notin {"mode", "default_action"} /\ key \notin {"mode", "default_action"} =>
          Get(ParseBlock(done, block), key, default) = Get(ParseBlock(data, block), key, default)
  BY <1>1, <1>2, BlockIsParsed
<1>8. MonitorSettings(done) = MonitorSettings(data)
  <2>1. /\ Get(ParseBlock(done, "monitor"), "enabled", "false") =
             Get(ParseBlock(data, "monitor"), "enabled", "false")
        /\ Get(ParseBlock(done, "monitor"), "timeout_ms", 20000) =
             Get(ParseBlock(data, "monitor"), "timeout_ms", 20000)
    BY <1>7
  <2> QED BY <2>1 DEF MonitorSettings
<1>9. SignoffSettings(done) = SignoffSettings(data)
  <2>1. /\ Get(ParseBlock(done, "signoff"), "enabled", "false") =
             Get(ParseBlock(data, "signoff"), "enabled", "false")
        /\ Get(ParseBlock(done, "signoff"), "ttl_secs", 300) =
             Get(ParseBlock(data, "signoff"), "ttl_secs", 300)
    BY <1>7
  <2> QED BY <2>1 DEF SignoffSettings
<1>10. HookTimeout(done) = HookTimeout(data)
  BY <1>8, <1>9 DEF HookTimeout
<1> QED BY <1>1, <1>6, <1>8, <1>9, <1>10

\* The command, asked afterwards, shows what it was told to set (parse_plugin_config_summary,
\* default_action_get), and the other setting as before; also when a note stood on the line.
THEOREM CommandIsShown ==
  ASSUME NEW Values, NEW data \in ConfigFile(Values), NEW command \in SettingCommands(Values)
  PROVE  LET done == Perform(data, command) IN
         /\ Mode(done) = IF command.name = "mode" /\ LinesThatSet(data, "mode") # {}
                         THEN command.value ELSE Mode(data)
         /\ DefaultAction(done) =
              IF command.name = "default_action" /\ LinesThatSet(data, "default_action") # {}
              THEN command.value ELSE DefaultAction(data)
<1>1. PICK done : done = Perform(data, command)
  OBVIOUS
<1>2. /\ Len(data) \in Nat /\ DOMAIN data = 1 .. Len(data) /\ DOMAIN done = DOMAIN data
      /\ \A n \in DOMAIN data :
           /\ done[n].key = data[n].key
           /\ data[n].key = command.name => done[n].value = command.value /\ ~done[n].note
           /\ data[n].key # command.name => done[n] = data[n]
  BY <1>1, PerformIs
<1>3. ASSUME NEW key PROVE LinesThatSet(done, key) = LinesThatSet(data, key)
  BY <1>2 DEF LinesThatSet, IsSetting
<1>4. ASSUME NEW key, NEW n \in LinesThatSet(data, key)
      PROVE  RestOf(done[n]) = IF command.name = key THEN command.value ELSE RestOf(data[n])
  <2>1. n \in DOMAIN data /\ data[n].key = key
    BY <1>4 DEF LinesThatSet, IsSetting
  <2>2. CASE command.name = key
    BY <1>2, <2>1, <2>2 DEF RestOf
  <2>3. CASE command.name # key
    BY <1>2, <2>1, <2>3
  <2> QED BY <2>2, <2>3
<1>5. ASSUME NEW key, LinesThatSet(data, key) # {}
      PROVE  /\ Max(LinesThatSet(data, key)) \in LinesThatSet(data, key)
             /\ Min(LinesThatSet(data, key)) \in LinesThatSet(data, key)
  <2>1. LinesThatSet(data, key) \subseteq 1 .. Len(data)
    BY <1>2 DEF LinesThatSet
  <2> QED BY <1>2, <1>5, <2>1, LeastLine, LastLine
<1>6. Mode(done) = IF command.name = "mode" /\ LinesThatSet(data, "mode") # {}
                   THEN command.value ELSE Mode(data)
  BY <1>3, <1>4, <1>5 DEF Mode
<1>7. DefaultAction(done) =
        IF command.name = "default_action" /\ LinesThatSet(data, "default_action") # {}
        THEN command.value ELSE DefaultAction(data)
  BY <1>3, <1>4, <1>5 DEF DefaultAction
<1> QED BY <1>1, <1>6, <1>7

LEMMA LongerOfTwo ==
  ASSUME NEW a \in Nat, NEW b \in Nat, NEW S \in SUBSET {a, b}, S # {}
  PROVE  Max(S) \in S /\ \A n \in S : Max(S) >= n
<1>1. \E m \in S : \A n \in S : m >= n
  <2>1. CASE a >= b /\ a \in S
    BY <2>1
  <2>2. CASE b \notin S
    <3>1. S = {a}
      BY <2>2
    <3> QED BY <3>1
  <2>3. CASE a \notin S
    <3>1. S = {b}
      BY <2>3
    <3> QED BY <3>1
  <2>4. CASE b >= a /\ b \in S
    BY <2>4
  <2> QED BY <2>1, <2>2, <2>3, <2>4
<1> QED BY <1>1 DEF Max

\* The plugin's settings as they are installed (init_config): mode, default_action and the two
\* blocks once, at the top and without a note on their line; what is in a block one deeper;
\* comments on lines of their own anywhere, and at the end of the other lines; times are numbers.
IsPlain(data) ==
  /\ \A n \in DOMAIN data : data[n].key # "#" => data[n].indent \in {1, 2}
  /\ \A n \in DOMAIN data : data[n].key \in {"mode", "default_action", "monitor", "signoff"} =>
       /\ data[n].indent = 1 /\ ~data[n].note
       /\ \A k \in DOMAIN data : data[k].key = data[n].key => k = n
  /\ \A n \in DOMAIN data : data[n].key \in {"timeout_ms", "ttl_secs"} => data[n].value \in Nat

LEMMA PlainAfterCommand ==
  ASSUME NEW Values, NEW data \in ConfigFile(Values), NEW command \in SettingCommands(Values),
         IsPlain(data)
  PROVE  Perform(data, command) \in ConfigFile(Values) /\ IsPlain(Perform(data, command))
<1>1. PICK done : done = Perform(data, command)
  OBVIOUS
<1>2. /\ Len(data) \in Nat /\ DOMAIN data = 1 .. Len(data) /\ DOMAIN done = DOMAIN data
      /\ \A n \in DOMAIN data :
           /\ done[n].key = data[n].key /\ done[n].indent = data[n].indent
           /\ data[n].key = command.name => done[n].value = command.value /\ ~done[n].note
           /\ data[n].key # command.name => done[n] = data[n]
  BY <1>1, PerformIs
<1>3. command.name \in {"mode", "default_action"}
  BY DEF SettingCommands
<1>4. IsPlain(done)
  <2>1. \A n \in DOMAIN done : done[n].key # "#" => done[n].indent \in {1, 2}
    BY <1>2 DEF IsPlain
  <2>2. ASSUME NEW n \in DOMAIN done, done[n].key \in {"mode", "default_action", "monitor", "signoff"}
        PROVE  /\ done[n].indent = 1 /\ ~done[n].note
               /\ \A k \in DOMAIN done : done[k].key = done[n].key => k = n
    BY <1>2, <2>2 DEF IsPlain
  <2>3. ASSUME NEW n \in DOMAIN done, done[n].key \in {"timeout_ms", "ttl_secs"}
        PROVE  done[n].value \in Nat
    <3>1. done[n] = data[n]
      BY <1>2, <1>3, <2>3
    <3> QED BY <1>2, <2>3, <3>1 DEF IsPlain
  <2> QED BY <2>1, <2>2, <2>3 DEF IsPlain
<1>5. done \in ConfigFile(Values)
  <2>1. \A n \in DOMAIN data : data[n] \in [indent : Nat, key : STRING, value : Values, note : BOOLEAN]
    <3>1. \A S : \A s \in Seq(S) : \A i \in DOMAIN s : s[i] \in S
      OBVIOUS
    <3> QED BY <3>1, Zenon DEF ConfigFile
  <2>2. ASSUME NEW n \in DOMAIN data
        PROVE  IF data[n].key = command.name
               THEN [data[n] EXCEPT !.value = command.value, !.note = FALSE] \in
                      [indent : Nat, key : STRING, value : Values, note : BOOLEAN]
               ELSE data[n] \in [indent : Nat, key : STRING, value : Values, note : BOOLEAN]
    <3>1. PICK line \in [indent : Nat, key : STRING, value : Values, note : BOOLEAN] : line = data[n]
      BY <2>1
    <3>2. PICK value \in Values : value = command.value
      BY DEF SettingCommands
    <3>3. [line EXCEPT !.value = value, !.note = FALSE] \in
            [indent : Nat, key : STRING, value : Values, note : BOOLEAN]
      OBVIOUS
    <3> QED BY <3>1, <3>2, <3>3
  <2>3. done = [n \in DOMAIN data |-> IF data[n].key = command.name
                                     THEN [data[n] EXCEPT !.value = command.value, !.note = FALSE]
                                     ELSE data[n]]
    <3>1. CASE command.name = "mode"
      BY <1>1, <3>1 DEF Perform, RewriteMode, IsSetting, Rewritten
    <3>2. CASE command.name = "default_action"
      BY <1>1, <3>2 DEF Perform, RewriteDefaultAction, IsSetting, Rewritten
    <3> QED BY <1>3, <3>1, <3>2
  <2>4. done \in [1 .. Len(data) -> [indent : Nat, key : STRING, value : Values, note : BOOLEAN]]
    BY <1>2, <2>2, <2>3
  <2> QED BY <1>2, <2>4 DEF ConfigFile
<1> QED BY <1>1, <1>4, <1>5

\* A block has the same lines for both.
LEMMA BlocksAgree ==
  ASSUME NEW Values, NEW data \in ConfigFile(Values), IsPlain(data),
         NEW block \in {"monitor", "signoff"}, NEW key, key # "#", NEW default
  PROVE  /\ Get(ParseBlock(data, block), key, default) = YamlIn(data, block, key, default)
         /\ YamlIn(data, block, key, default) # default =>
              \E n \in DOMAIN data : data[n].key = key /\ YamlIn(data, block, key, default) = data[n].value
<1>1. Len(data) \in Nat /\ DOMAIN data = 1 .. Len(data)
  BY DEF ConfigFile
<1>2. PICK opens : opens = {n \in DOMAIN data : data[n].key = block}
  OBVIOUS
<1>3. opens = {n \in DOMAIN data : data[n].key = block /\ ~data[n].note}
  BY <1>2 DEF IsPlain
<1>4. PICK lines : lines = {n \in DOMAIN data : data[n].key = key /\ data[n].indent = 2 /\
        \E o \in opens : o < n /\ \A k \in o + 1 .. n : data[k].key # "#" => data[k].indent = 2}
  OBVIOUS
<1>5. YamlIn(data, block, key, default) = IF lines = {} THEN default ELSE data[Max(lines)].value
  BY <1>2, <1>4 DEF YamlIn
<1>6. lines # {} => Max(lines) \in lines
  <2>1. lines \subseteq 1 .. Len(data)
    BY <1>1, <1>4
  <2> QED BY <1>1, <2>1, LastLine
<1>7. YamlIn(data, block, key, default) # default =>
        \E n \in DOMAIN data : data[n].key = key /\ YamlIn(data, block, key, default) = data[n].value
  BY <1>4, <1>5, <1>6
<1>8. CASE opens = {}
  <2>1. ParseBlock(data, block) = <<>>
    BY <1>3, <1>8 DEF ParseBlock
  <2>2. DOMAIN <<>> = {}
    OBVIOUS
  <2>3. Get(ParseBlock(data, block), key, default) = default
    BY <2>1, <2>2 DEF Get
  <2>4. lines = {}
    BY <1>4, <1>8
  <2> QED BY <1>5, <1>7, <2>3, <2>4
<1>9. CASE opens # {}
  <2>1. PICK first : first = Min(opens)
    OBVIOUS
  <2>2. first \in opens
    <3>1. opens \subseteq 1 .. Len(data)
      BY <1>1, <1>2
    <3> QED BY <1>1, <1>9, <2>1, <3>1, LeastLine
  <2>3. first \in 1 .. Len(data) /\ data[first].indent = 1 /\ opens = {first}
    <3>1. first \in DOMAIN data /\ data[first].key = block
      BY <1>2, <2>2
    <3>2. data[first].indent = 1 /\ \A k \in DOMAIN data : data[k].key = block => k = first
      BY <3>1 DEF IsPlain
    <3> QED BY <1>1, <1>2, <3>1, <3>2
  <2>4. PICK ends : ends = {Len(data) + 1} \cup
          {k \in first + 1 .. Len(data) : data[k].key # "#" /\ data[k].indent <= data[first].indent}
    OBVIOUS
  <2>5. BlockEnds(data, first) = Min(ends)
    BY <2>4 DEF BlockEnds
  <2>6. /\ Min(ends) \in ends /\ \A k \in ends : Min(ends) <= k
        /\ Min(ends) \in 1 .. Len(data) + 1
    <3>1. ends \subseteq 1 .. Len(data) + 1 /\ ends # {} /\ Len(data) + 1 \in Nat
      BY <1>1, <2>3, <2>4
    <3> QED BY <3>1, LeastLine
  <2>7. PICK last \in 1 .. Len(data) + 1 : last = Min(ends)
    BY <2>6
  <2>8. PICK inside : inside = {k \in first + 1 .. last - 1 : data[k].key # "#"}
    OBVIOUS
  <2>9. lines = {i \in inside : data[i].key = key}
    <3>1. ASSUME NEW n \in lines PROVE n \in inside /\ data[n].key = key
      <4>1. /\ n \in 1 .. Len(data) /\ data[n].key = key /\ first < n
            /\ \A k \in first + 1 .. n : data[k].key # "#" => data[k].indent = 2
        BY <1>1, <1>4, <2>3
      <4>2. n < last
        <5>1. SUFFICES ASSUME last <= n PROVE FALSE
          BY <1>1, <2>7, <4>1
        <5>2. last # Len(data) + 1
          BY <1>1, <4>1, <5>1
        <5>3. last \in first + 1 .. Len(data) /\ data[last].key # "#" /\ data[last].indent <= 1
          BY <2>3, <2>4, <2>6, <2>7, <5>2
        <5>4. last \in first + 1 .. n
          BY <1>1, <2>3, <4>1, <5>1, <5>3
        <5>5. data[last].indent = 2
          BY <4>1, <5>3, <5>4
        <5> QED BY <5>3, <5>5
      <4>3. n \in first + 1 .. last - 1
        BY <1>1, <2>3, <2>7, <4>1, <4>2
      <4> QED BY <2>8, <4>1, <4>3
    <3>2. ASSUME NEW n \in inside, data[n].key = key PROVE n \in lines
      <4>1. n \in first + 1 .. last - 1 /\ n \in 1 .. Len(data) /\ first < n
        BY <1>1, <2>3, <2>7, <2>8
      <4>2. ASSUME NEW k \in first + 1 .. n, data[k].key # "#" PROVE data[k].indent = 2
        <5>1. k \in first + 1 .. Len(data) /\ k < last /\ k \in DOMAIN data
          BY <1>1, <2>3, <2>7, <4>1
        <5>2. k \notin ends
          BY <1>1, <2>6, <2>7, <5>1
        <5>3. ~(data[k].indent <= 1)
          BY <2>3, <2>4, <4>2, <5>1, <5>2
        <5>4. data[k].indent \in {1, 2}
          BY <4>2, <5>1 DEF IsPlain
        <5> QED BY <5>3, <5>4
      <4>3. data[n].indent = 2
        BY <3>2, <4>1, <4>2
      <4> QED BY <1>1, <1>4, <2>3, <3>2, <4>1, <4>2, <4>3
    <3> QED BY <3>1, <3>2
  <2>10. ParseBlock(data, block) =
           [k \in {data[i].key : i \in inside} |-> data[Max({i \in inside : data[i].key = k})].value]
    BY <1>3, <1>9, <2>1, <2>5, <2>7, <2>8 DEF ParseBlock
  <2>11. CASE lines = {}
    <3>1. key \notin {data[i].key : i \in inside}
      BY <2>9, <2>11
    <3> QED BY <1>5, <1>7, <2>10, <2>11, <3>1 DEF Get
  <2>12. CASE lines # {}
    <3>1. key \in {data[i].key : i \in inside}
      BY <2>9, <2>12
    <3> QED BY <1>5, <1>7, <2>9, <2>10, <2>12, <3>1 DEF Get
  <2> QED BY <2>11, <2>12
<1> QED BY <1>8, <1>9

\* premptictl (parse_plugin_config_summary, default_action_get, parse_monitor_settings,
\* signoff::parse_settings) reads a plain file as the plugin does, and the time it gives the
\* hook (hook_timeout_from_config) is enough for whatever is enabled, and none when nothing is.
THEOREM ReadersAgree ==
  ASSUME NEW Values, NEW data \in ConfigFile(Values), IsPlain(data)
  PROVE  LET plugin == PluginReads(data) IN
         /\ Mode(data) = plugin.mode /\ DefaultAction(data) = plugin.defaultAction
         /\ MonitorSettings(data) = plugin.monitor /\ SignoffSettings(data) = plugin.signoff
         /\ HookTimeout(data) = NoTimeout <=> ~plugin.monitor.enabled /\ ~plugin.signoff.enabled
         /\ plugin.monitor.enabled => HookTimeout(data) >= HookTimeoutFor(plugin.monitor.timeout)
         /\ plugin.signoff.enabled => HookTimeout(data) >= SignoffHookTimeoutFor(plugin.signoff.ttl)
<1>1. Len(data) \in Nat /\ DOMAIN data = 1 .. Len(data)
  BY DEF ConfigFile
<1>2. ASSUME NEW key \in {"mode", "default_action"}, LinesThatSet(data, key) # {}
      PROVE  /\ LinesThatSet(data, key) = {n \in DOMAIN data : data[n].key = key /\ data[n].indent = 1}
             /\ Min(LinesThatSet(data, key)) = Max(LinesThatSet(data, key))
             /\ RestOf(data[Max(LinesThatSet(data, key))]) = data[Max(LinesThatSet(data, key))].value
  <2>1. PICK lines : lines = LinesThatSet(data, key)
    OBVIOUS
  <2>2. lines = {n \in DOMAIN data : data[n].key = key}
    BY <2>1 DEF LinesThatSet, IsSetting
  <2>3. Max(lines) \in lines /\ Min(lines) \in lines
    <3>1. lines \subseteq 1 .. Len(data) /\ lines # {}
      BY <1>1, <1>2, <2>1, <2>2
    <3> QED BY <1>1, <3>1, LeastLine, LastLine
  <2>4. lines = {n \in DOMAIN data : data[n].key = key /\ data[n].indent = 1}
    BY <2>2 DEF IsPlain
  <2>5. Min(lines) = Max(lines)
    BY <2>2, <2>3 DEF IsPlain
  <2>6. ~data[Max(lines)].note
    BY <2>2, <2>3 DEF IsPlain
  <2> QED BY <2>1, <2>4, <2>5, <2>6 DEF RestOf
<1>3. Mode(data) = YamlTop(data, "mode", "guardrails")
  <2>1. CASE LinesThatSet(data, "mode") = {}
    BY <2>1 DEF Mode, YamlTop, LinesThatSet, IsSetting
  <2>2. CASE LinesThatSet(data, "mode") # {}
    BY <1>2, <2>2 DEF Mode, YamlTop
  <2> QED BY <2>1, <2>2
<1>4. DefaultAction(data) = YamlTop(data, "default_action", "allow")
  <2>1. CASE LinesThatSet(data, "default_action") = {}
    BY <2>1 DEF DefaultAction, YamlTop, LinesThatSet, IsSetting
  <2>2. CASE LinesThatSet(data, "default_action") # {}
    BY <1>2, <2>2 DEF DefaultAction, YamlTop
  <2> QED BY <2>1, <2>2
<1>5. PICK reviews, timeout :
        /\ reviews = (YamlIn(data, "monitor", "enabled", "false") = "true")
        /\ timeout = YamlIn(data, "monitor", "timeout_ms", 20000)
  OBVIOUS
<1>6. PICK holds, ttl :
        /\ holds = (YamlIn(data, "signoff", "enabled", "false") = "true")
        /\ ttl = YamlIn(data, "signoff", "ttl_secs", 300)
  OBVIOUS
<1>7. MonitorSettings(data) = [enabled |-> reviews, timeout |-> timeout]
  <2>1. /\ Get(ParseBlock(data, "monitor"), "enabled", "false") =
             YamlIn(data, "monitor", "enabled", "false")
        /\ Get(ParseBlock(data, "monitor"), "timeout_ms", 20000) =
             YamlIn(data, "monitor", "timeout_ms", 20000)
    BY BlocksAgree
  <2> QED BY <1>5, <2>1 DEF MonitorSettings
<1>8. SignoffSettings(data) = [enabled |-> holds, ttl |-> ttl]
  <2>1. /\ Get(ParseBlock(data, "signoff"), "enabled", "false") =
             YamlIn(data, "signoff", "enabled", "false")
        /\ Get(ParseBlock(data, "signoff"), "ttl_secs", 300) =
             YamlIn(data, "signoff", "ttl_secs", 300)
    BY BlocksAgree
  <2> QED BY <1>6, <2>1 DEF SignoffSettings
<1>9. reviews \in BOOLEAN /\ holds \in BOOLEAN
  <2>1. CASE YamlIn(data, "monitor", "enabled", "false") = "true"
    BY <1>5, <1>6, <2>1
  <2>2. CASE YamlIn(data, "monitor", "enabled", "false") # "true"
    BY <1>5, <1>6, <2>2
  <2> QED BY <2>1, <2>2
<1>10. timeout \in Nat /\ ttl \in Nat
  <2>1. timeout # 20000 => \E n \in DOMAIN data : data[n].key = "timeout_ms" /\ timeout = data[n].value
    BY <1>5, BlocksAgree
  <2>2. ttl # 300 => \E n \in DOMAIN data : data[n].key = "ttl_secs" /\ ttl = data[n].value
    BY <1>6, BlocksAgree
  <2> QED BY <2>1, <2>2 DEF IsPlain
<1>11. /\ PluginReads(data).monitor = [enabled |-> reviews, timeout |-> timeout]
       /\ PluginReads(data).signoff = [enabled |-> holds, ttl |-> ttl]
       /\ PluginReads(data).mode = Mode(data) /\ PluginReads(data).defaultAction = DefaultAction(data)
  BY <1>3, <1>4, <1>5, <1>6 DEF PluginReads
<1>12. PICK review \in Nat, hold \in Nat :
         /\ review = HookTimeoutFor(timeout) /\ hold = SignoffHookTimeoutFor(ttl)
         /\ review > 0 /\ hold > 0
  BY <1>10, <1>9 DEF HookTimeoutFor, SignoffHookTimeoutFor
<1>13. PICK waits : waits = (IF reviews THEN {review} ELSE {}) \cup (IF holds THEN {hold} ELSE {})
  OBVIOUS
<1>14. HookTimeout(data) = IF waits = {} THEN NoTimeout ELSE Max(waits)
  BY <1>7, <1>8, <1>12, <1>13, <1>9 DEF HookTimeout
<1>15. waits # {} => Max(waits) \in waits /\ \A n \in waits : Max(waits) >= n
  BY <1>13, LongerOfTwo
<1>16. /\ HookTimeout(data) = NoTimeout <=> ~reviews /\ ~holds
       /\ reviews => HookTimeout(data) >= review
       /\ holds => HookTimeout(data) >= hold
  <2>1. CASE ~reviews /\ ~holds
    BY <1>13, <1>14, <1>9, <2>1
  <2>2. CASE reviews \/ holds
    <3>1. waits # {} /\ (reviews => review \in waits) /\ (holds => hold \in waits)
          /\ waits \subseteq {review, hold}
      BY <1>13, <2>2
    <3>2. HookTimeout(data) = Max(waits) /\ Max(waits) > 0
      BY <1>12, <1>14, <1>15, <3>1
    <3> QED BY <1>15, <2>2, <3>1, <3>2 DEF NoTimeout
  <2> QED BY <1>9, <2>1, <2>2
<1> QED BY <1>7, <1>8, <1>11, <1>12, <1>16
================================================================================
