---------------------------- MODULE HookRegistry ----------------------------
(***************************************************************************)
(* The files in which coding agents look their hooks up, and who writes    *)
(* them: the supervisor, which adds its hook when it starts and takes it   *)
(* away when it stops (hook.rs, hook_codex.rs), `premptictl hook add` and  *)
(* `remove`, a command that restarts the service and puts back in between  *)
(* what it found registered or enabled before (main.rs), and the user.     *)
(* Everybody reads the whole file, changes what was read and writes the    *)
(* whole file again, by truncating it first.                               *)
(*                                                                         *)
(* A file maps each hook event to its hooks, in order, each with the       *)
(* number of the group it is in: a group without hooks is not kept.        *)
(* Commands are told apart by who owns them: "ours" and "ours, long" are   *)
(* this install's interceptor without and with PREMPTI_TIMEOUT_MS, "other" *)
(* one of another install, "wrapper" a user's own command with the         *)
(* interceptor's name in it, and "user" anything else.                     *)
(***************************************************************************)
EXTENDS Integers, Sequences, Functions

CONSTANTS Agents,       \* agents to register for, of {"claude", "codex"}
          MaxCommands,  \* bound: commands and service starts
          MaxEdits      \* bound: edits by the user

ASSUME ConstantsAssumption ==
  Agents \subseteq {"claude", "codex"} /\ MaxCommands \in Nat /\ MaxEdits \in Nat

VARIABLES agent,     \* whose file it is
          long,      \* the configuration asks for a longer timeout
          file,      \* the file
          marker,    \* Codex's enable marker exists
          proc,      \* the processes of premptictl: command line, supervisor and restart
          managed,   \* the supervisor found the marker when it started
          serving,   \* the supervisor is up
          theirs,    \* the user's hooks, by event, as the user left them
          lost,      \* somebody wrote back what was read before another's write
          restored,  \* what is registered was put back by a restart, without the marker
          budget     \* commands and edits left

vars == <<agent, long, file, marker, proc, managed, serving, theirs, lost, restored, budget>>

Events == {"PreToolUse", "PermissionRequest"}
EventsOf(a) == IF a = "codex" THEN Events ELSE {"PreToolUse"}
Procs == {"cli", "daemon", "restart"}

OwnedCommands == {"ours", "ours, long", "other"}
Hook == [group : Nat, command : OwnedCommands \cup {"wrapper", "user"}]

IsOwned(hook) == hook.command \in OwnedCommands
Mentions(hook) == hook.command = "wrapper"

OwnedIn(hooks, e) == {h.command : h \in {g \in Range(hooks[e]) : IsOwned(g)}}
ForeignIn(hooks, e) == {h \in Range(hooks[e]) : Mentions(h)}

\* Those of an event's hooks that are not ours, in their order.
Theirs(hooks) ==
  LET upTo[n \in 0 .. Len(hooks)] ==
        IF n = 0 THEN <<>>
        ELSE IF IsOwned(hooks[n]) THEN upTo[n - 1] ELSE Append(upTo[n - 1], hooks[n])
  IN upTo[Len(hooks)]

NoHooks == [e \in Events |-> <<>>]
Json(hooks, keys) == [form |-> "json", hooks |-> hooks, keys |-> keys]
Absent == [form |-> "absent", hooks |-> NoHooks, keys |-> FALSE]
Torn == [form |-> "torn", hooks |-> NoHooks, keys |-> FALSE]
WrongShape == [form |-> "wrong shape", hooks |-> NoHooks, keys |-> TRUE]

-----------------------------------------------------------------------------
(* What is made of the settings.                                           *)

HookCommand == IF agent = "claude" /\ long THEN "ours, long" ELSE "ours"

\* Mutated form: a group that holds a hook of ours goes as a whole.
StripWholeGroups(hooks) ==
  SelectSeq(hooks, LAMBDA h : \A g \in Range(hooks) : g.group = h.group => ~IsOwned(g))

\* The groups without our hooks, and without the groups that leaves empty.
StripGroups(hooks) == Theirs(hooks)

StripOwnedHooks(hooks) ==
  [e \in Events |-> IF e \in EventsOf(agent) THEN StripGroups(hooks[e]) ELSE hooks[e]]

InGroup(n, command) == [group |-> n, command |-> command]
NewGroup(hooks) == IF hooks = <<>> THEN 1 ELSE hooks[Len(hooks)].group + 1
InNewGroup(hooks, command) == Append(hooks, InGroup(NewGroup(hooks), command))

WithOurs(hooks, e) == [hooks EXCEPT ![e] = InNewGroup(@, HookCommand)]

\* Nothing to do if exactly this command is there, or only one that merely has the
\* name; a hook of ours with another timeout or prefix is replaced.
AddClaude(hooks) ==
  LET owned == OwnedIn(hooks, "PreToolUse")
  IN IF HookCommand \in owned THEN hooks
     ELSE IF owned = {} /\ ForeignIn(hooks, "PreToolUse") # {} THEN hooks
     ELSE WithOurs(IF owned = {} THEN hooks ELSE StripOwnedHooks(hooks), "PreToolUse")

\* Mutated form: a hook in either event counts for both.
AddCodexOnce(hooks) ==
  IF \E e \in Events : OwnedIn(hooks, e) # {} THEN hooks
  ELSE WithOurs(WithOurs(hooks, "PreToolUse"), "PermissionRequest")

EnsureEventHook(hooks, e) == IF OwnedIn(hooks, e) # {} THEN hooks ELSE WithOurs(hooks, e)

\* Each event on its own, so that a half that is missing is added.
AddCodex(hooks) == EnsureEventHook(EnsureEventHook(hooks, "PreToolUse"), "PermissionRequest")

Added(hooks) == IF agent = "codex" THEN AddCodex(hooks) ELSE AddClaude(hooks)

Removable(hooks) == \E e \in EventsOf(agent) : OwnedIn(hooks, e) # {}

\* The file after a removal: Codex's goes when nothing else is in it.
Removed(f) ==
  LET hooks == StripOwnedHooks(f.hooks)
  IN IF agent = "codex" /\ ~f.keys /\ hooks = NoHooks THEN Absent ELSE Json(hooks, f.keys)

ClaudeStatus(f) ==
  CASE OwnedIn(f.hooks, "PreToolUse") # {} -> "registered"
    [] ForeignIn(f.hooks, "PreToolUse") # {} -> "left untouched"
    [] OTHER -> "not registered"

CodexStatus(f) ==
  LET hooked == {e \in Events : OwnedIn(f.hooks, e) # {}}
  IN CASE hooked = Events -> "registered"
       [] hooked = {} -> "not registered"
       [] OTHER -> "only one event is hooked"

\* What `premptictl hook status` says.
CliStatus(f) ==
  IF f.form = "torn" THEN "cannot tell"
  ELSE IF agent = "codex" THEN CodexStatus(f) ELSE ClaudeStatus(f)

-----------------------------------------------------------------------------
Idle == [pc |-> "idle", op |-> "none", new |-> Absent, stale |-> FALSE, result |-> "none"]

\* Files that users have: with a hook beside one of ours in a group, half
\* registered, with another install's hook, a wrapper, or no object at all.
InitialFiles ==
  {Absent, WrongShape} \cup
  {Json([NoHooks EXCEPT !["PreToolUse"] = hooks], TRUE) :
     hooks \in {<<>>, <<InGroup(1, "user")>>, <<InGroup(1, "user"), InGroup(1, "ours")>>,
                <<InGroup(1, "wrapper")>>, <<InGroup(1, "other"), InGroup(2, "user")>>}}

TheirsIn(f) == [e \in Events |-> Theirs(f.hooks[e])]

Init ==
  /\ agent \in Agents /\ long = FALSE
  /\ file \in InitialFiles /\ theirs = TheirsIn(file)
  /\ marker \in BOOLEAN /\ (agent = "claude" => ~marker)
  /\ proc = [p \in Procs |-> Idle]
  /\ managed = FALSE /\ serving = FALSE /\ lost = FALSE /\ restored = FALSE
  /\ budget = [commands |-> MaxCommands, edits |-> MaxEdits]

Ready(p) == proc[p].pc = "idle" /\ budget.commands > 0
Spend == budget' = [budget EXCEPT !.commands = @ - 1]
Starts(p, op, pc) == proc' = [proc EXCEPT ![p] = [Idle EXCEPT !.pc = pc, !.op = op]]
Ends(p, result) == proc' = [proc EXCEPT ![p] = [Idle EXCEPT !.op = proc[p].op, !.result = result]]

\* The supervisor's start: Codex's hook is its business only with the marker.
DaemonStarts ==
  /\ Ready("daemon") /\ ~serving /\ Spend
  /\ managed' = (agent = "claude" \/ marker) /\ serving' = TRUE
  /\ IF managed' THEN Starts("daemon", "add", "reading") ELSE UNCHANGED proc
  /\ UNCHANGED <<agent, long, file, marker, theirs, lost, restored>>

\* Mutated form: the marker is looked at again.
DaemonStopsByMarker ==
  /\ proc["daemon"].pc = "idle" /\ serving
  /\ serving' = FALSE
  /\ IF agent = "claude" \/ marker THEN Starts("daemon", "remove", "reading") ELSE UNCHANGED proc
  /\ UNCHANGED <<agent, long, file, marker, managed, theirs, lost, restored, budget>>

DaemonStops ==
  /\ proc["daemon"].pc = "idle" /\ serving
  /\ serving' = FALSE
  /\ IF managed THEN Starts("daemon", "remove", "reading") ELSE UNCHANGED proc
  /\ UNCHANGED <<agent, long, file, marker, managed, theirs, lost, restored, budget>>

CliAdd ==
  /\ Ready("cli") /\ Spend
  /\ Starts("cli", "add", "reading")
  /\ UNCHANGED <<agent, long, file, marker, managed, serving, theirs, lost, restored>>

\* The marker goes first.
CliRemove ==
  /\ Ready("cli") /\ Spend
  /\ marker' = FALSE
  /\ Starts("cli", "remove", "reading")
  /\ UNCHANGED <<agent, long, file, managed, serving, theirs, lost, restored>>

\* What a restart finds before it stops the service: Codex's marker, or Claude's hook
\* in the file, of which a torn one may still show the name.
Snapshot == IF agent = "codex" THEN marker
            ELSE file.form = "torn" \/ OwnedIn(file.hooks, "PreToolUse") # {}

\* `restart`, or a change of the mode or of the default action, with something to put
\* back.
RestartBegins ==
  /\ Ready("restart") /\ Snapshot /\ Spend
  /\ Starts("restart", "add", "stopping")
  /\ UNCHANGED <<agent, long, file, marker, managed, serving, theirs, lost, restored>>

\* The supervisor has gone and has done with the file, or the stop failed, which ends
\* the command.  What was found is put back as it was found, whatever the marker says
\* now; the start that follows is a DaemonStarts.
RestartStopped ==
  /\ proc["restart"].pc = "stopping"
  /\ \/ /\ ~serving /\ proc["daemon"].pc = "idle"
        /\ proc' = [proc EXCEPT !["restart"].pc = "reading"]
     \/ Ends("restart", "error")
  /\ UNCHANGED <<agent, long, file, marker, managed, serving, theirs, lost, restored, budget>>

\* Who wrote last what is registered.
RestoredBy(p) ==
  restored' = IF proc[p].op = "remove" THEN FALSE ELSE restored \/ (p = "restart" /\ ~marker)

\* The command line's last step of adding Codex's hook.
Marks(p) == IF p = "cli" /\ agent = "codex" THEN marker' = TRUE ELSE UNCHANGED marker

\* A file that cannot be read as JSON is an error, one of an unforeseen shape a panic.
\* The supervisor does not start without Claude's hook, but does without Codex's.
ReadFails(p) ==
  /\ proc[p].pc = "reading"
  /\ \/ file.form = "torn" /\ Ends(p, "error")
     \/ file.form = "wrong shape" /\ proc[p].op = "add" /\ Ends(p, "panic")
  /\ serving' = (serving /\ ~(p = "daemon" /\ (agent = "claude" \/ proc'[p].result = "panic")))
  /\ UNCHANGED <<agent, long, file, marker, managed, theirs, lost, restored, budget>>

Changes(op) == IF op = "add" THEN Added(file.hooks) # file.hooks ELSE Removable(file.hooks)

ReadsNothingToDo(p) ==
  /\ proc[p].pc = "reading"
  /\ \/ file.form \in {"json", "absent"} /\ ~Changes(proc[p].op)
     \/ file.form = "wrong shape" /\ proc[p].op = "remove"
  /\ Ends(p, "as it was")
  /\ IF proc[p].op = "add" THEN Marks(p) ELSE UNCHANGED marker
  /\ UNCHANGED <<agent, long, file, managed, serving, theirs, lost, restored, budget>>

ReadsAndChanges(p) ==
  /\ proc[p].pc = "reading" /\ file.form \in {"json", "absent"} /\ Changes(proc[p].op)
  /\ proc' = [proc EXCEPT ![p].pc = "writing", ![p].stale = FALSE,
                          ![p].new = IF proc[p].op = "add" THEN Json(Added(file.hooks), file.keys)
                                     ELSE Removed(file)]
  /\ UNCHANGED <<agent, long, file, marker, managed, serving, theirs, lost, restored, budget>>

\* Whoever has read the file before this change of it holds an old copy.
AllStale(others) == [p \in Procs |-> [others[p] EXCEPT !.stale = others[p].pc = "writing"]]

\* fs::write opens with truncation.
Truncates(p) ==
  /\ proc[p].pc = "writing" /\ proc[p].new.form # "absent"
  /\ lost' = (lost \/ proc[p].stale)
  /\ file' = Torn
  /\ proc' = AllStale([proc EXCEPT ![p].pc = "truncated"])
  /\ UNCHANGED <<agent, long, marker, managed, serving, theirs, restored, budget>>

\* Two that truncated at once write over each other: the longer text shows behind
\* the shorter one.
Writes(p) ==
  /\ \/ proc[p].pc = "truncated" /\ lost' = (lost \/ file.form # "torn")
     \/ proc[p].pc = "writing" /\ proc[p].new.form = "absent" /\ lost' = (lost \/ proc[p].stale)
  /\ file' \in {proc[p].new} \cup (IF lost' /\ proc[p].pc = "truncated" THEN {Torn} ELSE {})
  /\ proc' = AllStale([proc EXCEPT ![p] = [Idle EXCEPT !.op = proc[p].op, !.result = "changed"]])
  /\ IF proc[p].op = "add" THEN Marks(p) ELSE UNCHANGED marker
  /\ RestoredBy(p)
  /\ UNCHANGED <<agent, long, managed, serving, theirs, budget>>

\* A full disk, or the end of the process, between the truncation and the write.
WriteFails(p) ==
  /\ proc[p].pc = "truncated"
  /\ Ends(p, "torn")
  /\ serving' = (serving /\ ~(p = "daemon" /\ agent = "claude"))
  /\ UNCHANGED <<agent, long, file, marker, managed, theirs, lost, restored, budget>>

-----------------------------------------------------------------------------
(* External: the user edits the file, and switches the monitor or sign-off *)
(* on or off.                                                              *)

UserEdits(hooks, e) ==
  /\ budget.edits > 0 /\ budget' = [budget EXCEPT !.edits = @ - 1]
  /\ file.form \in {"json", "absent"} /\ hooks # file.hooks[e]
  /\ file' = Json([file.hooks EXCEPT ![e] = hooks], file.keys)
  /\ theirs' = TheirsIn(file')
  /\ proc' = AllStale(proc)
  /\ UNCHANGED <<agent, long, marker, managed, serving, lost, restored>>

\* Another group, another hook in the last group, or our hook gone from one event.
UserEditsSomething ==
  \E e \in EventsOf(agent) :
    \/ UserEdits(InNewGroup(file.hooks[e], "user"), e)
    \/ /\ file.hooks[e] # <<>>
       /\ LET last == file.hooks[e][Len(file.hooks[e])].group
          IN UserEdits(Append(file.hooks[e], InGroup(last, "user")), e)
    \/ UserEdits(Theirs(file.hooks[e]), e)

UserToggles ==
  /\ budget.edits > 0 /\ budget' = [budget EXCEPT !.edits = @ - 1]
  /\ agent = "claude" /\ long' = ~long
  /\ UNCHANGED <<agent, file, marker, proc, managed, serving, theirs, lost, restored>>

Next ==
  \/ DaemonStarts \/ DaemonStops \/ CliAdd \/ CliRemove \/ RestartBegins \/ RestartStopped
  \/ \E p \in Procs : \/ ReadFails(p) \/ ReadsNothingToDo(p) \/ ReadsAndChanges(p)
                      \/ Truncates(p) \/ Writes(p) \/ WriteFails(p)
  \/ UserEditsSomething \/ UserToggles

Spec == Init /\ [][Next]_vars

-----------------------------------------------------------------------------
(* Properties.                                                             *)

TypeOK ==
  /\ file.form \in {"json", "absent", "torn", "wrong shape"}
  /\ file.form # "json" => file.hooks = NoHooks
  /\ file.hooks \in [Events -> Seq(Hook)] /\ theirs \in [Events -> Seq(Hook)]
  /\ \A p \in Procs : /\ proc[p].pc \in {"idle", "stopping", "reading", "writing", "truncated"}
                      /\ proc[p].new.form \in {"json", "absent"}
                      /\ proc[p].result \in {"none", "error", "panic", "as it was", "changed", "torn"}

\* The user's hooks come through every registration and removal, in their order,
\* also those that share a group with ours: as long as nobody wrote back an old
\* copy, a readable file holds exactly them beside ours.
UserHooksSurvive ==
  ~lost /\ file.form \in {"json", "absent"} => TheirsIn(file) = theirs

Registered(f) == \A e \in EventsOf(agent) : OwnedIn(f.hooks, e) # {}

\* An `add` that reports success leaves the interceptor in every event the agent
\* asks it for, whatever half of it was there; only for Claude does a user's wrapper
\* do instead.
AddRegisters ==
  [][ \A p \in Procs :
        proc[p].op = "add" /\ proc[p].pc # "idle" /\ proc'[p].result \in {"as it was", "changed"} =>
          \/ Registered(file') \/ lost'
          \/ agent = "claude" /\ ForeignIn(file'.hooks, "PreToolUse") # {} ]_vars

\* A `remove` that reports success leaves none of our hooks in any event, of
\* whatever timeout or install.
RemoveClears ==
  [][ \A p \in Procs :
        proc[p].op = "remove" /\ proc[p].pc # "idle" /\ proc'[p].result \in {"as it was", "changed"} =>
          \A e \in EventsOf(agent) : \A i \in DOMAIN file'.hooks[e] : ~IsOwned(file'.hooks[e][i]) ]_vars

OwnedOnce(hooks) ==
  \A i, j \in DOMAIN hooks : IsOwned(hooks[i]) /\ IsOwned(hooks[j]) => i = j

\* However often it is added, with whatever timeouts and by however many
\* processes at once, Prempti is not hooked twice in one event.
NeverHookedTwice ==
  \A e \in Events : OwnedOnce(file.hooks[e])

\* `hook status` calls an agent registered only if every event that carries its
\* calls is hooked, and unregistered only if no interceptor runs, whatever halves
\* users and failed writes leave behind.
StatusTellsHalves ==
  /\ CliStatus(file) = "registered" => Registered(file)
  /\ CliStatus(file) = "not registered" =>
       \A e \in EventsOf(agent) :
         \A h \in Range(file.hooks[e]) : ~IsOwned(h) /\ (agent = "claude" => ~Mentions(h))

\* Whoever writes the file and in whatever order: the user's hooks are in it, ours
\* is in it once at most, and the status says which halves of it are there.
RegistryInv == TypeOK /\ UserHooksSurvive /\ NeverHookedTwice /\ StatusTellsHalves

\* A command or a supervisor that reports success has done what it was asked
\* (add, remove of hook.rs and hook_codex.rs).
ReportsHold == AddRegisters /\ RemoveClears

\* With Codex's hook disabled it may still be registered, for a supervisor that
\* had already seen the marker, but only until that supervisor stops; unless a restart
\* that had looked for the marker before the hook was disabled has put it back since:
\* that one stays, since no supervisor manages it (hook_codex.rs, main.rs).
DisabledEndsWithService ==
  /\ agent = "codex" /\ ~marker /\ ~serving /\ \A p \in Procs : proc[p].pc = "idle"
  /\ proc["cli"].op = "remove" /\ proc["cli"].result \in {"as it was", "changed"}
  /\ proc["daemon"].result \in {"none", "as it was", "changed"} /\ ~lost /\ ~restored
  => ~Removable(file.hooks)
=============================================================================
