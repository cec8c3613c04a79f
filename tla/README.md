# Prempti in TLA+

Prempti intercepts the tool calls of coding agents, has them evaluated by Falco
rules (and, optionally, by an LLM), and answers each with allow, deny, ask or
defer. This directory holds TLA+ models of its core, TLC configurations that
check them, and proofs that TLAPS checks.

## 1. The system

    agent --hook--> interceptor --socket--> socket server --queue--> Falco engine
                        ^                        |                        |
                        |                    register                  alerts
                        |                        v                        v
                        +------answer------- BROKER <---- HTTP alert receiver
                                              ^  ^  |
                      reaper (every 10 s) ----+  |  +----> audit file (hash chain)
                      LLM workers <-- queue -----+
                      premptictl signoff (over the same socket)

`Plugin` below is `src/plugins/coding-agents-plugin/src`.

| component | state it keeps | operations | what is hard | what makes it correct |
|---|---|---|---|---|
| verdict broker (`broker.rs`, `verdict.rs`) | a map from correlation id to entry: stream, staged verdict, count of signals, audit draft, hold; mode flags | register, apply_deny, apply_ask, apply_seen, apply_llm_outcome, resolve_signoff, reap_stale | five kinds of thread, two or three lock sections per operation, lost signals, TTLs | one answer; as strict as the signals; complete before lenient; always answered; the record agrees with the wire |
| alert receiver (`http_server.rs`) | none | one alert at a time: deny, ask or seen | alerts lost or malformed | alerts of an event are applied before its seen alert |
| socket server (`socket_server.rs`) | socket file | read a request, expand a patch into events, register, submit to the LLM queue, enqueue events; sign-off commands | both queues bounded; registration before the first event | count of signals equals the signals that can come |
| event source (`source.rs`) | bounded channel of 1024 | next_batch | full queue, shutdown | every event enqueued is evaluated once |
| LLM monitor (`monitor.rs`) | bounded job queue, N workers | submit, worker loop, two attempts, drain on drop | answered-already check is stale after the model call; panics | one outcome per job, `on_error` at worst |
| sign-off (`signoff.rs`) | enrolled keys | verify | proofs replayed | a proof counts for one record |
| audit chain (`audit.rs`) | file, seq, previous hash, write buffer | open, append, append_signoff | crash inside a line, failed flush | the file always verifies, or verification says where it breaks |
| plugin start-up and drop (`lib.rs`) | threads, flags | new, drop | order of start and stop | no request without the threads that answer it |
| apply_patch parser (`apply_patch.rs`) | none | parse envelope | moves, malformed envelopes | every path touched gets an event |
| interceptors (`src/hooks/*`) | none | connect, send, read one line | timeouts, id mismatch, two hook events for Codex | deny unless the broker says otherwise (or fail-open is set) |
| supervisor (`premptictl daemon`) | child process, control socket, pid file | start, stop, status, drain logs, rotate | signals, child exit and stop command race | one engine, always reaped |
| mode and service commands (`premptictl main.rs`) | configuration file, service, hook files | mode, default-action, start, stop, uninstall | failure between stop, rewrite and start | agents are not left intercepted by a dead service |
| hook registry (`hook.rs`, `hook_codex.rs`) | agents' settings files | add, remove, status | foreign entries, marker file and JSON change order | add then remove is the identity |
| sign-off commands (`premptictl signoff.rs`) | none | list, approve, watch | the list is stale when the key signs | nothing approved that was not shown |
| audit verifier (`premptictl audit.rs`) | none | verify a file | torn last line | accepts exactly unbroken chains |
| audit readers (`premptictl audit.rs`, `audit_ui.html`) | read offset; page's last seq and records | tail, follow, poll | the file grows between two reads; polls overlap | nothing skipped, nothing shown twice |

The mode flags (`guardrails`, `monitor`, `passthrough`), the no-match floor
(`allow` or `defer`) and sign-off are set once, when the plugin starts; a mode
change is a restart.

## 2. The modules

**The gate**

* **Verdict**: the verdicts and `Verdict::escalate` (deny > ask > {allow, defer}).
* **Broker**: the broker's map and the threads that work on it. Variables are
  the fields of `PendingRequest` and `AuditDraft`, per request; `wire` is what each
  interceptor has been sent and `trail` the audit records of each request.
  `work[t]` is the operation thread `t` is in, when the operation needs more than
  one lock section. `expected`, `outstanding`, `unclaimed` follow the signals that
  the count in the entry only counts.
* **ToolCallGate**: what the broker promises about one call, without threads,
  counts or clocks: a standing that only gets stricter, and one answer the standing
  permits. **BrokerGate** maps the broker onto it.
* **BrokerInv**: the inductive invariant. **BrokerProofs**: the theorems about answers,
  about records, and the refinement, and then those about `Pipeline`.
* **Pipeline**: the plugin's process around the broker: the socket thread that
  serves one connection after the other, the bounded channel to the engine, the
  alerts that come back, the LLM queue, its workers and their retries, and the
  shutdown. It extends `Broker`: each of its steps that touches a pending request is a
  step of `Broker` conjoined with what it does to the queues.

**The agent's side**

* **HookCall**: one tool call seen by the hooks the agent starts (two for Codex),
  with every deadline involved and one clock: the interceptor's timeout, the
  agent's own, the reaper's, the review's, the operator's window.
* **HookRegistry**: the agents' settings files, read, changed and written back by the
  command line, the supervisor, a restart and the user; an event's hooks are a sequence, each with its group.

**The operator's side**

* **Service**: supervisor, Falco process, service manager and the commands `mode` (which
  stands for `default-action` and `roe set` too), `start`, `stop`, `restart`. A hook is
  added or removed in one step that may fail; `HookRegistry` has the steps it is made of.
* **SignoffCli**: `signoff enroll`, `approve`, `deny` and `watch`, the key file, and the
  broker's answers to their control requests.
* **LogStream**: from the engine's output through the pipe, the drain and its rotation to
  the blocks `premptictl logs` prints. The engine prints an event's alerts, in order, and the
  line that marks it as seen.
* **AuditChain**: the audit file and its writer `AuditSink`, over restarts, crashes
  and failing writes, and what `premptictl audit verify` accepts of it.
* **AuditReaders**: `premptictl audit tail --follow` and the page of `premptictl audit
  serve`, reading a file that grows.

**Pure parts**

* **PatchEvents**: the `apply_patch` parser, the expansion of a patch into events, the
  payload and the fields read back from it. **RealPath**: `tool.real_file_path`.
  **SessionNames**: the names of sessions in the log viewer. **Settings**: premptictl's
  line-wise reading and rewriting of the plugin's YAML. **Inputs** takes one input of any of
  them a step and states what must hold of the result.

The modules `MC...` are instances for TLC, and the modules `...Proofs` hold the theorems about the
module they are named for (section 4). `AuditChain` refines the append that `Broker`
takes as one step that succeeds or fails; the broker uses only whether an append returned
a record, and the sink does not look at who calls it. `HookCall` takes the broker of one
call in one step per answer; how it comes to that answer is `Broker`'s subject.
`AuditReaders` takes the chain as sound; `AuditChain` says when it is.

### How the actions correspond to the code

`PROJECT.json` names the lines of every definition; this is the outline.

| action | code |
|---|---|
| `Register` | `handle_connection` up to `broker.register`: either the passthrough answer and record, or a new entry with its count |
| `AlertsBegin`, `DenyAlert`, `AskAlert`, `SignalComplete(Http)` | the receiver takes the alerts of one event in order: any number of deny and ask alerts, then the seen alert. Alerts of several events are a FIFO of such groups |
| `SeenAlertLost` | the seen alert is lost, unreadable or carries no id: its signal stays outstanding |
| `EventQueueFull` | `try_send` fails: `apply_deny(.., Internal)` and return, so this event and those after it are never evaluated |
| `ReviewBegin`, `StoreReview`, `ApplyReview`, `SignalComplete` | a worker's `has_responded` check and call of the model, then the three lock sections of `apply_llm_outcome` |
| `ReviewQueueFull` | `submit` fails: the socket thread itself reports `on_error` |
| `SignalComplete`, `TryHold`, `DenyUnsealed`, `Seal` | `signal_complete`: count; `try_hold` under its Ref; its `AuditFailed` arm; remove, answer, seal |
| `SignoffDecides`, `SignoffResolves` | `resolve_signoff`: checks under the Ref, then remove and answer |
| `TtlElapses`, `HoldTtlElapses`, `ReapScan`, `Reap` | time, and the two passes of `reap_stale` |
| `OperatorSigns` | external: the operator's key signs the hash of a record |
| `Accepts`, `TurnsAway`, `Submits`, `Emits` (`Pipeline`) | `handle_connection`: registered with all its signals, or answered without an entry; `submit`; `try_send` of one event after the other |
| `EngineEvaluates` | `next_batch` hands out an event; external: the rules that match it |
| `Delivers`, `Loses`, `SeenArrives` | `run_server` and `classify_tags`; an alert that cannot be read is dropped with a 200 |
| `TakesJob`, `ModelReplies`, `ModelRetried`, `ModelFails` | `worker_loop`, `evaluate`: two attempts, `error_outcome`, and no model call once the plugin stops |
| `Stops`, `HttpEnds`, `SocketEnds`, `WorkerEnds` | `Drop` of the plugin, `unblock`, and the ends of the threads it joins |
| `Invoke` … `Killed` (`HookCall`) | an interceptor's `main`: input, connect, write, wait; its timeouts and, external, the agent's |
| `Registers`, `Completes`, `Reaps`, `OperatorDecides`; `ReviewStarts`, `ModelAnswers`, `AttemptFails` | the broker and the monitor as far as they take time |
| `CliAdd`, `CliRemove`, `Daemon...`, `Restart...`; `ReadsAndChanges`, `Truncates`, `Writes` (`HookRegistry`) | `add`, `remove` and their callers; read, change, `fs::write` as truncation and write |
| `Preflight` … `RemoveCodexHook` (`Service`) | `daemon::run` from its checks to its exit; `SpawnFails` and `StartFails` are the failures of `spawn_falco` and of what follows it, `control::start` and the threads; `NoticesExit` is the poll loop, `GracefulStop` and `Joins` are `stop.rs` |
| `Command`, `Snapshot`, `WritesMode`, `StopsUnit` … `StartsLauncher` | `mode_set`, `service_restart`, `service_stop`, `service_start` with the branch of each platform, failing queries (`Finds`), kills (`ForceKills`) and sweeps (`SweepFails`) included |
| `SeesExit`, `Restarts`, `ManagerStops` | external: systemd, launchd |
| `Fetches`, `ReadsKeys`, `Touches`, `Asks`, `Resolves`, `Reports` (`SignoffCli`) | `approve_target` and `deny_target` between their input and output; `Resolves` is the broker's side |
| `Polls`, `Prompts`, `Chooses`, `Quits`; `EnrolLoads` … `SaveWrites` | `watch`; `enroll` and `save_keys` |
| `DrainReads`, `DrainRotates`, `DrainReopens`, `DrainWrites` (`LogStream`) | `drain`, `rotate_now`, the reopening, the write |
| `TailOpens`, `ViewerReads`, `ViewerEnds` | external: `tail`; `process_line` and `finalize` |
| `Open`, `AppendSeals`, `AppendFails` (`AuditChain`) | `AuditSink::open`; `append_with`, with a write and flush that succeed, or fail in one of the ways a `BufWriter` can |
| `Stop`, `Crash`, `CrashInAppend` | the sink is dropped, which flushes; the process dies between two appends, or inside one |
| `Accepted` (an operator) | `verify_reader`: the lines it accepts, each by the place where it begins |
| `TailStarts`, `FollowStats`, `FollowReads`, `FollowFails` (`AuditReaders`) | `tail`: the first print; the length from the metadata; the read from the offset; a read that ends inside a character |
| `PageAsks`, `PageReceives`, `PageFails`; `ServerAnswers` | `poll()` of the page; `/api/records` in `route` |

**Grain of atomicity.** A body that runs under one `DashMap::get` is one step.
`remove` needs the shard's write lock, so no removal falls inside such a body; two
bodies can overlap, but each field has a mutex of its own, so they end as if one had
run after the other (`try_hold`, the one that reads two fields, runs when no other
signal of the call is left). What a function does under two locks is two steps,
and between them any other thread may run. After `remove` the entry belongs to
its remover, so the response and the record belong to that step. Outside the plugin,
every operation on a file, a socket or a process that another process can see is a step
of its own: a settings file is read, truncated and written, a log is renamed and reopened,
a list is fetched before a key signs.

**Abstractions of the gate.** Reasons, rule names, the wire id and the JSON are left out.
A record's hash is represented by the request it belongs to, and a proof by the
request whose hash was signed. Time is two facts per request, "older than the
pending TTL" and "held longer than the sign-off TTL", which become true at any
moment after they could. In `Broker` the socket thread may interleave its work for two
connections and may discover a full queue late; the code allows fewer orders, which are
those of `Pipeline`. The audit file may be written, or any append may
fail (`AuditCanFail`), which also covers an audit trail that is switched off. A model
verdict is any of allow, ask, deny, or none for a job that is skipped. In `Pipeline` the
sign-off window and the reaper are left to `Broker`, a batch of the event source is one
event after the other, and a request that is pending when the plugin stops is dropped
without an answer, as in the code.

**Of the audit trail.** The file is a sequence of parts, and a line is what lies between two
newlines. A line is written as three parts (the beginning of the JSON text, its rest, the
newline), because that is what a verifier and `open` tell apart: no text, text that is
not JSON, a record without newline, a record. What a failed flush leaves is in `buffer`
and precedes the next line. A hash stands for what it was computed from, so the hash of
a record is the sequence of bodies up to it, and equal hashes mean equal histories.
Bodies are numbers, all different: a record carries its time and its ids. Nobody else
writes the file. In `AuditReaders` the file is its length in the same parts, and a
reader may see it end at any of them; of the page's records it counts how often each is there,
not their order. Truncation of the file and the limit `-n` are left
out. The service never calls `fsync`; a loss of power, which may lose any suffix of the
file, is not modelled.

**Of time.** `HookCall` counts ticks of five seconds, of which every constant in the code
is a multiple. A process's own steps take no time: the clock moves when everybody
waits for somebody. So a deadline is missed only by waiting, never by a slow step.

**Of files and paths.** A settings file is, per event, its hooks in their order, each with the number
of its group and who owns its command; a group without hooks is not kept. A log file is its lines, each a number, and an inode keeps being written and
read while its path is renamed. A path is the sequence of its components, a patch line its kind and
path. A correlation id is a nonce no record number equals.

## 3. The runs

All runs have `CHECK_DEADLOCK FALSE`: when every call is answered and gone nothing
remains to be done, and the models stop at their bounds of commands, faults, lines or
records. Where a property is a conjunction, its parts are named definitions that a
counterexample can be traced to.

| run | instance | what it shows |
|---|---|---|
| `one` | 1 request, 2 events, 1 worker, appends succeed; all 12 configurations | types; one answer; lenient only when complete; `ParkedOrCompleted`: a count of zero is never forgotten and a held request is a sealed, unanswered ask; `TrailIsTrue`: trail and wire agree, records name a source that raised the verdict, what has gone is recorded |
| `audit_fails` | the same, appends may fail, and time passes | strictness; sign-off never falls back to asking the agent; the inductive invariant of section 4; the broker implements `ToolCallGate`; `ReaperEndsAll`: with the reaper alone every call is answered and no entry stays for ever; without it the last signal answers the call or parks it |
| `two` | `Pipeline`: 2 requests (two events, or an event and a review; an event and a review), queues of 1, two attempts, one rule match, one lost alert, a stop at any time; guardrails, and monitor mode with the first request alone; no sign-off, floor `allow` | `StrictAsEngine`: the answer is as strict as what the rules raised for that request, not merely as the alerts that arrived, unless an alert of it was lost; a reviewed call is allowed only on the model's own word; each call ends without the reaper, unless an alert of it was lost or, in monitor mode, an event of it found its queue full; a stop ends every thread |
| `chain` | 5 appends, 4 starts; any write fails, a crash cuts anywhere | `ChainInv`: without a failed append or a line parted from its newline every terminated line verifies and a sealed record stays on its line of the verified chain; `SealedStays`: whatever fails, sealed records never share a number, and a sealed record and the one it continues are in the file |
| `readers` | 3 records, pages of 2, 2 polls under way | the follow loop passes nothing over; the page shows each record once and misses none up to its last but those the limit left out |
| `calls` | `HookCall`: both agents; no review or one of 5 or 20 s an attempt, no sign-off or windows of 10 or 55 s, `PREMPTI_TIMEOUT_MS` unset, above Codex's limit or above both agents', up to 2 silent connections ahead | `ToldNoMilder`: the agent is told nothing milder than the broker's answer, be it early or late, and denies without one; the agent's own limit kills only hooks that stalled in the write, unless the user's own `PREMPTI_TIMEOUT_MS` rules and is at least the limit; for Claude below its maximum, a decision within the window arrives if the call was held within the 15 s of slack; `ReviewFits`: neither the hook nor the reaper gives up during the two attempts |
| `registry` | both agents; 3 commands, restarts or service starts, 2 edits by the user, any write fails | `RegistryInv`: the user's hooks survive unless somebody wrote back an old copy, Prempti is hooked once at most, status tells halves apart; `ReportsHold`: `add` and `remove` that report success have done it; a disabled hook ends with the supervisor that still knew it, unless a restart that had looked at the marker before puts it back |
| `service` | systemd and Windows with Codex, launchd without; one supervisor at a time, 2 overlapping commands, 1 fault | `HookFollowsService`: the hook is there while an engine answers, and at rest only one that a failure left is; `ModeApplies`: the mode that runs is the configured one unless a command failed, said otherwise or could not stop the service; `StopsLeaveNoEngine`: the end of a supervisor, and a stop that reports success, leave no engine but for the failures named; `StopsAndBlocksEnd`: a stop ends, and agents are not blocked for ever but by such a hook |
| `signoff` | 2 calls, a watch and 2 commands, 2 enrolments of one new key, whose saves may fail or be cut, one edit, one restart | `ReportsStayTrue`: of calls; of keys, those reported are in every key file that can be read, unless their enrolment overlapped another, and only a save that reported its failure leaves one that cannot be read; `ReleasedAsMeant`: only on a signature over that call, by a key and for a relying party the plugin had loaded, and on a decision about that call; `WatchPromptsOnce` |
| `logs` | one patch whose events share an id, files of 2 lines, 2 archives, a pipe of 3, 7 lines, 1 failing rename, open or write, which may leave a part of its line | `LogInv`: no line reordered; unless an open or a write failed, none missing between the oldest kept and the last; unless anything failed, as many kept as configured; `ShownAsRaised`: each event's block is no milder than its own alerts that were delivered on lines of their own, and is their verdict unless an open or a write failed; the pipe is always drained |
| `inputs` | patches of up to 5 lines of 8 kinds; 11 file systems, paths of up to 4 components; transcripts and indexes of 3 records and 2 looks, at any size, which may read any part; configuration files with every presence, value and note of four settings in three orders, up to two commands | `PatchesAreJudged`: a patch is taken exactly if well formed, and the rules see each of its files with that file's lines; `ResolvedIsWhereItLands`; `NamesAreCurrent`: the name shown is the session's, but for what a look passed over: a transcript's records up to a size inside a record, or at which the reading failed, if no title follows; an index that could not be read at the size it now has; `SettingsAgree` |
| `forked` | 3 appends, one fails | the finding, below |

**Why the bounds are enough.** Requests share no entry: they meet in the threads and
queues, which is what `two` is for, and in the reaper's list and the operator's proofs, which the
theorem `StrictAnswers` covers for any number. Two events and a review give a call three
signals from two threads, so a signal can be first, in the middle and last, and both
queues can be full in the same call. A second worker adds nothing to one call, which
has one review job. In `two` a queue of one is full as soon as it holds anything, the
patch of the first request fills it itself, and the second request finds it filled by the
first. No counter of the broker needs a bound: signals are sets and each is brought once.

In `Service` a torn configuration is one value of its own, which the engine may refuse to start with or read as
some other mode. The commands themselves run to their ends: a command that is killed half-way is not
modelled.

The state of the audit file that matters to the next operation is its last line, the
buffer and the head of the chain. Four starts and five appends let each kind of
failure be followed by each other kind with a good append in between, and a chain
resumed after a cut be resumed once more. Three records and pages of two are the least in
which a page leaves records out, two polls overlap, and the follow loop reads across two
newlines.

The timeouts of `calls` are chosen on both sides of each comparison in the code: a review
shorter and longer than the default waits, a window whose timeout is within and beyond what the
interceptor waits at most (the Claude interceptor's maximum of an hour, 720 ticks, is 13 here), a variable of
the user's below and above the agents' limits. Three commands of `registry` are an addition, a
removal and one more that meets what they left, or a removal between a restart's look at the marker and what it puts back; two overlapping commands of `service` are
the least that disturb each other's stop and start. Seven lines with files of two rotate through
both archives and delete one. A patch of five lines has two hunks with an envelope, or one
with its move; a path of four components can pass a link, a missing component and `..`; one
chain of links is cyclic (the limit of 40 links is 4 here).

**Fairness.** `TimedSpec` assumes that time passes, and nothing of the program. The
fairness a liveness property of `Broker` needs is its hypothesis: `EveryRequestAnswered` and
`EntriesDrain` hold if the reaper runs (`ReaperRuns`: its own thread loops until shutdown
and visits every id of a pass), while alerts are lost, the model is stuck, other threads
stop half-way and the operator never comes. `CompletesOnLastSignal` holds if the threads
end what they have begun (`ThreadsRun`: their operations take short locks and call nothing
that waits), while the reaper never runs; it assumes nothing of the arrival of signals.
`PipelineSpec`: the socket thread, the receiver and each worker go on with what they have
(loops without other waits than those the guards state; a call of the model has a
timeout), and the engine asks for events until it stops; connections and the stop may
never come. `Service`: the supervisor, the commands and the service manager take their steps,
an engine that has started reads its configuration and binds; nothing is assumed of an
engine that is asked to exit. `SignoffCli`: programs take their steps and the operator
answers prompts. `LogStream`: the drain's thread and the viewer run. `HookCall`,
`HookRegistry` and the audit models state no liveness.

### What the code does not keep

**`forked`** (`Verifies`), the run that expects a violation: after a failed flush the line stays in the
`BufWriter` while `seq` and `prev_hash` stay behind, so the file gets two records that
continue the same one, and the verification of an untouched file fails; `audit.rs:438-439` says the mutex keeps the two consistent.
`HashChained`, in the run `chain`, says under which conditions `Verifies` holds.

The following are stated as properties as well, each with a configuration in which TLC finds it
violated (`tlc -config <configuration>.cfg <module>`):

| property | configuration | what the code does, and what it says |
|---|---|---|
| `HeldGetsItsWindow` | `MCBroker_window` | `reap_stale` collects ids under one criterion and removes them in a second pass without checking again: a request parked in between is expired at once, although `broker.rs:769-771` measures held requests "from the moment they were parked" |
| `MonitorStepsAside` | `MCBroker_monitor` | in monitor mode a call with a lost seen alert, or one that met a full event queue, is denied; `broker.rs:270-271` says all verdicts resolve as defer |
| `RecordCarriesWireVerdict` | `MCBroker_record` | after a failed append in `try_hold` the reaper can get the entry first and append a record whose final verdict is ask, with a deny on the wire; `audit.rs:4-6` says a record carries the final wire verdict |
| `CorruptTailRestarts` | `MCAuditChain_torn` | a crash inside a line's text makes every later start fail, since `open` returns an error and the plugin does not start; `audit.rs:447-448` says the chain restarts from that line |
| `OneRecordPerLine` | `MCAuditChain_merged` | a text larger than the `BufWriter`'s 8 KiB is written before its newline, and after a crash between the two the next record lands on the same line; `audit.rs:3` says one JSON line per request |
| `PrintedOnce` | `MCAuditReaders_twice` | the follow loop takes the file's length, reads to its end, and sets its offset to the length, so what came in between is read twice; the usage text says it streams new records |
| `HoldReachesAgent` | `MCHookCall_hold` | the hook's timeout is the larger of what the review and what sign-off need, not their sum: a call held after a long review is given up before its window ends, although `main.rs:326-327` (premptictl) says "the whole hold window plus slack for Falco, the LLM and the socket" |
| `RestartBlocksCalls` | `MCService_restart_gap` | a restart's stop lets the supervisor take the hook away, and the command puts it back afterwards: in between calls run unchecked, where `print_restart_warning` (`main.rs:420-425`) announces that all are blocked |
| `StoppedIsNoLie` | `MCService_lie` | a supervisor that acknowledges STOP and dies leaves its engine, and the command reports success without the sweep that `service_stop` has against exactly that |
| `OneSupervisor` | `MCService_supervisors` | two supervisors that start at once both find no live peer, and the later one unlinks the other's socket (`daemon/control.rs:37`) |

**Observations** made while reading, outside the models. The socket server's check for a live peer
(`socket_server.rs:79`) has the same two steps as the supervisor's. A malformed patch is denied without an
audit record, and so is a request without a nonce. When the HTTP receiver cannot be started (`lib.rs:233`) the
socket thread is already running. The page's server caps an answer (`premptictl audit.rs:552`): more
records between two polls than the cap are passed over by the page. A reply to a sign-off
request may be lost after the release (`premptictl signoff.rs:420`): the command then reports a failure. A
slow STATUS reply counts as no supervisor (`main.rs:1202`), and the socket is unlinked. `premptictl health`
reports some denies by the infrastructure as a healthy pipeline (`main.rs:1525`). A failed rename is tried
again at the next line and then deletes one more archive, which is why `RetentionKept`
speaks of rotations that succeed. A log line that was written in part takes the next one with it
(`pipe_drain.rs:69`). A session's transcript or index that is found and cannot then be opened counts as read
(`logs_pretty.rs:185`, `218`), although `208-211` keeps the names over a failed stat. `tail -f` stays on a file that was rotated away. Between the rename and
the reopening of the log `premptictl logs` says the service is not running. A comment after `monitor:` or `signoff:`, or
`enabled: True`, is understood by the plugin and not by premptictl. A path with `..` after a
missing component is cleaned as text, where the system would fail. A restart puts Codex's hook back
when it had found the marker before it stopped the service (`main.rs:698-701`); if the user disables the hook
in between, it stays registered, and no later stop takes it away, since the marker is gone. When the
restart's start fails, what it put back blocks every call until a service has come and gone
(`main.rs:691`). If the control listener or another thread cannot be started (`daemon/mod.rs:132-138`, `324`,
`362`), the supervisor ends with hooks and socket file in place, and on Windows with Falco alive. A process
query or taskkill that fails in a sweep is taken for success (`main.rs:1039-1046`, `1172-1176`), so the
stop reports success, and so does a `mode` change that the old engine then does not see. A write of the
configuration that fails after the truncation leaves a torn file (`main.rs:551`), which the next `mode` or the next
start may refuse. A failed write of the key file likewise leaves one that the plugin does not
load (`premptictl signoff.rs:561`), and the keys in it are lost.

## 4. The proofs

TLAPS checks the theorems below. Each holds for every value of the constants, where a run
of section 3 checks one small instance; names in brackets are the properties of the runs.
The bounds in the guards are constants like any other, so that they may be as large as one likes.

| module | theorem | states |
|---|---|---|
| `BrokerProofs` | `TypeCorrect` | [`TypeOK`] of `Broker` |
| | `OneAnswer` | [`AnsweredOnce`]: no interceptor is sent a second verdict |
| | `StrictAnswers` | [`AnswerAsStrictAsSignals`]: under guardrails no answer is more lenient than the strictest signal taken in, save the allow of an ask that was signed |
| | `InvariantHolds` | [`IInv`]: signals, counts, completions, drafts and records of every entry fit together |
| | `LenientComplete` | [`LenientAnswerIsComplete`]: no allow and no defer while a signal is still to come |
| | `AskStaysWithOperator` | [`SignoffKeepsAskFromAgent`]: with sign-off, ask is never an answer |
| | `NoneForgotten` | [`ParkedOrCompleted`]: a count of zero is in somebody's hands; what is held is a sealed, unanswered ask |
| | `TrailTrue` | [`TrailIsTrue`], if appends succeed: records agree with what was sent, name a source that raised the verdict, and no entry goes without one |
| | `RecordsExplain` | the part of it that holds also when appends fail, `RecordExplainsVerdict` |
| | `Implements` | [`ImplementsGate`]: every behaviour of the broker is one of `ToolCallGate` for each request |
| | `PipelineIsBroker` | `PipelineSpec => Spec`: what is proved of the broker holds in the plugin |
| | `StrictPipeline` | [`PipelineInv`]: the answer is as strict as the rules that matched, unless an alert was lost |
| | `AllowedOnlyByModel` | [`NoAllowUnreviewed`]: a reviewed call is not let through on anybody's word but the model's |
| `HookCallProofs` | `AnswerIsNeverSoftened` | [`ToldNoMilder`] for all settings and any order of events |
| | `LimitOutlastsHook` | [`KilledOnlyIfStalled`], for both agents: the limit registered with the agent outlasts any wait that Prempti sets; the exception is a longer `PREMPTI_TIMEOUT_MS` of the user's own |
| | `OperatorIsHeard` | [`DecisionArrives`], of calls held within 15 s under a timeout below the Claude interceptor's maximum |
| | `ReviewHasItsTime` | [`ReviewFits`]: both attempts fit into the hook's and the reaper's patience |
| `SignoffCliProofs` | `ReportsAreTrue` | [`ReportsStayTrue`], also when saves of the key file fail; keys of overlapping enrolments are excepted |
| | `CallsReleasedAsMeant` | [`ReleasedAsMeant`] |
| | `WatchAsksNoCallTwice` | `WatchAsksOnce`, the safety half of `WatchPromptsOnce` |
| `ServiceProofs` | `StopsTellTheTruth` | [`StopsLeaveNoEngine`], for any number of supervisors at once: what a supervisor's end or a reported stop leaves is named in it |
| | `HookIsWhereTheServiceIs` | [`HookFollowsService`], for one supervisor at a time: at rest a hook stays only after one of the failures named in `StoppedUnblocks` |
| | `ConfiguredModeApplies` | [`ModeApplies`], for one supervisor at a time, unless a command failed, said that the change is not applied, or could not stop the service |
| | `CommandSetsOneSetting` | of any configuration file whatever, `mode` and `default-action` change what the plugin reads for that setting and nothing else; premptictl reads monitor, sign-off and the hook's time as before |
| | `CommandIsShown` | asked afterwards, premptictl shows what it was told to set, and the other setting as before |
| | `ReadersAgree` | of a file laid out as the installed one, premptictl's lines and the plugin's YAML say the same, and the hook's time covers every wait that is enabled |
| `AuditChainProofs` | `SealedRecordsStay` | [`SealedStays`]: whatever fails, sealed records have numbers of their own and a predecessor in the file |
| | `ChainVerifies` | [`ChainInv`]: while no append fails and no text is parted from its newline, the file verifies and what was sealed stays on a verified line |
| `AuditReadersProofs` | `TailSkipsNothing` | [`TailInv`]: what lies before the follow loop's offset is printed or waits for its newline |
| | `PageShowsAllOnce` | [`PageShowsOnce`], for any number of overlapping polls and any limit |
| `HookRegistryProofs` | `RegistryIsKept` | [`RegistryInv`]: the user's hooks survive in their order unless somebody wrote back an old copy, ours is hooked once at most, status tells halves apart |
| | `SuccessIsTrue` | [`ReportsHold`]: `add` and `remove` that report success have done it |
| | `DisabledIsGone` | [`DisabledEndsWithService`]: a disabled hook ends with the supervisor that knew it, save one that a restart put back |
| `LogStreamProofs` | `StreamInductive` | the invariant that the next two rest on |
| | `LogKept` | [`LogInv`]: whatever fails, no line is reordered; none is missing between the files unless an open or a write failed; as many are kept as configured while nothing failed |
| | `ShownIsRaised` | [`ShownAsRaised`], wherever tail starts and whatever fails: no milder than the alerts that could be read, and exactly those without a failed open or write |
| | `IndexIsCurrent` | however Codex's index grows between and during looks, a look that reads what the size it found says leaves a cache of the index as it was, whatever a failed one left before, and at a quiet index the names it has |

**Assumptions.** The `ASSUME`s of the modules, which say what kind of value each constant
is: of `Broker`, that a request has finitely many events, that the LLM's signal and the two
fixed threads differ from the others, and that `None` is not an id; of `Pipeline`, that
requests are numbers, that a rule's tags are some of deny and ask, that `on_error` is one of
them, and that the queues hold something; of `HookCall`, that times are natural numbers; of
`SignoffCli`, that record numbers are and that a key off the curve is no key; of `Service`,
the platforms, that there is a mode and a supervisor; of `HookRegistry`, that its agents are some of
the two; of `LogStream`, that a file holds a line, one archive is kept and an event's alerts are
deny, ask or other; of `AuditChain` and `AuditReaders`, that bounds are numbers. Requests, workers,
commands, calls and supervisors may be infinitely many. Two hypotheses go beyond that. `TrailTrue` supposes `~AuditCanFail`: it is false otherwise, as
`MCBroker_record` shows. Two theorems of `Service` suppose `OneDaemon`: with two supervisors
one takes away the hook under the other's engine (`OneSupervisor`, section 3).

**The broker.** `AnsweredOnce` needs only `StreamUntilAnswered`: the stream is in
the entry exactly until the answer is written, and whoever answers takes it.
`AnswerAsStrictAsSignals` is far from inductive: whether the thread that seals may say
allow depends on what other threads are in the middle of. `CoreInv` (module `BrokerInv`)
adds, in the order in which the lemmas use them:

* `SignalsHaveOneBringer`: each outstanding signal that is claimed is brought by one
  thread. Two threads with one signal would count it twice.
* `UnregisteredIsUntouched`: a request that is about to be registered has no leftovers.
* `CountIsOutstanding`: the count is the number of outstanding signals, and at zero
  one thread, or the operator, has the completion. It follows that the sealing thread
  is alone: no review is about to be applied and no other thread is about to refuse.
* `StagedIsAsk`, `SignalsAreKept`: until the answer, a deny taken in is in the hands of
  the thread that will answer it, and an ask is staged, held, about to be staged or
  about to be refused. So the sealing thread finds in the entry all that was raised.
* `ApprovalIsSigned`: the socket thread carries an allow only for a held request whose
  record was signed; a held request has no signal to come, so no deny was raised.

`IInv` goes on from there to what the records need: `ReviewIsStored` (an outcome is stored
once, by the thread that brings it), `SourcesAreTrue` (whatever names a source in an entry, a
draft or a record, that source raised the verdict), `CompletersKnowSignoff` (a thread that
completes a request holds an ask only under sign-off, and seals one only without it or after
its answer) and `TrailSoFar` (what is in the trail of a request at each point of its life:
nothing while it is pending, except the record of a held ask). `BrokerProofs` has one lemma
per conjunct of `CoreInv`, with a step per action. The conjuncts that `IInv` adds rest on `RequestStep`:
seen from one request, every step of every thread is one of eleven things. The run `audit_fails` checks `IInv` with TLC.

**The gate.** A step of a thread changes the abstract state of one request at most, so
`RequestStep` says what the step is for that request (registered, a signal taken
in, answered) and each is matched with an action of `ToolCallGate`. That an answer is
permitted by the standing is `IInv` before and after the step.

**The plugin.** `PInv` follows an event from the socket thread through the channel and
the engine's output to the receiver: it is in one place (`QueuedOnce`), its signal is
unclaimed or in the receiver's hands (`QueuedIsUnclaimed`), so that `AlertsBegin`
finds what its guard asks and the step is one of the broker. For `StrictAsEngine`,
`RuledIsTaken` says that what a rule raised is a hit in the draft or an alert still to come,
as long as no alert of that call was lost; `GoneIsComplete` that an entry goes only when
nothing is to come.

**The hook.** `HInv` relates the clocks: `ClockOfHook` bounds the hook's time by its
deadline, `ReviewOfEntry` the review's by its attempts since the entry was made,
`OperatorInTime` the operator's by the window; the theorems then compare the settings
that each deadline derives from. `AnswerIsTold` is what makes a late answer harmless: a hook
that has gone without one has denied, or was set not to.

**The sign-off commands.** `SInv` follows a client from its list to its report
(`Progress`): once a client says its call is verified, the proof is over that call and by a
key the plugin holds. `KeysAreLoaded` says that who enrols has loaded every reported key that did
not race and that only a save under way, or one that failed, leaves a torn file; and `WatchKnows` what a watch's list and memory hold.

**The service.** `FInv` keeps supervisor and engine together (`Sound`) and says how
far each command's stop has come (`Placed`), for any number of supervisors. With one,
`HooksKept` says which hooks are its charge at each point of its run (`Charge`) and which a restart
has put back and not yet started a service for (`PutBack`), so that every other hook is one that a
failure left; `ModeKept`, that an engine in another mode than the configured has a
command that is going to restart it.

**The audit chain.** `SealInv`: behind the text of a sealed record nothing in the file has
a lower number, and the head in memory is past every sealed record and is in the file. A
failed append leaves text of the next number only, so the next start resumes at no lower
number. `WholeInv`, under the two conditions of `ChainInv`: the buffer is empty, every line
continues the one before it, except a text cut short behind which nothing is written since the service
does not start, and the head in memory is the last line's.

**The audit readers.** `NothingSkipped` is inductive with the types: the offset is set to a length that
was read past, and the lemma `NothingLost` says that a text is its complete lines and its remainder.
For the page `PollsAreNewest` adds that each answer under way holds every record after the page's last
number of now, or of when it was asked, except those the limit left out by now; so whichever
answer is taken first, no gap opens.

**The hook registry.** `HooksInv` has, beside the files, what each process is about to write.
`WorkIsRight`: that is a file with ours once and, for what was asked, in every event or in none.
`WorkIsCurrent`: until somebody writes back an old copy, whoever may still write has read the file as it
is, and only the one that truncated it has a torn one before it; so a write puts the user's hooks back as
they are. `DisabledIsSeenTo`: while a hook of Codex is left after a `remove`, a supervisor that manages
it is up, or is about to remove it, or has reported that it could not, or a restart has put it back. What the filter `Theirs` returns is
an induction over the hooks; the library's rules for it take an operator, so `LeastOf` gives the
shortest prefix of which the claim would be false instead.

**The log.** `FilesInv`: only the newest file is written to, so the lines of all files, in the order of
creation, are in the order printed (`LinesAscend`); a rotation drops the oldest file that has a name,
so those with one are the newest (`NewestHaveNames`), and until something fails the name says
which it is (`AllFull`). `ViewerInv`: what is in flight for a call are the alerts delivered since the last
seen line of it (`FlightIsPending`), and the engine prints an event's lines at once (`EventsAreWhole`);
so a block closes over the alerts of its own event, also when a patch gives several events one id. When a
failed open or write loses a seen line, the alerts before it go into the next block of that id: a verdict may
become stricter than its own alerts, and never milder than those of them that were delivered on lines of their
own. A write that fails in the middle of a line leaves a fragment to which the next line is glued (`torn`):
neither parses, so a deny among them is not in the verdict. Only the line in hand is ever torn, so what has
been read stays as it was (`WholeStays`).

**The configuration file.** `Service` has the configured mode in one variable. That the command sets it
in the file, and nothing else, is `CommandSetsOneSetting`, for any lines, values and
depths: the lines that are rewritten keep their key and indent, so every block and every last line is
where it was. `ReadersAgree` supposes `IsPlain`, the layout of the installed file, which
the commands keep (`PlainAfterCommand`); a note on a block's line, for one, is read differently (section 3).

**Only model-checked.** Liveness under fairness, which this prover does not reach:
`ReaperEndsAll`, `CompletesOnLastSignal`, `EndsWithoutReaper`, `StopEnds`, `StopsAndBlocksEnd`,
`PipeDrained` and `WatchPromptsEach`. The four properties of `Inputs`, as stated: `RealPath` is
written with `RECURSIVE` operators, and the parser, the transcript's reader and sequences of commands fold
over their input. One command on any file and one look at any index are proved, above. Every
other property of a passing run is stated by a theorem. The findings of section 3 are TLC's.

## 5. Plan

All components of section 1 that hold state have a module, and the theorems above state every safety
property of their runs. What remains, in this order:

1. The pure parts with recursive functions instead of `RECURSIVE` operators and folds, and
   `SettingsAgree` and `NamesAreCurrent` for any number of commands and looks.
2. Two supervisors at once in `Service`, with the conditions under which one of them gives way; uninstall.

## 6. Not modelled

* `proc_lineage.rs` walks the operating system's process table and ends in a string: pure I/O.
* Colours, layout, the status bar and the terminal of the log viewer, one-line summaries, option parsing,
  `health`, `version`, `signoff status`, `keys` and `list`, which change nothing.
* The wire format of requests and replies, canonical JSON, hashes and signatures: they are
  abstracted to equality. The device protocol of the authenticator and the HTTP exchange
  with the model are abstracted to their outcomes.
* The arguments of MCP and web tools and the table of field names: they are copied, not decided upon.
* The abrupt end of the plugin's process, which launchd's and Windows' kill is: the requests it
  had are as those of a stop, and the audit file after it is `AuditChain`'s `Crash`.
* A log that cannot be opened when the drain starts (`pipe_drain.rs:24`), which ends it: the supervisor's start has
  just opened it. Lines of two runs of the engine in one log, and a fragment that lacks nothing but its newline,
  which a snapshot would still read.
* Uninstall, a `launchctl unload` that returns early, systemd's kill after its stop timeout, and a join that hangs
  when the graceful stop itself failed: they are the environment's, or lie beyond one fault.
* `log_rotate_keep` of zero, lines that are not UTF-8 (the drain ends at one), the CR at the end of a patch line,
  and a working directory that is relative or empty.
* The detection rules are data for an external engine; installers and Nix modules are packaging.
