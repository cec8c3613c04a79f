------------------------------ MODULE LogStream ------------------------------
(***************************************************************************)
(* The engine's alerts on their way to the operator's terminal.            *)
(*                                                                         *)
(* The engine prints one line per alert: those of the rules that matched   *)
(* an event, then the one that marks the event as seen.  The supervisor    *)
(* drains its stdout into log/falco.log and rotates that file              *)
(* (daemon/pipe_drain.rs, daemon/rotate.rs).  `premptictl logs` runs tail  *)
(* on it and folds the alerts of each event into one block with one        *)
(* verdict (main.rs, logs_pretty.rs).                                      *)
(*                                                                         *)
(* A line is its number in the order printed; a file's size is its number  *)
(* of lines.  A write that fails may leave a part of its line, without an  *)
(* end: the next line is then glued to it and neither can be read.  Files  *)
(* are inodes, since the drain and tail both hold an open file while the   *)
(* path is renamed under them.                                             *)
(***************************************************************************)
EXTENDS Integers, Sequences, FiniteSets, Functions

CONSTANTS
  Calls,      \* correlation ids; a patch has several events under one
  AlertSeqs,  \* the rule alerts an event may raise, in the order printed
  MaxBytes,   \* log_rotate_bytes
  Keep,       \* log_rotate_keep
  TailLines,  \* --tail
  PipeCap,    \* what fits in the pipe
  MaxLines,   \* bound: lines printed
  MaxFaults   \* bound: failed renames, opens and writes

ASSUME LogAssumption ==
  /\ AlertSeqs \subseteq Seq({"deny", "ask", "other"})
  /\ MaxBytes \in Nat \ {0} /\ Keep \in Nat \ {0} /\ TailLines \in Nat
  /\ PipeCap \in Nat /\ MaxLines \in Nat /\ MaxFaults \in Nat

VARIABLES
  printed,  \* the lines the engine has printed, as [cid, kind]
  drained,  \* how many of them the drain has taken from the pipe
  drain,    \* what the drain is about to do with the one it has in hand
  writer,   \* the inode it has open
  inode,    \* the contents of every log file there has been
  torn,     \* the lines that were written in part
  path,     \* path[0] is falco.log, path[n] is falco.log.n
  failed,   \* the operations that have failed
  faults,   \* how many have
  viewer,   \* `premptictl logs`: how far it is, and what tail has open
  flight,   \* Formatter::in_flight
  blocks    \* what it has rendered: the seen line and the verdict of each event

files == <<writer, inode, torn, path>>
vars == <<printed, drained, drain, files, failed, faults, viewer, flight, blocks>>

Kinds == {"deny", "ask", "other", "seen"}
NoFile == 0
Slots == 0..Keep
ViewerOff == [pc |-> "off", follow |-> FALSE, file |-> NoFile, from |-> 0, pos |-> 0]

TypeOK ==
  /\ \A n \in DOMAIN printed : printed[n] \in [cid : Calls, kind : Kinds]
  /\ drained \in 0..Len(printed)
  /\ drain \in {"read", "rotate", "reopen", "write", "ended"}
  /\ writer \in DOMAIN inode
  /\ \A i \in DOMAIN inode : \A k \in DOMAIN inode[i] : inode[i][k] \in 1..drained
  /\ torn \subseteq 1..drained
  /\ path \in [Slots -> {NoFile} \cup DOMAIN inode]
  /\ \A n, k \in Slots : path[n] = path[k] /\ path[n] # NoFile => n = k
  /\ failed \subseteq {"rename", "open", "write"}
  /\ faults \in 0..MaxFaults
  /\ viewer.pc \in {"off", "found", "reading", "done", "absent"}
  /\ flight \in [Calls -> SUBSET (Kinds \ {"seen"})]
  /\ \A n \in DOMAIN blocks :
       /\ blocks[n].line \in DOMAIN printed /\ printed[blocks[n].line].kind = "seen"
       /\ blocks[n].verdict \in {"deny", "ask", "allow", "pass"}

Init ==
  /\ printed = <<>> /\ drained = 0 /\ drain = "read"
  /\ inode = << <<>> >> /\ writer = 1 /\ torn = {}
  /\ path = [n \in Slots |-> IF n = 0 THEN 1 ELSE NoFile]
  /\ failed = {} /\ faults = 0
  /\ viewer = ViewerOff
  /\ flight = [c \in Calls |-> {}]
  /\ blocks = <<>>
-------------------------------------------------------------------------------
LinesOf(c, kinds) == [n \in 1..Len(kinds) |-> [cid |-> c, kind |-> kinds[n]]]

(* The engine has evaluated an event; its output worker blocks while the pipe
   is full.                                                                  *)
EnginePrints(c) ==
  /\ drain # "ended"
  /\ \E alerts \in AlertSeqs :
       /\ printed' = printed \o LinesOf(c, Append(alerts, "seen"))
       /\ Len(printed') <= MaxLines
       /\ Len(printed') - drained <= PipeCap
  /\ UNCHANGED <<drained, drain, files, failed, faults, viewer, flight, blocks>>

(* The engine has gone, and the drain finds the end of an empty pipe. *)
EngineExits ==
  /\ drain = "read" /\ drained = Len(printed)
  /\ drain' = "ended"
  /\ UNCHANGED <<printed, drained, files, failed, faults, viewer, flight, blocks>>

Fails(operation) ==
  /\ faults < MaxFaults
  /\ faults' = faults + 1
  /\ failed' = failed \cup {operation}

(* rotate_if_needed: at or above the size.  A path without a file is left. *)
IsFull(i) == Len(inode[i]) >= MaxBytes

DrainReads ==
  /\ drain = "read"
  /\ drained < Len(printed)
  /\ drain' = IF path[0] # NoFile /\ IsFull(path[0]) THEN "rotate" ELSE "write"
  /\ drained' = drained + 1
  /\ UNCHANGED <<printed, files, failed, faults, viewer, flight, blocks>>

\* Mutated form: the oldest archive stays.
ShiftedButOldest(k) ==
  [n \in Slots |-> IF n < k \/ (n = Keep /\ path[n] # NoFile) THEN path[n]
                   ELSE IF n = k THEN NoFile ELSE path[n - 1]]

(* rotate_now: the oldest archive is gone, and those from k on, the oldest
   first, have moved up by one.                                              *)
Shifted(k) ==
  [n \in Slots |-> IF n < k THEN path[n] ELSE IF n = k THEN NoFile ELSE path[n - 1]]

DrainRotates ==
  /\ drain = "rotate"
  /\ \/ /\ path' = [Shifted(1) EXCEPT ![0] = NoFile, ![1] = path[0]]
        /\ drain' = "reopen"
        /\ UNCHANGED <<failed, faults>>
     \/ /\ Fails("rename")   \* the file is written to as it is
        /\ path' = path \/ \E k \in 1..Keep : path' = Shifted(k)
        /\ drain' = "write"
  /\ UNCHANGED <<printed, drained, writer, inode, torn, viewer, flight, blocks>>

\* Mutated form: a file that cannot be opened ends the drain.
NextLineNever == "ended"

NextLine == "read"

DrainReopens ==
  /\ drain = "reopen"
  /\ \/ /\ inode' = Append(inode, <<>>)
        /\ writer' = Len(inode')
        /\ path' = [path EXCEPT ![0] = writer']
        /\ drain' = "write"
        /\ UNCHANGED <<torn, failed, faults>>
     \/ /\ Fails("open")     \* the line is dropped, the old file stays open
        /\ drain' = NextLine
        /\ UNCHANGED files
  /\ UNCHANGED <<printed, drained, viewer, flight, blocks>>

Puts == inode' = [inode EXCEPT ![writer] = Append(@, drained)]

(* write_all, after whatever the file ends with.  When it fails, nothing of the
   line is in the file, or a part of it.                                     *)
DrainWrites ==
  /\ drain = "write"
  /\ drain' = "read"
  /\ \/ Puts /\ UNCHANGED <<torn, failed, faults>>
     \/ Fails("write") /\ UNCHANGED <<inode, torn>>
     \/ Fails("write") /\ Puts /\ torn' = torn \cup {drained}
  /\ UNCHANGED <<printed, drained, writer, path, viewer, flight, blocks>>
-------------------------------------------------------------------------------
(* Where the lines of text of a file begin. *)
Begins(i) == {p \in DOMAIN inode[i] : p > 1 => inode[i][p - 1] \notin torn}

LastLines(i) == {p \in Begins(i) : Cardinality({q \in Begins(i) : q >= p}) <= TailLines}

(* A line of text that is one line as the engine printed it. *)
IsWhole(i, p) == p \in Begins(i) /\ inode[i][p] \notin torn

(* `premptictl logs`: is there a file?  Between a rotation's rename and the new
   file there is none.                                                       *)
ViewerLooks ==
  /\ viewer.pc = "off"
  /\ \E follow \in BOOLEAN :
       viewer' = [viewer EXCEPT !.pc = IF path[0] = NoFile THEN "absent" ELSE "found",
                                !.follow = follow /\ path[0] # NoFile]
  /\ UNCHANGED <<printed, drained, drain, files, failed, faults, flight, blocks>>

(* tail opens it, and starts with its last lines. *)
TailOpens ==
  /\ viewer.pc = "found"
  /\ LET i == path[0] IN
     IF i = NoFile THEN viewer' = [ViewerOff EXCEPT !.pc = "absent"]
     ELSE \E start \in 0..Len(inode[i]) :
            /\ start + 1 \in Begins(i) \cup {Len(inode[i]) + 1}
            /\ {p \in Begins(i) : p > start} = LastLines(i)
            /\ viewer' = [viewer EXCEPT !.pc = "reading", !.file = i, !.from = start, !.pos = start]
  /\ UNCHANGED <<printed, drained, drain, files, failed, faults, flight, blocks>>

Verdict(alerts) ==
  IF "deny" \in alerts THEN "deny"
  ELSE IF "ask" \in alerts THEN "ask"
  ELSE IF alerts # {} THEN "allow" ELSE "pass"

\* Mutated form: the alerts of an event stay with its call.
FinalizeKeeping(n) ==
  /\ blocks' = Append(blocks, [line |-> n, verdict |-> Verdict(flight[printed[n].cid])])
  /\ UNCHANGED flight

(* Formatter::finalize: one block, with the alerts that came before it. *)
Finalize(n) ==
  /\ blocks' = Append(blocks, [line |-> n, verdict |-> Verdict(flight[printed[n].cid])])
  /\ flight' = [flight EXCEPT ![printed[n].cid] = {}]

(* Formatter::process_line. *)
ProcessLine(n) ==
  IF printed[n].kind = "seen" THEN Finalize(n)
  ELSE /\ flight' = [flight EXCEPT ![printed[n].cid] = @ \cup {printed[n].kind}]
       /\ UNCHANGED blocks

(* What does not parse is shown as it is, and ignored. *)
ViewerReads ==
  /\ viewer.pc = "reading"
  /\ viewer.pos < Len(inode[viewer.file])
  /\ IF IsWhole(viewer.file, viewer.pos + 1)
       THEN ProcessLine(inode[viewer.file][viewer.pos + 1])
       ELSE UNCHANGED <<flight, blocks>>
  /\ viewer' = [viewer EXCEPT !.pos = @ + 1]
  /\ UNCHANGED <<printed, drained, drain, files, failed, faults>>

(* A snapshot ends at the end of the file; and any view at a part of a line that
   ends inside a character.                                                  *)
ViewerEnds ==
  /\ viewer.pc = "reading"
  /\ \/ viewer.pos = Len(inode[viewer.file]) /\ ~viewer.follow
     \/ viewer.pos < Len(inode[viewer.file]) /\ ~IsWhole(viewer.file, viewer.pos + 1)
  /\ viewer' = [viewer EXCEPT !.pc = "done"]
  /\ UNCHANGED <<printed, drained, drain, files, failed, faults, flight, blocks>>
-------------------------------------------------------------------------------
Drains == DrainReads \/ DrainRotates \/ DrainReopens \/ DrainWrites
Views == ViewerReads \/ ViewerEnds

Next ==
  \/ \E c \in Calls : EnginePrints(c)
  \/ EngineExits
  \/ Drains
  \/ ViewerLooks \/ TailOpens \/ Views

Spec == Init /\ [][Next]_vars /\ WF_vars(Drains) /\ WF_vars(Views)
-------------------------------------------------------------------------------
Content(i) == IF i = NoFile THEN <<>> ELSE inode[i]
Archives == Slots \ {0}

(* The lines that are on disk, in falco.log or an archive. *)
Stored == UNION {Range(Content(path[n])) : n \in Slots}

Written == IF drain \in {"read", "ended"} THEN drained ELSE drained - 1

(* Read from the oldest archive to falco.log, the lines are in the order they
   were printed; and none is missing between the oldest one kept and the last
   one drained, unless a line could not be written.                          *)
LinesInOrder ==
  /\ \A n \in Slots : LET lines == Content(path[n]) IN
       \A a, b \in DOMAIN lines : a < b => lines[a] < lines[b]
  /\ \A n, k \in Slots : n < k =>
       \A a \in Range(Content(path[n])), b \in Range(Content(path[k])) : b < a
  /\ failed \cap {"open", "write"} = {} => \A a \in Stored : a..Written \subseteq Stored

(* While every rotation succeeds, no file outgrows the size it is given, every
   archive is full, and nothing is dropped before all of them are there: the
   latest log_rotate_keep times log_rotate_bytes of output can always be read. *)
RetentionKept ==
  failed = {} =>
    /\ \A n \in Slots : Len(Content(path[n])) <= MaxBytes
    /\ \A n \in Archives : path[n] # NoFile => Len(Content(path[n])) = MaxBytes
    /\ 1..Written \subseteq Stored \/ \A n \in Archives : path[n] # NoFile

(* Rotation never reorders lines; it drops none while every open and write
   succeeds, and keeps as many as it should while every rename does too.     *)
LogInv == TypeOK /\ LinesInOrder /\ RetentionKept

Seen(n) == printed[n].kind = "seen"

(* The alerts before line n, back to the line that ends the event before. *)
AlertsOf(n) == {k \in 1..n - 1 : \A m \in k..n - 1 : ~Seen(m)}

(* The lines that tail has delivered so that they can be read. *)
Delivered ==
  {inode[viewer.file][p] :
     p \in {q \in viewer.from + 1..viewer.pos : IsWhole(viewer.file, q)}}

(* The kinds of the alerts of the event of line n that the viewer was given. *)
Given(n) == {printed[k].kind : k \in AlertsOf(n) \cap Delivered}

Strictness == [pass |-> 0, allow |-> 1, ask |-> 2, deny |-> 3]

(* The block of an event shows no milder a verdict than those alerts of that
   event which tail delivered, each on a line of its own; and exactly that
   verdict, although the events of a patch share one correlation id, unless an
   open or a write failed.  A write that failed can hide alerts: its own line,
   and the next one when a part of it is in the file.                        *)
ShownAsRaised ==
  \A n \in DOMAIN blocks :
    LET raised == Verdict(Given(blocks[n].line)) IN
    /\ Strictness[blocks[n].verdict] >= Strictness[raised]
    /\ failed \cap {"open", "write"} = {} => blocks[n].verdict = raised

(* Whatever fails on the disk, the pipe is drained: the engine is never left
   blocked on its own output.                                                *)
PipeDrained == []<>(drained = Len(printed))
=============================================================================
