------------------------------- MODULE Inputs -------------------------------
(***************************************************************************)
(* The pure algorithms, each on every small input, beside what it is to    *)
(* compute: one step takes an input, and the invariants say what must then *)
(* hold of the result.                                                     *)
(***************************************************************************)
EXTENDS PatchEvents, RealPath, SessionNames, Settings

CONSTANTS
  PatchLines,   \* the lines a patch is made of
  MaxPatch,     \* bound: lines of a patch
  FileSystems,
  Components,   \* the components of a path
  MaxPath,      \* bound: components of a path
  Records,      \* the records of a transcript
  IndexLines,   \* the lines of a Codex index
  MaxRecords,   \* bound: records of a file
  MaxLooks,     \* bound: looks at a file
  ConfigFiles,  \* the configuration files of the plugin
  Commands      \* the settings premptictl may be asked to make

VARIABLE input

NoInput == [of |-> "none"]

(* The looks at a file that only grows, between a first and a last content; a
   size is taken before the content is read, and the reading may fail.       *)
Growing(content) ==
  {looks \in BoundedSeq([size : 0..SizeOf(content), read : 0..Len(content)], MaxLooks) :
     \A n \in 1..(Len(looks) - 1) :
       /\ looks[n].size <= looks[n + 1].size
       /\ 2 * looks[n].read <= looks[n + 1].size}

LooksAt(content, sizes) ==
  [n \in DOMAIN sizes |-> [size |-> sizes[n].size, content |-> SubSeq(content, 1, sizes[n].read)]]

Quiet(content) == [size |-> SizeOf(content), content |-> content]

Init == input = NoInput

ReadsPatch ==
  \E lines \in BoundedSeq(PatchLines, MaxPatch) :
    input' = [of |-> "patch", lines |-> lines]

ReadsPath ==
  \E fs \in FileSystems, cwd \in BoundedSeq(Components \ {Up}, 1),
     path \in BoundedSeq(Components, MaxPath), absolute \in BOOLEAN :
    /\ path # Root
    /\ input' = [of |-> "path", fs |-> fs, cwd |-> cwd, path |-> path, absolute |-> absolute]

(* A transcript is looked at while it grows, and at the end when nobody writes;
   it may then be replaced by a shorter one, and looked at again.            *)
ReadsTranscript ==
  \E content \in BoundedSeq(Records, MaxRecords) : \E sizes \in Growing(content) :
    \E next \in {<<>>} \cup {<<r>> : r \in Records} :
      /\ next # <<>> => Len(content) > 1
      /\ input' = [of |-> "transcript", content |-> content, next |-> next,
                   looks |-> LooksAt(content, sizes)]

ReadsIndex ==
  \E content \in BoundedSeq(IndexLines, MaxRecords) : \E sizes \in Growing(content) :
    \E next \in {<<>>} \cup {<<l>> : l \in IndexLines}, missing \in BOOLEAN :
      /\ next # <<>> => Len(content) > 1
      /\ input' = [of |-> "index", content |-> content, next |-> next, missing |-> missing,
                   looks |-> LooksAt(content, sizes)]

Configures ==
  \E data \in ConfigFiles : \E commands \in BoundedSeq(Commands, 2) :
    input' = [of |-> "config", data |-> data, commands |-> commands]

Next ==
  /\ input = NoInput
  /\ ReadsPatch \/ ReadsPath \/ ReadsTranscript \/ ReadsIndex \/ Configures

Spec == Init /\ [][Next]_input
-------------------------------------------------------------------------------
(* What a patch is: an envelope with at least one header, where every path has
   a name and every move is the only one of the update it is in.             *)
EnvelopeBegin(lines) == Min({i \in DOMAIN lines : lines[i].kind = "begin"})
EnvelopeEnd(lines) == Min({i \in DOMAIN lines : lines[i].kind = "end" /\ i > EnvelopeBegin(lines)})
HasEnvelope(lines) ==
  \E i, k \in DOMAIN lines : i < k /\ lines[i].kind = "begin" /\ lines[k].kind = "end"

NamesFile(line) == IsHeader(line) \/ line.kind = "move"
Body(lines) == EnvelopeBegin(lines) + 1 .. EnvelopeEnd(lines) - 1
PathLines(lines) == {i \in Body(lines) : NamesFile(lines[i])}
HeaderLines(lines) == {i \in Body(lines) : IsHeader(lines[i])}

IsWellFormed(lines) ==
  /\ HasEnvelope(lines)
  /\ HeaderLines(lines) # {}
  /\ \A i \in PathLines(lines) :
       /\ lines[i].path # ""
       /\ lines[i].kind = "move" =>
            LET before == {k \in PathLines(lines) : k < i} IN
            before # {} /\ lines[Max(before)].kind = "update"

(* A patch is taken exactly when it is well formed: whatever the model writes,
   no file of it goes unseen because a line was read as another's, and no patch
   the grammar allows is turned away.                                        *)
PatchTakenIfWellFormed ==
  input.of = "patch" =>
    ((ParseApplyPatch(input.lines).error = None) <=> IsWellFormed(input.lines))

CallOf(lines) ==
  [agent |-> "codex", pid |-> "1",
   event |-> [tool |-> "apply_patch", command |-> lines, filePath |-> ""]]

RulesSee(call) ==
  LET events == EventsOf(call) IN
  [n \in DOMAIN events |-> ParseEvent(EncodePayload("7", events[n]))]

(* The rules see one event for every path the patch names, in its order, with
   that operation, that path, and the lines of that file and no other.       *)
EventsCoverPatch ==
  input.of = "patch" /\ IsWellFormed(input.lines) =>
    LET lines == input.lines
        at == SetToSortSeq(PathLines(lines), <)
        owner(i) == Max({k \in HeaderLines(lines) : k <= i})
        next(i) == Min({EnvelopeEnd(lines)} \cup {k \in HeaderLines(lines) : k > i})
        seen == RulesSee(CallOf(lines))
    IN  /\ DOMAIN seen = DOMAIN at
        /\ \A n \in DOMAIN at :
             /\ seen[n].patchOp = IF IsHeader(lines[at[n]]) THEN HeaderOp[lines[at[n]].kind] ELSE "Move"
             /\ seen[n].filePath = lines[at[n]].path
             /\ seen[n].toolInput =
                  <<BeginLine>> \o SubSeq(lines, owner(at[n]), next(at[n]) - 1) \o <<EndLine>>

(* The rules judge every file of every patch that is taken, and of no other. *)
PatchesAreJudged == PatchTakenIfWellFormed /\ EventsCoverPatch

(* The path a rule compares is where the file will be, through every link on
   its way, there or not yet, whatever is missing of it: so long as the path
   leads somewhere and does not go up from a component that is not there.    *)
ResolvedIsWhereItLands ==
  input.of = "path" =>
    LET cwd == ResolvePath(input.fs, input.cwd)
        path == IF input.absolute THEN input.path ELSE input.cwd \o input.path
    IN  /\ Lands(input.fs, input.cwd).status = "ok"
        /\ Lands(input.fs, path).status = "ok"
        /\ ~UpFromMissing(input.fs, Root, path, MaxSymlinkDepth)
        => ResolveFilePath(input.fs, input.path, input.absolute, input.cwd)
             = Lands(input.fs, path).path

(* The looks that found another size than the one before, and so read. *)
Reading(looks) ==
  {n \in DOMAIN looks : looks[n].size # (IF n = 1 THEN 0 ELSE looks[n - 1].size)}

ReadsLess(look) == SizeOf(look.content) + 1 < look.size

InsideRecord(look) == look.size % 2 = 1

(* Up to where records of a transcript may have been passed over for good: a
   look that could not read what its size says, or whose size was inside a
   record.                                                                   *)
PassedOver(looks) ==
  LET blind == {n \in Reading(looks) : ReadsLess(looks[n]) \/ InsideRecord(looks[n])} IN
  Max({0} \cup {looks[n].size : n \in blind})

(* However a transcript grows between the looks, and while one is under way,
   the name shown is the one it now has, unless a look passed over records and
   no title came after them; and also when a shorter one has replaced it.    *)
TranscriptNameIsCurrent ==
  input.of = "transcript" =>
    LET looks == Append(input.looks, Quiet(input.content))
        over == PassedOver(input.looks)
        after == SubSeq(input.content, FirstFrom(over), Len(input.content))
    IN  /\ over = 0 \/ NamesOfKind(after, "title") # <<>>
             => TranscriptName(looks) = NameInTranscript(input.content)
        /\ Len(input.next) < Len(input.content) =>
             TranscriptName(Append(looks, Quiet(input.next))) = NameInTranscript(input.next)

(* And so for Codex, where an index that cannot be found for a moment changes
   nothing, and one that cannot be read is read when its size has changed: only
   a failed reading at the size it now has leaves it without its names.      *)
IndexNameIsCurrent ==
  input.of = "index" =>
    LET gone == IF input.missing THEN <<[size |-> Missing, content |-> <<>>]>> ELSE <<>>
        looks == input.looks \o <<Quiet(input.content)>> \o gone
        blind == {n \in Reading(input.looks) : ReadsLess(input.looks[n])}
    IN  \A id \in {l.id : l \in IndexLines} :
          /\ SizeOf(input.content) \notin {input.looks[n].size : n \in blind} =>
               CodexName(looks, id) = NameInIndex(input.content, id)
          /\ Len(input.next) < Len(input.content) =>
               CodexName(Append(looks, Quiet(input.next)), id) = NameInIndex(input.next, id)

(* The log viewer shows the names sessions have, for either agent, but for what a
   failed reading passed over.                                               *)
NamesAreCurrent == TranscriptNameIsCurrent /\ IndexNameIsCurrent

Performed(data, commands) == FoldLeft(Perform, data, commands)

(* A setting that the file does not have cannot be set. *)
Sets(commands, name, default) ==
  LET values == SelectSeq(commands, LAMBDA c : c.name = name) IN
  IF values = <<>> \/ LinesThatSet(input.data, name) = {} THEN default ELSE Last(values).value

(* After `mode` and `default-action`, in any order and number, the plugin reads
   what was last set and otherwise what it read before.                      *)
CommandsKeepTheRest ==
  input.of = "config" =>
    PluginReads(Performed(input.data, input.commands)) =
      [PluginReads(input.data) EXCEPT
         !.mode = Sets(input.commands, "mode", @),
         !.defaultAction = Sets(input.commands, "default_action", @)]

(* premptictl and the plugin agree on what the file says, notes on a mode or an
   action that was never set and on the line that opens a block apart: the hook
   is given time enough for what is enabled, and no more than by default when
   nothing is.                                                               *)
CliReadsAsPlugin ==
  input.of = "config" =>
    LET data == Performed(input.data, input.commands)
        plugin == PluginReads(data)
        noted == {data[n].key : n \in {k \in DOMAIN data : data[k].note}}
    IN  /\ "mode" \notin noted => Mode(data) = plugin.mode
        /\ "default_action" \notin noted => DefaultAction(data) = plugin.defaultAction
        /\ "monitor" \notin noted => MonitorSettings(data) = plugin.monitor
        /\ "signoff" \notin noted => SignoffSettings(data) = plugin.signoff
        /\ noted \cap {"monitor", "signoff"} = {} =>
             /\ (HookTimeout(data) = NoTimeout) <=> (~plugin.monitor.enabled /\ ~plugin.signoff.enabled)
             /\ plugin.monitor.enabled => HookTimeout(data) >= HookTimeoutFor(plugin.monitor.timeout)
             /\ plugin.signoff.enabled => HookTimeout(data) >= SignoffHookTimeoutFor(plugin.signoff.ttl)

(* Commands change what they are asked to change, and the readers of the file
   agree about it afterwards.                                                *)
SettingsAgree == CommandsKeepTheRest /\ CliReadsAsPlugin
=============================================================================
