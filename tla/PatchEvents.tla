---------------------------- MODULE PatchEvents ----------------------------
(***************************************************************************)
(* From one tool call to the events the rules are evaluated on.            *)
(*                                                                         *)
(* Codex sends a whole patch as one call.  apply_patch.rs finds the files  *)
(* it touches, socket_server.rs makes one event of each, with that file's  *)
(* part of the patch only, and event.rs packs an event into a payload and  *)
(* reads its fields back.                                                  *)
(*                                                                         *)
(* A line of a patch is its kind and the path it names, "" being the empty *)
(* one; the CR at the end of a line is cut, so it is not modelled.  A JSON *)
(* event is the record of the fields that are read from it.                *)
(***************************************************************************)
EXTENDS Integers, Sequences, FiniteSets, SequencesExt

None == "none"

HeaderOp == [add |-> "Add", delete |-> "Delete", update |-> "Update"]
IsHeader(line) == line.kind \in DOMAIN HeaderOp

BeginLine == [kind |-> "begin", path |-> None]
EndLine == [kind |-> "end", path |-> None]
-------------------------------------------------------------------------------
(* parse_apply_patch *)

Positions(lines, kind, from) == {i \in from..Len(lines) : lines[i].kind = kind}

PushHunk(scan, line, i) ==
  IF line.path = "" THEN [scan EXCEPT !.error = "EmptyPath"]
  ELSE [scan EXCEPT !.hunks = Append(@,
          [op |-> HeaderOp[line.kind], path |-> line.path, moveTo |-> None, start |-> i])]

AttachMoveTo(scan, target) ==
  LET n == Len(scan.hunks) IN
  IF n = 0 \/ scan.hunks[n].op # "Update" \/ scan.hunks[n].moveTo # None
  THEN [scan EXCEPT !.error = "OrphanMoveTo"]
  ELSE IF target = "" THEN [scan EXCEPT !.error = "EmptyPath"]
  ELSE [scan EXCEPT !.hunks[n].moveTo = target]

(* The scan of the envelope's body; the first error ends it. *)
Scan(lines, begin, end) ==
  FoldLeft(LAMBDA scan, i :
             IF scan.error # None THEN scan
             ELSE IF IsHeader(lines[i]) THEN PushHunk(scan, lines[i], i)
             ELSE IF lines[i].kind = "move" THEN AttachMoveTo(scan, lines[i].path)
             ELSE scan,
           [hunks |-> <<>>, error |-> None],
           [n \in 1..(end - begin - 1) |-> begin + n])

\* Mutated form: a hunk runs to the end of the patch.
HunkEndsLate(hunks, n, end) == end

HunkEnds(hunks, n, end) == IF n = Len(hunks) THEN end ELSE hunks[n + 1].start

HunkText(lines, start, end) == SubSeq(lines, start, end - 1)

(* A move gives a second entry that shares the text of the update. *)
EntriesOf(lines, hunks, n, end) ==
  LET hunk == hunks[n]
      text == HunkText(lines, hunk.start, HunkEnds(hunks, n, end))
  IN  <<[op |-> hunk.op, path |-> hunk.path, text |-> text]>> \o
      IF hunk.moveTo = None THEN <<>>
      ELSE <<[op |-> "Move", path |-> hunk.moveTo, text |-> text]>>

Failed(error) == [error |-> error, entries |-> <<>>]

ParseApplyPatch(lines) ==
  LET begins == Positions(lines, "begin", 1)
      begin == Min(begins)
      ends == Positions(lines, "end", begin + 1)
      end == Min(ends)
      scan == Scan(lines, begin, end)
  IN  IF begins = {} THEN Failed("MissingBeginPatch")
      ELSE IF ends = {} THEN Failed("MissingEndPatch")
      ELSE IF scan.error # None THEN Failed(scan.error)
      ELSE IF scan.hunks = <<>> THEN Failed("NoHunks")
      ELSE [error |-> None,
            entries |-> FlattenSeq([n \in 1..Len(scan.hunks) |->
                                      EntriesOf(lines, scan.hunks, n, end)])]
-------------------------------------------------------------------------------
(* The events of a call, and what the rules read from them. *)

(* strip_command_for_hunk_base and rewrite_event_with_hunk *)
WithHunk(event, text) == [event EXCEPT !.command = <<BeginLine>> \o text \o <<EndLine>>]

IsPatch(call) == call.agent = "codex" /\ call.event.tool = "apply_patch"

EventData(call, op, path, event) ==
  [agent |-> call.agent, pid |-> call.pid, patchOp |-> op, patchPath |-> path, event |-> event]

(* handle_connection: a patch that does not parse has no event; the call is
   denied on the spot.                                                       *)
EventsOf(call) ==
  IF ~IsPatch(call) THEN <<EventData(call, "", "", call.event)>>
  ELSE LET entries == ParseApplyPatch(call.event.command).entries IN
       [n \in 1..Len(entries) |->
          EventData(call, entries[n].op, entries[n].path,
                    WithHunk(call.event, entries[n].text))]

(* encode_payload: five sections that end with a newline, then the JSON.  An
   empty section is no text at all.                                          *)
NewLine == [text |-> "newline"]
Section(text) == IF text = "" THEN <<NewLine>> ELSE <<[text |-> text], NewLine>>
EncodePayload(id, data) ==
  FlattenSeq(<<Section(id), Section(data.agent), Section(data.pid),
               Section(data.patchOp), Section(data.patchPath)>>) \o <<[json |-> data.event]>>

(* decode_payload: the text up to the n-th newline, and all after the fifth. *)
DecodePayload(payload) ==
  LET newlines == SetToSortSeq({i \in DOMAIN payload : payload[i] = NewLine}, <)
      from(n) == IF n = 1 THEN 1 ELSE newlines[n - 1] + 1
      text(n) == IF from(n) = newlines[n] THEN "" ELSE payload[from(n)].text
  IN  [id |-> text(1), agent |-> text(2), pid |-> text(3), patchOp |-> text(4),
       patchPath |-> text(5), event |-> payload[newlines[5] + 1].json]

(* extract_command and extract_raw_file_path *)
Command(event) == IF event.tool = "Bash" THEN event.command ELSE ""
RawFilePath(event) == IF event.tool \in {"Write", "Edit", "Read"} THEN event.filePath ELSE ""

(* The injected path of a patch's event goes before that of the call. *)
FilePath(patchPath, event) == IF patchPath # "" THEN patchPath ELSE RawFilePath(event)

(* ParsedEvent::parse *)
ParseEvent(payload) ==
  LET decoded == DecodePayload(payload)
      event == decoded.event
  IN  [correlation |-> decoded.id, agent |-> decoded.agent, patchOp |-> decoded.patchOp,
       filePath |-> FilePath(decoded.patchPath, event),
       command |-> Command(event), toolInput |-> event.command]
=============================================================================
