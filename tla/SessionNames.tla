---------------------------- MODULE SessionNames ----------------------------
(***************************************************************************)
(* The name `premptictl logs` shows for a session (logs_pretty.rs).        *)
(*                                                                         *)
(* Claude Code keeps it in the transcript, which the viewer reads on from  *)
(* where it stopped; Codex keeps it in an index that the viewer reads anew *)
(* when its size has changed.  The agent may append between the moment the *)
(* size is taken and the moment the file is read.                          *)
(*                                                                         *)
(* A file is the sequence of its records, and its size is counted in half  *)
(* records, since it may be taken while one is being written.  A look has  *)
(* the size that was taken and the whole records that were then read: none *)
(* when the file could not be opened, fewer than the size says when the    *)
(* reading failed.                                                         *)
(***************************************************************************)
EXTENDS Integers, Sequences, FiniteSets, SequencesExt

NoName == "none"
-------------------------------------------------------------------------------
(* Claude Code: the last custom title, else the first user message. *)

NewEntry == [lastPos |-> 0, customTitle |-> NoName, firstUserMessage |-> NoName]

Notes(entry, record) ==
  CASE record.kind = "title" -> [entry EXCEPT !.customTitle = record.name]
    [] record.kind = "user" /\ entry.firstUserMessage = NoName ->
         [entry EXCEPT !.firstUserMessage = record.name]
    [] OTHER -> entry

SizeOf(content) == 2 * Len(content)

(* The first record that begins at a size or after it. *)
FirstFrom(size) == (size + 1) \div 2 + 1

(* scan_transcript_incremental: to the end of the file as it is by then.  The
   rest of a record does not parse.                                          *)
ScanTranscript(entry, content) ==
  FoldLeft(Notes, entry, SubSeq(content, FirstFrom(entry.lastPos), Len(content)))

\* Mutated form: a file that has become shorter is read on.
FreshKept(entry, size) == entry

(* A file that has become shorter is read from the start. *)
Fresh(entry, size) == IF size < entry.lastPos THEN NewEntry ELSE entry

(* FsSessionNameResolver::resolve: the place to go on from is the size that was
   taken, not the end that was read, even if nothing was.                    *)
Resolve(entry, look) ==
  LET from == Fresh(entry, look.size) IN
  IF look.size > from.lastPos
  THEN [ScanTranscript(from, look.content) EXCEPT !.lastPos = look.size]
  ELSE from

(* ResolverEntry::current *)
Current(entry) ==
  IF entry.customTitle # NoName THEN entry.customTitle ELSE entry.firstUserMessage

TranscriptName(looks) == Current(FoldLeft(Resolve, NewEntry, looks))
-------------------------------------------------------------------------------
(* Codex: the last line of the index that names the session. *)

Missing == -1   \* the size of an index that cannot be found

NewIndex == [lastLen |-> 0, names |-> <<>>]

(* load_codex_index: a later line replaces an earlier one. *)
LoadIndex(content) ==
  [id \in {content[n].id : n \in DOMAIN content} |->
     content[Max({n \in DOMAIN content : content[n].id = id})].name]

HasChanged(index, size) == size # index.lastLen

(* FsSessionNameResolver::resolve_codex: an index that is not there leaves the
   names as they are; one that is there and cannot be read leaves none.      *)
ResolveCodex(index, look) ==
  IF look.size # Missing /\ HasChanged(index, look.size)
  THEN [lastLen |-> look.size, names |-> LoadIndex(look.content)]
  ELSE index

NameIn(names, id) ==
  IF id \in DOMAIN names /\ names[id] # "" THEN names[id] ELSE NoName

CodexName(looks, id) == NameIn(FoldLeft(ResolveCodex, NewIndex, looks).names, id)
-------------------------------------------------------------------------------
(* What a file says by itself. *)
NamesOfKind(content, kind) ==
  SelectSeq(content, LAMBDA record : record.kind = kind)

NameInTranscript(content) ==
  LET titles == NamesOfKind(content, "title")
      messages == NamesOfKind(content, "user")
  IN  IF titles # <<>> THEN Last(titles).name
      ELSE IF messages # <<>> THEN Head(messages).name ELSE NoName

NameInIndex(content, id) ==
  LET lines == SelectSeq(content, LAMBDA line : line.id = id) IN
  IF lines # <<>> /\ Last(lines).name # "" THEN Last(lines).name ELSE NoName
=============================================================================
