------------------------------ MODULE AuditChain ------------------------------
(***************************************************************************)
(* The audit file and its only writer, AuditSink (audit.rs), with the      *)
(* verifier of `premptictl audit verify`.                                  *)
(*                                                                         *)
(* A record's line goes to the file in three parts: the beginning of its   *)
(* JSON text, the end of that text, and the newline.  A write may stop     *)
(* between any two of them: the device is full, or the process dies.  What *)
(* the BufWriter has not written stays in its buffer, and is written before *)
(* the next line.                                                          *)
(*                                                                         *)
(* A hash stands for what it was computed from, so the hash of a record is *)
(* the sequence of the bodies from the first record of the chain to it.    *)
(* A body is the number of the append that made it: bodies carry the time  *)
(* and are never equal.  The sink's mutex is held for a whole append.      *)
(***************************************************************************)
EXTENDS Integers, Sequences

CONSTANTS MaxAppends,  \* bound: appends in one behaviour
          MaxOpens,    \* bound: starts of the service in one behaviour
          WritesFail,  \* may a write to the file fail?
          CrashCuts    \* the parts of a line after which a crash may cut it

ASSUME BoundsAssumption ==
  /\ MaxAppends \in Nat /\ MaxOpens \in Nat
  /\ WritesFail \in BOOLEAN
  /\ CrashCuts \subseteq {"head", "rest"}

VARIABLES
  file,     \* the audit file: its parts, one after the other
  state,    \* the service: down, up, or refused to start
  seq,      \* AuditInner::seq
  prevHash, \* AuditInner::prev_hash
  buffer,   \* what the BufWriter holds
  appends,  \* how many appends there have been
  opens,    \* how many starts
  sealed,   \* the records whose append returned Some, in that order
  failed    \* the bodies whose append returned None

vars == <<file, state, seq, prevHash, buffer, appends, opens, sealed, failed>>
-------------------------------------------------------------------------------
Genesis == <<>>
ChainHash(prev, body) == Append(prev, body)

Record(n, prev, body) == [seq |-> n, prev |-> prev, body |-> body, hash |-> ChainHash(prev, body)]

NewLine == [part |-> "newline"]
TextHead(rec) == [part |-> "head", record |-> rec]
TextRest(rec) == [part |-> "rest", record |-> rec]
LineOf(rec) == <<TextHead(rec), TextRest(rec), NewLine>>

Write(f, parts) == f \o parts

(* Where the lines of a file begin that have any text.  A line goes up to the next
   newline, or to the end of the file: `lines()` yields an unterminated one too.  *)
Starts(f) == {i \in DOMAIN f : f[i] # NewLine /\ (i > 1 => f[i - 1] = NewLine)}
IsLast(f, i) == i \in Starts(f) /\ \A j \in Starts(f) : j <= i

(* serde_json::from_str: a line is JSON when it is the whole text of one record. *)
IsJson(f, i) ==
  /\ f[i].part = "head"
  /\ i + 1 \in DOMAIN f /\ f[i + 1] = TextRest(f[i].record)
  /\ i + 2 \in DOMAIN f => f[i + 2] = NewLine
Parsed(f, i) == f[i].record
-------------------------------------------------------------------------------
Init ==
  /\ file = <<>>
  /\ state = "down"
  /\ seq = 0 /\ prevHash = Genesis
  /\ buffer = <<>>
  /\ appends = 0 /\ opens = 0
  /\ sealed = <<>> /\ failed = {}

(* The head of the chain is in the last line of the file. *)
Resume ==
  \/ Starts(file) = {} /\ seq' = 0 /\ prevHash' = Genesis
  \/ \E i \in Starts(file) : /\ IsLast(file, i)
                             /\ seq' = Parsed(file, i).seq /\ prevHash' = Parsed(file, i).hash

(* AuditSink::open.  The service does not start if the last line is not JSON. *)
TailIsJson == \A i \in Starts(file) : IsLast(file, i) => IsJson(file, i)

Open ==
  /\ state = "down" /\ opens < MaxOpens
  /\ opens' = opens + 1
  /\ \/ TailIsJson /\ Resume /\ state' = "up"
     \/ ~TailIsJson /\ state' = "refused" /\ UNCHANGED <<seq, prevHash>>
  /\ buffer' = <<>>
  /\ UNCHANGED <<file, appends, sealed, failed>>

NextRecord == Record(seq + 1, prevHash, appends + 1)

\* Mutated form: the hash in memory is not moved on.
AdvanceSeqOnly(rec) == seq' = rec.seq /\ UNCHANGED prevHash

Advance(rec) == seq' = rec.seq /\ prevHash' = rec.hash

(* AuditSink::append_with, and the write and the flush succeed. *)
AppendSeals ==
  /\ state = "up" /\ appends < MaxAppends
  /\ appends' = appends + 1
  /\ file' = Write(file, buffer \o LineOf(NextRecord))
  /\ buffer' = <<>>
  /\ Advance(NextRecord)
  /\ sealed' = Append(sealed, NextRecord)
  /\ UNCHANGED <<state, opens, failed>>

(* A failed write of a line to a BufWriter that already holds some parts.
   The line fits: it is in the buffer, of which any part short of the whole
   has reached the file.                                                     *)
FailsBuffered(line) ==
  \E k \in 0 .. Len(buffer \o line) - 1 :
    /\ file' = Write(file, SubSeq(buffer \o line, 1, k))
    /\ buffer' = SubSeq(buffer \o line, k + 1, Len(buffer \o line))

(* It does not fit: the buffer has to go first, and does not. *)
FailsBeforeTheLine ==
  \E k \in 0 .. Len(buffer) - 1 :
    /\ file' = Write(file, SubSeq(buffer, 1, k))
    /\ buffer' = SubSeq(buffer, k + 1, Len(buffer))

(* It is larger than the buffer and goes straight to the file, where at most a
   beginning of it arrives; nobody has the rest.                             *)
FailsUnbuffered(line) ==
  \E k \in {0, 1} :
    /\ file' = Write(file, buffer \o SubSeq(line, 1, k))
    /\ buffer' = <<>>

\* Mutated form: the head of the chain moves although the write failed.
AdvanceAnyway == seq' = NextRecord.seq /\ prevHash' = NextRecord.hash

(* A failed append leaves the head of the chain where it was. *)
StayAtHead == UNCHANGED <<seq, prevHash>>

AppendFails ==
  /\ WritesFail
  /\ state = "up" /\ appends < MaxAppends
  /\ appends' = appends + 1
  /\ \/ FailsBuffered(LineOf(NextRecord))
     \/ FailsBeforeTheLine
     \/ FailsUnbuffered(LineOf(NextRecord))
  /\ failed' = failed \cup {NextRecord.body}
  /\ StayAtHead
  /\ UNCHANGED <<state, opens, sealed>>

(* The plugin is dropped: the BufWriter's drop writes what it holds, if it can. *)
Stop ==
  /\ state = "up"
  /\ state' = "down"
  /\ \E k \in 0 .. Len(buffer) :
       /\ k < Len(buffer) => WritesFail
       /\ file' = Write(file, SubSeq(buffer, 1, k))
  /\ buffer' = <<>>
  /\ UNCHANGED <<seq, prevHash, appends, opens, sealed, failed>>

(* The process dies between two appends: the buffer is gone. *)
Crash ==
  /\ state = "up"
  /\ state' = "down"
  /\ buffer' = <<>>
  /\ UNCHANGED <<file, seq, prevHash, appends, opens, sealed, failed>>

(* The process dies inside an append: before, within or after the line. *)
CrashInAppend ==
  /\ state = "up" /\ appends < MaxAppends
  /\ appends' = appends + 1
  /\ \E k \in 0 .. Len(buffer \o LineOf(NextRecord)) :
       LET written == SubSeq(buffer \o LineOf(NextRecord), 1, k) IN
       /\ k > 0 => written[k] = NewLine \/ written[k].part \in CrashCuts
       /\ file' = Write(file, written)
  /\ state' = "down"
  /\ buffer' = <<>>
  /\ UNCHANGED <<seq, prevHash, opens, sealed, failed>>

Next == Open \/ AppendSeals \/ AppendFails \/ Stop \/ Crash \/ CrashInAppend

Spec == Init /\ [][Next]_vars
-------------------------------------------------------------------------------
(* verify_reader: the line that begins at i continues the line before it. *)
Follows(f, j, i) == j < i /\ \A k \in Starts(f) : k < i => k <= j

ContinuesFrom(f, i) ==
  /\ IsJson(f, i)
  /\ LET rec == Parsed(f, i) IN
     /\ rec.hash = ChainHash(rec.prev, rec.body)
     /\ \/ (\A j \in Starts(f) : i <= j) /\ rec.prev = Genesis /\ rec.seq = 1
        \/ \E j \in Starts(f) : /\ Follows(f, j, i)
                                /\ rec.prev = Parsed(f, j).hash /\ rec.seq = Parsed(f, j).seq + 1

(* It stops at the first line that does not. *)
Accepted(f) == {i \in Starts(f) : \A j \in Starts(f) : j <= i => ContinuesFrom(f, j)}

Bodies == 1 .. MaxAppends
Records == [seq : Nat, prev : Seq(Bodies), body : Bodies, hash : Seq(Bodies)]
Parts == {NewLine} \cup [part : {"head", "rest"}, record : Records]

TypeOK ==
  /\ file \in Seq(Parts)
  /\ state \in {"down", "up", "refused"}
  /\ seq \in Nat /\ prevHash \in Seq(Bodies)
  /\ buffer \in Seq(Parts)
  /\ appends \in 0 .. MaxAppends /\ opens \in 0 .. MaxOpens
  /\ sealed \in Seq(Records)
  /\ failed \subseteq Bodies

(* No line holds text of two records. *)
OneRecordPerLine ==
  \A i \in DOMAIN file :
    i + 1 \in DOMAIN file /\ file[i] # NewLine /\ file[i + 1] # NewLine =>
      file[i].record = file[i + 1].record

(* Every line that ends in a newline is a record that continues the one before it. *)
Verifies ==
  \A i \in Starts(file) :
    (\E k \in DOMAIN file : k > i /\ file[k] = NewLine) => i \in Accepted(file)

(* The file verifies over any number of stops, crashes and restarts, as long as
   no append has failed and no crash has parted a line from its newline.      *)
HashChained == failed = {} /\ OneRecordPerLine => Verifies

(* Under the same conditions a record the broker was told is sealed (its hash
   may be in the operator's hands) stays a line of the verified chain.   *)
SealedIsVerified ==
  failed = {} /\ OneRecordPerLine =>
    \A i \in DOMAIN sealed : \E j \in Accepted(file) : Parsed(file, j) = sealed[i]

(* As long as no append fails and no crash parts a line from its newline, the file
   verifies over any number of stops, crashes and restarts, and what was sealed
   stays where it was.                                                       *)
ChainInv == TypeOK /\ HashChained /\ SealedIsVerified

(* Whatever fails, no two sealed records share a sequence number: the number
   names the held call in `premptictl signoff approve <seq>`.                *)
SealedSeqsIncrease ==
  \A i, j \in DOMAIN sealed : i < j => sealed[i].seq < sealed[j].seq

(* Whatever fails, the text of a sealed record and that of the record it
   continues are in the file, although perhaps on a line with other text.    *)
OnFile(rec) ==
  \E k \in DOMAIN file : /\ file[k] = TextHead(rec)
                         /\ k + 1 \in DOMAIN file /\ file[k + 1] = TextRest(rec)

SealedContinuesFile ==
  \A i \in DOMAIN sealed :
    /\ OnFile(sealed[i])
    /\ sealed[i].prev # Genesis =>
         \E k \in DOMAIN file : /\ file[k] # NewLine /\ file[k].record.hash = sealed[i].prev
                                /\ OnFile(file[k].record)

(* Whatever fails, a sealed record has a number of its own and a predecessor that
   is in the file.                                                           *)
SealedStays == SealedSeqsIncrease /\ SealedContinuesFile

(* A corrupt last line does not keep the service from starting. *)
CorruptTailRestarts == state # "refused"
===============================================================================
