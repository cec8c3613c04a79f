----------------------------- MODULE AuditReaders -----------------------------
(***************************************************************************)
(* The readers of a growing audit file: `premptictl audit tail --follow`   *)
(* and the web page of `premptictl audit serve` (tools/premptictl audit.rs *)
(* and audit_ui.html).                                                     *)
(*                                                                         *)
(* The file is reduced to its length in parts.  Record i is made of parts  *)
(* 3i-2 and 3i-1, its text, and 3i, its newline; a reader may see the file *)
(* end at any of them.  The chain is sound: AuditChain says when it is.    *)
(* The page's records are counted, not ordered.                            *)
(***************************************************************************)
EXTENDS Integers, Sequences, FiniteSetsExt, Functions

CONSTANTS MaxRecords,  \* bound: records written
          Limit,       \* SERVE_MAX_RECORDS
          Polls        \* bound: the page's requests that may be under way at once

ASSUME LimitAssumption == MaxRecords \in Nat /\ Limit \in Nat \ {0}

VARIABLES
  length,    \* how much of the file has been written
  follower,  \* what the follow loop is doing
  offset,    \* up to where it has read
  statLen,   \* the length it got from metadata()
  pending,   \* text after the last newline it has read
  printed,   \* what it has printed, line after line
  lastSeq,   \* the page's lastSeq
  poll,      \* each request: idle, asked `since`, or answered with a batch
  records    \* how often each record is among the page's

tail == <<follower, offset, statLen, pending, printed>>
page == <<lastSeq, poll, records>>
vars == <<length, tail, page>>
-------------------------------------------------------------------------------
Interval(a, b) == [i \in 1 .. b - a + 1 |-> a + i - 1]
IsNewline(p) == p % 3 = 0

LastNewline(text) == Max({0} \cup {i \in DOMAIN text : IsNewline(text[i])})

(* The lines of text that end in a newline.  Of an empty line, which is not
   printed, nothing but the newline is here.                               *)
CompleteLines(text) == SubSeq(text, 1, LastNewline(text))

\* Mutated form: text without its newline is forgotten.
NoRemainder(text) == <<>>

Remainder(text) == SubSeq(text, LastNewline(text) + 1, Len(text))

Idle == [phase |-> "idle"]
Asked(since) == [phase |-> "asked", since |-> since]
AnsweredWith(batch) == [phase |-> "answered", batch |-> batch]

Init ==
  /\ length = 0
  /\ follower = "starting" /\ offset = 0 /\ statLen = 0
  /\ pending = <<>> /\ printed = <<>>
  /\ lastSeq = 0 /\ records = [n \in 1 .. MaxRecords |-> 0] /\ poll = [q \in Polls |-> Idle]

(* External: the sink's writes arrive. *)
FileGrows ==
  /\ length < 3 * MaxRecords
  /\ length' = length + 1
  /\ UNCHANGED <<tail, page>>

(* The records already there are printed (the limit -n is left out), and a last
   line without newline too.                                                 *)
TailStarts ==
  /\ follower = "starting"
  /\ printed' = Interval(1, length)
  /\ offset' = length
  /\ follower' = "polling"
  /\ UNCHANGED <<length, statLen, pending, page>>

(* The length is taken from the metadata first ... *)
FollowStats ==
  /\ follower = "polling"
  /\ length # offset
  /\ statLen' = length
  /\ follower' = "reading"
  /\ UNCHANGED <<length, offset, pending, printed, page>>

OffsetRead == statLen

(* ... and then everything from the offset is read, however long it is by now. *)
FollowReads ==
  /\ follower = "reading"
  /\ LET text == pending \o Interval(offset + 1, length) IN
     /\ printed' = printed \o CompleteLines(text)
     /\ pending' = Remainder(text)
  /\ offset' = OffsetRead
  /\ follower' = "polling"
  /\ UNCHANGED <<length, statLen, page>>

(* The file ends inside a character: nothing is read, and the loop tries again. *)
FollowFails ==
  /\ follower = "reading" /\ length % 3 = 1
  /\ follower' = "polling"
  /\ UNCHANGED <<length, offset, statLen, pending, printed, page>>

(* The page asks every two seconds, whether or not it has been answered. *)
PageAsks(q) ==
  /\ poll[q] = Idle
  /\ poll' = [poll EXCEPT ![q] = Asked(lastSeq)]
  /\ UNCHANGED <<length, tail, lastSeq, records>>

(* records_since: the newest Limit records after `since`.  A record whose text
   is complete counts without its newline.                                   *)
Written == (length + 1) \div 3
Batch(since) == {n \in since + 1 .. Written : n > Written - Limit}

(* The server reads the file when it comes to the request. *)
ServerAnswers(q) ==
  /\ poll[q].phase = "asked"
  /\ poll' = [poll EXCEPT ![q] = AnsweredWith(Batch(poll[q].since))]
  /\ UNCHANGED <<length, tail, lastSeq, records>>

\* Mutated form: the page takes every record it gets.
TakeAll(batch) == [n \in DOMAIN records |-> IF n \in batch THEN records[n] + 1 ELSE records[n]]

(* Of what comes back the page keeps the records it does not have. *)
TakeNew(batch) ==
  [n \in DOMAIN records |-> IF n \in batch /\ records[n] = 0 THEN 1 ELSE records[n]]

(* Answers may come in another order than the questions. *)
PageReceives(q) ==
  /\ poll[q].phase = "answered"
  /\ poll' = [poll EXCEPT ![q] = Idle]
  /\ records' = TakeNew(poll[q].batch)
  /\ lastSeq' = Max({lastSeq} \cup poll[q].batch)
  /\ UNCHANGED <<length, tail>>

(* The server is not reached, or the answer is no JSON: the last line was cut
   after its seq.                                                            *)
PageFails(q) ==
  /\ poll[q].phase = "asked"
  /\ poll' = [poll EXCEPT ![q] = Idle]
  /\ UNCHANGED <<length, tail, lastSeq, records>>

Next == \/ FileGrows \/ TailStarts \/ FollowStats \/ FollowReads \/ FollowFails
        \/ \E q \in Polls : PageAsks(q) \/ ServerAnswers(q) \/ PageReceives(q) \/ PageFails(q)

Spec == Init /\ [][Next]_vars
-------------------------------------------------------------------------------
TypeOK ==
  /\ length \in 0 .. 3 * MaxRecords
  /\ follower \in {"starting", "polling", "reading"}
  /\ offset \in 0 .. length /\ statLen \in 0 .. length
  /\ pending \in Seq(1 .. length) /\ printed \in Seq(1 .. length)
  /\ lastSeq \in 0 .. MaxRecords
  /\ poll \in [Polls -> {Idle} \cup [phase : {"asked"}, since : 0 .. MaxRecords]
                               \cup [phase : {"answered"}, batch : SUBSET (1 .. MaxRecords)]]
  /\ records \in [1 .. MaxRecords -> Nat]

(* Every part of the file up to the offset has been printed, or waits for its
   newline: no record is passed over.                                        *)
NothingSkipped ==
  follower # "starting" => 1 .. offset \subseteq Range(pending) \cup Range(printed)

(* A reader of the growing file never passes anything over (tail). *)
TailInv == TypeOK /\ NothingSkipped

(* The page misses no record before its last one but those that the server's limit
   left out: they are that far behind the newest.                                *)
MissesOnlyOld ==
  \A n \in 1 .. lastSeq : records[n] > 0 \/ n <= Written - Limit

(* With overlapping polls, answered and received in any order, the page shows a
   record once, and misses none but for the limit.                            *)
PageShowsOnce == (\A n \in DOMAIN records : records[n] <= 1) /\ MissesOnlyOld

(* "Stream new records": no part of the file is printed twice. *)
PrintedOnce == IsInjective(printed)
===============================================================================
