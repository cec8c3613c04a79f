--------------------------- MODULE AuditChainProofs ---------------------------
(***************************************************************************)
(* Theorems about AuditChain, for any number of appends, restarts, crashes *)
(* and failed writes: sealed records keep numbers of their own and a       *)
(* predecessor in the file, and the file verifies as long as no append has *)
(* failed and no crash has parted a text from its newline.                 *)
(***************************************************************************)
EXTENDS AuditChain, FiniteSetTheorems, WellFoundedInduction, TLAPS

(***************************************************************************)
(* The invariants.                                                         *)
(***************************************************************************)
TextAt(f, k, rec) == /\ k \in DOMAIN f /\ f[k] = TextHead(rec)
                     /\ k + 1 \in DOMAIN f /\ f[k + 1] = TextRest(rec)

\* A record whose text is in the file has that hash.
HashIn(f, hash) ==
  \E k \in DOMAIN f : f[k] # NewLine /\ f[k].record.hash = hash /\ TextAt(f, k, f[k].record)

\* No part is of a record yet to come, and those in the buffer are of records that
\* would have been the next.
PartsKnown ==
  /\ \A p \in DOMAIN file : file[p] # NewLine => file[p].record.body <= appends
  /\ \A p \in DOMAIN buffer : /\ state = "up"
                              /\ buffer[p] # NewLine => /\ buffer[p].record.body <= appends
                                                        /\ buffer[p].record.seq = seq + 1

\* After the text of a sealed record nothing is in the file that has a lower number.
SealedKept ==
  \A i \in DOMAIN sealed :
    /\ \E k \in DOMAIN file :
         /\ TextAt(file, k, sealed[i])
         /\ \A q \in DOMAIN file : q > k /\ file[q] # NewLine => file[q].record.seq >= sealed[i].seq
    /\ sealed[i].prev # Genesis => HashIn(file, sealed[i].prev)

\* The head that the sink holds is past every sealed record, and in the file.
HeadKept ==
  state = "up" => /\ \A i \in DOMAIN sealed : sealed[i].seq <= seq
                  /\ prevHash # Genesis => HashIn(file, prevHash)

SealInv == TypeOK /\ PartsKnown /\ SealedKept /\ HeadKept /\ SealedSeqsIncrease

\* As long as no append has failed and no line has text of two records, every line
\* continues the one before it, except a text cut short, after which the service does
\* not start; and the sink's head is the last line's.
AtHead ==
  \/ Starts(file) = {} /\ seq = 0 /\ prevHash = Genesis
  \/ \E i \in Starts(file) : /\ IsLast(file, i)
                             /\ seq = Parsed(file, i).seq /\ prevHash = Parsed(file, i).hash

LinesContinue ==
  \A i \in Starts(file) : ContinuesFrom(file, i) \/ (i = Len(file) /\ state # "up")

SealedOnLines ==
  \A i \in DOMAIN sealed : \E j \in Accepted(file) : Parsed(file, j) = sealed[i]

WholeInv ==
  failed = {} /\ OneRecordPerLine =>
    /\ buffer = <<>>
    /\ LinesContinue
    /\ state = "up" => AtHead
    /\ SealedOnLines

(***************************************************************************)
(* Sequences of parts.                                                     *)
(***************************************************************************)
LEMMA ConcatIs ==
  ASSUME NEW S, NEW f \in Seq(S), NEW w \in Seq(S)
  PROVE  /\ f \o w \in Seq(S) /\ Len(f \o w) = Len(f) + Len(w) /\ Len(f) \in Nat /\ Len(w) \in Nat
         /\ DOMAIN (f \o w) = 1 .. Len(f) + Len(w) /\ DOMAIN f = 1 .. Len(f) /\ DOMAIN w = 1 .. Len(w)
         /\ \A p \in DOMAIN f : (f \o w)[p] = f[p]
         /\ \A p \in DOMAIN w : (f \o w)[Len(f) + p] = w[p]
         /\ \A p \in DOMAIN (f \o w) : p \notin DOMAIN f => p - Len(f) \in DOMAIN w /\ (f \o w)[p] = w[p - Len(f)]
OBVIOUS

LEMMA SubSeqIs ==
  ASSUME NEW S, NEW f \in Seq(S), NEW a \in Nat, NEW b \in Nat, a >= 1, b <= Len(f)
  PROVE  /\ SubSeq(f, a, b) \in Seq(S)
         /\ \A p \in DOMAIN SubSeq(f, a, b) : p + a - 1 \in DOMAIN f /\ SubSeq(f, a, b)[p] = f[p + a - 1]
         /\ Len(SubSeq(f, a, b)) = IF a <= b THEN b - a + 1 ELSE 0
OBVIOUS

LEMMA NewLineIs ==
  /\ NewLine \in Parts /\ NewLine.part = "newline"
  /\ \A rec \in Records : /\ TextHead(rec) \in Parts /\ TextHead(rec).part = "head"
                          /\ TextRest(rec) \in Parts /\ TextRest(rec).part = "rest"
                          /\ TextHead(rec).record = rec /\ TextRest(rec).record = rec
                          /\ TextHead(rec) # NewLine /\ TextRest(rec) # NewLine
                          /\ TextHead(rec) # TextRest(rec)
  /\ \A p \in Parts : p # NewLine => p.record \in Records /\ p.part \in {"head", "rest"}
BY DEF NewLine, TextHead, TextRest, Parts

LEMMA LineIs ==
  ASSUME NEW rec \in Records
  PROVE  /\ LineOf(rec) \in Seq(Parts) /\ Len(LineOf(rec)) = 3
         /\ LineOf(rec)[1] = TextHead(rec) /\ LineOf(rec)[2] = TextRest(rec)
         /\ LineOf(rec)[3] = NewLine
         /\ \A p \in DOMAIN LineOf(rec) : LineOf(rec)[p] # NewLine => LineOf(rec)[p].record = rec
BY NewLineIs DEF LineOf

LEMMA NextIs ==
  ASSUME TypeOK, appends < MaxAppends
  PROVE  /\ NextRecord \in Records /\ NextRecord.seq = seq + 1 /\ NextRecord.prev = prevHash
         /\ NextRecord.body = appends + 1 /\ NextRecord.hash = ChainHash(prevHash, appends + 1)
         /\ NextRecord.hash # Genesis
<1>1. /\ seq \in Nat /\ prevHash \in Seq(Bodies) /\ appends + 1 \in Bodies
  BY BoundsAssumption DEF TypeOK, Bodies
<1>2. PICK h : h = ChainHash(prevHash, appends + 1)
  OBVIOUS
<1>3. h \in Seq(Bodies) /\ h # Genesis
  BY <1>1, <1>2 DEF ChainHash, Genesis
<1>4. NextRecord = [seq |-> seq + 1, prev |-> prevHash, body |-> appends + 1, hash |-> h]
  BY <1>2 DEF NextRecord, Record
<1> QED BY <1>1, <1>2, <1>3, <1>4 DEF Records

\* Parts of the record that the sink would write next.
OfNext(parts, s, n) ==
  /\ parts \in Seq(Parts)
  /\ \A p \in DOMAIN parts :
       parts[p] # NewLine => parts[p].record.seq = s + 1 /\ parts[p].record.body <= n

LEMMA OfNextBuffer == ASSUME SealInv, state = "up" PROVE OfNext(buffer, seq, appends)
BY DEF SealInv, TypeOK, PartsKnown, OfNext

LEMMA OfNextMore ==
  ASSUME NEW m \in Nat, NEW n \in Nat, m <= n, seq \in Nat, NEW a, OfNext(a, seq, m) PROVE OfNext(a, seq, n)
<1> SUFFICES ASSUME NEW p \in DOMAIN a, a[p] # NewLine PROVE a[p].record.body <= n
  BY DEF OfNext
<1>1. a[p] \in Parts
  BY DEF OfNext
<1>2. a[p].record.body \in Nat
  BY <1>1, NewLineIs DEF Records, Bodies
<1> QED BY <1>2 DEF OfNext

LEMMA OfNextLine ==
  ASSUME SealInv, appends < MaxAppends PROVE OfNext(LineOf(NextRecord), seq, appends + 1)
BY NextIs, LineIs DEF SealInv, TypeOK, OfNext

LEMMA OfNextBoth ==
  ASSUME NEW n, NEW a, NEW b, OfNext(a, seq, n), OfNext(b, seq, n) PROVE OfNext(a \o b, seq, n)
BY ConcatIs DEF OfNext

LEMMA OfNextPart ==
  ASSUME NEW n, NEW a, OfNext(a, seq, n), NEW i \in Nat, NEW j \in Nat, i >= 1, j <= Len(a)
  PROVE  OfNext(SubSeq(a, i, j), seq, n)
BY SubSeqIs DEF OfNext

\* What is in the file stays there.
LEMMA TextStays ==
  ASSUME NEW f \in Seq(Parts), NEW w \in Seq(Parts), NEW k, NEW rec, TextAt(f, k, rec)
  PROVE  TextAt(f \o w, k, rec)
BY ConcatIs DEF TextAt

LEMMA HashStays ==
  ASSUME NEW f \in Seq(Parts), NEW w \in Seq(Parts), NEW hash, HashIn(f, hash)
  PROVE  HashIn(f \o w, hash)
<1>1. PICK k \in DOMAIN f : f[k] # NewLine /\ f[k].record.hash = hash /\ TextAt(f, k, f[k].record)
  BY DEF HashIn
<1>2. (f \o w)[k] = f[k] /\ k \in DOMAIN (f \o w)
  BY ConcatIs
<1>3. TextAt(f \o w, k, f[k].record)
  BY <1>1, TextStays
<1> QED BY <1>1, <1>2, <1>3 DEF HashIn

\* A write of parts of the next record disturbs nothing that is sealed.
LEMMA WriteKeeps ==
  ASSUME SealInv, state = "up", NEW w, OfNext(w, seq, appends'), file' = file \o w,
         appends' \in Nat, appends <= appends'
  PROVE  /\ \A p \in DOMAIN file' : file'[p] # NewLine => file'[p].record.body <= appends'
         /\ file' \in Seq(Parts)
         /\ \A i \in DOMAIN sealed :
              /\ \E k \in DOMAIN file' :
                   /\ TextAt(file', k, sealed[i])
                   /\ \A q \in DOMAIN file' : q > k /\ file'[q] # NewLine =>
                                                file'[q].record.seq >= sealed[i].seq
              /\ sealed[i].prev # Genesis => HashIn(file', sealed[i].prev)
         /\ prevHash # Genesis => HashIn(file', prevHash)
<1>1. TypeOK /\ w \in Seq(Parts) /\ file \in Seq(Parts)
  BY DEF SealInv, TypeOK, OfNext
<1>2. /\ \A p \in DOMAIN file : p \in DOMAIN file' /\ file'[p] = file[p]
      /\ \A p \in DOMAIN file' : p \notin DOMAIN file =>
           p - Len(file) \in DOMAIN w /\ file'[p] = w[p - Len(file)]
      /\ file' \in Seq(Parts)
  BY <1>1, ConcatIs
<1>3. ASSUME NEW p \in DOMAIN file', file'[p] # NewLine PROVE file'[p].record.body <= appends'
  <2>1. CASE p \in DOMAIN file
    <3>1. file[p].record.body <= appends /\ file[p] \in Parts /\ appends \in Nat
      BY <1>1, <1>2, <1>3, <2>1 DEF SealInv, PartsKnown, TypeOK
    <3>2. file[p].record.body \in Nat
      BY <1>2, <1>3, <2>1, <3>1, NewLineIs DEF Records, Bodies
    <3> QED BY <1>2, <2>1, <3>1, <3>2
  <2>2. CASE p \notin DOMAIN file
    BY <1>2, <1>3, <2>2 DEF OfNext
  <2> QED BY <2>1, <2>2
<1>4. ASSUME NEW i \in DOMAIN sealed
      PROVE  \E k \in DOMAIN file' :
               /\ TextAt(file', k, sealed[i])
               /\ \A q \in DOMAIN file' : q > k /\ file'[q] # NewLine =>
                                            file'[q].record.seq >= sealed[i].seq
  <2>1. PICK k \in DOMAIN file :
           /\ TextAt(file, k, sealed[i])
           /\ \A q \in DOMAIN file : q > k /\ file[q] # NewLine => file[q].record.seq >= sealed[i].seq
    BY DEF SealInv, SealedKept
  <2>2. sealed[i].seq <= seq /\ sealed[i].seq \in Nat /\ seq \in Nat
    <3>1. sealed[i] \in Records
      BY DEF SealInv, TypeOK
    <3> QED BY <3>1 DEF SealInv, HeadKept, TypeOK, Records
  <2>3. ASSUME NEW q \in DOMAIN file', q > k, file'[q] # NewLine
        PROVE  file'[q].record.seq >= sealed[i].seq
    <3>1. CASE q \in DOMAIN file
      BY <1>2, <2>1, <2>3, <3>1
    <3>2. CASE q \notin DOMAIN file
      <4>1. file'[q].record.seq = seq + 1
        BY <1>2, <2>3, <3>2 DEF OfNext
      <4> QED BY <2>2, <4>1
    <3> QED BY <3>1, <3>2
  <2> QED BY <1>1, <1>2, <2>1, <2>3, TextStays
<1>5. \A i \in DOMAIN sealed : sealed[i].prev # Genesis => HashIn(file', sealed[i].prev)
  BY <1>1, HashStays DEF SealInv, SealedKept
<1>6. prevHash # Genesis => HashIn(file', prevHash)
  BY <1>1, HashStays DEF SealInv, HeadKept
<1> QED BY <1>2, <1>3, <1>4, <1>5, <1>6

LEMMA LeastOf ==
  ASSUME NEW S, S \subseteq Nat, S # {}
  PROVE  \E m \in S : \A n \in S : m <= n
<1>1. PICK m \in S : \A n \in S : ~ (<<n, m>> \in OpToRel(<, Nat))
  BY NatLessThanWellFounded, WFMin
<1>2. ASSUME NEW n \in S PROVE m <= n
  <2>1. ~ (n < m)
    BY <1>1 DEF OpToRel
  <2> QED BY <2>1
<1> QED BY <1>2

\* Text after a newline begins with the start of a line.
LEMMA StartAfter ==
  ASSUME NEW f \in Seq(Parts), NEW k \in Nat, k = 0 \/ f[k] = NewLine,
         NEW p \in DOMAIN f, p > k, f[p] # NewLine
  PROVE  \E s \in Starts(f) : k < s /\ s <= p
<1> DEFINE Text == {q \in DOMAIN f : q > k /\ f[q] # NewLine}
<1>1. Text \subseteq Nat /\ p \in Text
  BY DOMAIN f = 1 .. Len(f), Len(f) \in Nat
<1>2. PICK s \in Text : \A q \in Text : s <= q
  BY <1>1, LeastOf
<1>3. s > 1 => f[s - 1] = NewLine
  <2>1. CASE s - 1 = k
    BY <1>2, <2>1
  <2>2. CASE s - 1 > k
    <3>1. s - 1 \in DOMAIN f /\ s - 1 \notin Text
      BY <1>2, <2>2
    <3> QED BY <2>2, <3>1
  <2> QED BY <1>2, <2>1, <2>2
<1>4. s \in Starts(f)
  BY <1>2, <1>3 DEF Starts
<1> QED BY <1>1, <1>2, <1>4

\* No text begins after the last line, if that is JSON.
LEMMA LastIsLast ==
  ASSUME NEW f \in Seq(Parts), NEW i, IsLast(f, i), IsJson(f, i), NEW p \in DOMAIN f, f[p].part = "head"
  PROVE  p <= i
<1>1. i \in DOMAIN f /\ f[p] # NewLine
  BY NewLineIs DEF IsLast, Starts
<1>2. p # i + 1
  BY DEF IsJson, TextRest
<1>3. ASSUME p >= i + 2 PROVE FALSE
  <2>1. i + 2 \in DOMAIN f /\ f[i + 2] = NewLine
    BY <1>1, <1>3 DEF IsJson
  <2>2. p > i + 2
    BY <1>1, <1>3, <2>1
  <2>3. PICK s \in Starts(f) : i + 2 < s
    BY <1>1, <2>1, <2>2, StartAfter
  <2> QED BY <1>1, <2>3 DEF IsLast, Starts
<1> QED BY <1>1, <1>2, <1>3

(***************************************************************************)
(* Sealed records keep their numbers and predecessors.                     *)
(***************************************************************************)
LEMMA SealInit == Init => SealInv
BY BoundsAssumption
   DEF Init, SealInv, TypeOK, PartsKnown, SealedKept, HeadKept, SealedSeqsIncrease, Genesis

LEMMA KeepsSealed ==
  ASSUME SealInv, state = "up", NEW w, OfNext(w, seq, appends'), file' = file \o w,
         appends' \in 0 .. MaxAppends, appends <= appends',
         UNCHANGED <<seq, prevHash, opens, sealed>>, failed' \subseteq Bodies,
         \/ state' = "up" /\ OfNext(buffer', seq, appends')
         \/ state' \in {"up", "down"} /\ buffer' = <<>>
  PROVE  SealInv'
<1>1. PICK n \in Nat : n = appends'
  BY BoundsAssumption
<1>2. TypeOK'
  <2>1. file' \in Seq(Parts)
    BY WriteKeeps, <1>1
  <2>2. buffer' \in Seq(Parts)
    <3>1. <<>> \in Seq(Parts)
      OBVIOUS
    <3> QED BY <3>1 DEF OfNext
  <2> QED BY <2>1, <2>2 DEF SealInv, TypeOK
<1>3. PartsKnown'
  BY WriteKeeps, <1>1 DEF OfNext, PartsKnown
<1>4. SealedKept'
  BY WriteKeeps, <1>1 DEF SealedKept
<1>5. HeadKept' /\ SealedSeqsIncrease'
  BY WriteKeeps, <1>1 DEF SealInv, HeadKept, SealedSeqsIncrease
<1> QED BY <1>2, <1>3, <1>4, <1>5 DEF SealInv

LEMMA OpenSeals == ASSUME SealInv, Open PROVE SealInv'
<1>1. /\ UNCHANGED <<file, appends, sealed, failed>> /\ buffer' = <<>>
      /\ opens' \in 0 .. MaxOpens /\ file \in Seq(Parts) /\ TypeOK
  BY BoundsAssumption DEF Open, SealInv, TypeOK
<1>2. CASE state' = "refused" /\ UNCHANGED <<seq, prevHash>>
  BY <1>1, <1>2 DEF SealInv, TypeOK, PartsKnown, SealedKept, HeadKept, SealedSeqsIncrease
<1>3. CASE TailIsJson /\ Resume /\ state' = "up"
  <2>1. ASSUME Starts(file) = {}, seq' = 0, prevHash' = Genesis PROVE SealInv'
    <3>1. ASSUME NEW i \in DOMAIN sealed PROVE FALSE
      <4>2. PICK k \in DOMAIN file : TextAt(file, k, sealed[i])
        BY DEF SealInv, SealedKept
      <4>3. sealed[i] \in Records
        BY <1>1 DEF TypeOK
      <4>4. file[k] # NewLine /\ k > 0
        BY <1>1, <4>2, <4>3, NewLineIs DEF TextAt
      <4> QED BY <1>1, <2>1, <4>4, StartAfter
    <3> QED BY <1>1, <1>3, <2>1, <3>1
            DEF SealInv, TypeOK, PartsKnown, SealedKept, HeadKept, SealedSeqsIncrease, Genesis
  <2>2. ASSUME NEW i \in Starts(file), IsLast(file, i), seq' = Parsed(file, i).seq,
               prevHash' = Parsed(file, i).hash
        PROVE  SealInv'
    <3>1. i \in DOMAIN file /\ file[i] # NewLine /\ IsJson(file, i)
      BY <1>3, <2>2 DEF TailIsJson, Starts
    <3>2. file[i] \in Parts /\ file[i].record \in Records
      BY <1>1, <3>1, NewLineIs
    <3>3. TypeOK'
      BY <1>1, <1>3, <2>2, <3>2 DEF SealInv, TypeOK, Parsed, Records
    <3>4. file[i] = TextHead(file[i].record)
      BY <3>1, <3>2, NewLineIs DEF IsJson, Parts, TextHead
    <3>5. HashIn(file, prevHash')
      BY <2>2, <3>1, <3>4 DEF HashIn, TextAt, IsJson, Parsed
    <3>6. ASSUME NEW j \in DOMAIN sealed PROVE sealed[j].seq <= seq'
      <4>1. PICK k \in DOMAIN file :
               /\ TextAt(file, k, sealed[j])
               /\ \A q \in DOMAIN file : q > k /\ file[q] # NewLine =>
                                           file[q].record.seq >= sealed[j].seq
        BY DEF SealInv, SealedKept
      <4>2. sealed[j] \in Records
        BY <1>1 DEF TypeOK
      <4>3. file[k].part = "head" /\ file[k].record = sealed[j]
        BY <4>1, <4>2, NewLineIs DEF TextAt
      <4>4. k <= i
        BY <1>1, <2>2, <3>1, <4>3, LastIsLast
      <4>5. CASE k = i
        BY <2>2, <4>2, <4>3, <4>5 DEF Parsed, Records
      <4>6. CASE k < i
        <5>1. file[i].record.seq >= sealed[j].seq
          BY <3>1, <4>1, <4>6
        <5> QED BY <2>2, <3>2, <4>2, <5>1 DEF Parsed, Records
      <4> QED BY <1>1, <3>1, <4>4, <4>5, <4>6
    <3>7. HeadKept'
      BY <1>1, <3>5, <3>6 DEF HeadKept
    <3> QED BY <1>1, <3>3, <3>7 DEF SealInv, PartsKnown, SealedKept, SealedSeqsIncrease
  <2> QED BY <1>3, <2>1, <2>2 DEF Resume
<1> QED BY <1>2, <1>3 DEF Open

LEMMA AppendSealsIs ==
  ASSUME SealInv, AppendSeals
  PROVE  /\ state = "up" /\ state' = "up" /\ appends < MaxAppends
         /\ OfNext(buffer \o LineOf(NextRecord), seq, appends')
         /\ appends' = appends + 1 /\ appends' \in 1 .. MaxAppends /\ appends \in Nat /\ appends' \in Nat
         /\ file' = file \o (buffer \o LineOf(NextRecord))
<1>1. appends \in Nat /\ seq \in Nat /\ appends + 1 \in 1 .. MaxAppends /\ appends' = appends + 1
  BY BoundsAssumption DEF SealInv, TypeOK, AppendSeals
<1>2. OfNext(buffer, seq, appends + 1) /\ OfNext(LineOf(NextRecord), seq, appends + 1)
  BY <1>1, OfNextBuffer, OfNextMore, OfNextLine DEF AppendSeals
<1> QED BY <1>1, <1>2, OfNextBoth DEF AppendSeals, Write

LEMMA AppendSealsSeals == ASSUME SealInv, AppendSeals PROVE SealInv'
<1>1. PICK rec \in Records : rec = NextRecord
  BY NextIs DEF SealInv, AppendSeals
<1>2. /\ rec.seq = seq + 1 /\ rec.prev = prevHash /\ rec.body = appends + 1 /\ rec.hash # Genesis
      /\ seq' = rec.seq /\ prevHash' = rec.hash /\ sealed' = Append(sealed, rec)
      /\ seq \in Nat /\ sealed \in Seq(Records) /\ TypeOK
  BY <1>1, NextIs DEF SealInv, TypeOK, AppendSeals, Advance
<1>3. PICK w : w = buffer \o LineOf(rec)
  OBVIOUS
<1>4. OfNext(w, seq, appends') /\ file' = file \o w /\ state = "up" /\ buffer' = <<>>
      /\ UNCHANGED <<state, opens, failed>>
  BY <1>1, <1>3, AppendSealsIs DEF AppendSeals
<1>w. /\ file' \in Seq(Parts)
      /\ \A p \in DOMAIN file' : file'[p] # NewLine => file'[p].record.body <= appends'
      /\ \A i \in DOMAIN sealed :
           /\ \E j \in DOMAIN file' :
                /\ TextAt(file', j, sealed[i])
                /\ \A q \in DOMAIN file' : q > j /\ file'[q] # NewLine =>
                                             file'[q].record.seq >= sealed[i].seq
           /\ sealed[i].prev # Genesis => HashIn(file', sealed[i].prev)
      /\ prevHash # Genesis => HashIn(file', prevHash)
  <2>1. appends' \in Nat /\ appends <= appends'
    BY AppendSealsIs
  <2> QED BY <1>4, <2>1, WriteKeeps
<1>5. PICK k : k = Len(file) + Len(buffer) + 1
  OBVIOUS
<1>6. /\ TextAt(file', k, rec) /\ k \in DOMAIN file' /\ file'[k] = TextHead(rec)
      /\ \A q \in DOMAIN file' : q > k /\ file'[q] # NewLine => file'[q].record = rec
  <2>1. file \in Seq(Parts) /\ buffer \in Seq(Parts) /\ w \in Seq(Parts)
    BY <1>2, <1>4 DEF TypeOK, OfNext
  <2>2. /\ Len(w) = Len(buffer) + 3 /\ w[Len(buffer) + 1] = TextHead(rec)
        /\ w[Len(buffer) + 2] = TextRest(rec) /\ w[Len(buffer) + 3] = NewLine
        /\ DOMAIN w = 1 .. Len(buffer) + 3 /\ Len(buffer) \in Nat
    <3>1. PICK line \in Seq(Parts) : line = LineOf(rec)
      BY LineIs
    <3>2. /\ Len(line) = 3 /\ line[1] = TextHead(rec) /\ line[2] = TextRest(rec)
          /\ line[3] = NewLine /\ DOMAIN line = 1 .. 3
      BY <3>1, LineIs
    <3>3. w = buffer \o line
      BY <1>3, <3>1
    <3>4. /\ DOMAIN w = 1 .. Len(buffer) + 3 /\ Len(w) = Len(buffer) + 3 /\ Len(buffer) \in Nat
          /\ \A p \in DOMAIN line : w[Len(buffer) + p] = line[p]
      <4>1. Len(line) = 3 /\ Len(buffer) \in Nat
        BY <2>1, <3>2
      <4>2. Len(w) = Len(buffer) + 3
        <5>1. buffer \in Seq(Parts)
          BY <2>1
        <5>2. Len(buffer \o line) = Len(buffer) + Len(line)
          BY <5>1, ConcatIs
        <5> QED BY <3>3, <4>1, <5>2
      <4>3. w \in Seq(Parts) /\ \A p \in DOMAIN line : w[Len(buffer) + p] = line[p]
        BY <2>1, <3>3, ConcatIs
      <4> QED BY <4>1, <4>2, <4>3
    <3>5. 1 \in DOMAIN line /\ 2 \in DOMAIN line /\ 3 \in DOMAIN line
      BY <3>2
    <3> QED BY <3>2, <3>4, <3>5
  <2>3. /\ DOMAIN file' = 1 .. Len(file) + Len(w) /\ Len(file) \in Nat
        /\ \A p \in DOMAIN w : file'[Len(file) + p] = w[p]
    BY <1>4, <2>1, ConcatIs
  <2>4. file'[k] = TextHead(rec) /\ file'[k + 1] = TextRest(rec) /\ file'[k + 2] = NewLine
    <3>1. /\ file'[Len(file) + (Len(buffer) + 1)] = TextHead(rec)
          /\ file'[Len(file) + (Len(buffer) + 2)] = TextRest(rec)
          /\ file'[Len(file) + (Len(buffer) + 3)] = NewLine
      BY <2>2, <2>3
    <3>2. /\ Len(file) + (Len(buffer) + 1) = k /\ Len(file) + (Len(buffer) + 2) = k + 1
          /\ Len(file) + (Len(buffer) + 3) = k + 2
      BY <1>5, <2>2, <2>3
    <3> QED BY <3>1, <3>2
  <2>5. DOMAIN file' = 1 .. k + 2 /\ k \in Nat /\ k >= 1
    BY <1>5, <2>2, <2>3
  <2>6. \A q \in DOMAIN file' : q > k => q = k + 1 \/ q = k + 2
    BY <2>5
  <2> QED BY <2>4, <2>5, <2>6, NewLineIs DEF TextAt
<1>7. rec.prev # Genesis => HashIn(file', rec.prev)
  BY <1>2, <1>w
<1>8. /\ DOMAIN sealed' = 1 .. Len(sealed) + 1 /\ Len(sealed) \in Nat
      /\ sealed'[Len(sealed) + 1] = rec /\ DOMAIN sealed = 1 .. Len(sealed)
      /\ \A i \in DOMAIN sealed : sealed'[i] = sealed[i]
      /\ sealed' \in Seq(Records)
  BY <1>2
<1>9. \A i \in DOMAIN sealed : sealed[i].seq < rec.seq
  <2> SUFFICES ASSUME NEW i \in DOMAIN sealed PROVE sealed[i].seq < rec.seq
    OBVIOUS
  <2>1. sealed[i] \in Records /\ sealed[i].seq <= seq
    BY <1>2, <1>4 DEF SealInv, HeadKept
  <2> QED BY <1>2, <2>1 DEF Records
<1>10. rec.seq \in Nat /\ rec.hash \in Seq(Bodies)
  BY DEF Records
<1>11. TypeOK'
  BY <1>2, <1>4, <1>w, <1>8, <1>10, AppendSealsIs DEF TypeOK
<1>12. PartsKnown'
  BY <1>4, <1>w DEF PartsKnown
<1>13. SealedKept'
  <2> SUFFICES ASSUME NEW i \in DOMAIN sealed'
               PROVE  /\ \E j \in DOMAIN file' :
                           /\ TextAt(file', j, sealed'[i])
                           /\ \A q \in DOMAIN file' : q > j /\ file'[q] # NewLine =>
                                                        file'[q].record.seq >= sealed'[i].seq
                      /\ sealed'[i].prev # Genesis => HashIn(file', sealed'[i].prev)
    BY DEF SealedKept
  <2>1. CASE i \in DOMAIN sealed
    BY <1>w, <1>8, <2>1
  <2>2. CASE i = Len(sealed) + 1
    BY <1>6, <1>7, <1>8, <1>10, <2>2
  <2> QED BY <1>8, <2>1, <2>2
<1>14. HeadKept'
  <2>1. HashIn(file', rec.hash)
    <3>1. file'[k] # NewLine /\ file'[k].record = rec
      BY <1>6, NewLineIs
    <3> QED BY <1>6, <3>1 DEF HashIn
  <2>2. \A i \in DOMAIN sealed' : sealed'[i].seq <= rec.seq
    <3>1. ASSUME NEW i \in DOMAIN sealed PROVE sealed'[i].seq <= rec.seq
      <4>1. sealed[i].seq < rec.seq /\ sealed'[i] = sealed[i] /\ sealed[i] \in Records
        BY <1>2, <1>8, <1>9
      <4> QED BY <1>10, <4>1 DEF Records
    <3> QED BY <1>8, <1>10, <3>1
  <2> QED BY <1>2, <2>1, <2>2 DEF HeadKept
<1>15. SealedSeqsIncrease'
  BY <1>8, <1>9 DEF SealInv, SealedSeqsIncrease
<1> QED BY <1>11, <1>12, <1>13, <1>14, <1>15 DEF SealInv

\* What the other actions write.
LEMMA AppendFailsIs ==
  ASSUME SealInv, AppendFails
  PROVE  /\ \E w : OfNext(w, seq, appends') /\ file' = file \o w
         /\ OfNext(buffer', seq, appends') /\ state' = "up" /\ state = "up"
         /\ appends' \in 0 .. MaxAppends /\ appends <= appends' /\ failed' \subseteq Bodies
         /\ failed' # {} /\ UNCHANGED <<seq, prevHash, opens, sealed>>
<1>1. /\ appends \in Nat /\ seq \in Nat /\ appends + 1 \in 1 .. MaxAppends /\ appends' = appends + 1
      /\ failed \subseteq Bodies /\ state = "up" /\ state' = "up"
  BY BoundsAssumption DEF SealInv, TypeOK, AppendFails
<1>2. PICK n \in Nat : n = appends + 1
  BY <1>1
<1>3. PICK line : line = LineOf(NextRecord)
  OBVIOUS
<1>4. /\ OfNext(buffer, seq, n) /\ OfNext(line, seq, n) /\ OfNext(buffer \o line, seq, n) /\ Len(line) = 3
      /\ buffer \in Seq(Parts) /\ line \in Seq(Parts) /\ buffer \o line \in Seq(Parts)
      /\ OfNext(<<>>, seq, n)
  <2>1. OfNext(buffer, seq, n) /\ OfNext(line, seq, n)
    BY <1>1, <1>2, <1>3, OfNextBuffer, OfNextMore, OfNextLine DEF AppendFails
  <2>2. Len(line) = 3
    BY <1>1, <1>3, NextIs, LineIs DEF SealInv, AppendFails
  <2>3. OfNext(<<>>, seq, n)
    BY DEF OfNext
  <2> QED BY <2>1, <2>2, <2>3, OfNextBoth DEF OfNext
<1>5. ASSUME FailsBuffered(line)
      PROVE (\E w : OfNext(w, seq, n) /\ file' = file \o w) /\ OfNext(buffer', seq, n)
  <2>1. PICK all : all = buffer \o line
    OBVIOUS
  <2>2. PICK k \in 0 .. Len(all) - 1 :
           /\ file' = file \o SubSeq(all, 1, k)
           /\ buffer' = SubSeq(all, k + 1, Len(all))
    BY <1>5, <2>1 DEF FailsBuffered, Write
  <2>3. OfNext(all, seq, n) /\ Len(all) \in Nat
    BY <1>4, <2>1
  <2>4. OfNext(SubSeq(all, 1, k), seq, n) /\ OfNext(SubSeq(all, k + 1, Len(all)), seq, n)
    BY <2>3, OfNextPart
  <2> QED BY <2>2, <2>4
<1>6. ASSUME FailsBeforeTheLine
      PROVE (\E w : OfNext(w, seq, n) /\ file' = file \o w) /\ OfNext(buffer', seq, n)
  <2>1. PICK k \in 0 .. Len(buffer) - 1 :
           /\ file' = file \o SubSeq(buffer, 1, k)
           /\ buffer' = SubSeq(buffer, k + 1, Len(buffer))
    BY <1>6 DEF FailsBeforeTheLine, Write
  <2>2. Len(buffer) \in Nat
    BY <1>4
  <2>3. OfNext(SubSeq(buffer, 1, k), seq, n) /\ OfNext(SubSeq(buffer, k + 1, Len(buffer)), seq, n)
    BY <1>4, <2>2, OfNextPart
  <2> QED BY <2>1, <2>3
<1>7. ASSUME FailsUnbuffered(line)
      PROVE (\E w : OfNext(w, seq, n) /\ file' = file \o w) /\ OfNext(buffer', seq, n)
  <2>1. PICK k \in {0, 1} : file' = file \o (buffer \o SubSeq(line, 1, k)) /\ buffer' = <<>>
    BY <1>7 DEF FailsUnbuffered, Write
  <2>2. OfNext(SubSeq(line, 1, k), seq, n)
    <3>1. PICK j \in Nat : j = k /\ j <= Len(line)
      BY <1>4
    <3>2. OfNext(line, seq, n) /\ 1 \in Nat /\ 1 >= 1
      BY <1>4
    <3>3. OfNext(SubSeq(line, 1, j), seq, n)
      BY <3>1, <3>2, OfNextPart
    <3> QED BY <3>1, <3>3
  <2> QED BY <1>4, <2>1, <2>2, OfNextBoth
<1>8. (\E w : OfNext(w, seq, n) /\ file' = file \o w) /\ OfNext(buffer', seq, n)
  BY <1>3, <1>5, <1>6, <1>7 DEF AppendFails
<1>9. NextRecord.body \in Bodies
  BY <1>1, NextIs DEF SealInv, AppendFails, Bodies
<1> QED BY <1>1, <1>2, <1>8, <1>9 DEF AppendFails, StayAtHead

LEMMA StopIs ==
  ASSUME SealInv, Stop \/ Crash \/ CrashInAppend
  PROVE  /\ \E w : OfNext(w, seq, appends') /\ file' = file \o w
         /\ buffer' = <<>> /\ state' = "down" /\ state = "up"
         /\ appends' \in 0 .. MaxAppends /\ appends <= appends'
         /\ UNCHANGED <<seq, prevHash, opens, sealed, failed>>
<1>1. /\ appends \in Nat /\ seq \in Nat /\ appends \in 0 .. MaxAppends
      /\ state = "up" /\ state' = "down" /\ buffer' = <<>>
      /\ UNCHANGED <<seq, prevHash, opens, sealed, failed>> /\ file \in Seq(Parts)
  BY BoundsAssumption DEF SealInv, TypeOK, Stop, Crash, CrashInAppend
<1>2. OfNext(buffer, seq, appends) /\ buffer \in Seq(Parts) /\ Len(buffer) \in Nat
  BY <1>1, OfNextBuffer DEF OfNext
<1>3. CASE Stop
  <2>1. PICK k \in 0 .. Len(buffer) : file' = file \o SubSeq(buffer, 1, k)
    BY <1>3 DEF Stop, Write
  <2>2. OfNext(SubSeq(buffer, 1, k), seq, appends) /\ appends' = appends
    BY <1>2, <1>3, OfNextPart DEF Stop
  <2>3. \E w : OfNext(w, seq, appends) /\ file' = file \o w
    BY <2>1, <2>2
  <2>4. \E w : OfNext(w, seq, appends') /\ file' = file \o w
    BY <2>2, <2>3
  <2>5. appends' \in 0 .. MaxAppends /\ appends <= appends'
    BY <1>1, <2>2
  <2> QED BY <1>1, <2>4, <2>5
<1>4. CASE Crash
  <2>1. OfNext(<<>>, seq, appends) /\ appends' = appends
    BY <1>4 DEF OfNext, Crash
  <2>2. file' = file \o <<>>
    BY <1>1, <1>4 DEF Crash
  <2> QED BY <1>1, <2>1, <2>2
<1>5. CASE CrashInAppend
  <2>1. PICK all : all = buffer \o LineOf(NextRecord)
    OBVIOUS
  <2>2. PICK k \in 0 .. Len(all) : file' = file \o SubSeq(all, 1, k)
    BY <1>5, <2>1 DEF CrashInAppend, Write
  <2>3. appends' = appends + 1 /\ appends < MaxAppends /\ appends + 1 \in 0 .. MaxAppends
    BY <1>1, <1>5, BoundsAssumption DEF CrashInAppend
  <2>4. OfNext(all, seq, appends + 1)
    BY <1>1, <1>2, <2>1, <2>3, OfNextMore, OfNextLine, OfNextBoth
  <2>5. Len(all) \in Nat
    BY <2>4 DEF OfNext
  <2>6. OfNext(SubSeq(all, 1, k), seq, appends + 1)
    BY <2>2, <2>4, <2>5, OfNextPart
  <2>7. \E w : OfNext(w, seq, appends + 1) /\ file' = file \o w
    BY <2>2, <2>6
  <2> QED BY <1>1, <2>3, <2>7
<1> QED BY <1>3, <1>4, <1>5

LEMMA SealNext == SealInv /\ [Next]_vars => SealInv'
<1> SUFFICES ASSUME SealInv, [Next]_vars PROVE SealInv'
  OBVIOUS
<1>1. CASE AppendFails
  BY <1>1, AppendFailsIs, KeepsSealed
<1>2. CASE Stop \/ Crash \/ CrashInAppend
  <2>1. failed' \subseteq Bodies
    BY <1>2, StopIs DEF SealInv, TypeOK
  <2> QED BY <1>2, <2>1, StopIs, KeepsSealed
<1>3. CASE UNCHANGED vars
  BY <1>3 DEF vars, SealInv, TypeOK, PartsKnown, SealedKept, HeadKept, SealedSeqsIncrease
<1> QED BY <1>1, <1>2, <1>3, OpenSeals, AppendSealsSeals DEF Next

\* Every record that the sink reported as sealed is in the file, with nothing of a lower
\* number behind it, and the sink's head is past all of them (AuditSink::append_with, open).
THEOREM SealsAreKept == Spec => []SealInv
BY SealInit, SealNext, PTL DEF Spec

\* Whatever writes fail, however lines are cut and whenever the service restarts, no two
\* sealed records share a number, and the text of each and of the one it continues are
\* in the file.
THEOREM SealedRecordsStay == Spec => []SealedStays
<1>1. SealInv => SealedStays
  <2> SUFFICES ASSUME SealInv PROVE SealedContinuesFile
    BY DEF SealInv, SealedStays
  <2>1. ASSUME NEW rec, NEW k, TextAt(file, k, rec) PROVE OnFile(rec)
    BY <2>1 DEF TextAt, OnFile
  <2>2. ASSUME NEW hash, HashIn(file, hash)
        PROVE  \E k \in DOMAIN file : /\ file[k] # NewLine /\ file[k].record.hash = hash
                                      /\ OnFile(file[k].record)
    BY <2>1, <2>2 DEF HashIn
  <2> QED BY <2>1, <2>2 DEF SealInv, SealedKept, SealedContinuesFile
<1> QED BY <1>1, SealsAreKept, PTL

(***************************************************************************)
(* The file verifies.                                                      *)
(***************************************************************************)
LEMMA PartsStay ==
  ASSUME NEW f \in Seq(Parts), NEW w \in Seq(Parts), NEW g, g = f \o w
  PROVE  /\ g \in Seq(Parts) /\ Len(g) = Len(f) + Len(w) /\ Len(f) \in Nat /\ Len(w) \in Nat
         /\ DOMAIN g = 1 .. Len(g) /\ DOMAIN f = 1 .. Len(f) /\ DOMAIN w = 1 .. Len(w)
         /\ \A p \in DOMAIN f : p \in DOMAIN g /\ g[p] = f[p]
         /\ \A p \in DOMAIN w : g[Len(f) + p] = w[p]
BY ConcatIs

LEMMA OnePerLineWas ==
  ASSUME TypeOK, NEW w \in Seq(Parts), file' = file \o w, OneRecordPerLine' PROVE OneRecordPerLine
<1>1. \A p \in DOMAIN file : p \in DOMAIN file' /\ file'[p] = file[p]
  BY PartsStay DEF TypeOK
<1> QED BY <1>1 DEF OneRecordPerLine

\* A line that continues the one before it still does when more lines follow.
LEMMA ContinuesStays ==
  ASSUME NEW f \in Seq(Parts), NEW g \in Seq(Parts), Len(g) >= Len(f),
         \A p \in DOMAIN f : g[p] = f[p], f[Len(f)] = NewLine,
         NEW n, n = Len(f) + 1, Starts(g) = Starts(f) \cup {n},
         NEW i \in Starts(f), ContinuesFrom(f, i)
  PROVE  ContinuesFrom(g, i)
<1>1. /\ DOMAIN f = 1 .. Len(f) /\ DOMAIN g = 1 .. Len(g) /\ Len(f) \in Nat /\ Len(g) \in Nat
      /\ \A j \in Starts(f) : j \in DOMAIN f /\ j < n /\ Parsed(g, j) = Parsed(f, j)
  BY DEF Starts, Parsed
<1>2. IsJson(f, i) /\ i \in DOMAIN f
  BY <1>1 DEF ContinuesFrom
<1>3. f[i].record \in Records
  <2>1. f[i] \in Parts /\ f[i] # NewLine
    BY <1>2 DEF Starts
  <2> QED BY <2>1, NewLineIs
<1>4. i + 1 # Len(f)
  BY <1>2, <1>3, NewLineIs DEF IsJson
<1>5. IsJson(g, i)
  BY <1>1, <1>2, <1>4 DEF IsJson
<1>6. ASSUME \A j \in Starts(f) : i <= j PROVE \A j \in Starts(g) : i <= j
  BY <1>1, <1>6
<1>7. ASSUME NEW j \in Starts(f), Follows(f, j, i) PROVE Follows(g, j, i)
  BY <1>1, <1>7 DEF Follows
<1>8. PICK rec : rec = Parsed(f, i) /\ rec = Parsed(g, i)
  BY <1>1
<1>9. /\ rec.hash = ChainHash(rec.prev, rec.body)
      /\ \/ (\A j \in Starts(f) : i <= j) /\ rec.prev = Genesis /\ rec.seq = 1
         \/ \E j \in Starts(f) : /\ Follows(f, j, i)
                                 /\ rec.prev = Parsed(f, j).hash /\ rec.seq = Parsed(f, j).seq + 1
  BY <1>8 DEF ContinuesFrom
<1>10. /\ rec.hash = ChainHash(rec.prev, rec.body)
       /\ \/ (\A j \in Starts(g) : i <= j) /\ rec.prev = Genesis /\ rec.seq = 1
          \/ \E j \in Starts(g) : /\ Follows(g, j, i)
                                  /\ rec.prev = Parsed(g, j).hash /\ rec.seq = Parsed(g, j).seq + 1
  BY <1>1, <1>6, <1>7, <1>9
<1> QED BY <1>5, <1>8, <1>10 DEF ContinuesFrom

\* An action writes k parts of the line of the next record, behind what is in the file.
Begun(k, rec, n) ==
  /\ k \in 1 .. 3 /\ rec \in Records /\ rec = NextRecord /\ n = Len(file) + 1
  /\ \E w \in Seq(Parts) : /\ Len(w) = k /\ file' = file \o w
                           /\ \A p \in 1 .. k : w[p] = LineOf(rec)[p]

\* A sink at the head of a file of whole lines writes a beginning of its next line.
LEMMA LineWritten ==
  ASSUME SealInv, OneRecordPerLine', LinesContinue, AtHead, state = "up", appends < MaxAppends,
         NEW k, NEW rec, NEW n, Begun(k, rec, n)
  PROVE  /\ Starts(file') = Starts(file) \cup {n} /\ n \in Nat /\ Len(file') = Len(file) + k
         /\ \A i \in Starts(file) : i < n /\ ContinuesFrom(file', i) /\ Parsed(file', i) = Parsed(file, i)
         /\ Parsed(file', n) = rec
         /\ k >= 2 => ContinuesFrom(file', n)
<1>0. PICK w \in Seq(Parts) : /\ Len(w) = k /\ file' = file \o w
                             /\ \A p \in 1 .. k : w[p] = LineOf(rec)[p]
  BY DEF Begun
<1> USE <1>0
<1>b. k \in 1 .. 3 /\ rec \in Records /\ rec = NextRecord /\ n = Len(file) + 1
  BY DEF Begun
<1> USE <1>b
<1>1. TypeOK /\ file \in Seq(Parts)
  BY DEF SealInv, TypeOK
<1>2. PICK g \in Seq(Parts) : g = file'
  BY <1>1, PartsStay
<1>3. /\ Len(g) = Len(file) + k /\ Len(file) \in Nat /\ n \in Nat
      /\ DOMAIN g = 1 .. Len(g) /\ DOMAIN file = 1 .. Len(file) /\ DOMAIN w = 1 .. k
      /\ \A p \in DOMAIN file : p \in DOMAIN g /\ g[p] = file[p]
      /\ \A p \in DOMAIN w : g[Len(file) + p] = w[p]
  BY <1>1, <1>2, PartsStay
<1>4. /\ g[n] = TextHead(rec) /\ n \in DOMAIN g
      /\ k >= 2 => n + 1 \in DOMAIN g /\ g[n + 1] = TextRest(rec)
      /\ n + 2 \in DOMAIN g => g[n + 2] = NewLine
      /\ n + 1 \in DOMAIN g => k >= 2
      /\ \A p \in DOMAIN g : p > n => p = n + 1 \/ p = n + 2
  <2>1. LineOf(rec)[1] = TextHead(rec) /\ LineOf(rec)[2] = TextRest(rec) /\ LineOf(rec)[3] = NewLine
    BY LineIs
  <2>2. g[Len(file) + 1] = w[1]
    <3>1. 1 \in DOMAIN w
      BY <1>3
    <3> QED BY <1>3, <3>1
  <2>3. k >= 2 => g[Len(file) + 2] = w[2] /\ w[2] = TextRest(rec)
    BY <1>3, <2>1
  <2>4. k >= 3 => g[Len(file) + 3] = w[3] /\ w[3] = NewLine
    BY <1>3, <2>1
  <2>5. n + 1 = Len(file) + 2 /\ n + 2 = Len(file) + 3
    BY <1>3
  <2> QED BY <1>3, <2>1, <2>2, <2>3, <2>4, <2>5
<1>5. \A i \in Starts(file) : i \in DOMAIN file /\ i < n /\ Parsed(g, i) = Parsed(file, i)
  BY <1>3 DEF Starts, Parsed
<1>6. Len(file) > 0 => file[Len(file)] = NewLine
  <2> SUFFICES ASSUME Len(file) > 0, file[Len(file)] # NewLine PROVE FALSE
    OBVIOUS
  <2>1. Len(file) \in DOMAIN file /\ file[Len(file)] \in Parts
    BY <1>1, <1>3
  <2>2. g[n] # NewLine /\ g[n].record = rec
    BY <1>4, NewLineIs
  <2>3. g[Len(file)] = file[Len(file)] /\ Len(file) \in DOMAIN g
    BY <1>3, <2>1
  <2>4. g[Len(file)].record = g[Len(file) + 1].record
    BY <1>2, <1>4, <2>2, <2>3 DEF OneRecordPerLine
  <2>5. file[Len(file)].record.body <= appends
    BY <2>1 DEF SealInv, PartsKnown
  <2>6. rec.body = appends + 1 /\ appends \in Nat
    BY <1>1, NextIs DEF TypeOK
  <2> QED BY <2>2, <2>3, <2>4, <2>5, <2>6
<1>7. Starts(g) = Starts(file) \cup {n}
  <2>1. n \in Starts(g)
    BY <1>3, <1>4, <1>6, NewLineIs DEF Starts
  <2>2. n + 1 \notin Starts(g) /\ n + 2 \notin Starts(g)
    BY <1>3, <1>4, NewLineIs DEF Starts
  <2>3. \A i \in DOMAIN file : i \in Starts(g) <=> i \in Starts(file)
    BY <1>3 DEF Starts
  <2>4. \A i \in Starts(g) : i \in DOMAIN g
    BY DEF Starts
  <2>5. \A i \in DOMAIN g : i \in DOMAIN file \/ i = n \/ i = n + 1 \/ i = n + 2
    BY <1>3, <1>4
  <2> QED BY <1>5, <2>1, <2>2, <2>3, <2>4, <2>5
<1>8. ASSUME NEW i \in Starts(file) PROVE ContinuesFrom(g, i)
  <2>1. ContinuesFrom(file, i)
    BY DEF LinesContinue
  <2>2. Len(file) > 0 /\ Len(g) >= Len(file)
    BY <1>3, <1>5
  <2>3. /\ file[Len(file)] = NewLine /\ \A p \in DOMAIN file : g[p] = file[p]
        /\ n = Len(file) + 1 /\ Starts(g) = Starts(file) \cup {n}
    BY <1>3, <1>6, <1>7, <2>2
  <2> QED BY <1>1, <2>1, <2>2, <2>3, ContinuesStays
<1>9. ASSUME k >= 2 PROVE ContinuesFrom(g, n)
  <2>1. Parsed(g, n) = rec /\ IsJson(g, n)
    BY <1>4, <1>9, NewLineIs DEF Parsed, IsJson
  <2>2. /\ rec.hash = ChainHash(rec.prev, rec.body) /\ rec.seq = seq + 1 /\ rec.prev = prevHash
    BY <1>1, NextIs
  <2>3. CASE Starts(file) = {} /\ seq = 0 /\ prevHash = Genesis
    <3>1. \A j \in Starts(g) : n <= j
      BY <1>3, <1>7, <2>3
    <3> QED BY <2>1, <2>2, <2>3, <3>1 DEF ContinuesFrom
  <2>4. CASE \E i \in Starts(file) : /\ IsLast(file, i)
                                     /\ seq = Parsed(file, i).seq /\ prevHash = Parsed(file, i).hash
    <3>1. PICK i \in Starts(file) : /\ IsLast(file, i)
                                    /\ seq = Parsed(file, i).seq /\ prevHash = Parsed(file, i).hash
      BY <2>4
    <3>2. Follows(g, i, n) /\ i \in Starts(g)
      BY <1>3, <1>5, <1>7, <3>1 DEF Follows, IsLast
    <3>3. rec.prev = Parsed(g, i).hash /\ rec.seq = Parsed(g, i).seq + 1
      BY <1>5, <2>2, <3>1
    <3> QED BY <2>1, <2>2, <3>2, <3>3 DEF ContinuesFrom
  <2> QED BY <2>3, <2>4 DEF AtHead
<1>10. Parsed(g, n) = rec
  BY <1>4, NewLineIs DEF Parsed
<1> QED BY <1>2, <1>3, <1>5, <1>7, <1>8, <1>9, <1>10

\* The records that were on verified lines stay on verified lines.
LEMMA LinesStaySealed ==
  ASSUME SealedOnLines, NEW n \in Nat, Starts(file') = Starts(file) \cup {n},
         \A i \in Starts(file) : i \in Nat /\ i < n /\ ContinuesFrom(file', i)
                                 /\ Parsed(file', i) = Parsed(file, i)
  PROVE  \A i \in DOMAIN sealed : \E j \in Accepted(file') : Parsed(file', j) = sealed[i]
<1> SUFFICES ASSUME NEW i \in DOMAIN sealed
             PROVE  \E j \in Accepted(file') : Parsed(file', j) = sealed[i]
  OBVIOUS
<1>1. PICK j \in Accepted(file) : Parsed(file, j) = sealed[i]
  BY DEF SealedOnLines
<1>2. j \in Starts(file) /\ j \in Starts(file')
  BY DEF Accepted
<1>3. \A h \in Starts(file') : h <= j => ContinuesFrom(file', h)
  BY <1>2
<1> QED BY <1>1, <1>2, <1>3 DEF Accepted

LEMMA WholeInit == Init => WholeInv
BY DEF Init, WholeInv, LinesContinue, Starts, SealedOnLines

\* The consequence of WholeInv, where nothing has been written.
LEMMA NothingWritten ==
  ASSUME WholeInv, failed = {}, OneRecordPerLine, UNCHANGED <<file, sealed>>, state' # "up", buffer' = <<>>
  PROVE  WholeInv'
BY DEF WholeInv, LinesContinue, SealedOnLines

LEMMA WholeNext == SealInv /\ WholeInv /\ [Next]_vars => WholeInv'
<1> SUFFICES ASSUME SealInv, WholeInv, [Next]_vars, failed' = {}, OneRecordPerLine' PROVE WholeInv'
  BY DEF WholeInv
<1>1. TypeOK /\ file \in Seq(Parts) /\ seq \in Nat /\ appends \in Nat
  BY DEF SealInv, TypeOK
<1>2. ASSUME ~AppendFails
      PROVE  /\ failed = {} /\ OneRecordPerLine /\ buffer = <<>> /\ LinesContinue
             /\ state = "up" => AtHead
             /\ SealedOnLines
  <2>1. \E w \in Seq(Parts) : file' = file \o w
    <3>1. file = file \o <<>> /\ <<>> \in Seq(Parts)
      BY <1>1
    <3>2. CASE UNCHANGED file
      BY <3>1, <3>2
    <3>3. CASE AppendSeals
      BY <3>3, AppendSealsIs DEF OfNext
    <3>4. CASE Stop \/ Crash \/ CrashInAppend
      BY <3>4, StopIs DEF OfNext
    <3> QED BY <1>2, <3>2, <3>3, <3>4 DEF Next, vars, Open
  <2>2. OneRecordPerLine
    BY <1>1, <2>1, OnePerLineWas
  <2>3. failed = {}
    BY <1>2 DEF Next, vars, Open, AppendSeals, Stop, Crash, CrashInAppend
  <2> QED BY <2>2, <2>3 DEF WholeInv
<1>3. CASE AppendFails
  BY <1>3, AppendFailsIs
<1>4. CASE Stop
  <2>1. PICK k \in 0 .. Len(buffer) : file' = file \o SubSeq(buffer, 1, k)
    BY <1>4 DEF Stop, Write
  <2>2. ~AppendFails /\ UNCHANGED sealed /\ state' # "up" /\ buffer' = <<>>
    BY <1>4 DEF Stop, AppendFails
  <2>3. buffer = <<>>
    BY <1>2, <2>2
  <2>4. file' = file
    BY <1>1, <2>1, <2>3
  <2> QED BY <1>2, <2>2, <2>4, NothingWritten
<1>5. CASE Crash
  <2>1. ~AppendFails /\ UNCHANGED <<file, sealed>> /\ state' # "up" /\ buffer' = <<>>
    BY <1>5 DEF Crash, AppendFails
  <2> QED BY <1>2, <2>1, NothingWritten
<1>6. CASE CrashInAppend
  <2>1. /\ ~AppendFails /\ UNCHANGED sealed /\ state = "up" /\ state' # "up" /\ buffer' = <<>>
        /\ appends < MaxAppends
    BY <1>6 DEF CrashInAppend, AppendFails
  <2>2. buffer = <<>> /\ LinesContinue /\ AtHead /\ SealedOnLines
    BY <1>2, <2>1
  <2>3. PICK rec \in Records : rec = NextRecord
    BY <1>1, <2>1, NextIs
  <2>4. PICK line \in Seq(Parts) : line = LineOf(rec)
    BY LineIs
  <2>5. Len(line) = 3
    BY <2>4, LineIs
  <2>6. PICK k \in 0 .. 3 : file' = file \o SubSeq(line, 1, k)
    <3>1. buffer \o LineOf(NextRecord) = line
      BY <2>2, <2>3, <2>4
    <3> QED BY <1>6, <2>5, <3>1 DEF CrashInAppend, Write
  <2>7. CASE k = 0
    <3>1. file' = file
      BY <1>1, <2>6, <2>7
    <3> QED BY <1>2, <2>1, <3>1, NothingWritten
  <2>8. CASE k # 0
    <3>1. PICK w \in Seq(Parts) : w = SubSeq(line, 1, k)
      <4>1. k \in Nat /\ k <= Len(line) /\ 1 \in Nat /\ 1 >= 1
        BY <2>5
      <4> QED BY <4>1, SubSeqIs
    <3>2. k \in 1 .. 3 /\ Len(w) = k /\ file' = file \o w /\ \A p \in 1 .. k : w[p] = LineOf(rec)[p]
      BY <2>4, <2>5, <2>6, <2>8, <3>1
    <3>3. PICK n : n = Len(file) + 1
      OBVIOUS
    <3>4. /\ Starts(file') = Starts(file) \cup {n} /\ n \in Nat /\ Len(file') = Len(file) + k
          /\ \A i \in Starts(file) : /\ i < n /\ ContinuesFrom(file', i)
                                     /\ Parsed(file', i) = Parsed(file, i)
          /\ k >= 2 => ContinuesFrom(file', n)
      <4>1. Begun(k, rec, n)
        BY <2>3, <3>2, <3>3 DEF Begun
      <4> QED BY <2>1, <2>2, <4>1, LineWritten
    <3>5. k = 1 => n = Len(file')
      BY <3>3, <3>4
    <3>6. LinesContinue'
      BY <2>1, <3>2, <3>4, <3>5 DEF LinesContinue
    <3>7. SealedOnLines'
      <4>1. \A i \in Starts(file) : i \in Nat
        BY <1>1 DEF Starts
      <4>2. \A i \in DOMAIN sealed : \E j \in Accepted(file') : Parsed(file', j) = sealed[i]
        BY <2>2, <3>4, <4>1, LinesStaySealed
      <4> QED BY <2>1, <4>2 DEF SealedOnLines
    <3> QED BY <2>1, <3>6, <3>7 DEF WholeInv
  <2> QED BY <2>7, <2>8
<1>7. CASE AppendSeals
  <2>1. /\ ~AppendFails /\ state = "up" /\ state' = "up" /\ buffer' = <<>> /\ appends < MaxAppends
    <3>1. failed' = failed /\ buffer' = <<>> /\ state' = state
      BY <1>7 DEF AppendSeals
    <3> QED BY <1>3, <1>7, <3>1, AppendSealsIs, AppendFailsIs
  <2>2. buffer = <<>> /\ LinesContinue /\ AtHead /\ SealedOnLines
    BY <1>2, <2>1
  <2>3. PICK rec \in Records : rec = NextRecord
    BY <1>1, <2>1, NextIs
  <2>4. PICK line \in Seq(Parts) : line = LineOf(rec)
    BY LineIs
  <2>5. Len(line) = 3
    BY <2>4, LineIs
  <2>6. file' = file \o line
    <3>1. buffer \o LineOf(NextRecord) = line
      BY <2>2, <2>3, <2>4
    <3> QED BY <1>7, <3>1 DEF AppendSeals, Write
  <2>7. PICK n : n = Len(file) + 1
    OBVIOUS
  <2>8. \A p \in 1 .. 3 : line[p] = LineOf(rec)[p]
    BY <2>4
  <2>9. /\ Starts(file') = Starts(file) \cup {n} /\ n \in Nat
        /\ \A i \in Starts(file) : /\ i < n /\ ContinuesFrom(file', i)
                                   /\ Parsed(file', i) = Parsed(file, i)
        /\ Parsed(file', n) = rec /\ ContinuesFrom(file', n)
    <3>1. 3 \in 1 .. 3 /\ 3 >= 2
      OBVIOUS
    <3>2. Begun(3, rec, n)
      BY <2>3, <2>5, <2>6, <2>7, <2>8, <3>1 DEF Begun
    <3> QED BY <2>1, <2>2, <3>1, <3>2, LineWritten
  <2>10. LinesContinue'
    BY <2>9 DEF LinesContinue
  <2>11. seq' = rec.seq /\ prevHash' = rec.hash /\ sealed' = Append(sealed, rec)
    BY <1>7, <2>3 DEF AppendSeals, Advance
  <2>12. AtHead'
    <3>1. IsLast(file', n)
      <4>1. \A i \in Starts(file) : i \in Nat
        BY <1>1 DEF Starts
      <4> QED BY <2>9, <4>1 DEF IsLast
    <3> QED BY <2>9, <2>11, <3>1 DEF AtHead, IsLast
  <2>13. SealedOnLines'
    <3>1. \A i \in Starts(file) : i \in Nat
      BY <1>1 DEF Starts
    <3>2. \A i \in DOMAIN sealed : \E j \in Accepted(file') : Parsed(file', j) = sealed[i]
      BY <2>2, <2>9, <3>1, LinesStaySealed
    <3>3. n \in Accepted(file') /\ Parsed(file', n) = rec
      BY <2>9 DEF Accepted
    <3>4. /\ \A i \in DOMAIN sealed : sealed'[i] = sealed[i]
          /\ sealed'[Len(sealed) + 1] = rec
          /\ \A i \in DOMAIN sealed' : i \in DOMAIN sealed \/ i = Len(sealed) + 1
      BY <1>1, <2>11 DEF TypeOK
    <3> QED BY <3>2, <3>3, <3>4 DEF SealedOnLines
  <2> QED BY <2>1, <2>10, <2>12, <2>13 DEF WholeInv
<1>8. CASE Open
  <2>1. ~AppendFails /\ UNCHANGED <<file, sealed>> /\ buffer' = <<>>
    BY <1>8 DEF Open, AppendFails
  <2>2. LinesContinue /\ SealedOnLines
    BY <1>2, <2>1
  <2>3. SealedOnLines'
    BY <2>1, <2>2 DEF SealedOnLines
  <2>4. CASE state' = "refused"
    BY <2>1, <2>2, <2>3, <2>4 DEF WholeInv, LinesContinue
  <2>5. CASE TailIsJson /\ Resume /\ state' = "up"
    <3>1. Len(file) \notin Starts(file)
      <4> SUFFICES ASSUME Len(file) \in Starts(file) PROVE FALSE
        OBVIOUS
      <4>1. IsLast(file, Len(file))
        BY <1>1 DEF IsLast, Starts
      <4>2. Len(file) + 1 \in DOMAIN file
        BY <2>5, <4>1 DEF TailIsJson, IsJson
      <4> QED BY <1>1, <4>2
    <3>2. LinesContinue'
      BY <2>1, <2>2, <3>1 DEF LinesContinue
    <3>3. AtHead'
      BY <2>1, <2>5 DEF Resume, AtHead
    <3> QED BY <2>1, <2>3, <3>2, <3>3 DEF WholeInv
  <2> QED BY <1>8, <2>4, <2>5 DEF Open
<1>9. CASE UNCHANGED vars
  BY <1>9 DEF vars, WholeInv, LinesContinue, AtHead, SealedOnLines, OneRecordPerLine
<1> QED BY <1>3, <1>4, <1>5, <1>6, <1>7, <1>8, <1>9 DEF Next

\* As long as no append fails and no crash parts a text from its newline, the file
\* verifies over any number of stops, crashes and restarts, and the records reported as
\* sealed are on verified lines (AuditSink, `premptictl audit verify`).
THEOREM ChainVerifies == Spec => []ChainInv
<1>1. Spec => []WholeInv
  BY WholeInit, WholeNext, SealsAreKept, PTL DEF Spec
<1>2. SealInv /\ WholeInv => ChainInv
  <2> SUFFICES ASSUME SealInv, WholeInv, failed = {}, OneRecordPerLine PROVE Verifies /\ SealedIsVerified
    BY DEF SealInv, ChainInv, HashChained, SealedIsVerified
  <2>1. file \in Seq(Parts) /\ LinesContinue /\ SealedOnLines
    BY DEF SealInv, TypeOK, WholeInv
  <2>2. ASSUME NEW i \in Starts(file), NEW k \in DOMAIN file, k > i PROVE i \in Accepted(file)
    <3>1. ASSUME NEW j \in Starts(file), j <= i PROVE ContinuesFrom(file, j)
      <4>1. j # Len(file)
        BY <2>1, <2>2, <3>1 DEF Starts
      <4> QED BY <2>1, <4>1 DEF LinesContinue
    <3> QED BY <3>1 DEF Accepted
  <2> QED BY <2>1, <2>2 DEF Verifies, SealedIsVerified, SealedOnLines
<1> QED BY <1>1, <1>2, SealsAreKept, PTL
===============================================================================
