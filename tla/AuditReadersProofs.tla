-------------------------- MODULE AuditReadersProofs --------------------------
(***************************************************************************)
(* Theorems about AuditReaders, for any number of records and of polls     *)
(* under way and for any limit: the follow loop passes nothing over, and   *)
(* the page shows each record once and misses none but for the limit.      *)
(***************************************************************************)
EXTENDS AuditReaders, WellFoundedInduction, TLAPS

(***************************************************************************)
(* The invariant.                                                          *)
(***************************************************************************)
\* A batch has every record that the page did not have when it asked, up to the newest
\* at the time of the answer, except those the limit left out.
BatchIsNewest(batch, last, newest) ==
  \A n \in batch : \A m \in 1 .. n : m \in batch \/ m <= newest - Limit \/ m <= last

PollsAreNewest ==
  \A q \in Polls : /\ poll[q].phase = "asked" => poll[q].since <= lastSeq
                   /\ poll[q].phase = "answered" => BatchIsNewest(poll[q].batch, lastSeq, Written)

ReadersInv ==
  /\ TypeOK /\ NothingSkipped /\ PageShowsOnce /\ PollsAreNewest

(***************************************************************************)
(* Helpers.                                                                *)
(***************************************************************************)
LEMMA GreatestOf ==
  ASSUME NEW N \in Nat, NEW S, S \subseteq 0 .. N, S # {}
  PROVE  Max(S) \in S /\ \A n \in S : Max(S) >= n
<1> DEFINE T == {k \in Nat : N - k \in S}
<1>1. T # {}
  <2>1. PICK n \in S : TRUE
    OBVIOUS
  <2>2. N - n \in Nat /\ N - (N - n) = n
    BY <2>1
  <2> QED BY <2>1, <2>2
<1>2. PICK k \in T : \A j \in T : ~ (<<j, k>> \in OpToRel(<, Nat))
  BY <1>1, NatLessThanWellFounded, WFMin
<1>4. k \in Nat /\ N - k \in S
  BY <1>2
<1>3. ASSUME NEW n \in S PROVE N - k >= n
  <2>1. N - n \in T /\ n \in 0 .. N
    BY <1>3
  <2>2. ~ (N - n < k)
    BY <1>2, <2>1 DEF OpToRel
  <2>3. k \in Nat /\ n \in Nat /\ N - n \in Nat
    BY <1>4, <2>1
  <2> QED BY <2>2, <2>3
<1>5. \E m \in S : \A n \in S : m >= n
  BY <1>3, <1>4
<1> QED BY <1>5 DEF Max

LEMMA IntervalIs ==
  ASSUME NEW a \in Nat, NEW b \in Nat, a <= b + 1
  PROVE  /\ Interval(a, b) \in Seq(a .. b) /\ Range(Interval(a, b)) = a .. b
         /\ Len(Interval(a, b)) = b - a + 1
<1>1. b - a + 1 \in Nat
  OBVIOUS
<1>2. Interval(a, b) \in [1 .. b - a + 1 -> a .. b] /\ DOMAIN Interval(a, b) = 1 .. b - a + 1
  BY DEF Interval
<1>3. Interval(a, b) \in Seq(a .. b) /\ Len(Interval(a, b)) = b - a + 1
  BY <1>1, <1>2
<1>4. ASSUME NEW n \in a .. b PROVE n \in Range(Interval(a, b))
  <2>1. n - a + 1 \in 1 .. b - a + 1 /\ Interval(a, b)[n - a + 1] = n
    BY DEF Interval
  <2> QED BY <1>2, <2>1 DEF Range
<1>5. Range(Interval(a, b)) \subseteq a .. b
  BY <1>2 DEF Range
<1> QED BY <1>3, <1>4, <1>5

LEMMA RangeOfConcat ==
  ASSUME NEW S, NEW f \in Seq(S), NEW g \in Seq(S)
  PROVE  /\ f \o g \in Seq(S) /\ Range(f \o g) = Range(f) \cup Range(g)
<1>1. /\ f \o g \in Seq(S) /\ DOMAIN f = 1 .. Len(f) /\ DOMAIN g = 1 .. Len(g)
      /\ DOMAIN (f \o g) = 1 .. Len(f) + Len(g) /\ Len(f) \in Nat /\ Len(g) \in Nat
      /\ \A p \in DOMAIN f : (f \o g)[p] = f[p]
      /\ \A p \in DOMAIN g : (f \o g)[Len(f) + p] = g[p]
      /\ \A p \in DOMAIN (f \o g) : p \notin DOMAIN f => p - Len(f) \in DOMAIN g
                                                       /\ (f \o g)[p] = g[p - Len(f)]
  OBVIOUS
<1>2. \A p \in DOMAIN f : p \in DOMAIN (f \o g)
  BY <1>1
<1>3. \A p \in DOMAIN g : Len(f) + p \in DOMAIN (f \o g)
  BY <1>1
<1> QED BY <1>1, <1>2, <1>3 DEF Range

\* Reading up to the last newline loses nothing: what follows it is kept.
LEMMA NothingLost ==
  ASSUME NEW S, NEW text \in Seq(S)
  PROVE  /\ CompleteLines(text) \in Seq(S) /\ Remainder(text) \in Seq(S)
         /\ Range(text) \subseteq Range(CompleteLines(text)) \cup Range(Remainder(text))
<1>1. Len(text) \in Nat /\ DOMAIN text = 1 .. Len(text)
  OBVIOUS
<1>2. LastNewline(text) \in 0 .. Len(text)
  <2>1. {0} \cup {i \in DOMAIN text : IsNewline(text[i])} \subseteq 0 .. Len(text)
    BY <1>1
  <2>2. Max({0} \cup {i \in DOMAIN text : IsNewline(text[i])})
          \in {0} \cup {i \in DOMAIN text : IsNewline(text[i])}
    BY <1>1, <2>1, GreatestOf
  <2> QED BY <2>1, <2>2 DEF LastNewline
<1>3. PICK k \in 0 .. Len(text) : k = LastNewline(text)
  BY <1>2
<1>4. /\ SubSeq(text, 1, k) \in Seq(S) /\ DOMAIN SubSeq(text, 1, k) = 1 .. k
      /\ \A p \in 1 .. k : SubSeq(text, 1, k)[p] = text[p]
  BY <1>1
<1>5. /\ SubSeq(text, k + 1, Len(text)) \in Seq(S)
      /\ DOMAIN SubSeq(text, k + 1, Len(text)) = 1 .. Len(text) - k
      /\ \A p \in 1 .. Len(text) - k : SubSeq(text, k + 1, Len(text))[p] = text[k + p]
  BY <1>1
<1>6. ASSUME NEW p \in DOMAIN text
      PROVE  text[p] \in Range(SubSeq(text, 1, k)) \cup Range(SubSeq(text, k + 1, Len(text)))
  <2>1. CASE p <= k
    <3>1. p \in 1 .. k
      BY <1>1, <2>1
    <3> QED BY <1>4, <3>1 DEF Range
  <2>2. CASE p > k
    <3>1. p - k \in 1 .. Len(text) - k /\ k + (p - k) = p
      BY <1>1, <2>2
    <3> QED BY <1>5, <3>1 DEF Range
  <2> QED BY <1>1, <2>1, <2>2
<1>7. CompleteLines(text) = SubSeq(text, 1, k) /\ Remainder(text) = SubSeq(text, k + 1, Len(text))
  BY <1>3 DEF CompleteLines, Remainder
<1>8. Range(text) \subseteq Range(SubSeq(text, 1, k)) \cup Range(SubSeq(text, k + 1, Len(text)))
  BY <1>6 DEF Range
<1> QED BY <1>4, <1>5, <1>7, <1>8

LEMMA WrittenIs ==
  ASSUME TypeOK
  PROVE  /\ Written \in 0 .. MaxRecords /\ MaxRecords \in Nat /\ Limit \in Nat /\ length \in Nat
         /\ lastSeq \in Nat
BY LimitAssumption DEF TypeOK, Written

LEMMA PollIs ==
  ASSUME TypeOK, NEW q \in Polls
  PROVE  /\ poll[q].phase = "asked" => poll[q].since \in 0 .. MaxRecords
         /\ poll[q].phase = "answered" => poll[q].batch \in SUBSET (1 .. MaxRecords)
<1>1. CASE poll[q] = Idle
  BY <1>1 DEF Idle
<1>2. CASE poll[q] \in [phase : {"asked"}, since : 0 .. MaxRecords]
  BY <1>2
<1>3. CASE poll[q] \in [phase : {"answered"}, batch : SUBSET (1 .. MaxRecords)]
  BY <1>3
<1> QED BY <1>1, <1>2, <1>3 DEF TypeOK

(***************************************************************************)
(* Every step preserves the invariant.                                     *)
(***************************************************************************)
LEMMA ReadersInit == Init => ReadersInv
BY LimitAssumption DEF Init, ReadersInv, TypeOK, NothingSkipped, PageShowsOnce, MissesOnlyOld,
                       PollsAreNewest, Idle

LEMMA FurtherBack ==
  ASSUME NEW w \in Nat, NEW v \in Nat, w <= v, NEW n \in Nat, n <= w - Limit
  PROVE  n <= v - Limit
<1>1. Limit \in Int
  BY LimitAssumption
<1>2. ASSUME NEW k \in Int, n <= w - k PROVE n <= v - k
  BY <1>2
<1> QED BY <1>1, <1>2

\* What the page has and is being sent stays as good when more is written.
LEMMA PageWaits ==
  ASSUME ReadersInv, UNCHANGED page, length' \in {length, length + 1}, length' <= 3 * MaxRecords
  PROVE  PageShowsOnce' /\ PollsAreNewest'
<1>1. Written <= Written' /\ Written \in Nat /\ Written' \in Nat /\ Limit \in Nat /\ lastSeq \in Nat
  BY WrittenIs DEF ReadersInv, Written
<1>2. records' = records /\ lastSeq' = lastSeq /\ poll' = poll
  BY DEF page
<1>3. PICK old \in Nat, new \in Nat, last \in Nat :
         old = Written /\ new = Written' /\ last = lastSeq /\ old <= new
  BY <1>1
<1>4. PageShowsOnce'
  <2>1. \A n \in 1 .. last : records[n] > 0 \/ n <= old - Limit
    BY <1>3 DEF ReadersInv, PageShowsOnce, MissesOnlyOld
  <2>2. \A n \in 1 .. last : n <= old - Limit => n <= new - Limit
    BY <1>3, FurtherBack
  <2>3. \A n \in 1 .. last : records[n] > 0 \/ n <= new - Limit
    BY <2>1, <2>2
  <2> QED BY <1>2, <1>3, <2>3 DEF ReadersInv, PageShowsOnce, MissesOnlyOld
<1>5. PollsAreNewest'
  <2>1. ASSUME NEW batch \in SUBSET Nat, BatchIsNewest(batch, last, old)
        PROVE  BatchIsNewest(batch, last, new)
    <3> SUFFICES ASSUME NEW n \in batch, NEW m \in 1 .. n
                 PROVE  m \in batch \/ m <= new - Limit \/ m <= last
      BY DEF BatchIsNewest
    <3>1. m \in batch \/ m <= old - Limit \/ m <= last
      BY <2>1 DEF BatchIsNewest
    <3>2. m \in Nat
      OBVIOUS
    <3> QED BY <1>3, <3>1, <3>2, FurtherBack
  <2>2. \A q \in Polls : poll[q].phase = "answered" => poll[q].batch \in SUBSET Nat
    BY PollIs DEF ReadersInv
  <2> QED BY <1>2, <1>3, <2>1, <2>2 DEF ReadersInv, PollsAreNewest
<1> QED BY <1>4, <1>5

\* The records that a batch adds, and the last one that the page then has.
LEMMA PageTakes ==
  ASSUME ReadersInv, NEW q \in Polls, PageReceives(q)
  PROVE  TypeOK' /\ PageShowsOnce' /\ PollsAreNewest'
<1>1. PICK batch \in SUBSET (1 .. MaxRecords) : 
           batch = poll[q].batch /\ BatchIsNewest(batch, lastSeq, Written)
  BY PollIs DEF PageReceives, ReadersInv, PollsAreNewest
<1>2. /\ MaxRecords \in Nat /\ lastSeq \in 0 .. MaxRecords /\ records \in [1 .. MaxRecords -> Nat]
      /\ Written' = Written /\ Written \in Nat /\ Limit \in Nat
  BY WrittenIs DEF ReadersInv, TypeOK, PageReceives, tail, Written
<1>3. /\ lastSeq' \in {lastSeq} \cup batch /\ \A n \in {lastSeq} \cup batch : lastSeq' >= n
  <2>1. {lastSeq} \cup batch \subseteq 0 .. MaxRecords /\ lastSeq' = Max({lastSeq} \cup batch)
    BY <1>1, <1>2 DEF PageReceives
  <2> QED BY <1>2, <2>1, GreatestOf
<1>4. /\ records' \in [1 .. MaxRecords -> Nat]
      /\ \A n \in 1 .. MaxRecords :
           records'[n] = IF n \in batch /\ records[n] = 0 THEN 1 ELSE records[n]
  BY <1>1, <1>2 DEF PageReceives, TakeNew
<1>5. TypeOK'
  <2>1. UNCHANGED <<length, follower, offset, statLen, pending, printed>>
    BY DEF PageReceives, tail
  <2>2. lastSeq' \in 0 .. MaxRecords
    BY <1>2, <1>3
  <2>3. poll' \in [Polls -> {Idle} \cup [phase : {"asked"}, since : 0 .. MaxRecords]
                               \cup [phase : {"answered"}, batch : SUBSET (1 .. MaxRecords)]]
    BY DEF PageReceives, ReadersInv, TypeOK
  <2> QED BY <1>4, <2>1, <2>2, <2>3 DEF ReadersInv, TypeOK
<1>6. PageShowsOnce'
  <2>1. \A n \in DOMAIN records' : records'[n] <= 1
    BY <1>2, <1>4 DEF ReadersInv, PageShowsOnce
  <2>2. ASSUME NEW n \in 1 .. lastSeq' PROVE records'[n] > 0 \/ n <= Written - Limit
    <3>1. n \in 1 .. MaxRecords
      BY <1>2, <1>3
    <3>2. CASE n <= lastSeq
      BY <1>2, <1>4, <3>1, <3>2 DEF ReadersInv, PageShowsOnce, MissesOnlyOld
    <3>3. CASE n > lastSeq
      <4>1. lastSeq' \in batch
        BY <1>2, <1>3, <3>3
      <4>2. n \in batch \/ n <= Written - Limit
        BY <1>1, <1>2, <3>3, <4>1 DEF BatchIsNewest
      <4> QED BY <1>2, <1>4, <3>1, <4>2
    <3> QED BY <1>2, <3>1, <3>2, <3>3
  <2> QED BY <1>2, <2>1, <2>2 DEF PageShowsOnce, MissesOnlyOld
<1>7. PollsAreNewest'
  <2>1. lastSeq <= lastSeq' /\ lastSeq \in Nat /\ lastSeq' \in Nat
    BY <1>2, <1>3
  <2>2. ASSUME NEW b \in SUBSET (1 .. MaxRecords), BatchIsNewest(b, lastSeq, Written)
        PROVE  BatchIsNewest(b, lastSeq', Written')
    BY <1>2, <2>1, <2>2 DEF BatchIsNewest
  <2>3. ASSUME NEW p \in Polls
        PROVE  /\ poll'[p].phase = "asked" => poll'[p].since <= lastSeq'
               /\ poll'[p].phase = "answered" => BatchIsNewest(poll'[p].batch, lastSeq', Written')
    <3>1. CASE p = q
      <4>1. poll'[p] = Idle
        BY <3>1 DEF PageReceives, ReadersInv, TypeOK
      <4> QED BY <4>1 DEF Idle
    <3>2. CASE p # q
      <4>1. poll'[p] = poll[p]
        BY <3>2 DEF PageReceives, ReadersInv, TypeOK
      <4>2. poll[p].phase = "asked" => poll[p].since \in Nat
        BY PollIs DEF ReadersInv
      <4>3. poll[p].phase = "answered" => poll[p].batch \in SUBSET (1 .. MaxRecords)
        BY PollIs DEF ReadersInv
      <4> QED BY <2>1, <2>2, <4>1, <4>2, <4>3 DEF ReadersInv, PollsAreNewest
    <3> QED BY <3>1, <3>2
  <2> QED BY <2>3 DEF PollsAreNewest
<1> QED BY <1>5, <1>6, <1>7

LEMMA PageMoves ==
  ASSUME ReadersInv, NEW q \in Polls, PageAsks(q) \/ ServerAnswers(q) \/ PageFails(q)
  PROVE  TypeOK' /\ PageShowsOnce' /\ PollsAreNewest'
<1>1. /\ UNCHANGED <<length, follower, offset, statLen, pending, printed, lastSeq, records>>
      /\ Written' = Written /\ Written \in 0 .. MaxRecords /\ lastSeq \in 0 .. MaxRecords
      /\ MaxRecords \in Nat /\ Limit \in Nat
  BY WrittenIs DEF ReadersInv, TypeOK, PageAsks, ServerAnswers, PageFails, tail, Written
<1>2. PICK s : /\ poll' = [poll EXCEPT ![q] = s]
               /\ \/ s = Idle
                  \/ s = Asked(lastSeq)
                  \/ s = AnsweredWith(Batch(poll[q].since)) /\ poll[q].phase = "asked"
  BY DEF PageAsks, ServerAnswers, PageFails
<1>3. /\ s \in {Idle} \cup [phase : {"asked"}, since : 0 .. MaxRecords]
                      \cup [phase : {"answered"}, batch : SUBSET (1 .. MaxRecords)]
      /\ s.phase = "asked" => s.since <= lastSeq
      /\ s.phase = "answered" => BatchIsNewest(s.batch, lastSeq, Written)
  <2>1. CASE s = Idle
    BY <2>1 DEF Idle
  <2>2. CASE s = Asked(lastSeq)
    BY <1>1, <2>2 DEF Asked
  <2>3. CASE s = AnsweredWith(Batch(poll[q].since)) /\ poll[q].phase = "asked"
    <3>1. PICK since \in 0 .. MaxRecords : since = poll[q].since /\ since <= lastSeq
      <4>1. poll[q].phase = "asked" => poll[q].since \in 0 .. MaxRecords
        BY PollIs DEF ReadersInv
      <4>2. poll[q].phase = "asked" => poll[q].since <= lastSeq
        BY DEF ReadersInv, PollsAreNewest
      <4> QED BY <2>3, <4>1, <4>2
    <3>2. PICK batch \in SUBSET (1 .. MaxRecords) : batch = Batch(since)
      <4>1. ASSUME NEW n \in Batch(since) PROVE n \in 1 .. MaxRecords
        BY <1>1, <4>1 DEF Batch
      <4> QED BY <4>1
    <3>3. BatchIsNewest(batch, lastSeq, Written)
      BY <1>1, <3>1, <3>2 DEF Batch, BatchIsNewest
    <3> QED BY <2>3, <3>1, <3>2, <3>3 DEF AnsweredWith
  <2> QED BY <1>2, <2>1, <2>2, <2>3
<1>4. TypeOK'
  BY <1>1, <1>2, <1>3 DEF ReadersInv, TypeOK
<1>5. PageShowsOnce'
  BY <1>1 DEF ReadersInv, PageShowsOnce, MissesOnlyOld
<1>6. \A p \in Polls : poll'[p] = s \/ poll'[p] = poll[p]
  BY <1>2 DEF ReadersInv, TypeOK
<1>7. PollsAreNewest'
  BY <1>1, <1>3, <1>6 DEF ReadersInv, PollsAreNewest
<1> QED BY <1>4, <1>5, <1>7

LEMMA TailMoves ==
  ASSUME ReadersInv, FileGrows \/ TailStarts \/ FollowStats \/ FollowReads \/ FollowFails
  PROVE  TypeOK' /\ NothingSkipped'
<1>1. /\ length \in Nat /\ offset \in 0 .. length /\ statLen \in 0 .. length /\ MaxRecords \in Nat
      /\ pending \in Seq(1 .. length) /\ printed \in Seq(1 .. length)
  BY LimitAssumption DEF ReadersInv, TypeOK
<1>2. CASE FileGrows
  <2>1. length' = length + 1 /\ length' \in 0 .. 3 * MaxRecords /\ UNCHANGED <<tail, page>>
    BY <1>1, <1>2 DEF FileGrows
  <2>2. pending \in Seq(1 .. length + 1) /\ printed \in Seq(1 .. length + 1)
    BY <1>1
  <2> QED BY <1>1, <2>1, <2>2 DEF ReadersInv, TypeOK, NothingSkipped, tail, page
<1>3. CASE TailStarts
  <2>1. printed' \in Seq(1 .. length) /\ Range(printed') = 1 .. length
    <3>1. Interval(1, length) \in Seq(1 .. length) /\ Range(Interval(1, length)) = 1 .. length
      <4>1. 1 \in Nat /\ 1 <= length + 1
        BY <1>1
      <4> QED BY <1>1, <4>1, IntervalIs
    <3> QED BY <1>3, <3>1 DEF TailStarts
  <2> QED BY <1>1, <1>3, <2>1 DEF ReadersInv, TypeOK, NothingSkipped, TailStarts, page
<1>4. CASE FollowStats
  BY <1>1, <1>4 DEF ReadersInv, TypeOK, NothingSkipped, FollowStats, page
<1>5. CASE FollowReads
  <2>1. PICK more \in Seq(1 .. length) : /\ more = Interval(offset + 1, length)
                                         /\ Range(more) = offset + 1 .. length
    <3>1. /\ Interval(offset + 1, length) \in Seq(offset + 1 .. length)
          /\ Range(Interval(offset + 1, length)) = offset + 1 .. length
      <4>1. offset + 1 \in Nat /\ offset + 1 <= length + 1
        BY <1>1
      <4> QED BY <1>1, <4>1, IntervalIs
    <3>2. Interval(offset + 1, length) \in Seq(1 .. length)
      BY <1>1, <3>1
    <3> QED BY <3>1, <3>2
  <2>2. PICK text \in Seq(1 .. length) : /\ text = pending \o more
                                         /\ Range(text) = Range(pending) \cup Range(more)
    BY <1>1, <2>1, RangeOfConcat
  <2>3. printed' = printed \o CompleteLines(text) /\ pending' = Remainder(text)
    BY <1>5, <2>1, <2>2 DEF FollowReads
  <2>4. /\ CompleteLines(text) \in Seq(1 .. length) /\ Remainder(text) \in Seq(1 .. length)
        /\ Range(text) \subseteq Range(CompleteLines(text)) \cup Range(Remainder(text))
    BY <2>2, NothingLost
  <2>5. printed' \in Seq(1 .. length) /\ Range(printed') = Range(printed) \cup Range(CompleteLines(text))
    BY <1>1, <2>3, <2>4, RangeOfConcat
  <2>6. 1 .. offset \subseteq Range(pending) \cup Range(printed)
    BY <1>5 DEF FollowReads, ReadersInv, NothingSkipped
  <2>7. 1 .. length \subseteq Range(pending') \cup Range(printed')
    BY <1>1, <2>1, <2>2, <2>3, <2>4, <2>5, <2>6
  <2>8. UNCHANGED <<length, statLen, lastSeq, poll, records>> /\ offset' = statLen /\ follower' = "polling"
    BY <1>5 DEF FollowReads, OffsetRead, page
  <2>9. NothingSkipped'
    BY <1>1, <2>7, <2>8 DEF NothingSkipped
  <2>10. TypeOK'
    BY <1>1, <2>3, <2>4, <2>5, <2>8 DEF ReadersInv, TypeOK
  <2> QED BY <2>9, <2>10
<1>6. CASE FollowFails
  BY <1>1, <1>6 DEF ReadersInv, TypeOK, NothingSkipped, FollowFails, page
<1> QED BY <1>2, <1>3, <1>4, <1>5, <1>6

LEMMA ReadersNext == ReadersInv /\ [Next]_vars => ReadersInv'
<1> SUFFICES ASSUME ReadersInv, [Next]_vars PROVE ReadersInv'
  OBVIOUS
<1>1. CASE FileGrows \/ TailStarts \/ FollowStats \/ FollowReads \/ FollowFails
  <2>1. UNCHANGED page /\ length' \in {length, length + 1} /\ length' <= 3 * MaxRecords
    BY <1>1, LimitAssumption
    DEF ReadersInv, TypeOK, FileGrows, TailStarts, FollowStats, FollowReads, FollowFails
  <2> QED BY <1>1, <2>1, TailMoves, PageWaits DEF ReadersInv
<1>2. ASSUME NEW q \in Polls, PageAsks(q) \/ ServerAnswers(q) \/ PageReceives(q) \/ PageFails(q)
      PROVE  ReadersInv'
  <2>1. NothingSkipped'
    BY <1>2 DEF ReadersInv, NothingSkipped, PageAsks, ServerAnswers, PageReceives, PageFails, tail
  <2> QED BY <1>2, <2>1, PageTakes, PageMoves DEF ReadersInv
<1>3. CASE UNCHANGED vars
  BY <1>3 DEF vars, tail, page, ReadersInv, TypeOK, NothingSkipped, PageShowsOnce, MissesOnlyOld,
              PollsAreNewest, Written
<1> QED BY <1>1, <1>2, <1>3 DEF Next

THEOREM ReadersAreSound == Spec => []ReadersInv
BY ReadersInit, ReadersNext, PTL DEF Spec

\* However the file grows between the length and the read, and however often a read fails,
\* whatever lies before the offset has been printed or waits for its newline (tail).
THEOREM TailSkipsNothing == Spec => []TailInv
<1>1. ReadersInv => TailInv
  BY DEF ReadersInv, TailInv
<1> QED BY <1>1, ReadersAreSound, PTL

\* With any number of polls under way, answered and received in any order, the page shows
\* each record once and misses only what the limit left out (poll, records_since).
THEOREM PageShowsAllOnce == Spec => []PageShowsOnce
<1>1. ReadersInv => PageShowsOnce
  BY DEF ReadersInv
<1> QED BY <1>1, ReadersAreSound, PTL
===============================================================================
