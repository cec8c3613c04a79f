---------------------------- MODULE LogStreamProofs ----------------------------
(***************************************************************************)
(* Theorems about LogStream, for any file size, number of archives, length *)
(* of pipe and tail, and any number of lines and failures: what rotation   *)
(* keeps of the lines and their order, and of which alerts the verdict is  *)
(* that an event is shown with.                                            *)
(***************************************************************************)
EXTENDS LogStream, SessionNames, TLAPS

(***************************************************************************)
(* The invariant of the files.  A file is appended to only while it is the *)
(* newest, so that the lines of all files, in the order of their creation, *)
(* are in the order they were printed; and a rotation drops the oldest of  *)
(* those that have a name, so that these are the newest ones.              *)
(***************************************************************************)
AlertKinds == {"deny", "ask", "other"}
Lines == [cid : Calls, kind : Kinds]

FilesTyped ==
  /\ printed \in Seq(Lines) /\ drained \in 0..Len(printed)
  /\ drain \in {"read", "rotate", "reopen", "write", "ended"}
  /\ (drain \in {"rotate", "reopen", "write"} => drained > 0)
  /\ inode \in Seq(Seq(Nat)) /\ Len(inode) > 0 /\ writer = Len(inode)
  /\ torn \subseteq 1..drained /\ (torn # {} => "write" \in failed)
  /\ path \in [Slots -> 0..Len(inode)]
  /\ failed \subseteq {"rename", "open", "write"} /\ faults \in 0..MaxFaults

LinesAscend ==
  /\ \A i \in DOMAIN inode : \A a \in DOMAIN inode[i] : inode[i][a] \in 1..Written
  /\ \A i \in DOMAIN inode : \A a, b \in DOMAIN inode[i] : a < b => inode[i][a] < inode[i][b]
  /\ \A i, j \in DOMAIN inode : i < j =>
       \A a \in DOMAIN inode[i], b \in DOMAIN inode[j] : inode[i][a] < inode[j][b]

NewestHaveNames ==
  /\ \A n, k \in Slots : n < k /\ path[k] # NoFile /\ path[n] # NoFile => path[k] < path[n]
  /\ \A n \in Slots : path[n] # NoFile =>
       \A j \in path[n]..Len(inode) : \E k \in Slots : path[k] = j
  /\ drain = "rotate" => path[0] # NoFile
  /\ drain = "reopen" => path[0] = NoFile

Lossless == failed \cap {"open", "write"} = {}

NoGap ==
  Lossless =>
    \A b \in 1..Written : \E i \in DOMAIN inode : \E a \in DOMAIN inode[i] : inode[i][a] = b

AllFull ==
  failed = {} =>
    /\ \A i \in DOMAIN inode : Len(inode[i]) <= MaxBytes
    /\ \A i \in DOMAIN inode : i < Len(inode) => Len(inode[i]) = MaxBytes
    /\ drain \in {"rotate", "reopen"} => Len(inode[Len(inode)]) = MaxBytes
    /\ drain = "write" => Len(inode[Len(inode)]) < MaxBytes
    /\ drain # "reopen" =>
         \A n \in Slots : path[n] = IF n < Len(inode) THEN Len(inode) - n ELSE NoFile
    /\ drain = "reopen" =>
         \A n \in Archives : path[n] = IF n <= Len(inode) THEN Len(inode) + 1 - n ELSE NoFile

FilesInv == FilesTyped /\ LinesAscend /\ NewestHaveNames /\ NoGap /\ AllFull

(***************************************************************************)
(* The invariant of the viewer: what is in flight for a call are the kinds *)
(* of the alerts delivered, on lines of their own, since the last such line *)
(* that ended an event of it.                                              *)
(***************************************************************************)
ViewerTyped ==
  /\ viewer \in [pc : {"off", "found", "reading", "done", "absent"}, follow : BOOLEAN,
                 file : 0..Len(inode), from : Nat, pos : Nat]
  /\ flight \in [Calls -> SUBSET AlertKinds]
  /\ blocks \in Seq([line : Nat, verdict : {"deny", "ask", "allow", "pass"}])
  /\ viewer.pc \in {"off", "found", "absent"} => viewer.file = NoFile
  /\ viewer.pc = "reading" => viewer.file # NoFile
  /\ viewer.file = NoFile => viewer.from = 0 /\ viewer.pos = 0 /\ blocks = <<>>
  /\ viewer.file # NoFile => viewer.from <= viewer.pos /\ viewer.pos <= Len(inode[viewer.file])

\* The engine prints an event's alerts and the line that ends it at once.
EventsAreWhole ==
  \A k \in 1..Len(printed) : \E n \in k..Len(printed) :
    Seen(n) /\ printed[n].cid = printed[k].cid /\ \A m \in k..n - 1 : ~Seen(m)

OfCall(c, k) == printed[k].cid = c
Pending(c) ==
  {k \in Delivered : /\ OfCall(c, k) /\ ~Seen(k)
                    /\ \A m \in Delivered : m > k => ~(OfCall(c, m) /\ Seen(m))}

FlightIsPending == \A c \in Calls : flight[c] = {printed[k].kind : k \in Pending(c)}

BlockIsRight(block) ==
  /\ Strictness[block.verdict] >= Strictness[Verdict(Given(block.line))]
  /\ Lossless => block.verdict = Verdict(Given(block.line))

BlocksAreRight ==
  \A n \in DOMAIN blocks :
    blocks[n].line \in Delivered /\ Seen(blocks[n].line) /\ BlockIsRight(blocks[n])

ViewerInv == ViewerTyped /\ EventsAreWhole /\ FlightIsPending /\ BlocksAreRight

StreamInv == FilesInv /\ ViewerInv

(***************************************************************************)
(* The files.                                                              *)
(***************************************************************************)
LEMMA FilesInit == Init => FilesInv
<1>1. SUFFICES ASSUME Init PROVE FilesInv
  OBVIOUS
<1>2. inode = << <<>> >> /\ Len(inode) = 1 /\ inode \in Seq(Seq(Nat)) /\ inode[1] = <<>>
  <2>1. <<>> \in Seq(Nat)
    OBVIOUS
  <2> QED BY <1>1, <2>1 DEF Init
<1>3. DOMAIN inode = {1} /\ DOMAIN inode[1] = {} /\ Len(inode[1]) = 0
  BY <1>2
<1>4. 0 \in Slots /\ Slots \subseteq Nat /\ \A n \in Slots : path[n] = IF n = 0 THEN 1 ELSE 0
  BY <1>1, LogAssumption DEF Init, Slots, NoFile
<1>5. FilesTyped
  <2>1. path \in [Slots -> 0..Len(inode)]
    BY <1>1, <1>2 DEF Init, NoFile
  <2>2. printed \in Seq(Lines) /\ drained \in 0..Len(printed)
    BY <1>1 DEF Init
  <2> QED BY <1>1, <1>2, <2>1, <2>2, LogAssumption DEF Init, FilesTyped
<1>6. LinesAscend
  BY <1>3 DEF LinesAscend
<1>7. NewestHaveNames
  <2>1. \A n \in Slots : path[n] # NoFile => path[n] = 1 /\ n = 0
    BY <1>4 DEF NoFile
  <2>2. \A j \in 1..Len(inode) : path[0] = j
    BY <1>2, <1>4
  <2>3. drain = "read"
    BY <1>1 DEF Init
  <2>4. \A n, k \in Slots : n < k => path[k] = NoFile
    BY <1>4 DEF NoFile
  <2>5. \A n \in Slots : path[n] # NoFile => \A j \in path[n]..Len(inode) : path[0] = j
    BY <2>1, <2>2
  <2> QED BY <1>4, <2>3, <2>4, <2>5 DEF NewestHaveNames
<1>8. NoGap
  <2>1. Written = 0
    BY <1>1 DEF Init, Written
  <2> QED BY <1>3, <2>1 DEF NoGap
<1>9. AllFull
  <2>1. \A n \in Slots : path[n] = IF n < Len(inode) THEN Len(inode) - n ELSE NoFile
    BY <1>2, <1>4 DEF NoFile
  <2> QED BY <1>1, <1>2, <1>3, <2>1, LogAssumption DEF Init, AllFull
<1> QED BY <1>5, <1>6, <1>7, <1>8, <1>9 DEF FilesInv

\* What the engine adds to the output, and that it adds it all at once.
LEMMA PrintedIs ==
  ASSUME NEW c \in Calls, EnginePrints(c), printed \in Seq(Lines)
  PROVE  /\ printed' \in Seq(Lines) /\ Len(printed') > Len(printed)
         /\ \A k \in 1..Len(printed) : printed'[k] = printed[k]
         /\ \A k \in Len(printed) + 1..Len(printed') :
              printed'[k].cid = c /\ (printed'[k].kind = "seen" <=> k = Len(printed'))
<1>1. PICK alerts \in AlertSeqs : printed' = printed \o LinesOf(c, Append(alerts, "seen"))
  BY DEF EnginePrints
<1>2. PICK kinds : kinds = Append(alerts, "seen")
  OBVIOUS
<1>3. /\ kinds \in Seq(Kinds) /\ Len(kinds) > 0
      /\ \A k \in 1..Len(kinds) : kinds[k] = "seen" <=> k = Len(kinds)
  <2>1. alerts \in Seq({"deny", "ask", "other"})
    BY LogAssumption
  <2>2. /\ Len(kinds) = Len(alerts) + 1 /\ kinds[Len(alerts) + 1] = "seen"
        /\ \A k \in 1..Len(alerts) : kinds[k] = alerts[k] /\ alerts[k] # "seen"
    BY <1>2, <2>1
  <2>3. alerts \in Seq(Kinds) /\ "seen" \in Kinds
    BY <2>1 DEF Kinds
  <2>4. kinds \in Seq(Kinds)
    BY <1>2, <2>3
  <2>5. Len(alerts) \in Nat
    BY <2>1
  <2> QED BY <2>2, <2>4, <2>5
<1>4. PICK more : more = LinesOf(c, kinds)
  OBVIOUS
<1>5. /\ more \in Seq(Lines) /\ Len(more) = Len(kinds)
      /\ \A k \in 1..Len(more) : more[k].cid = c /\ more[k].kind = kinds[k]
  <2>1. Len(kinds) \in Nat /\ \A k \in 1..Len(kinds) : kinds[k] \in Kinds
    BY <1>3
  <2>2. more = [n \in 1..Len(kinds) |-> [cid |-> c, kind |-> kinds[n]]]
    BY <1>4 DEF LinesOf
  <2>3. \A k \in 1..Len(kinds) : [cid |-> c, kind |-> kinds[k]] \in Lines
    BY <2>1 DEF Lines
  <2> QED BY <2>1, <2>2, <2>3
<1>6. printed' = printed \o more
  BY <1>1, <1>2, <1>4
<1>7. /\ printed' \in Seq(Lines) /\ Len(printed') = Len(printed) + Len(more)
      /\ \A k \in 1..Len(printed) : printed'[k] = printed[k]
      /\ \A k \in 1..Len(more) : printed'[Len(printed) + k] = more[k]
  BY <1>5, <1>6
<1>8. ASSUME NEW k \in Len(printed) + 1..Len(printed')
      PROVE  printed'[k].cid = c /\ (printed'[k].kind = "seen" <=> k = Len(printed'))
  <2>1. /\ Len(printed) \in Nat /\ Len(more) \in Nat
        /\ k - Len(printed) \in 1..Len(more) /\ k = Len(printed) + (k - Len(printed))
    BY <1>5, <1>7
  <2>2. PICK d \in 1..Len(more) : k = Len(printed) + d
    BY <2>1
  <2>3. printed'[k] = more[d]
    BY <1>7, <2>2
  <2>4. kinds[d] = "seen" <=> d = Len(more)
    BY <1>3, <1>5
  <2>5. d = Len(more) <=> k = Len(printed')
    BY <1>7, <2>1, <2>2
  <2> QED BY <1>5, <2>3, <2>4, <2>5
<1>9. Len(printed') > Len(printed)
  BY <1>3, <1>5, <1>7
<1> QED BY <1>7, <1>8, <1>9

LEMMA FilesStay ==
  ASSUME FilesInv, UNCHANGED <<drained, writer, inode, torn, path, failed, faults>>,
         printed' \in Seq(Lines), Len(printed') >= Len(printed),
         drain' = drain \/ (drain = "read" /\ drain' = "ended")
  PROVE  FilesInv' /\ Written' = Written
<1>1. Written' = Written
  BY DEF Written
<1>2. FilesTyped'
  BY DEF FilesInv, FilesTyped
<1>3. LinesAscend' /\ NoGap'
  BY <1>1 DEF FilesInv, LinesAscend, NoGap, Lossless
<1>4. NewestHaveNames'
  BY DEF FilesInv, NewestHaveNames
<1>5. AllFull'
  BY DEF FilesInv, AllFull
<1> QED BY <1>1, <1>2, <1>3, <1>4, <1>5 DEF FilesInv

LEMMA ReadKeepsFiles ==
  ASSUME FilesInv, DrainReads
  PROVE  FilesInv' /\ Written' = Written
<1>1. /\ drain = "read" /\ drained < Len(printed) /\ drained' = drained + 1
      /\ drain' = IF path[0] # NoFile /\ IsFull(path[0]) THEN "rotate" ELSE "write"
      /\ UNCHANGED <<printed, writer, inode, torn, path, failed, faults>>
  BY DEF DrainReads, files
<1>2. /\ drained \in Nat /\ Len(printed) \in Nat /\ Len(inode) \in Nat /\ Len(inode) > 0
      /\ 0 \in Slots
  BY LogAssumption DEF FilesInv, FilesTyped, Slots
<1>3. Written' = Written
  BY <1>1, <1>2 DEF Written
<1>4. FilesTyped'
  BY <1>1, <1>2 DEF FilesInv, FilesTyped
<1>5. LinesAscend' /\ NoGap'
  BY <1>1, <1>3 DEF FilesInv, LinesAscend, NoGap, Lossless
<1>6. NewestHaveNames'
  BY <1>1 DEF FilesInv, NewestHaveNames
<1>7. AllFull'
  <2>1. SUFFICES ASSUME failed = {} PROVE AllFull'
    BY <1>1 DEF AllFull
  <2>2. path[0] = Len(inode) /\ path[0] # NoFile /\ Len(inode[Len(inode)]) <= MaxBytes
    BY <1>1, <1>2, <2>1 DEF FilesInv, AllFull, NoFile
  <2>3. Len(inode[Len(inode)]) \in Nat /\ MaxBytes \in Nat
    BY <1>2, LogAssumption DEF FilesInv, FilesTyped
  <2>4. /\ drain' = "rotate" => Len(inode[Len(inode)]) = MaxBytes
        /\ drain' = "write" => Len(inode[Len(inode)]) < MaxBytes
        /\ drain' # "reopen"
    BY <1>1, <2>2, <2>3 DEF IsFull
  <2> QED BY <1>1, <2>1, <2>4 DEF FilesInv, AllFull
<1> QED BY <1>3, <1>4, <1>5, <1>6, <1>7 DEF FilesInv

\* Whichever names move up, the named files stay the newest and in order; a rotation
\* that succeeds moves all of them.
LEMMA ShiftKeeps ==
  ASSUME FilesTyped, NewestHaveNames, NEW k \in Slots, NEW moved, moved = Shifted(k)
  PROVE  /\ moved \in [Slots -> 0..Len(inode)]
         /\ \A n, j \in Slots : n < j /\ moved[j] # NoFile /\ moved[n] # NoFile => moved[j] < moved[n]
         /\ \A n \in Slots : moved[n] # NoFile =>
              \A j \in moved[n]..Len(inode) : \E q \in Slots : moved[q] = j
<1>1. /\ Keep \in Nat /\ Slots = 0..Keep /\ Len(inode) \in Nat
      /\ path \in [Slots -> 0..Len(inode)] /\ 0 \in 0..Len(inode)
  BY LogAssumption DEF Slots, FilesTyped
<1>2. \A n \in Slots : moved[n] = IF n < k THEN path[n] ELSE IF n = k THEN NoFile ELSE path[n - 1]
  BY DEF Shifted
<1>3. \A n \in Slots : n > k => n - 1 \in Slots
  BY <1>1
<1>4. moved \in [Slots -> 0..Len(inode)]
  <2>1. ASSUME NEW n \in Slots PROVE moved[n] \in 0..Len(inode)
    <3>1. CASE n < k
      BY <1>1, <1>2, <3>1
    <3>2. CASE n = k
      BY <1>1, <1>2, <3>2 DEF NoFile
    <3>3. CASE n > k
      <4>1. n - 1 \in Slots /\ ~(n < k) /\ n # k
        BY <1>1, <3>3
      <4>2. path[n - 1] \in 0..Len(inode)
        BY <1>1, <4>1
      <4> QED BY <1>2, <4>1, <4>2
    <3> QED BY <1>1, <3>1, <3>2, <3>3
  <2> QED BY <2>1 DEF Shifted
<1> DEFINE From(n) == IF n < k THEN n ELSE n - 1
<1>5. \A n \in Slots : moved[n] # NoFile =>
        n # k /\ From(n) \in Slots /\ From(n) < Keep /\ moved[n] = path[From(n)]
  BY <1>1, <1>2
<1>6. \A n, j \in Slots : n < j /\ n # k /\ j # k => From(n) < From(j)
  BY <1>1
<1>7. ASSUME NEW n \in Slots, NEW j \in Slots, n < j, moved[j] # NoFile, moved[n] # NoFile
      PROVE  moved[j] < moved[n]
  <2>1. From(n) < From(j)
    BY <1>5, <1>6, <1>7
  <2> QED BY <1>5, <1>7, <2>1 DEF NewestHaveNames
<1>8. ASSUME NEW n \in Slots, moved[n] # NoFile, NEW j \in moved[n]..Len(inode)
      PROVE  \E q \in Slots : moved[q] = j
  <2>1. From(n) \in Slots /\ From(n) < Keep /\ moved[n] = path[From(n)]
    BY <1>5, <1>8
  <2> HIDE DEF From
  <2>2. path[From(n)] # NoFile /\ j \in path[From(n)]..Len(inode)
    BY <1>8, <2>1
  <2>3. PICK q \in Slots : path[q] = j
    BY <2>1, <2>2 DEF NewestHaveNames
  <2>4. path[From(n)] \in Nat /\ j >= path[From(n)] /\ j \in Int /\ j # NoFile
    BY <1>1, <2>1, <2>2 DEF NoFile
  <2>5. q # Keep
    <3>1. SUFFICES ASSUME q = Keep PROVE FALSE
      OBVIOUS
    <3>2. path[Keep] < path[From(n)]
      BY <2>1, <2>2, <2>3, <2>4, <3>1 DEF NewestHaveNames
    <3> QED BY <2>3, <2>4, <3>1, <3>2
  <2>6. CASE q < k
    BY <1>2, <2>3, <2>6
  <2>7. CASE q >= k
    <3>1. q + 1 \in Slots /\ q + 1 > k /\ q + 1 - 1 = q
      BY <1>1, <2>5, <2>7
    <3>2. PICK m \in Slots : m > k /\ m - 1 = q
      BY <1>1, <3>1
    <3>3. ~(m < k) /\ m # k
      BY <1>1, <3>2
    <3>4. moved[m] = path[q]
      BY <1>2, <3>2, <3>3
    <3> QED BY <2>3, <3>4
  <2> QED BY <1>1, <2>6, <2>7
<1> QED BY <1>4, <1>7, <1>8

LEMMA RotateKeepsFiles ==
  ASSUME FilesInv, DrainRotates
  PROVE  FilesInv' /\ Written' = Written
<1>1. /\ drain = "rotate" /\ drain' \in {"reopen", "write"} /\ path[0] # NoFile
      /\ UNCHANGED <<printed, drained, writer, inode, torn>>
  BY DEF DrainRotates, FilesInv, NewestHaveNames
<1>2. Written' = Written
  BY <1>1 DEF Written
<1>3. /\ Keep \in Nat \ {0} /\ Slots = 0..Keep /\ Len(inode) \in Nat /\ Len(inode) > 0
      /\ path \in [Slots -> 0..Len(inode)] /\ Archives = 1..Keep
  BY LogAssumption DEF Slots, Archives, FilesInv, FilesTyped
<1>4. LinesAscend'
  BY <1>1, <1>2 DEF FilesInv, LinesAscend
<1>5. CASE /\ path' = [Shifted(1) EXCEPT ![0] = NoFile, ![1] = path[0]]
           /\ drain' = "reopen" /\ UNCHANGED <<failed, faults>>
  <2>1. path' = Shifted(0)
    <3>1. PICK one : one = Shifted(1)
      OBVIOUS
    <3>2. one = [n \in Slots |-> IF n < 1 THEN path[n] ELSE IF n = 1 THEN NoFile ELSE path[n - 1]]
      BY <3>1 DEF Shifted
    <3>3. path' = [one EXCEPT ![0] = NoFile, ![1] = path[0]]
      BY <1>5, <3>1
    <3>4. DOMAIN path' = Slots
      BY <3>2, <3>3
    <3>5. ASSUME NEW n \in Slots
          PROVE  path'[n] = IF n < 0 THEN path[n] ELSE IF n = 0 THEN NoFile ELSE path[n - 1]
      <4>1. 0 \in Slots /\ 1 \in Slots /\ n \in Nat
        BY <1>3
      <4>2. CASE n = 0
        BY <3>2, <3>3, <4>1, <4>2
      <4>3. CASE n = 1
        BY <3>2, <3>3, <4>1, <4>3
      <4>4. CASE n > 1
        <5>1. path'[n] = one[n] /\ ~(n < 1) /\ n # 1 /\ ~(n < 0) /\ n # 0
          BY <3>2, <3>3, <4>1, <4>4
        <5> QED BY <3>2, <5>1
      <4> QED BY <4>1, <4>2, <4>3, <4>4
    <3>6. path' = [n \in Slots |-> path'[n]]
      BY <3>2, <3>3
    <3> QED BY <3>5, <3>6 DEF Shifted
  <2>2. /\ path' \in [Slots -> 0..Len(inode)]
        /\ \A n, j \in Slots : n < j /\ path'[j] # NoFile /\ path'[n] # NoFile => path'[j] < path'[n]
        /\ \A n \in Slots : path'[n] # NoFile =>
             \A j \in path'[n]..Len(inode) : \E q \in Slots : path'[q] = j
    <3>1. 0 \in Slots /\ FilesTyped /\ NewestHaveNames
      BY <1>3 DEF FilesInv
    <3>2. PICK moved : moved = path'
      OBVIOUS
    <3>3. moved = Shifted(0)
      BY <2>1, <3>2
    <3>4. /\ moved \in [Slots -> 0..Len(inode)]
          /\ \A n, j \in Slots : n < j /\ moved[j] # NoFile /\ moved[n] # NoFile => moved[j] < moved[n]
          /\ \A n \in Slots : moved[n] # NoFile =>
               \A j \in moved[n]..Len(inode) : \E q \in Slots : moved[q] = j
      BY <3>1, <3>3, ShiftKeeps
    <3> QED BY <3>2, <3>4
  <2>3. path'[0] = NoFile /\ \A n \in Archives : path'[n] = path[n - 1] /\ n - 1 \in Slots
    BY <1>3, <2>1 DEF Shifted
  <2>4. FilesTyped'
    BY <1>1, <1>5, <2>2 DEF FilesInv, FilesTyped
  <2>5. NewestHaveNames'
    BY <1>1, <1>5, <2>2, <2>3 DEF NewestHaveNames
  <2>6. NoGap'
    BY <1>1, <1>2, <1>5 DEF FilesInv, NoGap, Lossless
  <2>7. AllFull'
    <3>1. SUFFICES ASSUME failed = {} PROVE AllFull'
      BY <1>5 DEF AllFull
    <3>2. ASSUME NEW n \in Archives
          PROVE  path'[n] = IF n <= Len(inode) THEN Len(inode) + 1 - n ELSE NoFile
      <4>1. path[n - 1] = IF n - 1 < Len(inode) THEN Len(inode) - (n - 1) ELSE NoFile
        BY <1>1, <1>3, <2>3, <3>1 DEF FilesInv, AllFull
      <4> QED BY <1>3, <2>3, <4>1
    <3> QED BY <1>1, <1>5, <3>1, <3>2 DEF FilesInv, AllFull
  <2> QED BY <1>2, <1>4, <2>4, <2>5, <2>6, <2>7 DEF FilesInv
<1>6. CASE /\ Fails("rename") /\ drain' = "write"
           /\ path' = path \/ \E k \in 1..Keep : path' = Shifted(k)
  <2>1. faults' \in 0..MaxFaults /\ failed' = failed \cup {"rename"}
    BY <1>6, LogAssumption DEF Fails, FilesInv, FilesTyped
  <2>2. /\ path' \in [Slots -> 0..Len(inode)]
        /\ \A n, j \in Slots : n < j /\ path'[j] # NoFile /\ path'[n] # NoFile => path'[j] < path'[n]
        /\ \A n \in Slots : path'[n] # NoFile =>
             \A j \in path'[n]..Len(inode) : \E q \in Slots : path'[q] = j
    <3>1. CASE path' = path
      BY <1>3, <3>1 DEF FilesInv, NewestHaveNames
    <3>2. CASE \E k \in 1..Keep : path' = Shifted(k)
      <4>1. PICK k \in 1..Keep : path' = Shifted(k)
        BY <3>2
      <4>2. k \in Slots
        BY <1>3
      <4> QED BY <4>1, <4>2, ShiftKeeps DEF FilesInv
    <3> QED BY <1>6, <3>1, <3>2
  <2>3. FilesTyped'
    BY <1>1, <1>6, <2>1, <2>2 DEF FilesInv, FilesTyped
  <2>4. NewestHaveNames'
    BY <1>1, <1>6, <2>2 DEF NewestHaveNames
  <2>5. NoGap'
    <3>1. Lossless' => Lossless
      BY <2>1 DEF Lossless
    <3> QED BY <1>1, <1>2, <3>1 DEF FilesInv, NoGap
  <2>6. AllFull'
    BY <2>1 DEF AllFull
  <2> QED BY <1>2, <1>4, <2>3, <2>4, <2>5, <2>6 DEF FilesInv
<1> QED BY <1>5, <1>6 DEF DrainRotates

\* A line that is not written, because the file cannot be opened or the disk is full.
LEMMA LostLineKeepsFiles ==
  ASSUME FilesInv, drain \in {"reopen", "write"}, drain' = "read",
         NEW operation \in {"open", "write"}, Fails(operation),
         UNCHANGED <<printed, drained, writer, inode, torn, path>>
  PROVE  FilesInv'
<1>1. faults' \in 0..MaxFaults /\ failed' = failed \cup {operation}
  BY LogAssumption DEF Fails, FilesInv, FilesTyped
<1>2. FilesTyped'
  BY <1>1 DEF FilesInv, FilesTyped
<1>3. LinesAscend'
  <2>1. 1..Written \subseteq 1..Written'
    BY DEF Written, FilesInv, FilesTyped
  <2>2. LinesAscend
    BY DEF FilesInv
  <2>3. \A i \in DOMAIN inode : \A a \in DOMAIN inode[i] : inode[i][a] \in 1..Written'
    BY <2>1, <2>2 DEF LinesAscend
  <2> QED BY <2>2, <2>3 DEF LinesAscend
<1>4. NewestHaveNames'
  BY DEF FilesInv, NewestHaveNames
<1>5. ~Lossless' /\ failed' # {}
  BY <1>1 DEF Lossless
<1> QED BY <1>2, <1>3, <1>4, <1>5 DEF FilesInv, NoGap, AllFull

LEMMA ReopenKeepsFiles ==
  ASSUME FilesInv, DrainReopens
  PROVE  FilesInv'
<1>1. /\ drain = "reopen" /\ path[0] = NoFile /\ UNCHANGED <<printed, drained>>
  BY DEF DrainReopens, FilesInv, NewestHaveNames
<1>2. CASE Fails("open") /\ drain' = NextLine /\ UNCHANGED files
  BY <1>1, <1>2, LostLineKeepsFiles DEF NextLine, files
<1>3. CASE /\ inode' = Append(inode, <<>>) /\ writer' = Len(inode')
           /\ path' = [path EXCEPT ![0] = writer'] /\ drain' = "write"
           /\ UNCHANGED <<torn, failed, faults>>
  <2> DEFINE N == Len(inode)
  <2>1. /\ Keep \in Nat \ {0} /\ Slots = 0..Keep /\ N \in Nat /\ N > 0 /\ DOMAIN inode = 1..N
        /\ path \in [Slots -> 0..N] /\ Archives = 1..Keep /\ inode \in Seq(Seq(Nat))
    BY LogAssumption DEF Slots, Archives, FilesInv, FilesTyped
  <2>2. /\ inode' \in Seq(Seq(Nat)) /\ Len(inode') = N + 1 /\ DOMAIN inode' = 1..N + 1
        /\ inode'[N + 1] = <<>> /\ \A i \in 1..N : inode'[i] = inode[i]
    <3>1. <<>> \in Seq(Nat)
      OBVIOUS
    <3> QED BY <1>3, <2>1, <3>1
  <2> HIDE DEF N
  <2>3. /\ path'[0] = N + 1 /\ \A n \in Slots : n # 0 => path'[n] = path[n]
        /\ path' \in [Slots -> 0..N + 1] /\ writer' = N + 1
    BY <1>3, <2>1, <2>2
  <2>4. Written' = Written
    BY <1>1, <1>3 DEF Written
  <2>5. FilesTyped'
    BY <1>1, <1>3, <2>1, <2>2, <2>3 DEF FilesInv, FilesTyped
  <2>6. DOMAIN inode'[N + 1] = {} /\ Len(inode'[N + 1]) = 0
    BY <2>2
  <2>7. \A i \in 1..N + 1 : i \in 1..N \/ i = N + 1
    BY <2>1
  <2>8. LinesAscend'
    <3>1. LinesAscend
      BY DEF FilesInv
    <3>2. \A i \in DOMAIN inode' : \A a \in DOMAIN inode'[i] : i \in DOMAIN inode /\ inode'[i] = inode[i]
      BY <2>1, <2>2, <2>6, <2>7
    <3> QED BY <2>4, <3>1, <3>2 DEF LinesAscend
  <2>9. NewestHaveNames'
    <3>1. ASSUME NEW n \in Slots, NEW k \in Slots, n < k, path'[k] # NoFile, path'[n] # NoFile
          PROVE  path'[k] < path'[n]
      <4>1. k # 0 /\ path'[k] = path[k] /\ path[k] \in 0..N
        BY <2>1, <2>3, <3>1
      <4>2. CASE n = 0
        BY <2>1, <2>3, <4>1, <4>2
      <4>3. CASE n # 0
        BY <2>3, <3>1, <4>1, <4>3 DEF FilesInv, NewestHaveNames
      <4> QED BY <4>2, <4>3
    <3>2. ASSUME NEW n \in Slots, path'[n] # NoFile, NEW j \in path'[n]..N + 1
          PROVE  \E k \in Slots : path'[k] = j
      <4>1. CASE j = N + 1
        BY <2>1, <2>3, <4>1
      <4>2. CASE j # N + 1
        <5>1. n # 0 /\ path'[n] = path[n] /\ j \in path[n]..N /\ path[n] \in 0..N
          BY <2>1, <2>3, <3>2, <4>2
        <5>2. PICK k \in Slots : path[k] = j
          BY <3>2, <5>1 DEF FilesInv, NewestHaveNames, N
        <5>3. k # 0
          BY <1>1, <3>2, <5>1, <5>2 DEF NoFile
        <5> QED BY <2>3, <5>2, <5>3
      <4> QED BY <4>1, <4>2
    <3> QED BY <1>3, <2>2, <3>1, <3>2 DEF NewestHaveNames
  <2>10. NoGap'
    <3>1. SUFFICES ASSUME Lossless
                   PROVE  \A b \in 1..Written' :
                            \E i \in DOMAIN inode' : \E a \in DOMAIN inode'[i] : inode'[i][a] = b
      BY <1>3 DEF NoGap, Lossless
    <3>2. \A i \in DOMAIN inode : i \in DOMAIN inode' /\ inode'[i] = inode[i]
      BY <2>1, <2>2
    <3> QED BY <2>4, <3>1, <3>2 DEF FilesInv, NoGap
  <2>11. AllFull'
    <3>1. SUFFICES ASSUME failed = {} PROVE AllFull'
      BY <1>3 DEF AllFull
    <3>2. /\ \A i \in 1..N : Len(inode[i]) = MaxBytes
          /\ \A n \in Archives : path[n] = IF n <= N THEN N + 1 - n ELSE NoFile
      <4>1. AllFull
        BY DEF FilesInv
      <4>2. /\ \A i \in DOMAIN inode : i < Len(inode) => Len(inode[i]) = MaxBytes
            /\ Len(inode[Len(inode)]) = MaxBytes
            /\ \A n \in Archives : path[n] = IF n <= Len(inode) THEN Len(inode) + 1 - n ELSE NoFile
        BY <1>1, <3>1, <4>1 DEF AllFull
      <4>3. \A i \in 1..N : i < N \/ i = N
        BY <2>1
      <4> QED BY <2>1, <4>2, <4>3 DEF N
    <3>3. \A n \in Slots : path'[n] = IF n < N + 1 THEN N + 1 - n ELSE NoFile
      <4>1. ASSUME NEW n \in Slots PROVE path'[n] = IF n < N + 1 THEN N + 1 - n ELSE NoFile
        <5>1. CASE n = 0
          BY <2>1, <2>3, <5>1
        <5>2. CASE n # 0
          <6>1. n \in Archives /\ path'[n] = path[n]
            BY <2>1, <2>3, <5>2
          <6> QED BY <2>1, <3>2, <6>1
        <5> QED BY <5>1, <5>2
      <4> QED BY <4>1
    <3>4. MaxBytes \in Nat /\ 0 < MaxBytes
      BY LogAssumption
    <3>5. /\ \A i \in 1..N + 1 : Len(inode'[i]) <= MaxBytes
          /\ \A i \in 1..N + 1 : i < N + 1 => Len(inode'[i]) = MaxBytes
      <4>1. \A i \in 1..N : Len(inode'[i]) = MaxBytes
        BY <2>2, <3>2
      <4>2. \A i \in 1..N : Len(inode'[i]) <= MaxBytes
        BY <3>4, <4>1
      <4>3. Len(inode'[N + 1]) <= MaxBytes /\ ~(N + 1 < N + 1)
        BY <2>1, <2>6, <3>4
      <4> QED BY <2>7, <4>1, <4>2, <4>3
    <3>6. drain' # "reopen" /\ drain' # "rotate" /\ drain' = "write" /\ failed' = {}
      BY <1>3, <3>1
    <3>7. /\ \A i \in DOMAIN inode' : Len(inode'[i]) <= MaxBytes
          /\ \A i \in DOMAIN inode' : i < Len(inode') => Len(inode'[i]) = MaxBytes
      BY <2>2, <3>5
    <3>8. Len(inode'[Len(inode')]) < MaxBytes
      BY <2>2, <2>6, <3>4
    <3>9. \A n \in Slots : path'[n] = IF n < Len(inode') THEN Len(inode') - n ELSE NoFile
      <4>1. ASSUME NEW n \in Slots
            PROVE  path'[n] = IF n < Len(inode') THEN Len(inode') - n ELSE NoFile
        <5>1. CASE n < N + 1
          BY <2>1, <2>2, <3>3, <5>1
        <5>2. CASE ~(n < N + 1)
          BY <2>2, <3>3, <5>2
        <5> QED BY <5>1, <5>2
      <4> QED BY <4>1
    <3> QED BY <3>6, <3>7, <3>8, <3>9 DEF AllFull
  <2> QED BY <2>5, <2>8, <2>9, <2>10, <2>11 DEF FilesInv
<1> QED BY <1>2, <1>3 DEF DrainReopens

LEMMA WriteKeepsFiles ==
  ASSUME FilesInv, DrainWrites
  PROVE  FilesInv'
<1>1. /\ drain = "write" /\ drain' = "read" /\ UNCHANGED <<printed, drained, writer, path>>
  BY DEF DrainWrites
<1>2. CASE Fails("write") /\ UNCHANGED <<inode, torn>>
  BY <1>1, <1>2, LostLineKeepsFiles
<1>3. ASSUME inode' = [inode EXCEPT ![writer] = Append(@, drained)],
             failed \subseteq failed', failed' \subseteq {"rename", "open", "write"},
             faults' \in 0..MaxFaults, torn' \subseteq torn \cup {drained},
             torn' = torn \/ "write" \in failed'
      PROVE  FilesInv'
  <2> DEFINE N == Len(inode)
             L == Len(inode[N])
  <2>1. /\ N \in Nat /\ N > 0 /\ DOMAIN inode = 1..N /\ inode \in Seq(Seq(Nat)) /\ writer = N
        /\ drained \in Nat /\ drained > 0 /\ inode[N] \in Seq(Nat) /\ L \in Nat /\ N \in 1..N
        /\ DOMAIN inode[N] = 1..L
    BY <1>1 DEF FilesInv, FilesTyped
  <2>2. /\ inode' \in Seq(Seq(Nat)) /\ Len(inode') = N /\ DOMAIN inode' = 1..N
        /\ inode'[N] = Append(inode[N], drained) /\ \A i \in 1..N : i # N => inode'[i] = inode[i]
    <3>1. PICK grown : grown = Append(inode[N], drained)
      OBVIOUS
    <3>2. grown \in Seq(Nat)
      BY <2>1, <3>1
    <3>3. inode' = [inode EXCEPT ![N] = grown]
      BY <1>3, <2>1, <3>1
    <3> HIDE DEF N
    <3>4. inode \in [1..N -> Seq(Nat)]
      BY <2>1
    <3>5. inode' \in [1..N -> Seq(Nat)]
      BY <3>2, <3>3, <3>4
    <3>6. inode' \in Seq(Seq(Nat)) /\ Len(inode') = N
      BY <2>1, <3>5
    <3>7. inode'[N] = grown /\ \A i \in 1..N : i # N => inode'[i] = inode[i]
      BY <2>1, <3>3, <3>4
    <3> QED BY <3>1, <3>5, <3>6, <3>7
  <2>3. /\ Len(inode'[N]) = L + 1 /\ DOMAIN inode'[N] = 1..L + 1 /\ inode'[N][L + 1] = drained
        /\ \A a \in 1..L : inode'[N][a] = inode[N][a]
    <3>1. PICK old : old = inode[N]
      OBVIOUS
    <3>2. old \in Seq(Nat) /\ Len(old) = L
      BY <2>1, <3>1
    <3>3. inode'[N] = Append(old, drained)
      BY <2>2, <3>1
    <3> HIDE DEF N, L
    <3> QED BY <2>1, <3>1, <3>2, <3>3
  <2>4. Written = drained - 1 /\ Written' = drained
    BY <1>1 DEF Written
  <2>5. LinesAscend
    BY DEF FilesInv
  <2> HIDE DEF N, L
  <2>6. FilesTyped'
    BY <1>1, <1>3, <2>2 DEF FilesInv, FilesTyped, N
  \* Where a line stands: in the last place of the newest file, or where it stood.
  <2>7. \A i \in 1..N : \A a \in DOMAIN inode'[i] :
          \/ i = N /\ a = L + 1 /\ inode'[i][a] = drained
          \/ a \in DOMAIN inode[i] /\ inode'[i][a] = inode[i][a] /\ (i = N => a <= L)
    <3>1. ASSUME NEW i \in 1..N, NEW a \in DOMAIN inode'[i]
          PROVE  \/ i = N /\ a = L + 1 /\ inode'[i][a] = drained
                 \/ a \in DOMAIN inode[i] /\ inode'[i][a] = inode[i][a] /\ (i = N => a <= L)
      <4>1. CASE i # N
        BY <2>2, <3>1, <4>1
      <4>2. CASE i = N
        <5>1. a \in 1..L + 1
          BY <2>3, <3>1, <4>2
        <5>2. CASE a = L + 1
          BY <2>3, <4>2, <5>2
        <5>3. CASE a # L + 1
          <6>1. a \in 1..L
            BY <2>1, <5>1, <5>3
          <6> QED BY <2>1, <2>3, <4>2, <6>1
        <5> QED BY <5>2, <5>3
      <4> QED BY <4>1, <4>2
    <3> QED BY <3>1
  <2>8. \A i \in 1..N : \A a \in DOMAIN inode[i] : inode[i][a] \in 1..drained - 1
    BY <2>1, <2>4, <2>5 DEF LinesAscend
  <2>9. LinesAscend'
    <3>1. ASSUME NEW i \in 1..N, NEW a \in DOMAIN inode'[i]
          PROVE  inode'[i][a] \in 1..drained
      <4>1. CASE inode'[i][a] = drained
        BY <2>1, <4>1
      <4>2. CASE a \in DOMAIN inode[i] /\ inode'[i][a] = inode[i][a]
        <5>1. inode'[i][a] \in 1..drained - 1
          BY <2>8, <4>2
        <5> QED BY <2>1, <5>1
      <4> QED BY <2>7, <4>1, <4>2
    <3>2. ASSUME NEW i \in 1..N, NEW a \in DOMAIN inode'[i], NEW b \in DOMAIN inode'[i], a < b
          PROVE  inode'[i][a] < inode'[i][b]
      <4>1. CASE i = N /\ b = L + 1 /\ inode'[i][b] = drained
        <5>1. a # L + 1
          BY <2>1, <3>2, <4>1
        <5>2. a \in DOMAIN inode[i] /\ inode'[i][a] = inode[i][a]
          BY <2>7, <3>2, <5>1
        <5>3. inode'[i][a] \in 1..drained - 1
          BY <2>8, <5>2
        <5> QED BY <2>1, <4>1, <5>3
      <4>2. CASE b \in DOMAIN inode[i] /\ inode'[i][b] = inode[i][b] /\ (i = N => b <= L)
        <5>1. a \in DOMAIN inode[i] /\ inode'[i][a] = inode[i][a]
          BY <2>1, <2>7, <3>2, <4>2
        <5> QED BY <2>1, <2>5, <3>2, <4>2, <5>1 DEF LinesAscend
      <4> QED BY <2>7, <3>2, <4>1, <4>2
    <3>3. ASSUME NEW i \in 1..N, NEW j \in 1..N, i < j,
                 NEW a \in DOMAIN inode'[i], NEW b \in DOMAIN inode'[j]
          PROVE  inode'[i][a] < inode'[j][b]
      <4>1. i # N /\ a \in DOMAIN inode[i] /\ inode'[i][a] = inode[i][a]
        BY <2>1, <2>2, <3>3
      <4>2. CASE inode'[j][b] = drained
        <5>1. inode'[i][a] \in 1..drained - 1
          BY <2>8, <4>1
        <5> QED BY <2>1, <4>2, <5>1
      <4>3. CASE b \in DOMAIN inode[j] /\ inode'[j][b] = inode[j][b]
        BY <2>1, <2>5, <3>3, <4>1, <4>3 DEF LinesAscend
      <4> QED BY <2>7, <3>3, <4>2, <4>3
    <3> QED BY <2>2, <2>4, <3>1, <3>2, <3>3 DEF LinesAscend
  <2>10. NewestHaveNames'
    <3>1. Len(inode') = Len(inode)
      BY <2>2 DEF N
    <3> QED BY <1>1, <3>1 DEF FilesInv, NewestHaveNames
  <2>11. NoGap'
    <3>1. CASE ~Lossless'
      BY <3>1 DEF NoGap
    <3>2. CASE Lossless
      <4>1. \A b \in 1..drained - 1 : \E i \in 1..N : \E a \in DOMAIN inode[i] : inode[i][a] = b
        BY <2>1, <2>4, <3>2 DEF FilesInv, NoGap
      <4>2. \A i \in 1..N : \A a \in DOMAIN inode[i] : a \in DOMAIN inode'[i] /\ inode'[i][a] = inode[i][a]
        <5>1. ASSUME NEW i \in 1..N, NEW a \in DOMAIN inode[i]
              PROVE  a \in DOMAIN inode'[i] /\ inode'[i][a] = inode[i][a]
          <6>1. CASE i # N
            BY <2>2, <5>1, <6>1
          <6>2. CASE i = N
            <7>1. a \in 1..L /\ a \in 1..L + 1
              BY <2>1, <5>1, <6>2
            <7> QED BY <2>3, <6>2, <7>1
          <6> QED BY <6>1, <6>2
        <5> QED BY <5>1
      <4>3. ASSUME NEW b \in 1..drained
            PROVE  \E i \in 1..N : \E a \in DOMAIN inode'[i] : inode'[i][a] = b
        <5>1. CASE b = drained
          <6>1. L + 1 \in DOMAIN inode'[N]
            BY <2>1, <2>3
          <6> QED BY <2>1, <2>3, <5>1, <6>1
        <5>2. CASE b # drained
          <6>1. b \in 1..drained - 1
            BY <2>1, <5>2
          <6> QED BY <4>1, <4>2, <6>1
        <5> QED BY <5>1, <5>2
      <4> QED BY <2>2, <2>4, <4>3 DEF NoGap
    <3>3. Lossless' => Lossless
      BY <1>3 DEF Lossless
    <3> QED BY <3>1, <3>2, <3>3
  <2>12. AllFull'
    <3>1. SUFFICES ASSUME failed = {} PROVE AllFull'
      BY <1>3 DEF AllFull
    <3>2. AllFull
      BY DEF FilesInv
    <3>3. /\ \A i \in 1..N : Len(inode[i]) <= MaxBytes
          /\ \A i \in 1..N : i < N => Len(inode[i]) = MaxBytes
          /\ L < MaxBytes
          /\ \A n \in Slots : path[n] = IF n < N THEN N - n ELSE NoFile
      BY <1>1, <2>1, <3>1, <3>2 DEF AllFull, N, L
    <3>4. L + 1 <= MaxBytes
      BY <2>1, <3>3, LogAssumption
    <3>5. \A i \in 1..N : Len(inode'[i]) <= MaxBytes
      BY <2>2, <2>3, <3>3, <3>4
    <3>6. \A i \in 1..N : i < N => Len(inode'[i]) = MaxBytes
      BY <2>1, <2>2, <3>3
    <3>7. drain' # "reopen" /\ drain' # "rotate" /\ drain' # "write" /\ path' = path
      BY <1>1
    <3> QED BY <2>2, <3>3, <3>5, <3>6, <3>7 DEF AllFull
  <2> QED BY <2>6, <2>9, <2>10, <2>11, <2>12 DEF FilesInv
<1>4. CASE Puts /\ UNCHANGED <<torn, failed, faults>>
  BY <1>3, <1>4 DEF Puts, FilesInv, FilesTyped
<1>5. CASE Fails("write") /\ Puts /\ torn' = torn \cup {drained}
  <2>1. faults' \in 0..MaxFaults /\ failed' = failed \cup {"write"}
    BY <1>5, LogAssumption DEF Fails, FilesInv, FilesTyped
  <2>2. failed' \subseteq {"rename", "open", "write"}
    BY <2>1 DEF FilesInv, FilesTyped
  <2> QED BY <1>3, <1>5, <2>1, <2>2 DEF Puts
<1> QED BY <1>2, <1>4, <1>5 DEF DrainWrites

(***************************************************************************)
(* The viewer.                                                             *)
(***************************************************************************)
\* A write that failed is why a line cannot be read.
LEMMA WholeUnlessFailed ==
  ASSUME FilesInv, Lossless, NEW i \in DOMAIN inode, NEW p \in DOMAIN inode[i]
  PROVE  IsWhole(i, p)
<1>1. torn = {}
  BY DEF FilesInv, FilesTyped, Lossless
<1> QED BY <1>1 DEF IsWhole, Begins

\* Only the line in hand is ever written in part, and it is in no file before.
LEMMA WholeStays ==
  ASSUME FilesInv, torn' = torn \/ (drain = "write" /\ torn' = torn \cup {drained}),
         \A i \in DOMAIN inode : /\ i \in DOMAIN inode'
                                 /\ \A a \in DOMAIN inode[i] : a \in DOMAIN inode'[i] /\ inode'[i][a] = inode[i][a]
  PROVE  \A i \in DOMAIN inode : \A a \in DOMAIN inode[i] : IsWhole(i, a)' <=> IsWhole(i, a)
<1>1. \A i \in DOMAIN inode : \A a \in DOMAIN inode[i] : inode[i][a] \in torn' <=> inode[i][a] \in torn
  <2>1. CASE torn' = torn
    BY <2>1
  <2>2. CASE drain = "write" /\ torn' = torn \cup {drained}
    <3>1. Written = drained - 1 /\ drained \in Nat
      BY <2>2 DEF Written, FilesInv, FilesTyped
    <3>2. \A i \in DOMAIN inode : \A a \in DOMAIN inode[i] : inode[i][a] \in 1..Written
      BY DEF FilesInv, LinesAscend
    <3>3. drained \notin 1..Written
      BY <3>1
    <3> QED BY <2>2, <3>2, <3>3
  <2> QED BY <2>1, <2>2
<1>2. ASSUME NEW i \in DOMAIN inode, NEW a \in DOMAIN inode[i]
      PROVE  IsWhole(i, a)' <=> IsWhole(i, a)
  <2>1. a \in Nat /\ (a > 1 => a - 1 \in DOMAIN inode[i])
    BY DEF FilesInv, FilesTyped
  <2>2. a \in DOMAIN inode'[i] /\ inode'[i][a] = inode[i][a] /\ (inode[i][a] \in torn' <=> inode[i][a] \in torn)
    BY <1>1
  <2>3. a > 1 => /\ inode'[i][a - 1] = inode[i][a - 1]
                 /\ inode[i][a - 1] \in torn' <=> inode[i][a - 1] \in torn
    BY <1>1, <2>1
  <2> QED BY <2>2, <2>3 DEF IsWhole, Begins
<1> QED BY <1>2

\* Nothing the viewer looks at changes: more output, and more lines in its file.
LEMMA DrainKeepsViewer ==
  ASSUME FilesInv, ViewerInv, FilesInv', UNCHANGED <<viewer, flight, blocks>>,
         Len(printed') >= Len(printed), \A k \in 1..Len(printed) : printed'[k] = printed[k],
         EventsAreWhole',
         Len(inode') >= Len(inode),
         \A i \in DOMAIN inode : /\ Len(inode'[i]) >= Len(inode[i])
                                 /\ \A a \in DOMAIN inode[i] : inode'[i][a] = inode[i][a],
         \A i \in DOMAIN inode : \A a \in DOMAIN inode[i] : IsWhole(i, a)' <=> IsWhole(i, a),
         Lossless' => Lossless
  PROVE  ViewerInv'
<1>1. /\ Len(inode) \in Nat /\ Len(inode') \in Nat /\ DOMAIN inode = 1..Len(inode)
      /\ \A i \in DOMAIN inode : DOMAIN inode[i] = 1..Len(inode[i]) /\ Len(inode[i]) \in Nat
      /\ Len(printed) \in Nat /\ drained \in 0..Len(printed)
  BY DEF FilesInv, FilesTyped
<1>2. ViewerTyped
  BY DEF ViewerInv
<1>3. viewer.file # NoFile => /\ viewer.file \in DOMAIN inode /\ Len(inode'[viewer.file]) \in Nat
                              /\ Len(inode'[viewer.file]) >= Len(inode[viewer.file])
  <2>1. \A i \in DOMAIN inode' : Len(inode'[i]) \in Nat
    BY DEF FilesInv, FilesTyped
  <2>2. viewer.file \in 0..Len(inode)
    BY <1>2 DEF ViewerTyped
  <2>3. DOMAIN inode' = 1..Len(inode')
    BY DEF FilesInv, FilesTyped
  <2>4. viewer.file # NoFile => viewer.file \in DOMAIN inode /\ viewer.file \in DOMAIN inode'
    BY <1>1, <2>2, <2>3 DEF NoFile
  <2> QED BY <2>1, <2>4
<1>4. ViewerTyped'
  <2>1. viewer.file \in 0..Len(inode')
    BY <1>1, <1>2 DEF ViewerTyped
  <2>2. viewer.file # NoFile => viewer.pos <= Len(inode'[viewer.file])
    BY <1>1, <1>2, <1>3 DEF ViewerTyped
  <2> QED BY <1>2, <2>1, <2>2 DEF ViewerTyped
<1>5. /\ Delivered' = Delivered
      /\ \A k \in Delivered : k \in 1..Len(printed) /\ printed'[k] = printed[k]
  <2>1. ASSUME NEW p \in viewer.from + 1..viewer.pos
        PROVE  /\ inode'[viewer.file][p] = inode[viewer.file][p]
               /\ IsWhole(viewer.file, p)' <=> IsWhole(viewer.file, p)
               /\ inode[viewer.file][p] \in 1..Len(printed)
    <3>1. viewer.file # NoFile
      BY <1>2, <2>1 DEF ViewerTyped
    <3>2. viewer.file \in DOMAIN inode /\ p \in DOMAIN inode[viewer.file]
      BY <1>1, <1>2, <1>3, <2>1, <3>1 DEF ViewerTyped
    <3>3. inode[viewer.file][p] \in 1..Written
      BY <3>2 DEF FilesInv, LinesAscend
    <3>4. Written <= Len(printed) /\ Written \in Int
      BY <1>1 DEF Written
    <3>5. IsWhole(viewer.file, p)' <=> IsWhole(viewer.file, p)
      BY <3>2 DEF IsWhole, Begins
    <3> QED BY <1>1, <3>2, <3>3, <3>4, <3>5
  <2>2. Delivered' = Delivered
    BY <2>1 DEF Delivered
  <2> QED BY <2>1, <2>2 DEF Delivered
<1>6. \A k \in Delivered : (Seen(k))' = Seen(k) /\ \A c \in Calls : (OfCall(c, k))' = OfCall(c, k)
  BY <1>5 DEF Seen, OfCall
<1>7. FlightIsPending'
  <2>1. \A c \in Calls : Pending(c)' = Pending(c)
    BY <1>5, <1>6 DEF Pending
  <2>2. \A c \in Calls : Pending(c) \subseteq Delivered
    BY DEF Pending
  <2> QED BY <1>5, <2>1, <2>2 DEF ViewerInv, FlightIsPending
<1>8. BlocksAreRight'
  <2>1. ASSUME NEW n \in Delivered PROVE Given(n)' = Given(n)
    <3>1. n \in 1..Len(printed)
      BY <1>5
    <3>2. \A m \in 1..n - 1 : printed'[m] = printed[m]
      BY <1>1, <3>1
    <3>3. AlertsOf(n)' = AlertsOf(n)
      <4>1. \A k \in 1..n - 1 : \A m \in k..n - 1 : m \in 1..n - 1
        BY <1>1, <3>1
      <4>2. \A m \in 1..n - 1 : Seen(m)' <=> Seen(m)
        BY <3>2 DEF Seen
      <4>3. AlertsOf(n)' = {k \in 1..n - 1 : \A m \in k..n - 1 : ~Seen(m)'}
        BY DEF AlertsOf
      <4> HIDE DEF Seen
      <4> QED BY <4>1, <4>2, <4>3, Zenon DEF AlertsOf
    <3> QED BY <1>5, <3>3 DEF Given
  <2>2. ASSUME NEW n \in DOMAIN blocks
        PROVE  (blocks[n].line \in Delivered /\ Seen(blocks[n].line) /\ BlockIsRight(blocks[n]))'
    <3>1. blocks[n].line \in Delivered /\ Seen(blocks[n].line) /\ BlockIsRight(blocks[n])
      BY DEF ViewerInv, BlocksAreRight
    <3> QED BY <1>5, <1>6, <2>1, <3>1 DEF BlockIsRight
  <2> QED BY <2>2 DEF BlocksAreRight
<1> QED BY <1>4, <1>7, <1>8 DEF ViewerInv

LEMMA StricterWithMore ==
  ASSUME NEW more \in SUBSET AlertKinds, NEW alerts \in SUBSET more
  PROVE  /\ Strictness[Verdict(more)] >= Strictness[Verdict(alerts)]
         /\ Verdict(more) \in {"deny", "ask", "allow", "pass"}
<1>1. /\ Strictness["pass"] = 0 /\ Strictness["allow"] = 1
      /\ Strictness["ask"] = 2 /\ Strictness["deny"] = 3
  BY DEF Strictness
<1>2. CASE "deny" \in more
  <2>1. Verdict(more) = "deny" /\ Verdict(alerts) \in {"deny", "ask", "allow", "pass"}
    BY <1>2 DEF Verdict
  <2> QED BY <1>1, <2>1
<1>3. CASE "deny" \notin more /\ "ask" \in more
  <2>1. Verdict(more) = "ask" /\ Verdict(alerts) \in {"ask", "allow", "pass"}
    BY <1>3 DEF Verdict
  <2> QED BY <1>1, <2>1
<1>4. CASE "deny" \notin more /\ "ask" \notin more /\ more # {}
  <2>1. Verdict(more) = "allow" /\ Verdict(alerts) \in {"allow", "pass"}
    BY <1>4 DEF Verdict
  <2> QED BY <1>1, <2>1
<1>5. CASE more = {}
  <2>1. Verdict(more) = "pass" /\ alerts = more
    BY <1>5 DEF Verdict
  <2> QED BY <1>1, <2>1
<1> QED BY <1>2, <1>3, <1>4, <1>5

\* The next line of the viewer's file.
LEMMA NextLineIs ==
  ASSUME FilesInv, ViewerInv, ViewerReads, NEW n, n = inode[viewer.file][viewer.pos + 1]
  PROVE  /\ viewer.file \in DOMAIN inode /\ viewer.pos + 1 \in DOMAIN inode[viewer.file]
         /\ n \in 1..Len(printed) /\ printed[n] \in Lines
         /\ \A k \in Delivered : k \in 1..Len(printed) /\ k < n
         /\ viewer' = [viewer EXCEPT !.pos = viewer.pos + 1]
         /\ IsWhole(viewer.file, viewer.pos + 1) => Delivered' = Delivered \cup {n}
         /\ ~IsWhole(viewer.file, viewer.pos + 1) => Delivered' = Delivered
<1>1. /\ viewer.file \in DOMAIN inode /\ viewer.from \in Nat /\ viewer.pos \in Nat
      /\ viewer.from <= viewer.pos /\ viewer.pos < Len(inode[viewer.file])
      /\ inode[viewer.file] \in Seq(Nat)
  BY DEF FilesInv, FilesTyped, ViewerInv, ViewerTyped, ViewerReads, NoFile
<1>2. /\ DOMAIN inode[viewer.file] = 1..Len(inode[viewer.file]) /\ Len(inode[viewer.file]) \in Nat
      /\ viewer.pos + 1 \in DOMAIN inode[viewer.file]
  BY <1>1
<1>3. Written <= Len(printed) /\ Written \in Int /\ Len(printed) \in Nat
  BY DEF FilesInv, FilesTyped, Written
<1>4. \A p \in DOMAIN inode[viewer.file] : inode[viewer.file][p] \in 1..Len(printed)
  <2>1. \A p \in DOMAIN inode[viewer.file] : inode[viewer.file][p] \in 1..Written
    BY <1>1 DEF FilesInv, LinesAscend
  <2> QED BY <1>3, <2>1
<1>5. printed[n] \in Lines
  BY <1>2, <1>4 DEF FilesInv, FilesTyped
<1>6. ASSUME NEW p \in viewer.from + 1..viewer.pos
      PROVE  p \in DOMAIN inode[viewer.file] /\ inode[viewer.file][p] < n
  <2>1. p \in DOMAIN inode[viewer.file] /\ p < viewer.pos + 1
    BY <1>1, <1>2
  <2> QED BY <1>1, <1>2, <2>1 DEF FilesInv, LinesAscend
<1>7. viewer' = [viewer EXCEPT !.pos = viewer.pos + 1] /\ inode' = inode /\ torn' = torn
  BY DEF ViewerReads, files
<1>8. viewer'.file = viewer.file /\ viewer'.from = viewer.from /\ viewer'.pos = viewer.pos + 1
  BY <1>7 DEF ViewerInv, ViewerTyped
<1>9. /\ IsWhole(viewer.file, viewer.pos + 1) => Delivered' = Delivered \cup {n}
      /\ ~IsWhole(viewer.file, viewer.pos + 1) => Delivered' = Delivered
  <2>1. viewer.from + 1..viewer.pos + 1 = (viewer.from + 1..viewer.pos) \cup {viewer.pos + 1}
    BY <1>1
  <2>2. \A p : IsWhole(viewer.file, p)' <=> IsWhole(viewer.file, p)
    BY <1>7, <1>8 DEF IsWhole, Begins
  <2>3. Delivered' = {inode[viewer.file][p] :
                        p \in {q \in viewer.from + 1..viewer.pos + 1 : IsWhole(viewer.file, q)}}
    BY <1>7, <1>8, <2>2 DEF Delivered
  <2> QED BY <2>1, <2>3 DEF Delivered
<1> QED BY <1>1, <1>2, <1>4, <1>5, <1>6, <1>7, <1>9 DEF Delivered

LEMMA ViewerInit == Init => ViewerInv
<1>1. SUFFICES ASSUME Init PROVE ViewerInv
  OBVIOUS
<1>2. viewer = ViewerOff /\ viewer.file = 0 /\ viewer.from = 0 /\ viewer.pos = 0 /\ viewer.pc = "off"
  BY <1>1 DEF Init, ViewerOff, NoFile
<1>3. Len(inode) = 1 /\ blocks = <<>> /\ flight = [c \in Calls |-> {}] /\ printed = <<>>
  BY <1>1 DEF Init
<1>4. ViewerTyped
  <2>1. viewer \in [pc : {"off", "found", "reading", "done", "absent"}, follow : BOOLEAN,
                   file : 0..Len(inode), from : Nat, pos : Nat]
    BY <1>2, <1>3 DEF ViewerOff, NoFile
  <2>2. flight \in [Calls -> SUBSET AlertKinds]
    BY <1>3
  <2> QED BY <1>2, <1>3, <2>1, <2>2 DEF ViewerTyped, NoFile
<1>5. EventsAreWhole
  BY <1>3 DEF EventsAreWhole
<1>6. Delivered = {}
  BY <1>2 DEF Delivered
<1>7. FlightIsPending
  BY <1>3, <1>6 DEF FlightIsPending, Pending
<1>8. BlocksAreRight
  BY <1>3 DEF BlocksAreRight
<1> QED BY <1>4, <1>5, <1>7, <1>8 DEF ViewerInv

LEMMA PrintedKeepsEvents ==
  ASSUME NEW c \in Calls, EnginePrints(c), printed \in Seq(Lines), EventsAreWhole
  PROVE  EventsAreWhole'
<1>1. /\ printed' \in Seq(Lines) /\ Len(printed') > Len(printed)
      /\ \A k \in 1..Len(printed) : printed'[k] = printed[k]
      /\ \A k \in Len(printed) + 1..Len(printed') :
           printed'[k].cid = c /\ (printed'[k].kind = "seen" <=> k = Len(printed'))
  BY PrintedIs
<1>2. Len(printed) \in Nat /\ Len(printed') \in Nat
  BY <1>1
<1>3. ASSUME NEW k \in 1..Len(printed')
      PROVE  \E n \in k..Len(printed') :
               Seen(n)' /\ printed'[n].cid = printed'[k].cid /\ \A m \in k..n - 1 : ~Seen(m)'
  <2>1. CASE k <= Len(printed)
    <3>1. k \in 1..Len(printed)
      BY <1>2, <2>1
    <3>2. PICK n \in k..Len(printed) :
            Seen(n) /\ printed[n].cid = printed[k].cid /\ \A m \in k..n - 1 : ~Seen(m)
      BY <3>1 DEF EventsAreWhole
    <3>3. n \in 1..Len(printed) /\ n \in k..Len(printed') /\ \A m \in k..n - 1 : m \in 1..Len(printed)
      BY <1>1, <1>2, <3>1, <3>2
    <3>4. Seen(n)' /\ printed'[n].cid = printed'[k].cid /\ \A m \in k..n - 1 : ~Seen(m)'
      BY <1>1, <3>1, <3>2, <3>3 DEF Seen
    <3> QED BY <3>3, <3>4
  <2>2. CASE k > Len(printed)
    <3>1. PICK last : last = Len(printed')
      OBVIOUS
    <3>2. /\ k \in Len(printed) + 1..Len(printed') /\ last \in k..Len(printed')
          /\ last \in Len(printed) + 1..Len(printed')
          /\ \A m \in k..last - 1 : m \in Len(printed) + 1..Len(printed') /\ m # last
      BY <1>1, <1>2, <2>2, <3>1
    <3>3. printed'[last].kind = "seen" /\ printed'[last].cid = c /\ printed'[k].cid = c
      BY <1>1, <3>1, <3>2
    <3>4. \A m \in k..last - 1 : printed'[m].kind # "seen"
      BY <1>1, <3>1, <3>2
    <3> QED BY <3>2, <3>3, <3>4 DEF Seen
  <2> QED BY <1>2, <2>1, <2>2
<1> QED BY <1>3 DEF EventsAreWhole

\* Tail is where it was, or has opened a file and delivered nothing of it.
LEMMA MoveKeepsViewer ==
  ASSUME FilesInv, ViewerInv, ViewerTyped', UNCHANGED <<printed, inode, failed, flight, blocks>>,
         Delivered' = Delivered
  PROVE  ViewerInv'
<1>1. EventsAreWhole'
  BY DEF ViewerInv, EventsAreWhole, Seen
<1>2. \A c \in Calls : Pending(c)' = Pending(c)
  BY DEF Pending, OfCall, Seen
<1>3. FlightIsPending'
  BY <1>2 DEF ViewerInv, FlightIsPending
<1>4. ASSUME NEW n PROVE Given(n)' = Given(n)
  BY DEF Given, AlertsOf, Seen
<1>5. ASSUME NEW n \in DOMAIN blocks
      PROVE  (blocks[n].line \in Delivered /\ Seen(blocks[n].line) /\ BlockIsRight(blocks[n]))'
  <2>1. blocks[n].line \in Delivered /\ Seen(blocks[n].line) /\ BlockIsRight(blocks[n])
    BY DEF ViewerInv, BlocksAreRight
  <2> QED BY <1>4, <2>1 DEF BlockIsRight, Seen, Lossless
<1>6. BlocksAreRight'
  BY <1>5 DEF BlocksAreRight
<1> QED BY <1>1, <1>3, <1>6 DEF ViewerInv

LEMMA LookKeepsViewer ==
  ASSUME FilesInv, ViewerInv, ViewerLooks \/ TailOpens \/ ViewerEnds
  PROVE  ViewerInv'
<1>1. UNCHANGED <<printed, drained, drain, writer, inode, torn, path, failed, faults, flight, blocks>>
  BY DEF ViewerLooks, TailOpens, ViewerEnds, files
<1>2. ViewerTyped
  BY DEF ViewerInv
<1>3. CASE ViewerLooks
  <2>1. PICK follow \in BOOLEAN :
          viewer' = [viewer EXCEPT !.pc = IF path[0] = NoFile THEN "absent" ELSE "found",
                                   !.follow = follow /\ path[0] # NoFile]
    BY <1>3 DEF ViewerLooks
  <2>2. viewer.pc = "off" /\ (follow /\ path[0] # NoFile) \in BOOLEAN
    BY <1>3 DEF ViewerLooks
  <2>3. PICK following \in BOOLEAN, pc \in {"absent", "found"} :
          viewer' = [viewer EXCEPT !.pc = pc, !.follow = following]
    <3>1. CASE path[0] = NoFile
      BY <2>1, <2>2, <3>1
    <3>2. CASE path[0] # NoFile
      BY <2>1, <2>2, <3>2
    <3> QED BY <3>1, <3>2
  <2>4. /\ viewer'.file = viewer.file /\ viewer'.from = viewer.from /\ viewer'.pos = viewer.pos
        /\ viewer'.pc = pc
        /\ viewer' \in [pc : {"off", "found", "reading", "done", "absent"}, follow : BOOLEAN,
                        file : 0..Len(inode), from : Nat, pos : Nat]
    BY <1>2, <2>3 DEF ViewerTyped
  <2>5. ViewerTyped'
    BY <1>1, <1>2, <2>2, <2>4 DEF ViewerTyped
  <2>6. Delivered' = Delivered
    BY <1>1, <2>4 DEF Delivered, IsWhole, Begins
  <2> QED BY <1>1, <2>5, <2>6, MoveKeepsViewer
<1>4. CASE ViewerEnds
  <2>1. viewer.pc = "reading" /\ viewer' = [viewer EXCEPT !.pc = "done"]
    BY <1>4 DEF ViewerEnds
  <2>2. /\ viewer'.file = viewer.file /\ viewer'.from = viewer.from /\ viewer'.pos = viewer.pos
        /\ viewer'.pc = "done"
        /\ viewer' \in [pc : {"off", "found", "reading", "done", "absent"}, follow : BOOLEAN,
                        file : 0..Len(inode), from : Nat, pos : Nat]
    BY <1>2, <2>1 DEF ViewerTyped
  <2>3. ViewerTyped'
    BY <1>1, <1>2, <2>1, <2>2 DEF ViewerTyped
  <2>4. Delivered' = Delivered
    BY <1>1, <2>2 DEF Delivered, IsWhole, Begins
  <2> QED BY <1>1, <2>3, <2>4, MoveKeepsViewer
<1>5. CASE TailOpens
  <2>1. /\ viewer.pc = "found" /\ viewer.file = NoFile /\ viewer.from = 0 /\ viewer.pos = 0
        /\ blocks = <<>>
    BY <1>2, <1>5 DEF TailOpens, ViewerTyped
  <2>2. Delivered = {}
    BY <2>1 DEF Delivered
  <2>3. path[0] \in 0..Len(inode) /\ Len(inode) \in Nat
    BY LogAssumption DEF FilesInv, FilesTyped, Slots
  <2>4. CASE path[0] = NoFile
    <3>1. viewer' = [ViewerOff EXCEPT !.pc = "absent"]
      BY <1>5, <2>4 DEF TailOpens
    <3>2. /\ viewer'.file = 0 /\ viewer'.from = 0 /\ viewer'.pos = 0 /\ viewer'.pc = "absent"
          /\ viewer' \in [pc : {"off", "found", "reading", "done", "absent"}, follow : BOOLEAN,
                          file : 0..Len(inode), from : Nat, pos : Nat]
      <4>1. viewer' = [pc |-> "absent", follow |-> FALSE, file |-> 0, from |-> 0, pos |-> 0]
        BY <3>1 DEF ViewerOff, NoFile
      <4>2. 0 \in 0..Len(inode) /\ 0 \in Nat /\ FALSE \in BOOLEAN
        BY <2>3
      <4> QED BY <4>1, <4>2
    <3>3. ViewerTyped'
      BY <1>1, <1>2, <2>1, <3>2 DEF ViewerTyped, NoFile
    <3>4. Delivered' = {}
      BY <3>2 DEF Delivered
    <3> QED BY <1>1, <2>2, <3>3, <3>4, MoveKeepsViewer
  <2>5. CASE path[0] # NoFile
    <3>1. PICK size : size = Len(inode[path[0]])
      OBVIOUS
    <3>2. size \in Nat
      BY <2>3, <2>5, <3>1 DEF FilesInv, FilesTyped, NoFile
    <3>3. PICK start \in 0..size :
            viewer' = [viewer EXCEPT !.pc = "reading", !.file = path[0], !.from = start, !.pos = start]
      BY <1>5, <2>5, <3>1 DEF TailOpens
    <3>4. start \in Nat /\ start <= size
      BY <3>2, <3>3
    <3>5. viewer' = [viewer EXCEPT !.pc = "reading", !.file = path[0], !.from = start, !.pos = start]
      BY <3>3
    <3>6. /\ viewer'.file = path[0] /\ viewer'.from = start /\ viewer'.pos = start
          /\ viewer'.pc = "reading"
          /\ viewer' \in [pc : {"off", "found", "reading", "done", "absent"}, follow : BOOLEAN,
                          file : 0..Len(inode), from : Nat, pos : Nat]
      BY <1>2, <2>3, <3>4, <3>5 DEF ViewerTyped
    <3>7. ViewerTyped'
      BY <1>1, <1>2, <2>5, <3>1, <3>4, <3>6 DEF ViewerTyped
    <3>8. Delivered' = {}
      BY <3>4, <3>6 DEF Delivered
    <3> QED BY <1>1, <2>2, <3>7, <3>8, MoveKeepsViewer
  <2> QED BY <2>4, <2>5
<1> QED BY <1>3, <1>4, <1>5

\* What tail has not delivered of a call before line n is no part of its event.
LEMMA FlightIsGiven ==
  ASSUME FilesInv, ViewerInv, ViewerReads, NEW n, n = inode[viewer.file][viewer.pos + 1], Seen(n)
  PROVE  /\ Given(n) \subseteq flight[printed[n].cid]
         /\ Lossless => Given(n) = flight[printed[n].cid]
<1>1. /\ viewer.file \in DOMAIN inode /\ viewer.pos + 1 \in DOMAIN inode[viewer.file]
      /\ n \in 1..Len(printed) /\ printed[n] \in Lines
      /\ \A k \in Delivered : k \in 1..Len(printed) /\ k < n
  BY NextLineIs
<1>2. PICK c \in Calls : c = printed[n].cid
  BY <1>1 DEF Lines
<1>3. flight[c] = {printed[k].kind : k \in Pending(c)}
  BY DEF ViewerInv, FlightIsPending
<1>4. Len(printed) \in Nat /\ n \in Nat /\ Delivered \subseteq Nat
  BY <1>1 DEF FilesInv, FilesTyped
<1>5. ASSUME NEW k \in Delivered
      PROVE  \E e \in k..Len(printed) :
               Seen(e) /\ printed[e].cid = printed[k].cid /\ \A m \in k..e - 1 : ~Seen(m)
  BY <1>1 DEF ViewerInv, EventsAreWhole
<1>6. ASSUME NEW k \in AlertsOf(n) \cap Delivered PROVE k \in Pending(c)
  <2>1. k \in Delivered /\ k < n /\ k \in Nat /\ \A m \in k..n - 1 : ~Seen(m)
    BY <1>1, <1>4 DEF AlertsOf
  <2>2. PICK e \in k..Len(printed) :
          Seen(e) /\ printed[e].cid = printed[k].cid /\ \A m \in k..e - 1 : ~Seen(m)
    BY <1>5, <2>1
  <2>3. e = n
    <3>1. ~(e < n)
      BY <1>4, <2>1, <2>2
    <3>2. ~(n < e)
      BY <1>4, <2>1, <2>2
    <3> QED BY <1>4, <2>2, <3>1, <3>2
  <2>4. OfCall(c, k)
    BY <1>2, <2>2, <2>3 DEF OfCall
  <2>5. ~Seen(k)
    BY <1>4, <2>1
  <2>6. \A m \in Delivered : m > k => ~Seen(m)
    BY <1>1, <1>4, <2>1
  <2> QED BY <2>1, <2>4, <2>5, <2>6 DEF Pending
<1>7. Given(n) \subseteq flight[c]
  BY <1>3, <1>6 DEF Given
<1>8. ASSUME Lossless, NEW k \in Delivered, NEW m \in Nat, k < m, m < n
      PROVE  m \in Delivered
  <2>1. PICK p \in viewer.from + 1..viewer.pos : k = inode[viewer.file][p]
    BY <1>8 DEF Delivered
  <2>2. n \in 1..Written /\ Written \in Nat
    <3>1. LinesAscend
      BY DEF FilesInv
    <3>2. n \in 1..Written
      BY <1>1, <3>1 DEF LinesAscend
    <3>3. Written \in Int
      BY DEF Written, FilesInv, FilesTyped
    <3> QED BY <3>2, <3>3
  <2>3. m \in 1..Written
    BY <1>1, <1>4, <1>8, <2>2
  <2>4. PICK i \in DOMAIN inode : \E a \in DOMAIN inode[i] : inode[i][a] = m
    BY <1>8, <2>3 DEF FilesInv, NoGap
  <2>5. PICK a \in DOMAIN inode[i] : inode[i][a] = m
    BY <2>4
  <2>6. /\ Len(inode) \in Nat /\ DOMAIN inode = 1..Len(inode)
        /\ \A j \in DOMAIN inode : DOMAIN inode[j] = 1..Len(inode[j]) /\ Len(inode[j]) \in Nat
    BY DEF FilesInv, FilesTyped
  <2>7. /\ viewer.from \in Nat /\ viewer.pos \in Nat /\ p \in DOMAIN inode[viewer.file]
        /\ p \in Nat /\ a \in Nat /\ k \in Nat
    <3>1. viewer.from \in Nat /\ viewer.pos \in Nat
      BY DEF ViewerInv, ViewerTyped
    <3>2. p \in DOMAIN inode[viewer.file]
      <4>1. PICK size \in Nat : size = Len(inode[viewer.file])
        BY <1>1, <2>6
      <4>2. DOMAIN inode[viewer.file] = 1..size
        BY <1>1, <2>6, <4>1
      <4>3. viewer.pos + 1 \in 1..size
        BY <1>1, <4>2
      <4>4. p \in 1..size
        BY <3>1, <4>1, <4>3
      <4> QED BY <4>2, <4>4
    <3>3. p \in Nat
      BY <2>1, <3>1
    <3>4. a \in Nat
      BY <2>5, <2>6
    <3>5. k \in Nat
      BY <1>4, <1>8
    <3> QED BY <3>1, <3>2, <3>3, <3>4, <3>5
  <2>8. LinesAscend
    BY DEF FilesInv
  <2>9. i = viewer.file
    <3>1. ~(i < viewer.file)
      <4>1. i < viewer.file => m < k
        BY <1>1, <2>1, <2>5, <2>7, <2>8 DEF LinesAscend
      <4> QED BY <1>8, <2>7, <4>1
    <3>2. ~(viewer.file < i)
      <4>1. viewer.file < i => n < m
        BY <1>1, <2>5, <2>8 DEF LinesAscend
      <4> QED BY <1>4, <1>8, <4>1
    <3> QED BY <1>1, <2>6, <3>1, <3>2
  <2>10. p < a
    <3>1. a < p => m < k
      BY <2>1, <2>5, <2>7, <2>8, <2>9 DEF LinesAscend
    <3>2. a = p => m = k
      BY <2>1, <2>5, <2>9
    <3> QED BY <1>8, <2>7, <3>1, <3>2
  <2>11. a < viewer.pos + 1
    <3>1. viewer.pos + 1 < a => n < m
      BY <1>1, <2>5, <2>8, <2>9 DEF LinesAscend
    <3>2. a = viewer.pos + 1 => m = n
      BY <2>5, <2>9
    <3> QED BY <1>4, <1>8, <2>7, <3>1, <3>2
  <2>12. a \in viewer.from + 1..viewer.pos
    BY <2>7, <2>10, <2>11
  <2>13. IsWhole(viewer.file, a)
    BY <1>8, <2>5, <2>9, WholeUnlessFailed
  <2> QED BY <2>5, <2>9, <2>12, <2>13 DEF Delivered
<1>9. ASSUME Lossless, NEW k \in Pending(c) PROVE k \in AlertsOf(n) \cap Delivered
  <2>1. /\ k \in Delivered /\ k \in Nat /\ k < n /\ k >= 1 /\ OfCall(c, k) /\ ~Seen(k)
        /\ \A m \in Delivered : m > k => ~(OfCall(c, m) /\ Seen(m))
    BY <1>1, <1>4 DEF Pending
  <2>2. PICK e \in k..Len(printed) :
          Seen(e) /\ printed[e].cid = printed[k].cid /\ \A m \in k..e - 1 : ~Seen(m)
    BY <1>5, <2>1
  <2>3. e \in Nat /\ e > k /\ OfCall(c, e)
    <3>1. e # k
      BY <2>1, <2>2
    <3> QED BY <1>4, <2>1, <2>2, <3>1 DEF OfCall
  <2>4. ~(e < n)
    <3>1. SUFFICES ASSUME e < n PROVE FALSE
      OBVIOUS
    <3>2. e \in Delivered
      BY <1>8, <1>9, <2>1, <2>3, <3>1
    <3> QED BY <2>1, <2>2, <2>3, <3>2
  <2>5. \A m \in k..n - 1 : ~Seen(m)
    BY <1>4, <2>1, <2>2, <2>3, <2>4
  <2>6. k \in 1..n - 1
    BY <1>4, <2>1
  <2> QED BY <2>1, <2>5, <2>6 DEF AlertsOf
<1>10. Lossless => flight[c] \subseteq Given(n)
  BY <1>3, <1>9 DEF Given
<1> QED BY <1>2, <1>7, <1>10

\* What cannot be read is passed over.
LEMMA SkipKeepsViewer ==
  ASSUME FilesInv, ViewerInv, ViewerReads, ~IsWhole(viewer.file, viewer.pos + 1)
  PROVE  ViewerInv'
<1>1. PICK n : n = inode[viewer.file][viewer.pos + 1]
  OBVIOUS
<1>2. /\ viewer.file \in DOMAIN inode /\ viewer.pos + 1 \in DOMAIN inode[viewer.file]
      /\ viewer' = [viewer EXCEPT !.pos = viewer.pos + 1] /\ Delivered' = Delivered
  BY <1>1, NextLineIs
<1>3. /\ viewer.pc = "reading" /\ viewer.pos < Len(inode[viewer.file])
      /\ UNCHANGED <<printed, inode, failed, flight, blocks>>
  BY DEF ViewerReads, files
<1>4. ViewerTyped /\ Len(inode[viewer.file]) \in Nat
  BY <1>2 DEF ViewerInv, FilesInv, FilesTyped
<1>5. PICK next : next = viewer.pos + 1
  OBVIOUS
<1>6. /\ next \in Nat /\ viewer' = [viewer EXCEPT !.pos = next]
      /\ viewer.from <= next /\ next <= Len(inode[viewer.file]) /\ viewer.file # NoFile
  BY <1>2, <1>3, <1>4, <1>5 DEF ViewerTyped
<1>7. /\ viewer'.file = viewer.file /\ viewer'.from = viewer.from
      /\ viewer'.pos = next /\ viewer'.pc = "reading"
      /\ viewer' \in [pc : {"off", "found", "reading", "done", "absent"}, follow : BOOLEAN,
                      file : 0..Len(inode), from : Nat, pos : Nat]
  BY <1>3, <1>4, <1>6 DEF ViewerTyped
<1>8. ViewerTyped'
  BY <1>3, <1>4, <1>6, <1>7 DEF ViewerTyped
<1> QED BY <1>2, <1>3, <1>8, MoveKeepsViewer

LEMMA ReadKeepsViewer ==
  ASSUME FilesInv, ViewerInv, ViewerReads, IsWhole(viewer.file, viewer.pos + 1)
  PROVE  ViewerInv'
<1>1. PICK n : n = inode[viewer.file][viewer.pos + 1]
  OBVIOUS
<1>2. /\ viewer.file \in DOMAIN inode /\ viewer.pos + 1 \in DOMAIN inode[viewer.file]
      /\ n \in 1..Len(printed) /\ printed[n] \in Lines
      /\ \A k \in Delivered : k \in 1..Len(printed) /\ k < n
      /\ viewer' = [viewer EXCEPT !.pos = viewer.pos + 1]
      /\ Delivered' = Delivered \cup {n}
  BY <1>1, NextLineIs
<1>3. /\ ProcessLine(n) /\ viewer.pc = "reading" /\ viewer.pos < Len(inode[viewer.file])
      /\ UNCHANGED <<printed, drained, drain, writer, inode, torn, path, failed, faults>>
  BY <1>1 DEF ViewerReads, files
<1>4. ViewerTyped /\ FlightIsPending /\ BlocksAreRight
  BY DEF ViewerInv
<1>5. PICK c \in Calls : c = printed[n].cid
  BY <1>2 DEF Lines
<1>6. printed[n].kind \in Kinds /\ n \in Nat /\ Len(printed) \in Nat
  BY <1>2 DEF Lines, FilesInv, FilesTyped
<1>7. flight[c] \in SUBSET AlertKinds /\ Verdict(flight[c]) \in {"deny", "ask", "allow", "pass"}
  <2>1. flight[c] \in SUBSET AlertKinds
    BY <1>4 DEF ViewerTyped
  <2> QED BY <2>1, StricterWithMore
<1>8. PICK block : block = [line |-> n, verdict |-> Verdict(flight[c])]
  OBVIOUS
<1>9. IF Seen(n)
      THEN flight' = [flight EXCEPT ![c] = {}] /\ blocks' = Append(blocks, block)
      ELSE flight' = [flight EXCEPT ![c] = flight[c] \cup {printed[n].kind}] /\ blocks' = blocks
  BY <1>3, <1>5, <1>8 DEF ProcessLine, Finalize, Seen
<1>10. ViewerTyped'
  <2>1. /\ viewer'.file = viewer.file /\ viewer'.from = viewer.from
        /\ viewer'.pos = viewer.pos + 1 /\ viewer'.pc = "reading"
        /\ viewer' \in [pc : {"off", "found", "reading", "done", "absent"}, follow : BOOLEAN,
                        file : 0..Len(inode), from : Nat, pos : Nat]
    <3>1. PICK next : next = viewer.pos + 1
      OBVIOUS
    <3>2. next \in Nat /\ viewer' = [viewer EXCEPT !.pos = next]
      BY <1>2, <1>4, <3>1 DEF ViewerTyped
    <3> QED BY <1>3, <1>4, <3>1, <3>2 DEF ViewerTyped
  <2>2. flight' \in [Calls -> SUBSET AlertKinds]
    <3>1. flight \in [Calls -> SUBSET AlertKinds]
      BY <1>4 DEF ViewerTyped
    <3>2. CASE Seen(n)
      BY <1>9, <3>1, <3>2
    <3>3. CASE ~Seen(n)
      <4>1. printed[n].kind \in AlertKinds
        BY <1>6, <3>3 DEF Seen, Kinds, AlertKinds
      <4>2. PICK more : more = flight[c] \cup {printed[n].kind}
        OBVIOUS
      <4>3. more \in SUBSET AlertKinds
        BY <1>7, <4>1, <4>2
      <4> QED BY <1>9, <3>1, <3>3, <4>2, <4>3
    <3> QED BY <3>2, <3>3
  <2>3. blocks' \in Seq([line : Nat, verdict : {"deny", "ask", "allow", "pass"}])
    <3>1. block \in [line : Nat, verdict : {"deny", "ask", "allow", "pass"}]
      BY <1>6, <1>7, <1>8
    <3>2. blocks \in Seq([line : Nat, verdict : {"deny", "ask", "allow", "pass"}])
      BY <1>4 DEF ViewerTyped
    <3>3. CASE Seen(n)
      <4>1. blocks' = Append(blocks, block)
        BY <1>9, <3>3
      <4> QED BY <3>1, <3>2, <4>1
    <3>4. CASE ~Seen(n)
      BY <1>9, <3>2, <3>4
    <3> QED BY <3>3, <3>4
  <2>4. viewer.file # NoFile /\ viewer.from <= viewer.pos
        /\ viewer.from \in Nat /\ viewer.pos \in Nat /\ Len(inode[viewer.file]) \in Nat
    <3>1. Len(inode[viewer.file]) \in Nat
      BY <1>2 DEF FilesInv, FilesTyped
    <3> QED BY <1>3, <1>4, <3>1 DEF ViewerTyped
  <2>5. viewer.from <= viewer.pos + 1 /\ viewer.pos + 1 <= Len(inode[viewer.file])
    BY <1>3, <2>4
  <2> QED BY <1>3, <2>1, <2>2, <2>3, <2>4, <2>5 DEF ViewerTyped
<1>11. EventsAreWhole'
  BY <1>3 DEF ViewerInv, EventsAreWhole, Seen
<1>12. FlightIsPending'
  <2>1. ASSUME NEW d \in Calls PROVE flight'[d] = {printed[k].kind : k \in Pending(d)'}
    <3>1. flight[d] = {printed[k].kind : k \in Pending(d)} /\ flight \in [Calls -> SUBSET AlertKinds]
      BY <1>4 DEF FlightIsPending, ViewerTyped
    <3>2. Pending(d)' = {k \in Delivered \cup {n} : OfCall(d, k) /\ ~Seen(k)
                           /\ \A m \in Delivered \cup {n} : m > k => ~(OfCall(d, m) /\ Seen(m))}
      BY <1>2, <1>3 DEF Pending, OfCall, Seen
    <3>3. ~(n > n) /\ \A k \in Delivered : n > k /\ ~(k > n)
      BY <1>2, <1>6
    <3>4. CASE ~(OfCall(d, n) /\ Seen(n)) /\ ~(OfCall(d, n) /\ ~Seen(n))
      <4>1. Pending(d)' = Pending(d)
        BY <3>2, <3>4 DEF Pending
      <4>2. d # c
        BY <1>5, <3>4 DEF OfCall
      <4> QED BY <1>9, <3>1, <4>1, <4>2
    <3>5. CASE OfCall(d, n) /\ Seen(n)
      <4>1. Pending(d)' = {}
        BY <3>2, <3>3, <3>5
      <4>2. d = c
        BY <1>5, <3>5 DEF OfCall
      <4> QED BY <1>9, <3>1, <3>5, <4>1, <4>2
    <3>6. CASE OfCall(d, n) /\ ~Seen(n)
      <4>1. Pending(d)' = Pending(d) \cup {n}
        BY <3>2, <3>3, <3>6 DEF Pending
      <4>2. d = c
        BY <1>5, <3>6 DEF OfCall
      <4> QED BY <1>9, <3>1, <3>6, <4>1, <4>2
    <3> QED BY <3>4, <3>5, <3>6
  <2> QED BY <1>3, <2>1 DEF FlightIsPending
<1>13. ASSUME NEW m \in Delivered \cup {n} PROVE Given(m)' = Given(m)
  <2>1. AlertsOf(m)' = AlertsOf(m) /\ m <= n /\ m \in Nat
    BY <1>2, <1>3, <1>6 DEF AlertsOf, Seen
  <2>2. n \notin AlertsOf(m)
    BY <1>6, <2>1 DEF AlertsOf
  <2>3. AlertsOf(m)' \cap Delivered' = AlertsOf(m) \cap Delivered
    BY <1>2, <2>1, <2>2
  <2> QED BY <1>3, <2>3 DEF Given
<1>14. BlocksAreRight'
  <2>1. ASSUME NEW d, d \in Range(blocks)
        PROVE  (d.line \in Delivered /\ Seen(d.line) /\ BlockIsRight(d))'
    <3>1. d.line \in Delivered /\ Seen(d.line) /\ BlockIsRight(d)
      BY <1>4, <2>1 DEF BlocksAreRight, Range
    <3>2. Given(d.line)' = Given(d.line)
      BY <1>13, <3>1
    <3> QED BY <1>2, <1>3, <3>1, <3>2 DEF BlockIsRight, Seen, Lossless
  <2>2. Seen(n) => (block.line \in Delivered /\ Seen(block.line) /\ BlockIsRight(block))'
    <3>1. SUFFICES ASSUME Seen(n)
                   PROVE  (block.line \in Delivered /\ Seen(block.line) /\ BlockIsRight(block))'
      OBVIOUS
    <3>2. block.line = n /\ block.verdict = Verdict(flight[c])
      BY <1>8
    <3>3. Given(n) \subseteq flight[c] /\ (Lossless => Given(n) = flight[c])
      BY <1>1, <1>5, <3>1, FlightIsGiven
    <3>4. Given(n)' = Given(n)
      BY <1>13
    <3>5. Strictness[Verdict(flight[c])] >= Strictness[Verdict(Given(n))]
      BY <1>7, <3>3, StricterWithMore
    <3>6. BlockIsRight(block)'
      BY <1>3, <3>2, <3>3, <3>4, <3>5 DEF BlockIsRight, Lossless
    <3>7. n \in Delivered' /\ Seen(n)'
      BY <1>2, <1>3, <3>1 DEF Seen
    <3> QED BY <3>2, <3>6, <3>7
  <2>3. \A k \in DOMAIN blocks' : blocks'[k] \in Range(blocks) \/ (Seen(n) /\ blocks'[k] = block)
    <3>1. blocks \in Seq([line : Nat, verdict : {"deny", "ask", "allow", "pass"}])
      BY <1>4 DEF ViewerTyped
    <3>2. Len(blocks) \in Nat /\ DOMAIN blocks = 1..Len(blocks)
      BY <3>1
    <3>3. CASE ~Seen(n)
      BY <1>9, <3>3 DEF Range
    <3>4. CASE Seen(n)
      <4>1. blocks' = Append(blocks, block)
        BY <1>9, <3>4
      <4>2. /\ DOMAIN blocks' = 1..Len(blocks) + 1 /\ blocks'[Len(blocks) + 1] = block
            /\ \A k \in 1..Len(blocks) : blocks'[k] = blocks[k]
        BY <3>1, <3>2, <4>1
      <4>3. \A k \in 1..Len(blocks) + 1 : k \in 1..Len(blocks) \/ k = Len(blocks) + 1
        BY <3>2
      <4> QED BY <3>2, <3>4, <4>2, <4>3 DEF Range
    <3> QED BY <3>3, <3>4
  <2>4. \A d \in Range(blocks) \cup (IF Seen(n) THEN {block} ELSE {}) :
          (d.line \in Delivered /\ Seen(d.line) /\ BlockIsRight(d))'
    <3>1. CASE Seen(n)
      BY <2>1, <2>2, <3>1
    <3>2. CASE ~Seen(n)
      BY <2>1, <3>2
    <3> QED BY <3>1, <3>2
  <2>5. ASSUME NEW k, k \in DOMAIN blocks'
        PROVE  (blocks[k].line \in Delivered /\ Seen(blocks[k].line) /\ BlockIsRight(blocks[k]))'
    <3>1. PICK d \in Range(blocks) \cup (IF Seen(n) THEN {block} ELSE {}) : d = blocks'[k]
      BY <2>3, <2>5
    <3>2. (d.line \in Delivered /\ Seen(d.line) /\ BlockIsRight(d))'
      BY <2>4, <3>1
    <3> QED BY <3>1, <3>2 DEF BlockIsRight, Seen
  <2> QED BY <2>5 DEF BlocksAreRight
<1> QED BY <1>10, <1>11, <1>12, <1>14 DEF ViewerInv

LEMMA EnginePrintsKeeps ==
  ASSUME StreamInv, NEW c \in Calls, EnginePrints(c)
  PROVE  StreamInv'
<1>1. FilesInv /\ ViewerInv /\ printed \in Seq(Lines) /\ Len(printed) \in Nat
  BY DEF StreamInv, FilesInv, FilesTyped
<1>2. UNCHANGED <<drained, drain, writer, inode, torn, path, failed, faults, viewer, flight, blocks>>
  BY DEF EnginePrints, files
<1>3. /\ printed' \in Seq(Lines) /\ Len(printed') > Len(printed)
      /\ \A k \in 1..Len(printed) : printed'[k] = printed[k]
  BY <1>1, PrintedIs
<1>4. Len(printed') >= Len(printed)
  BY <1>1, <1>3
<1>5. FilesInv'
  BY <1>1, <1>2, <1>3, <1>4, FilesStay
<1>6. EventsAreWhole'
  BY <1>1, PrintedKeepsEvents DEF ViewerInv
<1>7. /\ Len(inode') >= Len(inode)
      /\ \A i \in DOMAIN inode : /\ Len(inode'[i]) >= Len(inode[i])
                              /\ \A a \in DOMAIN inode[i] : inode'[i][a] = inode[i][a]
  BY <1>1, <1>2 DEF FilesInv, FilesTyped
<1>8. Lossless' => Lossless
  BY <1>2 DEF Lossless
<1>9. \A i \in DOMAIN inode : \A a \in DOMAIN inode[i] : IsWhole(i, a)' <=> IsWhole(i, a)
  BY <1>2 DEF IsWhole, Begins
<1>10. ViewerInv'
  BY <1>1, <1>2, <1>3, <1>4, <1>5, <1>6, <1>7, <1>8, <1>9, DrainKeepsViewer
<1> QED BY <1>5, <1>10 DEF StreamInv

\* What the drain does, and the end of the engine.
LEMMA DrainKeeps ==
  ASSUME StreamInv, EngineExits \/ Drains
  PROVE  StreamInv'
<1>1. FilesInv /\ ViewerInv /\ printed \in Seq(Lines) /\ Len(printed) \in Nat
  BY DEF StreamInv, FilesInv, FilesTyped
<1>2. UNCHANGED <<printed, viewer, flight, blocks>>
  BY DEF EngineExits, Drains, DrainReads, DrainRotates, DrainReopens, DrainWrites
<1>3. EventsAreWhole' /\ Len(printed') >= Len(printed)
  <2>1. EventsAreWhole
    BY <1>1 DEF ViewerInv
  <2>2. EventsAreWhole'
    BY <1>2, <2>1 DEF EventsAreWhole, Seen
  <2> QED BY <1>1, <1>2, <2>2
<1>4. Lossless' => Lossless
  BY DEF EngineExits, Drains, DrainReads, DrainRotates, DrainReopens, DrainWrites, Fails, Lossless
<1>5. FilesInv'
  <2>1. CASE EngineExits
    <3>1. /\ UNCHANGED <<drained, writer, inode, torn, path, failed, faults>>
          /\ drain = "read" /\ drain' = "ended"
      BY <2>1 DEF EngineExits, files
    <3> QED BY <1>1, <1>2, <1>3, <3>1, FilesStay
  <2>2. CASE Drains
    BY <1>1, <2>2, ReadKeepsFiles, RotateKeepsFiles, ReopenKeepsFiles, WriteKeepsFiles DEF Drains
  <2> QED BY <2>1, <2>2
<1>6. inode \in Seq(Seq(Nat)) /\ Len(inode) \in Nat /\ DOMAIN inode = 1..Len(inode)
  BY <1>1 DEF FilesInv, FilesTyped
<1>7. /\ Len(inode') >= Len(inode)
      /\ \A i \in DOMAIN inode : /\ Len(inode'[i]) >= Len(inode[i])
                              /\ \A a \in DOMAIN inode[i] : inode'[i][a] = inode[i][a]
  <2>1. CASE inode' = inode
    BY <1>6, <2>1
  <2>2. CASE inode' = Append(inode, <<>>)
    <3>1. Len(inode') = Len(inode) + 1 /\ \A i \in DOMAIN inode : inode'[i] = inode[i]
      BY <1>6, <2>2
    <3> QED BY <1>6, <3>1
  <2>3. CASE inode' = [inode EXCEPT ![writer] = Append(@, drained)]
    <3>1. writer \in DOMAIN inode /\ drained \in Nat
      BY <1>1 DEF FilesInv, FilesTyped
    <3>2. PICK old \in Seq(Nat) : old = inode[writer]
      BY <1>6, <3>1
    <3>3. PICK grown : grown = Append(old, drained)
      OBVIOUS
    <3>4. /\ Len(grown) = Len(old) + 1 /\ Len(old) \in Nat
          /\ \A a \in DOMAIN old : grown[a] = old[a]
      BY <3>1, <3>3
    <3>5. inode' = [inode EXCEPT ![writer] = grown]
      BY <2>3, <3>2, <3>3
    <3>6. Len(inode') = Len(inode)
      <4>1. grown \in Seq(Nat)
        BY <3>1, <3>3
      <4>2. inode \in [1..Len(inode) -> Seq(Nat)]
        BY <1>6
      <4>3. inode' \in [1..Len(inode) -> Seq(Nat)]
        BY <3>5, <4>1, <4>2
      <4> QED BY <1>6, <4>3
    <3>7. ASSUME NEW i \in DOMAIN inode
          PROVE  /\ Len(inode'[i]) >= Len(inode[i])
                 /\ \A a \in DOMAIN inode[i] : inode'[i][a] = inode[i][a]
      <4>1. CASE i = writer
        BY <3>2, <3>4, <3>5, <4>1
      <4>2. CASE i # writer
        <5>1. inode'[i] = inode[i] /\ Len(inode[i]) \in Nat
          BY <1>6, <3>5, <4>2
        <5> QED BY <5>1
      <4> QED BY <4>1, <4>2
    <3> QED BY <1>6, <3>6, <3>7
  <2> QED BY <2>1, <2>2, <2>3
       DEF EngineExits, Drains, DrainReads, DrainRotates, DrainReopens, DrainWrites, Puts, files
<1>8. torn' = torn \/ (drain = "write" /\ torn' = torn \cup {drained})
  BY DEF EngineExits, Drains, DrainReads, DrainRotates, DrainReopens, DrainWrites, files
<1>9. \A i \in DOMAIN inode : \A a \in DOMAIN inode[i] : IsWhole(i, a)' <=> IsWhole(i, a)
  <2>1. DOMAIN inode' = 1..Len(inode') /\ Len(inode') \in Nat
        /\ \A i \in DOMAIN inode' : DOMAIN inode'[i] = 1..Len(inode'[i]) /\ Len(inode'[i]) \in Nat
    BY <1>5 DEF FilesInv, FilesTyped
  <2>2. \A i \in DOMAIN inode : DOMAIN inode[i] = 1..Len(inode[i]) /\ Len(inode[i]) \in Nat
    BY <1>6
  <2>3. \A i \in DOMAIN inode : i \in DOMAIN inode'
    BY <1>6, <1>7, <2>1
  <2>4. ASSUME NEW i \in DOMAIN inode, NEW a \in DOMAIN inode[i]
        PROVE  a \in DOMAIN inode'[i] /\ inode'[i][a] = inode[i][a]
    BY <1>7, <2>1, <2>2, <2>3
  <2> QED BY <1>1, <1>8, <2>3, <2>4, WholeStays
<1>10. ViewerInv'
  BY <1>1, <1>2, <1>3, <1>4, <1>5, <1>7, <1>9, DrainKeepsViewer
<1> QED BY <1>5, <1>10 DEF StreamInv

LEMMA ViewKeeps ==
  ASSUME StreamInv, ViewerLooks \/ TailOpens \/ Views
  PROVE  StreamInv'
<1>1. FilesInv /\ ViewerInv
  BY DEF StreamInv
<1>2. UNCHANGED <<printed, drained, drain, writer, inode, torn, path, failed, faults>>
  BY DEF ViewerLooks, TailOpens, Views, ViewerReads, ViewerEnds, files
<1>3. printed' \in Seq(Lines) /\ Len(printed') >= Len(printed)
  BY <1>1, <1>2 DEF FilesInv, FilesTyped
<1>4. FilesInv'
  BY <1>1, <1>2, <1>3, FilesStay
<1>5. ViewerInv'
  BY <1>1, LookKeepsViewer, ReadKeepsViewer, SkipKeepsViewer DEF Views
<1> QED BY <1>4, <1>5 DEF StreamInv

LEMMA StreamNext == StreamInv /\ [Next]_vars => StreamInv'
<1>1. SUFFICES ASSUME StreamInv, [Next]_vars PROVE StreamInv'
  OBVIOUS
<1>2. ASSUME NEW c \in Calls, EnginePrints(c) PROVE StreamInv'
  BY <1>1, <1>2, EnginePrintsKeeps
<1>3. CASE EngineExits \/ Drains
  BY <1>1, <1>3, DrainKeeps
<1>4. CASE ViewerLooks \/ TailOpens \/ Views
  BY <1>1, <1>4, ViewKeeps
<1>5. CASE UNCHANGED vars
  <2>1. UNCHANGED <<printed, drained, drain, writer, inode, torn, path, failed, faults, viewer, flight, blocks>>
    BY <1>5 DEF vars, files
  <2>2. FilesInv /\ ViewerInv
    BY <1>1 DEF StreamInv
  <2>3. printed' \in Seq(Lines) /\ Len(printed') >= Len(printed)
    BY <2>1, <2>2 DEF FilesInv, FilesTyped
  <2>4. FilesInv'
    BY <2>1, <2>2, <2>3, FilesStay
  <2>5. Delivered' = Delivered /\ ViewerTyped'
    BY <2>1, <2>2 DEF Delivered, IsWhole, Begins, ViewerInv, ViewerTyped
  <2>6. ViewerInv'
    BY <2>1, <2>2, <2>5, MoveKeepsViewer
  <2> QED BY <2>4, <2>6 DEF StreamInv
<1> QED BY <1>1, <1>2, <1>3, <1>4, <1>5 DEF Next

(***************************************************************************)
(* What the invariant says of the files by their names.                    *)
(***************************************************************************)
LEMMA FilesAreTyped == StreamInv => TypeOK
<1>1. SUFFICES ASSUME StreamInv PROVE TypeOK
  OBVIOUS
<1>2. FilesTyped /\ LinesAscend /\ NewestHaveNames /\ ViewerTyped /\ BlocksAreRight
  BY <1>1 DEF StreamInv, FilesInv, ViewerInv
<1>3. /\ Len(inode) \in Nat /\ DOMAIN inode = 1..Len(inode) /\ Len(inode) > 0
      /\ Len(printed) \in Nat /\ DOMAIN printed = 1..Len(printed) /\ drained \in 0..Len(printed)
  BY <1>2 DEF FilesTyped
<1>4. \A n \in DOMAIN printed : printed[n] \in [cid : Calls, kind : Kinds]
  <2>1. printed \in Seq(Lines)
    BY <1>2 DEF FilesTyped
  <2>2. ASSUME NEW n \in DOMAIN printed PROVE printed[n] \in Lines
    BY <2>1
  <2> QED BY <2>2 DEF Lines
<1>5. Written \in Int /\ Written <= drained
  BY <1>3 DEF Written
<1>6. \A i \in DOMAIN inode : \A k \in DOMAIN inode[i] : inode[i][k] \in 1..drained
  <2>1. 1..Written \subseteq 1..drained
    BY <1>3, <1>5
  <2> QED BY <1>2, <2>1 DEF LinesAscend
<1>7. path \in [Slots -> {NoFile} \cup DOMAIN inode]
  <2>1. 0..Len(inode) = {NoFile} \cup DOMAIN inode
    BY <1>3 DEF NoFile
  <2> QED BY <1>2, <2>1 DEF FilesTyped
<1>8. ASSUME NEW n \in Slots, NEW k \in Slots, path[n] = path[k], path[n] # NoFile PROVE n = k
  <2>1. n \in Nat /\ k \in Nat /\ path[n] \in 0..Len(inode)
    BY <1>2, LogAssumption DEF Slots, FilesTyped
  <2>2. ~(n < k) /\ ~(k < n)
    BY <1>2, <1>3, <1>8, <2>1 DEF NewestHaveNames
  <2> QED BY <2>1, <2>2
<1>9. flight \in [Calls -> SUBSET (Kinds \ {"seen"})]
  <2>1. Kinds \ {"seen"} = AlertKinds
    BY DEF Kinds, AlertKinds
  <2> QED BY <1>2, <2>1 DEF ViewerTyped
<1>10. Delivered \subseteq DOMAIN printed
  <2>1. ASSUME NEW p \in viewer.from + 1..viewer.pos
        PROVE  inode[viewer.file][p] \in DOMAIN printed
    <3>1. /\ viewer.from \in Nat /\ viewer.pos \in Nat /\ viewer.file \in 0..Len(inode)
          /\ (viewer.file # NoFile => viewer.pos <= Len(inode[viewer.file]))
          /\ (viewer.file = NoFile => viewer.from = 0 /\ viewer.pos = 0)
      BY <1>2 DEF ViewerTyped
    <3>2. viewer.file \in DOMAIN inode /\ viewer.pos <= Len(inode[viewer.file])
      BY <1>3, <2>1, <3>1 DEF NoFile
    <3>3. p \in DOMAIN inode[viewer.file]
      <4>1. Len(inode[viewer.file]) \in Nat /\ DOMAIN inode[viewer.file] = 1..Len(inode[viewer.file])
        BY <1>2, <3>2 DEF FilesTyped
      <4> QED BY <2>1, <3>1, <3>2, <4>1
    <3>4. inode[viewer.file][p] \in 1..drained
      BY <1>6, <3>2, <3>3
    <3> QED BY <1>3, <3>4
  <2> QED BY <2>1 DEF Delivered
<1>11. ASSUME NEW n \in DOMAIN blocks
       PROVE  /\ blocks[n].line \in DOMAIN printed /\ printed[blocks[n].line].kind = "seen"
              /\ blocks[n].verdict \in {"deny", "ask", "allow", "pass"}
  <2>1. blocks[n].line \in Delivered /\ Seen(blocks[n].line)
    BY <1>2 DEF BlocksAreRight
  <2>2. blocks[n] \in [line : Nat, verdict : {"deny", "ask", "allow", "pass"}]
    <3>1. blocks \in Seq([line : Nat, verdict : {"deny", "ask", "allow", "pass"}])
      BY <1>2 DEF ViewerTyped
    <3>2. \A S : \A s \in Seq(S) : \A i \in DOMAIN s : s[i] \in S
      OBVIOUS
    <3> QED BY <3>1, <3>2, Zenon
  <2> QED BY <1>10, <2>1, <2>2 DEF Seen
<1>12. writer \in DOMAIN inode /\ drain \in {"read", "rotate", "reopen", "write", "ended"}
       /\ torn \subseteq 1..drained
       /\ failed \subseteq {"rename", "open", "write"} /\ faults \in 0..MaxFaults
  BY <1>2, <1>3 DEF FilesTyped
<1>13. viewer.pc \in {"off", "found", "reading", "done", "absent"}
  <2>1. viewer \in [pc : {"off", "found", "reading", "done", "absent"}, follow : BOOLEAN,
                   file : 0..Len(inode), from : Nat, pos : Nat]
    <3>1. ViewerTyped
      BY <1>2
    <3> QED BY <3>1, Zenon DEF ViewerTyped
  <2> QED BY <2>1
<1> QED BY <1>3, <1>4, <1>6, <1>7, <1>8, <1>9, <1>11, <1>12, <1>13 DEF TypeOK

LEMMA ContentIs ==
  ASSUME FilesInv, NEW n \in Slots
  PROVE  /\ path[n] = NoFile => Content(path[n]) = <<>> /\ Range(Content(path[n])) = {}
         /\ path[n] # NoFile =>
              /\ path[n] \in DOMAIN inode /\ Content(path[n]) = inode[path[n]]
              /\ \A a : a \in Range(Content(path[n])) <=>
                         \E x \in DOMAIN inode[path[n]] : inode[path[n]][x] = a
<1>1. path[n] \in 0..Len(inode) /\ Len(inode) \in Nat /\ DOMAIN inode = 1..Len(inode)
  BY DEF FilesInv, FilesTyped
<1>2. CASE path[n] = NoFile
  <2>1. Content(path[n]) = <<>>
    BY <1>2 DEF Content
  <2>2. DOMAIN <<>> = {}
    OBVIOUS
  <2> QED BY <1>2, <2>1, <2>2 DEF Range
<1>3. CASE path[n] # NoFile
  <2>1. path[n] \in DOMAIN inode
    BY <1>1, <1>3 DEF NoFile
  <2>2. Content(path[n]) = inode[path[n]]
    BY <1>3 DEF Content
  <2> QED BY <1>3, <2>1, <2>2 DEF Range
<1> QED BY <1>2, <1>3

\* Every line of a file that has a name is on disk.
LEMMA NamedIsStored ==
  ASSUME FilesInv, NEW i \in DOMAIN inode, NEW a \in DOMAIN inode[i], \E n \in Slots : path[n] = i
  PROVE  inode[i][a] \in Stored
<1>1. PICK n \in Slots : path[n] = i
  OBVIOUS
<1>2. i # NoFile
  BY DEF FilesInv, FilesTyped, NoFile
<1>3. inode[i][a] \in Range(Content(path[n]))
  BY <1>1, <1>2, ContentIs
<1> QED BY <1>3 DEF Stored

LEMMA OrderIsKept == FilesInv => LinesInOrder
<1>1. SUFFICES ASSUME FilesInv PROVE LinesInOrder
  OBVIOUS
<1>2. FilesTyped /\ LinesAscend /\ NewestHaveNames /\ NoGap
  BY <1>1 DEF FilesInv
<1>3. /\ Len(inode) \in Nat /\ DOMAIN inode = 1..Len(inode) /\ path \in [Slots -> 0..Len(inode)]
      /\ Slots \subseteq Nat
  BY <1>2, LogAssumption DEF FilesTyped, Slots
<1>4. ASSUME NEW n \in Slots,
             NEW a \in DOMAIN Content(path[n]), NEW b \in DOMAIN Content(path[n]), a < b
      PROVE  Content(path[n])[a] < Content(path[n])[b]
  <2>1. DOMAIN <<>> = {}
    OBVIOUS
  <2>2. path[n] # NoFile
    BY <1>1, <1>4, <2>1, ContentIs
  <2>3. path[n] \in DOMAIN inode /\ Content(path[n]) = inode[path[n]]
    BY <1>1, <2>2, ContentIs
  <2> QED BY <1>2, <1>4, <2>3 DEF LinesAscend
<1>5. ASSUME NEW n \in Slots, NEW k \in Slots, n < k,
             NEW a \in Range(Content(path[n])), NEW b \in Range(Content(path[k]))
      PROVE  b < a
  <2>1. path[n] # NoFile /\ path[k] # NoFile
    BY <1>1, <1>5, ContentIs
  <2>2. path[k] < path[n]
    BY <1>2, <1>5, <2>1 DEF NewestHaveNames
  <2>3. PICK x \in DOMAIN inode[path[n]] : inode[path[n]][x] = a
    BY <1>1, <1>5, <2>1, ContentIs
  <2>4. PICK y \in DOMAIN inode[path[k]] : inode[path[k]][y] = b
    BY <1>1, <1>5, <2>1, ContentIs
  <2>5. path[n] \in DOMAIN inode /\ path[k] \in DOMAIN inode
    BY <1>1, <2>1, ContentIs
  <2> QED BY <1>2, <2>2, <2>3, <2>4, <2>5 DEF LinesAscend
<1>6. ASSUME Lossless, NEW a \in Stored, NEW b \in a..Written PROVE b \in Stored
  <2>1. PICK n \in Slots : a \in Range(Content(path[n]))
    BY <1>6 DEF Stored
  <2>2. path[n] # NoFile
    BY <1>1, <2>1, ContentIs
  <2>3. PICK x \in DOMAIN inode[path[n]] : inode[path[n]][x] = a
    BY <1>1, <2>1, <2>2, ContentIs
  <2>4. path[n] \in DOMAIN inode
    BY <1>1, <2>2, ContentIs
  <2>5. a \in 1..Written /\ Written \in Int
    BY <1>2, <2>3, <2>4 DEF LinesAscend, Written, FilesTyped
  <2>6. b \in 1..Written /\ a <= b /\ a \in Int /\ b \in Int
    BY <1>6, <2>5
  <2>7. PICK i \in DOMAIN inode : \E y \in DOMAIN inode[i] : inode[i][y] = b
    BY <1>2, <1>6, <2>6 DEF NoGap
  <2>8. PICK y \in DOMAIN inode[i] : inode[i][y] = b
    BY <2>7
  <2>9. ~(i < path[n])
    <3>1. i < path[n] => b < a
      BY <1>2, <2>3, <2>4, <2>8 DEF LinesAscend
    <3> QED BY <2>6, <3>1
  <2>10. i \in path[n]..Len(inode)
    BY <1>3, <2>4, <2>9
  <2>11. \E k \in Slots : path[k] = i
    BY <1>2, <2>2, <2>10 DEF NewestHaveNames
  <2> QED BY <1>1, <2>8, <2>11, NamedIsStored
<1> QED BY <1>4, <1>5, <1>6 DEF LinesInOrder, Lossless

LEMMA RetentionIsKept == FilesInv => RetentionKept
<1>1. SUFFICES ASSUME FilesInv, failed = {} PROVE RetentionKept
  BY DEF RetentionKept
<1>2. FilesTyped /\ NoGap /\ AllFull /\ Lossless
  BY <1>1 DEF FilesInv, Lossless
<1> DEFINE N == Len(inode)
<1>3. /\ N \in Nat /\ N > 0 /\ DOMAIN inode = 1..N /\ Slots = 0..Keep /\ Archives = 1..Keep
      /\ Keep \in Nat /\ MaxBytes \in Nat
  BY <1>2, LogAssumption DEF FilesTyped, Slots, Archives
<1>4. /\ \A i \in DOMAIN inode : Len(inode[i]) <= MaxBytes
      /\ \A i \in DOMAIN inode : i < N => Len(inode[i]) = MaxBytes
      /\ drain = "reopen" => Len(inode[N]) = MaxBytes
      /\ drain # "reopen" => \A n \in Slots : path[n] = IF n < N THEN N - n ELSE NoFile
      /\ drain = "reopen" => \A n \in Archives : path[n] = IF n <= N THEN N + 1 - n ELSE NoFile
  BY <1>1, <1>2 DEF AllFull
<1> HIDE DEF N
<1>5. ASSUME NEW n \in Slots PROVE Len(Content(path[n])) <= MaxBytes
  <2>1. CASE path[n] = NoFile
    <3>1. Len(<<>>) = 0
      OBVIOUS
    <3> QED BY <1>1, <1>3, <2>1, <3>1, ContentIs
  <2>2. CASE path[n] # NoFile
    BY <1>1, <1>4, <2>2, ContentIs
  <2> QED BY <2>1, <2>2
<1>6. ASSUME NEW n \in Archives, path[n] # NoFile PROVE Len(Content(path[n])) = MaxBytes
  <2>1. n \in Slots /\ n \in Nat /\ n >= 1
    BY <1>3
  <2>2. path[n] \in DOMAIN inode /\ Content(path[n]) = inode[path[n]]
    BY <1>1, <1>6, <2>1, ContentIs
  <2>3. path[n] < N \/ (path[n] = N /\ drain = "reopen")
    BY <1>3, <1>4, <1>6, <2>1
  <2> QED BY <1>4, <2>2, <2>3
<1>7. ASSUME NEW n \in Archives, path[n] = NoFile, NEW b \in 1..Written PROVE b \in Stored
  <2>1. PICK i \in DOMAIN inode : \E a \in DOMAIN inode[i] : inode[i][a] = b
    BY <1>2 DEF NoGap
  <2>2. PICK a \in DOMAIN inode[i] : inode[i][a] = b
    BY <2>1
  <2>3. n \in Slots /\ n \in Nat /\ n >= 1 /\ n <= Keep /\ i \in Nat /\ 1 <= i /\ i <= N
    BY <1>3
  <2>4. \E k \in Slots : path[k] = i
    <3>1. CASE drain # "reopen"
      <4>1. ~(n < N)
        <5>1. n < N => path[n] = N - n
          BY <1>4, <2>3, <3>1
        <5> QED BY <1>3, <1>7, <2>3, <5>1 DEF NoFile
      <4>2. PICK k \in Slots : k = N - i
        BY <1>3, <2>3, <4>1
      <4>3. k < N /\ N - k = i
        BY <1>3, <2>3, <4>2
      <4> QED BY <1>4, <3>1, <4>3
    <3>2. CASE drain = "reopen"
      <4>1. ~(n <= N)
        <5>1. n <= N => path[n] = N + 1 - n
          BY <1>4, <3>2
        <5> QED BY <1>3, <1>7, <2>3, <5>1 DEF NoFile
      <4>2. PICK k \in Archives : k = N + 1 - i
        BY <1>3, <2>3, <4>1
      <4>3. k <= N /\ N + 1 - k = i /\ k \in Slots
        BY <1>3, <2>3, <4>2
      <4> QED BY <1>4, <3>2, <4>3
    <3> QED BY <3>1, <3>2
  <2> QED BY <1>1, <2>2, <2>4, NamedIsStored
<1>8. 1..Written \subseteq Stored \/ \A n \in Archives : path[n] # NoFile
  BY <1>7
<1> QED BY <1>5, <1>6, <1>8 DEF RetentionKept

(***************************************************************************)
(* The theorems.                                                           *)
(***************************************************************************)
\* The invariant holds in every state, whatever renames, opens and writes fail.
THEOREM StreamInductive == Spec => []StreamInv
<1>1. Init => StreamInv
  BY FilesInit, ViewerInit DEF StreamInv
<1>2. StreamInv /\ [Next]_vars => StreamInv'
  BY StreamNext
<1> QED BY <1>1, <1>2, PTL DEF Spec

\* Rotation (rotate.rs) keeps the order of the lines in falco.log and its archives whatever
\* fails; while every open and write succeeds it leaves none out between them; and while
\* every rename does too, no file grows past log_rotate_bytes, and nothing is dropped
\* before log_rotate_keep full archives are there.
THEOREM LogKept == Spec => []LogInv
<1>1. StreamInv => LogInv
  BY FilesAreTyped, OrderIsKept, RetentionIsKept DEF StreamInv, LogInv
<1> QED BY <1>1, StreamInductive, PTL

\* `premptictl logs` (logs_pretty.rs) shows an event with no milder a verdict than that of
\* its alerts that reached it on lines of their own, and with that one unless an open or a
\* write failed, wherever tail starts and whatever happens to its file meanwhile.
THEOREM ShownIsRaised == Spec => []ShownAsRaised
<1>1. StreamInv => ShownAsRaised
  BY DEF StreamInv, ViewerInv, BlocksAreRight, BlockIsRight, ShownAsRaised, Lossless
<1> QED BY <1>1, StreamInductive, PTL

(***************************************************************************)
(* The names of Codex sessions.  A look at the index takes its size, which *)
(* counts half records, and then reads it, and the agent may append in     *)
(* between: what was read may be more than the size says, and is then read *)
(* once more.  The reading may also fail, and yield less.                  *)
(***************************************************************************)
\* The names are those of the index as it was, at least up to lastLen.
IsCacheOf(index, content) ==
  \E n \in 0..Len(content) :
    2 * n + 1 >= index.lastLen /\ index.names = LoadIndex(SubSeq(content, 1, n))

\* A look, later than the last one that found the index, or one that does not find it.
IsLookAt(look, index, content) ==
  look.size # Missing =>
    /\ look.size \in index.lastLen..SizeOf(content)
    /\ \E n \in 0..Len(content) : look.content = SubSeq(content, 1, n)

\* It finds another size and reads what that size says, or finds the cache as it should be.
IsSound(look, index, content) ==
  IF look.size # Missing /\ HasChanged(index, look.size)
  THEN 2 * Len(look.content) + 1 >= look.size
  ELSE IsCacheOf(index, content)

LEMMA NewIndexIsCache ==
  ASSUME NEW Records, NEW content \in Seq(Records)
  PROVE  IsCacheOf(NewIndex, content)
<1>1. PICK none : none = SubSeq(content, 1, 0)
  OBVIOUS
<1>2. none = <<>> /\ DOMAIN none = {}
  BY <1>1
<1>3. LoadIndex(none) = <<>>
  <2>1. {none[n].id : n \in DOMAIN none} = {}
    BY <1>2
  <2>2. PICK names : names = LoadIndex(none)
    OBVIOUS
  <2>3. names = [id \in {} |-> names[id]]
    BY <2>1, <2>2 DEF LoadIndex
  <2>4. names \in [1..0 -> Nat]
    BY <2>3
  <2>5. names \in Seq(Nat) /\ Len(names) = 0
    BY <2>4
  <2> QED BY <2>2, <2>5
<1>4. NewIndex.lastLen = 0 /\ NewIndex.names = <<>>
  BY DEF NewIndex
<1>5. 0 \in 0..Len(content) /\ 2 * 0 + 1 >= 0
  OBVIOUS
<1> QED BY <1>1, <1>3, <1>4, <1>5 DEF IsCacheOf

LEMMA CacheOutlivesAppend ==
  ASSUME NEW Records, NEW content \in Seq(Records), NEW more \in Seq(Records),
         NEW index, index.lastLen \in Nat, IsCacheOf(index, content)
  PROVE  IsCacheOf(index, content \o more)
<1>1. PICK n \in 0..Len(content) :
        2 * n + 1 >= index.lastLen /\ index.names = LoadIndex(SubSeq(content, 1, n))
  BY DEF IsCacheOf
<1>2. Len(content) \in Nat /\ Len(more) \in Nat /\ Len(content \o more) = Len(content) + Len(more)
  OBVIOUS
<1>3. SubSeq(content \o more, 1, n) = SubSeq(content, 1, n)
  BY <1>1, <1>2
<1>4. n \in 0..Len(content \o more)
  BY <1>1, <1>2
<1> QED BY <1>1, <1>3, <1>4 DEF IsCacheOf

\* However the index grows between the looks, and while one is under way, a sound look
\* leaves the cache of the viewer (resolve_codex) one of the index as it was, and a look at
\* an index that nobody writes any more leaves the names it has.  A look that finds another
\* size is sound whatever the cache was, so it repairs what a failed reading left.
THEOREM IndexIsCurrent ==
  ASSUME NEW Records, NEW content \in Seq(Records),
         NEW index, index.lastLen \in Nat,
         NEW look, IsLookAt(look, index, content), IsSound(look, index, content)
  PROVE  LET after == ResolveCodex(index, look) IN
         /\ after.lastLen \in Nat /\ IsCacheOf(after, content)
         /\ look.size = SizeOf(content) => after.names = LoadIndex(content)
<1>1. PICK size \in Nat : size = Len(content)
  OBVIOUS
<1>2. SubSeq(content, 1, size) = content /\ SizeOf(content) = 2 * size
  BY <1>1 DEF SizeOf
<1>3. PICK after : after = ResolveCodex(index, look)
  OBVIOUS
<1>4. CASE look.size # Missing /\ look.size # index.lastLen
  <2>1. PICK n \in 0..size : look.content = SubSeq(content, 1, n)
    BY <1>1, <1>4 DEF IsLookAt
  <2>2. look.size \in Nat /\ look.size <= 2 * size
    BY <1>2, <1>4 DEF IsLookAt
  <2>3. after.lastLen = look.size /\ after.names = LoadIndex(look.content)
    BY <1>3, <1>4 DEF ResolveCodex, HasChanged
  <2>4. Len(look.content) = n
    BY <1>1, <2>1
  <2>5. 2 * n + 1 >= look.size
    BY <1>4, <2>4 DEF IsSound, HasChanged
  <2>6. IsCacheOf(after, content)
    BY <1>1, <2>1, <2>3, <2>5 DEF IsCacheOf
  <2>7. look.size = 2 * size => n = size
    BY <2>1, <2>5
  <2> QED BY <1>2, <1>3, <2>1, <2>2, <2>3, <2>6, <2>7
<1>5. CASE look.size = Missing \/ look.size = index.lastLen
  <2>1. after = index
    BY <1>3, <1>5 DEF ResolveCodex, HasChanged
  <2>2. IsCacheOf(index, content)
    BY <1>5 DEF IsSound, HasChanged
  <2>3. PICK n \in 0..size :
          2 * n + 1 >= index.lastLen /\ index.names = LoadIndex(SubSeq(content, 1, n))
    BY <1>1, <2>2 DEF IsCacheOf
  <2>4. look.size = 2 * size => n = size
    BY <1>5, <2>3 DEF Missing
  <2> QED BY <1>2, <1>3, <2>1, <2>2, <2>3, <2>4
<1> QED BY <1>4, <1>5
===============================================================================
