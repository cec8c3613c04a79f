--------------------------- MODULE SignoffCliProofs ----------------------------
(***************************************************************************)
(* Theorems about SignoffCli, for any number of calls, commands, keys and  *)
(* enrolments: what a released call was released on, that operators are    *)
(* told the truth, and that the watch asks about a call once.              *)
(***************************************************************************)
EXTENDS SignoffCli, FiniteSetTheorems, WellFoundedInduction, TLAPS

(***************************************************************************)
(* The invariant.                                                          *)
(***************************************************************************)
\* Between the choice of a call and the reply.
Busy == {"keys", "touch", "send", "verified", "reply"}
Decided(decision) == IF decision = "approve" THEN "allowed" ELSE "denied"

\* A client that is busy with a call has one and a decision about it; an approval
\* is asked for with a signature, which the plugin has checked once it is verified;
\* and what was answered is what became of the call.
Progress(s) ==
  /\ s.pc \in Busy => s.target \in Calls
  /\ s.pc \in Busy \union {"fetch"} => s.decision \in {"approve", "deny"}
  /\ s.pc \in {"keys", "touch"} => s.decision = "approve"
  /\ s.pc = "touch" => s.rp \in Rps
  /\ s.pc \in {"send", "verified"} /\ s.decision = "approve" => s.proof # {}
  /\ s.pc = "verified" => plugin.up /\ \A proof \in s.proof : Verifies(s.target, proof)
  /\ s.pc = "reply" => call[s.target] = Decided(s.decision)
  /\ s.pc = "approved" => s.target \in Calls /\ call[s.target] = "allowed"
  /\ s.pc = "denied" => s.target \in Calls /\ call[s.target] = "denied"

\* A command is about the call it names, the watch about one it has shown.
Meant(p, s) ==
  IF p = Watch
  THEN /\ s.pc \notin {"fetch", "approved", "denied", "failed"}
       /\ s.pc \in Busy \union {"prompt"} => s.target \in asked
       /\ s.pc \in {"off", "poll", "next"} => s.target = NoCall
  ELSE /\ s.pc \notin {"poll", "next", "prompt", "quit"}
       /\ s.pc \in Busy => s.named \in {s.target, CorrelationId(s.target)}

\* What the watch has asked about it has seen or is at, as long as it is held, and
\* is not on its list.
WatchKnows(s) ==
  /\ s.pc = "off" => asked = {}
  /\ \A c \in asked \union s.list : call[c] # "new"
  /\ s.pc \notin {"off", "quit"} =>
       \A c \in asked : /\ call[c] = "held" => c \in s.seen \union {s.target}
                        /\ c \in s.list => c \in s.seen

\* Who is enrolling has loaded every key that was reported and did not race.
UnderWay == {"touch", "save", "write"}

KeysAreLoaded ==
  /\ \A e \in Enrols : enrol[e].pc \in UnderWay => enrolled \ raced \subseteq enrol[e].keys
  /\ \A e \in Enrols : enrol[e].pc \in {"save", "write"} => enrol[e].key \in Keys
  /\ file.v # Torn => enrolled \ raced \subseteq file.keys
  /\ file.v = Torn => \E e \in Enrols : enrol[e].pc \in {"write", "failed"}

SInv ==
  /\ TypeOK
  /\ \A p \in Clients : Progress(client[p]) /\ Meant(p, client[p])
  /\ WatchKnows(client[Watch])
  /\ KeysAreLoaded

(***************************************************************************)
(* Helpers.                                                                *)
(***************************************************************************)
LEMMA LeastNat ==
  ASSUME NEW S, S \subseteq Nat, S # {}
  PROVE  \E m \in S : \A n \in S : m <= n
<1>1. PICK m \in S : \A n \in S : ~ (<<n, m>> \in OpToRel(<, Nat))
  BY NatLessThanWellFounded, WFMin
<1>2. ASSUME NEW n \in S PROVE m <= n
  <2>1. ~ (n < m)
    BY <1>1 DEF OpToRel
  <2> QED BY <2>1
<1> QED BY <1>2

LEMMA MinIsElement ==
  ASSUME NEW S, S \subseteq Nat, S # {} PROVE Min(S) \in S
BY LeastNat DEF Min

LEMMA ProofsAreFew ==
  /\ Cardinality({}) <= 1
  /\ \A x : Cardinality({x}) <= 1
BY FS_EmptySet, FS_Singleton

LEMMA ClientsAre ==
  Watch \in Clients /\ Commands \subseteq Clients /\ Watch \notin Commands /\ NoCall \notin Calls
  /\ (\A p \in Clients : p # Watch => p \in Commands)
BY SignoffAssumption DEF Clients, Watch, NoCall

LEMMA RestingIs ==
  /\ Resting \in ClientStates /\ Resting.pc = "off" /\ Resting.target = NoCall
  /\ Resting.proof = {} /\ Resting.seen = {} /\ Resting.list = {}
BY DEF Resting, ClientStates, ClientPcs

\* Where a client goes from a call.
Gone(p, s, o, t) ==
  /\ t \in ClientStates /\ t.proof = {}
  /\ IF p = Watch
     THEN /\ t.pc = "next" /\ t.target = NoCall /\ t.list = s.list
          /\ t.seen = s.seen \union {s.target}
     ELSE /\ t.pc = o /\ t.target = IF o = "failed" THEN NoCall ELSE s.target

LEMMA GoesTo ==
  ASSUME TypeOK, NEW p \in Clients, NEW o \in {"failed", "approved", "denied", "skipped"},
         p = Watch => client[p].target \in Calls, p # Watch => o # "skipped"
  PROVE  Gone(p, client[p], o, Goes(p, o))
<1>1. client[p] \in ClientStates
  BY DEF TypeOK
<1>2. CASE p = Watch
  <2>1. Goes(p, o) = [client[p] EXCEPT !.pc = "next", !.seen = @ \union {client[p].target},
                         !.target = NoCall, !.decision = "", !.keys = {}, !.rp = "",
                         !.proof = {}]
    BY <1>2 DEF Goes
  <2>2. client[p].seen \union {client[p].target} \in SUBSET Calls
    BY <1>1, <1>2 DEF ClientStates
  <2>3. Goes(p, o) \in ClientStates
    BY <1>1, <2>1, <2>2 DEF ClientStates, ClientPcs
  <2>4. /\ Goes(p, o).proof = {} /\ Goes(p, o).pc = "next" /\ Goes(p, o).target = NoCall
        /\ Goes(p, o).list = client[p].list
        /\ Goes(p, o).seen = client[p].seen \union {client[p].target}
    BY <1>1, <2>1 DEF ClientStates
  <2> QED BY <1>2, <2>3, <2>4 DEF Gone
<1>3. CASE p # Watch
  <2>1. PICK t \in Calls \union {NoCall} :
          /\ t = IF o = "failed" THEN NoCall ELSE client[p].target
          /\ Goes(p, o) = [Resting EXCEPT !.pc = o, !.target = t]
    BY <1>1, <1>3 DEF Goes, ClientStates
  <2>2. o \in ClientPcs
    BY <1>3 DEF ClientPcs
  <2>3. /\ Goes(p, o) \in ClientStates /\ Goes(p, o).proof = {} /\ Goes(p, o).pc = o
        /\ Goes(p, o).target = t
    BY <2>1, <2>2, RestingIs DEF ClientStates
  <2> QED BY <1>3, <2>1, <2>3 DEF Gone
<1> QED BY <1>2, <1>3

LEMMA Moves ==
  ASSUME TypeOK, NEW p \in Clients, NEW next \in ClientStates, ClientMoves(p, next)
  PROVE  /\ client' \in [Clients -> ClientStates] /\ client'[p] = next
         /\ \A q \in Clients : q # p => client'[q] = client[q]
         /\ UNCHANGED <<file, conf, plugin, enrol, enrolled, raced>>
BY DEF ClientMoves, TypeOK

\* The answer to a call stays, and the watch's knowledge with it.
CallsStay ==
  /\ call' \in [Calls -> {"new", "held", "allowed", "denied", "gone"}]
  /\ \A c \in Calls : call[c] \in {"allowed", "denied"} => call'[c] = call[c]
  /\ \A c \in Calls : call[c] # "new" => call'[c] # "new"

LEMMA ProgressStays ==
  ASSUME CallsStay, NEW p, client'[p] = client[p],
         client[p].pc = "verified" => UNCHANGED plugin, Progress(client[p])
  PROVE  Progress(client[p])'
<1>1. client[p].pc = "reply" => call'[client[p].target] = call[client[p].target]
  BY DEF Progress, CallsStay, Decided, Busy
<1> QED BY <1>1 DEF Progress, CallsStay, Verifies, Busy

(***************************************************************************)
(* A step of a client.                                                     *)
(***************************************************************************)
\* Client p alone moves, by what the invariant is about.
Steps(p) ==
  /\ client' \in [Clients -> ClientStates]
  /\ \A q \in Clients : q # p => client'[q] = client[q]
  /\ Cardinality(client'[p].proof) <= 1
  /\ UNCHANGED <<file, conf, plugin, enrol, enrolled, raced>>
  /\ asked' \subseteq Calls /\ asked \subseteq asked'
  /\ p # Watch => asked' = asked
  /\ CallsStay
  /\ \A c \in asked : call[c] # "held" => call'[c] = call[c]
  /\ Progress(client[p])' /\ Meant(p, client[p])'
  /\ p = Watch => WatchKnows(client[Watch])'

LEMMA StepKeeps ==
  ASSUME SInv, NEW p \in Clients, Steps(p) PROVE SInv'
<1>1. TypeOK'
  BY DEF SInv, TypeOK, Steps, CallsStay
<1>2. ASSUME NEW q \in Clients PROVE Progress(client[q])' /\ Meant(q, client[q])'
  <2>1. CASE q = p
    BY <2>1 DEF Steps
  <2>2. CASE q # p
    <3>1. client'[q] = client[q] /\ UNCHANGED plugin /\ CallsStay /\ asked \subseteq asked'
      BY <2>2 DEF Steps
    <3>2. Progress(client[q]) /\ Meant(q, client[q])
      BY DEF SInv
    <3>3. Progress(client[q])'
      BY <3>1, <3>2, ProgressStays
    <3>4. Meant(q, client[q])'
      BY <3>1, <3>2 DEF Meant
    <3> QED BY <3>3, <3>4
  <2> QED BY <2>1, <2>2
<1>3. WatchKnows(client[Watch])'
  <2>1. CASE p = Watch
    BY <2>1 DEF Steps
  <2>2. CASE p # Watch
    <3>1. client'[Watch] = client[Watch] /\ asked' = asked
      BY <2>2, ClientsAre DEF Steps
    <3>2. WatchKnows(client[Watch])
      BY DEF SInv
    <3>3. client[Watch].list \subseteq Calls /\ asked \subseteq Calls
      BY ClientsAre DEF SInv, TypeOK, ClientStates
    <3> QED BY <3>1, <3>2, <3>3 DEF WatchKnows, Steps, CallsStay
  <2> QED BY <2>1, <2>2
<1>4. KeysAreLoaded'
  BY DEF SInv, KeysAreLoaded, Steps
<1> QED BY <1>1, <1>2, <1>3, <1>4 DEF SInv

\* A client that moves while calls stay as they are.
LEMMA QuietStep ==
  ASSUME SInv, NEW p \in Clients, NEW next \in ClientStates, ClientMoves(p, next),
         UNCHANGED <<call, asked>>, Cardinality(next.proof) <= 1,
         Progress(next), Meant(p, next), p = Watch => WatchKnows(next)
  PROVE  SInv'
<1>1. /\ client' \in [Clients -> ClientStates] /\ client'[p] = next
      /\ \A q \in Clients : q # p => client'[q] = client[q]
      /\ UNCHANGED <<file, conf, plugin, enrol, enrolled, raced>>
  BY Moves DEF SInv
<1>2. CallsStay
  BY DEF SInv, TypeOK, CallsStay
<1>3. Progress(client[p])'
  BY <1>1 DEF Progress, Verifies
<1>4. Meant(p, client[p])'
  BY <1>1 DEF Meant
<1>5. p = Watch => WatchKnows(client[Watch])'
  BY <1>1 DEF WatchKnows
<1>6. \A c \in asked : call[c] # "new"
  BY DEF SInv, WatchKnows
<1>7. Steps(p)
  BY <1>1, <1>2, <1>3, <1>4, <1>5, <1>6 DEF SInv, TypeOK, Steps
<1> QED BY <1>7, StepKeeps

LEMMA GivesUpKeeps ==
  ASSUME SInv, NEW p \in Clients, ClientMoves(p, Goes(p, "failed")), UNCHANGED <<call, asked>>,
         client[p].pc \in Busy \union {"fetch"}
  PROVE  SInv'
<1>1. TypeOK /\ Progress(client[p]) /\ Meant(p, client[p]) /\ WatchKnows(client[Watch])
  BY DEF SInv
<1>2. p = Watch => client[p].target \in Calls
  BY <1>1 DEF Progress, Meant
<1>3. Gone(p, client[p], "failed", Goes(p, "failed"))
  BY <1>1, <1>2, GoesTo
<1>4. PICK next \in ClientStates : next = Goes(p, "failed")
  BY <1>3 DEF Gone
<1>5. Gone(p, client[p], "failed", next) /\ ClientMoves(p, next)
  BY <1>3, <1>4
<1>6. Progress(next) /\ Meant(p, next)
  BY <1>5 DEF Gone, Progress, Meant, Busy
<1>7. p = Watch => WatchKnows(next)
  BY <1>1, <1>5 DEF Gone, WatchKnows, Busy
<1>8. Cardinality(next.proof) <= 1
  BY <1>5, ProofsAreFew DEF Gone
<1> QED BY <1>4, <1>5, <1>6, <1>7, <1>8, QuietStep

\* A client stays with its call.
LEMMA SameCall ==
  ASSUME SInv, NEW p \in Clients, client[p].pc \in Busy \union {"prompt"}, NEW next \in ClientStates,
         next.pc \in Busy, next.target = client[p].target, next.named = client[p].named,
         next.list = client[p].list, next.seen = client[p].seen
  PROVE  Meant(p, next) /\ (p = Watch => WatchKnows(next))
<1>1. Meant(p, client[p]) /\ WatchKnows(client[Watch])
  BY DEF SInv
<1>2. Meant(p, next)
  BY <1>1 DEF Meant, Busy
<1>3. p = Watch => WatchKnows(next)
  BY <1>1 DEF WatchKnows, Busy
<1> QED BY <1>2, <1>3

LEMMA TypesKeeps ==
  ASSUME SInv, NEW p \in Commands, NEW decision \in {"approve", "deny"}, NEW pin \in BOOLEAN,
         NEW n \in Names, Types(p, decision, n, pin)
  PROVE  SInv'
<1>1. PICK next : next = [Resting EXCEPT !.pc = "fetch", !.decision = decision, !.named = n, !.pin = pin]
  OBVIOUS
<1>2. /\ next \in ClientStates /\ next.pc = "fetch" /\ next.decision = decision /\ next.proof = {}
  BY <1>1, RestingIs DEF ClientStates, ClientPcs
<1>3. p \in Clients /\ p # Watch
  BY ClientsAre
<1>4. Progress(next) /\ Meant(p, next)
  BY <1>2, <1>3 DEF Progress, Meant, Busy
<1>5. ClientMoves(p, next) /\ UNCHANGED <<call, asked>>
  BY <1>1 DEF Types
<1> QED BY <1>2, <1>3, <1>4, <1>5, QuietStep, ProofsAreFew

LEMMA FetchesKeeps ==
  ASSUME SInv, NEW p \in Clients, Fetches(p) PROVE SInv'
<1>1. /\ client[p].pc = "fetch" /\ client[p] \in ClientStates /\ Cardinality(client[p].proof) <= 1
      /\ Progress(client[p]) /\ Meant(p, client[p])
  BY DEF Fetches, SInv, TypeOK
<1>2. p # Watch
  BY <1>1 DEF Meant
<1> DEFINE found == IF plugin.up THEN FindTarget(Held, client[p].named) ELSE {}
<1>3. CASE found = {}
  BY <1>1, <1>3, GivesUpKeeps DEF Fetches
<1>4. CASE found # {}
  <2>1. PICK c \in found : c = CHOOSE d \in found : TRUE
    BY <1>4
  <2>2. c \in Calls /\ client[p].named \in {c, CorrelationId(c)}
    BY <2>1 DEF FindTarget, Held
  <2>3. PICK next : next = [client[p] EXCEPT !.target = c,
                               !.pc = IF client[p].decision = "approve" THEN "keys" ELSE "send"]
    OBVIOUS
  <2>4. /\ next \in ClientStates /\ next.target = c /\ next.decision = client[p].decision
        /\ next.pc = (IF client[p].decision = "approve" THEN "keys" ELSE "send")
        /\ next.named = client[p].named /\ next.proof = client[p].proof
    BY <1>1, <2>2, <2>3 DEF ClientStates, ClientPcs
  <2>5. Progress(next) /\ Meant(p, next)
    BY <1>1, <1>2, <2>2, <2>4 DEF Progress, Meant, Busy
  <2>6. ClientMoves(p, next) /\ UNCHANGED <<call, asked>>
    BY <1>4, <2>1, <2>3 DEF Fetches
  <2> QED BY <1>1, <1>2, <2>4, <2>5, <2>6, QuietStep
<1> QED BY <1>3, <1>4

LEMMA ReadsKeysKeeps ==
  ASSUME SInv, NEW p \in Clients, ReadsKeys(p) PROVE SInv'
<1>1. /\ client[p].pc = "keys" /\ client[p] \in ClientStates /\ Cardinality(client[p].proof) <= 1
      /\ Progress(client[p]) /\ file.keys \in SUBSET Keys /\ conf.rp \in Rps
  BY DEF ReadsKeys, SInv, TypeOK
<1>2. CASE ~(Readable /\ LoadKeys /= {})
  BY <1>1, <1>2, GivesUpKeeps DEF ReadsKeys, Busy
<1>3. CASE Readable /\ LoadKeys /= {}
  <2>1. PICK next : next = [client[p] EXCEPT !.pc = "touch", !.keys = file.keys, !.rp = conf.rp]
    OBVIOUS
  <2>2. /\ next \in ClientStates /\ next.pc = "touch" /\ next.target = client[p].target
        /\ next.decision = client[p].decision /\ next.rp = conf.rp /\ next.proof = client[p].proof
        /\ next.named = client[p].named /\ next.list = client[p].list /\ next.seen = client[p].seen
    BY <1>1, <2>1 DEF ClientStates, ClientPcs
  <2>3. Progress(next)
    BY <1>1, <2>2 DEF Progress, Busy
  <2>4. Meant(p, next) /\ (p = Watch => WatchKnows(next))
    BY <1>1, <2>2, SameCall DEF Busy
  <2>5. ClientMoves(p, next) /\ UNCHANGED <<call, asked>>
    BY <1>3, <2>1 DEF ReadsKeys, LoadKeys
  <2> QED BY <1>1, <2>2, <2>3, <2>4, <2>5, QuietStep
<1> QED BY <1>2, <1>3

LEMMA TouchesKeeps ==
  ASSUME SInv, NEW p \in Clients, Touches(p) PROVE SInv'
<1>1. /\ client[p].pc = "touch" /\ client[p] \in ClientStates /\ Progress(client[p])
      /\ client[p].target \in Calls /\ client[p].rp \in Rps /\ client[p].pin \in BOOLEAN
      /\ client[p].keys \subseteq Keys
  BY DEF Touches, SInv, TypeOK, Progress, Busy, ClientStates
<1>2. CASE ClientMoves(p, Goes(p, "failed"))
  BY <1>1, <1>2, GivesUpKeeps DEF Touches, Busy
<1>3. CASE ~ClientMoves(p, Goes(p, "failed"))
  <2>1. PICK k \in client[p].keys :
          LET proof == [call |-> client[p].target, key |-> k, rp |-> client[p].rp,
                        uv |-> client[p].pin]
          IN ClientMoves(p, [client[p] EXCEPT !.pc = "send", !.proof = {proof},
                                              !.keys = {}, !.rp = ""])
    BY <1>3 DEF Touches
  <2>2. PICK proof \in Proofs :
          proof = [call |-> client[p].target, key |-> k, rp |-> client[p].rp, uv |-> client[p].pin]
    BY <1>1 DEF Proofs
  <2>3. PICK next : next = [client[p] EXCEPT !.pc = "send", !.proof = {proof}, !.keys = {}, !.rp = ""]
    OBVIOUS
  <2>4. /\ next \in ClientStates /\ next.pc = "send" /\ next.target = client[p].target
        /\ next.decision = client[p].decision /\ next.proof = {proof}
        /\ next.named = client[p].named /\ next.list = client[p].list /\ next.seen = client[p].seen
    BY <1>1, <2>3 DEF ClientStates, ClientPcs
  <2>5. Progress(next)
    BY <1>1, <2>4 DEF Progress, Busy
  <2>6. Meant(p, next) /\ (p = Watch => WatchKnows(next))
    BY <1>1, <2>4, SameCall DEF Busy
  <2>7. ClientMoves(p, next) /\ UNCHANGED <<call, asked>>
    BY <2>1, <2>2, <2>3 DEF Touches
  <2> QED BY <2>4, <2>5, <2>6, <2>7, QuietStep, ProofsAreFew
<1> QED BY <1>2, <1>3

LEMMA AsksKeeps ==
  ASSUME SInv, NEW p \in Clients, Asks(p) PROVE SInv'
<1>1. /\ client[p].pc = "send" /\ client[p] \in ClientStates /\ Cardinality(client[p].proof) <= 1
      /\ Progress(client[p]) /\ UNCHANGED <<call, asked>>
  BY DEF Asks, SInv, TypeOK
<1> DEFINE c == client[p].target
           granted == plugin.up /\ call[c] = "held" /\ \A proof \in client[p].proof : Verifies(c, proof)
<1>2. CASE ~granted
  BY <1>1, <1>2, GivesUpKeeps DEF Asks, Busy
<1>3. CASE granted
  <2>1. PICK next : next = [client[p] EXCEPT !.pc = "verified"]
    OBVIOUS
  <2>2. /\ next \in ClientStates /\ next.pc = "verified" /\ next.target = client[p].target
        /\ next.decision = client[p].decision /\ next.proof = client[p].proof
        /\ next.named = client[p].named /\ next.list = client[p].list /\ next.seen = client[p].seen
    BY <1>1, <2>1 DEF ClientStates, ClientPcs
  <2>3. Progress(next)
    BY <1>1, <1>3, <2>2 DEF Progress, Busy
  <2>4. Meant(p, next) /\ (p = Watch => WatchKnows(next))
    BY <1>1, <2>2, SameCall DEF Busy
  <2>5. ClientMoves(p, next)
    BY <1>3, <2>1 DEF Asks
  <2> QED BY <1>1, <2>2, <2>3, <2>4, <2>5, QuietStep
<1> QED BY <1>2, <1>3

LEMMA ResolvesKeeps ==
  ASSUME SInv, NEW p \in Clients, Resolves(p) PROVE SInv'
<1>1. /\ client[p].pc = "verified" /\ client[p] \in ClientStates /\ Progress(client[p])
      /\ client[p].target \in Calls /\ client[p].decision \in {"approve", "deny"}
      /\ asked' = asked /\ call \in [Calls -> {"new", "held", "allowed", "denied", "gone"}]
      /\ asked \subseteq Calls /\ TypeOK
  BY DEF Resolves, SInv, TypeOK, Progress, Busy
<1>2. CASE call[client[p].target] # "held"
  BY <1>1, <1>2, GivesUpKeeps DEF Resolves, Busy
<1>3. CASE call[client[p].target] = "held"
  <2>1. PICK next : next = [client[p] EXCEPT !.pc = "reply", !.proof = {}]
    OBVIOUS
  <2>2. /\ next \in ClientStates /\ next.pc = "reply" /\ next.target = client[p].target
        /\ next.decision = client[p].decision /\ next.proof = {}
        /\ next.named = client[p].named /\ next.list = client[p].list /\ next.seen = client[p].seen
    BY <1>1, <2>1 DEF ClientStates, ClientPcs
  <2>3. /\ ClientMoves(p, next)
        /\ call' = [call EXCEPT ![client[p].target] = Decided(client[p].decision)]
    BY <1>3, <2>1 DEF Resolves, Decided
  <2>4. /\ CallsStay /\ call'[client[p].target] = Decided(client[p].decision)
        /\ \A c \in Calls : call[c] # "held" => call'[c] = call[c]
        /\ \A c \in Calls : call'[c] = call[c] \/ call'[c] \in {"allowed", "denied"}
    BY <1>1, <1>3, <2>3 DEF CallsStay, Decided
  <2>5. /\ client' \in [Clients -> ClientStates] /\ client'[p] = next
        /\ \A q \in Clients : q # p => client'[q] = client[q]
        /\ UNCHANGED <<file, conf, plugin, enrol, enrolled, raced>>
    BY <1>1, <2>2, <2>3, Moves
  <2>6. Meant(p, next) /\ (p = Watch => WatchKnows(next))
    BY <1>1, <2>2, SameCall DEF Busy
  <2>7. Progress(client[p])'
    BY <1>1, <2>2, <2>4, <2>5 DEF Progress, Busy
  <2>8. Meant(p, client[p])'
    BY <1>1, <2>5, <2>6 DEF Meant
  <2>9. /\ \A c \in asked : call'[c] = "held" => call[c] = "held"
        /\ next.list \subseteq Calls
    BY <1>1, <2>2, <2>4 DEF ClientStates
  <2>10. p = Watch => WatchKnows(client[Watch])'
    BY <1>1, <2>4, <2>5, <2>6, <2>9 DEF WatchKnows, CallsStay
  <2>11. Cardinality(client'[p].proof) <= 1
    BY <2>2, <2>5, ProofsAreFew
  <2>12. Steps(p)
    BY <1>1, <2>4, <2>5, <2>7, <2>8, <2>9, <2>10, <2>11 DEF Steps
  <2> QED BY <2>12, StepKeeps
<1> QED BY <1>2, <1>3

LEMMA ReportsKeeps ==
  ASSUME SInv, NEW p \in Clients, Reports(p) PROVE SInv'
<1>1. /\ client[p].pc = "reply" /\ TypeOK /\ Progress(client[p]) /\ Meant(p, client[p])
      /\ client[p].target \in Calls /\ client[p].decision \in {"approve", "deny"}
      /\ UNCHANGED <<call, asked>> /\ WatchKnows(client[Watch])
      /\ call[client[p].target] = Decided(client[p].decision)
  BY DEF Reports, SInv, Progress, Busy
<1>2. PICK o \in {"approved", "denied"} :
         o = IF client[p].decision = "approve" THEN "approved" ELSE "denied"
  OBVIOUS
<1>3. Gone(p, client[p], o, Goes(p, o))
  BY <1>1, GoesTo
<1>4. PICK next \in ClientStates : next = Goes(p, o)
  BY <1>3 DEF Gone
<1>5. Gone(p, client[p], o, next) /\ ClientMoves(p, next)
  BY <1>2, <1>3, <1>4 DEF Reports
<1>6. Progress(next) /\ Meant(p, next)
  BY <1>1, <1>2, <1>5 DEF Gone, Progress, Meant, Busy, Decided
<1>7. p = Watch => WatchKnows(next)
  BY <1>1, <1>5 DEF Gone, WatchKnows
<1>8. Cardinality(next.proof) <= 1
  BY <1>5, ProofsAreFew DEF Gone
<1> QED BY <1>1, <1>4, <1>5, <1>6, <1>7, <1>8, QuietStep

LEMMA AdvancesKeeps ==
  ASSUME SInv, NEW p \in Clients, Advances(p) PROVE SInv'
BY FetchesKeeps, ReadsKeysKeeps, TouchesKeeps, AsksKeeps, ResolvesKeeps, ReportsKeeps DEF Advances

(***************************************************************************)
(* A step of the watch.                                                    *)
(***************************************************************************)
LEMMA WatchStartsKeeps ==
  ASSUME SInv, NEW pin \in BOOLEAN, WatchStarts(pin) PROVE SInv'
<1>1. PICK next : next = [Resting EXCEPT !.pc = "poll", !.pin = pin]
  OBVIOUS
<1>2. /\ next \in ClientStates /\ next.pc = "poll" /\ next.proof = {} /\ next.target = NoCall
      /\ next.list = {}
  BY <1>1, RestingIs DEF ClientStates, ClientPcs
<1>3. Progress(next) /\ Meant(Watch, next)
  BY <1>2 DEF Progress, Meant, Busy
<1>4. asked = {}
  BY DEF WatchStarts, SInv, WatchKnows
<1>5. WatchKnows(next)
  BY <1>2, <1>4 DEF WatchKnows
<1>6. ClientMoves(Watch, next) /\ UNCHANGED <<call, asked>>
  BY <1>1 DEF WatchStarts
<1> QED BY <1>2, <1>3, <1>5, <1>6, QuietStep, ProofsAreFew, ClientsAre

LEMMA PollsKeeps ==
  ASSUME SInv, Polls PROVE SInv'
<1>1. /\ client[Watch].pc = "poll" /\ client[Watch] \in ClientStates
      /\ Cardinality(client[Watch].proof) <= 1 /\ Meant(Watch, client[Watch])
      /\ WatchKnows(client[Watch]) /\ asked \subseteq Calls
  BY ClientsAre DEF Polls, SInv, TypeOK
<1>2. PICK next : next = [client[Watch] EXCEPT !.pc = "next", !.list = Held,
                                               !.seen = @ \intersect Held]
  OBVIOUS
<1>3. Held \in SUBSET Calls /\ client[Watch].seen \intersect Held \in SUBSET Calls
  BY DEF Held
<1>4. /\ next \in ClientStates /\ next.pc = "next" /\ next.target = client[Watch].target
      /\ next.list = Held /\ next.seen = client[Watch].seen \intersect Held
      /\ next.proof = client[Watch].proof
  BY <1>1, <1>2, <1>3 DEF ClientStates, ClientPcs
<1>5. Progress(next) /\ Meant(Watch, next)
  BY <1>1, <1>4 DEF Progress, Meant, Busy
<1>6. WatchKnows(next)
  BY <1>1, <1>4, ClientsAre DEF WatchKnows, Meant, Held
<1>7. ClientMoves(Watch, next) /\ UNCHANGED <<call, asked>>
  BY <1>2 DEF Polls
<1> QED BY <1>1, <1>4, <1>5, <1>6, <1>7, QuietStep, ClientsAre

LEMMA PromptsKeeps ==
  ASSUME SInv, Prompts PROVE SInv'
<1>1. /\ client[Watch].pc = "next" /\ client[Watch] \in ClientStates /\ TypeOK
      /\ Cardinality(client[Watch].proof) <= 1 /\ Meant(Watch, client[Watch])
      /\ WatchKnows(client[Watch]) /\ asked \subseteq Calls /\ call' = call
      /\ client[Watch].list \subseteq Calls
  BY ClientsAre DEF Prompts, SInv, TypeOK, ClientStates
<1>2. PICK todo \in SUBSET Calls : todo = client[Watch].list \ client[Watch].seen
  BY <1>1
<1>3. CASE todo = {}
  <2>1. PICK next : next = [client[Watch] EXCEPT !.pc = "poll", !.list = {}]
    OBVIOUS
  <2>2. /\ next \in ClientStates /\ next.pc = "poll" /\ next.target = client[Watch].target
        /\ next.list = {} /\ next.seen = client[Watch].seen /\ next.proof = client[Watch].proof
    BY <1>1, <2>1 DEF ClientStates, ClientPcs
  <2>3. Progress(next) /\ Meant(Watch, next) /\ WatchKnows(next)
    BY <1>1, <2>2 DEF Progress, Meant, Busy, WatchKnows
  <2>4. ClientMoves(Watch, next) /\ UNCHANGED <<call, asked>>
    BY <1>2, <1>3, <2>1 DEF Prompts
  <2> QED BY <1>1, <2>2, <2>3, <2>4, QuietStep, ClientsAre
<1>4. CASE todo # {}
  <2>1. PICK c \in todo : c = Min(todo)
    BY <1>4, MinIsElement, SignoffAssumption
  <2>2. PICK next : next = [client[Watch] EXCEPT !.pc = "prompt", !.target = c, !.list = todo \ {c}]
    OBVIOUS
  <2>3. /\ ClientMoves(Watch, next) /\ asked' = asked \union {c}
    BY <1>2, <1>4, <2>1, <2>2 DEF Prompts
  <2>4. todo \ {c} \in SUBSET Calls /\ c \in Calls
    OBVIOUS
  <2>5. /\ next \in ClientStates /\ next.pc = "prompt" /\ next.target = c
        /\ next.list = todo \ {c} /\ next.seen = client[Watch].seen
        /\ next.proof = client[Watch].proof
    BY <1>1, <2>2, <2>4 DEF ClientStates, ClientPcs
  <2>6. /\ client' \in [Clients -> ClientStates] /\ client'[Watch] = next
        /\ \A q \in Clients : q # Watch => client'[q] = client[q]
        /\ UNCHANGED <<file, conf, plugin, enrol, enrolled, raced>>
    BY <1>1, <2>3, <2>5, Moves, ClientsAre
  <2>7. CallsStay
    BY <1>1 DEF TypeOK, CallsStay
  <2>8. Progress(client[Watch])' /\ Meant(Watch, client[Watch])'
    BY <2>3, <2>5, <2>6 DEF Progress, Meant, Busy
  <2>9. WatchKnows(client[Watch])'
    <3>1. call[c] # "new"
      BY <1>1, <1>2 DEF WatchKnows
    <3>2. \A d \in asked : call[d] = "held" => d \in client[Watch].seen
      BY <1>1, ClientsAre DEF WatchKnows, Meant
    <3> QED BY <1>1, <1>2, <2>3, <2>5, <2>6, <3>1, <3>2 DEF WatchKnows
  <2>10. Steps(Watch)
    BY <1>1, <2>3, <2>4, <2>5, <2>6, <2>7, <2>8, <2>9 DEF Steps, WatchKnows
  <2> QED BY <2>10, StepKeeps, ClientsAre
<1> QED BY <1>3, <1>4

LEMMA AnswersKeeps ==
  ASSUME SInv, Answers PROVE SInv'
<1>1. /\ client[Watch].pc = "prompt" /\ client[Watch] \in ClientStates /\ TypeOK
      /\ Cardinality(client[Watch].proof) <= 1 /\ Meant(Watch, client[Watch])
      /\ WatchKnows(client[Watch]) /\ UNCHANGED <<call, asked>>
      /\ client[Watch].target \in Calls
  BY ClientsAre DEF Answers, Quits, Chooses, SInv, TypeOK, ClientStates, Meant
<1>2. ASSUME Quits PROVE SInv'
  <2>1. PICK next : next = [Resting EXCEPT !.pc = "quit"]
    OBVIOUS
  <2>2. next \in ClientStates /\ next.pc = "quit" /\ next.proof = {} /\ next.list = {}
    BY <2>1, RestingIs DEF ClientStates, ClientPcs
  <2>3. Progress(next) /\ Meant(Watch, next) /\ WatchKnows(next)
    BY <1>1, <2>2 DEF Progress, Meant, Busy, WatchKnows
  <2>4. ClientMoves(Watch, next)
    BY <1>2, <2>1 DEF Quits
  <2> QED BY <1>1, <2>2, <2>3, <2>4, QuietStep, ProofsAreFew, ClientsAre
<1>3. ASSUME Chooses("skip") PROVE SInv'
  <2>1. ClientMoves(Watch, Goes(Watch, "skipped"))
    BY <1>3 DEF Chooses
  <2>2. Gone(Watch, client[Watch], "skipped", Goes(Watch, "skipped"))
    BY <1>1, GoesTo, ClientsAre
  <2>3. PICK next \in ClientStates : next = Goes(Watch, "skipped")
    BY <2>2 DEF Gone
  <2>4. Gone(Watch, client[Watch], "skipped", next) /\ ClientMoves(Watch, next)
    BY <2>1, <2>2, <2>3
  <2>5. Progress(next) /\ Meant(Watch, next) /\ WatchKnows(next)
    BY <1>1, <2>4 DEF Gone, Progress, Meant, Busy, WatchKnows
  <2>6. Cardinality(next.proof) <= 1
    BY <2>4, ProofsAreFew DEF Gone
  <2> QED BY <1>1, <2>4, <2>5, <2>6, QuietStep, ClientsAre
<1>4. ASSUME NEW pc \in {"keys", "send"}, NEW decision \in {"approve", "deny"},
             pc = "keys" <=> decision = "approve",
             ClientMoves(Watch, [client[Watch] EXCEPT !.pc = pc, !.decision = decision])
      PROVE  SInv'
  <2>1. PICK next : next = [client[Watch] EXCEPT !.pc = pc, !.decision = decision]
    OBVIOUS
  <2>2. /\ next \in ClientStates /\ next.pc = pc /\ next.target = client[Watch].target
        /\ next.decision = decision /\ next.proof = client[Watch].proof
        /\ next.named = client[Watch].named /\ next.list = client[Watch].list
        /\ next.seen = client[Watch].seen
    BY <1>1, <2>1 DEF ClientStates, ClientPcs
  <2>3. Progress(next)
    BY <1>1, <1>4, <2>2 DEF Progress, Busy
  <2>4. Meant(Watch, next) /\ WatchKnows(next)
    BY <1>1, <1>4, <2>2, SameCall, ClientsAre DEF Busy
  <2> QED BY <1>1, <1>4, <2>1, <2>2, <2>3, <2>4, QuietStep, ClientsAre
<1>5. ASSUME Chooses("approve") PROVE SInv'
  <2>1. ClientMoves(Watch, [client[Watch] EXCEPT !.pc = "keys", !.decision = "approve"])
    BY <1>5 DEF Chooses
  <2> QED BY <1>4, <2>1
<1>6. ASSUME Chooses("deny") PROVE SInv'
  <2>1. ClientMoves(Watch, [client[Watch] EXCEPT !.pc = "send", !.decision = "deny"])
    BY <1>6 DEF Chooses
  <2> QED BY <1>4, <2>1
<1> QED BY <1>2, <1>3, <1>5, <1>6 DEF Answers

(***************************************************************************)
(* A step of the plugin, of a call's life and of the configuration.        *)
(***************************************************************************)
LEMMA WatchStays ==
  ASSUME CallsStay, \A c \in Calls : call'[c] = "held" => call[c] = "held" \/ c \notin asked,
         client[Watch].list \subseteq Calls, asked \subseteq Calls, asked' = asked,
         client'[Watch] = client[Watch], WatchKnows(client[Watch])
  PROVE  WatchKnows(client[Watch])'
BY DEF CallsStay, WatchKnows

LEMMA PluginStartsKeeps ==
  ASSUME SInv, PluginStarts PROVE SInv'
<1>1. TypeOK'
  BY DEF PluginStarts, PluginLoads, SInv, TypeOK
<1>2. CallsStay /\ UNCHANGED <<client, asked, call>>
  BY DEF PluginStarts, CallsStay, SInv, TypeOK
<1>3. ASSUME NEW p \in Clients PROVE Progress(client[p])' /\ Meant(p, client[p])'
  <2>1. Progress(client[p]) /\ Meant(p, client[p])
    BY DEF SInv
  <2>2. client[p].pc # "verified"
    BY <2>1 DEF PluginStarts, Progress
  <2>3. Progress(client[p])'
    BY <1>2, <2>1, <2>2, ProgressStays
  <2> QED BY <1>2, <2>1, <2>3 DEF Meant
<1>4. WatchKnows(client[Watch])'
  BY <1>2 DEF SInv, WatchKnows
<1>5. KeysAreLoaded'
  BY DEF PluginStarts, SInv, KeysAreLoaded
<1> QED BY <1>1, <1>3, <1>4, <1>5 DEF SInv

LEMMA CallLives ==
  ASSUME SInv, NEW c \in Calls, Holds(c) \/ Expires(c) PROVE SInv'
<1>1. /\ UNCHANGED <<file, conf, plugin, client, enrol, enrolled, raced, asked>>
      /\ call' \in [Calls -> {"new", "held", "allowed", "denied", "gone"}] /\ TypeOK
      /\ \/ call[c] = "new" /\ call'[c] = "held"
         \/ call[c] = "held" /\ call'[c] = "gone"
      /\ \A d \in Calls : d # c => call'[d] = call[d]
  BY DEF Holds, Expires, SInv, TypeOK
<1>2. TypeOK' /\ CallsStay
  BY <1>1 DEF TypeOK, CallsStay
<1>3. \A d \in Calls : call'[d] = "held" => call[d] = "held" \/ d \notin asked
  BY <1>1 DEF SInv, WatchKnows
<1>4. ASSUME NEW p \in Clients PROVE Progress(client[p])' /\ Meant(p, client[p])'
  <2>1. Progress(client[p]) /\ Meant(p, client[p])
    BY DEF SInv
  <2>2. Progress(client[p])'
    BY <1>1, <1>2, <2>1, ProgressStays
  <2> QED BY <1>1, <2>1, <2>2 DEF Meant
<1>5. WatchKnows(client[Watch])'
  <2>1. client[Watch].list \subseteq Calls /\ asked \subseteq Calls
    BY <1>1, ClientsAre DEF TypeOK, ClientStates
  <2> QED BY <1>1, <1>2, <1>3, <2>1, WatchStays DEF SInv
<1>6. KeysAreLoaded'
  BY <1>1 DEF SInv, KeysAreLoaded
<1> QED BY <1>2, <1>4, <1>5, <1>6 DEF SInv

LEMMA PluginStopsKeeps ==
  ASSUME SInv, PluginStops PROVE SInv'
<1>1. /\ UNCHANGED <<file, conf, enrol, enrolled, raced, asked>> /\ TypeOK
      /\ plugin' = [plugin EXCEPT !.up = FALSE]
      /\ call' = [c \in Calls |-> IF call[c] = "held" THEN "gone" ELSE call[c]]
      /\ client' = [p \in Clients |->
                      IF client[p].pc \in {"verified", "reply"} THEN Goes(p, "failed")
                      ELSE client[p]]
  BY DEF PluginStops, SInv
<1>2. CallsStay /\ (\A d \in Calls : call'[d] = "held" => FALSE)
  BY <1>1 DEF TypeOK, CallsStay
<1>3. ASSUME NEW p \in Clients
      PROVE  /\ client[p] \in ClientStates /\ Progress(client[p]) /\ Meant(p, client[p])
             /\ client[p].pc \in {"verified", "reply"} => Gone(p, client[p], "failed", client'[p])
             /\ client[p].pc \notin {"verified", "reply"} => client'[p] = client[p]
  <2>1. Progress(client[p]) /\ Meant(p, client[p]) /\ client[p] \in ClientStates
    BY <1>1 DEF SInv, TypeOK
  <2>2. CASE client[p].pc \in {"verified", "reply"}
    <3>1. client[p].target \in Calls
      BY <2>1, <2>2 DEF Progress, Busy
    <3>2. Gone(p, client[p], "failed", Goes(p, "failed"))
      BY <1>1, <3>1, GoesTo
    <3> QED BY <1>1, <2>1, <2>2, <3>2
  <2> QED BY <1>1, <2>1, <2>2
<1>4. ASSUME NEW p \in Clients
      PROVE  /\ client'[p] \in ClientStates /\ Cardinality(client'[p].proof) <= 1
             /\ Progress(client[p])' /\ Meant(p, client[p])'
  <2>1. CASE client[p].pc \in {"verified", "reply"}
    <3>1. Gone(p, client[p], "failed", client'[p])
      BY <1>3, <2>1
    <3> QED BY <3>1, ProofsAreFew DEF Gone, Progress, Meant, Busy
  <2>2. CASE client[p].pc \notin {"verified", "reply"}
    <3>1. client'[p] = client[p] /\ Cardinality(client[p].proof) <= 1
      BY <1>1, <1>3, <2>2 DEF TypeOK
    <3>2. Progress(client[p])'
      BY <1>2, <1>3, <2>2, <3>1, ProgressStays
    <3> QED BY <1>1, <1>3, <3>1, <3>2 DEF Meant
  <2> QED BY <2>1, <2>2
<1>5. TypeOK'
  <2>1. client' \in [Clients -> ClientStates]
    BY <1>1, <1>4
  <2>2. plugin' \in [up : BOOLEAN, rp : Rps, uv : BOOLEAN, keys : SUBSET Keys] /\ ~plugin'.up
    BY <1>1 DEF TypeOK
  <2> QED BY <1>1, <1>2, <1>4, <2>1, <2>2 DEF TypeOK, CallsStay
<1>6. WatchKnows(client[Watch])'
  <2>1. /\ Watch \in Clients /\ client[Watch].list \subseteq Calls /\ asked \subseteq Calls
        /\ WatchKnows(client[Watch])
    BY <1>1, ClientsAre DEF SInv, TypeOK, ClientStates
  <2>2. CASE client[Watch].pc \in {"verified", "reply"}
    <3>1. Gone(Watch, client[Watch], "failed", client'[Watch])
      BY <1>3, <2>1, <2>2
    <3> QED BY <1>1, <1>2, <2>1, <2>2, <3>1 DEF Gone, WatchKnows, CallsStay
  <2>3. CASE client[Watch].pc \notin {"verified", "reply"}
    BY <1>1, <1>2, <1>3, <2>1, <2>3, WatchStays
  <2> QED BY <2>2, <2>3
<1>7. KeysAreLoaded'
  BY <1>1 DEF SInv, KeysAreLoaded
<1> QED BY <1>4, <1>5, <1>6, <1>7 DEF SInv

\* A step that concerns neither the plugin, nor a call, nor a client.
LEMMA ClientsStay ==
  ASSUME SInv, UNCHANGED <<plugin, call, client, asked>>, TypeOK', KeysAreLoaded'
  PROVE  SInv'
<1>1. CallsStay
  BY DEF SInv, TypeOK, CallsStay
<1>2. ASSUME NEW p \in Clients PROVE Progress(client[p])' /\ Meant(p, client[p])'
  <2>1. Progress(client[p]) /\ Meant(p, client[p])
    BY DEF SInv
  <2>2. Progress(client[p])'
    BY <1>1, <2>1, ProgressStays
  <2> QED BY <2>1, <2>2 DEF Meant
<1>3. WatchKnows(client[Watch])'
  BY DEF SInv, WatchKnows
<1> QED BY <1>2, <1>3 DEF SInv

LEMMA EditsKeeps ==
  ASSUME SInv, EditsConfig PROVE SInv'
<1>1. /\ UNCHANGED <<file, plugin, call, client, enrol, enrolled, raced, asked>>
      /\ conf' \in [rp : Rps, uv : BOOLEAN] /\ TypeOK
  <2>1. TypeOK /\ conf \in [rp : Rps, uv : BOOLEAN]
    BY DEF SInv, TypeOK
  <2>2. ASSUME NEW r \in Rps, conf' = [conf EXCEPT !.rp = r] PROVE conf' \in [rp : Rps, uv : BOOLEAN]
    BY <2>1, <2>2
  <2>3. ASSUME conf' = [conf EXCEPT !.uv = ~@] PROVE conf' \in [rp : Rps, uv : BOOLEAN]
    <3>1. PICK b \in BOOLEAN : b = ~conf.uv
      BY <2>1
    <3>2. conf' = [conf EXCEPT !.uv = b]
      BY <2>3, <3>1
    <3> QED BY <2>1, <3>2
  <2> QED BY <2>1, <2>2, <2>3 DEF EditsConfig
<1>2. TypeOK'
  BY <1>1 DEF TypeOK
<1>3. KeysAreLoaded'
  BY <1>1 DEF SInv, KeysAreLoaded
<1> QED BY <1>1, <1>2, <1>3, ClientsStay

(***************************************************************************)
(* A step of an enrolment.                                                 *)
(***************************************************************************)
LEMMA EnrolLoadsKeeps ==
  ASSUME SInv, NEW e \in Enrols, EnrolLoads(e) PROVE SInv'
<1>1. /\ UNCHANGED <<file, conf, plugin, call, client, enrolled, raced, asked>>
      /\ TypeOK /\ KeysAreLoaded /\ file.keys \in SUBSET Keys /\ enrol[e] \in EnrolStates
      /\ enrol[e].pc = "off"
  BY DEF EnrolLoads, EnrolMoves, SInv, TypeOK
<1>2. PICK next : next = IF Readable THEN [enrol[e] EXCEPT !.pc = "touch", !.keys = LoadKeys]
                         ELSE [enrol[e] EXCEPT !.pc = "done"]
  OBVIOUS
<1>3. /\ next \in EnrolStates /\ next.pc \in {"touch", "done"}
      /\ next.pc = "touch" => file.v # Torn /\ next.keys = file.keys
  <2>1. CASE Readable
    <3>1. next = [enrol[e] EXCEPT !.pc = "touch", !.keys = file.keys]
      BY <1>2, <2>1 DEF LoadKeys
    <3>2. next \in EnrolStates /\ next.pc = "touch" /\ next.keys = file.keys
      BY <1>1, <3>1 DEF EnrolStates
    <3> QED BY <2>1, <3>2 DEF Readable, Absent, Current, Torn
  <2>2. CASE ~Readable
    <3>1. next = [enrol[e] EXCEPT !.pc = "done"]
      BY <1>2, <2>2
    <3>2. next \in EnrolStates /\ next.pc = "done"
      BY <1>1, <3>1 DEF EnrolStates
    <3> QED BY <3>2
  <2> QED BY <2>1, <2>2
<1>4. /\ enrol' \in [Enrols -> EnrolStates] /\ enrol'[e] = next
      /\ \A f \in Enrols : f # e => enrol'[f] = enrol[f]
  BY <1>1, <1>2, <1>3 DEF EnrolLoads, EnrolMoves, TypeOK
<1>5. TypeOK'
  BY <1>1, <1>4 DEF TypeOK
<1>6. KeysAreLoaded'
  BY <1>1, <1>3, <1>4 DEF KeysAreLoaded, UnderWay
<1> QED BY <1>1, <1>5, <1>6, ClientsStay

LEMMA EnrolTouchesKeeps ==
  ASSUME SInv, NEW e \in Enrols, NEW k \in Made, EnrolTouches(e, k) PROVE SInv'
<1>1. /\ UNCHANGED <<file, conf, plugin, call, client, enrolled, raced, asked>>
      /\ TypeOK /\ KeysAreLoaded /\ enrol[e] \in EnrolStates /\ enrol[e].pc = "touch"
  BY DEF EnrolTouches, EnrolMoves, SInv, TypeOK
<1>2. k \in Keys \union {NotP256}
  BY SignoffAssumption DEF Made
<1>3. PICK next : next = IF k = NotP256 \/ k \in enrol[e].keys
                         THEN [enrol[e] EXCEPT !.pc = "done", !.keys = {}]
                         ELSE [enrol[e] EXCEPT !.pc = "save", !.key = k]
  OBVIOUS
<1>4. /\ next \in EnrolStates /\ next.pc \in {"save", "done"}
      /\ next.pc = "save" => next.key \in Keys /\ next.keys = enrol[e].keys
  BY <1>1, <1>2, <1>3 DEF EnrolStates
<1>5. /\ enrol' \in [Enrols -> EnrolStates] /\ enrol'[e] = next
      /\ \A f \in Enrols : f # e => enrol'[f] = enrol[f]
  BY <1>1, <1>3, <1>4 DEF EnrolTouches, EnrolMoves, TypeOK
<1>6. TypeOK'
  BY <1>1, <1>5 DEF TypeOK
<1>7. KeysAreLoaded'
  BY <1>1, <1>4, <1>5 DEF KeysAreLoaded, UnderWay
<1> QED BY <1>1, <1>6, <1>7, ClientsStay

LEMMA SaveTruncatesKeeps ==
  ASSUME SInv, NEW e \in Enrols, SaveTruncates(e) PROVE SInv'
<1>1. /\ UNCHANGED <<conf, plugin, call, client, enrolled, raced, asked>>
      /\ TypeOK /\ KeysAreLoaded /\ enrol[e] \in EnrolStates /\ enrol[e].pc = "save"
      /\ file' = [v |-> Torn, keys |-> {}]
  BY DEF SaveTruncates, EnrolMoves, SInv, TypeOK
<1>2. PICK next : next = [enrol[e] EXCEPT !.pc = "write"]
  OBVIOUS
<1>3. next \in EnrolStates /\ next.pc = "write" /\ next.key = enrol[e].key /\ next.keys = enrol[e].keys
  BY <1>1, <1>2 DEF EnrolStates
<1>4. /\ enrol' \in [Enrols -> EnrolStates] /\ enrol'[e] = next
      /\ \A f \in Enrols : f # e => enrol'[f] = enrol[f]
  BY <1>1, <1>2, <1>3 DEF SaveTruncates, EnrolMoves, TypeOK
<1>5. TypeOK'
  BY <1>1, <1>4 DEF TypeOK
<1>6. KeysAreLoaded'
  BY <1>1, <1>3, <1>4 DEF KeysAreLoaded, UnderWay
<1> QED BY <1>1, <1>5, <1>6, ClientsStay

LEMMA SaveWritesKeeps ==
  ASSUME SInv, NEW e \in Enrols, SaveWrites(e) PROVE SInv'
<1>1. /\ UNCHANGED <<conf, plugin, call, client, asked>>
      /\ TypeOK /\ KeysAreLoaded /\ enrol[e] \in EnrolStates /\ enrol[e].pc = "write"
      /\ enrol[e].key \in Keys /\ enrol[e].keys \subseteq Keys
      /\ enrolled \ raced \subseteq enrol[e].keys
  BY DEF SaveWrites, EnrolMoves, SInv, TypeOK, KeysAreLoaded, UnderWay, EnrolStates
<1>2. PICK k \in Keys : k = enrol[e].key
  BY <1>1
<1>3. /\ file' = [v |-> Current, keys |-> enrol[e].keys \union {k}]
      /\ enrolled' = enrolled \union {k}
      /\ raced' = IF \E f \in Enrols \ {e} : enrol[f].pc \in UnderWay
                  THEN raced \union {k} ELSE raced
  BY <1>2 DEF SaveWrites, Saved, UnderWay
<1>4. PICK next : next = [pc |-> "done", keys |-> {}, key |-> NotP256]
  OBVIOUS
<1>5. next \in EnrolStates /\ next.pc = "done"
  BY <1>4 DEF EnrolStates
<1>6. /\ enrol' \in [Enrols -> EnrolStates] /\ enrol'[e] = next
      /\ \A f \in Enrols : f # e => enrol'[f] = enrol[f]
  BY <1>1, <1>4, <1>5 DEF SaveWrites, EnrolMoves, TypeOK
<1>7. TypeOK'
  <2>1. raced' \subseteq enrolled' /\ enrolled' \subseteq Keys
    BY <1>1, <1>3 DEF TypeOK
  <2>2. file' \in [v : {Absent, Current, Newer, Torn}, keys : SUBSET Keys]
    BY <1>1, <1>2, <1>3
  <2> QED BY <1>1, <1>6, <2>1, <2>2 DEF TypeOK
<1>8. KeysAreLoaded'
  <2>1. \A f \in Enrols : enrol'[f].pc \in UnderWay =>
           f # e /\ enrol'[f] = enrol[f] /\ enrolled' \ raced' \subseteq enrolled \ raced
    BY <1>3, <1>5, <1>6 DEF UnderWay
  <2>2. \A f \in Enrols : enrol'[f].pc \in UnderWay => enrolled' \ raced' \subseteq enrol'[f].keys
    BY <1>1, <2>1 DEF KeysAreLoaded
  <2>3. \A f \in Enrols : enrol'[f].pc \in {"save", "write"} => enrol'[f].key \in Keys
    BY <1>1, <2>1 DEF KeysAreLoaded, UnderWay
  <2>4. enrolled' \ raced' \subseteq enrol[e].keys \union {k}
    BY <1>1, <1>3
  <2>5. file'.v = Current /\ file'.keys = enrol[e].keys \union {k}
    BY <1>3
  <2> QED BY <2>2, <2>3, <2>4, <2>5 DEF KeysAreLoaded, Current, Torn
<1> QED BY <1>1, <1>7, <1>8, ClientsStay

LEMMA SaveFailsKeeps ==
  ASSUME SInv, NEW e \in Enrols, SaveFails(e) PROVE SInv'
<1>1. /\ UNCHANGED <<conf, plugin, call, client, asked, enrolled, raced>>
      /\ TypeOK /\ KeysAreLoaded /\ enrol[e] \in EnrolStates /\ enrol[e].pc \in {"save", "write"}
      /\ enrol[e].key \in Keys /\ enrol[e].keys \subseteq Keys
      /\ enrolled \ raced \subseteq enrol[e].keys
  BY DEF SaveFails, EnrolMoves, SInv, TypeOK, KeysAreLoaded, UnderWay, EnrolStates
<1>2. PICK pc \in {"done", "failed"} :
        /\ enrol' = [enrol EXCEPT ![e] = [enrol[e] EXCEPT !.pc = pc, !.keys = {}]]
        /\ enrol[e].pc = "save" => file' = file
        /\ enrol[e].pc = "write" => pc = "failed" /\ file' \in {[v |-> Torn, keys |-> {}], Saved(e)}
  BY <1>1 DEF SaveFails, EnrolMoves
<1>3. PICK next : next = [enrol[e] EXCEPT !.pc = pc, !.keys = {}]
  OBVIOUS
<1>4. next \in EnrolStates /\ next.pc = pc
  BY <1>1, <1>3 DEF EnrolStates
<1>5. /\ enrol' \in [Enrols -> EnrolStates] /\ enrol'[e] = next
      /\ \A f \in Enrols : f # e => enrol'[f] = enrol[f]
  BY <1>1, <1>2, <1>3, <1>4 DEF TypeOK
<1>6. /\ file' \in [v : {Absent, Current, Newer, Torn}, keys : SUBSET Keys]
      /\ enrol[e].pc = "write" /\ file'.v # Torn => enrolled \ raced \subseteq file'.keys
  BY <1>1, <1>2 DEF Saved, TypeOK
<1>7. TypeOK'
  BY <1>1, <1>5, <1>6 DEF TypeOK
<1>8. KeysAreLoaded'
  <2>1. /\ \A f \in Enrols : enrol'[f].pc \in UnderWay => f # e /\ enrol'[f] = enrol[f]
        /\ \A f \in Enrols : enrol'[f].pc \in {"save", "write"} => f # e /\ enrol'[f] = enrol[f]
    BY <1>2, <1>4, <1>5 DEF UnderWay
  <2>2. file'.v # Torn => enrolled' \ raced' \subseteq file'.keys
    BY <1>1, <1>2, <1>6 DEF KeysAreLoaded
  <2>3. file'.v = Torn => \E f \in Enrols : enrol'[f].pc \in {"write", "failed"}
    <3>1. CASE enrol[e].pc = "write"
      BY <1>2, <1>4, <1>5, <3>1
    <3>2. CASE enrol[e].pc = "save"
      <4>1. file'.v = Torn => \E f \in Enrols : f # e /\ enrol[f].pc \in {"write", "failed"}
        BY <1>1, <1>2, <3>2 DEF KeysAreLoaded
      <4> QED BY <1>5, <4>1
    <3> QED BY <1>1, <3>1, <3>2
  <2> QED BY <1>1, <2>1, <2>2, <2>3 DEF KeysAreLoaded
<1> QED BY <1>1, <1>7, <1>8, ClientsStay

(***************************************************************************)
(* The invariant holds.                                                    *)
(***************************************************************************)
LEMMA SInvInit == Init => SInv
<1> SUFFICES ASSUME Init PROVE SInv
  OBVIOUS
<1>1. \A p \in Clients : client[p] = Resting
  BY DEF Init
<1>2. TypeOK
  <2>1. (CHOOSE r \in Rps : TRUE) \in Rps
    BY SignoffAssumption
  <2>2. PICK r \in Rps : r = CHOOSE x \in Rps : TRUE
    BY <2>1
  <2>3. conf = [rp |-> r, uv |-> FALSE] /\ plugin = [up |-> FALSE, rp |-> r, uv |-> FALSE, keys |-> {}]
    BY <2>2 DEF Init
  <2>4. client \in [Clients -> ClientStates] /\ \A p \in Clients : Cardinality(client[p].proof) <= 1
    BY <1>1, RestingIs, ProofsAreFew DEF Init
  <2>5. enrol \in [Enrols -> EnrolStates]
    BY DEF Init, EnrolStates
  <2>6. /\ file \in [v : {Absent, Current, Newer, Torn}, keys : SUBSET Keys]
        /\ raced \subseteq enrolled /\ enrolled \subseteq Keys
    BY SignoffAssumption DEF Init
  <2>7. /\ conf \in [rp : Rps, uv : BOOLEAN] /\ ~plugin.up
        /\ plugin \in [up : BOOLEAN, rp : Rps, uv : BOOLEAN, keys : SUBSET Keys]
    BY <2>3
  <2>8. call \in [Calls -> {"new", "held", "allowed", "denied", "gone"}] /\ asked \subseteq Calls
    BY DEF Init
  <2> QED BY <2>4, <2>5, <2>6, <2>7, <2>8 DEF TypeOK
<1>3. ASSUME NEW p \in Clients PROVE Progress(client[p]) /\ Meant(p, client[p])
  BY <1>1, RestingIs DEF Progress, Meant, Busy
<1>4. WatchKnows(client[Watch])
  BY <1>1, RestingIs, ClientsAre DEF Init, WatchKnows
<1>5. KeysAreLoaded
  BY DEF Init, KeysAreLoaded, UnderWay, Absent, Current, Newer, Torn
<1> QED BY <1>2, <1>3, <1>4, <1>5 DEF SInv

LEMMA SInvNext == SInv /\ [Next]_vars => SInv'
<1> SUFFICES ASSUME SInv, [Next]_vars PROVE SInv'
  OBVIOUS
<1>1. CASE PluginStarts
  BY <1>1, PluginStartsKeeps
<1>2. CASE PluginStops
  BY <1>2, PluginStopsKeeps
<1>3. CASE EditsConfig
  BY <1>3, EditsKeeps
<1>4. CASE \E c \in Calls : Holds(c) \/ Expires(c)
  BY <1>4, CallLives
<1>5. CASE \E p \in Commands, decision \in {"approve", "deny"}, pin \in BOOLEAN, n \in Names :
             (decision = "deny" => ~pin) /\ Types(p, decision, n, pin)
  BY <1>5, TypesKeeps
<1>6. CASE \E p \in Clients : Advances(p)
  BY <1>6, AdvancesKeeps
<1>7. CASE \E pin \in BOOLEAN : WatchStarts(pin)
  BY <1>7, WatchStartsKeeps
<1>8. CASE Polls
  BY <1>8, PollsKeeps
<1>9. CASE Prompts
  BY <1>9, PromptsKeeps
<1>10. CASE Answers
  BY <1>10, AnswersKeeps
<1>11. CASE \E e \in Enrols : EnrolLoads(e) \/ SaveTruncates(e) \/ SaveWrites(e) \/ SaveFails(e)
  BY <1>11, EnrolLoadsKeeps, SaveTruncatesKeeps, SaveWritesKeeps, SaveFailsKeeps
<1>12. CASE \E e \in Enrols, k \in Made : EnrolTouches(e, k)
  BY <1>12, EnrolTouchesKeeps
<1>13. CASE UNCHANGED vars
  <2>1. UNCHANGED <<file, conf, plugin, call, client, enrol, enrolled, raced, asked>>
    BY <1>13 DEF vars
  <2>2. TypeOK'
    BY <2>1 DEF SInv, TypeOK
  <2>3. KeysAreLoaded'
    BY <2>1 DEF SInv, KeysAreLoaded
  <2> QED BY <2>1, <2>2, <2>3, ClientsStay
<1> QED BY <1>1, <1>2, <1>3, <1>4, <1>5, <1>6, <1>7, <1>8, <1>9, <1>10, <1>11, <1>12, <1>13 DEF Next

\* The invariant holds of every behaviour of the key file, the commands, the watch
\* and the enrolments (signoff.rs).
THEOREM SignoffInvariant == Spec => []SInv
BY SInvInit, SInvNext, PTL DEF Spec

(***************************************************************************)
(* What follows from it.                                                   *)
(***************************************************************************)
LEMMA SInvReports == SInv => ReportsStayTrue
<1> SUFFICES ASSUME SInv PROVE ReportsStayTrue
  OBVIOUS
<1>1. ReportIsTrue
  BY ClientsAre DEF SInv, Progress, ReportIsTrue
<1>2. EnrolledStays
  BY DEF SInv, KeysAreLoaded, EnrolledStays
<1> QED BY <1>1, <1>2 DEF SInv, ReportsStayTrue

\* What an operator was told stays true: the decision a command reported is the one
\* the agent was given, and a key whose enrolment was reported is in the file whenever
\* that can be read, unless its enrolment overlapped another's; the file cannot be read
\* only during a save, or after one that failed halfway (resolve_signoff, enroll).
THEOREM ReportsAreTrue == Spec => []ReportsStayTrue
BY SignoffInvariant, SInvReports, PTL

\* Only a client's request decides a held call, and it is the one at that point.
LEMMA OnlyResolves ==
  ASSUME SInv, [Next]_vars, NEW c \in Calls,
         call'[c] # call[c], call'[c] \in {"allowed", "denied"}
  PROVE  \E p \in Clients :
           /\ client[p].pc = "verified" /\ client[p].target = c /\ call[c] = "held"
           /\ client[p].decision \in {"approve", "deny"}
           /\ call'[c] = Decided(client[p].decision)
           /\ Progress(client[p]) /\ Meant(p, client[p])
<1>1. TypeOK
  BY DEF SInv
<1>2. ASSUME NEW p \in Clients, Resolves(p)
      PROVE  /\ client[p].pc = "verified" /\ client[p].target = c /\ call[c] = "held"
             /\ call'[c] = Decided(client[p].decision)
  <2>1. client[p].pc = "verified" /\ client[p].target \in Calls
    BY <1>2 DEF Resolves, SInv, Progress, Busy
  <2>2. call[client[p].target] = "held"
    BY <1>2 DEF Resolves
  <2>3. PICK d \in Calls : d = client[p].target
    BY <2>1
  <2>4. call' = [call EXCEPT ![d] = Decided(client[p].decision)]
    BY <1>2, <2>2, <2>3 DEF Resolves, Decided
  <2>5. d = c
    BY <1>1, <2>4 DEF TypeOK
  <2> QED BY <1>1, <2>1, <2>2, <2>3, <2>4, <2>5 DEF TypeOK
<1>3. \E p \in Clients : Resolves(p)
  <2>1. call' # call
    OBVIOUS
  <2>2. ~(PluginStarts \/ EditsConfig \/ Polls \/ Prompts \/ Answers \/ UNCHANGED vars)
    BY <2>1 DEF PluginStarts, EditsConfig, Polls, Prompts, Answers, Quits, Chooses, vars
  <2>3. ~PluginStops
    BY <1>1 DEF PluginStops, TypeOK
  <2>4. ~(\E d \in Calls : Holds(d) \/ Expires(d))
    BY <1>1 DEF Holds, Expires, TypeOK
  <2>5. ~(\E p, decision, pin, n : Types(p, decision, n, pin))
    BY <2>1 DEF Types
  <2>6. ~(\E pin : WatchStarts(pin))
    BY <2>1 DEF WatchStarts
  <2>7. ~(\E e, k : EnrolLoads(e) \/ SaveTruncates(e) \/ SaveWrites(e) \/ SaveFails(e)
         \/ EnrolTouches(e, k))
    BY <2>1 DEF EnrolLoads, SaveTruncates, SaveWrites, SaveFails, EnrolTouches, EnrolMoves
  <2>8. ~(\E p : Fetches(p) \/ ReadsKeys(p) \/ Touches(p) \/ Asks(p) \/ Reports(p))
    BY <2>1 DEF Fetches, ReadsKeys, Touches, Asks, Reports
  <2> QED BY <2>2, <2>3, <2>4, <2>5, <2>6, <2>7, <2>8 DEF Next, Advances
<1>4. PICK p \in Clients : Resolves(p)
  BY <1>3
<1>5. Progress(client[p]) /\ Meant(p, client[p])
  BY DEF SInv
<1> QED BY <1>2, <1>4, <1>5 DEF Progress, Busy

LEMMA StepIsMeant ==
  ASSUME SInv, [Next]_vars, NEW c \in Calls
  PROVE  /\ call[c] /= "allowed" /\ call'[c] = "allowed" =>
              \E p \in Clients : \E proof \in client[p].proof :
                /\ proof.call = c /\ proof.key \in plugin.keys /\ proof.rp = plugin.rp
                /\ plugin.uv => proof.uv
         /\ call[c] = "held" /\ call'[c] \in {"allowed", "denied"} =>
              \E p \in Clients :
                /\ client[p].pc = "verified"
                /\ client[p].decision = IF call'[c] = "allowed" THEN "approve" ELSE "deny"
                /\ IF p = Watch THEN c \in asked
                   ELSE client[p].named \in {c, CorrelationId(c)}
<1>1. ASSUME call'[c] # call[c], call'[c] \in {"allowed", "denied"}
      PROVE  \E p \in Clients :
               /\ client[p].pc = "verified"
               /\ client[p].decision = IF call'[c] = "allowed" THEN "approve" ELSE "deny"
               /\ IF p = Watch THEN c \in asked ELSE client[p].named \in {c, CorrelationId(c)}
               /\ call'[c] = "allowed" => \E proof \in client[p].proof : Verifies(c, proof)
  <2>1. PICK p \in Clients :
           /\ client[p].pc = "verified" /\ client[p].target = c
           /\ client[p].decision \in {"approve", "deny"}
           /\ call'[c] = Decided(client[p].decision)
           /\ Progress(client[p]) /\ Meant(p, client[p])
    BY <1>1, OnlyResolves
  <2>2. client[p].decision = IF call'[c] = "allowed" THEN "approve" ELSE "deny"
    BY <2>1 DEF Decided
  <2>3. IF p = Watch THEN c \in asked ELSE client[p].named \in {c, CorrelationId(c)}
    BY <2>1 DEF Meant, Busy
  <2>4. call'[c] = "allowed" => \E proof \in client[p].proof : Verifies(c, proof)
    BY <2>1, <2>2 DEF Progress
  <2> QED BY <2>1, <2>2, <2>3, <2>4
<1> QED BY <1>1 DEF Verifies

\* A call is released only on an assertion over its own record by a key the running
\* plugin loaded, for its relying party and with the PIN if it wants one; and by the
\* operator who named that call or was shown it, however often the calls, the key file
\* and the configuration change between the list and the request
\* (Broker::resolve_signoff, signoff::verify, find_target).
THEOREM CallsReleasedAsMeant == Spec => ReleasedAsMeant
<1>1. SInv /\ [Next]_vars =>
        [\A c \in Calls : call[c] /= "allowed" /\ call'[c] = "allowed" =>
           \E p \in Clients : \E proof \in client[p].proof :
             /\ proof.call = c /\ proof.key \in plugin.keys /\ proof.rp = plugin.rp
             /\ plugin.uv => proof.uv]_vars
  BY StepIsMeant
<1>2. SInv /\ [Next]_vars =>
        [\A c \in Calls : call[c] = "held" /\ call'[c] \in {"allowed", "denied"} =>
           \E p \in Clients :
             /\ client[p].pc = "verified"
             /\ client[p].decision = IF call'[c] = "allowed" THEN "approve" ELSE "deny"
             /\ IF p = Watch THEN c \in asked
                ELSE client[p].named \in {c, CorrelationId(c)}]_vars
  BY StepIsMeant
<1> QED BY <1>1, <1>2, SignoffInvariant, PTL
        DEF Spec, ReleasedAsMeant, ReleasedWasSigned, DecisionIsMeant

\* Only the watch's own loop brings it to a prompt, with an entry it has not asked
\* about before.
LEMMA PromptIsNew ==
  ASSUME SInv, [Next]_vars, client'[Watch].pc = "prompt", client[Watch].pc /= "prompt"
  PROVE  client'[Watch].target \notin asked
<1>1. /\ TypeOK /\ Watch \in Clients /\ client[Watch] \in ClientStates
      /\ Meant(Watch, client[Watch]) /\ WatchKnows(client[Watch])
      /\ Progress(client[Watch])
  BY ClientsAre DEF SInv, TypeOK
<1>2. client'[Watch] # client[Watch]
  OBVIOUS
<1>3. ASSUME NEW o \in {"failed", "approved", "denied"}, client[Watch].target \in Calls
      PROVE  Goes(Watch, o).pc = "next"
  BY <1>1, <1>3, GoesTo DEF Gone
<1>4. ~(PluginStarts \/ EditsConfig \/ Answers \/ UNCHANGED vars)
  BY <1>2 DEF PluginStarts, EditsConfig, Answers, Quits, Chooses, vars
<1>5. ~PluginStops
  <2>1. client[Watch].pc \in {"verified", "reply"} => client[Watch].target \in Calls
    BY <1>1 DEF Progress, Busy
  <2> QED BY <1>1, <1>2, <1>3, <2>1 DEF PluginStops
<1>6. ~(\E c \in Calls : Holds(c) \/ Expires(c))
  BY <1>2 DEF Holds, Expires
<1>7. ASSUME NEW p \in Clients, NEW next, ClientMoves(p, next)
      PROVE  p = Watch /\ client'[Watch] = next
  BY <1>1, <1>2, <1>7 DEF ClientMoves, TypeOK
<1>8. ~(\E p \in Commands : \E decision, pin, n : Types(p, decision, n, pin))
  BY <1>7, ClientsAre DEF Types
<1>9. ~(\E pin \in BOOLEAN : WatchStarts(pin))
  <2>1. ASSUME NEW pin \in BOOLEAN, WatchStarts(pin) PROVE FALSE
    <3>1. client'[Watch] = [Resting EXCEPT !.pc = "poll", !.pin = pin]
      BY <1>1, <1>7, <2>1 DEF WatchStarts
    <3> QED BY <3>1 DEF Resting
  <2> QED BY <2>1
<1>10. ~Polls
  <2>1. Polls => client'[Watch].pc = "next"
    BY <1>1, <1>7 DEF Polls, ClientStates
  <2> QED BY <2>1
<1>11. ~(\E e, k : EnrolLoads(e) \/ SaveTruncates(e) \/ SaveWrites(e) \/ SaveFails(e)
         \/ EnrolTouches(e, k))
  BY <1>2 DEF EnrolLoads, SaveTruncates, SaveWrites, SaveFails, EnrolTouches, EnrolMoves
<1>12. ASSUME NEW p \in Clients, Advances(p) PROVE FALSE
  <2>1. \E next : ClientMoves(p, next)
    BY <1>12 DEF Advances, Fetches, ReadsKeys, Touches, Asks, Resolves, Reports
  <2>2. p = Watch /\ client[Watch].pc \in Busy
    BY <1>1, <1>7, <1>12, <2>1
       DEF Advances, Fetches, ReadsKeys, Touches, Asks, Resolves, Reports, Busy, Meant
  <2>3. client[Watch].target \in Calls
    BY <1>1, <2>2 DEF Progress
  <2>4. Goes(Watch, "failed").pc = "next" /\ Goes(Watch, "approved").pc = "next"
        /\ Goes(Watch, "denied").pc = "next"
    BY <1>3, <2>3
  <2>5. \A x : [client[Watch] EXCEPT !.pc = "send", !.proof = x, !.keys = {}, !.rp = ""].pc = "send"
    BY <1>1 DEF ClientStates
  <2>6. ~ReadsKeys(Watch) /\ ~Asks(Watch) /\ ~Resolves(Watch) /\ ~Reports(Watch)
    <3>1. ~ReadsKeys(Watch)
      BY <1>1, <1>7, <2>4 DEF ReadsKeys, ClientStates
    <3>2. ~Asks(Watch)
      <4>1. Asks(Watch) => \/ client'[Watch] = [client[Watch] EXCEPT !.pc = "verified"]
                            \/ client'[Watch] = Goes(Watch, "failed")
        BY <1>7, <1>1 DEF Asks
      <4>2. [client[Watch] EXCEPT !.pc = "verified"].pc = "verified"
        BY <1>1 DEF ClientStates
      <4> QED BY <2>4, <4>1, <4>2
    <3>3. ~Resolves(Watch)
      <4>1. Resolves(Watch) => \/ client'[Watch] = [client[Watch] EXCEPT !.pc = "reply", !.proof = {}]
                                \/ client'[Watch] = Goes(Watch, "failed")
        BY <1>7, <1>1 DEF Resolves
      <4>2. [client[Watch] EXCEPT !.pc = "reply", !.proof = {}].pc = "reply"
        BY <1>1 DEF ClientStates
      <4> QED BY <2>4, <4>1, <4>2
    <3>4. ~Reports(Watch)
      BY <1>1, <1>7, <2>4 DEF Reports, ClientStates
    <3> QED BY <3>1, <3>2, <3>3, <3>4
  <2>7. ~Touches(Watch)
    BY <1>1, <1>7, <2>4, <2>5 DEF Touches
  <2>8. ~Fetches(Watch)
    BY <2>2 DEF Fetches, Busy
  <2> QED BY <1>12, <2>2, <2>6, <2>7, <2>8 DEF Advances
<1>13. Prompts
  BY <1>4, <1>5, <1>6, <1>8, <1>9, <1>10, <1>11, <1>12 DEF Next
<1>14. PICK todo : todo = client[Watch].list \ client[Watch].seen
  OBVIOUS
<1>15. todo # {}
  <2>1. SUFFICES ASSUME todo = {} PROVE FALSE
    OBVIOUS
  <2>2. client'[Watch] = [client[Watch] EXCEPT !.pc = "poll", !.list = {}]
    BY <1>1, <1>7, <1>13, <1>14, <2>1 DEF Prompts
  <2> QED BY <1>1, <2>2 DEF ClientStates
<1>16. todo \subseteq Nat
  BY <1>1, <1>14, SignoffAssumption DEF ClientStates
<1>17. PICK c \in todo : c = Min(todo)
  BY <1>15, <1>16, MinIsElement
<1>18. client'[Watch] = [client[Watch] EXCEPT !.pc = "prompt", !.target = c, !.list = todo \ {c}]
  BY <1>1, <1>7, <1>13, <1>14, <1>15, <1>17 DEF Prompts
<1>19. client'[Watch].target = c
  BY <1>1, <1>18 DEF ClientStates
<1>20. c \notin asked
  BY <1>1, <1>13, <1>14 DEF WatchKnows, Prompts
<1> QED BY <1>19, <1>20

\* The watch prompts for no call a second time, also when an approval failed, the
\* polls in between did, or the plugin was started again (watch: seen).
THEOREM WatchAsksNoCallTwice == Spec => WatchAsksOnce
<1>1. SInv /\ [Next]_vars =>
        [client'[Watch].pc = "prompt" /\ client[Watch].pc /= "prompt"
           => client'[Watch].target \notin asked]_vars
  BY PromptIsNew
<1> QED BY <1>1, SignoffInvariant, PTL DEF Spec, WatchAsksOnce
===============================================================================
