----------------------------- MODULE BrokerProofs -----------------------------
(***************************************************************************)
(* Theorems about Broker, for any set of requests, events and workers:     *)
(* type correctness, one answer per request, an answer as strict as the    *)
(* signals, what a lenient answer has waited for, that an ask under        *)
(* sign-off never reaches the agent, that no entry is forgotten, that the  *)
(* audit trail is true, and that the broker implements the abstract gate.  *)
(*                                                                         *)
(* The first ones follow from the inductive invariant of BrokerInv.  The   *)
(* others rest on one lemma, RequestStep: seen from one request, every     *)
(* step of every thread is one of eleven things.                           *)
(*                                                                         *)
(* Then theorems about Pipeline, whose steps are steps of the broker: the  *)
(* broker's invariant holds in it; a call the monitor reviews is let       *)
(* through only on the model's word; and no call is answered more          *)
(* leniently than the strictest rule that matched one of its events.       *)
(***************************************************************************)
EXTENDS Pipeline, BrokerInv, BrokerGate, FiniteSetTheorems, TLAPS

LEMMA ThreadsFacts ==
  /\ Http \in Threads /\ Sock \in Threads
  /\ \A w \in LlmWorkers : w \in Threads
  /\ IsFiniteSet(Signals)
<1>1. IsFiniteSet({Llm})
  BY FS_Singleton
<1>2. IsFiniteSet(Signals)
  BY <1>1, FS_Union, ConstantsAssumption DEF Signals,ConstantsAssumption
<1> QED BY <1>2 DEF Threads

(***************************************************************************)
(* Type correctness.                                                       *)
(***************************************************************************)
LEMMA VerdictNames ==
  /\ {"allow", "deny", "ask", "defer"} = Verdicts
  /\ NoVerdict \notin Verdicts /\ NoVerdict \in LlmVerdicts
  /\ {"falco", "llm", "broker"} \subseteq Sources
  /\ {"floor", "monitor", "passthrough", "signoff", "reaper"} \subseteq Sources
BY DEF Verdicts, NoVerdict, Sources, LlmVerdicts

LEMMA UnsetVerdict == Unset.verdict = "none"
BY DEF Unset, NoVerdict

LEMMA Update ==
  ASSUME NEW A, NEW B, NEW f \in [A -> B], NEW a \in A, NEW b \in B
  PROVE  [f EXCEPT ![a] = b] \in [A -> B]
OBVIOUS

LEMMA AppendTyped ==
  ASSUME NEW S, NEW s \in Seq(S), NEW e \in S
  PROVE  Append(s, e) \in Seq(S)
OBVIOUS

LEMMA RecordsTyped ==
  /\ \A f \in Sourced, h \in SUBSET Hits, l \in LlmVerdicts, a \in BOOLEAN :
       RequestRecord(f, a, h, l) \in Records
  /\ \A d \in {"approve", "deny", "expired"} : SignoffRecord(d) \in Records
BY DEF RequestRecord, RequestRecords, SignoffRecord, SignoffRecords, Records

LEMMA AppendRecordTyped ==
  ASSUME TypeOK, NEW r \in Requests, NEW rec \in Records
  PROVE  /\ AppendRecord(r, rec) => trail' \in [Requests -> Seq(Records)]
         /\ AuditAppend(r, rec) => trail' \in [Requests -> Seq(Records)]
<1>1. trail \in [Requests -> Seq(Records)]
  BY DEF TypeOK
<1>2. [trail EXCEPT ![r] = Append(@, rec)] \in [Requests -> Seq(Records)]
  BY <1>1, AppendTyped, Update
<1> QED BY <1>1, <1>2 DEF AuditAppend, AppendRecord

LEMMA RespondTyped ==
  ASSUME TypeOK, NEW r \in Requests, NEW v \in Verdicts, NEW src \in Sources,
         Respond(r, v, src)
  PROVE  /\ stream' \in [Requests -> BOOLEAN]
         /\ wire' \in [Requests -> Seq(Verdicts)]
         /\ final' \in [Requests -> Sourced]
<1>1. /\ stream \in [Requests -> BOOLEAN]
      /\ wire \in [Requests -> Seq(Verdicts)]
      /\ final \in [Requests -> Sourced]
  BY DEF TypeOK
<1>2. stream' \in [Requests -> BOOLEAN]
  BY <1>1 DEF Respond
<1>3. [wire EXCEPT ![r] = Append(@, v)] \in [Requests -> Seq(Verdicts)]
  BY <1>1, AppendTyped, Update
<1>4. SetFinal(final[r], v, src) \in Sourced
  BY <1>1 DEF SetFinal, Sourced
<1>5. [final EXCEPT ![r] = SetFinal(@, v, src)] \in [Requests -> Sourced]
  BY <1>1, <1>4
<1> QED BY <1>1, <1>2, <1>3, <1>5 DEF Respond

LEMMA RecordHitTyped ==
  ASSUME TypeOK, NEW r \in Requests, NEW src \in {"falco", "llm", "broker"},
         NEW kind \in {"deny", "ask"}, RecordHit(r, src, kind)
  PROVE  hits' \in [Requests -> SUBSET Hits] /\ llm' \in [Requests -> LlmVerdicts]
<1>1. hits \in [Requests -> SUBSET Hits] /\ llm \in [Requests -> LlmVerdicts]
  BY DEF TypeOK
<1>2. CASE src = "llm"
  BY <1>1, <1>2 DEF RecordHit, LlmVerdicts
<1>3. CASE src # "llm"
  <2>1. [source |-> src, kind |-> kind] \in Hits
    BY <1>3 DEF Hits
  <2>2. (hits[r] \cup {[source |-> src, kind |-> kind]}) \in SUBSET Hits
    BY <1>1, <2>1
  <2> QED BY <1>1, <1>3, <2>2 DEF RecordHit
<1> QED BY <1>2, <1>3

LEMMA ApplyDenyTyped ==
  ASSUME TypeOK, NEW r \in Requests, NEW src \in {"falco", "llm", "broker"},
         ApplyDeny(r, src)
  PROVE  /\ hits' \in [Requests -> SUBSET Hits] /\ llm' \in [Requests -> LlmVerdicts]
         /\ stream' \in [Requests -> BOOLEAN]
         /\ wire' \in [Requests -> Seq(Verdicts)]
         /\ final' \in [Requests -> Sourced]
<1>1. "deny" \in Verdicts /\ src \in Sources
  BY DEF Verdicts, Sources
<1>2. CASE r \notin pending
  BY <1>2 DEF ApplyDeny, TypeOK, draft
<1>3. CASE r \in pending
  <2>1. RecordHit(r, src, "deny")
    BY <1>3 DEF ApplyDeny
  <2>2. hits' \in [Requests -> SUBSET Hits] /\ llm' \in [Requests -> LlmVerdicts]
    BY <2>1, RecordHitTyped
  <2>3. CASE mode = "monitor"
    BY <1>3, <2>2, <2>3 DEF ApplyDeny, TypeOK
  <2>4. CASE mode # "monitor"
    BY <1>1, <1>3, <2>2, <2>4, RespondTyped DEF ApplyDeny
  <2> QED BY <2>3, <2>4
<1> QED BY <1>2, <1>3

LEMMA StageAskTyped ==
  ASSUME NEW current \in Sourced, NEW src \in Sources
  PROVE  /\ StageAsk(current, src) \in Sourced
         /\ current = Unset \/ current.verdict = "ask" => StageAsk(current, src).verdict = "ask"
<1> DEFINE v == Escalate(current.verdict, "ask")
           s == IF Strictness(current.verdict) > 0 THEN current.source ELSE src
<1>1. StageAsk(current, src) = [verdict |-> v, source |-> s]
  BY DEF StageAsk
<1>2. Strictness("none") = 0 /\ Strictness("ask") = 1 /\ Unset.verdict = "none"
  BY DEF Strictness, Unset, NoVerdict
<1>3. current.verdict = "none" \/ current.verdict = "ask" => v = "ask"
  BY <1>2 DEF Escalate
<1>4. v \in Verdicts /\ s \in Sources
  <2>1. CASE current = Unset
    BY <1>2, <1>3, <2>1, VerdictNames
  <2>2. CASE current \in [verdict : Verdicts, source : Sources]
    BY <2>2, VerdictNames DEF Escalate
  <2> QED BY <2>1, <2>2 DEF Sourced
<1> HIDE DEF v, s
<1>5. [verdict |-> v, source |-> s] \in Sourced
  BY <1>4 DEF Sourced
<1>6. [verdict |-> v, source |-> s].verdict = v
  OBVIOUS
<1> QED BY <1>1, <1>2, <1>3, <1>5, <1>6

LEMMA ApplyAskTyped ==
  ASSUME TypeOK, NEW r \in Requests, NEW src \in {"falco", "llm", "broker"},
         ApplyAsk(r, src)
  PROVE  /\ hits' \in [Requests -> SUBSET Hits] /\ llm' \in [Requests -> LlmVerdicts]
         /\ staged' \in [Requests -> Sourced]
<1>1. src \in Sources /\ staged \in [Requests -> Sourced]
  BY DEF Sources, TypeOK
<1>2. CASE r \notin pending
  BY <1>2 DEF ApplyAsk, TypeOK
<1>3. CASE r \in pending
  <2>1. hits' \in [Requests -> SUBSET Hits] /\ llm' \in [Requests -> LlmVerdicts]
    BY <1>3, RecordHitTyped DEF ApplyAsk
  <2>2. StageAsk(staged[r], src) \in Sourced
    BY <1>1, StageAskTyped
  <2>3. staged' \in [Requests -> Sourced]
    BY <1>1, <1>3, <2>2 DEF ApplyAsk
  <2> QED BY <2>1, <2>3
<1> QED BY <1>2, <1>3

LEMMA SignalJob ==
  ASSUME NEW j \in Jobs, j.pc \in SignalPCs
  PROVE  /\ j.id \in Requests /\ j.signal \in Signals /\ j.verdict \in LlmVerdicts
         /\ \A pc \in SignalPCs : [j EXCEPT !.pc = pc] \in Jobs
<1>1. Idle.pc = "idle" /\ "idle" \notin SignalPCs /\ "resolving" \notin SignalPCs
  BY DEF Idle, SignalPCs
<1>2. j \in SignalJobs
  BY <1>1 DEF Jobs, SignoffJobs
<1> QED BY <1>2 DEF SignalJobs, Jobs

LEMMA SignoffJob ==
  ASSUME NEW j \in Jobs, j.pc = "resolving"
  PROVE  j.id \in Requests /\ j.verdict \in {"allow", "deny"}
<1>1. Idle.pc = "idle" /\ "resolving" \notin SignalPCs
  BY DEF Idle, SignalPCs
<1>2. j \in SignoffJobs
  BY <1>1 DEF Jobs, SignalJobs
<1> QED BY <1>2 DEF SignoffJobs

LEMMA WorkTyped ==
  ASSUME TypeOK, NEW t \in Threads
  PROVE  /\ Finish(t) => work' \in [Threads -> Jobs]
         /\ work[t].pc \in SignalPCs =>
              \A pc \in SignalPCs : GoTo(t, pc) => work' \in [Threads -> Jobs]
<1>1. work \in [Threads -> Jobs] /\ Idle \in Jobs
  BY DEF TypeOK, Jobs
<1>2. ASSUME NEW pc \in SignalPCs, work[t].pc \in SignalPCs
      PROVE  [work EXCEPT ![t].pc = pc] \in [Threads -> Jobs]
  <2>1. [work[t] EXCEPT !.pc = pc] \in Jobs
    BY <1>1, <1>2, SignalJob
  <2> QED BY <1>1, <2>1
<1> QED BY <1>1, <1>2 DEF Finish, GoTo

LEMMA BeginTyped ==
  ASSUME TypeOK, NEW t \in Threads, NEW r \in Requests, NEW s \in Signals,
         NEW pc \in SignalPCs, NEW v \in LlmVerdicts, Begin(t, r, s, pc, v)
  PROVE  /\ work' \in [Threads -> Jobs]
         /\ unclaimed' \in [Requests -> SUBSET Signals]
<1>1. [pc |-> pc, id |-> r, signal |-> s, verdict |-> v] \in Jobs
  BY DEF Jobs, SignalJobs
<1> QED BY <1>1 DEF Begin, TypeOK

LEMMA DecisionTyped ==
  ASSUME TypeOK, NEW r \in Requests
  PROVE  Decision(r).verdict \in Verdicts /\ Decision(r).source \in Sources
<1>1. CASE mode = "monitor" \/ staged[r] = Unset
  BY <1>1, VerdictNames DEF Decision, TypeOK
<1>2. CASE ~(mode = "monitor" \/ staged[r] = Unset)
  BY <1>2 DEF Decision, TypeOK, Sourced
<1> QED BY <1>1, <1>2

LEMMA TypeInit == Init => TypeOK
<1> SUFFICES ASSUME Init PROVE TypeOK
  OBVIOUS
<1>1. Unset \in Sourced /\ "none" \in LlmVerdicts /\ Idle \in Jobs
  BY DEF Unset, Sourced, LlmVerdicts, Jobs
<1>2. wire \in [Requests -> Seq(Verdicts)] /\ trail \in [Requests -> Seq(Records)]
  BY DEF Init
<1>3. staged \in [Requests -> Sourced] /\ final \in [Requests -> Sourced]
  BY <1>1 DEF Init
<1>4. work \in [Threads -> Jobs] /\ llm \in [Requests -> LlmVerdicts]
  BY <1>1 DEF Init
<1>5. remaining \in [Requests -> Int]
  BY DEF Init
<1> QED BY <1>2, <1>3, <1>4, <1>5 DEF Init, TypeOK

LEMMA TypeNext == TypeOK /\ [Next]_vars => TypeOK'
<1> SUFFICES ASSUME TypeOK, [Next]_vars PROVE TypeOK'
  OBVIOUS
<1> USE ThreadsFacts DEF conf, draft, clock, plan
<1>1. ASSUME NEW r \in Requests, Register(r) PROVE TypeOK'
  <2> PICK S \in SUBSET Signals :
         /\ expected' = [expected EXCEPT ![r] = S]
         /\ outstanding' = [outstanding EXCEPT ![r] = S]
         /\ unclaimed' = [unclaimed EXCEPT ![r] = S]
         /\ RegisterPassthrough(r, S) \/ RegisterPending(r, S)
    BY <1>1 DEF Register
  <2>1. CASE RegisterPassthrough(r, S)
    <3>1. "defer" \in Verdicts /\ "passthrough" \in Sources
      BY VerdictNames
    <3>2. wire' \in [Requests -> Seq(Verdicts)]
      <4>1. wire \in [Requests -> Seq(Verdicts)]
        BY DEF TypeOK
      <4> QED BY <2>1, <3>1, <4>1, AppendTyped, Update DEF RegisterPassthrough
    <3>3. final' \in [Requests -> Sourced]
      <4>1. SetFinal(final[r], "defer", "passthrough") \in Sourced
        BY <3>1 DEF SetFinal, Sourced, TypeOK
      <4> QED BY <2>1, <4>1 DEF RegisterPassthrough, TypeOK
    <3>4. RequestRecord(final'[r], FALSE, hits[r], llm[r]) \in Records
      BY <3>3, RecordsTyped DEF TypeOK
    <3>5. trail' \in [Requests -> Seq(Records)]
      BY <2>1, <3>4, AppendRecordTyped DEF RegisterPassthrough
    <3> QED BY <1>1, <2>1, <3>2, <3>3, <3>5 DEF Register, RegisterPassthrough, TypeOK
  <2>2. CASE RegisterPending(r, S)
    <3>1. Cardinality(S) \in Int
      BY FS_Subset, FS_CardinalityType
    <3> QED BY <1>1, <2>2, <3>1 DEF Register, RegisterPending, TypeOK
  <2> QED BY <2>1, <2>2
<1>2. ASSUME NEW r \in Requests, OperatorSigns(r) PROVE TypeOK'
  BY <1>2 DEF OperatorSigns, TypeOK
<1>3. ASSUME NEW r \in Requests, SignoffDecides(r) PROVE TypeOK'
  <2>1. \A v \in {"allow", "deny"} :
          [pc |-> "resolving", id |-> r, signal |-> None, verdict |-> v] \in Jobs
    BY DEF Jobs, SignoffJobs
  <2> QED BY <1>3, <2>1 DEF SignoffDecides, TypeOK
<1>4. ASSUME NEW r \in Requests, TtlElapses(r) \/ HoldTtlElapses(r) PROVE TypeOK'
  BY <1>4 DEF TtlElapses, HoldTtlElapses, TypeOK
<1>5. ASSUME NEW r \in Requests, Reap(r) PROVE TypeOK'
  <2>1. CASE r \notin pending
    BY <1>5, <2>1 DEF Reap, TypeOK
  <2>2. CASE r \in pending
    <3>1. "deny" \in Verdicts /\ "signoff" \in Sources /\ "reaper" \in Sources
      BY VerdictNames
    <3>2. /\ stream' \in [Requests -> BOOLEAN]
          /\ wire' \in [Requests -> Seq(Verdicts)]
          /\ final' \in [Requests -> Sourced]
      BY <1>5, <2>2, <3>1, RespondTyped DEF Reap
    <3>3. /\ RequestRecord(final'[r], FALSE, hits[r], llm[r]) \in Records
          /\ SignoffRecord("expired") \in Records
      BY <3>2, RecordsTyped DEF TypeOK
    <3>4. trail' \in [Requests -> Seq(Records)]
      BY <1>5, <2>2, <3>3, AppendRecordTyped DEF Reap
    <3> QED BY <1>5, <2>2, <3>2, <3>4 DEF Reap, Remove, TypeOK
  <2> QED BY <2>1, <2>2
<1>6. ASSUME NEW r \in Requests, ReviewQueueFull(r) PROVE TypeOK'
  <2>1. "storing" \in SignalPCs /\ Llm \in Signals /\ {"ask", "deny"} \subseteq LlmVerdicts
    BY DEF SignalPCs, Signals, LlmVerdicts
  <2>2. work' \in [Threads -> Jobs] /\ unclaimed' \in [Requests -> SUBSET Signals]
    BY <1>6, <2>1, BeginTyped DEF ReviewQueueFull
  <2> QED BY <1>6, <2>2 DEF ReviewQueueFull, TypeOK
<1>7. ASSUME NEW r \in Requests, NEW e \in Events, AlertsBegin(r, e) PROVE TypeOK'
  <2>1. "reporting" \in SignalPCs /\ e \in Signals
    BY DEF SignalPCs, Signals
  <2>2. work' \in [Threads -> Jobs] /\ unclaimed' \in [Requests -> SUBSET Signals]
    BY <1>7, <2>1, BeginTyped, VerdictNames DEF AlertsBegin
  <2> QED BY <1>7, <2>2 DEF AlertsBegin, TypeOK
<1>8. ASSUME NEW r \in Requests, NEW D \in SUBSET Events, EventQueueFull(r, D) PROVE TypeOK'
  <2>1. /\ hits' \in [Requests -> SUBSET Hits] /\ llm' \in [Requests -> LlmVerdicts]
        /\ stream' \in [Requests -> BOOLEAN]
        /\ wire' \in [Requests -> Seq(Verdicts)]
        /\ final' \in [Requests -> Sourced]
    BY <1>8, ApplyDenyTyped DEF EventQueueFull
  <2> QED BY <1>8, <2>1 DEF EventQueueFull, TypeOK
<1>9. ASSUME NEW r \in Requests, NEW w \in LlmWorkers, ReviewBegin(w, r) PROVE TypeOK'
  <2>1. "storing" \in SignalPCs /\ Llm \in Signals
    BY DEF SignalPCs, Signals
  <2>2. work' \in [Threads -> Jobs] /\ unclaimed' \in [Requests -> SUBSET Signals]
    BY <1>9, <2>1, BeginTyped DEF ReviewBegin
  <2> QED BY <1>9, <2>2 DEF ReviewBegin, TypeOK
<1>10. ASSUME NEW t \in Threads, SignalComplete(t) PROVE TypeOK'
  <2>1. {"reporting", "signalling", "sealing", "holding"} \subseteq SignalPCs
    BY DEF SignalPCs
  <2>2. work[t].pc \in SignalPCs /\ AfterLastSignal \in SignalPCs
    BY <1>10, <2>1 DEF SignalComplete, Reports, AfterLastSignal
  <2>3. work' \in [Threads -> Jobs]
    BY <1>10, <2>2, WorkTyped DEF SignalComplete
  <2>4. work[t].id \in Requests
    BY <2>2, SignalJob DEF TypeOK
  <2>5. remaining' \in [Requests -> Int] /\ outstanding' \in [Requests -> SUBSET Signals]
    BY <1>10, <2>4 DEF SignalComplete, TypeOK
  <2> QED BY <1>10, <2>3, <2>5 DEF SignalComplete, TypeOK
<1>11. ASSUME NEW t \in Threads, TryHold(t) PROVE TypeOK'
  <2> DEFINE r == work[t].id
  <2>1. {"holding", "unsealed", "sealing"} \subseteq SignalPCs
    BY DEF SignalPCs
  <2>2. work[t].pc \in SignalPCs
    BY <1>11, <2>1 DEF TryHold
  <2>3. r \in Requests
    BY <2>2, SignalJob DEF TypeOK
  <2>4. work' \in [Threads -> Jobs]
    BY <1>11, <2>1, <2>2, WorkTyped DEF TryHold, Hold
  <2>5. CASE QualifiesForHold(r) /\ Hold(t, r)
    <3>1. Unset \in Sourced /\ staged' \in [Requests -> Sourced]
      BY <2>3, <2>5 DEF Hold, Unset, Sourced, TypeOK
    <3>2. SetFinal(final[r], staged[r].verdict, staged[r].source) \in Sourced
      <4>1. staged[r] # Unset
        BY <2>5, UnsetVerdict DEF QualifiesForHold
      <4>2. staged[r] \in [verdict : Verdicts, source : Sources]
        BY <2>3, <4>1 DEF TypeOK, Sourced
      <4> QED BY <2>3, <4>2 DEF SetFinal, Sourced, TypeOK
    <3>3. final' \in [Requests -> Sourced]
      BY <2>3, <2>5, <3>2 DEF Hold, TypeOK
    <3>4. RequestRecord(final'[r], TRUE, hits[r], llm[r]) \in Records
      BY <2>3, <3>3, RecordsTyped DEF TypeOK
    <3>5. trail' \in [Requests -> Seq(Records)]
      <4>1. trail \in [Requests -> Seq(Records)]
        BY DEF TypeOK
      <4> QED BY <2>3, <2>5, <3>4, <4>1, AppendRecordTyped DEF Hold
    <3>6. held' \in [Requests -> BOOLEAN]
      BY <2>5 DEF Hold, TypeOK
    <3> QED BY <1>11, <2>4, <3>1, <3>3, <3>5, <3>6 DEF TryHold, TypeOK
  <2>6. CASE UNCHANGED <<staged, final, trail, held>>
    BY <1>11, <2>4, <2>6 DEF TryHold, TypeOK
  <2> QED BY <1>11, <2>5, <2>6 DEF TryHold
<1>12. ASSUME NEW t \in Threads, DenyUnsealed(t) PROVE TypeOK'
  <2>1. work[t].id \in Requests
    BY <1>12, SignalJob DEF DenyUnsealed, SignalPCs, TypeOK
  <2>2. work' \in [Threads -> Jobs]
    BY <1>12, WorkTyped DEF DenyUnsealed
  <2>3. UnsealedVerdict \in Verdicts /\ "signoff" \in Sources
    BY VerdictNames DEF UnsealedVerdict
  <2>4. /\ stream' \in [Requests -> BOOLEAN]
        /\ wire' \in [Requests -> Seq(Verdicts)]
        /\ final' \in [Requests -> Sourced]
    BY <1>12, <2>1, <2>3, RespondTyped DEF DenyUnsealed, TypeOK
  <2> QED BY <1>12, <2>2, <2>4 DEF DenyUnsealed, Remove, TypeOK
<1>13. ASSUME NEW t \in Threads, Seal(t) PROVE TypeOK'
  <2> DEFINE r == work[t].id
  <2>1. r \in Requests
    BY <1>13, SignalJob DEF Seal, SignalPCs, TypeOK
  <2>2. work' \in [Threads -> Jobs]
    BY <1>13, WorkTyped DEF Seal
  <2>3. CASE r \notin pending
    BY <1>13, <2>2, <2>3 DEF Seal, TypeOK
  <2>4. CASE r \in pending
    <3>1. AnswerAndSeal(r)
      BY <1>13, <2>4 DEF Seal
    <3>2. Decision(r).verdict \in Verdicts /\ Decision(r).source \in Sources
      BY <2>1, DecisionTyped
    <3>3. /\ stream' \in [Requests -> BOOLEAN]
          /\ wire' \in [Requests -> Seq(Verdicts)]
          /\ final' \in [Requests -> Sourced]
      BY <2>1, <3>1, <3>2, RespondTyped DEF AnswerAndSeal
    <3>4. Unset \in Sourced /\ staged' \in [Requests -> Sourced]
      BY <2>1, <3>1 DEF AnswerAndSeal, Unset, Sourced, TypeOK
    <3>5. RequestRecord(final'[r], FALSE, hits[r], llm[r]) \in Records
      BY <2>1, <3>3, RecordsTyped DEF TypeOK
    <3>6. trail' \in [Requests -> Seq(Records)]
      BY <2>1, <3>1, <3>5, AppendRecordTyped DEF AnswerAndSeal
    <3> QED BY <1>13, <2>2, <3>1, <3>3, <3>4, <3>6 DEF Seal, AnswerAndSeal, Remove, TypeOK
  <2> QED BY <2>3, <2>4
<1>14. ASSUME NEW t \in Threads, StoreReview(t) PROVE TypeOK'
  <2>1. work[t].pc \in SignalPCs /\ "applying" \in SignalPCs
    BY <1>14 DEF StoreReview, SignalPCs
  <2>2. work[t].verdict \in LlmVerdicts
    BY <2>1, SignalJob DEF TypeOK
  <2>3. work' \in [Threads -> Jobs] /\ llm' \in [Requests -> LlmVerdicts]
    BY <1>14, <2>1, <2>2, WorkTyped DEF StoreReview, TypeOK
  <2> QED BY <1>14, <2>3 DEF StoreReview, TypeOK
<1>15. ASSUME NEW t \in Threads, ApplyReview(t) PROVE TypeOK'
  <2>1. work[t].pc \in SignalPCs /\ "signalling" \in SignalPCs
    BY <1>15 DEF ApplyReview, SignalPCs
  <2>2. work[t].id \in Requests
    BY <2>1, SignalJob DEF TypeOK
  <2>3. work' \in [Threads -> Jobs]
    BY <1>15, <2>1, WorkTyped DEF ApplyReview
  <2>4. CASE ApplyDeny(work[t].id, "llm") /\ UNCHANGED staged
    BY <1>15, <2>2, <2>3, <2>4, ApplyDenyTyped DEF ApplyReview, TypeOK
  <2>5. CASE ApplyAsk(work[t].id, "llm") /\ UNCHANGED <<stream, wire, final>>
    BY <1>15, <2>2, <2>3, <2>5, ApplyAskTyped DEF ApplyReview, TypeOK
  <2>6. CASE UNCHANGED <<draft, stream, wire, staged>>
    BY <1>15, <2>3, <2>6 DEF ApplyReview, TypeOK
  <2> QED BY <1>15, <2>4, <2>5, <2>6 DEF ApplyReview
<1>16. ASSUME DenyAlert \/ AskAlert PROVE TypeOK'
  <2>1. work[Http].id \in Requests
    BY <1>16, SignalJob DEF DenyAlert, AskAlert, SignalPCs, TypeOK
  <2>2. CASE DenyAlert
    BY <2>1, <2>2, ApplyDenyTyped DEF DenyAlert, TypeOK
  <2>3. CASE AskAlert
    BY <2>1, <2>3, ApplyAskTyped DEF AskAlert, TypeOK
  <2> QED BY <1>16, <2>2, <2>3
<1>17. ASSUME SeenAlertLost PROVE TypeOK'
  <2>1. work' \in [Threads -> Jobs]
    BY <1>17, WorkTyped DEF SeenAlertLost
  <2> QED BY <1>17, <2>1 DEF SeenAlertLost, TypeOK
<1>18. ASSUME SignoffResolves PROVE TypeOK'
  <2> DEFINE r == work[Sock].id
  <2>1. r \in Requests /\ work[Sock].verdict \in {"allow", "deny"}
    BY <1>18, SignoffJob DEF SignoffResolves, TypeOK
  <2>2. work' \in [Threads -> Jobs]
    BY <1>18, WorkTyped DEF SignoffResolves
  <2>3. CASE r \notin pending
    BY <1>18, <2>2, <2>3 DEF SignoffResolves, TypeOK
  <2>4. CASE r \in pending
    <3>1. work[Sock].verdict \in Verdicts /\ "signoff" \in Sources
      BY <2>1, VerdictNames
    <3>2. /\ stream' \in [Requests -> BOOLEAN]
          /\ wire' \in [Requests -> Seq(Verdicts)]
          /\ final' \in [Requests -> Sourced]
      BY <1>18, <2>1, <2>4, <3>1, RespondTyped DEF SignoffResolves
    <3>3. trail' \in [Requests -> Seq(Records)]
      BY <1>18, <2>1, <2>4, RecordsTyped, AppendRecordTyped DEF SignoffResolves
    <3> QED BY <1>18, <2>2, <2>4, <3>2, <3>3 DEF SignoffResolves, Remove, TypeOK
  <2> QED BY <2>3, <2>4
<1>19. ASSUME ReapScan PROVE TypeOK'
  BY <1>19 DEF ReapScan, TypeOK
<1>20. CASE UNCHANGED vars
  BY <1>20 DEF vars, TypeOK
<1> QED
  BY <1>1, <1>2, <1>3, <1>4, <1>5, <1>6, <1>7, <1>8, <1>9, <1>10, <1>11, <1>12, <1>13,
     <1>14, <1>15, <1>16, <1>17, <1>18, <1>19, <1>20
  DEF Next, Completes, Reviews

(* Type correctness of every reachable state: the entries, drafts, threads and
   audit records of broker.rs never leave their types.                       *)
THEOREM TypeCorrect == Spec => []TypeOK
BY TypeInit, TypeNext, PTL DEF Spec

(***************************************************************************)
(* What a step does to the jobs of the threads.                            *)
(***************************************************************************)
LEMMA IdleJob == Idle.pc = "idle" /\ Idle.id = None /\ Idle.signal = None
BY DEF Idle

LEMMA GoToJob ==
  ASSUME TypeOK, NEW t \in Threads, work[t].pc \in SignalPCs, NEW pc \in SignalPCs,
         GoTo(t, pc)
  PROVE  /\ \A u \in Threads : u # t => work'[u] = work[u]
         /\ work'[t].pc = pc /\ work'[t].id = work[t].id
         /\ work'[t].signal = work[t].signal /\ work'[t].verdict = work[t].verdict
<1>1. work \in [Threads -> Jobs]
  BY DEF TypeOK
<1>2. work[t] \in SignalJobs
  BY <1>1, IdleJob DEF Jobs, SignoffJobs, SignalPCs
<1>3. work'[t] = [work[t] EXCEPT !.pc = pc] /\ \A u \in Threads : u # t => work'[u] = work[u]
  BY <1>1 DEF GoTo
<1>4. /\ [work[t] EXCEPT !.pc = pc].pc = pc
      /\ [work[t] EXCEPT !.pc = pc].id = work[t].id
      /\ [work[t] EXCEPT !.pc = pc].signal = work[t].signal
      /\ [work[t] EXCEPT !.pc = pc].verdict = work[t].verdict
  BY <1>2 DEF SignalJobs
<1> QED BY <1>3, <1>4

LEMMA FinishJob ==
  ASSUME TypeOK, NEW t \in Threads, Finish(t)
  PROVE  /\ \A u \in Threads : u # t => work'[u] = work[u]
         /\ work'[t] = Idle
BY DEF TypeOK, Finish

LEMMA BeginJob ==
  ASSUME TypeOK, NEW t \in Threads, NEW r \in Requests, NEW s \in Signals,
         NEW pc \in SignalPCs, NEW v \in LlmVerdicts, Begin(t, r, s, pc, v)
  PROVE  /\ \A u \in Threads : u # t => work'[u] = work[u]
         /\ work[t] = Idle
         /\ work'[t].pc = pc /\ work'[t].id = r /\ work'[t].signal = s /\ work'[t].verdict = v
         /\ s \in unclaimed[r]
         /\ unclaimed' = [unclaimed EXCEPT ![r] = @ \ {s}]
<1>1. work'[t] = [pc |-> pc, id |-> r, signal |-> s, verdict |-> v]
  BY DEF Begin, TypeOK
<1>2. /\ [pc |-> pc, id |-> r, signal |-> s, verdict |-> v].pc = pc
      /\ [pc |-> pc, id |-> r, signal |-> s, verdict |-> v].id = r
      /\ [pc |-> pc, id |-> r, signal |-> s, verdict |-> v].signal = s
      /\ [pc |-> pc, id |-> r, signal |-> s, verdict |-> v].verdict = v
  OBVIOUS
<1> QED BY <1>1, <1>2 DEF Begin, TypeOK

LEMMA SignoffDecidesJob ==
  ASSUME TypeOK, NEW r \in Requests, SignoffDecides(r)
  PROVE  /\ \A u \in Threads : u # Sock => work'[u] = work[u]
         /\ work[Sock] = Idle
         /\ work'[Sock].pc = "resolving" /\ work'[Sock].id = r
         /\ work'[Sock].verdict = "allow" => r \in signed
<1>1. PICK v \in {"allow", "deny"} :
        /\ v = "allow" => \E proof \in signed \cup {None} : ProofVerifies(r, proof)
        /\ work' = [work EXCEPT ![Sock] =
                      [pc |-> "resolving", id |-> r, signal |-> None, verdict |-> v]]
  BY DEF SignoffDecides
<1>2. work'[Sock] = [pc |-> "resolving", id |-> r, signal |-> None, verdict |-> v]
  BY <1>1, ThreadsFacts DEF TypeOK
<1>3. v = "allow" => r \in signed
  BY <1>1, ConstantsAssumption DEF ProofVerifies, ConstantsAssumption
<1>4. /\ [pc |-> "resolving", id |-> r, signal |-> None, verdict |-> v].pc = "resolving"
      /\ [pc |-> "resolving", id |-> r, signal |-> None, verdict |-> v].id = r
      /\ [pc |-> "resolving", id |-> r, signal |-> None, verdict |-> v].verdict = v
  OBVIOUS
<1> QED BY <1>1, <1>2, <1>3, <1>4, ThreadsFacts DEF SignoffDecides, TypeOK

LEMMA ReporterPCs ==
  /\ Reporting \subseteq SignalPCs
  /\ {"holding", "unsealed", "sealing"} \subseteq SignalPCs
  /\ {"holding", "unsealed", "sealing"} \cap Reporting = {}
  /\ "idle" \notin SignalPCs /\ "resolving" \notin SignalPCs
BY DEF Reporting, SignalPCs

(***************************************************************************)
(* SignalsHaveOneBringer is inductive, given the types.                    *)
(***************************************************************************)
NoNewBringer ==
  \A t \in Threads, r \in Requests :
    Brings(t, r)' => Brings(t, r) /\ work'[t].signal = work[t].signal

LEMMA BringersShrink ==
  ASSUME SignalsHaveOneBringer, NoNewBringer, UNCHANGED plan
  PROVE  SignalsHaveOneBringer'
BY DEF SignalsHaveOneBringer, NoNewBringer, plan

\* A thread that goes on with its job, or ends it, starts no other.
LEMMA GoToNoNewBringer ==
  ASSUME TypeOK, NEW t \in Threads, NEW pc \in SignalPCs, GoTo(t, pc),
         work[t].pc \in SignalPCs, pc \in Reporting => work[t].pc \in Reporting
  PROVE  NoNewBringer
BY GoToJob DEF NoNewBringer, Brings

LEMMA FinishNoNewBringer ==
  ASSUME TypeOK, NEW t \in Threads, Finish(t)
  PROVE  NoNewBringer
<1>1. Idle.pc \notin Reporting
  BY IdleJob, ReporterPCs
<1> QED BY <1>1, FinishJob DEF NoNewBringer, Brings

LEMMA BeginBringers ==
  ASSUME TypeOK, SignalsHaveOneBringer, NEW t \in Threads, NEW r \in Requests,
         NEW s \in Signals, NEW pc \in SignalPCs, NEW v \in LlmVerdicts,
         Begin(t, r, s, pc, v), UNCHANGED <<expected, outstanding>>
  PROVE  SignalsHaveOneBringer'
<1>1. /\ \A u \in Threads : u # t => work'[u] = work[u]
      /\ work'[t].id = r /\ work'[t].signal = s
      /\ s \in unclaimed[r]
      /\ unclaimed' = [unclaimed EXCEPT ![r] = @ \ {s}]
  BY BeginJob
<1>2. \A q \in Requests : unclaimed'[q] \subseteq unclaimed[q]
  BY <1>1 DEF TypeOK
<1>3. s \notin unclaimed'[r] /\ s \in outstanding[r]
  BY <1>1 DEF TypeOK, SignalsHaveOneBringer
<1>4. ASSUME NEW u \in Threads, NEW q \in Requests, Brings(u, q)'
      PROVE  /\ work'[u].signal \in outstanding'[q] \ unclaimed'[q]
             /\ \A w \in Threads : Brings(w, q)' /\ work'[u].signal = work'[w].signal => u = w
  <2>1. CASE u = t
    <3>1. q = r
      BY <1>1, <1>4, <2>1 DEF Brings
    <3>2. ASSUME NEW w \in Threads, Brings(w, q)', w # t PROVE work'[w].signal # s
      <4>1. Brings(w, r) /\ work'[w].signal = work[w].signal
        BY <1>1, <3>1, <3>2 DEF Brings
      <4> QED BY <1>1, <4>1 DEF SignalsHaveOneBringer
    <3> QED BY <1>1, <1>3, <2>1, <3>1, <3>2
  <2>2. CASE u # t
    <3>1. Brings(u, q) /\ work'[u] = work[u]
      BY <1>1, <1>4, <2>2 DEF Brings
    <3>2. work[u].signal \in outstanding[q] \ unclaimed[q]
      BY <3>1 DEF SignalsHaveOneBringer
    <3>3. ASSUME NEW w \in Threads, Brings(w, q)', work'[u].signal = work'[w].signal
          PROVE  u = w
      <4>1. w # t
        BY <1>1, <3>1, <3>2, <3>3 DEF Brings
      <4>2. Brings(w, q) /\ work'[w] = work[w]
        BY <1>1, <3>3, <4>1 DEF Brings
      <4> QED BY <3>1, <3>3, <4>2 DEF SignalsHaveOneBringer
    <3> QED BY <1>2, <3>1, <3>2, <3>3
  <2> QED BY <2>1, <2>2
<1> QED BY <1>2, <1>4 DEF SignalsHaveOneBringer

LEMMA SignalCompleteBringers ==
  ASSUME TypeOK, SignalsHaveOneBringer, NEW t \in Threads, SignalComplete(t)
  PROVE  SignalsHaveOneBringer'
<1> DEFINE r == work[t].id
<1>1. work[t].pc \in Reporting
  BY DEF SignalComplete, Reports, Reporting
<1>2. r \in Requests /\ work[t].pc \in SignalPCs
  BY <1>1, SignalJob, ReporterPCs DEF TypeOK
<1>3. Brings(t, r)
  BY <1>1 DEF Brings
<1>4. work[t].signal \in outstanding[r] \ unclaimed[r]
  BY <1>2, <1>3 DEF SignalsHaveOneBringer
<1>5. /\ \A u \in Threads : u # t => work'[u] = work[u]
      /\ work'[t].pc \notin Reporting
  <2>1. AfterLastSignal \in {"holding", "sealing"}
    BY DEF AfterLastSignal
  <2>2. CASE GoTo(t, AfterLastSignal)
    BY <1>2, <2>1, <2>2, GoToJob, ReporterPCs
  <2>3. CASE Finish(t)
    BY <2>3, FinishJob, IdleJob, ReporterPCs
  <2> QED BY <2>2, <2>3 DEF SignalComplete
<1>6. outstanding' = [outstanding EXCEPT ![r] = @ \ {work[t].signal}]
  BY DEF SignalComplete
<1>7. \A q \in Requests : /\ outstanding'[q] \subseteq outstanding[q]
                          /\ q # r => outstanding'[q] = outstanding[q]
                          /\ q = r => outstanding'[q] = outstanding[q] \ {work[t].signal}
  BY <1>2, <1>6 DEF TypeOK
<1>8. ASSUME NEW u \in Threads, NEW q \in Requests, Brings(u, q)'
      PROVE  u # t /\ Brings(u, q) /\ work'[u] = work[u]
  BY <1>5, <1>8 DEF Brings
<1>9. ASSUME NEW u \in Threads, NEW q \in Requests, Brings(u, q)'
      PROVE  work'[u].signal \in outstanding'[q] \ unclaimed[q]
  <2>1. u # t /\ Brings(u, q) /\ work'[u] = work[u]
    BY <1>8, <1>9
  <2>2. work[u].signal \in outstanding[q] \ unclaimed[q]
    BY <2>1 DEF SignalsHaveOneBringer
  <2>3. q = r => work[u].signal # work[t].signal
    BY <1>2, <1>3, <2>1 DEF SignalsHaveOneBringer
  <2> QED BY <1>7, <2>1, <2>2, <2>3
<1>10. unclaimed' = unclaimed /\ expected' = expected
  BY DEF SignalComplete
<1>11. \A q \in Requests : unclaimed[q] \subseteq outstanding'[q]
  BY <1>4, <1>7 DEF SignalsHaveOneBringer
<1> QED BY <1>7, <1>8, <1>9, <1>10, <1>11 DEF SignalsHaveOneBringer

(***************************************************************************)
(* StreamUntilAnswered is inductive, given the types.                      *)
(***************************************************************************)
LEMMA RespondEffect ==
  ASSUME TypeOK, NEW r \in Requests, NEW v, NEW src, Respond(r, v, src)
  PROVE  /\ \A q \in Requests : q # r => stream'[q] = stream[q] /\ wire'[q] = wire[q]
         /\ stream'[r] = FALSE
         /\ stream[r] => wire'[r] = Append(wire[r], v)
         /\ ~stream[r] => wire'[r] = wire[r]
<1>1. /\ stream \in [Requests -> BOOLEAN]
      /\ wire \in [Requests -> Seq(Verdicts)]
  BY DEF TypeOK
<1>2. /\ stream' = [stream EXCEPT ![r] = FALSE]
      /\ wire' = IF stream[r] THEN [wire EXCEPT ![r] = Append(@, v)] ELSE wire
  BY DEF Respond
<1> QED BY <1>1, <1>2

LEMMA FirstOf ==
  ASSUME NEW v \in Verdicts
  PROVE  Append(<<>>, v) = <<v>> /\ Len(<<v>>) = 1 /\ Len(<<>>) = 0 /\ <<v>> # <<>>
OBVIOUS

\* The answer leaves with the entry.
LEMMA AnswerAndRemoveStream ==
  ASSUME TypeOK, StreamUntilAnswered, NEW r \in Requests, r \in pending,
         NEW v \in Verdicts, NEW src, Remove(r), Respond(r, v, src),
         UNCHANGED <<mode, expected>>
  PROVE  StreamUntilAnswered'
<1>1. /\ \A q \in Requests : q # r => stream'[q] = stream[q] /\ wire'[q] = wire[q]
      /\ stream'[r] = FALSE
      /\ stream[r] => wire'[r] = Append(wire[r], v)
      /\ ~stream[r] => wire'[r] = wire[r]
  BY RespondEffect
<1>2. Len(wire'[r]) <= 1
  BY <1>1, FirstOf DEF StreamUntilAnswered
<1>3. pending' = pending \ {r} /\ Registered(r) /\ \A q \in Requests : Registered(q)' = Registered(q)
  BY DEF Remove, StreamUntilAnswered, Registered
<1> QED BY <1>1, <1>2, <1>3 DEF StreamUntilAnswered

\* A deny leaves the entry behind.
LEMMA ApplyDenyStream ==
  ASSUME TypeOK, StreamUntilAnswered, NEW r \in Requests, NEW src, ApplyDeny(r, src),
         UNCHANGED <<mode, pending, expected>>
  PROVE  StreamUntilAnswered'
<1>1. \A q \in Requests : Registered(q)' = Registered(q)
  BY DEF Registered
<1>2. CASE UNCHANGED <<stream, wire>>
  BY <1>1, <1>2 DEF StreamUntilAnswered
<1>3. CASE r \in pending /\ Respond(r, "deny", src)
  <2>1. /\ \A q \in Requests : q # r => stream'[q] = stream[q] /\ wire'[q] = wire[q]
        /\ stream'[r] = FALSE
        /\ stream[r] => wire'[r] = Append(wire[r], "deny")
        /\ ~stream[r] => wire'[r] = wire[r]
    BY <1>3, RespondEffect
  <2>2. "deny" \in Verdicts
    BY VerdictNames
  <2>3. wire'[r] = <<"deny">>
    BY <1>3, <2>1, <2>2, FirstOf DEF StreamUntilAnswered
  <2>4. Len(wire'[r]) <= 1 /\ Registered(r)
    BY <1>3, <2>2, <2>3, FirstOf DEF StreamUntilAnswered
  <2> QED BY <1>1, <1>3, <2>1, <2>3, <2>4 DEF StreamUntilAnswered
<1> QED BY <1>2, <1>3 DEF ApplyDeny

LEMMA RegisterStream ==
  ASSUME TypeOK, StreamUntilAnswered, NEW r \in Requests, Register(r)
  PROVE  StreamUntilAnswered'
<1> PICK S \in SUBSET Signals :
       /\ S # {}
       /\ expected' = [expected EXCEPT ![r] = S]
       /\ RegisterPassthrough(r, S) \/ RegisterPending(r, S)
  BY DEF Register
<1>1. ~Registered(r) /\ wire[r] = <<>> /\ r \notin pending /\ ~stream[r] /\ mode' = mode
  BY DEF Register, Registered, StreamUntilAnswered, conf
<1>2. Registered(r)' /\ \A q \in Requests : q # r => Registered(q)' = Registered(q)
  BY DEF Registered, TypeOK
<1>3. CASE RegisterPassthrough(r, S)
  <2>1. wire' = [wire EXCEPT ![r] = Append(@, "defer")] /\ UNCHANGED <<pending, stream>>
    BY <1>3 DEF RegisterPassthrough
  <2>2. wire'[r] = Append(<<>>, "defer") /\ \A q \in Requests : q # r => wire'[q] = wire[q]
    BY <1>1, <2>1 DEF TypeOK
  <2>3. Len(wire'[r]) <= 1
    BY <2>2, FirstOf, VerdictNames
  <2> QED BY <1>1, <1>2, <2>1, <2>2, <2>3 DEF StreamUntilAnswered
<1>4. CASE RegisterPending(r, S)
  <2>1. /\ mode # "passthrough" /\ pending' = pending \cup {r} /\ wire' = wire
        /\ stream' = [stream EXCEPT ![r] = TRUE]
    BY <1>4 DEF RegisterPending
  <2> QED BY <1>1, <1>2, <2>1 DEF StreamUntilAnswered, TypeOK
<1> QED BY <1>3, <1>4

LEMMA StreamInit == Init => StreamUntilAnswered
<1> SUFFICES ASSUME Init PROVE StreamUntilAnswered
  OBVIOUS
<1>1. Len(<<>>) = 0
  OBVIOUS
<1> QED BY <1>1 DEF Init, StreamUntilAnswered, Registered

LEMMA StreamNext == TypeOK /\ StreamUntilAnswered /\ [Next]_vars => StreamUntilAnswered'
<1> SUFFICES ASSUME TypeOK, StreamUntilAnswered, [Next]_vars PROVE StreamUntilAnswered'
  OBVIOUS
<1> USE ThreadsFacts DEF conf, draft, clock, plan
<1>1. CASE UNCHANGED <<mode, pending, stream, wire, expected>>
  BY <1>1 DEF StreamUntilAnswered, Registered
<1>2. ASSUME NEW r \in Requests, Register(r) PROVE StreamUntilAnswered'
  BY <1>2, RegisterStream
<1>3. ASSUME NEW r \in Requests, Reap(r) PROVE StreamUntilAnswered'
  <2>1. CASE r \in pending
    BY <1>3, <2>1, AnswerAndRemoveStream, VerdictNames DEF Reap
  <2>2. CASE r \notin pending
    BY <1>1, <1>3, <2>2 DEF Reap
  <2> QED BY <2>1, <2>2
<1>4. ASSUME NEW r \in Requests, NEW D \in SUBSET Events, EventQueueFull(r, D)
      PROVE  StreamUntilAnswered'
  BY <1>4, ApplyDenyStream DEF EventQueueFull
<1>5. ASSUME NEW t \in Threads, DenyUnsealed(t) PROVE StreamUntilAnswered'
  <2>1. work[t].id \in Requests
    BY <1>5, SignalJob DEF DenyUnsealed, SignalPCs, TypeOK
  <2>2. CASE work[t].id \in pending
    <3>1. UnsealedVerdict \in Verdicts
      BY VerdictNames DEF UnsealedVerdict
    <3> QED BY <1>5, <2>1, <2>2, <3>1, AnswerAndRemoveStream DEF DenyUnsealed
  <2>3. CASE work[t].id \notin pending
    BY <1>1, <1>5, <2>3 DEF DenyUnsealed
  <2> QED BY <2>2, <2>3
<1>6. ASSUME NEW t \in Threads, Seal(t) PROVE StreamUntilAnswered'
  <2>1. work[t].id \in Requests
    BY <1>6, SignalJob DEF Seal, SignalPCs, TypeOK
  <2>2. CASE work[t].id \in pending
    <3>1. Decision(work[t].id).verdict \in Verdicts
      BY <2>1, DecisionTyped
    <3> QED BY <1>6, <2>1, <2>2, <3>1, AnswerAndRemoveStream DEF Seal, AnswerAndSeal
  <2>3. CASE work[t].id \notin pending
    BY <1>1, <1>6, <2>3 DEF Seal
  <2> QED BY <2>2, <2>3
<1>7. ASSUME NEW t \in Threads, ApplyReview(t) PROVE StreamUntilAnswered'
  <2>1. work[t].id \in Requests
    BY <1>7, SignalJob DEF ApplyReview, SignalPCs, TypeOK
  <2>2. CASE ApplyDeny(work[t].id, "llm")
    BY <1>7, <2>1, <2>2, ApplyDenyStream DEF ApplyReview
  <2>3. CASE UNCHANGED <<stream, wire>>
    BY <1>1, <1>7, <2>3 DEF ApplyReview
  <2> QED BY <1>7, <2>2, <2>3 DEF ApplyReview
<1>8. ASSUME DenyAlert PROVE StreamUntilAnswered'
  <2>1. work[Http].id \in Requests
    BY <1>8, SignalJob DEF DenyAlert, SignalPCs, TypeOK
  <2> QED BY <1>8, <2>1, ApplyDenyStream DEF DenyAlert
<1>9. ASSUME SignoffResolves PROVE StreamUntilAnswered'
  <2>1. work[Sock].id \in Requests /\ work[Sock].verdict \in Verdicts
    BY <1>9, SignoffJob, VerdictNames DEF SignoffResolves, TypeOK
  <2>2. CASE work[Sock].id \in pending
    BY <1>9, <2>1, <2>2, AnswerAndRemoveStream DEF SignoffResolves
  <2>3. CASE work[Sock].id \notin pending
    BY <1>1, <1>9, <2>3 DEF SignoffResolves
  <2> QED BY <2>2, <2>3
<1>10. ASSUME NEW r \in Requests,
              OperatorSigns(r) \/ SignoffDecides(r) \/ TtlElapses(r) \/ HoldTtlElapses(r)
                \/ ReviewQueueFull(r) \/ (\E e \in Events : AlertsBegin(r, e))
                \/ (\E w \in LlmWorkers : ReviewBegin(w, r))
       PROVE  StreamUntilAnswered'
  BY <1>1, <1>10 DEF OperatorSigns, SignoffDecides, TtlElapses, HoldTtlElapses,
                     ReviewQueueFull, AlertsBegin, ReviewBegin
<1>11. ASSUME NEW t \in Threads, SignalComplete(t) \/ TryHold(t) \/ StoreReview(t)
       PROVE  StreamUntilAnswered'
  BY <1>1, <1>11 DEF SignalComplete, TryHold, StoreReview
<1>12. CASE AskAlert \/ SeenAlertLost \/ ReapScan \/ UNCHANGED vars
  BY <1>1, <1>12 DEF AskAlert, SeenAlertLost, ReapScan, vars
<1> QED
  BY <1>2, <1>3, <1>4, <1>5, <1>6, <1>7, <1>8, <1>9, <1>10, <1>11, <1>12
  DEF Next, Completes, Reviews

(* One verdict line per interceptor: broker.rs takes the stream out of the entry
   before it writes, so of all the threads that answer only the first does.    *)
THEOREM OneAnswer == Spec => []AnsweredOnce
<1>1. StreamUntilAnswered => AnsweredOnce
  BY DEF StreamUntilAnswered, AnsweredOnce
<1> QED BY <1>1, TypeInit, TypeNext, StreamInit, StreamNext, PTL DEF Spec

(***************************************************************************)
(* The signals: who brings them, and the count of those to come.           *)
(***************************************************************************)
LEMMA RegisterBringers ==
  ASSUME TypeOK, SignalsHaveOneBringer, NEW r \in Requests, Register(r)
  PROVE  SignalsHaveOneBringer'
<1> PICK S \in SUBSET Signals :
       /\ expected' = [expected EXCEPT ![r] = S]
       /\ outstanding' = [outstanding EXCEPT ![r] = S]
       /\ unclaimed' = [unclaimed EXCEPT ![r] = S]
  BY DEF Register
<1>1. expected[r] = {} /\ work' = work
  BY DEF Register
<1>2. /\ \A q \in Requests : q # r => /\ expected'[q] = expected[q]
                                      /\ outstanding'[q] = outstanding[q]
                                      /\ unclaimed'[q] = unclaimed[q]
      /\ expected'[r] = S /\ outstanding'[r] = S /\ unclaimed'[r] = S
  BY DEF TypeOK
<1>3. \A t \in Threads : ~Brings(t, r)
  BY <1>1 DEF SignalsHaveOneBringer
<1>4. \A t \in Threads, q \in Requests : Brings(t, q)' = Brings(t, q)
  BY <1>1 DEF Brings
<1> QED BY <1>1, <1>2, <1>3, <1>4 DEF SignalsHaveOneBringer

LEMMA EventQueueFullBringers ==
  ASSUME TypeOK, SignalsHaveOneBringer, NEW r \in Requests, NEW D \in SUBSET Events,
         EventQueueFull(r, D)
  PROVE  SignalsHaveOneBringer'
<1>1. /\ unclaimed' = [unclaimed EXCEPT ![r] = @ \ D]
      /\ work' = work /\ outstanding' = outstanding /\ expected' = expected
  BY DEF EventQueueFull
<1>2. \A q \in Requests : unclaimed'[q] \subseteq unclaimed[q]
  BY <1>1 DEF TypeOK
<1>3. \A t \in Threads, q \in Requests : Brings(t, q)' = Brings(t, q)
  BY <1>1 DEF Brings
<1> QED BY <1>1, <1>2, <1>3 DEF SignalsHaveOneBringer

\* What the steps that only move a thread on, or end its job, do to the bringers.
LEMMA MoveOn ==
  ASSUME TypeOK, NEW t \in Threads,
         TryHold(t) \/ DenyUnsealed(t) \/ Seal(t) \/ StoreReview(t) \/ ApplyReview(t)
  PROVE  NoNewBringer
<1>1. {"storing", "applying", "signalling"} \subseteq Reporting
  BY DEF Reporting
<1>2. ASSUME NEW pc \in SignalPCs, GoTo(t, pc), work[t].pc \in SignalPCs,
             pc \in Reporting => work[t].pc \in Reporting
      PROVE  NoNewBringer
  BY <1>2, GoToNoNewBringer
<1>3. CASE Finish(t)
  BY <1>3, FinishNoNewBringer
<1>4. CASE TryHold(t)
  BY <1>2, <1>3, <1>4, ReporterPCs DEF TryHold, Hold
<1>5. CASE DenyUnsealed(t) \/ Seal(t)
  BY <1>3, <1>5 DEF DenyUnsealed, Seal
<1>6. CASE StoreReview(t)
  BY <1>1, <1>2, <1>6, ReporterPCs DEF StoreReview
<1>7. CASE ApplyReview(t)
  BY <1>1, <1>2, <1>7, ReporterPCs DEF ApplyReview
<1> QED BY <1>4, <1>5, <1>6, <1>7

LEMMA BringersInit == Init => SignalsHaveOneBringer
<1> SUFFICES ASSUME Init PROVE SignalsHaveOneBringer
  OBVIOUS
<1>1. \A t \in Threads, r \in Requests : ~Brings(t, r)
  BY IdleJob, ReporterPCs DEF Init, Brings
<1> QED BY <1>1 DEF Init, SignalsHaveOneBringer

LEMMA BringersNext ==
  TypeOK /\ SignalsHaveOneBringer /\ [Next]_vars => SignalsHaveOneBringer'
<1> SUFFICES ASSUME TypeOK, SignalsHaveOneBringer, [Next]_vars
             PROVE  SignalsHaveOneBringer'
  OBVIOUS
<1> USE ThreadsFacts DEF conf, draft, clock, plan
<1>1. ASSUME NoNewBringer, UNCHANGED plan PROVE SignalsHaveOneBringer'
  BY <1>1, BringersShrink
<1>2. ASSUME UNCHANGED work PROVE NoNewBringer
  BY <1>2 DEF NoNewBringer, Brings
<1>3. ASSUME NEW r \in Requests, Register(r) PROVE SignalsHaveOneBringer'
  BY <1>3, RegisterBringers
<1>4. ASSUME NEW r \in Requests, NEW D \in SUBSET Events, EventQueueFull(r, D)
      PROVE  SignalsHaveOneBringer'
  BY <1>4, EventQueueFullBringers
<1>5. ASSUME NEW r \in Requests,
             OperatorSigns(r) \/ TtlElapses(r) \/ HoldTtlElapses(r) \/ Reap(r)
      PROVE  SignalsHaveOneBringer'
  <2>1. UNCHANGED work /\ UNCHANGED plan
    BY <1>5 DEF OperatorSigns, TtlElapses, HoldTtlElapses, Reap
  <2> QED BY <1>1, <1>2, <2>1
<1>6. ASSUME NEW r \in Requests, SignoffDecides(r) PROVE SignalsHaveOneBringer'
  <2>1. NoNewBringer
    BY <1>6, SignoffDecidesJob, ReporterPCs DEF NoNewBringer, Brings
  <2> QED BY <1>1, <1>6, <2>1 DEF SignoffDecides
<1>7. ASSUME NEW r \in Requests, ReviewQueueFull(r) PROVE SignalsHaveOneBringer'
  <2>1. "storing" \in SignalPCs /\ Llm \in Signals /\ {"ask", "deny"} \subseteq LlmVerdicts
    BY DEF SignalPCs, Signals, LlmVerdicts
  <2> QED BY <1>7, <2>1, BeginBringers DEF ReviewQueueFull
<1>8. ASSUME NEW r \in Requests, NEW e \in Events, AlertsBegin(r, e)
      PROVE  SignalsHaveOneBringer'
  <2>1. "reporting" \in SignalPCs /\ e \in Signals
    BY DEF SignalPCs, Signals
  <2> QED BY <1>8, <2>1, BeginBringers, VerdictNames DEF AlertsBegin
<1>9. ASSUME NEW r \in Requests, NEW w \in LlmWorkers, ReviewBegin(w, r)
      PROVE  SignalsHaveOneBringer'
  <2>1. "storing" \in SignalPCs /\ Llm \in Signals
    BY DEF SignalPCs, Signals
  <2> QED BY <1>9, <2>1, BeginBringers DEF ReviewBegin
<1>10. ASSUME NEW t \in Threads, SignalComplete(t) PROVE SignalsHaveOneBringer'
  BY <1>10, SignalCompleteBringers
<1>11. ASSUME NEW t \in Threads,
              TryHold(t) \/ DenyUnsealed(t) \/ Seal(t) \/ StoreReview(t) \/ ApplyReview(t)
       PROVE  SignalsHaveOneBringer'
  <2>1. UNCHANGED plan
    BY <1>11 DEF TryHold, DenyUnsealed, Seal, StoreReview, ApplyReview
  <2> QED BY <1>1, <1>11, <2>1, MoveOn
<1>12. CASE SeenAlertLost
  <2>1. NoNewBringer
    BY <1>12, FinishNoNewBringer DEF SeenAlertLost
  <2> QED BY <1>1, <1>12, <2>1 DEF SeenAlertLost
<1>13. CASE SignoffResolves
  <2>1. NoNewBringer
    BY <1>13, FinishNoNewBringer DEF SignoffResolves
  <2> QED BY <1>1, <1>13, <2>1 DEF SignoffResolves
<1>14. CASE DenyAlert \/ AskAlert \/ ReapScan \/ UNCHANGED vars
  <2>1. UNCHANGED work /\ UNCHANGED plan
    BY <1>14 DEF DenyAlert, AskAlert, ReapScan, vars
  <2> QED BY <1>1, <1>2, <2>1
<1> QED
  BY <1>3, <1>4, <1>5, <1>6, <1>7, <1>8, <1>9, <1>10, <1>11, <1>12, <1>13, <1>14
  DEF Next, Completes, Reviews

\* Only counting the last signal makes a thread complete a request.
NoNewCompleter == \A t \in Threads, r \in Requests : Completing(t, r)' => Completing(t, r)

CompletingPCs == {"holding", "unsealed", "sealing"}

LEMMA GoToNoNewCompleter ==
  ASSUME TypeOK, NEW t \in Threads, NEW pc \in SignalPCs, GoTo(t, pc),
         work[t].pc \in SignalPCs, pc \in CompletingPCs => work[t].pc \in CompletingPCs
  PROVE  NoNewCompleter
BY GoToJob DEF NoNewCompleter, Completing, CompletingPCs

LEMMA FinishNoNewCompleter ==
  ASSUME TypeOK, NEW t \in Threads, Finish(t)
  PROVE  NoNewCompleter
<1>1. Idle.pc \notin {"holding", "unsealed", "sealing"}
  BY IdleJob
<1> QED BY <1>1, FinishJob DEF NoNewCompleter, Completing

LEMMA BeginNoNewCompleter ==
  ASSUME TypeOK, NEW t \in Threads, NEW r \in Requests, NEW s \in Signals,
         NEW pc \in {"reporting", "storing"}, NEW v \in LlmVerdicts, Begin(t, r, s, pc, v)
  PROVE  NoNewCompleter
<1>1. pc \in SignalPCs
  BY DEF SignalPCs
<1> QED BY <1>1, BeginJob DEF NoNewCompleter, Completing

LEMMA NoNewCompleters ==
  ASSUME TypeOK, [Next]_vars, \A t \in Threads : ~SignalComplete(t)
  PROVE  NoNewCompleter
<1> USE ThreadsFacts
<1>1. {"storing", "applying", "signalling"} \subseteq SignalPCs
  BY DEF SignalPCs
<1>2. ASSUME UNCHANGED work PROVE NoNewCompleter
  BY <1>2 DEF NoNewCompleter, Completing
<1>3. ASSUME NEW t \in Threads, Finish(t) PROVE NoNewCompleter
  BY <1>3, FinishNoNewCompleter
<1>4. ASSUME NEW t \in Threads, TryHold(t) PROVE NoNewCompleter
  BY <1>3, <1>4, GoToNoNewCompleter, ReporterPCs DEF TryHold, Hold, CompletingPCs
<1>5. ASSUME NEW t \in Threads, DenyUnsealed(t) \/ Seal(t) PROVE NoNewCompleter
  BY <1>3, <1>5 DEF DenyUnsealed, Seal
<1>6. ASSUME NEW t \in Threads, StoreReview(t) \/ ApplyReview(t) PROVE NoNewCompleter
  <2>1. \A pc \in {"applying", "signalling"} : GoTo(t, pc) => NoNewCompleter
    BY <1>1, <1>6, GoToNoNewCompleter DEF StoreReview, ApplyReview, CompletingPCs
  <2> QED BY <1>6, <2>1 DEF StoreReview, ApplyReview
<1>7. ASSUME NEW r \in Requests, ReviewQueueFull(r) PROVE NoNewCompleter
  <2>1. Llm \in Signals /\ {"ask", "deny"} \subseteq LlmVerdicts
    BY DEF Signals, LlmVerdicts
  <2> QED BY <1>7, <2>1, BeginNoNewCompleter DEF ReviewQueueFull
<1>8. ASSUME NEW r \in Requests, NEW e \in Events, AlertsBegin(r, e) PROVE NoNewCompleter
  <2>1. e \in Signals
    BY DEF Signals
  <2> QED BY <1>8, <2>1, BeginNoNewCompleter, VerdictNames DEF AlertsBegin
<1>9. ASSUME NEW r \in Requests, NEW w \in LlmWorkers, ReviewBegin(w, r) PROVE NoNewCompleter
  <2>1. Llm \in Signals
    BY DEF Signals
  <2> QED BY <1>9, <2>1, BeginNoNewCompleter DEF ReviewBegin
<1>10. ASSUME NEW r \in Requests, SignoffDecides(r) PROVE NoNewCompleter
  BY <1>10, SignoffDecidesJob DEF NoNewCompleter, Completing
<1>11. ASSUME NEW r \in Requests,
              Register(r) \/ OperatorSigns(r) \/ TtlElapses(r) \/ HoldTtlElapses(r) \/ Reap(r)
                \/ \E D \in SUBSET Events : EventQueueFull(r, D)
       PROVE  NoNewCompleter
  BY <1>2, <1>11 DEF Register, OperatorSigns, TtlElapses, HoldTtlElapses, Reap, EventQueueFull
<1>12. CASE DenyAlert \/ AskAlert \/ ReapScan \/ UNCHANGED vars
  BY <1>2, <1>12 DEF DenyAlert, AskAlert, ReapScan, vars
<1>13. CASE SeenAlertLost \/ SignoffResolves
  BY <1>3, <1>13 DEF SeenAlertLost, SignoffResolves
<1> QED
  BY <1>4, <1>5, <1>6, <1>7, <1>8, <1>9, <1>10, <1>11, <1>12, <1>13
  DEF Next, Completes, Reviews

\* What counting a signal does: the count, the outstanding signals, the completer.
LEMMA SignalCompleteEffect ==
  ASSUME TypeOK, NEW t \in Threads, SignalComplete(t), NEW r, r = work[t].id
  PROVE  /\ r \in Requests /\ Brings(t, r)
         /\ \A q \in Requests : q # r => /\ outstanding'[q] = outstanding[q]
                                       /\ remaining'[q] = remaining[q]
         /\ outstanding'[r] = outstanding[r] \ {work[t].signal}
         /\ r \in pending => remaining'[r] = remaining[r] - 1
         /\ \A u \in Threads, q \in Requests : Completing(u, q)' =>
              Completing(u, q) \/ (u = t /\ q = r /\ r \in pending /\ remaining[r] = 1)
<1>1. work[t].pc \in Reporting
  BY DEF SignalComplete, Reports, Reporting
<1>2. r \in Requests /\ Brings(t, r) /\ work[t].pc \in SignalPCs
  BY <1>1, SignalJob, ReporterPCs DEF TypeOK, Brings
<1>3. /\ outstanding' = [outstanding EXCEPT ![r] = @ \ {work[t].signal}]
      /\ remaining' = IF r \in pending THEN [remaining EXCEPT ![r] = @ - 1] ELSE remaining
  BY DEF SignalComplete
<1>4. /\ \A q \in Requests : q # r => /\ outstanding'[q] = outstanding[q]
                                     /\ remaining'[q] = remaining[q]
      /\ outstanding'[r] = outstanding[r] \ {work[t].signal}
      /\ r \in pending => remaining'[r] = remaining[r] - 1
  BY <1>2, <1>3 DEF TypeOK
<1>5. ASSUME NEW u \in Threads, NEW q \in Requests, Completing(u, q)'
      PROVE  Completing(u, q) \/ (u = t /\ q = r /\ r \in pending /\ remaining[r] = 1)
  <2>1. CASE Finish(t)
    BY <1>5, <2>1, FinishNoNewCompleter DEF NoNewCompleter
  <2>2. CASE r \in pending /\ remaining[r] = 1 /\ GoTo(t, AfterLastSignal)
    <3>1. AfterLastSignal \in SignalPCs
      BY DEF AfterLastSignal, SignalPCs
    <3> QED BY <1>2, <1>5, <2>2, <3>1, GoToJob DEF Completing
  <2> QED BY <2>1, <2>2 DEF SignalComplete, IsLast
<1> QED BY <1>2, <1>4, <1>5

\* A step changes the draft and the hold of an entry only, and forgets no request.
LEMMA OnlyEntriesChange ==
  ASSUME TypeOK, [Next]_vars, NEW q \in Requests
  PROVE  /\ Registered(q) => Registered(q)'
         /\ q \notin pending => held'[q] = held[q] /\ hits'[q] = hits[q] /\ llm'[q] = llm[q]
<1> DEFINE Kept == /\ Registered(q) => Registered(q)'
                   /\ q \notin pending =>
                        held'[q] = held[q] /\ hits'[q] = hits[q] /\ llm'[q] = llm[q]
<1> USE ThreadsFacts DEF conf, draft, clock, plan
<1>1. CASE UNCHANGED <<expected, held, hits, llm>>
  BY <1>1 DEF Registered
<1>2. ASSUME NEW r \in Requests, Register(r) PROVE Kept
  BY <1>2 DEF Register, Registered, TypeOK
<1>3. ASSUME NEW r \in Requests, NEW src,
             ApplyDeny(r, src) \/ (ApplyAsk(r, src) /\ UNCHANGED final),
             UNCHANGED <<expected, held>>
      PROVE  Kept
  <2>1. r \notin pending => UNCHANGED <<hits, llm>>
    BY <1>3 DEF ApplyDeny, ApplyAsk
  <2>2. r # q => hits'[q] = hits[q] /\ llm'[q] = llm[q]
    BY <1>3 DEF ApplyDeny, ApplyAsk, RecordHit, TypeOK
  <2> QED BY <1>3, <2>1, <2>2 DEF Registered
<1>4. ASSUME NEW r \in Requests, NEW D \in SUBSET Events, EventQueueFull(r, D) PROVE Kept
  BY <1>3, <1>4 DEF EventQueueFull
<1>5. ASSUME NEW t \in Threads, ApplyReview(t) PROVE Kept
  <2>1. work[t].id \in Requests
    BY <1>5, SignalJob DEF ApplyReview, SignalPCs, TypeOK
  <2> QED BY <1>1, <1>3, <1>5, <2>1 DEF ApplyReview
<1>6. ASSUME NEW t \in Threads, StoreReview(t) PROVE Kept
  <2>1. llm'[q] = llm[q] \/ q \in pending
    BY <1>6 DEF StoreReview, TypeOK
  <2> QED BY <1>6, <2>1 DEF StoreReview, Registered
<1>7. ASSUME NEW t \in Threads, TryHold(t) PROVE Kept
  <2>1. held'[q] = held[q] \/ q \in pending
    BY <1>7 DEF TryHold, Hold, QualifiesForHold, TypeOK
  <2> QED BY <1>7, <2>1 DEF TryHold, Registered
<1>8. CASE DenyAlert \/ AskAlert
  <2>1. work[Http].id \in Requests
    BY <1>8, SignalJob DEF DenyAlert, AskAlert, SignalPCs, TypeOK
  <2> QED BY <1>3, <1>8, <2>1 DEF DenyAlert, AskAlert
<1>9. ASSUME NEW r \in Requests,
             OperatorSigns(r) \/ SignoffDecides(r) \/ TtlElapses(r) \/ HoldTtlElapses(r)
               \/ Reap(r) \/ ReviewQueueFull(r) \/ (\E e \in Events : AlertsBegin(r, e))
               \/ (\E w \in LlmWorkers : ReviewBegin(w, r))
      PROVE  Kept
  BY <1>1, <1>9 DEF OperatorSigns, SignoffDecides, TtlElapses, HoldTtlElapses, Reap,
                    ReviewQueueFull, AlertsBegin, ReviewBegin
<1>10. ASSUME NEW t \in Threads, SignalComplete(t) \/ DenyUnsealed(t) \/ Seal(t) PROVE Kept
  BY <1>1, <1>10 DEF SignalComplete, DenyUnsealed, Seal
<1>11. CASE SeenAlertLost \/ SignoffResolves \/ ReapScan \/ UNCHANGED vars
  BY <1>1, <1>11 DEF SeenAlertLost, SignoffResolves, ReapScan, vars
<1> QED
  BY <1>2, <1>4, <1>5, <1>6, <1>7, <1>8, <1>9, <1>10, <1>11 DEF Next, Completes, Reviews

LEMMA UntouchedInit == Init => UnregisteredIsUntouched
<1>1. Idle.pc \notin {"holding", "unsealed", "sealing"}
  BY IdleJob
<1> QED BY <1>1 DEF Init, UnregisteredIsUntouched, Completing

LEMMA UntouchedNext ==
  ASSUME TypeOK, SignalsHaveOneBringer, StreamUntilAnswered, UnregisteredIsUntouched,
         [Next]_vars
  PROVE  UnregisteredIsUntouched'
<1>1. ASSUME NEW q \in Requests, ~Registered(q)'
      PROVE  ~held'[q] /\ hits'[q] = {} /\ llm'[q] = "none"
  <2>1. ~Registered(q) /\ q \notin pending
    BY <1>1, OnlyEntriesChange DEF StreamUntilAnswered
  <2> QED BY <2>1, OnlyEntriesChange DEF UnregisteredIsUntouched
<1>2. ASSUME NEW q \in Requests, NEW u \in Threads, Completing(u, q)'
      PROVE  Registered(q)'
  <2>1. SUFFICES Registered(q)
    BY OnlyEntriesChange
  <2>2. Completing(u, q) => Registered(q)
    BY DEF UnregisteredIsUntouched
  <2>3. CASE \E t \in Threads : SignalComplete(t)
    <3> PICK t \in Threads : SignalComplete(t)
      BY <2>3
    <3>1. work[t].id = q => Registered(q)
      BY SignalCompleteEffect DEF SignalsHaveOneBringer, Registered
    <3> QED BY <1>2, <2>2, <3>1, SignalCompleteEffect
  <2>4. CASE \A t \in Threads : ~SignalComplete(t)
    BY <1>2, <2>2, <2>4, NoNewCompleters DEF NoNewCompleter
  <2> QED BY <2>3, <2>4
<1> QED BY <1>1, <1>2 DEF UnregisteredIsUntouched

LEMMA CountKept ==
  ASSUME TypeOK, CountIsOutstanding, NoNewCompleter, pending' \subseteq pending,
         UNCHANGED <<remaining, outstanding, held>>
  PROVE  CountIsOutstanding'
BY DEF CountIsOutstanding, NoNewCompleter, TypeOK

LEMMA SignalCompleteCount ==
  ASSUME TypeOK, SignalsHaveOneBringer, CountIsOutstanding,
         NEW t \in Threads, SignalComplete(t)
  PROVE  CountIsOutstanding'
<1>1. work[t].id \in Requests
  BY SignalCompleteEffect
<1> PICK r \in Requests : r = work[t].id
  BY <1>1
<1>2. /\ Brings(t, r)
      /\ \A q \in Requests : q # r => /\ outstanding'[q] = outstanding[q]
                                     /\ remaining'[q] = remaining[q]
      /\ outstanding'[r] = outstanding[r] \ {work[t].signal}
      /\ r \in pending => remaining'[r] = remaining[r] - 1
      /\ \A u \in Threads, q \in Requests : Completing(u, q)' =>
           Completing(u, q) \/ (u = t /\ q = r /\ r \in pending /\ remaining[r] = 1)
  BY SignalCompleteEffect
<1>3. work[t].signal \in outstanding[r]
  BY <1>2 DEF SignalsHaveOneBringer
<1>4. pending' = pending /\ held' = held /\ pending \subseteq Requests
  BY DEF SignalComplete, TypeOK
<1>5. ASSUME NEW q \in pending, q # r
      PROVE  /\ remaining'[q] = Cardinality(outstanding'[q])
             /\ held'[q] => outstanding'[q] = {} /\ \A u \in Threads : ~Completing(u, q)'
             /\ \A u \in Threads : Completing(u, q)' =>
                  /\ outstanding'[q] = {}
                  /\ \A w \in Threads : Completing(w, q)' => w = u
  BY <1>2, <1>4, <1>5 DEF CountIsOutstanding
<1>6. ASSUME r \in pending
      PROVE  /\ remaining'[r] = Cardinality(outstanding'[r])
             /\ ~held'[r]
             /\ \A u \in Threads : Completing(u, r)' => u = t /\ outstanding'[r] = {}
  <2>1. ~held[r] /\ \A u \in Threads : ~Completing(u, r)
    BY <1>3, <1>6 DEF CountIsOutstanding
  <2>2. IsFiniteSet(outstanding[r])
    BY ThreadsFacts, FS_Subset DEF TypeOK
  <2>3. /\ Cardinality(outstanding'[r]) = Cardinality(outstanding[r]) - 1
        /\ IsFiniteSet(outstanding'[r])
    BY <1>2, <1>3, <2>2, FS_RemoveElement
  <2>4. remaining[r] = Cardinality(outstanding[r]) /\ remaining'[r] = remaining[r] - 1
    BY <1>2, <1>6 DEF CountIsOutstanding
  <2>5. remaining[r] = 1 => outstanding'[r] = {}
    BY <2>3, <2>4, FS_EmptySet
  <2>6. \A u \in Threads : Completing(u, r)' => u = t /\ remaining[r] = 1
    BY <1>2, <2>1
  <2> QED BY <1>4, <2>1, <2>3, <2>4, <2>5, <2>6
<1> QED BY <1>4, <1>5, <1>6 DEF CountIsOutstanding

LEMMA RegisterCount ==
  ASSUME TypeOK, StreamUntilAnswered, UnregisteredIsUntouched, CountIsOutstanding,
         NEW r \in Requests, Register(r)
  PROVE  CountIsOutstanding'
<1> PICK S \in SUBSET Signals :
       /\ outstanding' = [outstanding EXCEPT ![r] = S]
       /\ RegisterPassthrough(r, S) \/ RegisterPending(r, S)
  BY DEF Register
<1>1. /\ ~Registered(r) /\ r \notin pending
      /\ UNCHANGED work /\ UNCHANGED held
  BY DEF Register, Registered, StreamUntilAnswered
<1>2. \A u \in Threads, q \in Requests : Completing(u, q)' = Completing(u, q)
  BY <1>1 DEF Completing
<1>3. /\ \A q \in Requests : q # r => outstanding'[q] = outstanding[q]
      /\ outstanding'[r] = S
  BY DEF TypeOK
<1>4. CASE RegisterPassthrough(r, S)
  <2>1. pending' = pending /\ remaining' = remaining
    BY <1>4 DEF RegisterPassthrough
  <2> QED BY <1>1, <1>2, <1>3, <2>1 DEF CountIsOutstanding, TypeOK
<1>5. CASE RegisterPending(r, S)
  <2>1. /\ pending' = pending \cup {r}
        /\ remaining' = [remaining EXCEPT ![r] = Cardinality(S)]
    BY <1>5 DEF RegisterPending
  <2>2. /\ \A q \in Requests : q # r => remaining'[q] = remaining[q]
        /\ remaining'[r] = Cardinality(S)
    BY <2>1 DEF TypeOK
  <2>3. ~held'[r] /\ \A u \in Threads : ~Completing(u, r)'
    BY <1>1, <1>2 DEF UnregisteredIsUntouched
  <2> QED BY <1>1, <1>2, <1>3, <2>1, <2>2, <2>3 DEF CountIsOutstanding, TypeOK
<1> QED BY <1>4, <1>5

LEMMA TryHoldCount ==
  ASSUME TypeOK, CountIsOutstanding, NEW t \in Threads, TryHold(t), NoNewCompleter
  PROVE  CountIsOutstanding'
<1>1. work[t].pc = "holding" /\ UNCHANGED <<pending, remaining, outstanding>>
  BY DEF TryHold, plan
<1>2. work[t].id \in Requests
  BY <1>1, SignalJob DEF SignalPCs, TypeOK
<1> PICK r \in Requests : r = work[t].id
  BY <1>2
<1>3. Completing(t, r)
  BY <1>1 DEF Completing
<1>4. CASE UNCHANGED held
  BY <1>1, <1>4, CountKept
<1>5. CASE r \in pending /\ held' = [held EXCEPT ![r] = TRUE] /\ Finish(t)
  <2>1. \A q \in Requests : q # r => held'[q] = held[q]
    BY <1>5 DEF TypeOK
  <2>2. outstanding[r] = {} /\ \A u \in Threads : Completing(u, r) => u = t
    BY <1>3, <1>5 DEF CountIsOutstanding
  <2>3. ~Completing(t, r)'
    BY <1>5, FinishJob, IdleJob DEF Completing
  <2>4. \A u \in Threads : ~Completing(u, r)'
    BY <2>2, <2>3 DEF NoNewCompleter
  <2>5. pending \subseteq Requests
    BY DEF TypeOK
  <2> QED BY <1>1, <2>1, <2>2, <2>4, <2>5 DEF CountIsOutstanding, NoNewCompleter
<1> QED BY <1>4, <1>5 DEF TryHold, Hold, QualifiesForHold

LEMMA CountNext ==
  ASSUME TypeOK, SignalsHaveOneBringer, StreamUntilAnswered, UnregisteredIsUntouched,
         CountIsOutstanding, [Next]_vars
  PROVE  CountIsOutstanding'
<1> USE DEF conf, draft, clock, plan
<1>1. CASE \E t \in Threads : SignalComplete(t)
  BY <1>1, SignalCompleteCount
<1>2. CASE \A t \in Threads : ~SignalComplete(t)
  <2> NoNewCompleter
    BY <1>2, NoNewCompleters
  <2>1. ASSUME pending' \subseteq pending, UNCHANGED <<remaining, outstanding, held>>
        PROVE  CountIsOutstanding'
    BY <2>1, CountKept
  <2>2. ASSUME NEW r \in Requests, Register(r) PROVE CountIsOutstanding'
    BY <2>2, RegisterCount
  <2>3. ASSUME NEW t \in Threads, TryHold(t) PROVE CountIsOutstanding'
    BY <2>3, TryHoldCount
  <2>4. ASSUME NEW r \in Requests,
               OperatorSigns(r) \/ SignoffDecides(r) \/ TtlElapses(r) \/ HoldTtlElapses(r)
                 \/ ReviewQueueFull(r) \/ (\E e \in Events : AlertsBegin(r, e))
                 \/ (\E D \in SUBSET Events : EventQueueFull(r, D))
                 \/ (\E w \in LlmWorkers : ReviewBegin(w, r))
        PROVE  CountIsOutstanding'
    BY <2>1, <2>4 DEF OperatorSigns, SignoffDecides, TtlElapses, HoldTtlElapses,
                      ReviewQueueFull, AlertsBegin, EventQueueFull, ReviewBegin
  <2>5. ASSUME NEW r \in Requests, Reap(r) PROVE CountIsOutstanding'
    BY <2>1, <2>5 DEF Reap, Remove
  <2>6. ASSUME NEW t \in Threads,
               DenyUnsealed(t) \/ Seal(t) \/ StoreReview(t) \/ ApplyReview(t)
        PROVE  CountIsOutstanding'
    BY <2>1, <2>6 DEF DenyUnsealed, Seal, AnswerAndSeal, Remove, StoreReview, ApplyReview
  <2>7. CASE DenyAlert \/ AskAlert \/ SeenAlertLost \/ ReapScan \/ UNCHANGED vars
    BY <2>1, <2>7 DEF DenyAlert, AskAlert, SeenAlertLost, ReapScan, vars
  <2>8. CASE SignoffResolves
    BY <2>1, <2>8 DEF SignoffResolves, Remove
  <2> QED
    BY <1>2, <2>2, <2>3, <2>4, <2>5, <2>6, <2>7, <2>8 DEF Next, Completes, Reviews
<1> QED BY <1>1, <1>2

(***************************************************************************)
(* What is staged, and what the operator has approved.                     *)
(***************************************************************************)
LEMMA ApplyAskStages ==
  ASSUME TypeOK, StagedIsAsk, NEW r \in Requests, NEW src \in {"falco", "llm"},
         ApplyAsk(r, src)
  PROVE  /\ StagedIsAsk'
         /\ \A q \in Requests : q # r => staged'[q] = staged[q]
         /\ staged'[r].verdict = "ask" \/ staged'[r] = staged[r]
         /\ r \in pending /\ mode = "guardrails" => staged'[r].verdict = "ask"
<1>1. StageAsk(staged[r], src).verdict = "ask"
  BY StageAskTyped DEF StagedIsAsk, TypeOK, Sources
<1>2. CASE staged' = staged /\ (r \notin pending \/ mode = "monitor")
  BY <1>2 DEF StagedIsAsk
<1>3. CASE staged' = [staged EXCEPT ![r] = StageAsk(@, src)]
  <2>1. /\ staged'[r] = StageAsk(staged[r], src)
        /\ \A q \in Requests : q # r => staged'[q] = staged[q]
    BY <1>3 DEF TypeOK
  <2> QED BY <1>1, <2>1 DEF StagedIsAsk
<1> QED BY <1>2, <1>3 DEF ApplyAsk

LEMMA StagedNext == ASSUME TypeOK, StagedIsAsk, [Next]_vars PROVE StagedIsAsk'
<1> USE ThreadsFacts DEF conf, draft, clock, plan
<1>1. CASE UNCHANGED staged
  BY <1>1 DEF StagedIsAsk
<1>2. ASSUME NEW r \in Requests, staged' = [staged EXCEPT ![r] = Unset] PROVE StagedIsAsk'
  BY <1>2 DEF StagedIsAsk, TypeOK
<1>3. ASSUME NEW t \in Threads, TryHold(t) \/ Seal(t) PROVE StagedIsAsk'
  <2>1. work[t].id \in Requests
    BY <1>3, SignalJob DEF TryHold, Seal, SignalPCs, TypeOK
  <2> QED BY <1>1, <1>2, <1>3, <2>1 DEF TryHold, Hold, Seal, AnswerAndSeal
<1>4. ASSUME NEW t \in Threads, ApplyReview(t) PROVE StagedIsAsk'
  <2>1. work[t].id \in Requests
    BY <1>4, SignalJob DEF ApplyReview, SignalPCs, TypeOK
  <2> QED BY <1>1, <1>4, <2>1, ApplyAskStages DEF ApplyReview
<1>5. CASE AskAlert
  <2>1. work[Http].id \in Requests
    BY <1>5, SignalJob DEF AskAlert, SignalPCs, TypeOK
  <2> QED BY <1>5, <2>1, ApplyAskStages DEF AskAlert
<1>6. ASSUME NEW r \in Requests,
             Register(r) \/ OperatorSigns(r) \/ SignoffDecides(r) \/ TtlElapses(r)
               \/ HoldTtlElapses(r) \/ Reap(r) \/ ReviewQueueFull(r)
               \/ (\E e \in Events : AlertsBegin(r, e))
               \/ (\E D \in SUBSET Events : EventQueueFull(r, D))
               \/ (\E w \in LlmWorkers : ReviewBegin(w, r))
      PROVE  StagedIsAsk'
  BY <1>1, <1>6 DEF Register, OperatorSigns, SignoffDecides, TtlElapses, HoldTtlElapses,
                    Reap, ReviewQueueFull, AlertsBegin, EventQueueFull, ReviewBegin
<1>7. ASSUME NEW t \in Threads, SignalComplete(t) \/ DenyUnsealed(t) \/ StoreReview(t)
      PROVE  StagedIsAsk'
  BY <1>1, <1>7 DEF SignalComplete, DenyUnsealed, StoreReview
<1>8. CASE DenyAlert \/ SeenAlertLost \/ SignoffResolves \/ ReapScan \/ UNCHANGED vars
  BY <1>1, <1>8 DEF DenyAlert, SeenAlertLost, SignoffResolves, ReapScan, vars
<1> QED BY <1>3, <1>4, <1>5, <1>6, <1>7, <1>8 DEF Next, Completes, Reviews

\* A thread's job changes by its own steps only.
LEMMA JobStep ==
  ASSUME TypeOK, [Next]_vars, NEW u \in Threads
  PROVE  /\ \/ work'[u] = work[u] \/ work'[u].pc # "resolving"
            \/ u = Sock /\ \E r \in Requests : SignoffDecides(r)
         /\ work[u].pc = "applying" => work'[u] = work[u] \/ ApplyReview(u)
         /\ work[u].pc = "unsealed" => work'[u] = work[u] \/ DenyUnsealed(u)
<1> DEFINE Moved == /\ work'[u].pc # "resolving"
                    /\ work[u].pc # "applying" \/ ApplyReview(u)
                    /\ work[u].pc # "unsealed" \/ DenyUnsealed(u)
           Fine == \/ work'[u] = work[u] \/ Moved
                   \/ /\ u = Sock /\ work[u] = Idle
                      /\ \E r \in Requests : SignoffDecides(r)
<1> USE ThreadsFacts
<1>1. ASSUME NEW t \in Threads, Finish(t),
             work[t].pc # "applying" /\ (work[t].pc # "unsealed" \/ DenyUnsealed(t))
      PROVE  Fine
  BY <1>1, FinishJob, IdleJob
<1>2. ASSUME NEW t \in Threads, NEW pc \in SignalPCs, GoTo(t, pc), work[t].pc \in SignalPCs,
             (work[t].pc # "applying" \/ ApplyReview(t)) /\ work[t].pc # "unsealed"
      PROVE  Fine
  BY <1>2, GoToJob, ReporterPCs
<1>3. ASSUME NEW t \in Threads, NEW r \in Requests, NEW s \in Signals,
             NEW pc \in {"reporting", "storing"}, NEW v \in LlmVerdicts, Begin(t, r, s, pc, v)
      PROVE  Fine
  <2>1. pc \in SignalPCs
    BY DEF SignalPCs
  <2> QED BY <1>3, <2>1, BeginJob, IdleJob, ReporterPCs
<1>4. ASSUME UNCHANGED work PROVE Fine
  BY <1>4
<1>5. ASSUME NEW t \in Threads, TryHold(t) PROVE Fine
  <2>1. work[t].pc = "holding" /\ {"holding", "sealing", "unsealed"} \subseteq SignalPCs
    BY <1>5 DEF TryHold, SignalPCs
  <2> QED BY <1>1, <1>2, <1>5, <2>1 DEF TryHold, Hold
<1>6. ASSUME NEW t \in Threads, SignalComplete(t) PROVE Fine
  <2>1. work[t].pc \in {"reporting", "signalling"}
    BY <1>6 DEF SignalComplete, Reports
  <2>2. work[t].pc \in SignalPCs /\ AfterLastSignal \in SignalPCs
    BY <2>1 DEF AfterLastSignal, SignalPCs
  <2> QED BY <1>1, <1>2, <1>6, <2>1, <2>2 DEF SignalComplete
<1>7. ASSUME NEW t \in Threads, DenyUnsealed(t) \/ Seal(t) PROVE Fine
  BY <1>1, <1>7 DEF DenyUnsealed, Seal
<1>8. ASSUME NEW t \in Threads, StoreReview(t) \/ ApplyReview(t) PROVE Fine
  <2>1. {"storing", "applying", "signalling"} \subseteq SignalPCs
    BY DEF SignalPCs
  <2> QED BY <1>2, <1>8, <2>1 DEF StoreReview, ApplyReview
<1>9. ASSUME NEW r \in Requests, ReviewQueueFull(r) PROVE Fine
  <2>1. Llm \in Signals /\ {"ask", "deny"} \subseteq LlmVerdicts
    BY DEF Signals, LlmVerdicts
  <2> QED BY <1>3, <1>9, <2>1 DEF ReviewQueueFull
<1>10. ASSUME NEW r \in Requests, NEW e \in Events, AlertsBegin(r, e) PROVE Fine
  <2>1. e \in Signals
    BY DEF Signals
  <2> QED BY <1>3, <1>10, <2>1, VerdictNames DEF AlertsBegin
<1>11. ASSUME NEW r \in Requests, NEW w \in LlmWorkers, ReviewBegin(w, r) PROVE Fine
  <2>1. Llm \in Signals
    BY DEF Signals
  <2> QED BY <1>3, <1>11, <2>1 DEF ReviewBegin
<1>12. ASSUME NEW r \in Requests, SignoffDecides(r) PROVE Fine
  BY <1>12, SignoffDecidesJob
<1>13. ASSUME NEW r \in Requests,
              Register(r) \/ OperatorSigns(r) \/ TtlElapses(r) \/ HoldTtlElapses(r) \/ Reap(r)
                \/ \E D \in SUBSET Events : EventQueueFull(r, D)
       PROVE  Fine
  BY <1>4, <1>13 DEF Register, OperatorSigns, TtlElapses, HoldTtlElapses, Reap, EventQueueFull
<1>14. ASSUME DenyAlert \/ AskAlert \/ ReapScan \/ UNCHANGED vars PROVE Fine
  BY <1>4, <1>14 DEF DenyAlert, AskAlert, ReapScan, vars
<1>15. ASSUME SeenAlertLost \/ SignoffResolves PROVE Fine
  BY <1>1, <1>15 DEF SeenAlertLost, SignoffResolves
<1>16. Fine
  BY <1>5, <1>6, <1>7, <1>8, <1>9, <1>10, <1>11, <1>12, <1>13, <1>14, <1>15
  DEF Next, Completes, Reviews
<1>17. CASE work'[u] = work[u] \/ Moved
  BY <1>17
<1>18. CASE u = Sock /\ work[u] = Idle /\ \E r \in Requests : SignoffDecides(r)
  <2>1. work[u].pc = "idle"
    BY <1>18, IdleJob
  <2> QED BY <1>18, <2>1
<1> QED BY <1>16, <1>17, <1>18

LEMMA HeldStays ==
  ASSUME TypeOK, [Next]_vars, NEW q \in Requests
  PROVE  (q \in signed => q \in signed') /\ (held[q] => held'[q])
<1> DEFINE Kept == (q \in signed => q \in signed') /\ (held[q] => held'[q])
<1>1. CASE UNCHANGED <<held, signed>>
  BY <1>1
<1>2. ASSUME NEW t \in Threads, TryHold(t) PROVE Kept
  BY <1>2 DEF TryHold, Hold, TypeOK
<1>3. ASSUME NEW r \in Requests, OperatorSigns(r) PROVE Kept
  BY <1>3 DEF OperatorSigns
<1>4. ASSUME NEW r \in Requests,
             Register(r) \/ SignoffDecides(r) \/ TtlElapses(r) \/ HoldTtlElapses(r)
               \/ Reap(r) \/ ReviewQueueFull(r)
               \/ (\E e \in Events : AlertsBegin(r, e))
               \/ (\E D \in SUBSET Events : EventQueueFull(r, D))
               \/ (\E w \in LlmWorkers : ReviewBegin(w, r))
      PROVE  Kept
  BY <1>1, <1>4 DEF Register, SignoffDecides, TtlElapses, HoldTtlElapses, Reap,
                    ReviewQueueFull, AlertsBegin, EventQueueFull, ReviewBegin
<1>5. ASSUME NEW t \in Threads,
             SignalComplete(t) \/ DenyUnsealed(t) \/ Seal(t) \/ StoreReview(t) \/ ApplyReview(t)
      PROVE  Kept
  BY <1>1, <1>5 DEF SignalComplete, DenyUnsealed, Seal, StoreReview, ApplyReview
<1>6. CASE DenyAlert \/ AskAlert \/ SeenAlertLost \/ SignoffResolves \/ ReapScan \/ UNCHANGED vars
  BY <1>1, <1>6 DEF DenyAlert, AskAlert, SeenAlertLost, SignoffResolves, ReapScan, vars
<1> QED BY <1>2, <1>3, <1>4, <1>5, <1>6 DEF Next, Completes, Reviews

LEMMA ModeStays == ASSUME [Next]_vars PROVE mode' = mode
<1> USE DEF conf
<1>1. ASSUME NEW r \in Requests,
             Register(r) \/ OperatorSigns(r) \/ SignoffDecides(r) \/ TtlElapses(r)
               \/ HoldTtlElapses(r) \/ Reap(r) \/ ReviewQueueFull(r)
               \/ (\E e \in Events : AlertsBegin(r, e))
               \/ (\E D \in SUBSET Events : EventQueueFull(r, D))
               \/ (\E w \in LlmWorkers : ReviewBegin(w, r))
      PROVE  mode' = mode
  BY <1>1 DEF Register, OperatorSigns, SignoffDecides, TtlElapses, HoldTtlElapses, Reap,
              ReviewQueueFull, AlertsBegin, EventQueueFull, ReviewBegin
<1>2. ASSUME NEW t \in Threads,
             SignalComplete(t) \/ TryHold(t) \/ DenyUnsealed(t) \/ Seal(t)
               \/ StoreReview(t) \/ ApplyReview(t)
      PROVE  mode' = mode
  BY <1>2 DEF SignalComplete, TryHold, DenyUnsealed, Seal, StoreReview, ApplyReview
<1>3. CASE DenyAlert \/ AskAlert \/ SeenAlertLost \/ SignoffResolves \/ ReapScan
             \/ UNCHANGED vars
  BY <1>3 DEF DenyAlert, AskAlert, SeenAlertLost, SignoffResolves, ReapScan, vars
<1> QED BY <1>1, <1>2, <1>3 DEF Next, Completes, Reviews

LEMMA ApprovalNext ==
  ASSUME TypeOK, ApprovalIsSigned, [Next]_vars
  PROVE  ApprovalIsSigned'
<1> SUFFICES ASSUME work'[Sock].pc = "resolving"
             PROVE  /\ held'[work'[Sock].id]
                    /\ work'[Sock].verdict = "allow" => work'[Sock].id \in signed'
  BY DEF ApprovalIsSigned
<1>1. CASE work'[Sock] = work[Sock]
  <2>1. work[Sock].id \in Requests
    BY <1>1, ThreadsFacts, SignoffJob DEF TypeOK
  <2> QED BY <1>1, <2>1, HeldStays DEF ApprovalIsSigned
<1>2. ASSUME NEW r \in Requests, SignoffDecides(r)
      PROVE  /\ held'[work'[Sock].id]
             /\ work'[Sock].verdict = "allow" => work'[Sock].id \in signed'
  <2>1. held[r] /\ work'[Sock].id = r /\ (work'[Sock].verdict = "allow" => r \in signed)
    BY <1>2, SignoffDecidesJob DEF SignoffDecides
  <2> QED BY <2>1, HeldStays
<1> QED BY <1>1, <1>2, ThreadsFacts, JobStep

(***************************************************************************)
(* Until the answer, the signals taken in are kept.                        *)
(***************************************************************************)
\* The threads that are about to apply a review of r, or to refuse it, still are.
JobsStay(r) ==
  \A t \in Threads : work[t].id = r /\ work[t].pc \in {"applying", "unsealed"} =>
    work'[t] = work[t]

\* A step that does not concern r's draft, staged verdict, hold or jobs.
LEMMA KeptStays ==
  ASSUME NEW r \in Requests, KeptIn(r), JobsStay(r),
         hits'[r] = hits[r], llm'[r] = llm[r], held[r] => held'[r],
         staged'[r] = staged[r] \/ staged'[r].verdict = "ask"
  PROVE  KeptIn(r)'
<1>1. \A t \in Threads : /\ \A v : Applies(t, r, v) => Applies(t, r, v)'
                         /\ Refuses(t, r) => Refuses(t, r)'
  BY DEF Applies, Refuses, JobsStay
<1> QED BY <1>1 DEF KeptIn, Raised

\* An ask that the receiver or a worker brings is staged.
LEMMA KeptAfterAsk ==
  ASSUME TypeOK, StagedIsAsk, mode = "guardrails",
         NEW r \in Requests, r \in pending, KeptIn(r),
         NEW src \in {"falco", "llm"}, ApplyAsk(r, src),
         src = "falco" => UNCHANGED work
  PROVE  KeptIn(r)'
<1>1. staged'[r].verdict = "ask"
  BY ApplyAskStages
<1>2. RecordHit(r, src, "ask")
  BY DEF ApplyAsk
<1>3. CASE src = "falco"
  <2>1. llm' = llm /\ work' = work
    BY <1>2, <1>3 DEF RecordHit
  <2>2. hits'[r] = hits[r] \cup {[source |-> "falco", kind |-> "ask"]}
    BY <1>2, <1>3 DEF RecordHit, TypeOK
  <2>3. [source |-> "falco", kind |-> "ask"].kind = "ask"
    OBVIOUS
  <2>4. \A h \in hits'[r] : h.kind # "deny"
    BY <2>2, <2>3 DEF KeptIn
  <2> QED BY <1>1, <2>1, <2>4 DEF KeptIn, Applies
<1>4. CASE src = "llm"
  <2>1. hits' = hits /\ llm'[r] = "ask"
    BY <1>2, <1>4 DEF RecordHit, TypeOK
  <2> QED BY <1>1, <2>1 DEF KeptIn
<1> QED BY <1>3, <1>4

\* A deny under guardrails answers the request, and concerns no other.
LEMMA DenyAnswers ==
  ASSUME TypeOK, mode = "guardrails", NEW q \in Requests, NEW src, ApplyDeny(q, src),
         NEW r \in Requests, r \in pending, stream'[r]
  PROVE  r # q /\ hits'[r] = hits[r] /\ llm'[r] = llm[r]
<1>1. r # q
  BY RespondEffect DEF ApplyDeny
<1> QED BY <1>1 DEF ApplyDeny, RecordHit, TypeOK, draft

LEMMA KeptByReview ==
  ASSUME TypeOK, StagedIsAsk, mode = "guardrails", NEW t \in Threads, ApplyReview(t),
         NEW r \in Requests, r \in pending, KeptIn(r), stream'[r]
  PROVE  KeptIn(r)'
<1>1. work[t].pc = "applying" /\ GoTo(t, "signalling") /\ held' = held
  BY DEF ApplyReview
<1>2. {"applying", "signalling"} \subseteq SignalPCs
  BY DEF SignalPCs
<1>3. work[t].id \in Requests
  BY <1>1, <1>2, SignalJob DEF TypeOK
<1> PICK q \in Requests : q = work[t].id
  BY <1>3
<1>4. \A u \in Threads : u # t => work'[u] = work[u]
  BY <1>1, <1>2, GoToJob
<1>5. CASE r # q
  <2>1. JobsStay(r)
    BY <1>4, <1>5 DEF JobsStay
  <2>2. hits'[r] = hits[r] /\ llm'[r] = llm[r] /\ staged'[r] = staged[r]
    BY <1>5 DEF ApplyReview, ApplyDeny, ApplyAsk, RecordHit, draft, TypeOK
  <2> QED BY <1>1, <2>1, <2>2, KeptStays
<1>6. CASE r = q
  <2>1. CASE ApplyDeny(q, "llm")
    BY <1>6, <2>1, DenyAnswers
  <2>2. CASE ApplyAsk(q, "llm")
    BY <1>6, <2>2, KeptAfterAsk
  <2>3. CASE work[t].verdict \notin {"deny", "ask"} /\ UNCHANGED <<draft, stream, wire, staged>>
    <3>1. \A u \in Threads : /\ \A v \in {"deny", "ask"} : Applies(u, r, v) => Applies(u, r, v)'
                             /\ Refuses(u, r) => Refuses(u, r)'
      BY <1>1, <1>4, <2>3 DEF Applies, Refuses
    <3> QED BY <1>1, <2>3, <3>1 DEF KeptIn, Raised, draft
  <2> QED BY <1>6, <2>1, <2>2, <2>3 DEF ApplyReview
<1> QED BY <1>5, <1>6

LEMMA KeptByStore ==
  ASSUME TypeOK, NEW t \in Threads, StoreReview(t), NEW r \in Requests, KeptIn(r), JobsStay(r)
  PROVE  KeptIn(r)'
<1>1. /\ work[t].pc = "storing" /\ GoTo(t, "applying")
      /\ UNCHANGED <<held, hits, staged>>
  BY DEF StoreReview
<1>2. {"storing", "applying"} \subseteq SignalPCs
  BY DEF SignalPCs
<1>3. /\ work'[t].pc = "applying" /\ work'[t].id = work[t].id
      /\ work'[t].verdict = work[t].verdict
  BY <1>1, <1>2, GoToJob
<1>4. CASE llm'[r] = llm[r]
  BY <1>1, <1>4, KeptStays
<1>5. CASE r = work[t].id /\ llm'[r] = work[t].verdict
  <2>1. \A v : llm'[r] = v => Applies(t, r, v)'
    BY <1>3, <1>5 DEF Applies
  <2>2. \A u \in Threads : /\ Applies(u, r, "ask") => Applies(u, r, "ask")'
                           /\ Refuses(u, r) => Refuses(u, r)'
    BY DEF JobsStay, Applies, Refuses
  <2> QED BY <1>1, <2>1, <2>2 DEF KeptIn, Raised
<1> QED BY <1>4, <1>5 DEF StoreReview, TypeOK

LEMMA KeptByHold ==
  ASSUME TypeOK, NEW t \in Threads, TryHold(t), NEW r \in Requests, KeptIn(r), JobsStay(r),
         held[r] => held'[r]
  PROVE  KeptIn(r)'
<1>1. hits' = hits /\ llm' = llm /\ work[t].pc = "holding"
  BY DEF TryHold
<1>2. {"holding", "unsealed"} \subseteq SignalPCs
  BY DEF SignalPCs
<1>3. CASE staged'[r] = staged[r]
  BY <1>1, <1>3, KeptStays
<1>4. CASE r = work[t].id /\ Hold(t, r)
  <2>1. held'[r] \/ Refuses(t, r)'
    <3>1. CASE held' = [held EXCEPT ![r] = TRUE]
      BY <3>1 DEF TypeOK
    <3>2. CASE GoTo(t, "unsealed")
      BY <1>1, <1>2, <1>4, <3>2, GoToJob DEF Refuses
    <3> QED BY <1>4, <3>1, <3>2 DEF Hold
  <2>2. \A u \in Threads : Applies(u, r, "deny") => Applies(u, r, "deny")'
    BY DEF JobsStay, Applies
  <2> QED BY <1>1, <2>1, <2>2 DEF KeptIn
<1>5. staged'[r] = staged[r] \/ (r = work[t].id /\ Hold(t, r))
  BY DEF TryHold, Hold, TypeOK
<1> QED BY <1>3, <1>4, <1>5

LEMMA KeptNext ==
  ASSUME TypeOK, StreamUntilAnswered, UnregisteredIsUntouched, StagedIsAsk,
         SignalsAreKept, [Next]_vars
  PROVE  SignalsAreKept'
<1> SUFFICES ASSUME mode' = "guardrails", NEW r \in Requests, stream'[r] PROVE KeptIn(r)'
  BY DEF SignalsAreKept
<1> USE ThreadsFacts DEF conf, draft, clock, plan
<1>1. mode = "guardrails"
  BY ModeStays
<1>2. stream[r] => KeptIn(r) /\ r \in pending
  BY <1>1 DEF SignalsAreKept, StreamUntilAnswered
<1>3. held[r] => held'[r]
  BY HeldStays
<1>4. ASSUME stream[r], JobsStay(r), hits'[r] = hits[r], llm'[r] = llm[r], staged'[r] = staged[r]
      PROVE  KeptIn(r)'
  BY <1>2, <1>3, <1>4, KeptStays
<1>5. ASSUME NEW q \in Requests, Register(q) PROVE KeptIn(r)'
  <2>1. hits' = hits /\ llm' = llm /\ staged' = staged /\ work' = work
    BY <1>5 DEF Register
  <2>2. CASE q = r
    <3>1. hits'[r] = {} /\ llm'[r] = "none"
      BY <1>5, <2>1, <2>2 DEF Register, Registered, UnregisteredIsUntouched
    <3> QED BY <3>1 DEF KeptIn, Raised
  <2>3. CASE q # r
    <3>1. stream[r]
      BY <1>5, <2>3 DEF Register, RegisterPassthrough, RegisterPending, TypeOK
    <3> QED BY <1>4, <2>1, <3>1 DEF JobsStay
  <2> QED BY <2>2, <2>3
<1>6. CASE \E t \in Threads : ApplyReview(t)
  <2> PICK t \in Threads : ApplyReview(t)
    BY <1>6
  <2>1. work[t].id \in Requests
    BY SignalJob DEF ApplyReview, SignalPCs, TypeOK
  <2>2. stream[r]
    BY <2>1, RespondEffect DEF ApplyReview, ApplyDeny
  <2> QED BY <1>1, <1>2, <2>2, KeptByReview
<1>7. CASE \E t \in Threads : DenyUnsealed(t)
  <2> PICK t \in Threads : DenyUnsealed(t)
    BY <1>7
  <2>1. work[t].id \in Requests
    BY SignalJob DEF DenyUnsealed, SignalPCs, TypeOK
  <2>2. stream[r] /\ work[t].id # r
    BY <1>2, <2>1, RespondEffect DEF DenyUnsealed
  <2>3. JobsStay(r)
    BY <2>2, FinishJob DEF DenyUnsealed, JobsStay
  <2> QED BY <1>4, <2>2, <2>3 DEF DenyUnsealed
<1>8. CASE \A t \in Threads : ~ApplyReview(t) /\ ~DenyUnsealed(t)
  <2>1. JobsStay(r)
    BY <1>8, JobStep DEF JobsStay
  <2>2. ASSUME UNCHANGED <<stream, hits, llm, staged>> PROVE KeptIn(r)'
    BY <1>4, <2>1, <2>2
  <2>3. ASSUME NEW q \in Requests, NEW v, NEW src, Respond(q, v, src) \/ UNCHANGED stream,
               UNCHANGED <<hits, llm>>, staged'[r] = staged[r] \/ ~stream'[r]
        PROVE  KeptIn(r)'
    BY <1>4, <2>1, <2>3, RespondEffect
  <2>4. ASSUME NEW q \in Requests, NEW src, ApplyDeny(q, src), UNCHANGED staged
        PROVE  KeptIn(r)'
    <3>1. stream[r]
      BY <2>4, RespondEffect DEF ApplyDeny
    <3> QED BY <1>1, <1>2, <1>4, <2>1, <2>4, <3>1, DenyAnswers
  <2>5. ASSUME NEW q \in Requests, NEW D \in SUBSET Events, EventQueueFull(q, D)
        PROVE  KeptIn(r)'
    BY <2>4, <2>5 DEF EventQueueFull
  <2>6. CASE DenyAlert
    BY <2>4, <2>6, SignalJob DEF DenyAlert, SignalPCs, TypeOK
  <2>7. CASE AskAlert
    <3>1. work[Http].id \in Requests
      BY <2>7, SignalJob DEF AskAlert, SignalPCs, TypeOK
    <3>2. CASE r = work[Http].id
      BY <1>1, <1>2, <2>7, <3>2, KeptAfterAsk DEF AskAlert
    <3>3. CASE r # work[Http].id
      <4>1. hits'[r] = hits[r] /\ llm'[r] = llm[r] /\ staged'[r] = staged[r]
        BY <2>7, <3>1, <3>3 DEF AskAlert, ApplyAsk, RecordHit, TypeOK
      <4> QED BY <1>4, <2>1, <2>7, <4>1 DEF AskAlert
    <3> QED BY <3>2, <3>3
  <2>8. ASSUME NEW t \in Threads, StoreReview(t) PROVE KeptIn(r)'
    BY <1>2, <2>1, <2>8, KeptByStore DEF StoreReview
  <2>9. ASSUME NEW t \in Threads, TryHold(t) PROVE KeptIn(r)'
    BY <1>2, <1>3, <2>1, <2>9, KeptByHold DEF TryHold
  <2>10. ASSUME NEW t \in Threads, Seal(t) PROVE KeptIn(r)'
    <3>1. work[t].id \in Requests
      BY <2>10, SignalJob DEF Seal, SignalPCs, TypeOK
    <3>2. CASE work[t].id \in pending
      <4>1. AnswerAndSeal(work[t].id) /\ UNCHANGED <<hits, llm>>
        BY <2>10, <3>2 DEF Seal
      <4>2. staged'[r] = staged[r] \/ ~stream'[r]
        BY <3>1, <4>1, RespondEffect DEF AnswerAndSeal, TypeOK
      <4> QED BY <2>3, <3>1, <4>1, <4>2 DEF AnswerAndSeal
    <3>3. CASE work[t].id \notin pending
      BY <2>2, <2>10, <3>3 DEF Seal
    <3> QED BY <3>2, <3>3
  <2>11. ASSUME NEW q \in Requests, Reap(q) PROVE KeptIn(r)'
    BY <2>3, <2>11 DEF Reap
  <2>12. CASE SignoffResolves
    BY <2>3, <2>12, SignoffJob DEF SignoffResolves, TypeOK
  <2>13. ASSUME NEW q \in Requests,
                OperatorSigns(q) \/ SignoffDecides(q) \/ TtlElapses(q) \/ HoldTtlElapses(q)
                  \/ ReviewQueueFull(q) \/ (\E e \in Events : AlertsBegin(q, e))
                  \/ (\E w \in LlmWorkers : ReviewBegin(w, q))
         PROVE  KeptIn(r)'
    BY <2>2, <2>13 DEF OperatorSigns, SignoffDecides, TtlElapses, HoldTtlElapses,
                       ReviewQueueFull, AlertsBegin, ReviewBegin
  <2>14. ASSUME NEW t \in Threads, SignalComplete(t) PROVE KeptIn(r)'
    BY <2>2, <2>14 DEF SignalComplete
  <2>15. CASE SeenAlertLost \/ ReapScan \/ UNCHANGED vars
    BY <2>2, <2>15 DEF SeenAlertLost, ReapScan, vars
  <2> QED
    BY <1>5, <1>8, <2>5, <2>6, <2>7, <2>8, <2>9, <2>10, <2>11, <2>12, <2>13, <2>14, <2>15
    DEF Next, Completes, Reviews
<1> QED BY <1>6, <1>7, <1>8

(***************************************************************************)
(* The answer is as strict as the signals.                                 *)
(***************************************************************************)
LEMMA OnlyDecisions ==
  ASSUME NEW r, mode = "guardrails", staged[r] = Unset \/ staged[r].verdict = "ask",
         floor \in {"allow", "defer"}
  PROVE  /\ staged[r].verdict = "ask" => Decision(r).verdict = "ask"
         /\ Decision(r).verdict \in {"ask", "allow", "defer"}
<1>1. staged[r] = Unset => staged[r].verdict # "ask"
  BY UnsetVerdict
<1> QED BY <1>1 DEF Decision

LEMMA StrictnessValues ==
  /\ Strictness("deny") = 2 /\ Strictness("ask") = 1
  /\ Strictness("allow") = 0 /\ Strictness("defer") = 0 /\ Strictness("none") = 0
BY DEF Strictness

LEMMA StrictestValues ==
  ASSUME NEW r
  PROVE  /\ Strictest(r) \in {"deny", "ask", "none"}
         /\ ~Raised(r, "deny") => Strictest(r) \in {"ask", "none"}
         /\ ~Raised(r, "deny") /\ ~Raised(r, "ask") => Strictest(r) = "none"
BY DEF Strictest, NoVerdict

\* Once its last signal is in, no thread is about to apply a review of r.
LEMMA NothingToApply ==
  ASSUME SignalsHaveOneBringer, NEW r \in Requests, outstanding[r] = {}
  PROVE  \A t \in Threads : \A v : ~Applies(t, r, v)
<1>1. \A t \in Threads : \A v : Applies(t, r, v) => Brings(t, r)
  BY DEF Applies, Brings, Reporting
<1> QED BY <1>1 DEF SignalsHaveOneBringer

\* What the completing thread answers is as strict as what was raised.
LEMMA DecisionIsStrict ==
  ASSUME CoreInv, mode = "guardrails", NEW r \in Requests, r \in pending, stream[r],
         NEW t \in Threads, work[t].id = r, work[t].pc = "sealing"
  PROVE  Strictness(Decision(r).verdict) >= Strictness(Strictest(r))
<1>1. Completing(t, r)
  BY DEF Completing
<1>2. /\ outstanding[r] = {} /\ ~held[r]
      /\ \A u \in Threads : Completing(u, r) => u = t
  BY <1>1 DEF CoreInv, CountIsOutstanding
<1>3. \A u \in Threads : /\ \A v : ~Applies(u, r, v)
                         /\ ~Refuses(u, r)
  BY <1>2, NothingToApply DEF CoreInv, Refuses, Completing
<1>4. KeptIn(r)
  BY DEF CoreInv, SignalsAreKept
<1>5. ~Raised(r, "deny")
  BY <1>3, <1>4 DEF KeptIn, Raised
<1>6. Raised(r, "ask") => Decision(r).verdict = "ask"
  BY <1>2, <1>3, <1>4, OnlyDecisions DEF KeptIn, CoreInv, StagedIsAsk, TypeOK
<1>7. Decision(r).verdict \in {"ask", "allow", "defer"}
  BY OnlyDecisions DEF CoreInv, StagedIsAsk, TypeOK
<1>8. CASE Raised(r, "ask")
  <2>1. Strictest(r) \in {"ask", "none"}
    BY <1>5, StrictestValues
  <2> QED BY <1>6, <1>8, <2>1, StrictnessValues
<1>9. CASE ~Raised(r, "ask")
  <2>1. Strictest(r) = "none"
    BY <1>5, <1>9, StrictestValues
  <2> QED BY <1>7, <2>1, StrictnessValues
<1> QED BY <1>8, <1>9

\* What the operator decides is a deny, or the allow of an ask whose record is signed.
LEMMA ResolutionIsStrict ==
  ASSUME CoreInv, mode = "guardrails", NEW r \in Requests, r \in pending, stream[r],
         work[Sock].pc = "resolving", work[Sock].id = r
  PROVE  \/ Strictness(work[Sock].verdict) >= Strictness(Strictest(r))
         \/ work[Sock].verdict = "allow" /\ Strictest(r) = "ask" /\ r \in signed
<1>1. held[r] /\ (work[Sock].verdict = "allow" => r \in signed)
  BY DEF CoreInv, ApprovalIsSigned
<1>2. outstanding[r] = {}
  BY <1>1 DEF CoreInv, CountIsOutstanding
<1>3. \A u \in Threads : \A v : ~Applies(u, r, v)
  BY <1>2, NothingToApply DEF CoreInv
<1>4. KeptIn(r)
  BY DEF CoreInv, SignalsAreKept
<1>5. ~Raised(r, "deny")
  BY <1>3, <1>4 DEF KeptIn, Raised
<1>6. Strictest(r) \in {"ask", "none"}
  BY <1>5, StrictestValues
<1>7. work[Sock].verdict \in {"allow", "deny"}
  BY ThreadsFacts, SignoffJob DEF CoreInv, TypeOK
<1> QED BY <1>1, <1>6, <1>7, StrictnessValues

\* The first answer to r, and who gives it.
GivesAnswer(r) ==
  \/ wire'[r] = <<"deny">>
  \/ /\ UNCHANGED <<hits, llm, signed>>
     /\ \/ /\ wire'[r] = <<Decision(r).verdict>> /\ Decision(r).verdict \in Verdicts
           /\ \E t \in Threads : work[t].id = r /\ work[t].pc = "sealing"
        \/ /\ wire'[r] = <<work[Sock].verdict>> /\ work[Sock].verdict \in Verdicts
           /\ work[Sock].pc = "resolving" /\ work[Sock].id = r

WireStays(r) == wire'[r] = wire[r]

LEMMA AnswerStep ==
  ASSUME TypeOK, StreamUntilAnswered, mode # "passthrough", [Next]_vars, NEW r \in Requests
  PROVE  WireStays(r) \/ (r \in pending /\ stream[r] /\ GivesAnswer(r))
<1> DEFINE Fine == WireStays(r) \/ (r \in pending /\ stream[r] /\ GivesAnswer(r))
<1> USE ThreadsFacts DEF conf, draft, clock, plan
<1>1. ASSUME NEW q \in Requests, NEW v \in Verdicts, NEW src, Respond(q, v, src)
      PROVE  \/ WireStays(r)
             \/ r = q /\ r \in pending /\ stream[r] /\ wire'[r] = <<v>>
  <2>1. CASE r # q \/ ~stream[r]
    BY <1>1, <2>1, RespondEffect DEF WireStays
  <2>2. CASE r = q /\ stream[r]
    <3>1. r \in pending /\ wire[r] = <<>>
      BY <2>2 DEF StreamUntilAnswered
    <3> QED BY <1>1, <2>2, <3>1, RespondEffect, FirstOf
  <2> QED BY <2>1, <2>2
<1> HIDE DEF Fine
<1>2. wire' = wire => Fine
  BY DEF Fine, WireStays
<1>3. ASSUME NEW q \in Requests, NEW src, Respond(q, "deny", src) PROVE Fine
  BY <1>1, <1>3, VerdictNames DEF Fine, GivesAnswer
<1>4. ASSUME NEW q \in Requests, NEW src, ApplyDeny(q, src) PROVE Fine
  BY <1>2, <1>3, <1>4 DEF ApplyDeny
<1>5. ASSUME NEW q \in Requests, NEW D \in SUBSET Events, EventQueueFull(q, D) PROVE Fine
  BY <1>4, <1>5 DEF EventQueueFull
<1>6. ASSUME DenyAlert PROVE Fine
  BY <1>4, <1>6, SignalJob DEF DenyAlert, SignalPCs, TypeOK
<1>7. ASSUME NEW t \in Threads, ApplyReview(t) PROVE Fine
  <2>1. work[t].id \in Requests
    BY <1>7, SignalJob DEF ApplyReview, SignalPCs, TypeOK
  <2> QED BY <1>2, <1>4, <1>7, <2>1 DEF ApplyReview
<1>8. ASSUME NEW t \in Threads, DenyUnsealed(t) PROVE Fine
  <2>1. work[t].id \in Requests
    BY <1>8, SignalJob DEF DenyUnsealed, SignalPCs, TypeOK
  <2> QED BY <1>2, <1>3, <1>8, <2>1 DEF DenyUnsealed, UnsealedVerdict
<1>9. ASSUME NEW t \in Threads, Seal(t) PROVE Fine
  <2>1. work[t].id \in Requests
    BY <1>9, SignalJob DEF Seal, SignalPCs, TypeOK
  <2> PICK q \in Requests : q = work[t].id
    BY <2>1
  <2>2. CASE q \notin pending
    BY <1>2, <1>9, <2>2 DEF Seal
  <2>3. CASE q \in pending
    <3>1. /\ Respond(q, Decision(q).verdict, Decision(q).source)
          /\ UNCHANGED <<hits, llm, signed>>
      BY <1>9, <2>3 DEF Seal, AnswerAndSeal
    <3>2. Decision(q).verdict \in Verdicts
      BY DecisionTyped
    <3>3. work[t].pc = "sealing"
      BY <1>9 DEF Seal
    <3> QED BY <1>1, <3>1, <3>2, <3>3 DEF Fine, GivesAnswer
  <2> QED BY <2>2, <2>3
<1>10. ASSUME SignoffResolves PROVE Fine
  <2>1. /\ work[Sock].pc = "resolving" /\ work[Sock].id \in Requests
        /\ work[Sock].verdict \in Verdicts
    BY <1>10, SignoffJob DEF SignoffResolves, TypeOK, Verdicts
  <2> PICK q \in Requests : q = work[Sock].id
    BY <2>1
  <2>2. CASE q \notin pending
    BY <1>2, <1>10, <2>2 DEF SignoffResolves
  <2>3. CASE q \in pending
    <3>1. /\ Respond(q, work[Sock].verdict, "signoff")
          /\ UNCHANGED <<hits, llm, signed>>
      BY <1>10, <2>3 DEF SignoffResolves
    <3> QED BY <1>1, <2>1, <3>1 DEF Fine, GivesAnswer
  <2> QED BY <2>2, <2>3
<1>11. ASSUME NEW q \in Requests, Reap(q) PROVE Fine
  BY <1>2, <1>3, <1>11 DEF Reap
<1>12. ASSUME NEW q \in Requests,
              Register(q) \/ OperatorSigns(q) \/ SignoffDecides(q) \/ TtlElapses(q)
                \/ HoldTtlElapses(q) \/ ReviewQueueFull(q)
                \/ (\E e \in Events : AlertsBegin(q, e))
                \/ (\E w \in LlmWorkers : ReviewBegin(w, q))
       PROVE  Fine
  BY <1>2, <1>12 DEF Register, RegisterPassthrough, RegisterPending, OperatorSigns,
                     SignoffDecides, TtlElapses, HoldTtlElapses, ReviewQueueFull,
                     AlertsBegin, ReviewBegin
<1>13. ASSUME NEW t \in Threads, SignalComplete(t) \/ TryHold(t) \/ StoreReview(t) PROVE Fine
  BY <1>2, <1>13 DEF SignalComplete, TryHold, StoreReview
<1>14. ASSUME AskAlert \/ SeenAlertLost \/ ReapScan \/ UNCHANGED vars PROVE Fine
  BY <1>2, <1>14 DEF AskAlert, SeenAlertLost, ReapScan, vars
<1>15. Fine
  BY <1>5, <1>6, <1>7, <1>8, <1>9, <1>10, <1>11, <1>12, <1>13, <1>14
  DEF Next, Completes, Reviews
<1> QED BY <1>15 DEF Fine

LEMMA StrictNext ==
  ASSUME CoreInv, [Next]_vars
  PROVE  AnswerAsStrictAsSignals'
<1> SUFFICES ASSUME mode' = "guardrails", NEW r \in Requests, wire'[r] # <<>>
             PROVE  \/ Strictness(wire'[r][1]) >= Strictness(Strictest(r)')
                    \/ wire'[r][1] = "allow" /\ Strictest(r)' = "ask" /\ r \in signed'
  BY DEF AnswerAsStrictAsSignals, Answered, Answer
<1>1. TypeOK /\ StreamUntilAnswered /\ mode = "guardrails"
  BY ModeStays DEF CoreInv
<1>2. wire'[r] = <<"deny">> => Strictness(wire'[r][1]) >= Strictness(Strictest(r)')
  <2>1. Strictest(r)' \in {"deny", "ask", "none"}
    BY DEF Strictest, NoVerdict
  <2> QED BY <2>1, StrictnessValues
<1>3. UNCHANGED <<hits, llm>> => Strictest(r)' = Strictest(r)
  BY DEF Strictest, Raised
<1>4. CASE WireStays(r)
  <2>1. wire'[r] = wire[r]
    BY <1>4 DEF WireStays
  <2>2. ~stream[r]
    BY <1>1, <2>1 DEF StreamUntilAnswered
  <2>3. CASE r \in pending
    BY <1>1, <1>2, <2>1, <2>2, <2>3 DEF StreamUntilAnswered
  <2>4. CASE r \notin pending
    <3>1. Strictest(r)' = Strictest(r)
      BY <1>1, <2>4, OnlyEntriesChange DEF Strictest, Raised
    <3>2. r \in signed => r \in signed'
      BY <1>1, HeldStays
    <3> QED BY <1>1, <2>1, <3>1, <3>2 DEF CoreInv, AnswerAsStrictAsSignals, Answered, Answer
  <2> QED BY <2>3, <2>4
<1>5. CASE r \in pending /\ stream[r] /\ GivesAnswer(r)
  <2>1. CASE wire'[r] = <<"deny">>
    BY <1>2, <2>1
  <2>2. CASE wire'[r] = <<Decision(r).verdict>> /\ UNCHANGED <<hits, llm>>
             /\ \E t \in Threads : work[t].id = r /\ work[t].pc = "sealing"
    <3>1. Strictness(Decision(r).verdict) >= Strictness(Strictest(r))
      BY <1>1, <1>5, <2>2, DecisionIsStrict
    <3> QED BY <1>3, <2>2, <3>1
  <2>3. CASE wire'[r] = <<work[Sock].verdict>> /\ UNCHANGED <<hits, llm, signed>>
             /\ work[Sock].pc = "resolving" /\ work[Sock].id = r
    <3>1. \/ Strictness(work[Sock].verdict) >= Strictness(Strictest(r))
          \/ work[Sock].verdict = "allow" /\ Strictest(r) = "ask" /\ r \in signed
      BY <1>1, <1>5, <2>3, ResolutionIsStrict
    <3> QED BY <1>3, <2>3, <3>1
  <2> QED BY <1>5, <2>1, <2>2, <2>3 DEF GivesAnswer
<1> QED BY <1>1, <1>4, <1>5, AnswerStep

LEMMA CoreInit == Init => CoreInv
<1> SUFFICES ASSUME Init PROVE CoreInv
  OBVIOUS
<1>1. TypeOK /\ StreamUntilAnswered /\ SignalsHaveOneBringer /\ UnregisteredIsUntouched
  BY TypeInit, StreamInit, BringersInit, UntouchedInit
<1>2. CountIsOutstanding /\ StagedIsAsk /\ SignalsAreKept /\ AnswerAsStrictAsSignals
  BY DEF Init, CountIsOutstanding, StagedIsAsk, SignalsAreKept, AnswerAsStrictAsSignals,
         Answered
<1>3. ApprovalIsSigned
  BY ThreadsFacts, IdleJob DEF Init, ApprovalIsSigned
<1> QED BY <1>1, <1>2, <1>3 DEF CoreInv

LEMMA CoreNext == CoreInv /\ [Next]_vars => CoreInv'
<1> SUFFICES ASSUME CoreInv, [Next]_vars PROVE CoreInv'
  OBVIOUS
<1>1. /\ TypeOK /\ SignalsHaveOneBringer /\ StreamUntilAnswered /\ UnregisteredIsUntouched
      /\ CountIsOutstanding /\ StagedIsAsk /\ SignalsAreKept /\ ApprovalIsSigned
  BY DEF CoreInv
<1>2. TypeOK' /\ SignalsHaveOneBringer' /\ StreamUntilAnswered'
  BY <1>1, TypeNext, BringersNext, StreamNext
<1>3. UnregisteredIsUntouched' /\ CountIsOutstanding'
  BY <1>1, UntouchedNext, CountNext
<1>4. StagedIsAsk' /\ SignalsAreKept' /\ ApprovalIsSigned'
  BY <1>1, StagedNext, KeptNext, ApprovalNext
<1>5. AnswerAsStrictAsSignals'
  BY StrictNext
<1> QED BY <1>2, <1>3, <1>4, <1>5 DEF CoreInv

(* Every reachable state of the broker (broker.rs, under the threads that call
   it) satisfies CoreInv: each signal to come has one thread that brings it, the
   count in the entry is their number, an entry whose count is zero is being
   completed by one thread or waits for the operator, and a deny or ask taken in
   is not forgotten before the answer.                                       *)
THEOREM CoreHolds == Spec => []CoreInv
BY CoreInit, CoreNext, PTL DEF Spec

(* Under guardrails no answer is more lenient than the strictest signal the
   broker took in for the request (broker.rs: apply_deny, apply_ask, the LLM
   outcome, signal_complete, resolve_signoff, reap_stale), in any interleaving
   of any number of threads; only an ask whose record the operator's key has
   signed is answered with allow.                                            *)
THEOREM StrictAnswers == Spec => []AnswerAsStrictAsSignals
<1>1. CoreInv => AnswerAsStrictAsSignals
  BY DEF CoreInv
<1> QED BY <1>1, CoreInit, CoreNext, PTL DEF Spec

(***************************************************************************)
(* What a step does to one request.                                        *)
(***************************************************************************)
AnswerUntouched(r) == stream'[r] = stream[r] /\ wire'[r] = wire[r] /\ final'[r] = final[r]
HitsUntouched(r) == hits'[r] = hits[r] /\ llm'[r] = llm[r]
EntryStays(r) ==
  /\ r \in pending <=> r \in pending'
  /\ held'[r] = held[r] /\ trail'[r] = trail[r] /\ expected'[r] = expected[r]

Untouched(r) ==
  EntryStays(r) /\ AnswerUntouched(r) /\ HitsUntouched(r) /\ staged'[r] = staged[r]

\* Respond, RecordHit and AuditAppend, seen from the request they are about.
Told(r, v, src) ==
  /\ stream'[r] = FALSE
  /\ wire'[r] = IF stream[r] THEN Append(wire[r], v) ELSE wire[r]
  /\ final'[r] = IF stream[r] THEN SetFinal(final[r], v, src) ELSE final[r]

HitTaken(r, src, kind) ==
  IF src = "llm"
  THEN llm'[r] = kind /\ hits'[r] = hits[r]
  ELSE hits'[r] = hits[r] \cup {[source |-> src, kind |-> kind]} /\ llm'[r] = llm[r]

Appended(r, rec) ==
  \/ trail'[r] = Append(trail[r], rec)
  \/ AuditCanFail /\ trail'[r] = trail[r]

Opens(r) ==
  /\ ~Registered(r) /\ mode # "passthrough"
  /\ r \in pending' /\ stream'[r] = TRUE
  /\ staged'[r] = staged[r] /\ held'[r] = held[r] /\ HitsUntouched(r)
  /\ final'[r] = final[r] /\ wire'[r] = wire[r] /\ trail'[r] = trail[r]
  /\ expected'[r] # {}

PassesThrough(r) ==
  /\ ~Registered(r) /\ mode = "passthrough" /\ expected'[r] # {}
  /\ stream'[r] = stream[r] /\ staged'[r] = staged[r] /\ held'[r] = held[r]
  /\ HitsUntouched(r) /\ pending' = pending
  /\ wire'[r] = Append(wire[r], "defer")
  /\ final'[r] = SetFinal(final[r], "defer", "passthrough")
  /\ Appended(r, RequestRecord(final'[r], FALSE, hits[r], llm[r]))

\* The thread whose review it is, if the hit is the LLM monitor's.
Reviewer(r, src, kind) == src = "llm" => \E t \in Threads : Applies(t, r, kind)

TakesDeny(r) ==
  /\ r \in pending /\ outstanding[r] # {}
  /\ EntryStays(r) /\ staged'[r] = staged[r]
  /\ \E src \in {"falco", "llm", "broker"} :
       /\ HitTaken(r, src, "deny") /\ Reviewer(r, src, "deny")
       /\ IF mode = "monitor" THEN AnswerUntouched(r) ELSE Told(r, "deny", src)

TakesAsk(r) ==
  /\ r \in pending /\ outstanding[r] # {}
  /\ EntryStays(r) /\ AnswerUntouched(r)
  /\ \E src \in {"falco", "llm"} :
       /\ HitTaken(r, src, "ask") /\ Reviewer(r, src, "ask")
       /\ staged'[r] = IF mode = "monitor" THEN staged[r] ELSE StageAsk(staged[r], src)

StoresReview(r) ==
  /\ r \in pending
  /\ EntryStays(r) /\ AnswerUntouched(r) /\ staged'[r] = staged[r] /\ hits'[r] = hits[r]
  /\ \E t \in Threads : StoreReview(t) /\ work[t].id = r /\ llm'[r] = work[t].verdict

IsHeld(r) ==
  /\ r \in pending /\ r \in pending' /\ QualifiesForHold(r)
  /\ \E t \in Threads : /\ Completing(t, r) /\ work[t].pc = "holding"
                        /\ held'[r] = TRUE \/ Refuses(t, r)'
  /\ staged'[r] = Unset
  /\ final'[r] = SetFinal(final[r], staged[r].verdict, staged[r].source)
  /\ stream'[r] = stream[r] /\ wire'[r] = wire[r] /\ HitsUntouched(r)
  /\ expected'[r] = expected[r]
  /\ \/ /\ held'[r] = TRUE
        /\ trail'[r] = Append(trail[r], RequestRecord(final'[r], TRUE, hits[r], llm[r]))
     \/ AuditCanFail /\ held'[r] = held[r] /\ trail'[r] = trail[r]

Leaves(r, v, src) ==
  /\ r \in pending /\ r \notin pending'
  /\ Told(r, v, src)
  /\ held'[r] = held[r] /\ HitsUntouched(r) /\ expected'[r] = expected[r]

IsRefused(r) ==
  /\ \E t \in Threads : Refuses(t, r)
  /\ Leaves(r, "deny", "signoff") /\ trail'[r] = trail[r]

IsSealed(r) ==
  /\ \E t \in Threads : Completing(t, r) /\ work[t].pc = "sealing"
  /\ Leaves(r, Decision(r).verdict, Decision(r).source)
  /\ Appended(r, RequestRecord(final'[r], FALSE, hits[r], llm[r]))

IsResolved(r) ==
  /\ work[Sock].pc = "resolving" /\ work[Sock].id = r
  /\ Leaves(r, work[Sock].verdict, "signoff")
  /\ Appended(r, SignoffRecord(IF work[Sock].verdict = "allow" THEN "approve" ELSE "deny"))

IsReaped(r) ==
  \/ held[r] /\ Leaves(r, "deny", "signoff") /\ Appended(r, SignoffRecord("expired"))
  \/ /\ ~held[r] /\ Leaves(r, "deny", "reaper")
     /\ Appended(r, RequestRecord(final'[r], FALSE, hits[r], llm[r]))

RequestMoves(r) ==
  \/ Untouched(r)
  \/ Opens(r) \/ PassesThrough(r)
  \/ TakesDeny(r) \/ TakesAsk(r) \/ StoresReview(r)
  \/ IsHeld(r) \/ IsRefused(r) \/ IsSealed(r) \/ IsResolved(r) \/ IsReaped(r)

LEMMA RespondTold ==
  ASSUME TypeOK, NEW q \in Requests, NEW v, NEW src, Respond(q, v, src), NEW r \in Requests
  PROVE  IF r = q THEN Told(r, v, src) ELSE AnswerUntouched(r)
<1>1. /\ stream \in [Requests -> BOOLEAN]
      /\ wire \in [Requests -> Seq(Verdicts)]
      /\ final \in [Requests -> Sourced]
  BY DEF TypeOK
<1> QED BY <1>1 DEF Respond, Told, AnswerUntouched

LEMMA RecordHitTaken ==
  ASSUME TypeOK, NEW q \in Requests, NEW src, NEW kind, RecordHit(q, src, kind),
         NEW r \in Requests
  PROVE  IF r = q THEN HitTaken(r, src, kind) ELSE HitsUntouched(r)
<1>1. hits \in [Requests -> SUBSET Hits] /\ llm \in [Requests -> LlmVerdicts]
  BY DEF TypeOK
<1> QED BY <1>1 DEF RecordHit, HitTaken, HitsUntouched

LEMMA AuditAppended ==
  ASSUME TypeOK, NEW q \in Requests, NEW rec, AuditAppend(q, rec), NEW r \in Requests
  PROVE  IF r = q THEN Appended(r, rec) ELSE trail'[r] = trail[r]
<1>1. trail \in [Requests -> Seq(Records)]
  BY DEF TypeOK
<1> QED BY <1>1 DEF AuditAppend, AppendRecord, Appended

\* Nobody has an alert or a review of r under way once its last signal is in.
LEMMA BringsOutstanding ==
  ASSUME SignalsHaveOneBringer, NEW t \in Threads, NEW r \in Requests, Brings(t, r)
  PROVE  outstanding[r] # {}
BY DEF SignalsHaveOneBringer

LEMMA ApplyDenyMoves ==
  ASSUME TypeOK, NEW q \in Requests, NEW src \in {"falco", "llm", "broker"},
         ApplyDeny(q, src), Reviewer(q, src, "deny"), outstanding[q] # {},
         UNCHANGED <<pending, staged, held, trail, expected>>, NEW r \in Requests
  PROVE  Untouched(r) \/ TakesDeny(r)
<1>1. CASE UNCHANGED <<draft, stream, wire>>
  BY <1>1 DEF Untouched, EntryStays, AnswerUntouched, HitsUntouched, draft
<1>2. CASE /\ q \in pending /\ RecordHit(q, src, "deny")
           /\ IF mode = "monitor" THEN UNCHANGED <<stream, wire, final>>
              ELSE Respond(q, "deny", src)
  <2>1. IF r = q THEN HitTaken(r, src, "deny") ELSE HitsUntouched(r)
    BY <1>2, RecordHitTaken
  <2>2. /\ mode = "monitor" => AnswerUntouched(r)
        /\ mode # "monitor" => IF r = q THEN Told(r, "deny", src) ELSE AnswerUntouched(r)
    BY <1>2, RespondTold DEF AnswerUntouched
  <2>3. EntryStays(r) /\ staged'[r] = staged[r]
    BY DEF EntryStays
  <2> QED BY <1>2, <2>1, <2>2, <2>3 DEF Untouched, TakesDeny
<1> QED BY <1>1, <1>2 DEF ApplyDeny

LEMMA ApplyAskMoves ==
  ASSUME TypeOK, NEW q \in Requests, NEW src \in {"falco", "llm"},
         ApplyAsk(q, src), Reviewer(q, src, "ask"), outstanding[q] # {},
         UNCHANGED <<pending, stream, wire, final, held, trail, expected>>, NEW r \in Requests
  PROVE  Untouched(r) \/ TakesAsk(r)
<1>1. EntryStays(r) /\ AnswerUntouched(r)
  BY DEF EntryStays, AnswerUntouched
<1>2. CASE UNCHANGED <<hits, llm, staged>>
  BY <1>1, <1>2 DEF Untouched, HitsUntouched
<1>3. CASE /\ q \in pending /\ RecordHit(q, src, "ask")
           /\ staged' = IF mode = "monitor" THEN staged
                        ELSE [staged EXCEPT ![q] = StageAsk(@, src)]
  <2>1. IF r = q THEN HitTaken(r, src, "ask") ELSE HitsUntouched(r)
    BY <1>3, RecordHitTaken
  <2>2. staged'[r] = IF mode = "monitor" \/ r # q THEN staged[r] ELSE StageAsk(staged[r], src)
    BY <1>3 DEF TypeOK
  <2> QED BY <1>1, <1>3, <2>1, <2>2 DEF Untouched, TakesAsk
<1> QED BY <1>2, <1>3 DEF ApplyAsk

\* The entry leaves the map with its answer.
LEMMA LeavesMoves ==
  ASSUME TypeOK, NEW q \in Requests, q \in pending, NEW v, NEW src, Remove(q),
         Respond(q, v, src), UNCHANGED <<held, hits, llm, expected>>, NEW r \in Requests
  PROVE  IF r = q THEN Leaves(r, v, src)
         ELSE /\ AnswerUntouched(r) /\ HitsUntouched(r)
              /\ r \in pending <=> r \in pending'
              /\ held'[r] = held[r] /\ expected'[r] = expected[r]
BY RespondTold DEF Remove, Leaves, HitsUntouched

LEMMA RegisterMoves ==
  ASSUME TypeOK, StreamUntilAnswered, NEW q \in Requests, Register(q), NEW r \in Requests
  PROVE  Untouched(r) \/ Opens(r) \/ PassesThrough(r)
<1> PICK S \in SUBSET Signals :
       /\ S # {} /\ expected' = [expected EXCEPT ![q] = S]
       /\ RegisterPassthrough(q, S) \/ RegisterPending(q, S)
  BY DEF Register
<1>1. /\ ~Registered(q) /\ q \notin pending
      /\ UNCHANGED <<staged, held, hits, llm>>
  BY DEF Register, Registered, StreamUntilAnswered
<1>2. expected'[r] = IF r = q THEN S ELSE expected[r]
  BY DEF TypeOK
<1>3. CASE RegisterPassthrough(q, S)
  <2>1. IF r = q THEN Appended(r, RequestRecord(final'[q], FALSE, hits[q], llm[q]))
        ELSE trail'[r] = trail[r]
    BY <1>3, AuditAppended DEF RegisterPassthrough
  <2>2. /\ r # q => wire'[r] = wire[r] /\ final'[r] = final[r]
        /\ r = q => /\ wire'[r] = Append(wire[r], "defer")
                    /\ final'[r] = SetFinal(final[r], "defer", "passthrough")
    BY <1>3 DEF RegisterPassthrough, TypeOK
  <2>3. mode = "passthrough" /\ UNCHANGED <<pending, stream>>
    BY <1>3 DEF RegisterPassthrough
  <2> QED BY <1>1, <1>2, <2>1, <2>2, <2>3
          DEF PassesThrough, Untouched, EntryStays, AnswerUntouched, HitsUntouched
<1>4. CASE RegisterPending(q, S)
  <2>1. /\ mode # "passthrough" /\ pending' = pending \cup {q}
        /\ UNCHANGED <<wire, final, trail>>
        /\ stream' = [stream EXCEPT ![q] = TRUE]
    BY <1>4 DEF RegisterPending
  <2>2. stream'[r] = IF r = q THEN TRUE ELSE stream[r]
    BY <2>1 DEF TypeOK
  <2> QED BY <1>1, <1>2, <2>1, <2>2
          DEF Opens, Untouched, EntryStays, AnswerUntouched, HitsUntouched
<1> QED BY <1>3, <1>4

LEMMA TryHoldMoves ==
  ASSUME TypeOK, NEW t \in Threads, TryHold(t), NEW r \in Requests
  PROVE  Untouched(r) \/ IsHeld(r)
<1>1. work[t].pc = "holding" /\ "holding" \in SignalPCs /\ "unsealed" \in SignalPCs
  BY DEF TryHold, SignalPCs
<1>2. work[t].id \in Requests
  BY <1>1, SignalJob DEF TypeOK
<1> PICK q \in Requests : q = work[t].id
  BY <1>2
<1>3. /\ pending' = pending /\ stream' = stream /\ wire' = wire /\ hits' = hits /\ llm' = llm
      /\ expected' = expected
  BY DEF TryHold, plan
<1>4. CASE UNCHANGED <<staged, final, trail, held>>
  BY <1>3, <1>4 DEF Untouched, EntryStays, AnswerUntouched, HitsUntouched
<1>5. CASE QualifiesForHold(q) /\ Hold(t, q)
  <2>1. /\ staged' = [staged EXCEPT ![q] = Unset]
        /\ final' = [final EXCEPT ![q] = SetFinal(@, staged[q].verdict, staged[q].source)]
    BY <1>5 DEF Hold
  <2>2. IF r = q
        THEN /\ staged'[r] = Unset
             /\ final'[r] = SetFinal(final[r], staged[r].verdict, staged[r].source)
        ELSE staged'[r] = staged[r] /\ final'[r] = final[r]
    BY <2>1 DEF TypeOK
  <2>3. CASE /\ AppendRecord(q, RequestRecord(final'[q], TRUE, hits[q], llm[q]))
             /\ held' = [held EXCEPT ![q] = TRUE]
    <3>1. IF r = q
          THEN /\ held'[r] = TRUE
               /\ trail'[r] = Append(trail[r], RequestRecord(final'[r], TRUE, hits[r], llm[r]))
          ELSE held'[r] = held[r] /\ trail'[r] = trail[r]
      BY <2>3 DEF AppendRecord, TypeOK
    <3> QED BY <1>1, <1>3, <1>5, <2>2, <3>1
            DEF IsHeld, Completing, QualifiesForHold, Untouched, EntryStays, AnswerUntouched,
                HitsUntouched
  <2>4. CASE AuditCanFail /\ GoTo(t, "unsealed") /\ UNCHANGED <<trail, held>>
    <3>1. Refuses(t, q)'
      BY <1>1, <2>4, GoToJob DEF Refuses
    <3> QED BY <1>1, <1>3, <1>5, <2>2, <2>4, <3>1
            DEF IsHeld, Completing, QualifiesForHold, Untouched, EntryStays, AnswerUntouched,
                HitsUntouched
  <2> QED BY <1>5, <2>3, <2>4 DEF Hold
<1> QED BY <1>4, <1>5 DEF TryHold

LEMMA DenyUnsealedMoves ==
  ASSUME TypeOK, NEW t \in Threads, DenyUnsealed(t), NEW r \in Requests
  PROVE  Untouched(r) \/ IsRefused(r)
<1>1. work[t].pc = "unsealed" /\ "unsealed" \in SignalPCs
  BY DEF DenyUnsealed, SignalPCs
<1>2. work[t].id \in Requests
  BY <1>1, SignalJob DEF TypeOK
<1> PICK q \in Requests : q = work[t].id
  BY <1>2
<1>3. UNCHANGED <<staged, held, hits, llm, trail, expected>>
  BY DEF DenyUnsealed, plan
<1>4. CASE q \notin pending
  BY <1>3, <1>4 DEF DenyUnsealed, Untouched, EntryStays, AnswerUntouched, HitsUntouched
<1>5. CASE q \in pending
  <2>1. IF r = q THEN Leaves(r, "deny", "signoff")
        ELSE /\ AnswerUntouched(r) /\ HitsUntouched(r)
             /\ r \in pending <=> r \in pending'
             /\ held'[r] = held[r] /\ expected'[r] = expected[r]
    BY <1>3, <1>5, LeavesMoves DEF DenyUnsealed, UnsealedVerdict
  <2> QED BY <1>1, <1>3, <2>1 DEF IsRefused, Refuses, Untouched, EntryStays
<1> QED BY <1>4, <1>5

LEMMA SealMoves ==
  ASSUME TypeOK, NEW t \in Threads, Seal(t), NEW r \in Requests
  PROVE  Untouched(r) \/ IsSealed(r)
<1>1. work[t].pc = "sealing" /\ "sealing" \in SignalPCs
  BY DEF Seal, SignalPCs
<1>2. work[t].id \in Requests
  BY <1>1, SignalJob DEF TypeOK
<1> PICK q \in Requests : q = work[t].id
  BY <1>2
<1>3. UNCHANGED <<held, hits, llm, expected>>
  BY DEF Seal, plan
<1>4. CASE q \notin pending
  BY <1>3, <1>4 DEF Seal, Untouched, EntryStays, AnswerUntouched, HitsUntouched
<1>5. CASE q \in pending
  <2>0. AnswerAndSeal(q)
    BY <1>5 DEF Seal
  <2>1. IF r = q THEN Leaves(r, Decision(q).verdict, Decision(q).source)
        ELSE /\ AnswerUntouched(r) /\ HitsUntouched(r)
             /\ r \in pending <=> r \in pending'
             /\ held'[r] = held[r] /\ expected'[r] = expected[r]
    BY <1>3, <1>5, <2>0, LeavesMoves DEF AnswerAndSeal
  <2>2. IF r = q THEN Appended(r, RequestRecord(final'[q], FALSE, hits[q], llm[q]))
        ELSE trail'[r] = trail[r]
    BY <2>0, AuditAppended DEF AnswerAndSeal
  <2>3. r # q => staged'[r] = staged[r]
    BY <2>0 DEF AnswerAndSeal, TypeOK
  <2>4. Completing(t, q)
    BY <1>1 DEF Completing
  <2> QED BY <1>1, <2>1, <2>2, <2>3, <2>4 DEF IsSealed, Untouched, EntryStays
<1> QED BY <1>4, <1>5

LEMMA SignoffResolvesMoves ==
  ASSUME TypeOK, SignoffResolves, NEW r \in Requests
  PROVE  Untouched(r) \/ IsResolved(r)
<1>1. work[Sock].pc = "resolving" /\ work[Sock].id \in Requests
  BY ThreadsFacts, SignoffJob DEF SignoffResolves, TypeOK
<1> PICK q \in Requests : q = work[Sock].id
  BY <1>1
<1>3. UNCHANGED <<staged, held, hits, llm, expected>>
  BY DEF SignoffResolves, plan
<1>4. CASE q \notin pending
  BY <1>3, <1>4 DEF SignoffResolves, Untouched, EntryStays, AnswerUntouched, HitsUntouched
<1>5. CASE q \in pending
  <2>1. IF r = q THEN Leaves(r, work[Sock].verdict, "signoff")
        ELSE /\ AnswerUntouched(r) /\ HitsUntouched(r)
             /\ r \in pending <=> r \in pending'
             /\ held'[r] = held[r] /\ expected'[r] = expected[r]
    BY <1>3, <1>5, LeavesMoves DEF SignoffResolves
  <2>2. IF r = q
        THEN Appended(r, SignoffRecord(IF work[Sock].verdict = "allow" THEN "approve" ELSE "deny"))
        ELSE trail'[r] = trail[r]
    BY <1>5, AuditAppended DEF SignoffResolves
  <2> QED BY <1>1, <1>3, <2>1, <2>2 DEF IsResolved, Untouched, EntryStays
<1> QED BY <1>4, <1>5

LEMMA ReapMoves ==
  ASSUME TypeOK, NEW q \in Requests, Reap(q), NEW r \in Requests
  PROVE  Untouched(r) \/ IsReaped(r)
<1>1. UNCHANGED <<staged, held, hits, llm, expected>>
  BY DEF Reap, plan
<1>2. CASE q \notin pending
  BY <1>1, <1>2 DEF Reap, Untouched, EntryStays, AnswerUntouched, HitsUntouched
<1>3. CASE q \in pending /\ held[q]
  <2>1. IF r = q THEN Leaves(r, "deny", "signoff")
        ELSE /\ AnswerUntouched(r) /\ HitsUntouched(r)
             /\ r \in pending <=> r \in pending'
             /\ held'[r] = held[r] /\ expected'[r] = expected[r]
    BY <1>1, <1>3, LeavesMoves DEF Reap
  <2>2. IF r = q THEN Appended(r, SignoffRecord("expired")) ELSE trail'[r] = trail[r]
    BY <1>3, AuditAppended DEF Reap
  <2> QED BY <1>1, <1>3, <2>1, <2>2 DEF IsReaped, Untouched, EntryStays
<1>4. CASE q \in pending /\ ~held[q]
  <2>1. IF r = q THEN Leaves(r, "deny", "reaper")
        ELSE /\ AnswerUntouched(r) /\ HitsUntouched(r)
             /\ r \in pending <=> r \in pending'
             /\ held'[r] = held[r] /\ expected'[r] = expected[r]
    BY <1>1, <1>4, LeavesMoves DEF Reap
  <2>2. IF r = q THEN Appended(r, RequestRecord(final'[q], FALSE, hits[q], llm[q]))
        ELSE trail'[r] = trail[r]
    BY <1>4, AuditAppended DEF Reap
  <2> QED BY <1>1, <1>4, <2>1, <2>2 DEF IsReaped, Untouched, EntryStays
<1> QED BY <1>2, <1>3, <1>4

LEMMA ReviewMoves ==
  ASSUME TypeOK, SignalsHaveOneBringer, NEW t \in Threads, StoreReview(t) \/ ApplyReview(t),
         NEW r \in Requests
  PROVE  Untouched(r) \/ TakesDeny(r) \/ TakesAsk(r) \/ StoresReview(r)
<1>1. work[t].pc \in Reporting /\ UNCHANGED <<pending, held, trail, expected>>
  BY DEF StoreReview, ApplyReview, Reporting, plan
<1>2. work[t].id \in Requests
  BY <1>1, SignalJob, ReporterPCs DEF TypeOK
<1> PICK q \in Requests : q = work[t].id
  BY <1>2
<1>3. outstanding[q] # {}
  BY <1>1, BringsOutstanding DEF Brings
<1>4. CASE StoreReview(t)
  <2>1. IF q \in pending /\ r = q THEN llm'[r] = work[t].verdict ELSE llm'[r] = llm[r]
    BY <1>4 DEF StoreReview, TypeOK
  <2>2. UNCHANGED <<stream, staged, hits, final, wire>>
    BY <1>4 DEF StoreReview
  <2> QED BY <1>1, <1>4, <2>1, <2>2
          DEF StoresReview, Untouched, EntryStays, AnswerUntouched, HitsUntouched
<1>5. CASE ApplyReview(t)
  <2>1. CASE work[t].verdict = "deny" /\ ApplyDeny(q, "llm") /\ UNCHANGED staged
    <3>1. Reviewer(q, "llm", "deny")
      BY <1>5, <2>1 DEF Reviewer, Applies, ApplyReview
    <3> QED BY <1>1, <1>3, <2>1, <3>1, ApplyDenyMoves
  <2>2. CASE work[t].verdict = "ask" /\ ApplyAsk(q, "llm") /\ UNCHANGED <<stream, wire, final>>
    <3>1. Reviewer(q, "llm", "ask")
      BY <1>5, <2>2 DEF Reviewer, Applies, ApplyReview
    <3> QED BY <1>1, <1>3, <2>2, <3>1, ApplyAskMoves
  <2>3. CASE UNCHANGED <<draft, stream, wire, staged>>
    BY <1>1, <2>3 DEF Untouched, EntryStays, AnswerUntouched, HitsUntouched, draft
  <2> QED BY <1>5, <2>1, <2>2, <2>3 DEF ApplyReview
<1> QED BY <1>4, <1>5

\* Seen from one request, a step of any thread is one of eleven things.
LEMMA RequestStep ==
  ASSUME TypeOK, SignalsHaveOneBringer, StreamUntilAnswered, [Next]_vars, NEW r \in Requests
  PROVE  RequestMoves(r)
<1> USE ThreadsFacts DEF conf, draft, clock, plan
<1>1. CASE UNCHANGED <<pending, stream, staged, held, hits, llm, final, wire, trail, expected>>
  BY <1>1 DEF RequestMoves, Untouched, EntryStays, AnswerUntouched, HitsUntouched
<1>2. ASSUME NEW q \in Requests, Register(q) PROVE RequestMoves(r)
  BY <1>2, RegisterMoves DEF RequestMoves
<1>3. ASSUME NEW t \in Threads, TryHold(t) \/ DenyUnsealed(t) \/ Seal(t) PROVE RequestMoves(r)
  BY <1>3, TryHoldMoves, DenyUnsealedMoves, SealMoves DEF RequestMoves
<1>4. ASSUME NEW t \in Threads, StoreReview(t) \/ ApplyReview(t) PROVE RequestMoves(r)
  BY <1>4, ReviewMoves DEF RequestMoves
<1>5. ASSUME NEW q \in Requests, Reap(q) PROVE RequestMoves(r)
  BY <1>5, ReapMoves DEF RequestMoves
<1>6. CASE SignoffResolves
  BY <1>6, SignoffResolvesMoves DEF RequestMoves
<1>7. ASSUME NEW q \in Requests, NEW D \in SUBSET Events, EventQueueFull(q, D)
      PROVE  RequestMoves(r)
  <2>1. outstanding[q] # {}
    BY <1>7 DEF EventQueueFull, SignalsHaveOneBringer
  <2>2. Reviewer(q, "broker", "deny")
    BY DEF Reviewer
  <2> QED BY <1>7, <2>1, <2>2, ApplyDenyMoves DEF EventQueueFull, RequestMoves
<1>8. CASE DenyAlert \/ AskAlert
  <2>1. work[Http].pc = "reporting" /\ "reporting" \in SignalPCs /\ "reporting" \in Reporting
    BY <1>8 DEF DenyAlert, AskAlert, SignalPCs, Reporting
  <2>2. work[Http].id \in Requests
    BY <2>1, SignalJob DEF TypeOK
  <2> PICK q \in Requests : q = work[Http].id
    BY <2>2
  <2>3. outstanding[q] # {} /\ Reviewer(q, "falco", "deny") /\ Reviewer(q, "falco", "ask")
    BY <2>1, BringsOutstanding DEF Brings, Reviewer
  <2>4. CASE DenyAlert
    BY <2>3, <2>4, ApplyDenyMoves DEF DenyAlert, RequestMoves
  <2>5. CASE AskAlert
    BY <2>3, <2>5, ApplyAskMoves DEF AskAlert, RequestMoves
  <2> QED BY <1>8, <2>4, <2>5
<1>9. ASSUME NEW q \in Requests,
             OperatorSigns(q) \/ SignoffDecides(q) \/ TtlElapses(q) \/ HoldTtlElapses(q)
               \/ ReviewQueueFull(q) \/ (\E e \in Events : AlertsBegin(q, e))
               \/ (\E w \in LlmWorkers : ReviewBegin(w, q))
      PROVE  RequestMoves(r)
  BY <1>1, <1>9 DEF OperatorSigns, SignoffDecides, TtlElapses, HoldTtlElapses,
                    ReviewQueueFull, AlertsBegin, ReviewBegin
<1>10. ASSUME NEW t \in Threads, SignalComplete(t) PROVE RequestMoves(r)
  BY <1>1, <1>10 DEF SignalComplete
<1>11. CASE SeenAlertLost \/ ReapScan \/ UNCHANGED vars
  BY <1>1, <1>11 DEF SeenAlertLost, ReapScan, vars
<1> QED
  BY <1>2, <1>3, <1>4, <1>5, <1>6, <1>7, <1>8, <1>9, <1>10, <1>11
  DEF Next, Completes, Reviews

(***************************************************************************)
(* What a step does to the signals to come, and to the job of a thread.    *)
(***************************************************************************)
Registers(r) ==
  /\ ~Registered(r) /\ expected'[r] # {}
  /\ outstanding'[r] = expected'[r] /\ unclaimed'[r] = expected'[r]
  /\ r \in pending' => remaining'[r] = Cardinality(expected'[r])

PlanMoves(r) ==
  \/ Registers(r)
  \/ /\ expected'[r] = expected[r] /\ unclaimed'[r] \subseteq unclaimed[r]
     /\ \/ outstanding'[r] = outstanding[r] /\ remaining'[r] = remaining[r]
        \/ \E t \in Threads :
             /\ SignalComplete(t) /\ Reports(t) /\ Brings(t, r)
             /\ outstanding'[r] = outstanding[r] \ {work[t].signal}

LEMMA PlanStep ==
  ASSUME TypeOK, StreamUntilAnswered, [Next]_vars, NEW r \in Requests
  PROVE  PlanMoves(r)
<1> USE ThreadsFacts DEF conf, draft, clock, plan
<1>1. CASE UNCHANGED <<expected, outstanding, unclaimed, remaining>>
  BY <1>1 DEF PlanMoves
<1>2. ASSUME NEW q \in Requests, Register(q) PROVE PlanMoves(r)
  <2> PICK S \in SUBSET Signals :
         /\ S # {} /\ expected' = [expected EXCEPT ![q] = S]
         /\ outstanding' = [outstanding EXCEPT ![q] = S]
         /\ unclaimed' = [unclaimed EXCEPT ![q] = S]
         /\ RegisterPassthrough(q, S) \/ RegisterPending(q, S)
    BY <1>2 DEF Register
  <2>1. ~Registered(q) /\ q \notin pending
    BY <1>2 DEF Register, Registered, StreamUntilAnswered
  <2>2. IF r = q THEN expected'[r] = S /\ outstanding'[r] = S /\ unclaimed'[r] = S
        ELSE /\ expected'[r] = expected[r] /\ outstanding'[r] = outstanding[r]
             /\ unclaimed'[r] = unclaimed[r]
    BY DEF TypeOK
  <2>3. /\ r = q /\ r \in pending' => remaining'[r] = Cardinality(S)
        /\ r # q => remaining'[r] = remaining[r]
    BY <2>1 DEF RegisterPassthrough, RegisterPending, TypeOK
  <2> QED BY <2>1, <2>2, <2>3 DEF PlanMoves, Registers
<1>3. ASSUME NEW t \in Threads, SignalComplete(t) PROVE PlanMoves(r)
  <2>1. UNCHANGED <<expected, unclaimed>> /\ Reports(t)
    BY <1>3 DEF SignalComplete
  <2>2. PICK q : q = work[t].id
    OBVIOUS
  <2>3. /\ Brings(t, q)
        /\ \A p \in Requests : p # q => outstanding'[p] = outstanding[p] /\ remaining'[p] = remaining[p]
        /\ outstanding'[q] = outstanding[q] \ {work[t].signal}
    BY <1>3, <2>2, SignalCompleteEffect
  <2> QED BY <1>3, <2>1, <2>3 DEF PlanMoves
<1>4. ASSUME NEW t \in Threads, NEW q \in Requests, NEW s \in Signals, NEW pc, NEW v,
             Begin(t, q, s, pc, v), UNCHANGED <<expected, outstanding, remaining>>
      PROVE  PlanMoves(r)
  BY <1>4 DEF Begin, PlanMoves, TypeOK
<1>5. ASSUME NEW q \in Requests,
             ReviewQueueFull(q) \/ (\E e \in Events : AlertsBegin(q, e))
               \/ (\E w \in LlmWorkers : ReviewBegin(w, q))
      PROVE  PlanMoves(r)
  BY <1>4, <1>5 DEF ReviewQueueFull, AlertsBegin, ReviewBegin, Signals
<1>6. ASSUME NEW q \in Requests, NEW D \in SUBSET Events, EventQueueFull(q, D)
      PROVE  PlanMoves(r)
  BY <1>6 DEF EventQueueFull, PlanMoves, TypeOK
<1>7. ASSUME NEW q \in Requests,
             OperatorSigns(q) \/ SignoffDecides(q) \/ TtlElapses(q) \/ HoldTtlElapses(q) \/ Reap(q)
      PROVE  PlanMoves(r)
  BY <1>1, <1>7 DEF OperatorSigns, SignoffDecides, TtlElapses, HoldTtlElapses, Reap
<1>8. ASSUME NEW t \in Threads,
             TryHold(t) \/ DenyUnsealed(t) \/ Seal(t) \/ StoreReview(t) \/ ApplyReview(t)
      PROVE  PlanMoves(r)
  BY <1>1, <1>8 DEF TryHold, DenyUnsealed, Seal, StoreReview, ApplyReview
<1>9. CASE DenyAlert \/ AskAlert \/ SeenAlertLost \/ SignoffResolves \/ ReapScan
             \/ UNCHANGED vars
  BY <1>1, <1>9 DEF DenyAlert, AskAlert, SeenAlertLost, SignoffResolves, ReapScan, vars
<1> QED BY <1>2, <1>3, <1>5, <1>6, <1>7, <1>8, <1>9 DEF Next, Completes, Reviews

Advances(t, from, to) ==
  /\ work[t].pc = from /\ work'[t].pc = to
  /\ work'[t].id = work[t].id /\ work'[t].signal = work[t].signal
  /\ work'[t].verdict = work[t].verdict

StartsAlerts(t) ==
  /\ work[t] = Idle
  /\ work'[t].pc = "reporting" /\ work'[t].signal \in Events

StartsReview(t) ==
  /\ work[t] = Idle
  /\ work'[t].pc = "storing" /\ work'[t].signal = Llm
  /\ Llm \in unclaimed[work'[t].id] /\ Llm \notin unclaimed'[work'[t].id]
  /\ work'[t].verdict = "none" => HasResponded(work'[t].id)

\* A job ends: a hold in a held entry, the other completions without the entry.
Ends(t) ==
  /\ work'[t] = Idle
  /\ work[t].pc = "holding" => held'[work[t].id]
  /\ work[t].pc \in {"unsealed", "sealing"} => work[t].id \notin pending'

JobMoves(t) ==
  \/ work'[t] = work[t]
  \/ Ends(t) \/ StartsAlerts(t) \/ StartsReview(t)
  \/ work[t] = Idle /\ work'[t].pc = "resolving"
  \/ Advances(t, "storing", "applying") /\ StoreReview(t)
  \/ Advances(t, "applying", "signalling") /\ ApplyReview(t)
  \/ /\ Advances(t, "reporting", AfterLastSignal) \/ Advances(t, "signalling", AfterLastSignal)
     /\ SignalComplete(t) /\ work[t].id \in pending
  \/ Advances(t, "holding", "unsealed") /\ AuditCanFail
  \/ /\ Advances(t, "holding", "sealing") /\ ~QualifiesForHold(work[t].id)
     /\ UNCHANGED <<pending, stream, staged>>

LEMMA GoToAdvances ==
  ASSUME TypeOK, NEW t \in Threads, work[t].pc \in SignalPCs, NEW pc \in SignalPCs,
         GoTo(t, pc), NEW u \in Threads
  PROVE  IF u = t THEN Advances(t, work[t].pc, pc) ELSE work'[u] = work[u]
BY GoToJob DEF Advances

LEMMA BeginReviewJob ==
  ASSUME TypeOK, NEW t \in Threads, NEW r \in Requests, NEW v \in LlmVerdicts,
         v = "none" => HasResponded(r), Begin(t, r, Llm, "storing", v), NEW u \in Threads
  PROVE  work'[u] = work[u] \/ StartsReview(u)
<1>1. Llm \in Signals /\ "storing" \in SignalPCs
  BY DEF Signals, SignalPCs
<1>2. /\ \A w \in Threads : w # t => work'[w] = work[w]
      /\ work[t] = Idle
      /\ work'[t].pc = "storing" /\ work'[t].id = r /\ work'[t].signal = Llm
      /\ work'[t].verdict = v
      /\ Llm \in unclaimed[r] /\ unclaimed' = [unclaimed EXCEPT ![r] = @ \ {Llm}]
  BY <1>1, BeginJob
<1>3. Llm \notin unclaimed'[r]
  BY <1>2 DEF TypeOK
<1> QED BY <1>2, <1>3 DEF StartsReview

LEMMA JobMove ==
  ASSUME TypeOK, [Next]_vars, NEW u \in Threads
  PROVE  JobMoves(u)
<1> USE ThreadsFacts
<1>1. ASSUME UNCHANGED work PROVE JobMoves(u)
  BY <1>1 DEF JobMoves
<1>2. ASSUME NEW t \in Threads, Finish(t),
             work[t].pc = "holding" => held'[work[t].id],
             work[t].pc \in {"unsealed", "sealing"} => work[t].id \notin pending'
      PROVE  JobMoves(u)
  BY <1>2, FinishJob DEF JobMoves, Ends
<1>3. ASSUME NEW t \in Threads, SignalComplete(t) PROVE JobMoves(u)
  <2>1. work[t].pc \in {"reporting", "signalling"}
    BY <1>3 DEF SignalComplete, Reports
  <2>2. work[t].pc \in SignalPCs /\ AfterLastSignal \in SignalPCs
    BY <2>1 DEF AfterLastSignal, SignalPCs
  <2>3. CASE Finish(t)
    BY <1>2, <2>1, <2>3
  <2>4. CASE work[t].id \in pending /\ GoTo(t, AfterLastSignal)
    BY <1>3, <2>1, <2>2, <2>4, GoToAdvances DEF JobMoves
  <2> QED BY <1>3, <2>3, <2>4 DEF SignalComplete
<1>4. ASSUME NEW t \in Threads, TryHold(t) PROVE JobMoves(u)
  <2>1. work[t].pc = "holding" /\ {"holding", "sealing", "unsealed"} \subseteq SignalPCs
    BY <1>4 DEF TryHold, SignalPCs
  <2>2. CASE held' = [held EXCEPT ![work[t].id] = TRUE] /\ Finish(t)
    <3>1. work[t].id \in Requests
      BY <2>1, SignalJob DEF TypeOK
    <3>2. held'[work[t].id]
      BY <2>2, <3>1 DEF TypeOK
    <3> QED BY <1>2, <2>1, <2>2, <3>2
  <2>3. CASE AuditCanFail /\ GoTo(t, "unsealed")
    BY <2>1, <2>3, GoToAdvances DEF JobMoves
  <2>4. CASE ~QualifiesForHold(work[t].id) /\ GoTo(t, "sealing") /\ UNCHANGED staged
    <3>1. UNCHANGED <<pending, stream>>
      BY <1>4 DEF TryHold
    <3> QED BY <2>1, <2>4, <3>1, GoToAdvances DEF JobMoves
  <2> QED BY <1>4, <2>2, <2>3, <2>4 DEF TryHold, Hold
<1>5. ASSUME NEW t \in Threads, DenyUnsealed(t) \/ Seal(t) PROVE JobMoves(u)
  <2>1. work[t].id \notin pending'
    BY <1>5 DEF DenyUnsealed, Seal, AnswerAndSeal, Remove
  <2>2. Finish(t) /\ work[t].pc \in {"unsealed", "sealing"}
    BY <1>5 DEF DenyUnsealed, Seal
  <2> QED BY <1>2, <2>1, <2>2
<1>6. ASSUME NEW t \in Threads, StoreReview(t) PROVE JobMoves(u)
  <2>1. work[t].pc = "storing" /\ {"storing", "applying"} \subseteq SignalPCs
    BY <1>6 DEF StoreReview, SignalPCs
  <2> QED BY <1>6, <2>1, GoToAdvances DEF JobMoves, StoreReview
<1>7. ASSUME NEW t \in Threads, ApplyReview(t) PROVE JobMoves(u)
  <2>1. work[t].pc = "applying" /\ {"applying", "signalling"} \subseteq SignalPCs
    BY <1>7 DEF ApplyReview, SignalPCs
  <2> QED BY <1>7, <2>1, GoToAdvances DEF JobMoves, ApplyReview
<1>8. ASSUME NEW r \in Requests, ReviewQueueFull(r) PROVE JobMoves(u)
  <2>1. PICK v \in {"ask", "deny"} : Begin(Sock, r, Llm, "storing", v)
    BY <1>8 DEF ReviewQueueFull
  <2>2. v \in LlmVerdicts /\ v # "none"
    BY DEF LlmVerdicts
  <2> QED BY <2>1, <2>2, BeginReviewJob DEF JobMoves
<1>9. ASSUME NEW r \in Requests, NEW w \in LlmWorkers, ReviewBegin(w, r) PROVE JobMoves(u)
  BY <1>9, BeginReviewJob DEF ReviewBegin, JobMoves
<1>10. ASSUME NEW r \in Requests, NEW e \in Events, AlertsBegin(r, e) PROVE JobMoves(u)
  <2>1. e \in Signals /\ "reporting" \in SignalPCs
    BY DEF Signals, SignalPCs
  <2>2. /\ \A w \in Threads : w # Http => work'[w] = work[w]
        /\ work[Http] = Idle /\ work'[Http].pc = "reporting" /\ work'[Http].signal = e
    BY <1>10, <2>1, BeginJob, VerdictNames DEF AlertsBegin
  <2> QED BY <2>2 DEF JobMoves, StartsAlerts
<1>11. ASSUME NEW r \in Requests, SignoffDecides(r) PROVE JobMoves(u)
  BY <1>11, SignoffDecidesJob DEF JobMoves
<1>12. ASSUME NEW r \in Requests,
              Register(r) \/ OperatorSigns(r) \/ TtlElapses(r) \/ HoldTtlElapses(r) \/ Reap(r)
                \/ \E D \in SUBSET Events : EventQueueFull(r, D)
       PROVE  JobMoves(u)
  BY <1>1, <1>12 DEF Register, OperatorSigns, TtlElapses, HoldTtlElapses, Reap, EventQueueFull
<1>13. ASSUME DenyAlert \/ AskAlert \/ ReapScan \/ UNCHANGED vars PROVE JobMoves(u)
  BY <1>1, <1>13 DEF DenyAlert, AskAlert, ReapScan, vars
<1>14. ASSUME SeenAlertLost \/ SignoffResolves PROVE JobMoves(u)
  BY <1>2, <1>14 DEF SeenAlertLost, SignoffResolves
<1> QED
  BY <1>3, <1>4, <1>5, <1>6, <1>7, <1>8, <1>9, <1>10, <1>11, <1>12, <1>13, <1>14
  DEF Next, Completes, Reviews

LEMMA ConfStays == ASSUME [Next]_vars PROVE UNCHANGED conf
<1> USE DEF conf
<1>1. ASSUME NEW r \in Requests,
             Register(r) \/ OperatorSigns(r) \/ SignoffDecides(r) \/ TtlElapses(r)
               \/ HoldTtlElapses(r) \/ Reap(r) \/ ReviewQueueFull(r)
               \/ (\E e \in Events : AlertsBegin(r, e))
               \/ (\E D \in SUBSET Events : EventQueueFull(r, D))
               \/ (\E w \in LlmWorkers : ReviewBegin(w, r))
      PROVE  UNCHANGED conf
  BY <1>1 DEF Register, OperatorSigns, SignoffDecides, TtlElapses, HoldTtlElapses, Reap,
              ReviewQueueFull, AlertsBegin, EventQueueFull, ReviewBegin
<1>2. ASSUME NEW t \in Threads,
             SignalComplete(t) \/ TryHold(t) \/ DenyUnsealed(t) \/ Seal(t)
               \/ StoreReview(t) \/ ApplyReview(t)
      PROVE  UNCHANGED conf
  BY <1>2 DEF SignalComplete, TryHold, DenyUnsealed, Seal, StoreReview, ApplyReview
<1>3. CASE DenyAlert \/ AskAlert \/ SeenAlertLost \/ SignoffResolves \/ ReapScan
             \/ UNCHANGED vars
  BY <1>3 DEF DenyAlert, AskAlert, SeenAlertLost, SignoffResolves, ReapScan, vars
<1> QED BY <1>1, <1>2, <1>3 DEF Next, Completes, Reviews

(***************************************************************************)
(* The review is stored once.                                              *)
(***************************************************************************)
LEMMA AfterLastSignalIs ==
  /\ AfterLastSignal = "holding" => HoldsAsks
  /\ AfterLastSignal = "sealing" => ~HoldsAsks
  /\ AfterLastSignal \in {"holding", "sealing"}
BY DEF AfterLastSignal, HoldsAsks

LEMMA BringerOfRegistered ==
  ASSUME SignalsHaveOneBringer, NEW t \in Threads, NEW r \in Requests, Brings(t, r)
  PROVE  Registered(r)
BY DEF SignalsHaveOneBringer, Registered

\* The bringer of the review is the only one, and the review is claimed.
LEMMA OneReviewer ==
  ASSUME SignalsHaveOneBringer, ReviewIsStored, NEW r \in Requests, NEW t \in Threads,
         work[t].id = r, work[t].pc \in {"storing", "applying", "signalling"}
  PROVE  /\ Brings(t, r) /\ work[t].signal = Llm
         /\ Llm \in outstanding[r] /\ Llm \notin unclaimed[r]
         /\ \A u \in Threads : work[u].id = r /\ work[u].pc \in {"storing", "applying", "signalling"}
              => u = t
<1>1. \A u \in Threads : work[u].id = r /\ work[u].pc \in {"storing", "applying", "signalling"} =>
        Brings(u, r) /\ work[u].signal = Llm
  BY DEF Brings, Reporting, ReviewIsStored
<1> QED BY <1>1 DEF SignalsHaveOneBringer

\* Once answered or gone, a request stays so.
LEMMA RespondedStays ==
  ASSUME TypeOK, SignalsHaveOneBringer, StreamUntilAnswered, [Next]_vars,
         NEW r \in Requests, Registered(r), HasResponded(r)
  PROVE  HasResponded(r)'
<1>1. RequestMoves(r)
  BY RequestStep
<1>2. r \in pending' => r \in pending /\ (stream'[r] => stream[r])
  <2>1. stream \in [Requests -> BOOLEAN]
    BY DEF TypeOK
  <2> QED BY <1>1, <2>1
          DEF RequestMoves, Untouched, EntryStays, AnswerUntouched, Opens, PassesThrough,
              TakesDeny, TakesAsk, StoresReview, IsHeld, IsRefused, IsSealed, IsResolved,
              IsReaped, Leaves, Told
<1> QED BY <1>2 DEF HasResponded

\* The outcome in the draft changes only when the review is stored.
LEMMA LlmStep ==
  ASSUME TypeOK, SignalsHaveOneBringer, StreamUntilAnswered, ReviewIsStored, [Next]_vars,
         NEW r \in Requests
  PROVE  \/ llm'[r] = llm[r]
         \/ /\ r \in pending
            /\ \E t \in Threads : StoreReview(t) /\ work[t].id = r /\ llm'[r] = work[t].verdict
<1>1. RequestMoves(r)
  BY RequestStep
<1>2. \A src, kind : r \in pending /\ HitTaken(r, src, kind) /\ Reviewer(r, src, kind)
        => llm'[r] = llm[r]
  BY DEF HitTaken, Reviewer, Applies, ReviewIsStored
<1>3. CASE TakesDeny(r)
  BY <1>2, <1>3 DEF TakesDeny
<1>4. CASE TakesAsk(r)
  BY <1>2, <1>4 DEF TakesAsk
<1> QED BY <1>1, <1>3, <1>4
        DEF RequestMoves, Untouched, HitsUntouched, Opens, PassesThrough, StoresReview, IsHeld,
            IsRefused, IsSealed, IsResolved, IsReaped, Leaves

LEMMA ReviewJobNext ==
  ASSUME TypeOK, SignalsHaveOneBringer, StreamUntilAnswered, ReviewIsStored, [Next]_vars,
         NEW t \in Threads, NEW r \in Requests, work'[t].id = r
  PROVE  /\ work'[t].pc = "storing" => llm'[r] = "none"
         /\ work'[t].pc \in {"applying", "signalling"} /\ r \in pending' =>
              llm'[r] = work'[t].verdict
         /\ work'[t].pc \in {"storing", "applying", "signalling"} /\ work'[t].verdict = "none" =>
              HasResponded(r)'
<1>1. JobMoves(t)
  BY JobMove
<1>2. Registered(r) /\ r \in pending' => r \in pending
  BY RequestStep
  DEF RequestMoves, Untouched, EntryStays, Opens, PassesThrough, TakesDeny, TakesAsk,
      StoresReview, IsHeld, IsRefused, IsSealed, IsResolved, IsReaped, Leaves
<1>3. CASE work'[t] = work[t]
  <2> SUFFICES ASSUME work[t].pc \in {"storing", "applying", "signalling"} PROVE
         /\ work[t].pc = "storing" => llm'[r] = "none"
         /\ work[t].pc \in {"applying", "signalling"} /\ r \in pending' =>
              llm'[r] = work[t].verdict
         /\ work[t].verdict = "none" => HasResponded(r)'
    BY <1>3
  <2>1. Registered(r)
    BY <1>3, OneReviewer, BringerOfRegistered
  <2>2. llm'[r] = llm[r]
    <3>1. ASSUME NEW u \in Threads, StoreReview(u), work[u].id = r PROVE FALSE
      <4>1. u = t
        BY <1>3, <3>1, OneReviewer DEF StoreReview
      <4>2. work'[t].pc = "applying" /\ work[t].pc = "storing"
        BY <3>1, <4>1, GoToJob DEF StoreReview, SignalPCs
      <4> QED BY <1>3, <4>2
    <3> QED BY <3>1, LlmStep
  <2> QED BY <1>2, <1>3, <2>1, <2>2, RespondedStays DEF ReviewIsStored
<1>4. CASE StartsReview(t)
  <2>1. Registered(r) /\ Llm \in unclaimed[r]
    BY <1>4 DEF StartsReview, SignalsHaveOneBringer, Registered
  <2>2. llm'[r] = llm[r]
    BY <2>1, LlmStep, OneReviewer DEF StoreReview
  <2> QED BY <1>4, <2>1, <2>2, RespondedStays DEF StartsReview, ReviewIsStored
<1>5. CASE Advances(t, "storing", "applying") /\ StoreReview(t)
  <2>1. Registered(r) /\ work[t].id = r
    BY <1>5, OneReviewer, BringerOfRegistered DEF Advances
  <2>2. r \in pending => llm'[r] = work[t].verdict
    BY <1>5, <2>1 DEF StoreReview, TypeOK
  <2> QED BY <1>2, <1>5, <2>1, <2>2, RespondedStays DEF Advances, ReviewIsStored
<1>6. CASE Advances(t, "applying", "signalling") /\ ApplyReview(t)
  <2>1. Registered(r) /\ work[t].id = r
    BY <1>6, OneReviewer, BringerOfRegistered DEF Advances
  <2>2. llm'[r] = llm[r]
    <3>1. ASSUME NEW u \in Threads, StoreReview(u), work[u].id = r PROVE FALSE
      BY <1>6, <2>1, <3>1, OneReviewer DEF StoreReview, Advances
    <3> QED BY <3>1, LlmStep
  <2> QED BY <1>2, <1>6, <2>1, <2>2, RespondedStays DEF Advances, ReviewIsStored
<1>7. CASE work'[t].pc \notin {"storing", "applying", "signalling"}
  BY <1>7
<1> QED BY <1>1, <1>3, <1>4, <1>5, <1>6, <1>7, IdleJob, AfterLastSignalIs
        DEF JobMoves, Ends, StartsAlerts, Advances

LEMMA ReviewSignalNext ==
  ASSUME TypeOK, SignalsHaveOneBringer, StreamUntilAnswered, UnregisteredIsUntouched,
         ReviewIsStored, [Next]_vars, NEW r \in Requests
  PROVE  /\ Llm \in unclaimed'[r] => llm'[r] = "none"
         /\ Llm \in expected'[r] \ outstanding'[r] /\ llm'[r] = "none" => HasResponded(r)'
<1>1. llm'[r] = llm[r] \/ (Registered(r) /\ Llm \in outstanding[r] /\ Llm \notin unclaimed[r])
  BY LlmStep, OneReviewer, BringerOfRegistered DEF StoreReview
<1>2. CASE Registers(r)
  BY <1>1, <1>2 DEF Registers, UnregisteredIsUntouched
<1>3. CASE expected'[r] = expected[r] /\ unclaimed'[r] \subseteq unclaimed[r]
  <2>1. Llm \in unclaimed'[r] => llm'[r] = "none"
    BY <1>1, <1>3 DEF ReviewIsStored
  <2>2. ASSUME Llm \in expected'[r], Llm \notin outstanding'[r], llm'[r] = "none"
        PROVE  HasResponded(r)'
    <3>1. Registered(r)
      BY <1>3, <2>2 DEF Registered
    <3>2. CASE Llm \notin outstanding[r]
      BY <1>1, <1>3, <2>2, <3>1, <3>2, RespondedStays DEF ReviewIsStored
    <3>3. CASE Llm \in outstanding[r]
      <4>1. PICK t \in Threads : /\ SignalComplete(t) /\ Reports(t) /\ Brings(t, r)
                                 /\ outstanding'[r] = outstanding[r] \ {work[t].signal}
        BY <2>2, <3>1, <3>3, PlanStep DEF PlanMoves, Registers
      <4>2. work[t].signal = Llm /\ work[t].pc = "signalling" /\ work[t].id = r
        BY <2>2, <3>3, <4>1 DEF Reports, Brings, ReviewIsStored
      <4>3. llm'[r] = llm[r]
        <5>1. ASSUME NEW u \in Threads, StoreReview(u), work[u].id = r PROVE FALSE
          BY <4>2, <5>1, OneReviewer DEF StoreReview
        <5> QED BY <5>1, LlmStep
      <4>4. HasResponded(r)
        BY <2>2, <4>2, <4>3 DEF ReviewIsStored, HasResponded
      <4> QED BY <3>1, <4>4, RespondedStays
    <3> QED BY <3>2, <3>3
  <2> QED BY <2>1, <2>2
<1> QED BY <1>2, <1>3, PlanStep DEF PlanMoves

LEMMA ReviewNext ==
  ASSUME TypeOK, SignalsHaveOneBringer, StreamUntilAnswered, UnregisteredIsUntouched,
         ReviewIsStored, [Next]_vars
  PROVE  ReviewIsStored'
<1>1. ASSUME NEW t \in Threads
      PROVE  /\ work'[t].pc \in {"storing", "applying", "signalling"} => work'[t].signal = Llm
             /\ work'[t].pc = "reporting" => work'[t].signal # Llm
  <2>1. Llm \notin Events
    BY ConstantsAssumption DEF ConstantsAssumption
  <2> QED BY <2>1, JobMove, IdleJob, AfterLastSignalIs
          DEF JobMoves, Ends, StartsAlerts, StartsReview, Advances, ReviewIsStored
<1> QED BY <1>1, ReviewJobNext, ReviewSignalNext DEF ReviewIsStored

(***************************************************************************)
(* A verdict is named with the source that raised it.                      *)
(***************************************************************************)
LEMMA StageAskIs ==
  ASSUME NEW current \in Sourced, NEW src, current = Unset \/ current.verdict = "ask"
  PROVE  /\ current = Unset => StageAsk(current, src) = [verdict |-> "ask", source |-> src]
         /\ current # Unset => /\ StageAsk(current, src).verdict = "ask"
                               /\ StageAsk(current, src).source = current.source
<1>1. current = Unset => current.verdict = "none"
  BY UnsetVerdict
<1>2. CASE current = Unset
  BY <1>1, <1>2, StrictnessValues DEF StageAsk, Escalate
<1>3. CASE current # Unset
  <2>1. Escalate(current.verdict, "ask") = "ask" /\ Strictness(current.verdict) > 0
    BY <1>3, StrictnessValues DEF Escalate
  <2> QED BY <1>3, <2>1 DEF StageAsk
<1> QED BY <1>2, <1>3

LEMMA UnsetExplained == ASSUME NEW h, NEW l PROVE Explained(Unset, h, l)
BY DEF Explained, Unset

\* What a hit adds to the draft explains the hit, and what was explained stays so.
LEMMA HitExplains ==
  ASSUME NEW r \in Requests, NEW src \in {"falco", "llm", "broker"}, NEW kind \in {"deny", "ask"},
         HitTaken(r, src, kind), llm'[r] = llm[r]
  PROVE  /\ \A f : Explained(f, hits[r], llm[r]) => Explained(f, hits'[r], llm'[r])
         /\ \A f : f.source = src /\ f.verdict = kind => Explained(f, hits'[r], llm'[r])
<1>1. hits'[r] = hits[r] \cup {[source |-> src, kind |-> kind]} \/ (src = "llm" /\ hits'[r] = hits[r])
  BY DEF HitTaken
<1>2. ASSUME NEW f, Explained(f, hits[r], llm[r]) PROVE Explained(f, hits'[r], llm'[r])
  BY <1>1, <1>2 DEF Explained
<1>3. ASSUME NEW f, f.source = src, f.verdict = kind PROVE Explained(f, hits'[r], llm'[r])
  BY <1>1, <1>3 DEF Explained, HitTaken
<1> QED BY <1>2, <1>3

LEMMA SetFinalExplained ==
  ASSUME NEW h, NEW l, NEW old, Explained(old, h, l), NEW v, NEW src,
         Explained([verdict |-> v, source |-> src], h, l)
  PROVE  Explained(SetFinal(old, v, src), h, l)
BY DEF SetFinal

LEMMA SourcesNext ==
  ASSUME TypeOK, SignalsHaveOneBringer, StreamUntilAnswered, UnregisteredIsUntouched,
         StagedIsAsk, ReviewIsStored, SourcesAreTrue, TrailSoFar, [Next]_vars
  PROVE  SourcesAreTrue'
<1> DEFINE Fine(r) == /\ Explained(staged'[r], hits'[r], llm'[r])
                      /\ Explained(final'[r], hits'[r], llm'[r])
                      /\ staged'[r] = Unset \/ staged'[r].source \in {"falco", "llm"}
<1> SUFFICES ASSUME NEW r \in Requests, r \in pending' PROVE Fine(r)
  <2>1. TypeOK'
    BY TypeNext
  <2> QED BY <2>1 DEF SourcesAreTrue, TypeOK
<1>1. RequestMoves(r)
  BY RequestStep
<1>2. r \in pending => /\ Explained(staged[r], hits[r], llm[r])
                       /\ Explained(final[r], hits[r], llm[r])
                       /\ staged[r] = Unset \/ staged[r].source \in {"falco", "llm"}
  BY DEF SourcesAreTrue
<1>3. CASE Untouched(r)
  BY <1>2, <1>3 DEF Untouched, EntryStays, AnswerUntouched, HitsUntouched
<1>4. CASE Opens(r)
  BY <1>4, UnsetExplained DEF Opens, TrailSoFar
<1>5. CASE TakesDeny(r)
  <2>1. PICK src \in {"falco", "llm", "broker"} :
           /\ HitTaken(r, src, "deny") /\ Reviewer(r, src, "deny")
           /\ IF mode = "monitor" THEN AnswerUntouched(r) ELSE Told(r, "deny", src)
    BY <1>5 DEF TakesDeny
  <2>2. llm'[r] = llm[r]
    BY <1>5, <2>1 DEF TakesDeny, HitTaken, Reviewer, Applies, ReviewIsStored
  <2>3. /\ \A f : Explained(f, hits[r], llm[r]) => Explained(f, hits'[r], llm'[r])
        /\ \A f : f.source = src /\ f.verdict = "deny" => Explained(f, hits'[r], llm'[r])
    BY <2>1, <2>2, HitExplains
  <2>4. final'[r] = final[r] \/ final'[r] = SetFinal(final[r], "deny", src)
    BY <2>1 DEF AnswerUntouched, Told
  <2>5. Explained([verdict |-> "deny", source |-> src], hits'[r], llm'[r])
    BY <2>3
  <2> QED BY <1>2, <1>5, <2>3, <2>4, <2>5, SetFinalExplained DEF TakesDeny
<1>6. CASE TakesAsk(r)
  <2>1. PICK src \in {"falco", "llm"} :
           /\ HitTaken(r, src, "ask") /\ Reviewer(r, src, "ask")
           /\ staged'[r] = IF mode = "monitor" THEN staged[r] ELSE StageAsk(staged[r], src)
    BY <1>6 DEF TakesAsk
  <2>2. llm'[r] = llm[r]
    BY <1>6, <2>1 DEF TakesAsk, HitTaken, Reviewer, Applies, ReviewIsStored
  <2>3. /\ \A f : Explained(f, hits[r], llm[r]) => Explained(f, hits'[r], llm'[r])
        /\ \A f : f.source = src /\ f.verdict = "ask" => Explained(f, hits'[r], llm'[r])
    BY <2>1, <2>2, HitExplains
  <2>4. Explained(final'[r], hits'[r], llm'[r])
    BY <1>2, <1>6, <2>3 DEF TakesAsk, AnswerUntouched
  <2>5. staged[r] \in Sourced /\ (staged[r] = Unset \/ staged[r].verdict = "ask")
    BY DEF TypeOK, StagedIsAsk
  <2>6. CASE staged'[r] = staged[r]
    BY <1>2, <1>6, <2>3, <2>4, <2>6 DEF TakesAsk
  <2>7. CASE staged'[r] = StageAsk(staged[r], src) /\ staged[r] = Unset
    <3>1. staged'[r].source = src /\ staged'[r].verdict = "ask"
      BY <2>5, <2>7, StageAskIs
    <3> QED BY <2>3, <2>4, <3>1
  <2>8. CASE staged'[r] = StageAsk(staged[r], src) /\ staged[r] # Unset
    <3>1. staged'[r].source = staged[r].source /\ staged'[r].verdict = staged[r].verdict
      BY <2>5, <2>8, StageAskIs
    <3>2. Explained(staged[r], hits'[r], llm'[r])
      BY <1>2, <1>6, <2>3 DEF TakesAsk
    <3> QED BY <1>2, <1>6, <2>4, <2>8, <3>1, <3>2 DEF Explained, TakesAsk
  <2> QED BY <2>1, <2>6, <2>7, <2>8
<1>7. CASE StoresReview(r)
  <2>1. llm[r] = "none" /\ r \in pending
    BY <1>7 DEF StoresReview, StoreReview, ReviewIsStored
  <2>2. staged'[r] = staged[r] /\ final'[r] = final[r] /\ hits'[r] = hits[r]
    BY <1>7 DEF StoresReview, AnswerUntouched
  <2> QED BY <1>2, <2>1, <2>2 DEF Explained
<1>8. CASE IsHeld(r)
  <2>1. /\ staged'[r] = Unset /\ hits'[r] = hits[r] /\ llm'[r] = llm[r]
        /\ final'[r] = SetFinal(final[r], staged[r].verdict, staged[r].source)
        /\ r \in pending
    BY <1>8 DEF IsHeld, HitsUntouched
  <2>2. Explained([verdict |-> staged[r].verdict, source |-> staged[r].source], hits[r], llm[r])
    BY <1>2, <2>1 DEF Explained
  <2> QED BY <1>2, <2>1, <2>2, UnsetExplained, SetFinalExplained
<1> QED BY <1>1, <1>3, <1>4, <1>5, <1>6, <1>7, <1>8
        DEF RequestMoves, PassesThrough, IsRefused, IsSealed, IsResolved, IsReaped, Leaves,
            StreamUntilAnswered

(***************************************************************************)
(* Who completes a request, and what of its draft.                         *)
(***************************************************************************)
LEMMA CompletingFacts ==
  ASSUME CountIsOutstanding, NEW r \in Requests, r \in pending, NEW t \in Threads,
         Completing(t, r)
  PROVE  /\ outstanding[r] = {} /\ ~held[r]
         /\ \A u \in Threads : Completing(u, r) => u = t
BY DEF CountIsOutstanding

LEMMA RefusesCompleting ==
  ASSUME NEW t, NEW r, Refuses(t, r) PROVE Completing(t, r)
BY DEF Refuses, Completing

LEMMA CompletersNext ==
  ASSUME TypeOK, SignalsHaveOneBringer, StreamUntilAnswered, UnregisteredIsUntouched,
         CountIsOutstanding, CompletersKnowSignoff, [Next]_vars
  PROVE  CompletersKnowSignoff'
<1> SUFFICES ASSUME NEW t \in Threads
             PROVE  /\ work'[t].pc \in {"holding", "unsealed"} => HoldsAsks'
                    /\ work'[t].pc = "unsealed" => AuditCanFail
                    /\ work'[t].pc = "sealing" /\ HoldsAsks' => ~QualifiesForHold(work[t].id)'
  BY DEF CompletersKnowSignoff
<1>1. HoldsAsks' = HoldsAsks
  BY ConfStays DEF conf, HoldsAsks
<1>2. CASE work'[t] = work[t]
  <2>1. ASSUME work[t].pc = "sealing", HoldsAsks PROVE ~QualifiesForHold(work[t].id)'
    <3>1. work[t].id \in Requests
      BY <2>1, SignalJob DEF SignalPCs, TypeOK
    <3> PICK r \in Requests : r = work[t].id
      BY <3>1
    <3>2. Completing(t, r)
      BY <2>1 DEF Completing
    <3>3. Registered(r)
      BY <3>2 DEF UnregisteredIsUntouched
    <3>4. ~QualifiesForHold(r)
      BY <2>1 DEF CompletersKnowSignoff
    <3>5. r \in pending => outstanding[r] = {}
      BY <3>2, CompletingFacts
    <3>6. stream \in [Requests -> BOOLEAN]
      BY DEF TypeOK
    <3>7. r \in pending' => r \in pending /\ (stream'[r] => stream[r])
                            /\ (staged'[r] = staged[r] \/ staged'[r] = Unset)
      BY <3>3, <3>5, <3>6, RequestStep
      DEF RequestMoves, Untouched, EntryStays, AnswerUntouched, Opens, PassesThrough,
          TakesDeny, TakesAsk, StoresReview, IsHeld, IsRefused, IsSealed, IsResolved,
          IsReaped, Leaves, Told
    <3> QED BY <1>2, <3>4, <3>7, UnsetVerdict DEF QualifiesForHold
  <2> QED BY <1>1, <1>2, <2>1 DEF CompletersKnowSignoff
<1>3. CASE Advances(t, "holding", "unsealed") /\ AuditCanFail
  BY <1>1, <1>3 DEF Advances, CompletersKnowSignoff
<1>4. CASE /\ Advances(t, "holding", "sealing") /\ ~QualifiesForHold(work[t].id)
           /\ UNCHANGED <<pending, stream, staged>>
  BY <1>4 DEF Advances, QualifiesForHold
<1>5. CASE work'[t].pc = AfterLastSignal
  BY <1>1, <1>5, AfterLastSignalIs
<1>6. CASE work'[t].pc \notin {"holding", "unsealed", "sealing"}
  BY <1>6
<1> QED BY <1>2, <1>3, <1>4, <1>5, <1>6, JobMove, IdleJob
        DEF JobMoves, Ends, StartsAlerts, StartsReview, Advances

LEMMA NoOrphanNext ==
  ASSUME TypeOK, SignalsHaveOneBringer, StreamUntilAnswered, CountIsOutstanding, NoOrphan,
         [Next]_vars
  PROVE  NoOrphan'
<1> SUFFICES ASSUME NEW r \in Requests, r \in pending', remaining'[r] = 0
             PROVE  held'[r] \/ \E t \in Threads : Completing(t, r)'
  <2>1. TypeOK'
    BY TypeNext
  <2> QED BY <2>1 DEF NoOrphan, TypeOK
<1>1. CASE Registers(r)
  <2>1. IsFiniteSet(expected'[r])
    <3>1. TypeOK'
      BY TypeNext
    <3> QED BY <3>1, ThreadsFacts, FS_Subset DEF TypeOK
  <2> QED BY <1>1, <2>1, FS_EmptySet DEF Registers
<1>2. CASE expected'[r] = expected[r]
  <2>0. r \in pending
    <3>1. Registered(r)' => Registered(r)
      BY <1>2 DEF Registered
    <3>2. StreamUntilAnswered'
      BY StreamNext
    <3>3. Registered(r)
      BY <3>1, <3>2 DEF StreamUntilAnswered
    <3> QED BY <3>3, RequestStep
        DEF RequestMoves, Untouched, EntryStays, Opens, PassesThrough, TakesDeny, TakesAsk,
            StoresReview, IsHeld, IsRefused, IsSealed, IsResolved, IsReaped, Leaves
  <2>1. CASE remaining'[r] = remaining[r]
    <3>1. CASE held[r]
      BY <3>1, HeldStays
    <3>2. ASSUME NEW t \in Threads, Completing(t, r)
          PROVE  held'[r] \/ Completing(t, r)'
      BY <3>2, JobMove, IdleJob
      DEF JobMoves, Ends, Advances, Completing, StoreReview, ApplyReview, StartsAlerts,
          StartsReview
    <3> QED BY <2>0, <2>1, <3>1, <3>2 DEF NoOrphan
  <2>2. ASSUME NEW t \in Threads, SignalComplete(t), Brings(t, r)
        PROVE  Completing(t, r)' \/ remaining'[r] = remaining[r]
    <3>1. work[t].id = r /\ work[t].pc \in SignalPCs
      BY <2>2, ReporterPCs DEF Brings
    <3>2. remaining'[r] = remaining[r] - 1 /\ remaining[r] \in Int
      BY <2>0, <2>2, <3>1, SignalCompleteEffect DEF TypeOK
    <3>3. GoTo(t, AfterLastSignal)
      BY <2>0, <2>2, <3>1, <3>2 DEF SignalComplete, IsLast
    <3>4. AfterLastSignal \in SignalPCs
      BY AfterLastSignalIs DEF SignalPCs
    <3> QED BY <3>1, <3>3, <3>4, GoToJob, AfterLastSignalIs DEF Completing
  <2> QED BY <1>2, <2>1, <2>2, PlanStep DEF PlanMoves, Registers, Registered
<1> QED BY <1>1, <1>2, PlanStep DEF PlanMoves

(***************************************************************************)
(* The draft and the trail of an entry.                                    *)
(***************************************************************************)
LEMMA NothingSaidYet ==
  ASSUME CountIsOutstanding, TrailSoFar, NEW r \in Requests, r \in pending, stream[r], ~held[r],
         \A t \in Threads : ~Refuses(t, r)
  PROVE  final[r] = Unset /\ trail[r] = <<>>
BY DEF TrailSoFar, UntoldDraft

LEMMA SetFinalOnce ==
  ASSUME NEW v, NEW src
  PROVE  SetFinal(Unset, v, src) = [verdict |-> v, source |-> src]
BY DEF SetFinal

LEMMA FirstRecord ==
  ASSUME NEW rec, NEW s, s = Append(<<>>, rec)
  PROVE  Len(s) = 1 /\ s # <<>> /\ s[1] = rec
OBVIOUS

LEMMA TrailNext ==
  ASSUME CoreInv, ReviewIsStored, SourcesAreTrue, CompletersKnowSignoff, TrailSoFar,
         [Next]_vars
  PROVE  TrailSoFar'
<1>0. /\ TypeOK /\ SignalsHaveOneBringer /\ StreamUntilAnswered /\ UnregisteredIsUntouched
      /\ CountIsOutstanding
  BY DEF CoreInv
<1> DEFINE Fine(r) ==
      /\ ~Registered(r)' => trail'[r] = <<>> /\ final'[r] = Unset /\ staged'[r] = Unset
      /\ r \in pending' /\ ~held'[r] => trail'[r] = <<>>
      /\ r \in pending' /\ ~held'[r] /\ stream'[r] => UntoldDraft(r)'
      /\ r \in pending' /\ ~stream'[r] => final'[r].verdict = "deny"
      /\ r \in pending' /\ held'[r] => stream'[r] /\ HoldsAsks' /\ SealedAsk(r)'
<1> SUFFICES ASSUME NEW r \in Requests PROVE Fine(r)
  BY DEF TrailSoFar
<1>1. RequestMoves(r)
  BY <1>0, RequestStep
<1>2. Registered(r) => Registered(r)'
  BY <1>0, OnlyEntriesChange
<1>3. HoldsAsks' = HoldsAsks /\ stream[r] \in BOOLEAN /\ held[r] \in BOOLEAN
  BY <1>0, ConfStays DEF conf, HoldsAsks, TypeOK
<1>4. UNCHANGED <<trail[r], final[r]>> => SealedAsk(r)' = SealedAsk(r)
  BY DEF SealedAsk
<1>5. r \in pending => Registered(r)
  BY <1>0 DEF StreamUntilAnswered
\* Somebody who refuses the ask still does, or has removed the entry.
<1>6. r \in pending' /\ UntoldDraft(r) /\ final'[r] = final[r] => UntoldDraft(r)'
  <2>1. ASSUME NEW t \in Threads, Refuses(t, r), r \in pending' PROVE Refuses(t, r)'
    BY <1>0, <2>1, JobStep DEF Refuses, DenyUnsealed, Remove
  <2> QED BY <2>1 DEF UntoldDraft
<1>7. CASE Untouched(r)
  BY <1>2, <1>3, <1>4, <1>6, <1>7 DEF Untouched, EntryStays, AnswerUntouched, TrailSoFar
<1>8. CASE Opens(r)
  <2>1. ~held[r] /\ trail[r] = <<>> /\ final[r] = Unset
    BY <1>0, <1>8 DEF Opens, UnregisteredIsUntouched, TrailSoFar
  <2> QED BY <1>8, <2>1 DEF Opens, Registered, UntoldDraft
<1>9. CASE PassesThrough(r)
  BY <1>0, <1>9 DEF PassesThrough, Registered, StreamUntilAnswered
<1>10. CASE TakesDeny(r)
  <2>1. /\ r \in pending /\ ~held[r] /\ \A t \in Threads : ~Completing(t, r)
    BY <1>0, <1>10 DEF TakesDeny, CountIsOutstanding
  <2>2. trail'[r] = trail[r] /\ held'[r] = held[r]
    BY <1>10 DEF TakesDeny, EntryStays
  <2>3. CASE AnswerUntouched(r)
    BY <1>2, <1>5, <1>6, <2>1, <2>2, <2>3 DEF AnswerUntouched, TrailSoFar
  <2>4. ASSUME NEW src, Told(r, "deny", src) PROVE Fine(r)
    <3>1. stream'[r] = FALSE
      BY <2>4 DEF Told
    <3>2. CASE ~stream[r]
      BY <1>2, <1>5, <2>1, <2>2, <2>4, <3>1, <3>2 DEF Told, TrailSoFar
    <3>3. CASE stream[r]
      <4>1. final[r] = Unset
        BY <1>0, <2>1, <3>3, NothingSaidYet, RefusesCompleting
      <4>2. final'[r] = [verdict |-> "deny", source |-> src]
        BY <2>4, <3>3, <4>1, SetFinalOnce DEF Told
      <4>3. final'[r].verdict = "deny"
        BY <4>2
      <4> QED BY <1>2, <1>5, <2>1, <2>2, <3>1, <4>3 DEF TrailSoFar
    <3> QED BY <1>3, <3>2, <3>3
  <2> QED BY <1>10, <2>3, <2>4 DEF TakesDeny
<1>11. CASE TakesAsk(r)
  <2>1. r \in pending /\ ~held[r]
    BY <1>0, <1>11 DEF TakesAsk, CountIsOutstanding
  <2> QED BY <1>2, <1>5, <1>6, <1>11, <2>1 DEF TakesAsk, EntryStays, AnswerUntouched, TrailSoFar
<1>12. CASE StoresReview(r)
  BY <1>2, <1>3, <1>4, <1>5, <1>6, <1>12 DEF StoresReview, EntryStays, AnswerUntouched, TrailSoFar
<1>13. CASE IsHeld(r)
  <2>1. PICK t \in Threads : /\ Completing(t, r) /\ work[t].pc = "holding"
                             /\ held'[r] = TRUE \/ Refuses(t, r)'
    BY <1>13 DEF IsHeld
  <2>2. /\ r \in pending /\ stream[r] /\ stream'[r] /\ staged[r].verdict = "ask"
    BY <1>13 DEF IsHeld, QualifiesForHold
  <2>3. ~held[r] /\ \A u \in Threads : ~Refuses(u, r)
    BY <1>0, <2>1, <2>2, CompletingFacts, RefusesCompleting DEF Refuses
  <2>4. final[r] = Unset /\ trail[r] = <<>>
    BY <1>0, <2>2, <2>3, NothingSaidYet
  <2>5. final'[r].verdict = "ask" /\ final'[r].source \in {"falco", "llm"}
    <3>1. staged[r].source \in {"falco", "llm"}
      BY <2>2, UnsetVerdict DEF SourcesAreTrue
    <3> QED BY <1>13, <2>2, <2>4, <3>1, SetFinalOnce DEF IsHeld
  <2>6. HoldsAsks
    BY <2>1 DEF CompletersKnowSignoff
  <2>7. CASE held'[r] = TRUE /\ trail'[r] = Append(trail[r], RequestRecord(final'[r], TRUE, hits[r], llm[r]))
    <3>1. trail'[r] = Append(<<>>, RequestRecord(final'[r], TRUE, hits[r], llm[r]))
      BY <2>4, <2>7
    <3>2. /\ Len(trail'[r]) = 1
          /\ trail'[r][1] = RequestRecord(final'[r], TRUE, hits[r], llm[r])
      BY <3>1, FirstRecord
    <3>3. SealedAsk(r)'
      BY <2>5, <3>2 DEF SealedAsk, RequestRecord
    <3> QED BY <1>2, <1>3, <1>5, <2>2, <2>6, <2>7, <3>3
  <2>8. CASE held'[r] = held[r] /\ trail'[r] = trail[r]
    <3>1. UntoldDraft(r)'
      BY <2>1, <2>3, <2>8 DEF UntoldDraft
    <3> QED BY <1>2, <1>5, <2>2, <2>3, <2>4, <2>8, <3>1
  <2> QED BY <1>13, <2>7, <2>8 DEF IsHeld
<1>14. ASSUME r \in pending, r \notin pending' PROVE Fine(r)
  BY <1>2, <1>5, <1>14
<1> QED BY <1>1, <1>7, <1>8, <1>9, <1>10, <1>11, <1>12, <1>13, <1>14
        DEF RequestMoves, IsRefused, IsSealed, IsResolved, IsReaped, Leaves

(***************************************************************************)
(* The records.                                                            *)
(***************************************************************************)
LEMMA AppendKeepsFirst ==
  ASSUME NEW S, NEW s \in Seq(S), s # <<>>, NEW e
  PROVE  Append(s, e)[1] = s[1] /\ Append(s, e) # <<>>
         /\ (Len(s) = 1 => Len(Append(s, e)) = 2 /\ Append(s, e)[2] = e)
<1>1. Len(s) \in Nat /\ Len(s) # 0
  OBVIOUS
<1>2. 1 \in 1..Len(s)
  BY <1>1
<1>3. /\ Len(Append(s, e)) = Len(s) + 1
      /\ Append(s, e)[1] = s[1]
      /\ Append(s, e)[Len(s) + 1] = e
  BY <1>2
<1> QED BY <1>1, <1>3

\* The sign-off record, of the operator or of the reaper, comes after the sealed ask.
LEMMA HeldHasRecord ==
  ASSUME TypeOK, CountIsOutstanding, TrailSoFar, NEW r \in Requests, r \in pending, held[r]
  PROVE  /\ stream[r] /\ HoldsAsks /\ SealedAsk(r) /\ trail[r] # <<>>
BY DEF TrailSoFar, SealedAsk

\* A record that blames a source shows that source's verdict.
Blames(rec) ==
  /\ rec.final.source \in {"falco", "broker"} =>
       [source |-> rec.final.source, kind |-> rec.final.verdict] \in rec.hits
  /\ rec.final.source = "llm" => rec.llm = rec.final.verdict

LEMMA RecordsBlame ==
  RecordExplainsVerdict <=> \A r \in Requests : trail[r] # <<>> => Blames(trail[r][1])
BY DEF RecordExplainsVerdict, Blames

LEMMA ExplainedBlames ==
  ASSUME NEW f, NEW a, NEW h, NEW l, Explained(f, h, l)
  PROVE  Blames(RequestRecord(f, a, h, l))
BY DEF Explained, Blames, RequestRecord

LEMMA RequestRecordAppended ==
  ASSUME NEW r \in Requests, TypeOK, trail[r] # <<>> => Blames(trail[r][1]),
         NEW rec, Blames(rec), Appended(r, rec), trail'[r] # <<>>
  PROVE  Blames(trail'[r][1])
<1>1. trail[r] \in Seq(Records)
  BY DEF TypeOK
<1>2. CASE trail'[r] = trail[r]
  BY <1>2
<1>3. CASE trail'[r] = Append(trail[r], rec) /\ trail[r] # <<>>
  BY <1>1, <1>3, AppendKeepsFirst
<1>4. CASE trail'[r] = Append(trail[r], rec) /\ trail[r] = <<>>
  BY <1>4, FirstRecord
<1> QED BY <1>2, <1>3, <1>4 DEF Appended

LEMMA SignoffRecordAppended ==
  ASSUME NEW r \in Requests, TypeOK, trail[r] # <<>>, Blames(trail[r][1]),
         NEW rec, Appended(r, rec)
  PROVE  Blames(trail'[r][1])
<1>1. trail[r] \in Seq(Records)
  BY DEF TypeOK
<1> QED BY <1>1, AppendKeepsFirst DEF Appended

LEMMA DecisionExplained ==
  ASSUME NEW r \in Requests, r \in pending, SourcesAreTrue
  PROVE  Explained([verdict |-> Decision(r).verdict, source |-> Decision(r).source],
                   hits[r], llm[r])
BY DEF Decision, SourcesAreTrue, Explained

LEMMA RecordsNext ==
  ASSUME CoreInv, SourcesAreTrue, TrailSoFar, RecordExplainsVerdict, [Next]_vars
  PROVE  RecordExplainsVerdict'
<1>0. /\ TypeOK /\ SignalsHaveOneBringer /\ StreamUntilAnswered /\ UnregisteredIsUntouched
      /\ CountIsOutstanding /\ ApprovalIsSigned
  BY DEF CoreInv
<1> SUFFICES ASSUME NEW r \in Requests, trail'[r] # <<>> PROVE Blames(trail'[r][1])
  BY DEF RecordExplainsVerdict, Blames
<1>1. RequestMoves(r)
  BY <1>0, RequestStep
<1>2. trail[r] # <<>> => Blames(trail[r][1])
  BY RecordsBlame
<1>3. CASE trail'[r] = trail[r]
  BY <1>2, <1>3
<1>4. CASE PassesThrough(r)
  <2>1. final'[r] = [verdict |-> "defer", source |-> "passthrough"]
    BY <1>4, SetFinalOnce DEF PassesThrough, TrailSoFar
  <2>2. Explained(final'[r], hits[r], llm[r])
    BY <2>1 DEF Explained
  <2> QED BY <1>0, <1>2, <1>4, <2>2, ExplainedBlames, RequestRecordAppended DEF PassesThrough
<1>5. CASE IsHeld(r)
  <2>1. /\ Explained(final[r], hits[r], llm[r])
        /\ Explained([verdict |-> staged[r].verdict, source |-> staged[r].source],
                     hits[r], llm[r])
    BY <1>5 DEF IsHeld, SourcesAreTrue, Explained
  <2>2. Explained(final'[r], hits[r], llm[r])
    BY <1>5, <2>1, SetFinalExplained DEF IsHeld
  <2>3. Appended(r, RequestRecord(final'[r], TRUE, hits[r], llm[r]))
    BY <1>5 DEF IsHeld, Appended
  <2> QED BY <1>0, <1>2, <2>2, <2>3, ExplainedBlames, RequestRecordAppended
<1>6. CASE IsSealed(r)
  <2>1. r \in pending /\ Explained(final[r], hits[r], llm[r])
    BY <1>6 DEF IsSealed, Leaves, SourcesAreTrue
  <2>2. Explained(final'[r], hits[r], llm[r])
    BY <1>6, <2>1, DecisionExplained, SetFinalExplained DEF IsSealed, Leaves, Told
  <2> QED BY <1>0, <1>2, <1>6, <2>2, ExplainedBlames, RequestRecordAppended DEF IsSealed
<1>7. CASE IsResolved(r)
  <2>1. trail[r] # <<>>
    BY <1>0, <1>7, HeldHasRecord DEF IsResolved, Leaves, ApprovalIsSigned
  <2> QED BY <1>0, <1>2, <1>7, <2>1, SignoffRecordAppended DEF IsResolved
<1>8. CASE held[r] /\ Leaves(r, "deny", "signoff") /\ Appended(r, SignoffRecord("expired"))
  <2>1. trail[r] # <<>>
    BY <1>0, <1>8, HeldHasRecord DEF Leaves
  <2> QED BY <1>0, <1>2, <1>8, <2>1, SignoffRecordAppended
<1>9. CASE /\ Leaves(r, "deny", "reaper")
           /\ Appended(r, RequestRecord(final'[r], FALSE, hits[r], llm[r]))
  <2>1. r \in pending /\ Explained(final[r], hits[r], llm[r])
    BY <1>9 DEF Leaves, SourcesAreTrue
  <2>2. Explained([verdict |-> "deny", source |-> "reaper"], hits[r], llm[r])
    BY DEF Explained
  <2>3. Explained(final'[r], hits[r], llm[r])
    BY <1>9, <2>1, <2>2, SetFinalExplained DEF Leaves, Told
  <2> QED BY <1>0, <1>2, <1>9, <2>3, ExplainedBlames, RequestRecordAppended
<1> QED BY <1>1, <1>3, <1>4, <1>5, <1>6, <1>7, <1>8, <1>9
        DEF RequestMoves, Untouched, EntryStays, Opens, TakesDeny, TakesAsk, StoresReview,
            IsRefused, IsReaped

(***************************************************************************)
(* The trail and the wire, when no append fails.                           *)
(***************************************************************************)
LEMMA SealedAwaits ==
  ASSUME NEW s \in Seq(Records), Len(s) = 1, s[1].kind = "request", s[1].awaiting
  PROVE  s[1].awaiting = TRUE
<1>1. s[1] \in Records
  OBVIOUS
<1>2. s[1] \in RequestRecords
  BY <1>1 DEF Records, SignoffRecords
<1> QED BY <1>2 DEF RequestRecords

EntriesAgree == \A r \in pending : TrailAgrees(r)

LEMMA EntryAgrees == TypeOK /\ TrailSoFar => EntriesAgree
<1> SUFFICES ASSUME TypeOK, TrailSoFar, NEW r \in pending PROVE TrailAgrees(r)
  BY DEF EntriesAgree
<1>0. r \in Requests
  BY DEF TypeOK
<1>1. CASE ~held[r]
  BY <1>0, <1>1 DEF TrailSoFar, TrailAgrees
<1>2. CASE held[r]
  <2>1. SealedAsk(r) /\ signoff /\ trail[r] \in Seq(Records)
    BY <1>0, <1>2 DEF TrailSoFar, HoldsAsks, TypeOK
  <2>2. trail[r][1].awaiting = TRUE
    BY <2>1, SealedAwaits DEF SealedAsk
  <2> QED BY <2>1, <2>2 DEF SealedAsk, TrailAgrees
<1> QED BY <1>1, <1>2

\* The request record that closes a request names what is on the wire.
LEMMA RequestRecordCloses ==
  ASSUME NEW r \in Requests, NEW rec, trail'[r] = Append(<<>>, rec),
         rec.kind = "request", rec.awaiting = FALSE,
         wire'[r] # <<>>, rec.final.verdict = wire'[r][1],
         ~(wire'[r][1] = "ask" /\ signoff')
  PROVE  TrailAgrees(r)' /\ Answered(r)' /\ trail'[r] # <<>> /\ ~trail'[r][1].awaiting
<1>1. Len(trail'[r]) = 1 /\ trail'[r] # <<>> /\ trail'[r][1] = rec
  BY FirstRecord
<1> QED BY <1>1 DEF TrailAgrees, Answered, Answer

\* The sign-off record that closes a held one does too.
LEMMA SignoffRecordCloses ==
  ASSUME TypeOK, NEW r \in Requests, SealedAsk(r), signoff', NEW d,
         trail'[r] = Append(trail[r], SignoffRecord(d)),
         wire'[r] # <<>>, wire'[r][1] = (IF d = "approve" THEN "allow" ELSE "deny")
  PROVE  TrailAgrees(r)' /\ Answered(r)' /\ trail'[r] # <<>> /\ Len(trail'[r]) = 2
<1>1. trail[r] \in Seq(Records) /\ trail[r] # <<>>
  BY DEF TypeOK, SealedAsk
<1>2. trail[r][1].awaiting = TRUE
  BY <1>1, SealedAwaits DEF SealedAsk
<1>3. /\ trail'[r][1] = trail[r][1] /\ trail'[r] # <<>>
      /\ Len(trail'[r]) = 2 /\ trail'[r][2] = SignoffRecord(d)
  BY <1>1, AppendKeepsFirst DEF SealedAsk
<1>4. /\ trail'[r][1].kind = "request"
      /\ trail'[r][1].awaiting = TRUE
      /\ trail'[r][1].final.verdict = "ask"
  BY <1>2, <1>3 DEF SealedAsk
<1>5. trail'[r][1].awaiting = (trail'[r][1].final.verdict = "ask" /\ signoff')
  BY <1>4
<1>6. trail'[r][2].kind = "signoff" /\ Resolution(trail'[r][2]) = wire'[r][1]
  BY <1>3 DEF SignoffRecord, Resolution
<1> QED BY <1>3, <1>4, <1>5, <1>6 DEF TrailAgrees, Answered, Answer

\* Whoever finds the stream writes the first verdict; nobody else writes one.
LEMMA ToldOnce ==
  ASSUME StreamUntilAnswered, NEW r \in Requests, r \in pending, NEW v, NEW src, Told(r, v, src)
  PROVE  /\ stream[r] => wire'[r] # <<>> /\ wire'[r][1] = v
         /\ ~stream[r] => wire'[r] # <<>> /\ wire'[r][1] = "deny"
<1>1. CASE stream[r]
  BY <1>1 DEF Told, StreamUntilAnswered
<1>2. CASE ~stream[r]
  BY <1>2 DEF Told, StreamUntilAnswered
<1> QED BY <1>1, <1>2

LEMMA SealingKnows ==
  ASSUME TypeOK, CompletersKnowSignoff, NEW r \in Requests, r \in pending, stream[r], signoff,
         NEW t \in Threads, work[t].id = r, work[t].pc = "sealing"
  PROVE  Decision(r).verdict # "ask"
BY DEF CompletersKnowSignoff, HoldsAsks, QualifiesForHold, Decision, TypeOK

Closed(r) ==
  TrailAgrees(r) /\ Answered(r) /\ trail[r] # <<>> /\ (trail[r][1].awaiting => Len(trail[r]) = 2)

\* However an entry leaves the map, its trail closes with what it was told.
LEMMA LeavesClosed ==
  ASSUME CoreInv, CompletersKnowSignoff, TrailSoFar, [Next]_vars, ~AuditCanFail,
         NEW r \in Requests, IsSealed(r) \/ IsResolved(r) \/ IsReaped(r)
  PROVE  Closed(r)'
<1>0. /\ TypeOK /\ StreamUntilAnswered /\ CountIsOutstanding /\ ApprovalIsSigned
  BY DEF CoreInv
<1>1. signoff' = signoff
  BY ConfStays DEF conf
<1>2. \A t \in Threads : ~Refuses(t, r)
  BY DEF CompletersKnowSignoff, Refuses
<1>3. ASSUME r \in pending, ~held[r], NEW v, NEW src, Told(r, v, src),
             trail'[r] = Append(trail[r], RequestRecord(final'[r], FALSE, hits[r], llm[r])),
             stream[r] => ~(v = "ask" /\ signoff)
      PROVE  Closed(r)'
  <2>1. trail[r] = <<>>
    BY <1>3 DEF TrailSoFar
  <2>2. final'[r].verdict = wire'[r][1] /\ wire'[r] # <<>> /\ ~(wire'[r][1] = "ask" /\ signoff')
    <3>1. CASE stream[r]
      <4>1. final[r] = Unset
        BY <1>0, <1>2, <1>3, <3>1, NothingSaidYet
      <4>2. final'[r].verdict = v
        BY <1>3, <3>1, <4>1, SetFinalOnce DEF Told
      <4> QED BY <1>0, <1>1, <1>3, <3>1, <4>2, ToldOnce
    <3>2. CASE ~stream[r]
      <4>1. final'[r] = final[r] /\ final[r].verdict = "deny"
        BY <1>3, <3>2 DEF Told, TrailSoFar
      <4> QED BY <1>0, <1>3, <3>2, <4>1, ToldOnce
    <3> QED BY <3>1, <3>2
  <2> DEFINE rec == RequestRecord(final'[r], FALSE, hits[r], llm[r])
  <2>3. rec.kind = "request" /\ rec.awaiting = FALSE /\ rec.final = final'[r]
    BY DEF RequestRecord
  <2>4. trail'[r] = Append(<<>>, rec)
    BY <1>3, <2>1
  <2> HIDE DEF rec
  <2> QED BY <2>2, <2>3, <2>4, RequestRecordCloses DEF Closed
<1>4. ASSUME r \in pending, held[r], NEW v, Told(r, v, "signoff"), NEW d,
             trail'[r] = Append(trail[r], SignoffRecord(d)),
             v = (IF d = "approve" THEN "allow" ELSE "deny")
      PROVE  Closed(r)'
  <2>1. stream[r] /\ SealedAsk(r) /\ signoff'
    BY <1>0, <1>1, <1>4, HeldHasRecord DEF HoldsAsks
  <2>2. wire'[r] # <<>> /\ wire'[r][1] = v
    BY <1>0, <1>4, <2>1, ToldOnce
  <2> QED BY <1>0, <1>4, <2>1, <2>2, SignoffRecordCloses DEF Closed
<1>5. CASE IsSealed(r)
  <2>1. PICK t \in Threads : Completing(t, r) /\ work[t].pc = "sealing"
    BY <1>5 DEF IsSealed
  <2>2. r \in pending /\ Told(r, Decision(r).verdict, Decision(r).source)
    BY <1>5 DEF IsSealed, Leaves
  <2>3. ~held[r]
    BY <1>0, <2>1, <2>2, CompletingFacts
  <2>4. stream[r] => ~(Decision(r).verdict = "ask" /\ signoff)
    BY <1>0, <2>1, <2>2, SealingKnows DEF Completing
  <2> QED BY <1>3, <1>5, <2>2, <2>3, <2>4 DEF IsSealed, Appended
<1>6. CASE IsResolved(r)
  <2>1. r \in pending /\ Told(r, work[Sock].verdict, "signoff") /\ held[r]
    BY <1>0, <1>6 DEF IsResolved, Leaves, ApprovalIsSigned
  <2>2. work[Sock].verdict \in {"allow", "deny"}
    <3>1. work[Sock] \in Jobs
      BY <1>0, ThreadsFacts DEF TypeOK
    <3> QED BY <1>6, <3>1, SignoffJob DEF IsResolved
  <2> QED BY <1>4, <1>6, <2>1, <2>2 DEF IsResolved, Appended
<1>7. CASE IsReaped(r)
  BY <1>3, <1>4, <1>7 DEF IsReaped, Leaves, Appended
<1> QED BY <1>5, <1>6, <1>7

LEMMA AgreesNext ==
  ASSUME CoreInv, ReviewIsStored, SourcesAreTrue, CompletersKnowSignoff, TrailSoFar,
         ~AuditCanFail, TrailAgreesWithWire, GoneIsRecorded, [Next]_vars
  PROVE  TrailAgreesWithWire' /\ GoneIsRecorded'
<1>0. /\ TypeOK /\ SignalsHaveOneBringer /\ StreamUntilAnswered /\ UnregisteredIsUntouched
      /\ CountIsOutstanding
  BY DEF CoreInv
<1> SUFFICES ASSUME NEW r \in Requests
             PROVE  TrailAgrees(r)' /\ (Registered(r)' /\ r \notin pending' => Closed(r)')
  BY DEF TrailAgreesWithWire, GoneIsRecorded, Closed
<1>1. RequestMoves(r)
  BY <1>0, RequestStep
<1>2. CASE r \in pending'
  <2>1. TypeOK' /\ TrailSoFar'
    BY <1>0, TypeNext, TrailNext
  <2>2. EntriesAgree'
    BY <2>1, EntryAgrees, PTL
  <2> QED BY <1>2, <2>2 DEF EntriesAgree
<1>3. CASE Untouched(r)
  <2>1. /\ trail'[r] = trail[r] /\ wire'[r] = wire[r] /\ expected'[r] = expected[r]
        /\ r \in pending <=> r \in pending'
    BY <1>3 DEF Untouched, EntryStays, AnswerUntouched
  <2>2. signoff' = signoff
    BY ConfStays DEF conf
  <2>3. TrailAgrees(r)' = TrailAgrees(r) /\ Closed(r)' = Closed(r)
    BY <2>1, <2>2 DEF TrailAgrees, Closed, Answered, Answer
  <2>4. TrailAgrees(r) /\ (Registered(r) /\ r \notin pending => Closed(r))
    BY DEF TrailAgreesWithWire, GoneIsRecorded, Closed
  <2> QED BY <2>1, <2>3, <2>4 DEF Registered
<1>4. CASE PassesThrough(r)
  <2>1. final'[r] = [verdict |-> "defer", source |-> "passthrough"] /\ trail[r] = <<>>
    BY <1>4, SetFinalOnce DEF PassesThrough, TrailSoFar
  <2>2. wire'[r] # <<>> /\ wire'[r][1] = "defer"
    BY <1>0, <1>4 DEF PassesThrough, StreamUntilAnswered
  <2> DEFINE rec == RequestRecord(final'[r], FALSE, hits[r], llm[r])
  <2>3. rec.kind = "request" /\ rec.awaiting = FALSE /\ rec.final.verdict = "defer"
    BY <2>1 DEF RequestRecord
  <2>4. trail'[r] = Append(<<>>, rec)
    BY <1>4, <2>1 DEF PassesThrough, Appended
  <2> HIDE DEF rec
  <2> QED BY <2>2, <2>3, <2>4, RequestRecordCloses DEF Closed
<1>5. CASE IsRefused(r)
  BY <1>5 DEF IsRefused, Refuses, CompletersKnowSignoff
<1>6. CASE IsSealed(r) \/ IsResolved(r) \/ IsReaped(r)
  BY <1>6, LeavesClosed DEF Closed
<1> QED BY <1>1, <1>2, <1>3, <1>4, <1>5, <1>6
        DEF RequestMoves, Opens, TakesDeny, TakesAsk, StoresReview, IsHeld, EntryStays

(***************************************************************************)
(* The answers.                                                            *)
(***************************************************************************)
LEMMA LenientNext ==
  ASSUME CoreInv, ReviewIsStored, LenientAnswerIsComplete, [Next]_vars
  PROVE  LenientAnswerIsComplete'
<1>0. /\ TypeOK /\ SignalsHaveOneBringer /\ StreamUntilAnswered /\ UnregisteredIsUntouched
      /\ CountIsOutstanding /\ ApprovalIsSigned
  BY DEF CoreInv
<1> SUFFICES ASSUME mode' # "passthrough", NEW r \in Requests,
                    wire'[r] # <<>>, wire'[r][1] # "deny"
             PROVE  /\ outstanding'[r] = {}
                    /\ Llm \in expected'[r] => llm'[r] # "none"
  BY DEF LenientAnswerIsComplete, Answered, Answer
<1>1. mode # "passthrough"
  BY ModeStays
<1>2. ASSUME Registered(r), outstanding[r] = {}, llm'[r] = llm[r],
             Llm \in expected[r] => llm[r] # "none"
      PROVE  /\ outstanding'[r] = {}
             /\ Llm \in expected'[r] => llm'[r] # "none"
  BY <1>0, <1>2, PlanStep DEF PlanMoves, Registers
<1>3. CASE WireStays(r)
  <2>1. wire[r] # <<>> /\ wire[r][1] # "deny" /\ r \notin pending /\ Registered(r)
    BY <1>0, <1>3 DEF WireStays, StreamUntilAnswered
  <2>2. llm'[r] = llm[r]
    BY <1>0, <2>1, OnlyEntriesChange
  <2> QED BY <1>1, <1>2, <2>1, <2>2 DEF LenientAnswerIsComplete, Answered, Answer
<1>4. CASE r \in pending /\ stream[r] /\ GivesAnswer(r)
  <2>1. \/ \E t \in Threads : work[t].id = r /\ work[t].pc = "sealing"
        \/ work[Sock].pc = "resolving" /\ work[Sock].id = r
    BY <1>4 DEF GivesAnswer
  <2>2. outstanding[r] = {}
    BY <1>0, <1>4, <2>1 DEF CountIsOutstanding, ApprovalIsSigned, Completing
  <2>3. Registered(r) /\ llm'[r] = llm[r]
    BY <1>0, <1>4 DEF StreamUntilAnswered, GivesAnswer
  <2>4. Llm \in expected[r] => llm[r] # "none"
    BY <1>4, <2>2 DEF ReviewIsStored, HasResponded
  <2> QED BY <1>2, <2>2, <2>3, <2>4
<1> QED BY <1>0, <1>1, <1>3, <1>4, AnswerStep

LEMMA SignoffKeepsNext ==
  ASSUME CoreInv, CompletersKnowSignoff, SignoffKeepsAskFromAgent, [Next]_vars
  PROVE  SignoffKeepsAskFromAgent'
<1>0. /\ TypeOK /\ SignalsHaveOneBringer /\ StreamUntilAnswered
  BY DEF CoreInv
<1> SUFFICES ASSUME signoff', NEW r \in Requests, wire'[r] # <<>>
             PROVE  wire'[r][1] # "ask"
  BY DEF SignoffKeepsAskFromAgent, Answered, Answer
<1>1. signoff
  BY ConfStays DEF conf
<1>2. CASE WireStays(r)
  BY <1>1, <1>2 DEF WireStays, SignoffKeepsAskFromAgent, Answered, Answer
<1>3. CASE mode = "passthrough"
  <2>1. Untouched(r) \/ Opens(r) \/ PassesThrough(r)
    BY <1>0, <1>3, RequestStep
    DEF RequestMoves, TakesDeny, TakesAsk, StoresReview, IsHeld, IsRefused, IsSealed,
        IsResolved, IsReaped, Leaves, StreamUntilAnswered
  <2>2. PassesThrough(r) => wire'[r][1] = "defer"
    BY <1>0 DEF PassesThrough, StreamUntilAnswered
  <2> QED BY <1>2, <2>1, <2>2 DEF Untouched, AnswerUntouched, Opens, WireStays
<1>4. CASE r \in pending /\ stream[r] /\ GivesAnswer(r)
  <2>1. CASE wire'[r] = <<"deny">>
    BY <2>1
  <2>2. CASE /\ wire'[r] = <<Decision(r).verdict>>
             /\ \E t \in Threads : work[t].id = r /\ work[t].pc = "sealing"
    BY <1>0, <1>1, <1>4, <2>2, SealingKnows
  <2>3. CASE wire'[r] = <<work[Sock].verdict>> /\ work[Sock].pc = "resolving"
    <3>1. work[Sock].verdict \in {"allow", "deny"}
      BY <1>0, <2>3, ThreadsFacts, SignoffJob DEF TypeOK
    <3> QED BY <2>3, <3>1
  <2> QED BY <1>4, <2>1, <2>2, <2>3 DEF GivesAnswer
<1> QED BY <1>0, <1>2, <1>3, <1>4, AnswerStep

(***************************************************************************)
(* The invariant.                                                          *)
(***************************************************************************)
LEMMA NothingCompletes ==
  ASSUME Init, NEW t \in Threads
  PROVE  /\ work[t].pc = "idle" /\ work[t].id = None
         /\ \A r \in Requests : ~Completing(t, r)
BY IdleJob DEF Init, Completing

LEMMA InvInit == Init => IInv
<1> SUFFICES ASSUME Init PROVE IInv
  OBVIOUS
<1>1. CoreInv
  BY CoreInit
<1>2. /\ \A t \in Threads : work[t] = Idle
      /\ \A r \in Requests : /\ expected[r] = {} /\ unclaimed[r] = {} /\ llm[r] = "none"
                             /\ wire[r] = <<>> /\ trail[r] = <<>>
                             /\ final[r] = Unset /\ staged[r] = Unset
      /\ pending = {}
  BY DEF Init
<1>3. ReviewIsStored
  <2>1. \A t \in Threads, r \in Requests : work[t].pc = "idle" /\ work[t].id # r
    BY <1>2, IdleJob, ConstantsAssumption
  <2>2. \A r \in Requests : Llm \notin unclaimed[r] /\ Llm \notin expected[r]
    BY <1>2
  <2>3. \A t \in Threads : work[t].pc = "idle"
    BY <1>2, IdleJob
  <2> QED BY <2>1, <2>2, <2>3, Zenon DEF ReviewIsStored
<1>4. SourcesAreTrue /\ NoOrphan
  BY <1>2 DEF SourcesAreTrue, NoOrphan
<1>5. CompletersKnowSignoff
  BY <1>2, IdleJob DEF CompletersKnowSignoff
<1>6. TrailSoFar
  BY <1>2 DEF TrailSoFar
<1>7. LenientAnswerIsComplete /\ SignoffKeepsAskFromAgent
  BY <1>2 DEF LenientAnswerIsComplete, SignoffKeepsAskFromAgent, Answered
<1>8. RecordExplainsVerdict /\ TrailAgreesWithWire /\ GoneIsRecorded
  BY <1>2 DEF RecordExplainsVerdict, TrailAgreesWithWire, TrailAgrees, GoneIsRecorded, Registered
<1> QED BY <1>1, <1>3, <1>4, <1>5, <1>6, <1>7, <1>8 DEF IInv

LEMMA InvNext == IInv /\ [Next]_vars => IInv'
<1> SUFFICES ASSUME IInv, [Next]_vars PROVE IInv'
  OBVIOUS
<1>1. /\ CoreInv /\ ReviewIsStored /\ SourcesAreTrue /\ CompletersKnowSignoff /\ TrailSoFar
      /\ NoOrphan /\ LenientAnswerIsComplete /\ SignoffKeepsAskFromAgent
      /\ RecordExplainsVerdict
  BY DEF IInv
<1>2. /\ TypeOK /\ SignalsHaveOneBringer /\ StreamUntilAnswered /\ UnregisteredIsUntouched
      /\ CountIsOutstanding /\ StagedIsAsk
  BY <1>1 DEF CoreInv
<1>3. CoreInv' /\ ReviewIsStored'
  BY <1>1, <1>2, CoreNext, ReviewNext
<1>4. SourcesAreTrue' /\ CompletersKnowSignoff' /\ TrailSoFar'
  BY <1>1, <1>2, SourcesNext, CompletersNext, TrailNext
<1>5. NoOrphan' /\ LenientAnswerIsComplete' /\ SignoffKeepsAskFromAgent'
  BY <1>1, <1>2, NoOrphanNext, LenientNext, SignoffKeepsNext
<1>6. RecordExplainsVerdict'
  BY <1>1, RecordsNext
<1>7. ~AuditCanFail => TrailAgreesWithWire' /\ GoneIsRecorded'
  BY <1>1, AgreesNext DEF IInv
<1> QED BY <1>3, <1>4, <1>5, <1>6, <1>7 DEF IInv

(* Every reachable state of the broker satisfies IInv: beside CoreInv, what is
   in a draft and in the trail of an entry at every point of its life, and what
   each thread on its way to complete a request knows of the sign-off.       *)
THEOREM InvariantHolds == Spec => []IInv
BY InvInit, InvNext, PTL DEF Spec

(* Anything but a deny is said only when every synthetic event of the request
   has been evaluated and the LLM monitor, if it takes part, has given its
   verdict (broker.rs signal_complete, resolve_signoff), for any number of
   events and in any order of alerts, reviews, full queues and time-outs.    *)
THEOREM LenientComplete == Spec => []LenientAnswerIsComplete
<1>1. IInv => LenientAnswerIsComplete
  BY DEF IInv
<1> QED BY <1>1, InvInit, InvNext, PTL DEF Spec

(* With sign-off on no interceptor is ever sent ask (broker.rs try_hold, and the
   refusal of an ask whose record cannot be written): what would be asked of
   the agent's own user is held for the operator, or denied.                 *)
THEOREM AskStaysWithOperator == Spec => []SignoffKeepsAskFromAgent
<1>1. IInv => SignoffKeepsAskFromAgent
  BY DEF IInv
<1> QED BY <1>1, InvInit, InvNext, PTL DEF Spec

LEMMA HeldIsSealed == IInv => HeldIsSealedAsk
<1> SUFFICES ASSUME IInv, NEW r \in pending, held[r]
             PROVE  /\ stream[r] /\ wire[r] = <<>> /\ outstanding[r] = {}
                    /\ Len(trail[r]) = 1 /\ trail[r][1].awaiting
                    /\ trail[r][1].final.verdict = "ask"
  BY DEF HeldIsSealedAsk, Answered
<1>1. r \in Requests
  BY DEF IInv, CoreInv, TypeOK
<1>2. stream[r] /\ SealedAsk(r)
  BY <1>1 DEF IInv, TrailSoFar
<1>3. wire[r] = <<>>
  BY <1>1, <1>2 DEF IInv, CoreInv, StreamUntilAnswered
<1>4. outstanding[r] = {}
  BY DEF IInv, CoreInv, CountIsOutstanding
<1> QED BY <1>2, <1>3, <1>4 DEF SealedAsk

(* Whichever thread brings the last signal of a request (broker.rs
   signal_complete), the entry is then held for the operator, as an unanswered
   ask whose record is sealed, or some thread is on its way to complete it: no
   entry is left with nobody in charge, and none is held half-made.          *)
THEOREM NoneForgotten == Spec => []ParkedOrCompleted
<1>1. IInv => ParkedOrCompleted
  BY HeldIsSealed DEF ParkedOrCompleted, IInv
<1> QED BY <1>1, InvInit, InvNext, PTL DEF Spec

(* The audit trail is true when no append fails (audit.rs append, called by
   signal_complete, try_hold, resolve_signoff, reap_stale and the passthrough
   path): its final verdict is the one on the wire, a request that awaited
   sign-off has the record that resolved it, and whatever has left the map has
   its record.  That a record blames the source which raised the verdict holds
   even where appends can fail (RecordsExplain).                             *)
THEOREM TrailTrue == ASSUME ~AuditCanFail PROVE Spec => []TrailIsTrue
<1>1. IInv => TrailIsTrue
  BY DEF IInv, TrailIsTrue
<1> QED BY <1>1, InvInit, InvNext, PTL DEF Spec

(* A record that blames Falco, the LLM monitor or the broker itself for its
   verdict shows that source raising that verdict (broker.rs record_hit,
   set_final), whether or not appends to the file can fail.                  *)
THEOREM RecordsExplain == Spec => []RecordExplainsVerdict
<1>1. IInv => RecordExplainsVerdict
  BY DEF IInv
<1> QED BY <1>1, InvInit, InvNext, PTL DEF Spec

(***************************************************************************)
(* The broker implements ToolCallGate: under the mapping of BrokerGate     *)
(* every step of every thread is a step of the gate, or none.              *)
(*                                                                         *)
(* A step of the broker changes the abstract state of one request at most  *)
(* (OneRequest), and what it does to that one is a move of RequestStep; so *)
(* each move is matched with an action of the gate.                        *)
(***************************************************************************)
Same(r) ==
  expected'[r] = expected[r] /\ HitsUntouched(r) /\ wire'[r] = wire[r]

Elsewhere(q) == \A r \in Requests : r # q => Same(r)

LEMMA ApplyDenyElsewhere ==
  ASSUME TypeOK, NEW q \in Requests, NEW src, ApplyDeny(q, src), UNCHANGED expected
  PROVE  Elsewhere(q)
<1>1. CASE UNCHANGED <<draft, stream, wire>>
  BY <1>1 DEF Elsewhere, Same, HitsUntouched, draft
<1>2. CASE /\ RecordHit(q, src, "deny")
           /\ IF mode = "monitor" THEN UNCHANGED <<stream, wire, final>>
              ELSE Respond(q, "deny", src)
  BY <1>2, RecordHitTaken, RespondTold DEF Elsewhere, Same, AnswerUntouched
<1> QED BY <1>1, <1>2 DEF ApplyDeny

LEMMA ApplyAskElsewhere ==
  ASSUME TypeOK, NEW q \in Requests, NEW src, ApplyAsk(q, src), UNCHANGED <<expected, wire>>
  PROVE  Elsewhere(q)
<1>1. CASE UNCHANGED <<hits, llm>>
  BY <1>1 DEF Elsewhere, Same, HitsUntouched
<1>2. CASE RecordHit(q, src, "ask")
  BY <1>2, RecordHitTaken DEF Elsewhere, Same
<1> QED BY <1>1, <1>2 DEF ApplyAsk

\* The response to one request, or none, is all that some steps show of themselves.
LEMMA RespondElsewhere ==
  ASSUME TypeOK, NEW q \in Requests, NEW v, NEW src, Respond(q, v, src) \/ UNCHANGED wire,
         UNCHANGED <<expected, hits, llm>>
  PROVE  Elsewhere(q)
BY RespondTold DEF Elsewhere, Same, HitsUntouched, AnswerUntouched

LEMMA StepOfThread ==
  ASSUME TypeOK, NEW t \in Threads, Completes(t) \/ Reviews(t)
  PROVE  (\A r \in Requests : Same(r)) \/ \E q \in Requests : Elsewhere(q)
<1> USE DEF plan, draft
<1>1. CASE SignalComplete(t) \/ TryHold(t)
  BY <1>1 DEF SignalComplete, TryHold, Same, HitsUntouched
<1>2. CASE DenyUnsealed(t) \/ Seal(t) \/ StoreReview(t) \/ ApplyReview(t)
  <2>1. work[t].pc \in SignalPCs
    BY <1>2 DEF DenyUnsealed, Seal, StoreReview, ApplyReview, SignalPCs
  <2>2. work[t].id \in Requests
    BY <2>1, SignalJob DEF TypeOK
  <2> PICK q \in Requests : q = work[t].id
    BY <2>2
  <2>3. CASE DenyUnsealed(t)
    <3>1. Respond(q, UnsealedVerdict, "signoff") \/ UNCHANGED wire
      BY <2>3 DEF DenyUnsealed
    <3> QED BY <2>3, <3>1, RespondElsewhere DEF DenyUnsealed
  <2>4. CASE Seal(t)
    <3>1. Respond(q, Decision(q).verdict, Decision(q).source) \/ UNCHANGED wire
      BY <2>4 DEF Seal, AnswerAndSeal
    <3> QED BY <2>4, <3>1, RespondElsewhere DEF Seal
  <2>5. CASE StoreReview(t)
    <3>1. UNCHANGED <<expected, hits, wire>>
      BY <2>5 DEF StoreReview
    <3>2. \A r \in Requests : r # q => llm'[r] = llm[r]
      BY <2>5 DEF StoreReview, TypeOK
    <3> QED BY <3>1, <3>2 DEF Elsewhere, Same, HitsUntouched
  <2>6. CASE ApplyReview(t)
    <3>1. UNCHANGED expected
      BY <2>6 DEF ApplyReview
    <3>2. \/ ApplyDeny(q, "llm")
          \/ ApplyAsk(q, "llm") /\ UNCHANGED wire
          \/ UNCHANGED <<draft, wire>>
      BY <2>6 DEF ApplyReview
    <3>3. CASE UNCHANGED <<draft, wire>>
      BY <3>1, <3>3 DEF Elsewhere, Same, HitsUntouched, draft
    <3> QED BY <3>1, <3>2, <3>3, ApplyDenyElsewhere, ApplyAskElsewhere
  <2> QED BY <1>2, <2>3, <2>4, <2>5, <2>6
<1> QED BY <1>1, <1>2 DEF Completes, Reviews

LEMMA OneRequest ==
  ASSUME TypeOK, [Next]_vars
  PROVE  \/ \A r \in Requests : Same(r)
         \/ \E q \in Requests : Elsewhere(q)
<1> DEFINE Fine == \/ \A r \in Requests : Same(r)
                   \/ \E q \in Requests : Elsewhere(q)
<1> USE ThreadsFacts DEF plan
<1>1. ASSUME UNCHANGED <<expected, hits, llm, wire>> PROVE Fine
  BY <1>1 DEF Same, HitsUntouched
<1>2. ASSUME NEW r \in Requests, Register(r) PROVE Fine
  <2>1. \A q \in Requests : q # r => expected'[q] = expected[q]
    BY <1>2 DEF Register, TypeOK
  <2>2. \A q \in Requests : q # r => wire'[q] = wire[q]
    BY <1>2 DEF Register, RegisterPassthrough, RegisterPending, TypeOK
  <2>3. UNCHANGED <<hits, llm>>
    BY <1>2 DEF Register
  <2> QED BY <2>1, <2>2, <2>3 DEF Elsewhere, Same, HitsUntouched
<1>3. ASSUME NEW r \in Requests, NEW D \in SUBSET Events, EventQueueFull(r, D) PROVE Fine
  BY <1>3, ApplyDenyElsewhere DEF EventQueueFull
<1>4. ASSUME DenyAlert \/ AskAlert PROVE Fine
  <2>1. work[Http].id \in Requests
    BY <1>4, SignalJob DEF DenyAlert, AskAlert, SignalPCs, TypeOK
  <2> QED BY <1>4, <2>1, ApplyDenyElsewhere, ApplyAskElsewhere DEF DenyAlert, AskAlert
<1>5. ASSUME SignoffResolves PROVE Fine
  <2>1. work[Sock].id \in Requests
    BY <1>5, SignoffJob DEF SignoffResolves, TypeOK
  <2> PICK q \in Requests : q = work[Sock].id
    BY <2>1
  <2>2. Respond(q, work[Sock].verdict, "signoff") \/ UNCHANGED wire
    BY <1>5 DEF SignoffResolves
  <2> QED BY <1>5, <2>2, RespondElsewhere DEF SignoffResolves
<1>6. ASSUME NEW r \in Requests, Reap(r) PROVE Fine
  <2>1. Respond(r, "deny", "signoff") \/ Respond(r, "deny", "reaper") \/ UNCHANGED wire
    BY <1>6 DEF Reap
  <2> QED BY <1>6, <2>1, RespondElsewhere DEF Reap
<1>7. ASSUME NEW r \in Requests,
             OperatorSigns(r) \/ SignoffDecides(r) \/ TtlElapses(r) \/ HoldTtlElapses(r)
               \/ ReviewQueueFull(r)
               \/ (\E e \in Events : AlertsBegin(r, e))
               \/ (\E w \in LlmWorkers : ReviewBegin(w, r))
      PROVE  Fine
  BY <1>1, <1>7 DEF OperatorSigns, SignoffDecides, TtlElapses, HoldTtlElapses,
                    ReviewQueueFull, AlertsBegin, ReviewBegin, draft
<1>8. ASSUME SeenAlertLost \/ ReapScan \/ UNCHANGED vars PROVE Fine
  BY <1>1, <1>8 DEF SeenAlertLost, ReapScan, vars, draft
<1>9. ASSUME NEW t \in Threads,
             SignalComplete(t) \/ TryHold(t) \/ DenyUnsealed(t) \/ Seal(t)
               \/ StoreReview(t) \/ ApplyReview(t)
      PROVE  Fine
  BY <1>9, StepOfThread DEF Completes, Reviews
<1> HIDE DEF Fine
<1>10. Fine
  BY <1>2, <1>3, <1>4, <1>5, <1>6, <1>7, <1>8, <1>9 DEF Next, Completes, Reviews
<1> QED BY <1>10 DEF Fine

\* The operator signs what is held; no other step adds a signature.
LEMMA OnlyOperatorSigns ==
  ASSUME [Next]_vars
  PROVE  signed' = signed \/ \E r \in Requests : OperatorSigns(r)
<1> USE DEF clock
<1>1. ASSUME NEW r \in Requests,
             Register(r) \/ SignoffDecides(r) \/ TtlElapses(r)
               \/ HoldTtlElapses(r) \/ Reap(r) \/ ReviewQueueFull(r)
               \/ (\E e \in Events : AlertsBegin(r, e))
               \/ (\E D \in SUBSET Events : EventQueueFull(r, D))
               \/ (\E w \in LlmWorkers : ReviewBegin(w, r))
      PROVE  signed' = signed
  BY <1>1 DEF Register, SignoffDecides, TtlElapses, HoldTtlElapses, Reap,
              ReviewQueueFull, AlertsBegin, EventQueueFull, ReviewBegin
<1>2. ASSUME NEW t \in Threads,
             SignalComplete(t) \/ TryHold(t) \/ DenyUnsealed(t) \/ Seal(t)
               \/ StoreReview(t) \/ ApplyReview(t)
      PROVE  signed' = signed
  BY <1>2 DEF SignalComplete, TryHold, DenyUnsealed, Seal, StoreReview, ApplyReview
<1>3. CASE DenyAlert \/ AskAlert \/ SeenAlertLost \/ SignoffResolves \/ ReapScan
             \/ UNCHANGED vars
  BY <1>3 DEF DenyAlert, AskAlert, SeenAlertLost, SignoffResolves, ReapScan, vars
<1> QED BY <1>1, <1>2, <1>3 DEF Next, Completes, Reviews

(***************************************************************************)
(* The actions of the gate, seen from the request they are about.          *)
(***************************************************************************)
LEMMA SameGate ==
  ASSUME NEW r, Same(r)
  PROVE  /\ Registered(r)' = Registered(r)
         /\ Strictest(r)' = Strictest(r)
         /\ FirstAnswer(r)' = FirstAnswer(r)
BY DEF Same, HitsUntouched, Registered, Strictest, Raised, FirstAnswer

LEMMA ElsewhereGate ==
  ASSUME NEW q, Elsewhere(q), NEW r \in Requests, r # q
  PROVE  /\ Registered(r)' = Registered(r)
         /\ Strictest(r)' = Strictest(r)
         /\ FirstAnswer(r)' = FirstAnswer(r)
BY SameGate DEF Elsewhere

LEMMA GateStutters ==
  ASSUME \A r \in Requests : /\ Registered(r)' = Registered(r)
                             /\ Strictest(r)' = Strictest(r)
                             /\ FirstAnswer(r)' = FirstAnswer(r),
         UNCHANGED conf, signed' = signed
  PROVE  UNCHANGED Gate!vars
BY DEF Gate!vars, conf

LEMMA GateSubmits ==
  ASSUME NEW q \in Requests, Elsewhere(q), ~Registered(q), Registered(q)',
         Strictest(q)' = Strictest(q),
         FirstAnswer(q)' = (IF mode = "passthrough" THEN "defer" ELSE FirstAnswer(q)),
         UNCHANGED conf, signed' = signed
  PROVE  Gate!Submit(q)
BY ElsewhereGate DEF Gate!Submit, conf

LEMMA GateSignals ==
  ASSUME NEW q \in Requests, Elsewhere(q), NEW v, Registered(q), Registered(q)',
         FirstAnswer(q) \in {"none", "deny"},
         Strictest(q)' = Escalate(Strictest(q), v),
         \/ FirstAnswer(q)' = FirstAnswer(q)
         \/ v = "deny" /\ FirstAnswer(q)' = "deny",
         UNCHANGED conf, signed' = signed
  PROVE  Gate!Signal(q, v)
<1>1. {r \in Requests : Registered(r)}' = {r \in Requests : Registered(r)}
  BY ElsewhereGate
<1>2. [r \in Requests |-> Strictest(r)]'
        = [[r \in Requests |-> Strictest(r)] EXCEPT ![q] = Escalate(@, v)]
  BY ElsewhereGate
<1>3. FirstAnswer(q)' = FirstAnswer(q) =>
        [r \in Requests |-> FirstAnswer(r)]' = [r \in Requests |-> FirstAnswer(r)]
  BY ElsewhereGate
<1>4. FirstAnswer(q)' = "deny" =>
        [r \in Requests |-> FirstAnswer(r)]'
          = [[r \in Requests |-> FirstAnswer(r)] EXCEPT ![q] = "deny"]
  BY ElsewhereGate
<1> QED BY <1>1, <1>2, <1>3, <1>4 DEF Gate!Signal, Gate!NoVerdict, Gate!Escalate, Gate!Strictness,
                                  Escalate, Strictness, conf

LEMMA GateSigns ==
  ASSUME NEW q \in Requests, \A r \in Requests : Same(r), signoff,
         Strictest(q) = "ask", FirstAnswer(q) = "none",
         UNCHANGED conf, signed' = signed \cup {q}
  PROVE  Gate!Sign(q)
<1>1. /\ {r \in Requests : Registered(r)}' = {r \in Requests : Registered(r)}
      /\ [r \in Requests |-> Strictest(r)]' = [r \in Requests |-> Strictest(r)]
      /\ [r \in Requests |-> FirstAnswer(r)]' = [r \in Requests |-> FirstAnswer(r)]
  BY SameGate
<1> QED BY <1>1 DEF Gate!Sign, Gate!NoVerdict, conf

\* The verdicts the gate permits for q, in the terms of the broker.
Permits(q, v) ==
  \/ v = "deny"
  \/ mode # "guardrails" /\ v = "defer"
  \/ mode = "guardrails" /\ Strictest(q) = "none" /\ v = floor
  \/ mode = "guardrails" /\ Strictest(q) = "ask" /\ ~signoff /\ v = "ask"
  \/ mode = "guardrails" /\ Strictest(q) = "ask" /\ signoff /\ q \in signed /\ v = "allow"

LEMMA GateAnswers ==
  ASSUME NEW q \in Requests, Elsewhere(q), NEW v, Registered(q), Registered(q)',
         FirstAnswer(q) = "none", FirstAnswer(q)' = v, Permits(q, v),
         Strictest(q)' = Strictest(q), UNCHANGED conf, signed' = signed
  PROVE  Gate!AnswerWith(q, v)
<1>1. /\ {r \in Requests : Registered(r)}' = {r \in Requests : Registered(r)}
      /\ [r \in Requests |-> Strictest(r)]' = [r \in Requests |-> Strictest(r)]
      /\ [r \in Requests |-> FirstAnswer(r)]'
           = [[r \in Requests |-> FirstAnswer(r)] EXCEPT ![q] = v]
  BY ElsewhereGate
<1>2. v \in Gate!Permitted(q)
  BY DEF Permits, Gate!Permitted, Gate!AskPermits, Gate!NoVerdict
<1> QED BY <1>1, <1>2 DEF Gate!AnswerWith, Gate!NoVerdict, conf

(***************************************************************************)
(* The moves of the broker, as the gate sees them.                         *)
(***************************************************************************)
LEMMA AnswerOfEntry ==
  ASSUME StreamUntilAnswered, NEW r \in Requests, r \in pending
  PROVE  /\ Registered(r) /\ FirstAnswer(r) \in {"none", "deny"}
         /\ stream[r] => FirstAnswer(r) = "none"
         /\ ~stream[r] => FirstAnswer(r) = "deny"
BY DEF StreamUntilAnswered, FirstAnswer, NoVerdict

LEMMA StrictestIs ==
  ASSUME NEW r
  PROVE  /\ Raised(r, "deny") => Strictest(r) = "deny"
         /\ ~Raised(r, "deny") /\ Raised(r, "ask") => Strictest(r) = "ask"
         /\ ~Raised(r, "deny") /\ ~Raised(r, "ask") => Strictest(r) = "none"
         /\ Raised(r, "deny")' => Strictest(r)' = "deny"
         /\ ~Raised(r, "deny")' /\ Raised(r, "ask")' => Strictest(r)' = "ask"
         /\ ~Raised(r, "deny")' /\ ~Raised(r, "ask")' => Strictest(r)' = "none"
BY DEF Strictest, NoVerdict

LEMMA EscalateIs ==
  /\ \A v \in {"deny", "ask", "none"} : Escalate(v, "deny") = "deny"
  /\ Escalate("deny", "ask") = "deny"
  /\ Escalate("ask", "ask") = "ask"
  /\ Escalate("none", "ask") = "ask"
BY DEF Escalate, Strictness

LEMMA HitRaises ==
  ASSUME NEW r \in Requests, NEW kind \in {"deny", "ask"}, NEW src, HitTaken(r, src, kind),
         src = "llm" => llm[r] = kind
  PROVE  Strictest(r)' = Escalate(Strictest(r), kind)
<1>1. /\ Raised(r, kind)'
      /\ \A k : k # kind => (Raised(r, k)' <=> Raised(r, k))
  <2>1. CASE src = "llm"
    <3>1. llm'[r] = kind /\ llm'[r] = llm[r] /\ hits'[r] = hits[r]
      BY <2>1 DEF HitTaken
    <3> QED BY <3>1 DEF Raised
  <2>2. CASE src # "llm"
    <3> DEFINE h == [source |-> src, kind |-> kind]
    <3>1. h.kind = kind /\ hits'[r] = hits[r] \cup {h} /\ llm'[r] = llm[r]
      BY <2>2 DEF HitTaken
    <3> HIDE DEF h
    <3> QED BY <3>1 DEF Raised
  <2> QED BY <2>1, <2>2
<1>2. Raised(r, "deny") => Raised(r, "deny")'
  BY <1>1
<1>3. CASE kind = "deny"
  BY <1>1, <1>3, StrictestIs, EscalateIs
<1>4. CASE kind = "ask"
  BY <1>1, <1>4, StrictestIs, EscalateIs
<1> QED BY <1>3, <1>4

LEMMA ReviewRaises ==
  ASSUME NEW r \in Requests, NEW v \in LlmVerdicts, llm[r] = "none", llm'[r] = v,
         hits'[r] = hits[r]
  PROVE  IF v \in {"deny", "ask"} THEN Strictest(r)' = Escalate(Strictest(r), v)
         ELSE Strictest(r)' = Strictest(r)
<1>1. v \in {"none", "allow", "ask", "deny"}
  BY DEF LlmVerdicts
<1>2. CASE v \in {"none", "allow"}
  BY <1>2 DEF Strictest, Raised
<1>3. CASE v = "deny"
  <2>1. Raised(r, "deny")'
    BY <1>3 DEF Raised
  <2> QED BY <1>3, <2>1, StrictestIs, EscalateIs
<1>4. CASE v = "ask"
  <2>1. Raised(r, "ask")' /\ (Raised(r, "deny")' <=> Raised(r, "deny"))
    BY <1>4 DEF Raised
  <2> QED BY <1>4, <2>1, StrictestIs, EscalateIs
<1> QED BY <1>1, <1>2, <1>3, <1>4

LEMMA LeavesAnswers ==
  ASSUME StreamUntilAnswered, NEW r \in Requests, NEW v, NEW src, Leaves(r, v, src)
  PROVE  /\ Strictest(r)' = Strictest(r) /\ Registered(r)' = Registered(r)
         /\ stream[r] => FirstAnswer(r) = "none" /\ FirstAnswer(r)' = v
         /\ ~stream[r] => FirstAnswer(r)' = FirstAnswer(r)
<1>1. Strictest(r)' = Strictest(r) /\ Registered(r)' = Registered(r) /\ r \in pending
  BY DEF Leaves, HitsUntouched, Strictest, Raised, Registered
<1>2. CASE stream[r]
  <2>1. wire[r] = <<>> /\ wire'[r] = Append(<<>>, v)
    BY <1>1, <1>2 DEF Leaves, Told, StreamUntilAnswered
  <2> QED BY <1>1, <1>2, <2>1, FirstOf DEF FirstAnswer, NoVerdict
<1>3. CASE ~stream[r]
  BY <1>1, <1>3 DEF Leaves, Told, FirstAnswer
<1> QED BY <1>1, <1>2, <1>3

\* What is held is an ask: nothing stricter was raised, and nothing else is to come.
LEMMA HeldIsAsk ==
  ASSUME IInv, NEW r \in Requests, r \in pending, held[r]
  PROVE  /\ mode = "guardrails" /\ signoff /\ Strictest(r) = "ask" /\ FirstAnswer(r) = "none"
<1>1. CoreInv /\ TypeOK /\ StreamUntilAnswered /\ CountIsOutstanding /\ SignalsHaveOneBringer
  BY DEF IInv, CoreInv
<1>2. stream[r] /\ HoldsAsks /\ SealedAsk(r)
  BY <1>1, HeldHasRecord DEF IInv
<1>3. mode = "guardrails" /\ signoff
  BY <1>1, <1>2 DEF HoldsAsks, StreamUntilAnswered, TypeOK
<1>4. KeptIn(r)
  BY <1>1, <1>2, <1>3 DEF CoreInv, SignalsAreKept
<1>5. \A u \in Threads : \A v : ~Applies(u, r, v)
  BY <1>1, NothingToApply DEF CountIsOutstanding
<1>6. ~Raised(r, "deny")
  BY <1>4, <1>5 DEF KeptIn, Raised
<1>7. Raised(r, "ask")
  BY <1>2 DEF IInv, SourcesAreTrue, Explained, SealedAsk, Raised
<1> QED BY <1>1, <1>2, <1>3, <1>6, <1>7, StrictestIs, AnswerOfEntry

\* The completing thread answers with what the gate permits.
LEMMA SealingPermitted ==
  ASSUME IInv, NEW r \in Requests, r \in pending, stream[r],
         NEW t \in Threads, Completing(t, r), work[t].pc = "sealing"
  PROVE  Permits(r, Decision(r).verdict)
<1>1. /\ CoreInv /\ TypeOK /\ StreamUntilAnswered /\ CountIsOutstanding /\ StagedIsAsk
      /\ SignalsHaveOneBringer
  BY DEF IInv, CoreInv
<1>2. mode \in {"guardrails", "monitor"}
  BY <1>1 DEF StreamUntilAnswered, TypeOK
<1>3. CASE mode = "monitor"
  BY <1>3 DEF Permits, Decision
<1>4. CASE mode = "guardrails"
  <2>1. /\ outstanding[r] = {} /\ ~held[r]
        /\ \A u \in Threads : Completing(u, r) => u = t
    BY <1>1, CompletingFacts
  <2>2. \A u \in Threads : /\ \A v : ~Applies(u, r, v)
                           /\ ~Refuses(u, r)
    BY <1>1, <2>1, NothingToApply DEF Refuses, Completing
  <2>3. KeptIn(r)
    BY <1>1, <1>4 DEF CoreInv, SignalsAreKept
  <2>4. ~Raised(r, "deny")
    BY <2>2, <2>3 DEF KeptIn, Raised
  <2>5. Raised(r, "ask") => staged[r].verdict = "ask"
    BY <2>1, <2>2, <2>3 DEF KeptIn
  <2>6. CASE staged[r] = Unset
    <3>1. Strictest(r) = "none"
      BY <2>4, <2>5, <2>6, UnsetVerdict, StrictestIs
    <3> QED BY <1>4, <2>6, <3>1 DEF Permits, Decision
  <2>7. CASE staged[r] # Unset
    <3>1. staged[r].verdict = "ask" /\ staged[r].source \in {"falco", "llm"}
      BY <1>1, <2>7 DEF StagedIsAsk, IInv, SourcesAreTrue
    <3>2. Raised(r, "ask")
      BY <3>1 DEF IInv, SourcesAreTrue, Explained, Raised
    <3>3. Strictest(r) = "ask"
      BY <2>4, <3>2, StrictestIs
    <3>4. Decision(r).verdict = "ask"
      BY <1>4, <2>7, <3>1 DEF Decision
    <3>5. ~signoff
      BY <1>1, <3>4, SealingKnows DEF Completing, IInv
    <3> QED BY <1>4, <3>3, <3>4, <3>5 DEF Permits
  <2> QED BY <2>6, <2>7
<1> QED BY <1>2, <1>3, <1>4

\* The operator allows only what is held and signed.
LEMMA ResolvingPermitted ==
  ASSUME IInv, NEW r \in Requests, r \in pending, work[Sock].pc = "resolving", work[Sock].id = r
  PROVE  Permits(r, work[Sock].verdict) /\ work[Sock].verdict \in {"allow", "deny"}
<1>1. held[r] /\ (work[Sock].verdict = "allow" => r \in signed)
  BY DEF IInv, CoreInv, ApprovalIsSigned
<1>2. work[Sock].verdict \in {"allow", "deny"}
  BY ThreadsFacts, SignoffJob DEF IInv, CoreInv, TypeOK
<1> QED BY <1>1, <1>2, HeldIsAsk DEF Permits

(***************************************************************************)
(* The refinement.                                                         *)
(***************************************************************************)
LEMMA GateInit == Init => Gate!Init
<1> SUFFICES ASSUME Init PROVE Gate!Init
  OBVIOUS
<1>1. \A r \in Requests : ~Registered(r) /\ Strictest(r) = "none" /\ FirstAnswer(r) = "none"
  BY DEF Init, Registered, Strictest, Raised, FirstAnswer, NoVerdict
<1>2. /\ mode \in {"guardrails", "monitor", "passthrough"} /\ floor \in {"allow", "defer"}
      /\ signoff \in BOOLEAN /\ signed = {}
  BY DEF Init
<1> QED BY <1>1, <1>2 DEF Gate!Init, Gate!NoVerdict

\* What happens to the one request that a step is about.
LEMMA MoveOfGate ==
  ASSUME IInv, [Next]_vars, NEW q \in Requests, Elsewhere(q), UNCHANGED conf, signed' = signed
  PROVE  UNCHANGED Gate!vars \/ Gate!Next
<1>1. /\ TypeOK /\ StreamUntilAnswered /\ CountIsOutstanding /\ SignalsHaveOneBringer
      /\ ReviewIsStored
  BY DEF IInv, CoreInv
<1>2. RequestMoves(q)
  BY <1>1, RequestStep
<1>3. Same(q) => UNCHANGED Gate!vars
  BY SameGate, ElsewhereGate, GateStutters
<1>4. CASE Opens(q)
  <2>1. Registered(q)' /\ Strictest(q)' = Strictest(q) /\ FirstAnswer(q)' = FirstAnswer(q)
    BY <1>4 DEF Opens, HitsUntouched, Registered, Strictest, Raised, FirstAnswer
  <2>2. Gate!Submit(q)
    BY <1>4, <2>1, GateSubmits DEF Opens
  <2> QED BY <2>2 DEF Gate!Next
<1>5. CASE PassesThrough(q)
  <2>1. Registered(q)' /\ Strictest(q)' = Strictest(q)
    BY <1>5 DEF PassesThrough, HitsUntouched, Registered, Strictest, Raised
  <2>2. wire'[q] = Append(<<>>, "defer")
    BY <1>1, <1>5 DEF PassesThrough, StreamUntilAnswered
  <2>3. FirstAnswer(q)' = "defer"
    BY <2>2, FirstOf DEF FirstAnswer
  <2>4. Gate!Submit(q)
    BY <1>5, <2>1, <2>3, GateSubmits DEF PassesThrough
  <2> QED BY <2>4 DEF Gate!Next
<1>6. CASE TakesDeny(q)
  <2>1. PICK src \in {"falco", "llm", "broker"} :
           /\ HitTaken(q, src, "deny") /\ Reviewer(q, src, "deny")
           /\ IF mode = "monitor" THEN AnswerUntouched(q) ELSE Told(q, "deny", src)
    BY <1>6 DEF TakesDeny
  <2>2. src = "llm" => llm[q] = "deny"
    BY <1>1, <1>6, <2>1 DEF TakesDeny, Reviewer, Applies, ReviewIsStored
  <2>3. Strictest(q)' = Escalate(Strictest(q), "deny")
    BY <2>1, <2>2, HitRaises
  <2>4. Registered(q) /\ Registered(q)' /\ FirstAnswer(q) \in {"none", "deny"}
    BY <1>1, <1>6, AnswerOfEntry DEF TakesDeny, EntryStays, Registered
  <2>5. CASE wire'[q] = wire[q]
    BY <2>3, <2>4, <2>5, GateSignals DEF FirstAnswer, Gate!Next
  <2>6. CASE wire'[q] # wire[q]
    <3>1. wire'[q] = Append(<<>>, "deny")
      BY <1>1, <1>6, <2>1, <2>6 DEF AnswerUntouched, Told, StreamUntilAnswered
    <3>2. FirstAnswer(q)' = "deny"
      BY <3>1, FirstOf DEF FirstAnswer
    <3> QED BY <2>3, <2>4, <3>2, GateSignals DEF Gate!Next
  <2> QED BY <2>5, <2>6
<1>7. CASE TakesAsk(q)
  <2>1. PICK src \in {"falco", "llm"} : HitTaken(q, src, "ask") /\ Reviewer(q, src, "ask")
    BY <1>7 DEF TakesAsk
  <2>2. src = "llm" => llm[q] = "ask"
    BY <1>1, <1>7, <2>1 DEF TakesAsk, Reviewer, Applies, ReviewIsStored
  <2>3. Strictest(q)' = Escalate(Strictest(q), "ask")
    BY <2>1, <2>2, HitRaises
  <2>4. Registered(q) /\ Registered(q)' /\ FirstAnswer(q) \in {"none", "deny"}
    BY <1>1, <1>7, AnswerOfEntry DEF TakesAsk, EntryStays, Registered
  <2>5. FirstAnswer(q)' = FirstAnswer(q)
    BY <1>7 DEF TakesAsk, AnswerUntouched, FirstAnswer
  <2> QED BY <2>3, <2>4, <2>5, GateSignals DEF Gate!Next
<1>8. CASE StoresReview(q)
  <2>1. PICK t \in Threads : StoreReview(t) /\ work[t].id = q /\ llm'[q] = work[t].verdict
    BY <1>8 DEF StoresReview
  <2>2. work[t].verdict \in LlmVerdicts /\ llm[q] = "none" /\ hits'[q] = hits[q]
    <3>1. work[t].pc = "storing" /\ work[t].pc \in SignalPCs
      BY <2>1 DEF StoreReview, SignalPCs
    <3> QED BY <1>1, <1>8, <2>1, <3>1, SignalJob DEF StoresReview, ReviewIsStored, TypeOK
  <2>3. Registered(q) /\ Registered(q)' /\ FirstAnswer(q) \in {"none", "deny"}
    BY <1>1, <1>8, AnswerOfEntry DEF StoresReview, EntryStays, Registered
  <2>4. FirstAnswer(q)' = FirstAnswer(q)
    BY <1>8 DEF StoresReview, AnswerUntouched, FirstAnswer
  <2>5. CASE work[t].verdict \in {"deny", "ask"}
    BY <2>1, <2>2, <2>3, <2>4, <2>5, ReviewRaises, GateSignals DEF Gate!Next
  <2>6. CASE work[t].verdict \notin {"deny", "ask"}
    <3>1. Strictest(q)' = Strictest(q)
      BY <2>1, <2>2, <2>6, ReviewRaises
    <3>2. Registered(q)' = Registered(q)
      BY <1>8 DEF StoresReview, EntryStays, Registered
    <3> QED BY <2>4, <3>1, <3>2, ElsewhereGate, GateStutters
  <2> QED BY <2>5, <2>6
<1>9. ASSUME NEW v \in Verdicts, NEW src, Leaves(q, v, src), stream[q] => Permits(q, v)
      PROVE  UNCHANGED Gate!vars \/ Gate!Next
  <2>1. Registered(q) /\ Registered(q)'
    BY <1>1, <1>9, AnswerOfEntry, LeavesAnswers DEF Leaves
  <2>2. CASE stream[q]
    <3>1. Gate!AnswerWith(q, v)
      BY <1>1, <1>9, <2>1, <2>2, LeavesAnswers, GateAnswers
    <3> QED BY <3>1 DEF Gate!Next, Gate!Verdicts, Verdicts
  <2>3. CASE ~stream[q]
    BY <1>1, <1>9, <2>3, LeavesAnswers, ElsewhereGate, GateStutters
  <2> QED BY <2>2, <2>3
<1>10. CASE IsRefused(q)
  BY <1>9, <1>10 DEF IsRefused, Permits, Verdicts
<1>11. CASE IsSealed(q)
  <2>1. PICK t \in Threads : Completing(t, q) /\ work[t].pc = "sealing"
    BY <1>11 DEF IsSealed
  <2>2. q \in pending /\ Decision(q).verdict \in Verdicts
    BY <1>1, <1>11, DecisionTyped DEF IsSealed, Leaves
  <2>3. stream[q] => Permits(q, Decision(q).verdict)
    BY <2>1, <2>2, SealingPermitted
  <2> QED BY <1>9, <1>11, <2>2, <2>3 DEF IsSealed
<1>12. CASE IsResolved(q)
  <2>1. Permits(q, work[Sock].verdict) /\ work[Sock].verdict \in Verdicts
    BY <1>12, ResolvingPermitted DEF IsResolved, Leaves, Verdicts
  <2> QED BY <1>9, <1>12, <2>1 DEF IsResolved
<1>13. CASE IsReaped(q)
  BY <1>9, <1>13 DEF IsReaped, Permits, Verdicts
<1>14. CASE Untouched(q) \/ IsHeld(q)
  BY <1>3, <1>14 DEF Untouched, IsHeld, EntryStays, AnswerUntouched, Same
<1> QED BY <1>2, <1>4, <1>5, <1>6, <1>7, <1>8, <1>10, <1>11, <1>12, <1>13, <1>14
        DEF RequestMoves

LEMMA GateStep == IInv /\ [Next]_vars => [Gate!Next]_(Gate!vars)
<1> SUFFICES ASSUME IInv, [Next]_vars PROVE UNCHANGED Gate!vars \/ Gate!Next
  OBVIOUS
<1>1. TypeOK
  BY DEF IInv, CoreInv
<1>2. UNCHANGED conf
  BY ConfStays
<1>3. ASSUME NEW q \in Requests, OperatorSigns(q) PROVE Gate!Next
  <2>1. q \in pending /\ held[q] /\ signed' = signed \cup {q}
    BY <1>3 DEF OperatorSigns
  <2>2. \A r \in Requests : Same(r)
    BY <1>3 DEF OperatorSigns, Same, HitsUntouched, plan, draft
  <2>3. signoff /\ Strictest(q) = "ask" /\ FirstAnswer(q) = "none"
    BY <2>1, HeldIsAsk
  <2>4. Gate!Sign(q)
    BY <1>2, <2>1, <2>2, <2>3, GateSigns
  <2> QED BY <2>4 DEF Gate!Next
<1>4. CASE signed' = signed /\ \A r \in Requests : Same(r)
  BY <1>2, <1>4, SameGate, GateStutters
<1>5. CASE signed' = signed /\ \E q \in Requests : Elsewhere(q)
  BY <1>2, <1>5, MoveOfGate
<1> QED BY <1>1, <1>3, <1>4, <1>5, OneRequest, OnlyOperatorSigns

(* The broker implements the gate (BrokerGate): whatever its threads, alerts,
   reviews, full queues, time-outs, sign-offs and failing appends do, a tool
   call is answered once, with a verdict that the strictest signal about it
   permits, an allow of an ask only after the operator's signature, and a signal
   that comes after a lenient answer never outranks it.                      *)
THEOREM Implements == Spec => ImplementsGate
<1>1. Spec => []IInv
  BY InvariantHolds
<1> QED BY <1>1, GateInit, GateStep, PTL DEF Spec, ImplementsGate, Gate!Spec

(***************************************************************************)
(* The invariant of the pipeline.                                          *)
(***************************************************************************)
\* The events of the request in hand, and those of the engine's output, as pairs.
PairsOf(id, left) == [i \in DOMAIN left |-> <<id, left[i]>>]
PairsIn(out) == [i \in DOMAIN out |-> <<out[i].id, out[i].event>>]
LeftPairs == PairsOf(conn.id, conn.left)
OutPairs == PairsIn(outbox)

\* The connection in hand is that of a request.
ConnIsOfRequest ==
  /\ conn.stage \in {"submit", "emit"} => conn.id \in Requests
  /\ conn.left # <<>> => conn.id \in Requests

\* An event is at one place between the socket thread and the receiver.
Once(p, q) == IsInjective(p) /\ IsInjective(q) /\ Range(p) \cap Range(q) = {}
QueuedOnce == Once(LeftPairs, channel) /\ Once(LeftPairs, OutPairs) /\ Once(channel, OutPairs)

\* The receiver is busy with the alerts of the event at the head of the output.
AtReceiver(p) == work[Http].pc = "reporting" /\ work[Http].id = p[1] /\ work[Http].signal = p[2]

ReceiverHasHead ==
  /\ work[Http].pc \in {"idle", "reporting", "holding", "unsealed", "sealing"}
  /\ work[Http].pc = "reporting" => outbox # <<>> /\ AtReceiver(OutPairs[1])

\* No other thread has claimed what is queued.
Unclaimed(p) == p[2] \in unclaimed[p[1]]

QueuedIsUnclaimed ==
  /\ \A p \in Range(LeftPairs) \cup Range(channel) : Unclaimed(p)
  /\ \A p \in Range(OutPairs) : Unclaimed(p) \/ AtReceiver(p)

\* There is no operator and no reaper here: an entry that has gone was completed.
NobodySigns == signed = {} /\ work[Sock].pc # "resolving"

GoneIsComplete ==
  mode # "passthrough" =>
    \A r \in Requests : Registered(r) /\ r \notin pending => outstanding[r] = {}

\* An allow among the reviews is the model's.
AllowIsModels ==
  /\ \A r \in Requests : llm[r] = "allow" => r \in approved
  /\ \A t \in Threads : work[t].pc = "storing" /\ work[t].verdict = "allow" =>
       work[t].id \in approved

\* What a rule raised is in the draft, or among the alerts still to be delivered.
ToCome(r, tags) ==
  \E i \in DOMAIN outbox : outbox[i].id = r /\ \E a \in outbox[i].alerts : a \cap tags # {}

Hit(r, kinds) == \E h \in hits[r] : h.kind \in kinds

RuledIsTaken ==
  mode = "guardrails" =>
    \A r \in Requests \ lost :
      /\ ruled[r] = "deny" => Hit(r, {"deny"}) \/ ToCome(r, {"deny"})
      /\ ruled[r] = "ask" => Hit(r, {"deny", "ask"}) \/ ToCome(r, {"deny", "ask"})

PInv ==
  /\ IInv
  /\ PipelineTypeOK
  /\ ConnIsOfRequest
  /\ QueuedOnce
  /\ ReceiverHasHead
  /\ QueuedIsUnclaimed
  /\ NobodySigns
  /\ GoneIsComplete
  /\ AllowIsModels
  /\ RuledIsTaken

(***************************************************************************)
(* Sequences.                                                              *)
(***************************************************************************)
LEMMA BoundedSeqIs ==
  ASSUME NEW S, NEW n \in Nat, NEW s
  PROVE  s \in Seqs!BoundedSeq(S, n) <=> s \in Seq(S) /\ Len(s) <= n
<1>1. ASSUME s \in Seqs!BoundedSeq(S, n) PROVE s \in Seq(S) /\ Len(s) <= n
  <2>1. PICK m \in 0..n : s \in [1..m -> S]
    BY <1>1 DEF Seqs!BoundedSeq, Seqs!SeqOf
  <2> QED BY <2>1
<1>2. ASSUME s \in Seq(S), Len(s) <= n PROVE s \in Seqs!BoundedSeq(S, n)
  <2>1. Len(s) \in 0..n /\ s \in [1..Len(s) -> S]
    BY <1>2
  <2> QED BY <2>1 DEF Seqs!BoundedSeq, Seqs!SeqOf
<1> QED BY <1>1, <1>2

LEMMA Dequeue ==
  ASSUME NEW S, NEW s \in Seq(S), s # <<>>
  PROVE  /\ Head(s) \in S /\ Tail(s) \in Seq(S) /\ Len(Tail(s)) <= Len(s)
         /\ Head(s) \in Range(s) /\ Head(s) = s[1] /\ 1 \in DOMAIN s
         /\ Range(Tail(s)) \subseteq Range(s)
         /\ \A x \in Range(s) : x = Head(s) \/ x \in Range(Tail(s))
         /\ IsInjective(s) => IsInjective(Tail(s)) /\ Head(s) \notin Range(Tail(s))
<1>1. /\ Len(s) \in Nat \ {0} /\ DOMAIN s = 1..Len(s) /\ 1 \in DOMAIN s /\ Head(s) = s[1]
      /\ Tail(s) \in Seq(S) /\ Len(Tail(s)) = Len(s) - 1
      /\ DOMAIN Tail(s) = 1..(Len(s) - 1)
      /\ \A i \in 1..(Len(s) - 1) : Tail(s)[i] = s[i + 1] /\ i + 1 \in DOMAIN s
  OBVIOUS
<1>2. Head(s) \in Range(s) /\ Range(Tail(s)) \subseteq Range(s)
  BY <1>1 DEF Range
<1>3. ASSUME NEW x \in Range(s) PROVE x = Head(s) \/ x \in Range(Tail(s))
  <2>1. PICK i \in DOMAIN s : x = s[i]
    BY <1>3 DEF Range
  <2>2. CASE i # 1
    <3>1. i - 1 \in DOMAIN Tail(s) /\ Tail(s)[i - 1] = x
      BY <1>1, <2>1, <2>2
    <3> QED BY <3>1 DEF Range
  <2> QED BY <1>1, <2>1, <2>2
<1>4. ASSUME IsInjective(s) PROVE IsInjective(Tail(s)) /\ Head(s) \notin Range(Tail(s))
  BY <1>1, <1>4 DEF IsInjective, Range
<1> QED BY <1>1, <1>2, <1>3, <1>4

LEMMA Enqueue ==
  ASSUME NEW S, NEW s \in Seq(S), NEW e \in S
  PROVE  /\ Append(s, e) \in Seq(S) /\ Len(Append(s, e)) = Len(s) + 1
         /\ Range(Append(s, e)) = Range(s) \cup {e}
         /\ IsInjective(s) /\ e \notin Range(s) => IsInjective(Append(s, e))
<1>1. /\ Len(s) \in Nat /\ DOMAIN s = 1..Len(s)
      /\ Append(s, e) \in Seq(S) /\ Len(Append(s, e)) = Len(s) + 1
      /\ DOMAIN Append(s, e) = 1..(Len(s) + 1)
      /\ \A i \in 1..Len(s) : Append(s, e)[i] = s[i] /\ i \in DOMAIN Append(s, e)
      /\ Append(s, e)[Len(s) + 1] = e /\ Len(s) + 1 \in DOMAIN Append(s, e)
  OBVIOUS
<1>2. Range(Append(s, e)) = Range(s) \cup {e}
  <2>1. ASSUME NEW x \in Range(Append(s, e)) PROVE x \in Range(s) \cup {e}
    BY <1>1, <2>1 DEF Range
  <2>2. ASSUME NEW x \in Range(s) \cup {e} PROVE x \in Range(Append(s, e))
    BY <1>1, <2>2 DEF Range
  <2> QED BY <2>1, <2>2
<1>3. ASSUME IsInjective(s), e \notin Range(s) PROVE IsInjective(Append(s, e))
  <2> SUFFICES ASSUME NEW i \in 1..(Len(s) + 1), NEW j \in 1..(Len(s) + 1),
                      Append(s, e)[i] = Append(s, e)[j]
               PROVE  i = j
    BY <1>1 DEF IsInjective
  <2>1. CASE i \in 1..Len(s) /\ j \in 1..Len(s)
    BY <1>1, <1>3, <2>1 DEF IsInjective
  <2>2. CASE i = Len(s) + 1 \/ j = Len(s) + 1
    BY <1>1, <1>3, <2>2 DEF Range
  <2> QED BY <1>1, <2>1, <2>2
<1> QED BY <1>1, <1>2, <1>3

LEMMA ReplaceFirst ==
  ASSUME NEW S, NEW s \in Seq(S), s # <<>>, NEW e \in S
  PROVE  /\ [s EXCEPT ![1] = e] \in Seq(S) /\ DOMAIN [s EXCEPT ![1] = e] = DOMAIN s
         /\ [s EXCEPT ![1] = e][1] = e
         /\ \A i \in DOMAIN s : i # 1 => [s EXCEPT ![1] = e][i] = s[i]
<1>1. Len(s) \in Nat \ {0} /\ DOMAIN s = 1..Len(s) /\ s \in [1..Len(s) -> S]
  OBVIOUS
<1>2. [s EXCEPT ![1] = e] \in [1..Len(s) -> S]
  BY <1>1
<1> QED BY <1>1, <1>2

LEMMA EmptyRange ==
  Range(<<>>) = {} /\ IsInjective(<<>>)
BY DEF Range, IsInjective

\* The events of a connection, each once.
LEMMA EventsOnce ==
  ASSUME NEW S \in SUBSET Events
  PROVE  /\ Seqs!SetToSeq(S) \in Seq(S) /\ Len(Seqs!SetToSeq(S)) <= Cardinality(Events)
         /\ IsInjective(Seqs!SetToSeq(S))
<1>1. IsFiniteSet(S) /\ Cardinality(S) <= Cardinality(Events)
  BY FS_Subset, ConstantsAssumption
<1>2. Cardinality(S) \in Nat /\ ExistsBijection(1..Cardinality(S), S)
  BY <1>1, FS_CardinalityType
<1>3. \E f \in [1..Cardinality(S) -> S] : Seqs!IsInjective(f)
  BY <1>2 DEF ExistsBijection, Bijection, Injection, IsInjective, Seqs!IsInjective
<1>4. /\ Seqs!SetToSeq(S) \in [1..Cardinality(S) -> S]
      /\ Seqs!IsInjective(Seqs!SetToSeq(S))
  <2>1. Seqs!Cardinality(S) = Cardinality(S)
    BY DEF Seqs!Cardinality, Cardinality
  <2> QED BY <1>3, <2>1 DEF Seqs!SetToSeq
<1> QED BY <1>1, <1>2, <1>4 DEF Seqs!IsInjective, IsInjective

(***************************************************************************)
(* Every step is one of the broker's, or leaves its variables alone.       *)
(***************************************************************************)
Outcomes == [id : Requests, event : Events, alerts : SUBSET Rules]

LEMMA QueueTypes ==
  ASSUME PipelineTypeOK
  PROVE  /\ channel \in Seq(Requests \X Events) /\ Len(channel) <= EventCap
         /\ jobs \in Seq(Requests) /\ Len(jobs) <= JobCap
         /\ outbox \in Seq(Outcomes)
         /\ conn.left \in Seq(Events) /\ Len(conn.left) <= Cardinality(Events)
         /\ Cardinality(Events) \in Nat
         /\ conn.id \in Requests \cup {None}
         /\ \A w \in LlmWorkers : Reviewing(w) => review[w].id \in Requests
<1>1. Cardinality(Events) \in Nat
  BY ConstantsAssumption, FS_CardinalityType
<1>2. conn.left \in Seqs!BoundedSeq(Events, Cardinality(Events)) /\ conn.id \in Requests \cup {None}
  BY DEF PipelineTypeOK
<1>3. channel \in Seqs!BoundedSeq(Requests \X Events, EventCap) /\ jobs \in Seqs!BoundedSeq(Requests, JobCap)
  BY DEF PipelineTypeOK
<1>4. EventCap \in Nat /\ JobCap \in Nat
  BY PipelineAssumption
<1>5. \A w \in LlmWorkers : Reviewing(w) => review[w].id \in Requests
  BY DEF PipelineTypeOK, Reviewing
<1> QED BY <1>1, <1>2, <1>3, <1>4, <1>5, BoundedSeqIs DEF PipelineTypeOK, Outcomes

LEMMA HeadOutbox ==
  ASSUME PipelineTypeOK, outbox # <<>>
  PROVE  /\ Head(outbox) \in Outcomes /\ Head(outbox) = outbox[1]
         /\ Head(outbox).id \in Requests /\ Head(outbox).event \in Events
<1>1. Head(outbox) \in Outcomes /\ Head(outbox) = outbox[1]
  BY QueueTypes, Dequeue
<1> QED BY <1>1 DEF Outcomes

\* What the pipeline takes of the broker: neither the operator nor the reaper.
Acts ==
  \/ UNCHANGED vars
  \/ \E r \in Requests :
       \/ Register(r) \/ ReviewQueueFull(r)
       \/ \E e \in Events : AlertsBegin(r, e)
       \/ \E D \in SUBSET Events : EventQueueFull(r, D)
       \/ \E w \in LlmWorkers : ReviewBegin(w, r)
  \/ \E t \in Threads : Completes(t) \/ Reviews(t)
  \/ DenyAlert \/ AskAlert \/ SeenAlertLost

LEMMA BrokerActs ==
  ASSUME PipelineTypeOK, ConnIsOfRequest, [PipelineNext]_pvars
  PROVE  Acts
<1>1. ASSUME NEW r \in Requests, Accepts(r) \/ TurnsAway(r) PROVE Acts
  BY <1>1 DEF Accepts, TurnsAway, Acts
<1>2. CASE Submits
  <2>1. conn.id \in Requests
    BY <1>2 DEF Submits, ConnIsOfRequest
  <2> QED BY <1>2, <2>1 DEF Submits, JobsFull, Acts
<1>3. CASE Emits
  <2>1. conn.id \in Requests
    BY <1>3 DEF Emits, ConnIsOfRequest
  <2>2. CASE UNCHANGED vars
    BY <2>2 DEF Acts
  <2>3. CASE EventQueueFull(conn.id, Seqs!ToSet(conn.left))
    <3>1. Seqs!ToSet(conn.left) \in SUBSET Events
      BY <2>3 DEF EventQueueFull
    <3> QED BY <2>1, <2>3, <3>1 DEF Acts
  <2> QED BY <1>3, <2>2, <2>3 DEF Emits, ChannelFull
<1>4. CASE ReceiverBegins
  BY <1>4, HeadOutbox DEF ReceiverBegins, Acts
<1>5. ASSUME NEW a \in Rules, Delivers(a) \/ Loses(a) PROVE Acts
  BY <1>5 DEF Delivers, Loses, Acts
<1>6. CASE SeenArrives
  BY <1>6, ThreadsFacts DEF SeenArrives, Acts, Completes
<1>7. ASSUME NEW w \in LlmWorkers, TakesJob(w) PROVE Acts
  <2>1. Head(jobs) \in Requests
    BY <1>7, QueueTypes, Dequeue DEF TakesJob
  <2> QED BY <1>7, <2>1 DEF TakesJob, Acts
<1>8. ASSUME NEW w \in LlmWorkers, ModelReplies(w) \/ ModelFails(w) PROVE Acts
  <2>1. PICK v : ReviewEnds(w, v)
    BY <1>8 DEF ModelReplies, ModelFails
  <2>2. review[w].id \in Requests
    BY <2>1, QueueTypes DEF ReviewEnds
  <2> QED BY <2>1, <2>2 DEF ReviewEnds, Acts
<1>9. ASSUME NEW t \in Threads, BrokerWorks(t) PROVE Acts
  BY <1>9 DEF BrokerWorks, Acts
<1>10. CASE EngineEvaluates \/ HttpEnds \/ SocketEnds \/ Stops \/ UNCHANGED pvars
  BY <1>10 DEF EngineEvaluates, HttpEnds, SocketEnds, Stops, pvars, Acts
<1>11. ASSUME NEW w \in LlmWorkers, ModelRetried(w) \/ WorkerEnds(w) PROVE Acts
  BY <1>11 DEF ModelRetried, WorkerEnds, Acts
<1> QED
  BY <1>1, <1>2, <1>3, <1>4, <1>5, <1>6, <1>7, <1>8, <1>9, <1>10, <1>11, ThreadsFacts
  DEF PipelineNext, Socket, Receiver, Worker

LEMMA BrokerStep ==
  ASSUME PipelineTypeOK, ConnIsOfRequest, [PipelineNext]_pvars
  PROVE  [Next]_vars
BY BrokerActs DEF Acts, Next

(***************************************************************************)
(* Types.                                                                  *)
(***************************************************************************)
Conns == [stage : {"open", "submit", "emit", "gone"}, id : Requests \cup {None},
          left : Seqs!BoundedSeq(Events, Cardinality(Events))]

ConnTyped(c) ==
  /\ c \in Conns
  /\ c.stage \in {"submit", "emit"} => c.id \in Requests
  /\ c.left # <<>> => c.id \in Requests

LEMMA LeftTyped ==
  ASSUME NEW s \in Seq(Events), Len(s) <= Cardinality(Events)
  PROVE  s \in Seqs!BoundedSeq(Events, Cardinality(Events))
<1>1. Cardinality(Events) \in Nat
  BY ConstantsAssumption, FS_CardinalityType
<1> QED BY <1>1, BoundedSeqIs

LEMMA NextConnTyped == ConnTyped(NextConn)
<1>1. Cardinality(Events) \in Nat
  BY ConstantsAssumption, FS_CardinalityType
<1>2. <<>> \in Seq(Events) /\ Len(<<>>) <= Cardinality(Events)
  BY <1>1
<1>3. ASSUME NEW s \in Seq(Events), Len(s) <= Cardinality(Events)
      PROVE  s \in Seqs!BoundedSeq(Events, Cardinality(Events))
  BY <1>3, LeftTyped
<1> HIDE DEF Seqs!BoundedSeq
<1>4. <<>> \in Seqs!BoundedSeq(Events, Cardinality(Events))
  BY <1>2, <1>3
<1> QED BY <1>4 DEF NextConn, NoConn, ConnTyped, Conns

LEMMA PipelineTypeNext ==
  ASSUME PipelineTypeOK, ConnIsOfRequest, [PipelineNext]_pvars
  PROVE  PipelineTypeOK' /\ ConnIsOfRequest'
<1> DEFINE C == ConnTyped(conn')
           Ch == channel' \in Seqs!BoundedSeq(Requests \X Events, EventCap)
           O == outbox' \in Seq(Outcomes)
           J == jobs' \in Seqs!BoundedSeq(Requests, JobCap)
           V == review' \in [LlmWorkers -> {NoReview} \cup
                               [id : Requests, tried : 0..(MaxAttempts - 1)]]
           R == ruled' \in [Requests -> {NoVerdict, "ask", "deny"}]
           A == approved' \subseteq Requests
           F == /\ lost' \subseteq Requests /\ refused' \subseteq Requests
                /\ shutdown' \in BOOLEAN /\ gone' \subseteq Threads
           Fine == C /\ Ch /\ O /\ J /\ V /\ R /\ A /\ F
<1>0. /\ UNCHANGED conn => C
      /\ UNCHANGED channel => Ch
      /\ UNCHANGED outbox => O
      /\ UNCHANGED jobs => J
      /\ UNCHANGED review => V
      /\ UNCHANGED ruled => R
      /\ UNCHANGED approved => A
      /\ UNCHANGED <<lost, refused, shutdown, gone>> => F
  BY DEF PipelineTypeOK, ConnIsOfRequest, ConnTyped, Conns, Outcomes
<1>00. ConnTyped(conn) /\ EventCap \in Nat /\ JobCap \in Nat /\ MaxAttempts \in Nat \ {0}
  BY PipelineAssumption DEF PipelineTypeOK, ConnIsOfRequest, ConnTyped, Conns
<1> HIDE DEF C, Ch, O, J, V, R, A, F
<1> USE DEF queues, facts
<1>1. ASSUME NEW r \in Requests, Accepts(r) PROVE Fine
  <2>1. PICK S \in SUBSET Signals :
           expected' = [expected EXCEPT ![r] = S]
    BY <1>1 DEF Accepts, Register
  <2>2. expected'[r] = S
    BY <2>1 DEF PipelineTypeOK, TypeOK
  <2>3. Seqs!SetToSeq(S \cap Events) \in Seqs!BoundedSeq(Events, Cardinality(Events))
    <3>1. Seqs!SetToSeq(S \cap Events) \in Seq(S \cap Events)
          /\ Len(Seqs!SetToSeq(S \cap Events)) <= Cardinality(Events)
      BY EventsOnce
    <3>2. Seqs!SetToSeq(S \cap Events) \in Seq(Events)
      BY <3>1
    <3> QED BY <3>1, <3>2, LeftTyped
  <2>4. C
    BY <1>1, <2>2, <2>3 DEF Accepts, StageAfterRegister, C, ConnTyped, Conns
  <2> QED BY <1>0, <1>1, <2>4 DEF Accepts
<1>2. ASSUME NEW r \in Requests, TurnsAway(r) PROVE Fine
  <2>1. C
    BY <1>2, NextConnTyped DEF TurnsAway, C
  <2>2. F
    BY <1>2 DEF TurnsAway, F, PipelineTypeOK
  <2> QED BY <1>0, <1>2, <2>1, <2>2 DEF TurnsAway
<1>3. ASSUME Submits PROVE Fine
  <2>1. C
    BY <1>00, <1>3 DEF Submits, C, ConnTyped, Conns
  <2>2. CASE jobs' = Append(jobs, conn.id) /\ Len(jobs) < JobCap
    <3>1. conn.id \in Requests
      BY <1>3 DEF Submits, ConnIsOfRequest
    <3>2. jobs' \in Seq(Requests) /\ Len(jobs') <= JobCap
      BY <1>00, <2>2, <3>1, QueueTypes, Enqueue
    <3>3. J
      BY <1>00, <3>2, BoundedSeqIs DEF J
    <3> QED BY <1>0, <1>3, <2>1, <3>3 DEF Submits
  <2>3. CASE UNCHANGED jobs
    BY <1>0, <1>3, <2>1, <2>3 DEF Submits
  <2> QED BY <1>3, <2>2, <2>3 DEF Submits
<1>4. ASSUME Emits PROVE Fine
  <2>1. CASE conn' = NextConn /\ UNCHANGED channel
    BY <1>0, <1>4, <2>1, NextConnTyped DEF Emits, C
  <2>2. CASE /\ conn.left # <<>> /\ Len(channel) < EventCap
             /\ channel' = Append(channel, <<conn.id, Head(conn.left)>>)
             /\ conn' = [conn EXCEPT !.left = Tail(@)]
    <3>1. conn.id \in Requests /\ conn.left \in Seq(Events) /\ channel \in Seq(Requests \X Events)
          /\ Len(conn.left) <= Cardinality(Events) /\ Cardinality(Events) \in Nat
      BY <2>2, QueueTypes DEF ConnIsOfRequest
    <3>2. Head(conn.left) \in Events /\ Tail(conn.left) \in Seq(Events)
          /\ Len(Tail(conn.left)) <= Cardinality(Events)
      BY <2>2, <3>1
    <3>3. channel' \in Seq(Requests \X Events) /\ Len(channel') <= EventCap
      BY <1>00, <2>2, <3>1, <3>2, Enqueue
    <3>4. Ch
      BY <1>00, <3>3, BoundedSeqIs DEF Ch
    <3>5. C
      BY <1>00, <2>2, <3>1, <3>2, LeftTyped DEF C, ConnTyped, Conns
    <3> QED BY <1>0, <1>4, <3>4, <3>5 DEF Emits
  <2> QED BY <1>4, <2>1, <2>2 DEF Emits
<1>5. ASSUME EngineEvaluates PROVE Fine
  <2> PICK M \in SUBSET Rules :
         /\ outbox' = Append(outbox, [id |-> Head(channel)[1], event |-> Head(channel)[2],
                                      alerts |-> M])
         /\ ruled' = [ruled EXCEPT ![Head(channel)[1]] =
                        IF M = {} THEN @ ELSE StricterOf(@, UNION M)]
    BY <1>5 DEF EngineEvaluates
  <2>1. channel \in Seq(Requests \X Events) /\ channel # <<>> /\ Len(channel) <= EventCap
    BY <1>5, QueueTypes DEF EngineEvaluates
  <2>2. Head(channel) \in Requests \X Events /\ Tail(channel) \in Seq(Requests \X Events)
        /\ Len(Tail(channel)) <= EventCap
    BY <1>00, <2>1, Dequeue
  <2>3. Ch
    BY <1>00, <1>5, <2>2, BoundedSeqIs DEF EngineEvaluates, Ch
  <2>4. O
    <3>1. [id |-> Head(channel)[1], event |-> Head(channel)[2], alerts |-> M] \in Outcomes
      BY <2>2 DEF Outcomes
    <3> QED BY <3>1, QueueTypes, Enqueue DEF O
  <2>5. R
    BY <2>2 DEF R, PipelineTypeOK, StricterOf
  <2> QED BY <1>0, <1>5, <2>3, <2>4, <2>5 DEF EngineEvaluates
<1>6. ASSUME ReceiverBegins PROVE Fine
  BY <1>0, <1>6 DEF ReceiverBegins
<1>7. ASSUME NEW a \in Rules, Delivers(a) \/ Loses(a) PROVE Fine
  <2>1. outbox # <<>> /\ outbox' = [outbox EXCEPT ![1].alerts = @ \ {a}]
    BY <1>7 DEF Delivers, Loses, Takes
  <2>2. O
    <3>1. outbox \in Seq(Outcomes) /\ outbox[1] \in Outcomes
      BY <2>1, QueueTypes, Dequeue
    <3>2. [outbox[1] EXCEPT !.alerts = @ \ {a}] \in Outcomes
      BY <3>1 DEF Outcomes
    <3>3. outbox' = [outbox EXCEPT ![1] = [outbox[1] EXCEPT !.alerts = @ \ {a}]]
      BY <2>1
    <3>4. outbox' \in Seq(Outcomes)
      BY <2>1, <3>1, <3>2, <3>3, ReplaceFirst
    <3> QED BY <3>4 DEF O
  <2>3. CASE Delivers(a)
    BY <1>0, <2>2, <2>3 DEF Delivers
  <2>4. CASE Loses(a)
    <3>1. F
      BY <2>1, <2>4, HeadOutbox DEF Loses, LosesAlertOf, F, PipelineTypeOK
    <3> QED BY <1>0, <2>2, <2>4, <3>1 DEF Loses
  <2> QED BY <1>7, <2>3, <2>4
<1>8. ASSUME SeenArrives PROVE Fine
  <2>1. outbox # <<>> /\ outbox' = Tail(outbox)
    BY <1>8 DEF SeenArrives
  <2>2. O
    BY <2>1, QueueTypes, Dequeue DEF O
  <2>3. F
    BY <1>8, <2>1, HeadOutbox DEF SeenArrives, LosesAlertOf, F, PipelineTypeOK
  <2> QED BY <1>0, <1>8, <2>2, <2>3 DEF SeenArrives
<1>9. ASSUME NEW w \in LlmWorkers, TakesJob(w) PROVE Fine
  <2>1. jobs # <<>> /\ jobs' = Tail(jobs) /\ jobs \in Seq(Requests) /\ Len(jobs) <= JobCap
    BY <1>9, QueueTypes DEF TakesJob
  <2>2. Head(jobs) \in Requests /\ jobs' \in Seq(Requests) /\ Len(jobs') <= JobCap
    BY <1>00, <2>1, Dequeue
  <2>3. J
    BY <1>00, <2>2, BoundedSeqIs DEF J
  <2>4. CASE UNCHANGED review
    BY <1>0, <1>9, <2>3, <2>4 DEF TakesJob
  <2>5. CASE review' = [review EXCEPT ![w] = [id |-> Head(jobs), tried |-> 0]]
    <3>1. V
      BY <1>00, <2>2, <2>5 DEF V, PipelineTypeOK
    <3> QED BY <1>0, <1>9, <2>3, <3>1 DEF TakesJob
  <2> QED BY <1>9, <2>4, <2>5 DEF TakesJob
<1>10. ASSUME NEW w \in LlmWorkers, NEW v, ReviewEnds(w, v) PROVE V
  BY <1>10 DEF ReviewEnds, V, PipelineTypeOK
<1>11. ASSUME NEW w \in LlmWorkers, ModelReplies(w) \/ ModelFails(w) PROVE Fine
  <2>1. V
    BY <1>10, <1>11 DEF ModelReplies, ModelFails
  <2>2. A
    <3>1. CASE ModelFails(w)
      BY <1>0, <3>1 DEF ModelFails
    <3>2. CASE ModelReplies(w)
      <4>1. review[w].id \in Requests
        BY <3>2, QueueTypes DEF ModelReplies, ReviewEnds
      <4> QED BY <3>2, <4>1 DEF ModelReplies, A, PipelineTypeOK
    <3> QED BY <1>11, <3>1, <3>2
  <2> QED BY <1>0, <1>11, <2>1, <2>2 DEF ModelReplies, ModelFails
<1>12. ASSUME NEW w \in LlmWorkers, ModelRetried(w) PROVE Fine
  <2>1. V
    <3>1. review[w] \in [id : Requests, tried : 0..(MaxAttempts - 1)]
      BY <1>12 DEF ModelRetried, Reviewing, PipelineTypeOK
    <3>2. [review[w] EXCEPT !.tried = @ + 1] \in [id : Requests, tried : 0..(MaxAttempts - 1)]
      BY <1>00, <1>12, <3>1 DEF ModelRetried, Retries
    <3>3. review' = [review EXCEPT ![w] = [review[w] EXCEPT !.tried = @ + 1]]
      BY <1>12 DEF ModelRetried
    <3> QED BY <3>2, <3>3 DEF V, PipelineTypeOK
  <2> QED BY <1>0, <1>12, <2>1 DEF ModelRetried
<1>13. ASSUME NEW t \in Threads, BrokerWorks(t) PROVE Fine
  BY <1>0, <1>13 DEF BrokerWorks
<1>14. ASSUME Stops PROVE Fine
  <2>1. F
    BY <1>14 DEF Stops, F, PipelineTypeOK
  <2> QED BY <1>0, <1>14, <2>1 DEF Stops
<1>15. ASSUME HttpEnds \/ SocketEnds \/ \E w \in LlmWorkers : WorkerEnds(w) PROVE Fine
  <2>1. F
    BY <1>15, ThreadsFacts DEF HttpEnds, SocketEnds, WorkerEnds, F, PipelineTypeOK
  <2>2. C
    BY <1>00, <1>0, <1>15 DEF HttpEnds, SocketEnds, WorkerEnds, C, ConnTyped, Conns
  <2> QED BY <1>0, <1>15, <2>1, <2>2 DEF HttpEnds, SocketEnds, WorkerEnds
<1>16. ASSUME UNCHANGED pvars PROVE Fine
  BY <1>0, <1>16 DEF pvars
<1>17. Fine
  BY <1>1, <1>2, <1>3, <1>4, <1>5, <1>6, <1>7, <1>8, <1>9, <1>11, <1>12, <1>13, <1>14, <1>15,
     <1>16, ThreadsFacts
  DEF PipelineNext, Socket, Receiver, Worker
<1>18. TypeOK'
  <2>1. TypeOK
    BY DEF PipelineTypeOK
  <2> QED BY <2>1, BrokerStep, TypeNext
<1> QED BY <1>17, <1>18 DEF Fine, C, Ch, O, J, V, R, A, F, PipelineTypeOK, ConnIsOfRequest,
                            ConnTyped, Conns, Outcomes

(***************************************************************************)
(* The events on their way from the socket thread to the receiver.         *)
(***************************************************************************)
Pairs == Requests \X Events

LEMMA SeqIsFunction ==
  ASSUME NEW S, NEW s \in Seq(S)
  PROVE  s = [i \in 1..Len(s) |-> s[i]]
<1>1. s \in [1..Len(s) -> S]
  OBVIOUS
<1> QED BY <1>1

LEMMA MoveFirst ==
  ASSUME NEW S, NEW p \in Seq(S), NEW q \in Seq(S), p # <<>>, Once(p, q)
  PROVE  /\ Once(Tail(p), Append(q, Head(p)))
         /\ Range(Tail(p)) \subseteq Range(p)
         /\ Range(Append(q, Head(p))) \subseteq Range(p) \cup Range(q)
<1>1. /\ Head(p) \in S /\ Head(p) \in Range(p) /\ Range(Tail(p)) \subseteq Range(p)
      /\ IsInjective(Tail(p)) /\ Head(p) \notin Range(Tail(p))
  BY Dequeue DEF Once
<1>2. /\ Range(Append(q, Head(p))) = Range(q) \cup {Head(p)}
      /\ IsInjective(Append(q, Head(p)))
  BY <1>1, Enqueue DEF Once
<1> QED BY <1>1, <1>2 DEF Once

LEMMA LeftPairsAre ==
  ASSUME NEW id \in Requests, NEW left \in Seq(Events)
  PROVE  /\ PairsOf(id, left) \in Seq(Pairs)
         /\ \A p \in Range(PairsOf(id, left)) : p[1] = id /\ p[2] \in Range(left)
         /\ \A e \in Range(left) : <<id, e>> \in Range(PairsOf(id, left))
         /\ IsInjective(left) => IsInjective(PairsOf(id, left))
         /\ left # <<>> =>
              /\ PairsOf(id, left) # <<>>
              /\ Head(PairsOf(id, left)) = <<id, Head(left)>>
              /\ Tail(PairsOf(id, left)) = PairsOf(id, Tail(left))
<1>1. /\ Len(left) \in Nat /\ DOMAIN left = 1..Len(left)
      /\ \A i \in 1..Len(left) : left[i] \in Events
  OBVIOUS
<1>2. PairsOf(id, left) \in [1..Len(left) -> Pairs]
  BY <1>1 DEF PairsOf, Pairs
<1>3. PairsOf(id, left) \in Seq(Pairs) /\ Len(PairsOf(id, left)) = Len(left)
  BY <1>1, <1>2
<1>4. \A i \in 1..Len(left) : PairsOf(id, left)[i] = <<id, left[i]>>
  BY <1>1 DEF PairsOf
<1>5. DOMAIN PairsOf(id, left) = 1..Len(left)
  BY <1>2
<1>6. \A p \in Range(PairsOf(id, left)) : p[1] = id /\ p[2] \in Range(left)
  BY <1>1, <1>4, <1>5 DEF Range
<1>7. \A e \in Range(left) : <<id, e>> \in Range(PairsOf(id, left))
  BY <1>1, <1>4, <1>5 DEF Range
<1>8. IsInjective(left) => IsInjective(PairsOf(id, left))
  BY <1>1, <1>4, <1>5 DEF IsInjective
<1>9. ASSUME left # <<>>
      PROVE  /\ PairsOf(id, left) # <<>>
             /\ Head(PairsOf(id, left)) = <<id, Head(left)>>
             /\ Tail(PairsOf(id, left)) = PairsOf(id, Tail(left))
  <2>1. Len(left) > 0 /\ 1 \in 1..Len(left) /\ Head(left) = left[1]
    BY <1>1, <1>9
  <2>2. PairsOf(id, left) # <<>> /\ Head(PairsOf(id, left)) = PairsOf(id, left)[1]
    BY <1>3, <2>1
  <2>3. /\ Tail(left) \in Seq(Events) /\ DOMAIN Tail(left) = 1..(Len(left) - 1)
        /\ \A i \in 1..(Len(left) - 1) : Tail(left)[i] = left[i + 1] /\ i + 1 \in 1..Len(left)
    BY <1>9, <1>1
  <2>4. /\ Tail(PairsOf(id, left)) \in Seq(Pairs) /\ Len(Tail(PairsOf(id, left))) = Len(left) - 1
        /\ \A i \in 1..(Len(left) - 1) : Tail(PairsOf(id, left))[i] = PairsOf(id, left)[i + 1]
    BY <1>3, <2>2
  <2>6. Tail(PairsOf(id, left)) = [i \in 1..(Len(left) - 1) |-> Tail(PairsOf(id, left))[i]]
    BY <2>4, SeqIsFunction
  <2>5. Tail(PairsOf(id, left)) = PairsOf(id, Tail(left))
    BY <1>4, <2>3, <2>4, <2>6 DEF PairsOf
  <2> QED BY <1>4, <2>1, <2>2, <2>5
<1> QED BY <1>3, <1>6, <1>7, <1>8, <1>9

LEMMA NoPairs ==
  ASSUME NEW id PROVE PairsOf(id, <<>>) = <<>> /\ Range(PairsOf(id, <<>>)) = {}
                      /\ IsInjective(PairsOf(id, <<>>))
BY DEF PairsOf, Range, IsInjective

LEMMA OutPairsAre ==
  ASSUME NEW out \in Seq(Outcomes)
  PROVE  /\ PairsIn(out) \in Seq(Pairs) /\ DOMAIN PairsIn(out) = DOMAIN out
         /\ \A i \in DOMAIN out : PairsIn(out)[i] = <<out[i].id, out[i].event>>
         /\ out # <<>> => /\ PairsIn(out) # <<>> /\ 1 \in DOMAIN out
                          /\ Head(PairsIn(out)) = <<Head(out).id, Head(out).event>>
                          /\ Head(PairsIn(out)) = PairsIn(out)[1]
                          /\ Tail(PairsIn(out)) = PairsIn(Tail(out))
         /\ \A o \in Outcomes :
              PairsIn(Append(out, o)) = Append(PairsIn(out), <<o.id, o.event>>)
<1>1. /\ Len(out) \in Nat /\ DOMAIN out = 1..Len(out)
      /\ \A i \in 1..Len(out) : out[i] \in Outcomes
  OBVIOUS
<1>2. PairsIn(out) \in [1..Len(out) -> Pairs]
  BY <1>1 DEF PairsIn, Pairs, Outcomes
<1>3. PairsIn(out) \in Seq(Pairs) /\ Len(PairsIn(out)) = Len(out) /\ DOMAIN PairsIn(out) = DOMAIN out
  BY <1>1, <1>2
<1>4. \A i \in 1..Len(out) : PairsIn(out)[i] = <<out[i].id, out[i].event>>
  BY <1>1 DEF PairsIn
<1>5. ASSUME out # <<>>
      PROVE  /\ PairsIn(out) # <<>> /\ 1 \in DOMAIN out
             /\ Head(PairsIn(out)) = <<Head(out).id, Head(out).event>>
             /\ Head(PairsIn(out)) = PairsIn(out)[1]
             /\ Tail(PairsIn(out)) = PairsIn(Tail(out))
  <2>1. Len(out) > 0 /\ 1 \in 1..Len(out) /\ Head(out) = out[1]
    BY <1>1, <1>5
  <2>2. PairsIn(out) # <<>> /\ Head(PairsIn(out)) = PairsIn(out)[1]
    BY <1>3, <2>1
  <2>3. /\ Tail(out) \in Seq(Outcomes) /\ DOMAIN Tail(out) = 1..(Len(out) - 1)
        /\ \A i \in 1..(Len(out) - 1) : Tail(out)[i] = out[i + 1] /\ i + 1 \in 1..Len(out)
    BY <1>1, <1>5
  <2>4. /\ Tail(PairsIn(out)) \in Seq(Pairs) /\ Len(Tail(PairsIn(out))) = Len(out) - 1
        /\ \A i \in 1..(Len(out) - 1) : Tail(PairsIn(out))[i] = PairsIn(out)[i + 1]
    BY <1>3, <2>2
  <2>6. Tail(PairsIn(out)) = [i \in 1..(Len(out) - 1) |-> Tail(PairsIn(out))[i]]
    BY <2>4, SeqIsFunction
  <2>5. Tail(PairsIn(out)) = PairsIn(Tail(out))
    BY <1>4, <2>3, <2>4, <2>6 DEF PairsIn
  <2> QED BY <1>1, <1>4, <2>1, <2>2, <2>5
<1>6. ASSUME NEW o \in Outcomes
      PROVE  PairsIn(Append(out, o)) = Append(PairsIn(out), <<o.id, o.event>>)
  <2>1. /\ DOMAIN Append(out, o) = 1..(Len(out) + 1)
        /\ \A i \in 1..(Len(out) + 1) :
             Append(out, o)[i] = IF i = Len(out) + 1 THEN o ELSE out[i]
    BY <1>1
  <2>2. /\ DOMAIN Append(PairsIn(out), <<o.id, o.event>>) = 1..(Len(out) + 1)
        /\ \A i \in 1..(Len(out) + 1) :
             Append(PairsIn(out), <<o.id, o.event>>)[i]
               = IF i = Len(out) + 1 THEN <<o.id, o.event>> ELSE PairsIn(out)[i]
    BY <1>3
  <2>3. <<o.id, o.event>> \in Pairs
    BY DEF Pairs, Outcomes
  <2>4. Append(PairsIn(out), <<o.id, o.event>>) \in Seq(Pairs)
    BY <1>3, <2>3
  <2>5. PairsIn(Append(out, o))
          = [i \in 1..(Len(out) + 1) |-> <<Append(out, o)[i].id, Append(out, o)[i].event>>]
    BY <2>1 DEF PairsIn
  <2>6. \A i \in 1..(Len(out) + 1) :
          <<Append(out, o)[i].id, Append(out, o)[i].event>>
             = Append(PairsIn(out), <<o.id, o.event>>)[i]
    <3> TAKE i \in 1..(Len(out) + 1)
    <3>1. CASE i = Len(out) + 1
      BY <2>1, <2>2, <3>1
    <3>2. CASE i # Len(out) + 1
      <4>1. i \in 1..Len(out)
        BY <1>1, <3>2
      <4> QED BY <1>4, <2>1, <2>2, <3>2, <4>1
    <3> QED BY <3>1, <3>2
  <2>7. Append(PairsIn(out), <<o.id, o.event>>)
          = [i \in 1..(Len(out) + 1) |-> Append(PairsIn(out), <<o.id, o.event>>)[i]]
    BY <2>2, <2>4
  <2> QED BY <2>5, <2>6, <2>7
<1> QED BY <1>1, <1>3, <1>4, <1>5, <1>6

\* Taking an alert from the head leaves the events where they are.
LEMMA TakesKeepsPairs ==
  ASSUME outbox \in Seq(Outcomes), outbox # <<>>, NEW a, Takes(a)
  PROVE  /\ OutPairs' = OutPairs /\ outbox' \in Seq(Outcomes) /\ DOMAIN outbox' = DOMAIN outbox
         /\ outbox'[1].id = outbox[1].id /\ outbox'[1].alerts = outbox[1].alerts \ {a}
         /\ \A i \in DOMAIN outbox : i # 1 => outbox'[i] = outbox[i]
         /\ \A i \in DOMAIN outbox : outbox'[i].id = outbox[i].id
<1> DEFINE o == [outbox[1] EXCEPT !.alerts = @ \ {a}]
<1>1. outbox[1] \in Outcomes /\ 1 \in DOMAIN outbox
  BY Dequeue
<1>2. o \in Outcomes /\ o.id = outbox[1].id /\ o.event = outbox[1].event
      /\ o.alerts = outbox[1].alerts \ {a}
  BY <1>1 DEF Outcomes
<1>3. outbox' = [outbox EXCEPT ![1] = o]
  BY DEF Takes
<1> HIDE DEF o
<1>4. /\ outbox' \in Seq(Outcomes) /\ DOMAIN outbox' = DOMAIN outbox
      /\ outbox'[1] = o /\ \A i \in DOMAIN outbox : i # 1 => outbox'[i] = outbox[i]
  BY <1>2, <1>3, ReplaceFirst
<1>5. \A i \in DOMAIN outbox : outbox'[i].id = outbox[i].id /\ outbox'[i].event = outbox[i].event
  BY <1>2, <1>4
<1>6. OutPairs' = OutPairs
  BY <1>4, <1>5 DEF OutPairs, PairsIn
<1> QED BY <1>2, <1>4, <1>5, <1>6

\* The three queues, and what a step of another thread leaves true of them.
QueueInv == QueuedOnce /\ ReceiverHasHead /\ QueuedIsUnclaimed

LEMMA QueuesAre ==
  ASSUME PipelineTypeOK, ConnIsOfRequest
  PROVE  /\ LeftPairs \in Seq(Pairs) /\ channel \in Seq(Pairs) /\ OutPairs \in Seq(Pairs)
         /\ Range(LeftPairs) \subseteq Pairs /\ Range(channel) \subseteq Pairs
         /\ Range(OutPairs) \subseteq Pairs
<1>1. LeftPairs \in Seq(Pairs)
  <2>1. CASE conn.left = <<>>
    <3>1. LeftPairs = <<>> /\ <<>> \in Seq(Pairs)
      BY <2>1, NoPairs DEF LeftPairs
    <3> QED BY <3>1
  <2>2. CASE conn.left # <<>>
    <3>1. conn.id \in Requests /\ conn.left \in Seq(Events)
      BY <2>2, QueueTypes DEF ConnIsOfRequest
    <3> QED BY <3>1, LeftPairsAre DEF LeftPairs
  <2> QED BY <2>1, <2>2
<1>2. channel \in Seq(Pairs)
  BY QueueTypes DEF Pairs
<1>3. OutPairs \in Seq(Pairs)
  BY QueueTypes, OutPairsAre DEF OutPairs
<1>4. ASSUME NEW s \in Seq(Pairs) PROVE Range(s) \subseteq Pairs
  BY DEF Range
<1> QED BY <1>1, <1>2, <1>3, <1>4

ClaimsKept == \A p \in Pairs : Unclaimed(p) => Unclaimed(p)'

LEMMA OthersAreNotHttp ==
  Sock # Http /\ Llm \notin Events /\ Http \notin LlmWorkers /\ Sock \notin LlmWorkers
BY ConstantsAssumption DEF ConstantsAssumption

LEMMA BeginReviewKeeps ==
  ASSUME TypeOK, NEW t \in Threads, t # Http, NEW r \in Requests, NEW v,
         Begin(t, r, Llm, "storing", v)
  PROVE  work'[Http] = work[Http] /\ ClaimsKept
<1>1. work'[Http] = work[Http]
  BY ThreadsFacts DEF Begin, TypeOK
<1>2. unclaimed' = [unclaimed EXCEPT ![r] = @ \ {Llm}] /\ unclaimed \in [Requests -> SUBSET Signals]
  BY DEF Begin, TypeOK
<1>3. ASSUME NEW q \in Requests, NEW e \in Events, e \in unclaimed[q] PROVE e \in unclaimed'[q]
  BY <1>2, <1>3, OthersAreNotHttp
<1>4. ASSUME NEW p \in Pairs PROVE p[1] \in Requests /\ p[2] \in Events
  BY DEF Pairs
<1> QED BY <1>1, <1>3, <1>4 DEF ClaimsKept, Unclaimed

\* The work of the broker that a thread has begun claims nothing.
LEMMA WorksKeeps ==
  ASSUME TypeOK, ReceiverHasHead, NEW t \in Threads, BrokerWorks(t)
  PROVE  /\ UNCHANGED unclaimed
         /\ \/ work'[Http] = work[Http]
            \/ /\ work[Http].pc # "reporting"
               /\ work'[Http].pc \in {"idle", "unsealed", "sealing"}
<1>1. UNCHANGED unclaimed
  BY DEF BrokerWorks, Completes, Reviews, SignalComplete, TryHold, DenyUnsealed, Seal, StoreReview,
         ApplyReview, plan
<1>2. CASE t # Http
  BY <1>1, <1>2, ThreadsFacts
  DEF TypeOK, BrokerWorks, Completes, Reviews, SignalComplete, TryHold, Hold, DenyUnsealed, Seal,
      StoreReview, ApplyReview, Finish, GoTo
<1>3. CASE t = Http
  <2>1. /\ work[Http].pc \in {"idle", "holding", "unsealed", "sealing"}
        /\ TryHold(Http) \/ DenyUnsealed(Http) \/ Seal(Http)
    BY <1>3 DEF ReceiverHasHead, BrokerWorks, Completes, Reviews, SignalComplete, Reports, TryHold,
                DenyUnsealed, Seal, StoreReview, ApplyReview
  <2>2. ASSUME Finish(Http) PROVE work'[Http].pc = "idle"
    BY <2>2, FinishJob, IdleJob, ThreadsFacts
  <2>3. ASSUME TryHold(Http), ~Finish(Http) PROVE work'[Http].pc \in {"unsealed", "sealing"}
    <3>1. /\ "unsealed" \in SignalPCs /\ "sealing" \in SignalPCs
          /\ work[Http].pc \in SignalPCs
      BY <2>3 DEF SignalPCs, TryHold
    <3>2. GoTo(Http, "unsealed") \/ GoTo(Http, "sealing")
      BY <2>3 DEF TryHold, Hold
    <3> QED BY <3>1, <3>2, GoToJob, ThreadsFacts
  <2> QED BY <1>1, <2>1, <2>2, <2>3 DEF DenyUnsealed, Seal
<1> QED BY <1>1, <1>2, <1>3

\* What is queued stays unclaimed as long as the receiver is at the same event.
LEMMA QueuesStay ==
  ASSUME PipelineTypeOK, ConnIsOfRequest, QueueInv, OutPairs' = OutPairs,
         outbox # <<>> => outbox' # <<>>, QueuedOnce',
         Range(LeftPairs') \cup Range(channel') \subseteq Range(LeftPairs) \cup Range(channel),
         ClaimsKept, work'[Http] = work[Http]
  PROVE  QueueInv'
<1>1. ReceiverHasHead'
  BY DEF QueueInv, ReceiverHasHead, AtReceiver
<1>2. \A p \in Range(LeftPairs') \cup Range(channel') : Unclaimed(p)'
  BY QueuesAre DEF QueueInv, QueuedIsUnclaimed, ClaimsKept
<1>3. \A p \in Range(OutPairs') : Unclaimed(p)' \/ AtReceiver(p)'
  BY QueuesAre DEF QueueInv, QueuedIsUnclaimed, ClaimsKept, AtReceiver
<1> QED BY <1>1, <1>2, <1>3 DEF QueueInv, QueuedIsUnclaimed

\* The queues themselves are as before, or the request in hand gives up its events.
LEMMA SameQueues ==
  ASSUME PipelineTypeOK, ConnIsOfRequest, QueueInv, UNCHANGED outbox, UNCHANGED channel,
         LeftPairs' = LeftPairs \/ LeftPairs' = <<>>,
         ClaimsKept, work'[Http] = work[Http]
  PROVE  QueueInv'
<1>1. OutPairs' = OutPairs
  BY DEF OutPairs
<1>2. CASE LeftPairs' = LeftPairs
  BY <1>1, <1>2, QueuesStay DEF QueueInv, QueuedOnce
<1>3. CASE LeftPairs' = <<>>
  BY <1>1, <1>3, EmptyRange, QueuesStay DEF QueueInv, QueuedOnce, Once
<1> QED BY <1>2, <1>3

LEMMA VarsKeep ==
  ASSUME UNCHANGED vars PROVE work'[Http] = work[Http] /\ ClaimsKept
BY DEF vars, plan, ClaimsKept, Unclaimed

LEMMA AcceptsQueues ==
  ASSUME PipelineTypeOK, ConnIsOfRequest, SignalsHaveOneBringer, QueueInv,
         NEW r \in Requests, Accepts(r)
  PROVE  QueueInv'
<1>1. PICK S \in SUBSET Signals :
         /\ expected[r] = {} /\ expected' = [expected EXCEPT ![r] = S]
         /\ unclaimed' = [unclaimed EXCEPT ![r] = S]
  BY DEF Accepts, Register
<1>2. /\ expected'[r] = S /\ unclaimed'[r] = S /\ unclaimed[r] = {} /\ outstanding[r] = {}
      /\ \A q \in Requests : q # r => unclaimed'[q] = unclaimed[q]
  BY <1>1 DEF PipelineTypeOK, TypeOK, SignalsHaveOneBringer
<1>3. \A p \in Pairs : AtReceiver(p) => p[1] # r
  BY <1>2, ThreadsFacts DEF AtReceiver, SignalsHaveOneBringer, Brings, Reporting
<1>4. \A p \in Range(channel) \cup Range(OutPairs) : p[1] # r /\ p[1] \in Requests
  BY <1>2, <1>3, QueuesAre DEF QueueInv, QueuedIsUnclaimed, Unclaimed, Pairs
<1>5. UNCHANGED <<channel, outbox, work>> /\ OutPairs' = OutPairs
      /\ conn'.id = r /\ conn'.left = Seqs!SetToSeq(S \cap Events)
  BY <1>2 DEF Accepts, Register, OutPairs
<1>6. conn'.left \in Seq(Events) /\ IsInjective(conn'.left)
      /\ \A e \in Range(conn'.left) : e \in S
  <2>1. conn'.left \in Seq(S \cap Events) /\ IsInjective(conn'.left)
    BY <1>5, EventsOnce
  <2> QED BY <2>1 DEF Range
<1>7. /\ IsInjective(LeftPairs')
      /\ \A p \in Range(LeftPairs') : p[1] = r /\ p[2] \in S
  <2>1. LeftPairs' = PairsOf(r, conn'.left)
    BY <1>5 DEF LeftPairs
  <2> DEFINE left == conn'.left
  <2>2. left \in Seq(Events) /\ IsInjective(left) /\ \A e \in Range(left) : e \in S
    BY <1>6
  <2> HIDE DEF left
  <2>3. IsInjective(PairsOf(r, left)) /\ \A p \in Range(PairsOf(r, left)) : p[1] = r /\ p[2] \in S
    BY <2>2, LeftPairsAre
  <2> QED BY <2>1, <2>3 DEF left
<1>8. QueuedOnce'
  BY <1>4, <1>5, <1>7 DEF QueueInv, QueuedOnce, Once
<1>9. ReceiverHasHead'
  BY <1>5 DEF QueueInv, ReceiverHasHead, AtReceiver
<1>10. QueuedIsUnclaimed'
  <2>1. \A p \in Range(LeftPairs') : Unclaimed(p)'
    BY <1>2, <1>7 DEF Unclaimed
  <2>2. \A p \in Range(channel') : Unclaimed(p)'
    BY <1>2, <1>4, <1>5 DEF Unclaimed, QueueInv, QueuedIsUnclaimed
  <2>3. \A p \in Range(OutPairs') : Unclaimed(p)' \/ AtReceiver(p)'
    BY <1>2, <1>4, <1>5 DEF Unclaimed, QueueInv, QueuedIsUnclaimed, AtReceiver
  <2> QED BY <2>1, <2>2, <2>3 DEF QueuedIsUnclaimed
<1> QED BY <1>8, <1>9, <1>10 DEF QueueInv

LEMMA NextConnHasNothing == conn' = NextConn => LeftPairs' = <<>>
BY NoPairs DEF LeftPairs, NextConn, NoConn

LEMMA EmitsQueues ==
  ASSUME PipelineTypeOK, ConnIsOfRequest, QueueInv, Emits
  PROVE  QueueInv'
<1>1. CASE conn.left = <<>> /\ conn' = NextConn /\ UNCHANGED <<vars, channel>>
  BY <1>1, NextConnHasNothing, VarsKeep, SameQueues DEF Emits
<1>2. CASE /\ conn.left # <<>> /\ channel' = Append(channel, <<conn.id, Head(conn.left)>>)
           /\ conn' = [conn EXCEPT !.left = Tail(@)] /\ UNCHANGED vars
  <2>1. conn.id \in Requests /\ conn.left \in Seq(Events)
    BY <1>2, QueueTypes DEF ConnIsOfRequest
  <2>2. conn'.id = conn.id /\ conn'.left = Tail(conn.left)
    BY <1>2 DEF PipelineTypeOK
  <2>3. /\ LeftPairs # <<>> /\ LeftPairs' = Tail(LeftPairs)
        /\ channel' = Append(channel, Head(LeftPairs))
    <3>1. LeftPairs' = PairsOf(conn.id, Tail(conn.left))
      BY <2>2 DEF LeftPairs
    <3>2. /\ PairsOf(conn.id, conn.left) # <<>>
          /\ Head(PairsOf(conn.id, conn.left)) = <<conn.id, Head(conn.left)>>
          /\ Tail(PairsOf(conn.id, conn.left)) = PairsOf(conn.id, Tail(conn.left))
      BY <1>2, <2>1, LeftPairsAre
    <3> QED BY <1>2, <3>1, <3>2 DEF LeftPairs
  <2>4. OutPairs' = OutPairs /\ UNCHANGED outbox
    BY DEF Emits, OutPairs
  <2>5. /\ Once(LeftPairs', channel')
        /\ Range(LeftPairs') \subseteq Range(LeftPairs)
        /\ Range(channel') \subseteq Range(LeftPairs) \cup Range(channel)
    BY <2>3, QueuesAre, MoveFirst DEF QueueInv, QueuedOnce
  <2>6. QueuedOnce'
    BY <2>4, <2>5 DEF QueueInv, QueuedOnce, Once
  <2> QED BY <1>2, <2>4, <2>5, <2>6, VarsKeep, QueuesStay
<1>3. CASE /\ conn.left # <<>> /\ ChannelFull(conn.id, conn.left) /\ conn' = NextConn
           /\ UNCHANGED channel
  <2>1. conn.id \in Requests /\ conn.left \in Seq(Events)
    BY <1>3, QueueTypes DEF ConnIsOfRequest
  <2>2. /\ unclaimed' = [unclaimed EXCEPT ![conn.id] = @ \ Seqs!ToSet(conn.left)]
        /\ UNCHANGED work
    BY <1>3 DEF ChannelFull, EventQueueFull
  <2>3. UNCHANGED outbox /\ OutPairs' = OutPairs /\ LeftPairs' = <<>>
    BY <1>3, NextConnHasNothing DEF Emits, OutPairs
  <2>4. Seqs!ToSet(conn.left) = Range(conn.left)
    BY DEF Seqs!ToSet, Range
  <2>5. \A p \in Pairs \ Range(LeftPairs) : Unclaimed(p) => Unclaimed(p)'
    <3> SUFFICES ASSUME NEW p \in Pairs, p \notin Range(LeftPairs), Unclaimed(p)
                 PROVE  Unclaimed(p)'
      OBVIOUS
    <3>1. p[1] = conn.id => p[2] \notin Seqs!ToSet(conn.left)
      BY <2>1, <2>4, LeftPairsAre DEF LeftPairs, Pairs
    <3>2. p[1] \in Requests /\ unclaimed \in [Requests -> SUBSET Signals]
      BY DEF Pairs, PipelineTypeOK, TypeOK
    <3> QED BY <2>2, <3>1, <3>2 DEF Unclaimed
  <2>6. QueuedOnce'
    BY <1>3, <2>3, EmptyRange DEF QueueInv, QueuedOnce, Once
  <2>7. ReceiverHasHead'
    BY <2>2, <2>3 DEF QueueInv, ReceiverHasHead, AtReceiver
  <2>8. QueuedIsUnclaimed'
    <3>1. \A p \in Range(channel) \cup Range(OutPairs) : p \in Pairs \ Range(LeftPairs)
      BY QueuesAre DEF QueueInv, QueuedOnce, Once
    <3>2. \A p \in Range(LeftPairs') \cup Range(channel') : Unclaimed(p)'
      BY <1>3, <2>3, <2>5, <3>1, EmptyRange DEF QueueInv, QueuedIsUnclaimed
    <3>3. \A p \in Range(OutPairs') : Unclaimed(p)' \/ AtReceiver(p)'
      BY <2>2, <2>3, <2>5, <3>1 DEF QueueInv, QueuedIsUnclaimed, AtReceiver
    <3> QED BY <3>2, <3>3 DEF QueuedIsUnclaimed
  <2> QED BY <2>6, <2>7, <2>8 DEF QueueInv
<1> QED BY <1>1, <1>2, <1>3 DEF Emits

LEMMA EngineQueues ==
  ASSUME PipelineTypeOK, ConnIsOfRequest, QueueInv, EngineEvaluates
  PROVE  QueueInv'
<1> PICK M \in SUBSET Rules :
       outbox' = Append(outbox, [id |-> Head(channel)[1], event |-> Head(channel)[2], alerts |-> M])
  BY DEF EngineEvaluates
<1> DEFINE o == [id |-> Head(channel)[1], event |-> Head(channel)[2], alerts |-> M]
<1>1. /\ channel # <<>> /\ channel' = Tail(channel) /\ UNCHANGED vars
      /\ LeftPairs' = LeftPairs /\ outbox' = Append(outbox, o)
  BY DEF EngineEvaluates, LeftPairs
<1>2. Head(channel) \in Pairs
  BY <1>1, QueuesAre, Dequeue
<1>3. o \in Outcomes /\ <<o.id, o.event>> = Head(channel)
  BY <1>2 DEF Pairs, Outcomes
<1> HIDE DEF o
<1>4. OutPairs' = Append(OutPairs, Head(channel))
  <2>1. PairsIn(Append(outbox, o)) = Append(PairsIn(outbox), <<o.id, o.event>>)
    BY <1>3, QueueTypes, OutPairsAre
  <2> QED BY <1>1, <1>3, <2>1 DEF OutPairs
<1>5. /\ Once(channel', OutPairs') /\ Range(channel') \subseteq Range(channel)
      /\ Range(OutPairs') \subseteq Range(channel) \cup Range(OutPairs)
  BY <1>1, <1>4, QueuesAre, MoveFirst DEF QueueInv, QueuedOnce
<1>6. QueuedOnce'
  BY <1>1, <1>5 DEF QueueInv, QueuedOnce, Once
<1>7. ReceiverHasHead'
  <2>1. UNCHANGED work
    BY <1>1 DEF vars
  <2>2. outbox # <<>> => OutPairs'[1] = OutPairs[1] /\ outbox' # <<>>
    <3> SUFFICES ASSUME outbox # <<>> PROVE OutPairs'[1] = OutPairs[1] /\ outbox' # <<>>
      OBVIOUS
    <3>1. OutPairs # <<>> /\ OutPairs \in Seq(Pairs) /\ outbox \in Seq(Outcomes)
      BY QueueTypes, OutPairsAre DEF OutPairs
    <3> QED BY <1>1, <1>2, <1>3, <1>4, <3>1
  <2> QED BY <2>1, <2>2 DEF QueueInv, ReceiverHasHead, AtReceiver
<1>8. QueuedIsUnclaimed'
  <2>1. \A p : (Unclaimed(p) <=> Unclaimed(p)') /\ (AtReceiver(p) <=> AtReceiver(p)')
    BY <1>1 DEF vars, plan, Unclaimed, AtReceiver
  <2> QED BY <1>1, <1>5, <2>1 DEF QueueInv, QueuedIsUnclaimed
<1> QED BY <1>6, <1>7, <1>8 DEF QueueInv

LEMMA ReceiverBeginsQueues ==
  ASSUME PipelineTypeOK, ConnIsOfRequest, QueueInv, ReceiverBegins
  PROVE  QueueInv'
<1>0. outbox # <<>>
  BY DEF ReceiverBegins
<1> PICK r \in Requests, e \in Events : r = Head(outbox).id /\ e = Head(outbox).event
  BY <1>0, HeadOutbox
<1>1. /\ outbox # <<>> /\ Begin(Http, r, e, "reporting", NoVerdict)
      /\ LeftPairs' = LeftPairs /\ OutPairs' = OutPairs /\ UNCHANGED <<channel, outbox>>
  BY DEF ReceiverBegins, AlertsBegin, queues, LeftPairs, OutPairs
<1>2. r \in Requests /\ e \in Events /\ e \in Signals
  BY DEF Signals
<1>3. /\ 1 \in DOMAIN OutPairs /\ OutPairs[1] = <<r, e>> /\ <<r, e>> \in Pairs
  <2>1. /\ DOMAIN OutPairs = DOMAIN outbox /\ 1 \in DOMAIN outbox
        /\ Head(OutPairs) = <<r, e>> /\ Head(OutPairs) = OutPairs[1]
    BY <1>1, QueueTypes, OutPairsAre DEF OutPairs
  <2> QED BY <1>2, <2>1 DEF Pairs
<1>4. work[Http] = Idle /\ unclaimed' = [unclaimed EXCEPT ![r] = @ \ {e}]
  BY <1>1 DEF Begin
<1>5. work'[Http].pc = "reporting" /\ work'[Http].id = r /\ work'[Http].signal = e
  <2>1. TypeOK /\ "reporting" \in SignalPCs
    BY DEF PipelineTypeOK, SignalPCs
  <2> QED BY <1>1, <1>2, <2>1, ThreadsFacts, VerdictNames, BeginJob
<1>6. \A p \in Pairs : ~AtReceiver(p)
  BY <1>4, IdleJob DEF AtReceiver
<1>7. ASSUME NEW p \in Pairs, p # <<r, e>>, Unclaimed(p) PROVE Unclaimed(p)'
  <2>1. p[1] \in Requests /\ p[2] \in Events /\ (p[1] # r \/ p[2] # e)
    BY <1>7 DEF Pairs
  <2> QED BY <1>2, <1>4, <1>7, <2>1 DEF Unclaimed, PipelineTypeOK, TypeOK
<1>8. <<r, e>> \in Range(OutPairs)
  BY <1>3 DEF Range
<1>9. QueuedOnce' /\ ReceiverHasHead'
  BY <1>1, <1>3, <1>5 DEF QueueInv, QueuedOnce, ReceiverHasHead, AtReceiver
<1>10. \A p \in Range(LeftPairs') \cup Range(channel') : Unclaimed(p)'
  <2>1. \A p \in Range(LeftPairs) \cup Range(channel) : p # <<r, e>> /\ p \in Pairs
    BY <1>8, QueuesAre DEF QueueInv, QueuedOnce, Once
  <2> QED BY <1>1, <1>7, <2>1 DEF QueueInv, QueuedIsUnclaimed
<1>11. \A p \in Range(OutPairs') : Unclaimed(p)' \/ AtReceiver(p)'
  <2>1. AtReceiver(<<r, e>>)'
    BY <1>5 DEF AtReceiver
  <2>2. \A p \in Range(OutPairs) : p \in Pairs /\ Unclaimed(p)
    BY <1>6, QueuesAre DEF QueueInv, QueuedIsUnclaimed
  <2> QED BY <1>1, <1>7, <2>1, <2>2
<1> QED BY <1>9, <1>10, <1>11 DEF QueueInv, QueuedIsUnclaimed

LEMMA SeenQueues ==
  ASSUME PipelineTypeOK, ConnIsOfRequest, QueueInv, SeenArrives
  PROVE  QueueInv'
<1>1. /\ outbox # <<>> /\ outbox' = Tail(outbox) /\ UNCHANGED channel /\ LeftPairs' = LeftPairs
      /\ SignalComplete(Http) \/ SeenAlertLost
  BY DEF SeenArrives, LeftPairs
<1>2. work[Http].pc = "reporting"
  BY <1>1 DEF QueueInv, ReceiverHasHead, SignalComplete, Reports, SeenAlertLost
<1>3. UNCHANGED unclaimed
  BY <1>1 DEF SignalComplete, SeenAlertLost, plan
<1>4. work'[Http].pc \in {"idle", "holding", "sealing"}
  <2>1. Finish(Http) => work'[Http].pc = "idle"
    BY FinishJob, IdleJob, ThreadsFacts DEF PipelineTypeOK
  <2>2. GoTo(Http, AfterLastSignal) => work'[Http].pc = AfterLastSignal
    <3>1. AfterLastSignal \in SignalPCs /\ work[Http].pc \in SignalPCs
      BY <1>2 DEF AfterLastSignal, SignalPCs
    <3> QED BY <3>1, GoToJob, ThreadsFacts DEF PipelineTypeOK
  <2> QED BY <1>1, <2>1, <2>2 DEF SignalComplete, SeenAlertLost, AfterLastSignal
<1>5. /\ OutPairs # <<>> /\ OutPairs' = Tail(OutPairs) /\ Head(OutPairs) = OutPairs[1]
  BY <1>1, QueueTypes, OutPairsAre DEF OutPairs
<1>6. /\ Range(OutPairs') \subseteq Range(OutPairs) /\ IsInjective(OutPairs')
      /\ OutPairs[1] \notin Range(OutPairs') /\ Head(OutPairs) \in Range(OutPairs)
  BY <1>5, QueuesAre, Dequeue DEF QueueInv, QueuedOnce, Once
<1>7. QueuedOnce' /\ ReceiverHasHead'
  BY <1>1, <1>4, <1>6 DEF QueueInv, QueuedOnce, Once, ReceiverHasHead
<1>8. \A p \in Range(OutPairs') : Unclaimed(p)'
  <2> SUFFICES ASSUME NEW p \in Range(OutPairs') PROVE Unclaimed(p)
    BY <1>3 DEF Unclaimed
  <2>1. ASSUME AtReceiver(p) PROVE p = OutPairs[1]
    <3>1. AtReceiver(OutPairs[1]) /\ p \in Pairs /\ OutPairs[1] \in Pairs
      BY <1>2, <1>5, <1>6, QueuesAre DEF QueueInv, ReceiverHasHead
    <3>2. p[1] = OutPairs[1][1] /\ p[2] = OutPairs[1][2]
      BY <2>1, <3>1 DEF AtReceiver
    <3>3. \A x, y \in Pairs : x[1] = y[1] /\ x[2] = y[2] => x = y
      BY DEF Pairs
    <3> QED BY <3>1, <3>2, <3>3
  <2> QED BY <1>6, <2>1 DEF QueueInv, QueuedIsUnclaimed
<1>9. \A p \in Range(LeftPairs') \cup Range(channel') : Unclaimed(p)'
  BY <1>1, <1>3 DEF QueueInv, QueuedIsUnclaimed, Unclaimed
<1> QED BY <1>7, <1>8, <1>9 DEF QueueInv, QueuedIsUnclaimed

LEMMA AlertsQueues ==
  ASSUME PipelineTypeOK, ConnIsOfRequest, QueueInv, NEW a \in Rules, Delivers(a) \/ Loses(a)
  PROVE  QueueInv'
<1>1. /\ outbox # <<>> /\ Takes(a) /\ UNCHANGED <<conn, channel, work, unclaimed>>
  BY DEF Delivers, Loses, DenyAlert, AskAlert, vars, plan
<1>2. OutPairs' = OutPairs /\ outbox' # <<>> /\ LeftPairs' = LeftPairs
  <2>1. OutPairs' = OutPairs /\ DOMAIN outbox' = DOMAIN outbox /\ 1 \in DOMAIN outbox
    BY <1>1, QueueTypes, TakesKeepsPairs, Dequeue
  <2> QED BY <1>1, <2>1 DEF LeftPairs
<1>3. ClaimsKept
  BY <1>1 DEF ClaimsKept, Unclaimed
<1>4. QueuedOnce'
  BY <1>1, <1>2 DEF QueueInv, QueuedOnce
<1> QED BY <1>1, <1>2, <1>3, <1>4, QueuesStay

\* An event is at one place, the receiver at the first of its own, and nothing
\* that is queued has been claimed by another thread.
LEMMA QueuesNext ==
  ASSUME PipelineTypeOK, ConnIsOfRequest, SignalsHaveOneBringer, QueueInv, [PipelineNext]_pvars
  PROVE  QueueInv'
<1> USE DEF queues, facts
<1>1. ASSUME NEW r \in Requests, Accepts(r) PROVE QueueInv'
  BY <1>1, AcceptsQueues
<1>2. ASSUME NEW r \in Requests, TurnsAway(r) PROVE QueueInv'
  <2>1. UNCHANGED vars /\ conn' = NextConn /\ UNCHANGED <<channel, outbox>>
    BY <1>2 DEF TurnsAway
  <2> QED BY <2>1, VarsKeep, NextConnHasNothing, SameQueues
<1>3. ASSUME Submits PROVE QueueInv'
  <2>1. conn.id \in Requests
    BY <1>3 DEF Submits, ConnIsOfRequest
  <2>2. LeftPairs' = LeftPairs /\ UNCHANGED <<channel, outbox>>
    BY <1>3 DEF Submits, LeftPairs, PipelineTypeOK
  <2>3. ASSUME JobsFull(conn.id) PROVE work'[Http] = work[Http] /\ ClaimsKept
    <3>1. PICK v : Begin(Sock, conn.id, Llm, "storing", v)
      BY <2>3 DEF JobsFull, ReviewQueueFull
    <3> QED BY <2>1, <3>1, OthersAreNotHttp, ThreadsFacts, BeginReviewKeeps DEF PipelineTypeOK
  <2> QED BY <1>3, <2>2, <2>3, VarsKeep, SameQueues DEF Submits
<1>4. ASSUME NEW w \in LlmWorkers, NEW r \in Requests, ReviewBegin(w, r)
      PROVE  work'[Http] = work[Http] /\ ClaimsKept
  <2>1. PICK v : Begin(w, r, Llm, "storing", v)
    BY <1>4 DEF ReviewBegin
  <2>2. w # Http /\ w \in Threads
    BY OthersAreNotHttp, ThreadsFacts
  <2> QED BY <2>1, <2>2, BeginReviewKeeps DEF PipelineTypeOK
<1>5. ASSUME NEW w \in LlmWorkers, TakesJob(w) \/ ModelReplies(w) \/ ModelFails(w)
      PROVE  QueueInv'
  <2>1. LeftPairs' = LeftPairs /\ UNCHANGED <<channel, outbox>>
    BY <1>5 DEF TakesJob, ModelReplies, ModelFails, LeftPairs
  <2>2. UNCHANGED vars \/ \E r \in Requests : ReviewBegin(w, r)
    <3>1. CASE TakesJob(w)
      <4>1. Head(jobs) \in Requests
        BY <3>1, QueueTypes, Dequeue DEF TakesJob
      <4> QED BY <3>1, <4>1 DEF TakesJob
    <3>2. CASE ModelReplies(w) \/ ModelFails(w)
      <4>1. Reviewing(w) /\ ReviewBegin(w, review[w].id)
        BY <3>2 DEF ModelReplies, ModelFails, ReviewEnds
      <4> QED BY <4>1, QueueTypes
    <3> QED BY <1>5, <3>1, <3>2
  <2> QED BY <1>4, <2>1, <2>2, VarsKeep, SameQueues
<1>6. ASSUME NEW t \in Threads, BrokerWorks(t) PROVE QueueInv'
  <2>1. /\ LeftPairs' = LeftPairs /\ OutPairs' = OutPairs /\ UNCHANGED <<channel, outbox>>
    BY <1>6 DEF BrokerWorks, LeftPairs, OutPairs
  <2>2. UNCHANGED unclaimed
        /\ (work'[Http] = work[Http]
            \/ (work[Http].pc # "reporting" /\ work'[Http].pc \in {"idle", "unsealed", "sealing"}))
    BY <1>6, WorksKeeps DEF PipelineTypeOK, QueueInv
  <2>3. CASE work'[Http] = work[Http]
    BY <2>1, <2>2, <2>3, SameQueues DEF ClaimsKept, Unclaimed
  <2>4. CASE work[Http].pc # "reporting" /\ work'[Http].pc \in {"idle", "unsealed", "sealing"}
    BY <2>1, <2>2, <2>4 DEF QueueInv, QueuedOnce, ReceiverHasHead, QueuedIsUnclaimed, Unclaimed,
                            AtReceiver
  <2> QED BY <2>2, <2>3, <2>4
<1>7. ASSUME NEW w \in LlmWorkers, ModelRetried(w) \/ WorkerEnds(w) PROVE QueueInv'
  BY <1>7, VarsKeep, SameQueues DEF ModelRetried, WorkerEnds, LeftPairs
<1>8. ASSUME HttpEnds \/ SocketEnds \/ Stops \/ UNCHANGED pvars PROVE QueueInv'
  <2>1. UNCHANGED vars /\ UNCHANGED <<channel, outbox>>
    BY <1>8 DEF HttpEnds, SocketEnds, Stops, pvars
  <2>2. LeftPairs' = LeftPairs
    BY <1>8 DEF HttpEnds, SocketEnds, Stops, pvars, LeftPairs, PipelineTypeOK
  <2> QED BY <2>1, <2>2, VarsKeep, SameQueues
<1> QED
  BY <1>1, <1>2, <1>3, <1>5, <1>6, <1>7, <1>8, EmitsQueues, EngineQueues, ReceiverBeginsQueues,
     SeenQueues, AlertsQueues, ThreadsFacts
  DEF PipelineNext, Socket, Receiver, Worker

(***************************************************************************)
(* The other parts of the invariant.                                       *)
(***************************************************************************)
LEMMA NobodySignsNext ==
  ASSUME TypeOK, Acts, NobodySigns PROVE NobodySigns'
<1> DEFINE Fine == work'[Sock].pc # "resolving"
<1> USE ThreadsFacts DEF clock, draft, conf, plan
<1>1. signed' = signed
  BY DEF Acts, vars, Register, ReviewQueueFull, AlertsBegin, EventQueueFull, ReviewBegin, Completes,
         Reviews, SignalComplete, TryHold, DenyUnsealed, Seal, StoreReview, ApplyReview, DenyAlert,
         AskAlert, SeenAlertLost
<1>2. ASSUME UNCHANGED work PROVE Fine
  BY <1>2 DEF NobodySigns
<1>3. ASSUME NEW t \in Threads, Finish(t) PROVE Fine
  BY <1>3, FinishJob, IdleJob DEF NobodySigns
<1>4. ASSUME NEW t \in Threads, NEW pc \in SignalPCs, work[t].pc \in SignalPCs, GoTo(t, pc)
      PROVE  Fine
  BY <1>4, GoToJob DEF NobodySigns, SignalPCs
<1>5. ASSUME NEW t \in Threads, NEW r \in Requests, NEW s \in Signals,
             NEW pc \in {"reporting", "storing"}, NEW v, Begin(t, r, s, pc, v)
      PROVE  Fine
  BY <1>5 DEF Begin, NobodySigns, TypeOK
<1>6. ASSUME NEW t \in Threads, Completes(t) \/ Reviews(t) PROVE Fine
  <2>1. Finish(t) \/ \E pc \in SignalPCs : GoTo(t, pc)
    BY <1>6 DEF Completes, Reviews, SignalComplete, TryHold, Hold, DenyUnsealed, Seal, StoreReview,
                ApplyReview, AfterLastSignal, SignalPCs
  <2>2. work[t].pc \in SignalPCs
    BY <1>6 DEF Completes, Reviews, SignalComplete, Reports, TryHold, DenyUnsealed, Seal,
                StoreReview, ApplyReview, SignalPCs
  <2> QED BY <1>3, <1>4, <2>1, <2>2
<1>7. ASSUME NEW r \in Requests,
             \/ Register(r) \/ ReviewQueueFull(r)
             \/ \E e \in Events : AlertsBegin(r, e)
             \/ \E D \in SUBSET Events : EventQueueFull(r, D)
             \/ \E w \in LlmWorkers : ReviewBegin(w, r)
      PROVE  Fine
  BY <1>2, <1>5, <1>7
  DEF Register, ReviewQueueFull, AlertsBegin, EventQueueFull, ReviewBegin, Signals
<1>8. ASSUME DenyAlert \/ AskAlert \/ SeenAlertLost \/ UNCHANGED vars PROVE Fine
  BY <1>2, <1>3, <1>8 DEF DenyAlert, AskAlert, SeenAlertLost, vars
<1> QED BY <1>1, <1>6, <1>7, <1>8 DEF Acts, NobodySigns

\* An entry leaves the map by the thread that completes it.
LEMMA EntriesLeave ==
  ASSUME TypeOK, Acts, NEW r \in Requests, r \in pending, r \notin pending'
  PROVE  \E t \in Threads : Completing(t, r)
<1> USE ThreadsFacts DEF clock, draft, conf, plan
<1>1. ASSUME NEW t \in Threads, DenyUnsealed(t) \/ Seal(t) PROVE Completing(t, r)
  BY <1>1 DEF DenyUnsealed, Seal, AnswerAndSeal, Remove, Completing
<1>2. ASSUME NEW q \in Requests, Register(q) PROVE r \in pending'
  BY <1>2 DEF Register, RegisterPending, RegisterPassthrough
<1> QED BY <1>1, <1>2 DEF Acts, vars, ReviewQueueFull, AlertsBegin, EventQueueFull, ReviewBegin,
         Completes, Reviews, SignalComplete, TryHold, StoreReview, ApplyReview, DenyAlert,
         AskAlert, SeenAlertLost

LEMMA GoneNext ==
  ASSUME IInv, [Next]_vars, Acts, GoneIsComplete PROVE GoneIsComplete'
<1> SUFFICES ASSUME mode' # "passthrough", NEW r \in Requests, Registered(r)', r \notin pending'
             PROVE  outstanding'[r] = {}
  BY DEF GoneIsComplete
<1> USE DEF IInv, CoreInv
<1>1. mode' = mode /\ PlanMoves(r) /\ RequestMoves(r)
  BY ModeStays, PlanStep, RequestStep
<1>2. ASSUME Registered(r), outstanding[r] = {} PROVE outstanding'[r] = {}
  BY <1>1, <1>2 DEF PlanMoves, Registers
<1>3. CASE r \in pending
  <2>1. PICK t \in Threads : Completing(t, r)
    BY <1>3, EntriesLeave
  <2>2. outstanding[r] = {} /\ Registered(r)
    BY <1>3, <2>1 DEF CountIsOutstanding, StreamUntilAnswered
  <2> QED BY <1>2, <2>2
<1>4. CASE r \notin pending /\ Registered(r)
  BY <1>1, <1>2, <1>4 DEF GoneIsComplete
<1>5. CASE ~Registered(r)
  <2>1. expected'[r] # expected[r]
    BY <1>5 DEF Registered
  <2>2. Opens(r) \/ PassesThrough(r)
    BY <1>1, <2>1, <1>5 DEF RequestMoves, Untouched, EntryStays, TakesDeny, TakesAsk, StoresReview,
       IsHeld, IsRefused, IsSealed, IsResolved, IsReaped, Leaves
  <2> QED BY <1>1, <2>2 DEF Opens, PassesThrough
<1> QED BY <1>3, <1>4, <1>5

LEMMA HitsGrow ==
  ASSUME IInv, [Next]_vars, NEW r \in Requests PROVE hits[r] \subseteq hits'[r]
<1>1. RequestMoves(r)
  BY RequestStep DEF IInv, CoreInv
<1> QED BY <1>1 DEF RequestMoves, Untouched, HitsUntouched, Opens, PassesThrough, TakesDeny, TakesAsk,
           HitTaken, StoresReview, IsHeld, IsRefused, IsSealed, IsResolved, IsReaped, Leaves

\* A thread that comes to store a verdict is a worker of the monitor, or the
\* socket thread at a full queue.
NoNewAllow ==
  \A t \in Threads : work'[t].pc = "storing" /\ work'[t].verdict = "allow" =>
    work'[t] = work[t] \/ work'[t].id \in approved'

LEMMA BeginReviewAllows ==
  ASSUME TypeOK, NEW t \in Threads, NEW r \in Requests, NEW v \in LlmVerdicts,
         Begin(t, r, Llm, "storing", v), v = "allow" => r \in approved'
  PROVE  NoNewAllow
<1>1. Llm \in Signals /\ "storing" \in SignalPCs
  BY DEF Signals, SignalPCs
<1>2. /\ \A w \in Threads : w # t => work'[w] = work[w]
      /\ work'[t].id = r /\ work'[t].verdict = v
  BY <1>1, BeginJob
<1> QED BY <1>2 DEF NoNewAllow

LEMMA NoReviewNoAllow ==
  ASSUME TypeOK, [Next]_vars,
         \A r \in Requests : Llm \in unclaimed[r] => Llm \in unclaimed'[r],
         \A t \in Threads : work'[t].pc = "storing" => work'[t].id \in Requests
  PROVE  NoNewAllow
<1> SUFFICES ASSUME NEW t \in Threads, work'[t].pc = "storing" PROVE work'[t] = work[t]
  BY DEF NoNewAllow
<1>1. JobMoves(t)
  BY JobMove
<1>2. ~StartsReview(t)
  BY DEF StartsReview
<1> QED BY <1>1, <1>2, IdleJob DEF JobMoves, Ends, StartsAlerts, Advances, AfterLastSignal

LEMMA ReviewAllows ==
  ASSUME TypeOK, NEW w \in LlmWorkers, NEW r \in Requests, ReviewBegin(w, r),
         work'[w].verdict = "allow" => r \in approved'
  PROVE  NoNewAllow
<1>1. PICK v \in LlmVerdicts : Begin(w, r, Llm, "storing", v)
  BY DEF ReviewBegin
<1>2. work'[w].verdict = v
  <2>1. Llm \in Signals /\ "storing" \in SignalPCs
    BY DEF Signals, SignalPCs
  <2> QED BY <1>1, <2>1, BeginJob, ThreadsFacts
<1> QED BY <1>1, <1>2, BeginReviewAllows, ThreadsFacts

LEMMA NoNewAllowStep ==
  ASSUME PipelineTypeOK, ConnIsOfRequest, [PipelineNext]_pvars
  PROVE  NoNewAllow
<1>0. TypeOK /\ [Next]_vars
  BY BrokerStep DEF PipelineTypeOK
<1>00. OnError # "allow"
  BY PipelineAssumption
<1>1. ASSUME \A r \in Requests : Llm \in unclaimed[r] => Llm \in unclaimed'[r] PROVE NoNewAllow
  <2>1. TypeOK'
    BY <1>0, TypeNext
  <2>2. \A t \in Threads : work'[t].pc = "storing" => work'[t].id \in Requests
    <3>1. ASSUME NEW t \in Threads, work'[t].pc = "storing" PROVE work'[t].id \in Requests
      <4>1. work'[t] \in Jobs
        BY <2>1 DEF TypeOK
      <4>2. work'[t] # Idle
        BY <3>1, IdleJob
      <4> QED BY <4>1, <4>2 DEF Jobs, SignalJobs, SignoffJobs
    <3> QED BY <3>1
  <2> QED BY <1>0, <1>1, <2>2, NoReviewNoAllow
<1>2. ASSUME UNCHANGED work PROVE NoNewAllow
  BY <1>2 DEF NoNewAllow
<1>3. ASSUME UNCHANGED vars PROVE NoNewAllow
  BY <1>2, <1>3 DEF vars
<1> USE DEF queues, facts
<1>4. ASSUME NEW r \in Requests, Accepts(r) \/ TurnsAway(r) PROVE NoNewAllow
  BY <1>2, <1>3, <1>4 DEF Accepts, TurnsAway, Register
<1>5. ASSUME Submits PROVE NoNewAllow
  <2>1. conn.id \in Requests
    BY <1>5 DEF Submits, ConnIsOfRequest
  <2>2. ASSUME JobsFull(conn.id) PROVE NoNewAllow
    <3>1. PICK v \in {"ask", "deny"} : Begin(Sock, conn.id, Llm, "storing", v)
      BY <2>2 DEF JobsFull, ReviewQueueFull
    <3>2. v \in LlmVerdicts /\ v # "allow"
      BY DEF LlmVerdicts
    <3> QED BY <1>0, <2>1, <3>1, <3>2, BeginReviewAllows, ThreadsFacts
  <2> QED BY <1>3, <1>5, <2>2 DEF Submits
<1>6. ASSUME Emits PROVE NoNewAllow
  BY <1>2, <1>3, <1>6 DEF Emits, ChannelFull, EventQueueFull
<1>7. ASSUME ReceiverBegins PROVE NoNewAllow
  <2>1. PICK e \in Events, r \in Requests : unclaimed' = [unclaimed EXCEPT ![r] = @ \ {e}]
    BY <1>7, HeadOutbox DEF ReceiverBegins, AlertsBegin, Begin
  <2>2. \A q \in Requests : Llm \in unclaimed[q] => Llm \in unclaimed'[q]
    BY <1>0, <2>1, OthersAreNotHttp DEF TypeOK
  <2> QED BY <1>1, <2>2
<1>8. ASSUME NEW a \in Rules, Delivers(a) \/ Loses(a) PROVE NoNewAllow
  BY <1>2, <1>3, <1>8 DEF Delivers, Loses, DenyAlert, AskAlert
<1>9. ASSUME SeenArrives PROVE NoNewAllow
  <2>1. UNCHANGED unclaimed
    BY <1>9 DEF SeenArrives, SignalComplete, SeenAlertLost, plan
  <2> QED BY <1>1, <2>1
<1>10. ASSUME NEW t \in Threads, BrokerWorks(t) PROVE NoNewAllow
  <2>1. UNCHANGED unclaimed
    BY <1>10 DEF BrokerWorks, Completes, Reviews, SignalComplete, TryHold, DenyUnsealed, Seal,
                 StoreReview, ApplyReview, plan
  <2> QED BY <1>1, <2>1
<1>11. ASSUME NEW w \in LlmWorkers, TakesJob(w) PROVE NoNewAllow
  <2>1. Head(jobs) \in Requests
    BY <1>11, QueueTypes, Dequeue DEF TakesJob
  <2> QED BY <1>0, <1>00, <1>3, <1>11, <2>1, ReviewAllows DEF TakesJob
<1>12. ASSUME NEW w \in LlmWorkers, ModelFails(w) PROVE NoNewAllow
  <2>1. /\ ReviewBegin(w, review[w].id) /\ work'[w].verdict = OnError
        /\ review[w].id \in Requests
    BY <1>12, QueueTypes DEF ModelFails, ReviewEnds, VerdictWithoutReview
  <2> QED BY <1>0, <1>00, <2>1, ReviewAllows
<1>13. ASSUME NEW w \in LlmWorkers, ModelReplies(w) PROVE NoNewAllow
  <2>1. /\ ReviewBegin(w, review[w].id) /\ review[w].id \in Requests
        /\ work'[w].verdict = "allow" => review[w].id \in approved'
    BY <1>13, QueueTypes DEF ModelReplies, ReviewEnds
  <2> QED BY <1>0, <2>1, ReviewAllows
<1>14. ASSUME \/ EngineEvaluates \/ HttpEnds \/ SocketEnds \/ Stops \/ UNCHANGED pvars
              \/ \E w \in LlmWorkers : ModelRetried(w) \/ WorkerEnds(w)
       PROVE  NoNewAllow
  BY <1>3, <1>14 DEF EngineEvaluates, HttpEnds, SocketEnds, Stops, pvars, ModelRetried, WorkerEnds
<1> QED
  BY <1>4, <1>5, <1>6, <1>7, <1>8, <1>9, <1>10, <1>11, <1>12, <1>13, <1>14, ThreadsFacts
  DEF PipelineNext, Socket, Receiver, Worker

LEMMA ApprovedStays ==
  ASSUME [PipelineNext]_pvars PROVE approved \subseteq approved' /\ lost \subseteq lost'
BY DEF PipelineNext, Socket, Receiver, Worker, Accepts, TurnsAway, Submits, Emits, EngineEvaluates,
       ReceiverBegins, Delivers, Loses, LosesAlertOf, SeenArrives, TakesJob, ModelReplies,
       ModelRetried, ModelFails, BrokerWorks, Stops, HttpEnds, SocketEnds, WorkerEnds, facts, pvars

LEMMA AllowNext ==
  ASSUME IInv, PipelineTypeOK, ConnIsOfRequest, AllowIsModels, [PipelineNext]_pvars
  PROVE  AllowIsModels'
<1>0. [Next]_vars /\ NoNewAllow /\ approved \subseteq approved'
  BY BrokerStep, NoNewAllowStep, ApprovedStays
<1>1. ASSUME NEW r \in Requests, llm'[r] = "allow" PROVE r \in approved'
  <2>1. \/ llm'[r] = llm[r]
        \/ \E t \in Threads : StoreReview(t) /\ work[t].id = r /\ llm'[r] = work[t].verdict
    BY <1>0, LlmStep DEF IInv, CoreInv
  <2> QED BY <1>0, <1>1, <2>1 DEF AllowIsModels, StoreReview
<1>2. ASSUME NEW t \in Threads, work'[t].pc = "storing", work'[t].verdict = "allow"
      PROVE  work'[t].id \in approved'
  BY <1>0, <1>2 DEF NoNewAllow, AllowIsModels
<1> QED BY <1>1, <1>2 DEF AllowIsModels

\* What was to come still is, or has been taken: for a request that ruled says
\* nothing new about.
RuledStays(r) ==
  /\ ruled'[r] = ruled[r]
  /\ \A T \in {{"deny"}, {"deny", "ask"}} : ToCome(r, T) => ToCome(r, T)' \/ Hit(r, T)'

LEMMA RuledKept ==
  ASSUME IInv, [Next]_vars, RuledIsTaken, NEW r \in Requests \ lost, RuledStays(r),
         mode = "guardrails"
  PROVE  /\ ruled'[r] = "deny" => Hit(r, {"deny"})' \/ ToCome(r, {"deny"})'
         /\ ruled'[r] = "ask" => Hit(r, {"deny", "ask"})' \/ ToCome(r, {"deny", "ask"})'
<1>1. \A T : Hit(r, T) => Hit(r, T)'
  BY HitsGrow DEF Hit
<1> QED BY <1>1 DEF RuledStays, RuledIsTaken

LEMMA SameOutputRuledStays ==
  ASSUME UNCHANGED <<outbox, ruled>>, NEW r PROVE RuledStays(r)
BY DEF RuledStays, ToCome

LEMMA EngineRuled ==
  ASSUME IInv, PipelineTypeOK, [Next]_vars, RuledIsTaken, EngineEvaluates, mode = "guardrails",
         NEW r \in Requests \ lost
  PROVE  /\ ruled'[r] = "deny" => Hit(r, {"deny"})' \/ ToCome(r, {"deny"})'
         /\ ruled'[r] = "ask" => Hit(r, {"deny", "ask"})' \/ ToCome(r, {"deny", "ask"})'
<1> PICK M \in SUBSET Rules :
       /\ outbox' = Append(outbox, [id |-> Head(channel)[1], event |-> Head(channel)[2],
                                    alerts |-> M])
       /\ ruled' = [ruled EXCEPT ![Head(channel)[1]] =
                      IF M = {} THEN @ ELSE StricterOf(@, UNION M)]
  BY DEF EngineEvaluates
<1> DEFINE o == [id |-> Head(channel)[1], event |-> Head(channel)[2], alerts |-> M]
           q == Head(channel)[1]
<1>1. /\ q \in Requests /\ o \in Outcomes /\ o.id = q /\ o.alerts = M
      /\ outbox' = Append(outbox, o)
      /\ ruled'[r] = IF r = q /\ M # {} THEN StricterOf(ruled[r], UNION M) ELSE ruled[r]
  <2>1. Head(channel) \in Requests \X Events
    BY QueueTypes, Dequeue DEF EngineEvaluates
  <2> QED BY <2>1 DEF Outcomes, PipelineTypeOK
<1> HIDE DEF o, q
<1>2. /\ DOMAIN outbox \subseteq DOMAIN outbox'
      /\ \A i \in DOMAIN outbox : outbox'[i] = outbox[i]
      /\ Len(outbox) + 1 \in DOMAIN outbox' /\ outbox'[Len(outbox) + 1] = o
  BY <1>1, QueueTypes
<1>3. \A T : ToCome(r, T) => ToCome(r, T)'
  BY <1>2 DEF ToCome
<1>4. ASSUME NEW T, NEW a \in M, a \cap T # {}, r = q PROVE ToCome(r, T)'
  BY <1>1, <1>2, <1>4 DEF ToCome
<1>5. CASE ruled'[r] = ruled[r]
  BY <1>3, <1>5, RuledKept DEF RuledStays
<1>6. CASE r = q /\ M # {} /\ ruled'[r] = StricterOf(ruled[r], UNION M) /\ ruled'[r] # ruled[r]
  <2>1. CASE ruled'[r] = "deny"
    <3>1. "deny" \in UNION M
      BY <1>6, <2>1 DEF StricterOf
    <3>2. PICK a \in M : a \cap {"deny"} # {}
      BY <3>1
    <3> QED BY <1>4, <1>6, <2>1, <3>2
  <2>2. CASE ruled'[r] = "ask"
    <3>1. PICK a \in M : a \cap {"deny", "ask"} # {}
      BY <1>6, PipelineAssumption
    <3> QED BY <1>4, <1>6, <2>2, <3>1
  <2> QED BY <1>6, <2>1, <2>2 DEF StricterOf
<1> QED BY <1>1, <1>5, <1>6

LEMMA DeliversRuled ==
  ASSUME IInv, PipelineTypeOK, ConnIsOfRequest, QueueInv, GoneIsComplete, mode = "guardrails",
         NEW a \in Rules, Delivers(a), NEW r \in Requests
  PROVE  RuledStays(r)
<1>1. outbox # <<>> /\ Takes(a) /\ work[Http].pc = "reporting"
  BY DEF Delivers, DenyAlert, AskAlert
<1>2. work[Http].id \in Requests /\ work[Http].pc \in Reporting
  BY <1>1, SignalJob, ThreadsFacts DEF IInv, CoreInv, TypeOK, SignalPCs, Reporting
<1> PICK q \in Requests : q = work[Http].id
  BY <1>2
<1>3. outbox[1].id = q
  <2>1. OutPairs[1] = <<outbox[1].id, outbox[1].event>>
    BY <1>1, QueueTypes, OutPairsAre, Dequeue DEF OutPairs
  <2> QED BY <1>1, <2>1 DEF QueueInv, ReceiverHasHead, AtReceiver
<1>4. q \in pending
  <2>1. outstanding[q] # {} /\ Registered(q)
    BY <1>2, ThreadsFacts DEF IInv, CoreInv, SignalsHaveOneBringer, Brings, Registered
  <2> QED BY <1>2, <2>1 DEF GoneIsComplete
<1>5. \A T \in {{"deny"}, {"deny", "ask"}} : a \cap T # {} => Hit(q, T)'
  <2>1. hits \in [Requests -> SUBSET Hits]
    BY DEF IInv, CoreInv, TypeOK
  <2>2. ASSUME NEW kind \in {"deny", "ask"},
               hits' = [hits EXCEPT ![q] = @ \cup {[source |-> "falco", kind |-> kind]}]
        PROVE  \A T : kind \in T => Hit(q, T)'
    <3> DEFINE h == [source |-> "falco", kind |-> kind]
    <3>1. h \in hits'[q] /\ h.kind = kind
      BY <1>2, <2>1, <2>2
    <3> QED BY <3>1 DEF Hit
  <2>3. CASE "deny" \in a
    <3>1. ClassifyTags(a) = "deny"
      BY <2>3 DEF ClassifyTags
    <3>2. hits' = [hits EXCEPT ![q] = @ \cup {[source |-> "falco", kind |-> "deny"]}]
      BY <1>4, <3>1 DEF Delivers, DenyAlert, ApplyDeny, RecordHit
    <3> QED BY <2>2, <3>2
  <2>4. CASE "deny" \notin a
    <3>1. ClassifyTags(a) = "ask" /\ a \cap {"deny"} = {}
      BY <2>4 DEF ClassifyTags
    <3>2. hits' = [hits EXCEPT ![q] = @ \cup {[source |-> "falco", kind |-> "ask"]}]
      BY <1>4, <3>1 DEF Delivers, AskAlert, ApplyAsk, RecordHit
    <3> QED BY <2>2, <3>1, <3>2
  <2> QED BY <2>3, <2>4
<1>6. ruled' = ruled
  BY DEF Delivers, facts
<1>7. ASSUME NEW T \in {{"deny"}, {"deny", "ask"}}, ToCome(r, T) PROVE ToCome(r, T)' \/ Hit(r, T)'
  <2>1. /\ DOMAIN outbox' = DOMAIN outbox /\ outbox'[1].alerts = outbox[1].alerts \ {a}
        /\ \A i \in DOMAIN outbox : outbox'[i].id = outbox[i].id /\ (i # 1 => outbox'[i] = outbox[i])
    BY <1>1, QueueTypes, TakesKeepsPairs
  <2>2. PICK i \in DOMAIN outbox : outbox[i].id = r /\ \E b \in outbox[i].alerts : b \cap T # {}
    BY <1>7 DEF ToCome
  <2> PICK b \in outbox[i].alerts : b \cap T # {}
    BY <2>2
  <2>3. CASE i # 1 \/ b # a
    <3>1. i \in DOMAIN outbox' /\ outbox'[i].id = r /\ b \in outbox'[i].alerts
      BY <2>1, <2>2, <2>3
    <3> QED BY <3>1 DEF ToCome
  <2>4. CASE i = 1 /\ b = a
    <3>1. r = q
      BY <1>3, <2>2, <2>4
    <3>2. Hit(q, T)'
      BY <1>5, <2>2, <2>4
    <3> QED BY <3>1, <3>2
  <2> QED BY <2>3, <2>4
<1> QED BY <1>6, <1>7 DEF RuledStays

LEMMA LosesRuled ==
  ASSUME PipelineTypeOK, NEW a \in Rules, Loses(a), NEW r \in Requests \ lost'
  PROVE  RuledStays(r)
<1>1. outbox # <<>> /\ Takes(a) /\ Head(outbox).id \in lost' /\ UNCHANGED ruled
  BY DEF Loses, LosesAlertOf
<1>2. /\ DOMAIN outbox' = DOMAIN outbox /\ outbox[1].id # r
      /\ \A i \in DOMAIN outbox : i # 1 => outbox'[i] = outbox[i]
  BY <1>1, QueueTypes, TakesKeepsPairs, HeadOutbox
<1>3. \A T : ToCome(r, T) => ToCome(r, T)'
  BY <1>2 DEF ToCome
<1> QED BY <1>1, <1>3 DEF RuledStays

LEMMA TailIs ==
  ASSUME NEW S, NEW s \in Seq(S), s # <<>>
  PROVE  /\ DOMAIN s = 1..Len(s) /\ Len(s) \in Nat /\ s[1] = Head(s)
         /\ DOMAIN Tail(s) = 1..(Len(s) - 1)
         /\ \A i \in 1..(Len(s) - 1) : Tail(s)[i] = s[i + 1]
OBVIOUS

LEMMA SeenRuled ==
  ASSUME PipelineTypeOK, SeenArrives, NEW r \in Requests
  PROVE  RuledStays(r)
<1>1. outbox # <<>> /\ outbox' = Tail(outbox) /\ Head(outbox).alerts = {} /\ UNCHANGED ruled
  BY DEF SeenArrives
<1>2. /\ outbox \in Seq(Outcomes) /\ DOMAIN outbox = 1..Len(outbox) /\ Len(outbox) \in Nat
      /\ DOMAIN outbox' = 1..(Len(outbox) - 1) /\ outbox[1].alerts = {}
      /\ \A i \in 1..(Len(outbox) - 1) : outbox'[i] = outbox[i + 1]
  <2>1. outbox \in Seq(Outcomes)
    BY QueueTypes
  <2> QED BY <1>1, <2>1, TailIs
<1>3. ASSUME NEW T, ToCome(r, T) PROVE ToCome(r, T)'
  <2>1. PICK i \in 1..Len(outbox) : /\ outbox[i].id = r
                                    /\ \E b \in outbox[i].alerts : b \cap T # {}
    BY <1>2, <1>3 DEF ToCome
  <2>2. i - 1 \in DOMAIN outbox' /\ outbox'[i - 1] = outbox[i]
    BY <1>2, <2>1
  <2> QED BY <2>1, <2>2 DEF ToCome
<1> QED BY <1>1, <1>3 DEF RuledStays

LEMMA RuledNext ==
  ASSUME IInv, PipelineTypeOK, ConnIsOfRequest, QueueInv, GoneIsComplete, RuledIsTaken,
         [PipelineNext]_pvars
  PROVE  RuledIsTaken'
<1>1. [Next]_vars /\ lost \subseteq lost' /\ mode' = mode
  BY BrokerStep, ApprovedStays, ModeStays
<1> SUFFICES ASSUME mode = "guardrails", NEW r \in Requests \ lost'
             PROVE  /\ ruled'[r] = "deny" => Hit(r, {"deny"})' \/ ToCome(r, {"deny"})'
                    /\ ruled'[r] = "ask" => Hit(r, {"deny", "ask"})' \/ ToCome(r, {"deny", "ask"})'
  BY <1>1 DEF RuledIsTaken
<1>2. r \in Requests \ lost
  BY <1>1
<1>3. CASE EngineEvaluates
  BY <1>1, <1>2, <1>3, EngineRuled
<1>4. ASSUME ~EngineEvaluates PROVE RuledStays(r)
  <2>1. CASE UNCHANGED <<outbox, ruled>>
    BY <2>1, SameOutputRuledStays
  <2>2. ASSUME NEW a \in Rules, Delivers(a) PROVE RuledStays(r)
    BY <1>2, <2>2, DeliversRuled
  <2>3. ASSUME NEW a \in Rules, Loses(a) PROVE RuledStays(r)
    BY <2>3, LosesRuled
  <2>4. CASE SeenArrives
    BY <1>2, <2>4, SeenRuled
  <2>5. \/ UNCHANGED <<outbox, ruled>> \/ SeenArrives
        \/ \E a \in Rules : Delivers(a) \/ Loses(a)
    BY <1>4 DEF PipelineNext, Socket, Receiver, Worker, Accepts, TurnsAway, Submits, Emits,
       ReceiverBegins, TakesJob, ModelReplies, ModelRetried, ModelFails, BrokerWorks, Stops,
       HttpEnds, SocketEnds, WorkerEnds, facts, queues, pvars
  <2> QED BY <2>1, <2>2, <2>3, <2>4, <2>5
<1> QED BY <1>1, <1>2, <1>3, <1>4, RuledKept

(***************************************************************************)
(* The theorems.                                                           *)
(***************************************************************************)
LEMMA PipelineInitInv == PipelineInit => PInv
<1> SUFFICES ASSUME PipelineInit PROVE PInv
  OBVIOUS
<1>1. IInv
  BY InvInit DEF PipelineInit
<1>2. /\ conn.left = <<>> /\ conn.id = None /\ conn.stage = "open" /\ conn = NoConn
      /\ channel = <<>> /\ outbox = <<>> /\ jobs = <<>>
  BY DEF PipelineInit, NoConn
<1>3. PipelineTypeOK
  <2>1. /\ EventCap \in Nat /\ JobCap \in Nat /\ Cardinality(Events) \in Nat
    BY PipelineAssumption, ConstantsAssumption, FS_CardinalityType
  <2>2. ASSUME NEW S, NEW n \in Nat PROVE <<>> \in Seqs!BoundedSeq(S, n)
    <3>1. <<>> \in Seq(S) /\ Len(<<>>) <= n
      OBVIOUS
    <3> QED BY <3>1, BoundedSeqIs
  <2>3. /\ <<>> \in Seqs!BoundedSeq(Events, Cardinality(Events))
        /\ <<>> \in Seqs!BoundedSeq(Requests \X Events, EventCap)
        /\ <<>> \in Seqs!BoundedSeq(Requests, JobCap)
        /\ <<>> \in Seq([id : Requests, event : Events, alerts : SUBSET Rules])
    <3> HIDE DEF Seqs!BoundedSeq
    <3> QED BY <2>1, <2>2
  <2>4. TypeOK
    BY <1>1 DEF IInv, CoreInv
  <2>5. conn \in [stage : {"open", "submit", "emit", "gone"}, id : Requests \cup {None},
               left : Seqs!BoundedSeq(Events, Cardinality(Events))]
    BY <1>2, <2>3 DEF NoConn
  <2> QED BY <1>2, <2>3, <2>4, <2>5 DEF PipelineInit, PipelineTypeOK
<1>4. QueueInv
  <2>1. work[Http].pc = "idle"
    BY IdleJob, ThreadsFacts DEF PipelineInit, Init
  <2>2. LeftPairs = <<>> /\ OutPairs = <<>>
    <3>1. LeftPairs = <<>>
      BY <1>2, NoPairs DEF LeftPairs
    <3>2. OutPairs = <<>>
      BY <1>2 DEF OutPairs, PairsIn
    <3> QED BY <3>1, <3>2
  <2> QED BY <1>2, <2>1, <2>2, EmptyRange
          DEF QueueInv, QueuedOnce, Once, ReceiverHasHead, QueuedIsUnclaimed
<1>5. NobodySigns /\ AllowIsModels /\ GoneIsComplete
  BY IdleJob, ThreadsFacts DEF PipelineInit, Init, NobodySigns, AllowIsModels, GoneIsComplete,
     Registered
<1>6. RuledIsTaken
  BY DEF PipelineInit, RuledIsTaken, NoVerdict
<1> QED BY <1>1, <1>2, <1>3, <1>4, <1>5, <1>6 DEF PInv, QueueInv, ConnIsOfRequest

LEMMA PipelineNextInv == PInv /\ [PipelineNext]_pvars => PInv'
<1> SUFFICES ASSUME PInv, [PipelineNext]_pvars PROVE PInv'
  OBVIOUS
<1> USE DEF PInv
<1>1. [Next]_vars /\ Acts
  BY BrokerStep, BrokerActs
<1>2. IInv'
  BY <1>1, InvNext
<1>3. PipelineTypeOK' /\ ConnIsOfRequest'
  BY PipelineTypeNext
<1>4. QueueInv'
  BY QueuesNext DEF QueueInv, IInv, CoreInv
<1>5. NobodySigns' /\ GoneIsComplete' /\ AllowIsModels'
  BY <1>1, NobodySignsNext, GoneNext, AllowNext DEF IInv, CoreInv
<1>6. RuledIsTaken'
  BY RuledNext DEF QueueInv
<1> QED BY <1>2, <1>3, <1>4, <1>5, <1>6 DEF QueueInv

\* What is in the output waits for a signal of its request.
LEMMA NothingToCome ==
  ASSUME PInv, NEW r \in Requests, outstanding[r] = {}, NEW T
  PROVE  ~ToCome(r, T)
<1> SUFFICES ASSUME NEW i \in DOMAIN outbox, outbox[i].id = r PROVE FALSE
  BY DEF ToCome
<1>1. OutPairs[i] \in Range(OutPairs) /\ OutPairs[i][1] = r
  BY QueueTypes, OutPairsAre DEF PInv, OutPairs, Range
<1>2. Unclaimed(OutPairs[i]) \/ AtReceiver(OutPairs[i])
  BY <1>1 DEF PInv, QueuedIsUnclaimed
<1>3. ~Unclaimed(OutPairs[i])
  BY <1>1 DEF PInv, IInv, CoreInv, SignalsHaveOneBringer, Unclaimed
<1>4. ~AtReceiver(OutPairs[i])
  BY <1>1, ThreadsFacts
  DEF PInv, IInv, CoreInv, SignalsHaveOneBringer, AtReceiver, Brings, Reporting
<1> QED BY <1>2, <1>3, <1>4

LEMMA StrictAsHits ==
  ASSUME PInv, mode = "guardrails", NEW r \in Requests, Answered(r)
  PROVE  /\ Answer(r) \in Verdicts
         /\ Raised(r, "deny") => Answer(r) = "deny"
         /\ Raised(r, "ask") => Answer(r) \in {"ask", "deny"}
<1>1. Answer(r) \in Verdicts
  BY DEF PInv, IInv, CoreInv, TypeOK, Answered, Answer
<1>2. Strictness(Answer(r)) >= Strictness(Strictest(r))
  BY DEF PInv, IInv, CoreInv, AnswerAsStrictAsSignals, NobodySigns
<1> QED BY <1>1, <1>2 DEF Strictest, Strictness

LEMMA StrictAsRules == PInv => StrictAsEngine
<1> SUFFICES ASSUME PInv, mode = "guardrails", NEW r \in Requests, Answered(r), r \notin lost
             PROVE  Strictness(Answer(r)) >= Strictness(ruled[r])
  BY DEF StrictAsEngine
<1>1. /\ Answer(r) \in Verdicts
      /\ Raised(r, "deny") => Answer(r) = "deny"
      /\ Raised(r, "ask") => Answer(r) \in {"ask", "deny"}
  BY StrictAsHits
<1>2. CASE Answer(r) = "deny"
  BY <1>2 DEF PInv, PipelineTypeOK, Strictness, NoVerdict
<1>3. CASE Answer(r) # "deny"
  <2>1. outstanding[r] = {}
    BY <1>3 DEF PInv, IInv, LenientAnswerIsComplete
  <2>2. ruled[r] \in {NoVerdict, "ask", "deny"}
    BY DEF PInv, PipelineTypeOK
  <2>3. ruled[r] = "deny" => Raised(r, "deny")
    BY <2>1, NothingToCome DEF PInv, RuledIsTaken, Hit, Raised
  <2>4. ruled[r] = "ask" => Raised(r, "deny") \/ Raised(r, "ask")
    BY <2>1, NothingToCome DEF PInv, RuledIsTaken, Hit, Raised
  <2> QED BY <1>1, <1>3, <2>2, <2>3, <2>4 DEF Strictness, NoVerdict, Verdicts
<1> QED BY <1>2, <1>3

LEMMA AllowedByModel == PInv => NoAllowUnreviewed
<1> SUFFICES ASSUME PInv, mode = "guardrails", NEW r \in Requests, Answered(r),
                    Llm \in expected[r], Answer(r) # "deny", Answer(r) # "ask"
             PROVE  r \in approved
  BY DEF NoAllowUnreviewed
<1>1. llm[r] # "none" /\ llm[r] \in LlmVerdicts
  BY DEF PInv, IInv, LenientAnswerIsComplete, CoreInv, TypeOK
<1>2. llm[r] # "deny" /\ llm[r] # "ask"
  BY StrictAsHits DEF Raised
<1> QED BY <1>1, <1>2 DEF PInv, AllowIsModels, LlmVerdicts

(* The plugin as a whole keeps every promise of the broker: each step of the
   socket thread, the receiver, the monitor and the shutdown is a step of the
   broker or leaves its variables alone (lib.rs on_init hands all of them the
   same Broker), so that what is proved of Broker holds around it.           *)
THEOREM PipelineIsBroker == PipelineSpec => Spec
<1>1. PipelineInit => Init
  BY DEF PipelineInit
<1>2. PInv /\ [PipelineNext]_pvars => [Next]_vars
  BY BrokerStep DEF PInv
<1> QED BY <1>1, <1>2, PipelineInitInv, PipelineNextInv, PTL DEF PipelineSpec, Spec

(* Under guardrails no tool call is answered more leniently than the strictest
   rule that matched one of its events, unless an alert was lost on the way:
   for any number of events, workers and rules, any length of the queues, and
   with the engine, the monitor and the stop at any point (socket_server.rs,
   source.rs next_batch, http_server.rs classify_tags).  Every queue keeps its
   limit.                                                                    *)
THEOREM StrictPipeline == PipelineSpec => []PipelineInv
<1>1. PInv => PipelineInv
  BY StrictAsRules DEF PInv, PipelineInv
<1> QED BY <1>1, PipelineInitInv, PipelineNextInv, PTL DEF PipelineSpec

(* A call the monitor reviews is let through only on the model's own word
   (monitor.rs run_worker, submit, error_outcome): not after a timeout, a reply
   that does not parse, a full queue or a shutdown.                          *)
THEOREM AllowedOnlyByModel == PipelineSpec => []NoAllowUnreviewed
<1>1. PInv => NoAllowUnreviewed
  BY AllowedByModel
<1> QED BY <1>1, PipelineInitInv, PipelineNextInv, PTL DEF PipelineSpec
===============================================================================
