-------------------------------- MODULE Broker --------------------------------
(***************************************************************************)
(* The verdict broker of the coding_agent plugin (broker.rs): the map of   *)
(* pending tool calls, and the threads that work on it.                    *)
(*                                                                         *)
(* A tool call is registered with the set of completion signals it waits   *)
(* for: one "seen" alert per synthetic event, and one from the LLM monitor *)
(* when that is enabled.  Three kinds of thread bring signals: the HTTP    *)
(* alert receiver, the LLM workers, and the socket thread itself when one  *)
(* of its two queues is full.  The socket thread also registers requests   *)
(* and carries the operator's sign-off commands; the reaper removes        *)
(* entries whose time has passed.                                          *)
(*                                                                         *)
(* Atomicity.  A DashMap Ref (from `get`) keeps the entry's shard read     *)
(* locked and `remove` needs the write lock, so no removal falls inside    *)
(* the body under one `get`.  Two such bodies may overlap; each field has  *)
(* its own mutex, so they end as if one had run after the other.  The body *)
(* under one `get` is therefore one step, and what a function does under   *)
(* two locks is two steps.  After `remove` the entry belongs to the        *)
(* remover alone: the response and the audit record that follow belong to  *)
(* the removing step.                                                      *)
(***************************************************************************)
EXTENDS Verdict, Sequences, FiniteSets

CONSTANTS Requests,      \* correlation ids
          Events,        \* the synthetic events one request can fan out to
          Llm,           \* the LLM monitor's completion signal
          Http,          \* the alert receiver thread
          Sock,          \* the socket server thread
          LlmWorkers,    \* the LLM monitor's worker threads
          None,
          AuditCanFail   \* may an append to the audit file fail?

Signals == Events \cup {Llm}
Threads == {Http, Sock} \cup LlmWorkers

ASSUME ConstantsAssumption ==
  /\ IsFiniteSet(Events)
  /\ Llm \notin Events
  /\ Http # Sock /\ Http \notin LlmWorkers /\ Sock \notin LlmWorkers
  /\ None \notin Requests /\ None \notin Signals
  /\ AuditCanFail \in BOOLEAN

VARIABLES
  mode, floor, signoff,  \* plugin configuration, fixed when the plugin starts
  pending,      \* keys of Broker::pending
  stream,       \* PendingRequest::stream is Some
  staged,       \* PendingRequest::current_verdict, with its source label
  remaining,    \* PendingRequest::remaining_signals
  held,         \* PendingRequest::held is Some
  hits,         \* AuditDraft::falco
  llm,          \* AuditDraft::llm.verdict
  final,        \* AuditDraft::final_verdict
  wire,         \* what has been written to each interceptor's connection
  trail,        \* the audit records of each request, in the order appended
  expected,     \* the signals a request was registered with
  outstanding,  \* those that have not reached the broker (waiting, under way or lost)
  unclaimed,    \* those no thread has started to report
  work,         \* what each thread is doing
  stale,        \* ids the current reaper pass has collected and not yet visited
  expired,      \* requests older than the pending TTL
  holdExpired,  \* requests held for longer than the sign-off TTL
  signed        \* requests whose record hash an enrolled key has signed

conf == <<mode, floor, signoff>>
draft == <<hits, llm, final>>
clock == <<expired, holdExpired>>
plan == <<expected, outstanding, unclaimed>>
vars == <<conf, pending, stream, staged, remaining, held, draft, wire, trail,
          plan, work, stale, clock, signed>>
-------------------------------------------------------------------------------
Sources == {"falco", "llm", "broker", "floor", "monitor", "passthrough",
            "signoff", "reaper"}
Unset == [verdict |-> NoVerdict, source |-> ""]
Sourced == {Unset} \cup [verdict : Verdicts, source : Sources]

Hits == [source : {"falco", "broker"}, kind : {"deny", "ask"}]
LlmVerdicts == {"none", "allow", "ask", "deny"}

RequestRecords == [kind : {"request"}, final : Sourced, awaiting : BOOLEAN,
                   hits : SUBSET Hits, llm : LlmVerdicts]
SignoffRecords == [kind : {"signoff"}, decision : {"approve", "deny", "expired"}]
Records == RequestRecords \cup SignoffRecords

SignalPCs == {"reporting", "storing", "applying", "signalling", "holding",
              "unsealed", "sealing"}
Idle == [pc |-> "idle", id |-> None, signal |-> None, verdict |-> NoVerdict]
SignalJobs == [pc : SignalPCs, id : Requests, signal : Signals, verdict : LlmVerdicts]
SignoffJobs == [pc : {"resolving"}, id : Requests, signal : {None},
                verdict : {"allow", "deny"}]
Jobs == {Idle} \cup SignalJobs \cup SignoffJobs

TypeOK ==
  /\ mode \in {"guardrails", "monitor", "passthrough"}
  /\ floor \in {"allow", "defer"}
  /\ signoff \in BOOLEAN
  /\ pending \subseteq Requests
  /\ stream \in [Requests -> BOOLEAN]
  /\ staged \in [Requests -> Sourced]
  /\ remaining \in [Requests -> Int]
  /\ held \in [Requests -> BOOLEAN]
  /\ hits \in [Requests -> SUBSET Hits]
  /\ llm \in [Requests -> LlmVerdicts]
  /\ final \in [Requests -> Sourced]
  /\ wire \in [Requests -> Seq(Verdicts)]
  /\ trail \in [Requests -> Seq(Records)]
  /\ expected \in [Requests -> SUBSET Signals]
  /\ outstanding \in [Requests -> SUBSET Signals]
  /\ unclaimed \in [Requests -> SUBSET Signals]
  /\ work \in [Threads -> Jobs]
  /\ stale \subseteq Requests
  /\ expired \subseteq Requests
  /\ holdExpired \subseteq Requests
  /\ signed \subseteq Requests

Init ==
  /\ mode \in {"guardrails", "monitor", "passthrough"}
  /\ floor \in {"allow", "defer"}
  /\ signoff \in BOOLEAN
  /\ pending = {}
  /\ stream = [r \in Requests |-> FALSE]
  /\ staged = [r \in Requests |-> Unset]
  /\ remaining = [r \in Requests |-> 0]
  /\ held = [r \in Requests |-> FALSE]
  /\ hits = [r \in Requests |-> {}]
  /\ llm = [r \in Requests |-> "none"]
  /\ final = [r \in Requests |-> Unset]
  /\ wire = [r \in Requests |-> <<>>]
  /\ trail = [r \in Requests |-> <<>>]
  /\ expected = [r \in Requests |-> {}]
  /\ outstanding = [r \in Requests |-> {}]
  /\ unclaimed = [r \in Requests |-> {}]
  /\ work = [t \in Threads |-> Idle]
  /\ stale = {}
  /\ expired = {}
  /\ holdExpired = {}
  /\ signed = {}
-------------------------------------------------------------------------------
(* The draft's final verdict is set once; later calls are ignored. *)
SetFinal(old, v, src) ==
  IF old = Unset THEN [verdict |-> v, source |-> src] ELSE old

\* Mutated form: the stream is not taken.
RespondKeepingStream(r, v, src) ==
  /\ UNCHANGED stream
  /\ wire' = IF stream[r] THEN [wire EXCEPT ![r] = Append(@, v)] ELSE wire
  /\ final' = IF stream[r] THEN [final EXCEPT ![r] = SetFinal(@, v, src)] ELSE final

\* Mutated form: every caller names its verdict in the draft, answered or not.
RespondNamingLast(r, v, src) ==
  /\ stream' = [stream EXCEPT ![r] = FALSE]
  /\ wire' = IF stream[r] THEN [wire EXCEPT ![r] = Append(@, v)] ELSE wire
  /\ final' = [final EXCEPT ![r] = [verdict |-> v, source |-> src]]

(* Respond once: whoever takes the stream writes the verdict and names it in
   the draft; for anybody else nothing happens.                              *)
Respond(r, v, src) ==
  /\ stream' = [stream EXCEPT ![r] = FALSE]
  /\ wire' = IF stream[r] THEN [wire EXCEPT ![r] = Append(@, v)] ELSE wire
  /\ final' = IF stream[r] THEN [final EXCEPT ![r] = SetFinal(@, v, src)] ELSE final

RequestRecord(f, awaiting, h, l) ==
  [kind |-> "request", final |-> f, awaiting |-> awaiting, hits |-> h, llm |-> l]

(* AuditSink::append: the record is at the end of the file, or the write
   failed and there is none.                                                 *)
AppendRecord(r, rec) == trail' = [trail EXCEPT ![r] = Append(@, rec)]
AuditAppend(r, rec) ==
  \/ AppendRecord(r, rec)
  \/ AuditCanFail /\ UNCHANGED trail

Remove(r) == pending' = pending \ {r}
-------------------------------------------------------------------------------
(* The socket thread registers a request and what it waits for: its events,
   and the LLM monitor unless it is disabled or skips this tool.  Passthrough
   answers at once, keeps no entry and never consults the monitor.           *)
RegisterPassthrough(r, S) ==
  /\ mode = "passthrough"
  /\ wire' = [wire EXCEPT ![r] = Append(@, "defer")]
  /\ final' = [final EXCEPT ![r] = SetFinal(@, "defer", "passthrough")]
  /\ AuditAppend(r, RequestRecord(final'[r], FALSE, hits[r], llm[r]))
  /\ UNCHANGED <<pending, stream, remaining>>

\* Mutated form: one signal is waited for, however many events there are.
RegisterForOneSignal(r, S) ==
  /\ mode # "passthrough"
  /\ pending' = pending \cup {r}
  /\ stream' = [stream EXCEPT ![r] = TRUE]
  /\ remaining' = [remaining EXCEPT ![r] = 1]
  /\ UNCHANGED <<wire, final, trail>>

\* Mutated form: the LLM monitor is counted whether or not it takes part.
RegisterForOneTooMany(r, S) ==
  /\ mode # "passthrough"
  /\ pending' = pending \cup {r}
  /\ stream' = [stream EXCEPT ![r] = TRUE]
  /\ remaining' = [remaining EXCEPT ![r] = Cardinality(S \ {Llm}) + 1]
  /\ UNCHANGED <<wire, final, trail>>

RegisterPending(r, S) ==
  /\ mode # "passthrough"
  /\ pending' = pending \cup {r}
  /\ stream' = [stream EXCEPT ![r] = TRUE]
  /\ remaining' = [remaining EXCEPT ![r] = Cardinality(S)]
  /\ UNCHANGED <<wire, final, trail>>

Register(r) ==
  /\ work[Sock] = Idle
  /\ expected[r] = {}
  /\ \E S \in SUBSET Signals :
       /\ S \cap Events # {}
       /\ mode = "passthrough" => Llm \notin S
       /\ expected' = [expected EXCEPT ![r] = S]
       /\ outstanding' = [outstanding EXCEPT ![r] = S]
       /\ unclaimed' = [unclaimed EXCEPT ![r] = S]
       /\ RegisterPassthrough(r, S) \/ RegisterPending(r, S)
  /\ UNCHANGED <<conf, staged, held, hits, llm, work, stale, clock, signed>>
-------------------------------------------------------------------------------

(* Broker::record_hit. *)
RecordHit(r, src, kind) ==
  IF src = "llm"
  THEN llm' = [llm EXCEPT ![r] = kind] /\ UNCHANGED hits
  ELSE hits' = [hits EXCEPT ![r] = @ \cup {[source |-> src, kind |-> kind]}] /\ UNCHANGED llm

(* Broker::apply_deny: deny wins immediately, the entry stays. *)
ApplyDeny(r, src) ==
  \/ r \notin pending /\ UNCHANGED <<draft, stream, wire>>
  \/ /\ r \in pending
     /\ RecordHit(r, src, "deny")
     /\ IF mode = "monitor"
        THEN UNCHANGED <<stream, wire, final>>
        ELSE Respond(r, "deny", src)

(* The staged verdict after one more ask: the source follows the survivor. *)
StageAsk(current, src) ==
  [verdict |-> Escalate(current.verdict, "ask"),
   source |-> IF Strictness(current.verdict) > 0 THEN current.source ELSE src]

(* Broker::apply_ask: stage, and wait for the completion signal. *)
ApplyAsk(r, src) ==
  \/ r \notin pending /\ UNCHANGED <<hits, llm, staged>>
  \/ /\ r \in pending
     /\ RecordHit(r, src, "ask")
     /\ staged' = IF mode = "monitor" THEN staged
                  ELSE [staged EXCEPT ![r] = StageAsk(@, src)]

(* The wire verdict has been written, or the entry is gone. *)
HasResponded(r) == r \notin pending \/ ~stream[r]

Begin(t, r, s, pc, v) ==
  /\ work[t] = Idle
  /\ s \in unclaimed[r]
  /\ unclaimed' = [unclaimed EXCEPT ![r] = @ \ {s}]
  /\ work' = [work EXCEPT ![t] = [pc |-> pc, id |-> r, signal |-> s, verdict |-> v]]

GoTo(t, pc) == work' = [work EXCEPT ![t].pc = pc]
Finish(t) == work' = [work EXCEPT ![t] = Idle]
-------------------------------------------------------------------------------
(* Falco's alerts for one event reach the receiver: any deny and ask alerts,
   then the seen alert -- or that one is lost on the way.                    *)
AlertsBegin(r, e) ==
  /\ e \in Events
  /\ Begin(Http, r, e, "reporting", NoVerdict)
  /\ UNCHANGED <<conf, pending, stream, staged, remaining, held, draft, wire, trail,
                 expected, outstanding, stale, clock, signed>>

DenyAlert ==
  /\ work[Http].pc = "reporting"
  /\ ApplyDeny(work[Http].id, "falco")
  /\ UNCHANGED <<conf, pending, staged, remaining, held, trail, plan, work, stale,
                 clock, signed>>

AskAlert ==
  /\ work[Http].pc = "reporting"
  /\ ApplyAsk(work[Http].id, "falco")
  /\ UNCHANGED <<conf, pending, stream, remaining, held, final, wire, trail, plan,
                 work, stale, clock, signed>>

SeenAlertLost ==
  /\ work[Http].pc = "reporting"
  /\ Finish(Http)
  /\ UNCHANGED <<conf, pending, stream, staged, remaining, held, draft, wire, trail,
                 plan, stale, clock, signed>>

(* The socket thread finds the event queue full: the events D, the first that
   does not fit and those after it, are not evaluated, so no seen alert will
   come for them, and the request is denied.                                 *)
EventQueueFull(r, D) ==
  /\ work[Sock] = Idle
  /\ D # {} /\ D \subseteq Events \cap unclaimed[r]
  /\ unclaimed' = [unclaimed EXCEPT ![r] = @ \ D]
  /\ ApplyDeny(r, "broker")
  /\ UNCHANGED <<conf, pending, staged, remaining, held, trail, expected, outstanding,
                 work, stale, clock, signed>>

(* An LLM worker is done with the job: it has skipped one that was answered when
   it looked, or comes back with a verdict (on_error's, if the call failed, or
   if the plugin is stopping) -- to a request that may be answered by now.    *)
ReviewBegin(w, r) ==
  /\ \E v \in LlmVerdicts : /\ v = "none" => HasResponded(r)
                            /\ Begin(w, r, Llm, "storing", v)
  /\ UNCHANGED <<conf, pending, stream, staged, remaining, held, draft, wire, trail,
                 expected, outstanding, stale, clock, signed>>

(* The LLM queue is full: the socket thread reports monitor.on_error itself. *)
ReviewQueueFull(r) ==
  /\ \E v \in {"ask", "deny"} : Begin(Sock, r, Llm, "storing", v)
  /\ UNCHANGED <<conf, pending, stream, staged, remaining, held, draft, wire, trail,
                 expected, outstanding, stale, clock, signed>>

(* Broker::apply_llm_outcome takes the entry three times: to store the
   outcome, to apply it, and to signal.                                      *)
StoreReview(t) ==
  /\ work[t].pc = "storing"
  /\ llm' = IF work[t].id \in pending
            THEN [llm EXCEPT ![work[t].id] = work[t].verdict] ELSE llm
  /\ GoTo(t, "applying")
  /\ UNCHANGED <<conf, pending, stream, staged, remaining, held, hits, final, wire,
                 trail, plan, stale, clock, signed>>

ApplyReview(t) ==
  /\ work[t].pc = "applying"
  /\ \/ /\ work[t].verdict = "deny"
        /\ ApplyDeny(work[t].id, "llm")
        /\ UNCHANGED staged
     \/ /\ work[t].verdict = "ask"
        /\ ApplyAsk(work[t].id, "llm")
        /\ UNCHANGED <<stream, wire, final>>
     \/ /\ work[t].verdict \notin {"deny", "ask"}
        /\ UNCHANGED <<draft, stream, wire, staged>>
  /\ GoTo(t, "signalling")
  /\ UNCHANGED <<conf, pending, remaining, held, trail, plan, stale, clock, signed>>
-------------------------------------------------------------------------------
(* Broker::signal_complete, step 1: count the signal.  The one that brings the
   count to zero goes on to complete the request.                            *)
Reports(t) == \/ t = Http /\ work[t].pc = "reporting"
              \/ work[t].pc = "signalling"

\* Mutated form: sign-off is not consulted.
AfterLastSignalNoHold == "sealing"

AfterLastSignal == IF mode # "monitor" /\ signoff THEN "holding" ELSE "sealing"

IsLast(r) == remaining[r] = 1

SignalComplete(t) ==
  /\ Reports(t)
  /\ LET r == work[t].id IN
     /\ outstanding' = [outstanding EXCEPT ![r] = @ \ {work[t].signal}]
     /\ IF r \in pending
        THEN remaining' = [remaining EXCEPT ![r] = @ - 1]
        ELSE UNCHANGED remaining
     /\ IF r \in pending /\ IsLast(r)
        THEN GoTo(t, AfterLastSignal)
        ELSE Finish(t)
  /\ UNCHANGED <<conf, pending, stream, staged, held, draft, wire, trail, expected,
                 unclaimed, stale, clock, signed>>

(* Broker::try_hold, under its one Ref: a staged ask that nobody has answered
   is sealed as pending and parked; without a sealed record it is refused.   *)
\* Mutated form: the check for an early answer is missing.
QualifiesThoughAnswered(r) == r \in pending /\ staged[r].verdict = "ask"

QualifiesForHold(r) == r \in pending /\ stream[r] /\ staged[r].verdict = "ask"

Hold(t, r) ==
  /\ staged' = [staged EXCEPT ![r] = Unset]
  /\ final' = [final EXCEPT ![r] = SetFinal(@, staged[r].verdict, staged[r].source)]
  /\ \/ /\ AppendRecord(r, RequestRecord(final'[r], TRUE, hits[r], llm[r]))
        /\ held' = [held EXCEPT ![r] = TRUE]
        /\ Finish(t)
     \/ /\ AuditCanFail
        /\ GoTo(t, "unsealed")
        /\ UNCHANGED <<trail, held>>

TryHold(t) ==
  /\ work[t].pc = "holding"
  /\ \/ QualifiesForHold(work[t].id) /\ Hold(t, work[t].id)
     \/ /\ ~QualifiesForHold(work[t].id)
        /\ GoTo(t, "sealing")
        /\ UNCHANGED <<staged, final, trail, held>>
  /\ UNCHANGED <<conf, pending, stream, remaining, hits, llm, wire, plan, stale,
                 clock, signed>>

\* Mutated form: fail open.
UnsealedFailsOpen == floor

(* No record, no challenge to sign: deny. *)
UnsealedVerdict == "deny"

DenyUnsealed(t) ==
  /\ work[t].pc = "unsealed"
  /\ Finish(t)
  /\ LET r == work[t].id IN
     IF r \in pending
     THEN Remove(r) /\ Respond(r, UnsealedVerdict, "signoff")
     ELSE UNCHANGED <<pending, stream, wire, final>>
  /\ UNCHANGED <<conf, staged, remaining, held, hits, llm, trail, plan, stale, clock,
                 signed>>

\* Mutated form: an entry with nothing staged is answered as it stands.
DecisionWithoutFloor(r) ==
  IF mode = "monitor" THEN [verdict |-> "defer", source |-> "monitor"] ELSE staged[r]

\* Mutated form: the staged verdict is not looked at.
DecisionAlwaysFloor(r) ==
  IF mode = "monitor" THEN [verdict |-> "defer", source |-> "monitor"]
  ELSE [verdict |-> floor, source |-> "floor"]

(* signal_complete, last step: remove, answer what is staged or the floor, seal. *)
Decision(r) ==
  IF mode = "monitor" THEN [verdict |-> "defer", source |-> "monitor"]
  ELSE IF staged[r] = Unset THEN [verdict |-> floor, source |-> "floor"]
  ELSE staged[r]

AnswerAndSeal(r) ==
  /\ Remove(r)
  /\ Respond(r, Decision(r).verdict, Decision(r).source)
  /\ staged' = IF mode = "monitor" THEN staged ELSE [staged EXCEPT ![r] = Unset]
  /\ AuditAppend(r, RequestRecord(final'[r], FALSE, hits[r], llm[r]))

Seal(t) ==
  /\ work[t].pc = "sealing"
  /\ Finish(t)
  /\ LET r == work[t].id IN
     IF r \in pending
     THEN AnswerAndSeal(r)
     ELSE UNCHANGED <<pending, stream, wire, final, staged, trail>>
  /\ UNCHANGED <<conf, remaining, held, hits, llm, plan, stale, clock, signed>>
-------------------------------------------------------------------------------
(* The operator's key signs the hash of a held request's record. *)
OperatorSigns(r) ==
  /\ r \in pending /\ held[r]
  /\ signed' = signed \cup {r}
  /\ UNCHANGED <<conf, pending, stream, staged, remaining, held, draft, wire, trail,
                 plan, work, stale, clock>>

(* signoff::verify: the assertion must be over this request's record hash. *)
ProofVerifies(r, proof) == proof = r

(* Broker::resolve_signoff, under the Ref: check that r is held and, for an
   approval, the proof.  Every refused command changes nothing.              *)
SignoffDecides(r) ==
  /\ work[Sock] = Idle
  /\ signoff /\ r \in pending /\ held[r]
  /\ \E v \in {"allow", "deny"} :
       /\ v = "allow" => \E proof \in signed \cup {None} : ProofVerifies(r, proof)
       /\ work' = [work EXCEPT ![Sock] =
                     [pc |-> "resolving", id |-> r, signal |-> None, verdict |-> v]]
  /\ UNCHANGED <<conf, pending, stream, staged, remaining, held, draft, wire, trail,
                 plan, stale, clock, signed>>

(* ... and then remove the entry, if it is still there, and answer. *)
SignoffRecord(decision) == [kind |-> "signoff", decision |-> decision]

SignoffResolves ==
  /\ work[Sock].pc = "resolving"
  /\ Finish(Sock)
  /\ LET r == work[Sock].id
         v == work[Sock].verdict
     IN IF r \in pending
        THEN /\ Remove(r)
             /\ Respond(r, v, "signoff")
             /\ AuditAppend(r, SignoffRecord(IF v = "allow" THEN "approve" ELSE "deny"))
        ELSE UNCHANGED <<pending, stream, wire, final, trail>>
  /\ UNCHANGED <<conf, staged, remaining, held, hits, llm, plan, stale, clock, signed>>
-------------------------------------------------------------------------------
(* Time passes: the pending TTL, measured from registration, and the sign-off
   TTL, measured from the moment the request was parked.                     *)
TtlElapses(r) ==
  /\ r \in pending \ expired
  /\ expired' = expired \cup {r}
  /\ UNCHANGED <<conf, pending, stream, staged, remaining, held, draft, wire, trail,
                 plan, work, stale, holdExpired, signed>>

HoldTtlElapses(r) ==
  /\ r \in pending \ holdExpired /\ held[r]
  /\ holdExpired' = holdExpired \cup {r}
  /\ UNCHANGED <<conf, pending, stream, staged, remaining, held, draft, wire, trail,
                 plan, work, stale, expired, signed>>

\* Mutated form: held requests are left to the operator.
IsStaleUnlessHeld(r) == ~held[r] /\ r \in expired

(* Broker::reap_stale, first pass: collect the ids that are too old. *)
IsStale(r) == IF held[r] THEN r \in holdExpired ELSE r \in expired

ReapScan ==
  /\ stale = {}
  /\ stale' = {r \in pending : IsStale(r)}
  /\ UNCHANGED <<conf, pending, stream, staged, remaining, held, draft, wire, trail,
                 plan, work, clock, signed>>

(* Second pass: remove each id collected that is still there, and deny it. *)
Reap(r) ==
  /\ r \in stale
  /\ stale' = stale \ {r}
  /\ IF r \in pending
     THEN /\ Remove(r)
          /\ \/ /\ held[r]
                /\ Respond(r, "deny", "signoff")
                /\ AuditAppend(r, SignoffRecord("expired"))
             \/ /\ ~held[r]
                /\ Respond(r, "deny", "reaper")
                /\ AuditAppend(r, RequestRecord(final'[r], FALSE, hits[r], llm[r]))
     ELSE UNCHANGED <<pending, stream, wire, final, trail>>
  /\ UNCHANGED <<conf, staged, remaining, held, hits, llm, plan, work, clock, signed>>
-------------------------------------------------------------------------------
Completes(t) == \/ SignalComplete(t) \/ TryHold(t) \/ DenyUnsealed(t) \/ Seal(t)
Reviews(t) == StoreReview(t) \/ ApplyReview(t)

Next ==
  \/ \E r \in Requests :
       \/ Register(r) \/ OperatorSigns(r) \/ SignoffDecides(r)
       \/ TtlElapses(r) \/ HoldTtlElapses(r) \/ Reap(r)
       \/ ReviewQueueFull(r)
       \/ \E e \in Events : AlertsBegin(r, e)
       \/ \E D \in SUBSET Events : EventQueueFull(r, D)
       \/ \E w \in LlmWorkers : ReviewBegin(w, r)
  \/ \E t \in Threads : Completes(t) \/ Reviews(t)
  \/ DenyAlert \/ AskAlert \/ SeenAlertLost
  \/ SignoffResolves
  \/ ReapScan

Spec == Init /\ [][Next]_vars
-------------------------------------------------------------------------------
Registered(r) == expected[r] # {}
Answered(r) == wire[r] # <<>>
Answer(r) == wire[r][1]

Raised(r, kind) == llm[r] = kind \/ \E h \in hits[r] : h.kind = kind
Strictest(r) == IF Raised(r, "deny") THEN "deny"
                ELSE IF Raised(r, "ask") THEN "ask" ELSE NoVerdict

(* Each interceptor reads one verdict line, whoever gets there first: the deny
   short-circuit, the completing thread, the operator or the reaper.         *)
AnsweredOnce == \A r \in Requests : Len(wire[r]) <= 1

(* Under guardrails no answer is more lenient than the strictest signal the
   broker took in, wherever it came from and whenever it arrived; only an ask
   that the operator's key has signed is answered with allow.                *)
AnswerAsStrictAsSignals ==
  mode = "guardrails" =>
    \A r \in Requests : Answered(r) =>
      \/ Strictness(Answer(r)) >= Strictness(Strictest(r))
      \/ Answer(r) = "allow" /\ Strictest(r) = "ask" /\ r \in signed

(* Anything but a deny is said only after every event of the request has been
   evaluated and, if the LLM monitor takes part, it has given a verdict: the
   second file of a patch and the slow model are always waited for.          *)
LenientAnswerIsComplete ==
  mode # "passthrough" =>
    \A r \in Requests : Answered(r) /\ Answer(r) # "deny" =>
      /\ outstanding[r] = {}
      /\ Llm \in expected[r] => llm[r] # "none"

(* With sign-off on, an ask is for the operator: the agent's own user never
   gets to answer it.                                                        *)
SignoffKeepsAskFromAgent ==
  signoff => \A r \in Requests : Answered(r) => Answer(r) # "ask"

(* A held request is an unanswered ask whose pending record is sealed, and no
   signal is still to come that could change it.                             *)
HeldIsSealedAsk ==
  \A r \in pending : held[r] =>
    /\ stream[r] /\ ~Answered(r)
    /\ outstanding[r] = {}
    /\ Len(trail[r]) = 1 /\ trail[r][1].awaiting /\ trail[r][1].final.verdict = "ask"

(* An entry whose count has reached zero is never forgotten: it is held, or
   some thread is on its way to complete it.                                 *)
Completing(t, r) == work[t].id = r /\ work[t].pc \in {"holding", "unsealed", "sealing"}

NoOrphan ==
  \A r \in pending : remaining[r] = 0 => held[r] \/ \E t \in Threads : Completing(t, r)

(* The audit trail tells what the interceptor was told.  A request has one
   request record; its final verdict is the one on the wire, or it awaits
   sign-off and the sign-off record after it is.                             *)
Resolution(rec) == IF rec.decision = "approve" THEN "allow" ELSE "deny"

TrailAgrees(r) ==
  \/ trail[r] = <<>>
  \/ /\ trail[r][1].kind = "request"
     /\ trail[r][1].awaiting = (trail[r][1].final.verdict = "ask" /\ signoff)
     /\ \/ Len(trail[r]) = 1 /\ trail[r][1].awaiting
        \/ /\ Len(trail[r]) = 1 /\ ~trail[r][1].awaiting
           /\ Answered(r) /\ trail[r][1].final.verdict = Answer(r)
        \/ /\ Len(trail[r]) = 2 /\ trail[r][1].awaiting /\ trail[r][2].kind = "signoff"
           /\ Answered(r) /\ Resolution(trail[r][2]) = Answer(r)

TrailAgreesWithWire == \A r \in Requests : TrailAgrees(r)

(* A request that has left the map has been answered, and its trail ends with
   the record that says so (when no append to the file failed).              *)
GoneIsRecorded ==
  ~AuditCanFail =>
    \A r \in Requests : Registered(r) /\ r \notin pending =>
      /\ Answered(r) /\ trail[r] # <<>>
      /\ trail[r][1].awaiting => Len(trail[r]) = 2

(* A record that blames Falco, the LLM monitor or the broker for its verdict
   shows that source raising that verdict.                                   *)
RecordExplainsVerdict ==
  \A r \in Requests : trail[r] # <<>> =>
    LET rec == trail[r][1]
        f == rec.final
    IN /\ f.source \in {"falco", "broker"} =>
            [source |-> f.source, kind |-> f.verdict] \in rec.hits
       /\ f.source = "llm" => rec.llm = f.verdict

(* Whoever brings the last signal, the entry is then held for the operator as a
   sealed and unanswered ask, or some thread is on its way to complete it.   *)
ParkedOrCompleted == NoOrphan /\ HeldIsSealedAsk

(* The audit trail is the truth and the whole of it: it agrees with the wire,
   blames for a verdict who raised it, and has a record of whatever is gone. *)
TrailIsTrue == TrailAgreesWithWire /\ RecordExplainsVerdict /\ GoneIsRecorded

(* The window the sign-off policy promises: a held request expires only when it
   has been held for the sign-off TTL.                                       *)
HeldGetsItsWindow ==
  \A r \in Requests : Len(trail[r]) = 2 /\ trail[r][2] = SignoffRecord("expired")
                         => r \in holdExpired

(* Monitor mode steps aside: every tool call is answered with defer. *)
MonitorStepsAside ==
  mode = "monitor" => \A r \in Requests : Answered(r) => Answer(r) = "defer"

(* The record of a request that was never held carries its wire verdict. *)
RecordCarriesWireVerdict ==
  \A r \in Requests : Answered(r) /\ trail[r] # <<>> /\ ~held[r]
                         => trail[r][1].final.verdict = Answer(r)
-------------------------------------------------------------------------------
(* Time passes, whatever the program does. *)
TimePasses == \A r \in Requests : WF_vars(TtlElapses(r)) /\ WF_vars(HoldTtlElapses(r))

TimedSpec == Spec /\ TimePasses

(* The reaper has its own thread, which makes a pass every 10 s. *)
ReaperRuns == WF_vars(ReapScan) /\ \A r \in Requests : WF_vars(Reap(r))

(* The other threads end the operations they have begun. *)
ThreadsRun == \A t \in Threads : WF_vars(Completes(t) \/ Reviews(t))

(* Lost alerts, full queues, stuck threads, a silent operator: as long as the
   reaper runs the interceptor still gets an answer.                         *)
EveryRequestAnswered == ReaperRuns => \A r \in Requests : Registered(r) ~> Answered(r)

(* As long as the reaper runs no entry stays in the map for ever. *)
EntriesDrain == ReaperRuns => \A r \in Requests : r \in pending ~> r \notin pending

(* As long as the reaper runs it is the end of every request: of the wait of the
   interceptor and of the entry in the map.                                   *)
ReaperEndsAll == EveryRequestAnswered /\ EntriesDrain

(* Once every expected signal has reached the broker, the request is answered
   or held, although the reaper may never run.                               *)
CompletesOnLastSignal ==
  ThreadsRun =>
    \A r \in Requests : Registered(r) /\ outstanding[r] = {} ~> Answered(r) \/ held[r]
=============================================================================
