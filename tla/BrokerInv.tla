------------------------------ MODULE BrokerInv -------------------------------
(***************************************************************************)
(* The inductive invariant behind the broker's safety properties.          *)
(***************************************************************************)
EXTENDS Broker

Reporting == {"reporting", "storing", "applying", "signalling"}

(* The thread is bringing one of r's signals to the broker. *)
Brings(t, r) == work[t].id = r /\ work[t].pc \in Reporting

(* A signal is brought by one thread, which took it from the unclaimed ones;
   it is outstanding until that thread has delivered it.                     *)
SignalsHaveOneBringer ==
  /\ \A r \in Requests : /\ unclaimed[r] \subseteq outstanding[r]
                          /\ outstanding[r] \subseteq expected[r]
  /\ \A t \in Threads, r \in Requests : Brings(t, r) =>
       work[t].signal \in outstanding[r] \ unclaimed[r]
  /\ \A t, u \in Threads, r \in Requests :
       Brings(t, r) /\ Brings(u, r) /\ work[t].signal = work[u].signal => t = u

(* Before it is registered a request is in no entry, draft or job. *)
UnregisteredIsUntouched ==
  \A r \in Requests : ~Registered(r) =>
    /\ ~held[r] /\ hits[r] = {} /\ llm[r] = "none"
    /\ \A t \in Threads : ~Completing(t, r)

(* The count in the entry is the number of signals that are outstanding, and
   at zero one thread, or the operator, has the completion of the entry.     *)
CountIsOutstanding ==
  \A r \in pending :
    /\ remaining[r] = Cardinality(outstanding[r])
    /\ held[r] => outstanding[r] = {} /\ \A t \in Threads : ~Completing(t, r)
    /\ \A t \in Threads : Completing(t, r) =>
         /\ outstanding[r] = {}
         /\ \A u \in Threads : Completing(u, r) => u = t

(* The stream is in the entry until the one answer is written; an entry that
   stays behind after its answer was denied.                                 *)
StreamUntilAnswered ==
  /\ mode = "passthrough" => pending = {}
  /\ \A r \in Requests :
       /\ Len(wire[r]) <= 1
       /\ stream[r] => r \in pending /\ wire[r] = <<>>
       /\ r \in pending => Registered(r)
       /\ r \in pending /\ ~stream[r] => wire[r] = <<"deny">>
       /\ ~Registered(r) => wire[r] = <<>>

(* Until the answer, what the broker has taken in is in the entry: a deny is
   about to be answered by the thread that brings it, an ask is staged, held,
   about to be staged or about to be refused.                                *)
Applies(t, r, v) ==
  work[t].id = r /\ work[t].pc = "applying" /\ work[t].verdict = v
Refuses(t, r) == work[t].id = r /\ work[t].pc = "unsealed"

StagedIsAsk == \A r \in Requests : staged[r] = Unset \/ staged[r].verdict = "ask"

KeptIn(r) ==
  /\ \A h \in hits[r] : h.kind # "deny"
  /\ llm[r] = "deny" => \E t \in Threads : Applies(t, r, "deny")
  /\ Raised(r, "ask") =>
       \/ staged[r].verdict = "ask" \/ held[r]
       \/ \E t \in Threads : Refuses(t, r) \/ Applies(t, r, "ask")

SignalsAreKept == mode = "guardrails" => \A r \in Requests : stream[r] => KeptIn(r)

(* The operator's command carries an approval only of a record that was signed. *)
ApprovalIsSigned ==
  work[Sock].pc = "resolving" =>
    /\ held[work[Sock].id]
    /\ work[Sock].verdict = "allow" => work[Sock].id \in signed

CoreInv ==
  /\ TypeOK
  /\ SignalsHaveOneBringer
  /\ StreamUntilAnswered
  /\ UnregisteredIsUntouched
  /\ CountIsOutstanding
  /\ StagedIsAsk
  /\ SignalsAreKept
  /\ ApprovalIsSigned
  /\ AnswerAsStrictAsSignals
-------------------------------------------------------------------------------
(* The LLM outcome is stored once, by the one thread that brings it; without a
   verdict it is brought only when the request was answered before.          *)
ReviewIsStored ==
  /\ \A t \in Threads : work[t].pc \in {"storing", "applying", "signalling"} =>
       work[t].signal = Llm
  /\ \A t \in Threads : work[t].pc = "reporting" => work[t].signal # Llm
  /\ \A t \in Threads, r \in Requests : work[t].id = r =>
       /\ work[t].pc = "storing" => llm[r] = "none"
       /\ work[t].pc \in {"applying", "signalling"} /\ r \in pending =>
            llm[r] = work[t].verdict
       /\ work[t].pc \in {"storing", "applying", "signalling"} /\ work[t].verdict = "none" =>
            HasResponded(r)
  /\ \A r \in Requests :
       /\ Llm \in unclaimed[r] => llm[r] = "none"
       /\ Llm \in expected[r] \ outstanding[r] /\ llm[r] = "none" => HasResponded(r)

(* A verdict is named with the source that raised it, in the entry as in a
   record: the hits and the outcome it stands beside show that source's verdict. *)
Explained(f, h, l) ==
  /\ f.source \in {"falco", "broker"} => [source |-> f.source, kind |-> f.verdict] \in h
  /\ f.source = "llm" => l = f.verdict /\ l # "none"

SourcesAreTrue ==
  \A r \in pending : /\ Explained(staged[r], hits[r], llm[r])
                     /\ Explained(final[r], hits[r], llm[r])
                     /\ staged[r] = Unset \/ staged[r].source \in {"falco", "llm"}

(* What a thread that completes a request knows of the sign-off: it holds an ask
   only under sign-off, refuses one only when the record could not be written,
   and seals one only without sign-off or after its answer.                  *)
HoldsAsks == signoff /\ mode # "monitor"

CompletersKnowSignoff ==
  \A t \in Threads :
    /\ work[t].pc \in {"holding", "unsealed"} => HoldsAsks
    /\ work[t].pc = "unsealed" => AuditCanFail
    /\ work[t].pc = "sealing" /\ HoldsAsks => ~QualifiesForHold(work[t].id)

(* The draft and the trail of an entry, until it leaves the map: nothing while
   it is open, the deny that answered it, or the sealed ask that is held.    *)
UntoldDraft(r) == final[r] = Unset \/ \E t \in Threads : Refuses(t, r)

SealedAsk(r) ==
  /\ Len(trail[r]) = 1
  /\ trail[r][1].kind = "request" /\ trail[r][1].awaiting
  /\ final[r].verdict = "ask" /\ final[r].source \in {"falco", "llm"}
  /\ trail[r][1].final = final[r]

TrailSoFar ==
  \A r \in Requests :
    /\ ~Registered(r) => trail[r] = <<>> /\ final[r] = Unset /\ staged[r] = Unset
    /\ r \in pending /\ ~held[r] => trail[r] = <<>>
    /\ r \in pending /\ ~held[r] /\ stream[r] => UntoldDraft(r)
    /\ r \in pending /\ ~stream[r] => final[r].verdict = "deny"
    /\ r \in pending /\ held[r] => stream[r] /\ HoldsAsks /\ SealedAsk(r)

IInv ==
  /\ CoreInv
  /\ ReviewIsStored
  /\ SourcesAreTrue
  /\ CompletersKnowSignoff
  /\ TrailSoFar
  /\ NoOrphan
  /\ LenientAnswerIsComplete
  /\ SignoffKeepsAskFromAgent
  /\ RecordExplainsVerdict
  /\ ~AuditCanFail => TrailAgreesWithWire /\ GoneIsRecorded
=============================================================================
