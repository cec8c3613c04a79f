----------------------------- MODULE ToolCallGate -----------------------------
(***************************************************************************)
(* What the broker promises for each tool call, with no threads, counts or *)
(* clocks: signals may only make a call's standing stricter, the call is   *)
(* answered once, with a verdict its standing permits, and a signal that   *)
(* comes after the answer never outranks it.                               *)
(***************************************************************************)
EXTENDS Verdict

CONSTANT Requests

VARIABLES mode, floor, signoff,  \* the configuration
          submitted,             \* the tool calls the gate knows
          standing,              \* the strictest signal about each
          signed,                \* asks the operator's key has approved
          answer                 \* the one answer, or NoVerdict

vars == <<mode, floor, signoff, submitted, standing, signed, answer>>

Init ==
  /\ mode \in {"guardrails", "monitor", "passthrough"}
  /\ floor \in {"allow", "defer"}
  /\ signoff \in BOOLEAN
  /\ submitted = {}
  /\ standing = [r \in Requests |-> NoVerdict]
  /\ signed = {}
  /\ answer = [r \in Requests |-> NoVerdict]

\* An ask is put to the agent's user, or to the operator's key under sign-off.
AskPermits(r) ==
  IF ~signoff THEN {"ask"} ELSE IF r \in signed THEN {"allow"} ELSE {}

\* A deny is always permitted: every failure of the broker ends in one.
Permitted(r) ==
  {"deny"} \cup
  CASE mode # "guardrails" -> {"defer"}
    [] mode = "guardrails" /\ standing[r] = NoVerdict -> {floor}
    [] mode = "guardrails" /\ standing[r] = "ask" -> AskPermits(r)
    [] OTHER -> {}

Submit(r) ==
  /\ r \notin submitted
  /\ submitted' = submitted \cup {r}
  /\ answer' = IF mode = "passthrough" THEN [answer EXCEPT ![r] = "defer"] ELSE answer
  /\ UNCHANGED <<mode, floor, signoff, standing, signed>>

\* A deny may answer the call in the same step.
Signal(r, v) ==
  /\ r \in submitted
  /\ answer[r] \in {NoVerdict, "deny"}
  /\ standing' = [standing EXCEPT ![r] = Escalate(@, v)]
  /\ \/ UNCHANGED answer
     \/ v = "deny" /\ answer' = [answer EXCEPT ![r] = "deny"]
  /\ UNCHANGED <<mode, floor, signoff, submitted, signed>>

Sign(r) ==
  /\ signoff /\ standing[r] = "ask" /\ answer[r] = NoVerdict
  /\ signed' = signed \cup {r}
  /\ UNCHANGED <<mode, floor, signoff, submitted, standing, answer>>

AnswerWith(r, v) ==
  /\ r \in submitted
  /\ answer[r] = NoVerdict
  /\ v \in Permitted(r)
  /\ answer' = [answer EXCEPT ![r] = v]
  /\ UNCHANGED <<mode, floor, signoff, submitted, standing, signed>>

Next == \E r \in Requests : \/ Submit(r)
                            \/ Sign(r)
                            \/ \E v \in {"ask", "deny"} : Signal(r, v)
                            \/ \E v \in Verdicts : AnswerWith(r, v)

Spec == Init /\ [][Next]_vars
=============================================================================
