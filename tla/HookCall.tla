------------------------------ MODULE HookCall ------------------------------
(***************************************************************************)
(* One tool call as its hooks see it: the interceptor process that the     *)
(* agent starts (src/hooks/claude-code and src/hooks/codex), the deadlines *)
(* premptictl gives it, the broker that answers, the LLM review and the    *)
(* operator that may delay the answer, and a clock that all of them read.  *)
(*                                                                         *)
(* Time is counted in ticks of five seconds, the unit of every constant    *)
(* involved.  A process's own steps take no time: the clock moves only     *)
(* while everybody waits for somebody.                                     *)
(***************************************************************************)
EXTENDS Integers

CONSTANTS MonitorTimeouts,   \* LLM timeouts per attempt to configure; 0: monitor off
          Ttls,              \* sign-off windows to configure; 0: sign-off off
          EnvTimeouts,       \* PREMPTI_TIMEOUT_MS in the agent's environment; 0: unset
          ClaudeTimeoutMax,  \* TIMEOUT_MAX_MS of the Claude interceptor (720)
          MaxBacklog         \* bound: silent connections ahead of this one, 5 s each

ASSUME ConstantsAssumption ==
  /\ MonitorTimeouts \subseteq Nat /\ Ttls \subseteq Nat /\ EnvTimeouts \subseteq Nat
  /\ ClaudeTimeoutMax \in Nat \ {0} /\ MaxBacklog \in Nat

VARIABLES cfg,       \* the configuration, fixed at Init
          now,       \* the clock, since the current hook process started
          hook,      \* the interceptor process of the current hook event
          request,   \* the broker's entry for the interceptor's request
          review     \* the LLM review of that request

vars == <<cfg, now, hook, request, review>>

None == "none"
Verdicts == {"allow", "deny", "ask", "defer"}
Strictness(v) == CASE v = "deny" -> 2 [] v = "ask" -> 1 [] OTHER -> 0
Larger(a, b) == IF a > b THEN a ELSE b

-----------------------------------------------------------------------------
(* Deadlines.                                                              *)

HookTimeoutDefault == 1

HookTimeoutFor(monitorTimeout) == 2 * monitorTimeout + 1
\* Mutated form: the window without the slack.
SignoffHookTimeoutForBareWindow(ttl) == ttl

SignoffHookTimeoutFor(ttl) == ttl + 3

\* What `premptictl hook add` writes before the Claude command; 0: nothing.
HookTimeoutFromConfig ==
  Larger(IF cfg.monitor = 0 THEN 0 ELSE HookTimeoutFor(cfg.monitor),
         IF cfg.ttl = 0 THEN 0 ELSE SignoffHookTimeoutFor(cfg.ttl))

Clamp(ticks, most) == IF ticks > most THEN most ELSE ticks

CodexTimeoutMax == 6
CodexTimeoutSec == 6
ClaudeDefaultKill == 12

\* A variable of the user's own reaches the interceptor, unless the command in the
\* settings sets it.
CommandSetsTimeout == cfg.agent = "claude" /\ HookTimeoutFromConfig # 0
EnvRules == cfg.env # 0 /\ ~CommandSetsTimeout

\* The interceptor's timeout of one read or write.
Timeout ==
  CASE CommandSetsTimeout -> Clamp(HookTimeoutFromConfig, ClaudeTimeoutMax)
    [] EnvRules -> Clamp(cfg.env, IF cfg.agent = "codex" THEN CodexTimeoutMax ELSE ClaudeTimeoutMax)
    [] OTHER -> HookTimeoutDefault

\* Mutated form: the agent's limit is the interceptor's timeout, without margin.
KillWithTimeout ==
  IF cfg.agent = "codex" THEN CodexTimeoutSec
  ELSE IF HookTimeoutFromConfig = 0 THEN ClaudeDefaultKill ELSE HookTimeoutFromConfig

\* After this long the agent kills the hook.
KillAfter ==
  IF cfg.agent = "codex" THEN CodexTimeoutSec
  ELSE IF HookTimeoutFromConfig = 0 THEN ClaudeDefaultKill ELSE HookTimeoutFromConfig + 1

DefaultPendingTtl == 6
ReaperInterval == 2

\* Mutated form: the default, whatever the monitor's timeout.
PendingTtlFixed == DefaultPendingTtl

\* `set_pending_ttl_secs`: two attempts and ten seconds, at least the default.
PendingTtl ==
  IF cfg.monitor = 0 THEN DefaultPendingTtl ELSE Larger(DefaultPendingTtl, 2 * cfg.monitor + 2)

-----------------------------------------------------------------------------
(* Rendering.                                                              *)

\* Claude's stdout for a broker verdict; defer is empty output.
ClaudeDecision(v) == IF v = "defer" THEN "nothing" ELSE v

\* Mutated form: an ask passes as it is.
TranslateNothing(v) == v

TranslateVerdict(v) == IF v = "ask" THEN "deny" ELSE v

\* Codex's output depends on the event: only PermissionRequest can approve.
CodexDecision(event, v) ==
  LET t == TranslateVerdict(v)
  IN CASE t = "deny" -> "deny"
       [] t = "allow" /\ event = "PermissionRequest" -> "allow"
       [] OTHER -> "nothing"

Decision(v) == IF cfg.agent = "codex" THEN CodexDecision(hook.event, v) ELSE ClaudeDecision(v)

\* `verdict_on_error`: deny, unless PREMPTI_FAIL_OPEN is set.
VerdictOnError ==
  IF cfg.failOpen THEN Decision(IF cfg.agent = "codex" THEN "defer" ELSE "allow") ELSE Decision("deny")

-----------------------------------------------------------------------------
Idle == [pc |-> "idle", event |-> None, deadline |-> 0, large |-> FALSE, stalled |-> FALSE,
         decision |-> None, why |-> None]
NoRequest == [at |-> None, since |-> 0, late |-> FALSE, rules |-> None, answer |-> None, by |-> None]
NoReview == [at |-> "off", deadline |-> 0, attempts |-> 0, verdict |-> None, waited |-> FALSE]

Init ==
  /\ cfg \in [agent : {"claude", "codex"}, failOpen : BOOLEAN, monitor : MonitorTimeouts,
              ttl : Ttls, env : EnvTimeouts]
  /\ now = 0
  /\ hook = Idle
  /\ request = NoRequest
  /\ review = NoReview

-----------------------------------------------------------------------------
(* The interceptor.                                                        *)

\* A verdict that cannot be written to stdout becomes exit code 2, a refusal.
EndsWith(d, why) ==
  \E out \in {d} \cup (IF d \in {"nothing", "killed"} THEN {} ELSE {"deny"}) :
    hook' = [hook EXCEPT !.pc = "done", !.deadline = 0, !.large = FALSE,
                         !.decision = out, !.why = why]

\* The agent starts the hook: once for a Claude call; for Codex a second time,
\* with the other event, when the first left the call to Codex's own approval.
Invoke(event, large) ==
  /\ \/ hook.pc = "idle" /\ event = "PreToolUse"
     \/ /\ cfg.agent = "codex" /\ hook.pc = "done" /\ hook.decision = "nothing"
        /\ hook.event = "PreToolUse" /\ event = "PermissionRequest"
  /\ hook' = [Idle EXCEPT !.pc = "input", !.event = event, !.large = large]
  /\ now' = 0 /\ request' = NoRequest /\ review' = NoReview
  /\ UNCHANGED cfg

\* Empty, oversized or malformed input: exit code 2, which blocks the call.
RejectsInput ==
  /\ hook.pc = "input"
  /\ EndsWith("deny", "input")
  /\ UNCHANGED <<cfg, now, request, review>>

Connects ==
  /\ hook.pc = "input"
  /\ hook' = [hook EXCEPT !.pc = "writing", !.deadline = now + Timeout]
  /\ request' = [NoRequest EXCEPT !.at = "unread"]
  /\ UNCHANGED <<cfg, now, review>>

\* No socket path, nobody listening.
ConnectFails ==
  /\ hook.pc = "input"
  /\ EndsWith(VerdictOnError, "unavailable")
  /\ UNCHANGED <<cfg, now, request, review>>

\* A request that does not fit the socket's buffer waits for the broker to read.
Written ==
  /\ hook.pc = "writing"
  /\ hook.large => request.at # "unread"
  /\ hook' = [hook EXCEPT !.pc = "waiting", !.large = FALSE, !.stalled = now > 0,
                          !.deadline = now + Timeout]
  /\ UNCHANGED <<cfg, now, request, review>>

ReadsAnswer ==
  /\ hook.pc = "waiting" /\ request.answer # None
  /\ EndsWith(Decision(request.answer), "answer")
  /\ UNCHANGED <<cfg, now, request, review>>

\* End of file, or a line that is cut, malformed or carries another id.
ReadsGarbage ==
  /\ hook.pc = "waiting" /\ (request.answer # None \/ request.at = "closed")
  /\ EndsWith(VerdictOnError, "garbage")
  /\ UNCHANGED <<cfg, now, request, review>>

GivesUp(d, why) ==
  /\ EndsWith(d, why)
  /\ request' = IF hook.pc = "writing" THEN [request EXCEPT !.at = "closed"] ELSE request
  /\ UNCHANGED <<cfg, now, review>>

TimesOut ==
  /\ hook.pc \in {"writing", "waiting"} /\ now >= hook.deadline /\ request.answer = None
  /\ GivesUp(VerdictOnError, "timeout")

\* External: the agent's own limit for a hook.
Killed ==
  /\ hook.pc \in {"writing", "waiting"} /\ now >= KillAfter
  /\ GivesUp("killed", IF hook.pc = "waiting" /\ ~hook.stalled THEN "killed waiting" ELSE "killed stalled")

-----------------------------------------------------------------------------
(* The broker, as far as its delays go (module Broker has the rest).       *)

\* What a worker still finds out about an answered request is dropped.
Answers(v, by) ==
  /\ request' = [NoRequest EXCEPT !.at = "answered", !.answer = v, !.by = by,
                                  !.since = IF request.at = "held" THEN request.since ELSE 0]
  /\ review' = NoReview

\* The socket thread gets to this connection, and reads its line to the end.
Accepts ==
  /\ request.at = "unread"
  /\ request' = [request EXCEPT !.at = "reading"]
  /\ UNCHANGED <<cfg, now, hook, review>>

Registers ==
  /\ request.at = "reading" /\ hook.pc # "writing"
  /\ request' = [request EXCEPT !.at = "pending", !.since = now, !.late = now > 0]
  /\ review' = IF cfg.monitor = 0 THEN NoReview ELSE [NoReview EXCEPT !.at = "queued"]
  /\ UNCHANGED <<cfg, now, hook>>

\* The service stops: every stream is dropped.
ServiceStops ==
  /\ request.at \in {"unread", "reading", "pending", "held"}
  /\ request' = [NoRequest EXCEPT !.at = "closed"] /\ review' = NoReview
  /\ UNCHANGED <<cfg, now, hook>>

\* What all signals together say: the strictest, or the floor.
Staged == IF review.verdict # None /\ Strictness(review.verdict) > Strictness(request.rules)
          THEN review.verdict ELSE request.rules

\* The seen alert of the call's event arrives, with what the rules decided.
RulesSay(v) ==
  /\ request.at = "pending" /\ request.rules = None
  /\ IF v = "deny" THEN Answers(v, "rules")
     ELSE request' = [request EXCEPT !.rules = v] /\ UNCHANGED review
  /\ UNCHANGED <<cfg, now, hook>>

Completes ==
  /\ request.at = "pending" /\ request.rules # None /\ review.at \in {"off", "done"}
  /\ IF Staged = "ask" /\ cfg.ttl # 0
     THEN request' = [NoRequest EXCEPT !.at = "held", !.since = now] /\ review' = NoReview
     ELSE Answers(Staged, "broker")
  /\ UNCHANGED <<cfg, now, hook>>

IsStale == \/ request.at = "pending" /\ now - request.since >= PendingTtl
           \/ request.at = "held" /\ now - request.since >= cfg.ttl

Reaps ==
  /\ IsStale
  /\ Answers("deny", IF request.at = "held" THEN "expired" ELSE "reaper")
  /\ UNCHANGED <<cfg, now, hook>>

\* External: the operator's decision on a held call.
OperatorDecides(v) ==
  /\ request.at = "held"
  /\ Answers(v, IF now - request.since < cfg.ttl THEN "operator" ELSE "operator, late")
  /\ UNCHANGED <<cfg, now, hook>>

-----------------------------------------------------------------------------
(* The LLM review: two attempts of at most the configured timeout each.    *)

MaxAttempts == 2

ReviewStarts ==
  /\ review.at = "queued"
  /\ review' = [review EXCEPT !.at = "calling", !.attempts = 1, !.deadline = now + cfg.monitor]
  /\ UNCHANGED <<cfg, now, hook, request>>

\* A verdict, at whatever moment; a deny is sent at once.
ReviewEnds(v) ==
  IF v = "deny" THEN Answers("deny", "llm")
  ELSE review' = [NoReview EXCEPT !.at = "done", !.verdict = v] /\ UNCHANGED request

ModelAnswers(v) ==
  /\ review.at = "calling"
  /\ ReviewEnds(v)
  /\ UNCHANGED <<cfg, now, hook>>

\* A failed attempt: tried again once, or given up for a client error with the
\* configured on_error verdict.
AttemptFails(fatal, onError) ==
  /\ review.at = "calling"
  /\ IF ~fatal /\ review.attempts < MaxAttempts
     THEN /\ review' = [review EXCEPT !.attempts = @ + 1, !.deadline = now + cfg.monitor]
          /\ UNCHANGED request
     ELSE ReviewEnds(onError)
  /\ UNCHANGED <<cfg, now, hook>>

-----------------------------------------------------------------------------
\* The clock moves when no process can take a step of its own, and passes no deadline.
HookWaits ==
  \/ hook.pc \in {"idle", "done"}
  \/ hook.pc = "writing" /\ hook.large /\ request.at = "unread" /\ now < hook.deadline
  \/ hook.pc = "waiting" /\ request.answer = None /\ request.at # "closed" /\ now < hook.deadline

Tick ==
  /\ HookWaits
  /\ hook.pc \in {"writing", "waiting"} => now < KillAfter
  /\ review.at = "calling" => now < review.deadline
  /\ ~(request.at = "pending" /\ request.rules # None /\ review.at \in {"off", "done"})
  /\ request.at = "pending" => now - request.since < PendingTtl + ReaperInterval
  /\ request.at = "held" => now - request.since < cfg.ttl + ReaperInterval
  /\ request.at # "reading"
  /\ request.at = "unread" => now < MaxBacklog
  /\ request.at \in {"unread", "pending", "held"} \/ hook.pc \in {"writing", "waiting"}
  /\ now' = now + 1
  /\ review' = IF review.at = "queued" THEN [review EXCEPT !.waited = TRUE] ELSE review
  /\ UNCHANGED <<cfg, hook, request>>

HookSteps == RejectsInput \/ Connects \/ ConnectFails \/ Written \/ ReadsAnswer \/ ReadsGarbage
             \/ TimesOut \/ Killed
BrokerSteps == Accepts \/ Registers \/ ServiceStops \/ Completes \/ Reaps
               \/ (\E v \in {"allow", "defer", "ask", "deny"} : RulesSay(v))
               \/ (\E v \in {"allow", "deny"} : OperatorDecides(v))
ReviewSteps == ReviewStarts \/ (\E v \in {"allow", "ask", "deny"} : ModelAnswers(v))
               \/ (\E fatal \in BOOLEAN, onError \in {"ask", "deny"} : AttemptFails(fatal, onError))

Next ==
  \/ \E event \in {"PreToolUse", "PermissionRequest"}, large \in BOOLEAN : Invoke(event, large)
  \/ HookSteps \/ BrokerSteps \/ ReviewSteps \/ Tick

Spec == Init /\ [][Next]_vars

-----------------------------------------------------------------------------
(* Properties.                                                             *)

Configs == [agent : {"claude", "codex"}, failOpen : BOOLEAN, monitor : MonitorTimeouts,
            ttl : Ttls, env : EnvTimeouts]
Hooks == [pc : {"idle", "input", "writing", "waiting", "done"},
          event : {None, "PreToolUse", "PermissionRequest"}, deadline : Nat,
          large : BOOLEAN, stalled : BOOLEAN,
          decision : {None, "allow", "deny", "ask", "nothing", "killed"},
          why : {None, "input", "unavailable", "answer", "garbage", "timeout",
                 "killed waiting", "killed stalled"}]
Entries == [at : {None, "unread", "reading", "pending", "held", "answered", "closed"},
            since : Nat, late : BOOLEAN, rules : Verdicts \cup {None},
            answer : Verdicts \cup {None},
            by : {None, "rules", "broker", "llm", "reaper", "expired", "operator",
                  "operator, late"}]
Reviews == [at : {"off", "queued", "calling", "done"}, deadline : Nat,
            attempts : 0 .. MaxAttempts, verdict : {None, "allow", "ask", "deny"},
            waited : BOOLEAN]

TypeOK ==
  /\ cfg \in Configs /\ now \in Nat
  /\ hook \in Hooks /\ request \in Entries /\ review \in Reviews
  /\ hook.deadline <= now + Timeout
  /\ (request.at = "answered") = (request.answer # None)
  /\ (review.at = "done") = (review.verdict # None)

WasKilled == hook.why \in {"killed waiting", "killed stalled"}
GaveUp == hook.why = "timeout" \/ WasKilled

\* However the hook ends, the agent is told nothing more lenient than what the
\* broker answers, be the answer earlier or later: a deny stays a deny, an ask is
\* not an approval, and stepping aside is not one either.  Only an interceptor
\* that was set to fail open, and got no answer, may differ.
AtLeast(decision, answer) ==
  CASE answer = "deny" -> decision = "deny"
    [] answer = "ask" -> decision \in {"deny", "ask"}
    [] answer = "defer" -> decision \in {"deny", "nothing"}
    [] OTHER -> TRUE
NeverMoreLenient ==
  hook.pc = "done" /\ request.answer # None /\ ~WasKilled =>
    AtLeast(hook.decision, request.answer) \/ (cfg.failOpen /\ hook.why # "answer")

\* No answer, no approval: without PREMPTI_FAIL_OPEN a hook that got no answer
\* denies; with it Codex's hook never approves on Prempti's behalf, and input
\* that cannot be read is refused all the same.
FailsClosed ==
  hook.pc = "done" /\ hook.why # "answer" /\ ~WasKilled =>
    /\ hook.decision # "deny" => cfg.failOpen /\ hook.why # "input"
    /\ cfg.agent = "codex" => hook.decision # "allow"

\* What the agent is told is never milder than the answer there is, be it in time
\* or not, and a deny when there is none (write_verdict, verdict_on_error).
ToldNoMilder == TypeOK /\ NeverMoreLenient /\ FailsClosed

UserOutlastsLimit == EnvRules /\ cfg.env >= KillAfter

\* With the timeouts that Prempti sets, the agent's own limit on the hook is reached
\* before the interceptor has spoken only if the request could not be written at
\* once: the two timeouts of the interceptor, one to write and one to read, then add
\* up beyond it.  A hook whose request was written at once is killed only where the
\* user's own PREMPTI_TIMEOUT_MS is what it goes by, and is at least the limit.
KilledOnlyIfStalled == hook.why = "killed waiting" => UserOutlastsLimit

\* A Claude hook whose request was taken at once outlasts both attempts of a
\* review that did not wait in the queue: it never gives up during one.
PatientHook ==
  [][ cfg.agent = "claude" /\ hook.why = None /\ hook'.why = "timeout"
      => \/ review.at # "calling" \/ review.waited \/ request.late
         \/ HookTimeoutFromConfig > ClaudeTimeoutMax ]_vars

\* The reaper's limit outlasts both attempts of a review that did not wait in the
\* queue: it never takes a call away while such a review is asking the model.
ReviewOutlived ==
  [][ request.by = None /\ request'.by = "reaper" /\ review.at = "calling" => review.waited ]_vars

\* A review gets its two attempts: neither a patient hook nor the reaper gives the
\* call up in the middle of them (hook_timeout_for, set_pending_ttl_secs).
ReviewFits == PatientHook /\ ReviewOutlived

\* An operator's decision within the sign-off window reaches a Claude hook, when
\* the call was held within the slack of the hook's timeout (three ticks) and that
\* timeout is below the interceptor's maximum.
DecisionArrives ==
  /\ request.by = "operator" /\ cfg.agent = "claude"
  /\ request.since <= 3
  /\ HookTimeoutFromConfig <= ClaudeTimeoutMax
  => ~GaveUp

\* The comment on `signoff_hook_timeout_for` (main.rs:326-327) says the hook waits
\* for "the whole hold window plus slack for Falco, the LLM and the socket".
HoldReachesAgent ==
  /\ request.by = "operator" /\ cfg.agent = "claude"
  /\ request.since <= 2 * cfg.monitor
  /\ HookTimeoutFromConfig <= ClaudeTimeoutMax
  => ~GaveUp
=============================================================================
