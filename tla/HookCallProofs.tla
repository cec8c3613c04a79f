---------------------------- MODULE HookCallProofs -----------------------------
(***************************************************************************)
(* Theorems about HookCall, for any settings: what the agent is told, who  *)
(* is killed, whom the operator reaches, and that a review has its time.   *)
(***************************************************************************)
EXTENDS HookCall, TLAPS

(***************************************************************************)
(* The invariant.                                                          *)
(***************************************************************************)
\* The clock of a hook: it writes from 0, waits from when it has written, and
\* looks at the clock before it runs past a deadline.
ClockOfHook ==
  /\ hook.pc = "input" => now = 0
  /\ hook.pc = "writing" => hook.deadline = Timeout /\ now <= hook.deadline
  /\ hook.pc = "waiting" => Timeout <= hook.deadline /\ now <= hook.deadline
  /\ hook.pc = "waiting" /\ ~hook.stalled => hook.deadline = Timeout

\* There is no request before the interceptor connects, and no entry of the
\* broker before it has written its line.
WritesBeforeEntry ==
  /\ hook.pc \in {"idle", "input"} => request.at = None
  /\ hook.pc = "writing" => request.at \in {"unread", "reading", "closed"}

\* A review is that of a pending entry.  One that did not wait in the queue is
\* within its two attempts since the entry was made.
AttemptsEnd == request.since + (IF review.attempts = 1 THEN cfg.monitor ELSE 2 * cfg.monitor)

ReviewOfEntry ==
  /\ review.at \in {"queued", "calling"} => request.at = "pending" /\ cfg.monitor # 0
  /\ review.at = "queued" /\ ~review.waited => now = request.since
  /\ review.at = "calling" => review.attempts \in {1, 2} /\ now <= review.deadline
  /\ review.at = "calling" /\ ~review.waited => review.deadline <= AttemptsEnd
  /\ request.at = "pending" /\ ~request.late => request.since = 0
  /\ request.at \in {"pending", "held"} => request.since <= now
  /\ request.at # "answered" => request.by = None

\* What the agent was told as the broker's answer is no milder than that answer.
AnswerIsTold ==
  hook.why = "answer" =>
    hook.pc = "done" /\ request.at = "answered" /\ AtLeast(hook.decision, request.answer)

\* Who gave up had waited for the whole of its timeout, and for as long as the
\* operator was given.
Outlasts == cfg.agent = "claude" /\ cfg.ttl # 0 /\ HookTimeoutFromConfig <= ClaudeTimeoutMax

GivesUpLate == GaveUp /\ Outlasts => hook.pc = "done" /\ now >= HookTimeoutFromConfig

OperatorInTime ==
  request.by = "operator" =>
    /\ request.at = "answered" /\ cfg.ttl # 0
    /\ hook.pc \in {"writing", "waiting"} => now < request.since + cfg.ttl

HInv ==
  /\ TypeOK
  /\ ClockOfHook
  /\ WritesBeforeEntry
  /\ ReviewOfEntry
  /\ AnswerIsTold
  /\ GivesUpLate
  /\ OperatorInTime
  /\ NeverMoreLenient
  /\ FailsClosed
  /\ KilledOnlyIfStalled
  /\ DecisionArrives

(***************************************************************************)
(* What the steps do to the three records.                                 *)
(***************************************************************************)
LEMMA TimeoutIs ==
  ASSUME cfg \in Configs
  PROVE  /\ Timeout \in Nat /\ KillAfter \in Nat /\ HookTimeoutFromConfig \in Nat
         /\ cfg.monitor \in Nat /\ cfg.ttl \in Nat /\ PendingTtl \in Nat
         /\ cfg.agent \in {"claude", "codex"} /\ cfg.failOpen \in BOOLEAN /\ cfg.env \in Nat
         /\ cfg.monitor # 0 => PendingTtl >= 2 * cfg.monitor + 2
         /\ cfg.agent = "claude" /\ cfg.monitor # 0 => HookTimeoutFromConfig > 2 * cfg.monitor
         /\ cfg.agent = "claude" /\ cfg.ttl # 0 => HookTimeoutFromConfig >= cfg.ttl + 3
         /\ /\ cfg.agent = "claude" /\ HookTimeoutFromConfig <= ClaudeTimeoutMax
            /\ HookTimeoutFromConfig # 0
            => Timeout = HookTimeoutFromConfig /\ KillAfter = HookTimeoutFromConfig + 1
         /\ KillAfter <= Timeout => UserOutlastsLimit
<1>1. /\ cfg.monitor \in Nat /\ cfg.ttl \in Nat /\ cfg.env \in Nat
      /\ cfg.agent \in {"claude", "codex"} /\ cfg.failOpen \in BOOLEAN
  BY ConstantsAssumption DEF Configs
<1>2. /\ HookTimeoutFromConfig \in Nat
      /\ cfg.monitor # 0 => HookTimeoutFromConfig > 2 * cfg.monitor
      /\ cfg.ttl # 0 => HookTimeoutFromConfig >= cfg.ttl + 3
  BY <1>1 DEF HookTimeoutFromConfig, HookTimeoutFor, SignoffHookTimeoutFor, Larger
<1>3. PendingTtl \in Nat /\ (cfg.monitor # 0 => PendingTtl >= 2 * cfg.monitor + 2)
  BY <1>1 DEF PendingTtl, DefaultPendingTtl, Larger
<1>4. ClaudeTimeoutMax \in Nat \ {0}
  BY ConstantsAssumption
<1>5. /\ Timeout \in Nat /\ KillAfter \in Nat
      /\ KillAfter <= Timeout => UserOutlastsLimit
      /\ /\ cfg.agent = "claude" /\ HookTimeoutFromConfig <= ClaudeTimeoutMax
         /\ HookTimeoutFromConfig # 0
         => Timeout = HookTimeoutFromConfig /\ KillAfter = HookTimeoutFromConfig + 1
  BY <1>1, <1>2, <1>4
  DEF UserOutlastsLimit, Timeout, EnvRules, CommandSetsTimeout, KillAfter, HookTimeoutDefault,
      Clamp, CodexTimeoutMax, CodexTimeoutSec, ClaudeDefaultKill
<1> QED BY <1>1, <1>2, <1>3, <1>5

Decisions == {"allow", "deny", "ask", "nothing", "killed"}
Whys == {"input", "unavailable", "answer", "garbage", "timeout", "killed waiting", "killed stalled"}

LEMMA DecisionIs ==
  ASSUME cfg \in Configs
  PROVE  /\ \A v \in Verdicts : Decision(v) \in Decisions /\ AtLeast(Decision(v), v)
         /\ VerdictOnError \in Decisions
         /\ ~cfg.failOpen => VerdictOnError = "deny"
         /\ cfg.agent = "codex" => VerdictOnError # "allow"
<1>1. cfg.agent \in {"claude", "codex"}
  BY DEF Configs
<1>2. ASSUME NEW v \in Verdicts PROVE Decision(v) \in Decisions /\ AtLeast(Decision(v), v)
  BY <1>1 DEF Decision, CodexDecision, ClaudeDecision, TranslateVerdict, AtLeast, Decisions, Verdicts
<1> QED BY <1>1, <1>2 DEF VerdictOnError, Decision, CodexDecision, ClaudeDecision,
           TranslateVerdict, Decisions, Verdicts

LEMMA Ended ==
  ASSUME TypeOK, NEW d \in Decisions, NEW why \in Whys, EndsWith(d, why)
  PROVE  /\ hook' \in Hooks /\ hook'.pc = "done" /\ hook'.deadline = 0 /\ hook'.why = why
         /\ hook'.decision = d \/ (hook'.decision = "deny" /\ d \notin {"nothing", "killed"})
         /\ hook'.event = hook.event
<1> PICK out \in Decisions :
      /\ hook' = [hook EXCEPT !.pc = "done", !.deadline = 0, !.large = FALSE,
                              !.decision = out, !.why = why]
      /\ out = d \/ (out = "deny" /\ d \notin {"nothing", "killed"})
  BY DEF EndsWith, Decisions
<1> QED BY DEF TypeOK, Hooks, Decisions, Whys

LEMMA Answered ==
  ASSUME TypeOK, NEW v \in Verdicts,
         NEW by \in {"rules", "broker", "llm", "reaper", "expired", "operator", "operator, late"},
         Answers(v, by)
  PROVE  /\ request' \in Entries /\ request'.at = "answered" /\ request'.answer = v
         /\ request'.by = by /\ (request.at = "held" => request'.since = request.since)
         /\ review' = NoReview
<1>1. request.since \in Nat
  BY DEF TypeOK, Entries
<1> QED BY <1>1 DEF Answers, NoRequest, Entries, None

LEMMA NoReviewIs ==
  /\ NoReview \in Reviews /\ NoReview.at = "off" /\ NoReview.verdict = None /\ ~NoReview.waited
  /\ NoRequest \in Entries /\ NoRequest.at = None /\ NoRequest.answer = None /\ NoRequest.by = None
  /\ NoRequest.since = 0 /\ ~NoRequest.late
  /\ Idle \in Hooks /\ Idle.pc = "idle" /\ Idle.deadline = 0 /\ Idle.why = None
  /\ Idle.decision = None /\ ~Idle.stalled
BY DEF NoReview, Reviews, NoRequest, Entries, Idle, Hooks, None, MaxAttempts

LEMMA StagedIs ==
  ASSUME TypeOK, request.rules # None PROVE Staged \in Verdicts
BY DEF Staged, TypeOK, Entries, Reviews, Verdicts, None

LEMMA SettingsStay ==
  ASSUME [Next]_vars
  PROVE  /\ cfg' = cfg /\ Timeout' = Timeout /\ KillAfter' = KillAfter
         /\ HookTimeoutFromConfig' = HookTimeoutFromConfig /\ Outlasts' = Outlasts
         /\ (UserOutlastsLimit' <=> UserOutlastsLimit)
<1>1. cfg' = cfg
  BY DEF Next, HookSteps, BrokerSteps, ReviewSteps, Invoke, RejectsInput, Connects, ConnectFails,
         Written, ReadsAnswer, ReadsGarbage, TimesOut, Killed, GivesUp, Accepts, Registers,
         ServiceStops, RulesSay, Completes, Reaps, OperatorDecides, ReviewStarts, ModelAnswers,
         AttemptFails, Tick, vars
<1>2. HookTimeoutFromConfig' = HookTimeoutFromConfig
  BY <1>1 DEF HookTimeoutFromConfig, HookTimeoutFor, SignoffHookTimeoutFor, Larger
<1>3. Timeout' = Timeout /\ KillAfter' = KillAfter /\ (EnvRules' <=> EnvRules)
  BY <1>1, <1>2 DEF Timeout, EnvRules, CommandSetsTimeout, KillAfter, Clamp, HookTimeoutDefault, CodexTimeoutMax,
                    CodexTimeoutSec, ClaudeDefaultKill
<1> QED BY <1>1, <1>2, <1>3 DEF Outlasts, UserOutlastsLimit

(***************************************************************************)
(* A step of the hook, of the broker, of the review and of the clock, by   *)
(* what it does.                                                           *)
(***************************************************************************)
\* The hook ends: it says the answer, or speaks without one, or is killed.
HookEnds ==
  /\ hook'.pc = "done" /\ hook'.deadline = 0 /\ hook' \in Hooks
  /\ \/ /\ hook.pc = "waiting" /\ hook'.why = "answer" /\ request.at = "answered"
        /\ AtLeast(hook'.decision, request.answer)
        /\ UNCHANGED request
     \/ /\ hook'.why = "input" /\ hook'.decision = "deny" /\ hook.pc = "input"
        /\ UNCHANGED request
     \/ /\ hook'.why \in {"unavailable", "garbage", "timeout"}
        /\ ~cfg.failOpen => hook'.decision = "deny"
        /\ cfg.agent = "codex" => hook'.decision # "allow"
        /\ hook'.why = "timeout" => now >= hook.deadline /\ hook.pc \in {"writing", "waiting"}
                                    /\ request.answer = None
        /\ \/ /\ hook.pc = "writing" /\ request'.at = "closed" /\ request' \in Entries
              /\ request'.by = request.by /\ request'.answer = request.answer
           \/ UNCHANGED request /\ hook.pc \in {"input", "waiting"}
     \/ /\ hook'.decision = "killed" /\ now >= KillAfter /\ hook.pc \in {"writing", "waiting"}
        /\ hook'.why = IF hook.pc = "waiting" /\ ~hook.stalled THEN "killed waiting"
                       ELSE "killed stalled"
        /\ \/ /\ hook.pc = "writing" /\ request'.at = "closed" /\ request' \in Entries
              /\ request'.by = request.by /\ request'.answer = request.answer
           \/ UNCHANGED request /\ hook.pc = "waiting"
  /\ UNCHANGED <<now, review>>

LEMMA HookEndsBy ==
  ASSUME TypeOK, RejectsInput \/ ConnectFails \/ ReadsAnswer \/ ReadsGarbage \/ TimesOut \/ Killed
  PROVE  HookEnds
<1>1. /\ cfg \in Configs /\ VerdictOnError \in Decisions
      /\ ~cfg.failOpen => VerdictOnError = "deny"
      /\ cfg.agent = "codex" => VerdictOnError # "allow"
  BY DecisionIs DEF TypeOK
<1>2. request \in Entries /\ (request.answer # None => request.at = "answered")
  BY DEF TypeOK
<1>3. ASSUME hook.pc = "writing", request' = [request EXCEPT !.at = "closed"]
      PROVE  /\ request'.at = "closed" /\ request' \in Entries
             /\ request'.by = request.by /\ request'.answer = request.answer
  BY <1>2, <1>3 DEF Entries
<1>4. CASE RejectsInput
  <2>1. "deny" \in Decisions /\ "input" \in Whys
    BY DEF Decisions, Whys
  <2>2. /\ hook' \in Hooks /\ hook'.pc = "done" /\ hook'.deadline = 0 /\ hook'.why = "input"
        /\ hook'.decision = "deny"
    BY <1>4, <2>1, Ended DEF RejectsInput
  <2> QED BY <1>4, <2>2 DEF RejectsInput, HookEnds
<1>5. ASSUME NEW why \in {"unavailable", "garbage", "timeout"}, EndsWith(VerdictOnError, why)
      PROVE  /\ hook' \in Hooks /\ hook'.pc = "done" /\ hook'.deadline = 0 /\ hook'.why = why
             /\ ~cfg.failOpen => hook'.decision = "deny"
             /\ cfg.agent = "codex" => hook'.decision # "allow"
  <2>1. why \in Whys
    BY DEF Whys
  <2> QED BY <1>1, <1>5, <2>1, Ended
<1>6. CASE ConnectFails
  BY <1>5, <1>6 DEF ConnectFails, HookEnds
<1>7. CASE ReadsGarbage
  BY <1>5, <1>7 DEF ReadsGarbage, HookEnds
<1>8. CASE TimesOut
  <2>1. /\ hook.pc \in {"writing", "waiting"} /\ now >= hook.deadline /\ request.answer = None
        /\ EndsWith(VerdictOnError, "timeout") /\ UNCHANGED <<now, review>>
        /\ hook.pc = "writing" => request' = [request EXCEPT !.at = "closed"]
        /\ hook.pc = "waiting" => UNCHANGED request
    BY <1>8 DEF TimesOut, GivesUp
  <2>2. /\ hook' \in Hooks /\ hook'.pc = "done" /\ hook'.deadline = 0 /\ hook'.why = "timeout"
        /\ ~cfg.failOpen => hook'.decision = "deny"
        /\ cfg.agent = "codex" => hook'.decision # "allow"
    BY <1>5, <2>1
  <2>3. \/ /\ hook.pc = "writing" /\ request'.at = "closed" /\ request' \in Entries
           /\ request'.by = request.by /\ request'.answer = request.answer
        \/ UNCHANGED request /\ hook.pc = "waiting"
    BY <1>3, <2>1
  <2>4. now >= hook.deadline /\ request.answer = None /\ UNCHANGED <<now, review>>
    BY <2>1
  <2>5. CASE UNCHANGED request /\ hook.pc = "waiting"
    BY <2>2, <2>4, <2>5 DEF HookEnds
  <2>6. CASE hook.pc = "writing" /\ request'.at = "closed"
    BY <2>2, <2>3, <2>4, <2>6 DEF HookEnds
  <2> QED BY <2>3, <2>5, <2>6
<1>9. CASE ReadsAnswer
  <2>1. request.answer \in Verdicts
    BY <1>2, <1>9 DEF ReadsAnswer, Entries
  <2>2. Decision(request.answer) \in Decisions /\ AtLeast(Decision(request.answer), request.answer)
        /\ "answer" \in Whys
    BY <1>1, <2>1, DecisionIs DEF Whys
  <2>3. /\ hook' \in Hooks /\ hook'.pc = "done" /\ hook'.deadline = 0 /\ hook'.why = "answer"
        /\ hook'.decision = Decision(request.answer) \/ hook'.decision = "deny"
    BY <1>9, <2>2, Ended DEF ReadsAnswer
  <2>4. AtLeast("deny", request.answer)
    BY DEF AtLeast
  <2> QED BY <1>2, <1>9, <2>2, <2>3, <2>4 DEF ReadsAnswer, HookEnds
<1>10. CASE Killed
  <2> DEFINE why == IF hook.pc = "waiting" /\ ~hook.stalled THEN "killed waiting"
                    ELSE "killed stalled"
  <2>1. "killed" \in Decisions /\ why \in Whys
    BY DEF Decisions, Whys
  <2>2. EndsWith("killed", why)
    BY <1>10 DEF Killed, GivesUp
  <2>3. /\ hook' \in Hooks /\ hook'.pc = "done" /\ hook'.deadline = 0 /\ hook'.why = why
        /\ hook'.decision = "killed"
    BY <2>1, <2>2, Ended
  <2>4. /\ hook.pc \in {"writing", "waiting"} /\ now >= KillAfter /\ UNCHANGED <<now, review>>
        /\ hook.pc = "writing" => request' = [request EXCEPT !.at = "closed"]
        /\ hook.pc = "waiting" => UNCHANGED request
    BY <1>10 DEF Killed, GivesUp
  <2>5. \/ /\ hook.pc = "writing" /\ request'.at = "closed" /\ request' \in Entries
           /\ request'.by = request.by /\ request'.answer = request.answer
        \/ UNCHANGED request /\ hook.pc = "waiting"
    BY <1>3, <2>4
  <2>6. now >= KillAfter /\ UNCHANGED <<now, review>>
    BY <2>4
  <2>7. CASE UNCHANGED request /\ hook.pc = "waiting"
    BY <2>3, <2>6, <2>7 DEF HookEnds
  <2>8. CASE hook.pc = "writing" /\ request'.at = "closed"
    BY <2>3, <2>5, <2>6, <2>8 DEF HookEnds
  <2> QED BY <2>5, <2>7, <2>8
<1> QED BY <1>4, <1>6, <1>7, <1>8, <1>9, <1>10

\* The entry is answered.
EntryAnswered ==
  /\ request.at \in {"pending", "held"}
  /\ request' \in Entries /\ request'.at = "answered" /\ request'.answer \in Verdicts
  /\ request.at = "held" => request'.since = request.since
  /\ request'.by # None
  /\ request'.by = "operator" => request.at = "held" /\ now - request.since < cfg.ttl
  /\ request'.by = "reaper" => request.at = "pending" /\ now - request.since >= PendingTtl
  /\ review' = NoReview /\ UNCHANGED <<cfg, now, hook>>

\* The entry goes on: it is read, made, told what the rules say, held, or dropped.
EntryMoves ==
  /\ request.at # "answered" /\ request' \in Entries /\ request'.answer = None
  /\ \/ /\ request.at = "unread" /\ request'.at = "reading" /\ UNCHANGED review
     \/ /\ request.at = "reading" /\ hook.pc # "writing"
        /\ request'.at = "pending" /\ request'.since = now /\ request'.late = (now > 0)
        /\ \/ review' = NoReview
           \/ /\ cfg.monitor # 0 /\ review' \in Reviews
              /\ review'.at = "queued" /\ review'.verdict = None /\ ~review'.waited
     \/ /\ request.at # None /\ request'.at = "closed" /\ review' = NoReview
     \/ /\ request.at = "pending" /\ request'.at = "pending" /\ request'.since = request.since
        /\ request'.late = request.late /\ UNCHANGED review
     \/ /\ request.at = "pending" /\ request'.at = "held" /\ request'.since = now
        /\ review' = NoReview
  /\ request'.by = None
  /\ UNCHANGED <<cfg, now, hook>>

LEMMA AnswersIt ==
  ASSUME TypeOK, NEW v \in Verdicts,
         NEW by \in {"rules", "broker", "llm", "reaper", "expired", "operator", "operator, late"},
         request.at \in {"pending", "held"}, Answers(v, by), UNCHANGED <<cfg, now, hook>>,
         by = "operator" => request.at = "held" /\ now - request.since < cfg.ttl,
         by = "reaper" => request.at = "pending" /\ now - request.since >= PendingTtl
  PROVE  EntryAnswered
<1>1. /\ request' \in Entries /\ request'.at = "answered" /\ request'.answer = v
      /\ request'.by = by /\ (request.at = "held" => request'.since = request.since)
      /\ review' = NoReview
  BY Answered
<1>2. by # None
  BY DEF None
<1> QED BY <1>1, <1>2 DEF EntryAnswered

LEMMA RegistersBy ==
  ASSUME TypeOK, request.at # "answered" => request.by = None, Registers PROVE EntryMoves
<1>1. /\ request \in Entries /\ review \in Reviews /\ now \in Nat
      /\ request.at = "reading" /\ hook.pc # "writing" /\ UNCHANGED <<cfg, now, hook>>
      /\ request.answer = None /\ request.by = None
  BY DEF Registers, TypeOK
<1>2. PICK late \in BOOLEAN :
        /\ late = (now > 0)
        /\ request' = [request EXCEPT !.at = "pending", !.since = now, !.late = late]
  <2>1. (now > 0) \in BOOLEAN
    OBVIOUS
  <2>2. request' = [request EXCEPT !.at = "pending", !.since = now, !.late = (now > 0)]
    BY DEF Registers
  <2> QED BY <2>1, <2>2, Zenon
<1>3. /\ request' \in Entries /\ request'.at = "pending" /\ request'.since = now
      /\ request'.late = late /\ request'.answer = None /\ request'.by = None
  BY <1>1, <1>2 DEF Entries
<1>4. request'.late = (now > 0)
  BY <1>2, <1>3
<1>5. \/ review' = NoReview
      \/ /\ cfg.monitor # 0 /\ review' \in Reviews
         /\ review'.at = "queued" /\ review'.verdict = None /\ ~review'.waited
  BY NoReviewIs DEF Registers, Reviews
<1> QED BY <1>1, <1>3, <1>4, <1>5 DEF EntryMoves

LEMMA BrokerStepBy ==
  ASSUME TypeOK, ReviewOfEntry, BrokerSteps PROVE EntryMoves \/ EntryAnswered
<1>1. /\ request \in Entries /\ review \in Reviews /\ now \in Nat
      /\ request.at # "answered" => request.by = None /\ request.answer = None
  BY DEF TypeOK, ReviewOfEntry
<1>2. ASSUME Accepts PROVE EntryMoves
  BY <1>1, <1>2 DEF Accepts, EntryMoves, Entries
<1>3. ASSUME Registers PROVE EntryMoves
  BY <1>1, <1>3, RegistersBy
<1>4. ASSUME ServiceStops PROVE EntryMoves
  BY <1>1, <1>4, NoReviewIs DEF ServiceStops, EntryMoves, Entries, None
<1>5. ASSUME NEW v \in Verdicts, RulesSay(v) PROVE EntryMoves \/ EntryAnswered
  <2>1. CASE v = "deny"
    BY <1>5, <2>1, AnswersIt DEF RulesSay
  <2>2. CASE v # "deny"
    BY <1>1, <1>5, <2>2 DEF RulesSay, EntryMoves, Entries
  <2> QED BY <2>1, <2>2
<1>6. ASSUME Completes PROVE EntryMoves \/ EntryAnswered
  <2>1. Staged \in Verdicts
    BY <1>6, StagedIs DEF Completes
  <2>2. CASE Staged = "ask" /\ cfg.ttl # 0
    <3>1. request' = [NoRequest EXCEPT !.at = "held", !.since = now] /\ review' = NoReview
          /\ request.at = "pending" /\ UNCHANGED <<cfg, now, hook>>
      BY <1>6, <2>2 DEF Completes
    <3> QED BY <1>1, <3>1, NoReviewIs DEF EntryMoves, Entries
  <2>3. CASE ~(Staged = "ask" /\ cfg.ttl # 0)
    BY <1>6, <2>1, <2>3, AnswersIt DEF Completes
  <2> QED BY <2>2, <2>3
<1>7. ASSUME Reaps PROVE EntryAnswered
  <2>1. CASE request.at = "held"
    BY <1>7, <2>1, AnswersIt DEF Reaps, IsStale, Verdicts
  <2>2. CASE request.at # "held"
    BY <1>7, <2>2, AnswersIt DEF Reaps, IsStale, Verdicts
  <2> QED BY <2>1, <2>2
<1>8. ASSUME NEW v \in Verdicts, OperatorDecides(v) PROVE EntryAnswered
  <2>1. CASE now - request.since < cfg.ttl
    BY <1>8, <2>1, AnswersIt DEF OperatorDecides
  <2>2. CASE ~(now - request.since < cfg.ttl)
    BY <1>8, <2>2, AnswersIt DEF OperatorDecides
  <2> QED BY <2>1, <2>2
<1> QED BY <1>2, <1>3, <1>4, <1>5, <1>6, <1>7, <1>8 DEF BrokerSteps, Verdicts

\* The review goes on: it starts, is tried again, or has a verdict.
ReviewMoves ==
  /\ UNCHANGED <<cfg, now, hook, request>> /\ review' \in Reviews
  /\ (review'.at = "done") = (review'.verdict # None)
  /\ \/ /\ review.at = "queued" /\ review'.at = "calling" /\ review'.attempts = 1
        /\ review'.deadline = now + cfg.monitor /\ review'.waited = review.waited
     \/ /\ review.at = "calling" /\ review.attempts = 1
        /\ review'.at = "calling" /\ review'.attempts = 2
        /\ review'.deadline = now + cfg.monitor /\ review'.waited = review.waited
     \/ review.at = "calling" /\ review'.at = "done"

LEMMA ReviewEndsBy ==
  ASSUME TypeOK, ReviewOfEntry, NEW v \in {"allow", "ask", "deny"}, review.at = "calling",
         ReviewEnds(v), UNCHANGED <<cfg, now, hook>>
  PROVE  ReviewMoves \/ EntryAnswered
<1>1. CASE v = "deny"
  BY <1>1, AnswersIt DEF ReviewEnds, ReviewOfEntry, Verdicts
<1>2. CASE v # "deny"
  <2>1. review' = [NoReview EXCEPT !.at = "done", !.verdict = v] /\ UNCHANGED request
    BY <1>2 DEF ReviewEnds
  <2>2. review' \in Reviews /\ review'.at = "done" /\ review'.verdict # None
    BY <2>1, NoReviewIs DEF Reviews, None
  <2> QED BY <2>1, <2>2 DEF ReviewMoves
<1> QED BY <1>1, <1>2

LEMMA ReviewStepBy ==
  ASSUME TypeOK, ReviewOfEntry, ReviewSteps PROVE ReviewMoves \/ EntryAnswered
<1>1. /\ review \in Reviews /\ now \in Nat /\ cfg.monitor \in Nat
      /\ (review.at = "done") = (review.verdict # None)
  BY TimeoutIs DEF TypeOK
<1>2. CASE ReviewStarts
  <2>1. review' = [review EXCEPT !.at = "calling", !.attempts = 1, !.deadline = now + cfg.monitor]
        /\ review.at = "queued" /\ UNCHANGED <<cfg, now, hook, request>>
    BY <1>2 DEF ReviewStarts
  <2>2. /\ review' \in Reviews /\ review'.at = "calling" /\ review'.attempts = 1
        /\ review'.deadline = now + cfg.monitor /\ review'.waited = review.waited
        /\ review'.verdict = review.verdict
    <3>1. now + cfg.monitor \in Nat /\ 1 \in 0 .. MaxAttempts
      BY <1>1 DEF MaxAttempts
    <3>2. review' \in Reviews
      BY <1>1, <2>1, <3>1 DEF Reviews
    <3>3. /\ review'.at = "calling" /\ review'.attempts = 1
          /\ review'.deadline = now + cfg.monitor /\ review'.waited = review.waited
          /\ review'.verdict = review.verdict
      BY <1>1, <2>1, Zenon DEF Reviews
    <3> QED BY <3>2, <3>3
  <2> QED BY <1>1, <2>1, <2>2 DEF ReviewMoves
<1>3. ASSUME NEW v \in {"allow", "ask", "deny"}, ModelAnswers(v)
      PROVE  ReviewMoves \/ EntryAnswered
  BY <1>3, ReviewEndsBy DEF ModelAnswers
<1>4. ASSUME NEW fatal \in BOOLEAN, NEW onError \in {"ask", "deny"}, AttemptFails(fatal, onError)
      PROVE  ReviewMoves \/ EntryAnswered
  <2>1. CASE ~fatal /\ review.attempts < MaxAttempts
    <3>1. /\ review' = [review EXCEPT !.attempts = review.attempts + 1, !.deadline = now + cfg.monitor]
          /\ review.at = "calling" /\ UNCHANGED <<cfg, now, hook, request>>
      BY <1>4, <2>1 DEF AttemptFails
    <3>2. review.attempts = 1
      BY <2>1, <3>1 DEF ReviewOfEntry, MaxAttempts
    <3>3. /\ review' \in Reviews /\ review'.at = "calling" /\ review'.attempts = 2
          /\ review'.deadline = now + cfg.monitor /\ review'.waited = review.waited
          /\ review'.verdict = review.verdict
      <4>1. now + cfg.monitor \in Nat /\ 2 \in 0 .. MaxAttempts
        BY <1>1 DEF MaxAttempts
      <4>2. review' \in Reviews
        <5>1. review' = [review EXCEPT !.attempts = 2, !.deadline = now + cfg.monitor]
          BY <3>1, <3>2
        <5> QED BY <1>1, <4>1, <5>1 DEF Reviews
      <4>3. /\ review'.at = "calling" /\ review'.attempts = review.attempts + 1
            /\ review'.deadline = now + cfg.monitor /\ review'.waited = review.waited
            /\ review'.verdict = review.verdict
        BY <1>1, <3>1, Zenon DEF Reviews
      <4> QED BY <3>2, <4>2, <4>3
    <3> QED BY <1>1, <3>1, <3>2, <3>3 DEF ReviewMoves
  <2>2. CASE ~(~fatal /\ review.attempts < MaxAttempts)
    <3>1. ReviewEnds(onError) /\ review.at = "calling" /\ UNCHANGED <<cfg, now, hook>>
      BY <1>4, <2>2 DEF AttemptFails
    <3> QED BY <3>1, ReviewEndsBy
  <2> QED BY <2>1, <2>2
<1> QED BY <1>2, <1>3, <1>4 DEF ReviewSteps

\* The hook goes on: it starts, connects, or has written its line.
Invoked == hook' \in Hooks /\ hook'.pc = "input" /\ hook'.why = None /\ hook'.decision = None
           /\ ~hook'.stalled /\ hook'.deadline = 0
           /\ now' = 0 /\ request' = NoRequest /\ review' = NoReview

Connected == hook.pc = "input" /\ hook' \in Hooks /\ hook'.pc = "writing"
             /\ hook'.why = hook.why /\ hook'.deadline = now + Timeout
             /\ request' \in Entries /\ request'.at = "unread" /\ request'.answer = None
             /\ request'.by = None /\ UNCHANGED <<now, review>>

HasWritten == hook.pc = "writing" /\ hook' \in Hooks /\ hook'.pc = "waiting"
              /\ hook'.why = hook.why /\ hook'.deadline = now + Timeout
              /\ (~hook'.stalled => now = 0) /\ UNCHANGED <<now, request, review>>

LEMMA HookGoesOn ==
  ASSUME TypeOK
  PROVE  /\ \A event \in {"PreToolUse", "PermissionRequest"}, large \in BOOLEAN :
              Invoke(event, large) => Invoked
         /\ Connects => Connected
         /\ Written => HasWritten
<1>1. hook \in Hooks /\ now \in Nat /\ Timeout \in Nat
  BY TimeoutIs DEF TypeOK
<1>2. ASSUME NEW event \in {"PreToolUse", "PermissionRequest"}, NEW large \in BOOLEAN,
             Invoke(event, large)
      PROVE  Invoked
  <2>1. hook' = [Idle EXCEPT !.pc = "input", !.event = event, !.large = large]
    BY <1>2 DEF Invoke
  <2>2. /\ hook' \in Hooks /\ hook'.pc = "input" /\ hook'.why = None /\ hook'.decision = None
        /\ ~hook'.stalled /\ hook'.deadline = 0
    BY <2>1 DEF Idle, Hooks
  <2> QED BY <1>2, <2>2 DEF Invoke, Invoked
<1>3. ASSUME Connects PROVE Connected
  <2>1. hook' = [hook EXCEPT !.pc = "writing", !.deadline = now + Timeout] /\ now + Timeout \in Nat
    BY <1>1, <1>3 DEF Connects
  <2>2. hook' \in Hooks /\ hook'.pc = "writing" /\ hook'.deadline = now + Timeout
        /\ hook'.why = hook.why
    BY <1>1, <2>1 DEF Hooks
  <2>3. request' \in Entries /\ request'.at = "unread" /\ request'.answer = None /\ request'.by = None
    BY <1>3, NoReviewIs DEF Connects, Entries
  <2>4. hook.pc = "input" /\ UNCHANGED <<now, review>>
    BY <1>3 DEF Connects
  <2> QED BY <2>2, <2>3, <2>4 DEF Connected
<1>4. ASSUME Written PROVE HasWritten
  <2>1. PICK stalled \in BOOLEAN :
          /\ stalled = (now > 0)
          /\ hook' = [hook EXCEPT !.pc = "waiting", !.large = FALSE, !.stalled = stalled,
                                  !.deadline = now + Timeout]
    <3>1. (now > 0) \in BOOLEAN
      OBVIOUS
    <3>2. hook' = [hook EXCEPT !.pc = "waiting", !.large = FALSE, !.stalled = (now > 0),
                               !.deadline = now + Timeout]
      BY <1>4 DEF Written
    <3> QED BY <3>1, <3>2, Zenon
  <2>2. now + Timeout \in Nat
    BY <1>1
  <2>3. hook' \in Hooks /\ hook'.pc = "waiting" /\ hook'.deadline = now + Timeout
        /\ hook'.why = hook.why /\ hook'.stalled = stalled
    BY <1>1, <2>1, <2>2 DEF Hooks
  <2>4. ~hook'.stalled => now = 0
    <3>1. ~hook'.stalled => ~(now > 0)
      BY <2>1, <2>3, Zenon
    <3> QED BY <1>1, <3>1
  <2>5. hook.pc = "writing" /\ UNCHANGED <<now, request, review>>
    BY <1>4 DEF Written
  <2> QED BY <2>3, <2>4, <2>5 DEF HasWritten
<1> QED BY <1>2, <1>3, <1>4

(***************************************************************************)
(* Every step preserves the invariant.                                     *)
(***************************************************************************)
Settled == cfg' = cfg /\ Timeout' = Timeout /\ KillAfter' = KillAfter
           /\ HookTimeoutFromConfig' = HookTimeoutFromConfig /\ Outlasts' = Outlasts
           /\ (UserOutlastsLimit' <=> UserOutlastsLimit)

LEMMA HookEndsKeeps ==
  ASSUME HInv, HookEnds, Settled PROVE HInv'
<1> USE DEF None
<1>1. /\ cfg \in Configs /\ now \in Nat /\ hook \in Hooks /\ request \in Entries /\ review \in Reviews
      /\ Timeout \in Nat /\ KillAfter \in Nat /\ HookTimeoutFromConfig \in Nat /\ cfg.ttl \in Nat
      /\ request.since \in Nat
  BY TimeoutIs DEF HInv, TypeOK, Entries
<1>2. \/ UNCHANGED request
      \/ /\ hook.pc = "writing" /\ request'.at = "closed" /\ request' \in Entries
         /\ request'.by = None /\ request'.answer = None
         /\ review.at \notin {"queued", "calling"}
  BY DEF HookEnds, HInv, TypeOK, WritesBeforeEntry, ReviewOfEntry
<1>3. hook' \in Hooks /\ hook'.pc = "done" /\ hook'.deadline = 0 /\ UNCHANGED <<now, review>>
  BY DEF HookEnds
<1>4. TypeOK'
  BY <1>1, <1>2, <1>3 DEF HInv, TypeOK, Settled
<1>5. ClockOfHook' /\ WritesBeforeEntry'
  BY <1>3 DEF ClockOfHook, WritesBeforeEntry
<1>6. ReviewOfEntry'
  BY <1>2, <1>3 DEF HInv, ReviewOfEntry, AttemptsEnd, Settled
<1>7. AnswerIsTold'
  BY <1>3 DEF HookEnds, AnswerIsTold
<1>8. ASSUME GaveUp'
      PROVE  hook.pc \in {"writing", "waiting"} /\ (now >= Timeout \/ now >= KillAfter)
  <2>1. CASE hook'.why = "timeout"
    <3>1. now >= hook.deadline /\ hook.pc \in {"writing", "waiting"}
      BY <2>1 DEF HookEnds
    <3>2. hook.deadline \in Nat /\ Timeout <= hook.deadline
      <4>1. hook.deadline \in Nat
        BY <1>1 DEF Hooks
      <4> QED BY <1>1, <3>1, <4>1 DEF HInv, ClockOfHook
    <3> QED BY <1>1, <3>1, <3>2
  <2>2. CASE hook'.why # "timeout"
    BY <1>8, <2>2 DEF HookEnds, GaveUp, WasKilled
  <2> QED BY <2>1, <2>2
<1>9. GaveUp' /\ Outlasts => now >= HookTimeoutFromConfig /\ HookTimeoutFromConfig >= cfg.ttl + 3
  BY <1>1, <1>3, <1>8, TimeoutIs DEF Outlasts
<1>10. GivesUpLate'
  BY <1>3, <1>9 DEF GivesUpLate, Settled
<1>11. OperatorInTime'
  BY <1>2, <1>3 DEF HInv, OperatorInTime, Settled
<1>12. FailsClosed'
  BY <1>3 DEF HookEnds, FailsClosed, Settled, WasKilled
<1>13. NeverMoreLenient'
  BY <1>2, <1>3 DEF HookEnds, NeverMoreLenient, AtLeast, Settled, WasKilled
<1>14. KilledOnlyIfStalled'
  <2>1. ASSUME hook'.why = "killed waiting"
        PROVE  UserOutlastsLimit
    <3>1. now >= KillAfter /\ hook.pc = "waiting" /\ ~hook.stalled
      BY <2>1 DEF HookEnds
    <3>2. now <= Timeout
      BY <3>1 DEF HInv, ClockOfHook
    <3> QED BY <1>1, <3>1, <3>2, TimeoutIs
  <2> QED BY <2>1 DEF KilledOnlyIfStalled, Settled, CodexTimeoutSec
<1>15. DecisionArrives'
  BY <1>1, <1>2, <1>8, <1>9
  DEF HInv, OperatorInTime, DecisionArrives, Settled, Outlasts
<1> QED BY <1>4, <1>5, <1>6, <1>7, <1>10, <1>11, <1>12, <1>13, <1>14, <1>15 DEF HInv

LEMMA AnsweredKeeps ==
  ASSUME HInv, EntryAnswered, Settled PROVE HInv'
<1> USE DEF None
<1>1. /\ cfg \in Configs /\ now \in Nat /\ hook \in Hooks /\ request \in Entries /\ review \in Reviews
      /\ HookTimeoutFromConfig \in Nat /\ cfg.ttl \in Nat /\ request.since \in Nat
  BY TimeoutIs DEF HInv, TypeOK, Entries
<1>2. /\ request' \in Entries /\ request'.at = "answered" /\ request'.answer \in Verdicts
      /\ request'.by # None /\ request.at \in {"pending", "held"} /\ review' = NoReview
      /\ UNCHANGED <<now, hook>> /\ request.since <= now
  BY DEF EntryAnswered, HInv, ReviewOfEntry
<1>3. /\ request'.by = "operator" =>
           request'.since = request.since /\ now - request.since < cfg.ttl /\ cfg.ttl # 0
      /\ hook.pc \notin {"idle", "input", "writing"} /\ hook.why # "answer"
  BY <1>1, <1>2 DEF EntryAnswered, HInv, WritesBeforeEntry, AnswerIsTold
<1>4. TypeOK'
  BY <1>1, <1>2, NoReviewIs DEF HInv, TypeOK, Settled, Verdicts
<1>5. ClockOfHook' /\ WritesBeforeEntry'
  BY <1>2, <1>3 DEF HInv, ClockOfHook, WritesBeforeEntry, Settled
<1>6. ReviewOfEntry'
  BY <1>2, NoReviewIs DEF ReviewOfEntry
<1>7. AnswerIsTold' /\ GivesUpLate'
  BY <1>2, <1>3 DEF HInv, AnswerIsTold, GivesUpLate, GaveUp, WasKilled, Settled
<1>8. OperatorInTime'
  BY <1>1, <1>2, <1>3 DEF OperatorInTime, Settled
<1>9. FailsClosed' /\ KilledOnlyIfStalled'
  BY <1>2 DEF HInv, FailsClosed, KilledOnlyIfStalled, WasKilled, Settled
<1>10. NeverMoreLenient'
  BY <1>2, <1>3 DEF HInv, NeverMoreLenient, FailsClosed, AtLeast, WasKilled, Settled
<1>11. DecisionArrives'
  <2>1. ASSUME request'.by = "operator", cfg.agent = "claude", request.since <= 3,
               HookTimeoutFromConfig <= ClaudeTimeoutMax, GaveUp
        PROVE  FALSE
    <3>1. Outlasts
      BY <1>3, <2>1 DEF Outlasts
    <3>2. now >= HookTimeoutFromConfig /\ HookTimeoutFromConfig >= cfg.ttl + 3
      BY <1>1, <1>3, <2>1, <3>1, TimeoutIs DEF HInv, GivesUpLate
    <3> QED BY <1>1, <1>3, <2>1, <3>2
  <2> QED BY <1>2, <1>3, <2>1 DEF DecisionArrives, GaveUp, WasKilled, Settled
<1> QED BY <1>4, <1>5, <1>6, <1>7, <1>8, <1>9, <1>10, <1>11 DEF HInv

LEMMA MovesKeeps ==
  ASSUME HInv, EntryMoves, Settled PROVE HInv'
<1> USE DEF None
<1>1. /\ now \in Nat /\ hook \in Hooks /\ request \in Entries /\ review \in Reviews
      /\ cfg \in Configs
  BY DEF HInv, TypeOK
<1>2. /\ request.at # "answered" /\ request' \in Entries /\ request'.answer = None
      /\ request'.by = None /\ UNCHANGED <<now, hook>>
      /\ request'.at \in {"reading", "pending", "closed", "held"} /\ request.at # None
  BY DEF EntryMoves
<1>3. /\ review' \in Reviews /\ (review'.at = "done") = (review'.verdict # None)
  BY <1>1, NoReviewIs DEF EntryMoves, HInv, TypeOK
<1>4. TypeOK'
  BY <1>1, <1>2, <1>3 DEF HInv, TypeOK, Settled
<1>5. ClockOfHook' /\ WritesBeforeEntry'
  BY <1>2 DEF HInv, ClockOfHook, WritesBeforeEntry, Settled, EntryMoves
<1>6. ReviewOfEntry'
  <2>1. CASE request'.at = "pending"
    <3>1. CASE request.at = "reading"
      <4>1. /\ request'.since = now /\ request'.late = (now > 0)
            /\ review'.at # "calling" /\ (review'.at = "queued" => cfg.monitor # 0)
        BY <2>1, <3>1, NoReviewIs DEF EntryMoves
      <4>2. ~request'.late => request'.since = 0
        <5>1. ~request'.late => ~(now > 0)
          BY <4>1, Zenon
        <5> QED BY <1>1, <4>1, <5>1
      <4> QED BY <1>1, <1>2, <2>1, <4>1, <4>2 DEF ReviewOfEntry, Settled
    <3>2. CASE request.at # "reading"
      <4>1. request.at = "pending" /\ request'.since = request.since
            /\ request'.late = request.late /\ UNCHANGED review
        BY <2>1, <3>2 DEF EntryMoves
      <4> QED BY <1>2, <2>1, <4>1 DEF HInv, ReviewOfEntry, AttemptsEnd, Settled
    <3> QED BY <3>1, <3>2
  <2>2. CASE request'.at \in {"closed", "held"}
    <3>1. review' = NoReview \/ request.at = "answered"
      BY <2>2 DEF EntryMoves
    <3>2. request'.at = "held" => request'.since <= now
      BY <1>1, <1>2, <2>2 DEF EntryMoves
    <3> QED BY <1>2, <2>2, <3>1, <3>2, NoReviewIs DEF ReviewOfEntry
  <2>3. CASE request'.at = "reading"
    <3>1. UNCHANGED review /\ request.at = "unread"
      BY <2>3 DEF EntryMoves
    <3> QED BY <1>2, <2>3, <3>1 DEF HInv, ReviewOfEntry
  <2> QED BY <1>2, <2>1, <2>2, <2>3
<1>7. AnswerIsTold' /\ GivesUpLate' /\ OperatorInTime'
  BY <1>2 DEF HInv, AnswerIsTold, GivesUpLate, OperatorInTime, GaveUp, WasKilled, Settled
<1>8. FailsClosed' /\ KilledOnlyIfStalled' /\ NeverMoreLenient' /\ DecisionArrives'
  BY <1>2 DEF HInv, FailsClosed, KilledOnlyIfStalled, NeverMoreLenient, DecisionArrives,
              WasKilled, Settled
<1> QED BY <1>4, <1>5, <1>6, <1>7, <1>8 DEF HInv

LEMMA ReviewKeeps ==
  ASSUME HInv, ReviewMoves, Settled PROVE HInv'
<1> USE DEF None
<1>1. /\ now \in Nat /\ hook \in Hooks /\ request \in Entries /\ review \in Reviews
      /\ cfg \in Configs /\ cfg.monitor \in Nat /\ request.since \in Nat /\ review.deadline \in Nat
  BY TimeoutIs DEF HInv, TypeOK, Entries, Reviews
<1>2. /\ UNCHANGED <<now, hook, request>> /\ review' \in Reviews
      /\ (review'.at = "done") = (review'.verdict # None)
      /\ request.at = "pending" /\ cfg.monitor # 0 /\ review'.at \in {"calling", "done"}
  BY DEF ReviewMoves, HInv, ReviewOfEntry
<1>3. TypeOK'
  BY <1>1, <1>2 DEF HInv, TypeOK, Settled
<1>4. review'.at = "calling" => review'.attempts \in {1, 2} /\ review'.deadline = now + cfg.monitor
  BY <1>2 DEF ReviewMoves
<1>5. ASSUME review'.at = "calling", ~review'.waited
      PROVE  review'.deadline <= request.since
                                 + (IF review'.attempts = 1 THEN cfg.monitor ELSE 2 * cfg.monitor)
  <2>1. CASE review.at = "queued"
    BY <1>1, <1>4, <1>5, <2>1 DEF ReviewMoves, HInv, ReviewOfEntry
  <2>2. CASE review.at # "queued"
    <3>1. review.at = "calling" /\ review.attempts = 1 /\ review'.attempts = 2 /\ ~review.waited
      BY <1>5, <2>2 DEF ReviewMoves
    <3>2. now <= review.deadline /\ review.deadline <= request.since + cfg.monitor
      BY <3>1 DEF HInv, ReviewOfEntry, AttemptsEnd
    <3> QED BY <1>1, <1>4, <1>5, <3>1, <3>2
  <2> QED BY <2>1, <2>2
<1>6. ReviewOfEntry'
  BY <1>1, <1>2, <1>4, <1>5 DEF HInv, ReviewOfEntry, AttemptsEnd, Settled
<1>7. ClockOfHook' /\ WritesBeforeEntry' /\ AnswerIsTold' /\ GivesUpLate' /\ OperatorInTime'
  BY <1>2 DEF HInv, ClockOfHook, WritesBeforeEntry, AnswerIsTold, GivesUpLate, OperatorInTime,
              GaveUp, WasKilled, Settled
<1>8. FailsClosed' /\ KilledOnlyIfStalled' /\ NeverMoreLenient' /\ DecisionArrives'
  BY <1>2 DEF HInv, FailsClosed, KilledOnlyIfStalled, NeverMoreLenient, DecisionArrives,
              GaveUp, WasKilled, Settled
<1> QED BY <1>3, <1>6, <1>7, <1>8 DEF HInv

LEMMA GoesOnKeeps ==
  ASSUME HInv, Invoked \/ Connected \/ HasWritten, Settled PROVE HInv'
<1> USE DEF None
<1>1. /\ now \in Nat /\ hook \in Hooks /\ request \in Entries /\ review \in Reviews
      /\ cfg \in Configs /\ Timeout \in Nat
  BY TimeoutIs DEF HInv, TypeOK
<1>2. CASE Invoked
  <2>1. TypeOK'
    BY <1>1, <1>2, NoReviewIs DEF HInv, TypeOK, Settled, Invoked
  <2>2. ClockOfHook' /\ WritesBeforeEntry' /\ ReviewOfEntry' /\ AnswerIsTold' /\ GivesUpLate'
        /\ OperatorInTime'
    BY <1>2, NoReviewIs DEF ClockOfHook, WritesBeforeEntry, ReviewOfEntry, AnswerIsTold,
         GivesUpLate, OperatorInTime, GaveUp, WasKilled, Invoked
  <2>3. FailsClosed' /\ KilledOnlyIfStalled' /\ NeverMoreLenient' /\ DecisionArrives'
    BY <1>2, NoReviewIs DEF FailsClosed, KilledOnlyIfStalled, NeverMoreLenient, DecisionArrives,
         GaveUp, WasKilled, Invoked
  <2> QED BY <2>1, <2>2, <2>3 DEF HInv
<1>3. CASE Connected
  <2>1. /\ hook' \in Hooks /\ hook'.pc = "writing" /\ hook'.why = hook.why /\ hook.pc = "input"
        /\ hook'.deadline = now + Timeout /\ now = 0
        /\ request' \in Entries /\ request'.at = "unread" /\ request'.answer = None
        /\ request'.by = None /\ UNCHANGED <<now, review>>
        /\ review.at \notin {"queued", "calling"} /\ hook'.deadline = Timeout
    BY <1>1, <1>3 DEF Connected, HInv, ClockOfHook, WritesBeforeEntry, ReviewOfEntry
  <2>2. TypeOK'
    BY <1>1, <2>1 DEF HInv, TypeOK, Settled
  <2>3. ClockOfHook' /\ WritesBeforeEntry' /\ ReviewOfEntry'
    BY <1>1, <2>1 DEF ClockOfHook, WritesBeforeEntry, ReviewOfEntry, Settled
  <2>4. AnswerIsTold' /\ GivesUpLate' /\ OperatorInTime'
    BY <2>1 DEF HInv, AnswerIsTold, GivesUpLate, OperatorInTime, GaveUp, WasKilled, Settled
  <2>5. FailsClosed' /\ KilledOnlyIfStalled' /\ NeverMoreLenient' /\ DecisionArrives'
    BY <2>1 DEF HInv, FailsClosed, KilledOnlyIfStalled, NeverMoreLenient, DecisionArrives,
         GaveUp, WasKilled, Settled
  <2> QED BY <2>2, <2>3, <2>4, <2>5 DEF HInv
<1>4. CASE HasWritten
  <2>1. /\ hook' \in Hooks /\ hook'.pc = "waiting" /\ hook'.why = hook.why /\ hook.pc = "writing"
        /\ hook'.deadline = now + Timeout /\ UNCHANGED <<now, request, review>>
        /\ request.at \in {"unread", "reading", "closed"}
        /\ (~hook'.stalled => now = 0)
    BY <1>4 DEF HasWritten, HInv, WritesBeforeEntry
  <2>2. /\ Timeout <= hook'.deadline /\ now <= hook'.deadline
        /\ ~hook'.stalled => hook'.deadline = Timeout
    <3>1. Timeout <= hook'.deadline /\ now <= hook'.deadline
      BY <1>1, <2>1
    <3>2. ASSUME ~hook'.stalled PROVE hook'.deadline = Timeout
      BY <1>1, <2>1, <3>2
    <3> QED BY <3>1, <3>2
  <2>3. TypeOK'
    BY <1>1, <2>1 DEF HInv, TypeOK, Settled
  <2>4. ClockOfHook' /\ WritesBeforeEntry' /\ ReviewOfEntry'
    BY <2>1, <2>2 DEF HInv, ClockOfHook, WritesBeforeEntry, ReviewOfEntry, AttemptsEnd, Settled
  <2>5. AnswerIsTold' /\ GivesUpLate' /\ OperatorInTime'
    BY <2>1 DEF HInv, AnswerIsTold, GivesUpLate, OperatorInTime, GaveUp, WasKilled, Settled
  <2>6. FailsClosed' /\ KilledOnlyIfStalled' /\ NeverMoreLenient' /\ DecisionArrives'
    BY <2>1 DEF HInv, FailsClosed, KilledOnlyIfStalled, NeverMoreLenient, DecisionArrives,
         GaveUp, WasKilled, Settled
  <2> QED BY <2>3, <2>4, <2>5, <2>6 DEF HInv
<1> QED BY <1>2, <1>3, <1>4

LEMMA TickKeeps ==
  ASSUME HInv, Tick, Settled PROVE HInv'
<1> USE DEF None
<1>1. /\ now \in Nat /\ hook \in Hooks /\ request \in Entries /\ review \in Reviews
      /\ cfg \in Configs /\ Timeout \in Nat /\ request.since \in Nat /\ hook.deadline \in Nat
      /\ review.deadline \in Nat /\ HookTimeoutFromConfig \in Nat
  BY TimeoutIs DEF HInv, TypeOK, Entries, Hooks, Reviews
<1>2. /\ now' = now + 1 /\ UNCHANGED <<hook, request>> /\ HookWaits
      /\ review.at = "calling" => now < review.deadline
  BY DEF Tick
<1>3. /\ review' \in Reviews /\ review'.at = review.at /\ review'.verdict = review.verdict
      /\ review'.attempts = review.attempts /\ review'.deadline = review.deadline
      /\ review.at = "queued" => review'.waited
      /\ review.at # "queued" => review' = review
  <2>1. CASE review.at = "queued"
    <3>1. review' = [review EXCEPT !.waited = TRUE]
      BY <2>1 DEF Tick
    <3> QED BY <1>1, <2>1, <3>1 DEF Reviews
  <2>2. CASE review.at # "queued"
    BY <1>1, <2>2 DEF Tick
  <2> QED BY <2>1, <2>2
<1>4. hook.pc \in {"idle", "done"} \/ (hook.pc \in {"writing", "waiting"} /\ now < hook.deadline
                                       /\ request.at # "answered")
  BY <1>2 DEF HookWaits, HInv, TypeOK
<1>5. TypeOK'
  BY <1>1, <1>2, <1>3 DEF HInv, TypeOK, Settled
<1>6. ClockOfHook' /\ WritesBeforeEntry'
  BY <1>1, <1>2, <1>4 DEF HInv, ClockOfHook, WritesBeforeEntry, Settled
<1>7. ReviewOfEntry'
  <2>1. review.at = "calling" => now' <= review'.deadline /\ review'.waited = review.waited
    BY <1>1, <1>2, <1>3
  <2>2. request.at \in {"pending", "held"} => request.since <= now'
    BY <1>1, <1>2 DEF HInv, ReviewOfEntry
  <2>3. AttemptsEnd' = AttemptsEnd
    BY <1>2, <1>3 DEF AttemptsEnd, Settled
  <2> QED BY <1>2, <1>3, <2>1, <2>2, <2>3 DEF HInv, ReviewOfEntry, Settled
<1>8. AnswerIsTold' /\ OperatorInTime'
  BY <1>2, <1>4 DEF HInv, AnswerIsTold, OperatorInTime, Settled
<1>9. GivesUpLate'
  <2>1. GaveUp' = GaveUp
    BY <1>2 DEF GaveUp, WasKilled
  <2>2. now >= HookTimeoutFromConfig => now' >= HookTimeoutFromConfig
    BY <1>1, <1>2
  <2> QED BY <1>2, <2>1, <2>2 DEF HInv, GivesUpLate, Settled
<1>10. FailsClosed' /\ KilledOnlyIfStalled' /\ NeverMoreLenient' /\ DecisionArrives'
  BY <1>2 DEF HInv, FailsClosed, KilledOnlyIfStalled, NeverMoreLenient, DecisionArrives,
         GaveUp, WasKilled, Settled
<1> QED BY <1>5, <1>6, <1>7, <1>8, <1>9, <1>10 DEF HInv

LEMMA StepIs ==
  ASSUME TypeOK, ReviewOfEntry, [Next]_vars
  PROVE  HookEnds \/ EntryAnswered \/ EntryMoves \/ ReviewMoves \/ Invoked \/ Connected
         \/ HasWritten \/ Tick \/ UNCHANGED vars
<1>1. CASE \E event \in {"PreToolUse", "PermissionRequest"}, large \in BOOLEAN : Invoke(event, large)
  BY <1>1, HookGoesOn
<1>2. CASE HookSteps
  BY <1>2, HookEndsBy, HookGoesOn DEF HookSteps
<1>3. CASE BrokerSteps
  BY <1>3, BrokerStepBy
<1>4. CASE ReviewSteps
  BY <1>4, ReviewStepBy
<1> QED BY <1>1, <1>2, <1>3, <1>4 DEF Next

LEMMA HInvInit ==
  ASSUME Init PROVE HInv
<1> USE DEF None
<1>1. /\ cfg \in Configs /\ now = 0 /\ hook = Idle /\ request = NoRequest /\ review = NoReview
  BY DEF Init, Configs
<1>2. TypeOK
  BY <1>1, NoReviewIs, TimeoutIs DEF TypeOK
<1>3. ClockOfHook /\ WritesBeforeEntry /\ ReviewOfEntry /\ AnswerIsTold /\ GivesUpLate
      /\ OperatorInTime
  BY <1>1, NoReviewIs DEF ClockOfHook, WritesBeforeEntry, ReviewOfEntry, AnswerIsTold,
         GivesUpLate, OperatorInTime, GaveUp, WasKilled
<1>4. FailsClosed /\ KilledOnlyIfStalled /\ NeverMoreLenient /\ DecisionArrives
  BY <1>1, NoReviewIs DEF FailsClosed, KilledOnlyIfStalled, NeverMoreLenient, DecisionArrives,
         GaveUp, WasKilled
<1> QED BY <1>2, <1>3, <1>4 DEF HInv

LEMMA HInvNext ==
  ASSUME HInv, [Next]_vars PROVE HInv'
<1>1. Settled
  BY SettingsStay DEF Settled
<1>2. CASE UNCHANGED vars
  <2>1. UNCHANGED <<cfg, now, hook, request, review>>
    BY <1>2 DEF vars
  <2>2. TypeOK' /\ ClockOfHook' /\ WritesBeforeEntry' /\ ReviewOfEntry'
    BY <1>1, <2>1 DEF Settled, HInv, TypeOK, ClockOfHook, WritesBeforeEntry, ReviewOfEntry,
       AttemptsEnd
  <2>3. AnswerIsTold' /\ GivesUpLate' /\ OperatorInTime' /\ NeverMoreLenient' /\ FailsClosed'
    BY <1>1, <2>1 DEF Settled, HInv, AnswerIsTold, GivesUpLate, OperatorInTime, NeverMoreLenient,
       FailsClosed, GaveUp, WasKilled
  <2>4. KilledOnlyIfStalled' /\ DecisionArrives'
    BY <1>1, <2>1 DEF Settled, HInv, KilledOnlyIfStalled, DecisionArrives, GaveUp, WasKilled
  <2> QED BY <2>2, <2>3, <2>4 DEF HInv
<1> QED BY <1>1, <1>2, StepIs, HookEndsKeeps, AnsweredKeeps, MovesKeeps, ReviewKeeps,
           GoesOnKeeps, TickKeeps DEF HInv

(***************************************************************************)
(* Theorems.                                                               *)
(***************************************************************************)
\* The invariant above holds in every state, for every setting of the monitor, the
\* sign-off window and Codex's environment, and every load of the socket thread.
THEOREM HookInvariant == Spec => []HInv
<1>1. Init => HInv
  BY HInvInit
<1>2. HInv /\ [Next]_vars => HInv'
  BY HInvNext
<1> QED BY <1>1, <1>2, PTL DEF Spec

\* However the interceptor ends, the agent is told nothing milder than the answer
\* the broker has given or still gives, and a deny when the interceptor got none,
\* unless it is set to fail open (write_verdict, verdict_on_error, translate_verdict).
THEOREM AnswerIsNeverSoftened == Spec => []ToldNoMilder
<1>1. HInv => ToldNoMilder
  BY DEF HInv, ToldNoMilder
<1> QED BY <1>1, HookInvariant, PTL

\* The margin premptictl adds to the agent's own limit is enough: a hook that is
\* killed while it waits had stalled in its write, or goes by a PREMPTI_TIMEOUT_MS of
\* its user's that is at least the limit (hook_timeout_from_config, get_timeout).
THEOREM LimitOutlastsHook == Spec => []KilledOnlyIfStalled
<1>1. HInv => KilledOnlyIfStalled
  BY DEF HInv
<1> QED BY <1>1, HookInvariant, PTL

\* An operator who decides within the window is heard by a Claude agent, if the call
\* was held within the slack of the hook's timeout, three ticks, and that timeout is
\* below the interceptor's maximum (signoff_hook_timeout_for).  For a call held later
\* this is not so: HoldReachesAgent.
THEOREM OperatorIsHeard == Spec => []DecisionArrives
<1>1. HInv => DecisionArrives
  BY DEF HInv
<1> QED BY <1>1, HookInvariant, PTL

\* A review that did not wait in the queue has its two attempts: the hook does not
\* give the call up during them, nor does the reaper take it away
\* (hook_timeout_for, set_pending_ttl_secs).
THEOREM ReviewHasItsTime == Spec => ReviewFits
<1> USE DEF None
<1>1. ASSUME HInv, [Next]_vars
      PROVE  [ cfg.agent = "claude" /\ hook.why = None /\ hook'.why = "timeout"
               => \/ review.at # "calling" \/ review.waited \/ request.late
                  \/ HookTimeoutFromConfig > ClaudeTimeoutMax ]_vars
  <2> SUFFICES ASSUME cfg.agent = "claude", hook.why = None, hook'.why = "timeout",
                      review.at = "calling", ~review.waited, ~request.late,
                      ~(HookTimeoutFromConfig > ClaudeTimeoutMax)
               PROVE  FALSE
    OBVIOUS
  <2>1. HookEnds
    BY <1>1, StepIs DEF HInv, EntryAnswered, EntryMoves, ReviewMoves, Invoked, Connected,
       HasWritten, Tick, vars
  <2>2. now >= hook.deadline /\ hook.pc \in {"writing", "waiting"}
    BY <2>1 DEF HookEnds
  <2>3. /\ now \in Nat /\ request.since \in Nat /\ review.deadline \in Nat /\ cfg.monitor \in Nat
        /\ hook.deadline \in Nat /\ Timeout \in Nat /\ HookTimeoutFromConfig \in Nat
    BY <1>1, TimeoutIs DEF HInv, TypeOK, Entries, Reviews, Hooks
  <2>4. /\ request.at = "pending" /\ request.since = 0 /\ cfg.monitor # 0
        /\ now <= review.deadline /\ review.deadline <= AttemptsEnd
    BY <1>1 DEF HInv, ReviewOfEntry
  <2>5. now <= 2 * cfg.monitor
    BY <2>3, <2>4 DEF AttemptsEnd
  <2>6. Timeout <= hook.deadline
    BY <1>1, <2>2, <2>4 DEF HInv, ClockOfHook, WritesBeforeEntry
  <2>7. HookTimeoutFromConfig > 2 * cfg.monitor /\ Timeout = HookTimeoutFromConfig
    <3>1. cfg \in Configs /\ ClaudeTimeoutMax \in Nat
      BY <1>1, ConstantsAssumption DEF HInv, TypeOK
    <3>2. HookTimeoutFromConfig > 2 * cfg.monitor
      BY <2>4, <3>1, TimeoutIs
    <3>3. HookTimeoutFromConfig <= ClaudeTimeoutMax /\ HookTimeoutFromConfig # 0
      BY <2>3, <3>1, <3>2
    <3> QED BY <3>1, <3>2, <3>3, TimeoutIs
  <2> QED BY <2>2, <2>3, <2>5, <2>6, <2>7
<1>2. ASSUME HInv, [Next]_vars
      PROVE  [ request.by = None /\ request'.by = "reaper" /\ review.at = "calling"
               => review.waited ]_vars
  <2> SUFFICES ASSUME request.by = None, request'.by = "reaper", review.at = "calling",
                      ~review.waited
               PROVE  FALSE
    OBVIOUS
  <2>1. EntryAnswered
    BY <1>2, StepIs, NoReviewIs DEF HInv, HookEnds, EntryMoves, ReviewMoves, Invoked, Connected,
       HasWritten, Tick, vars
  <2>2. now - request.since >= PendingTtl
    BY <2>1 DEF EntryAnswered
  <2>3. /\ now \in Nat /\ request.since \in Nat /\ review.deadline \in Nat /\ cfg.monitor \in Nat
        /\ PendingTtl \in Nat /\ (cfg.monitor # 0 => PendingTtl >= 2 * cfg.monitor + 2)
    BY <1>2, TimeoutIs DEF HInv, TypeOK, Entries, Reviews
  <2>4. cfg.monitor # 0 /\ now <= review.deadline /\ review.deadline <= AttemptsEnd
    BY <1>2 DEF HInv, ReviewOfEntry
  <2>5. now <= request.since + 2 * cfg.monitor
    BY <2>3, <2>4 DEF AttemptsEnd
  <2> QED BY <2>2, <2>3, <2>4, <2>5
<1>3. Spec => PatientHook
  BY <1>1, HookInvariant, PTL DEF Spec, PatientHook
<1>4. Spec => ReviewOutlived
  BY <1>2, HookInvariant, PTL DEF Spec, ReviewOutlived
<1> QED BY <1>3, <1>4 DEF ReviewFits
===============================================================================
