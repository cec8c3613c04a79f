------------------------------- MODULE Pipeline -------------------------------
(***************************************************************************)
(* What lies around the broker in the plugin's process: the socket thread  *)
(* that takes one connection at a time (socket_server.rs), the bounded     *)
(* channel to the rule engine (source.rs), the alerts that come back over  *)
(* HTTP (http_server.rs), the LLM monitor with its queue and its retries   *)
(* (monitor.rs), and the shutdown (lib.rs).                                *)
(*                                                                         *)
(* Every step that touches a pending request is a step of Broker.tla,      *)
(* conjoined with what it does to the queues.  The rule engine, its output *)
(* worker and the model behind the monitor are external.  Sign-off and the *)
(* reaper stay in Broker.tla: what is asked here is what happens before    *)
(* the reaper would have to step in.                                       *)
(***************************************************************************)
EXTENDS Broker, Integers

Seqs == INSTANCE SequencesExt

CONSTANTS Rules,       \* the tag sets of the rules that can match an event
          OnError,     \* monitor.on_error
          EventCap,    \* DEFAULT_QUEUE_CAPACITY, the channel to the engine
          JobCap,      \* QUEUE_CAPACITY, the monitor's queue
          MaxAttempts, \* MAX_ATTEMPTS of one review
          Shapes,      \* bound: the sets of signals each request may be registered with
          MaxMatches,  \* bound: rules that match one event
          MaxRuled,    \* bound: requests that rules match
          MaxLost      \* bound: requests that lose an alert

\* Requests are numbered in the order of their connections.
ASSUME PipelineAssumption ==
  /\ Requests \subseteq Nat
  /\ Rules \subseteq (SUBSET {"deny", "ask"}) \ {{}}
  /\ OnError \in {"ask", "deny"}
  /\ EventCap \in Nat \ {0} /\ JobCap \in Nat \ {0} /\ MaxAttempts \in Nat \ {0}

VARIABLES
  conn,      \* the socket thread: the connection it is in, and how far
  channel,   \* events between the socket thread and the engine
  outbox,    \* evaluated events whose alerts the receiver has not finished
  jobs,      \* the monitor's queue
  review,    \* the review each worker is in: the request and the attempts made
  ruled,     \* the strictest verdict the engine's rules raised for a request
  approved,  \* requests the model has allowed
  lost,      \* requests an alert of which did not get through
  refused,   \* requests that were turned away before registration
  shutdown,  \* Broker::shutdown
  gone       \* threads that have ended

queues == <<conn, channel, outbox, jobs, review>>
facts == <<ruled, approved, lost, refused, shutdown, gone>>
pvars == <<vars, queues, facts>>
-------------------------------------------------------------------------------
NoConn == [stage |-> "open", id |-> None, left |-> <<>>]
NoReview == [id |-> None, tried |-> 0]

PipelineTypeOK ==
  /\ TypeOK
  /\ conn \in [stage : {"open", "submit", "emit", "gone"}, id : Requests \cup {None},
               left : Seqs!BoundedSeq(Events, Cardinality(Events))]
  /\ channel \in Seqs!BoundedSeq(Requests \X Events, EventCap)
  /\ outbox \in Seq([id : Requests, event : Events, alerts : SUBSET Rules])
  /\ jobs \in Seqs!BoundedSeq(Requests, JobCap)
  /\ review \in [LlmWorkers -> {NoReview} \cup
                               [id : Requests, tried : 0..(MaxAttempts - 1)]]
  /\ ruled \in [Requests -> {NoVerdict, "ask", "deny"}]
  /\ approved \subseteq Requests /\ lost \subseteq Requests
  /\ refused \subseteq Requests
  /\ shutdown \in BOOLEAN
  /\ gone \subseteq Threads

PipelineInit ==
  /\ Init
  /\ conn = NoConn
  /\ channel = <<>> /\ outbox = <<>> /\ jobs = <<>>
  /\ review = [w \in LlmWorkers |-> NoReview]
  /\ ruled = [r \in Requests |-> NoVerdict]
  /\ approved = {} /\ lost = {}
  /\ refused = {}
  /\ shutdown = FALSE
  /\ gone = {}

Here(t) == t \notin gone
Connected(r) == Registered(r) \/ r \in refused

(* The loop of run_server looks at the shutdown flag after each connection. *)
NextConn == [NoConn EXCEPT !.stage = IF shutdown THEN "gone" ELSE "open"]
-------------------------------------------------------------------------------
(* The review, if there is one, is queued before the events. *)
StageAfterRegister(S) == IF Llm \in S THEN "submit" ELSE "emit"

(* A connection brings a request: it is registered with all its signals before
   any of its events is queued.  A patch gives one event per file it touches. *)
Accepts(r) ==
  /\ conn.stage = "open"
  /\ \A q \in Requests : q < r => Connected(q)
  /\ r \notin refused
  /\ Register(r) /\ expected'[r] \in Shapes[r]
  /\ conn' = [stage |-> StageAfterRegister(expected'[r]), id |-> r,
              left |-> Seqs!SetToSeq(expected'[r] \cap Events)]
  /\ UNCHANGED <<channel, outbox, jobs, review, facts>>

(* It is turned away: no request can be read from it and the stream is closed,
   or there is no nonce or the patch does not parse, and it is denied on the
   spot.  Neither leaves an entry or an audit record, so that the interceptor
   denies in both cases and nothing else tells them apart.                   *)
TurnsAway(r) ==
  /\ conn.stage = "open"
  /\ \A q \in Requests : q < r => Connected(q)
  /\ ~Connected(r)
  /\ refused' = refused \cup {r}
  /\ conn' = NextConn
  /\ UNCHANGED <<vars, channel, outbox, jobs, review, ruled, approved, lost, shutdown, gone>>

(* Monitor::submit: a full queue resolves the signal with on_error. *)
JobsFull(r) == ReviewQueueFull(r) /\ work'[Sock].verdict = OnError

Submits ==
  /\ conn.stage = "submit"
  /\ conn' = [conn EXCEPT !.stage = "emit"]
  /\ IF Len(jobs) < JobCap
     THEN jobs' = Append(jobs, conn.id) /\ UNCHANGED vars
     ELSE JobsFull(conn.id) /\ UNCHANGED jobs
  /\ UNCHANGED <<channel, outbox, review, facts>>

\* Mutated form: the events that do not fit are dropped.
ChannelFullDrops(r, left) == UNCHANGED vars

(* An event that does not fit denies the request, and those after it are not
   tried.                                                                    *)
ChannelFull(r, left) == EventQueueFull(r, Seqs!ToSet(left))

Emits ==
  /\ conn.stage = "emit"
  /\ work[Sock] = Idle
  /\ \/ /\ conn.left = <<>>
        /\ conn' = NextConn
        /\ UNCHANGED <<vars, channel>>
     \/ /\ conn.left # <<>> /\ Len(channel) < EventCap
        /\ channel' = Append(channel, <<conn.id, Head(conn.left)>>)
        /\ conn' = [conn EXCEPT !.left = Tail(@)]
        /\ UNCHANGED vars
     \/ /\ conn.left # <<>> /\ Len(channel) = EventCap
        /\ ChannelFull(conn.id, conn.left)
        /\ conn' = NextConn
        /\ UNCHANGED channel
  /\ UNCHANGED <<outbox, jobs, review, facts>>
-------------------------------------------------------------------------------
StricterOf(v, tags) == IF "deny" \in tags \/ v = "deny" THEN "deny" ELSE "ask"

(* next_batch hands the engine the next event.  The rules that match are
   alerted on, and then the rule that marks the event as seen.               *)
EngineEvaluates ==
  /\ ~shutdown
  /\ channel # <<>>
  /\ channel' = Tail(channel)
  /\ \E M \in {M \in SUBSET Rules : Cardinality(M) <= MaxMatches} :
       /\ outbox' = Append(outbox, [id |-> Head(channel)[1], event |-> Head(channel)[2],
                                    alerts |-> M])
       /\ ruled' = [ruled EXCEPT ![Head(channel)[1]] =
                      IF M = {} THEN @ ELSE StricterOf(@, UNION M)]
  /\ Cardinality({r \in Requests : ruled'[r] # NoVerdict}) <= MaxRuled
  /\ UNCHANGED <<vars, conn, jobs, review, approved, lost, refused, shutdown, gone>>

(* The receiver comes to the alerts of the next event. *)
ReceiverBegins ==
  /\ Here(Http) /\ outbox # <<>>
  /\ AlertsBegin(Head(outbox).id, Head(outbox).event)
  /\ UNCHANGED <<queues, facts>>

\* Mutated form: the last tag that is known decides.
ClassifyTagsLast(tags) == IF "ask" \in tags THEN "ask" ELSE "deny"

(* classify_tags: deny before ask, whatever the order of the tags. *)
ClassifyTags(tags) == IF "deny" \in tags THEN "deny" ELSE "ask"

Takes(alert) == outbox' = [outbox EXCEPT ![1].alerts = @ \ {alert}]

Delivers(alert) ==
  /\ Here(Http) /\ outbox # <<>> /\ alert \in Head(outbox).alerts
  /\ \/ ClassifyTags(alert) = "deny" /\ DenyAlert
     \/ ClassifyTags(alert) = "ask" /\ AskAlert
  /\ Takes(alert)
  /\ UNCHANGED <<conn, channel, jobs, review, facts>>

LosesAlertOf(r) ==
  /\ lost' = lost \cup {r}
  /\ Cardinality(lost') <= MaxLost

(* The body cannot be read or parsed, or has no correlation id: the alert is
   dropped, the engine has its 200.                                          *)
Loses(alert) ==
  /\ Here(Http) /\ outbox # <<>> /\ work[Http].pc = "reporting"
  /\ alert \in Head(outbox).alerts
  /\ Takes(alert)
  /\ LosesAlertOf(Head(outbox).id)
  /\ UNCHANGED <<vars, conn, channel, jobs, review, ruled, approved, refused, shutdown, gone>>

SeenArrives ==
  /\ Here(Http) /\ outbox # <<>> /\ Head(outbox).alerts = {}
  /\ outbox' = Tail(outbox)
  /\ \/ SignalComplete(Http) /\ UNCHANGED lost
     \/ SeenAlertLost /\ LosesAlertOf(Head(outbox).id)
  /\ UNCHANGED <<conn, channel, jobs, review, ruled, approved, refused, shutdown, gone>>
-------------------------------------------------------------------------------
Reviewing(w) == review[w] # NoReview

(* The worker takes the next job.  When the plugin stops it does not ask the
   model; nor does it when the request has been answered.                    *)
TakesJob(w) ==
  /\ Here(w) /\ ~Reviewing(w) /\ work[w] = Idle
  /\ jobs # <<>> /\ jobs' = Tail(jobs)
  /\ LET r == Head(jobs) IN
     \/ shutdown /\ ReviewBegin(w, r) /\ work'[w].verdict = OnError /\ UNCHANGED review
     \/ /\ ~shutdown /\ HasResponded(r)
        /\ ReviewBegin(w, r) /\ work'[w].verdict = "none"
        /\ UNCHANGED review
     \/ /\ ~shutdown /\ ~HasResponded(r)
        /\ review' = [review EXCEPT ![w] = [id |-> r, tried |-> 0]]
        /\ UNCHANGED vars
  /\ UNCHANGED <<conn, channel, outbox, facts>>

ReviewEnds(w, v) ==
  /\ Reviewing(w)
  /\ ReviewBegin(w, review[w].id) /\ work'[w].verdict = v
  /\ review' = [review EXCEPT ![w] = NoReview]

(* evaluate: the reply parses to a verdict ... *)
ModelReplies(w) ==
  /\ \E v \in {"allow", "ask", "deny"} :
       /\ ReviewEnds(w, v)
       /\ approved' = IF v = "allow" THEN approved \cup {review[w].id} ELSE approved
  /\ UNCHANGED <<conn, channel, outbox, jobs, ruled, lost, refused, shutdown, gone>>

Retries(w) == review[w].tried + 1 < MaxAttempts

(* ... or the call times out, fails with 5xx or does not parse: once more ... *)
ModelRetried(w) ==
  /\ Reviewing(w) /\ Retries(w)
  /\ review' = [review EXCEPT ![w].tried = @ + 1]
  /\ UNCHANGED <<vars, conn, channel, outbox, jobs, facts>>

\* Mutated form: what the monitor could not review is left to the rules.
VerdictWithoutReviewAllows == "allow"

(* error_outcome: the verdict is monitor.on_error. *)
VerdictWithoutReview == OnError

(* ... or has failed for good: out of attempts, refused with 4xx, a panic. *)
ModelFails(w) ==
  /\ ReviewEnds(w, VerdictWithoutReview)
  /\ UNCHANGED <<conn, channel, outbox, jobs, facts>>

(* The broker's part of what a thread has begun. *)
BrokerWorks(t) ==
  /\ \/ Completes(t) /\ work[t].pc # "reporting"
     \/ Reviews(t)
  /\ UNCHANGED <<queues, facts>>
-------------------------------------------------------------------------------
(* Drop: the flag is set; the engine has stopped asking for events. *)
Stops ==
  /\ ~shutdown
  /\ shutdown' = TRUE
  /\ UNCHANGED <<vars, queues, ruled, approved, lost, refused, gone>>

\* Mutated form: without unblock() the receiver only looks up at its next alert.
UnblockedByAlert == shutdown /\ outbox # <<>>

(* unblock() ends incoming_requests after the alert in hand. *)
Unblocked == shutdown

HttpEnds ==
  /\ Here(Http) /\ Unblocked /\ work[Http].pc \in {"idle", "reporting"}
  /\ gone' = gone \cup {Http}
  /\ UNCHANGED <<vars, queues, ruled, approved, lost, refused, shutdown>>

SocketEnds ==
  /\ Here(Sock)
  /\ conn.stage = "gone" \/ (conn.stage = "open" /\ shutdown)
  /\ conn' = [conn EXCEPT !.stage = "gone"]
  /\ gone' = gone \cup {Sock}
  /\ UNCHANGED <<vars, channel, outbox, jobs, review, ruled, approved, lost, refused, shutdown>>

(* The queue is closed once the socket thread has dropped its half; a worker
   empties it before it ends.                                                *)
WorkerEnds(w) ==
  /\ Here(w) /\ Sock \in gone /\ jobs = <<>>
  /\ ~Reviewing(w) /\ work[w] = Idle
  /\ gone' = gone \cup {w}
  /\ UNCHANGED <<vars, queues, ruled, approved, lost, refused, shutdown>>
-------------------------------------------------------------------------------
Socket == Submits \/ Emits \/ SocketEnds \/ BrokerWorks(Sock)
Receiver == \/ ReceiverBegins \/ SeenArrives \/ HttpEnds \/ BrokerWorks(Http)
            \/ \E alert \in Rules : Delivers(alert) \/ Loses(alert)
Worker(w) == \/ TakesJob(w) \/ ModelReplies(w) \/ ModelRetried(w) \/ ModelFails(w)
             \/ WorkerEnds(w) \/ BrokerWorks(w)

PipelineNext ==
  \/ \E r \in Requests : Accepts(r) \/ TurnsAway(r)
  \/ Socket
  \/ EngineEvaluates
  \/ Receiver
  \/ \E w \in LlmWorkers : Worker(w)
  \/ Stops

(* Every thread goes on with what it has; the engine asks for events as long as
   it runs.  Connections, and the stop, may never come.                      *)
PipelineFairness ==
  /\ WF_pvars(Socket) /\ WF_pvars(Receiver) /\ WF_pvars(EngineEvaluates)
  /\ \A w \in LlmWorkers : WF_pvars(Worker(w))

PipelineSpec == PipelineInit /\ [][PipelineNext]_pvars /\ PipelineFairness
-------------------------------------------------------------------------------
(* Under guardrails no tool call is answered more leniently than the strictest
   rule that matched any of its events, unless an alert was lost on the way: no
   event is left out, none is attributed to another request, and a rule's tags
   are read the strict way.                                                  *)
StrictAsEngine ==
  mode = "guardrails" =>
    \A r \in Requests : Answered(r) /\ r \notin lost =>
      Strictness(Answer(r)) >= Strictness(ruled[r])

(* What the rules decide is what is answered, and every queue keeps its limit. *)
PipelineInv == PipelineTypeOK /\ StrictAsEngine

(* A call the monitor reviews is let through only on the model's own word: not
   after a timeout, a reply that does not parse, a full queue or a shutdown.  *)
NoAllowUnreviewed ==
  mode = "guardrails" =>
    \A r \in Requests : Answered(r) /\ Llm \in expected[r] /\ Answer(r) # "deny" =>
      Answer(r) = "ask" \/ r \in approved

(* Monitor mode only records that the queue was full: nobody counts the signals
   of the events that did not fit, and the reaper has to end the call.       *)
LeftToReaper(r) ==
  mode = "monitor" /\ [source |-> "broker", kind |-> "deny"] \in hits[r]

(* No queue that is full and no review that fails leaves a call to the reaper:
   unless an alert is lost, the plugin is stopped or, in monitor mode, an event
   found its queue full, the call is answered, or parked for the operator.   *)
EndsWithoutReaper ==
  \A r \in Requests :
    Registered(r) ~> Answered(r) \/ held[r] \/ r \in lost \/ shutdown \/ LeftToReaper(r) 

(* The shutdown ends: no thread waits for a queue, an alert or another thread
   that will not come, whatever was under way when it began.                 *)
StopEnds == shutdown ~> gone = Threads
=============================================================================
