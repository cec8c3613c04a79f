---------------------------- MODULE SignoffCli ----------------------------
(***************************************************************************)
(* Operators releasing held tool calls with a FIDO2 key: the one-shot      *)
(* commands and the watch loop of `premptictl signoff`                     *)
(* (tools/premptictl/src/signoff.rs), the key file they share with the     *)
(* plugin, and the broker's answers to their control requests              *)
(* (socket_server.rs, signoff.rs).                                         *)
(*                                                                         *)
(* A call is named by its audit record number; its correlation id is a     *)
(* random 64-bit nonce (Broker::next_correlation_id), here a number no     *)
(* record has.  How a call comes to be held is the subject of Broker.tla.  *)
(***************************************************************************)
EXTENDS Integers, FiniteSets, FiniteSetsExt

CONSTANTS
  Calls,      \* 1..n, the record numbers of the calls that will be held
  Names,      \* what a command may name: record numbers and correlation ids
  Commands,   \* 1..n, one-shot commands, started in this order
  Enrols,     \* processes that run `signoff enroll`
  Keys,       \* credentials an authenticator can hand out
  OldKeys,    \* those enrolled when the model starts
  Rps,        \* values of signoff.rp_id
  MaxTyped,   \* bound: commands the operators type, of whatever kind
  MaxEdits,   \* bound: edits of the plugin configuration
  MaxRestarts \* bound: restarts of the service

ASSUME SignoffAssumption ==
  /\ Calls \subseteq Nat \ {0} /\ Commands \subseteq Nat \ {0} /\ Names \subseteq Nat
  /\ OldKeys \subseteq Keys /\ Rps # {}
  /\ MaxTyped \in Nat /\ MaxEdits \in Nat /\ MaxRestarts \in Nat

VARIABLES
  file,     \* config/signoff_keys.json: its schema version and its keys
  conf,     \* the signoff block of the plugin configuration
  plugin,   \* what the running plugin loaded when it started
  call,     \* what became of each call
  client,   \* the one-shot commands and the watch
  enrol,    \* the enrolments
  enrolled, \* keys an enrolment reported to its operator
  raced,    \* those reported while another enrolment was under way
  asked,    \* calls the watch has prompted for
  typed, edits, restarts

vars == <<file, conf, plugin, call, client, enrol, enrolled, raced, asked,
          typed, edits, restarts>>

Watch == 0
Clients == {Watch} \union Commands
NoCall == 0
NotP256 == "not P-256"
ASSUME CurveAssumption == NotP256 \notin Keys

Absent == 0   \* no such file
Current == 1  \* KEYS_VERSION
Newer == 2    \* a file another release wrote
Torn == 3     \* truncated by a write that has not happened yet, or has failed

CorrelationId(c) == 1000 + c

Resting == [pc |-> "off", decision |-> "", named |-> 0, pin |-> FALSE,
            list |-> {}, target |-> NoCall, keys |-> {}, rp |-> "",
            proof |-> {}, seen |-> {}]

Held == {c \in Calls : call[c] = "held"}

Proofs == [call : Calls, key : Keys, rp : Rps, uv : BOOLEAN]

ClientPcs == {"off", "fetch", "poll", "next", "prompt", "keys", "touch", "send", "verified",
              "reply", "approved", "denied", "failed", "quit"}
ClientStates == [pc : ClientPcs, decision : {"", "approve", "deny"}, named : Names \union {0},
                 pin : BOOLEAN, list : SUBSET Calls, target : Calls \union {NoCall},
                 keys : SUBSET Keys, rp : Rps \union {""}, proof : SUBSET Proofs,
                 seen : SUBSET Calls]
EnrolStates == [pc : {"off", "touch", "save", "write", "done", "failed"}, keys : SUBSET Keys,
                key : Keys \union {NotP256}]

TypeOK ==
  /\ file \in [v : {Absent, Current, Newer, Torn}, keys : SUBSET Keys]
  /\ conf \in [rp : Rps, uv : BOOLEAN]
  /\ plugin \in [up : BOOLEAN, rp : Rps, uv : BOOLEAN, keys : SUBSET Keys]
  /\ plugin.up => plugin.keys /= {}
  /\ call \in [Calls -> {"new", "held", "allowed", "denied", "gone"}]
  /\ client \in [Clients -> ClientStates]
  /\ \A p \in Clients : Cardinality(client[p].proof) <= 1
  /\ enrol \in [Enrols -> EnrolStates]
  /\ raced \subseteq enrolled /\ enrolled \subseteq Keys
  /\ asked \subseteq Calls

Init ==
  /\ file \in {[v |-> Current, keys |-> OldKeys], [v |-> Newer, keys |-> OldKeys],
               [v |-> Absent, keys |-> {}]}
  /\ conf = [rp |-> CHOOSE r \in Rps : TRUE, uv |-> FALSE]
  /\ plugin = [up |-> FALSE, rp |-> conf.rp, uv |-> FALSE, keys |-> {}]
  /\ call = [c \in Calls |-> "new"]
  /\ client = [p \in Clients |-> Resting]
  /\ enrol = [e \in Enrols |-> [pc |-> "off", keys |-> {}, key |-> NotP256]]
  /\ asked = {}
  /\ enrolled = file.keys /\ raced = {}
  /\ typed = 0 /\ edits = 0 /\ restarts = 0

\* Mutated form: a failed attempt leaves the entry to be asked about again.
GoesUnseen(p, outcome) ==
  IF p = Watch
  THEN [client[p] EXCEPT !.pc = "next",
                         !.seen = IF outcome = "failed" THEN @
                                  ELSE @ \union {client[p].target},
                         !.target = NoCall, !.decision = "", !.keys = {}, !.rp = "",
                         !.proof = {}]
  ELSE [Resting EXCEPT !.pc = outcome,
                       !.target = IF outcome = "failed" THEN NoCall ELSE client[p].target]

\* A watch survives a failed attempt and goes on with the next entry; it has
\* seen this one either way.  A command ends.
Goes(p, outcome) ==
  IF p = Watch
  THEN [client[p] EXCEPT !.pc = "next", !.seen = @ \union {client[p].target},
                         !.target = NoCall, !.decision = "", !.keys = {}, !.rp = "",
                         !.proof = {}]
  ELSE [Resting EXCEPT !.pc = outcome,
                       !.target = IF outcome = "failed" THEN NoCall ELSE client[p].target]

-----------------------------------------------------------------------------
(* The plugin.                                                             *)

\* KeyStore::load: the plugin wants a current file with a usable key in it.
PluginLoads == file.v = Current /\ file.keys /= {}

PluginStarts ==
  /\ ~plugin.up
  /\ PluginLoads
  /\ plugin' = [up |-> TRUE, rp |-> conf.rp, uv |-> conf.uv, keys |-> file.keys]
  /\ UNCHANGED <<file, conf, call, client, enrol, enrolled, raced, asked,
                 typed, edits, restarts>>

\* Every connection of a stopping plugin closes: a held call is denied by its
\* interceptor, a control request that waits for its line reads none.
PluginStops ==
  /\ plugin.up
  /\ restarts < MaxRestarts
  /\ restarts' = restarts + 1
  /\ plugin' = [plugin EXCEPT !.up = FALSE]
  /\ call' = [c \in Calls |-> IF call[c] = "held" THEN "gone" ELSE call[c]]
  /\ client' = [p \in Clients |->
                  IF client[p].pc \in {"verified", "reply"} THEN Goes(p, "failed")
                  ELSE client[p]]
  /\ UNCHANGED <<file, conf, enrol, enrolled, raced, asked, typed,
                 edits>>

\* A call is parked for sign-off under the next record number.
Holds(c) ==
  /\ plugin.up
  /\ call[c] = "new"
  /\ \A d \in Calls : d < c => call[d] /= "new"
  /\ call' = [call EXCEPT ![c] = "held"]
  /\ UNCHANGED <<file, conf, plugin, client, enrol, enrolled, raced, asked,
                 typed, edits, restarts>>

\* The hold's time to live elapses and the reaper denies the call.
Expires(c) ==
  /\ call[c] = "held"
  /\ call' = [call EXCEPT ![c] = "gone"]
  /\ UNCHANGED <<file, conf, plugin, client, enrol, enrolled, raced, asked,
                 typed, edits, restarts>>

\* The operator edits signoff.rp_id or signoff.require_uv; the plugin goes on
\* with what it loaded.
EditsConfig ==
  /\ edits < MaxEdits
  /\ edits' = edits + 1
  /\ \/ conf' \in {[conf EXCEPT !.rp = r] : r \in Rps \ {conf.rp}}
     \/ conf' = [conf EXCEPT !.uv = ~@]
  /\ UNCHANGED <<file, plugin, call, client, enrol, enrolled, raced, asked,
                 typed, restarts>>

\* Mutated form: whatever the key file on disk says is good enough.
VerifiesByFile(c, proof) ==
  /\ proof.key \in file.keys
  /\ proof.rp = plugin.rp
  /\ plugin.uv => proof.uv
  /\ proof.call = c

\* signoff::verify of an assertion over the record hash of call c.
Verifies(c, proof) ==
  /\ proof.key \in plugin.keys
  /\ proof.rp = plugin.rp
  /\ plugin.uv => proof.uv
  /\ proof.call = c

-----------------------------------------------------------------------------
(* What the commands share.                                                *)

\* load_keys: an absent file is an empty store, anything but a current file
\* is an error.
Readable == file.v \in {Absent, Current}
LoadKeys == file.keys

\* find_target: the entry with that record number, else with that
\* correlation id.
FindTarget(list, n) ==
  LET bySeq == {c \in list : c = n}
      byId  == {c \in list : CorrelationId(c) = n}
  IN IF bySeq /= {} THEN bySeq ELSE byId

ClientMoves(p, next) ==
  /\ client' = [client EXCEPT ![p] = next]
  /\ UNCHANGED <<file, conf, plugin, enrol, enrolled, raced, edits, restarts>>

Enters == typed < MaxTyped /\ typed' = typed + 1

\* The one-shot commands are typed in order.
Types(p, decision, n, pin) ==
  /\ p \in Commands
  /\ client[p].pc = "off"
  /\ Enters
  /\ \A q \in Commands : q < p => client[q].pc /= "off"
  /\ ClientMoves(p, [Resting EXCEPT !.pc = "fetch", !.decision = decision, !.named = n,
                                    !.pin = pin])
  /\ UNCHANGED <<call, asked>>

\* approve, deny: fetch_held, then find_target.
Fetches(p) ==
  /\ client[p].pc = "fetch"
  /\ LET found == IF plugin.up THEN FindTarget(Held, client[p].named) ELSE {}
     IN IF found = {} THEN ClientMoves(p, Goes(p, "failed"))
        ELSE ClientMoves(p, [client[p] EXCEPT !.target = CHOOSE c \in found : TRUE,
                               !.pc = IF client[p].decision = "approve" THEN "keys"
                                      ELSE "send"])
  /\ UNCHANGED <<call, typed, asked>>

\* approve_target: the settings and the key store as they are on disk now.
ReadsKeys(p) ==
  /\ client[p].pc = "keys"
  /\ IF Readable /\ LoadKeys /= {}
     THEN ClientMoves(p, [client[p] EXCEPT !.pc = "touch", !.keys = LoadKeys,
                                           !.rp = conf.rp])
     ELSE ClientMoves(p, Goes(p, "failed"))
  /\ UNCHANGED <<call, typed, asked>>

\* fido::assert over the target's record hash: one of the listed credentials
\* answers a touch, or none does before the authenticator gives up.
Touches(p) ==
  /\ client[p].pc = "touch"
  /\ \/ \E k \in client[p].keys :
          LET proof == [call |-> client[p].target, key |-> k, rp |-> client[p].rp,
                        uv |-> client[p].pin]
          IN ClientMoves(p, [client[p] EXCEPT !.pc = "send", !.proof = {proof},
                                              !.keys = {}, !.rp = ""])
     \/ ClientMoves(p, Goes(p, "failed"))
  /\ UNCHANGED <<call, typed, asked>>

\* resolve_signoff, under a reference to the entry: the request must still be
\* held and a proof must verify.
Asks(p) ==
  /\ client[p].pc = "send"
  /\ LET c == client[p].target
     IN ClientMoves(p, IF /\ plugin.up
                          /\ call[c] = "held"
                          /\ \A proof \in client[p].proof : Verifies(c, proof)
                       THEN [client[p] EXCEPT !.pc = "verified"]
                       ELSE Goes(p, "failed"))
  /\ UNCHANGED <<call, typed, asked>>

\* Mutated form: an entry already gone is nobody's error.
ResolvesAnyway(p) ==
  /\ client[p].pc = "verified"
  /\ LET c == client[p].target
     IN /\ call' = [call EXCEPT ![c] = IF @ /= "held" THEN @
                                       ELSE IF client[p].decision = "approve"
                                       THEN "allowed" ELSE "denied"]
        /\ ClientMoves(p, [client[p] EXCEPT !.pc = "reply", !.proof = {}])
  /\ UNCHANGED <<typed, asked>>

\* resolve_signoff, the reference given up: whoever removes the entry answers
\* the agent; the others hear that it was resolved concurrently.
Resolves(p) ==
  /\ client[p].pc = "verified"
  /\ LET c == client[p].target
     IN IF call[c] = "held"
        THEN /\ call' = [call EXCEPT ![c] = IF client[p].decision = "approve"
                                            THEN "allowed" ELSE "denied"]
             /\ ClientMoves(p, [client[p] EXCEPT !.pc = "reply", !.proof = {}])
        ELSE ClientMoves(p, Goes(p, "failed")) /\ UNCHANGED call
  /\ UNCHANGED <<typed, asked>>

\* The reply line arrives; a command reports it.
Reports(p) ==
  /\ client[p].pc = "reply"
  /\ ClientMoves(p, Goes(p, IF client[p].decision = "approve" THEN "approved" ELSE "denied"))
  /\ UNCHANGED <<call, typed, asked>>

-----------------------------------------------------------------------------
(* The watch.                                                              *)

WatchStarts(pin) ==
  /\ client[Watch].pc = "off"
  /\ Enters
  /\ ClientMoves(Watch, [Resting EXCEPT !.pc = "poll", !.pin = pin])
  /\ UNCHANGED <<call, asked>>

\* One poll: with no broker to ask it sleeps and polls again; else it forgets
\* the calls that are no longer held and goes through those that are.
Polls ==
  /\ client[Watch].pc = "poll"
  /\ plugin.up
  /\ ClientMoves(Watch, [client[Watch] EXCEPT !.pc = "next", !.list = Held,
                                              !.seen = @ \intersect Held])
  /\ UNCHANGED <<call, typed, asked>>

\* The next entry of the list it fetched, whatever became of it since.
Prompts ==
  /\ client[Watch].pc = "next"
  /\ LET todo == client[Watch].list \ client[Watch].seen
     IN IF todo = {}
        THEN /\ ClientMoves(Watch, [client[Watch] EXCEPT !.pc = "poll", !.list = {}])
             /\ UNCHANGED asked
        ELSE /\ ClientMoves(Watch, [client[Watch] EXCEPT !.pc = "prompt",
                              !.target = Min(todo), !.list = todo \ {Min(todo)}])
             /\ asked' = asked \union {Min(todo)}
  /\ UNCHANGED <<call, typed>>

\* prompt_choice: approve, deny, skip.
Chooses(choice) ==
  /\ client[Watch].pc = "prompt"
  /\ ClientMoves(Watch,
       CASE choice = "approve" ->
              [client[Watch] EXCEPT !.pc = "keys", !.decision = "approve"]
         [] choice = "deny" ->
              [client[Watch] EXCEPT !.pc = "send", !.decision = "deny"]
         [] choice = "skip" -> Goes(Watch, "skipped"))
  /\ UNCHANGED <<call, typed, asked>>

\* prompt_choice: quit, or the end of standard input.
Quits ==
  /\ client[Watch].pc = "prompt"
  /\ ClientMoves(Watch, [Resting EXCEPT !.pc = "quit"])
  /\ UNCHANGED <<call, typed, asked>>

-----------------------------------------------------------------------------
(* Enrolment.                                                              *)

EnrolMoves(e, next) ==
  /\ enrol' = [enrol EXCEPT ![e] = next]
  /\ UNCHANGED <<conf, plugin, call, client, asked, edits, restarts>>

\* enroll reads the store first; one it cannot read ends the command.
EnrolLoads(e) ==
  /\ enrol[e].pc = "off"
  /\ Enters
  /\ EnrolMoves(e, IF Readable THEN [enrol[e] EXCEPT !.pc = "touch", !.keys = LoadKeys]
                   ELSE [enrol[e] EXCEPT !.pc = "done"])
  /\ UNCHANGED <<file, enrolled, raced>>

\* What the authenticator makes: a credential it has not handed out before, a
\* key of another curve, or one it already gave.
Made ==
  LET out == OldKeys \union file.keys \union {enrol[e].key : e \in Enrols}
  IN {NotP256} \union OldKeys \union (IF Keys \subseteq out THEN {} ELSE {CHOOSE k \in Keys : k \notin out})

\* The authenticator makes a credential: it must be a P-256 key and one the
\* store of before the touch does not hold.
EnrolTouches(e, k) ==
  /\ enrol[e].pc = "touch"
  /\ EnrolMoves(e, IF k = NotP256 \/ k \in enrol[e].keys
                   THEN [enrol[e] EXCEPT !.pc = "done", !.keys = {}]
                   ELSE [enrol[e] EXCEPT !.pc = "save", !.key = k])
  /\ UNCHANGED <<file, enrolled, raced, typed>>

\* save_keys: std::fs::write truncates the file ...
SaveTruncates(e) ==
  /\ enrol[e].pc = "save"
  /\ file' = [v |-> Torn, keys |-> {}]
  /\ EnrolMoves(e, [enrol[e] EXCEPT !.pc = "write"])
  /\ UNCHANGED <<enrolled, raced, typed>>

Saved(e) == [v |-> Current, keys |-> enrol[e].keys \union {enrol[e].key}]

\* ... and writes the store as it was loaded, with the new key.
SaveWrites(e) ==
  /\ enrol[e].pc = "write"
  /\ file' = Saved(e)
  /\ enrolled' = enrolled \union {enrol[e].key}
  /\ raced' = IF \E f \in Enrols \ {e} : enrol[f].pc \in {"touch", "save", "write"}
              THEN raced \union {enrol[e].key} ELSE raced
  /\ EnrolMoves(e, [pc |-> "done", keys |-> {}, key |-> NotP256])
  /\ UNCHANGED typed

\* Either fails, and the command says so.  A write that fails has left what no reader
\* takes for a key store, unless all but the last newline is written.
SaveFails(e) ==
  /\ \/ /\ enrol[e].pc = "save" /\ UNCHANGED file
        /\ EnrolMoves(e, [enrol[e] EXCEPT !.pc = "done", !.keys = {}])
     \/ /\ enrol[e].pc = "write" /\ file' \in {[v |-> Torn, keys |-> {}], Saved(e)}
        /\ EnrolMoves(e, [enrol[e] EXCEPT !.pc = "failed", !.keys = {}])
  /\ UNCHANGED <<enrolled, raced, typed>>

-----------------------------------------------------------------------------
\* What a client does without being told to.
Advances(p) ==
  \/ Fetches(p) \/ ReadsKeys(p) \/ Touches(p) \/ Asks(p) \/ Resolves(p) \/ Reports(p)

Answers == Quits \/ \E choice \in {"approve", "deny", "skip"} : Chooses(choice)

Next ==
  \/ PluginStarts
  \/ PluginStops
  \/ EditsConfig
  \/ \E c \in Calls : Holds(c) \/ Expires(c)
  \/ \E p \in Commands, decision \in {"approve", "deny"}, pin \in BOOLEAN,
        n \in Names :
       (decision = "deny" => ~pin) /\ Types(p, decision, n, pin)
  \/ \E p \in Clients : Advances(p)
  \/ \E pin \in BOOLEAN : WatchStarts(pin)
  \/ Polls
  \/ Prompts
  \/ Answers
  \/ \E e \in Enrols : EnrolLoads(e) \/ SaveTruncates(e) \/ SaveWrites(e) \/ SaveFails(e)
  \/ \E e \in Enrols, k \in Made : EnrolTouches(e, k)

\* A process that can go on does: each client, and the watch's loop.  An
\* operator answers a prompt, if only by leaving.
Fairness ==
  /\ \A p \in Clients : WF_vars(Advances(p))
  /\ WF_vars(Polls) /\ WF_vars(Prompts) /\ WF_vars(Answers)

Spec == Init /\ [][Next]_vars /\ Fairness

-----------------------------------------------------------------------------
(* Properties.                                                             *)

\* A call is released only on an assertion over its own record that some key
\* the running plugin loaded has made, for the relying party the plugin
\* loaded, and with the PIN when the plugin asks for one: an enrolment or an
\* edit of the configuration after the start changes nothing
\* (Broker::resolve_signoff, signoff::verify).
ReleasedWasSigned ==
  [][\A c \in Calls : call[c] /= "allowed" /\ call'[c] = "allowed" =>
       \E p \in Clients : \E proof \in client[p].proof :
         /\ proof.call = c /\ proof.key \in plugin.keys /\ proof.rp = plugin.rp
         /\ plugin.uv => proof.uv]_vars

\* An operator's decision falls on the call the operator meant, whatever
\* happened between the list that was fetched and the request that was sent:
\* the one a command names, or one the watch has shown
\* (find_target, approve_target, deny_target).
DecisionIsMeant ==
  [][\A c \in Calls : call[c] = "held" /\ call'[c] \in {"allowed", "denied"} =>
       \E p \in Clients :
         /\ client[p].pc = "verified"
         /\ client[p].decision = IF call'[c] = "allowed" THEN "approve" ELSE "deny"
         /\ IF p = Watch THEN c \in asked
            ELSE client[p].named \in {c, CorrelationId(c)}]_vars

\* What a command told its operator is what the agent was told: of two that
\* decide the same call at once one is refused
\* (Broker::resolve_signoff, "request was resolved concurrently").
ReportIsTrue ==
  \A p \in Commands :
    /\ client[p].pc = "approved" => call[client[p].target] = "allowed"
    /\ client[p].pc = "denied" => call[client[p].target] = "denied"

\* No key whose enrolment was reported drops out of the store unnoticed: whatever
\* plugin or command can read has them all, but those reported while another enrolment
\* was under way, which that one's save may drop, having loaded the store before.
\* The whole file is lost only to a save that fails after it has truncated it and
\* that has told its operator so; nobody reads it then (enroll, load_keys, save_keys).
EnrolledStays ==
  /\ file.v /= Torn => enrolled \ raced \subseteq file.keys
  /\ file.v = Torn => \E e \in Enrols : enrol[e].pc \in {"write", "failed"}

\* The watch asks about a held call at most once, also when the approval it
\* asked for failed and the call is still waiting, and also after polls that
\* failed in between (watch: seen).
WatchAsksOnce ==
  [][client'[Watch].pc = "prompt" /\ client[Watch].pc /= "prompt"
       => client'[Watch].target \notin asked]_vars

\* A watch that is not left prompts for every call that stays held
\* (watch: the list, seen.retain, the loop over the list).
WatchPromptsEach ==
  \A c \in Calls :
    (call[c] = "held" /\ client[Watch].pc \notin {"off", "quit"})
      ~> (c \in asked \/ call[c] /= "held" \/ client[Watch].pc = "quit")

\* What commands have told their operators stays true: of calls, whatever other
\* commands do, and of keys, as long as enrolments do not overlap and no save fails
\* halfway (resolve, enroll).
ReportsStayTrue == TypeOK /\ ReportIsTrue /\ EnrolledStays

\* A call is released on a signature over it and by an operator who meant it.
ReleasedAsMeant == ReleasedWasSigned /\ DecisionIsMeant

\* The watch asks about every call that stays held, and about none twice.
WatchPromptsOnce == WatchAsksOnce /\ WatchPromptsEach
=============================================================================
