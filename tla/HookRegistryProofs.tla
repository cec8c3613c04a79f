-------------------------- MODULE HookRegistryProofs --------------------------
(***************************************************************************)
(* Theorems about HookRegistry, for any number of commands, service starts *)
(* and edits: the user's hooks survive, ours is there once at most, what   *)
(* reports success has been done, and a hook that was disabled ends with   *)
(* the supervisor that still knew it, unless a restart has put it back.    *)
(***************************************************************************)
EXTENDS HookRegistry, WellFoundedInduction, TLAPS

(***************************************************************************)
(* What the filter Theirs returns.  The library's induction over sequences *)
(* takes the property as an operator; here a shortest counterexample is    *)
(* taken instead.                                                          *)
(***************************************************************************)
LEMMA LeastOf ==
  ASSUME NEW S, S \subseteq Nat, S # {}
  PROVE  \E k \in S : \A j \in S : k <= j
<1>1. PICK k \in S : \A j \in S : ~ (<<j, k>> \in OpToRel(<, Nat))
  BY NatLessThanWellFounded, WFMin
<1>2. ASSUME NEW j \in S PROVE k <= j
  <2>1. ~ (j < k)
    BY <1>1 DEF OpToRel
  <2>2. j \in Nat /\ k \in Nat
    OBVIOUS
  <2> QED BY <2>1, <2>2
<1> QED BY <1>2

\* The recursion by which Theirs is defined, up to n.
Taken(f, hooks, n) ==
  IF n = 0 THEN <<>>
  ELSE IF IsOwned(hooks[n]) THEN f[n - 1] ELSE Append(f[n - 1], hooks[n])

IsRun(f, hooks, n) == f = [k \in 0 .. n |-> Taken(f, hooks, k)]

LEMMA RunAt ==
  ASSUME NEW f, NEW hooks, NEW m, IsRun(f, hooks, m), NEW n \in 0 .. m
  PROVE  f[n] = Taken(f, hooks, n)
<1> DEFINE g == [k \in 0 .. m |-> Taken(f, hooks, k)]
<1>1. g[n] = Taken(f, hooks, n)
  OBVIOUS
<1>2. f = g
  BY DEF IsRun
<1> QED BY <1>1, <1>2

LEMMA RunExists ==
  ASSUME NEW hooks, NEW m \in Nat
  PROVE  \E f : IsRun(f, hooks, m)
<1> DEFINE Bad == {n \in Nat : ~ \E f : IsRun(f, hooks, n)}
<1> SUFFICES ASSUME Bad # {} PROVE FALSE
  OBVIOUS
<1>1. PICK n \in Bad : \A j \in Bad : n <= j
  BY LeastOf
<1>2. n # 0
  <2> DEFINE f == [k \in 0 .. 0 |-> <<>>]
  <2>1. \A k \in 0 .. 0 : k = 0
    OBVIOUS
  <2>2. IsRun(f, hooks, 0)
    BY <2>1 DEF IsRun, Taken
  <2> QED BY <2>2
<1>3. n - 1 \in Nat /\ n - 1 \notin Bad
  BY <1>1, <1>2
<1>4. PICK f : IsRun(f, hooks, n - 1)
  BY <1>3
<1> DEFINE g == [k \in 0 .. n |-> Taken(f, hooks, k)]
<1>5. ASSUME NEW k \in 0 .. n PROVE Taken(g, hooks, k) = Taken(f, hooks, k)
  <2>1. CASE k = 0
    BY <2>1 DEF Taken
  <2>2. CASE k # 0
    <3>1. k - 1 \in 0 .. n /\ k - 1 \in 0 .. n - 1
      BY <1>3, <2>2
    <3>2. f[k - 1] = Taken(f, hooks, k - 1)
      BY <1>4, <3>1, RunAt
    <3>3. g[k - 1] = f[k - 1]
      BY <3>1, <3>2
    <3> QED BY <2>2, <3>3 DEF Taken
  <2> QED BY <2>1, <2>2
<1>6. IsRun(g, hooks, n)
  BY <1>5 DEF IsRun
<1> QED BY <1>1, <1>6

LEMMA TheirsIsRun ==
  ASSUME NEW hooks, Len(hooks) \in Nat
  PROVE  \E f : IsRun(f, hooks, Len(hooks)) /\ Theirs(hooks) = f[Len(hooks)]
<1> DEFINE upTo[n \in 0 .. Len(hooks)] ==
             IF n = 0 THEN <<>>
             ELSE IF IsOwned(hooks[n]) THEN upTo[n - 1] ELSE Append(upTo[n - 1], hooks[n])
<1>1. upTo = CHOOSE f : IsRun(f, hooks, Len(hooks))
  BY DEF IsRun, Taken
<1>2. IsRun(upTo, hooks, Len(hooks))
  BY <1>1, RunExists
<1>3. Theirs(hooks) = upTo[Len(hooks)]
  BY DEF Theirs
<1> QED BY <1>2, <1>3

LEMMA TheirsOfEmpty == Theirs(<<>>) = <<>>
<1>1. Len(<<>>) = 0
  OBVIOUS
<1>2. PICK f : IsRun(f, <<>>, 0) /\ Theirs(<<>>) = f[0]
  BY <1>1, TheirsIsRun
<1>3. f[0] = Taken(f, <<>>, 0)
  BY <1>2, RunAt
<1> QED BY <1>2, <1>3 DEF Taken

LEMMA TheirsOfAppend ==
  ASSUME NEW S, NEW s \in Seq(S), NEW h \in S
  PROVE  Theirs(Append(s, h)) = IF IsOwned(h) THEN Theirs(s) ELSE Append(Theirs(s), h)
<1> DEFINE t == Append(s, h)
           N == Len(s)
<1>1. /\ N \in Nat /\ Len(t) = N + 1 /\ t[N + 1] = h
      /\ \A k \in 1 .. N : t[k] = s[k]
  OBVIOUS
<1> HIDE DEF t
<1>2. PICK f : IsRun(f, s, N) /\ Theirs(s) = f[N]
  BY <1>1, TheirsIsRun
<1>3. PICK g : IsRun(g, t, N + 1) /\ Theirs(t) = g[N + 1]
  <2>1. Len(t) \in Nat
    BY <1>1
  <2> QED BY <1>1, <2>1, TheirsIsRun
<1> HIDE DEF N
<1>4. \A n \in 0 .. N : g[n] = f[n]
  <2> DEFINE Bad == {n \in 0 .. N : g[n] # f[n]}
  <2> SUFFICES ASSUME Bad # {} PROVE FALSE
    OBVIOUS
  <2>1. PICK n \in Bad : \A j \in Bad : n <= j
    <3>1. Bad \subseteq Nat
      BY <1>1
    <3> QED BY <3>1, LeastOf
  <2>2. f[n] = Taken(f, s, n) /\ g[n] = Taken(g, t, n)
    <3>1. n \in 0 .. N /\ n \in 0 .. N + 1
      BY <1>1, <2>1
    <3> QED BY <1>2, <1>3, <3>1, RunAt
  <2>3. n # 0
    BY <2>2 DEF Taken
  <2>4. n - 1 \in 0 .. N /\ n - 1 \notin Bad /\ n \in 1 .. N
    BY <1>1, <2>1, <2>3
  <2>5. g[n - 1] = f[n - 1] /\ t[n] = s[n]
    BY <1>1, <2>4
  <2>6. Taken(f, s, n) = Taken(g, t, n)
    BY <2>5 DEF Taken
  <2> QED BY <2>2, <2>6
<1>5. g[N + 1] = Taken(g, t, N + 1) /\ g[N] = f[N]
  <2>1. N + 1 \in 0 .. N + 1 /\ N \in 0 .. N
    BY <1>1
  <2> QED BY <1>3, <1>4, <2>1, RunAt
<1>6. N + 1 # 0 /\ N + 1 - 1 = N
  BY <1>1
<1>7. Theirs(t) = IF IsOwned(h) THEN Theirs(s) ELSE Append(Theirs(s), h)
  BY <1>1, <1>2, <1>3, <1>5, <1>6 DEF Taken
<1> QED BY <1>7 DEF t

LEMMA RangeOfAppend ==
  ASSUME NEW S, NEW s \in Seq(S), NEW h \in S
  PROVE  Range(Append(s, h)) = Range(s) \cup {h}
<1>1. /\ DOMAIN Append(s, h) = 1 .. Len(s) + 1 /\ DOMAIN s = 1 .. Len(s) /\ Len(s) \in Nat
      /\ Append(s, h)[Len(s) + 1] = h /\ \A k \in 1 .. Len(s) : Append(s, h)[k] = s[k]
  OBVIOUS
<1>2. \A k \in 1 .. Len(s) + 1 : k \in 1 .. Len(s) \/ k = Len(s) + 1
  BY <1>1
<1>3. \A k \in 1 .. Len(s) : k \in 1 .. Len(s) + 1
  BY <1>1
<1>4. Len(s) + 1 \in 1 .. Len(s) + 1
  BY <1>1
<1>5. Range(Append(s, h)) \subseteq Range(s) \cup {h}
  BY <1>1, <1>2 DEF Range
<1>6. Range(s) \cup {h} \subseteq Range(Append(s, h))
  BY <1>1, <1>3, <1>4 DEF Range
<1> QED BY <1>5, <1>6

LEMMA TheirsIs ==
  ASSUME NEW S, NEW s \in Seq(S)
  PROVE  /\ Theirs(s) \in Seq(S)
         /\ Range(Theirs(s)) = {h \in Range(s) : ~IsOwned(h)}
         /\ (\A h \in Range(s) : ~IsOwned(h)) => Theirs(s) = s
<1> DEFINE Good(t) == /\ Theirs(t) \in Seq(S)
                      /\ Range(Theirs(t)) = {h \in Range(t) : ~IsOwned(h)}
                      /\ (\A h \in Range(t) : ~IsOwned(h)) => Theirs(t) = t
           Bad == {n \in Nat : \E t \in Seq(S) : Len(t) = n /\ ~Good(t)}
<1> SUFFICES Good(s)
  OBVIOUS
<1> SUFFICES ASSUME Bad # {} PROVE FALSE
  <2>1. Len(s) \in Nat
    OBVIOUS
  <2> QED BY <2>1
<1>1. PICK n \in Bad : \A j \in Bad : n <= j
  BY LeastOf
<1>2. PICK t \in Seq(S) : Len(t) = n /\ ~Good(t)
  BY <1>1
<1>3. CASE n = 0
  <2>1. t = <<>>
    BY <1>2, <1>3
  <2>2. Range(t) = {}
    BY <2>1 DEF Range
  <2> QED BY <1>2, <2>1, <2>2, TheirsOfEmpty
<1>4. CASE n # 0
  <2>1. PICK u \in Seq(S), h \in S : t = Append(u, h) /\ Len(u) = n - 1
    <3>1. n - 1 \in Nat /\ n \in 1 .. Len(t)
      BY <1>2, <1>4
    <3>2. SubSeq(t, 1, n - 1) \in Seq(S) /\ t[n] \in S /\ Len(SubSeq(t, 1, n - 1)) = n - 1
      BY <1>2, <3>1
    <3>3. t = Append(SubSeq(t, 1, n - 1), t[n])
      BY <1>2, <3>1
    <3> QED BY <3>2, <3>3
  <2>2. Good(u)
    BY <1>1, <1>4, <2>1
  <2>3. Range(Append(u, h)) = Range(u) \cup {h}
    BY RangeOfAppend
  <2>4. CASE IsOwned(h)
    BY <1>2, <2>1, <2>2, <2>3, <2>4, TheirsOfAppend
  <2>5. CASE ~IsOwned(h)
    <3>1. Theirs(t) = Append(Theirs(u), h)
      BY <2>1, <2>5, TheirsOfAppend
    <3>2. Range(Append(Theirs(u), h)) = Range(Theirs(u)) \cup {h}
      BY <2>2, RangeOfAppend
    <3>3. Append(Theirs(u), h) \in Seq(S)
      BY <2>2
    <3>4. (\A x \in Range(t) : ~IsOwned(x)) => Theirs(t) = t
      BY <2>1, <2>2, <2>3, <3>1
    <3>5. Range(Theirs(t)) = {x \in Range(t) : ~IsOwned(x)}
      BY <2>1, <2>2, <2>3, <2>5, <3>1, <3>2
    <3> QED BY <1>2, <3>1, <3>3, <3>4, <3>5
  <2> QED BY <2>4, <2>5
<1> QED BY <1>3, <1>4

(***************************************************************************)
(* The invariant.                                                          *)
(***************************************************************************)
AllHooks == [Events -> Seq(Hook)]
FilesOf(forms) == [form : forms, hooks : AllHooks, keys : BOOLEAN]
Files == FilesOf({"json", "absent", "torn", "wrong shape"})
Procedures == [pc : {"idle", "stopping", "reading", "writing", "truncated"}, op : {"none", "add", "remove"},
               new : FilesOf({"json", "absent"}), stale : BOOLEAN,
               result : {"none", "error", "panic", "as it was", "changed", "torn"}]

Readable == file.form \in {"json", "absent"}
Busy(p) == proc[p].pc # "idle"
Done == {"as it was", "changed"}

OnceEach(hooks) == \A e \in Events : OwnedOnce(hooks[e])
SameTheirs(h, k) == \A e \in Events : Theirs(h[e]) = Theirs(k[e])

\* What an `add` and a `remove` are for.
HookedFor(a, hooks) ==
  \/ \A e \in EventsOf(a) : OwnedIn(hooks, e) # {}
  \/ a = "claude" /\ ForeignIn(hooks, "PreToolUse") # {}
UnhookedFor(a, hooks) == \A e \in EventsOf(a) : OwnedIn(hooks, e) = {}

Typed ==
  /\ file \in Files /\ (file.form # "json" => file.hooks = NoHooks) /\ theirs \in AllHooks
  /\ proc \in [Procs -> Procedures] /\ agent \in {"claude", "codex"}
  /\ long \in BOOLEAN /\ lost \in BOOLEAN /\ serving \in BOOLEAN /\ restored \in BOOLEAN
  /\ \A p \in Procs : Busy(p) => proc[p].result = "none" /\ proc[p].op # "none"

\* What is about to be written is what was asked for.
WorkIsRight ==
  \A p \in Procs : proc[p].pc \in {"writing", "truncated"} =>
    /\ OnceEach(proc[p].new.hooks)
    /\ proc[p].new.form # "json" => proc[p].new.hooks = NoHooks
    /\ proc[p].op = "add" => HookedFor(agent, proc[p].new.hooks) /\ proc[p].new.form = "json"
    /\ proc[p].op = "remove" => UnhookedFor(agent, proc[p].new.hooks)

\* As long as nothing is lost, who may still write has read the file as it is, and a
\* file is torn only by the one that has truncated it.
WorkIsCurrent ==
  ~lost => \A p \in Procs :
    /\ proc[p].pc = "writing" /\ ~proc[p].stale => Readable /\ TheirsIn(proc[p].new) = theirs
    /\ proc[p].pc = "truncated" =>
         /\ file.form = "torn" /\ TheirsIn(proc[p].new) = theirs
         /\ \A q \in Procs : proc[q].pc = "truncated" => q = p

\* Somebody will take away a hook of ours, or has said that it could not.
SomebodyRemoves ==
  \/ serving /\ managed
  \/ Busy("daemon") /\ proc["daemon"].op = "remove"
  \/ proc["daemon"].result \notin {"none"} \cup Done

DisabledIsSeenTo ==
  /\ Busy("daemon") /\ proc["daemon"].op = "add" => serving /\ managed
  /\ agent = "codex" /\ proc["cli"].op = "remove" =>
       /\ ~marker
       /\ proc["cli"].result \in Done /\ ~lost =>
            UnhookedFor(agent, file.hooks) \/ SomebodyRemoves \/ restored

HooksInv ==
  /\ Typed /\ UserHooksSurvive /\ OnceEach(file.hooks)
  /\ WorkIsRight /\ WorkIsCurrent /\ DisabledIsSeenTo

LEMMA TypedIsTypeOK == Typed => TypeOK
BY DEF Typed, TypeOK, Files, FilesOf, Procedures, AllHooks

(***************************************************************************)
(* What adding and removing do to the hooks.                               *)
(***************************************************************************)
LEMMA StripIs ==
  ASSUME NEW s \in Seq(Hook)
  PROVE  /\ Theirs(s) \in Seq(Hook) /\ Theirs(Theirs(s)) = Theirs(s) /\ OwnedOnce(Theirs(s))
         /\ \A h \in Range(Theirs(s)) : ~IsOwned(h)
<1>1. Theirs(s) \in Seq(Hook) /\ \A h \in Range(Theirs(s)) : ~IsOwned(h)
  BY TheirsIs
<1>2. Theirs(Theirs(s)) = Theirs(s)
  BY <1>1, TheirsIs
<1>3. OwnedOnce(Theirs(s))
  BY <1>1 DEF OwnedOnce, Range
<1> QED BY <1>1, <1>2, <1>3

LEMMA GroupIs ==
  ASSUME NEW s \in Seq(Hook), NEW command \in OwnedCommands \cup {"wrapper", "user"}
  PROVE  \E h \in Hook : h.command = command /\ InNewGroup(s, command) = Append(s, h)
<1>1. NewGroup(s) \in Nat
  <2>1. CASE s = <<>>
    BY <2>1 DEF NewGroup
  <2>2. CASE s # <<>>
    <3>1. s[Len(s)] \in Hook
      BY <2>2
    <3> QED BY <2>2, <3>1 DEF NewGroup, Hook
  <2> QED BY <2>1, <2>2
<1> QED BY <1>1 DEF InNewGroup, InGroup, Hook

\* One more hook of ours, where there was none.
LEMMA OursIs ==
  ASSUME NEW s \in Seq(Hook), NEW command \in OwnedCommands, \A h \in Range(s) : ~IsOwned(h)
  PROVE  /\ InNewGroup(s, command) \in Seq(Hook) /\ Theirs(InNewGroup(s, command)) = Theirs(s)
         /\ OwnedOnce(InNewGroup(s, command))
         /\ \E h \in Range(InNewGroup(s, command)) : h.command = command
<1>1. PICK h \in Hook : h.command = command /\ InNewGroup(s, command) = Append(s, h)
  BY GroupIs
<1>2. /\ DOMAIN Append(s, h) = 1 .. Len(s) + 1 /\ DOMAIN s = 1 .. Len(s) /\ Len(s) \in Nat
      /\ Append(s, h)[Len(s) + 1] = h /\ \A k \in 1 .. Len(s) : Append(s, h)[k] = s[k]
  OBVIOUS
<1>3. \A k \in 1 .. Len(s) : ~IsOwned(s[k])
  BY <1>2 DEF Range
<1>4. \A k \in 1 .. Len(s) + 1 : k \in 1 .. Len(s) \/ k = Len(s) + 1
  BY <1>2
<1>5. OwnedOnce(Append(s, h))
  BY <1>2, <1>3, <1>4 DEF OwnedOnce
<1>6. Theirs(Append(s, h)) = Theirs(s)
  <2>1. IsOwned(h)
    BY <1>1 DEF IsOwned
  <2> QED BY <2>1, TheirsOfAppend
<1>7. h \in Range(Append(s, h))
  BY RangeOfAppend
<1> QED BY <1>1, <1>5, <1>6, <1>7

LEMMA OwnedInIs ==
  ASSUME NEW hooks, NEW e
  PROVE  OwnedIn(hooks, e) = {} <=> \A h \in Range(hooks[e]) : ~IsOwned(h)
BY DEF OwnedIn

LEMMA HookCommandIs == HookCommand \in OwnedCommands
BY DEF HookCommand, OwnedCommands

LEMMA WithOursIs ==
  ASSUME NEW hooks \in AllHooks, NEW e \in Events, OwnedIn(hooks, e) = {}
  PROVE  /\ WithOurs(hooks, e) \in AllHooks /\ SameTheirs(WithOurs(hooks, e), hooks)
         /\ OwnedOnce(WithOurs(hooks, e)[e])
         /\ HookCommand \in OwnedIn(WithOurs(hooks, e), e)
         /\ \A d \in Events : d # e => WithOurs(hooks, e)[d] = hooks[d]
<1>1. \A h \in Range(hooks[e]) : ~IsOwned(h)
  BY OwnedInIs
<1>2. hooks[e] \in Seq(Hook)
  BY DEF AllHooks
<1> DEFINE new == InNewGroup(hooks[e], HookCommand)
<1>3. /\ new \in Seq(Hook) /\ Theirs(new) = Theirs(hooks[e]) /\ OwnedOnce(new)
      /\ \E h \in Range(new) : h.command = HookCommand
  BY <1>1, <1>2, HookCommandIs, OursIs
<1>4. WithOurs(hooks, e) = [hooks EXCEPT ![e] = new]
  BY DEF WithOurs
<1> HIDE DEF new
<1>5. WithOurs(hooks, e)[e] = new /\ \A d \in Events : d # e => WithOurs(hooks, e)[d] = hooks[d]
  BY <1>4 DEF AllHooks
<1>6. WithOurs(hooks, e) \in AllHooks
  BY <1>3, <1>4 DEF AllHooks
<1>7. HookCommand \in OwnedIn(WithOurs(hooks, e), e)
  BY <1>3, <1>5, HookCommandIs DEF OwnedIn, IsOwned
<1> QED BY <1>3, <1>5, <1>6, <1>7 DEF SameTheirs

LEMMA StripOwnedIs ==
  ASSUME NEW hooks \in AllHooks, OnceEach(hooks)
  PROVE  /\ StripOwnedHooks(hooks) \in AllHooks /\ SameTheirs(StripOwnedHooks(hooks), hooks)
         /\ OnceEach(StripOwnedHooks(hooks)) /\ UnhookedFor(agent, StripOwnedHooks(hooks))
<1>1. \A e \in Events : /\ hooks[e] \in Seq(Hook) /\ OwnedOnce(hooks[e])
                        /\ StripOwnedHooks(hooks)[e] =
                             IF e \in EventsOf(agent) THEN Theirs(hooks[e]) ELSE hooks[e]
  BY DEF AllHooks, OnceEach, StripOwnedHooks, StripGroups
<1>2. StripOwnedHooks(hooks) \in AllHooks
  <2>1. \A e \in Events : StripOwnedHooks(hooks)[e] \in Seq(Hook)
    BY <1>1, StripIs
  <2> QED BY <2>1 DEF StripOwnedHooks, AllHooks
<1>3. SameTheirs(StripOwnedHooks(hooks), hooks)
  BY <1>1, StripIs DEF SameTheirs
<1>4. OnceEach(StripOwnedHooks(hooks))
  BY <1>1, StripIs DEF OnceEach
<1>5. UnhookedFor(agent, StripOwnedHooks(hooks))
  <2>1. EventsOf(agent) \subseteq Events
    BY DEF EventsOf, Events
  <2> QED BY <1>1, <2>1, StripIs, OwnedInIs DEF UnhookedFor
<1> QED BY <1>2, <1>3, <1>4, <1>5

LEMMA EnsureIs ==
  ASSUME NEW hooks \in AllHooks, NEW e \in Events, OnceEach(hooks)
  PROVE  /\ EnsureEventHook(hooks, e) \in AllHooks /\ SameTheirs(EnsureEventHook(hooks, e), hooks)
         /\ OnceEach(EnsureEventHook(hooks, e)) /\ OwnedIn(EnsureEventHook(hooks, e), e) # {}
         /\ \A d \in Events : d # e => EnsureEventHook(hooks, e)[d] = hooks[d]
<1>1. CASE OwnedIn(hooks, e) = {}
  BY <1>1, WithOursIs DEF EnsureEventHook, OnceEach
<1>2. CASE OwnedIn(hooks, e) # {}
  BY <1>2 DEF EnsureEventHook, SameTheirs
<1> QED BY <1>1, <1>2

LEMMA AddedIs ==
  ASSUME NEW hooks \in AllHooks, OnceEach(hooks), agent \in {"claude", "codex"}
  PROVE  /\ Added(hooks) \in AllHooks /\ SameTheirs(Added(hooks), hooks)
         /\ OnceEach(Added(hooks)) /\ HookedFor(agent, Added(hooks))
<1> DEFINE pre == "PreToolUse"
           per == "PermissionRequest"
<1>1. pre \in Events /\ per \in Events /\ Events = {pre, per}
  BY DEF Events
<1>2. CASE agent = "codex"
  <2>1. PICK one : one = EnsureEventHook(hooks, pre)
    OBVIOUS
  <2>2. /\ one \in AllHooks /\ SameTheirs(one, hooks) /\ OnceEach(one) /\ OwnedIn(one, pre) # {}
    BY <1>1, <2>1, EnsureIs
  <2>3. PICK two : two = EnsureEventHook(one, per)
    OBVIOUS
  <2>4. /\ two \in AllHooks /\ SameTheirs(two, one) /\ OnceEach(two) /\ OwnedIn(two, per) # {}
        /\ two[pre] = one[pre]
    BY <1>1, <2>2, <2>3, EnsureIs
  <2>5. OwnedIn(two, pre) # {}
    BY <2>2, <2>4 DEF OwnedIn
  <2>6. Added(hooks) = two
    BY <1>2, <2>1, <2>3 DEF Added, AddCodex
  <2>7. HookedFor(agent, two)
    BY <1>1, <1>2, <2>4, <2>5 DEF HookedFor, EventsOf
  <2>8. SameTheirs(two, hooks)
    BY <2>2, <2>4 DEF SameTheirs
  <2> QED BY <2>4, <2>6, <2>7, <2>8
<1>3. CASE agent = "claude"
  <2>1. Added(hooks) = AddClaude(hooks) /\ EventsOf(agent) = {pre}
    BY <1>3 DEF Added, EventsOf
  <2>2. CASE HookCommand \in OwnedIn(hooks, pre)
    BY <1>3, <2>1, <2>2 DEF AddClaude, HookedFor, SameTheirs
  <2>3. CASE OwnedIn(hooks, pre) = {} /\ ForeignIn(hooks, pre) # {}
    BY <1>3, <2>1, <2>3 DEF AddClaude, HookedFor, SameTheirs
  <2>4. CASE OwnedIn(hooks, pre) = {} /\ ForeignIn(hooks, pre) = {}
    <3>1. Added(hooks) = WithOurs(hooks, pre)
      BY <2>1, <2>4 DEF AddClaude
    <3>2. OnceEach(WithOurs(hooks, pre)) /\ HookedFor(agent, WithOurs(hooks, pre))
      BY <1>1, <2>1, <2>4, WithOursIs DEF OnceEach, HookedFor
    <3> QED BY <1>1, <2>4, <3>1, <3>2, WithOursIs
  <2>5. CASE OwnedIn(hooks, pre) # {} /\ HookCommand \notin OwnedIn(hooks, pre)
    <3>1. PICK bare : bare = StripOwnedHooks(hooks)
      OBVIOUS
    <3>2. bare \in AllHooks /\ SameTheirs(bare, hooks) /\ OnceEach(bare) /\ OwnedIn(bare, pre) = {}
      BY <2>1, <3>1, StripOwnedIs DEF UnhookedFor
    <3>3. Added(hooks) = WithOurs(bare, pre)
      BY <2>1, <2>5, <3>1 DEF AddClaude
    <3>4. OnceEach(WithOurs(bare, pre)) /\ HookedFor(agent, WithOurs(bare, pre))
      BY <1>1, <2>1, <3>2, WithOursIs DEF OnceEach, HookedFor
    <3>5. SameTheirs(WithOurs(bare, pre), hooks)
      BY <1>1, <3>2, WithOursIs DEF SameTheirs
    <3> QED BY <1>1, <3>2, <3>3, <3>4, <3>5, WithOursIs
  <2> QED BY <2>2, <2>3, <2>4, <2>5
<1> QED BY <1>2, <1>3

(***************************************************************************)
(* What an action does to the processes.                                   *)
(***************************************************************************)
LEMMA IdleIs ==
  Idle \in Procedures /\ Idle.pc = "idle" /\ Idle.op = "none" /\ Idle.result = "none"
<1>1. NoHooks \in AllHooks
  BY DEF NoHooks, AllHooks
<1>2. Absent \in FilesOf({"json", "absent"})
  BY <1>1 DEF Absent, FilesOf
<1> QED BY <1>2 DEF Idle, Procedures

LEMMA StartsIs ==
  ASSUME NEW p \in Procs, NEW op \in {"add", "remove"}, NEW pc \in {"stopping", "reading"},
         Starts(p, op, pc), proc \in [Procs -> Procedures]
  PROVE  /\ proc' \in [Procs -> Procedures]
         /\ proc'[p].pc = pc /\ proc'[p].op = op /\ proc'[p].result = "none"
         /\ \A q \in Procs : q # p => proc'[q] = proc[q]
<1> DEFINE new == [Idle EXCEPT !.pc = pc, !.op = op]
<1>1. /\ new \in Procedures
      /\ new.pc = pc /\ new.op = op /\ new.result = "none"
  BY IdleIs DEF Procedures
<1>2. proc' = [proc EXCEPT ![p] = new]
  BY DEF Starts
<1> HIDE DEF new
<1> QED BY <1>1, <1>2

LEMMA EndsIs ==
  ASSUME NEW p \in Procs, NEW r \in {"error", "panic", "as it was", "changed", "torn"},
         Ends(p, r), proc \in [Procs -> Procedures]
  PROVE  /\ proc' \in [Procs -> Procedures]
         /\ proc'[p].pc = "idle" /\ proc'[p].op = proc[p].op /\ proc'[p].result = r
         /\ \A q \in Procs : q # p => proc'[q] = proc[q]
<1> DEFINE new == [Idle EXCEPT !.op = proc[p].op, !.result = r]
<1>1. /\ new \in Procedures
      /\ new.pc = "idle" /\ new.op = proc[p].op /\ new.result = r
  BY IdleIs DEF Procedures
<1>2. proc' = [proc EXCEPT ![p] = new]
  BY DEF Ends
<1> HIDE DEF new
<1> QED BY <1>1, <1>2

\* What AllStale leaves as it was, and what it says.
LEMMA AllStaleIs ==
  ASSUME NEW others \in [Procs -> Procedures], proc' = AllStale(others)
  PROVE  /\ proc' \in [Procs -> Procedures]
         /\ \A q \in Procs :
              /\ proc'[q].pc = others[q].pc /\ proc'[q].op = others[q].op
              /\ proc'[q].new = others[q].new /\ proc'[q].result = others[q].result
              /\ proc'[q].pc = "writing" => proc'[q].stale
<1> DEFINE Marked(o) == [o EXCEPT !.stale = o.pc = "writing"]
<1>1. ASSUME NEW o \in Procedures
      PROVE  /\ Marked(o) \in Procedures /\ Marked(o).pc = o.pc /\ Marked(o).op = o.op
             /\ Marked(o).new = o.new /\ Marked(o).result = o.result
             /\ Marked(o).pc = "writing" => Marked(o).stale
  BY DEF Procedures
<1>2. \A q \in Procs : proc'[q] = Marked(others[q])
  BY DEF AllStale
<1>3. \A q \in Procs : others[q] \in Procedures
  OBVIOUS
<1>4. proc' \in [Procs -> Procedures]
  BY <1>1, <1>3 DEF AllStale
<1> HIDE DEF Marked
<1> QED BY <1>1, <1>2, <1>3, <1>4

(***************************************************************************)
(* Every step preserves the invariant.                                     *)
(***************************************************************************)
\* Whoever writes nothing has no part in what is in the file.
LEMMA FileStays ==
  ASSUME HooksInv, UNCHANGED <<agent, file, theirs, lost>>,
         \A q \in Procs : proc'[q] = proc[q] \/ proc'[q].pc \in {"idle", "stopping", "reading"}
  PROVE  UserHooksSurvive' /\ OnceEach(file.hooks)' /\ WorkIsRight' /\ WorkIsCurrent'
<1>1. UserHooksSurvive' /\ OnceEach(file.hooks)'
  BY DEF HooksInv, UserHooksSurvive, TheirsIn
<1>2. WorkIsRight'
  <2>1. ASSUME NEW q \in Procs, proc'[q].pc \in {"writing", "truncated"}
        PROVE  /\ OnceEach(proc'[q].new.hooks)
               /\ proc'[q].new.form # "json" => proc'[q].new.hooks = NoHooks
               /\ proc'[q].op = "add" => HookedFor(agent', proc'[q].new.hooks) /\ proc'[q].new.form = "json"
               /\ proc'[q].op = "remove" => UnhookedFor(agent', proc'[q].new.hooks)
    <3>1. proc'[q] = proc[q]
      BY <2>1
    <3> QED BY <2>1, <3>1 DEF HooksInv, WorkIsRight
  <2> QED BY <2>1 DEF WorkIsRight
<1>3. WorkIsCurrent'
  BY DEF HooksInv, WorkIsCurrent, Readable, TheirsIn
<1> QED BY <1>1, <1>2, <1>3

LEMMA StartKeeps ==
  ASSUME HooksInv, DaemonStarts \/ DaemonStops \/ CliAdd \/ CliRemove
  PROVE  HooksInv'
<1>1. /\ proc \in [Procs -> Procedures] /\ "cli" \in Procs /\ "daemon" \in Procs
      /\ UNCHANGED <<agent, long, file, theirs, lost, restored>>
  BY DEF HooksInv, Typed, Procs, DaemonStarts, DaemonStops, CliAdd, CliRemove
<1>2. /\ proc' \in [Procs -> Procedures]
      /\ \A q \in Procs : \/ proc'[q] = proc[q]
                           \/ /\ proc'[q].pc = "reading" /\ proc'[q].op \in {"add", "remove"}
                              /\ proc'[q].result = "none"
  <2>1. CASE DaemonStarts
    BY <1>1, <2>1, StartsIs DEF DaemonStarts
  <2>2. CASE DaemonStops
    BY <1>1, <2>2, StartsIs DEF DaemonStops
  <2>3. CASE CliAdd
    BY <1>1, <2>3, StartsIs DEF CliAdd
  <2>4. CASE CliRemove
    BY <1>1, <2>4, StartsIs DEF CliRemove
  <2> QED BY <2>1, <2>2, <2>3, <2>4
<1>3. Typed'
  <2>2. serving' \in BOOLEAN
    BY DEF HooksInv, Typed, DaemonStarts, DaemonStops, CliAdd, CliRemove
  <2>1. ASSUME NEW q \in Procs, proc'[q].pc # "idle"
        PROVE  proc'[q].result = "none" /\ proc'[q].op # "none"
    BY <1>2, <2>1 DEF HooksInv, Typed, Busy
  <2> QED BY <1>1, <1>2, <2>1, <2>2 DEF HooksInv, Typed, Busy
<1>4. UserHooksSurvive' /\ OnceEach(file.hooks)' /\ WorkIsRight' /\ WorkIsCurrent'
  BY <1>1, <1>2, FileStays
<1>5. DisabledIsSeenTo'
  <2>1. CASE DaemonStarts
    <3>1. proc'["cli"] = proc["cli"] /\ marker' = marker /\ serving' /\ ~serving
      BY <1>1, <2>1, StartsIs DEF DaemonStarts, Procs
    <3>2. CASE managed'
      BY <1>1, <3>1, <3>2 DEF HooksInv, DisabledIsSeenTo, SomebodyRemoves, UnhookedFor
    <3>3. CASE ~managed'
      BY <1>1, <2>1, <3>1, <3>3 DEF DaemonStarts, HooksInv, DisabledIsSeenTo, SomebodyRemoves, UnhookedFor, Ready, Busy
    <3> QED BY <3>2, <3>3
  <2>2. CASE DaemonStops
    <3>1. proc'["cli"] = proc["cli"] /\ marker' = marker /\ managed' = managed
      BY <1>1, <2>2, StartsIs DEF DaemonStops, Procs
    <3>2. CASE managed
      <4>1. proc'["daemon"].pc = "reading" /\ proc'["daemon"].op = "remove"
        BY <1>1, <2>2, <3>2, StartsIs DEF DaemonStops
      <4> QED BY <1>1, <3>1, <4>1 DEF HooksInv, DisabledIsSeenTo, SomebodyRemoves, UnhookedFor, Busy
    <3>3. CASE ~managed
      BY <1>1, <2>2, <3>1, <3>3 DEF DaemonStops, HooksInv, DisabledIsSeenTo, SomebodyRemoves, UnhookedFor, Busy
    <3> QED BY <3>2, <3>3
  <2>3. CASE CliAdd
    <3>1. proc'["daemon"] = proc["daemon"] /\ proc'["cli"].op = "add"
      BY <1>1, <2>3, StartsIs DEF CliAdd, Procs
    <3> QED BY <2>3, <3>1 DEF CliAdd, HooksInv, DisabledIsSeenTo, Busy
  <2>4. CASE CliRemove
    <3>1. proc'["daemon"] = proc["daemon"] /\ proc'["cli"].result = "none"
      BY <1>1, <2>4, StartsIs DEF CliRemove, Procs
    <3> QED BY <2>4, <3>1 DEF CliRemove, HooksInv, DisabledIsSeenTo, Busy, Done
  <2> QED BY <2>1, <2>2, <2>3, <2>4
<1> QED BY <1>3, <1>4, <1>5 DEF HooksInv

LEMMA NoHooksIs ==
  NoHooks \in AllHooks /\ OnceEach(NoHooks) /\ UnhookedFor(agent, NoHooks)
<1>1. \A e \in Events : NoHooks[e] = <<>>
  BY DEF NoHooks
<1>2. EventsOf(agent) \subseteq Events
  BY DEF EventsOf, Events
<1>3. DOMAIN <<>> = {}
  OBVIOUS
<1> QED BY <1>1, <1>2, <1>3 DEF NoHooks, AllHooks, OnceEach, OwnedOnce, UnhookedFor, OwnedIn, Range

LEMMA NothingToRemove ==
  ASSUME NEW hooks, ~Removable(hooks)
  PROVE  UnhookedFor(agent, hooks)
BY DEF Removable, UnhookedFor

LEMMA EndKeeps ==
  ASSUME HooksInv, NEW p \in Procs, ReadFails(p) \/ ReadsNothingToDo(p) \/ WriteFails(p)
  PROVE  HooksInv'
<1>1. /\ proc \in [Procs -> Procedures] /\ Procs = {"cli", "daemon", "restart"} /\ Busy(p)
      /\ proc[p].op \in {"add", "remove"} /\ agent \in {"claude", "codex"}
      /\ UNCHANGED <<agent, long, file, theirs, lost, restored, managed>>
  BY DEF HooksInv, Typed, Procs, Procedures, Busy, ReadFails, ReadsNothingToDo, WriteFails
<1>2. PICK r \in {"error", "panic", "as it was", "torn"} :
           /\ Ends(p, r)
           /\ r = "as it was" => ReadsNothingToDo(p)
  BY DEF ReadFails, ReadsNothingToDo, WriteFails
<1>3. /\ proc' \in [Procs -> Procedures]
      /\ proc'[p].pc = "idle" /\ proc'[p].op = proc[p].op /\ proc'[p].result = r
      /\ \A q \in Procs : q # p => proc'[q] = proc[q]
  <2>1. r \in {"error", "panic", "as it was", "changed", "torn"} /\ Ends(p, r)
    BY <1>2
  <2>2. proc \in [Procs -> Procedures]
    BY <1>1
  <2> QED BY <2>1, <2>2, EndsIs
<1>4. Typed'
  <2>2. serving' \in BOOLEAN
    BY DEF HooksInv, Typed, ReadFails, ReadsNothingToDo, WriteFails
  <2>1. ASSUME NEW q \in Procs, proc'[q].pc # "idle"
        PROVE  proc'[q].result = "none" /\ proc'[q].op # "none"
    BY <1>3, <2>1 DEF HooksInv, Typed, Busy
  <2> QED BY <1>1, <1>3, <2>1, <2>2 DEF HooksInv, Typed, Busy
<1>5. UserHooksSurvive' /\ OnceEach(file.hooks)' /\ WorkIsRight' /\ WorkIsCurrent'
  BY <1>1, <1>3, FileStays
<1>6. r = "as it was" /\ proc[p].op = "remove" => UnhookedFor(agent, file.hooks)
  <2>1. SUFFICES ASSUME r = "as it was", proc[p].op = "remove" PROVE UnhookedFor(agent, file.hooks)
    OBVIOUS
  <2>2. CASE ~Changes(proc[p].op)
    BY <2>1, <2>2, NothingToRemove DEF Changes
  <2>3. CASE file.form = "wrong shape"
    BY <2>3, NoHooksIs DEF HooksInv, Typed
  <2> QED BY <1>2, <2>1, <2>2, <2>3 DEF ReadsNothingToDo
<1>7. DisabledIsSeenTo'
  <2>1. CASE p = "cli"
    <3>1. serving' = serving
      <4>1. serving \in BOOLEAN
        BY DEF HooksInv, Typed
      <4> QED BY <2>1, <4>1 DEF ReadFails, ReadsNothingToDo, WriteFails
    <3>4. proc'["daemon"] = proc["daemon"]
      BY <1>1, <1>3, <2>1
    <3>2. proc["cli"].op = "remove" => marker' = marker
      BY <2>1 DEF ReadFails, ReadsNothingToDo, WriteFails
    <3>6. Busy("daemon")' /\ proc'["daemon"].op = "add" => serving' /\ managed'
      BY <1>1, <3>1, <3>4 DEF HooksInv, DisabledIsSeenTo, Busy
    <3>7. proc'["cli"].op = "remove" /\ proc'["cli"].result \in Done => UnhookedFor(agent, file.hooks)
      BY <1>3, <1>6, <2>1 DEF Done
    <3>8. agent = "codex" /\ proc["cli"].op = "remove" => ~marker'
      BY <3>2 DEF HooksInv, DisabledIsSeenTo
    <3> QED BY <1>1, <1>3, <2>1, <3>6, <3>7, <3>8 DEF DisabledIsSeenTo
  <2>2. CASE p = "daemon"
    <3>1. proc'["cli"] = proc["cli"] /\ marker' = marker
      BY <1>1, <1>3, <2>2 DEF ReadFails, ReadsNothingToDo, WriteFails, Marks
    <3>2. agent = "codex" => serving' = serving \/ r = "panic"
      <4>1. serving \in BOOLEAN
        BY DEF HooksInv, Typed
      <4> QED BY <1>3, <2>2, <4>1 DEF ReadFails, ReadsNothingToDo, WriteFails
    <3>3. proc["daemon"].result = "none"
      BY <1>1, <2>2 DEF HooksInv, Typed
    <3>4. agent = "codex" /\ SomebodyRemoves => SomebodyRemoves' \/ UnhookedFor(agent, file.hooks)
      BY <1>1, <1>3, <1>6, <2>2, <3>2, <3>3 DEF SomebodyRemoves, Busy, Done
    <3> QED BY <1>1, <1>3, <2>2, <3>1, <3>4 DEF HooksInv, DisabledIsSeenTo, Busy
  <2>3. CASE p = "restart"
    <3>1. serving' = serving
      <4>1. serving \in BOOLEAN
        BY DEF HooksInv, Typed
      <4> QED BY <2>3, <4>1 DEF ReadFails, ReadsNothingToDo, WriteFails
    <3>2. proc'["daemon"] = proc["daemon"] /\ proc'["cli"] = proc["cli"] /\ marker' = marker
      BY <1>1, <1>3, <2>3 DEF ReadFails, ReadsNothingToDo, WriteFails, Marks
    <3>3. SomebodyRemoves' <=> SomebodyRemoves
      BY <1>1, <3>1, <3>2 DEF SomebodyRemoves, Busy
    <3>4. Busy("daemon")' <=> Busy("daemon")
      BY <3>2 DEF Busy
    <3> QED BY <1>1, <3>1, <3>2, <3>3, <3>4 DEF HooksInv, DisabledIsSeenTo
  <2> QED BY <1>1, <2>1, <2>2, <2>3
<1> QED BY <1>4, <1>5, <1>7 DEF HooksInv

LEMMA RestartKeeps ==
  ASSUME HooksInv, RestartBegins \/ RestartStopped
  PROVE  HooksInv'
<1>1. /\ proc \in [Procs -> Procedures] /\ "restart" \in Procs
      /\ "cli" \in Procs /\ "daemon" \in Procs
      /\ UNCHANGED <<agent, long, file, marker, managed, serving, theirs, lost, restored>>
  BY DEF HooksInv, Typed, Procs, RestartBegins, RestartStopped
<1>2. /\ proc' \in [Procs -> Procedures]
      /\ proc'["restart"].pc \in {"idle", "stopping", "reading"}
      /\ proc'["restart"].pc # "idle" =>
           proc'["restart"].result = "none" /\ proc'["restart"].op # "none"
      /\ \A q \in Procs : q # "restart" => proc'[q] = proc[q]
  <2>1. CASE RestartBegins
    BY <1>1, <2>1, StartsIs DEF RestartBegins
  <2>2. CASE RestartStopped /\ Ends("restart", "error")
    BY <1>1, <2>2, EndsIs
  <2>3. CASE /\ RestartStopped
             /\ proc' = [proc EXCEPT !["restart"].pc = "reading"]
    <3>1. proc["restart"] \in Procedures /\ Busy("restart")
      BY <1>1, <2>3 DEF RestartStopped, Busy
    <3>2. proc["restart"].result = "none" /\ proc["restart"].op # "none"
      BY <1>1, <3>1 DEF HooksInv, Typed
    <3> QED BY <1>1, <2>3, <3>1, <3>2 DEF Procedures
  <2> QED BY <2>1, <2>2, <2>3 DEF RestartStopped
<1>3. Typed'
  <2>1. ASSUME NEW q \in Procs, proc'[q].pc # "idle"
        PROVE  proc'[q].result = "none" /\ proc'[q].op # "none"
    BY <1>2, <2>1 DEF HooksInv, Typed, Busy
  <2> QED BY <1>1, <1>2, <2>1 DEF HooksInv, Typed, Busy
<1>4. UserHooksSurvive' /\ OnceEach(file.hooks)' /\ WorkIsRight' /\ WorkIsCurrent'
  BY <1>1, <1>2, FileStays
<1>5. DisabledIsSeenTo'
  <2>1. proc'["daemon"] = proc["daemon"] /\ proc'["cli"] = proc["cli"]
    BY <1>1, <1>2
  <2> QED BY <1>1, <2>1 DEF HooksInv, DisabledIsSeenTo, SomebodyRemoves, Busy
<1> QED BY <1>3, <1>4, <1>5 DEF HooksInv

LEMMA SameTheirsIs ==
  ASSUME NEW f, NEW g, SameTheirs(f.hooks, g.hooks)
  PROVE  TheirsIn(f) = TheirsIn(g)
BY DEF SameTheirs, TheirsIn

LEMMA ReadKeeps ==
  ASSUME HooksInv, NEW p \in Procs, ReadsAndChanges(p)
  PROVE  HooksInv'
<1>1. /\ proc \in [Procs -> Procedures] /\ Busy(p) /\ Readable
      /\ proc[p].op \in {"add", "remove"} /\ agent \in {"claude", "codex"}
      /\ file.hooks \in AllHooks /\ OnceEach(file.hooks) /\ file.keys \in BOOLEAN
      /\ UNCHANGED <<agent, long, file, marker, managed, serving, theirs, lost, restored>>
  BY DEF HooksInv, Typed, Files, FilesOf, Procedures, Busy, ReadsAndChanges, Readable
<1>2. PICK new : new = IF proc[p].op = "add" THEN Json(Added(file.hooks), file.keys) ELSE Removed(file)
  OBVIOUS
<1>5. /\ new \in FilesOf({"json", "absent"}) /\ OnceEach(new.hooks)
      /\ SameTheirs(new.hooks, file.hooks) /\ (new.form # "json" => new.hooks = NoHooks)
      /\ proc[p].op = "add" => HookedFor(agent, new.hooks) /\ new.form = "json"
      /\ proc[p].op = "remove" => UnhookedFor(agent, new.hooks)
  <2>1. CASE proc[p].op = "add"
    <3>1. new.form = "json" /\ new.hooks = Added(file.hooks) /\ new.keys = file.keys
      BY <1>2, <2>1 DEF Json
    <3> QED BY <1>1, <1>2, <2>1, <3>1, AddedIs DEF FilesOf, Json
  <2>2. CASE proc[p].op = "remove"
    <3>1. new = Removed(file)
      BY <1>2, <2>2
    <3>2. new.hooks = StripOwnedHooks(file.hooks)
      BY <3>1 DEF Removed, Json, Absent
    <3>3. new.hooks \in AllHooks
      BY <1>1, <3>2, StripOwnedIs
    <3>4. new \in FilesOf({"json", "absent"}) /\ (new.form # "json" => new.hooks = NoHooks)
      BY <1>1, <3>1, <3>3 DEF Removed, Json, Absent, FilesOf
    <3> QED BY <1>1, <2>2, <3>2, <3>4, StripOwnedIs
  <2> QED BY <1>1, <2>1, <2>2
<1>6. /\ proc' \in [Procs -> Procedures]
      /\ proc'[p].pc = "writing" /\ proc'[p].op = proc[p].op /\ proc'[p].result = proc[p].result
      /\ proc'[p].new = new
      /\ \A q \in Procs : q # p => proc'[q] = proc[q]
  <2>1. proc' = [proc EXCEPT ![p].pc = "writing", ![p].stale = FALSE, ![p].new = new]
    BY <1>2 DEF ReadsAndChanges
  <2>2. proc[p] \in Procedures
    BY <1>1
  <2> QED BY <1>1, <1>5, <2>1, <2>2 DEF Procedures
<1>7. Typed'
  <2>1. ASSUME NEW q \in Procs, proc'[q].pc # "idle"
        PROVE  proc'[q].result = "none" /\ proc'[q].op # "none"
    BY <1>1, <1>6, <2>1 DEF HooksInv, Typed, Busy
  <2> QED BY <1>1, <1>6, <2>1 DEF HooksInv, Typed, Busy
<1>8. UserHooksSurvive' /\ OnceEach(file.hooks)'
  BY <1>1 DEF HooksInv, UserHooksSurvive, TheirsIn
<1>9. WorkIsRight'
  BY <1>1, <1>5, <1>6 DEF HooksInv, WorkIsRight
<1>10. WorkIsCurrent'
  <2>1. ~lost => TheirsIn(new) = theirs
    BY <1>1, <1>5, SameTheirsIs DEF HooksInv, UserHooksSurvive, Readable
  <2> QED BY <1>1, <1>6, <2>1 DEF HooksInv, WorkIsCurrent, Readable, TheirsIn
<1>11. DisabledIsSeenTo'
  <2>1. \A q \in Procs : /\ proc'[q].op = proc[q].op /\ proc'[q].result = proc[q].result
                         /\ proc'[q].pc # "idle" <=> proc[q].pc # "idle"
    BY <1>1, <1>6 DEF Busy
  <2>2. "cli" \in Procs /\ "daemon" \in Procs
    BY DEF Procs
  <2> QED BY <1>1, <2>1, <2>2 DEF HooksInv, DisabledIsSeenTo, SomebodyRemoves, Busy
<1> QED BY <1>7, <1>8, <1>9, <1>10, <1>11 DEF HooksInv

LEMMA TornIs ==
  /\ Torn \in Files /\ Torn.form = "torn" /\ Torn.hooks = NoHooks
  /\ OnceEach(Torn.hooks) /\ UnhookedFor(agent, Torn.hooks)
<1>1. Torn.form = "torn" /\ Torn.hooks = NoHooks
  BY DEF Torn
<1>2. Torn \in Files
  BY NoHooksIs DEF Torn, Files, FilesOf
<1> QED BY <1>1, <1>2, NoHooksIs

LEMMA TruncatesKeeps ==
  ASSUME HooksInv, NEW p \in Procs, Truncates(p)
  PROVE  HooksInv'
<1>1. /\ proc \in [Procs -> Procedures] /\ proc[p].pc = "writing"
      /\ "cli" \in Procs /\ "daemon" \in Procs
      /\ lost \in BOOLEAN /\ lost' = (lost \/ proc[p].stale) /\ file' = Torn
      /\ proc[p].stale \in BOOLEAN
      /\ UNCHANGED <<agent, long, marker, managed, serving, theirs, restored>>
  BY DEF HooksInv, Typed, Procedures, Procs, Truncates
<1>2. PICK others : others = [proc EXCEPT ![p].pc = "truncated"]
  OBVIOUS
<1>3. /\ others \in [Procs -> Procedures]
      /\ others[p].pc = "truncated" /\ others[p].op = proc[p].op
      /\ others[p].new = proc[p].new /\ others[p].result = proc[p].result
      /\ \A q \in Procs : q # p => others[q] = proc[q]
  <2>1. proc[p] \in Procedures
    BY <1>1
  <2> QED BY <1>1, <1>2, <2>1 DEF Procedures
<1>4. /\ proc' \in [Procs -> Procedures]
      /\ \A q \in Procs :
           /\ proc'[q].pc = others[q].pc /\ proc'[q].op = others[q].op
           /\ proc'[q].new = others[q].new /\ proc'[q].result = others[q].result
           /\ proc'[q].pc = "writing" => proc'[q].stale
  <2>1. proc' = AllStale(others)
    BY <1>2 DEF Truncates
  <2> QED BY <1>3, <2>1, AllStaleIs
<1>5. \A q \in Procs : /\ proc'[q].op = proc[q].op /\ proc'[q].new = proc[q].new
                       /\ proc'[q].result = proc[q].result
                       /\ proc'[q].pc = IF q = p THEN "truncated" ELSE proc[q].pc
  BY <1>3, <1>4
<1>6. Typed'
  <2>1. ASSUME NEW q \in Procs, proc'[q].pc # "idle"
        PROVE  proc'[q].result = "none" /\ proc'[q].op # "none"
    BY <1>1, <1>5, <2>1 DEF HooksInv, Typed, Busy
  <2>2. lost' \in BOOLEAN
    BY <1>1
  <2> QED BY <1>1, <1>4, <2>1, <2>2, TornIs DEF HooksInv, Typed, Busy
<1>7. UserHooksSurvive' /\ OnceEach(file.hooks)'
  BY <1>1, TornIs DEF UserHooksSurvive
<1>8. WorkIsRight'
  BY <1>1, <1>5 DEF HooksInv, WorkIsRight
<1>9. WorkIsCurrent'
  <2>1. SUFFICES ASSUME ~lost' PROVE WorkIsCurrent'
    BY DEF WorkIsCurrent
  <2>2. ~lost /\ ~proc[p].stale
    BY <1>1, <2>1
  <2>3. TheirsIn(proc[p].new) = theirs /\ \A q \in Procs : proc[q].pc # "truncated"
    BY <1>1, <2>2 DEF HooksInv, WorkIsCurrent, Readable
  <2>4. \A q \in Procs : TheirsIn(proc'[q].new) = TheirsIn(proc[q].new)
    BY <1>5
  <2>5. file'.form = "torn"
    BY <1>1, TornIs
  <2>6. TheirsIn(proc[p].new)' = TheirsIn(proc'[p].new)
    BY DEF TheirsIn
  <2> QED BY <1>1, <1>4, <1>5, <2>3, <2>4, <2>5 DEF WorkIsCurrent, TheirsIn
<1>10. DisabledIsSeenTo'
  <2>1. UnhookedFor(agent, file.hooks)'
    BY <1>1, TornIs DEF UnhookedFor
  <2>2. \A q \in Procs : proc'[q].pc # "idle" <=> proc[q].pc # "idle"
    BY <1>1, <1>5
  <2> QED BY <1>1, <1>5, <2>1, <2>2 DEF HooksInv, DisabledIsSeenTo, Busy
<1> QED BY <1>6, <1>7, <1>8, <1>9, <1>10 DEF HooksInv

LEMMA WrittenIs ==
  ASSUME NEW p \in Procs, Writes(p)
  PROVE  file' = proc[p].new \/ (lost' /\ file' = Torn)
<1>1. file' \in {proc[p].new} \cup (IF lost' /\ proc[p].pc = "truncated" THEN {Torn} ELSE {})
  BY Zenon DEF Writes
<1>2. CASE lost' /\ proc[p].pc = "truncated"
  BY <1>1, <1>2
<1>3. CASE ~(lost' /\ proc[p].pc = "truncated")
  BY <1>1, <1>3
<1> QED BY <1>2, <1>3

LEMMA WritesKeeps ==
  ASSUME HooksInv, NEW p \in Procs, Writes(p)
  PROVE  HooksInv'
<1>1. /\ proc \in [Procs -> Procedures] /\ proc[p].pc \in {"writing", "truncated"}
      /\ Procs = {"cli", "daemon", "restart"} /\ proc[p].op \in {"add", "remove"}
      /\ lost \in BOOLEAN /\ lost' \in BOOLEAN /\ (lost => lost') /\ proc[p].stale \in BOOLEAN
      /\ file' = proc[p].new \/ (lost' /\ file' = Torn)
      /\ UNCHANGED <<agent, long, managed, serving, theirs>>
  <2>1. proc[p] \in Procedures
    BY DEF HooksInv, Typed
  <2>2. proc[p].stale \in BOOLEAN /\ lost \in BOOLEAN
    BY <2>1 DEF HooksInv, Typed, Procedures
  <2>3. lost' \in BOOLEAN /\ (lost => lost') /\ proc[p].pc \in {"writing", "truncated"}
    BY <2>2 DEF Writes
  <2>4. proc[p].op \in {"add", "remove"}
    BY <2>1, <2>3 DEF HooksInv, Typed, Procedures, Busy
  <2>5. file' = proc[p].new \/ (lost' /\ file' = Torn)
    BY WrittenIs
  <2>6. /\ proc \in [Procs -> Procedures]
        /\ UNCHANGED <<agent, long, managed, serving, theirs>>
    BY DEF HooksInv, Typed, Writes
  <2> QED BY <2>2, <2>3, <2>4, <2>5, <2>6 DEF Procs
<1>2. PICK ended : ended = [Idle EXCEPT !.op = proc[p].op, !.result = "changed"]
  OBVIOUS
<1>3. ended \in Procedures /\ ended.pc = "idle" /\ ended.op = proc[p].op /\ ended.result = "changed"
  BY <1>1, <1>2, IdleIs DEF Procedures
<1>4. PICK others : others = [proc EXCEPT ![p] = ended]
  OBVIOUS
<1>5. /\ others \in [Procs -> Procedures] /\ others[p] = ended
      /\ \A q \in Procs : q # p => others[q] = proc[q]
  BY <1>1, <1>3, <1>4
<1>6. /\ proc' \in [Procs -> Procedures]
      /\ \A q \in Procs :
           /\ proc'[q].pc = others[q].pc /\ proc'[q].op = others[q].op
           /\ proc'[q].new = others[q].new /\ proc'[q].result = others[q].result
           /\ proc'[q].pc = "writing" => proc'[q].stale
  <2>1. proc' = AllStale(others)
    BY <1>2, <1>4 DEF Writes
  <2> QED BY <1>5, <2>1, AllStaleIs
<1>7. /\ \A q \in Procs : proc'[q].op = proc[q].op
      /\ proc'[p].pc = "idle" /\ proc'[p].result = "changed"
      /\ \A q \in Procs : q # p => /\ proc'[q].pc = proc[q].pc /\ proc'[q].new = proc[q].new
                                   /\ proc'[q].result = proc[q].result
  BY <1>3, <1>5, <1>6
<1>8. /\ OnceEach(proc[p].new.hooks)
      /\ proc[p].new.form # "json" => proc[p].new.hooks = NoHooks
      /\ proc[p].op = "remove" => UnhookedFor(agent, proc[p].new.hooks)
      /\ proc[p].new \in FilesOf({"json", "absent"})
  BY <1>1 DEF HooksInv, WorkIsRight, Typed, Procedures
<1>9. /\ file' \in Files /\ (file'.form # "json" => file'.hooks = NoHooks) /\ OnceEach(file'.hooks)
      /\ proc[p].op = "remove" => UnhookedFor(agent, file'.hooks)
  BY <1>1, <1>8, TornIs DEF Files, FilesOf
<1>10. Typed'
  <2>1. ASSUME NEW q \in Procs, proc'[q].pc # "idle"
        PROVE  proc'[q].result = "none" /\ proc'[q].op # "none"
    BY <1>1, <1>7, <2>1 DEF HooksInv, Typed, Busy
  <2>2. restored' \in BOOLEAN
    <3>1. restored \in BOOLEAN /\ RestoredBy(p)
      BY DEF HooksInv, Typed, Writes
    <3> QED BY <3>1 DEF RestoredBy
  <2> QED BY <1>1, <1>6, <1>9, <2>1, <2>2 DEF HooksInv, Typed, Busy
<1>11. ~lost' => /\ file' = proc[p].new /\ TheirsIn(proc[p].new) = theirs
                 /\ \A q \in Procs : proc[q].pc = "truncated" => q = p
  <2>1. SUFFICES ASSUME ~lost'
                 PROVE  /\ TheirsIn(proc[p].new) = theirs
                        /\ \A q \in Procs : proc[q].pc = "truncated" => q = p
    BY <1>1
  <2>2. CASE proc[p].pc = "truncated"
    BY <1>1, <2>1, <2>2 DEF HooksInv, WorkIsCurrent
  <2>3. CASE proc[p].pc = "writing"
    <3>1. ~lost /\ ~proc[p].stale
      BY <1>1, <2>1, <2>3 DEF Writes
    <3> QED BY <2>3, <3>1 DEF HooksInv, WorkIsCurrent, Readable
  <2> QED BY <1>1, <2>2, <2>3
<1>12. UserHooksSurvive'
  <2>1. ~lost' => TheirsIn(file') = theirs
    BY <1>11
  <2> QED BY <1>1, <2>1 DEF UserHooksSurvive, TheirsIn
<1>13. WorkIsRight'
  BY <1>1, <1>7 DEF HooksInv, WorkIsRight
<1>14. WorkIsCurrent'
  BY <1>6, <1>7, <1>11 DEF WorkIsCurrent
<1>15. DisabledIsSeenTo'
  <2>1. Busy("daemon")' /\ proc'["daemon"].op = "add" => serving' /\ managed'
    BY <1>1, <1>7 DEF HooksInv, DisabledIsSeenTo, Busy
  <2>2. SUFFICES ASSUME agent = "codex", proc["cli"].op = "remove"
                 PROVE  /\ ~marker'
                        /\ proc'["cli"].result \in Done /\ ~lost' =>
                             UnhookedFor(agent, file'.hooks) \/ SomebodyRemoves' \/ restored'
    BY <1>1, <1>7, <2>1 DEF DisabledIsSeenTo
  <2>3. ~marker'
    BY <1>1, <2>2 DEF HooksInv, DisabledIsSeenTo, Writes, Marks
  <2>4. CASE proc[p].op = "remove"
    BY <1>9, <2>3, <2>4
  <2>5. CASE proc[p].op = "add"
    <3>1. p = "daemon" \/ p = "restart"
      BY <1>1, <2>2, <2>5
    <3>2. CASE p = "daemon"
      <4>1. serving' /\ managed'
        BY <1>1, <2>5, <3>2 DEF HooksInv, DisabledIsSeenTo, Busy
      <4> QED BY <2>3, <4>1 DEF SomebodyRemoves
    <3>3. CASE p = "restart"
      <4>1. ~marker /\ RestoredBy(p)
        BY <2>2 DEF HooksInv, DisabledIsSeenTo, Writes
      <4> QED BY <2>3, <2>5, <3>3, <4>1 DEF RestoredBy
    <3> QED BY <3>1, <3>2, <3>3
  <2> QED BY <1>1, <2>4, <2>5
<1> QED BY <1>9, <1>10, <1>12, <1>13, <1>14, <1>15 DEF HooksInv

\* One more hook that is not ours.
LEMMA AnotherIs ==
  ASSUME NEW s \in Seq(Hook), OwnedOnce(s), NEW h \in Hook, ~IsOwned(h)
  PROVE  /\ Append(s, h) \in Seq(Hook) /\ OwnedOnce(Append(s, h))
         /\ \A g \in Range(Append(s, h)) : IsOwned(g) => g \in Range(s)
<1>1. /\ DOMAIN Append(s, h) = 1 .. Len(s) + 1 /\ DOMAIN s = 1 .. Len(s) /\ Len(s) \in Nat
      /\ Append(s, h)[Len(s) + 1] = h /\ \A k \in 1 .. Len(s) : Append(s, h)[k] = s[k]
  OBVIOUS
<1>2. \A k \in 1 .. Len(s) + 1 : k \in 1 .. Len(s) \/ k = Len(s) + 1
  BY <1>1
<1>3. OwnedOnce(Append(s, h))
  BY <1>1, <1>2 DEF OwnedOnce
<1>4. Append(s, h) \in Seq(Hook)
  OBVIOUS
<1> QED BY <1>3, <1>4, RangeOfAppend

LEMMA EditKeeps ==
  ASSUME HooksInv, UserEditsSomething
  PROVE  HooksInv'
<1>1. PICK e \in EventsOf(agent) :
        \/ UserEdits(InNewGroup(file.hooks[e], "user"), e)
        \/ /\ file.hooks[e] # <<>>
           /\ UserEdits(Append(file.hooks[e],
                               InGroup(file.hooks[e][Len(file.hooks[e])].group, "user")), e)
        \/ UserEdits(Theirs(file.hooks[e]), e)
  BY DEF UserEditsSomething
<1>2. /\ e \in Events /\ file.hooks \in AllHooks /\ file.keys \in BOOLEAN /\ OnceEach(file.hooks)
      /\ file.hooks[e] \in Seq(Hook) /\ OwnedOnce(file.hooks[e]) /\ proc \in [Procs -> Procedures]
  BY DEF HooksInv, Typed, Files, FilesOf, AllHooks, OnceEach, Events, EventsOf
<1> DEFINE before == file.hooks[e]
<1>3. PICK hooks : /\ UserEdits(hooks, e) /\ hooks \in Seq(Hook) /\ OwnedOnce(hooks)
                   /\ \A g \in Range(hooks) : IsOwned(g) => g \in Range(before)
  <2>1. CASE UserEdits(InNewGroup(before, "user"), e)
    <3>1. PICK h \in Hook : h.command = "user" /\ InNewGroup(before, "user") = Append(before, h)
      BY <1>2, GroupIs
    <3>2. ~IsOwned(h)
      BY <3>1 DEF IsOwned, OwnedCommands
    <3>3. PICK new : new = InNewGroup(before, "user")
      OBVIOUS
    <3>4. UserEdits(new, e)
      BY <2>1, <3>3
    <3>5. new = Append(before, h)
      BY <3>1, <3>3
    <3> QED BY <1>2, <3>2, <3>4, <3>5, AnotherIs
  <2>2. CASE /\ before # <<>>
             /\ UserEdits(Append(before, InGroup(before[Len(before)].group, "user")), e)
    <3>1. PICK h : h = InGroup(before[Len(before)].group, "user")
      OBVIOUS
    <3>2. before[Len(before)] \in Hook
      BY <1>2, <2>2
    <3>3. h \in Hook /\ h.command = "user"
      BY <3>1, <3>2 DEF InGroup, Hook
    <3>4. ~IsOwned(h)
      BY <3>3 DEF IsOwned, OwnedCommands
    <3> QED BY <1>2, <2>2, <3>1, <3>3, <3>4, AnotherIs
  <2>3. CASE UserEdits(Theirs(before), e)
    BY <1>2, <2>3, StripIs
  <2> QED BY <1>1, <2>1, <2>2, <2>3
<1>4. /\ Readable /\ proc' = AllStale(proc)
      /\ file' = Json([file.hooks EXCEPT ![e] = hooks], file.keys) /\ theirs' = TheirsIn(file')
      /\ UNCHANGED <<agent, long, marker, managed, serving, lost, restored>>
  BY <1>3 DEF UserEdits, Readable
<1>5. /\ file'.form = "json" /\ file'.keys = file.keys
      /\ file'.hooks = [file.hooks EXCEPT ![e] = hooks]
  BY <1>4 DEF Json
<1>6. /\ file'.hooks \in AllHooks
      /\ \A d \in Events : file'.hooks[d] = IF d = e THEN hooks ELSE file.hooks[d]
  BY <1>2, <1>3, <1>5 DEF AllHooks
<1>7. /\ proc' \in [Procs -> Procedures]
      /\ \A q \in Procs :
           /\ proc'[q].pc = proc[q].pc /\ proc'[q].op = proc[q].op
           /\ proc'[q].new = proc[q].new /\ proc'[q].result = proc[q].result
           /\ proc'[q].pc = "writing" => proc'[q].stale
  BY <1>2, <1>4, AllStaleIs
<1>8. Typed'
  <2>1. file' \in Files /\ (file'.form # "json" => file'.hooks = NoHooks)
    BY <1>2, <1>4, <1>6, <1>5 DEF Json, Files, FilesOf
  <2>2. theirs' \in AllHooks
    <3>1. \A d \in Events : Theirs(file'.hooks[d]) \in Seq(Hook)
      BY <1>6, StripIs DEF AllHooks
    <3> QED BY <1>4, <3>1 DEF TheirsIn, AllHooks
  <2>3. ASSUME NEW q \in Procs, proc'[q].pc # "idle"
        PROVE  proc'[q].result = "none" /\ proc'[q].op # "none"
    BY <1>7, <2>3 DEF HooksInv, Typed, Busy
  <2> QED BY <1>4, <1>7, <2>1, <2>2, <2>3 DEF HooksInv, Typed, Busy
<1>9. UserHooksSurvive'
  BY <1>4 DEF UserHooksSurvive, TheirsIn
<1>10. OnceEach(file.hooks)'
  BY <1>2, <1>3, <1>6 DEF OnceEach
<1>11. WorkIsRight'
  BY <1>4, <1>7 DEF HooksInv, WorkIsRight
<1>12. WorkIsCurrent'
  <2>1. ASSUME ~lost, NEW q \in Procs PROVE proc[q].pc # "truncated"
    BY <1>4, <2>1 DEF HooksInv, WorkIsCurrent, Readable
  <2> QED BY <1>4, <1>7, <2>1 DEF WorkIsCurrent
<1>13. DisabledIsSeenTo'
  <2>1. UnhookedFor(agent, file.hooks) => UnhookedFor(agent, file.hooks)'
    <3>1. SUFFICES ASSUME UnhookedFor(agent, file.hooks), NEW d \in EventsOf(agent),
                          NEW g \in Range(file'.hooks[d])
                   PROVE  ~IsOwned(g)
      BY <1>4, OwnedInIs DEF UnhookedFor
    <3>2. d \in Events /\ \A x \in Range(file.hooks[d]) : ~IsOwned(x)
      BY <3>1, OwnedInIs DEF UnhookedFor, EventsOf, Events
    <3> QED BY <1>3, <1>6, <3>1, <3>2
  <2>2. "cli" \in Procs /\ "daemon" \in Procs
    BY DEF Procs
  <2>3. Busy("daemon")' <=> Busy("daemon")
    BY <1>7, <2>2 DEF Busy
  <2>4. SomebodyRemoves => SomebodyRemoves'
    BY <1>4, <1>7, <2>2, <2>3 DEF SomebodyRemoves
  <2> QED BY <1>4, <1>7, <2>1, <2>2, <2>3, <2>4 DEF HooksInv, DisabledIsSeenTo
<1> QED BY <1>8, <1>9, <1>10, <1>11, <1>12, <1>13 DEF HooksInv

LEMMA OtherKeeps ==
  ASSUME HooksInv, UserToggles \/ UNCHANGED vars
  PROVE  HooksInv'
<1>1. /\ UNCHANGED <<agent, file, marker, proc, managed, serving, theirs, lost, restored>>
      /\ long' \in BOOLEAN
  BY DEF HooksInv, Typed, UserToggles, vars
<1>2. UserHooksSurvive' /\ OnceEach(file.hooks)' /\ WorkIsRight' /\ WorkIsCurrent'
  BY <1>1, FileStays
<1>3. Typed' /\ DisabledIsSeenTo'
  BY <1>1 DEF HooksInv, Typed, Busy, DisabledIsSeenTo, SomebodyRemoves
<1> QED BY <1>2, <1>3 DEF HooksInv

LEMMA InitialFilesAre ==
  ASSUME NEW f \in InitialFiles
  PROVE  f \in Files /\ (f.form # "json" => f.hooks = NoHooks) /\ OnceEach(f.hooks)
<1>1. CASE f = Absent \/ f = WrongShape
  <2>1. Absent \in Files /\ Absent.hooks = NoHooks
    BY NoHooksIs DEF Absent, Files, FilesOf
  <2>2. WrongShape \in Files /\ WrongShape.hooks = NoHooks
    BY NoHooksIs DEF WrongShape, Files, FilesOf
  <2> QED BY <1>1, <2>1, <2>2, NoHooksIs
<1>2. CASE \E hooks \in {<<>>, <<InGroup(1, "user")>>, <<InGroup(1, "user"), InGroup(1, "ours")>>,
                <<InGroup(1, "wrapper")>>, <<InGroup(1, "other"), InGroup(2, "user")>>} :
             f = Json([NoHooks EXCEPT !["PreToolUse"] = hooks], TRUE)
  <2>1. PICK hooks \in {<<>>, <<InGroup(1, "user")>>, <<InGroup(1, "user"), InGroup(1, "ours")>>,
                <<InGroup(1, "wrapper")>>, <<InGroup(1, "other"), InGroup(2, "user")>>} :
             f = Json([NoHooks EXCEPT !["PreToolUse"] = hooks], TRUE)
    BY <1>2
  <2>2. hooks \in Seq(Hook) /\ OwnedOnce(hooks)
    <3>1. \A command \in OwnedCommands \cup {"wrapper", "user"} :
            /\ InGroup(1, command) \in Hook /\ InGroup(2, command) \in Hook
            /\ InGroup(1, command).command = command /\ InGroup(2, command).command = command
      BY DEF InGroup, Hook
    <3>2. PICK user, other, ours, wrapper, second :
            /\ user = InGroup(1, "user") /\ other = InGroup(1, "other") /\ ours = InGroup(1, "ours")
            /\ wrapper = InGroup(1, "wrapper") /\ second = InGroup(2, "user")
      OBVIOUS
    <3>3. /\ user \in Hook /\ other \in Hook /\ ours \in Hook /\ wrapper \in Hook /\ second \in Hook
          /\ user.command = "user" /\ wrapper.command = "wrapper" /\ second.command = "user"
      <4>1. /\ "user" \in OwnedCommands \cup {"wrapper", "user"} /\ "other" \in OwnedCommands
            /\ "ours" \in OwnedCommands /\ "wrapper" \in OwnedCommands \cup {"wrapper", "user"}
        BY DEF OwnedCommands
      <4> QED BY <3>1, <3>2, <4>1
    <3>9. ~IsOwned(user) /\ ~IsOwned(wrapper) /\ ~IsOwned(second)
      BY <3>3 DEF IsOwned, OwnedCommands
    <3>4. hooks \in {<<>>, <<user>>, <<user, ours>>, <<wrapper>>, <<other, second>>}
      BY <2>1, <3>2
    <3>5. CASE hooks = <<>>
      BY <3>5 DEF OwnedOnce
    <3>6. CASE hooks = <<user>>
      <4>1. DOMAIN hooks = {1} /\ hooks \in Seq(Hook)
        BY <3>3, <3>6
      <4> QED BY <4>1 DEF OwnedOnce
    <3>10. CASE hooks = <<wrapper>>
      <4>1. DOMAIN hooks = {1} /\ hooks \in Seq(Hook)
        BY <3>3, <3>10
      <4> QED BY <4>1 DEF OwnedOnce
    <3>7. CASE hooks = <<user, ours>>
      <4>1. hooks \in Seq(Hook) /\ DOMAIN hooks = {1, 2} /\ hooks[1] = user
        BY <3>3, <3>7
      <4> QED BY <3>9, <4>1 DEF OwnedOnce
    <3>8. CASE hooks = <<other, second>>
      <4>1. hooks \in Seq(Hook) /\ DOMAIN hooks = {1, 2} /\ hooks[2] = second
        BY <3>3, <3>8
      <4> QED BY <3>9, <4>1 DEF OwnedOnce
    <3> QED BY <3>4, <3>5, <3>6, <3>7, <3>8, <3>10
  <2>4. f.form = "json" /\ f.hooks = [NoHooks EXCEPT !["PreToolUse"] = hooks] /\ f.keys = TRUE
    BY <2>1 DEF Json
  <2>5. f.hooks \in AllHooks
    BY <2>2, <2>4, NoHooksIs DEF AllHooks
  <2>6. f \in Files
    BY <2>1, <2>4, <2>5 DEF Json, Files, FilesOf
  <2>7. OnceEach(f.hooks)
    BY <2>2, <2>4, NoHooksIs DEF AllHooks, OnceEach
  <2> QED BY <2>4, <2>6, <2>7
<1> QED BY <1>1, <1>2 DEF InitialFiles

LEMMA HooksInit == Init => HooksInv
<1>1. SUFFICES ASSUME Init PROVE HooksInv
  OBVIOUS
<1>2. file \in Files /\ (file.form # "json" => file.hooks = NoHooks) /\ OnceEach(file.hooks)
  BY <1>1, InitialFilesAre DEF Init
<1>3. \A p \in Procs : proc[p] = Idle
  BY <1>1 DEF Init
<1>4. Typed
  <2>1. theirs \in AllHooks
    <3>1. \A d \in Events : Theirs(file.hooks[d]) \in Seq(Hook)
      BY <1>2, StripIs DEF Files, FilesOf, AllHooks
    <3> QED BY <1>1, <3>1 DEF Init, TheirsIn, AllHooks
  <2>2. proc \in [Procs -> Procedures]
    BY <1>1, IdleIs DEF Init
  <2> QED BY <1>1, <1>2, <1>3, <2>1, <2>2, IdleIs, ConstantsAssumption DEF Init, Typed, Busy
<1>5. UserHooksSurvive
  BY <1>1 DEF Init, UserHooksSurvive
<1>6. WorkIsRight /\ WorkIsCurrent
  BY <1>3, IdleIs DEF WorkIsRight, WorkIsCurrent
<1>7. DisabledIsSeenTo
  BY <1>3, IdleIs DEF DisabledIsSeenTo, Busy, Procs
<1> QED BY <1>2, <1>4, <1>5, <1>6, <1>7 DEF HooksInv

LEMMA HooksNext == HooksInv /\ [Next]_vars => HooksInv'
<1>1. SUFFICES ASSUME HooksInv, [Next]_vars PROVE HooksInv'
  OBVIOUS
<1>2. CASE DaemonStarts \/ DaemonStops \/ CliAdd \/ CliRemove
  BY <1>1, <1>2, StartKeeps
<1>3. ASSUME NEW p \in Procs, ReadFails(p) \/ ReadsNothingToDo(p) \/ WriteFails(p)
      PROVE  HooksInv'
  BY <1>1, <1>3, EndKeeps
<1>4. ASSUME NEW p \in Procs, ReadsAndChanges(p) PROVE HooksInv'
  BY <1>1, <1>4, ReadKeeps
<1>5. ASSUME NEW p \in Procs, Truncates(p) PROVE HooksInv'
  BY <1>1, <1>5, TruncatesKeeps
<1>6. ASSUME NEW p \in Procs, Writes(p) PROVE HooksInv'
  BY <1>1, <1>6, WritesKeeps
<1>7. CASE UserEditsSomething
  BY <1>1, <1>7, EditKeeps
<1>8. CASE UserToggles \/ UNCHANGED vars
  BY <1>1, <1>8, OtherKeeps
<1>9. CASE RestartBegins \/ RestartStopped
  BY <1>1, <1>9, RestartKeeps
<1> QED BY <1>1, <1>2, <1>3, <1>4, <1>5, <1>6, <1>7, <1>8, <1>9 DEF Next

\* What is inductive of the files, their readers and their writers.
THEOREM HooksInductive == Spec => []HooksInv
<1>1. Init => HooksInv
  BY HooksInit
<1>2. HooksInv /\ [Next]_vars => HooksInv'
  BY HooksNext
<1> QED BY <1>1, <1>2, PTL DEF Spec

(***************************************************************************)
(* What follows from it.                                                   *)
(***************************************************************************)
LEMMA StatusIs == Typed => StatusTellsHalves
<1>1. SUFFICES ASSUME Typed PROVE StatusTellsHalves
  OBVIOUS
<1>2. CASE file.form = "torn"
  BY <1>2 DEF StatusTellsHalves, CliStatus
<1>3. CASE file.form # "torn" /\ agent = "codex"
  <2>1. CliStatus(file) = CodexStatus(file) /\ EventsOf(agent) = Events
    BY <1>3 DEF CliStatus, EventsOf
  <2> DEFINE hooked == {e \in Events : OwnedIn(file.hooks, e) # {}}
  <2>2. /\ CodexStatus(file) = "registered" => hooked = Events
        /\ CodexStatus(file) = "not registered" => hooked = {}
    BY DEF CodexStatus
  <2>3. hooked = Events => Registered(file)
    BY <2>1 DEF Registered
  <2>4. ASSUME hooked = {}, NEW e \in Events, NEW h \in Range(file.hooks[e]) PROVE ~IsOwned(h)
    BY <2>4, OwnedInIs
  <2> QED BY <1>3, <2>1, <2>2, <2>3, <2>4 DEF StatusTellsHalves
<1>4. CASE file.form # "torn" /\ agent = "claude"
  <2>1. CliStatus(file) = ClaudeStatus(file) /\ EventsOf(agent) = {"PreToolUse"}
    BY <1>4 DEF CliStatus, EventsOf
  <2>2. /\ ClaudeStatus(file) = "registered" => OwnedIn(file.hooks, "PreToolUse") # {}
        /\ ClaudeStatus(file) = "not registered" =>
             OwnedIn(file.hooks, "PreToolUse") = {} /\ ForeignIn(file.hooks, "PreToolUse") = {}
    BY DEF ClaudeStatus
  <2>3. OwnedIn(file.hooks, "PreToolUse") # {} => Registered(file)
    BY <2>1 DEF Registered
  <2>4. ASSUME OwnedIn(file.hooks, "PreToolUse") = {}, ForeignIn(file.hooks, "PreToolUse") = {},
               NEW h \in Range(file.hooks["PreToolUse"])
        PROVE  ~IsOwned(h) /\ ~Mentions(h)
    BY <2>4, OwnedInIs DEF ForeignIn
  <2> QED BY <1>4, <2>1, <2>2, <2>3, <2>4 DEF StatusTellsHalves
<1> QED BY <1>1, <1>2, <1>3, <1>4 DEF Typed

\* In the file, whoever wrote it last, are the user's hooks in their order and ours
\* once at most, and `hook status` says which halves of it are there.
THEOREM RegistryIsKept == Spec => []RegistryInv
<1>1. HooksInv => RegistryInv
  BY TypedIsTypeOK, StatusIs DEF HooksInv, RegistryInv, NeverHookedTwice, OnceEach
<1> QED BY <1>1, HooksInductive, PTL

\* Once all is still, a supervisor that could have removed the hook has done so: what
\* is still registered was put back by a restart.
THEOREM DisabledIsGone == Spec => []DisabledEndsWithService
<1>1. HooksInv => DisabledEndsWithService
  <2>1. SUFFICES ASSUME HooksInv, agent = "codex", ~serving, \A p \in Procs : proc[p].pc = "idle",
                        proc["cli"].op = "remove", proc["cli"].result \in Done,
                        proc["daemon"].result \in {"none"} \cup Done, ~lost, ~restored
                 PROVE  ~Removable(file.hooks)
    BY DEF DisabledEndsWithService, Done
  <2>2. ~SomebodyRemoves
    BY <2>1 DEF SomebodyRemoves, Busy, Procs
  <2>3. UnhookedFor(agent, file.hooks)
    BY <2>1, <2>2 DEF HooksInv, DisabledIsSeenTo
  <2> QED BY <2>3 DEF UnhookedFor, Removable
<1> QED BY <1>1, HooksInductive, PTL

\* Success is reported by the last step of an addition or of a removal, and by no
\* other.
LEMMA ReportsAtTheEnd ==
  ASSUME HooksInv, [Next]_vars, NEW p \in Procs, Busy(p), proc'[p].result \in Done
  PROVE  ReadsNothingToDo(p) \/ Writes(p)
<1>1. proc \in [Procs -> Procedures] /\ proc[p].result = "none" /\ proc[p].result \notin Done
  BY DEF HooksInv, Typed, Done
<1>2. proc'[p].result # proc[p].result
  BY <1>1
<1>3. CASE DaemonStarts \/ DaemonStops \/ CliAdd \/ CliRemove
  <2>1. PICK q \in Procs, op \in {"add", "remove"} : Starts(q, op, "reading") \/ UNCHANGED proc
    BY <1>3 DEF DaemonStarts, DaemonStops, CliAdd, CliRemove, Procs
  <2> QED BY <1>1, <1>2, <2>1, StartsIs DEF Done
<1>4. ASSUME NEW q \in Procs, ReadFails(q) \/ WriteFails(q) \/ ReadsNothingToDo(q)
      PROVE  ReadsNothingToDo(p) \/ proc'[p].result \notin Done \/ proc'[p].result = proc[p].result
  <2>1. PICK r \in {"error", "panic", "as it was", "torn"} :
             Ends(q, r) /\ (r = "as it was" => ReadsNothingToDo(q))
    BY <1>4 DEF ReadFails, WriteFails, ReadsNothingToDo
  <2>2. r \in {"error", "panic", "as it was", "changed", "torn"}
    OBVIOUS
  <2>3. /\ proc'[q].result = r
        /\ \A x \in Procs : x # q => proc'[x] = proc[x]
    BY <1>1, <2>1, <2>2, EndsIs
  <2> QED BY <1>1, <2>1, <2>3 DEF Done
<1>5. ASSUME NEW q \in Procs, ReadsAndChanges(q)
      PROVE  proc'[p].result = proc[p].result
  BY <1>1, <1>5 DEF ReadsAndChanges, Procedures
<1>6. ASSUME NEW q \in Procs, Truncates(q)
      PROVE  proc'[p].result = proc[p].result
  <2>1. PICK others : others = [proc EXCEPT ![q].pc = "truncated"]
    OBVIOUS
  <2>2. others \in [Procs -> Procedures] /\ \A x \in Procs : others[x].result = proc[x].result
    BY <1>1, <2>1 DEF Procedures
  <2>3. proc' = AllStale(others)
    BY <1>6, <2>1 DEF Truncates
  <2> QED BY <2>2, <2>3, AllStaleIs
<1>7. ASSUME NEW q \in Procs, Writes(q)
      PROVE  Writes(p) \/ proc'[p].result = proc[p].result
  <2>1. PICK ended : ended = [Idle EXCEPT !.op = proc[q].op, !.result = "changed"]
    OBVIOUS
  <2>2. ended \in Procedures
    BY <1>1, <2>1, IdleIs DEF Procedures
  <2>3. PICK others : others = [proc EXCEPT ![q] = ended]
    OBVIOUS
  <2>4. others \in [Procs -> Procedures] /\ \A x \in Procs : x # q => others[x] = proc[x]
    BY <1>1, <2>2, <2>3
  <2>5. proc' = AllStale(others)
    BY <1>7, <2>1, <2>3 DEF Writes
  <2>6. p # q => proc'[p].result = proc[p].result
    BY <2>4, <2>5, AllStaleIs
  <2> QED BY <1>7, <2>6
<1>8. CASE UserEditsSomething
  <2>1. proc' = AllStale(proc)
    BY <1>8 DEF UserEditsSomething, UserEdits
  <2> QED BY <1>1, <1>2, <2>1, AllStaleIs
<1>9. CASE UserToggles \/ UNCHANGED vars
  BY <1>2, <1>9 DEF UserToggles, vars
<1>10. ~RestartBegins
  <2>1. CASE p = "restart"
    BY <2>1 DEF RestartBegins, Ready, Busy
  <2>2. ASSUME RestartBegins, p # "restart" PROVE FALSE
    <3>1. proc'[p] = proc[p]
      <4>1. "restart" \in Procs
        BY DEF Procs
      <4> QED BY <1>1, <2>2, <4>1, StartsIs DEF RestartBegins
    <3> QED BY <1>2, <3>1
  <2> QED BY <2>1, <2>2
<1>11. ~RestartStopped
  <2>1. ASSUME RestartStopped PROVE proc'[p].result \notin Done \/ proc'[p].result = proc[p].result
    <3>1. "restart" \in Procs
      BY DEF Procs
    <3>2. CASE Ends("restart", "error")
      BY <1>1, <3>1, <3>2, EndsIs DEF Done
    <3>3. CASE proc' = [proc EXCEPT !["restart"].pc = "reading"]
      BY <1>1, <3>1, <3>3 DEF Procedures
    <3> QED BY <2>1, <3>2, <3>3 DEF RestartStopped
  <2> QED BY <1>2, <2>1
<1> QED BY <1>2, <1>3, <1>4, <1>5, <1>6, <1>7, <1>8, <1>9, <1>10, <1>11 DEF Next

LEMMA ReportedIsDone ==
  ASSUME HooksInv, [Next]_vars, NEW p \in Procs, Busy(p), proc'[p].result \in Done
  PROVE  /\ proc[p].op = "add" => HookedFor(agent, file'.hooks) \/ lost'
         /\ proc[p].op = "remove" => UnhookedFor(agent, file'.hooks)
         /\ agent' = agent
<1>1. CASE ReadsNothingToDo(p)
  <2>1. file' = file /\ agent' = agent /\ file.hooks \in AllHooks /\ OnceEach(file.hooks)
        /\ agent \in {"claude", "codex"}
    BY <1>1 DEF ReadsNothingToDo, HooksInv, Typed, Files, FilesOf
  <2>2. proc[p].op = "add" => HookedFor(agent, file.hooks)
    <3>1. proc[p].op = "add" => Added(file.hooks) = file.hooks
      BY <1>1 DEF ReadsNothingToDo, Changes
    <3> QED BY <2>1, <3>1, AddedIs
  <2>3. proc[p].op = "remove" => UnhookedFor(agent, file.hooks)
    <3>1. CASE file.form = "wrong shape"
      BY <3>1, NoHooksIs DEF HooksInv, Typed
    <3>2. CASE ~Changes(proc[p].op)
      BY <3>2, NothingToRemove DEF Changes
    <3> QED BY <1>1, <3>1, <3>2 DEF ReadsNothingToDo
  <2> QED BY <2>1, <2>2, <2>3
<1>2. CASE Writes(p)
  <2>1. proc[p].pc \in {"writing", "truncated"} /\ agent' = agent
    BY <1>2 DEF Writes
  <2>2. file' = proc[p].new \/ (lost' /\ file' = Torn)
    BY <1>2, WrittenIs
  <2> QED BY <2>1, <2>2, TornIs DEF HooksInv, WorkIsRight
<1> QED BY <1>1, <1>2, ReportsAtTheEnd

\* A command or a supervisor that reports success has done what it was asked.
THEOREM SuccessIsTrue == Spec => ReportsHold
<1> DEFINE AddStep ==
             \A p \in Procs :
               proc[p].op = "add" /\ proc[p].pc # "idle" /\ proc'[p].result \in {"as it was", "changed"} =>
                 \/ Registered(file') \/ lost'
                 \/ agent = "claude" /\ ForeignIn(file'.hooks, "PreToolUse") # {}
           RemoveStep ==
             \A p \in Procs :
               proc[p].op = "remove" /\ proc[p].pc # "idle" /\ proc'[p].result \in {"as it was", "changed"} =>
                 \A e \in EventsOf(agent) : \A i \in DOMAIN file'.hooks[e] : ~IsOwned(file'.hooks[e][i])
<1>1. HooksInv /\ [Next]_vars => AddStep
  BY ReportedIsDone DEF Busy, Done, HookedFor, Registered
<1>2. HooksInv /\ [Next]_vars => RemoveStep
  BY ReportedIsDone, OwnedInIs DEF Busy, Done, UnhookedFor, Range
<1>3. Spec => [][AddStep]_vars
  BY <1>1, HooksInductive, PTL DEF Spec
<1>4. Spec => [][RemoveStep]_vars
  BY <1>2, HooksInductive, PTL DEF Spec
<1> QED BY <1>3, <1>4 DEF ReportsHold, AddRegisters, RemoveClears
===============================================================================
