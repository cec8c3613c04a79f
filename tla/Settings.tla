------------------------------ MODULE Settings ------------------------------
(***************************************************************************)
(* How premptictl reads and rewrites the plugin's configuration (main.rs,  *)
(* signoff.rs): line by line, where the plugin reads it as YAML.           *)
(*                                                                         *)
(* A line has an indent, a key, a value and perhaps a note, a comment at   *)
(* its end; a line that is only a comment has the key "#".  The value of a *)
(* line that opens a block is "".                                          *)
(***************************************************************************)
EXTENDS Integers, Sequences, FiniteSets, SequencesExt

Line(indent, key, value, note) ==
  [indent |-> indent, key |-> key, value |-> value, note |-> note]

WithNote == "something with a note"

(* What the rest of a line is when its note is not cut off. *)
RestOf(line) == IF line.note THEN WithNote ELSE line.value

(* A line that sets this key, however deep. *)
IsSetting(line, key) == line.key = key

LinesThatSet(data, key) == {n \in DOMAIN data : IsSetting(data[n], key)}
-------------------------------------------------------------------------------
\* Mutated form: the indent is lost.
RewrittenFlush(line, value) == [line EXCEPT !.value = value, !.note = FALSE, !.indent = 0]

(* The indent is kept, the note lost. *)
Rewritten(line, value) == [line EXCEPT !.value = value, !.note = FALSE]

(* rewrite_mode_in_yaml: every such line; with none the command fails. *)
RewriteMode(data, mode) ==
  [n \in DOMAIN data |-> IF IsSetting(data[n], "mode") THEN Rewritten(data[n], mode) ELSE data[n]]

(* rewrite_default_action_in_yaml *)
RewriteDefaultAction(data, action) ==
  [n \in DOMAIN data |->
     IF IsSetting(data[n], "default_action") THEN Rewritten(data[n], action) ELSE data[n]]

(* `premptictl mode` and `premptictl default-action`. *)
Perform(data, command) ==
  IF command.name = "mode" THEN RewriteMode(data, command.value)
  ELSE RewriteDefaultAction(data, command.value)

(* parse_plugin_config_summary: the last one. *)
Mode(data) ==
  LET set == LinesThatSet(data, "mode") IN
  IF set = {} THEN "guardrails" ELSE RestOf(data[Max(set)])

(* default_action_get: the first one. *)
DefaultAction(data) ==
  LET set == LinesThatSet(data, "default_action") IN
  IF set = {} THEN "allow" ELSE RestOf(data[Min(set)])
-------------------------------------------------------------------------------

(* Where the block of line n ends: at the first line, comments apart, that is
   not indented deeper.                                                      *)
BlockEnds(data, n) ==
  Min({Len(data) + 1} \cup
      {k \in n + 1 .. Len(data) : data[k].key # "#" /\ data[k].indent <= data[n].indent})

(* parse_block: the last value of each key; the notes are cut off. *)
ParseBlock(data, key) ==
  LET opens == {n \in DOMAIN data : data[n].key = key /\ ~data[n].note}
      n == Min(opens)
      inside == {k \in n + 1 .. BlockEnds(data, n) - 1 : data[k].key # "#"}
  IN  IF opens = {} THEN <<>>
      ELSE [k \in {data[i].key : i \in inside} |->
              data[Max({i \in inside : data[i].key = k})].value]

Get(block, key, default) == IF key \in DOMAIN block THEN block[key] ELSE default

(* parse_monitor_settings *)
MonitorSettings(data) ==
  LET block == ParseBlock(data, "monitor") IN
  [enabled |-> Get(block, "enabled", "false") = "true",
   timeout |-> Get(block, "timeout_ms", 20000)]

(* signoff::parse_settings *)
SignoffSettings(data) ==
  LET block == ParseBlock(data, "signoff") IN
  [enabled |-> Get(block, "enabled", "false") = "true",
   ttl |-> Get(block, "ttl_secs", 300)]

HookTimeoutFor(timeout) == 2 * timeout + 5000
SignoffHookTimeoutFor(ttl) == ttl * 1000 + 15000

NoTimeout == 0

(* hook_timeout_from_config: the longer wait, or none when neither is enabled. *)
HookTimeout(data) ==
  LET waits == (IF MonitorSettings(data).enabled
                THEN {HookTimeoutFor(MonitorSettings(data).timeout)} ELSE {})
               \cup (IF SignoffSettings(data).enabled
                     THEN {SignoffHookTimeoutFor(SignoffSettings(data).ttl)} ELSE {})
  IN  IF waits = {} THEN NoTimeout ELSE Max(waits)
-------------------------------------------------------------------------------
(* The plugin's reading: YAML, with the defaults of config.rs. *)
YamlTop(data, key, default) ==
  LET at == {n \in DOMAIN data : data[n].key = key /\ data[n].indent = 1} IN
  IF at = {} THEN default ELSE data[Max(at)].value

YamlIn(data, block, key, default) ==
  LET opens == {n \in DOMAIN data : data[n].key = block}
      inside == {n \in DOMAIN data : data[n].key = key /\ data[n].indent = 2 /\
                   \E o \in opens : o < n /\ \A k \in o + 1 .. n : data[k].key # "#" => data[k].indent = 2}
  IN  IF inside = {} THEN default ELSE data[Max(inside)].value

PluginReads(data) ==
  [mode |-> YamlTop(data, "mode", "guardrails"),
   defaultAction |-> YamlTop(data, "default_action", "allow"),
   monitor |-> [enabled |-> YamlIn(data, "monitor", "enabled", "false") = "true",
                timeout |-> YamlIn(data, "monitor", "timeout_ms", 20000)],
   model |-> YamlIn(data, "monitor", "model", "none"),
   signoff |-> [enabled |-> YamlIn(data, "signoff", "enabled", "false") = "true",
                ttl |-> YamlIn(data, "signoff", "ttl_secs", 300)]]
=============================================================================
