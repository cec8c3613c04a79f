------------------------------ MODULE MCInputs ------------------------------
(* Small inputs: every kind of patch line, a project with a link in it, two    *)
(* sessions, and configurations with each setting absent or present.           *)
EXTENDS Inputs

PatchLine(kind, path) == [kind |-> kind, path |-> path]

MCPatchLines ==
  {BeginLine, EndLine, PatchLine("body", None), PatchLine("add", "x"), PatchLine("delete", ""),
   PatchLine("update", "y"), PatchLine("move", "x"), PatchLine("move", "")}

(* A project with a link in it, a directory beside it and what the link is. *)
Dirs == {Root, <<"p">>, <<"h">>}
FileSystem(links) ==
  [at \in Dirs \cup DOMAIN links |-> IF at \in Dirs THEN Directory ELSE links[at]]

MCFileSystems ==
  {FileSystem([at \in {<<"p", "l">>} |-> link]) :
     link \in {RegularFile, Link(TRUE, <<"h">>), Link(TRUE, <<"h", "m">>),
               Link(FALSE, <<Up, "h">>), Link(FALSE, <<"m">>), Link(FALSE, <<"l">>),
               Link(FALSE, <<"m", Up, "h">>)}}
  \cup
  {FileSystem([at \in {<<"p", "l">>, <<"h", "l">>} |->
                 IF at = <<"p", "l">> THEN Link(TRUE, <<"h", "l">>) ELSE link]) :
     link \in {Directory, Link(FALSE, <<"m">>), Link(TRUE, <<"p", "m", "h">>), Link(TRUE, <<"p", "l">>)}}

MCComponents == {"p", "h", "l", "m", Up}

Record(kind, name) == [kind |-> kind, name |-> name]
MCRecords == {Record("title", "a"), Record("title", "b"), Record("user", "c"),
              Record("user", "d"), Record("other", NoName)}
IndexLine(id, name) == [id |-> id, name |-> name]
MCIndexLines == {IndexLine("s", "a"), IndexLine("s", "b"), IndexLine("s", ""), IndexLine("t", "c")}

Blocks(key, deep) == {<<Line(1, key, "", note)>> \o deep : note \in BOOLEAN}

ModeLines == {<<>>} \cup {<<Line(1, "mode", "guardrails", note)>> : note \in BOOLEAN}
ActionLines == {<<>>, <<Line(1, "default_action", "allow", FALSE)>>}
MonitorLines ==
  {<<>>} \cup UNION {Blocks("monitor", <<Line(2, "enabled", enabled, note), Line(0, "#", "", FALSE),
                              Line(2, "model", "some", FALSE), Line(2, "timeout_ms", 15000, FALSE)>>) :
                        enabled \in {"true", "false"}, note \in BOOLEAN}
SignoffLines ==
  {<<>>} \cup UNION {Blocks("signoff", <<Line(2, "enabled", enabled, FALSE),
                              Line(2, "ttl_secs", ttl, FALSE)>>) :
                        enabled \in {"true", "false"}, ttl \in {10, 120}}

MCConfigFiles ==
  UNION {{m \o a \o r \o s, r \o m \o s \o a, s \o a \o m \o r} :
           m \in ModeLines, a \in ActionLines, r \in MonitorLines, s \in SignoffLines}

MCCommands ==
  {[name |-> "mode", value |-> v] : v \in {"monitor", "guardrails"}}
  \cup {[name |-> "default_action", value |-> "defer"]}
=============================================================================
