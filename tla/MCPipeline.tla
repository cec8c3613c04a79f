------------------------------ MODULE MCPipeline ------------------------------
(* Two requests of up to two events and a review share queues of one; in       *)
(* monitor mode the first of them is alone.  Sign-off is off, what holds a call *)
(* being the broker's alone.                                                   *)
EXTENDS Pipeline
MCRequests == 1..2
MCRules == {{"ask"}, {"deny", "ask"}}
MCShapes == <<{{"e1", "e2"}, {"e1", "llm"}}, {{"e1", "llm"}}>>
ServedInit ==
  PipelineInit /\ mode \in {"guardrails", "monitor"} /\ ~signoff /\ floor = "allow"
AloneInMonitor == mode = "monitor" => expected'[2] = {}
ServedSpec == ServedInit /\ [][PipelineNext /\ AloneInMonitor]_pvars /\ PipelineFairness
=============================================================================
