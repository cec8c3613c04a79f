---- MODULE MCSignoffCli ----
(* Two calls, a watch and two commands, two enrolments of one new key. *)
EXTENDS SignoffCli
MCCalls == 1..2
MCNames == MCCalls \union {1002}
MCCommands == {1, 2}
MCEnrols == {"e1", "e2"}
MCKeys == {"k1", "k2", "k3"}
MCOldKeys == {"k1"}
MCRps == {"rp", "rp2"}
====
