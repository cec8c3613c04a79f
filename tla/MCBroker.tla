------------------------------- MODULE MCBroker -------------------------------
(* Small instances of Broker, with its inductive invariant and its abstract  *)
(* specification, for TLC.                                                   *)
EXTENDS BrokerInv, BrokerGate, TLC

\* Requests and events are interchangeable.  Sound for invariants; the run with
\* temporal properties uses no symmetry.
Symmetry == Permutations(Requests) \cup Permutations(Events)
=============================================================================
