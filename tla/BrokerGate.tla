------------------------------ MODULE BrokerGate ------------------------------
(* The broker implements ToolCallGate. *)
EXTENDS Broker

\* The verdict that was written first, if any: what the interceptor acts on.
FirstAnswer(r) == IF wire[r] = <<>> THEN NoVerdict ELSE wire[r][1]

Gate == INSTANCE ToolCallGate WITH
          submitted <- {r \in Requests : Registered(r)},
          standing <- [r \in Requests |-> Strictest(r)],
          answer <- [r \in Requests |-> FirstAnswer(r)]

(* Every step of every thread of the broker is a step of the gate, or none. *)
ImplementsGate == Gate!Spec
=============================================================================
