------------------------------- MODULE Verdict -------------------------------
(***************************************************************************)
(* The verdict values of verdict.rs and their strictness.                  *)
(* A verdict travels as its wire label; the reason text that Deny and Ask  *)
(* carry is left out.  NoVerdict is the `None` of an Option<Verdict>.      *)
(***************************************************************************)
EXTENDS Integers

Verdicts == {"allow", "deny", "ask", "defer"}

NoVerdict == "none"

\* Verdict::escalate, deny > ask > {allow, defer}: the two floors are co-equal.
Strictness(v) == IF v = "deny" THEN 2 ELSE IF v = "ask" THEN 1 ELSE 0

\* The stricter of the two; on a tie the one that was there first.
Escalate(existing, new) ==
  IF Strictness(new) > Strictness(existing) THEN new ELSE existing
=============================================================================
