----------------------------- MODULE MCService -----------------------------
(* One install per platform, Codex enabled on two of them; one supervisor at *)
(* a time, two commands that may overlap, and one fault.                     *)
EXTENDS Service

MCInstalls == {<<"systemd", TRUE>>, <<"launchd", FALSE>>, <<"windows", TRUE>>}
MCModes == {"guardrails", "monitor"}
=============================================================================
