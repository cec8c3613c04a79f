----------------------------- MODULE MCHookCall -----------------------------
(* Settings, in ticks of 5 s: no monitor, or a timeout of 1 or 4 ticks an      *)
(* attempt; no sign-off, or a window of 2 ticks or of 11, which with its slack *)
(* is beyond the most a Claude interceptor waits; PREMPTI_TIMEOUT_MS unset,    *)
(* above Codex's limit, or above the agents' limits both.                      *)
EXTENDS HookCall
=============================================================================
