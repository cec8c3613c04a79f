--------------------------- MODULE MCHookRegistry ---------------------------
(* Instances of HookRegistry: both agents' files. *)
EXTENDS HookRegistry
=============================================================================
