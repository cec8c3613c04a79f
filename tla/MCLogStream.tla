---------------------------- MODULE MCLogStream ----------------------------
(* A patch of several events whose alerts are none, one of no verdict, or a    *)
(* deny and an ask.                                                            *)
EXTENDS LogStream

CONSTANT patch

(* One patch, whose events share its correlation id. *)
MCCalls == {patch}
MCAlertSeqs == {<<>>, <<"other">>, <<"deny", "ask">>}
=============================================================================
