---------------------------- MODULE MCDebugChannel ----------------------------
(* The listener sends too, so that one hook makes two senders. *)
EXTENDS DebugChannel

CONSTANTS h1, listener

MCOneHook == {h1}
=============================================================================
