---------------------------- MODULE MCSequenceNode ----------------------------
(* Small instances of SequenceNode for TLC.                                *)
EXTENDS SequenceNode

CONSTANT t1

EveryFailure == {"raise", "untrusted", "refuse_cancel"}
AlwaysReady  == Commands
=============================================================================
