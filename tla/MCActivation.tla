---------------------------- MODULE MCActivation ----------------------------
(* Small instances of Activation for TLC.                                   *)
EXTENDS Activation

CONSTANTS mx1, mx2, s1

OnWorker == {<<mx2, s1>>}
NoSessions == {}
=============================================================================
