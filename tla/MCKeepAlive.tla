---------------------------- MODULE MCKeepAlive ----------------------------
(* KeepAlive on a small instance. *)
EXTENDS KeepAliveProps

CONSTANTS m1, m2
TwoMsgs == {m1, m2}
=============================================================================
