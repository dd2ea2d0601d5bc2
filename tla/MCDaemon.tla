------------------------------ MODULE MCDaemon ------------------------------
(* Daemon on small instances. *)
EXTENDS DaemonProps

CONSTANTS d1, d2, r1
OneSource   == {d1}
TwoSources  == {d1, d2}
SecondFails == {d2}
NoneFails   == {}
OneRequest  == {r1}
=============================================================================
