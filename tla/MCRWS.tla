------------------------------- MODULE MCRWS -------------------------------
(* ReconnectingWebSocket on small instances. *)
EXTENDS RWSProps

CONSTANTS m1, m2, m3
NoMsg        == {}
OneMsg       == {m1}
TwoMsgs      == {m1, m2}
ThreeMsgs    == {m1, m2, m3}
DataAndReset == {"data", "reset"}
OnlyClose    == {"close"}
Symmetry     == Permutations(Msg)
=============================================================================
