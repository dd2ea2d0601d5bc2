------------------------------ MODULE Delivery ------------------------------
(***************************************************************************)
(* What becomes of the messages given to a ReconnectingWebSocket, as its   *)
(* user may rely on it.  One that is not refused at once is kept until it  *)
(* is written, whatever connections come and go; it is lost only with a    *)
(* connection that had accepted it and ended.  Where a message waits, and  *)
(* that it may be taken back and queued again, does not show.              *)
(***************************************************************************)
CONSTANT Msg

VARIABLES
    fate,       \* of every message
    ended       \* the connections that ended so far

dvars == <<fate, ended>>

With(f) == {m \in Msg : fate[m] = f}
Becomes(S, f) == fate' = [m \in Msg |-> IF m \in S THEN f ELSE fate[m]]

Init == fate = [m \in Msg |-> "unsent"] /\ ended = {}

Keep(m)   == m \in With("unsent") /\ Becomes({m}, "kept") /\ UNCHANGED ended
Refuse(m) == m \in With("unsent") /\ Becomes({m}, "refused") /\ UNCHANGED ended
Write(m)  == m \in With("kept") /\ Becomes({m}, "written") /\ UNCHANGED ended

\* A connection ends, or one that ended is given a message all the same.
Lose(S) ==
    /\ S \subseteq With("kept") /\ Becomes(S, "lost")
    /\ ended \subseteq ended' /\ ended' # {}

Next ==
    \/ \E m \in Msg : Keep(m) \/ Refuse(m) \/ Write(m)
    \/ \E S \in SUBSET Msg : Lose(S)

Spec == Init /\ [][Next]_dvars
=============================================================================
