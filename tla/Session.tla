------------------------------ MODULE Session ------------------------------
(***************************************************************************)
(* The life of a ReconnectingWebSocket as its user is told it: it connects *)
(* with a bounded number of retries, is up, connects again when the        *)
(* connection is lost, and ends for good when it is closed, when the peer  *)
(* refuses it or when the retries run out.  Loops, channels and watch      *)
(* values do not show.                                                     *)
(***************************************************************************)
EXTENDS Naturals

CONSTANT MaxRetries

VARIABLES
    phase,      \* "connecting", "up" or "ended"
    tries,      \* retries made since the connection was lost
    opened      \* connections established so far

svars == <<phase, tries, opened>>

Init == phase = "connecting" /\ tries = 0 /\ opened = 0

Establish ==
    /\ phase = "connecting"
    /\ phase' = "up" /\ tries' = 0 /\ opened' = opened + 1

Retry ==
    /\ phase = "connecting" /\ tries < MaxRetries
    /\ tries' = tries + 1 /\ UNCHANGED <<phase, opened>>

GiveUp ==
    /\ phase = "connecting"
    /\ phase' = "ended" /\ UNCHANGED <<tries, opened>>

\* tries is 0 while the connection is up.
Lose ==
    /\ phase = "up"
    /\ phase' = "connecting" /\ UNCHANGED <<tries, opened>>

Finish ==
    /\ phase = "up"
    /\ phase' = "ended" /\ UNCHANGED <<tries, opened>>

Next == Establish \/ Retry \/ GiveUp \/ Lose \/ Finish

Spec == Init /\ [][Next]_svars
=============================================================================
