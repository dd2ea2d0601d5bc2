--------------------------- MODULE MCStatusChecks ---------------------------
(* StatusChecks with the values of update_all_data_sources (a first delay of *)
(* 10 s, a factor of 1.5) and the default interval, 5 min, in 1/16 s: the    *)
(* shortest unit in which the delays of all the retries are whole.           *)
EXTENDS StatusChecks

CONSTANTS d1, d2
TwoSources == {d1, d2}

Seconds(n) == 16 * n
FiveMinutes == Seconds(300)
TenSeconds  == Seconds(10)
ElevenMinutes == Seconds(660)
UpTo20s     == {0, Seconds(20)}
=============================================================================
