------------------------------ MODULE LinkSpec ------------------------------
(***************************************************************************)
(* What one connection promises to its client, as a specification over     *)
(* the record of Link.  The peer and the network decide when an item       *)
(* arrives and when a write fails; the promise is about the rest:          *)
(*                                                                         *)
(*  - what is written is a prefix of what was accepted, in that order;     *)
(*  - items are handed over in the order of their arrival, none skipped;   *)
(*  - once the read half stops the write half stops, and once the client   *)
(*    drops its handles both stop.                                         *)
(*                                                                         *)
(* It does not promise that an accepted message is written.                *)
(***************************************************************************)
EXTENDS Link

VARIABLES
    link,       \* LinkState
    held        \* the client holds a handle

lvars == <<link, held>>

LInit == link = NewLink /\ held = TRUE

LAccept  == \E m \in Msg : CanAccept(link) /\ link' = Accept(link, m) /\ UNCHANGED held
LTake    == CanTake(link) /\ link' = Take(link) /\ UNCHANGED held
LDrop    == held /\ held' = FALSE /\ UNCHANGED link

LFetch   == CanFetch(link) /\ link' = Fetch(link) /\ UNCHANGED held
LWrite   == CanWrite(link) /\ link' = Write(link) /\ UNCHANGED held
LBreak   == CanBreak(link) /\ link' = Break(link) /\ UNCHANGED held
LClose   == CanClose(link) /\ link' = Close(link) /\ UNCHANGED held
LArrive  == \E i \in Item : CanArrive(link, held) /\ link' = Arrive(link, i) /\ UNCHANGED held
LPush    == CanPush(link) /\ link' = Push(link) /\ UNCHANGED held
LEnd     == CanEnd(link, held) /\ link' = End(link) /\ UNCHANGED held
LRefuse  == CanRefuse(link, held) /\ link' = End(link) /\ UNCHANGED held
LStop    == CanStop(link) /\ link' = End(link) /\ UNCHANGED held

LNext ==
    \/ LAccept \/ LTake \/ LDrop
    \/ LFetch \/ LWrite \/ LBreak \/ LClose \/ LArrive \/ LPush \/ LEnd
    \/ LRefuse \/ LStop

\* The fairness a client may rely on.
LFairness ==
    /\ WF_lvars(LFetch)
    /\ WF_lvars(link.busy # <<>> /\ (LWrite \/ LBreak))
    /\ WF_lvars(MustBreak(link, held) /\ LBreak)
    /\ WF_lvars(LClose)
    /\ WF_lvars(LPush)
    /\ WF_lvars(LEnd)

LSafety == LInit /\ [][LNext]_lvars
LSpec   == LSafety /\ LFairness
=============================================================================
