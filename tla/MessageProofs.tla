--------------------------- MODULE MessageProofs ---------------------------
(***************************************************************************)
(* The messages of ReconnectingWebSocket: none is written twice, and what  *)
(* becomes of each is what Delivery says, for any number of messages,      *)
(* connections, retries and faults.                                        *)
(***************************************************************************)
EXTENDS RWSProofs, SequenceTheorems

-----------------------------------------------------------------------------
(* Sequences that are emptied into one another.                            *)

\* f and g are the places before and after: p is emptied into q.
Emptied(f, g, p, q) ==
    /\ g[p] = <<>> /\ g[q] = f[q] \o f[p]
    /\ \A r \in DOMAIN f \ {p, q} : g[r] = f[r]

\* The element i of r was the element k of t.
Came(f, g, p, q, r, i, t, k) ==
    /\ t \in DOMAIN f /\ k \in DOMAIN f[t] /\ g[r][i] = f[t][k]
    /\ IF t = p THEN r = q /\ i = k + Len(f[q]) ELSE r = t /\ i = k

LEMMA Origin ==
    ASSUME NEW P, NEW S, NEW f \in [P -> Seq(S)], NEW g \in [P -> Seq(S)],
           NEW p \in P, NEW q \in P, p # q, Emptied(f, g, p, q),
           NEW r \in P, NEW i \in DOMAIN g[r]
    PROVE  \E t, k : Came(f, g, p, q, r, i, t, k)
<1> USE DEF Came
<1>1. r # p
  BY DEF Emptied
<1>2. CASE r # q
  BY <1>1, <1>2 DEF Emptied
<1>3. CASE r = q
  <2>1. f[q] \in Seq(S) /\ f[p] \in Seq(S) /\ g[q] = f[q] \o f[p]
    BY DEF Emptied
  <2>2. i \in 1..Len(f[q]) + Len(f[p])
    BY <1>3, <2>1
  <2>3. g[q][i] = IF i <= Len(f[q]) THEN f[q][i] ELSE f[p][i - Len(f[q])]
    BY <2>1, <2>2
  <2>4. CASE i <= Len(f[q])
    <3>1. i \in DOMAIN f[q] /\ g[r][i] = f[q][i]
      BY <1>3, <2>1, <2>2, <2>3, <2>4
    <3> QED
      BY <1>3, <3>1
  <2>5. CASE i > Len(f[q])
    <3>1. /\ i - Len(f[q]) \in DOMAIN f[p] /\ g[r][i] = f[p][i - Len(f[q])]
          /\ i = i - Len(f[q]) + Len(f[q])
      BY <1>3, <2>1, <2>2, <2>3, <2>5
    <3> QED
      BY <1>3, <3>1
  <2> QED
    BY <2>1, <2>2, <2>4, <2>5
<1> QED
  BY <1>2, <1>3

LEMMA Move ==
    ASSUME NEW P, NEW S, NEW f \in [P -> Seq(S)], NEW g \in [P -> Seq(S)],
           NEW p \in P, NEW q \in P, p # q, Emptied(f, g, p, q), Once(f)
    PROVE  Once(g)
<1> SUFFICES ASSUME NEW r \in P, NEW s \in P, NEW i \in DOMAIN g[r], NEW j \in DOMAIN g[s],
                    g[r][i] = g[s][j]
             PROVE  r = s /\ i = j
  BY DEF Once
<1>1. PICK t, k : Came(f, g, p, q, r, i, t, k)
  BY Origin
<1>2. PICK u, l : Came(f, g, p, q, s, j, u, l)
  BY Origin
<1>3. t = u /\ k = l
  <2>1. /\ t \in DOMAIN f /\ u \in DOMAIN f /\ k \in DOMAIN f[t] /\ l \in DOMAIN f[u]
        /\ f[t][k] = f[u][l]
    BY <1>1, <1>2 DEF Came
  <2>2. \A v \in DOMAIN f, w \in DOMAIN f : \A m \in DOMAIN f[v], n \in DOMAIN f[w] :
          f[v][m] = f[w][n] => v = w /\ m = n
    BY DEF Once
  <2> QED
    BY <2>1, <2>2
<1>4. CASE t = p
  BY <1>1, <1>2, <1>3, <1>4 DEF Came
<1>5. CASE t # p
  BY <1>1, <1>2, <1>3, <1>5 DEF Came
<1> QED
  BY <1>4, <1>5

\* A new element is put into an empty place.
NewAt(f, g, q, e) ==
    /\ g[q] = <<e>> /\ \A r \in DOMAIN f \ {q} : g[r] = f[r]
    /\ \A r \in DOMAIN f : \A i \in DOMAIN f[r] : f[r][i] # e

LEMMA Put ==
    ASSUME NEW P, NEW S, NEW f \in [P -> Seq(S)], NEW g \in [P -> Seq(S)],
           NEW q \in P, NEW e \in S, NewAt(f, g, q, e), Once(f)
    PROVE  Once(g)
<1> USE DEF NewAt
<1> SUFFICES ASSUME NEW r \in P, NEW s \in P, NEW i \in DOMAIN g[r], NEW j \in DOMAIN g[s],
                    g[r][i] = g[s][j]
             PROVE  r = s /\ i = j
  BY DEF Once
<1>1. CASE r = q \/ s = q
  <2>1. DOMAIN g[q] = {1} /\ g[q][1] = e
    OBVIOUS
  <2> QED
    BY <1>1, <2>1
<1>2. CASE r # q /\ s # q
  BY <1>2 DEF Once
<1> QED
  BY <1>1, <1>2

-----------------------------------------------------------------------------
USE MaxInIsNat, MaxConnIsPositive, MaxRetriesIsNat, MaxFaultsIsNat

LEMMA PlaceFacts ==
    /\ {<<"sending", 0>>, <<"outgoing", 0>>, <<"retry", 0>>} \subseteq Place
    /\ \A c \in Conn :
         {<<"whold", c>>, <<"out", c>>, <<"busy", c>>, <<"wire", c>>} \subseteq Place
    /\ \A p \in Place :
         \/ p \in {<<"sending", 0>>, <<"outgoing", 0>>, <<"retry", 0>>}
         \/ \E c \in Conn : p \in {<<"whold", c>>, <<"out", c>>, <<"busy", c>>, <<"wire", c>>}
<1>1. {<<"sending", 0>>, <<"outgoing", 0>>, <<"retry", 0>>} = {"sending", "outgoing", "retry"} \X {0}
  OBVIOUS
<1> QED
  BY DEF Place

LEMMA PlacesType == TypeOK => Places \in [Place -> Seq(Msg)]
<1> SUFFICES ASSUME TypeOK, NEW p \in Place PROVE Holds(p) \in Seq(Msg)
  BY DEF Places
<1>1. \A c \in Conn : /\ conn[c].out \in Seq(Msg) /\ conn[c].busy \in Seq(Msg)
                      /\ conn[c].wire \in Seq(Msg) /\ whold[c] \in Seq(Msg)
  BY DEF TypeOK, LinkState, SeqUpTo
<1>2. sending \in Seq(Msg) /\ outgoing \in Seq(Msg) /\ retry \in Seq(Msg)
  BY DEF TypeOK, SeqUpTo
<1> QED
  BY <1>1, <1>2, PlaceFacts DEF Holds

-----------------------------------------------------------------------------
(* Every step, by what it does to the messages.                            *)

\* A write loop that does not send or queue a message again has none, nor has
\* one that is not spawned yet.
Emptyhanded ==
    \A c \in Conn : /\ wpc[c] \notin {"sending", "requeue"} => whold[c] = <<>>
                    /\ c > nconn => wpc[c] = "idle"

\* A message that was not sent is nowhere.
Fresh == \A m \in unsent, p \in Place : ~Lying(m, p)

Messages == TypeInv /\ Emptyhanded /\ Fresh /\ AtMostOnce

Lies(p) == UNCHANGED Holds(p)

\* Nothing is moved.
Still == UNCHANGED unsent /\ \A p \in Place : Lies(p)

\* The connections that ended are the same, or one more ends.
SameEnds == \A c \in Conn : Ended(c)' = Ended(c)
OneEnds  == \A c \in Conn : Ended(c) => Ended(c)'

\* The message at p, which is not lost or written yet, goes to q: it is
\* written from the hands of its connection's write loop only.
Goes(p, q) ==
    /\ UNCHANGED unsent /\ p # q /\ FateAt(p) = "kept"
    /\ \E m \in Msg : Holds(p) = <<m>>
    /\ Holds(p)' = <<>> /\ Holds(q)' = Holds(q) \o Holds(p)
    /\ \A r \in Place \ {p, q} : Lies(r)
    /\ SameEnds

\* A message is sent: it is refused, or put where there is nothing.
Enters(m) ==
    /\ m \in unsent /\ unsent' = unsent \ {m} /\ SameEnds
    /\ \/ \A p \in Place : Lies(p)
       \/ \E q \in Place : /\ FateAt(q) = "kept"
                          /\ Holds(q) = <<>> /\ Holds(q)' = <<m>>
                          /\ \A p \in Place \ {q} : Lies(p)

MessageStep ==
    \/ Still /\ (SameEnds \/ OneEnds)
    \/ \E p, q \in Place : Goes(p, q)
    \/ \E m \in Msg : Enters(m)

\* A message goes nowhere unless it leaves a variable or a field it is in.
SameFields ==
    /\ UNCHANGED <<sending, outgoing, retry, whold>>
    /\ \A c \in Conn : /\ conn'[c].out = conn[c].out
                       /\ conn'[c].busy = conn[c].busy
                       /\ conn'[c].wire = conn[c].wire

LEMMA StillThere ==
    ASSUME UNCHANGED unsent, SameFields
    PROVE  Still
<1> SUFFICES ASSUME NEW p \in Place PROVE Holds(p)' = Holds(p)
  BY DEF Still, Lies
<1>1. CASE p \in {<<"sending", 0>>, <<"outgoing", 0>>, <<"retry", 0>>}
  BY <1>1 DEF SameFields, Holds
<1>2. ASSUME NEW c \in Conn, p \in {<<"whold", c>>, <<"out", c>>, <<"busy", c>>, <<"wire", c>>}
      PROVE  Holds(p)' = Holds(p)
  BY <1>2 DEF SameFields, Holds
<1> QED
  BY <1>1, <1>2, PlaceFacts

LEMMA OneMessage ==
    ASSUME NEW s \in SeqUpTo(Msg, 1), s # <<>>
    PROVE  \E m \in Msg : s = <<m>>
<1>1. s \in Seq(Msg) /\ s[1] \in Msg
  BY Element
<1>3. Len(s) = 1
  <2>1. Len(s) \in Nat /\ Len(s) # 0
    BY <1>1, EmptySeq
  <2>2. Len(s) <= 1
    BY DEF SeqUpTo
  <2>3. \A n \in Nat : n # 0 /\ n <= 1 => n = 1
    OBVIOUS
  <2> QED
    BY <2>1, <2>2, <2>3
<1>2. s = <<s[1]>>
  BY <1>1, <1>3
<1> QED
  BY <1>1, <1>2

LEMMA Sends ==
    ASSUME Messages, NEW m \in Msg, AppSend(m)
    PROVE  MessageStep
<1>1. m \in unsent /\ unsent' = unsent \ {m} /\ SameEnds
  BY DEF AppSend, links, SameEnds, Ended
<1>2. UNCHANGED <<retry, whold, conn>>
  BY DEF AppSend, links, wloops
<1>3. CASE UNCHANGED <<sending, outgoing>>
  <2>1. \A p \in Place : Lies(p)
    BY <1>2, <1>3, PlaceFacts DEF Lies, Holds
  <2> QED
    BY <1>1, <2>1 DEF MessageStep, Enters
<1>4. CASE outgoing = <<>> /\ outgoing' = <<m>> /\ UNCHANGED sending
  <2> DEFINE q == <<"outgoing", 0>>
  <2>1. q \in Place /\ FateAt(q) = "kept" /\ Holds(q) = <<>> /\ Holds(q)' = <<m>>
    BY <1>4, PlaceFacts DEF Holds, FateAt
  <2>2. \A p \in Place \ {q} : Lies(p)
    BY <1>2, <1>4, PlaceFacts DEF Lies, Holds
  <2> QED
    BY <1>1, <2>1, <2>2 DEF MessageStep, Enters
<1>5. CASE sending = <<>> /\ sending' = <<m>> /\ UNCHANGED outgoing
  <2> DEFINE q == <<"sending", 0>>
  <2>1. q \in Place /\ FateAt(q) = "kept" /\ Holds(q) = <<>> /\ Holds(q)' = <<m>>
    BY <1>5, PlaceFacts DEF Holds, FateAt
  <2>2. \A p \in Place \ {q} : Lies(p)
    BY <1>2, <1>5, PlaceFacts DEF Lies, Holds
  <2> QED
    BY <1>1, <2>1, <2>2 DEF MessageStep, Enters
<1> QED
  BY <1>3, <1>4, <1>5 DEF AppSend

\* send() puts its message into the channel; a write loop takes one out.
LEMMA Channels ==
    ASSUME Messages,
           \/ AppSendCompletes
           \/ \E c \in Conn : WTakeRetry(c) \/ WTake(c) \/ WRequeue(c)
    PROVE  MessageStep
<1>0. UNCHANGED <<unsent, conn>> /\ SameEnds
  BY DEF AppSendCompletes, WTakeRetry, WTake, WRequeue, WLeave, links, app, SameEnds, Ended
<1>1. CASE AppSendCompletes
  <2>1. Goes(<<"sending", 0>>, <<"outgoing", 0>>)
    <3>1. UNCHANGED <<retry, whold>> /\ outgoing = <<>> /\ outgoing' = sending /\ sending' = <<>>
      BY <1>1 DEF AppSendCompletes, wloops
    <3>2. \E m \in Msg : sending = <<m>>
      BY <1>1, OneMessage DEF AppSendCompletes, Messages, TypeInv, TypeOK
    <3> QED
      BY <1>0, <3>1, <3>2, PlaceFacts DEF Goes, Lies, Holds, FateAt
  <2> QED
    BY <2>1, PlaceFacts DEF MessageStep
<1>2. ASSUME NEW c \in Conn, WTakeRetry(c) PROVE MessageStep
  <2>1. Goes(<<"retry", 0>>, <<"whold", c>>)
    <3>0. wpc[c] = "select" => whold[c] = <<>>
      BY DEF Messages, Emptyhanded
    <3>1. /\ UNCHANGED <<sending, outgoing>> /\ whold[c] = <<>> /\ retry' = <<>>
          /\ whold'[c] = retry /\ \A d \in Conn \ {c} : whold'[d] = whold[d]
      BY <1>2, <3>0 DEF WTakeRetry, WSelect, app, Messages, TypeInv, TypeOK
    <3>2. PICK m \in Msg : retry = <<m>>
      BY <1>2, OneMessage DEF WTakeRetry, Messages, TypeInv, TypeOK
    <3>3. <<m>> = <<>> \o <<m>>
      OBVIOUS
    <3>4. /\ Holds(<<"retry", 0>>) = <<m>> /\ Holds(<<"retry", 0>>)' = <<>>
          /\ Holds(<<"whold", c>>) = <<>> /\ Holds(<<"whold", c>>)' = <<m>>
      BY <3>1, <3>2 DEF Holds
    <3>5. \A r \in Place \ {<<"retry", 0>>, <<"whold", c>>} : Lies(r)
      BY <1>0, <3>1, PlaceFacts DEF Lies, Holds
    <3> QED
      BY <1>0, <3>3, <3>4, <3>5 DEF Goes, FateAt
  <2> QED
    BY <2>1, PlaceFacts DEF MessageStep
<1>3. ASSUME NEW c \in Conn, WTake(c) PROVE MessageStep
  <2>1. Goes(<<"outgoing", 0>>, <<"whold", c>>)
    <3>0. wpc[c] = "select" => whold[c] = <<>>
      BY DEF Messages, Emptyhanded
    <3>1. /\ UNCHANGED <<sending, retry>> /\ whold[c] = <<>> /\ outgoing' = <<>>
          /\ whold'[c] = outgoing /\ \A d \in Conn \ {c} : whold'[d] = whold[d]
      BY <1>3, <3>0 DEF WTake, WSelect, app, Messages, TypeInv, TypeOK
    <3>2. PICK m \in Msg : outgoing = <<m>>
      BY <1>3, OneMessage DEF WTake, Messages, TypeInv, TypeOK
    <3>3. <<m>> = <<>> \o <<m>>
      OBVIOUS
    <3>4. /\ Holds(<<"outgoing", 0>>) = <<m>> /\ Holds(<<"outgoing", 0>>)' = <<>>
          /\ Holds(<<"whold", c>>) = <<>> /\ Holds(<<"whold", c>>)' = <<m>>
      BY <3>1, <3>2 DEF Holds
    <3>5. \A r \in Place \ {<<"outgoing", 0>>, <<"whold", c>>} : Lies(r)
      BY <1>0, <3>1, PlaceFacts DEF Lies, Holds
    <3> QED
      BY <1>0, <3>3, <3>4, <3>5 DEF Goes, FateAt
  <2> QED
    BY <2>1, PlaceFacts DEF MessageStep
<1>4. ASSUME NEW c \in Conn, WRequeue(c) PROVE MessageStep
  <2>1. Goes(<<"whold", c>>, <<"retry", 0>>)
    <3>1. /\ UNCHANGED <<sending, outgoing>> /\ retry = <<>> /\ retry' = whold[c]
          /\ whold'[c] = <<>> /\ \A d \in Conn \ {c} : whold'[d] = whold[d]
      BY <1>4 DEF WRequeue, WLeave, app, Messages, TypeInv, TypeOK
    <3>2. \E m \in Msg : whold[c] = <<m>>
      BY <1>4, OneMessage DEF WRequeue, Messages, TypeInv, TypeOK, Holding
    <3> QED
      BY <1>0, <3>1, <3>2, PlaceFacts DEF Goes, Lies, Holds, FateAt
  <2> QED
    BY <2>1, PlaceFacts DEF MessageStep
<1> QED
  BY <1>1, <1>2, <1>3, <1>4

\* What a connection does with its own fields.
LinkFields(c, l) ==
    /\ conn' = [conn EXCEPT ![c] = l]
    /\ UNCHANGED <<unsent, sending, outgoing, retry, whold>>

\* A step that does not touch the messages of a connection.
LEMMA LinkKeeps ==
    ASSUME Messages, NEW c \in Conn, NEW l, LinkFields(c, l),
           l.out = conn[c].out, l.busy = conn[c].busy, l.wire = conn[c].wire,
           Ended(c) => l.phase # "open"
    PROVE  MessageStep
<1>1. \A d \in Conn : conn'[d] = IF d = c THEN l ELSE conn[d]
  BY DEF LinkFields, Messages, TypeInv, TypeOK
<1>2. SameFields
  BY <1>1 DEF LinkFields, SameFields
<1>3. OneEnds
  BY <1>1 DEF OneEnds, Ended
<1> QED
  BY <1>2, <1>3, StillThere DEF MessageStep, LinkFields

\* A message goes from the hands of a write loop into the channel of its
\* connection, from there into the hands of the inner write loop and from
\* there to the socket.
LEMMA Accepts ==
    ASSUME Messages, NEW c \in Conn, WSend(c)
    PROVE  MessageStep
<1>1. PICK m \in Msg : whold[c] = <<m>>
  BY OneMessage DEF WSend, Messages, TypeInv, TypeOK, Holding
<1>2. /\ conn' = [conn EXCEPT ![c] = Accept(conn[c], m)] /\ conn[c].out = <<>>
      /\ whold' = [whold EXCEPT ![c] = <<>>]
      /\ UNCHANGED <<unsent, sending, outgoing, retry>>
  BY <1>1 DEF WSend, CanAccept, app, queues
<1>3. /\ conn'[c].out = <<m>> /\ conn'[c].busy = conn[c].busy
      /\ conn'[c].wire = conn[c].wire /\ conn'[c].phase = conn[c].phase
      /\ \A d \in Conn \ {c} : conn'[d] = conn[d]
      /\ whold'[c] = <<>> /\ \A d \in Conn \ {c} : whold'[d] = whold[d]
  BY <1>2 DEF Accept, Messages, TypeInv, TypeOK, LinkState
<1>4. SameEnds
  BY <1>3 DEF SameEnds, Ended
<1>5. /\ Holds(<<"whold", c>>) = <<m>> /\ Holds(<<"whold", c>>)' = <<>>
      /\ Holds(<<"out", c>>) = <<>> /\ Holds(<<"out", c>>)' = <<m>>
  BY <1>1, <1>2, <1>3 DEF Holds
<1>6. \A r \in Place \ {<<"whold", c>>, <<"out", c>>} : Lies(r)
  BY <1>2, <1>3, PlaceFacts DEF Lies, Holds
<1>7. Goes(<<"whold", c>>, <<"out", c>>)
  BY <1>2, <1>4, <1>5, <1>6 DEF Goes, FateAt
<1> QED
  BY <1>7, PlaceFacts DEF MessageStep

LEMMA Fetches ==
    ASSUME Messages, NEW c \in Conn, LinkFetch(c)
    PROVE  MessageStep
<1>1. PICK m \in Msg : conn[c].out = <<m>>
  BY OneMessage DEF LinkFetch, CanFetch, Messages, TypeInv, TypeOK, LinkState
<1>2. /\ conn' = [conn EXCEPT ![c] = Fetch(conn[c])] /\ conn[c].busy = <<>>
      /\ conn[c].phase = "open"
      /\ UNCHANGED <<unsent, sending, outgoing, retry, whold>>
  BY <1>1 DEF LinkFetch, LinkStep, CanFetch, app, queues, wloops
<1>3. /\ conn'[c].out = <<>> /\ conn'[c].busy = <<m>>
      /\ conn'[c].wire = conn[c].wire /\ conn'[c].phase = conn[c].phase
      /\ \A d \in Conn \ {c} : conn'[d] = conn[d]
  BY <1>1, <1>2 DEF Fetch, Messages, TypeInv, TypeOK, LinkState
<1>4. SameEnds
  BY <1>3 DEF SameEnds, Ended
<1>5. /\ Holds(<<"out", c>>) = <<m>> /\ Holds(<<"out", c>>)' = <<>>
      /\ Holds(<<"busy", c>>) = <<>> /\ Holds(<<"busy", c>>)' = <<m>>
  BY <1>1, <1>2, <1>3 DEF Holds
<1>6. \A r \in Place \ {<<"out", c>>, <<"busy", c>>} : Lies(r)
  BY <1>2, <1>3, PlaceFacts DEF Lies, Holds
<1>7. Goes(<<"out", c>>, <<"busy", c>>)
  BY <1>2, <1>4, <1>5, <1>6 DEF Goes, FateAt, Ended
<1> QED
  BY <1>7, PlaceFacts DEF MessageStep

LEMMA Writes ==
    ASSUME Messages, NEW c \in Conn, LinkWrite(c)
    PROVE  MessageStep
<1>1. PICK m \in Msg : conn[c].busy = <<m>>
  BY OneMessage DEF LinkWrite, CanWrite, Messages, TypeInv, TypeOK, LinkState
<1>2. /\ conn' = [conn EXCEPT ![c] = Write(conn[c])] /\ conn[c].phase = "open"
      /\ UNCHANGED <<unsent, sending, outgoing, retry, whold>>
  BY <1>1 DEF LinkWrite, LinkStep, CanWrite, app, queues, wloops
<1>3. /\ conn'[c].busy = <<>> /\ conn'[c].wire = conn[c].wire \o <<m>>
      /\ conn'[c].out = conn[c].out /\ conn'[c].phase = conn[c].phase
      /\ \A d \in Conn \ {c} : conn'[d] = conn[d]
  BY <1>1, <1>2 DEF Write, Messages, TypeInv, TypeOK, LinkState
<1>4. SameEnds
  BY <1>3 DEF SameEnds, Ended
<1>5. /\ Holds(<<"busy", c>>) = <<m>> /\ Holds(<<"busy", c>>)' = <<>>
      /\ Holds(<<"wire", c>>)' = Holds(<<"wire", c>>) \o <<m>>
  BY <1>1, <1>2, <1>3 DEF Holds
<1>6. \A r \in Place \ {<<"busy", c>>, <<"wire", c>>} : Lies(r)
  BY <1>2, <1>3, PlaceFacts DEF Lies, Holds
<1>7. Goes(<<"busy", c>>, <<"wire", c>>)
  BY <1>2, <1>4, <1>5, <1>6 DEF Goes, FateAt, Ended
<1> QED
  BY <1>7, PlaceFacts DEF MessageStep

LEMMA LinksMove ==
    ASSUME Messages, NEW c \in Conn, LinkSteps(c)
    PROVE  MessageStep
<1> USE DEF LinkStep, LinkFields, app, queues, wloops
<1>0. conn[c] \in LinkState
  BY DEF Messages, TypeInv, TypeOK
<1>1. CASE LinkFetch(c)
  BY <1>1, Fetches
<1>2. CASE LinkWrite(c)
  BY <1>2, Writes
<1>3. CASE LinkFault(c) \/ LinkBreak(c)
  <2>1. LinkFields(c, Break(conn[c]))
    BY <1>3 DEF LinkFault, LinkBreak
  <2> QED
    BY <1>0, <2>1, LinkKeeps DEF Break, LinkState
<1>4. CASE LinkClose(c)
  <2>1. LinkFields(c, Close(conn[c]))
    BY <1>4 DEF LinkClose
  <2> QED
    BY <1>0, <2>1, LinkKeeps DEF Close, LinkState
<1>5. CASE LinkPush(c)
  <2>1. LinkFields(c, Push(conn[c]))
    BY <1>5 DEF LinkPush
  <2> QED
    BY <1>0, <2>1, LinkKeeps DEF Push, LinkState, Ended
<1>6. CASE LinkEnd(c) \/ LinkRefuse(c)
  <2>1. LinkFields(c, End(conn[c]))
    BY <1>6 DEF LinkEnd, LinkRefuse
  <2> QED
    BY <1>0, <2>1, LinkKeeps DEF End, LinkState, Ended
<1>7. ASSUME NEW kind \in Arriving, LinkArrive(c, kind) PROVE MessageStep
  <2> DEFINE i == [kind |-> kind, id |-> arrived + 1]
  <2>1. LinkFields(c, Arrive(conn[c], i))
    BY <1>7 DEF LinkArrive
  <2> HIDE DEF i
  <2> QED
    BY <1>0, <2>1, LinkKeeps DEF Arrive, LinkState, Ended
<1> QED
  BY <1>1, <1>2, <1>3, <1>4, <1>5, <1>6, <1>7 DEF LinkSteps

LEMMA LoopsMove ==
    ASSUME Messages, NEW c \in Conn, ReadLoop(c) \/ WriteLoop(c)
    PROVE  MessageStep
<1>0. conn[c] \in LinkState
  BY DEF Messages, TypeInv, TypeOK
<1>1. CASE WTakeRetry(c) \/ WTake(c) \/ WRequeue(c)
  BY <1>1, Channels
<1>2. CASE WSend(c)
  BY <1>2, Accepts
<1>3. CASE RItem(c) \/ RCloseFrame(c)
  <2>1. LinkFields(c, Take(conn[c]))
    BY <1>3 DEF RItem, RCloseFrame, RLeave, LinkFields, app, queues, wloops
  <2> QED
    BY <1>0, <2>1, LinkKeeps DEF Take, LinkState, Ended
<1>4. CASE \/ RStart(c) \/ RForward(c) \/ RForwardError(c) \/ REnd(c) \/ RDisconnected(c)
           \/ RNotDisconnected(c) \/ RClosed(c) \/ RWait(c)
           \/ WSendError(c) \/ WStop(c) \/ WNotDisconnected(c) \/ WWait(c)
  <2>1. UNCHANGED <<unsent, sending, outgoing, retry, whold, conn>>
    BY <1>4 DEF RStart, RForward, RForwardError, REnd, RDisconnected, RNotDisconnected, RClosed,
                RWait, RLeave, WSendError, WStop, WNotDisconnected, WWait, WLeave,
                app, queues, links, wloops
  <2>2. SameFields /\ SameEnds
    BY <2>1 DEF SameFields, SameEnds, Ended
  <2> QED
    BY <2>1, <2>2, StillThere DEF MessageStep
<1> QED
  BY <1>1, <1>2, <1>3, <1>4 DEF ReadLoop, WriteLoop

LEMMA StepsOfMessages == Messages /\ [Next]_vars => MessageStep
<1> SUFFICES ASSUME Messages, [Next]_vars PROVE MessageStep
  OBVIOUS
<1>1. ASSUME NEW m \in Msg, AppSend(m) PROVE MessageStep
  BY <1>1, Sends
<1>2. CASE AppSendCompletes
  BY <1>2, Channels
<1>3. CASE \/ AppRecv \/ AppRecvNone \/ AppClose \/ AppDrop
           \/ \E t \in Task : Connect(t)
           \/ UNCHANGED vars
  <2>1. UNCHANGED <<unsent, sending, outgoing, retry, whold, conn>>
    BY <1>3 DEF AppRecv, AppRecvNone, AppClose, AppDrop, Connect, Dial, ConnectOk, ConnectFail,
                BackoffOver, vars, app, queues, links, wloops
  <2>2. SameFields /\ SameEnds
    BY <2>1 DEF SameFields, SameEnds, Ended
  <2> QED
    BY <2>1, <2>2, StillThere DEF MessageStep
<1> QED
  BY <1>1, <1>2, <1>3, LoopsMove, LinksMove, SMTT(20) DEF Next, App

LEMMA MessagesInit == Init => Messages
<1> SUFFICES ASSUME Init PROVE Messages
  OBVIOUS
<1>1. \A p \in Place : Holds(p) = <<>>
  BY PlaceFacts DEF Init, Holds, NewLink
<1>2. Fresh /\ AtMostOnce
  BY <1>1 DEF Fresh, Lying, ToSet, AtMostOnce, Once, Places
<1>3. Emptyhanded
  BY DEF Init, Emptyhanded
<1> QED
  BY <1>2, <1>3, TypeInit DEF Messages

-----------------------------------------------------------------------------
(* No message is written twice.                                            *)

LEMMA EmptyhandedNext == Messages /\ [Next]_vars => Emptyhanded'
<1> SUFFICES ASSUME Messages, [Next]_vars PROVE Emptyhanded'
  OBVIOUS
<1> USE DEF Messages, TypeInv, TypeOK
<1>1. CASE UNCHANGED <<wpc, whold, nconn>>
  BY <1>1 DEF Emptyhanded
<1>2. ASSUME NEW t \in Task, ConnectOk(t) PROVE Emptyhanded'
  <2>1. nconn + 1 \in Conn /\ nconn' = nconn + 1 /\ UNCHANGED whold
    BY <1>2, TaskFacts DEF ConnectOk
  <2>2. \A c \in Conn : wpc'[c] = IF c = nconn + 1 THEN "select" ELSE wpc[c]
    BY <1>2 DEF ConnectOk
  <2>3. nconn + 1 > nconn /\ \A c \in Conn : c > nconn + 1 => c > nconn /\ c # nconn + 1
    BY TaskFacts
  <2>4. whold[nconn + 1] = <<>>
    BY <2>1, <2>3 DEF Emptyhanded
  <2> QED
    BY <2>1, <2>2, <2>3, <2>4 DEF Emptyhanded
<1>3. ASSUME NEW c \in Conn, wpc[c] # "idle", UNCHANGED nconn,
             \A d \in Conn \ {c} : wpc'[d] = wpc[d] /\ whold'[d] = whold[d],
             wpc'[c] \in {"sending", "requeue"} \/ whold'[c] = <<>>
      PROVE  Emptyhanded'
  BY <1>3 DEF Emptyhanded
<1>4. ASSUME NEW c \in Conn, WriteLoop(c) PROVE Emptyhanded'
  <2>1. CASE WTakeRetry(c) \/ WTake(c) \/ WSend(c) \/ WSendError(c) \/ WRequeue(c)
    BY <1>3, <2>1 DEF WTakeRetry, WTake, WSelect, WSend, WSendError, WRequeue, WLeave, links
  <2>2. CASE WStop(c)
    <3>1. whold'[c] = <<>>
      BY <2>2 DEF WStop, WIdle, WSelect, Emptyhanded
    <3> QED
      BY <1>3, <2>2, <3>1 DEF WStop, WIdle, WSelect, WLeave, links
  <2>3. CASE WNotDisconnected(c) \/ WWait(c)
    BY <1>1, <2>3 DEF WNotDisconnected, WWait, wloops, links
  <2> QED
    BY <1>4, <2>1, <2>2, <2>3 DEF WriteLoop
<1>5. ASSUME NEW t \in Task, Connect(t), ~ConnectOk(t) PROVE Emptyhanded'
  BY <1>1, <1>5 DEF Connect, Dial, ConnectFail, BackoffOver, wloops, links
<1>6. CASE App
  BY <1>1, <1>6 DEF App, AppSend, AppSendCompletes, AppRecv, AppRecvNone, AppClose, AppDrop,
                    wloops, links
<1>7. ASSUME NEW c \in Conn, ReadLoop(c) PROVE Emptyhanded'
  BY <1>1, <1>7 DEF ReadLoop, RStart, RItem, RCloseFrame, RForward, RForwardError, REnd,
                    RDisconnected, RNotDisconnected, RClosed, RWait, RLeave, wloops, links
<1>8. ASSUME NEW c \in Conn, LinkSteps(c) PROVE Emptyhanded'
  BY <1>1, <1>8 DEF LinkSteps, LinkFetch, LinkWrite, LinkFault, LinkBreak, LinkClose, LinkPush,
                    LinkEnd, LinkRefuse, LinkArrive, LinkStep, wloops
<1>9. CASE UNCHANGED vars
  BY <1>1, <1>9 DEF vars, wloops, links
<1> QED
  BY <1>2, <1>4, <1>5, <1>6, <1>7, <1>8, <1>9 DEF Next

LEMMA Concatenated ==
    ASSUME NEW S, NEW s \in Seq(S), NEW t \in Seq(S), NEW e
    PROVE  e \in ToSet(s \o t) <=> e \in ToSet(s) \/ e \in ToSet(t)
<1> DEFINE u == s \o t
<1>1. /\ u \in Seq(S) /\ Len(u) = Len(s) + Len(t)
      /\ \A i \in 1..Len(u) : u[i] = IF i <= Len(s) THEN s[i] ELSE t[i - Len(s)]
  OBVIOUS
<1>2. ASSUME e \in ToSet(u) PROVE e \in ToSet(s) \/ e \in ToSet(t)
  <2>1. PICK i \in 1..Len(u) : u[i] = e
    BY <1>1, <1>2 DEF ToSet
  <2>2. IF i <= Len(s) THEN i \in DOMAIN s /\ s[i] = e
                       ELSE i - Len(s) \in DOMAIN t /\ t[i - Len(s)] = e
    BY <1>1, <2>1
  <2> QED
    BY <2>2 DEF ToSet
<1>3. ASSUME e \in ToSet(s) PROVE e \in ToSet(u)
  <2>1. PICK i \in DOMAIN s : s[i] = e
    BY <1>3 DEF ToSet
  <2>2. i \in DOMAIN u /\ u[i] = e
    BY <1>1, <2>1
  <2> QED
    BY <2>2 DEF ToSet
<1>4. ASSUME e \in ToSet(t) PROVE e \in ToSet(u)
  <2>1. PICK i \in DOMAIN t : t[i] = e
    BY <1>4 DEF ToSet
  <2>2. i + Len(s) \in DOMAIN u /\ u[i + Len(s)] = e
    BY <1>1, <2>1
  <2> QED
    BY <2>2 DEF ToSet
<1> QED
  BY <1>2, <1>3, <1>4

LEMMA Alone == \A m : ToSet(<<>>) = {} /\ ToSet(<<m>>) = {m}
BY DEF ToSet

\* Where a message lies after it went from p to q.
LEMMA LiesNow ==
    ASSUME Messages, NEW p \in Place, NEW q \in Place, Goes(p, q), NEW m
    PROVE  /\ ~Lying(m, p)' /\ (Lying(m, q)' <=> Lying(m, q) \/ Lying(m, p))
           /\ \A r \in Place \ {p, q} : Lying(m, r)' <=> Lying(m, r)
<1>1. Holds(p) \in Seq(Msg) /\ Holds(q) \in Seq(Msg)
  BY PlacesType DEF Messages, TypeInv, Places
<1>2. ~Lying(m, p)'
  BY Alone DEF Goes, Lying
<1>3. Lying(m, q)' <=> m \in ToSet(Holds(q) \o Holds(p))
  BY DEF Goes, Lying
<1>4. Lying(m, q)' <=> Lying(m, q) \/ Lying(m, p)
  BY <1>1, <1>3, Concatenated DEF Lying
<1>5. \A r \in Place \ {p, q} : Lying(m, r)' <=> Lying(m, r)
  BY DEF Goes, Lying, Lies
<1> QED
  BY <1>2, <1>4, <1>5

LEMMA FreshNext ==
    ASSUME Messages, MessageStep
    PROVE  Fresh'
<1>1. CASE Still
  BY <1>1 DEF Messages, Still, Lies, Fresh, Lying
<1>2. ASSUME NEW p \in Place, NEW q \in Place, Goes(p, q) PROVE Fresh'
  <2>1. UNCHANGED unsent
    BY <1>2 DEF Goes
  <2>2. ASSUME NEW m \in unsent, NEW r \in Place PROVE ~Lying(m, r)'
    BY <1>2, LiesNow DEF Messages, Fresh
  <2> QED
    BY <2>1, <2>2 DEF Fresh
<1>3. ASSUME NEW m \in Msg, Enters(m) PROVE Fresh'
  <2>1. \A p \in Place : Lies(p) \/ Holds(p)' = <<m>>
    BY <1>3 DEF Enters
  <2>2. ASSUME NEW n \in unsent', NEW p \in Place PROVE ~Lying(n, p)'
    <3>1. n \in unsent /\ n # m
      BY <1>3 DEF Enters
    <3> QED
      BY <2>1, <3>1, Alone DEF Messages, Fresh, Lying, Lies
  <2> QED
    BY <2>2 DEF Fresh
<1> QED
  BY <1>1, <1>2, <1>3 DEF MessageStep

LEMMA OnceNext ==
    ASSUME Messages, TypeOK', MessageStep
    PROVE  AtMostOnce'
<1> DEFINE f == Places  g == Places'
<1>1. f \in [Place -> Seq(Msg)] /\ g \in [Place -> Seq(Msg)]
  <2>1. TypeOK' => (Places \in [Place -> Seq(Msg)])'
    BY PlacesType, PTL
  <2> QED
    BY <2>1, PlacesType DEF Messages, TypeInv
<1>2. \A p \in Place : f[p] = Holds(p) /\ g[p] = Holds(p)'
  BY DEF Places
<1>3. Once(f)
  BY DEF Messages, AtMostOnce
<1> HIDE DEF f, g
<1>4. CASE Still
  <2>1. g = f
    BY <1>1, <1>2, <1>4 DEF Still, Lies
  <2> QED
    BY <1>3, <2>1 DEF f, g, AtMostOnce
<1>5. ASSUME NEW p \in Place, NEW q \in Place, Goes(p, q) PROVE Once(g)
  <2>1. p # q /\ Emptied(f, g, p, q)
    BY <1>1, <1>2, <1>5 DEF Goes, Emptied, Lies
  <2> QED
    BY <1>1, <1>3, <2>1, Move
<1>6. ASSUME NEW m \in Msg, Enters(m) PROVE Once(g)
  <2>1. CASE \A p \in Place : Lies(p)
    <3>1. g = f
      BY <1>1, <1>2, <2>1 DEF Lies
    <3> QED
      BY <1>3, <3>1
  <2>2. ASSUME NEW q \in Place, Holds(q)' = <<m>>, \A p \in Place \ {q} : Lies(p)
        PROVE  Once(g)
    <3>1. g[q] = <<m>> /\ \A r \in DOMAIN f \ {q} : g[r] = f[r]
      BY <1>1, <1>2, <2>2 DEF Lies
    <3>2. \A r \in DOMAIN f : \A i \in DOMAIN f[r] : f[r][i] # m
      BY <1>1, <1>2, <1>6 DEF Enters, Messages, Fresh, Lying, ToSet
    <3>3. NewAt(f, g, q, m)
      BY <3>1, <3>2 DEF NewAt
    <3> QED
      BY <1>1, <1>3, <3>3, Put
  <2> QED
    BY <1>6, <2>1, <2>2 DEF Enters
<1>7. CASE Once(g)
  BY <1>7 DEF AtMostOnce, g
<1> QED
  BY <1>4, <1>5, <1>6, <1>7 DEF MessageStep

LEMMA MessagesNext == Messages /\ [Next]_vars => Messages'
<1> SUFFICES ASSUME Messages, [Next]_vars PROVE Messages'
  OBVIOUS
<1>1. TypeInv'
  BY TypeNext DEF Messages
<1>2. MessageStep /\ Emptyhanded'
  BY StepsOfMessages, EmptyhandedNext
<1> QED
  BY <1>1, <1>2, FreshNext, OnceNext DEF Messages, TypeInv

LEMMA MessagesAlways == SafeSpec => []Messages
BY MessagesInit, MessagesNext, PTL DEF SafeSpec

\* A message is in one place, once, from send() to the socket: whatever loop
\* takes it, gives it back or queues it for another connection, it is written
\* at most once (write loop, 357-384; send, 180-191).
THEOREM WrittenOnce == SafeSpec => []AtMostOnce
BY MessagesAlways, PTL DEF Messages

-----------------------------------------------------------------------------
(* What becomes of a message.                                              *)

\* The place a message lies at is the only one, so Fate looks there.
LEMMA FateThere ==
    AtMostOnce => \A m \in Msg \ unsent, p \in Place : Lying(m, p) => Fate(m) = FateAt(p)
<1> SUFFICES ASSUME AtMostOnce, NEW m \in Msg \ unsent, NEW p \in Place, Lying(m, p)
             PROVE  Fate(m) = FateAt(p)
  OBVIOUS
<1>1. ASSUME NEW q \in Place, Lying(m, q) PROVE q = p
  <2>1. PICK i \in DOMAIN Places[p] : Places[p][i] = m
    BY DEF Lying, ToSet, Places
  <2>2. PICK j \in DOMAIN Places[q] : Places[q][j] = m
    BY <1>1 DEF Lying, ToSet, Places
  <2>3. \A r, s \in Place : \A k \in DOMAIN Places[r], l \in DOMAIN Places[s] :
          Places[r][k] = Places[s][l] => r = s
    BY DEF AtMostOnce, Once, Places
  <2> QED
    BY <2>1, <2>2, <2>3
<1>2. (CHOOSE q \in Place : Lying(m, q)) = p
  BY <1>1
<1> QED
  BY <1>2 DEF Fate

LEMMA FateThereNext ==
    (AtMostOnce => \A m \in Msg \ unsent, p \in Place : Lying(m, p) => Fate(m) = FateAt(p))'
BY FateThere, PTL

LEMMA FateStays ==
    ASSUME SameEnds, NEW p \in Place
    PROVE  FateAt(p)' = FateAt(p)
<1>1. CASE p[1] \in {"out", "busy"}
  <2>1. p[2] \in Conn
    BY <1>1 DEF Place
  <2> QED
    BY <2>1 DEF FateAt, SameEnds
<1>2. CASE p[1] \notin {"out", "busy"}
  BY <1>2 DEF FateAt
<1> QED
  BY <1>1, <1>2

\* A message that a step does not move has the fate it had.
LEMMA SameFate ==
    ASSUME Messages, Messages', SameEnds, NEW m \in Msg, m \in unsent' <=> m \in unsent,
           \A p \in Place : Lying(m, p)' <=> Lying(m, p)
    PROVE  Fate(m)' = Fate(m)
<1>1. CASE m \in unsent
  BY <1>1 DEF Fate
<1>2. CASE m \notin unsent /\ \A p \in Place : ~Lying(m, p)
  BY <1>2 DEF Fate
<1>3. ASSUME m \notin unsent, NEW p \in Place, Lying(m, p) PROVE Fate(m)' = Fate(m)
  <2>1. Fate(m) = FateAt(p)
    BY <1>3, FateThere DEF Messages
  <2>2. Fate(m)' = FateAt(p)'
    BY <1>3, FateThereNext DEF Messages
  <2> QED
    BY <2>1, <2>2, FateStays
<1> QED
  BY <1>1, <1>2, <1>3

\* When a connection ends, what it had accepted is lost.
LEMMA EndsLose ==
    ASSUME Messages, Messages', Still, OneEnds, NEW m \in Msg, Fate(m)' # Fate(m)
    PROVE  Fate(m) = "kept" /\ Fate(m)' = "lost" /\ \E c \in Conn : Ended(c)'
<1>1. (m \in unsent' <=> m \in unsent) /\ \A p \in Place : Lying(m, p)' <=> Lying(m, p)
  BY DEF Still, Lies, Lying
<1>2. m \notin unsent /\ \E p \in Place : Lying(m, p)
  BY <1>1 DEF Fate
<1>3. PICK p \in Place : Lying(m, p)
  BY <1>2
<1>4. Fate(m) = FateAt(p)
  BY <1>2, <1>3, FateThere DEF Messages
<1>5. Fate(m)' = FateAt(p)'
  BY <1>1, <1>2, <1>3, FateThereNext DEF Messages
<1>6. CASE p[1] \in {"out", "busy"}
  <2>1. p[2] \in Conn
    BY <1>6 DEF Place
  <2> QED
    BY <1>4, <1>5, <1>6, <2>1 DEF FateAt, OneEnds
<1>7. CASE p[1] \notin {"out", "busy"}
  BY <1>4, <1>5, <1>7 DEF FateAt
<1> QED
  BY <1>6, <1>7

LEMMA DeliveryInit == Init => Letters!Init
<1> SUFFICES ASSUME Init PROVE Letters!Init
  OBVIOUS
<1>1. \A m \in Msg : Fate(m) = "unsent"
  BY DEF Init, Fate
<1>2. {c \in Conn : Ended(c)} = {}
  BY DEF Init, Ended, NewLink
<1> QED
  BY <1>1, <1>2 DEF Letters!Init

\* The steps of Delivery, in terms of Fate.
Ends == {c \in Conn : Ended(c)}
Become(S, f) == \A m \in Msg : Fate(m)' = IF m \in S THEN f ELSE Fate(m)

LEMMA Stutters ==
    ASSUME Ends' = Ends, Become({}, "kept")
    PROVE  [Letters!Next]_(Letters!dvars)
BY DEF Letters!dvars, Ends, Become

LEMMA Loses ==
    ASSUME NEW S \in SUBSET Msg, Become(S, "lost"), \A m \in S : Fate(m) = "kept",
           Ends \subseteq Ends', Ends' # {}
    PROVE  [Letters!Next]_(Letters!dvars)
<1>1. Letters!Lose(S)
  BY DEF Letters!Lose, Letters!With, Letters!Becomes, Ends, Become
<1> QED
  BY <1>1 DEF Letters!Next

LEMMA Turns ==
    ASSUME NEW m \in Msg, NEW f, Become({m}, f), Ends' = Ends,
           \/ Fate(m) = "unsent" /\ f \in {"kept", "refused"}
           \/ Fate(m) = "kept" /\ f = "written"
    PROVE  [Letters!Next]_(Letters!dvars)
<1>1. Letters!Keep(m) \/ Letters!Refuse(m) \/ Letters!Write(m)
  BY DEF Letters!Keep, Letters!Refuse, Letters!Write, Letters!With, Letters!Becomes, Ends, Become
<1> QED
  BY <1>1 DEF Letters!Next

LEMMA DeliveryNext == Messages /\ Messages' /\ [Next]_vars => [Letters!Next]_(Letters!dvars)
<1> SUFFICES ASSUME Messages, Messages', MessageStep PROVE [Letters!Next]_(Letters!dvars)
  BY StepsOfMessages
<1>1. SameEnds => Ends' = Ends
  BY DEF SameEnds, Ends
<1>2. CASE Still /\ SameEnds
  <2>1. \A m \in Msg : Fate(m)' = Fate(m)
    BY <1>2, SameFate DEF Still, Lies, Lying
  <2> QED
    BY <1>1, <1>2, <2>1, Stutters DEF Become
<1>3. CASE Still /\ OneEnds
  <2> DEFINE S == {m \in Msg : Fate(m)' # Fate(m)}
  <2>1. \A m \in S : Fate(m) = "kept" /\ Fate(m)' = "lost" /\ Ends' # {}
    BY <1>3, EndsLose DEF Ends
  <2>2. Ends \subseteq Ends'
    BY <1>3 DEF OneEnds, Ends
  <2>3. CASE Ends' # {}
    <3>1. S \in SUBSET Msg /\ Become(S, "lost")
      BY <2>1 DEF Become
    <3> HIDE DEF S
    <3> QED
      BY <2>1, <2>2, <2>3, <3>1, Loses
  <2>4. CASE Ends' = {}
    <3>1. Ends' = Ends /\ S = {}
      BY <2>1, <2>2, <2>4
    <3>2. Become({}, "kept")
      BY <3>1 DEF Become
    <3> QED
      BY <3>1, <3>2, Stutters
  <2> QED
    BY <2>3, <2>4
<1>4. ASSUME NEW p \in Place, NEW q \in Place, Goes(p, q)
      PROVE  [Letters!Next]_(Letters!dvars)
  <2>1. PICK n \in Msg : Holds(p) = <<n>>
    BY <1>4 DEF Goes
  <2>2. SameEnds /\ UNCHANGED unsent /\ FateAt(p) = "kept"
    BY <1>4 DEF Goes
  <2>3. ASSUME NEW m \in Msg, m # n PROVE Fate(m)' = Fate(m)
    <3>1. ~Lying(m, p)
      BY <2>1, <2>3, Alone DEF Lying
    <3>2. \A r \in Place : Lying(m, r)' <=> Lying(m, r)
      BY <1>4, <3>1, LiesNow
    <3> QED
      BY <2>2, <2>3, <3>2, SameFate
  <2>4. Lying(n, p) /\ n \notin unsent
    BY <2>1, Alone DEF Lying, Messages, Fresh
  <2>5. Fate(n) = "kept"
    BY <2>2, <2>4, FateThere DEF Messages
  <2>6. Fate(n)' = FateAt(q)
    <3>1. Lying(n, q)'
      BY <1>4, <2>4, LiesNow
    <3>2. Fate(n)' = FateAt(q)'
      BY <2>2, <2>4, <3>1, FateThereNext DEF Messages
    <3> QED
      BY <2>2, <3>2, FateStays
  <2>7. CASE FateAt(q) = "kept"
    BY <1>1, <2>2, <2>3, <2>5, <2>6, <2>7, Stutters DEF Become
  <2>8. CASE FateAt(q) = "written"
    <3>1. Become({n}, "written")
      BY <2>3, <2>6, <2>8 DEF Become
    <3> QED
      BY <1>1, <2>2, <2>5, <3>1, Turns
  <2>9. CASE FateAt(q) = "lost"
    <3>1. Become({n}, "lost")
      BY <2>3, <2>6, <2>9 DEF Become
    <3>2. q[2] \in Ends
      BY <2>9 DEF FateAt, Place, Ends
    <3> QED
      BY <1>1, <2>2, <2>5, <3>1, <3>2, Loses
  <2> QED
    BY <2>7, <2>8, <2>9 DEF FateAt
<1>5. ASSUME NEW n \in Msg, Enters(n) PROVE [Letters!Next]_(Letters!dvars)
  <2>1. n \in unsent /\ unsent' = unsent \ {n} /\ Ends' = Ends /\ Fate(n) = "unsent"
    BY <1>1, <1>5 DEF Enters, Fate
  <2>2. \A p \in Place : ~Lying(n, p)
    BY <2>1 DEF Messages, Fresh
  <2>3. ASSUME NEW m \in Msg, m # n PROVE Fate(m)' = Fate(m)
    <3>1. \A p \in Place : Lying(m, p)' <=> Lying(m, p)
      BY <1>5, <2>3, Alone DEF Enters, Lies, Lying
    <3> QED
      BY <1>5, <2>1, <2>3, <3>1, SameFate DEF Enters
  <2>4. CASE \A p \in Place : Lies(p)
    <3>1. Fate(n)' = "refused"
      BY <2>1, <2>2, <2>4 DEF Fate, Lies, Lying
    <3>2. Become({n}, "refused")
      BY <2>3, <3>1 DEF Become
    <3> QED
      BY <2>1, <3>2, Turns
  <2>5. ASSUME NEW q \in Place, FateAt(q) = "kept", Holds(q)' = <<n>>
        PROVE  [Letters!Next]_(Letters!dvars)
    <3>1. Lying(n, q)'
      BY <2>5, Alone DEF Lying
    <3>2. Fate(n)' = FateAt(q)'
      BY <2>1, <3>1, FateThereNext DEF Messages
    <3>3. Fate(n)' = "kept"
      BY <1>5, <2>5, <3>2, FateStays DEF Enters
    <3>4. Become({n}, "kept")
      BY <2>3, <3>3 DEF Become
    <3> QED
      BY <2>1, <3>4, Turns
  <2> QED
    BY <1>5, <2>4, <2>5 DEF Enters
<1> QED
  BY <1>2, <1>3, <1>4, <1>5 DEF MessageStep

\* What becomes of a message is what Delivery says: taken back and queued again
\* or not, it is kept until it is written, or lost with a connection that had
\* accepted it (send, 180-191; the write loop, 357-384).
THEOREM Delivers == SafeSpec => ImplementsDelivery
<1>1. SafeSpec => []Messages
  BY MessagesAlways
<1> QED
  BY <1>1, DeliveryInit, DeliveryNext, PTL DEF SafeSpec, ImplementsDelivery, Letters!Spec
=============================================================================
