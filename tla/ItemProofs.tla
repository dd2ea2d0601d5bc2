----------------------------- MODULE ItemProofs -----------------------------
(***************************************************************************)
(* The items of ReconnectingWebSocket: the application receives them in    *)
(* the order of their arrival, for any number of items, connections,       *)
(* retries and faults.                                                     *)
(***************************************************************************)
EXTENDS LoopProofs, MessageProofs

-----------------------------------------------------------------------------
(* Lines of sequences of items: what is in one is behind what is in the    *)
(* ones before it.                                                         *)

Line5 == [1..5 -> Seq(Item)]

LEMMA IdsAreNat == \A s \in Seq(Item) : \A i \in DOMAIN s : s[i].id \in Nat
<1>1. \A e \in Item : e.id \in 1..MaxIn
  BY DEF Item
<1>2. \A n \in 1..MaxIn : n \in Nat
  OBVIOUS
<1>3. \A s \in Seq(Item) : \A i \in DOMAIN s : s[i] \in Item
  OBVIOUS
<1> QED
  BY <1>1, <1>2, <1>3

\* Along the line the ids grow, and none is above b.
InLine(f, b) ==
    \A k, l \in DOMAIN f : \A i \in DOMAIN f[k], j \in DOMAIN f[l] :
        /\ k < l \/ (k = l /\ i < j) => f[k][i].id < f[l][j].id
        /\ f[k][i].id <= b

\* Some parts are dropped, the others stay.
Thinned(f, g) == \A k \in DOMAIN f : g[k] = f[k] \/ g[k] = <<>>

\* What is at l moves up to k, past nothing.
MovedUp(f, g, l, k) ==
    k < l /\ Emptied(f, g, l, k) /\ \A j \in DOMAIN f : k < j /\ j < l => f[j] = <<>>

\* A later item comes to k: nothing is there or behind.
Joined(f, g, k, e, b) ==
    /\ e.id = b + 1
    /\ g[k] = <<e>> /\ \A j \in DOMAIN f : IF j < k THEN g[j] = f[j] ELSE f[j] = <<>>
    /\ \A j \in DOMAIN f : j > k => g[j] = <<>>

LEMMA ThinnedLine ==
    ASSUME NEW f \in Line5, NEW g \in Line5, NEW b, Thinned(f, g), InLine(f, b)
    PROVE  InLine(g, b)
<1>1. \A k \in DOMAIN g : \A i \in DOMAIN g[k] : k \in DOMAIN f /\ g[k] = f[k]
  BY DEF Thinned, Line5
<1> QED
  BY <1>1 DEF InLine

LEMMA MovedUpLine ==
    ASSUME NEW f \in Line5, NEW g \in Line5, NEW b, NEW l \in 1..5, NEW k \in 1..5,
           MovedUp(f, g, l, k), InLine(f, b)
    PROVE  InLine(g, b)
<1>0. /\ k # l /\ k < l /\ Emptied(f, g, l, k)
      /\ \A j \in 1..5 : k < j /\ j < l => f[j] = <<>>
      /\ f \in [1..5 -> Seq(Item)] /\ g \in [1..5 -> Seq(Item)]
  BY DEF MovedUp, Line5
<1> SUFFICES ASSUME NEW c \in 1..5, NEW d \in 1..5, NEW i \in DOMAIN g[c], NEW j \in DOMAIN g[d]
             PROVE  /\ c < d \/ (c = d /\ i < j) => g[c][i].id < g[d][j].id
                    /\ g[c][i].id <= b
  BY <1>0, Zenon DEF InLine
<1>1. PICK t, x : Came(f, g, l, k, c, i, t, x)
  BY <1>0, Origin
<1>2. PICK u, y : Came(f, g, l, k, d, j, u, y)
  BY <1>0, Origin
<1>3. /\ t \in 1..5 /\ x \in DOMAIN f[t] /\ g[c][i] = f[t][x]
      /\ u \in 1..5 /\ y \in DOMAIN f[u] /\ g[d][j] = f[u][y]
      /\ IF t = l THEN c = k /\ i = x + Len(f[k]) ELSE c = t /\ i = x
      /\ IF u = l THEN d = k /\ j = y + Len(f[k]) ELSE d = u /\ j = y
  BY <1>0, <1>1, <1>2 DEF Came
<1>4. /\ f[t] \in Seq(Item) /\ f[u] \in Seq(Item) /\ f[k] \in Seq(Item)
      /\ x \in Nat /\ y \in Nat /\ Len(f[k]) \in Nat
      /\ f[t] # <<>> /\ f[u] # <<>>
  <2>1. f[t] \in Seq(Item) /\ f[u] \in Seq(Item) /\ f[k] \in Seq(Item)
    BY <1>0, <1>3
  <2>2. \A s \in Seq(Item) : /\ Len(s) \in Nat
                             /\ \A n \in DOMAIN s : n \in Nat /\ s # <<>>
    OBVIOUS
  <2> QED
    BY <1>3, <2>1, <2>2
<1>5. ASSUME c < d \/ (c = d /\ i < j) PROVE t < u \/ (t = u /\ x < y)
  <2>1. CASE t = l /\ u = l
    BY <1>3, <1>4, <1>5, <2>1
  <2>2. CASE t = l /\ u # l
    <3>1. u # k
      <4>1. u = k => y \in 1..Len(f[k])
        BY <1>3, <1>4
      <4> QED
        BY <1>3, <1>4, <1>5, <2>2, <4>1
    <3>2. k < u
      BY <1>3, <1>5, <2>2, <3>1
    <3>3. ~(u < l)
      BY <1>0, <1>3, <1>4, <3>2
    <3> QED
      BY <1>3, <2>2, <3>3
  <2>3. CASE t # l /\ u = l
    BY <1>0, <1>3, <1>5, <2>3
  <2>4. CASE t # l /\ u # l
    BY <1>3, <1>5, <2>4
  <2> QED
    BY <2>1, <2>2, <2>3, <2>4
<1>6. /\ t < u \/ (t = u /\ x < y) => f[t][x].id < f[u][y].id
      /\ f[t][x].id <= b
  BY <1>0, <1>3 DEF InLine
<1> QED
  BY <1>3, <1>5, <1>6

LEMMA JoinedLine ==
    ASSUME NEW f \in Line5, NEW g \in Line5, NEW b \in Nat, NEW k \in 1..5, NEW e \in Item,
           Joined(f, g, k, e, b), InLine(f, b)
    PROVE  InLine(g, b + 1)
<1> USE DEF Line5
<1> SUFFICES ASSUME NEW c \in 1..5, NEW d \in 1..5, NEW i \in DOMAIN g[c], NEW j \in DOMAIN g[d]
             PROVE  /\ c < d \/ (c = d /\ i < j) => g[c][i].id < g[d][j].id
                    /\ g[c][i].id <= b + 1
  BY DEF InLine
<1>0. \A x, y \in 1..5 : x < y => x # y /\ ~(y < x)
  OBVIOUS
<1>1. ASSUME NEW n \in 1..5, NEW a \in DOMAIN g[n]
      PROVE  \/ n < k /\ g[n] = f[n] /\ a \in DOMAIN f[n]
             \/ n = k /\ a = 1 /\ g[n][a] = e
  <2>1. CASE n < k
    BY <2>1 DEF Joined
  <2>2. CASE n = k
    <3>1. g[n] = <<e>>
      BY <2>2 DEF Joined
    <3>2. \A q \in DOMAIN <<e>> : q = 1 /\ <<e>>[q] = e
      OBVIOUS
    <3>3. a = 1 /\ g[n][a] = e
      BY <3>1, <3>2, Zenon
    <3> QED
      BY <2>2, <3>3
  <2>3. CASE n > k
    <3>1. g[n] = <<>>
      BY <2>3 DEF Joined
    <3> QED
      BY <3>1
  <2> QED
    BY <2>1, <2>2, <2>3
<1>2. ASSUME NEW n \in 1..5, NEW a \in DOMAIN f[n]
      PROVE  f[n][a].id <= b /\ f[n][a].id \in Nat
  <2>1. f[n] \in Seq(Item)
    OBVIOUS
  <2>3. f[n][a].id \in Nat
    BY <2>1, IdsAreNat, Zenon
  <2>4. f[n][a].id <= b
    BY DEF InLine
  <2> QED
    BY <2>3, <2>4
<1>3. e.id = b + 1 /\ e.id <= b + 1
  BY DEF Joined, Item
<1>4. CASE c = k /\ d = k
  <2>1. i = 1 /\ j = 1 /\ g[c][i] = e
    BY <1>0, <1>1, <1>4
  <2> QED
    BY <1>3, <1>4, <2>1
<1>5. CASE c < k /\ d < k
  <2>1. c # k /\ d # k
    BY <1>0, <1>5
  <2>2. g[c] = f[c] /\ g[d] = f[d]
    BY <1>1, <2>1
  <2>3. /\ c < d \/ (c = d /\ i < j) => f[c][i].id < f[d][j].id
        /\ f[c][i].id <= b
    BY <2>2 DEF InLine
  <2>4. f[c][i].id <= b + 1
    <3>1. f[c][i].id <= b /\ f[c][i].id \in Nat
      BY <1>2, <2>2
    <3>2. \A x \in Nat : x <= b => x <= b + 1
      OBVIOUS
    <3> QED
      BY <3>1, <3>2
  <2> QED
    BY <2>2, <2>3, <2>4
<1>6. CASE c < k /\ d = k
  <2>1. g[c] = f[c] /\ g[d][j] = e
    <3>1. c # k /\ ~(d < k)
      BY <1>0, <1>6
    <3> QED
      BY <1>1, <1>6, <3>1
  <2>2. f[c][i].id <= b /\ f[c][i].id \in Nat
    BY <1>2, <2>1
  <2>3. \A x \in Nat : x <= b => x <= b + 1 /\ x < b + 1
    OBVIOUS
  <2> QED
    BY <1>3, <2>1, <2>2, <2>3
<1>7. CASE c = k /\ d < k
  <2>1. g[c][i] = e /\ ~(c < d) /\ c # d
    BY <1>0, <1>1, <1>7
  <2> QED
    BY <1>3, <2>1
<1> QED
  BY <1>1, <1>4, <1>5, <1>6, <1>7

-----------------------------------------------------------------------------
(* The items on their way to the application.                              *)

\* Where an item is between the stream of the latest connection and recv(),
\* the oldest items first; nobody reads from any other connection.
Read == nconn > 0 /\ Looping(nconn)
Line == [k \in 1..5 |->
    CASE k = 1 -> received
      [] k = 2 -> incoming
      [] k = 3 -> IF Read THEN rhold[nconn] ELSE <<>>
      [] k = 4 -> IF Read THEN conn[nconn].inbuf ELSE <<>>
      [] k = 5 -> IF Read THEN conn[nconn].hand ELSE <<>>]

\* A read loop holds an item only while it forwards it, and a connection that
\* is not opened yet has none.
HeldBack ==
    \A c \in Conn : /\ rpc[c] # "forward" => rhold[c] = <<>>
                    /\ c > nconn => conn[c].inbuf = <<>> /\ conn[c].hand = <<>>

Items == Loops /\ HeldBack /\ InLine(Line, arrived)

LEMMA LineParts ==
    /\ Line[1] = received /\ Line[2] = incoming
    /\ Line[3] = IF Read THEN rhold[nconn] ELSE <<>>
    /\ Line[4] = IF Read THEN conn[nconn].inbuf ELSE <<>>
    /\ Line[5] = IF Read THEN conn[nconn].hand ELSE <<>>
BY DEF Line

LEMMA Five ==
    ASSUME NEW k \in 1..5
    PROVE  k = 1 \/ k = 2 \/ k = 3 \/ k = 4 \/ k = 5
OBVIOUS

LEMMA LineType == Loops => Line \in Line5
<1> SUFFICES ASSUME Loops PROVE Line \in Line5
  OBVIOUS
<1>1. Read => nconn \in Conn
  BY DEF Read, Loops, TypeInv, TypeOK, Task, Conn
<1>2. \A c \in Conn : /\ rhold[c] \in Seq(Item)
                      /\ conn[c].inbuf \in Seq(Item) /\ conn[c].hand \in Seq(Item)
  BY DEF Loops, TypeInv, TypeOK, LinkState, SeqUpTo
<1>3. received \in Seq(Item) /\ incoming \in Seq(Item)
  BY DEF Loops, TypeInv, TypeOK, SeqUpTo
<1>4. \A k \in 1..5 : Line[k] \in Seq(Item)
  <2>1. /\ Line[3] \in Seq(Item) /\ Line[4] \in Seq(Item) /\ Line[5] \in Seq(Item)
    <3>1. <<>> \in Seq(Item)
      OBVIOUS
    <3>2. CASE Read
      BY <1>1, <1>2, <3>2, LineParts
    <3>3. CASE ~Read
      BY <3>1, <3>3, LineParts
    <3> QED
      BY <3>2, <3>3
  <2> QED
    BY <1>3, <2>1, LineParts, Five
<1> QED
  BY <1>4 DEF Line, Line5

LEMMA LineTypeNext == (Loops => Line \in Line5)'
BY LineType, PTL

LEMMA LinePartsNext ==
    /\ Line'[1] = received' /\ Line'[2] = incoming'
    /\ Line'[3] = IF Read' THEN rhold'[nconn'] ELSE <<>>
    /\ Line'[4] = IF Read' THEN conn'[nconn'].inbuf ELSE <<>>
    /\ Line'[5] = IF Read' THEN conn'[nconn'].hand ELSE <<>>
BY DEF Line

\* Every step, by what it does to the line.
LineStep ==
    \/ Thinned(Line, Line') /\ arrived' \in {arrived, arrived + 1}
    \/ UNCHANGED arrived /\ \E l, k \in 1..5 : MovedUp(Line, Line', l, k)
    \/ /\ arrived' = arrived + 1
       /\ \E k \in 1..5, e \in Item : Joined(Line, Line', k, e, arrived)

LEMMA InLineNext ==
    ASSUME Items, Loops', LineStep
    PROVE  InLine(Line, arrived)'
<1> DEFINE f == Line  g == Line'
<1>1. f \in Line5 /\ g \in Line5 /\ InLine(f, arrived) /\ arrived \in Nat
  <2>1. f \in Line5 /\ g \in Line5 /\ InLine(f, arrived)
    BY LineType, LineTypeNext, Zenon DEF Items
  <2>2. arrived \in 0..MaxIn
    BY DEF Items, Loops, TypeInv, TypeOK
  <2> QED
    BY <2>1, <2>2
<1> SUFFICES InLine(g, arrived')
  BY DEF InLine
<1> HIDE DEF f, g
<1>2. CASE Thinned(f, g) /\ arrived' \in {arrived, arrived + 1}
  <2>1. InLine(g, arrived)
    BY <1>1, <1>2, ThinnedLine
  <2>2. \A k \in 1..5 : \A i \in DOMAIN g[k] : g[k][i].id \in Nat
    <3>1. \A s \in Seq(Item) : \A i \in DOMAIN s : s[i] \in Item
      OBVIOUS
    <3>2. \A k \in 1..5 : g[k] \in Seq(Item)
      BY <1>1 DEF Line5
    <3> QED
      BY <3>1, <3>2 DEF Item
  <2>3. \A x \in Nat : x <= arrived => x <= arrived'
    BY <1>1, <1>2
  <2> QED
    BY <1>1, <2>1, <2>2, <2>3 DEF InLine, Line5
<1>3. ASSUME NEW l \in 1..5, NEW k \in 1..5, MovedUp(f, g, l, k) PROVE InLine(g, arrived)
  BY <1>1, <1>3, MovedUpLine
<1>4. ASSUME NEW k \in 1..5, NEW e \in Item, Joined(f, g, k, e, arrived)
      PROVE  InLine(g, arrived + 1)
  BY <1>1, <1>4, JoinedLine
<1> QED
  BY <1>2, <1>3, <1>4 DEF LineStep, f, g

LEMMA SameLine ==
    ASSUME UNCHANGED <<received, incoming, nconn>>, Read' = Read,
           Read => /\ rhold'[nconn] = rhold[nconn]
                   /\ conn'[nconn].inbuf = conn[nconn].inbuf
                   /\ conn'[nconn].hand = conn[nconn].hand,
           arrived' \in {arrived, arrived + 1}
    PROVE  LineStep
<1>1. Thinned(Line, Line')
  BY LineParts, LinePartsNext, Five DEF Thinned, Line
<1> QED
  BY <1>1 DEF LineStep

\* The latest connection is left.
LEMMA LeftLine ==
    ASSUME UNCHANGED <<received, incoming, arrived>>, ~Read'
    PROVE  LineStep
<1>1. Thinned(Line, Line')
  BY LineParts, LinePartsNext, Five DEF Thinned, Line
<1> QED
  BY <1>1 DEF LineStep

\* An item goes on: from l to k, when there is nothing on the way.
GoesOnFrom(l, k) ==
    /\ k < l /\ Line'[l] = <<>> /\ Line'[k] = Line[k] \o Line[l]
    /\ \A j \in 1..5 : k < j /\ j < l => Line[j] = <<>>
    /\ \A j \in 1..5 : j # k /\ j # l => Line'[j] = Line[j]

LEMMA MovedLine ==
    ASSUME UNCHANGED arrived, NEW l \in 1..5, NEW k \in 1..5, GoesOnFrom(l, k)
    PROVE  LineStep
<1>1. DOMAIN Line = 1..5
  BY DEF Line
<1>2. MovedUp(Line, Line', l, k)
  BY <1>1 DEF GoesOnFrom, MovedUp, Emptied
<1> QED
  BY <1>2 DEF LineStep

LEMMA AppReceives ==
    ASSUME Items, AppRecv
    PROVE  LineStep
<1>1. UNCHANGED <<arrived, nconn, conn, rhold>> /\ Read' = Read /\ incoming' = <<>>
  BY DEF AppRecv, links, rloops, Read, Looping
<1>2. CASE UNCHANGED received
  <2>1. Thinned(Line, Line')
    BY <1>1, <1>2, LineParts, LinePartsNext, Five DEF Thinned, Line
  <2> QED
    BY <1>1, <2>1 DEF LineStep
<1>3. CASE received' = received \o incoming
  <2>1. Line'[2] = <<>> /\ Line'[1] = Line[1] \o Line[2]
    BY <1>1, <1>3, LineParts, LinePartsNext
  <2>2. \A j \in 1..5 : j # 1 /\ j # 2 => Line'[j] = Line[j]
    BY <1>1, LineParts, LinePartsNext, Five
  <2>3. \A j \in 1..5 : ~(1 < j /\ j < 2)
    OBVIOUS
  <2>4. GoesOnFrom(2, 1)
    BY <2>1, <2>2, <2>3 DEF GoesOnFrom
  <2> QED
    BY <1>1, <2>4, MovedLine
<1> QED
  BY <1>2, <1>3 DEF AppRecv

\* recv() on the connection returns an item, and it is forwarded or held.
LEMMA ReadLoopTakes ==
    ASSUME Items, NEW c \in Conn, RItem(c)
    PROVE  LineStep
<1>1. c = nconn /\ Read
  BY Latest, TaskFacts DEF RItem, Items, Read, Looping, Conn
<1>2. conn' = [conn EXCEPT ![c] = Take(conn[c])] /\ UNCHANGED <<nconn, arrived, received>>
  BY DEF RItem, app
<1>3. conn'[c].inbuf = <<>> /\ conn'[c].hand = conn[c].hand
  BY <1>2 DEF Take, Items, Loops, TypeInv, TypeOK, LinkState
<1>4. rhold[c] = <<>>
  BY DEF RItem, Items, HeldBack
<1>5. \A s \in Seq(Item) : <<>> \o s = s
  OBVIOUS
<1>6. conn[c].inbuf \in Seq(Item)
  BY DEF Items, Loops, TypeInv, TypeOK, LinkState, SeqUpTo
<1>7. CASE incoming = <<>> /\ incoming' = conn[c].inbuf /\ UNCHANGED <<rpc, rhold>>
  <2>1. Read'
    BY <1>1, <1>2, <1>7 DEF Read, Looping
  <2>2. /\ Line'[4] = <<>> /\ Line'[2] = Line[2] \o Line[4] /\ Line[3] = <<>>
        /\ Line'[1] = Line[1] /\ Line'[3] = Line[3] /\ Line'[5] = Line[5]
    BY <1>1, <1>2, <1>3, <1>4, <1>5, <1>6, <1>7, <2>1, LineParts, LinePartsNext
  <2>3. /\ \A j \in 1..5 : 2 < j /\ j < 4 => j = 3
        /\ \A j \in 1..5 : j # 2 /\ j # 4 => j \in {1, 3, 5}
    OBVIOUS
  <2>4. GoesOnFrom(4, 2)
    BY <2>2, <2>3 DEF GoesOnFrom
  <2> QED
    BY <1>2, <2>4, MovedLine
<1>8. CASE /\ rpc' = [rpc EXCEPT ![c] = "forward"]
           /\ rhold' = [rhold EXCEPT ![c] = conn[c].inbuf]
           /\ UNCHANGED incoming
  <2>1. Read' /\ rhold'[c] = conn[c].inbuf
    BY <1>1, <1>2, <1>8 DEF Read, Looping, Items, Loops, TypeInv, TypeOK
  <2>2. /\ Line'[4] = <<>> /\ Line'[3] = Line[3] \o Line[4]
        /\ Line'[1] = Line[1] /\ Line'[2] = Line[2] /\ Line'[5] = Line[5]
    <3>1. Line[3] = <<>> /\ Line[4] = conn[c].inbuf /\ Line[5] = conn[c].hand
      BY <1>1, <1>4, LineParts
    <3>2. /\ Line'[3] = conn[c].inbuf /\ Line'[4] = <<>> /\ Line'[5] = conn[c].hand
      BY <1>1, <1>2, <1>3, <2>1, LinePartsNext
    <3>3. Line'[1] = Line[1] /\ Line'[2] = Line[2]
      BY <1>2, <1>8, LineParts, LinePartsNext
    <3> QED
      BY <1>5, <1>6, <3>1, <3>2, <3>3
  <2>3. /\ \A j \in 1..5 : ~(3 < j /\ j < 4)
        /\ \A j \in 1..5 : j # 3 /\ j # 4 => j \in {1, 2, 5}
    OBVIOUS
  <2>4. GoesOnFrom(4, 3)
    BY <2>2, <2>3 DEF GoesOnFrom
  <2> QED
    BY <1>2, <2>4, MovedLine
<1> QED
  BY <1>7, <1>8 DEF RItem

LEMMA ReadLoopForwards ==
    ASSUME Items, NEW c \in Conn, RForward(c)
    PROVE  LineStep
<1>1. c = nconn /\ Read
  BY Latest, TaskFacts DEF RForward, Items, Read, Looping, Conn
<1>2. UNCHANGED <<nconn, conn, arrived, received>>
  BY DEF RForward, app, links
<1>3. /\ Read' /\ rhold'[c] = <<>> /\ incoming = <<>> /\ incoming' = rhold[c]
  BY <1>1, <1>2 DEF RForward, Read, Looping, Items, Loops, TypeInv, TypeOK
<1>4. <<>> \o rhold[c] = rhold[c]
  <2>1. rhold[c] \in Seq(Item)
    BY DEF Items, Loops, TypeInv, TypeOK, SeqUpTo
  <2> QED
    BY <2>1
<1>5. /\ Line'[3] = <<>> /\ Line'[2] = Line[2] \o Line[3]
      /\ Line'[1] = Line[1] /\ Line'[4] = Line[4] /\ Line'[5] = Line[5]
  BY <1>1, <1>2, <1>3, <1>4, LineParts, LinePartsNext
<1>6. /\ \A j \in 1..5 : ~(2 < j /\ j < 3)
      /\ \A j \in 1..5 : j # 2 /\ j # 3 => j \in {1, 4, 5}
  OBVIOUS
<1>7. GoesOnFrom(3, 2)
  BY <1>5, <1>6 DEF GoesOnFrom
<1> QED
  BY <1>2, <1>7, MovedLine

\* A read loop that leaves its connection leaves what it did not read.
LEMMA ReadLoopLeavesItems ==
    ASSUME Items, NEW c \in Conn, Looping(c), NEW reconnect \in BOOLEAN, RLeave(c, reconnect)
    PROVE  LineStep
<1>1. c = nconn
  BY Latest, TaskFacts DEF Items, Looping
<1>2. UNCHANGED <<received, incoming, arrived, nconn>>
  BY DEF RLeave, app, queues
<1>3. ~Read'
  BY <1>1, <1>2 DEF RLeave, Read, Looping, Items, Loops, TypeInv, TypeOK
<1> QED
  BY <1>2, <1>3, LeftLine

LEMMA ReadLoopLines ==
    ASSUME Items, NEW c \in Conn, ReadLoop(c)
    PROVE  LineStep
<1>1. CASE RItem(c)
  BY <1>1, ReadLoopTakes
<1>2. CASE RForward(c)
  BY <1>2, ReadLoopForwards
<1>3. CASE RCloseFrame(c) \/ RForwardError(c) \/ REnd(c) \/ RDisconnected(c) \/ RClosed(c)
  BY <1>3, ReadLoopLeavesItems
  DEF RCloseFrame, RForwardError, REnd, RDisconnected, RClosed, RIdle, Looping
<1>4. CASE RStart(c)
  <2>1. \A t \in Task : Looping(t)' = Looping(t)
    BY <1>4 DEF RStart, Looping, Items, Loops, TypeInv, TypeOK
  <2>2. UNCHANGED <<received, incoming, nconn, rhold, conn, arrived>>
    BY <1>4 DEF RStart, app, queues, links
  <2>3. Read' = Read
    BY <2>1, <2>2 DEF Read, Items, Loops, TypeInv, TypeOK
  <2> QED
    BY <2>2, <2>3, SameLine
<1>5. CASE RNotDisconnected(c) \/ RWait(c)
  <2>1. UNCHANGED <<received, incoming, nconn, rhold, conn, arrived, rpc>>
    BY <1>5 DEF RNotDisconnected, RWait, app, queues, links, rloops
  <2> QED
    BY <2>1, SameLine DEF Read, Looping
<1> QED
  BY <1>1, <1>2, <1>3, <1>4, <1>5 DEF ReadLoop

LEMMA ConnectLines ==
    ASSUME Items, NEW t \in Task, Connect(t)
    PROVE  LineStep
<1>0. UNCHANGED <<received, incoming, conn, rhold, arrived>>
  BY DEF Connect, Dial, ConnectOk, ConnectFail, BackoffOver, app, queues, links
<1>1. t = nconn /\ ~Looping(t)
  BY Latest DEF Connect, Dial, ConnectOk, ConnectFail, BackoffOver, Items, Looping
<1>2. CASE ConnectOk(t)
  <2>1. nconn' = nconn + 1 /\ nconn + 1 \in Conn /\ nconn + 1 > nconn /\ ~Read
    BY <1>1, <1>2, TaskFacts DEF ConnectOk, Items, Loops, TypeInv, TypeOK, Read
  <2>2. rpc[nconn + 1] = "idle"
    BY <2>1, TaskFacts DEF Items, Loops, Order
  <2>3. /\ conn[nconn + 1].inbuf = <<>> /\ conn[nconn + 1].hand = <<>>
        /\ rhold[nconn + 1] = <<>>
    BY <2>1, <2>2 DEF Items, HeldBack
  <2>4. Thinned(Line, Line')
    <3>1. Line'[1] = Line[1] /\ Line'[2] = Line[2]
      BY <1>0, LineParts, LinePartsNext
    <3>2. Line'[3] = <<>> /\ Line'[4] = <<>> /\ Line'[5] = <<>>
      BY <1>0, <2>1, <2>3, LinePartsNext
    <3> QED
      BY <3>1, <3>2, Five DEF Thinned, Line
  <2> QED
    BY <1>0, <2>4 DEF LineStep
<1>3. CASE ~ConnectOk(t)
  <2>1. nconn' = nconn /\ ~Looping(t)'
    BY <1>1, <1>3 DEF Connect, Dial, ConnectFail, BackoffOver, links, Looping,
                      Items, Loops, TypeInv, TypeOK
  <2>2. ~Read /\ Read' = Read
    BY <1>1, <2>1 DEF Read
  <2> QED
    BY <1>0, <2>1, <2>2, SameLine
<1> QED
  BY <1>2, <1>3

LEMMA NextId == \A n \in 0..MaxIn : n < MaxIn => n + 1 \in 1..MaxIn
BY MaxInIsNat

\* What a connection does with its own fields.
LEMMA LinkLines ==
    ASSUME Items, NEW c \in Conn, LinkSteps(c)
    PROVE  LineStep
<1>0. conn[c] \in LinkState
  BY DEF Items, Loops, TypeInv, TypeOK
<1>1. /\ UNCHANGED <<received, incoming, nconn, rhold>> /\ Read' = Read
      /\ \A d \in Conn \ {c} : conn'[d] = conn[d]
  BY DEF LinkSteps, LinkFetch, LinkWrite, LinkFault, LinkBreak, LinkClose, LinkPush, LinkEnd,
         LinkRefuse, LinkArrive, LinkStep, app, queues, rloops, Read, Looping,
         Items, Loops, TypeInv, TypeOK
<1>2. arrived' \in {arrived, arrived + 1}
  BY DEF LinkSteps, LinkFetch, LinkWrite, LinkFault, LinkBreak, LinkClose, LinkPush, LinkEnd,
         LinkRefuse, LinkArrive, Arrival
<1>3. Read => nconn \in Conn
  BY DEF Read, Items, Loops, TypeInv, TypeOK, Task, Conn
<1>4. CASE conn'[c].inbuf = conn[c].inbuf /\ conn'[c].hand = conn[c].hand
  BY <1>1, <1>2, <1>3, <1>4, SameLine
<1>5. CASE ~(Read /\ c = nconn)
  BY <1>1, <1>2, <1>3, <1>5, SameLine
<1>6. ASSUME NEW l, conn' = [conn EXCEPT ![c] = l] PROVE conn'[c] = l
  BY <1>6 DEF Items, Loops, TypeInv, TypeOK
<1>7. CASE LinkFetch(c) \/ LinkWrite(c) \/ LinkFault(c) \/ LinkBreak(c) \/ LinkClose(c)
  <2>1. conn'[c] \in {Fetch(conn[c]), Write(conn[c]), Break(conn[c]), Close(conn[c])}
    BY <1>6, <1>7 DEF LinkFetch, LinkWrite, LinkFault, LinkBreak, LinkClose, LinkStep
  <2>2. conn'[c].inbuf = conn[c].inbuf /\ conn'[c].hand = conn[c].hand
    BY <1>0, <2>1 DEF Fetch, Write, Break, Close, LinkState
  <2> QED
    BY <1>4, <2>2
<1>8. CASE LinkEnd(c) \/ LinkRefuse(c)
  <2>1. conn'[c] = End(conn[c])
    BY <1>6, <1>8 DEF LinkEnd, LinkRefuse, LinkStep
  <2>2. conn'[c].inbuf = conn[c].inbuf /\ conn'[c].hand = <<>>
    BY <1>0, <2>1 DEF End, LinkState
  <2>3. CASE Read /\ c = nconn
    <3>1. /\ Line'[1] = Line[1] /\ Line'[2] = Line[2] /\ Line'[3] = Line[3]
          /\ Line'[4] = Line[4] /\ Line'[5] = <<>>
      BY <1>1, <2>2, <2>3, LineParts, LinePartsNext
    <3>2. Thinned(Line, Line')
      BY <3>1, Five DEF Thinned, Line
    <3> QED
      BY <1>2, <3>2 DEF LineStep
  <2> QED
    BY <1>5, <2>3
<1>9. CASE LinkPush(c) /\ Read /\ c = nconn
  <2>1. conn'[c] = Push(conn[c]) /\ conn[c].inbuf = <<>> /\ UNCHANGED arrived
    BY <1>6, <1>9 DEF LinkPush, LinkStep, CanPush
  <2>2. conn'[c].inbuf = conn[c].hand /\ conn'[c].hand = <<>>
    BY <1>0, <2>1 DEF Push, LinkState
  <2>3. <<>> \o conn[c].hand = conn[c].hand
    <3>1. conn[c].hand \in Seq(Item)
      BY <1>0 DEF LinkState, SeqUpTo
    <3> QED
      BY <3>1
  <2>4. /\ Line'[5] = <<>> /\ Line'[4] = Line[4] \o Line[5]
        /\ Line'[1] = Line[1] /\ Line'[2] = Line[2] /\ Line'[3] = Line[3]
    <3>1. Read' /\ nconn' = c
      BY <1>1, <1>9
    <3>2. Line[5] = conn[c].hand /\ Line[4] = <<>>
      BY <1>9, <2>1, LineParts
    <3>3. Line'[5] = <<>> /\ Line'[4] = conn[c].hand
      BY <2>2, <3>1, LinePartsNext
    <3>4. Line'[1] = Line[1] /\ Line'[2] = Line[2] /\ Line'[3] = Line[3]
      BY <1>1, <1>9, <3>1, LineParts, LinePartsNext
    <3> QED
      BY <2>3, <3>2, <3>3, <3>4
  <2>5. /\ \A j \in 1..5 : ~(4 < j /\ j < 5)
        /\ \A j \in 1..5 : j # 4 /\ j # 5 => j \in {1, 2, 3}
    OBVIOUS
  <2>6. GoesOnFrom(5, 4)
    BY <2>4, <2>5 DEF GoesOnFrom
  <2> QED
    BY <2>1, <2>6, MovedLine
<1>10. ASSUME NEW kind \in Arriving, LinkArrive(c, kind), Read, c = nconn
       PROVE  LineStep
  <2> DEFINE e == [kind |-> kind, id |-> arrived + 1]
  <2>1. conn'[c] = Arrive(conn[c], e) /\ conn[c].hand = <<>> /\ arrived' = arrived + 1
    BY <1>6, <1>10 DEF LinkArrive, LinkStep, CanArrive, Arrival
  <2>2. e \in Item /\ e.id = arrived + 1
    <3>1. arrived \in 0..MaxIn /\ arrived < MaxIn
      BY <1>10 DEF LinkArrive, Arrival, Items, Loops, TypeInv, TypeOK
    <3> QED
      BY <1>10, <3>1, NextId, ArrivingAreKinds DEF Item
  <2> HIDE DEF e
  <2>3. /\ conn'[c].inbuf = IF conn[c].inbuf = <<>> THEN <<e>> ELSE conn[c].inbuf
        /\ conn'[c].hand = IF conn[c].inbuf = <<>> THEN <<>> ELSE <<e>>
    BY <1>0, <2>1 DEF Arrive, LinkState
  <2>4. Line'[1] = Line[1] /\ Line'[2] = Line[2] /\ Line'[3] = Line[3] /\ Line[5] = <<>>
    BY <1>1, <1>10, <2>1, LineParts, LinePartsNext
  <2>5. \A j \in 1..5 : (j < 4 => j \in {1, 2, 3}) /\ (j > 4 => j = 5) /\ ~(j > 5)
    OBVIOUS
  <2>6. CASE conn[c].inbuf = <<>>
    <3>1. Line[4] = <<>> /\ Line'[4] = <<e>> /\ Line'[5] = <<>>
      BY <1>1, <1>10, <2>3, <2>6, LineParts, LinePartsNext
    <3>2. Joined(Line, Line', 4, e, arrived)
      BY <2>2, <2>4, <2>5, <3>1, Five DEF Joined, Line
    <3> QED
      BY <2>1, <2>2, <3>2 DEF LineStep
  <2>7. CASE conn[c].inbuf # <<>>
    <3>1. Line'[4] = Line[4] /\ Line'[5] = <<e>>
      BY <1>1, <1>10, <2>3, <2>7, LineParts, LinePartsNext
    <3>2. Joined(Line, Line', 5, e, arrived)
      BY <2>2, <2>4, <2>5, <3>1, Five DEF Joined, Line
    <3> QED
      BY <2>1, <2>2, <3>2 DEF LineStep
  <2> QED
    BY <2>6, <2>7
<1> QED
  BY <1>5, <1>7, <1>8, <1>9, <1>10 DEF LinkSteps

\* A write loop touches nothing that the application will receive.
LEMMA WriteLoopLines ==
    ASSUME Items, NEW c \in Conn, WriteLoop(c)
    PROVE  LineStep
<1>1. UNCHANGED <<received, incoming, nconn, rhold, arrived, rpc>>
  BY DEF WriteLoop, WTakeRetry, WTake, WSend, WSendError, WRequeue, WStop, WNotDisconnected, WWait,
         WLeave, app, queues, links, rloops
<1>2. \A d \in Conn : conn'[d].inbuf = conn[d].inbuf /\ conn'[d].hand = conn[d].hand
  <2>1. CASE UNCHANGED conn
    BY <2>1
  <2>2. CASE WSend(c)
    <3>1. \A d \in Conn : conn'[d] = IF d = c THEN Accept(conn[c], whold[c][1]) ELSE conn[d]
      BY <2>2 DEF WSend, Items, Loops, TypeInv, TypeOK
    <3>2. conn[c] \in LinkState
      BY DEF Items, Loops, TypeInv, TypeOK
    <3>3. \A m : Accept(conn[c], m).inbuf = conn[c].inbuf /\ Accept(conn[c], m).hand = conn[c].hand
      BY <3>2 DEF Accept, LinkState
    <3> QED
      BY <3>1, <3>3
  <2> QED
    BY <2>1, <2>2
    DEF WriteLoop, WTakeRetry, WTake, WSendError, WRequeue, WStop, WNotDisconnected, WWait,
        WLeave, links
<1>3. Read' = Read /\ (Read => nconn \in Conn)
  BY <1>1 DEF Read, Looping, Items, Loops, TypeInv, TypeOK, Task, Conn
<1> QED
  BY <1>1, <1>2, <1>3, SameLine

LEMMA StepsOfItems == Items /\ [Next]_vars => LineStep
<1> SUFFICES ASSUME Items, [Next]_vars PROVE LineStep
  OBVIOUS
<1>1. CASE \/ \E m \in Msg : AppSend(m)
           \/ AppSendCompletes \/ AppRecvNone \/ AppClose \/ AppDrop \/ UNCHANGED vars
  <2>1. UNCHANGED <<received, incoming, nconn, rhold, conn, arrived, rpc>>
    BY <1>1 DEF AppSend, AppSendCompletes, AppRecvNone, AppClose, AppDrop, vars,
                app, queues, links, rloops
  <2> QED
    BY <2>1, SameLine DEF Read, Looping
<1> QED
  BY <1>1, AppReceives, ConnectLines, ReadLoopLines, WriteLoopLines, LinkLines DEF Next, App

-----------------------------------------------------------------------------
LEMMA ReadsLatest ==
    ASSUME Items, NEW c \in Conn, ReadLoop(c)
    PROVE  c = nconn /\ ~(c > nconn)
<1>1. rpc[c] \in {"spawned", "select", "forward"}
  BY DEF ReadLoop, RStart, RItem, RCloseFrame, RForward, RForwardError, REnd, RDisconnected,
         RNotDisconnected, RClosed, RWait, RIdle
<1>2. c = nconn
  BY <1>1, Latest, TaskFacts DEF Items
<1> QED
  BY <1>2, TaskFacts

LEMMA HeldBackNext == Items /\ [Next]_vars => HeldBack'
<1> SUFFICES ASSUME Items, [Next]_vars PROVE HeldBack'
  OBVIOUS
<1>0. ASSUME NEW c \in Conn, ReadLoop(c) PROVE c = nconn /\ ~(c > nconn)
  BY <1>0, ReadsLatest
<1> USE DEF Items, Loops, TypeInv, TypeOK
<1>1. CASE UNCHANGED <<rpc, rhold, nconn, conn>>
  BY <1>1 DEF HeldBack
<1>2. ASSUME NEW t \in Task, Connect(t) PROVE HeldBack'
  <2>1. UNCHANGED <<rhold, conn>> /\ nconn' \in {nconn, nconn + 1}
    BY <1>2, TaskFacts DEF Connect, Dial, ConnectOk, ConnectFail, BackoffOver, links
  <2>2. \A c \in Conn : rpc[c] = "forward" => rpc'[c] = "forward"
    BY <1>2, TaskFacts DEF Connect, Dial, ConnectOk, ConnectFail, BackoffOver, Order
  <2>3. \A c \in Conn : c > nconn' => c > nconn
    <3>1. \A c \in Nat, n \in Nat : c > n + 1 => c > n
      OBVIOUS
    <3> QED
      BY <2>1, <3>1, TaskFacts
  <2> QED
    BY <2>1, <2>2, <2>3 DEF HeldBack
<1>3. ASSUME NEW c \in Conn, ReadLoop(c) PROVE HeldBack'
  <2>1. UNCHANGED nconn /\ ~(c > nconn)
    BY <1>0, <1>3
    DEF ReadLoop, RStart, RItem, RCloseFrame, RForward, RForwardError, REnd, RDisconnected,
        RNotDisconnected, RClosed, RWait, RLeave, links
  <2>2. \A d \in Conn \ {c} : rpc'[d] = rpc[d] /\ rhold'[d] = rhold[d] /\ conn'[d] = conn[d]
    BY <1>3, TaskFacts
    DEF ReadLoop, RStart, RItem, RCloseFrame, RForward, RForwardError, REnd, RDisconnected,
        RNotDisconnected, RClosed, RWait, RLeave, links, rloops
  <2>3. rpc'[c] # "forward" => rhold'[c] = <<>>
    BY <1>3, TaskFacts
    DEF ReadLoop, RStart, RItem, RCloseFrame, RForward, RForwardError, REnd, RDisconnected,
        RNotDisconnected, RClosed, RWait, RLeave, links, rloops, HeldBack
  <2> QED
    BY <2>1, <2>2, <2>3 DEF HeldBack
<1>4. ASSUME NEW c \in Conn, LinkSteps(c) PROVE HeldBack'
  <2>1. /\ UNCHANGED <<rpc, rhold, nconn>> /\ c <= nconn
        /\ \A d \in Conn \ {c} : conn'[d] = conn[d]
    BY <1>4 DEF LinkSteps, LinkFetch, LinkWrite, LinkFault, LinkBreak, LinkClose, LinkPush,
                LinkEnd, LinkRefuse, LinkArrive, LinkStep, rloops
  <2>2. ~(c > nconn)
    BY <2>1, TaskFacts
  <2> QED
    BY <2>1, <2>2 DEF HeldBack
<1>5. ASSUME NEW c \in Conn, WriteLoop(c), ~WSend(c) PROVE HeldBack'
  BY <1>1, <1>5 DEF WriteLoop, WTakeRetry, WTake, WSendError, WRequeue, WStop, WNotDisconnected,
                    WWait, WLeave, links, rloops
<1>6. ASSUME NEW c \in Conn, WSend(c) PROVE HeldBack'
  <2>1. UNCHANGED <<rpc, rhold, nconn>>
    BY <1>6 DEF WSend, rloops
  <2>2. \A d \in Conn : conn'[d] = IF d = c THEN Accept(conn[c], whold[c][1]) ELSE conn[d]
    BY <1>6 DEF WSend
  <2>3. \A m : Accept(conn[c], m).inbuf = conn[c].inbuf /\ Accept(conn[c], m).hand = conn[c].hand
    BY DEF Accept, LinkState
  <2> QED
    BY <2>1, <2>2, <2>3 DEF HeldBack
<1>7. CASE App \/ UNCHANGED vars
  BY <1>1, <1>7 DEF App, AppSend, AppSendCompletes, AppRecv, AppRecvNone, AppClose, AppDrop, vars,
                    links, rloops
<1> QED
  BY <1>2, <1>3, <1>4, <1>5, <1>6, <1>7 DEF Next

LEMMA ItemsInit == Init => Items
<1> SUFFICES ASSUME Init PROVE Items
  OBVIOUS
<1>1. HeldBack
  BY DEF Init, HeldBack, NewLink
<1>2. \A k \in 1..5 : Line[k] = <<>>
  BY LineParts, Five DEF Init, Read
<1>3. InLine(Line, arrived)
  BY <1>2 DEF InLine, Line
<1> QED
  BY <1>1, <1>3, LoopsInit DEF Items

LEMMA ItemsNext == Items /\ [Next]_vars => Items'
<1> SUFFICES ASSUME Items, [Next]_vars PROVE Items'
  OBVIOUS
<1>1. Loops'
  BY LoopsNext DEF Items
<1> QED
  BY <1>1, StepsOfItems, HeldBackNext, InLineNext DEF Items

LEMMA FirstInLine == Items => IncomingInOrder
<1> SUFFICES ASSUME Items PROVE IncomingInOrder
  OBVIOUS
<1>1. received \in Seq(Item) /\ incoming \in Seq(Item)
  BY DEF Items, Loops, TypeInv, TypeOK, SeqUpTo
<1> DEFINE s == received \o incoming
<1>2. /\ s \in Seq(Item) /\ Len(s) = Len(received) + Len(incoming)
      /\ \A i \in 1..Len(s) : s[i] = IF i <= Len(received) THEN received[i]
                                                          ELSE incoming[i - Len(received)]
  BY <1>1
<1> HIDE DEF s
<1>3. ASSUME NEW i \in DOMAIN s, NEW j \in DOMAIN s, i < j PROVE s[i].id < s[j].id
  <2>1. /\ 1 \in DOMAIN Line /\ 2 \in DOMAIN Line
        /\ Line[1] = received /\ Line[2] = incoming
    BY LineParts DEF Line
  <2>2. \A k, l \in {1, 2} : \A x \in DOMAIN Line[k], y \in DOMAIN Line[l] :
          k < l \/ (k = l /\ x < y) => Line[k][x].id < Line[l][y].id
    BY <2>1 DEF Items, InLine
  <2>3. /\ \A x, y \in DOMAIN received : x < y => received[x].id < received[y].id
        /\ \A x, y \in DOMAIN incoming : x < y => incoming[x].id < incoming[y].id
        /\ \A x \in DOMAIN received, y \in DOMAIN incoming : received[x].id < incoming[y].id
    BY <2>1, <2>2
  <2>4. \A x \in DOMAIN s : IF x <= Len(received) THEN x \in DOMAIN received
                                                 ELSE x - Len(received) \in DOMAIN incoming
    BY <1>1, <1>2
  <2>5. i \in Nat /\ j \in Nat /\ Len(received) \in Nat
    BY <1>1, <1>2
  <2>6. CASE j <= Len(received)
    BY <1>2, <1>3, <2>3, <2>4, <2>5, <2>6
  <2>7. CASE i <= Len(received) /\ ~(j <= Len(received))
    BY <1>2, <1>3, <2>3, <2>4, <2>5, <2>7
  <2>8. CASE ~(i <= Len(received)) /\ ~(j <= Len(received))
    <3>1. /\ i - Len(received) \in DOMAIN incoming /\ s[i] = incoming[i - Len(received)]
          /\ j - Len(received) \in DOMAIN incoming /\ s[j] = incoming[j - Len(received)]
      BY <1>2, <2>4, <2>8
    <3>2. i - Len(received) < j - Len(received)
      BY <1>3, <2>5
    <3> QED
      BY <2>3, <3>1, <3>2
  <2> QED
    BY <1>3, <2>5, <2>6, <2>7, <2>8
<1>4. Increasing(Ids(s))
  BY <1>3 DEF Increasing, Ids
<1> QED
  BY <1>4 DEF IncomingInOrder, s

\* recv() returns the items in the order in which the connections yielded them,
\* whatever the read loops of old and new connections do in between (the read
\* loop, 280-318; recv, 194-206).
THEOREM ReceivedInOrder == SafeSpec => []IncomingInOrder
<1>1. SafeSpec => []Items
  BY ItemsInit, ItemsNext, PTL DEF SafeSpec
<1> QED
  BY <1>1, FirstInLine, PTL
=============================================================================
