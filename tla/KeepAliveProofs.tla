-------------------------- MODULE KeepAliveProofs --------------------------
(***************************************************************************)
(* Proofs about WebSocketKeepAlive, for any number of messages and items:  *)
(* nothing is lost or reordered between the socket and its client, and the *)
(* connection is the one that LinkSpec promises.                           *)
(***************************************************************************)
EXTENDS KeepAliveProps, SequenceTheorems, TLAPS

-----------------------------------------------------------------------------
(* Sequences.                                                              *)

LEMMA Channels ==
    ASSUME NEW S
    PROVE  /\ <<>> \in SeqUpTo(S, 1)
           /\ \A e \in S : <<e>> \in SeqUpTo(S, 1)
           /\ \A s \in SeqUpTo(S, 1) : s \in Seq(S) /\ (s # <<>> => s[1] \in S)
BY DEF SeqUpTo

\* The same of the send() that is blocked.
LEMMA Requests ==
    /\ <<>> \in SeqUpTo([msg : Msg, mode : Mode], 1)
    /\ \A m \in Msg, mode \in Mode :
         <<[msg |-> m, mode |-> mode]>> \in SeqUpTo([msg : Msg, mode : Mode], 1)
    /\ \A s \in SeqUpTo([msg : Msg, mode : Mode], 1) :
         s # <<>> => s[1].msg \in Msg /\ s[1].mode \in Mode
<1> DEFINE S == [msg : Msg, mode : Mode]
<1>1. /\ <<>> \in SeqUpTo(S, 1) /\ \A e \in S : <<e>> \in SeqUpTo(S, 1)
      /\ \A s \in SeqUpTo(S, 1) : s # <<>> => s[1] \in S
  BY Channels
<1>2. \A e \in S : e.msg \in Msg /\ e.mode \in Mode
  OBVIOUS
<1>3. \A m \in Msg, mode \in Mode : [msg |-> m, mode |-> mode] \in S
  OBVIOUS
<1> QED
  BY <1>1, <1>2, <1>3

\* What a sequence of sequences contains.
LEMMA InBoth ==
    ASSUME NEW S, NEW s \in Seq(S), NEW t \in Seq(S)
    PROVE  ToSet(s \o t) = ToSet(s) \union ToSet(t)
<1> DEFINE u == s \o t
<1>1. /\ u \in Seq(S) /\ Len(u) = Len(s) + Len(t)
      /\ \A i \in 1..Len(u) : u[i] = IF i <= Len(s) THEN s[i] ELSE t[i - Len(s)]
  OBVIOUS
<1>2. ASSUME NEW e \in ToSet(u) PROVE e \in ToSet(s) \union ToSet(t)
  <2>1. PICK i \in 1..Len(u) : u[i] = e
    BY <1>1 DEF ToSet
  <2>2. IF i <= Len(s) THEN i \in DOMAIN s /\ s[i] = e
                       ELSE i - Len(s) \in DOMAIN t /\ t[i - Len(s)] = e
    BY <1>1, <2>1
  <2> QED
    BY <2>2 DEF ToSet
<1>3. ASSUME NEW e \in ToSet(s) PROVE e \in ToSet(u)
  <2>1. PICK i \in DOMAIN s : s[i] = e
    BY DEF ToSet
  <2>2. i \in DOMAIN u /\ u[i] = e
    BY <1>1, <2>1
  <2> QED
    BY <2>2 DEF ToSet
<1>4. ASSUME NEW e \in ToSet(t) PROVE e \in ToSet(u)
  <2>1. PICK i \in DOMAIN t : t[i] = e
    BY DEF ToSet
  <2>2. i + Len(s) \in DOMAIN u /\ u[i + Len(s)] = e
    BY <1>1, <2>1
  <2> QED
    BY <2>2 DEF ToSet
<1> QED
  BY <1>2, <1>3, <1>4

LEMMA ContainsOne == ToSet(<<>>) = {} /\ \A e : ToSet(<<e>>) = {e}
BY DEF ToSet

-----------------------------------------------------------------------------
(* Types.                                                                  *)

USE MaxInIsNat

LEMMA TypeInit == Init => TypeOK
<1>1. <<>> \in Seq(Msg) /\ <<>> \in Seq(Item) /\ 0 \in 0..MaxIn
  OBVIOUS
<1>2. <<>> \in SeqUpTo(Msg, 1) /\ <<>> \in SeqUpTo(Item, 1)
  BY Channels
<1> QED
  BY <1>1, <1>2, Requests DEF Init, TypeOK

LEMMA NextItem ==
    ASSUME TypeOK, arrived < MaxIn, NEW kind \in Kind
    PROVE  /\ [kind |-> kind, id |-> arrived + 1] \in Item /\ arrived + 1 \in 0..MaxIn
           /\ LastOf(kind) \in {"no", "close", "error"}
<1>1. \A n \in 0..MaxIn : n < MaxIn => n + 1 \in 1..MaxIn /\ n + 1 \in 0..MaxIn
  OBVIOUS
<1> QED
  BY <1>1 DEF TypeOK, Item, LastOf

LEMMA TypeNext == TypeOK /\ [Next]_vars => TypeOK'
<1> SUFFICES ASSUME TypeOK, [Next]_vars PROVE TypeOK'
  OBVIOUS
<1> USE DEF TypeOK, reader, writer, client
<1>1. ASSUME NEW m \in Msg, NEW mode \in Mode, Send(m, mode) PROVE TypeOK'
  <2>1. pending' \in SeqUpTo([msg : Msg, mode : Mode], 1)
    BY <1>1, Requests DEF Send
  <2> QED
    BY <1>1, <2>1 DEF Send
<1>2. CASE SendCompletes
  <2>1. pending' \in SeqUpTo([msg : Msg, mode : Mode], 1) /\ pending[1].msg \in Msg
    BY <1>2, Requests DEF SendCompletes
  <2>2. outbuf' \in SeqUpTo(Msg, 1)
    BY <1>2, <2>1, Channels DEF SendCompletes
  <2> QED
    BY <1>2, <2>1, <2>2 DEF SendCompletes
<1>3. CASE SendFails
  <2>1. pending' \in SeqUpTo([msg : Msg, mode : Mode], 1) /\ pending[1].msg \in Msg
    BY <1>3, Requests DEF SendFails
  <2> QED
    BY <1>3, <2>1 DEF SendFails
<1>4. CASE Recv
  <2>1. received \o inbuf \in Seq(Item)
    BY Channels
  <2> QED
    BY <1>4, <2>1, Channels DEF Recv
<1>5. CASE RecvNone \/ CallClose \/ Drop
  BY <1>5 DEF RecvNone, CallClose, Drop
<1>6. CASE WTake
  BY <1>6, Channels DEF WTake
<1>7. CASE WSent
  <2>1. wire \o whand \in Seq(Msg)
    BY Channels
  <2> QED
    BY <1>7, <2>1, Channels DEF WSent
<1>8. CASE \/ WSendError \/ WPing \/ WPingSent \/ WPingError
           \/ WDisconnected \/ WAllDropped \/ WReturn
  BY <1>8 DEF WSendError, WPing, WPingSent, WPingError, WDisconnected, WAllDropped, WReturn, WLeave
<1>9. ASSUME NEW kind \in Kind, RRead(kind) PROVE TypeOK'
  <2>1. /\ [kind |-> kind, id |-> arrived + 1] \in Item /\ arrived + 1 \in 0..MaxIn
        /\ LastOf(kind) \in {"no", "close", "error"}
    BY <1>9, NextItem DEF RRead
  <2> QED
    BY <1>9, <2>1, Channels DEF RRead, RLeave
<1>10. CASE RForward
  BY <1>10, Channels DEF RForward
<1>11. CASE RForwardError \/ REndOfStream \/ RDisconnected
  BY <1>11, Channels DEF RForwardError, REndOfStream, RDisconnected, RLeave
<1>12. CASE UNCHANGED vars
  BY <1>12 DEF vars
<1> QED
  BY <1>1, <1>2, <1>3, <1>4, <1>5, <1>6, <1>7, <1>8, <1>9, <1>10, <1>11, <1>12
  DEF Next, Client, WriteLoop, ReadLoop

\* Every variable of the model keeps its type, in whatever order the client and
\* the two tasks act (the channels, the watch value and the locals of the
\* tasks, websocket_keepalive.rs 30-45 and 100-205).
THEOREM TypeCorrect == SafeSpec => []TypeOK
BY TypeInit, TypeNext, PTL DEF SafeSpec

-----------------------------------------------------------------------------
(* What the tasks have in their hands.                                     *)

\* The read loop holds an item exactly while it forwards it, the write loop a
\* message while it sends it; and a read loop that returned said so.
Hands ==
    /\ rpc = "forward" <=> rhand # <<>>
    /\ wpc \in {"select", "pinging"} => whand = <<>>
    /\ wpc = "sending" => whand # <<>>
    /\ rpc = "done" => disconnect

LEMMA HandsInit == Init => Hands
BY DEF Init, Hands

LEMMA HandsNext == TypeOK /\ Hands /\ [Next]_vars => Hands'
<1> SUFFICES ASSUME TypeOK, Hands, [Next]_vars PROVE Hands'
  OBVIOUS
<1> USE DEF Hands, reader, writer, client
<1>1. CASE Client
  BY <1>1 DEF Client, Send, SendCompletes, SendFails, Recv, RecvNone, CallClose, Drop
<1>2. CASE WriteLoop
  BY <1>2 DEF WriteLoop, WTake, WSent, WSendError, WPing, WPingSent, WPingError, WDisconnected,
              WAllDropped, WReturn, WLeave
<1>3. ASSUME NEW kind \in Kind, RRead(kind) PROVE Hands'
  BY <1>3 DEF RRead, RLeave
<1>4. CASE RForward \/ RForwardError \/ REndOfStream \/ RDisconnected
  BY <1>4 DEF RForward, RForwardError, REndOfStream, RDisconnected, RLeave
<1>5. CASE UNCHANGED vars
  BY <1>5 DEF vars
<1> QED
  BY <1>1, <1>2, <1>3, <1>4, <1>5 DEF Next, ReadLoop

LEMMA HandsHold == SafeSpec => [](TypeOK /\ Hands)
BY TypeInit, TypeNext, HandsInit, HandsNext, PTL DEF SafeSpec

-----------------------------------------------------------------------------
(* Items.                                                                  *)

\* 1, 2, ... are in order when one more comes.
LEMMA IdsGrow ==
    ASSUME NEW s \in Seq(Item), NEW n \in Nat, ReceivedIds(s) = [i \in 1..n |-> i],
           NEW e \in Item, e.id = n + 1
    PROVE  ReceivedIds(s \o <<e>>) = [i \in 1..(n + 1) |-> i]
<1>1. Len(s) = n
  <2>1. DOMAIN s = 1..n
    BY DEF ReceivedIds
  <2>2. Len(s) \in Nat /\ DOMAIN s = 1..Len(s)
    BY LenProperties
  <2>3. \A x, y \in Nat : 1..x = 1..y => x = y
    <3>1. \A x, y \in Nat : x < y => y \in 1..y /\ y \notin 1..x
      OBVIOUS
    <3>2. \A x, y \in Nat : x < y \/ y < x \/ x = y
      OBVIOUS
    <3> QED
      BY <3>1, <3>2
  <2> QED
    BY <2>1, <2>2, <2>3
<1> DEFINE t == s \o <<e>>
<1>2. /\ t \in Seq(Item) /\ DOMAIN t = 1..(n + 1)
      /\ \A i \in 1..(n + 1) : t[i] = IF i <= n THEN s[i] ELSE e
  BY <1>1
<1>3. \A i \in 1..n : s[i].id = i
  <2>1. \A i \in 1..n : ReceivedIds(s)[i] = s[i].id
    BY DEF ReceivedIds
  <2>2. \A i \in 1..n : [j \in 1..n |-> j][i] = i
    OBVIOUS
  <2> QED
    BY <2>1, <2>2
<1>4. ASSUME NEW i \in 1..(n + 1) PROVE t[i].id = i
  <2>1. CASE i <= n
    BY <1>2, <1>3, <2>1
  <2>2. CASE ~(i <= n)
    BY <1>2, <2>2
  <2> QED
    BY <2>1, <2>2
<1> HIDE DEF t
<1> QED
  BY <1>2, <1>4 DEF ReceivedIds, t

LEMMA InOrderInit == Init => IncomingInOrder
<1>1. <<>> \o <<>> \o <<>> = <<>>
  OBVIOUS
<1>2. ReceivedIds(<<>>) = [i \in 1..0 |-> i]
  BY DEF ReceivedIds
<1> QED
  BY <1>1, <1>2 DEF Init, IncomingInOrder

LEMMA InOrderNext ==
    TypeOK /\ Hands /\ IncomingInOrder /\ [Next]_vars => IncomingInOrder'
<1> SUFFICES ASSUME TypeOK, Hands, IncomingInOrder, [Next]_vars, held'
             PROVE  ReceivedIds(received' \o inbuf' \o rhand') = [i \in 1..arrived' |-> i]
  BY DEF IncomingInOrder
<1> USE DEF reader, writer, client
<1>0. /\ received \in Seq(Item) /\ inbuf \in Seq(Item) /\ rhand \in Seq(Item)
      /\ arrived \in Nat
  BY Channels DEF TypeOK
<1>1. /\ \A s \in Seq(Item) : s \o <<>> = s /\ <<>> \o s = s
      /\ received \o inbuf \in Seq(Item)
  BY <1>0
<1>2. CASE UNCHANGED <<received, inbuf, rhand, arrived, held>>
  BY <1>2 DEF IncomingInOrder
<1>3. CASE Client
  <2>1. CASE Recv
    <3>1. (received \o inbuf) \o <<>> = received \o inbuf
      BY <1>1
    <3> QED
      BY <2>1, <3>1 DEF Recv, IncomingInOrder
  <2> QED
    BY <1>2, <1>3, <2>1 DEF Client, Send, SendCompletes, SendFails, RecvNone, CallClose, Drop
<1>4. CASE WriteLoop
  BY <1>2, <1>4 DEF WriteLoop, WTake, WSent, WSendError, WPing, WPingSent, WPingError,
                    WDisconnected, WAllDropped, WReturn, WLeave
<1>5. ASSUME NEW kind \in Kind, RRead(kind)
      PROVE  ReceivedIds(received' \o inbuf' \o rhand') = [i \in 1..arrived' |-> i]
  <2> DEFINE e == [kind |-> kind, id |-> arrived + 1]
  <2>1. held /\ UNCHANGED received /\ arrived' = arrived + 1 /\ rhand = <<>> /\ arrived < MaxIn
    BY <1>5 DEF RRead, Hands
  <2>2. e \in Item /\ e.id = arrived + 1
    BY <2>1, NextItem
  <2>3. \/ inbuf = <<>> /\ inbuf' = <<e>> /\ rhand' = <<>>
        \/ inbuf' = inbuf /\ rhand' = <<e>>
    BY <1>5, <2>1 DEF RRead
  <2> HIDE DEF e
  <2>4. received \o inbuf \o rhand = received \o inbuf
    BY <1>1, <2>1
  <2>5. received' \o inbuf' \o rhand' = (received \o inbuf) \o <<e>>
    <3>1. CASE inbuf = <<>> /\ inbuf' = <<e>> /\ rhand' = <<>>
      <4>1. received \o <<>> = received /\ (received \o <<e>>) \o <<>> = received \o <<e>>
        BY <1>0, <2>2
      <4> QED
        BY <2>1, <3>1, <4>1
    <3> QED
      BY <2>1, <2>3, <3>1
  <2>6. ReceivedIds(received \o inbuf) = [i \in 1..arrived |-> i]
    BY <2>1, <2>4 DEF IncomingInOrder
  <2> DEFINE s == received \o inbuf
  <2>7. s \in Seq(Item) /\ ReceivedIds(s) = [i \in 1..arrived |-> i]
    BY <1>1, <2>6
  <2>8. received' \o inbuf' \o rhand' = s \o <<e>>
    BY <2>5
  <2> HIDE DEF s
  <2>9. ReceivedIds(s \o <<e>>) = [i \in 1..(arrived + 1) |-> i]
    BY <1>0, <2>2, <2>7, IdsGrow
  <2> QED
    BY <2>1, <2>8, <2>9
<1>6. CASE RForward
  <2>1. inbuf = <<>> /\ inbuf' = rhand /\ rhand' = <<>> /\ UNCHANGED <<received, arrived, held>>
    BY <1>6 DEF RForward
  <2>2. /\ (received \o <<>>) \o rhand = received \o rhand
        /\ (received \o rhand) \o <<>> = received \o rhand
    BY <1>0
  <2>3. received' \o inbuf' \o rhand' = received \o inbuf \o rhand
    BY <2>1, <2>2
  <2>4. ReceivedIds(received \o inbuf \o rhand) = [i \in 1..arrived |-> i]
    BY <1>6 DEF RForward, IncomingInOrder
  <2> QED
    BY <2>1, <2>3, <2>4
<1>7. CASE RForwardError \/ REndOfStream \/ RDisconnected
  <2>1. rhand = <<>> /\ rhand' = <<>> /\ UNCHANGED <<received, inbuf, arrived, held>>
    BY <1>7 DEF RForwardError, REndOfStream, RDisconnected, RLeave, Hands
  <2> QED
    BY <1>2, <2>1
<1>8. CASE UNCHANGED vars
  BY <1>2, <1>8 DEF vars
<1> QED
  BY <1>3, <1>4, <1>5, <1>6, <1>7, <1>8 DEF Next, ReadLoop

\* While its client keeps a handle, no item that the stream yielded is dropped
\* or overtaken, whatever stops the tasks (the read loop, 168-203).
THEOREM NothingSkipped == SafeSpec => []IncomingInOrder
BY TypeInit, TypeNext, HandsInit, HandsNext, InOrderInit, InOrderNext, PTL DEF SafeSpec

-----------------------------------------------------------------------------
(* Messages.                                                               *)

\* What the connection has taken, and what waits to be taken.
Taken  == ToSet(wire) \union ToSet(whand) \union ToSet(outbuf)
Asking == {pending[i].msg : i \in DOMAIN pending}

\* A message is in one of four states: not sent, waiting, taken, or returned.
Apart ==
    /\ unsent \cap (Asking \union Taken \union returned) = {}
    /\ Asking \cap (Taken \union returned) = {}
    /\ Taken \cap returned = {}

LEMMA TakenIs == TypeOK => ToSet(wire \o whand \o outbuf) = Taken
<1> SUFFICES ASSUME TypeOK PROVE ToSet(wire \o whand \o outbuf) = Taken
  OBVIOUS
<1>1. wire \in Seq(Msg) /\ whand \in Seq(Msg) /\ outbuf \in Seq(Msg)
  BY Channels DEF TypeOK
<1> DEFINE q == wire \o whand
<1>2. q \in Seq(Msg)
  BY <1>1
<1>3. ToSet(q) = ToSet(wire) \union ToSet(whand)
  BY <1>1, InBoth
<1> HIDE DEF q
<1>4. ToSet(q \o outbuf) = ToSet(q) \union ToSet(outbuf)
  BY <1>1, <1>2, InBoth
<1> QED
  BY <1>3, <1>4 DEF Taken, q

LEMMA AskingIs ==
    TypeOK => /\ pending = <<>> => Asking = {}
              /\ pending # <<>> => Asking = {pending[1].msg}
<1> SUFFICES ASSUME TypeOK
             PROVE  /\ pending = <<>> => Asking = {}
                    /\ pending # <<>> => Asking = {pending[1].msg}
  OBVIOUS
<1>1. CASE pending = <<>>
  BY <1>1 DEF Asking
<1>2. CASE pending # <<>>
  <2>1. pending \in Seq([msg : Msg, mode : Mode]) /\ Len(pending) <= 1
    BY DEF TypeOK, SeqUpTo
  <2>2. Len(pending) \in Nat /\ Len(pending) # 0
    BY <1>2, <2>1, EmptySeq
  <2>3. \A n \in Nat : n # 0 /\ n <= 1 => n = 1
    OBVIOUS
  <2>4. Len(pending) = 1
    BY <2>1, <2>2, <2>3
  <2>5. DOMAIN pending = 1..1
    BY <2>1, <2>4, LenProperties
  <2>6. DOMAIN pending = {1}
    BY <2>5
  <2> QED
    BY <1>2, <2>6 DEF Asking
<1> QED
  BY <1>1, <1>2

LEMMA AskingIsNext ==
    (TypeOK => /\ pending = <<>> => Asking = {}
               /\ pending # <<>> => Asking = {pending[1].msg})'
BY AskingIs, PTL

LEMMA ApartInit == Init => Apart
BY ContainsOne DEF Init, Apart, Taken, Asking

\* Nothing new is asked or taken.
LEMMA ApartStays ==
    ASSUME Apart, UNCHANGED unsent, Asking' \subseteq Asking,
           Taken' \subseteq Taken \union (Asking \ Asking'),
           returned' \subseteq returned \union (Asking \ Asking'),
           Taken' \subseteq Taken \/ returned' = returned
    PROVE  Apart'
BY DEF Apart

LEMMA ApartNext == TypeOK /\ TypeOK' /\ Apart /\ [Next]_vars => Apart'
<1> SUFFICES ASSUME TypeOK, TypeOK', Apart, [Next]_vars PROVE Apart'
  OBVIOUS
<1> USE DEF reader, writer, client
<1>1. ASSUME NEW m \in Msg, NEW mode \in Mode, Send(m, mode) PROVE Apart'
  <2>1. m \in unsent /\ unsent' = unsent \ {m} /\ Asking = {} /\ Taken' = Taken
    BY <1>1, AskingIs DEF Send, Taken
  <2>2. CASE UNCHANGED pending /\ returned' = returned \union {m}
    <3>1. Asking' = {}
      BY <2>1, <2>2 DEF Asking
    <3> QED
      BY <2>1, <2>2, <3>1 DEF Apart
  <2>3. CASE pending' = <<[msg |-> m, mode |-> mode]>> /\ UNCHANGED returned
    <3>1. pending' # <<>> /\ pending'[1].msg = m
      BY <2>3
    <3>2. Asking' = {m}
      BY <3>1, AskingIsNext
    <3> QED
      BY <2>1, <2>3, <3>2 DEF Apart
  <2> QED
    BY <1>1, <2>2, <2>3 DEF Send
<1>2. CASE SendCompletes
  <2>1. Asking = {pending[1].msg} /\ Asking' = {}
    BY <1>2, AskingIs, AskingIsNext DEF SendCompletes
  <2>2. Taken' = Taken \union {pending[1].msg}
    BY <1>2, ContainsOne DEF SendCompletes, Taken
  <2> QED
    BY <1>2, <2>1, <2>2, ApartStays DEF SendCompletes
<1>3. CASE SendFails
  <2>1. Asking = {pending[1].msg} /\ Asking' = {}
    BY <1>3, AskingIs, AskingIsNext DEF SendFails
  <2>2. Taken' = Taken
    BY <1>3 DEF SendFails, Taken
  <2> QED
    BY <1>3, <2>1, <2>2, ApartStays DEF SendFails
<1>4. ASSUME UNCHANGED <<pending, unsent, returned>>, Taken' \subseteq Taken PROVE Apart'
  <2>1. Asking' = Asking
    BY <1>4 DEF Asking
  <2> QED
    BY <1>4, <2>1, ApartStays
<1>5. CASE UNCHANGED <<pending, unsent, returned, wire, whand, outbuf>>
  BY <1>4, <1>5 DEF Taken
<1>6. CASE Recv \/ RecvNone \/ CallClose \/ Drop
  BY <1>5, <1>6 DEF Recv, RecvNone, CallClose, Drop
<1>7. CASE WTake
  <2>1. Taken' \subseteq Taken
    BY <1>7, ContainsOne DEF WTake, Taken
  <2> QED
    BY <1>4, <1>7, <2>1 DEF WTake
<1>8. CASE WSent
  <2>1. wire \in Seq(Msg) /\ whand \in Seq(Msg)
    BY Channels DEF TypeOK
  <2>2. ToSet(wire \o whand) = ToSet(wire) \union ToSet(whand)
    BY <2>1, InBoth
  <2>3. Taken' \subseteq Taken
    BY <1>8, <2>2, ContainsOne DEF WSent, Taken
  <2> QED
    BY <1>4, <1>8, <2>3 DEF WSent
<1>9. CASE \/ WSendError \/ WPing \/ WPingSent \/ WPingError
           \/ WDisconnected \/ WAllDropped \/ WReturn
  BY <1>5, <1>9 DEF WSendError, WPing, WPingSent, WPingError, WDisconnected, WAllDropped,
                    WReturn, WLeave
<1>10. CASE ReadLoop
  BY <1>5, <1>10 DEF ReadLoop, RRead, RForward, RForwardError, REndOfStream, RDisconnected
<1>11. CASE UNCHANGED vars
  BY <1>5, <1>11 DEF vars
<1> QED
  BY <1>1, <1>2, <1>3, <1>6, <1>7, <1>8, <1>9, <1>10, <1>11 DEF Next, Client, WriteLoop

\* A message whose send failed is in none of the hands that would write it, and
\* never will be: ReconnectingWebSocket may queue it again (25-28; send, 75-88).
THEOREM FailedIsNotSent == SafeSpec => []FailedSendIsNotSent
<1>1. TypeOK /\ Apart => FailedSendIsNotSent
  BY TakenIs DEF Apart, FailedSendIsNotSent
<1> QED
  BY <1>1, TypeInit, TypeNext, ApartInit, ApartNext, PTL DEF SafeSpec

-----------------------------------------------------------------------------
(* The connection is the one of LinkSpec.                                  *)

\* The phase of the connection and its record, as the instance of LinkSpec has
\* them.
Phase ==
    CASE wpc = "done" -> "closed" [] wpc = "closing" -> "broken" [] OTHER -> "open"

Connection ==
    [phase |-> Phase, out |-> outbuf, busy |-> whand, wire |-> wire,
     inbuf |-> inbuf, hand |-> rhand, inOpen |-> rpc # "done", eof |-> eof]

LEMMA ConnectionType == TypeOK => Connection \in LinkState
BY DEF TypeOK, Connection, Phase, LinkState

LEMMA ConnectionIs ==
    /\ Connection.phase = Phase /\ Connection.out = outbuf /\ Connection.busy = whand
    /\ Connection.wire = wire /\ Connection.inbuf = inbuf /\ Connection.hand = rhand
    /\ Connection.inOpen = (rpc # "done") /\ Connection.eof = eof
BY DEF Connection

\* Two connections with the same fields are the same.
LEMMA SameLink ==
    ASSUME NEW a \in LinkState, NEW b \in LinkState,
           a.phase = b.phase, a.out = b.out, a.busy = b.busy, a.wire = b.wire,
           a.inbuf = b.inbuf, a.hand = b.hand, a.inOpen = b.inOpen, a.eof = b.eof
    PROVE  a = b
BY DEF LinkState

LEMMA LinkInit == Init => L!LInit
BY DEF Init, L!LInit, L!NewLink

LEMMA LinkStutters ==
    ASSUME UNCHANGED <<outbuf, whand, wire, inbuf, rhand, rpc, eof, held>>, Phase' = Phase
    PROVE  [L!LNext]_(L!lvars)
BY DEF L!lvars, Phase

\* Mapped steps of the client.
LEMMA LinkClient == TypeOK /\ Client => [L!LNext]_(L!lvars)
<1> SUFFICES ASSUME TypeOK, Client PROVE [L!LNext]_(L!lvars)
  OBVIOUS
<1>1. CASE \/ \E m \in Msg, mode \in Mode : Send(m, mode)
           \/ SendFails \/ RecvNone \/ CallClose
  BY <1>1, LinkStutters DEF Send, SendFails, RecvNone, CallClose, Phase, client
<1>2. CASE SendCompletes
  <2>1. pending[1].msg \in Msg
    BY <1>2, Requests DEF SendCompletes, TypeOK
  <2>2. L!LAccept
    BY <1>2, <2>1 DEF SendCompletes, L!LAccept, L!CanAccept, L!Accept
  <2> QED
    BY <2>2 DEF L!LNext
<1>3. CASE Recv
  <2>1. L!LTake
    BY <1>3 DEF Recv, L!LTake, L!CanTake, L!Take
  <2> QED
    BY <2>1 DEF L!LNext
<1>4. CASE Drop
  <2>1. L!LDrop
    BY <1>4 DEF Drop, L!LDrop
  <2> QED
    BY <2>1 DEF L!LNext
<1> QED
  BY <1>1, <1>2, <1>3, <1>4 DEF Client

\* What a step makes of it.
LEMMA NextConnection ==
    ASSUME TypeOK', NEW l \in LinkState,
           l.phase = Phase', l.out = outbuf', l.busy = whand', l.wire = wire',
           l.inbuf = inbuf', l.hand = rhand', l.inOpen = (rpc' # "done"), l.eof = eof'
    PROVE  Connection' = l
<1>1. (TypeOK => Connection \in LinkState)'
  BY ConnectionType, PTL
<1>2. /\ Connection'.phase = Phase' /\ Connection'.out = outbuf'
      /\ Connection'.busy = whand' /\ Connection'.wire = wire'
      /\ Connection'.inbuf = inbuf' /\ Connection'.hand = rhand'
      /\ Connection'.inOpen = (rpc' # "done") /\ Connection'.eof = eof'
  BY DEF Connection
<1> QED
  BY <1>1, <1>2, SameLink

LEMMA Written ==
    ASSUME NEW l \in LinkState
    PROVE  /\ L!Write(l) \in LinkState /\ L!Write(l).phase = l.phase
           /\ L!Write(l).out = l.out /\ L!Write(l).busy = <<>>
           /\ L!Write(l).wire = l.wire \o l.busy /\ L!Write(l).inbuf = l.inbuf
           /\ L!Write(l).hand = l.hand /\ L!Write(l).inOpen = l.inOpen
           /\ L!Write(l).eof = l.eof
<1>1. l.wire \in Seq(Msg) /\ l.busy \in Seq(Msg)
  BY Channels DEF LinkState
<1>2. l.wire \o l.busy \in Seq(Msg) /\ <<>> \in SeqUpTo(Msg, 1)
  BY <1>1, Channels
<1> QED
  BY <1>2 DEF L!Write, LinkState

LEMMA Arrived ==
    ASSUME NEW l \in LinkState, NEW i \in Item,
           L!LastOf(i.kind) \in {"no", "close", "error"}
    PROVE  /\ L!Arrive(l, i) \in LinkState /\ L!Arrive(l, i).phase = l.phase
           /\ L!Arrive(l, i).out = l.out /\ L!Arrive(l, i).busy = l.busy
           /\ L!Arrive(l, i).wire = l.wire /\ L!Arrive(l, i).inOpen = l.inOpen
           /\ L!Arrive(l, i).inbuf = (IF l.inbuf = <<>> THEN <<i>> ELSE l.inbuf)
           /\ L!Arrive(l, i).hand = (IF l.inbuf = <<>> THEN <<>> ELSE <<i>>)
           /\ L!Arrive(l, i).eof = L!LastOf(i.kind)
<1>1. <<>> \in SeqUpTo(Item, 1) /\ <<i>> \in SeqUpTo(Item, 1)
  BY Channels
<1> DEFINE a == IF l.inbuf = <<>> THEN <<i>> ELSE l.inbuf
           b == IF l.inbuf = <<>> THEN <<>> ELSE <<i>>
<1>2. a \in SeqUpTo(Item, 1) /\ b \in SeqUpTo(Item, 1)
  BY <1>1 DEF LinkState
<1> QED
  BY <1>2 DEF L!Arrive, LinkState

LEMMA LinkWriteLoop == TypeOK /\ TypeOK' /\ Hands /\ WriteLoop => [L!LNext]_(L!lvars)
<1> SUFFICES ASSUME TypeOK, TypeOK', Hands, WriteLoop PROVE [L!LNext]_(L!lvars)
  OBVIOUS
<1> USE DEF reader, client
<1>1. CASE WTake
  <2>1. /\ wpc = "select" /\ wpc' = "sending" /\ whand = <<>> /\ outbuf # <<>>
        /\ rpc # "done" /\ whand' = outbuf /\ outbuf' = <<>>
        /\ UNCHANGED <<wire, inbuf, rhand, rpc, eof, held>>
    BY <1>1 DEF WTake, Hands
  <2>2. L!CanFetch(Connection)
    BY <2>1, ConnectionIs DEF L!CanFetch, Phase
  <2>3. /\ L!Fetch(Connection) \in LinkState
        /\ L!Fetch(Connection).phase = Phase /\ L!Fetch(Connection).out = <<>>
        /\ L!Fetch(Connection).busy = outbuf /\ L!Fetch(Connection).wire = wire
        /\ L!Fetch(Connection).inbuf = inbuf /\ L!Fetch(Connection).hand = rhand
        /\ L!Fetch(Connection).inOpen = (rpc # "done") /\ L!Fetch(Connection).eof = eof
    BY ConnectionType, ConnectionIs, Channels DEF L!Fetch, LinkState
  <2>4. Connection' = L!Fetch(Connection)
    BY <2>1, <2>3, NextConnection DEF Phase
  <2>5. L!LFetch
    BY <2>1, <2>2, <2>4 DEF L!LFetch, Connection, Phase
  <2> QED
    BY <2>5 DEF L!LNext
<1>2. CASE WSent
  <2>1. /\ wpc = "sending" /\ wpc' = "select" /\ whand # <<>> /\ eof # "close"
        /\ whand' = <<>> /\ wire' = wire \o whand
        /\ UNCHANGED <<outbuf, inbuf, rhand, rpc, eof, held>>
    BY <1>2 DEF WSent, Hands
  <2>2. L!CanWrite(Connection)
    BY <2>1, ConnectionIs DEF L!CanWrite, Phase
  <2>3. /\ L!Write(Connection) \in LinkState
        /\ L!Write(Connection).phase = Phase /\ L!Write(Connection).out = outbuf
        /\ L!Write(Connection).busy = <<>> /\ L!Write(Connection).wire = wire \o whand
        /\ L!Write(Connection).inbuf = inbuf /\ L!Write(Connection).hand = rhand
        /\ L!Write(Connection).inOpen = (rpc # "done") /\ L!Write(Connection).eof = eof
    BY ConnectionType, ConnectionIs, Written
  <2>4. Connection' = L!Write(Connection)
    BY <2>1, <2>3, NextConnection DEF Phase
  <2>5. L!LWrite
    BY <2>1, <2>2, <2>4 DEF L!LWrite, Connection, Phase
  <2> QED
    BY <2>5 DEF L!LNext
<1>3. CASE WSendError \/ WPingError \/ WDisconnected \/ WAllDropped
  <2>1. /\ wpc \in {"sending", "pinging", "select"} /\ wpc' = "closing"
        /\ UNCHANGED <<outbuf, whand, wire, inbuf, rhand, rpc, eof, held>>
    BY <1>3 DEF WSendError, WPingError, WDisconnected, WAllDropped, WLeave
  <2>2. L!LBreak
    BY <2>1 DEF L!LBreak, L!CanBreak, L!Break
  <2> QED
    BY <2>2 DEF L!LNext
<1>4. CASE WPing \/ WPingSent
  BY <1>4, LinkStutters DEF WPing, WPingSent, Phase
<1>5. CASE WReturn
  <2>1. L!LClose
    BY <1>5 DEF WReturn, L!LClose, L!CanClose, L!Close
  <2> QED
    BY <2>1 DEF L!LNext
<1> QED
  BY <1>1, <1>2, <1>3, <1>4, <1>5 DEF WriteLoop

LEMMA LinkReadLoop == TypeOK /\ TypeOK' /\ Hands /\ ReadLoop => [L!LNext]_(L!lvars)
<1> SUFFICES ASSUME TypeOK, TypeOK', Hands, ReadLoop PROVE [L!LNext]_(L!lvars)
  OBVIOUS
<1> USE DEF writer, client
<1>1. ASSUME NEW kind \in Kind, RRead(kind) PROVE [L!LNext]_(L!lvars)
  <2> DEFINE e == [kind |-> kind, id |-> arrived + 1]
  <2>1. e \in Item /\ e.kind = kind
    BY <1>1, NextItem DEF RRead
  <2>2. /\ L!LastOf(e.kind) = LastOf(kind) /\ L!Item = Item
        /\ LastOf(kind) \in {"no", "close", "error"}
    BY DEF L!LastOf, LastOf, L!Item, Item, L!Kind, Kind
  <2>3. /\ rpc = "select" /\ rhand = <<>> /\ eof = "no"
        /\ UNCHANGED <<outbuf, wpc, whand, wire, held>>
    BY <1>1 DEF RRead, Hands
  <2>4. CASE held
    <3>1. /\ eof' = LastOf(kind) /\ rpc' # "done"
          /\ inbuf' = IF inbuf = <<>> THEN <<e>> ELSE inbuf
          /\ rhand' = IF inbuf = <<>> THEN <<>> ELSE <<e>>
      BY <1>1, <2>3, <2>4 DEF RRead
    <3> HIDE DEF e
    <3>2. eof' = L!LastOf(e.kind)
      BY <2>2, <3>1
    <3>3. L!CanArrive(Connection, held)
      BY <2>3, <2>4, ConnectionIs DEF L!CanArrive, Phase
    <3>4. /\ L!Arrive(Connection, e) \in LinkState
          /\ L!Arrive(Connection, e).phase = Phase /\ L!Arrive(Connection, e).out = outbuf
          /\ L!Arrive(Connection, e).busy = whand /\ L!Arrive(Connection, e).wire = wire
          /\ L!Arrive(Connection, e).inbuf = inbuf' /\ L!Arrive(Connection, e).hand = rhand'
          /\ L!Arrive(Connection, e).inOpen = (rpc # "done") /\ L!Arrive(Connection, e).eof = eof'
      BY <2>1, <2>2, <3>1, <3>2, ConnectionType, ConnectionIs, Arrived
    <3>5. Connection' = L!Arrive(Connection, e)
      BY <2>3, <3>1, <3>4, NextConnection DEF Phase
    <3>6. L!LArrive
      BY <2>1, <2>2, <2>3, <3>3, <3>5 DEF L!LArrive, Connection, Phase
    <3> QED
      BY <3>6 DEF L!LNext
  <2>5. CASE ~held
    <3>1. rpc' = "done" /\ rhand' = <<>> /\ UNCHANGED <<inbuf, eof>>
      BY <1>1, <2>5 DEF RRead, RLeave
    <3>2. L!CanRefuse(Connection, held)
      BY <2>3, <2>5, ConnectionIs DEF L!CanRefuse, Phase
    <3>3. /\ L!End(Connection) \in LinkState
          /\ L!End(Connection).phase = Phase /\ L!End(Connection).out = outbuf
          /\ L!End(Connection).busy = whand /\ L!End(Connection).wire = wire
          /\ L!End(Connection).inbuf = inbuf /\ L!End(Connection).hand = <<>>
          /\ L!End(Connection).inOpen = FALSE /\ L!End(Connection).eof = eof
      BY ConnectionType, ConnectionIs, Channels DEF L!End, LinkState
    <3>4. Connection' = L!End(Connection)
      BY <2>3, <3>1, <3>3, NextConnection DEF Phase
    <3>5. L!LRefuse
      BY <2>3, <3>2, <3>4 DEF L!LRefuse, Connection, Phase
    <3> QED
      BY <3>5 DEF L!LNext
  <2> QED
    BY <2>4, <2>5
<1>2. CASE RForward
  <2>1. /\ rpc # "done" /\ rpc' # "done" /\ rhand # <<>> /\ inbuf = <<>>
        /\ inbuf' = rhand /\ rhand' = <<>>
        /\ UNCHANGED <<outbuf, wpc, whand, wire, eof, held>>
    BY <1>2 DEF RForward, Hands
  <2>2. L!CanPush(Connection)
    BY <2>1, ConnectionIs DEF L!CanPush, Phase
  <2>3. /\ L!Push(Connection) \in LinkState
        /\ L!Push(Connection).phase = Phase /\ L!Push(Connection).out = outbuf
        /\ L!Push(Connection).busy = whand /\ L!Push(Connection).wire = wire
        /\ L!Push(Connection).inbuf = rhand /\ L!Push(Connection).hand = <<>>
        /\ L!Push(Connection).inOpen = (rpc # "done") /\ L!Push(Connection).eof = eof
    BY ConnectionType, ConnectionIs, Channels DEF L!Push, LinkState
  <2>4. Connection' = L!Push(Connection)
    BY <2>1, <2>3, NextConnection DEF Phase
  <2>5. L!LPush
    BY <2>1, <2>2, <2>4 DEF L!LPush, Connection, Phase
  <2> QED
    BY <2>5 DEF L!LNext
<1>3. ASSUME RLeave, rpc # "done", UNCHANGED <<outbuf, wpc, whand, wire, inbuf, eof, held>>,
             IF rhand = <<>> THEN TRUE ELSE ~held
      PROVE  [L!LNext]_(L!lvars)
  <2>1. rpc' = "done" /\ rhand' = <<>>
    BY <1>3 DEF RLeave
  <2>2. /\ L!End(Connection) \in LinkState
        /\ L!End(Connection).phase = Phase /\ L!End(Connection).out = outbuf
        /\ L!End(Connection).busy = whand /\ L!End(Connection).wire = wire
        /\ L!End(Connection).inbuf = inbuf /\ L!End(Connection).hand = <<>>
        /\ L!End(Connection).inOpen = FALSE /\ L!End(Connection).eof = eof
    BY ConnectionType, ConnectionIs, Channels DEF L!End, LinkState
  <2>3. Connection' = L!End(Connection)
    BY <1>3, <2>1, <2>2, NextConnection DEF Phase
  <2>4. CASE rhand = <<>>
    <3>1. L!CanStop(Connection)
      BY <1>3, <2>4, ConnectionIs DEF L!CanStop
    <3>2. L!LStop
      BY <1>3, <2>3, <3>1 DEF L!LStop, Connection, Phase
    <3> QED
      BY <3>2 DEF L!LNext
  <2>5. CASE rhand # <<>>
    <3>1. L!CanEnd(Connection, held)
      BY <1>3, <2>5, ConnectionIs DEF L!CanEnd
    <3>2. L!LEnd
      BY <1>3, <2>3, <3>1 DEF L!LEnd, Connection, Phase
    <3> QED
      BY <3>2 DEF L!LNext
  <2> QED
    BY <2>4, <2>5
<1>4. CASE RForwardError \/ REndOfStream \/ RDisconnected
  BY <1>3, <1>4 DEF RForwardError, REndOfStream, RDisconnected, Hands
<1> QED
  BY <1>1, <1>2, <1>4 DEF ReadLoop

LEMMA LinkNext == TypeOK /\ Hands /\ [Next]_vars => [L!LNext]_(L!lvars)
<1> SUFFICES ASSUME TypeOK, Hands, [Next]_vars PROVE [L!LNext]_(L!lvars)
  OBVIOUS
<1>1. TypeOK'
  BY TypeNext
<1>2. CASE Next
  BY <1>1, <1>2, LinkClient, LinkWriteLoop, LinkReadLoop DEF Next
<1>3. CASE UNCHANGED vars
  BY <1>3, LinkStutters DEF vars, client, Phase
<1> QED
  BY <1>2, <1>3

\* The two tasks, the channels and the watch value are one connection as
\* LinkSpec describes it, step by step: ReconnectingWebSocket, which models each
\* of its connections by the record of Link, leaves nothing out that its client
\* could see.  (The fairness of LinkSpec is not part of this.)
THEOREM LinkImplemented == SafeSpec => L!LSafety
BY HandsHold, LinkInit, LinkNext, PTL DEF SafeSpec, L!LSafety
=============================================================================
