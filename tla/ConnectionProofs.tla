--------------------------- MODULE ConnectionProofs ---------------------------
(***************************************************************************)
(* connection_get_byte implements ByteStream for streams of any length, any*)
(* netbufs and any build: every byte once, in order, and none after a      *)
(* failure until there is a new connection.                                *)
(***************************************************************************)
EXTENDS Connection, TLAPS

\* The position after the last byte of fragment f, and of netbuf b.
After(f) == f.start + f.len
End(b) == After(b[Len(b)])

\* Netbuf b holds consecutive bytes out of the first n.
Linked(b, n) ==
  /\ b \in Netbuf
  /\ \A j \in 1..(Len(b) - 1) : b[j + 1].start = After(b[j])
  /\ \A j \in 1..Len(b) : After(b[j]) <= n + 1

\* The first byte that is not yet in the client's hands.
Due == IF held = NoBuf THEN got + 1 ELSE End(held)

\* The mailbox goes on where the held netbuf ends.
Chain ==
  /\ held # NoBuf => Linked(held, sent)
  /\ \A i \in 1..Len(inbox) : Linked(inbox[i], sent)
  /\ \A i \in 1..(Len(inbox) - 1) : inbox[i + 1][1].start = End(inbox[i])
  /\ inbox = <<>> => Due = sent + 1
  /\ inbox # <<>> => inbox[1][1].start = Due /\ End(inbox[Len(inbox)]) = sent + 1

\* The state machine stands right behind the last byte handed over.
Cursor ==
  /\ state \in {"initialized", "receiving"} => Due = got + 1
  /\ state = "received" =>
       /\ held # NoBuf
       /\ ~processed => held[1].start = got + 1
       /\ processed => at \in 1..Len(held) /\ After(held[at]) = got + 1
  /\ state = "filled" =>
       /\ held # NoBuf /\ processed
       /\ at \in 1..Len(held)
       /\ start = got + 1 /\ start + len = After(held[at])

\* Between connections nothing of the old one is left in the mailbox.
Fresh ==
  /\ pc \in {"choose", "resolve", "retry", "connect", "hello"} => inbox = <<>>
  /\ pc = "hello" => sent = 0 /\ got = 0 /\ last = 0

\* The inductive invariant.
StreamInv == TypeOK /\ Fresh /\ (Readable => Chain /\ Cursor)

-----------------------------------------------------------------------------
\* Nothing is held and nothing is sent at start-up.
LEMMA StreamInit == Init => StreamInv
  <1> SUFFICES ASSUME Init PROVE StreamInv
    OBVIOUS
  <1>1. TypeOK
    <2>1. inbox \in Seq(Netbuf) /\ up \in [Netifs -> BOOLEAN]
      BY DEF Init
    <2> QED BY <2>1 DEF Init, TypeOK
  <1>2. Fresh /\ ~Readable
    BY DEF Init, Fresh, Readable
  <1> QED BY <1>1, <1>2 DEF StreamInv

\* Steps that leave everything but links, settings and the connection's fate
\* alone keep the invariant, as long as the state is the same.
LEMMA StreamSame ==
  ASSUME StreamInv, TypeOK', Fresh',
         UNCHANGED <<pc, inbox, sent, state, processed, held, at, start, len, got>>
  PROVE  StreamInv'
  BY DEF StreamInv, Readable, Chain, Cursor, Due, End, After, Linked

\* A step after which nothing can be read only has to keep types and Fresh.
LEMMA StreamClosed ==
  ASSUME TypeOK', Fresh', ~Readable'
  PROVE  StreamInv'
  BY DEF StreamInv

\* The steps of setup_network.
LEMMA SetupStep ==
  ASSUME StreamInv, SetupNetwork
  PROVE  StreamInv'
  <1> USE DEF StreamInv, TypeOK, Fresh, network, buffer, reader
  <1>1. CASE DeleteNetconn
    BY <1>1, StreamClosed DEF DeleteNetconn, Readable
  <1>2. CASE ChooseInterface
    BY <1>2, StreamClosed DEF ChooseInterface, Readable, Netifs
  <1>3. CASE QueryFails \/ QueryAgain \/ StaticServer \/ NoServer
    <2>1. TypeOK'
      BY <1>3 DEF QueryFails, QueryAgain, StaticServer, NoServer
    <2>2. ~Readable' /\ Fresh'
      BY <1>3 DEF QueryFails, QueryAgain, StaticServer, NoServer, Readable
    <2> QED BY <2>1, <2>2, StreamClosed
  <1>4. CASE ServerFound
    <2>1. TypeOK'
      BY <1>4, ConnectionAssumption DEF ServerFound
    <2>2. ~Readable' /\ Fresh'
      BY <1>4 DEF ServerFound, Readable
    <2> QED BY <2>1, <2>2, StreamClosed
  <1>5. CASE Connect
    BY <1>5, StreamClosed DEF Connect, Readable
  <1>6. CASE ConnectFails \/ HelloFails
    BY <1>6, StreamClosed DEF ConnectFails, HelloFails, Readable
  <1>7. CASE Hello
    <2>1. TypeOK' /\ Fresh'
      BY <1>7 DEF Hello
    <2>2. inbox' = <<>> /\ held' = NoBuf /\ sent' = 0 /\ got' = 0 /\ state' = "initialized"
      BY <1>7 DEF Hello
    <2>3. Chain' /\ Cursor'
      BY <2>2 DEF Chain, Cursor, Due
    <2> QED BY <2>1, <2>3
  <1> QED BY <1>1, <1>2, <1>3, <1>4, <1>5, <1>6, <1>7 DEF SetupNetwork

\* A netbuf of a stream is one of the same stream when that has grown.
LEMMA LinkedLonger ==
  ASSUME NEW c, NEW s \in Nat, NEW t \in Nat, s <= t, Linked(c, s)
  PROVE  Linked(c, t)
  <1>1. \A j \in 1..Len(c) : c[j] \in Frag
    BY DEF Linked, Netbuf
  <1>2. \A j \in 1..Len(c) : After(c[j]) \in Nat
    BY <1>1 DEF Frag, After
  <1>3. \A a \in Nat : a <= s + 1 => a <= t + 1
    OBVIOUS
  <1>4. \A j \in 1..Len(c) : After(c[j]) <= t + 1
    BY <1>2, <1>3 DEF Linked
  <1> QED BY <1>4 DEF Linked

\* What lwIP appends to the mailbox continues the stream.
LEMMA ArriveStep ==
  ASSUME StreamInv, NEW n \in 1..MaxLen, NEW m \in 0..MaxLen, Arrive(n, m)
  PROVE  StreamInv'
  <1> DEFINE first  == [start |-> sent + 1, len |-> n]
             second == [start |-> sent + n + 1, len |-> m]
             b == IF m = 0 THEN <<first>> ELSE <<first, second>>
  <1>0. n \in Nat \ {0} /\ m \in Nat /\ sent \in Nat /\ inbox \in Seq(Netbuf)
    BY ConnectionAssumption DEF StreamInv, TypeOK
  <1>1. /\ inbox' = Append(inbox, b) /\ sent' = sent + n + m
        /\ UNCHANGED <<pc, netif, up, conn, state, buffer, isMuted, reader>>
    BY DEF Arrive
  <1>2. first \in Frag /\ (m # 0 => second \in Frag)
    BY <1>0 DEF Frag
  <1>3. b \in Netbuf /\ b[1].start = sent + 1 /\ End(b) = sent' + 1
    <2>1. CASE m = 0
      BY <1>0, <1>1, <1>2, <2>1 DEF Netbuf, End, After
    <2>2. CASE m # 0
      BY <1>0, <1>1, <1>2, <2>2 DEF Netbuf, End, After
    <2> QED BY <2>1, <2>2
  <1>4. Linked(b, sent')
    <2>1. CASE m = 0
      <3>1. b = <<first>> /\ Len(b) = 1 /\ After(b[1]) = sent' + 1
        BY <1>0, <1>1, <2>1 DEF After
      <3> QED BY <1>3, <3>1, <1>0, <1>1 DEF Linked
    <2>2. CASE m # 0
      <3>1. /\ b = <<first, second>> /\ Len(b) = 2
            /\ After(b[1]) = sent + n + 1 /\ After(b[2]) = sent' + 1
            /\ b[2].start = After(b[1])
        <4>1. b = <<first, second>>
          BY <2>2
        <4>2. Len(b) = 2 /\ b[1] = first /\ b[2] = second
          BY <4>1
        <4>3. After(first) = sent + n + 1 /\ After(second) = sent' + 1
          BY <1>0, <1>1 DEF After
        <4> QED BY <4>1, <4>2, <4>3
      <3>2. \A j \in 1..2 : After(b[j]) <= sent' + 1
        BY <1>0, <1>1, <3>1
      <3> QED BY <1>3, <3>1, <3>2, <1>0, <1>1 DEF Linked
    <2> QED BY <2>1, <2>2
  <1>5. ASSUME NEW c, Linked(c, sent) PROVE Linked(c, sent')
    <2>1. sent <= sent' /\ sent \in Nat /\ sent' \in Nat
      BY <1>0, <1>1
    <2> QED BY <1>5, <2>1, LinkedLonger
  <1>6. TypeOK' /\ Fresh'
    BY <1>0, <1>1, <1>3 DEF StreamInv, TypeOK, Fresh, buffer, reader, Arrive
  <1>7. ASSUME Readable' PROVE Chain' /\ Cursor'
    <2>1. Chain /\ Cursor /\ Due' = Due
      BY <1>1, <1>7 DEF StreamInv, Readable, Due, End, buffer, reader
    <2>2. Cursor'
      BY <1>1, <2>1 DEF Cursor, buffer, reader, Due
    <2> HIDE DEF b
    <2>3. /\ Len(inbox') = Len(inbox) + 1 /\ inbox' # <<>>
          /\ inbox'[Len(inbox')] = b
          /\ \A i \in 1..Len(inbox) : inbox'[i] = inbox[i]
      BY <1>0, <1>1, <1>3
    <2>4. held' # NoBuf => Linked(held', sent')
      BY <1>1, <1>5, <2>1 DEF Chain, buffer
    <2>5. ASSUME NEW i \in 1..Len(inbox') PROVE Linked(inbox'[i], sent')
      <3>1. CASE i = Len(inbox')
        BY <1>4, <2>3, <3>1
      <3>2. CASE i # Len(inbox')
        <4>1. i \in 1..Len(inbox) /\ inbox'[i] = inbox[i]
          BY <2>3, <3>2
        <4> QED BY <1>5, <2>1, <4>1 DEF Chain
      <3> QED BY <3>1, <3>2
    <2>6. \A i \in 1..(Len(inbox') - 1) : inbox'[i + 1][1].start = End(inbox'[i])
      BY <1>0, <1>3, <2>1, <2>3 DEF Chain
    <2>7. inbox'[1][1].start = Due'
      BY <1>0, <1>3, <2>1, <2>3 DEF Chain
    <2> QED BY <1>3, <2>2, <2>3, <2>4, <2>5, <2>6, <2>7 DEF Chain, End
  <1> QED BY <1>6, <1>7 DEF StreamInv

\* The steps inside connection_get_byte.
LEMMA GetStep ==
  ASSUME StreamInv, GetBytes
  PROVE  StreamInv'
  <1> USE DEF StreamInv, TypeOK, Fresh, network, buffer, reader
  <1>1. CASE DropNetbuf
    <2>1. TypeOK' /\ Fresh'
      BY <1>1 DEF DropNetbuf
    <2>2. Chain /\ Cursor /\ Due = got + 1
      BY <1>1 DEF DropNetbuf, Readable, Cursor
    <2>3. Due' = Due
      BY <1>1, <2>2 DEF DropNetbuf, Due, End
    <2>4. Chain'
      BY <1>1, <2>2, <2>3 DEF DropNetbuf, Chain, Linked, End
    <2>5. Cursor'
      BY <1>1, <2>2, <2>3 DEF DropNetbuf, Cursor
    <2> QED BY <2>1, <2>4, <2>5
  <1>2. CASE Receive /\ PreferEth
    <2>1. Tail(inbox) \in Seq(Netbuf)
      BY <1>2 DEF Receive
    <2> QED BY <1>2, <2>1, StreamClosed DEF Receive, Readable
  <1>3. CASE Receive /\ ~PreferEth
    <2>1. /\ inbox # <<>> /\ inbox' = Tail(inbox) /\ held' = inbox[1]
          /\ processed' = FALSE /\ state' = "received" /\ state = "receiving"
          /\ UNCHANGED <<pc, sent, got>> /\ pc = "read"
      BY <1>3 DEF Receive
    <2>2. Chain /\ Cursor /\ Due = got + 1
      BY <2>1 DEF Readable, Cursor
    <2>3. /\ Len(inbox') = Len(inbox) - 1 /\ Len(inbox) >= 1
          /\ \A i \in 1..Len(inbox') : inbox'[i] = inbox[i + 1]
          /\ inbox' \in Seq(Netbuf) /\ inbox[1] \in Netbuf
      BY <2>1
    <2>4. TypeOK' /\ Fresh'
      BY <1>3, <2>1, <2>3 DEF Receive
    <2>5. held' # NoBuf /\ Linked(held', sent') /\ held'[1].start = got + 1
      BY <2>1, <2>2, <2>3, ConnectionAssumption DEF Chain, Linked
    <2>6. Cursor'
      BY <2>1, <2>5 DEF Cursor
    <2>7. Due' = End(inbox[1])
      BY <2>1, <2>5 DEF Due, End
    <2>8. \A i \in 1..Len(inbox') : Linked(inbox'[i], sent')
      BY <2>1, <2>2, <2>3 DEF Chain, Linked
    <2>9. ASSUME NEW i \in 1..(Len(inbox') - 1)
          PROVE  inbox'[i + 1][1].start = End(inbox'[i])
      <3>1. i + 1 \in 1..(Len(inbox) - 1) /\ i \in 1..Len(inbox') /\ i + 1 \in 1..Len(inbox')
        BY <2>3
      <3>2. inbox'[i] = inbox[i + 1] /\ inbox'[i + 1] = inbox[(i + 1) + 1]
        BY <2>3, <3>1
      <3> QED BY <2>2, <3>1, <3>2 DEF Chain
    <2>10. End(inbox[Len(inbox)]) = sent' + 1
      BY <2>1, <2>2 DEF Chain
    <2>11. inbox' = <<>> => Due' = sent' + 1
      <3>1. inbox' = <<>> => Len(inbox) = 1
        BY <2>3
      <3> QED BY <2>7, <2>10, <3>1
    <2>12. inbox' # <<>> => inbox'[1][1].start = Due' /\ End(inbox'[Len(inbox')]) = sent' + 1
      <3> SUFFICES ASSUME inbox' # <<>>
                   PROVE  inbox'[1][1].start = Due' /\ End(inbox'[Len(inbox')]) = sent' + 1
        OBVIOUS
      <3>1. Len(inbox') >= 1 /\ Len(inbox) >= 2
        BY <2>3
      <3>2. inbox'[1] = inbox[2] /\ inbox'[Len(inbox')] = inbox[Len(inbox)]
        BY <2>3, <3>1
      <3>3. inbox[1 + 1][1].start = End(inbox[1])
        BY <2>2, <3>1 DEF Chain
      <3> QED BY <2>7, <2>10, <3>2, <3>3
    <2>13. Chain'
      BY <2>5, <2>8, <2>9, <2>11, <2>12 DEF Chain, End
    <2> QED BY <2>4, <2>6, <2>13
  <1>4. CASE ReceiveError
    BY <1>4, StreamSame DEF ReceiveError
  <1>5. CASE ReceiveClosed
    BY <1>5, StreamClosed DEF ReceiveClosed, Readable
  <1>6. CASE FillBuffer
    <2> DEFINE i == IF processed THEN at + 1 ELSE 1
    <2>1. /\ processed' = TRUE /\ state = "received" /\ pc = "read"
          /\ UNCHANGED <<pc, netif, network, firstReceive, held, lost, isMuted, reader>>
      BY <1>6 DEF FillBuffer
    <2>2. Chain /\ Cursor /\ held # NoBuf /\ Linked(held, sent)
      BY <2>1 DEF Readable, Cursor, Chain
    <2>3. held \in Netbuf /\ Len(held) \in Nat \ {0} /\ i \in Nat \ {0}
      BY <2>2 DEF Linked, Netbuf, Cursor
    <2>4. Chain' /\ Due' = Due
      BY <2>1, <2>2 DEF Chain, Due, Linked, End
    <2>5. CASE i <= Len(held)
      <3>1. held[i] \in Frag /\ held[i].start = got + 1
        BY <2>1, <2>2, <2>3, <2>5 DEF Cursor, Linked, Netbuf
      <3>2. at' = i /\ start' = held[i].start /\ len' = held[i].len /\ state' = "filled"
        BY <1>6, <2>5 DEF FillBuffer
      <3>3. TypeOK' /\ Fresh'
        BY <2>1, <2>3, <3>1, <3>2 DEF Frag
      <3>4. Cursor'
        BY <2>1, <2>2, <2>3, <2>5, <3>1, <3>2 DEF Cursor, After
      <3> QED BY <2>4, <3>3, <3>4
    <2>6. CASE ~(i <= Len(held))
      <3>1. state' = "initialized" /\ UNCHANGED <<at, start, len>>
        BY <1>6, <2>6 DEF FillBuffer
      <3>2. processed /\ at = Len(held)
        BY <2>1, <2>2, <2>3, <2>6 DEF Cursor
      <3>3. TypeOK' /\ Fresh'
        BY <2>1, <3>1
      <3>4. Cursor'
        BY <2>1, <2>2, <2>4, <3>1, <3>2 DEF Cursor, Due, End
      <3> QED BY <2>4, <3>3, <3>4
    <2> QED BY <2>5, <2>6
  <1>7. CASE BufferEmpty
    <2>1. TypeOK' /\ Fresh' /\ Chain /\ Cursor
      BY <1>7 DEF BufferEmpty, Readable
    <2>2. Chain'
      BY <1>7, <2>1 DEF BufferEmpty, Chain, Due, Linked, End
    <2>3. Cursor'
      BY <1>7, <2>1 DEF BufferEmpty, Cursor
    <2> QED BY <2>1, <2>2, <2>3
  <1>8. CASE GetByte
    <2>1. /\ state = "filled" /\ pc = "read" /\ len > 0 /\ got' = got + 1
          /\ start' = start + 1 /\ len' = len - 1 /\ last' = start
          /\ isMuted' \in BOOLEAN /\ pc' \in {"read", "setup"}
          /\ UNCHANGED <<netif, network, state, firstReceive, processed, held, at, lost>>
      BY <1>8 DEF GetByte
    <2>2. TypeOK' /\ Fresh' /\ Chain /\ Cursor
      BY <2>1 DEF Readable
    <2>3. held # NoBuf /\ Due' = Due
      BY <2>1, <2>2 DEF Cursor, Due, End
    <2>4. Chain'
      BY <2>1, <2>2, <2>3 DEF Chain, Linked, End
    <2>5. Cursor'
      BY <2>1, <2>2, <2>3 DEF Cursor
    <2> QED BY <2>2, <2>4, <2>5
  <1>9. CASE RestartConnection
    BY <1>9, StreamClosed DEF RestartConnection, Readable
  <1> QED
    BY <1>1, <1>2, <1>3, <1>4, <1>5, <1>6, <1>7, <1>8, <1>9 DEF GetBytes

\* The invariant is inductive.
LEMMA StreamNext == StreamInv /\ [Next]_vars => StreamInv'
  <1> SUFFICES ASSUME StreamInv, [Next]_vars PROVE StreamInv'
    OBVIOUS
  <1> USE DEF StreamInv, TypeOK, Fresh, network, buffer, reader
  <1>1. ASSUME NEW i \in Netifs, LinkChange(i) PROVE StreamInv'
    BY <1>1, StreamSame DEF LinkChange
  <1>2. CASE Abort
    BY <1>2, StreamSame DEF Abort
  <1>3. CASE SetMdns
    <2>1. mdns' \in BOOLEAN
      BY <1>3 DEF SetMdns
    <2>2. UNCHANGED <<pc, netif, up, conn, inbox, sent, state, buffer, isMuted, reader>>
      BY <1>3 DEF SetMdns
    <2>3. TypeOK' /\ Fresh'
      BY <2>1, <2>2
    <2> QED BY <2>2, <2>3, StreamSame
  <1>4. CASE ServerSends
    BY <1>4, ArriveStep DEF ServerSends
  <1>5. CASE UNCHANGED vars
    BY <1>5, StreamSame DEF vars
  <1> QED BY <1>1, <1>2, <1>3, <1>4, <1>5, SetupStep, GetStep DEF Next, Network

-----------------------------------------------------------------------------
\* The types of the connection and of http_get_task's view of it.
THEOREM ConnectionTypes == Spec => []TypeOK
  <1>1. StreamInv => TypeOK
    BY DEF StreamInv
  <1> QED BY <1>1, StreamInit, StreamNext, PTL DEF Spec

\* No netbuf is read that was deleted or never received.
THEOREM NetbufAlwaysValid == Spec => []NetbufValid
  <1>1. StreamInv => NetbufValid
    BY DEF StreamInv, NetbufValid, Readable, Cursor
  <1> QED BY <1>1, StreamInit, StreamNext, PTL DEF Spec

\* connection_get_byte hands over the stream: each step of the connection is a
\* step of ByteStream or none.
THEOREM ConnectionInOrder == Spec => InOrder
  <1> USE DEF Stream!vars, Stream!Next, Readable
  <1>1. Init => Stream!Init
    BY DEF Init, Stream!Init
  <1>2. ASSUME StreamInv, [Next]_vars PROVE [Stream!Next]_(Stream!vars)
    <2> USE DEF network, buffer, reader
    <2>1. CASE SetupNetwork
      <3>1. CASE Connect
        BY <3>1 DEF Connect, Stream!Renew
      <3>2. CASE Hello
        BY <1>2, <3>2 DEF Hello, StreamInv, Fresh, Stream!Renew
      <3>3. CASE ~Connect /\ ~Hello
        BY <2>1, <3>3 DEF SetupNetwork, DeleteNetconn, ChooseInterface, QueryFails,
             QueryAgain, ServerFound, StaticServer, NoServer, ConnectFails, HelloFails
      <3> QED BY <3>1, <3>2, <3>3
    <2>2. CASE GetByte
      <3>1. Chain /\ Cursor /\ Readable /\ TypeOK
        BY <1>2, <2>2 DEF GetByte, StreamInv
      <3>2. start = got + 1 /\ start <= sent
        <4>1. /\ start = got + 1 /\ start + len = After(held[at]) /\ len > 0
              /\ at \in 1..Len(held) /\ Linked(held, sent)
          BY <2>2, <3>1 DEF GetByte, Cursor, Chain
        <4>2. After(held[at]) <= sent + 1
          BY <4>1 DEF Linked
        <4> QED BY <3>1, <4>1, <4>2 DEF TypeOK
      <3> QED BY <2>2, <3>1, <3>2 DEF GetByte, Stream!Give, TypeOK
    <2>3. CASE GetBytes /\ ~GetByte
      BY <2>3 DEF GetBytes, DropNetbuf, Receive, ReceiveError, ReceiveClosed,
           FillBuffer, BufferEmpty, RestartConnection, Stream!Fail
    <2>4. ASSUME NEW n \in 1..MaxLen, NEW m \in 0..MaxLen, Arrive(n, m)
          PROVE  Stream!Send
      BY <1>2, <2>4, ConnectionAssumption, SMTT(30) DEF Arrive, Stream!Send, StreamInv, TypeOK
    <2>5. CASE Network
      BY <2>4, <2>5 DEF Network, ServerSends, LinkChange, SetMdns, Abort
    <2>6. CASE UNCHANGED vars
      BY <2>6 DEF vars
    <2> QED BY <1>2, <2>1, <2>2, <2>3, <2>5, <2>6 DEF Next
  <1> QED BY <1>1, <1>2, StreamInit, StreamNext, PTL DEF Spec, InOrder, Stream!Spec

-----------------------------------------------------------------------------
(* Deleted netbufs                                                           *)

\* While a netbuf is asked for none is held, nor when a connection was lost;
\* only the parser, which gets bytes, leaves one.
Deleted ==
  /\ state \in {"receiving", "restart"} => held = NoBuf
  /\ pc = "read" /\ firstReceive => held = NoBuf /\ state = "initialized"
  /\ pc # "read" => held = NoBuf \/ state = "filled"

LEMMA DeletedInit == Init => Deleted
  BY DEF Init, Deleted

LEMMA DeletedNext == Deleted /\ [Next]_vars => Deleted'
  <1> SUFFICES ASSUME Deleted, [Next]_vars PROVE Deleted'
    OBVIOUS
  <1> USE DEF Deleted, network, buffer, reader
  <1>1. CASE Network
    <2>1. UNCHANGED <<pc, state, buffer>>
      BY <1>1 DEF Network, LinkChange, SetMdns, ServerSends, Arrive, Abort
    <2> QED BY <2>1
  <1>2. CASE SetupNetwork
    BY <1>2 DEF SetupNetwork, DeleteNetconn, ChooseInterface, QueryFails, QueryAgain,
         ServerFound, StaticServer, NoServer, Connect, ConnectFails, Hello, HelloFails
  <1>3. CASE DropNetbuf
    BY <1>3 DEF DropNetbuf
  <1>4. CASE Receive
    <2>1. /\ pc = "read" /\ state = "receiving" /\ held = NoBuf
          /\ pc' = pc /\ firstReceive' = firstReceive
          /\ state' = "received" \/ (state' = "restart" /\ held' = NoBuf)
      BY <1>4 DEF Receive
    <2> QED BY <2>1
  <1>5. CASE ReceiveError \/ ReceiveClosed
    BY <1>5 DEF ReceiveError, ReceiveClosed
  <1>6. CASE FillBuffer \/ BufferEmpty \/ RestartConnection
    BY <1>6 DEF FillBuffer, BufferEmpty, RestartConnection
  <1>7. CASE GetByte
    BY <1>7 DEF GetByte
  <1>8. CASE UNCHANGED vars
    BY <1>8 DEF vars
  <1> QED BY <1>1, <1>2, <1>3, <1>4, <1>5, <1>6, <1>7, <1>8 DEF Next, GetBytes

\* No netbuf's only reference is overwritten but the one in which the parser gave
\* up the connection (connection_handler.c:245, main.c:1280).
THEOREM NetbufsAlwaysDeleted == Spec => NetbufsDeleted
  <1> DEFINE Step == lost' = lost \/ (pc = "hello" /\ state = "filled")
  <1>1. ASSUME StreamInv, Deleted, [Next]_vars PROVE [Step]_vars
    <2> USE DEF network, buffer, reader
    <2>1. CASE Network
      BY <2>1 DEF Network, LinkChange, SetMdns, ServerSends, Arrive, Abort
    <2>2. CASE Hello
      <3>1. lost' = (lost \/ held # NoBuf) /\ pc = "hello" /\ lost \in BOOLEAN
        BY <1>1, <2>2 DEF Hello, StreamInv, TypeOK
      <3> QED BY <1>1, <3>1 DEF Deleted
    <2>3. CASE SetupNetwork /\ ~Hello
      BY <2>3 DEF SetupNetwork, DeleteNetconn, ChooseInterface, QueryFails, QueryAgain,
           ServerFound, StaticServer, NoServer, Connect, ConnectFails, HelloFails
    <2>4. CASE Receive
      <3>1. lost' = (lost \/ held # NoBuf) /\ state = "receiving" /\ lost \in BOOLEAN
        BY <1>1, <2>4 DEF Receive, StreamInv, TypeOK
      <3> QED BY <1>1, <3>1 DEF Deleted
    <2>5. CASE GetBytes /\ ~Receive
      BY <2>5 DEF GetBytes, DropNetbuf, ReceiveError, ReceiveClosed,
           FillBuffer, BufferEmpty, RestartConnection, GetByte
    <2> QED BY <1>1, <2>1, <2>2, <2>3, <2>4, <2>5 DEF Next
  <1> QED BY <1>1, DeletedInit, DeletedNext, StreamInit, StreamNext, PTL DEF Spec, NetbufsDeleted
===============================================================================
