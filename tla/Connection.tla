------------------------------ MODULE Connection ------------------------------
(***************************************************************************)
(* http_get_task's connection to the server: setup_network and             *)
(* connection_get_byte of main/connection_handler.c with the loop of       *)
(* main.c that calls them.                                                 *)
(*                                                                         *)
(* A byte is its position in the server's stream.  lwIP delivers the stream*)
(* as netbufs, each a chain of fragments; a fragment is the position of its*)
(* first byte and its length, so that start and len move as in the code.   *)
(***************************************************************************)
EXTENDS Naturals, Sequences

CONSTANTS
  MaxBytes,     \* bound: bytes the server sends on one connection
  MaxLen,       \* bound: length of a fragment
  EthBuild,     \* CONFIG_SNAPCLIENT_USE_*_ETHERNET
  UseMdns,      \* CONFIG_SNAPSERVER_USE_MDNS
  MdnsServers,  \* the interfaces the server answers mDNS queries on
  MayAbort,     \* may the peer end a connection?
  ParserFails,  \* may the parser itself ask for a restart?
  NoBuf         \* firstNetBuf == NULL

Netifs == IF EthBuild THEN {"sta", "eth"} ELSE {"sta"}

\* A fragment: the position of its first byte and its length.
Frag == [start : Nat \ {0}, len : Nat \ {0}]
Netbuf == Seq(Frag) \ {<<>>}

ASSUME ConnectionAssumption ==
  /\ MaxBytes \in Nat /\ MaxLen \in Nat
  /\ {EthBuild, UseMdns, MayAbort, ParserFails} \subseteq BOOLEAN
  /\ MdnsServers \subseteq Netifs
  /\ NoBuf \notin Netbuf

VARIABLES
  pc,          \* where http_get_task is
  netif,       \* connection.netif
  up,          \* which interfaces are up
  mdns,        \* the stored setting "mdns enabled"
  conn,        \* lwipNetconn and what lwIP knows of it
  inbox,       \* its receive mailbox: netbufs not yet received
  sent,        \* bytes the server sent on this connection
  state,       \* connection.state; "receiving": in receive_data's loop
  firstReceive,       \* connection.first_receive
  processed,   \* connection.first_netbuf_processed
  held,        \* the netbuf connection.firstNetBuf points to
  at,          \* the fragment it points at
  start,       \* connection.start
  len,         \* connection.len
  isMuted,     \* scSet.muted
  got,         \* bytes the parser got on this connection
  last,        \* the last of them
  lost         \* a netbuf's only reference was overwritten

network == <<up, mdns, conn, inbox, sent>>
buffer  == <<firstReceive, processed, held, at, start, len, lost>>
reader  == <<got, last>>
vars == <<pc, netif, network, state, buffer, isMuted, reader>>

Init ==
  /\ pc = "setup" /\ netif = "none" /\ up = [i \in Netifs |-> FALSE]
  /\ mdns \in BOOLEAN /\ conn = "null" /\ inbox = <<>> /\ sent = 0
  /\ state = "initialized" /\ firstReceive = TRUE /\ processed = FALSE
  /\ held = NoBuf /\ at = 0 /\ start = 0 /\ len = 0 /\ isMuted = TRUE
  /\ got = 0 /\ last = 0 /\ lost = FALSE

-----------------------------------------------------------------------------
(* The network *)

LinkChange(i) ==
  /\ up' = [up EXCEPT ![i] = ~@]
  /\ UNCHANGED <<pc, netif, mdns, conn, inbox, sent, state, buffer, isMuted, reader>>

\* The setting is changed in the web interface.
SetMdns ==
  /\ mdns' = ~mdns
  /\ UNCHANGED <<pc, netif, up, conn, inbox, sent, state, buffer, isMuted, reader>>

\* The server's next n + m bytes arrive in one netbuf, m of them in a second
\* fragment.
Arrive(n, m) ==
  /\ conn = "open" /\ pc = "read" /\ sent + n + m <= MaxBytes
  /\ LET first  == [start |-> sent + 1, len |-> n]
         second == [start |-> sent + n + 1, len |-> m]
     IN inbox' = Append(inbox, IF m = 0 THEN <<first>> ELSE <<first, second>>)
  /\ sent' = sent + n + m
  /\ UNCHANGED <<pc, netif, up, mdns, conn, state, buffer, isMuted, reader>>

\* The peer closes or resets the connection; what it sent before stays.
Abort ==
  /\ MayAbort /\ conn = "open"
  /\ conn' = "error"
  /\ UNCHANGED <<pc, netif, up, mdns, inbox, sent, state, buffer, isMuted, reader>>

-----------------------------------------------------------------------------
(* http_get_task: setup_network and hello *)

\* netconn_delete closes the connection and frees what it has not delivered.
DeleteNetconn ==
  /\ pc = "setup"
  /\ conn' = "null" /\ inbox' = <<>>
  /\ pc' = "choose"
  /\ UNCHANGED <<netif, up, mdns, sent, state, buffer, isMuted, reader>>

\* Ethernet is preferred to WiFi.
ChooseInterface ==
  /\ pc = "choose" /\ \E i \in Netifs : up[i]
  /\ netif' = IF EthBuild /\ up["eth"] THEN "eth" ELSE "sta"
  /\ pc' = "resolve"
  /\ UNCHANGED <<network, state, buffer, isMuted, reader>>

\* The setting is read anew for every attempt.
LookUp == UseMdns /\ mdns

\* mDNS: the query is repeated until something answers.
QueryFails ==
  /\ pc = "resolve" /\ LookUp
  /\ pc' = "retry"
  /\ UNCHANGED <<netif, network, state, buffer, isMuted, reader>>

QueryAgain ==
  /\ pc = "retry"
  /\ pc' = "resolve"
  /\ UNCHANGED <<netif, network, state, buffer, isMuted, reader>>

\* mDNS: the interface is the one the answer came in on.
ServerFound ==
  /\ pc = "resolve" /\ LookUp
  /\ netif' \in {i \in MdnsServers : up[i]}
  /\ pc' = "connect"
  /\ UNCHANGED <<network, state, buffer, isMuted, reader>>

\* The static host and port, read from the settings.
StaticServer ==
  /\ pc = "resolve" /\ ~LookUp
  /\ pc' = "connect"
  /\ UNCHANGED <<netif, network, state, buffer, isMuted, reader>>

\* No usable address, or no static host, no netconn.
NoServer ==
  /\ pc = "resolve"
  /\ pc' = "setup"
  /\ UNCHANGED <<netif, network, state, buffer, isMuted, reader>>

Connect ==
  /\ pc = "connect" /\ up[netif]
  /\ conn' = "open"
  /\ sent' = 0 /\ got' = 0 /\ last' = 0
  /\ pc' = "hello"
  /\ UNCHANGED <<netif, up, mdns, inbox, state, buffer, isMuted>>

\* bind or connect failed, the netconn is deleted.
ConnectFails ==
  /\ pc = "connect"
  /\ pc' = "setup"
  /\ UNCHANGED <<netif, network, state, buffer, isMuted, reader>>

\* Mutant: the state machine of the last connection is not reset.
HelloKeepsState ==
  /\ pc = "hello" /\ conn = "open"
  /\ isMuted' = TRUE
  /\ lost' = (lost \/ held # NoBuf)
  /\ held' = NoBuf /\ firstReceive' = TRUE /\ processed' = FALSE
  /\ pc' = "read"
  /\ UNCHANGED <<netif, network, state, at, start, len, reader>>

\* The hello message went out: the settings and the connection start afresh.
Hello ==
  /\ pc = "hello" /\ conn = "open"
  /\ isMuted' = TRUE
  /\ lost' = (lost \/ held # NoBuf)
  /\ held' = NoBuf /\ firstReceive' = TRUE /\ processed' = FALSE
  /\ state' = "initialized"
  /\ pc' = "read"
  /\ UNCHANGED <<netif, network, at, start, len, reader>>

HelloFails ==
  /\ pc = "hello"
  /\ pc' = "setup"
  /\ UNCHANGED <<netif, network, state, buffer, isMuted, reader>>

-----------------------------------------------------------------------------
(* connection_get_byte *)

\* Mutant: first_receive is never cleared.
DropNetbufNever ==
  /\ pc = "read" /\ state = "initialized"
  /\ held' = IF firstReceive THEN held ELSE NoBuf
  /\ UNCHANGED firstReceive
  /\ state' = "receiving"
  /\ UNCHANGED <<pc, netif, network, processed, at, start, len, lost, isMuted,
                 reader>>

\* receive_data: the netbuf that was read is deleted before the next one.
DropNetbuf ==
  /\ pc = "read" /\ state = "initialized"
  /\ held' = IF firstReceive THEN held ELSE NoBuf
  /\ firstReceive' = FALSE
  /\ state' = "receiving"
  /\ UNCHANGED <<pc, netif, network, processed, at, start, len, lost, isMuted,
                 reader>>

\* While the client is muted it gives up WiFi for Ethernet.
PreferEth == EthBuild /\ isMuted /\ netif # "eth" /\ up["eth"]

\* netconn_recv hands over a netbuf.
Receive ==
  /\ pc = "read" /\ state = "receiving" /\ inbox # <<>>
  /\ inbox' = Tail(inbox)
  /\ IF PreferEth
     THEN /\ conn' = "closed"
          /\ state' = "restart"
          /\ held' = NoBuf /\ UNCHANGED processed
     ELSE /\ held' = Head(inbox)
          /\ processed' = FALSE
          /\ state' = "received"
          /\ UNCHANGED conn
  /\ lost' = (lost \/ held # NoBuf)
  /\ UNCHANGED <<pc, netif, up, mdns, sent, firstReceive, at, start, len,
                 isMuted, reader>>

\* netconn_recv fails once with the reason, and is called again.
ReceiveError ==
  /\ pc = "read" /\ state = "receiving" /\ inbox = <<>> /\ conn = "error"
  /\ conn' = "closed"
  /\ UNCHANGED <<pc, netif, up, mdns, inbox, sent, state, buffer, isMuted, reader>>

\* Mutant: ERR_CONN is taken for a timeout, and netconn_recv is called again.
ReceiveClosedAgain ==
  /\ pc = "read" /\ state = "receiving" /\ inbox = <<>> /\ conn = "closed"
  /\ UNCHANGED vars

\* ... and then with ERR_CONN.
ReceiveClosed ==
  /\ pc = "read" /\ state = "receiving" /\ inbox = <<>> /\ conn = "closed"
  /\ state' = "restart"
  /\ UNCHANGED <<pc, netif, network, buffer, isMuted, reader>>

\* Mutant: the chain is walked from its second fragment.
FillBufferNext ==
  /\ pc = "read" /\ state = "received"
  /\ processed' = TRUE
  /\ LET i == at + 1
     IN IF i <= Len(held)
        THEN /\ at' = i /\ start' = held[i].start /\ len' = held[i].len
             /\ state' = "filled"
        ELSE state' = "initialized" /\ UNCHANGED <<at, start, len>>
  /\ UNCHANGED <<pc, netif, network, firstReceive, held, lost, isMuted, reader>>

\* Mutant: the end of the chain is not noticed.
FillBufferSpins ==
  /\ pc = "read" /\ state = "received"
  /\ processed' = TRUE
  /\ LET i == IF processed THEN at + 1 ELSE 1
     IN IF i <= Len(held)
        THEN /\ at' = i /\ start' = held[i].start /\ len' = held[i].len
             /\ state' = "filled"
        ELSE UNCHANGED <<state, at, start, len>>
  /\ UNCHANGED <<pc, netif, network, firstReceive, held, lost, isMuted, reader>>

\* fill_buffer: the first fragment, then the next one, then a new netbuf.
FillBuffer ==
  /\ pc = "read" /\ state = "received"
  /\ processed' = TRUE
  /\ LET i == IF processed THEN at + 1 ELSE 1
     IN IF i <= Len(held)
        THEN /\ at' = i /\ start' = held[i].start /\ len' = held[i].len
             /\ state' = "filled"
        ELSE state' = "initialized" /\ UNCHANGED <<at, start, len>>
  /\ UNCHANGED <<pc, netif, network, firstReceive, held, lost, isMuted, reader>>

BufferEmpty ==
  /\ pc = "read" /\ state = "filled" /\ len = 0
  /\ state' = "received"
  /\ UNCHANGED <<pc, netif, network, buffer, isMuted, reader>>

\* The parser gets a byte; with it a message may be complete that changes the
\* mute, or the parser may find that it has to start over.
GetByte ==
  /\ pc = "read" /\ state = "filled" /\ len > 0
  /\ got' = got + 1 /\ last' = start
  /\ start' = start + 1 /\ len' = len - 1
  /\ isMuted' \in BOOLEAN
  /\ pc' \in IF ParserFails THEN {"read", "setup"} ELSE {"read"}
  /\ UNCHANGED <<netif, network, state, firstReceive, processed, held, at, lost>>

\* connection_get_byte returns -1 and process_data with it.
RestartConnection ==
  /\ pc = "read" /\ state = "restart"
  /\ pc' = "setup"
  /\ UNCHANGED <<netif, network, state, buffer, isMuted, reader>>

-----------------------------------------------------------------------------
ServerSends == \E n \in 1..MaxLen, m \in 0..MaxLen : Arrive(n, m)

Network ==
  \/ \E i \in Netifs : LinkChange(i)
  \/ SetMdns \/ ServerSends \/ Abort

SetupNetwork ==
  \/ DeleteNetconn \/ ChooseInterface \/ QueryFails \/ QueryAgain
  \/ ServerFound \/ StaticServer \/ NoServer \/ Connect \/ ConnectFails
  \/ Hello \/ HelloFails

GetBytes ==
  \/ DropNetbuf \/ Receive \/ ReceiveError \/ ReceiveClosed \/ FillBuffer
  \/ BufferEmpty \/ GetByte \/ RestartConnection

Next == Network \/ SetupNetwork \/ GetBytes

Spec == Init /\ [][Next]_vars

\* The task runs; a server that is there is found at some time, does not refuse
\* every connection and answers the hello message.
Fairness ==
  /\ WF_vars(SetupNetwork) /\ WF_vars(GetBytes)
  /\ SF_vars(ServerFound) /\ SF_vars(StaticServer)
  /\ SF_vars(Connect) /\ SF_vars(Hello) /\ WF_vars(ServerSends)

FairSpec == Spec /\ Fairness

-----------------------------------------------------------------------------
TypeOK ==
  /\ pc \in {"setup", "choose", "resolve", "retry", "connect", "hello", "read"}
  /\ netif \in Netifs \cup {"none"} /\ up \in [Netifs -> BOOLEAN]
  /\ mdns \in BOOLEAN
  /\ conn \in {"null", "open", "error", "closed"}
  /\ inbox \in Seq(Netbuf) /\ sent \in Nat
  /\ state \in {"initialized", "receiving", "received", "filled", "restart"}
  /\ firstReceive \in BOOLEAN /\ processed \in BOOLEAN
  /\ held \in Netbuf \cup {NoBuf} /\ at \in Nat
  /\ start \in Nat /\ len \in Nat
  /\ isMuted \in BOOLEAN /\ got \in Nat /\ last \in Nat /\ lost \in BOOLEAN

\* connection_get_byte never reads a netbuf that is deleted or was not
\* received: the states of one connection never survive into the next.
NetbufValid ==
  pc = "read" /\ state \in {"received", "filled"}
    => held # NoBuf /\ (state = "filled" => at \in 1..Len(held))

\* "delete old netbuf" (connection_handler.c:245): a netbuf is deleted before the
\* next one and when the peer or Ethernet ends the connection.  Only the parser
\* can give up a connection with a netbuf in hand, which main.c:1280 then drops.
NetbufsDeleted == [][lost' = lost \/ (pc = "hello" /\ state = "filled")]_vars

\* The parser is given every byte that arrived, or the connection is set up
\* again: no path through the state machine waits with data at hand.
BytesArrive ==
  \A n \in 1..MaxBytes :
    (pc = "read" /\ sent >= n) ~> (got >= n \/ pc # "read")

\* The links and the setting stop changing.
LinksSettle == <>[][FALSE]_<<up, mdns>>
Readable == pc = "read" /\ state # "restart"

\* A server can be found over a link that is up.
Reachable ==
  IF LookUp THEN \E i \in MdnsServers : up[i] ELSE \E i \in Netifs : up[i]

\* Once links and setting stop changing and the server can be reached, the
\* client reads from an open connection again and again, however the earlier
\* ones ended.
Reconnects == LinksSettle => []<>((pc = "read" /\ conn = "open") \/ ~Reachable)

\* The byte stream connection_get_byte promises.
Stream == INSTANCE ByteStream WITH alive <- Readable
InOrder == Stream!Spec

\* What a comment in the code says and the code does not do

\* "restart and try to reconnect using preferred interface ETH"
\* (connection_handler.c:306): a restart for Ethernet ends up on Ethernet.  But
\* the interface the first mDNS answer came in on replaces the preferred one
\* (connection_handler.c:117), and the client may go on restarting over WiFi.
ReachesEthernet ==
  LinksSettle => (pc = "read" /\ state = "restart" /\ PreferEth)
                   ~> (pc = "read" /\ netif = "eth") \/ (EthBuild /\ ~up["eth"])
===============================================================================
