-------------------------- MODULE SocketPoolProofs --------------------------
(***************************************************************************)
(* Theorems about SocketPool for any number of sockets: what every reader  *)
(* of a socket number may rely on although nothing marks a socket as held. *)
(***************************************************************************)
EXTENDS SocketPool, TLAPS

\* Until setup() has run no socket was ever opened.
Untouched == pc = "setup" => \A s \in Socket : status[s] = "CLOSED"

\* The NTP listener holds an open socket exactly while it counts as started, and the
\* socket it gave up is still there to be taken when it is begun again.
UdpHeld ==
    /\ udp # NoSocket => status[udp] = "UDP"
    /\ ethernetStarted /\ pc # "reopen" => udp # NoSocket
    /\ pc \in {"setup", "setupNtp", "reopen"} => udp = NoSocket
    /\ pc = "reopen" => \E s \in Socket : status[s] = "CLOSED"

IInv == TypeOK /\ Untouched /\ UdpHeld /\ OneListener /\ NoLostConnection /\ DhcpSocketOpen

-----------------------------------------------------------------------------
LEMMA SocketFacts == NoSocket \notin Socket
  BY SocketPoolAssumption DEF Socket, NoSocket

\* A socket that socketBegin() returns was closed or closing, and it returns one as long
\* as any is closed.
LEMMA BeginResult ==
  ASSUME NEW st, NEW s, socketBegin(st, s)
  PROVE  /\ s \in Socket => st[s] \in Closing \cup {"CLOSED"}
         /\ (\E t \in Socket : st[t] = "CLOSED") => s \in Socket
<1> DEFINE closed == {t \in Socket : st[t] = "CLOSED"}
           closing == {t \in Socket : st[t] \in Closing}
<1>1. \/ s \in closed
      \/ closed = {} /\ s \in closing
      \/ closed = {} /\ s = NoSocket
  BY DEF socketBegin, lowest
<1>2. CASE s \in closed
  BY <1>2
<1>3. CASE closed = {} /\ (s \in closing \/ s = NoSocket)
  <2>1. ~\E t \in Socket : st[t] = "CLOSED"
    BY <1>3
  <2> QED  BY <1>3, <2>1, SocketFacts
<1> QED  BY <1>1, <1>2, <1>3

\* What opening a socket leaves: it alone changes, and it is no connection's.
LEMMA OpenResult ==
  ASSUME NEW st \in [Socket -> Status], NEW port \in [Socket -> BOOLEAN], NEW kind \in {"UDP", "LISTEN"},
         NEW s \in Socket \cup {NoSocket}, TypeOK, open(st, port, s, kind)
  PROVE  /\ status' \in [Socket -> Status]
         /\ serverPort' \in [Socket -> BOOLEAN]
         /\ data' \in [Socket -> BOOLEAN]
         /\ \A t \in Socket \ {s} : status'[t] = st[t] /\ serverPort'[t] = port[t]
         /\ s \in Socket => status'[s] = kind /\ serverPort'[s] = (kind = "LISTEN")
  BY SocketFacts DEF open, TypeOK, Status

-----------------------------------------------------------------------------
LEMMA InitIInv == Init => IInv
  BY SocketFacts DEF Init, IInv, TypeOK, Untouched, UdpHeld, OneListener, NoLostConnection,
                     DhcpSocketOpen, Status, Tcp, Pc, Resume

\* The steps that open no socket.
LEMMA QuietSteps ==
  ASSUME IInv,
         setupNoLink \/ ntpIdle \/ ntpServe \/ tcpRead \/ otherCli \/ dhcpDone \/ ntpSendFailed
  PROVE  IInv'
<1> USE SocketFacts
<1>1. CASE setupNoLink \/ ntpIdle \/ ntpServe \/ tcpRead \/ otherCli
  <2>1. /\ UNCHANGED <<status, serverPort, udp, client, dhcp, ethernetStarted>>
        /\ data' \in [Socket -> BOOLEAN] /\ resume' = resume
    BY <1>1 DEF setupNoLink, ntpIdle, ntpServe, tcpRead, otherCli, sockets, holders, IInv, TypeOK
  <2>2. /\ pc' \in Pc \ {"setup", "setupNtp", "reopen", "dhcp"}
        /\ pc # "reopen"
    BY <1>1 DEF setupNoLink, ntpIdle, ntpServe, tcpRead, otherCli, afterCommand, Pc, Resume
  <2> QED  BY <2>1, <2>2 DEF IInv, TypeOK, Untouched, UdpHeld, OneListener, NoLostConnection,
                             DhcpSocketOpen
<1>2. CASE dhcpDone
  <2>1. dhcp \in Socket /\ dhcp # udp
    BY <1>2 DEF dhcpDone, IInv, DhcpSocketOpen
  <2>2. pc' \in Resume
    BY <1>2 DEF dhcpDone, IInv, TypeOK
  <2>3. TypeOK'
    BY <1>2, <2>1, <2>2 DEF dhcpDone, IInv, TypeOK, Status, Pc
  <2>4. Untouched' /\ UdpHeld' /\ DhcpSocketOpen'
    BY <1>2, <2>1, <2>2 DEF dhcpDone, IInv, TypeOK, Untouched, UdpHeld, DhcpSocketOpen, Resume
  <2>5. OneListener' /\ NoLostConnection'
    BY <1>2, <2>1 DEF dhcpDone, IInv, TypeOK, OneListener, NoLostConnection, Tcp, Status
  <2> QED  BY <2>3, <2>4, <2>5 DEF IInv
<1>3. CASE ntpSendFailed
  <2>1. udp \in Socket
    BY <1>3 DEF ntpSendFailed, IInv, TypeOK, UdpHeld
  <2>2. TypeOK'
    BY <1>3, <2>1 DEF ntpSendFailed, IInv, TypeOK, Status, Pc
  <2>3. Untouched' /\ UdpHeld' /\ DhcpSocketOpen'
    BY <1>3, <2>1 DEF ntpSendFailed, IInv, TypeOK, Untouched, UdpHeld, DhcpSocketOpen
  <2>4. OneListener' /\ NoLostConnection'
    BY <1>3, <2>1 DEF ntpSendFailed, IInv, TypeOK, OneListener, NoLostConnection, Tcp, Status
  <2> QED  BY <2>2, <2>3, <2>4 DEF IInv
<1> QED  BY <1>1, <1>2, <1>3

\* tcpCliServer.begin(): the first listener, of sockets that are all closed.
LEMMA SetupStep == ASSUME IInv, setup PROVE IInv'
<1> USE SocketFacts
<1>1. \A s \in Socket : status[s] = "CLOSED"
  BY DEF setup, IInv, Untouched
<1>2. /\ UNCHANGED <<udp, client, dhcp, ethernetStarted, resume>>
      /\ pc' = "setupNtp" /\ pc = "setup" /\ udp = NoSocket
  BY DEF setup, holders, IInv, UdpHeld
<1>3. CASE UNCHANGED sockets
  BY <1>2, <1>3 DEF sockets, IInv, TypeOK, Untouched, UdpHeld, OneListener, NoLostConnection,
                    DhcpSocketOpen, Pc
<1>4. ASSUME NEW s \in Socket \cup {NoSocket}, open(status, serverPort, s, "LISTEN")
      PROVE  IInv'
  <2>1. /\ status' \in [Socket -> Status] /\ serverPort' \in [Socket -> BOOLEAN]
        /\ data' \in [Socket -> BOOLEAN]
        /\ \A t \in Socket \ {s} : status'[t] = "CLOSED"
        /\ s \in Socket => status'[s] = "LISTEN" /\ serverPort'[s]
    BY <1>1, <1>4, OpenResult DEF IInv, TypeOK
  <2>2. TypeOK' /\ Untouched' /\ UdpHeld' /\ DhcpSocketOpen'
    BY <1>2, <2>1 DEF IInv, TypeOK, Untouched, UdpHeld, DhcpSocketOpen, Pc
  <2>3. OneListener' /\ NoLostConnection'
    BY <1>4, <2>1 DEF OneListener, NoLostConnection, Tcp, Status
  <2> QED  BY <2>2, <2>3 DEF IInv
<1> QED  BY <1>3, <1>4 DEF setup

\* ethernetUdp.begin(), the first time or after a failed send.
LEMMA UdpBeginStep == ASSUME IInv, udpBegin PROVE IInv'
<1> USE SocketFacts
<1>1. PICK s \in Socket \cup {NoSocket} :
         /\ socketBegin(status, s)
         /\ open(status, serverPort, s, "UDP")
         /\ udp' = s /\ ethernetStarted' = (s # NoSocket)
  BY DEF udpBegin
<1>2. /\ pc \in {"setupNtp", "reopen"} /\ pc' \in {"serial", "ntp"}
      /\ UNCHANGED <<client, dhcp, resume>>
  BY DEF udpBegin
<1>3. /\ status' \in [Socket -> Status] /\ serverPort' \in [Socket -> BOOLEAN]
      /\ data' \in [Socket -> BOOLEAN]
      /\ \A t \in Socket \ {s} : status'[t] = status[t] /\ serverPort'[t] = serverPort[t]
      /\ s \in Socket => status'[s] = "UDP"
  BY <1>1, OpenResult DEF IInv, TypeOK
<1>4. TypeOK' /\ Untouched' /\ UdpHeld' /\ DhcpSocketOpen'
  BY <1>1, <1>2, <1>3 DEF IInv, TypeOK, Untouched, UdpHeld, DhcpSocketOpen, Pc, Resume
<1>5. OneListener' /\ NoLostConnection'
  BY <1>3 DEF IInv, OneListener, NoLostConnection, Tcp, Status
<1> QED  BY <1>4, <1>5 DEF IInv

\* "net restart": DHCP takes a socket that is neither the listener's nor listening.
LEMMA NetRestartStep == ASSUME IInv, netRestart PROVE IInv'
<1> USE SocketFacts
<1>1. PICK s \in Socket \cup {NoSocket} :
         /\ socketBegin(status, s)
         /\ dhcp' = s
         /\ s = NoSocket => UNCHANGED <<status, serverPort>>
         /\ s # NoSocket => /\ status' = [status EXCEPT ![s] = "UDP"]
                            /\ serverPort' = [serverPort EXCEPT ![s] = FALSE]
         /\ data' \in [Socket -> BOOLEAN]
         /\ pc' = IF s = NoSocket THEN afterCommand ELSE "dhcp"
  <2>1. DEFINE rest == IF pc = "read" THEN [data EXCEPT ![client] = FALSE] ELSE data
  <2>2. rest \in [Socket -> BOOLEAN]
    BY DEF IInv, TypeOK
  <2>3. \A s \in Socket : [rest EXCEPT ![s] = FALSE] \in [Socket -> BOOLEAN]
    BY <2>2
  <2> HIDE DEF rest
  <2> QED  BY ZenonT(40), <2>2, <2>3 DEF netRestart, rest
<1>2. /\ pc \in {"serial", "wifi", "read"} /\ afterCommand \in Resume
      /\ resume' = afterCommand
      /\ UNCHANGED <<udp, client, ethernetStarted>>
  BY DEF netRestart, afterCommand, Resume
<1>3. s \in Socket => status[s] \in Closing \cup {"CLOSED"}
  BY <1>1, BeginResult
<1>4. s \in Socket => s # udp
  BY <1>3 DEF IInv, UdpHeld, Closing
<1>5. TypeOK'
  BY <1>1, <1>2 DEF IInv, TypeOK, Status, Pc
<1>6. Untouched' /\ UdpHeld' /\ DhcpSocketOpen'
  BY <1>1, <1>2, <1>4 DEF IInv, TypeOK, Untouched, UdpHeld, DhcpSocketOpen, Resume
<1>7. OneListener' /\ NoLostConnection'
  BY <1>1 DEF IInv, TypeOK, OneListener, NoLostConnection, Tcp, Status
<1> QED  BY <1>5, <1>6, <1>7 DEF IInv

\* EthernetServer::available() as tcpAccept runs it.
LEMMA AcceptStep == ASSUME IInv, tcpAccept PROVE IInv'
<1> USE SocketFacts
<1> DEFINE mine == {s \in Socket : serverPort[s]}
           st == [s \in Socket |-> IF s \in mine /\ status[s] = "CLOSE_WAIT" /\ ~data[s]
                                   THEN "LAST_ACK" ELSE status[s]]
           port == [s \in Socket |-> owned(s)]
<1>1. /\ pc = "accept" /\ pc' = "check"
      /\ UNCHANGED <<udp, dhcp, ethernetStarted, resume>>
  BY DEF tcpAccept
<1>2. CASE UNCHANGED <<sockets, client>>
  BY <1>1, <1>2 DEF sockets, IInv, TypeOK, Untouched, UdpHeld, OneListener, NoLostConnection,
                    DhcpSocketOpen, Pc
<1>3. CASE serverAvailable
  <2>1. client' \in Socket \cup {NoSocket}
    BY <1>3 DEF serverAvailable
  <2>2. st \in [Socket -> Status] /\ port \in [Socket -> BOOLEAN]
    BY DEF owned, IInv, TypeOK, Status, Closing
  <2>3. /\ \A s \in Socket : st[s] = "LISTEN" <=> status[s] = "LISTEN"
        /\ \A s \in Socket : status[s] = "UDP" => st[s] = "UDP"
        /\ \A s \in Socket : st[s] \in Tcp => port[s]
    BY DEF owned, IInv, NoLostConnection, Tcp, Status, Closing
  <2>4. CASE status' = st /\ serverPort' = port /\ data' = data
    <3>1. TypeOK'
      BY <1>1, <2>1, <2>2, <2>4 DEF IInv, TypeOK, Pc
    <3>2. Untouched' /\ UdpHeld' /\ DhcpSocketOpen'
      BY <1>1, <2>3, <2>4 DEF IInv, TypeOK, Untouched, UdpHeld, DhcpSocketOpen
    <3>3. OneListener' /\ NoLostConnection'
      BY <2>3, <2>4 DEF IInv, OneListener, NoLostConnection
    <3> QED  BY <3>1, <3>2, <3>3 DEF IInv
  <2>5. ASSUME NEW s \in Socket \cup {NoSocket}, ~listening,
               socketBegin(st, s), open(st, port, s, "LISTEN")
        PROVE  IInv'
    <3>1. \A t \in Socket : st[t] # "LISTEN"
      <4>1. \A t \in Socket : status[t] # "LISTEN"
        BY <2>5 DEF listening, IInv, NoLostConnection, Tcp, Status
      <4> QED  BY <2>3, <4>1
    <3>2. s \in Socket => st[s] \in Closing \cup {"CLOSED"}
      <4> HIDE DEF st
      <4> QED  BY <2>5, BeginResult
    <3>3. /\ status' \in [Socket -> Status] /\ serverPort' \in [Socket -> BOOLEAN]
          /\ data' \in [Socket -> BOOLEAN]
          /\ \A t \in Socket \ {s} : status'[t] = st[t] /\ serverPort'[t] = port[t]
          /\ s \in Socket => status'[s] = "LISTEN" /\ serverPort'[s]
      <4> HIDE DEF st, port
      <4> QED  BY <2>2, <2>5, OpenResult DEF IInv
    <3> HIDE DEF st, port
    <3>4. \A t \in Socket : status[t] = "UDP" => t # s /\ status'[t] = "UDP"
      BY <2>3, <3>2, <3>3 DEF Closing
    <3>5. TypeOK'
      BY <1>1, <2>1, <3>3 DEF IInv, TypeOK, Pc
    <3>6. Untouched' /\ UdpHeld' /\ DhcpSocketOpen'
      BY <1>1, <3>4 DEF IInv, TypeOK, Untouched, UdpHeld, DhcpSocketOpen
    <3>7. OneListener' /\ NoLostConnection'
      BY <2>3, <3>1, <3>3 DEF OneListener, NoLostConnection
    <3> QED  BY <3>5, <3>6, <3>7 DEF IInv
  <2> QED  BY <1>3, <2>4, <2>5 DEF serverAvailable
<1> QED  BY <1>2, <1>3 DEF tcpAccept

\* _client.stop(): what it closes is not the NTP listener, whose socket is connected().
LEMMA CheckStep == ASSUME IInv, tcpCheck PROVE IInv'
<1> USE SocketFacts
<1>1. /\ pc = "check" /\ pc' = "read"
      /\ UNCHANGED <<data, serverPort, udp, dhcp, ethernetStarted, resume>>
  BY DEF tcpCheck
<1>2. CASE UNCHANGED <<status, client>>
  BY <1>1, <1>2 DEF IInv, TypeOK, Untouched, UdpHeld, OneListener, NoLostConnection,
                    DhcpSocketOpen, Pc, Resume
<1>3. CASE /\ client # NoSocket /\ ~connected(client)
           /\ status' = [status EXCEPT ![client] = "CLOSED"] /\ client' = NoSocket
  <2>1. client \in Socket /\ status[client] # "UDP"
    BY <1>3 DEF connected, IInv, TypeOK
  <2>2. TypeOK'
    BY <1>1, <1>3, <2>1 DEF IInv, TypeOK, Status, Pc, Resume
  <2>3. Untouched' /\ UdpHeld' /\ DhcpSocketOpen'
    BY <1>1, <1>3, <2>1 DEF IInv, TypeOK, Untouched, UdpHeld, DhcpSocketOpen
  <2>4. OneListener' /\ NoLostConnection'
    BY <1>1, <1>3, <2>1 DEF IInv, TypeOK, OneListener, NoLostConnection, Tcp, Status
  <2> QED  BY <2>2, <2>3, <2>4 DEF IInv
<1> QED  BY <1>2, <1>3 DEF tcpCheck

\* A peer opens no socket and closes no UDP socket.
LEMMA PeerStep ==
  ASSUME IInv, NEW s \in Socket,
         PeerConnects(s) \/ PeerCloses(s) \/ ConnectionEnds(s) \/ BytesArrive(s)
  PROVE  IInv'
<1> USE SocketFacts
<1>1. CASE BytesArrive(s)
  <2>1. data' \in [Socket -> BOOLEAN] /\ UNCHANGED <<status, serverPort, holders, pc, resume>>
    BY <1>1 DEF BytesArrive, IInv, TypeOK
  <2> QED  BY <2>1 DEF holders, IInv, TypeOK, Untouched, UdpHeld, OneListener, NoLostConnection,
                       DhcpSocketOpen
<1>2. CASE PeerConnects(s) \/ PeerCloses(s) \/ ConnectionEnds(s)
  <2>1. PICK new \in {"ESTABLISHED", "CLOSE_WAIT", "CLOSED"} :
           status' = [status EXCEPT ![s] = new] /\ status[s] \in Tcp
    BY <1>2 DEF PeerConnects, PeerCloses, ConnectionEnds, becomes, Tcp, Status
  <2>2. UNCHANGED <<data, serverPort, udp, client, dhcp, ethernetStarted, pc, resume>>
    BY <1>2 DEF PeerConnects, PeerCloses, ConnectionEnds, becomes, holders
  <2>3. status[s] # "UDP" /\ status[s] # "CLOSED" /\ serverPort[s]
    BY <2>1 DEF Tcp, IInv, NoLostConnection
  <2>4. TypeOK'
    BY <2>1, <2>2 DEF IInv, TypeOK, Status
  <2>5. Untouched' /\ UdpHeld' /\ DhcpSocketOpen'
    BY <2>1, <2>2, <2>3 DEF IInv, TypeOK, Untouched, UdpHeld, DhcpSocketOpen
  <2>6. OneListener' /\ NoLostConnection'
    BY <2>1, <2>2, <2>3 DEF IInv, TypeOK, OneListener, NoLostConnection
  <2> QED  BY <2>4, <2>5, <2>6 DEF IInv
<1> QED  BY <1>1, <1>2

LEMMA NextIInv == IInv /\ [Next]_vars => IInv'
<1> SUFFICES ASSUME IInv, [Next]_vars PROVE IInv'
  OBVIOUS
<1>1. CASE loop
  BY <1>1, QuietSteps, SetupStep, UdpBeginStep, NetRestartStep, AcceptStep, CheckStep DEF loop
<1>2. CASE \E s \in Socket :
             PeerConnects(s) \/ PeerCloses(s) \/ ConnectionEnds(s) \/ BytesArrive(s)
  BY <1>2, PeerStep
<1>3. CASE UNCHANGED vars
  BY <1>3 DEF vars, sockets, holders, IInv, TypeOK, Untouched, UdpHeld, OneListener,
              NoLostConnection, DhcpSocketOpen
<1> QED  BY <1>1, <1>2, <1>3 DEF Next

LEMMA Inductive == Spec => []IInv
  BY InitIInv, NextIInv, PTL DEF Spec

-----------------------------------------------------------------------------
\* Socket numbers and registers stay within their ranges.
THEOREM TypeCorrect == Spec => []TypeOK
  BY Inductive, PTL DEF IInv

\* However connections come, go and exhaust the chip, the started NTP listener's socket
\* stays an open UDP socket (NtpServer::processEthernet polls it unconditionally).
THEOREM NtpSocketStaysOpen == Spec => []NtpSocketOpen
<1>1. IInv => NtpSocketOpen
  BY DEF IInv, TypeOK, UdpHeld, NtpSocketOpen
<1> QED  BY <1>1, Inductive, PTL

\* EthernetServer::available() never leaves two listeners on port 23.
THEOREM SingleListener == Spec => []OneListener
  BY Inductive, PTL DEF IInv

\* No TCP connection is held by a socket the CLI's server does not know.
THEOREM ConnectionsKnown == Spec => []NoLostConnection
  BY Inductive, PTL DEF IInv

\* DHCP's socket is open throughout a negotiation and is not the NTP listener's.
THEOREM DhcpHoldsItsSocket == Spec => []DhcpSocketOpen
  BY Inductive, PTL DEF IInv

\* ethernetUdp.begin() after a failed send always succeeds: the socket that stop() closed
\* cannot be taken in between.
THEOREM ReopenAlwaysSucceeds == Spec => ReopenSucceeds
<1>1. IInv /\ [Next]_vars => [pc = "reopen" /\ pc' # pc => ethernetStarted']_vars
  <2> SUFFICES ASSUME IInv, Next, pc = "reopen", pc' # pc PROVE ethernetStarted'
    OBVIOUS
  <2>1. udpBegin
    BY DEF Next, loop, setup, setupNoLink, ntpIdle, ntpServe, ntpSendFailed, tcpAccept, tcpCheck,
           tcpRead, netRestart, dhcpDone, otherCli, PeerConnects, PeerCloses, ConnectionEnds,
           BytesArrive, becomes
  <2>2. PICK s \in Socket \cup {NoSocket} :
           socketBegin(status, s) /\ ethernetStarted' = (s # NoSocket)
    BY <2>1 DEF udpBegin
  <2>3. s \in Socket
    BY <2>2, BeginResult DEF IInv, UdpHeld
  <2> QED  BY <2>2, <2>3, SocketFacts
<1> QED  BY <1>1, Inductive, PTL DEF Spec, ReopenSucceeds
=============================================================================
