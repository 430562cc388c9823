----------------------------- MODULE SocketPool -----------------------------
(***************************************************************************)
(* The W5500's hardware sockets and everything in the firmware that holds  *)
(* one: the NTP listener (ethernetUdp in NtpServer), the TCP CLI's server  *)
(* and client (TcpCliServer), and the socket DHCP opens for as long as a   *)
(* lease takes (setup() and "net restart").  A holder keeps a socket       *)
(* number, nothing marks a socket as held: socketBegin() takes any socket  *)
(* whose status register says closed, and the peer can make it say so.     *)
(*                                                                         *)
(*   status     - SnSR of each socket; SYNRECV, which this code treats as  *)
(*                it treats an established connection without data, is     *)
(*                not told apart from it                                   *)
(*   data       - unread bytes: RX_RSR is not 0                            *)
(*   serverPort - EthernetServer::server_port[s] is 23                     *)
(*   udp, client, dhcp - ethernetUdp.sockindex, TcpCliServer's             *)
(*                _client._sockindex, _dhcpUdpSocket.sockindex             *)
(*   ethernetStarted   - NtpServer::ethernetStarted                        *)
(*   pc         - the step loop() is at:                                   *)
(*       "setup", "setupNtp"  tcpCliServer.begin(), ntpServer.begin()      *)
(*       "ntp", "reopen"      ntpServer.process(), after a failed send     *)
(*       "serial", "wifi"     cli.process(), wifiCliServer.process()       *)
(*       "accept", "check", "read"  the three parts of                     *)
(*                            TcpCliServer::process()                      *)
(*       "dhcp"               waiting for a lease; resume is where to      *)
(*                            go on afterwards                             *)
(***************************************************************************)
EXTENDS Integers

CONSTANT NumSockets  \* MAX_SOCK_NUM, 8 on this board

ASSUME SocketPoolAssumption == NumSockets \in Nat /\ NumSockets >= 2

VARIABLES status, data, serverPort, udp, client, dhcp, ethernetStarted, pc, resume

sockets == <<status, data, serverPort>>
holders == <<udp, client, dhcp, ethernetStarted>>
vars == <<sockets, holders, pc, resume>>

Socket == 0..(NumSockets - 1)
NoSocket == NumSockets  \* "MAX_SOCK_NUM means client not in use"

Closing == {"LAST_ACK", "TIME_WAIT", "FIN_WAIT", "CLOSING"}
Status == Closing \cup {"CLOSED", "LISTEN", "ESTABLISHED", "CLOSE_WAIT", "UDP"}
Tcp == Status \ {"CLOSED", "UDP"}
Resume == {"read", "accept", "ntp"}
Pc == {"setup", "setupNtp", "ntp", "reopen", "serial", "check", "wifi", "dhcp"} \cup Resume

Init ==
    /\ status = [s \in Socket |-> "CLOSED"]
    /\ data = [s \in Socket |-> FALSE]
    /\ serverPort = [s \in Socket |-> FALSE]
    /\ udp = NoSocket /\ client = NoSocket /\ dhcp = NoSocket
    /\ ethernetStarted = FALSE
    /\ pc = "setup" /\ resume = "ntp"

-----------------------------------------------------------------------------
(***************************************************************************)
(* The socket library.                                                     *)
(***************************************************************************)
lowest(S, s) == s \in S /\ \A t \in S : s <= t
highest(S, s) == s \in S /\ \A t \in S : t <= s

\* Not the code: socketBegin() that evicts a socket in use when every other resort fails.
socketBegin_forcesAny(st, s) ==
    LET closed == {t \in Socket : st[t] = "CLOSED"}
    IN  lowest(closed, s) \/ (closed = {} /\ s = 0)

\* socketBegin() with status registers st returns s: the first closed socket, else the
\* first that is closing (it is closed by force), else none.
socketBegin(st, s) ==
    LET closed == {t \in Socket : st[t] = "CLOSED"}
        closing == {t \in Socket : st[t] \in Closing}
    IN  \/ lowest(closed, s)
        \/ closed = {} /\ lowest(closing, s)
        \/ closed = {} /\ closing = {} /\ s = NoSocket

\* The socket s that socketBegin() returned is opened as kind ("UDP", or "LISTEN" after
\* EthernetServer::begin() had it listen): what it held and whose it was is forgotten.
open(st, port, s, kind) ==
    IF s = NoSocket
    THEN status' = st /\ serverPort' = port /\ data' = data
    ELSE /\ status' = [st EXCEPT ![s] = kind]
         /\ serverPort' = [port EXCEPT ![s] = (kind = "LISTEN")]
         /\ data' = [data EXCEPT ![s] = FALSE]

\* EthernetClient::connected(): every status but these counts, UDP among them.
connected(c) ==
    /\ c # NoSocket
    /\ status[c] \notin {"LISTEN", "CLOSED", "FIN_WAIT"}
    /\ ~(status[c] = "CLOSE_WAIT" /\ ~data[c])

\* Not the code: a loop that ends at the first connection with data, and one that disowns
\* a connection as soon as the peer has closed it.
listening_stopsAtReady ==
    \E s \in Socket :
        /\ serverPort[s] /\ status[s] = "LISTEN"
        /\ \A t \in Socket : t < s => ~(serverPort[t] /\ data[t])
owned_notHalfClosed(s) == serverPort[s] /\ status[s] \in {"LISTEN", "ESTABLISHED"}

\* The loop of EthernetServer::available() found its listener, and it leaves socket s to
\* the server: a closed socket is disowned.
listening == \E s \in Socket : serverPort[s] /\ status[s] = "LISTEN"
owned(s) == serverPort[s] /\ status[s] # "CLOSED"

\* EthernetServer::available(), whose result becomes _client: the last connection with
\* data.  Connections the peer ended are disconnected, closed sockets disowned, and a
\* new listener is opened if none is left.
serverAvailable ==
    LET mine == {s \in Socket : serverPort[s]}
        ready == {s \in mine : status[s] \in {"ESTABLISHED", "CLOSE_WAIT"} /\ data[s]}
        st == [s \in Socket |-> IF s \in mine /\ status[s] = "CLOSE_WAIT" /\ ~data[s]
                                THEN "LAST_ACK" ELSE status[s]]
        port == [s \in Socket |-> owned(s)]
    IN  /\ \E c \in Socket \cup {NoSocket} :
              /\ highest(ready, c) \/ (ready = {} /\ c = NoSocket)
              /\ client' = c
        /\ IF listening
           THEN status' = st /\ serverPort' = port /\ data' = data
           ELSE \E s \in Socket \cup {NoSocket} :
                   socketBegin(st, s) /\ open(st, port, s, "LISTEN")

-----------------------------------------------------------------------------
(***************************************************************************)
(* setup() and NtpServer.                                                  *)
(***************************************************************************)
\* tcpCliServer.begin() if the Ethernet link is up.
setup ==
    /\ pc = "setup"
    /\ \/ UNCHANGED sockets
       \/ \E s \in Socket \cup {NoSocket} :
             socketBegin(status, s) /\ open(status, serverPort, s, "LISTEN")
    /\ pc' = "setupNtp"
    /\ UNCHANGED <<holders, resume>>

\* ntpServer.begin() with the link down.
setupNoLink ==
    /\ pc = "setupNtp"
    /\ pc' = "ntp"
    /\ UNCHANGED <<sockets, holders, resume>>

\* ethernetStarted = ethernetUdp.begin(NTP_PORT), in setup() and after a failed send.
udpBegin ==
    /\ pc \in {"setupNtp", "reopen"}
    /\ \E s \in Socket \cup {NoSocket} :
          /\ socketBegin(status, s)
          /\ open(status, serverPort, s, "UDP")
          /\ udp' = s /\ ethernetStarted' = (s # NoSocket)
    /\ pc' = IF pc = "reopen" THEN "serial" ELSE "ntp"
    /\ UNCHANGED <<client, dhcp, resume>>

\* No listener, no link, or no datagram.
ntpIdle ==
    /\ pc = "ntp"
    /\ pc' = "serial"
    /\ UNCHANGED <<sockets, holders, resume>>

ntpServe ==
    /\ pc = "ntp" /\ ethernetStarted /\ data[udp]
    /\ data' = [data EXCEPT ![udp] = FALSE]
    /\ pc' = "serial"
    /\ UNCHANGED <<status, serverPort, holders, resume>>

\* Not the code: the failed listener is begun again without stop().
ntpSendFailed_noStop ==
    /\ pc = "ntp" /\ ethernetStarted /\ data[udp]
    /\ data' = [data EXCEPT ![udp] = FALSE]
    /\ pc' = "reopen"
    /\ UNCHANGED <<status, udp, serverPort, client, dhcp, ethernetStarted, resume>>

\* Not the code: stop() marks the socket number with another sentinel than begin().
ntpSendFailed_otherSentinel ==
    /\ pc = "ntp" /\ ethernetStarted /\ data[udp]
    /\ status' = [status EXCEPT ![udp] = "CLOSED"]
    /\ data' = [data EXCEPT ![udp] = FALSE]
    /\ udp' = 255
    /\ pc' = "reopen"
    /\ UNCHANGED <<serverPort, client, dhcp, ethernetStarted, resume>>

\* endPacket() failed: ethernetUdp.stop(), then begin() after delay(100).
ntpSendFailed ==
    /\ pc = "ntp" /\ ethernetStarted /\ data[udp]
    /\ status' = [status EXCEPT ![udp] = "CLOSED"]
    /\ data' = [data EXCEPT ![udp] = FALSE]
    /\ udp' = NoSocket
    /\ pc' = "reopen"
    /\ UNCHANGED <<serverPort, client, dhcp, ethernetStarted, resume>>

-----------------------------------------------------------------------------
(***************************************************************************)
(* TcpCliServer::process(), in the three parts between which the peer can  *)
(* change what the status registers say.                                   *)
(***************************************************************************)
tcpAccept ==
    /\ pc = "accept"
    /\ IF connected(client)
       THEN UNCHANGED <<sockets, client>>
       ELSE serverAvailable
    /\ pc' = "check"
    /\ UNCHANGED <<udp, dhcp, ethernetStarted, resume>>

\* A client that is gone is stopped: disconnected, and closed at the latest after a second.
tcpCheck ==
    /\ pc = "check"
    /\ IF client # NoSocket /\ ~connected(client)
       THEN status' = [status EXCEPT ![client] = "CLOSED"] /\ client' = NoSocket
       ELSE UNCHANGED <<status, client>>
    /\ pc' = "read"
    /\ UNCHANGED <<data, serverPort, udp, dhcp, ethernetStarted, resume>>

\* while (_client.available()): the bytes are read, whatever they are, and the commands
\* among them executed.  Replies to the client leave the socket numbers alone.
tcpRead ==
    /\ pc = "read"
    /\ IF client # NoSocket /\ data[client]
       THEN data' = [data EXCEPT ![client] = FALSE] /\ pc' = "read"
       ELSE data' = data /\ pc' = "wifi"
    /\ UNCHANGED <<status, serverPort, holders, resume>>

-----------------------------------------------------------------------------
(***************************************************************************)
(* "net restart" with DHCP on, typed at any of the three CLIs.             *)
(***************************************************************************)
\* Where loop() goes on after the CLI that executes the command.
afterCommand ==
    CASE pc = "serial" -> "accept"
      [] pc = "read"   -> "read"
      [] pc = "wifi"   -> "ntp"

netRestart ==
    /\ pc \in {"serial", "wifi"} \/ (pc = "read" /\ client # NoSocket /\ data[client])
    /\ \E s \in Socket \cup {NoSocket} :
          LET rest == IF pc = "read" THEN [data EXCEPT ![client] = FALSE] ELSE data
          IN  /\ socketBegin(status, s)
              /\ dhcp' = s
              /\ IF s = NoSocket
                 THEN data' = rest /\ UNCHANGED <<status, serverPort>>
                 ELSE /\ status' = [status EXCEPT ![s] = "UDP"]
                      /\ serverPort' = [serverPort EXCEPT ![s] = FALSE]
                      /\ data' = [rest EXCEPT ![s] = FALSE]
              /\ pc' = IF s = NoSocket THEN afterCommand ELSE "dhcp"
    /\ resume' = afterCommand
    /\ UNCHANGED <<udp, client, ethernetStarted>>

\* The lease is there or the time for it is up: _dhcpUdpSocket.stop().
dhcpDone ==
    /\ pc = "dhcp"
    /\ status' = [status EXCEPT ![dhcp] = "CLOSED"]
    /\ dhcp' = NoSocket
    /\ pc' = resume
    /\ UNCHANGED <<data, serverPort, udp, client, ethernetStarted, resume>>

\* The serial and WiFi CLIs with any other input, or none.
otherCli ==
    /\ pc \in {"serial", "wifi"}
    /\ pc' = afterCommand
    /\ UNCHANGED <<sockets, holders, resume>>

loop ==
    \/ setup \/ setupNoLink \/ udpBegin \/ ntpIdle \/ ntpServe \/ ntpSendFailed
    \/ tcpAccept \/ tcpCheck \/ tcpRead
    \/ netRestart \/ dhcpDone \/ otherCli

-----------------------------------------------------------------------------
(***************************************************************************)
(* The peers and the chip's own timers.                                    *)
(***************************************************************************)
becomes(s, new) ==
    /\ status' = [status EXCEPT ![s] = new]
    /\ UNCHANGED <<data, serverPort, holders, pc, resume>>

PeerConnects(s) == status[s] = "LISTEN" /\ becomes(s, "ESTABLISHED")
PeerCloses(s) == status[s] = "ESTABLISHED" /\ becomes(s, "CLOSE_WAIT")

\* A reset, the end of a closing handshake, or the chip's retransmissions giving up.
ConnectionEnds(s) == status[s] \in Tcp \ {"LISTEN"} /\ becomes(s, "CLOSED")

BytesArrive(s) ==
    /\ status[s] \in {"ESTABLISHED", "UDP"} /\ ~data[s]
    /\ data' = [data EXCEPT ![s] = TRUE]
    /\ UNCHANGED <<status, serverPort, holders, pc, resume>>

Next ==
    \/ loop
    \/ \E s \in Socket :
          PeerConnects(s) \/ PeerCloses(s) \/ ConnectionEnds(s) \/ BytesArrive(s)

Spec == Init /\ [][Next]_vars

-----------------------------------------------------------------------------
TypeOK ==
    /\ status \in [Socket -> Status]
    /\ data \in [Socket -> BOOLEAN] /\ serverPort \in [Socket -> BOOLEAN]
    /\ udp \in Socket \cup {NoSocket} /\ client \in Socket \cup {NoSocket}
    /\ dhcp \in Socket \cup {NoSocket}
    /\ ethernetStarted \in BOOLEAN
    /\ pc \in Pc /\ resume \in Resume

\* While the NTP listener counts as started its socket is an open UDP socket: neither
\* the CLI's stop() nor the end of DHCP ever closes it, and socketBegin() never gives
\* it away (NtpServer::processEthernet relies on it at every poll).
NtpSocketOpen ==
    ethernetStarted /\ pc # "reopen" => udp \in Socket /\ status[udp] = "UDP"

\* Reopening the listener after a failed send always finds a socket, however many the
\* CLI's connections hold: the one stop() just closed (sendEthernetResponse, 203-205).
ReopenSucceeds == [][pc = "reopen" /\ pc' # pc => ethernetStarted']_vars

\* EthernetServer never listens twice: a listener left behind would take a connection
\* that available() reports beside the one the CLI serves.
OneListener ==
    \A s, t \in Socket : status[s] = "LISTEN" /\ status[t] = "LISTEN" => s = t

\* Every connection is known to the server by its port, so it is reported, disconnected
\* or disowned there: no socket is lost to a connection nobody looks at.
NoLostConnection == \A s \in Socket : status[s] \in Tcp => serverPort[s]

\* The DHCP socket is its holder's alone while the lease is negotiated, except that the
\* CLI may still hold the number of a connection that ended.
DhcpSocketOpen ==
    pc = "dhcp" => dhcp \in Socket /\ status[dhcp] = "UDP" /\ dhcp # udp

\* What socket.cpp line 75 takes for granted, "use any that are closed (unused)", and
\* Ethernet.h line 249, "MAX_SOCK_NUM means client not in use": whoever is given a
\* socket is its only holder.
SocketsNotShared ==
    /\ udp # NoSocket => udp # client /\ udp # dhcp
    /\ dhcp # NoSocket => dhcp # client
=============================================================================
