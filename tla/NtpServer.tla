----------------------------- MODULE NtpServer ------------------------------
(***************************************************************************)
(* NtpServer (src/src/ntp/NtpServer.cpp) under the loop of main.cpp: two   *)
(* UDP listeners polled in turn by one thread, one packet buffer shared by *)
(* both, and a socket that is closed and reopened when a send fails.  The  *)
(* network (arrivals, links) and time interleave with every step of it.    *)
(*                                                                         *)
(*   stage, turn - the statement the loop is at, and for which interface:  *)
(*       "setup"   main.cpp's setup(), before ntpServer.begin()            *)
(*       "poll"    process(): is the interface started and connected?      *)
(*       "parse"   the timestamp is read, parsePacket() comes next         *)
(*       "send"    the request is in packetBuffer                          *)
(*       "restart" the send failed and the socket is closed                *)
(*       "rest"    the rest of loop()                                      *)
(*   rxQueue     - external: the datagrams a listener's socket holds       *)
(*   connected   - external: ethernetConnected(), wifiConnected()          *)
(*   destination - SnDIPR and SnDPORT of the Ethernet listener's socket:   *)
(*       where its next packet goes                                        *)
(*   receiveTimestamp - a reading of the clocks, told apart from others by *)
(*       the moment it was begun.  What they show then, the RTC that may   *)
(*       be set and millis() that is not in phase with it, is ServedTime's *)
(*       matter.                                                           *)
(*   now         - the time since power-up, which nothing sets             *)
(*   sent        - history: the responses sent                             *)
(* Every datagram has an originate timestamp of its own (its number), so   *)
(* datagrams, and what packetBuffer holds of them, are told apart by it.   *)
(***************************************************************************)
EXTENDS Indicators, Sequences

CONSTANTS Client,       \* remote addresses (IP and port)
          Refused,      \* those that beginPacket() refuses: port 0 or 0.0.0.0
          NoClient,     \* _lastClient before the first request; none of them
          CounterWord,  \* number of values of the uint32_t counters, 2^32
          QueueLen,     \* external: datagrams a socket's receive buffer holds
          MaxDatagrams, \* bound: datagrams the network delivers
          MaxTime       \* bound: value of now at which time stops

ASSUME NtpServerAssumption ==
    /\ NoClient \notin Client /\ Refused \subseteq Client
    /\ CounterWord \in Nat \ {0} /\ QueueLen \in Nat
    /\ MaxDatagrams \in Nat /\ MaxTime \in Nat
    /\ MaxTime < MillisWord

VARIABLES stage, turn, started, connected, rxQueue, receiveTimestamp,
          packetBuffer, remote, destination, requestCount, responseCount, sendErrorCount,
          lastClient, leds, now, datagrams, sent

counters == <<requestCount, responseCount, sendErrorCount, lastClient>>
locals == <<receiveTimestamp, packetBuffer, remote>>
handler == <<locals, destination>>
network == <<connected, now, datagrams>>
vars == <<stage, turn, started, rxQueue, sent, leds, handler, counters, network>>

Interface == {"ethernet", "wifi"}
Stage == {"setup", "poll", "parse", "send", "restart", "rest"}
Datagram == [from : Client, originate : 1..MaxDatagrams, full : BOOLEAN]
Anyone == Client \cup {NoClient}
Response == [from : Client, to : Anyone, via : Interface, originate : 1..MaxDatagrams,
             readAt : 0..MaxTime, sentAt : 0..MaxTime]

\* Faulty variants, <definition>_<fault>, stand before the definition they vary and are
\* used nowhere else; they show that the properties can fail.
inc_noWrap(counter) == counter + 1

inc(counter) == (counter + 1) % CounterWord

\* A socket takes datagrams from begin() to stop(), connected or not.
Listening(i) == started[i] /\ ~(stage = "restart" /\ turn = i)

Init ==
    /\ stage = "setup" /\ turn = "ethernet"
    /\ started = [i \in Interface |-> FALSE]
    /\ connected \in [Interface -> BOOLEAN]
    /\ rxQueue = [i \in Interface |-> <<>>]
    /\ receiveTimestamp = 0 /\ packetBuffer = 0 /\ remote = NoClient
    /\ destination = NoClient
    /\ requestCount = 0 /\ responseCount = 0 /\ sendErrorCount = 0
    /\ lastClient = NoClient
    /\ leds = AllDark
    /\ now = 0 /\ datagrams = 0 /\ sent = <<>>

-----------------------------------------------------------------------------
\* begin(), called by setup() when networkManager.begin() found an interface: a
\* listener is opened on the interfaces connected at this moment and on no other.
begin ==
    /\ stage = "setup"
    /\ started' \in [Interface -> BOOLEAN]
    /\ \A i \in Interface : started'[i] => connected[i]
    /\ stage' = "poll"
    /\ UNCHANGED <<turn, rxQueue, sent, leds, handler, counters, network>>

\* Faulty: "else if" between the two interfaces of process().
toNext_elseIf ==
    IF turn = "ethernet" /\ ~(started[turn] /\ connected[turn])
    THEN stage' = "poll" /\ turn' = "wifi"
    ELSE stage' = "rest" /\ turn' = "ethernet"

\* Where process() and loop() go after the interface whose turn it was.
toNext ==
    IF turn = "ethernet"
    THEN stage' = "poll" /\ turn' = "wifi"
    ELSE stage' = "rest" /\ turn' = "ethernet"

\* Faulty: one timestamp for both interfaces, read before the first.
poll_oneTimestamp ==
    /\ stage = "poll"
    /\ IF started[turn] /\ connected[turn]
       THEN /\ stage' = "parse" /\ turn' = turn
            /\ receiveTimestamp' = IF turn = "ethernet" THEN now ELSE receiveTimestamp
       ELSE /\ toNext
            /\ UNCHANGED receiveTimestamp
    /\ UNCHANGED <<started, rxQueue, sent, leds, packetBuffer, remote, destination, counters,
                   network>>

\* Faulty: opens a listener on an interface found connected later on.
poll_opensListener ==
    /\ stage = "poll"
    /\ IF connected[turn]
       THEN /\ stage' = "parse" /\ turn' = turn
            /\ started' = [started EXCEPT ![turn] = TRUE]
            /\ receiveTimestamp' = now
       ELSE /\ toNext
            /\ UNCHANGED <<started, receiveTimestamp>>
    /\ UNCHANGED <<rxQueue, sent, leds, packetBuffer, remote, destination, counters, network>>

\* process(), and the handler's first statements: the clocks are read before it is
\* known whether a packet is waiting.  The second reading of the two, of millis(), may be
\* later than the moment noted.
poll ==
    /\ stage = "poll"
    /\ IF started[turn] /\ connected[turn]
       THEN /\ stage' = "parse" /\ turn' = turn
            /\ receiveTimestamp' = now
       ELSE /\ toNext
            /\ UNCHANGED receiveTimestamp
    /\ UNCHANGED <<started, rxQueue, sent, leds, packetBuffer, remote, destination, counters,
                   network>>

parseNothing ==
    /\ stage = "parse" /\ rxQueue[turn] = <<>>
    /\ toNext
    /\ UNCHANGED <<started, rxQueue, sent, leds, handler, counters, network>>

\* packetSize < NTP_PACKET_SIZE: the packet is drained and nothing is counted.
parseTooSmall ==
    /\ stage = "parse" /\ rxQueue[turn] # <<>>
    /\ ~Head(rxQueue[turn]).full
    /\ rxQueue' = [rxQueue EXCEPT ![turn] = Tail(@)]
    /\ toNext
    /\ UNCHANGED <<started, sent, leds, handler, counters, network>>

\* A packet of 48 bytes or more is read into packetBuffer; what it holds beyond that
\* is drained after the send, which no other code can observe.
parseRequest ==
    /\ stage = "parse" /\ rxQueue[turn] # <<>>
    /\ Head(rxQueue[turn]).full
    /\ packetBuffer' = Head(rxQueue[turn]).originate
    /\ remote' = Head(rxQueue[turn]).from
    /\ rxQueue' = [rxQueue EXCEPT ![turn] = Tail(@)]
    /\ requestCount' = inc(requestCount)
    /\ lastClient' = remote'
    /\ leds' = requestReceived(leds, now)
    /\ stage' = "send"
    /\ UNCHANGED <<turn, started, sent, receiveTimestamp, destination, responseCount,
                   sendErrorCount, network>>

\* Where the packet goes: what beginPacket() of Ethernet refuses leaves the destination
\* registers as they are, and its result is ignored.  The WiFi stack takes any address.
recipient == IF turn = "ethernet" /\ remote \in Refused THEN destination ELSE remote

beginPacket == destination' = IF turn = "ethernet" THEN recipient ELSE destination

\* sendXResponse(): reference, receive and transmit timestamp are all receiveTimestamp.
sendOk ==
    /\ stage = "send"
    /\ beginPacket
    /\ sent' = Append(sent, [from |-> remote, to |-> recipient, via |-> turn,
                             originate |-> packetBuffer, readAt |-> receiveTimestamp,
                             sentAt |-> now])
    /\ responseCount' = inc(responseCount)
    /\ leds' = responseSent(leds, now)
    /\ toNext
    /\ UNCHANGED <<started, rxQueue, locals, requestCount, sendErrorCount, lastClient,
                   network>>

\* Faulty: reopens without stop(), so the socket keeps what it held.
sendFailed_noStop ==
    /\ stage = "send"
    /\ beginPacket
    /\ stage' = "restart"
    /\ UNCHANGED <<turn, started, rxQueue, sent, leds, locals, counters, network>>

\* endPacket() returned 0: stop() closes the socket, and what it held is gone.
sendFailed ==
    /\ stage = "send"
    /\ beginPacket
    /\ rxQueue' = [rxQueue EXCEPT ![turn] = <<>>]
    /\ stage' = "restart"
    /\ UNCHANGED <<turn, started, sent, leds, locals, counters, network>>

\* Faulty: the send error is counted only when the socket cannot be reopened.
restart_countsFailure ==
    /\ stage = "restart"
    /\ \E ok \in BOOLEAN :
          /\ started' = [started EXCEPT ![turn] = ok]
          /\ sendErrorCount' = IF ok THEN sendErrorCount ELSE inc(sendErrorCount)
    /\ leds' = error(leds, now)
    /\ toNext
    /\ UNCHANGED <<rxQueue, sent, handler, requestCount, responseCount, lastClient,
                   network>>

\* The socket opened may be another one, whose registers hold what they held.
reopenedDestination ==
    IF turn = "ethernet" THEN destination' \in Anyone ELSE UNCHANGED destination

\* After delay(100): begin(NTP_PORT), which may fail.
restart ==
    /\ stage = "restart"
    /\ \E ok \in BOOLEAN : started' = [started EXCEPT ![turn] = ok]
    /\ sendErrorCount' = inc(sendErrorCount)
    /\ leds' = error(leds, now)
    /\ reopenedDestination
    /\ toNext
    /\ UNCHANGED <<rxQueue, sent, locals, requestCount, responseCount, lastClient, network>>

\* The NTP client, the CLIs and indicatorManager.process(); loop() starts over.  A sync or
\* "time set" may set the RTC, which is not among the variables.  The TCP CLI reads what the
\* Ethernet listener's socket holds when _client has come to name it (SocketPool).
restOfLoop ==
    /\ stage = "rest"
    /\ rxQueue' \in {rxQueue, [rxQueue EXCEPT !["ethernet"] = <<>>]}
    /\ leds' = endPulses(leds, now)
    /\ stage' = "poll"
    /\ UNCHANGED <<turn, started, sent, handler, counters, network>>

process ==
    \/ begin \/ poll
    \/ parseNothing \/ parseTooSmall \/ parseRequest
    \/ sendOk \/ sendFailed \/ restart \/ restOfLoop

-----------------------------------------------------------------------------
\* The network delivers a datagram to interface i: queued if its socket is open and
\* has room, lost otherwise.
Arrive(i) ==
    /\ datagrams < MaxDatagrams
    /\ datagrams' = datagrams + 1
    /\ IF Listening(i) /\ Len(rxQueue[i]) < QueueLen
       THEN \E c \in Client, full \in BOOLEAN :
               rxQueue' = [rxQueue EXCEPT ![i] = Append(@,
                   [from |-> c, originate |-> datagrams', full |-> full])]
       ELSE UNCHANGED rxQueue
    /\ UNCHANGED <<stage, turn, started, sent, leds, handler, counters, connected, now>>

\* A link comes up or goes down; the listener's socket and its queue stay.
LinkChange(i) ==
    /\ connected' = [connected EXCEPT ![i] = ~@]
    /\ UNCHANGED <<stage, turn, started, rxQueue, sent, leds, handler, counters, now,
                   datagrams>>

Tick ==
    /\ now < MaxTime
    /\ now' = now + 1
    /\ UNCHANGED <<stage, turn, started, rxQueue, sent, leds, handler, counters,
                   connected, datagrams>>

Next ==
    \/ process
    \/ \E i \in Interface : Arrive(i) \/ LinkChange(i)
    \/ Tick

\* The Arduino core calls loop() again and again and one thread runs it: the program's
\* next step is taken once the call it is in returns.  That each call returns is assumed:
\* SEND_OK or TIMEOUT ends every socketSendUDP(), but a reply of the TCP CLI may be held
\* in socketSend(), by a peer or on a socket that is not its own (SocketSend).
SafeSpec == Init /\ [][Next]_vars
Spec == SafeSpec /\ WF_vars(process)

-----------------------------------------------------------------------------
TypeOK ==
    /\ stage \in Stage /\ turn \in Interface
    /\ started \in [Interface -> BOOLEAN] /\ connected \in [Interface -> BOOLEAN]
    /\ rxQueue \in [Interface -> Seq(Datagram)]
    /\ receiveTimestamp \in 0..MaxTime /\ packetBuffer \in 0..MaxDatagrams
    /\ remote \in Anyone /\ lastClient \in Anyone /\ destination \in Anyone
    /\ requestCount \in 0..(CounterWord - 1)
    /\ responseCount \in 0..(CounterWord - 1)
    /\ sendErrorCount \in 0..(CounterWord - 1)
    /\ leds \in Pulses
    /\ now \in 0..MaxTime /\ datagrams \in 0..MaxDatagrams
    /\ sent \in Seq(Response)

InService == IF stage \in {"send", "restart"} THEN 1 ELSE 0

\* Every request counted is answered, in service, or a counted send error: the three
\* counters "ntp status" prints agree modulo their width, also after they wrap
\* (_requestCount, _responseCount, _sendErrorCount in NtpServer.cpp).
CountersAgree ==
    requestCount = (responseCount + sendErrorCount + InService) % CounterWord

\* A closed listener holds no datagrams, and the loop never parses or answers on one:
\* the handlers of an interface run only while its socket is open.
ClosedListenerIsIdle ==
    \A i \in Interface : ~started[i] =>
        /\ rxQueue[i] = <<>>
        /\ ~(turn = i /\ stage \in {"parse", "send", "restart"})

\* A listener that is not running after setup() never starts again: an interface that
\* comes up later, or whose reopening failed once, gets no NTP service until a reboot
\* (begin() is called by setup() only, process() tests the flag).
NeverStartedLater ==
    [][\A i \in Interface : ~started[i] /\ started'[i] => stage = "setup"]_vars

\* While its link stays up, a queued datagram does not stay queued: the loop reaches
\* every listener again, whatever arrives on the other one and whether sends fail.
QueuedIsConsumed ==
    \A i \in Interface, n \in 1..MaxDatagrams :
        (\E k \in DOMAIN rxQueue[i] : rxQueue[i][k].originate = n)
            ~> (\/ ~connected[i]
                \/ ~\E k \in DOMAIN rxQueue[i] : rxQueue[i][k].originate = n)

\* The server implements the service: the requests pending are the full packets in
\* the queues and the one in packetBuffer.
Request == [from : Client, via : Interface, originate : 1..MaxDatagrams]

Queued == {q \in Request : \E k \in DOMAIN rxQueue[q.via] :
             /\ rxQueue[q.via][k].full
             /\ rxQueue[q.via][k].from = q.from
             /\ rxQueue[q.via][k].originate = q.originate}

InBuffer == IF stage = "send"
            THEN {[from |-> remote, via |-> turn, originate |-> packetBuffer]}
            ELSE {}

Service == INSTANCE NtpService WITH
    clock <- now, datagrams <- datagrams, pending <- Queued \cup InBuffer,
    answers <- sent, Misdirected <- Refused \X {"ethernet"}

\* Every behaviour of the server is one of NtpService: each response answers one pending
\* request, once, over its interface, with its originate and a reading of the clocks made
\* after the response before; and it goes to its sender, except that over Ethernet nothing
\* is said of where it goes when the sender's address is one that beginPacket() refuses.
ImplementsService == Service!Spec

\* "Start building up a packet to send to the remote host specific in ip and port" and
\* "Finish off this packet and send it" (Ethernet.h:171, 177): no client gets a response
\* that was built for another one.
AnswersItsSender ==
    \A k \in DOMAIN sent : sent[k].to \in Client => sent[k].to = sent[k].from
=============================================================================
