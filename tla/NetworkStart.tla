---------------------------- MODULE NetworkStart ----------------------------
(***************************************************************************)
(* How the two interfaces are brought up: NetworkManager, EthernetManager  *)
(* and WifiManager, Ethernet.begin() and linkStatus() with the detection   *)
(* of the chip (W5100Class::init()), and the DHCP client.  setup() starts  *)
(* the Ethernet and then the WiFi; "net restart", "wifi connect" and "wifi *)
(* disconnect" do it again.  All of it blocks loop().                      *)
(*                                                                         *)
(*   hardware    - chip that answers on the bus, 0 if none does (yet)      *)
(*   initialized - the static of W5100Class::init()                        *)
(*   regs        - what the chip holds: a MAC or none, an address and a    *)
(*                 gateway                                                 *)
(*   booting     - in setup()                                              *)
(*   pc          - "ethernet", "wifi": startEthernet(), startWifi();       *)
(*                 "START", "DISCOVER", "REQUEST": _dhcp_state while a     *)
(*                 lease is negotiated; "connecting": the loop of          *)
(*                 WifiManager::connect(); "loop": in none of them         *)
(*   started     - what EthernetManager::begin() returned last             *)
(*   leased      - what DhcpClass has read from answers: address, gateway  *)
(*                 and server, 0 if nothing                                *)
(*   initial, xid - _dhcpInitialTransactionId, _dhcpTransactionId          *)
(*   elapsed, waited - time since the negotiation, or connect(), began and *)
(*                 since parseDHCPResponse() did; 0 when nothing is timed  *)
(*   answers     - answers on the way to the client                        *)
(*   granted     - (history) addresses a server has acknowledged           *)
(*                                                                         *)
(* The network loses, delays and reorders: an answer waits in answers as   *)
(* long as it likes, across restarts too, or for ever.  checkLease() is    *)
(* never called, so a lease is not renewed: what happens when one runs out *)
(* is not modelled.                                                        *)
(***************************************************************************)
EXTENDS Integers, FiniteSets

CONSTANTS Server,          \* DHCP servers
          Address,         \* the address each offers to this client
          Gateway,         \* the router each names, 0 if it names none
          Static,          \* [ip, gateway] of the configuration
          Hardware,        \* 55 on this board, 51 and 52 are its predecessors
          Initial,         \* what random() may return
          Timeout,         \* 60000
          ResponseTimeout, \* 4000
          WifiTimeout,     \* 15000
          MaxXid,          \* bound: servers answer messages with smaller xids
          MaxAnswers,      \* bound: answers on the way
          MaxTime          \* bound on elapsed and waited, larger than the timeouts

None == "0.0.0.0"

ASSUME NetworkStartAssumption ==
    /\ Address \in [Server -> STRING \ {None}] /\ Gateway \in [Server -> STRING]
    /\ \A s, t \in Server : Address[s] = Address[t] => s = t
    /\ Static.ip # None /\ \A s \in Server : Static.ip # Address[s]
    /\ Hardware \subseteq {51, 52, 55}
    /\ Initial \subseteq Nat /\ MaxTime \in Nat
    /\ {Timeout, ResponseTimeout, WifiTimeout} \subseteq 0..(MaxTime - 1)

VARIABLES hardware, initialized, regs, booting, pc, started,
          leased, initial, xid, elapsed, waited, answers, granted

chip == <<hardware, initialized>>
client == <<leased, initial, xid>>
timers == <<elapsed, waited>>
network == <<answers, granted>>
vars == <<chip, regs, booting, pc, started, client, timers, network>>

Negotiating == {"START", "DISCOVER", "REQUEST"}
Pc == {"ethernet", "wifi", "connecting", "loop"} \cup Negotiating

SoftReset == [mac |-> FALSE, ip |-> None, gateway |-> None]
NoLease == [ip |-> None, gateway |-> None, server |-> None]

Init ==
    /\ hardware \in Hardware \cup {0}
    /\ initialized = FALSE /\ regs = SoftReset
    /\ booting = TRUE /\ pc = "ethernet" /\ started = FALSE
    /\ leased = NoLease /\ initial = 0 /\ xid = 0
    /\ elapsed = 0 /\ waited = 0
    /\ answers = {} /\ granted = {}

-----------------------------------------------------------------------------
(***************************************************************************)
(* The chip.                                                               *)
(***************************************************************************)
\* isW5200(), isW5500(), isW5100(): the chip survives a reset, holds what is written to its
\* mode register, and has the version of its kind.
isChip(kind) == hardware = kind

\* W5100.init() returns 1: it did before, or one of the three chips is recognised.  The
\* first time the chip has been reset.
init == initialized \/ isChip(52) \/ isChip(55) \/ isChip(51)
initRegs == IF initialized THEN regs ELSE SoftReset

\* isConnected() of the two managers, which every pass of loop() asks.  linkStatus() calls
\* init() as well, and finds a chip that begin() did not find.
checkLinks ==
    /\ pc = "loop"
    /\ initialized' = init
    /\ regs' = IF init THEN initRegs ELSE regs
    /\ UNCHANGED <<hardware, booting, pc, started, client, timers, network>>

\* The chip comes up late.
powerChip ==
    /\ hardware = 0
    /\ hardware' \in Hardware
    /\ UNCHANGED <<initialized, regs, booting, pc, started, client, timers, network>>

-----------------------------------------------------------------------------
(***************************************************************************)
(* EthernetManager::begin().                                               *)
(***************************************************************************)
\* startEthernet() in setup(), or restart(), of which only setup() goes on with the WiFi.
starting == pc = "ethernet" \/ pc = "loop"
afterEthernet == IF booting THEN "wifi" ELSE "loop"

\* With "net dhcp off": the chip gets all of the configuration, if there is a chip; the
\* result is true anyway.
beginStatic ==
    /\ starting
    /\ initialized' = init
    /\ regs' = IF init THEN [mac |-> TRUE, ip |-> Static.ip, gateway |-> Static.gateway]
               ELSE regs
    /\ started' = TRUE /\ pc' = afterEthernet
    /\ UNCHANGED <<hardware, booting, client, timers, network>>

\* Not the code: the address stays until a new one is known.
clearAddress_keeps(r) == [r EXCEPT !.mac = TRUE]

\* setMACAddress(mac), setIPAddress(0.0.0.0)
clearAddress(r) == [r EXCEPT !.mac = TRUE, !.ip = None]

\* With "net dhcp on", and nothing to negotiate with: no chip, or no free socket.
beginDhcpFails ==
    /\ starting
    /\ initialized' = init
    /\ regs' = IF init THEN clearAddress(initRegs) ELSE regs
    /\ started' = FALSE /\ pc' = afterEthernet
    /\ IF init
       THEN \E i \in Initial : initial' = i /\ xid' = i /\ leased' = NoLease
       ELSE UNCHANGED client
    /\ UNCHANGED <<hardware, booting, timers, network>>

\* With "net dhcp on": beginWithDHCP() forgets the lease and picks a transaction id.
beginDhcp ==
    /\ starting /\ init
    /\ initialized' = TRUE
    /\ regs' = clearAddress(initRegs)
    /\ leased' = NoLease
    /\ \E i \in Initial : initial' = i /\ xid' = i
    /\ elapsed' = 0 /\ waited' = 0
    /\ pc' = "START"
    /\ UNCHANGED <<hardware, booting, started, network>>

-----------------------------------------------------------------------------
(***************************************************************************)
(* The servers.  They are not part of the repository: each has one address *)
(* for this client, offers it, and acknowledges or refuses a request for   *)
(* it.  A request that names another server is none of its business; one   *)
(* that names it together with another address it refuses.                 *)
(***************************************************************************)
answer(s, type, m) ==
    [type |-> type, xid |-> m.xid, server |-> s,
     ip |-> IF type = "NAK" THEN None ELSE Address[s],
     gateway |-> IF type = "NAK" THEN None ELSE Gateway[s]]

serverAnswers(s, m) ==
    CASE m.type = "DISCOVER" -> {answer(s, "OFFER", m)}
      [] m.type = "REQUEST" /\ m.server # s -> {}
      [] m.type = "REQUEST" /\ m.server = s ->
            {answer(s, "NAK", m)} \cup
            (IF m.ip = Address[s] THEN {answer(s, "ACK", m)} ELSE {})

\* Message m of the client goes to all servers; some get it, and give one answer each.  The
\* answer that m is a reaction to, if any, is no longer on its way.
send(m, read) ==
    LET possible == UNION {serverAnswers(s, m) : s \in Server}
    IN  \E given \in SUBSET (IF m.xid < MaxXid THEN possible ELSE {}) :
           /\ \A a, b \in given : a.server = b.server => a = b
           /\ answers' = (answers \ read) \cup given
           /\ Cardinality(answers') <= MaxAnswers
           /\ granted' = granted \cup {a.ip : a \in {b \in given : b.type = "ACK"}}

-----------------------------------------------------------------------------
(***************************************************************************)
(* request_DHCP_lease().                                                   *)
(***************************************************************************)
ended == elapsed' = 0 /\ waited' = 0

\* Not the code: a negotiation that is over only when a lease is granted.
goOn_forEver(state) == pc' = state /\ elapsed' = elapsed /\ waited' = 0 /\ UNCHANGED started

\* The end of an iteration that leaves the client in state: the negotiation is over when it
\* has lasted too long.
goOn(state) ==
    IF elapsed > Timeout
    THEN pc' = afterEthernet /\ started' = FALSE /\ ended
    ELSE pc' = state /\ elapsed' = elapsed /\ waited' = 0 /\ UNCHANGED started

\* STATE_DHCP_START: a DISCOVER with the next transaction id.
discover ==
    /\ pc = "START"
    /\ xid' = xid + 1
    /\ send([type |-> "DISCOVER", xid |-> xid'], {})
    /\ goOn("DISCOVER")
    /\ UNCHANGED <<chip, regs, booting, leased, initial>>

\* parseDHCPResponse() has waited too long and returns 255.
noResponse ==
    /\ pc \in {"DISCOVER", "REQUEST"}
    /\ waited > ResponseTimeout
    /\ goOn("START")
    /\ UNCHANGED <<chip, regs, booting, client, network>>

\* Not the code: the address is taken from offers only.
parse_offersOnly(m) ==
    [ip      |-> IF m.type = "OFFER" THEN m.ip ELSE leased.ip,
     gateway |-> IF m.gateway = None THEN leased.gateway ELSE m.gateway,
     server  |-> IF leased.server \in {None, m.server} THEN m.server ELSE leased.server]

\* Not the code: the gateway is kept once it is known, as the server is.
parse_firstGateway(m) ==
    [ip      |-> m.ip,
     gateway |-> IF leased.gateway = None THEN m.gateway ELSE leased.gateway,
     server  |-> IF leased.server \in {None, m.server} THEN m.server ELSE leased.server]

\* Not the code: the server's option is taken for the router's.
parse_swapsOptions(m) == [ip |-> m.ip, gateway |-> m.server, server |-> m.server]

\* What parseDHCPResponse() has read after answer m: the address always, the gateway if the
\* answer names one, and the server only until one is known.
parse(m) ==
    [ip      |-> m.ip,
     gateway |-> IF m.gateway = None THEN leased.gateway ELSE m.gateway,
     server  |-> IF leased.server \in {None, m.server} THEN m.server ELSE leased.server]

\* An answer is to this client and, as far as its transaction id tells, to a message of
\* this negotiation.
matches(m) == initial <= m.xid /\ m.xid <= xid

\* Answer m arrives in one of the two states that wait for answers.
receive(m) == pc \in {"DISCOVER", "REQUEST"} /\ m \in answers

\* It is not one to this negotiation: nothing of it is read.
receiveOther(m) ==
    /\ receive(m) /\ ~matches(m)
    /\ answers' = answers \ {m}
    /\ goOn(pc)
    /\ UNCHANGED <<chip, regs, booting, client, granted>>

\* It is one, though not expected in this state: it is read all the same.
receiveUnexpected(m) ==
    /\ receive(m) /\ matches(m)
    /\ (pc = "DISCOVER") # (m.type = "OFFER")
    /\ leased' = parse(m)
    /\ answers' = answers \ {m}
    /\ goOn(pc)
    /\ UNCHANGED <<chip, regs, booting, initial, xid, granted>>

\* The first offer is requested, under its transaction id.
receiveOffer(m) ==
    /\ receive(m) /\ matches(m)
    /\ pc = "DISCOVER" /\ m.type = "OFFER"
    /\ leased' = parse(m) /\ xid' = m.xid
    /\ send([type |-> "REQUEST", xid |-> m.xid, ip |-> leased'.ip, server |-> leased'.server],
            {m})
    /\ goOn("REQUEST")
    /\ UNCHANGED <<chip, regs, booting, initial>>

\* The lease is granted: begin() gives the chip all of it.
receiveAck(m) ==
    /\ receive(m) /\ matches(m)
    /\ pc = "REQUEST" /\ m.type = "ACK"
    /\ leased' = parse(m) /\ xid' = xid + 1
    /\ regs' = [mac |-> TRUE, ip |-> leased'.ip, gateway |-> leased'.gateway]
    /\ answers' = answers \ {m}
    /\ started' = TRUE /\ pc' = afterEthernet /\ ended
    /\ UNCHANGED <<chip, booting, initial, granted>>

receiveNak(m) ==
    /\ receive(m) /\ matches(m)
    /\ pc = "REQUEST" /\ m.type = "NAK"
    /\ leased' = parse(m)
    /\ answers' = answers \ {m}
    /\ goOn("START")
    /\ UNCHANGED <<chip, regs, booting, initial, xid, granted>>

-----------------------------------------------------------------------------
(***************************************************************************)
(* WiFi, and time.                                                         *)
(***************************************************************************)
\* WifiManager::begin() in setup(), with the WiFi disabled; setup() is over.
wifiDisabled ==
    /\ pc = "wifi"
    /\ pc' = "loop" /\ booting' = FALSE
    /\ UNCHANGED <<chip, regs, started, client, timers, network>>

\* WifiManager::connect(), in setup() or as a command.
connect ==
    /\ pc \in {"wifi", "loop"}
    /\ pc' = "connecting"
    /\ UNCHANGED <<chip, regs, booting, started, client, timers, network>>

connectReturns ==
    /\ pc = "connecting"
    /\ pc' = "loop" /\ booting' = FALSE /\ ended
    /\ UNCHANGED <<chip, regs, started, client, network>>

\* Its loop finds WL_CONNECTED, which is up to the radio and the access point ...
connectSucceeds == connectReturns

\* ... or gives up after 15 s.
connectTimesOut == elapsed > WifiTimeout /\ connectReturns

tick ==
    /\ pc \in Negotiating \cup {"connecting"}
    /\ elapsed < MaxTime
    /\ elapsed' = elapsed + 1
    /\ waited' = IF pc = "connecting" THEN 0 ELSE waited + 1
    /\ UNCHANGED <<chip, regs, booting, pc, started, client, network>>

\* What the processor does next inside setup() or a blocking call.
blockingStep ==
    \/ booting /\ (beginStatic \/ beginDhcpFails \/ beginDhcp)
    \/ discover \/ noResponse \/ wifiDisabled \/ connectTimesOut
    \/ \E m \in answers : \/ receiveOther(m) \/ receiveUnexpected(m) \/ receiveOffer(m)
                          \/ receiveAck(m) \/ receiveNak(m)

\* What may happen as well: a command, a pass of loop(), and the world.
otherStep ==
    \/ pc = "loop" /\ (beginStatic \/ beginDhcpFails \/ beginDhcp)
    \/ connect \/ connectSucceeds \/ checkLinks \/ powerChip

Next == blockingStep \/ otherStep \/ tick

SafeSpec == Init /\ [][Next]_vars

\* The processor executes what it is in the middle of, and time passes; nothing is assumed
\* of servers and access points.
Spec == SafeSpec /\ WF_vars(blockingStep) /\ WF_vars(tick)

-----------------------------------------------------------------------------
Ip == {None, Static.ip} \cup {Address[s] : s \in Server}
Router == {None, Static.gateway} \cup {Gateway[s] : s \in Server}

TypeOK ==
    /\ hardware \in Hardware \cup {0} /\ initialized \in BOOLEAN
    /\ regs \in [mac : BOOLEAN, ip : Ip, gateway : Router]
    /\ {booting, started} \subseteq BOOLEAN /\ pc \in Pc
    /\ leased \in [ip : Ip, gateway : Router, server : Server \cup {None}]
    /\ initial \in Nat /\ xid \in Nat /\ elapsed \in 0..MaxTime /\ waited \in 0..MaxTime
    /\ granted \subseteq Ip

\* The address in use was granted: answers of two servers and of earlier negotiations may
\* arrive in any order, every one of them that is let through overwrites the address, and
\* yet the chip gets none that a server only offered.
AddressWasGranted == regs.ip \in granted \cup {None, Static.ip}

\* Address and gateway in use are one configuration's: the static one, or that of the server
\* whose address it is.  A server that names no router is excluded: with it the gateway of
\* another server's offer stays.
GatewayOfAddress ==
    /\ regs.ip = Static.ip => regs.gateway = Static.gateway
    /\ \A s \in Server :
          regs.ip = Address[s] /\ Gateway[s] # None => regs.gateway = Gateway[s]

\* An interface whose last start failed, and one that is being started, has no address,
\* whatever it had before; and one that has an address has its MAC.
NoAddressUnlessStarted ==
    /\ ~started \/ pc \in Negotiating => regs.ip = None
    /\ regs.ip # None => regs.mac /\ initialized

\* Every blocking call returns: setup() reaches loop(), and "net restart" and "wifi connect"
\* give it back, with no server, no access point, or servers that only refuse.
CallsReturn == pc # "loop" ~> pc = "loop"
=============================================================================
