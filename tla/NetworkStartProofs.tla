------------------------- MODULE NetworkStartProofs -------------------------
(***************************************************************************)
(* Theorems about NetworkStart for any set of DHCP servers, any timeouts   *)
(* and any number of answers on the way, of any age.                       *)
(***************************************************************************)
EXTENDS NetworkStart, TLAPS

\* What holds of an answer on its way when the addresses in g have been acknowledged.
Answered(a, g) ==
    /\ a.type \in {"OFFER", "ACK", "NAK"} /\ a.xid \in Nat /\ a.server \in Server
    /\ a.type = "NAK" => a.ip = None /\ a.gateway = None
    /\ a.type # "NAK" => a.ip = Address[a.server] /\ a.gateway = Gateway[a.server]
    /\ a.type = "ACK" => a.ip \in g

AnswersOK == \A a \in answers : Answered(a, granted)

\* A lease is negotiated with a chip that was found.
ChipFound == pc \in Negotiating => initialized

IInv ==
    /\ TypeOK /\ waited <= elapsed /\ AnswersOK /\ ChipFound
    /\ AddressWasGranted /\ GatewayOfAddress /\ NoAddressUnlessStarted

-----------------------------------------------------------------------------
LEMMA Addresses == \A s \in Server : Address[s] \in Ip /\ Address[s] # None /\ Gateway[s] \in Router
  BY NetworkStartAssumption DEF Ip, Router

\* Whatever a server gives is an answer in the sense of Answered.
LEMMA ServerAnswers ==
  ASSUME NEW m, m.type \in {"DISCOVER", "REQUEST"}, m.xid \in Nat,
         NEW s \in Server, NEW a \in serverAnswers(s, m)
  PROVE  Answered(a, {a.ip}) /\ a.ip \in Ip
<1>1. a \in {answer(s, "OFFER", m), answer(s, "NAK", m), answer(s, "ACK", m)}
  BY DEF serverAnswers
<1>2. None \in Ip
  BY DEF Ip
<1> QED  BY <1>1, <1>2, Addresses DEF answer, Answered

\* Sending keeps what is said of answers, and forgets no acknowledgement.
LEMMA SendStep ==
  ASSUME IInv, NEW m, m.type \in {"DISCOVER", "REQUEST"}, m.xid \in Nat,
         NEW read, send(m, read)
  PROVE  AnswersOK' /\ granted \subseteq granted' /\ granted' \subseteq Ip
<1> DEFINE possible == UNION {serverAnswers(s, m) : s \in Server}
<1>1. PICK given \in SUBSET possible :
         /\ answers' = (answers \ read) \cup given
         /\ granted' = granted \cup {a.ip : a \in {b \in given : b.type = "ACK"}}
  BY DEF send
<1>2. ASSUME NEW a \in given PROVE Answered(a, {a.ip}) /\ a.ip \in Ip
  <2>1. PICK s \in Server : a \in serverAnswers(s, m)
    BY <1>1
  <2> QED  BY <2>1, ServerAnswers
<1>3. granted \subseteq granted' /\ granted' \subseteq Ip
  BY <1>1, <1>2 DEF IInv, TypeOK
<1>4. \A a \in given : a.type = "ACK" => a.ip \in granted'
  BY <1>1
<1>5. ASSUME NEW a \in answers' PROVE Answered(a, granted')
  <2>1. CASE a \in given
    BY <1>2, <1>4, <2>1 DEF Answered
  <2>2. CASE a \in answers
    BY <1>3, <2>2 DEF IInv, AnswersOK, Answered
  <2> QED  BY <1>1, <1>5, <2>1, <2>2
<1> QED  BY <1>3, <1>5 DEF AnswersOK

\* What is read of an answer has the types it needs.
LEMMA ParseStep ==
  ASSUME IInv, NEW m \in answers
  PROVE  /\ parse(m) \in [ip : Ip, gateway : Router, server : Server \cup {None}]
         /\ parse(m).ip = m.ip /\ m.xid \in Nat
         /\ m.type = "ACK" => \A s \in Server :
              m.ip = Address[s] /\ Gateway[s] # None => parse(m).gateway = Gateway[s]
<1>1. Answered(m, granted)
  BY DEF IInv, AnswersOK
<1>2. /\ None \in Ip /\ None \in Router
      /\ leased \in [ip : Ip, gateway : Router, server : Server \cup {None}]
  BY DEF Ip, Router, IInv, TypeOK
<1>3. \A s, t \in Server : Address[s] = Address[t] => s = t
  BY NetworkStartAssumption
<1>4. m.ip \in Ip /\ m.gateway \in Router
  BY <1>1, <1>2, Addresses DEF Answered
<1> QED  BY <1>1, <1>2, <1>3, <1>4 DEF parse, Answered

-----------------------------------------------------------------------------
LEMMA InitIInv == Init => IInv
<1> SUFFICES ASSUME Init PROVE IInv
  OBVIOUS
<1>1. None \in Ip /\ None \in Router /\ 0 \in 0..MaxTime
  BY NetworkStartAssumption DEF Ip, Router
<1>2. TypeOK
  BY <1>1 DEF Init, TypeOK, SoftReset, NoLease, Pc
<1>3. GatewayOfAddress
  BY NetworkStartAssumption, Addresses DEF Init, SoftReset, GatewayOfAddress
<1> QED
  BY <1>2, <1>3 DEF Init, IInv, SoftReset, AnswersOK, ChipFound, AddressWasGranted,
                    NoAddressUnlessStarted, Negotiating

\* The registers, whatever init() finds: they are as they were, or those of a reset chip.
LEMMA InitRegs ==
  ASSUME IInv
  PROVE  /\ initRegs \in [mac : BOOLEAN, ip : Ip, gateway : Router]
         /\ initRegs = regs \/ (initRegs = SoftReset /\ regs.ip = None)
         /\ init \in BOOLEAN /\ (regs.ip # None => init /\ initialized)
<1>1. None \in Ip /\ None \in Router
  BY DEF Ip, Router
<1> QED  BY <1>1 DEF IInv, TypeOK, NoAddressUnlessStarted, initRegs, init, SoftReset, isChip

\* Starting an interface, with a static address or with a negotiation.
LEMMA BeginStep ==
  ASSUME IInv, beginStatic \/ beginDhcpFails \/ beginDhcp
  PROVE  IInv'
<1> DEFINE Cleared == clearAddress(initRegs)
<1>1. /\ Cleared \in [mac : BOOLEAN, ip : Ip, gateway : Router]
      /\ Cleared.ip = None /\ Cleared.mac
  <2>1. None \in Ip
    BY DEF Ip
  <2> QED  BY <2>1, InitRegs DEF clearAddress
<1>2. NoLease \in [ip : Ip, gateway : Router, server : Server \cup {None}]
  BY DEF NoLease, Ip, Router
<1>3. /\ Static.ip \in Ip /\ Static.gateway \in Router /\ Static.ip # None
      /\ \A s \in Server : Static.ip # Address[s]
  BY NetworkStartAssumption DEF Ip, Router
<1>4. UNCHANGED <<hardware, booting, network>> /\ AnswersOK'
  BY DEF beginStatic, beginDhcpFails, beginDhcp, network, IInv, AnswersOK
<1>5. /\ 0 \in 0..MaxTime /\ Initial \subseteq Nat
      /\ elapsed' \in 0..MaxTime /\ waited' \in 0..MaxTime /\ waited' <= elapsed'
  BY NetworkStartAssumption
     DEF beginStatic, beginDhcpFails, beginDhcp, timers, IInv, TypeOK
<1>6. /\ afterEthernet \in Pc /\ afterEthernet \notin Negotiating /\ "START" \in Pc
      /\ ChipFound'
  BY DEF afterEthernet, Pc, Negotiating, ChipFound, beginStatic, beginDhcpFails, beginDhcp
<1>7. CASE beginStatic
  <2>1. /\ regs' = IF init
                   THEN [mac |-> TRUE, ip |-> Static.ip, gateway |-> Static.gateway]
                   ELSE regs
        /\ initialized' = init /\ started' = TRUE /\ pc' = afterEthernet /\ UNCHANGED client
    BY <1>7 DEF beginStatic
  <2>2. TypeOK'
    BY <1>3, <1>4, <1>5, <1>6, <2>1, InitRegs DEF IInv, TypeOK, client, network
  <2>3. AddressWasGranted' /\ GatewayOfAddress'
    BY <1>3, <1>4, <2>1 DEF IInv, AddressWasGranted, GatewayOfAddress, network
  <2>4. NoAddressUnlessStarted'
    BY <1>6, <2>1, InitRegs DEF IInv, NoAddressUnlessStarted
  <2> QED  BY <1>4, <1>5, <1>6, <2>2, <2>3, <2>4 DEF IInv
<1>8. CASE beginDhcpFails
  <2>1. /\ regs' = (IF init THEN Cleared ELSE regs)
        /\ initialized' = init /\ started' = FALSE /\ pc' = afterEthernet
        /\ leased' \in {leased, NoLease} /\ initial' \in Nat /\ xid' \in Nat
    BY <1>5, <1>8 DEF beginDhcpFails, client, IInv, TypeOK
  <2>2. regs'.ip = None /\ regs' \in [mac : BOOLEAN, ip : Ip, gateway : Router]
    BY <1>1, <2>1, InitRegs DEF IInv, TypeOK
  <2>3. TypeOK'
    BY <1>2, <1>4, <1>5, <1>6, <2>1, <2>2, InitRegs DEF IInv, TypeOK, network
  <2>4. AddressWasGranted' /\ GatewayOfAddress' /\ NoAddressUnlessStarted'
    BY <1>3, <2>2, Addresses DEF AddressWasGranted, GatewayOfAddress, NoAddressUnlessStarted
  <2> QED  BY <1>4, <1>5, <1>6, <2>3, <2>4 DEF IInv
<1>9. CASE beginDhcp
  <2>1. /\ regs' = Cleared /\ initialized' = TRUE /\ pc' = "START" /\ started' = started
        /\ leased' = NoLease /\ initial' \in Nat /\ xid' \in Nat
    BY <1>5, <1>9 DEF beginDhcp
  <2>2. TypeOK'
    BY <1>1, <1>2, <1>4, <1>5, <1>6, <2>1 DEF IInv, TypeOK, network
  <2>3. AddressWasGranted' /\ GatewayOfAddress' /\ NoAddressUnlessStarted'
    BY <1>1, <1>3, <2>1, Addresses DEF AddressWasGranted, GatewayOfAddress, NoAddressUnlessStarted
  <2> QED  BY <1>4, <1>5, <1>6, <2>2, <2>3 DEF IInv
<1> QED  BY <1>7, <1>8, <1>9

-----------------------------------------------------------------------------
\* A negotiation goes on, or ends without a lease.
LEMMA GoOnStep ==
  ASSUME IInv, pc \in Negotiating, NEW state \in Negotiating, goOn(state),
         UNCHANGED <<hardware, initialized, regs, booting>>, AnswersOK',
         leased' \in [ip : Ip, gateway : Router, server : Server \cup {None}],
         initial' = initial, xid' \in Nat,
         granted \subseteq granted', granted' \subseteq Ip
  PROVE  IInv'
<1>1. regs.ip = None
  BY DEF IInv, NoAddressUnlessStarted
<1>2. /\ elapsed' \in {elapsed, 0} /\ waited' = 0 /\ 0 \in 0..MaxTime
      /\ started' \in BOOLEAN /\ pc' \in Pc
  <2>1. state \in Pc /\ afterEthernet \in Pc /\ started \in BOOLEAN /\ 0 \in 0..MaxTime
    BY NetworkStartAssumption DEF afterEthernet, Pc, Negotiating, IInv, TypeOK
  <2> QED  BY <2>1 DEF goOn, ended
<1>3. TypeOK' /\ waited' <= elapsed'
  BY <1>2 DEF IInv, TypeOK
<1>4. AddressWasGranted' /\ GatewayOfAddress' /\ NoAddressUnlessStarted' /\ ChipFound'
  BY <1>1, NetworkStartAssumption, Addresses
     DEF IInv, ChipFound, AddressWasGranted, GatewayOfAddress, NoAddressUnlessStarted
<1> QED  BY <1>3, <1>4 DEF IInv

\* The two ways in which the client sends: a DISCOVER, and the REQUEST for an offer.
LEMMA DiscoverStep == ASSUME IInv, discover PROVE IInv'
<1> DEFINE message == [type |-> "DISCOVER", xid |-> xid']
<1>1. xid' = xid + 1 /\ xid' \in Nat
  BY DEF discover, IInv, TypeOK
<1>2. AnswersOK' /\ granted \subseteq granted' /\ granted' \subseteq Ip
  <2>1. PICK m : m = message
    OBVIOUS
  <2>2. send(m, {}) /\ m.type = "DISCOVER" /\ m.xid \in Nat
    BY <1>1, <2>1 DEF discover
  <2> QED  BY <2>2, SendStep
<1> QED
  BY <1>1, <1>2, GoOnStep DEF discover, chip, IInv, TypeOK, Negotiating

LEMMA OfferStep == ASSUME IInv, NEW m \in answers, receiveOffer(m) PROVE IInv'
<1>1. AnswersOK' /\ granted \subseteq granted' /\ granted' \subseteq Ip
  <2>1. PICK n : n = [type |-> "REQUEST", xid |-> m.xid, ip |-> leased'.ip,
                      server |-> leased'.server]
    OBVIOUS
  <2>2. send(n, {m}) /\ n.type = "REQUEST" /\ n.xid \in Nat
    BY <2>1, ParseStep DEF receiveOffer
  <2> QED  BY <2>2, SendStep
<1> QED
  BY <1>1, ParseStep, GoOnStep DEF receiveOffer, chip, Negotiating

\* An answer that is only read, and the end of the time for one.
LEMMA ReadStep ==
  ASSUME IInv,
         noResponse \/ \E m \in answers : receiveOther(m) \/ receiveUnexpected(m) \/ receiveNak(m)
  PROVE  IInv'
<1>1. granted' = granted /\ answers' \subseteq answers
  BY DEF noResponse, network, receiveOther, receiveUnexpected, receiveNak
<1>2. AnswersOK' /\ granted' \subseteq Ip
  BY <1>1 DEF IInv, AnswersOK, TypeOK
<1>3. CASE noResponse
  BY <1>1, <1>2, <1>3, GoOnStep DEF noResponse, chip, client, Negotiating, IInv, TypeOK
<1>4. ASSUME NEW m \in answers, receiveOther(m) PROVE IInv'
  BY <1>1, <1>2, <1>4, GoOnStep DEF receiveOther, receive, chip, client, Negotiating, IInv, TypeOK
<1>5. ASSUME NEW m \in answers, receiveUnexpected(m) PROVE IInv'
  BY <1>1, <1>2, <1>5, GoOnStep, ParseStep
     DEF receiveUnexpected, receive, chip, Negotiating, IInv, TypeOK
<1>6. ASSUME NEW m \in answers, receiveNak(m) PROVE IInv'
  BY <1>1, <1>2, <1>6, GoOnStep, ParseStep
     DEF receiveNak, receive, chip, Negotiating, IInv, TypeOK
<1> QED  BY <1>3, <1>4, <1>5, <1>6

\* A lease is granted: the address was acknowledged, and the gateway is the one of the
\* answer that acknowledged it.
LEMMA AckStep == ASSUME IInv, NEW m \in answers, receiveAck(m) PROVE IInv'
<1>1. /\ leased' = parse(m) /\ regs' = [mac |-> TRUE, ip |-> m.ip, gateway |-> parse(m).gateway]
      /\ started' = TRUE /\ pc' = afterEthernet /\ elapsed' = 0 /\ waited' = 0
      /\ xid' = xid + 1 /\ granted' = granted /\ answers' \subseteq answers
      /\ UNCHANGED <<hardware, initialized, booting, initial>>
  BY ParseStep DEF receiveAck, ended, chip
<1>2. m.ip \in granted /\ m.type = "ACK" /\ \E s \in Server : m.ip = Address[s]
  BY DEF IInv, AnswersOK, Answered, receiveAck
<1>3. afterEthernet \in Pc /\ afterEthernet \notin Negotiating /\ 0 \in 0..MaxTime
  BY NetworkStartAssumption DEF afterEthernet, Pc, Negotiating
<1>4. TypeOK' /\ AnswersOK' /\ waited' <= elapsed'
  BY <1>1, <1>2, <1>3, ParseStep DEF IInv, TypeOK, AnswersOK
<1>5. AddressWasGranted' /\ GatewayOfAddress'
  BY <1>1, <1>2, ParseStep, NetworkStartAssumption DEF AddressWasGranted, GatewayOfAddress
<1>6. initialized
  BY DEF IInv, ChipFound, receiveAck, Negotiating
<1>7. NoAddressUnlessStarted' /\ ChipFound'
  BY <1>1, <1>3, <1>6 DEF NoAddressUnlessStarted, ChipFound
<1> QED  BY <1>4, <1>5, <1>7 DEF IInv

\* What leaves the negotiation alone.
LEMMA OtherSteps ==
  ASSUME IInv, checkLinks \/ powerChip \/ wifiDisabled \/ connect \/ connectReturns \/ tick
  PROVE  IInv'
<1>0. "loop" \in Pc \ Negotiating /\ "connecting" \in Pc \ Negotiating /\ 0 \in 0..MaxTime
  BY NetworkStartAssumption DEF Pc, Negotiating
<1>1. UNCHANGED <<network, client, started>> /\ AnswersOK'
  BY DEF checkLinks, powerChip, wifiDisabled, connect, connectReturns, tick, network,
         IInv, AnswersOK
<1>2. CASE checkLinks
  <2>1. regs' \in [mac : BOOLEAN, ip : Ip, gateway : Router] /\ initialized' \in BOOLEAN
    BY <1>2, InitRegs DEF checkLinks, IInv, TypeOK
  <2>2. regs' = regs \/ (regs' = SoftReset /\ regs.ip = None)
    BY <1>2, InitRegs DEF checkLinks
  <2>3. (regs.ip # None => initialized') /\ UNCHANGED <<hardware, booting, pc, timers>>
    BY <1>2, InitRegs DEF checkLinks
  <2>4. TypeOK' /\ waited' <= elapsed'
    BY <1>1, <2>1, <2>3 DEF IInv, TypeOK, network, client, timers
  <2>5. AddressWasGranted' /\ GatewayOfAddress' /\ NoAddressUnlessStarted' /\ ChipFound'
    BY <1>0, <1>1, <1>2, <2>2, <2>3, NetworkStartAssumption, Addresses
       DEF checkLinks, IInv, ChipFound, AddressWasGranted, GatewayOfAddress,
           NoAddressUnlessStarted, SoftReset, network
  <2> QED  BY <1>1, <2>4, <2>5 DEF IInv
<1>3. CASE powerChip
  <2>1. hardware' \in Hardware /\ UNCHANGED <<initialized, regs, booting, pc, timers>>
    BY <1>3 DEF powerChip
  <2> QED
    BY <1>1, <2>1 DEF IInv, TypeOK, AddressWasGranted, GatewayOfAddress,
                      ChipFound, NoAddressUnlessStarted, network, client, timers
<1>4. CASE wifiDisabled \/ connect \/ connectReturns
  <2>1. /\ pc' \in {"loop", "connecting"} /\ booting' \in BOOLEAN
        /\ (elapsed' = elapsed /\ waited' = waited) \/ (elapsed' = 0 /\ waited' = 0)
        /\ UNCHANGED <<hardware, initialized, regs>>
    BY <1>4 DEF wifiDisabled, connect, connectReturns, ended, timers, chip, IInv, TypeOK
  <2> QED
    BY <1>0, <1>1, <2>1 DEF IInv, TypeOK, AddressWasGranted, GatewayOfAddress,
                            ChipFound, NoAddressUnlessStarted, network, client
<1>5. CASE tick
  <2>1. /\ elapsed' = elapsed + 1 /\ elapsed < MaxTime /\ waited' \in {0, waited + 1}
        /\ UNCHANGED <<hardware, initialized, regs, booting, pc>>
    BY <1>5 DEF tick, chip
  <2>2. elapsed' \in 0..MaxTime /\ waited' \in 0..MaxTime /\ waited' <= elapsed'
    BY <2>1, NetworkStartAssumption DEF IInv, TypeOK
  <2> QED
    BY <1>1, <2>1, <2>2 DEF IInv, TypeOK, AddressWasGranted, GatewayOfAddress,
                            ChipFound, NoAddressUnlessStarted, network, client
<1> QED  BY <1>2, <1>3, <1>4, <1>5

-----------------------------------------------------------------------------
LEMMA NextIInv == IInv /\ [Next]_vars => IInv'
<1> SUFFICES ASSUME IInv, [Next]_vars PROVE IInv'
  OBVIOUS
<1>1. CASE UNCHANGED vars
  BY <1>1 DEF vars, chip, client, timers, network, IInv, TypeOK, AnswersOK, ChipFound,
              AddressWasGranted, GatewayOfAddress, NoAddressUnlessStarted
<1>2. CASE blockingStep
  BY <1>2, BeginStep, DiscoverStep, ReadStep, OfferStep, AckStep, OtherSteps
     DEF blockingStep, connectTimesOut
<1>3. CASE otherStep \/ tick
  BY <1>3, BeginStep, OtherSteps DEF otherStep, connectSucceeds
<1> QED  BY <1>1, <1>2, <1>3 DEF Next

LEMMA InvariantIInv == Spec => []IInv
<1>1. Init => IInv
  BY InitIInv
<1>2. IInv /\ [Next]_vars => IInv'
  BY NextIInv
<1> QED  BY <1>1, <1>2, PTL DEF Spec, SafeSpec

\* Every variable keeps its type: the timers stay below their bound, and the chip and the
\* client hold only what a server or the configuration names.
THEOREM TypeCorrect == Spec => []TypeOK
<1>1. IInv => TypeOK
  BY DEF IInv
<1> QED  BY <1>1, InvariantIInv, PTL

\* The chip never uses an address that was only offered, whatever answers of other servers
\* and of earlier negotiations request_DHCP_lease() lets through.
THEOREM AddressGranted == Spec => []AddressWasGranted
<1>1. IInv => AddressWasGranted
  BY DEF IInv
<1> QED  BY <1>1, InvariantIInv, PTL

\* Address and gateway in the chip are of one server that names both, or both static.
THEOREM GatewayFits == Spec => []GatewayOfAddress
<1>1. IInv => GatewayOfAddress
  BY DEF IInv
<1> QED  BY <1>1, InvariantIInv, PTL

\* While EthernetManager::begin() negotiates, and after it failed, the chip has no address,
\* whatever it had before.
THEOREM FailedStartHasNoAddress == Spec => []NoAddressUnlessStarted
<1>1. IInv => NoAddressUnlessStarted
  BY DEF IInv
<1> QED  BY <1>1, InvariantIInv, PTL
=============================================================================
