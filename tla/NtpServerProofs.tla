-------------------------- MODULE NtpServerProofs ---------------------------
(***************************************************************************)
(* Theorems about NtpServer, for every set of clients, queue length and    *)
(* counter width.  TypeOK is not inductive by itself: a response has the   *)
(* type Response only because the handler's locals were assigned from a    *)
(* queued datagram before the send, which LocalsAssigned states.           *)
(***************************************************************************)
EXTENDS NtpServer, ModularArithmetic, TLAPS

\* What the handlers' locals hold once they are assigned.
LocalsAssigned ==
    stage = "send" => /\ remote \in Client
                      /\ packetBuffer \in 1..MaxDatagrams

IInv == TypeOK /\ LocalsAssigned

-----------------------------------------------------------------------------
\* A counter stays in its width (uint32_t _requestCount and the others).
LEMMA IncInWidth ==
    ASSUME NEW counter \in 0..(CounterWord - 1)
    PROVE  inc(counter) \in 0..(CounterWord - 1)
BY NtpServerAssumption DEF inc

\* pulse() keeps the LEDs well formed (IndicatorManager::requestReceived, responseSent, error).
LEMMA PulseType ==
    ASSUME NEW state \in Pulses, NEW led \in Led, NEW t \in Nat, NEW length \in Nat
    PROVE  pulse(state, led, t, length) \in Pulses
<1>1. (t + length) % MillisWord \in Millis
  BY IndicatorsAssumption DEF Millis
<1> QED BY <1>1 DEF pulse, Pulses

\* Ending pulses keeps the LEDs well formed (IndicatorManager::process lines 82-104).
LEMMA EndPulsesType ==
    ASSUME NEW state \in Pulses, NEW t \in Nat
    PROVE  endPulses(state, t) \in Pulses
BY DEF endPulses, Pulses

\* Wherever the loop goes next, it is a stage and an interface, and not a send.
LEMMA ToNextType ==
    ASSUME toNext
    PROVE  stage' \in {"poll", "rest"} /\ turn' \in Interface
BY DEF toNext, Interface

LEMMA InitIInv == Init => IInv
BY IndicatorsAssumption, NtpServerAssumption
DEF Init, IInv, TypeOK, Anyone, LocalsAssigned, Stage, Interface, Pulses, AllDark, Millis, Led

\* Each step of the program, the network and time keeps the types.
LEMMA NextIInv == IInv /\ [Next]_vars => IInv'
<1> SUFFICES ASSUME IInv, [Next]_vars PROVE IInv'
  OBVIOUS
<1> USE DEF IInv, TypeOK
<1>1. CASE begin
  BY <1>1 DEF begin, LocalsAssigned, Stage, handler, locals, counters, network
<1>2. CASE poll
  BY <1>2, ToNextType DEF poll, LocalsAssigned, Stage, counters, network
<1>3. CASE parseNothing
  BY <1>3, ToNextType DEF parseNothing, LocalsAssigned, Stage, handler, locals, counters, network
<1>4. CASE parseTooSmall
  BY <1>4, ToNextType DEF parseTooSmall, LocalsAssigned, Stage, handler, locals, counters, network
<1>5. CASE parseRequest
  <2>1. Head(rxQueue[turn]) \in Datagram /\ rxQueue' \in [Interface -> Seq(Datagram)]
    BY <1>5 DEF parseRequest
  <2>2. requestCount' \in 0..(CounterWord - 1)
    BY <1>5, IncInWidth DEF parseRequest
  <2>3. leds' \in Pulses
    BY <1>5, PulseType, IndicatorsAssumption, NtpServerAssumption
    DEF parseRequest, requestReceived, Led
  <2>4. LocalsAssigned' /\ packetBuffer' \in 0..MaxDatagrams
    BY <1>5, <2>1 DEF parseRequest, LocalsAssigned, Datagram
  <2> QED
    BY <1>5, <2>1, <2>2, <2>3, <2>4 DEF parseRequest, LocalsAssigned, Stage, Anyone, network
<1>6. CASE sendOk
  <2>0. recipient \in Anyone /\ destination' \in Anyone
    BY <1>6 DEF sendOk, beginPacket, recipient
  <2>1. [from |-> remote, to |-> recipient, via |-> turn, originate |-> packetBuffer,
         readAt |-> receiveTimestamp, sentAt |-> now] \in Response
    BY <1>6, <2>0 DEF sendOk, LocalsAssigned, Response
  <2>2. sent' \in Seq(Response)
    BY <1>6, <2>1 DEF sendOk
  <2>3. responseCount' \in 0..(CounterWord - 1)
    BY <1>6, IncInWidth DEF sendOk
  <2>4. leds' \in Pulses
    BY <1>6, PulseType, IndicatorsAssumption, NtpServerAssumption
    DEF sendOk, responseSent, Led
  <2> QED
    BY <1>6, <2>0, <2>2, <2>3, <2>4, ToNextType
    DEF sendOk, LocalsAssigned, Stage, handler, locals, network
<1>7. CASE sendFailed
  BY <1>7 DEF sendFailed, beginPacket, recipient, LocalsAssigned, Stage, locals, counters,
              network
<1>8. CASE restart
  <2>1. sendErrorCount' \in 0..(CounterWord - 1)
    BY <1>8, IncInWidth DEF restart
  <2>2. leds' \in Pulses
    BY <1>8, PulseType, IndicatorsAssumption, NtpServerAssumption DEF restart, error, Led
  <2>3. destination' \in Anyone
    BY <1>8 DEF restart, reopenedDestination
  <2> QED
    BY <1>8, <2>1, <2>2, <2>3, ToNextType
    DEF restart, LocalsAssigned, Stage, locals, network
<1>9. CASE restOfLoop
  <2>1. leds' \in Pulses
    BY <1>9, EndPulsesType, NtpServerAssumption DEF restOfLoop
  <2>2. rxQueue' \in [Interface -> Seq(Datagram)]
    <3>1. << >> \in Seq(Datagram)
      OBVIOUS
    <3>2. rxQueue' = rxQueue \/ rxQueue' = [rxQueue EXCEPT !["ethernet"] = << >>]
      BY <1>9 DEF restOfLoop
    <3> QED BY <3>1, <3>2
  <2> QED
    BY <1>9, <2>1, <2>2 DEF restOfLoop, LocalsAssigned, Stage, handler, locals, counters, network
<1>10. ASSUME NEW i \in Interface, Arrive(i) PROVE IInv'
  <2>1. rxQueue' \in [Interface -> Seq(Datagram)]
    <3>1. CASE Listening(i) /\ Len(rxQueue[i]) < QueueLen
      <4>1. PICK c \in Client, full \in BOOLEAN :
              rxQueue' = [rxQueue EXCEPT ![i] = Append(@,
                  [from |-> c, originate |-> datagrams', full |-> full])]
        BY <1>10, <3>1 DEF Arrive
      <4>2. [from |-> c, originate |-> datagrams', full |-> full] \in Datagram
        BY <1>10, NtpServerAssumption DEF Arrive, Datagram
      <4> QED BY <4>1, <4>2
    <3>2. CASE ~(Listening(i) /\ Len(rxQueue[i]) < QueueLen)
      BY <1>10, <3>2 DEF Arrive
    <3> QED BY <3>1, <3>2
  <2>2. datagrams' \in 0..MaxDatagrams
    BY <1>10, NtpServerAssumption DEF Arrive
  <2> QED
    BY <1>10, <2>1, <2>2 DEF Arrive, LocalsAssigned, handler, locals, counters
<1>11. ASSUME NEW i \in Interface, LinkChange(i) PROVE IInv'
  BY <1>11 DEF LinkChange, LocalsAssigned, handler, locals, counters
<1>12. CASE Tick
  BY <1>12, NtpServerAssumption DEF Tick, LocalsAssigned, handler, locals, counters
<1>13. CASE UNCHANGED vars
  BY <1>13 DEF vars, LocalsAssigned, handler, locals, counters, network
<1> QED
  BY <1>1, <1>2, <1>3, <1>4, <1>5, <1>6, <1>7, <1>8, <1>9, <1>10, <1>11, <1>12, <1>13
  DEF Next, process

LEMMA SpecIInv == Spec => []IInv
<1>1. SafeSpec => []IInv
  BY InitIInv, NextIInv, PTL DEF SafeSpec
<1> QED BY <1>1, PTL DEF Spec

\* Types: every response sent is well formed, every counter within its width.
THEOREM TypeCorrect == Spec => []TypeOK
BY SpecIInv, PTL DEF IInv

-----------------------------------------------------------------------------
(***************************************************************************)
(* Closed listeners.  The stages in which a handler, locals runs on the interface  *)
(* whose turn it is are entered through poll only, which tests started;    *)
(* started is cleared by restart only, after sendFailed emptied the queue. *)
(* NothingHeld says so, and makes the invariant inductive.                 *)
(***************************************************************************)
NothingHeld ==
    /\ stage = "setup" => \A i \in Interface : ~started[i]
    /\ stage = "restart" => rxQueue[turn] = <<>>

LEMMA InitIdle == Init => ClosedListenerIsIdle /\ NothingHeld
BY DEF Init, ClosedListenerIsIdle, NothingHeld, Interface

LEMMA NextIdle ==
    IInv /\ ClosedListenerIsIdle /\ NothingHeld /\ [Next]_vars
      => (ClosedListenerIsIdle /\ NothingHeld)'
<1> SUFFICES ASSUME IInv, ClosedListenerIsIdle, NothingHeld, [Next]_vars
             PROVE  (ClosedListenerIsIdle /\ NothingHeld)'
  OBVIOUS
<1> USE DEF IInv, TypeOK, ClosedListenerIsIdle, NothingHeld
<1>1. CASE begin
  BY <1>1 DEF begin, network
<1>2. CASE poll
  BY <1>2, ToNextType DEF poll
<1>3. CASE parseNothing \/ parseTooSmall
  BY <1>3, ToNextType DEF parseNothing, parseTooSmall
<1>4. CASE parseRequest
  BY <1>4 DEF parseRequest
<1>5. CASE sendOk
  BY <1>5, ToNextType DEF sendOk
<1>6. CASE sendFailed
  BY <1>6 DEF sendFailed
<1>7. CASE restart
  BY <1>7, ToNextType DEF restart
<1>8. CASE restOfLoop
  BY <1>8 DEF restOfLoop
<1>9. ASSUME NEW i \in Interface, Arrive(i) PROVE (ClosedListenerIsIdle /\ NothingHeld)'
  BY <1>9 DEF Arrive, Listening
<1>10. CASE Tick \/ \E i \in Interface : LinkChange(i)
  BY <1>10 DEF Tick, LinkChange
<1>11. CASE UNCHANGED vars
  BY <1>11 DEF vars
<1> QED
  BY <1>1, <1>2, <1>3, <1>4, <1>5, <1>6, <1>7, <1>8, <1>9, <1>10, <1>11 DEF Next, process

\* A closed listener holds nothing and is never served (processEthernet, processWifi
\* and the restart in sendEthernetResponse and sendWifiResponse).
THEOREM ClosedIdle == Spec => [](ClosedListenerIsIdle /\ NothingHeld)
<1>1. SafeSpec => [](ClosedListenerIsIdle /\ NothingHeld)
  BY InitIInv, NextIInv, InitIdle, NextIdle, PTL DEF SafeSpec
<1> QED BY <1>1, PTL DEF Spec

\* One step: only setup() can turn a listener on.  The restart can set the flag too,
\* but only of a listener that was running, since it is serving it.
LEMMA StepNeverStartsLater ==
    ClosedListenerIsIdle /\ IInv /\ [Next]_vars
      => [\A i \in Interface : ~started[i] /\ started'[i] => stage = "setup"]_vars
BY DEF IInv, TypeOK, ClosedListenerIsIdle, Next, process, vars, begin, poll, parseNothing,
       parseTooSmall, parseRequest, sendOk, sendFailed, restart, restOfLoop, Arrive,
       LinkChange, Tick

\* An interface without a listener after setup() never gets one.
THEOREM NoLateStart == Spec => NeverStartedLater
<1>1. SafeSpec => NeverStartedLater
  BY InitIInv, NextIInv, InitIdle, NextIdle, StepNeverStartsLater, PTL
  DEF SafeSpec, NeverStartedLater
<1> QED BY <1>1, PTL DEF Spec

-----------------------------------------------------------------------------
(***************************************************************************)
(* The counters agree modulo their width.                                  *)
(***************************************************************************)
\* The right-hand side of CountersAgree when a counter on it advances.
LEMMA SumAdvances ==
    ASSUME NEW a \in 0..(CounterWord - 1), NEW b \in Nat, NEW k \in Nat
    PROVE  (inc(a) + b + k) % CounterWord = (a + b + k + 1) % CounterWord
<1> DEFINE x == a + 1
           y == b + k
<1>1. x \in Int /\ y \in Int /\ CounterWord \in Nat \ {0}
  BY NtpServerAssumption
<1>2. x + y = a + b + k + 1 /\ inc(a) = x % CounterWord
  BY DEF inc
<1> HIDE DEF x, y
<1>3. ((x % CounterWord) + y) % CounterWord = (x + y) % CounterWord
  BY <1>1, RemainderOfSum
<1>4. inc(a) \in Int
  BY IncInWidth, NtpServerAssumption
<1>5. inc(a) + y = inc(a) + b + k
  BY <1>4 DEF y
<1> QED BY <1>2, <1>3, <1>5

LEMMA InitCounters == Init => CountersAgree
<1>1. 0 % CounterWord = 0
  <2>1. 0 \in 0..(CounterWord - 1)
    BY NtpServerAssumption
  <2> QED BY <2>1, RemainderSmall, NtpServerAssumption
<1> QED BY <1>1 DEF Init, CountersAgree, InService

LEMMA NextCounters == IInv /\ CountersAgree /\ [Next]_vars => CountersAgree'
<1> SUFFICES ASSUME IInv, CountersAgree, [Next]_vars PROVE CountersAgree'
  OBVIOUS
<1> USE DEF IInv, TypeOK, CountersAgree
<1>1. CASE parseRequest
  <2> DEFINE answered == responseCount + sendErrorCount
  <2>1. requestCount = answered % CounterWord /\ answered \in Nat
    BY <1>1 DEF parseRequest, InService
  <2> HIDE DEF answered
  <2>2. ((answered % CounterWord) + 1) % CounterWord = (answered + 1) % CounterWord
    <3>1. answered \in Int /\ 1 \in Int /\ CounterWord \in Nat \ {0}
      BY <2>1, NtpServerAssumption
    <3> HIDE DEF IInv, TypeOK, CountersAgree
    <3> QED BY <3>1, RemainderOfSum
  <2>3. requestCount' = (answered + 1) % CounterWord
    BY <1>1, <2>1, <2>2 DEF parseRequest, inc
  <2> QED BY <1>1, <2>3 DEF parseRequest, InService, answered
<1>2. CASE sendOk
  <2>1. (inc(responseCount) + sendErrorCount + 0) % CounterWord
          = (responseCount + sendErrorCount + 0 + 1) % CounterWord
    BY SumAdvances
  <2>2. inc(responseCount) \in Nat
    BY SMTT(30), IncInWidth, NtpServerAssumption
  <2> QED BY <1>2, <2>1, <2>2, ToNextType DEF sendOk, InService
<1>3. CASE restart
  <2>1. (inc(sendErrorCount) + responseCount + 0) % CounterWord
          = (sendErrorCount + responseCount + 0 + 1) % CounterWord
    BY SumAdvances
  <2>2. inc(sendErrorCount) \in Nat
    BY SMTT(30), IncInWidth, NtpServerAssumption
  <2> QED BY <1>3, <2>1, <2>2, ToNextType DEF restart, InService
<1>4. CASE begin \/ poll \/ parseNothing \/ parseTooSmall \/ sendFailed \/ restOfLoop
  BY <1>4, ToNextType
  DEF begin, poll, parseNothing, parseTooSmall, sendFailed, restOfLoop, counters, handler, locals,
      InService
<1>5. CASE Tick \/ \E i \in Interface : Arrive(i) \/ LinkChange(i)
  BY <1>5 DEF Tick, Arrive, LinkChange, counters, InService
<1>6. CASE UNCHANGED vars
  BY <1>6 DEF vars, counters, InService
<1> QED
  BY <1>1, <1>2, <1>3, <1>4, <1>5, <1>6 DEF Next, process

\* No request is counted without a response or a send error, for counters of any width
\* (the three counters "ntp status" prints).
THEOREM CountersCorrect == Spec => []CountersAgree
<1>1. SafeSpec => []CountersAgree
  BY InitIInv, NextIInv, InitCounters, NextCounters, PTL DEF SafeSpec
<1> QED BY <1>1, PTL DEF Spec

-----------------------------------------------------------------------------
(***************************************************************************)
(* NtpServer implements NtpService.  Two facts about the server carry the  *)
(* simulation: the datagrams it holds all have different originate         *)
(* timestamps, so answering one removes just that one from the pending     *)
(* requests; and the timestamp in hand was read after the last response    *)
(* was sent, because each handler, locals reads the clocks itself.                 *)
(***************************************************************************)
\* The datagrams in the queues and in packetBuffer are different datagrams.
Distinct ==
    /\ \A i, j \in Interface : \A k \in 1..Len(rxQueue[i]), l \in 1..Len(rxQueue[j]) :
          rxQueue[i][k].originate = rxQueue[j][l].originate => i = j /\ k = l
    /\ \A i \in Interface : \A k \in 1..Len(rxQueue[i]) :
          /\ rxQueue[i][k].originate <= datagrams
          /\ stage = "send" => rxQueue[i][k].originate # packetBuffer
    /\ stage = "send" => packetBuffer <= datagrams

\* The timestamp in hand is no older than the last response.
Fresh ==
    /\ receiveTimestamp <= now
    /\ Service!LastSent <= now
    /\ stage \in {"parse", "send"} => Service!LastSent <= receiveTimestamp

-----------------------------------------------------------------------------
LEMMA QueueElement ==
    ASSUME IInv, NEW i \in Interface, NEW k \in 1..Len(rxQueue[i])
    PROVE  rxQueue[i][k] \in Datagram /\ rxQueue[i][k].originate \in Nat
<1>1. rxQueue[i][k] \in Datagram
  BY DEF IInv, TypeOK
<1> QED BY <1>1, NtpServerAssumption DEF Datagram

LEMMA InitDistinct == Init => Distinct
BY DEF Init, Distinct, Interface

\* Arrivals carry a new number, everything else only removes or moves a datagram.
LEMMA NextDistinct == IInv /\ Distinct /\ [Next]_vars => Distinct'
<1> SUFFICES ASSUME IInv, Distinct, [Next]_vars PROVE Distinct'
  OBVIOUS
<1> USE DEF IInv, TypeOK
<1>1. CASE \/ begin \/ poll \/ parseNothing \/ sendOk \/ restart
  <2>1. rxQueue' = rxQueue /\ datagrams' = datagrams /\ stage' # "send"
    BY <1>1, ToNextType
    DEF begin, poll, parseNothing, sendOk, restart, network
  <2> QED BY <2>1 DEF Distinct
<1>2. CASE parseTooSmall \/ parseRequest
  <2> DEFINE q == rxQueue[turn]
  <2>1. q \in Seq(Datagram) /\ q # <<>>
    BY <1>2 DEF parseTooSmall, parseRequest
  <2>2. /\ rxQueue' = [rxQueue EXCEPT ![turn] = Tail(q)] /\ datagrams' = datagrams
        /\ stage' = "send" => packetBuffer' = q[1].originate
    BY <1>2, ToNextType DEF parseTooSmall, parseRequest, network
  <2>3. /\ Len(Tail(q)) = Len(q) - 1 /\ Len(q) \in Nat \ {0}
        /\ \A k \in 1..Len(Tail(q)) : Tail(q)[k] = q[k + 1]
    BY <2>1
  <2> HIDE DEF q
  <2>4. \A i \in Interface : \A k \in 1..Len(rxQueue'[i]) :
          \E m \in 1..Len(rxQueue[i]) :
             rxQueue'[i][k] = rxQueue[i][m] /\ m = (IF i = turn THEN k + 1 ELSE k)
    <3> SUFFICES ASSUME NEW i \in Interface, NEW k \in 1..Len(rxQueue'[i])
                 PROVE  \E m \in 1..Len(rxQueue[i]) :
                           /\ rxQueue'[i][k] = rxQueue[i][m]
                           /\ m = (IF i = turn THEN k + 1 ELSE k)
      OBVIOUS
    <3>1. CASE i = turn
      <4>1. rxQueue'[i] = Tail(q)
        BY <2>2, <3>1
      <4>2. k + 1 \in 1..Len(q) /\ rxQueue'[i][k] = q[k + 1]
        BY <2>3, <4>1
      <4> QED BY <3>1, <4>2 DEF q
    <3>2. CASE i # turn
      BY <2>2, <3>2
    <3> QED BY <3>1, <3>2
  <2>5. turn \in Interface /\ 1 \in 1..Len(rxQueue[turn])
    BY <2>3 DEF q
  <2>6. ASSUME NEW i \in Interface, NEW j \in Interface,
               NEW k \in 1..Len(rxQueue'[i]), NEW l \in 1..Len(rxQueue'[j]),
               rxQueue'[i][k].originate = rxQueue'[j][l].originate
        PROVE  i = j /\ k = l
    <3>0. k \in Int /\ l \in Int
      OBVIOUS
    <3>1. PICK m \in 1..Len(rxQueue[i]) :
             rxQueue'[i][k] = rxQueue[i][m] /\ m = (IF i = turn THEN k + 1 ELSE k)
      BY <2>4
    <3>2. PICK n \in 1..Len(rxQueue[j]) :
             rxQueue'[j][l] = rxQueue[j][n] /\ n = (IF j = turn THEN l + 1 ELSE l)
      BY <2>4
    <3> HIDE DEF IInv, TypeOK
    <3>3. rxQueue[i][m].originate = rxQueue[j][n].originate
      BY <2>6, <3>1, <3>2
    <3>4. i = j /\ m = n
      BY <3>3 DEF Distinct
    <3> QED BY <3>0, <3>1, <3>2, <3>4
  <2>7. ASSUME NEW i \in Interface, NEW k \in 1..Len(rxQueue'[i])
        PROVE  /\ rxQueue'[i][k].originate <= datagrams'
               /\ stage' = "send" => rxQueue'[i][k].originate # packetBuffer'
    <3>0. k \in Int /\ k >= 1
      OBVIOUS
    <3>1. PICK m \in 1..Len(rxQueue[i]) :
             rxQueue'[i][k] = rxQueue[i][m] /\ m = (IF i = turn THEN k + 1 ELSE k)
      BY <2>4
    <3>2. ~(i = turn /\ m = 1)
      BY <3>0, <3>1
    <3>3. rxQueue[i][m].originate # rxQueue[turn][1].originate
      BY <2>5, <3>2 DEF Distinct
    <3> QED BY <2>2, <3>1, <3>3 DEF Distinct, q
  <2>8. stage' = "send" => packetBuffer' <= datagrams'
    BY <2>2, <2>5 DEF Distinct, q
  <2> QED BY <2>6, <2>7, <2>8 DEF Distinct
<1>3. CASE sendFailed \/ restOfLoop
  <2>1. /\ stage' # "send" /\ datagrams' = datagrams
        /\ rxQueue' = rxQueue \/ \E i \in Interface : rxQueue' = [rxQueue EXCEPT ![i] = <<>>]
    BY <1>3 DEF sendFailed, restOfLoop, network, Interface
  <2>2. \A i \in Interface :
          Len(rxQueue'[i]) = 0 \/ rxQueue'[i] = rxQueue[i]
    BY <2>1
  <2> HIDE DEF IInv, TypeOK
  <2>3. ASSUME NEW i \in Interface, NEW k \in 1..Len(rxQueue'[i])
        PROVE  k \in 1..Len(rxQueue[i]) /\ rxQueue'[i] = rxQueue[i]
    BY <2>2
  <2> QED BY <2>1, <2>3 DEF Distinct
<1>4. ASSUME NEW i \in Interface, Arrive(i) PROVE Distinct'
  <2>0. /\ datagrams' = datagrams + 1 /\ datagrams \in Nat
        /\ stage' = stage /\ packetBuffer' = packetBuffer
    BY <1>4, NtpServerAssumption DEF Arrive, handler, locals
  <2>1. CASE UNCHANGED rxQueue
    <3>1. \A j \in Interface : \A k \in 1..Len(rxQueue[j]) :
             rxQueue[j][k].originate \in Nat
      BY QueueElement
    <3>2. \A j \in Interface : \A k \in 1..Len(rxQueue[j]) :
             rxQueue[j][k].originate <= datagrams + 1
      <4>1. \A j \in Interface : \A k \in 1..Len(rxQueue[j]) :
               rxQueue[j][k].originate <= datagrams
        BY DEF Distinct
      <4> HIDE DEF IInv, TypeOK
      <4> QED BY <2>0, <3>1, <4>1
    <3>3. stage = "send" => packetBuffer <= datagrams + 1
      BY <2>0, NtpServerAssumption DEF Distinct
    <3> HIDE DEF IInv, TypeOK
    <3>4. /\ rxQueue' = rxQueue /\ stage' = stage /\ packetBuffer' = packetBuffer
          /\ datagrams' = datagrams + 1
      BY <2>0, <2>1
    <3> QED BY <3>2, <3>3, <3>4 DEF Distinct
  <2>2. CASE \E d \in Datagram :
               /\ d.originate = datagrams'
               /\ rxQueue' = [rxQueue EXCEPT ![i] = Append(@, d)]
    <3>1. PICK d \in Datagram :
               /\ d.originate = datagrams'
               /\ rxQueue' = [rxQueue EXCEPT ![i] = Append(@, d)]
      BY <2>2
    <3>2. ASSUME NEW j \in Interface, NEW k \in 1..Len(rxQueue'[j])
          PROVE  \/ k \in 1..Len(rxQueue[j]) /\ rxQueue'[j][k] = rxQueue[j][k]
                 \/ j = i /\ k = Len(rxQueue[i]) + 1 /\ rxQueue'[j][k] = d
      <4>1. CASE j = i
        <5>1. rxQueue'[j] = Append(rxQueue[i], d) /\ rxQueue[i] \in Seq(Datagram)
          BY <3>1, <4>1
        <5> QED BY <4>1, <5>1
      <4>2. CASE j # i
        BY <3>1, <4>2
      <4> QED BY <4>1, <4>2
    <3>3. \A j \in Interface : \A k \in 1..Len(rxQueue[j]) :
             rxQueue[j][k].originate \in Nat /\ rxQueue[j][k].originate <= datagrams
      BY QueueElement DEF Distinct
    <3>4. ASSUME NEW j \in Interface, NEW g \in Interface,
                 NEW k \in 1..Len(rxQueue'[j]), NEW l \in 1..Len(rxQueue'[g]),
                 rxQueue'[j][k].originate = rxQueue'[g][l].originate
          PROVE  j = g /\ k = l
      <4>1. CASE k \in 1..Len(rxQueue[j]) /\ rxQueue'[j][k] = rxQueue[j][k]
        <5>1. CASE l \in 1..Len(rxQueue[g]) /\ rxQueue'[g][l] = rxQueue[g][l]
          BY <3>4, <4>1, <5>1, SMTT(30) DEF Distinct
        <5>2. CASE rxQueue'[g][l] = d
          <6>1. rxQueue'[j][k].originate \in Nat /\ rxQueue'[j][k].originate <= datagrams
            BY <3>3, <4>1
          <6>2. rxQueue'[g][l].originate = datagrams'
            BY <3>1, <5>2
          <6> HIDE DEF IInv, TypeOK
          <6> QED BY <2>0, <3>4, <6>1, <6>2
        <5> QED BY <3>2, <5>1, <5>2
      <4>2. CASE j = i /\ k = Len(rxQueue[i]) + 1 /\ rxQueue'[j][k] = d
        <5>1. CASE l \in 1..Len(rxQueue[g]) /\ rxQueue'[g][l] = rxQueue[g][l]
          <6>1. rxQueue'[g][l].originate \in Nat /\ rxQueue'[g][l].originate <= datagrams
            BY <3>3, <5>1
          <6>2. rxQueue'[j][k].originate = datagrams'
            BY <3>1, <4>2
          <6> HIDE DEF IInv, TypeOK
          <6> QED BY <2>0, <3>4, <6>1, <6>2
        <5>2. CASE g = i /\ l = Len(rxQueue[i]) + 1 /\ rxQueue'[g][l] = d
          BY <4>2, <5>2
        <5> QED BY <3>2, <5>1, <5>2
      <4> QED BY <3>2, <4>1, <4>2
    <3>5. ASSUME NEW j \in Interface, NEW k \in 1..Len(rxQueue'[j])
          PROVE  /\ rxQueue'[j][k].originate <= datagrams'
                 /\ stage' = "send" => rxQueue'[j][k].originate # packetBuffer'
      BY <2>0, <3>1, <3>2, <3>3, NtpServerAssumption DEF Distinct
    <3>6. stage' = "send" => packetBuffer' <= datagrams'
      BY <2>0, NtpServerAssumption DEF Distinct
    <3> QED BY <3>4, <3>5, <3>6 DEF Distinct
  <2>3. UNCHANGED rxQueue \/ \E d \in Datagram :
               /\ d.originate = datagrams'
               /\ rxQueue' = [rxQueue EXCEPT ![i] = Append(@, d)]
    <3>1. ASSUME NEW c \in Client, NEW full \in BOOLEAN
          PROVE  [from |-> c, originate |-> datagrams', full |-> full] \in Datagram
      BY <1>4, NtpServerAssumption DEF Arrive, Datagram
    <3> QED BY <1>4, <3>1 DEF Arrive
  <2> QED BY <2>1, <2>2, <2>3
<1>5. CASE Tick \/ \E i \in Interface : LinkChange(i)
  BY SMTT(30), <1>5 DEF Tick, LinkChange, Distinct, handler, locals
<1>6. CASE UNCHANGED vars
  <2>1. /\ rxQueue' = rxQueue /\ datagrams' = datagrams
        /\ stage' = stage /\ packetBuffer' = packetBuffer
    BY <1>6 DEF vars, handler, locals, network
  <2> QED BY <2>1 DEF Distinct
<1> QED
  BY <1>1, <1>2, <1>3, <1>4, <1>5, <1>6 DEF Next, process

-----------------------------------------------------------------------------
LEMMA InitFresh == Init => Fresh
BY DEF Init, Fresh, Service!LastSent

\* Only the poll reads the clocks, only sendOk sends, and time never runs back.
LEMMA NextFresh == IInv /\ Fresh /\ [Next]_vars => Fresh'
<1> SUFFICES ASSUME IInv, Fresh, [Next]_vars PROVE Fresh'
  OBVIOUS
<1> USE DEF IInv, TypeOK
<1>0. now \in Nat /\ receiveTimestamp \in Nat /\ Service!LastSent \in Nat
  <2>1. CASE sent = <<>>
    BY <2>1, NtpServerAssumption DEF Service!LastSent
  <2>2. CASE sent # <<>>
    <3>1. sent[Len(sent)] \in Response
      BY <2>2
    <3> QED BY <2>2, <3>1, NtpServerAssumption DEF Service!LastSent, Response
  <2> QED BY <2>1, <2>2, NtpServerAssumption
<1>1. CASE poll
  <2>1. now' = now /\ sent' = sent
    BY <1>1 DEF poll, network
  <2>2. \/ receiveTimestamp' = now
        \/ receiveTimestamp' = receiveTimestamp /\ stage' \notin {"parse", "send"}
    BY <1>1, ToNextType DEF poll
  <2> QED BY <1>0, <2>1, <2>2 DEF Fresh, Service!LastSent
<1>2. CASE sendOk
  <2> DEFINE r == [from |-> remote, to |-> recipient, via |-> turn,
                   originate |-> packetBuffer, readAt |-> receiveTimestamp, sentAt |-> now]
  <2>1. /\ sent' = Append(sent, r) /\ sent \in Seq(Response)
        /\ now' = now /\ receiveTimestamp' = receiveTimestamp
        /\ stage' \notin {"parse", "send"}
    BY <1>2, ToNextType DEF sendOk, network, handler, locals
  <2>2. r.sentAt = now
    OBVIOUS
  <2> HIDE DEF r
  <2>3. Len(sent) \in Nat /\ Len(sent') = Len(sent) + 1 /\ sent'[Len(sent) + 1] = r
    BY <2>1
  <2>4. sent' # <<>> /\ sent'[Len(sent')].sentAt = now
    BY <2>2, <2>3
  <2> QED BY <1>0, <2>1, <2>4 DEF Fresh, Service!LastSent
<1>3. CASE \/ begin \/ parseNothing \/ parseTooSmall \/ parseRequest \/ sendFailed
           \/ restart \/ restOfLoop
  <2>1. /\ sent' = sent /\ now' = now /\ receiveTimestamp' = receiveTimestamp
        /\ stage' \in {"parse", "send"} => stage \in {"parse", "send"}
    BY <1>3, ToNextType
    DEF begin, parseNothing, parseTooSmall, parseRequest, sendFailed, restart, restOfLoop,
        network, handler, locals
  <2> QED BY <1>0, <2>1 DEF Fresh, Service!LastSent
<1>4. CASE Tick
  <2>1. /\ now' = now + 1 /\ sent' = sent /\ stage' = stage
        /\ receiveTimestamp' = receiveTimestamp
    BY <1>4 DEF Tick, handler, locals
  <2> QED BY <1>0, <2>1 DEF Fresh, Service!LastSent
<1>5. CASE UNCHANGED vars \/ \E i \in Interface : Arrive(i) \/ LinkChange(i)
  <2>1. /\ sent' = sent /\ now' = now /\ receiveTimestamp' = receiveTimestamp
        /\ stage' = stage
    BY <1>5 DEF vars, Arrive, LinkChange, handler, locals, network
  <2> QED BY <1>0, <2>1 DEF Fresh, Service!LastSent
<1> QED
  BY <1>1, <1>2, <1>3, <1>4, <1>5 DEF Next, process

-----------------------------------------------------------------------------
LEMMA InitRefines == Init => Service!Init
BY DEF Init, Service!Init, Queued, InBuffer, Request, Interface

\* A step that leaves the queues, the buffer and the history alone is a stutter.
LEMMA StutterRefines ==
    ASSUME UNCHANGED <<rxQueue, now, datagrams, sent>>, UNCHANGED InBuffer
    PROVE  UNCHANGED Service!vars
BY DEF Service!vars, Queued

LEMMA StepRefines ==
    ASSUME IInv, Distinct, Fresh, [Next]_vars
    PROVE  [Service!Next]_(Service!vars)
<1> USE DEF IInv, TypeOK
<1> DEFINE pending == Queued \cup InBuffer
<1>1. CASE \/ begin \/ poll \/ parseNothing \/ restart
           \/ restOfLoop /\ rxQueue' = rxQueue
  <2>1. /\ UNCHANGED <<rxQueue, now, datagrams, sent>>
        /\ stage # "send" /\ stage' # "send"
    BY <1>1, ToNextType
    DEF begin, poll, parseNothing, restart, restOfLoop, network
  <2>2. InBuffer = {} /\ InBuffer' = {}
    BY <2>1 DEF InBuffer
  <2> QED BY <2>1, <2>2, StutterRefines
<1>2. CASE parseTooSmall \/ parseRequest
  <2> DEFINE q == rxQueue[turn]
  <2>1. q \in Seq(Datagram) /\ q # <<>> /\ turn \in Interface
    BY <1>2 DEF parseTooSmall, parseRequest
  <2>2. /\ rxQueue' = [rxQueue EXCEPT ![turn] = Tail(q)]
        /\ UNCHANGED <<now, datagrams, sent>> /\ stage = "parse"
    BY <1>2, ToNextType DEF parseTooSmall, parseRequest, network
  <2>3. /\ Len(Tail(q)) = Len(q) - 1 /\ Len(q) \in Nat \ {0}
        /\ \A k \in 1..(Len(q) - 1) : Tail(q)[k] = q[k + 1]
        /\ q[1] = Head(q) /\ q[1] \in Datagram
    BY <2>1
  <2>4. InBuffer' = IF q[1].full
                    THEN {[from |-> q[1].from, via |-> turn, originate |-> q[1].originate]}
                    ELSE {}
    BY <1>2, <2>3, ToNextType DEF parseTooSmall, parseRequest, InBuffer, network
  <2> HIDE DEF q
  <2>5. ASSUME NEW r \in Request
        PROVE  r \in Queued <=> r \in Queued' \/ r \in InBuffer'
    <3>1. CASE r.via # turn
      <4>1. r \notin InBuffer'
        BY <2>4, <3>1
      <4>2. rxQueue'[r.via] = rxQueue[r.via]
        BY <2>2, <3>1 DEF Request
      <4> QED BY <4>1, <4>2 DEF Queued
    <3>2. CASE r.via = turn
      <4>1. rxQueue[r.via] = q /\ rxQueue'[r.via] = Tail(q)
        BY <2>1, <2>2, <3>2 DEF q
      <4>2. DOMAIN q = 1..Len(q) /\ DOMAIN Tail(q) = 1..(Len(q) - 1)
        BY <2>1, <2>3 
      <4>3. r \in InBuffer' <=> /\ q[1].full /\ q[1].from = r.from
                                /\ q[1].originate = r.originate
        BY <2>4, <3>2 DEF Request
      <4>4. r \in Queued <=> \E k \in 1..Len(q) :
               q[k].full /\ q[k].from = r.from /\ q[k].originate = r.originate
        BY <4>1, <4>2 DEF Queued
      <4>5. r \in Queued' <=> \E k \in 1..(Len(q) - 1) :
               q[k + 1].full /\ q[k + 1].from = r.from /\ q[k + 1].originate = r.originate
        <5>1. r \in Queued' <=> \E k \in 1..(Len(q) - 1) :
                 /\ Tail(q)[k].full /\ Tail(q)[k].from = r.from
                 /\ Tail(q)[k].originate = r.originate
          BY <4>1, <4>2 DEF Queued
        <5> QED BY <2>3, <5>1
      <4>6. ASSUME NEW k \in 1..Len(q), k # 1
            PROVE  k - 1 \in 1..(Len(q) - 1) /\ (k - 1) + 1 = k
        BY <2>3, <4>6
      <4>7. \A k \in 1..(Len(q) - 1) : k + 1 \in 1..Len(q)
        BY <2>3
      <4>8. 1 \in 1..Len(q)
        BY <2>3
      <4>9. r \in Queued => r \in Queued' \/ r \in InBuffer'
        BY <4>3, <4>4, <4>5, <4>6
      <4>10. r \in Queued' \/ r \in InBuffer' => r \in Queued
        BY <4>3, <4>4, <4>5, <4>7, <4>8
      <4> QED BY <4>9, <4>10
    <3> QED BY <3>1, <3>2
  <2>6. Queued \subseteq Request /\ Queued' \subseteq Request /\ InBuffer' \subseteq Request
    <3>1. InBuffer' \subseteq Request
      BY <2>1, <2>3, <2>4 DEF Request, Datagram
    <3> QED BY <3>1 DEF Queued, Request
  <2>7. InBuffer = {}
    BY <2>2 DEF InBuffer
  <2>8. Queued' \cup InBuffer' = Queued \cup InBuffer
    BY <2>5, <2>6, <2>7
  <2> QED BY <2>2, <2>8 DEF Service!vars
<1>3. CASE sendOk
  <2> DEFINE r == [from |-> remote, via |-> turn, originate |-> packetBuffer]
  <2>1. /\ rxQueue' = rxQueue /\ stage = "send" /\ stage' # "send"
        /\ UNCHANGED <<now, datagrams>>
        /\ sent' = Append(sent, [from |-> remote, to |-> recipient, via |-> turn,
                                 originate |-> packetBuffer, readAt |-> receiveTimestamp,
                                 sentAt |-> now])
    BY <1>3, ToNextType DEF sendOk, network
  <2>2. r \in Request
    BY <2>1 DEF LocalsAssigned, Request
  <2>3. InBuffer = {r} /\ InBuffer' = {} /\ Queued' = Queued
    BY <2>1 DEF InBuffer, Queued
  <2>4. r \notin Queued
    BY <2>1 DEF Queued, Distinct, Request
  <2>5. pending' = pending \ {r} /\ r \in pending
    BY <2>3, <2>4
  <2>6. receiveTimestamp \in Service!LastSent..now /\ receiveTimestamp \in 0..MaxTime
    BY <2>1, NtpServerAssumption DEF Fresh, Service!LastSent, Response
  <2>7. /\ recipient \in Client \cup {NoClient}
        /\ <<remote, turn>> \in Refused \X {"ethernet"} \/ recipient = remote
    BY <2>1 DEF recipient, LocalsAssigned, Anyone
  <2>8. Service!Answer(r, recipient, receiveTimestamp)
    BY <2>1, <2>5, <2>6, <2>7 DEF Service!Answer
  <2> QED BY <2>5, <2>6, <2>7, <2>8 DEF Service!Next
<1>4. CASE \/ sendFailed
           \/ restOfLoop /\ rxQueue' = [rxQueue EXCEPT !["ethernet"] = <<>>]
  <2>1. /\ \E i \in Interface : rxQueue' = [rxQueue EXCEPT ![i] = <<>>]
        /\ stage' # "send"
        /\ UNCHANGED <<now, datagrams, sent>>
    BY <1>4 DEF sendFailed, restOfLoop, network, Interface
  <2>2. Queued' \subseteq Queued /\ InBuffer' = {}
    BY <2>1 DEF Queued, InBuffer, Request
  <2>3. pending' = pending \ (pending \ pending')
    BY <2>2
  <2>4. Service!Lose
    BY <2>1, <2>3 DEF Service!Lose
  <2> QED BY <2>4 DEF Service!Next
<1>5. ASSUME NEW i \in Interface, Arrive(i) PROVE Service!Next
  <2>1. /\ datagrams < MaxDatagrams /\ datagrams' = datagrams + 1
        /\ UNCHANGED <<now, sent>> /\ UNCHANGED InBuffer
    BY <1>5 DEF Arrive, handler, locals, InBuffer
  <2>2. CASE UNCHANGED rxQueue
    <3>1. pending' = pending
      BY <2>1, <2>2 DEF Queued
    <3> QED BY <2>1, <3>1 DEF Service!Receive, Service!Next
  <2>3. ASSUME NEW c \in Client, NEW full \in BOOLEAN,
               rxQueue' = [rxQueue EXCEPT ![i] = Append(@,
                   [from |-> c, originate |-> datagrams', full |-> full])]
        PROVE  Service!Next
    <3> DEFINE r == [from |-> c, via |-> i, originate |-> datagrams']
               d == [from |-> c, originate |-> datagrams', full |-> full]
               q == rxQueue[i]
    <3>1. r \in Request
      BY <2>1, NtpServerAssumption DEF Request
    <3>2. /\ q \in Seq(Datagram) /\ rxQueue'[i] = Append(q, d)
          /\ \A j \in Interface : j # i => rxQueue'[j] = rxQueue[j]
      BY <2>3
    <3>3. /\ DOMAIN q = 1..Len(q) /\ DOMAIN Append(q, d) = 1..(Len(q) + 1)
          /\ Append(q, d)[Len(q) + 1] = d /\ Len(q) \in Nat
          /\ \A k \in 1..Len(q) : Append(q, d)[k] = q[k]
      BY <3>2
    <3> HIDE DEF q
    <3>4. ASSUME NEW s \in Request
          PROVE  s \in Queued' <=> s \in Queued \/ (full /\ s = r)
      <4>1. CASE s.via # i
        <5>1. rxQueue'[s.via] = rxQueue[s.via]
          BY <3>2, <4>1 DEF Request
        <5>2. s # r
          BY <4>1
        <5>3. s \in Queued' <=> s \in Queued
          BY <5>1 DEF Queued
        <5> QED BY <5>2, <5>3
      <4>2. CASE s.via = i
        <5>1. s \in Queued <=> \E k \in 1..Len(q) :
                 q[k].full /\ q[k].from = s.from /\ q[k].originate = s.originate
          BY <3>3, <4>2 DEF Queued, q
        <5>2. s \in Queued' <=> \E k \in 1..(Len(q) + 1) :
                 /\ Append(q, d)[k].full /\ Append(q, d)[k].from = s.from
                 /\ Append(q, d)[k].originate = s.originate
          BY <3>2, <3>3, <4>2 DEF Queued
        <5>3. s = r <=> d.from = s.from /\ d.originate = s.originate
          BY <4>2 DEF Request
        <5> HIDE DEF d, r
        <5>4. \A k \in 1..(Len(q) + 1) : k \in 1..Len(q) \/ k = Len(q) + 1
          BY <3>3
        <5>5. 1..Len(q) \subseteq 1..(Len(q) + 1) /\ Len(q) + 1 \in 1..(Len(q) + 1)
          BY <3>3
        <5>6. d.full = full
          BY DEF d
        <5>7. s \in Queued' => s \in Queued \/ (full /\ s = r)
          BY <3>3, <5>1, <5>2, <5>3, <5>4, <5>6
        <5>8. s \in Queued => s \in Queued'
          BY <3>3, <5>1, <5>2, <5>5
        <5>9. full /\ s = r => s \in Queued'
          <6>1. full /\ s = r => \E k \in {Len(q) + 1} :
                 /\ Append(q, d)[k].full /\ Append(q, d)[k].from = s.from
                 /\ Append(q, d)[k].originate = s.originate
            BY <3>3, <5>3, <5>6
          <6> QED BY <5>2, <5>5, <6>1
        <5> QED BY <5>7, <5>8, <5>9
      <4> QED BY <4>1, <4>2
    <3>5. Queued' \subseteq Request /\ Queued \subseteq Request
      BY DEF Queued, Request
    <3>6. pending' = pending \/ pending' = pending \cup {r}
      BY <2>1, <3>1, <3>4, <3>5
    <3>7. r \in Service!Request /\ r.originate = datagrams'
      BY <3>1 DEF Request, Service!Request
    <3> QED BY <2>1, <3>6, <3>7 DEF Service!Receive, Service!Next
  <2> QED BY <1>5, <2>2, <2>3 DEF Arrive
<1>6. CASE Tick
  <2>1. /\ now < MaxTime /\ now' = now + 1 /\ UNCHANGED <<datagrams, sent>>
        /\ UNCHANGED <<rxQueue, stage, turn, remote, packetBuffer>>
    BY <1>6 DEF Tick, handler, locals
  <2>2. pending' = pending
    BY <2>1 DEF Queued, InBuffer
  <2> QED BY <2>1, <2>2 DEF Service!Tick, Service!Next
<1>7. CASE UNCHANGED vars \/ \E i \in Interface : LinkChange(i)
  <2>1. UNCHANGED <<rxQueue, now, datagrams, sent, stage, turn, remote, packetBuffer>>
    BY <1>7 DEF vars, LinkChange, handler, locals, network
  <2>2. UNCHANGED InBuffer
    BY <2>1 DEF InBuffer
  <2> QED BY <2>1, <2>2, StutterRefines
<1> QED
  BY <1>1, <1>2, <1>3, <1>4, <1>5, <1>6, <1>7 DEF Next, process, restOfLoop

\* The server implements the service for every set of clients, every number of
\* datagrams and every counter width (the whole of NtpServer.cpp's request path).
THEOREM Refinement == Spec => ImplementsService
<1>1. SafeSpec => Service!Spec
  BY InitIInv, NextIInv, InitDistinct, NextDistinct, InitFresh, NextFresh, InitRefines,
     StepRefines, PTL DEF SafeSpec, Service!Spec
<1> QED BY <1>1, PTL DEF Spec, ImplementsService
=============================================================================
