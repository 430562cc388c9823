----------------------------- MODULE NtpService -----------------------------
(***************************************************************************)
(* What the NTP server promises its clients, whatever its sockets and its  *)
(* loop look like.  A request that reached the device is pending until it  *)
(* is answered or lost; an answer goes to the sender of one pending        *)
(* request, over the interface it came in on, echoes that request's        *)
(* originate timestamp, and carries a reading of the clocks begun after    *)
(* the previous answer was sent.  What a reading states is not promised    *)
(* here: the clocks may be set between two of them.  Nor is it promised    *)
(* where an answer goes whose sender has an address that cannot be sent    *)
(* to over the interface.                                                  *)
(***************************************************************************)
EXTENDS Naturals, Sequences

CONSTANTS Client, NoClient, Interface, MaxDatagrams, MaxTime,
          Misdirected  \* pairs of a client that cannot be sent to and an interface

VARIABLES clock,     \* the time that has passed
          datagrams, \* how many datagrams the network has delivered to the device
          pending,   \* the requests neither answered nor lost
          answers    \* the answers sent, in order

vars == <<clock, datagrams, pending, answers>>

\* Requests are told apart by their originate timestamp.
Request == [from : Client, via : Interface, originate : 1..MaxDatagrams]

LastSent == IF answers = <<>> THEN 0 ELSE answers[Len(answers)].sentAt

Init ==
    /\ clock = 0 /\ datagrams = 0
    /\ pending = {} /\ answers = <<>>

Tick ==
    /\ clock < MaxTime
    /\ clock' = clock + 1
    /\ UNCHANGED <<datagrams, pending, answers>>

\* A datagram reaches the device; one that is no request, or finds no socket or no
\* room, leaves nothing pending.
Receive ==
    /\ datagrams < MaxDatagrams
    /\ datagrams' = datagrams + 1
    /\ \/ pending' = pending
       \/ \E q \in Request :
             /\ q.originate = datagrams'
             /\ pending' = pending \cup {q}
    /\ UNCHANGED <<clock, answers>>

Answer(q, to, t) ==
    /\ q \in pending
    /\ <<q.from, q.via>> \in Misdirected \/ to = q.from
    /\ t \in LastSent..clock
    /\ pending' = pending \ {q}
    /\ answers' = Append(answers, [from |-> q.from, to |-> to, via |-> q.via,
                                   originate |-> q.originate, readAt |-> t,
                                   sentAt |-> clock])
    /\ UNCHANGED <<clock, datagrams>>

\* UDP promises nothing: requests may be lost.
Lose ==
    /\ \E lost \in SUBSET pending : pending' = pending \ lost
    /\ UNCHANGED <<clock, datagrams, answers>>

Next ==
    \/ Tick \/ Receive \/ Lose
    \/ \E q \in pending, to \in Client \cup {NoClient}, t \in 0..MaxTime : Answer(q, to, t)

Spec == Init /\ [][Next]_vars
=============================================================================
