-------------------------------- MODULE Inbox --------------------------------
(***************************************************************************)
(* What EthernetUDP and EthernetClient promise a reader: datagrams are     *)
(* taken one by one in the order of their arrival, each with its own       *)
(* bytes, and bytes of a datagram that was not read to its end are never   *)
(* taken for another's; a connection is a stream of bytes, each read once. *)
(*                                                                         *)
(*   waiting - datagrams that have arrived, [from, length]                 *)
(*   unread  - what is left of the datagram parsePacket() found last, or   *)
(*             of the stream                                               *)
(*   result  - the bytes the last call returned                            *)
(***************************************************************************)
EXTENDS Integers, Sequences

CONSTANTS Datagram, Byte

VARIABLES waiting, unread, result

\* The bytes of datagram d.
payload(d) == [i \in 1..d.length |-> [from |-> d.from, length |-> d.length, at |-> i]]

Init == waiting = << >> /\ unread = << >> /\ result = << >>

\* A datagram arrives, or bytes of the stream.  One for which there is no room is lost.
Arrive ==
    /\ \/ \E d \in Datagram : waiting' = Append(waiting, d) /\ UNCHANGED unread
       \/ \E b \in Byte : unread' = Append(unread, b) /\ UNCHANGED waiting
    /\ UNCHANGED result

\* parsePacket() gives up the rest of one datagram ...
Discard == unread' = << >> /\ result' = << >> /\ UNCHANGED waiting

\* ... before it takes the next, if there is one.
Take ==
    /\ unread = << >> /\ waiting # << >>
    /\ unread' = payload(Head(waiting)) /\ waiting' = Tail(waiting)
    /\ result' = << >>

\* read() returns what comes next.
Read ==
    /\ \E n \in 0..Len(unread) :
          /\ result' = SubSeq(unread, 1, n)
          /\ unread' = SubSeq(unread, n + 1, Len(unread))
    /\ UNCHANGED waiting

\* The socket is closed and opened again: what was in it is gone.
Reopen == waiting' = << >> /\ unread' = << >> /\ result' = << >>

Next == Arrive \/ Discard \/ Take \/ Read \/ Reopen

Spec == Init /\ [][Next]_<<waiting, unread, result>>
=============================================================================
