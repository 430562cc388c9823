----------------------------- MODULE SocketSend -----------------------------
(***************************************************************************)
(* One socket of the chip as it is written: socketSend(),                  *)
(* socketBufferData(), socketStartUDP() and socketSendUDP() of socket.cpp  *)
(* under write() of EthernetClient and beginPacket(), write() and          *)
(* endPacket() of EthernetUDP.  A call waits inside for the chip, which    *)
(* waits for the network; the main loop stands still meanwhile.            *)
(*                                                                         *)
(*   tx        - the transmit region of the chip                           *)
(*   txRd      - the chip's pointer to what it has not got rid of          *)
(*   txWr      - Sn_TX_WR as it reads: where the last SEND ended           *)
(*   txNew     - Sn_TX_WR as it was written: where the next SEND ends      *)
(*   status    - Sn_SR                                                     *)
(*   ir        - the bits of Sn_IR the driver looks at                     *)
(*   sending   - the chip works on a SEND                                  *)
(*   step      - where the program is: "idle", in a "packet" it has begun, *)
(*               and in a call, "room", "copy" and "done" (SEND_OK is      *)
(*               awaited) of socketSend(), "ended" (the same) of           *)
(*               socketSendUDP()                                           *)
(*   offset    - EthernetUDP::_offset                                      *)
(*   data      - the bytes socketSend() has to send                        *)
(*   given     - history: bytes accepted for the next SEND                 *)
(*   flight    - history: bytes of SENDs that have not been got rid of     *)
(*                                                                         *)
(* The TCP CLI may call socketSend() on a UDP socket: under the number of  *)
(* a connection that is gone, given to that socket since (SocketPool).     *)
(*                                                                         *)
(* Two facts of the chip the driver relies on are assumed with it: TX_WR   *)
(* reads as the last SEND left it, which makes the offsets of              *)
(* socketBufferData() count from one place, and a datagram that times out  *)
(* leaves the ring.                                                        *)
(***************************************************************************)
EXTENDS ChipMemory

CONSTANT Pieces  \* sequences of bytes the program writes

\* The bytes that occur in them.
Bytes == UNION {{p[i] : i \in 1..Len(p)} : p \in Pieces}

ASSUME SocketSendAssumption == NoByte \notin Bytes /\ Pieces \subseteq Seq(Bytes)

VARIABLES tx, txRd, txWr, txNew, status, ir, sending, step, offset, data, given, flight

pointers == <<txRd, txWr, txNew>>
work == <<ir, sending>>
call == <<step, offset, data>>
history == <<given, flight>>
sendVars == <<board, tx, pointers, status, work, call, history>>

Open == {"ESTABLISHED", "CLOSE_WAIT"}

\* Sn_SR of a socket that socketBegin() has opened and, over TCP, a peer has connected to.
opened == IF protocol = "UDP" THEN "UDP" ELSE "ESTABLISHED"

\* The program is in none of the calls that wait.
returned == step \in {"idle", "packet"}

SendInit ==
    /\ BoardInit
    /\ tx = [t \in Sockets |-> Cleared] /\ txRd = 0 /\ txWr = 0 /\ txNew = 0
    /\ status = opened /\ ir = {} /\ sending = FALSE
    /\ step = "idle" /\ offset = 0 /\ data = << >>
    /\ given = << >> /\ flight = << >>

\* readSnTX_FSR(s); getSnTX_FSR() reads it until it is stable.
getSnTX_FSR == SSize - ((txWr - txRd) % Word)

-----------------------------------------------------------------------------
(***************************************************************************)
(* The chip and the network.                                               *)
(***************************************************************************)
\* The peer has acknowledged n bytes, or a datagram is out.
getRid(n) ==
    /\ txRd' = (txRd + n) % Word
    /\ tx' = release(tx, Socket, txRd, txRd + n)
    /\ flight' = SubSeq(flight, n + 1, Len(flight))

peerAcknowledges ==
    /\ protocol = "TCP" /\ status \in Open
    /\ \E n \in 1..((txWr - txRd) % Word) : getRid(n)
    /\ UNCHANGED <<board, txWr, txNew, status, work, call, given>>

\* The peer closes its side.
peerLeaves ==
    /\ protocol = "TCP" /\ status = "ESTABLISHED"
    /\ status' = "CLOSE_WAIT"
    /\ UNCHANGED <<board, tx, pointers, work, call, history>>

\* The connection is reset, or the chip has sent the same again too often.
connectionBreaks ==
    /\ protocol = "TCP" /\ status \in Open
    /\ status' = "CLOSED" /\ sending' = FALSE
    /\ UNCHANGED <<board, tx, pointers, ir, call, history>>

segmentSent ==
    /\ protocol = "TCP" /\ sending
    /\ ir' = ir \cup {"SEND_OK"} /\ sending' = FALSE
    /\ UNCHANGED <<board, tx, pointers, status, call, history>>

\* The datagram leaves, or its address is never resolved.
datagramSent ==
    /\ protocol = "UDP" /\ sending
    /\ getRid(Len(flight))
    /\ \E bit \in {"SEND_OK", "TIMEOUT"} : ir' = ir \cup {bit}
    /\ sending' = FALSE
    /\ UNCHANGED <<board, txWr, txNew, status, call, given>>

-----------------------------------------------------------------------------
(***************************************************************************)
(* The driver.                                                             *)
(***************************************************************************)
\* write_data() at an offset from Sn_TX_WR.
putData(at, bytes) ==
    /\ tx' = write_data(tx, Socket, (txWr + at) % Word, bytes)
    /\ txNew' = (txWr + at + Len(bytes)) % Word

\* execCmdSn(s, Sock_SEND).  A closed socket ignores it.
command ==
    IF protocol = "TCP" /\ status \notin Open
    THEN sending' = FALSE /\ UNCHANGED <<txWr, flight>>
    ELSE /\ sending' = TRUE
         /\ txWr' = txNew'
         /\ flight' = flight \o given'

\* Not the code: more than the buffer ever holds is waited for.
atMost_all(buf) == buf

\* What socketSend() takes of buf.
atMost(buf) == SubSeq(buf, 1, smaller(Len(buf), SSize))

\* socketSend() is called, on a connection or with the number of one that is gone.
socketSend(buf) ==
    /\ step = "idle"
    /\ step' = "room" /\ data' = atMost(buf)
    /\ UNCHANGED <<board, tx, pointers, status, work, offset, history>>

\* Not the code: the loop waits while the buffer is full only.
hasRoom_any(len) == getSnTX_FSR > 0

hasRoom(len) == getSnTX_FSR >= len

\* One pass of its loop, then yield().  Without a connection nothing is copied.
awaitRoom ==
    /\ step = "room"
    /\ \/ status \notin Open /\ data' = << >> /\ step' = "copy"
       \/ status \in Open /\ hasRoom(Len(data)) /\ step' = "copy" /\ UNCHANGED data
       \/ status \in Open /\ ~hasRoom(Len(data)) /\ UNCHANGED <<step, data>>
    /\ UNCHANGED <<board, tx, pointers, status, work, offset, history>>

\* The rest, until SEND_OK is awaited; the connection may have been lost since the loop.
copyAndSend ==
    /\ step = "copy"
    /\ putData(0, data) /\ given' = data
    /\ command
    /\ step' = "done"
    /\ UNCHANGED <<board, txRd, status, ir, offset, data>>

\* The call ends, with the bits cleared of Sn_IR.
return(bits) ==
    /\ ir' = ir \ bits
    /\ step' = "idle" /\ data' = << >> /\ given' = << >>
    /\ UNCHANGED <<board, tx, pointers, status, sending, offset, flight>>


\* The loop at the end of socketSend() looks for SEND_OK, then for a closed socket, whose
\* Sn_IR is left as it is.  It never looks for TIMEOUT.
awaitSent ==
    /\ step = "done"
    /\ \/ "SEND_OK" \in ir /\ return({"SEND_OK"})
       \/ "SEND_OK" \notin ir /\ status = "CLOSED" /\ return({})

\* The loop of socketSendUDP() looks for SEND_OK, then for TIMEOUT.
awaitSentUdp ==
    /\ step = "ended"
    /\ \/ "SEND_OK" \in ir /\ return({"SEND_OK"})
       \/ "SEND_OK" \notin ir /\ "TIMEOUT" \in ir /\ return({"SEND_OK", "TIMEOUT"})

\* socketBegin(): the socket is opened again, for another connection or datagrams.
reopen ==
    /\ returned /\ (protocol = "TCP" => status = "CLOSED")
    /\ tx' = [tx EXCEPT ![Socket] = Cleared] /\ txRd' = 0 /\ txWr' = 0 /\ txNew' = 0
    /\ status' = opened /\ ir' = {} /\ sending' = FALSE
    /\ step' = "idle" /\ given' = << >> /\ flight' = << >>
    /\ UNCHANGED <<board, offset, data>>

-----------------------------------------------------------------------------
(***************************************************************************)
(* EthernetUDP.                                                            *)
(***************************************************************************)
\* beginPacket(): also after a packet that was never ended.
beginPacket ==
    /\ protocol = "UDP" /\ returned
    /\ step' = "packet" /\ offset' = 0 /\ given' = << >>
    /\ UNCHANGED <<board, tx, pointers, status, work, data, flight>>

\* write() and socketBufferData().  The chip does not count what is not sent yet, so the
\* bound on a whole packet is the program's: 48 bytes of NTP, about 300 of DHCP.
udpWrite(buf) ==
    LET taken == SubSeq(buf, 1, smaller(Len(buf), getSnTX_FSR))
    IN  /\ step = "packet"
        /\ Len(given) + Len(buf) <= SSize
        /\ putData(offset, taken)
        /\ offset' = offset + Len(taken)
        /\ given' = given \o taken
        /\ UNCHANGED <<board, txRd, txWr, status, work, step, data, flight>>

\* endPacket() after something was written: the SEND of socketSendUDP().
endPacket ==
    /\ step = "packet" /\ given # << >>
    /\ UNCHANGED <<txNew, given>>
    /\ command
    /\ step' = "ended"
    /\ UNCHANGED <<board, tx, txRd, status, ir, offset, data>>

SendNext ==
    \/ peerAcknowledges \/ peerLeaves \/ connectionBreaks \/ segmentSent \/ datagramSent
    \/ \E buf \in Pieces : socketSend(buf)
    \/ awaitRoom \/ copyAndSend \/ awaitSent \/ awaitSentUdp \/ reopen
    \/ beginPacket \/ (\E buf \in Pieces : udpWrite(buf)) \/ endPacket

\* The waiting loops run on, and the chip ends what it was told to send.
SendFairness ==
    /\ WF_sendVars(awaitRoom) /\ WF_sendVars(copyAndSend)
    /\ WF_sendVars(awaitSent) /\ WF_sendVars(awaitSentUdp)
    /\ WF_sendVars(segmentSent) /\ WF_sendVars(datagramSent)

-----------------------------------------------------------------------------
SendTypeOK ==
    /\ tx \in [Sockets -> [Offset -> {NoByte} \cup Bytes]]
    /\ {txRd, txWr, txNew} \subseteq Pointer
    /\ status \in Open \cup {"CLOSED", "UDP"} /\ ir \subseteq {"SEND_OK", "TIMEOUT"}
    /\ sending \in BOOLEAN /\ step \in {"idle", "packet", "room", "copy", "done", "ended"}
    /\ offset \in 0..SSize /\ Len(data) <= SSize

\* What the chip holds to send, and to send again when an acknowledgement does not come, is
\* byte for byte what the accepted writes gave it, in their order: nothing of a packet that
\* was begun and not ended, nothing written over before the peer has it, across the end of
\* the ring and the wrap of the pointers, and nothing in another socket's buffer.
InFlightIsWritten ==
    /\ between(tx, Socket, txRd, txWr) = flight
    /\ \A t \in Sockets \ {Socket} : tx[t] = Cleared

\* A socketSend() on a UDP socket whose datagram has no way to go.
unanswered == step = "done" /\ protocol = "UDP" /\ ir = {"TIMEOUT"}

=============================================================================
