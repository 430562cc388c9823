---------------------------- MODULE SocketReceive ----------------------------
(***************************************************************************)
(* One socket of the chip as it is read: socketRecv() and                  *)
(* socketRecvAvailable() of socket.cpp, and on top of them parsePacket()   *)
(* and read() of EthernetUDP and available() and read() of EthernetClient. *)
(* The driver keeps a count of the bytes that wait and a read pointer of   *)
(* its own, and tells the chip about what it has read only now and then,   *)
(* while the chip keeps receiving.                                         *)
(*                                                                         *)
(*   rx        - the receive region of the chip                            *)
(*   rxRd, rxWr - the chip's read and write pointers, between which data   *)
(*               waits: Sn_RX_RSR is their difference                      *)
(*   RX_RSR, RX_RD, RX_inc - state[s]: bytes that wait as far as the       *)
(*               driver knows, its read pointer, and how far that is ahead *)
(*               of the chip's; RX_inc is a uint8_t, which Batch keeps in  *)
(*               range                                                     *)
(*   remaining - EthernetUDP::_remaining                                   *)
(*   parsing   - in the loop of parsePacket()                              *)
(*   result    - the bytes the last call returned to the program           *)
(*   arrived   - history: the datagrams that have come and that            *)
(*               parsePacket() has not found yet                           *)
(*                                                                         *)
(* A cell holds [from, length, at]: the byte number at of the datagram of  *)
(* that length, at <= 0 for the Header bytes before it.                    *)
(***************************************************************************)
EXTENDS ChipMemory

CONSTANTS Header,     \* 8 bytes the chip puts before a datagram
          Batch,      \* 250: bytes read before the chip is told
          Source,     \* senders of datagrams
          Lengths,    \* lengths of datagrams
          ReadSizes   \* what a program asks read() for

ASSUME SocketReceiveAssumption ==
    /\ Header \in 1..SSize /\ Batch \in Nat \ {0}
    /\ Lengths \subseteq Nat /\ ReadSizes \subseteq Nat \ {0}

VARIABLES rx, rxRd, rxWr, RX_RSR, RX_RD, RX_inc, remaining, parsing, result,
          arrived

ring == <<rx, rxRd, rxWr>>
driver == <<RX_RSR, RX_RD, RX_inc>>
reader == <<remaining, parsing, result>>
receiveVars == <<board, ring, driver, reader, arrived>>

Datagram == [from : Source, length : Lengths]
Byte == [from : Source, length : {1}, at : {1}]

ReceiveInit ==
    /\ BoardInit
    /\ rx = [t \in Sockets |-> Cleared] /\ rxRd = 0 /\ rxWr = 0
    /\ RX_RSR = 0 /\ RX_RD = 0 /\ RX_inc = 0
    /\ remaining = 0 /\ parsing = FALSE /\ result = << >> /\ arrived = << >>

\* readSnRX_RSR(s); getSnRX_RSR() reads it until it is stable.
getSnRX_RSR == (rxWr - rxRd) % Word

-----------------------------------------------------------------------------
(***************************************************************************)
(* The chip receives, whatever the program is doing.                       *)
(***************************************************************************)
store(bytes) ==
    /\ getSnRX_RSR + Len(bytes) <= SSize
    /\ rx' = [rx EXCEPT ![Socket] = [o \in Offset |->
                LET i == ((o - rxWr) % SSize) + 1
                IN  IF i <= Len(bytes) THEN bytes[i] ELSE rx[Socket][o]]]
    /\ rxWr' = (rxWr + Len(bytes)) % Word
    /\ UNCHANGED <<board, rxRd, driver, reader>>

datagramArrives(d) ==
    /\ protocol = "UDP"
    /\ store([i \in 1..(Header + d.length) |->
                [from |-> d.from, length |-> d.length, at |-> i - Header]])
    /\ arrived' = Append(arrived, d)

byteArrives(b) == protocol = "TCP" /\ store(<<b>>) /\ UNCHANGED arrived

-----------------------------------------------------------------------------
(***************************************************************************)
(* The driver.                                                             *)
(***************************************************************************)
\* Bytes that wait after those the driver has read.
fresh == (getSnRX_RSR - RX_inc) % Word

\* socketRecvAvailable(): the chip is asked when the driver knows of none.
socketRecvAvailable == IF RX_RSR = 0 THEN fresh ELSE RX_RSR

\* Not the code: the chip is told only after a batch.
tell_batchOnly(inc, left) == inc >= Batch

\* socketRecv() tells the chip what was read.
tell(inc, left) == inc >= Batch \/ left = 0

\* socketRecv() of at most len bytes when the driver knows of known bytes.  The chip is
\* asked when they do not suffice.  taken holds what is read.
available(known, len) == IF known < len THEN fresh ELSE known
taken(known, len) ==
    read_data(rx, Socket, RX_RD, smaller(available(known, len), len))

socketRecv(known, len) ==
    LET ret == Len(taken(known, len))
        left == available(known, len) - ret
        ptr == (RX_RD + ret) % Word
        told == tell(RX_inc + ret, left)
    IN  /\ RX_RSR' = left
        /\ IF ret = 0
           THEN UNCHANGED <<ring, RX_RD, RX_inc>>
           ELSE /\ RX_RD' = ptr
                /\ RX_inc' = IF told THEN 0 ELSE RX_inc + ret
                /\ rxRd' = IF told THEN ptr ELSE rxRd
                /\ rx' = IF told THEN release(rx, Socket, rxRd, ptr) ELSE rx
                /\ rxWr' = rxWr

\* socketBegin() opens the socket again: the chip starts with empty rings, and so does the
\* driver.
socketBegin ==
    /\ rx' = [rx EXCEPT ![Socket] = Cleared] /\ rxRd' = 0 /\ rxWr' = 0
    /\ RX_RSR' = 0 /\ RX_RD' = 0 /\ RX_inc' = 0
    /\ arrived' = << >>

-----------------------------------------------------------------------------
(***************************************************************************)
(* EthernetUDP.                                                            *)
(***************************************************************************)
\* Not the code: begin() leaves the count of the datagram that was being read.
udpBegin_keepsRemaining ==
    /\ protocol = "UDP" /\ ~parsing
    /\ socketBegin
    /\ result' = << >>
    /\ UNCHANGED <<board, remaining, parsing>>

\* begin(): also reopens a socket that was in use.
udpBegin ==
    /\ protocol = "UDP" /\ ~parsing
    /\ socketBegin
    /\ remaining' = 0 /\ result' = << >>
    /\ UNCHANGED <<board, parsing>>

parsePacket ==
    /\ protocol = "UDP" /\ ~parsing
    /\ parsing' = TRUE /\ result' = << >>
    /\ UNCHANGED <<board, ring, driver, remaining, arrived>>

\* Its loop: read((uint8_t *)NULL, _remaining) while bytes of the last packet remain.
discard ==
    /\ parsing /\ remaining > 0
    /\ socketRecv(RX_RSR, remaining)
    /\ remaining' = remaining - Len(taken(RX_RSR, remaining))
    /\ UNCHANGED <<board, parsing, result, arrived>>

\* tmpBuf[6] and tmpBuf[7]
lengthIn(header) == header[Header].length

\* The header of the next packet, if something has come.
parseHeader ==
    /\ parsing /\ remaining = 0
    /\ IF socketRecvAvailable = 0
       THEN RX_RSR' = 0 /\ UNCHANGED <<ring, RX_RD, RX_inc, remaining, arrived>>
       ELSE /\ socketRecv(socketRecvAvailable, Header)
            /\ remaining' = lengthIn(taken(socketRecvAvailable, Header))
            /\ arrived' = Tail(arrived)
    /\ parsing' = FALSE
    /\ UNCHANGED <<board, result>>

\* read(buffer, len) and, with len 1, read(): never beyond the packet.
udpRead(len) ==
    /\ protocol = "UDP" /\ ~parsing /\ remaining > 0
    /\ socketRecv(RX_RSR, smaller(len, remaining))
    /\ result' = taken(RX_RSR, smaller(len, remaining))
    /\ remaining' = remaining - Len(result')
    /\ UNCHANGED <<board, parsing, arrived>>

-----------------------------------------------------------------------------
(***************************************************************************)
(* EthernetClient.                                                         *)
(***************************************************************************)
\* while (client.available()) client.read(): one pass.
clientRead ==
    /\ protocol = "TCP"
    /\ IF socketRecvAvailable = 0
       THEN RX_RSR' = 0 /\ result' = << >> /\ UNCHANGED <<ring, RX_RD, RX_inc>>
       ELSE socketRecv(socketRecvAvailable, 1) /\ result' = taken(socketRecvAvailable, 1)
    /\ UNCHANGED <<board, remaining, parsing, arrived>>

\* The socket serves another connection: EthernetServer opens it again.
listenAgain ==
    /\ protocol = "TCP"
    /\ socketBegin
    /\ result' = << >>
    /\ UNCHANGED <<board, remaining, parsing>>

ReceiveNext ==
    \/ \E d \in Datagram : datagramArrives(d)
    \/ \E b \in Byte : byteArrives(b)
    \/ udpBegin \/ parsePacket \/ discard \/ parseHeader
    \/ \E len \in ReadSizes : udpRead(len)
    \/ clientRead \/ listenAgain

-----------------------------------------------------------------------------
ReceiveTypeOK ==
    /\ rxRd \in Pointer /\ rxWr \in Pointer
    /\ RX_RSR \in 0..SSize /\ RX_RD \in Pointer /\ RX_inc \in 0..SSize
    /\ remaining \in Nat /\ parsing \in BOOLEAN

\* What the chip holds from the driver's read pointer on.
ahead == between(rx, Socket, RX_RD, rxWr)

\* The two read pointers and the two counts of one socket agree, however many bytes have
\* come and been read since they were last compared, and across the wrap of the pointers:
\* the driver never believes in a byte that is not there, reports its reads at the latest
\* when a batch is read or nothing is left, and so leaves an emptied buffer wholly free.
PointersAgree ==
    /\ RX_RD = (rxRd + RX_inc) % Word
    /\ RX_RSR + RX_inc <= getSnRX_RSR
    /\ RX_inc < Batch
    /\ RX_RSR = 0 => RX_inc = 0

\* "could this fail (loop endlessly) if _remaining > 0 and recv in read fails?"  It cannot:
\* whenever bytes of a packet remain, the driver knows of all of them, and a single read
\* discards them.
RemainingIsThere == remaining <= RX_RSR

\* What is left of the datagram parsePacket() found last, or of the stream.
unread == SubSeq(ahead, 1, IF protocol = "TCP" THEN Len(ahead)
                           ELSE smaller(remaining, Len(ahead)))

\* The reader gets what Inbox promises of the datagrams that have arrived.
inbox == INSTANCE Inbox WITH waiting <- arrived
ImplementsInbox == inbox!Spec
=============================================================================
