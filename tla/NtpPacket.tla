------------------------------ MODULE NtpPacket ------------------------------
(***************************************************************************)
(* The NTP packet codec (src/src/ntp/NtpPacket.cpp).  A packet is a record *)
(* of the fields some part of the firmware reads or writes; the 48 byte    *)
(* image and its byte order are left out.  Arithmetic keeps the width of   *)
(* the code's uint32_t: Word is the number of its values (2^32).           *)
(***************************************************************************)
EXTENDS Integers

CONSTANTS Word,            \* number of values of a uint32_t
          EpochOffset,     \* NTP_EPOCH_OFFSET, seconds from 1900 to 1970
          MillisPerSecond  \* 1000

ASSUME NtpPacketAssumption ==
    /\ Word \in Nat /\ MillisPerSecond \in Nat \ {0}
    /\ MillisPerSecond <= Word
    /\ EpochOffset \in 0..(Word - 1)

UInt32 == 0..(Word - 1)

\* struct NtpTimestamp; millisPart always comes from millis() % 1000
NtpTimestamp == [unixTime : UInt32, millisPart : 0..(MillisPerSecond - 1)]

\* One 8 byte timestamp field of a packet: seconds since 1900 and a binary fraction.
WireTimestamp == [seconds : UInt32, fraction : UInt32]

ZeroTimestamp == [seconds |-> 0, fraction |-> 0]

\* Faulty variants of a definition, named <definition>_<fault>, stand before it; no
\* other definition uses them. They show that the properties can fail.
writeTimestamp_noWrap(t) ==
    [seconds  |-> t.unixTime + EpochOffset,
     fraction |-> (t.millisPart * Word) \div MillisPerSecond]

writeTimestamp_divideFirst(t) ==
    [seconds  |-> (t.unixTime + EpochOffset) % Word,
     fraction |-> (t.millisPart \div MillisPerSecond) * Word]

writeTimestamp(t) ==
    [seconds  |-> (t.unixTime + EpochOffset) % Word,
     fraction |-> ((t.millisPart * Word) \div MillisPerSecond) % Word]

getTransmitUnixTime(packet) == (packet.transmit.seconds - EpochOffset) % Word

getTransmitMilliseconds(packet) ==
    (packet.transmit.fraction * MillisPerSecond) \div Word

setServerResponse(referenceTs, receiveTs, transmitTs, originate) ==
    [mode      |-> "server",
     stratum   |-> 2,
     reference |-> writeTimestamp(referenceTs),
     originate |-> originate,
     receive   |-> writeTimestamp(receiveTs),
     transmit  |-> writeTimestamp(transmitTs)]

\* clear() leaves every field but the mode zero: the transmit timestamp a server
\* echoes back to this client is always the zero timestamp.
setClientRequest ==
    [mode      |-> "client",
     stratum   |-> 0,
     reference |-> ZeroTimestamp,
     originate |-> ZeroTimestamp,
     receive   |-> ZeroTimestamp,
     transmit  |-> ZeroTimestamp]
=============================================================================
