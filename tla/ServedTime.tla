----------------------------- MODULE ServedTime -----------------------------
(***************************************************************************)
(* The time a response carries.  NtpServer::processEthernet and            *)
(* processWifi build one timestamp out of two clocks: the whole second     *)
(* comes from the DS3231 (rtcManager.now()), the milliseconds from         *)
(* millis() % 1000, and nothing aligns the two.  Both are modelled as      *)
(* counters of milliseconds that advance together; the phase between them  *)
(* is arbitrary, the two reads are separate steps, and millis() wraps.     *)
(*                                                                         *)
(*   rtc     - the DS3231's own time, in ms; its registers show whole      *)
(*             seconds only                                                *)
(*   millis  - millis(), a uint32_t                                        *)
(*   pc      - which statement of the handler comes next                   *)
(*   second, startedAt - now.unixtime(), and rtc when it was read          *)
(*   stamp, readAt     - the last complete timestamp, and the value of rtc *)
(*             when its first half was read; Unread before the first one   *)
(*   packet  - the response that carries it                                *)
(***************************************************************************)
EXTENDS NtpPacket

CONSTANTS MaxRtc,    \* bound: the run ends when rtc reaches it
          ReadDelay, \* external: most ms between the two reads (an I2C transfer)
          Unread     \* value of readAt before the first read

ASSUME ServedTimeAssumption ==
    /\ MaxRtc \in Nat /\ ReadDelay \in Nat
    /\ MaxRtc \div MillisPerSecond < Word
    /\ Unread \notin Nat

VARIABLES rtc, millis, pc, second, startedAt, stamp, readAt, packet

vars == <<rtc, millis, pc, second, startedAt, stamp, readAt, packet>>

Init ==
    /\ rtc = 0
    /\ millis \in UInt32
    /\ pc = "readSecond"
    /\ second = 0 /\ startedAt = 0
    /\ stamp = [unixTime |-> 0, millisPart |-> 0] /\ readAt = Unread
    /\ packet = setClientRequest

\* One millisecond passes; between the two reads only ReadDelay of them can.
Tick ==
    /\ rtc < MaxRtc
    /\ pc = "readMillis" => rtc < startedAt + ReadDelay
    /\ rtc' = rtc + 1
    /\ millis' = (millis + 1) % Word
    /\ UNCHANGED <<pc, second, startedAt, stamp, readAt, packet>>

\* Faulty: the DS3231 is read once and its second kept.
ReadSecond_cached ==
    /\ pc = "readSecond"
    /\ second' = IF readAt = Unread THEN rtc \div MillisPerSecond ELSE second
    /\ startedAt' = rtc
    /\ pc' = "readMillis"
    /\ UNCHANGED <<rtc, millis, stamp, readAt, packet>>

\* now = rtcManager.now(); receiveTimestamp.unixTime = now.unixtime()
ReadSecond ==
    /\ pc = "readSecond"
    /\ second' = rtc \div MillisPerSecond
    /\ startedAt' = rtc
    /\ pc' = "readMillis"
    /\ UNCHANGED <<rtc, millis, stamp, readAt, packet>>

\* Faulty: millis() without % 1000.
ReadMillis_noModulo ==
    /\ pc = "readMillis"
    /\ stamp' = [unixTime |-> second, millisPart |-> millis]
    /\ readAt' = startedAt
    /\ packet' = setServerResponse(stamp', stamp', stamp', ZeroTimestamp)
    /\ pc' = "readSecond"
    /\ UNCHANGED <<rtc, millis, second, startedAt>>

\* receiveTimestamp.millisPart = millis() % 1000, then the response is built from it
ReadMillis ==
    /\ pc = "readMillis"
    /\ stamp' = [unixTime |-> second, millisPart |-> millis % MillisPerSecond]
    /\ readAt' = startedAt
    /\ packet' = setServerResponse(stamp', stamp', stamp', ZeroTimestamp)
    /\ pc' = "readSecond"
    /\ UNCHANGED <<rtc, millis, second, startedAt>>

Next == Tick \/ ReadSecond \/ ReadMillis

Spec == Init /\ [][Next]_vars

-----------------------------------------------------------------------------
\* The time a timestamp states, in ms of the DS3231's time scale.
Served(t) == t.unixTime * MillisPerSecond + t.millisPart

\* What a client that decodes the packet with NtpPacket's getters reads.
Decoded(p) == getTransmitUnixTime(p) * MillisPerSecond + getTransmitMilliseconds(p)

TypeOK ==
    /\ rtc \in 0..MaxRtc /\ millis \in UInt32
    /\ pc \in {"readSecond", "readMillis"}
    /\ second \in UInt32 /\ startedAt \in 0..MaxRtc
    /\ stamp \in NtpTimestamp /\ readAt \in 0..MaxRtc \cup {Unread}
    /\ packet.transmit \in WireTimestamp

\* A served time is less than a second from the DS3231's time at the first read,
\* whatever the phase of millis() and however long the two reads take
\* (processEthernet lines 88-91, processWifi lines 141-144).
ServedWithinASecond ==
    readAt # Unread =>
        /\ Served(stamp) < readAt + MillisPerSecond
        /\ readAt < Served(stamp) + MillisPerSecond

\* The codec adds at most one millisecond: what a client decodes from the response
\* is the served time or one millisecond before it (writeTimestamp against
\* getTransmitUnixTime and getTransmitMilliseconds, which both truncate).
DecodedTimeIsServed ==
    readAt # Unread => Decoded(packet) \in {Served(stamp) - 1, Served(stamp)}

\* Two timestamps whose reads are a second or more apart are in order, although
\* timestamps closer than that need not be.
OrderedWhenASecondApart ==
    [][(readAt # Unread /\ readAt' # readAt /\ readAt' >= readAt + MillisPerSecond)
          => Served(stamp) < Served(stamp')]_vars

\* What the packet announces of every timestamp, precision 0xEC ("-20, ~1us",
\* NtpServer.cpp line 22): a served time is within a millisecond, the finest step
\* of this model, of the clock it is read from.
AnnouncedPrecision ==
    readAt # Unread => Served(stamp) \in (readAt - 1)..(readAt + 1)
=============================================================================
