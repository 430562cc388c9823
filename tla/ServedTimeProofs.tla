-------------------------- MODULE ServedTimeProofs --------------------------
(***************************************************************************)
(* Theorems about the packet codec and the served time, for every word     *)
(* width, epoch offset and length of a second the assumptions admit: in    *)
(* particular for 2^32, 2208988800 and 1000, which TLC cannot represent.   *)
(***************************************************************************)
EXTENDS ServedTime, ModularArithmetic, TLAPS

\* The seconds a client decodes are the seconds that were written, also when the NTP
\* era wraps in 2036 (writeTimestamp, getTransmitUnixTime).
LEMMA SecondsRoundTrip ==
    ASSUME NEW u \in UInt32
    PROVE  (((u + EpochOffset) % Word) - EpochOffset) % Word = u
<1> DEFINE x == u + EpochOffset
           y == -EpochOffset
<1>1. x \in Int /\ y \in Int /\ Word \in Nat \ {0} /\ x + y = u
  BY NtpPacketAssumption DEF UInt32
<1>2. (x % Word) \in Int /\ (x % Word) - EpochOffset = (x % Word) + y
  BY NtpPacketAssumption, DivMod, <1>1
<1> HIDE DEF x, y
<1>3. ((x % Word) + y) % Word = (x + y) % Word
  BY <1>1, RemainderOfSum
<1>4. u % Word = u
  BY <1>1, RemainderSmall DEF UInt32
<1> QED BY <1>1, <1>2, <1>3, <1>4 DEF x

\* m parts of a second as a binary fraction, before the cast to uint32_t.
Fraction(m) == (m * Word) \div MillisPerSecond

\* The fraction fits its 32 bits, so the cast in writeTimestamp drops nothing.
LEMMA FractionFits ==
    ASSUME NEW m \in 0..(MillisPerSecond - 1)
    PROVE  Fraction(m) \in UInt32 /\ Fraction(m) % Word = Fraction(m)
<1> DEFINE K == MillisPerSecond
           f == Fraction(m)
<1>1. K \in Nat \ {0} /\ Word \in Nat \ {0} /\ m \in Nat /\ m + 1 <= K
  BY NtpPacketAssumption
<1>2. m * Word \in Nat /\ (m + 1) * Word <= K * Word /\ (m + 1) * Word = m * Word + Word
  BY <1>1
<1>3. f \in Int /\ m * Word = K * f + ((m * Word) % K) /\ (m * Word) % K \in 0..(K - 1)
  BY <1>1, <1>2, DivMod DEF Fraction
<1> HIDE DEF f, K
<1>4. f >= 0
  <2>1. ~(f <= -1)
    BY <1>1, <1>2, <1>3, ProductBound
  <2> QED BY <1>3, <2>1
<1>5. f < Word
  <2>1. CASE f >= Word
    <3>1. K * f >= K * Word
      BY <1>1, <1>3, <2>1
    <3> QED BY <1>1, <1>2, <1>3, <3>1
  <2> QED BY <1>1, <1>3, <2>1
<1>6. f \in 0..(Word - 1)
  BY <1>1, <1>3, <1>4, <1>5
<1> QED BY <1>1, <1>6, RemainderSmall DEF f, UInt32

\* Decoding the fraction truncates at most one millisecond away
\* (writeTimestamp line 46, getTransmitMilliseconds).
LEMMA MillisRoundTrip ==
    ASSUME NEW m \in 0..(MillisPerSecond - 1)
    PROVE  (Fraction(m) * MillisPerSecond) \div Word \in {m - 1, m}
<1> DEFINE K == MillisPerSecond
           f == Fraction(m)
           g == (f * K) \div Word
<1>1. K \in Nat \ {0} /\ Word \in Nat \ {0} /\ m \in Nat /\ K <= Word
  BY NtpPacketAssumption
<1>2. m * Word \in Nat
  BY <1>1
<1>3. f \in Int /\ m * Word = K * f + ((m * Word) % K) /\ (m * Word) % K \in 0..(K - 1)
  BY <1>1, <1>2, DivMod DEF Fraction
<1>4. f * K \in Int
  BY <1>1, <1>3
<1>5. g \in Int /\ f * K = Word * g + ((f * K) % Word) /\ (f * K) % Word \in 0..(Word - 1)
  BY <1>1, <1>4, DivMod
<1> HIDE DEF f, K, g
<1>6. K * f = f * K /\ m * Word = Word * m
  BY <1>1, <1>3
<1>7. Word * m - Word * g = ((m * Word) % K) + ((f * K) % Word)
  <2> DEFINE a == (m * Word) % K
             b == (f * K) % Word
             mW == m * Word
             fK == f * K
             gW == Word * g
  <2>1. a \in Int /\ b \in Int /\ mW \in Int /\ fK \in Int /\ gW \in Int
    BY <1>1, <1>2, <1>3, <1>4, <1>5
  <2>2. mW = fK + a /\ fK = gW + b /\ Word * m = mW
    BY <1>3, <1>5, <1>6
  <2> HIDE DEF a, b, mW, fK, gW
  <2>3. mW - gW = a + b
    BY <2>1, <2>2
  <2> QED BY <2>2, <2>3 DEF a, b, mW, gW
<1>8. Word * (m - g) = ((m * Word) % K) + ((f * K) % Word)
  BY <1>1, <1>5, <1>7
<1>9. m - g \in Int /\ Word * (m - g) >= 0 /\ Word * (m - g) < Word + Word
  BY <1>1, <1>3, <1>5, <1>8
<1>10. ~(m - g <= -1)
  BY <1>1, <1>9, ProductBound
<1>11. ~(m - g >= 2)
  <2>1. m - g >= 2 => Word * ((m - g) - 1) >= Word
    BY <1>1, <1>9, ProductBound
  <2>2. Word * ((m - g) - 1) = Word * (m - g) - Word
    BY <1>1, <1>9
  <2> QED BY <1>1, <1>9, <2>1, <2>2
<1> QED BY <1>1, <1>5, <1>9, <1>10, <1>11 DEF g, K, f

\* What a client decodes from a response is the served time or one millisecond before
\* it, for every timestamp: the codec loses no second, in no NTP era.
THEOREM CodecRoundTrip ==
    ASSUME NEW t \in NtpTimestamp, NEW p, p.transmit = writeTimestamp(t)
    PROVE  /\ p.transmit \in WireTimestamp
           /\ getTransmitUnixTime(p) = t.unixTime
           /\ getTransmitMilliseconds(p) \in {t.millisPart - 1, t.millisPart}
<1>1. t.unixTime \in UInt32 /\ t.millisPart \in 0..(MillisPerSecond - 1)
  BY DEF NtpTimestamp
<1>2. /\ p.transmit.seconds = (t.unixTime + EpochOffset) % Word
      /\ p.transmit.fraction = Fraction(t.millisPart) % Word
  BY DEF writeTimestamp, Fraction
<1>3. Fraction(t.millisPart) \in UInt32 /\ Fraction(t.millisPart) % Word = Fraction(t.millisPart)
  BY <1>1, FractionFits
<1>4. t.unixTime + EpochOffset \in Int /\ Word \in Nat \ {0}
  BY <1>1, NtpPacketAssumption DEF UInt32
<1>5. (t.unixTime + EpochOffset) % Word \in UInt32
  BY <1>4, DivMod DEF UInt32
<1>6. p.transmit \in WireTimestamp
  BY <1>2, <1>3, <1>5 DEF WireTimestamp, writeTimestamp, Fraction
<1>7. getTransmitUnixTime(p) = t.unixTime
  BY <1>1, <1>2, SecondsRoundTrip DEF getTransmitUnixTime
<1>8. getTransmitMilliseconds(p) \in {t.millisPart - 1, t.millisPart}
  BY <1>1, <1>2, <1>3, MillisRoundTrip DEF getTransmitMilliseconds
<1> QED BY <1>6, <1>7, <1>8

-----------------------------------------------------------------------------
(***************************************************************************)
(* The inductive invariant: which reads of the two clocks the variables    *)
(* stem from.                                                              *)
(***************************************************************************)
Sources ==
    /\ startedAt <= rtc
    /\ pc = "readMillis" => second = startedAt \div MillisPerSecond
    /\ readAt # Unread =>
          /\ stamp.unixTime = readAt \div MillisPerSecond
          /\ packet.transmit = writeTimestamp(stamp)

IInv == TypeOK /\ Sources

\* The second a clock shows, as the register of a word wide enough for it.
LEMMA SecondInWord ==
    ASSUME NEW x \in 0..MaxRtc
    PROVE  x \div MillisPerSecond \in UInt32
<1> DEFINE K == MillisPerSecond
           p == x \div K
           q == MaxRtc \div K
<1>1. K \in Nat \ {0} /\ x \in Int /\ MaxRtc \in Int /\ x <= MaxRtc /\ x >= 0
  BY NtpPacketAssumption, ServedTimeAssumption
<1>2. p \in Int /\ x = K * p + (x % K) /\ x % K \in 0..(K - 1)
  BY <1>1, DivMod
<1>3. q \in Int /\ MaxRtc = K * q + (MaxRtc % K) /\ MaxRtc % K \in 0..(K - 1)
  BY <1>1, DivMod
<1>4. q < Word
  BY ServedTimeAssumption
<1> HIDE DEF K, p, q
<1>5. ~(p <= -1)
  BY <1>1, <1>2, ProductBound
<1>6. ~(p - q >= 1)
  <2>1. p - q >= 1 => K * (p - q) >= K
    BY <1>1, <1>2, <1>3, ProductBound
  <2>2. K * (p - q) = K * p - K * q
    BY <1>1, <1>2, <1>3
  <2>3. K * p \in Int /\ K * q \in Int
    BY <1>1, <1>2, <1>3
  <2> QED BY <1>1, <1>2, <1>3, <2>1, <2>2, <2>3
<1>7. p \in 0..(Word - 1)
  BY <1>2, <1>3, <1>4, <1>5, <1>6, NtpPacketAssumption
<1> QED BY <1>7 DEF p, K, UInt32

LEMMA InitIInv == Init => IInv
BY NtpPacketAssumption, ServedTimeAssumption
DEF Init, IInv, TypeOK, Sources, UInt32, NtpTimestamp, WireTimestamp, setClientRequest,
    ZeroTimestamp

LEMMA NextIInv == IInv /\ [Next]_vars => IInv'
<1> SUFFICES ASSUME IInv, [Next]_vars PROVE IInv'
  OBVIOUS
<1> USE DEF IInv, TypeOK, Sources
<1>1. CASE Tick
  <2>1. (millis + 1) % Word \in UInt32
    BY NtpPacketAssumption DEF UInt32
  <2>2. rtc' \in 0..MaxRtc /\ rtc' >= rtc /\ startedAt <= rtc'
    BY <1>1, ServedTimeAssumption DEF Tick
  <2> QED BY <1>1, <2>1, <2>2 DEF Tick
<1>2. CASE ReadSecond
  <2>1. rtc \div MillisPerSecond \in UInt32
    BY SecondInWord
  <2> QED BY <1>2, <2>1, ServedTimeAssumption DEF ReadSecond
<1>3. CASE ReadMillis
  <2>1. millis % MillisPerSecond \in 0..(MillisPerSecond - 1)
    BY NtpPacketAssumption DEF UInt32
  <2>2. stamp' \in NtpTimestamp /\ stamp'.unixTime = second
    BY <1>3, <2>1 DEF ReadMillis, NtpTimestamp
  <2>3. packet'.transmit = writeTimestamp(stamp')
    BY <1>3 DEF ReadMillis, setServerResponse
  <2>4. packet'.transmit \in WireTimestamp
    BY <2>2, <2>3, CodecRoundTrip
  <2> QED BY <1>3, <2>2, <2>3, <2>4 DEF ReadMillis
<1>4. CASE UNCHANGED vars
  BY <1>4 DEF vars
<1> QED BY <1>1, <1>2, <1>3, <1>4 DEF Next

LEMMA SpecIInv == Spec => []IInv
BY InitIInv, NextIInv, PTL DEF Spec

\* Types: a timestamp fits its fields whatever the two clocks show.
THEOREM TypeCorrect == Spec => []TypeOK
BY SpecIInv, PTL DEF IInv

\* A whole second and a part of one, against the clock the second was read from.
LEMMA WithinASecond ==
    ASSUME NEW x \in 0..MaxRtc, NEW m \in 0..(MillisPerSecond - 1)
    PROVE  /\ (x \div MillisPerSecond) * MillisPerSecond + m < x + MillisPerSecond
           /\ x < (x \div MillisPerSecond) * MillisPerSecond + m + MillisPerSecond
<1> DEFINE K == MillisPerSecond
           p == x \div K
<1>1. K \in Nat \ {0} /\ x \in Int
  BY NtpPacketAssumption, ServedTimeAssumption
<1>2. p \in Int /\ x = K * p + (x % K) /\ x % K \in 0..(K - 1)
  BY <1>1, DivMod
<1> HIDE DEF p, K
<1>3. p * K = K * p /\ K * p \in Int
  BY <1>1, <1>2
<1> QED BY <1>1, <1>2, <1>3 DEF p, K

LEMMA IInvWithinASecond == IInv => ServedWithinASecond
<1> SUFFICES ASSUME IInv, readAt # Unread
             PROVE  /\ Served(stamp) < readAt + MillisPerSecond
                    /\ readAt < Served(stamp) + MillisPerSecond
  BY DEF ServedWithinASecond
<1>1. readAt \in 0..MaxRtc /\ stamp.millisPart \in 0..(MillisPerSecond - 1)
  BY DEF IInv, TypeOK, NtpTimestamp
<1>2. Served(stamp) = (readAt \div MillisPerSecond) * MillisPerSecond + stamp.millisPart
  BY DEF IInv, Sources, Served
<1> QED BY <1>1, <1>2, WithinASecond

\* The served time is less than a second off, for every phase of millis() against the
\* DS3231 and every delay between the two reads.
THEOREM ServedTimeBound == Spec => []ServedWithinASecond
BY SpecIInv, IInvWithinASecond, PTL

LEMMA IInvDecoded == IInv => DecodedTimeIsServed
<1> SUFFICES ASSUME IInv, readAt # Unread
             PROVE  Decoded(packet) \in {Served(stamp) - 1, Served(stamp)}
  BY DEF DecodedTimeIsServed
<1>1. stamp \in NtpTimestamp /\ packet.transmit = writeTimestamp(stamp)
  BY DEF IInv, TypeOK, Sources
<1>2. /\ getTransmitUnixTime(packet) = stamp.unixTime
      /\ getTransmitMilliseconds(packet) \in {stamp.millisPart - 1, stamp.millisPart}
  BY <1>1, CodecRoundTrip
<1>3. stamp.unixTime * MillisPerSecond \in Int /\ stamp.millisPart \in Int
  BY <1>1, NtpPacketAssumption DEF NtpTimestamp, UInt32
<1> QED BY <1>2, <1>3 DEF Decoded, Served

\* What a client decodes is what was served, to the millisecond below.
THEOREM DecodedTime == Spec => []DecodedTimeIsServed
BY SpecIInv, IInvDecoded, PTL

\* Clocks a second apart show different seconds, which no milliseconds can undo.
LEMMA Ordered ==
    ASSUME NEW x \in 0..MaxRtc, NEW y \in 0..MaxRtc, y >= x + MillisPerSecond,
           NEW m \in 0..(MillisPerSecond - 1), NEW n \in 0..(MillisPerSecond - 1)
    PROVE  (x \div MillisPerSecond) * MillisPerSecond + m
             < (y \div MillisPerSecond) * MillisPerSecond + n
<1> DEFINE K == MillisPerSecond
           p == x \div K
           q == y \div K
<1>1. K \in Nat \ {0} /\ x \in Int /\ y \in Int
  BY NtpPacketAssumption, ServedTimeAssumption
<1>2. p \in Int /\ x = K * p + (x % K) /\ x % K \in 0..(K - 1)
  BY <1>1, DivMod
<1>3. q \in Int /\ y = K * q + (y % K) /\ y % K \in 0..(K - 1)
  BY <1>1, DivMod
<1> HIDE DEF p, q, K
<1>4. q - p >= 1
  <2>1. K * (q - p) = K * q - K * p /\ K * q \in Int /\ K * p \in Int
    BY <1>1, <1>2, <1>3
  <2>2. K * (q - p) > 0
    BY <1>1, <1>2, <1>3, <2>1 DEF K
  <2>3. CASE q - p <= -1
    BY <1>1, <1>2, <1>3, <2>2, <2>3, ProductBound
  <2>4. CASE q - p = 0
    BY <1>1, <2>2, <2>4
  <2> QED BY <1>2, <1>3, <2>3, <2>4
<1>5. K * (q - p) >= K
  BY <1>1, <1>2, <1>3, <1>4, ProductBound
<1>6. q * K - p * K >= K /\ q * K \in Int /\ p * K \in Int
  BY <1>1, <1>2, <1>3, <1>5
<1> QED BY <1>1, <1>6 DEF p, q, K

LEMMA StepOrdered ==
    IInv /\ [Next]_vars =>
      [(readAt # Unread /\ readAt' # readAt /\ readAt' >= readAt + MillisPerSecond)
          => Served(stamp) < Served(stamp')]_vars
<1> SUFFICES ASSUME IInv, Next, readAt # Unread, readAt' # readAt,
                    readAt' >= readAt + MillisPerSecond
             PROVE  Served(stamp) < Served(stamp')
  OBVIOUS
<1>1. ReadMillis
  BY DEF Next, Tick, ReadSecond
<1>2. /\ readAt \in 0..MaxRtc /\ readAt' \in 0..MaxRtc
      /\ stamp.millisPart \in 0..(MillisPerSecond - 1)
      /\ stamp'.millisPart \in 0..(MillisPerSecond - 1)
      /\ stamp.unixTime = readAt \div MillisPerSecond
      /\ stamp'.unixTime = readAt' \div MillisPerSecond
  BY <1>1, NtpPacketAssumption
  DEF IInv, TypeOK, Sources, NtpTimestamp, UInt32, ReadMillis
<1> QED BY <1>2, Ordered DEF Served

\* Served times are in order once their reads are a second apart.
THEOREM OrderedTimes == Spec => OrderedWhenASecondApart
BY InitIInv, NextIInv, StepOrdered, PTL DEF Spec, OrderedWhenASecondApart
=============================================================================
