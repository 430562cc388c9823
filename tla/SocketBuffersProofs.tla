------------------------ MODULE SocketBuffersProofs -------------------------
(***************************************************************************)
(* Theorems about SocketBuffers, for every size of the rings, the pointers *)
(* and the batches, every content of datagrams and every sequence of       *)
(* calls.                                                                  *)
(***************************************************************************)
EXTENDS SocketBuffers, ModularArithmetic, SequenceTheorems

LEMMA SizeTypes ==
    /\ NumSockets \in Nat \ {0} /\ SSize \in Nat \ {0} /\ Word \in Nat \ {0}
    /\ Word % SSize = 0 /\ SSize < Word
    /\ Socket \in Sockets
BY ChipMemoryAssumption DEF Sockets

LEMMA ReaderTypes ==
    /\ Header \in Nat \ {0} /\ Header <= SSize /\ Batch \in Nat \ {0}
    /\ Lengths \subseteq Nat /\ ReadSizes \subseteq Nat \ {0}
BY SocketReceiveAssumption, SizeTypes

LEMMA SmallerIs ==
    ASSUME NEW a \in Int, NEW b \in Int
    PROVE  /\ smaller(a, b) \in Int /\ smaller(a, b) <= a /\ smaller(a, b) <= b
           /\ a <= b => smaller(a, b) = a
           /\ b <= a => smaller(a, b) = b
BY DEF smaller

-----------------------------------------------------------------------------
(***************************************************************************)
(* The addresses of the driver.                                            *)
(***************************************************************************)
\* Where a transfer that starts in a ring goes: the W5500 wraps it, its predecessors must not
\* be asked to.
LEMMA AccessIs ==
    ASSUME NEW s \in Sockets, NEW start \in Offset, NEW i \in Nat,
           hasOffsetAddressMapping \/ start + i < SSize
    PROVE  access(base(s) + start, i) = <<s, (start + i) % SSize>>
<1> DEFINE S == SSize
<1>1. S \in Nat \ {0} /\ NumSockets \in Nat \ {0} /\ s \in 0..(NumSockets - 1)
      /\ start \in 0..(S - 1)
  BY SizeTypes DEF Sockets, Offset
<1>2. base(s) = S * s
  BY <1>1 DEF base
<1> HIDE DEF S
<1>3. s % NumSockets = s
  BY <1>1, RemainderSmall
<1>4. (S * s + start) \div S = s
  BY <1>1, QuotientUnique
<1>5. (S * s + start + i) % S = (start + i) % S
  <2> DEFINE z == start + i
             q == z \div S
             r == z % S
  <2>0. z \in Int /\ S * s + start + i = S * s + z
    BY <1>1
  <2> HIDE DEF z
  <2>1. z = S * q + r /\ q \in Int /\ r \in 0..(S - 1)
    BY <1>1, <2>0, DivMod
  <2> HIDE DEF q, r
  <2>2. S * s + start + i = S * (s + q) + r /\ s + q \in Int
    BY <1>1, <2>0, <2>1
  <2>3. (S * (s + q) + r) % S = r
    BY <1>1, <2>1, <2>2, QuotientUnique
  <2> QED BY <2>2, <2>3 DEF r, z
<1>6. CASE hasOffsetAddressMapping
  <2>1. access(base(s) + start, i)
          = <<((S * s + start) \div S) % NumSockets, (S * s + start + i) % S>>
    BY <1>2, <1>6 DEF access, controlled, hasOffsetAddressMapping, S
  <2> QED BY <1>3, <1>4, <1>5, <2>1 DEF S
<1>7. CASE ~hasOffsetAddressMapping
  <2>1. start + i \in 0..(S - 1)
    BY <1>1, <1>7 DEF S
  <2>2. (S * s + start + i) \div S = s
    <3>1. (S * s + (start + i)) \div S = s
      BY <1>1, <2>1, QuotientUnique
    <3>2. S * s + start + i = S * s + (start + i)
      BY <1>1
    <3> QED BY <3>1, <3>2
  <2>3. access(base(s) + start, i)
          = <<((S * s + start + i) \div S) % NumSockets, (S * s + start + i) % S>>
    BY <1>2, <1>7 DEF access, linear, hasOffsetAddressMapping, S
  <2> QED BY <1>3, <1>5, <2>2, <2>3 DEF S
<1> QED BY <1>6, <1>7

\* Byte i of len bytes at ptr is in the ring of its own socket, i bytes after ptr around the
\* ring, on every chip (read_data() and write_data() of socket.cpp, w5100.h).
THEOREM PlaceInRing ==
    ASSUME NEW s \in Sockets, NEW ptr \in Nat, NEW len \in Nat, len <= SSize,
           NEW i \in 0..(len - 1)
    PROVE  place(s, ptr, len, i) = <<s, (ptr + i) % SSize>>
<1> DEFINE start == ptr % SSize
           size == SSize - start
<1>1. SSize \in Nat \ {0}
  BY SizeTypes
<1>2. start \in Offset /\ start \in 0..(SSize - 1)
  BY <1>1, DivMod DEF Offset
<1>3. (start + i) % SSize = (ptr + i) % SSize
  <2>1. ptr \in Int /\ i \in Int
    OBVIOUS
  <2> QED BY <1>1, <2>1, RemainderOfSum
<1> HIDE DEF start
<1>4. CASE hasOffsetAddressMapping \/ start + len <= SSize \/ i < size
  <2>1. place(s, ptr, len, i) = access(base(s) + start, i)
    BY <1>4 DEF place, start
  <2>2. hasOffsetAddressMapping \/ start + i < SSize
    BY <1>1, <1>2, <1>4
  <2>3. access(base(s) + start, i) = <<s, (start + i) % SSize>>
    BY <1>2, <2>2, AccessIs
  <2> QED BY <1>3, <2>1, <2>3
<1>5. CASE ~(hasOffsetAddressMapping \/ start + len <= SSize \/ i < size)
  <2>1. place(s, ptr, len, i) = access(base(s), i - size)
    BY <1>5 DEF place, start
  <2>2. i - size \in 0..(SSize - 1) /\ 0 \in Offset /\ base(s) = base(s) + 0
    BY <1>1, <1>2, <1>5 DEF Offset, base, Sockets
  <2>3. access(base(s) + 0, i - size) = <<s, (0 + (i - size)) % SSize>>
    BY <1>1, <2>2, AccessIs
  <2>4. 0 + (i - size) = (start + i) - SSize /\ start + i \in Int
    BY <1>1, <1>2
  <2>5. ((start + i) - SSize) % SSize = (start + i) % SSize
    BY <1>1, <2>4, RemainderOfTurn
  <2> QED BY <1>3, <2>1, <2>2, <2>3, <2>4, <2>5
<1> QED BY <1>4, <1>5

-----------------------------------------------------------------------------
(***************************************************************************)
(* Rings.                                                                  *)
(***************************************************************************)
\* The offsets of a pointer, and of one that is a pointer further on.
LEMMA OffsetIs ==
    ASSUME NEW ptr \in Int
    PROVE  ptr % SSize \in Offset
BY SizeTypes, DivMod DEF Offset

LEMMA OffsetFurther ==
    ASSUME NEW ptr \in Int, NEW n \in Int
    PROVE  /\ ((ptr % Word) + n) % SSize = (ptr + n) % SSize
           /\ ((ptr % SSize) + n) % SSize = (ptr + n) % SSize
<1>1. ((ptr % Word) + n) % SSize = (ptr + n) % SSize
  BY SizeTypes, RemainderOfMultiple
<1>2. ((ptr % SSize) + n) % SSize = (ptr + n) % SSize
  BY SizeTypes, RemainderOfSum
<1> QED BY <1>1, <1>2

\* How far an offset is behind a pointer tells it from every other.
LEMMA DistanceOf ==
    ASSUME NEW ptr \in Int, NEW n \in 0..(SSize - 1)
    PROVE  (((ptr + n) % SSize) - ptr) % SSize = n
<1>1. ptr + n \in Int /\ -ptr \in Int /\ n \in Int
  BY SizeTypes
<1>2. (((ptr + n) % SSize) + (-ptr)) % SSize = ((ptr + n) + (-ptr)) % SSize
  BY <1>1, OffsetFurther
<1>3. (ptr + n) % SSize \in Int
  BY <1>1, SizeTypes
<1>4. (ptr + n) + (-ptr) = n
        /\ ((ptr + n) % SSize) + (-ptr) = ((ptr + n) % SSize) - ptr
  BY <1>1, <1>3
<1>5. n % SSize = n
  BY SizeTypes, RemainderSmall
<1> QED BY <1>2, <1>4, <1>5

LEMMA AtDistance ==
    ASSUME NEW ptr \in Int, NEW o \in Offset
    PROVE  /\ (o - ptr) % SSize \in 0..(SSize - 1)
           /\ (ptr + ((o - ptr) % SSize)) % SSize = o
<1>1. o \in Int /\ o \in 0..(SSize - 1) /\ o - ptr \in Int
  BY SizeTypes DEF Offset
<1>2. (o - ptr) % SSize \in 0..(SSize - 1)
  BY <1>1, SizeTypes, DivMod
<1>3. (((o - ptr) % SSize) + ptr) % SSize = ((o - ptr) + ptr) % SSize
  BY <1>1, OffsetFurther
<1>4. ((o - ptr) % SSize) + ptr = ptr + ((o - ptr) % SSize) /\ (o - ptr) + ptr = o
  BY <1>1, <1>2
<1>5. o % SSize = o
  BY <1>1, SizeTypes, RemainderSmall
<1> QED BY <1>2, <1>3, <1>4, <1>5

\* read_data() gets the bytes that follow ptr in the ring.
LEMMA ReadAt ==
    ASSUME NEW ptr \in Nat, NEW len \in Nat, len <= SSize, NEW i \in 1..len
    PROVE  place(Socket, ptr, len, i - 1) = <<Socket, (ptr + i - 1) % SSize>>
<1>1. i - 1 \in 0..(len - 1) /\ ptr + (i - 1) = ptr + i - 1
  OBVIOUS
<1>2. place(Socket, ptr, len, i - 1) = <<Socket, (ptr + (i - 1)) % SSize>>
  BY <1>1, SizeTypes, PlaceInRing
<1> QED BY <1>1, <1>2

\* write_data() changes the bytes that follow ptr in the ring of the socket, and no other.
LEMMA WriteIs ==
    ASSUME NEW memory, NEW ptr \in Nat, NEW bytes \in Seq(Bytes), Len(bytes) <= SSize,
           NEW t \in Sockets, NEW o \in Offset
    PROVE  write_data(memory, Socket, ptr, bytes)[t][o]
             = IF t = Socket /\ (o - ptr) % SSize < Len(bytes)
               THEN bytes[((o - ptr) % SSize) + 1] ELSE memory[t][o]
<1> DEFINE len == Len(bytes)
           d == (o - ptr) % SSize
           hit == {i \in 1..len : place(Socket, ptr, len, i - 1) = <<t, o>>}
<1>1. /\ len \in Nat /\ len <= SSize /\ SSize \in Nat \ {0}
      /\ d \in 0..(SSize - 1) /\ (ptr + d) % SSize = o /\ ptr \in Int
  BY SizeTypes, AtDistance
<1>2. write_data(memory, Socket, ptr, bytes)[t][o]
        = IF hit = {} THEN memory[t][o] ELSE bytes[CHOOSE i \in hit : TRUE]
  BY DEF write_data
<1>3. ASSUME NEW i \in 1..len
      PROVE  i \in hit <=> t = Socket /\ i = d + 1
  <2>1. i - 1 \in 0..(len - 1) /\ i - 1 \in 0..(SSize - 1)
    BY <1>1
  <2>2. place(Socket, ptr, len, i - 1) = <<Socket, (ptr + (i - 1)) % SSize>>
    <3> HIDE DEF len, hit, d
    <3> QED BY <1>1, <2>1, SizeTypes, PlaceInRing
  <2>3. (((ptr + (i - 1)) % SSize) - ptr) % SSize = i - 1
    BY <1>1, <2>1, DistanceOf
  <2>4. (ptr + (i - 1)) % SSize = o <=> i = d + 1
    <3>1. (ptr + (i - 1)) % SSize = o => d = i - 1
      BY <2>3
    <3>2. i = d + 1 => i - 1 = d
      BY <1>1
    <3> HIDE DEF d
    <3>3. d = i - 1 => i = d + 1
      BY <1>1
    <3> QED BY <1>1, <3>1, <3>2, <3>3
  <2> QED BY <2>2, <2>4
<1> HIDE DEF hit, d, len
<1>4. hit \subseteq 1..len
  BY DEF hit
<1>5. CASE t = Socket /\ d < len
  <2>1. d + 1 \in 1..len
    BY <1>1, <1>5
  <2>2. hit = {d + 1}
    BY <1>3, <1>4, <1>5, <2>1
  <2> QED BY <1>2, <1>5, <2>2 DEF d, len
<1>6. CASE ~(t = Socket /\ d < len)
  <2>1. ASSUME NEW i \in 1..len PROVE ~(t = Socket /\ i = d + 1)
    BY <1>1, <1>6
  <2>2. hit = {}
    BY <1>3, <1>4, <2>1
  <2> QED BY <1>2, <1>6, <2>2 DEF d, len
<1> QED BY <1>5, <1>6

-----------------------------------------------------------------------------
(***************************************************************************)
(* The receive ring.                                                       *)
(***************************************************************************)
\* Byte number i from the driver's read pointer on.
Cell(i) == rx[Socket][(RX_RD + i - 1) % SSize]

\* The chip never holds more than a ring, and the pointers agree.
RingOK ==
    /\ DOMAIN rx = Sockets
    /\ rxRd \in Pointer /\ rxWr \in Pointer /\ RX_RD \in Pointer
    /\ RX_RSR \in 0..SSize /\ RX_inc \in 0..SSize
    /\ getSnRX_RSR <= SSize
    /\ PointersAgree

\* Both pointers measure what waits.
LEMMA RingCounts ==
    ASSUME RingOK
    PROVE  /\ getSnRX_RSR \in 0..SSize
           /\ fresh = getSnRX_RSR - RX_inc /\ fresh \in 0..SSize /\ RX_RSR <= fresh
           /\ (rxWr - RX_RD) % Word = fresh
           /\ RX_RD = (rxWr - fresh) % Word
<1> DEFINE n == getSnRX_RSR
<1>0. /\ Word \in Nat \ {0} /\ SSize \in Nat \ {0} /\ SSize < Word
      /\ rxRd \in 0..(Word - 1) /\ rxWr \in 0..(Word - 1) /\ RX_RD \in 0..(Word - 1)
      /\ RX_inc \in 0..SSize /\ RX_RSR \in 0..SSize
  BY SizeTypes DEF RingOK, Pointer
<1>1. n \in 0..SSize /\ RX_RSR + RX_inc <= n /\ RX_RD = (rxRd + RX_inc) % Word
  <2>1. n \in 0..(Word - 1)
    BY <1>0, RemainderOfDistance DEF getSnRX_RSR
  <2> QED BY <1>0, <2>1 DEF RingOK, PointersAgree
<1>2. n = (rxWr - rxRd) % Word
  BY DEF getSnRX_RSR
<1>3. fresh = (n - RX_inc) % Word
  BY DEF fresh
<1> HIDE DEF n
<1>4. n - RX_inc \in 0..(Word - 1)
  BY <1>0, <1>1
<1>5. fresh = n - RX_inc
  BY <1>0, <1>3, <1>4, RemainderSmall
<1>6. (rxWr - RX_RD) % Word = n - RX_inc
  <2>1. (rxWr - ((rxRd + RX_inc) % Word)) % Word = (rxWr - (rxRd + RX_inc)) % Word
    <3>1. rxRd + RX_inc \in Int /\ rxWr \in Int
      BY <1>0
    <3> QED BY <1>0, <3>1, RemainderOfDifference
  <2>2. (((rxWr - rxRd) % Word) + (-RX_inc)) % Word = ((rxWr - rxRd) + (-RX_inc)) % Word
    <3>1. rxWr - rxRd \in Int /\ -RX_inc \in Int
      BY <1>0
    <3> QED BY <1>0, <3>1, RemainderOfSum
  <2>3. rxWr - (rxRd + RX_inc) = (rxWr - rxRd) + (-RX_inc) /\ n + (-RX_inc) = n - RX_inc
    BY <1>0, <1>1
  <2>4. (n + (-RX_inc)) % Word = n - RX_inc
    BY <1>0, <1>4, <2>3, RemainderSmall
  <2> QED BY <1>1, <1>2, <2>1, <2>2, <2>3, <2>4
<1>7. RX_RD = (rxWr - (n - RX_inc)) % Word
  <2>1. (rxWr - ((rxWr - RX_RD) % Word)) % Word = RX_RD
    BY <1>0, RemainderOfDistance
  <2> QED BY <1>6, <2>1
<1> QED BY <1>0, <1>1, <1>5, <1>6, <1>7 DEF n

\* What the chip holds from the driver's read pointer on, byte by byte.
LEMMA AheadIs ==
    ASSUME RingOK
    PROVE  ahead = [i \in 1..fresh |-> Cell(i)]
BY RingCounts DEF ahead, between, Cell

\* The bytes of a read() of no more than is known to wait.
LEMMA TakenIs ==
    ASSUME RingOK, NEW known \in Nat, NEW len \in Nat, len <= known, known <= fresh
    PROVE  /\ taken(known, len) = [i \in 1..len |-> Cell(i)]
           /\ Len(taken(known, len)) = len
<1>1. RX_RD \in Nat /\ fresh \in 0..SSize /\ SSize \in Nat
  BY RingCounts, SizeTypes DEF RingOK, Pointer
<1>2. len <= SSize
  BY <1>1
<1>3. smaller(available(known, len), len) = len
  <2>1. available(known, len) = known
    BY DEF available
  <2> QED BY <2>1, SmallerIs
<1>4. taken(known, len) = [i \in 1..len |-> Cell(i)]
  <2>1. taken(known, len) = read_data(rx, Socket, RX_RD, len)
    BY <1>3 DEF taken
  <2>2. read_data(rx, Socket, RX_RD, len)
          = [i \in 1..len |-> rx[Socket][(RX_RD + i - 1) % SSize]]
    <3>1. ASSUME NEW i \in 1..len
          PROVE  place(Socket, RX_RD, len, i - 1) = <<Socket, (RX_RD + i - 1) % SSize>>
      BY <1>1, <1>2, ReadAt
    <3> QED BY <3>1 DEF read_data
  <2> QED BY <2>1, <2>2 DEF Cell
<1>5. Len([i \in 1..len |-> Cell(i)]) = len
  OBVIOUS
<1> QED BY <1>4, <1>5

\* Opening the socket empties the ring.
LEMMA BeginRing ==
    ASSUME RingOK, socketBegin
    PROVE  RingOK' /\ fresh' = 0 /\ RX_RSR' = 0 /\ arrived' = << >>
<1>1. /\ DOMAIN rx' = Sockets /\ rxRd' = 0 /\ rxWr' = 0 /\ RX_RD' = 0 /\ RX_RSR' = 0
      /\ RX_inc' = 0 /\ arrived' = << >>
  BY DEF socketBegin, RingOK
<1>2. Word \in Nat \ {0} /\ SSize \in Nat \ {0} /\ Batch \in Nat \ {0}
  BY SizeTypes, ReaderTypes
<1>3. (0 - 0) % Word = 0 /\ (0 + 0) % Word = 0
  BY <1>2, RemainderSmall
<1>4. getSnRX_RSR' = 0
  BY <1>1, <1>3 DEF getSnRX_RSR
<1>5. fresh' = 0
  BY <1>1, <1>3, <1>4 DEF fresh
<1>6. PointersAgree'
  BY <1>1, <1>2, <1>3, <1>4 DEF PointersAgree
<1> QED BY <1>1, <1>2, <1>4, <1>5, <1>6 DEF RingOK, Pointer

\* What arrives is added at the end, and overwrites nothing that waits.
LEMMA StoreRing ==
    ASSUME RingOK, NEW S, NEW bytes \in Seq(S), store(bytes)
    PROVE  /\ RingOK' /\ fresh' = fresh + Len(bytes) /\ RX_RSR' = RX_RSR
           /\ \A n \in 1..fresh : Cell(n)' = Cell(n)
           /\ \A n \in (fresh + 1)..(fresh + Len(bytes)) : Cell(n)' = bytes[n - fresh]
<1> DEFINE more == Len(bytes)
           rsr == getSnRX_RSR
           old == fresh
<1>1. /\ more \in Nat /\ Word \in Nat \ {0} /\ SSize \in Nat \ {0} /\ SSize < Word
      /\ rxRd \in 0..(Word - 1) /\ rxWr \in 0..(Word - 1) /\ RX_RD \in 0..(Word - 1)
      /\ RX_inc \in 0..SSize
  BY SizeTypes DEF RingOK, Pointer
<1>2. /\ rsr \in 0..SSize /\ old = rsr - RX_inc /\ old \in 0..SSize
      /\ RX_RD = (rxWr - old) % Word /\ rsr + more <= SSize
  BY RingCounts DEF store
<1>3. /\ rx' = [rx EXCEPT ![Socket] = [o \in Offset |->
                IF ((o - rxWr) % SSize) + 1 <= more THEN bytes[((o - rxWr) % SSize) + 1]
                ELSE rx[Socket][o]]]
      /\ rxWr' = (rxWr + more) % Word
      /\ rxRd' = rxRd /\ RX_RSR' = RX_RSR /\ RX_RD' = RX_RD /\ RX_inc' = RX_inc
  BY DEF store, driver
<1>4. rsr = (rxWr - rxRd) % Word /\ rsr' = (rxWr' - rxRd') % Word
      /\ old' = (rsr' - RX_inc') % Word
  BY DEF getSnRX_RSR, fresh
<1>5. ASSUME NEW o \in Offset
      PROVE  rx'[Socket][o] = IF ((o - rxWr) % SSize) + 1 <= more
                              THEN bytes[((o - rxWr) % SSize) + 1] ELSE rx[Socket][o]
  BY <1>3, SizeTypes DEF RingOK
<1> HIDE DEF more, rsr, old
<1>6. rsr' = rsr + more
  <2>1. (((rxWr + more) % Word) + (-rxRd)) % Word = ((rxWr + more) + (-rxRd)) % Word
    <3>1. rxWr + more \in Int /\ -rxRd \in Int
      BY <1>1
    <3> QED BY <1>1, <3>1, RemainderOfSum
  <2>2. (((rxWr - rxRd) % Word) + more) % Word = ((rxWr - rxRd) + more) % Word
    <3>1. rxWr - rxRd \in Int /\ more \in Int
      BY <1>1
    <3> QED BY <1>1, <3>1, RemainderOfSum
  <2>3. (rxWr + more) + (-rxRd) = (rxWr - rxRd) + more
    BY <1>1
  <2>4. (rsr + more) % Word = rsr + more
    <3>1. rsr + more \in 0..(Word - 1)
      BY <1>1, <1>2
    <3> QED BY <1>1, <3>1, RemainderSmall
  <2>5. ((rxWr + more) % Word) + (-rxRd) = ((rxWr + more) % Word) - rxRd
    <3>1. (rxWr + more) % Word \in Int
      BY <1>1, DivMod
    <3> QED BY <1>1, <3>1
  <2>6. (((rxWr + more) % Word) - rxRd) % Word = rsr + more
    BY <1>4, <2>1, <2>2, <2>3, <2>4, <2>5
  <2> QED BY <1>3, <1>4, <2>6
<1>7. old' = old + more
  <2>1. (rsr + more) - RX_inc \in 0..(Word - 1)
    BY <1>1, <1>2
  <2>2. ((rsr + more) - RX_inc) % Word = (rsr + more) - RX_inc
    BY <1>1, <2>1, RemainderSmall
  <2>3. (rsr + more) - RX_inc = old + more
    BY <1>1, <1>2
  <2>4. old' = ((rsr + more) - RX_inc) % Word
    BY <1>3, <1>4, <1>6
  <2> QED BY <2>2, <2>3, <2>4
<1>8. RingOK'
  <2>1. rxWr' \in Pointer
    BY <1>1, <1>3, DivMod DEF Pointer
  <2>2. PointersAgree'
    BY <1>1, <1>2, <1>3, <1>6 DEF RingOK, PointersAgree, rsr
  <2>3. DOMAIN rx' = Sockets
    BY <1>3 DEF RingOK
  <2> QED BY <1>1, <1>2, <1>3, <1>6, <2>1, <2>2, <2>3 DEF RingOK, rsr
<1>9. ASSUME NEW n \in 1..(old + more)
      PROVE  /\ n \in 1..old => Cell(n)' = Cell(n)
             /\ n \in (old + 1)..(old + more) => Cell(n)' = bytes[n - old]
  <2> DEFINE o == (RX_RD + n - 1) % SSize
             k == n - 1 - old
             d == (o - rxWr) % SSize
  <2>1. n \in Int /\ k \in Int /\ old \in Int /\ old + more <= SSize
    BY <1>1, <1>2
  <2>2. o \in Offset
    <3>1. RX_RD + n - 1 \in Int
      BY <1>1
    <3> QED BY <3>1, OffsetIs
  <2>3. o = (rxWr + k) % SSize
    <3>1. (((rxWr - old) % Word) + (n - 1)) % SSize = ((rxWr - old) + (n - 1)) % SSize
      <4>1. rxWr - old \in Int /\ n - 1 \in Int
        BY <1>1, <2>1
      <4> QED BY <4>1, OffsetFurther
    <3>2. (rxWr - old) + (n - 1) = rxWr + k /\ RX_RD + n - 1 = RX_RD + (n - 1)
      BY <1>1, <2>1
    <3> QED BY <1>2, <3>1, <3>2
  <2>4. Cell(n)' = rx'[Socket][o] /\ Cell(n) = rx[Socket][o]
    BY <1>3 DEF Cell
  <2> HIDE DEF o
  <2>5. CASE n \in 1..old
    <3>1. k + SSize \in 0..(SSize - 1) /\ rxWr + (k + SSize) = (rxWr + k) + SSize
      BY <1>1, <1>2, <2>5
    <3>2. ((rxWr + k) + SSize) % SSize = (rxWr + k) % SSize
      <4>1. rxWr + k \in Int
        BY <1>1, <2>1
      <4> QED BY <1>1, <4>1, RemainderOfTurn
    <3>3. o = (rxWr + (k + SSize)) % SSize
      BY <2>3, <3>1, <3>2
    <3> HIDE DEF k
    <3>4. d = k + SSize
      <4>1. rxWr \in Int
        BY <1>1
      <4> QED BY <3>1, <3>3, <4>1, DistanceOf
    <3>5. ~(d + 1 <= more)
      <4> HIDE DEF d
      <4>1. k + SSize + 1 > more
        BY <1>1, <1>2, <2>5 DEF k
      <4> QED BY <1>1, <2>1, <3>4, <4>1
    <3> QED BY <1>2, <1>5, <2>2, <2>4, <2>5, <3>5
  <2>6. CASE n \in (old + 1)..(old + more)
    <3>1. k \in 0..(SSize - 1) /\ k + 1 <= more /\ k + 1 = n - old
      BY <1>1, <1>2, <2>1, <2>6
    <3>2. d = k
      <4> HIDE DEF k
      <4>1. rxWr \in Int
        BY <1>1
      <4> QED BY <2>3, <3>1, <4>1, DistanceOf
    <3> HIDE DEF d, k
    <3>3. d + 1 <= more /\ d + 1 = n - old
      BY <3>1, <3>2
    <3> QED BY <1>1, <1>2, <1>5, <2>2, <2>4, <2>6, <3>3 DEF d
  <2> QED BY <2>1, <2>5, <2>6
<1>10. ASSUME NEW n \in 1..old PROVE n \in 1..(old + more)
  BY <1>1, <1>2
<1>11. ASSUME NEW n \in (old + 1)..(old + more) PROVE n \in 1..(old + more)
  BY <1>1, <1>2
<1>12. RX_RSR' = RX_RSR
  BY <1>3
<1> QED BY <1>7, <1>8, <1>9, <1>10, <1>11, <1>12 DEF more, old

\* A read takes bytes from the front.  What the chip is told of frees those and no other.
LEMMA RecvRing ==
    ASSUME RingOK, NEW known \in Nat, NEW len \in Nat \ {0}, len <= known, known <= fresh,
           socketRecv(known, len)
    PROVE  /\ RingOK' /\ fresh' = fresh - len /\ RX_RSR' = known - len
           /\ \A n \in 1..(fresh - len) : Cell(n)' = Cell(n + len)
<1> DEFINE rsr == getSnRX_RSR
           old == fresh
           ptr == (RX_RD + len) % Word
           inc == RX_inc + len
           told == tell(inc, known - len)
<1>1. /\ len \in Nat /\ Word \in Nat \ {0} /\ SSize \in Nat \ {0} /\ SSize < Word
      /\ rxRd \in 0..(Word - 1) /\ rxWr \in 0..(Word - 1) /\ RX_RD \in 0..(Word - 1)
      /\ RX_inc \in 0..SSize /\ Batch \in Nat \ {0}
  BY SizeTypes, ReaderTypes DEF RingOK, Pointer
<1>2. /\ rsr \in 0..SSize /\ old = rsr - RX_inc /\ old \in 0..SSize
      /\ (rxWr - RX_RD) % Word = old
  BY RingCounts
<1>3. Len(taken(known, len)) = len /\ available(known, len) = known
  BY TakenIs DEF available
<1>4. /\ RX_RSR' = known - len /\ RX_RD' = ptr /\ rxWr' = rxWr
      /\ RX_inc' = IF told THEN 0 ELSE inc
      /\ rxRd' = IF told THEN ptr ELSE rxRd
      /\ rx' = IF told THEN release(rx, Socket, rxRd, ptr) ELSE rx
  BY <1>3 DEF socketRecv
<1>5. rsr = (rxWr - rxRd) % Word /\ rsr' = (rxWr' - rxRd') % Word
      /\ old' = (rsr' - RX_inc') % Word
  BY DEF getSnRX_RSR, fresh
<1>6. DOMAIN rx = Sockets /\ RX_RD = (rxRd + RX_inc) % Word
  BY DEF RingOK, PointersAgree
<1>7. told <=> inc >= Batch \/ known - len = 0
  BY DEF tell
<1>8. known \in 0..old /\ len \in 1..old
  BY <1>2
<1> HIDE DEF rsr, old, told
<1>9. /\ inc \in 1..SSize /\ inc \in 0..(Word - 1) /\ old - len \in 0..SSize
      /\ old - len \in 0..(Word - 1) /\ old + RX_inc = rsr /\ rsr - inc = old - len
      /\ RX_RD \in Int /\ rxRd \in Int /\ rxWr \in Int
  BY <1>1, <1>2, <1>8
<1>10. ptr = (rxRd + inc) % Word /\ ptr \in Pointer
  <2>1. (((rxRd + RX_inc) % Word) + len) % Word = ((rxRd + RX_inc) + len) % Word
    <3>1. rxRd + RX_inc \in Int /\ len \in Int
      BY <1>1
    <3> QED BY <1>1, <3>1, RemainderOfSum
  <2>2. (rxRd + RX_inc) + len = rxRd + inc
    BY <1>1
  <2>3. ptr = (rxRd + inc) % Word
    BY <1>6, <2>1, <2>2
  <2>4. rxRd + inc \in Int
    BY <1>1
  <2> QED BY <1>1, <2>3, <2>4, DivMod DEF Pointer
<1>11. ASSUME NEW n \in 1..(old - len)
       PROVE  Cell(n)' = Cell(n + len) /\ n + len \in Int
  <2> DEFINE o == (ptr + n - 1) % SSize
  <2>1. n \in Int /\ (ptr + n) - 1 = ptr + (n - 1) /\ n - 1 \in Int /\ RX_RD + len \in Int
        /\ (n + len) - 1 \in Int
    BY <1>8, <1>9, <1>10 DEF Pointer
  <2>2. o = (RX_RD + len + (n - 1)) % SSize
    BY <2>1, OffsetFurther
  <2>3. Cell(n)' = rx'[Socket][o]
    BY <1>4 DEF Cell
  <2>4. Cell(n + len) = rx[Socket][o]
    <3>1. RX_RD + (n + len) - 1 = RX_RD + len + (n - 1)
      BY <1>8, <1>9, <2>1
    <3> QED BY <2>2, <3>1 DEF Cell
  <2>5. o \in Offset
    BY <2>1, <2>2, <1>9, OffsetIs
  <2>6. CASE ~told
    BY <1>4, <2>3, <2>4, <2>6
  <2>7. CASE told
    <3>1. o = (rxRd + (inc + n - 1)) % SSize
      <4>1. o = (ptr + (n - 1)) % SSize
        BY <2>1
      <4>2. (((rxRd + inc) % Word) + (n - 1)) % SSize = ((rxRd + inc) + (n - 1)) % SSize
        <5>1. rxRd + inc \in Int
          BY <1>9
        <5> QED BY <2>1, <5>1, OffsetFurther
      <4>3. (rxRd + inc) + (n - 1) = rxRd + (inc + n - 1)
        BY <1>9, <2>1
      <4> QED BY <1>10, <4>1, <4>2, <4>3
    <3>2. inc + n - 1 \in 0..(SSize - 1) /\ inc + n - 1 >= inc
      BY <1>1, <1>2, <1>8, <1>9
    <3>3. (o - rxRd) % SSize = inc + n - 1
      <4> DEFINE k == inc + n - 1
      <4>1. k \in 0..(SSize - 1) /\ o = (rxRd + k) % SSize
        BY <3>1, <3>2
      <4> HIDE DEF k
      <4>2. (o - rxRd) % SSize = k
        BY <1>9, <4>1, DistanceOf
      <4> QED BY <4>2 DEF k
    <3>4. (ptr - rxRd) % Word = inc
      <4>1. (((rxRd + inc) % Word) + (-rxRd)) % Word = ((rxRd + inc) + (-rxRd)) % Word
        <5>1. rxRd + inc \in Int /\ -rxRd \in Int
          BY <1>9
        <5> QED BY <1>1, <5>1, RemainderOfSum
      <4>2. (rxRd + inc) + (-rxRd) = inc /\ ptr + (-rxRd) = ptr - rxRd
        BY <1>9, <1>10 DEF Pointer
      <4>3. inc % Word = inc
        BY <1>1, <1>9, RemainderSmall
      <4> QED BY <1>10, <4>1, <4>2, <4>3
    <3> HIDE DEF o, ptr, inc
    <3>5. ~((o - rxRd) % SSize < (ptr - rxRd) % Word)
      <4>1. inc \in Int /\ inc + n - 1 \in Int /\ ~(inc + n - 1 < inc)
        BY <1>9, <3>2
      <4> QED BY <3>3, <3>4, <4>1
    <3>6. rx'[Socket][o] = rx[Socket][o]
      BY <1>4, <1>6, <2>5, <2>7, <3>5, SizeTypes DEF release
    <3> QED BY <2>1, <2>3, <2>4, <3>6
  <2>8. n + len \in Int
    BY <1>1, <2>1
  <2> QED BY <2>6, <2>7, <2>8
<1>12. DOMAIN rx' = Sockets
  BY <1>4, <1>6 DEF release
<1>13. CASE told
  <2>1. /\ rxRd' = ptr /\ RX_inc' = 0
    BY <1>4, <1>13
  <2>2. rsr' = old - len
    <3>1. (rxWr - ((RX_RD + len) % Word)) % Word = (rxWr - (RX_RD + len)) % Word
      <4>1. RX_RD + len \in Int /\ rxWr \in Int
        BY <1>1
      <4> QED BY <1>1, <4>1, RemainderOfDifference
    <3>2. (((rxWr - RX_RD) % Word) + (-len)) % Word = ((rxWr - RX_RD) + (-len)) % Word
      <4>1. rxWr - RX_RD \in Int /\ -len \in Int
        BY <1>1
      <4> QED BY <1>1, <4>1, RemainderOfSum
    <3>3. rxWr - (RX_RD + len) = (rxWr - RX_RD) + (-len) /\ old + (-len) = old - len
      BY <1>1, <1>2
    <3>4. (old - len) % Word = old - len
      BY <1>1, <1>9, RemainderSmall
    <3>5. rsr' = (rxWr - ptr) % Word
      BY <1>4, <1>5, <2>1
    <3> QED BY <1>2, <3>1, <3>2, <3>3, <3>4, <3>5
  <2>3. old' = old - len
    <3>1. (old - len) - 0 = old - len
      BY <1>9
    <3>2. (old - len) % Word = old - len
      BY <1>1, <1>9, RemainderSmall
    <3> QED BY <1>5, <2>1, <2>2, <3>1, <3>2
  <2>4. ptr = (ptr + 0) % Word
    <3>1. ptr \in 0..(Word - 1) /\ ptr + 0 = ptr
      BY <1>10 DEF Pointer
    <3> QED BY <1>1, <3>1, RemainderSmall
  <2>5. PointersAgree'
    <3>1. RX_RD' = (rxRd' + RX_inc') % Word
      BY <1>4, <2>1, <2>4
    <3>2. RX_RSR' + RX_inc' <= rsr'
      BY <1>1, <1>2, <1>4, <1>8, <1>9, <2>1, <2>2
    <3> QED BY <1>1, <2>1, <3>1, <3>2 DEF PointersAgree, rsr
  <2>6. RingOK'
    <3>1. RX_RSR' \in 0..SSize /\ RX_inc' \in 0..SSize /\ rsr' <= SSize
      BY <1>1, <1>4, <1>2, <1>8, <1>9, <2>1, <2>2
    <3>2. rxRd' \in Pointer /\ rxWr' \in Pointer /\ RX_RD' \in Pointer
      BY <1>1, <1>4, <1>10, <2>1 DEF Pointer
    <3> QED BY <1>12, <2>5, <3>1, <3>2 DEF RingOK, rsr
  <2> QED BY <1>4, <1>11, <2>3, <2>6 DEF old
<1>14. CASE ~told
  <2>1. rxRd' = rxRd /\ RX_inc' = inc /\ inc < Batch /\ known - len # 0
    BY <1>1, <1>4, <1>7, <1>9, <1>14
  <2>2. rsr' = rsr
    BY <1>4, <1>5, <2>1
  <2>3. old' = old - len
    <3>1. (old - len) % Word = old - len
      BY <1>1, <1>9, RemainderSmall
    <3> QED BY <1>5, <1>9, <2>1, <2>2, <3>1
  <2>4. PointersAgree'
    <3>1. RX_RD' = (rxRd' + RX_inc') % Word
      BY <1>4, <1>10, <2>1
    <3>2. RX_RSR' + RX_inc' <= rsr'
      BY <1>1, <1>2, <1>4, <1>8, <1>9, <2>1, <2>2
    <3>3. RX_RSR' # 0 /\ RX_inc' < Batch
      BY <1>4, <2>1
    <3> QED BY <3>1, <3>2, <3>3 DEF PointersAgree, rsr
  <2>5. RingOK'
    <3>1. RX_RSR' \in 0..SSize /\ RX_inc' \in 0..SSize /\ rsr' <= SSize
      BY <1>1, <1>4, <1>2, <1>8, <1>9, <2>1, <2>2
    <3>2. rxRd' \in Pointer /\ rxWr' \in Pointer /\ RX_RD' \in Pointer
      BY <1>1, <1>4, <1>10, <2>1 DEF Pointer
    <3> QED BY <1>12, <2>4, <3>1, <3>2 DEF RingOK, rsr
  <2> QED BY <1>4, <1>11, <2>3, <2>5 DEF old
<1> QED BY <1>13, <1>14

-----------------------------------------------------------------------------
(***************************************************************************)
(* What the receive ring holds.                                            *)
(***************************************************************************)
\* Byte number k of datagram d as the chip stores it, its header in front.
Framed(d, k) == [from |-> d.from, length |-> d.length, at |-> k - Header]

\* Behind the rest of the datagram that is being read come those that have arrived, each
\* whole and with its header, and nothing else: number i of them after byte start[i].  The
\* driver's count ends where a datagram ends.
Laid(start) ==
    /\ start \in [1..(Len(arrived) + 1) -> Nat]
    /\ start[1] = remaining /\ start[Len(arrived) + 1] = fresh
    /\ \A i, j \in 1..(Len(arrived) + 1) : i <= j => start[i] <= start[j]
    /\ \E i \in 1..(Len(arrived) + 1) : RX_RSR = start[i]
    /\ \A i \in 1..Len(arrived) :
          /\ start[i + 1] = start[i] + (Header + arrived[i].length)
          /\ \A k \in 1..(Header + arrived[i].length) :
                Cell(start[i] + k) = Framed(arrived[i], k)

ContentOK == protocol = "UDP" => \E start : Laid(start)

\* parsePacket() returns nothing, and a connection has no datagrams.
CallsOK ==
    /\ protocol \in {"UDP", "TCP"}
    /\ arrived \in Seq(Datagram) /\ remaining \in Nat /\ parsing \in BOOLEAN
    /\ parsing => result = << >>
    /\ protocol = "TCP" => arrived = << >> /\ remaining = 0 /\ ~parsing

ReceiveIInv == RingOK /\ CallsOK /\ ContentOK

LEMMA DatagramTypes ==
    ASSUME CallsOK, NEW i \in 1..Len(arrived)
    PROVE  arrived[i] \in Datagram /\ arrived[i].length \in Nat
<1>1. arrived \in Seq(Datagram)
  BY DEF CallsOK
<1>2. arrived[i] \in Datagram
  BY <1>1
<1> QED BY <1>2, ReaderTypes DEF Datagram

\* The driver's count covers what remains of the datagram that is being read.
LEMMA KnownCovers ==
    ASSUME CallsOK, NEW start, Laid(start)
    PROVE  remaining <= RX_RSR /\ Len(arrived) \in Nat /\ DOMAIN start = 1..(Len(arrived) + 1)
<1>1. Len(arrived) \in Nat
  BY DEF CallsOK
<1>2. PICK i \in 1..(Len(arrived) + 1) : RX_RSR = start[i]
  BY DEF Laid
<1>3. 1 \in 1..(Len(arrived) + 1) /\ 1 <= i
  BY <1>1
<1> QED BY <1>1, <1>2, <1>3 DEF Laid

\* A datagram that has arrived lies behind what remains, and within what waits.
LEMMA BlockInside ==
    ASSUME CallsOK, NEW start, Laid(start), NEW i \in 1..Len(arrived),
           NEW k \in 1..(Header + arrived[i].length)
    PROVE  /\ start[i] \in Nat /\ remaining <= start[i] /\ start[i] + k <= fresh
           /\ i + 1 \in 1..(Len(arrived) + 1) /\ i \in 1..(Len(arrived) + 1)
<1>1. /\ Len(arrived) \in Nat /\ arrived[i].length \in Nat /\ Header \in Nat
      /\ DOMAIN start = 1..(Len(arrived) + 1)
  BY KnownCovers, DatagramTypes, ReaderTypes
<1>2. /\ 1 \in 1..(Len(arrived) + 1) /\ i \in 1..(Len(arrived) + 1)
      /\ i + 1 \in 1..(Len(arrived) + 1) /\ Len(arrived) + 1 \in 1..(Len(arrived) + 1)
      /\ 1 <= i /\ i + 1 <= Len(arrived) + 1
  BY <1>1
<1>3. /\ start[1] = remaining /\ start[Len(arrived) + 1] = fresh
      /\ start[1] <= start[i] /\ start[i + 1] <= start[Len(arrived) + 1]
      /\ start[i + 1] = start[i] + (Header + arrived[i].length)
      /\ start[i] \in Nat /\ start[i + 1] \in Nat /\ start[Len(arrived) + 1] \in Nat
  BY <1>2 DEF Laid
<1> QED BY <1>1, <1>2, <1>3

\* Taking bytes of the datagram that is being read leaves what follows laid out as it was.
LEMMA ReadLaid ==
    ASSUME RingOK, CallsOK, protocol = "UDP", ContentOK,
           NEW len \in Nat \ {0}, len <= remaining, socketRecv(RX_RSR, len),
           remaining' = remaining - len, UNCHANGED <<board, arrived>>
    PROVE  RingOK' /\ ContentOK'
<1>1. PICK start : Laid(start)
  BY DEF ContentOK
<1> DEFINE m == Len(arrived)
<1>2. remaining <= RX_RSR /\ m \in Nat /\ remaining \in Nat /\ arrived' = arrived
  BY <1>1, KnownCovers DEF CallsOK
<1>3. RX_RSR \in Nat /\ RX_RSR <= fresh /\ fresh \in Nat
  BY RingCounts, SizeTypes DEF RingOK
<1>4. /\ RingOK' /\ fresh' = fresh - len /\ RX_RSR' = RX_RSR - len
      /\ \A n \in 1..(fresh - len) : Cell(n)' = Cell(n + len)
  <2>1. len <= RX_RSR
    BY <1>2, <1>3
  <2> QED BY <1>3, <2>1, RecvRing
<1>5. PICK N : N = [i \in 1..(m + 1) |-> start[i] - len]
  OBVIOUS
<1>6. /\ start \in [1..(m + 1) -> Nat] /\ start[1] = remaining /\ start[m + 1] = fresh
      /\ \A i, j \in 1..(m + 1) : i <= j => start[i] <= start[j]
      /\ \E i \in 1..(m + 1) : RX_RSR = start[i]
  BY <1>1 DEF Laid
<1>7. \A i \in 1..m : start[i + 1] = start[i] + (Header + arrived[i].length)
  BY <1>1 DEF Laid
<1> HIDE DEF m
<1>8. \A i \in 1..(m + 1) : start[i] \in Nat /\ start[i] >= len /\ N[i] = start[i] - len
  <2>1. 1 \in 1..(m + 1) /\ \A i \in 1..(m + 1) : 1 <= i
    BY <1>2
  <2> QED BY <1>2, <1>5, <1>6, <2>1
<1>9. N \in [1..(m + 1) -> Nat] /\ N[1] = remaining' /\ N[m + 1] = fresh'
  <2>1. 1 \in 1..(m + 1) /\ m + 1 \in 1..(m + 1)
    BY <1>2
  <2>2. ASSUME NEW i \in 1..(m + 1) PROVE start[i] - len \in Nat
    BY <1>8
  <2> QED BY <1>4, <1>5, <1>6, <2>1, <2>2
<1>10. /\ \A i, j \in 1..(m + 1) : i <= j => N[i] <= N[j]
       /\ \E i \in 1..(m + 1) : RX_RSR' = N[i]
  BY <1>4, <1>6, <1>8
<1>11. ASSUME NEW i \in 1..m
       PROVE  /\ N[i + 1] = N[i] + (Header + arrived[i].length)
              /\ \A k \in 1..(Header + arrived[i].length) :
                    Cell(N[i] + k)' = Framed(arrived[i], k)
  <2>1. arrived[i].length \in Nat /\ Header \in Nat \ {0}
    BY DatagramTypes, ReaderTypes DEF m
  <2>2. i \in 1..(m + 1) /\ i + 1 \in 1..(m + 1)
    BY <1>2
  <2>3. N[i + 1] = N[i] + (Header + arrived[i].length)
    BY <1>7, <1>8, <2>1, <2>2
  <2>4. ASSUME NEW k \in 1..(Header + arrived[i].length)
        PROVE  Cell(N[i] + k)' = Framed(arrived[i], k)
    <3>1. start[i] + k <= fresh
      BY <1>1, BlockInside DEF m
    <3>2. N[i] + k \in 1..(fresh - len) /\ (N[i] + k) + len = start[i] + k
      BY <1>3, <1>8, <2>1, <2>2, <3>1
    <3>3. Cell(N[i] + k)' = Cell((N[i] + k) + len)
      BY <1>4, <3>2
    <3>4. Cell(start[i] + k) = Framed(arrived[i], k)
      BY <1>1 DEF Laid, m
    <3> QED BY <3>2, <3>3, <3>4
  <2> QED BY <2>3, <2>4
<1>12. Laid(N)'
  BY <1>2, <1>9, <1>10, <1>11 DEF Laid, m
<1> QED BY <1>4, <1>12 DEF ContentOK

\* When nothing remains and something waits, a whole datagram does, and the driver knows
\* of its header.
LEMMA HeaderWaits ==
    ASSUME RingOK, CallsOK, remaining = 0, NEW start, Laid(start), socketRecvAvailable # 0
    PROVE  /\ 1 \in 1..Len(arrived)
           /\ Header <= socketRecvAvailable /\ socketRecvAvailable <= fresh
           /\ \E j \in 2..(Len(arrived) + 1) : socketRecvAvailable = start[j]
<1> DEFINE m == Len(arrived)
<1>1. m \in Nat /\ start[1] = 0 /\ start[m + 1] = fresh
  BY KnownCovers DEF Laid
<1>2. /\ RX_RSR \in Nat /\ RX_RSR <= fresh /\ fresh \in Nat
  BY RingCounts, SizeTypes DEF RingOK
<1>3. PICK j \in 1..(m + 1) : socketRecvAvailable = start[j]
  <2>1. m + 1 \in 1..(m + 1)
    BY <1>1
  <2> QED BY <1>1, <2>1 DEF Laid, socketRecvAvailable
<1>4. j \in 2..(m + 1) /\ 1 \in 1..m /\ 2 \in 1..(m + 1) /\ 2 <= j
  BY <1>1, <1>3
<1>5. start[2] <= start[j] /\ start[2] = start[1] + (Header + arrived[1].length)
  BY <1>4 DEF Laid
<1>6. arrived[1].length \in Nat /\ Header \in Nat
  BY <1>4, DatagramTypes, ReaderTypes
<1>7. socketRecvAvailable \in Nat /\ socketRecvAvailable <= fresh
  BY <1>2 DEF socketRecvAvailable
<1> HIDE DEF m
<1>8. Header <= socketRecvAvailable
  BY <1>1, <1>3, <1>5, <1>6, <1>7
<1> QED BY <1>3, <1>4, <1>7, <1>8 DEF m

\* parsePacket() finds the first datagram that has arrived: what it reads is its header.
LEMMA HeaderRead ==
    ASSUME RingOK, CallsOK, remaining = 0, NEW start, Laid(start), socketRecvAvailable # 0
    PROVE  lengthIn(taken(socketRecvAvailable, Header)) = arrived[1].length
<1>1. PICK known : known = socketRecvAvailable
  OBVIOUS
<1>2. 1 \in 1..Len(arrived) /\ Header <= known /\ known <= fresh
  BY <1>1, HeaderWaits
<1>3. Header \in 1..Header /\ Header \in Nat /\ arrived[1].length \in Nat
  BY <1>2, ReaderTypes, DatagramTypes
<1>4. known \in Nat
  BY <1>1, RingCounts, SizeTypes DEF RingOK, socketRecvAvailable
<1>5. taken(known, Header) = [i \in 1..Header |-> Cell(i)]
  BY <1>2, <1>3, <1>4, TakenIs
<1>6. lengthIn(taken(known, Header)) = Cell(Header).length
  BY <1>3, <1>5 DEF lengthIn
<1>7. Cell(start[1] + Header) = Framed(arrived[1], Header) /\ start[1] + Header = Header
  <2>1. Header \in 1..(Header + arrived[1].length) /\ start[1] = 0
    BY <1>3 DEF Laid
  <2> QED BY <1>2, <1>3, <2>1 DEF Laid
<1> QED BY <1>1, <1>6, <1>7 DEF Framed

\* Taking a header makes its datagram the one that is being read.
LEMMA HeaderLaid ==
    ASSUME RingOK, CallsOK, protocol = "UDP", ContentOK, remaining = 0,
           socketRecvAvailable # 0, socketRecv(socketRecvAvailable, Header),
           remaining' = lengthIn(taken(socketRecvAvailable, Header)),
           arrived' = Tail(arrived), UNCHANGED board
    PROVE  RingOK' /\ ContentOK' /\ remaining' = arrived[1].length /\ 1 \in 1..Len(arrived)
<1>1. PICK start : Laid(start)
  BY DEF ContentOK
<1>2. PICK known : known = socketRecvAvailable
  OBVIOUS
<1> DEFINE m == Len(arrived)
<1>3. /\ 1 \in 1..m /\ Header <= known /\ known <= fresh
      /\ \E j \in 2..(m + 1) : known = start[j]
  BY <1>1, <1>2, HeaderWaits
<1>4. remaining' = arrived[1].length
  BY <1>1, HeaderRead
<1>5. known \in Nat /\ fresh \in Nat /\ Header \in Nat \ {0} /\ m \in Nat
  BY <1>1, <1>2, RingCounts, SizeTypes, ReaderTypes, KnownCovers
  DEF RingOK, socketRecvAvailable
<1>6. /\ RingOK' /\ fresh' = fresh - Header /\ RX_RSR' = known - Header
      /\ \A n \in 1..(fresh - Header) : Cell(n)' = Cell(n + Header)
  <2>1. socketRecv(known, Header)
    BY <1>2
  <2> QED BY <1>3, <1>5, <2>1, RecvRing
<1>7. PICK N : N = [i \in 1..m |-> start[i + 1] - Header]
  OBVIOUS
<1>8. /\ start \in [1..(m + 1) -> Nat] /\ start[1] = 0 /\ start[m + 1] = fresh
      /\ \A i, j \in 1..(m + 1) : i <= j => start[i] <= start[j]
  BY <1>1 DEF Laid
<1>9. \A i \in 1..m : start[i + 1] = start[i] + (Header + arrived[i].length)
  BY <1>1 DEF Laid
<1>10. /\ Len(arrived') = m - 1 /\ \A i \in 1..(m - 1) : arrived'[i] = arrived[i + 1]
  <2>1. arrived \in Seq(Datagram) /\ arrived # << >>
    BY <1>3 DEF CallsOK
  <2> QED BY <2>1
<1> HIDE DEF m
<1>11. \A i \in 1..m : arrived[i].length \in Nat /\ i \in 1..(m + 1) /\ i + 1 \in 1..(m + 1)
  BY <1>5, DatagramTypes DEF m
<1>12. start[2] = Header + arrived[1].length /\ start[2] \in Nat /\ 2 \in 1..(m + 1)
  BY <1>3, <1>5, <1>8, <1>9, <1>11
<1>13. PICK e : e = [i \in 1..m |-> start[i + 1]]
  OBVIOUS
<1>14. ASSUME NEW i \in 1..m
       PROVE  /\ e[i] = start[i + 1] /\ e[i] \in Nat /\ e[i] >= Header
              /\ N[i] = e[i] - Header /\ N[i] \in Nat
  <2>1. e[i] = start[i + 1] /\ e[i] \in Nat
    BY <1>8, <1>11, <1>13
  <2>2. start[2] <= e[i]
    <3>1. 2 <= i + 1
      BY <1>5
    <3> QED BY <1>8, <1>11, <1>12, <2>1, <3>1
  <2>3. e[i] >= Header
    <3>1. arrived[1].length \in Nat
      BY <1>3, <1>11
    <3> QED BY <1>5, <1>12, <2>1, <2>2, <3>1
  <2>4. N[i] = e[i] - Header
    BY <1>7, <2>1
  <2> QED BY <1>5, <2>1, <2>3, <2>4
<1>15. /\ N \in [1..m -> Nat] /\ N[1] = remaining' /\ N[m] = fresh'
       /\ \A i, j \in 1..m : i <= j => N[i] <= N[j]
       /\ \E i \in 1..m : RX_RSR' = N[i]
  <2>1. N \in [1..m -> Nat]
    BY <1>7, <1>14
  <2>2. N[1] = remaining'
    <3>1. e[1] = Header + arrived[1].length /\ N[1] = e[1] - Header
      BY <1>3, <1>12, <1>14
    <3>2. arrived[1].length \in Nat
      BY <1>3, <1>11
    <3> QED BY <1>4, <1>5, <3>1, <3>2
  <2>3. N[m] = fresh'
    <3>1. m \in 1..m
      BY <1>3, <1>5
    <3> QED BY <1>6, <1>8, <1>14, <3>1
  <2>4. ASSUME NEW i \in 1..m, NEW j \in 1..m, i <= j PROVE N[i] <= N[j]
    <3>1. e[i] <= e[j]
      <4>1. i + 1 <= j + 1
        BY <1>5, <2>4
      <4> QED BY <1>8, <1>11, <1>14, <4>1
    <3>2. /\ e[i] \in Nat /\ e[j] \in Nat /\ N[i] = e[i] - Header /\ N[j] = e[j] - Header
      BY <1>14
    <3> QED BY <1>5, <3>1, <3>2
  <2>5. PICK j \in 2..(m + 1) : known = start[j]
    BY <1>3
  <2>6. j - 1 \in 1..m /\ (j - 1) + 1 = j
    BY <1>5
  <2>7. N[j - 1] = known - Header
    BY <1>14, <2>5, <2>6
  <2> QED BY <1>6, <2>1, <2>2, <2>3, <2>4, <2>6, <2>7
<1>16. ASSUME NEW i \in 1..(m - 1)
       PROVE  /\ N[i + 1] = N[i] + (Header + arrived'[i].length)
              /\ \A k \in 1..(Header + arrived'[i].length) :
                    Cell(N[i] + k)' = Framed(arrived'[i], k)
  <2>1. i \in 1..m /\ i + 1 \in 1..m /\ arrived'[i] = arrived[i + 1]
    BY <1>5, <1>10
  <2>2. PICK d : d = arrived[i + 1]
    OBVIOUS
  <2>3. /\ d.length \in Nat /\ e[i] \in Nat /\ e[i + 1] = e[i] + (Header + d.length)
        /\ e[i] >= Header /\ N[i] = e[i] - Header /\ N[i + 1] = e[i + 1] - Header
    <3>1. start[(i + 1) + 1] = start[i + 1] + (Header + arrived[i + 1].length)
      BY <1>9, <2>1
    <3>2. e[i + 1] = start[(i + 1) + 1] /\ N[i + 1] = e[i + 1] - Header
      BY <1>14, <2>1
    <3>3. e[i] = start[i + 1] /\ e[i] \in Nat /\ N[i] = e[i] - Header /\ e[i] >= Header
      BY <1>14, <2>1
    <3> QED BY <1>11, <2>1, <2>2, <3>1, <3>2, <3>3
  <2>4. N[i + 1] = N[i] + (Header + d.length)
    BY <1>5, <2>3
  <2>5. ASSUME NEW k \in 1..(Header + d.length)
        PROVE  Cell(N[i] + k)' = Framed(d, k)
    <3>1. e[i] + k <= fresh
      <4>1. k \in 1..(Header + arrived[i + 1].length)
        BY <2>2
      <4>2. start[i + 1] + k <= fresh
        BY <1>1, <2>1, <4>1, BlockInside DEF m
      <4> QED BY <1>14, <2>1, <4>2
    <3>2. N[i] + k \in 1..(fresh - Header) /\ (N[i] + k) + Header = e[i] + k
      <4>1. PICK q \in Nat : q = e[i]
        BY <2>3
      <4>2. N[i] = q - Header /\ q >= Header /\ q + k <= fresh
        BY <2>3, <3>1, <4>1
      <4>3. k \in Nat \ {0}
        BY <1>5, <2>3
      <4>4. (q - Header) + k \in 1..(fresh - Header) /\ ((q - Header) + k) + Header = q + k
        BY <1>5, <4>2, <4>3
      <4> QED BY <4>1, <4>2, <4>4
    <3>3. Cell(N[i] + k)' = Cell((N[i] + k) + Header)
      BY <1>6, <3>2
    <3>4. Cell(start[i + 1] + k) = Framed(arrived[i + 1], k)
      BY <1>1, <2>1, <2>2 DEF Laid, m
    <3>5. e[i] = start[i + 1]
      BY <1>14, <2>1
    <3> QED BY <2>2, <3>2, <3>3, <3>4, <3>5
  <2> QED BY <2>1, <2>2, <2>4, <2>5
<1>17. Laid(N)'
  <2>1. (m - 1) + 1 = m /\ Len(arrived') = m - 1
    BY <1>5, <1>10
  <2> QED BY <1>15, <1>16, <2>1 DEF Laid
<1> QED BY <1>3, <1>4, <1>6, <1>17 DEF ContentOK, m

\* A datagram that arrives is laid out behind the others.
LEMMA ArrivalLaid ==
    ASSUME RingOK, CallsOK, ContentOK, NEW d \in Datagram, datagramArrives(d)
    PROVE  RingOK' /\ ContentOK' /\ \A n \in 1..fresh : Cell(n)' = Cell(n) /\ fresh' >= fresh
<1> DEFINE n == Header + d.length
           m == Len(arrived)
<1>1. d.length \in Nat /\ Header \in Nat \ {0} /\ n \in Nat /\ fresh \in Nat
  <2>1. d.length \in Nat /\ Header \in Nat \ {0}
    BY ReaderTypes DEF Datagram
  <2>2. fresh \in Nat
    BY RingCounts, SizeTypes
  <2> QED BY <2>1, <2>2
<1>2. protocol = "UDP" /\ arrived' = Append(arrived, d) /\ UNCHANGED <<board, remaining>>
  BY DEF datagramArrives, store, reader
<1>3. PICK bytes : bytes = [i \in 1..n |-> Framed(d, i)]
  OBVIOUS
<1>4. store(bytes)
  BY <1>3 DEF datagramArrives, Framed
<1>5. bytes \in Seq({Framed(d, i) : i \in 1..n}) /\ Len(bytes) = n
      /\ \A i \in 1..n : bytes[i] = Framed(d, i)
  BY <1>1, <1>3
<1>6. /\ RingOK' /\ fresh' = fresh + n /\ RX_RSR' = RX_RSR
      /\ \A i \in 1..fresh : Cell(i)' = Cell(i)
      /\ \A i \in (fresh + 1)..(fresh + n) : Cell(i)' = bytes[i - fresh]
  BY <1>4, <1>5, StoreRing
<1>7. PICK start : Laid(start)
  BY <1>2 DEF ContentOK
<1>8. /\ start \in [1..(m + 1) -> Nat] /\ start[1] = remaining /\ start[m + 1] = fresh
      /\ \A i, j \in 1..(m + 1) : i <= j => start[i] <= start[j]
      /\ \E i \in 1..(m + 1) : RX_RSR = start[i]
  BY <1>7 DEF Laid
<1>9. \A i \in 1..m : start[i + 1] = start[i] + (Header + arrived[i].length)
  BY <1>7 DEF Laid
<1>10. /\ m \in Nat /\ Len(arrived') = m + 1 /\ arrived'[m + 1] = d
       /\ \A i \in 1..m : arrived'[i] = arrived[i]
  <2>1. arrived \in Seq(Datagram)
    BY DEF CallsOK
  <2> QED BY <1>2, <2>1
<1>11. PICK N : N = [i \in 1..(m + 2) |-> IF i = m + 2 THEN fresh + n ELSE start[i]]
  OBVIOUS
<1> HIDE DEF m, n
<1>12. /\ N \in [1..(m + 2) -> Nat]
       /\ N[m + 2] = fresh + n /\ \A i \in 1..(m + 1) : N[i] = start[i]
  <2>1. ASSUME NEW i \in 1..(m + 2)
        PROVE  i = m + 2 \/ i \in 1..(m + 1)
    BY <1>10
  <2>2. ASSUME NEW i \in 1..(m + 2)
        PROVE  (IF i = m + 2 THEN fresh + n ELSE start[i]) \in Nat
    BY <1>1, <1>8, <2>1
  <2>3. m + 2 \in 1..(m + 2) /\ \A i \in 1..(m + 1) : i \in 1..(m + 2) /\ i # m + 2
    BY <1>10
  <2> QED BY <1>11, <2>2, <2>3
<1>13. N[1] = remaining' /\ N[m + 2] = fresh' /\ \E i \in 1..(m + 2) : RX_RSR' = N[i]
  <2>1. 1 \in 1..(m + 1) /\ \A i \in 1..(m + 1) : i \in 1..(m + 2)
    BY <1>10
  <2> QED BY <1>2, <1>6, <1>8, <1>12, <2>1
<1>14. ASSUME NEW i \in 1..(m + 2), NEW j \in 1..(m + 2), i <= j PROVE N[i] <= N[j]
  <2>1. CASE j = m + 2
    <3>1. i = m + 2 \/ i \in 1..(m + 1)
      BY <1>10
    <3>2. ASSUME i \in 1..(m + 1) PROVE N[i] <= fresh /\ N[i] \in Nat
      <4>1. m + 1 \in 1..(m + 1) /\ i <= m + 1
        BY <1>10, <3>2
      <4> QED BY <1>8, <1>12, <3>2, <4>1
    <3> QED BY <1>1, <1>12, <2>1, <3>1, <3>2
  <2>2. CASE j # m + 2
    <3>1. i \in 1..(m + 1) /\ j \in 1..(m + 1)
      BY <1>10, <1>14, <2>2
    <3> QED BY <1>8, <1>12, <1>14, <3>1
  <2> QED BY <2>1, <2>2
<1>15. ASSUME NEW i \in 1..(m + 1)
       PROVE  /\ N[i + 1] = N[i] + (Header + arrived'[i].length)
              /\ \A k \in 1..(Header + arrived'[i].length) :
                    Cell(N[i] + k)' = Framed(arrived'[i], k)
  <2>1. CASE i = m + 1
    <3>1. arrived'[i] = d /\ N[i] = fresh /\ N[i + 1] = fresh + n
      <4>1. i + 1 = m + 2
        BY <1>10, <2>1
      <4> QED BY <1>8, <1>10, <1>12, <2>1, <4>1
    <3>2. PICK f : f = fresh
      OBVIOUS
    <3>3. ASSUME NEW k \in 1..n PROVE Cell(f + k)' = Framed(d, k)
      BY <1>1, <1>5, <1>6, <3>2
    <3> QED BY <3>1, <3>2, <3>3 DEF n
  <2>2. CASE i # m + 1
    <3>1. i \in 1..m /\ i + 1 \in 1..(m + 1)
      BY <1>10, <2>2
    <3>2. arrived'[i] = arrived[i] /\ N[i] = start[i] /\ N[i + 1] = start[i + 1]
      BY <1>10, <1>12, <3>1
    <3>3. ASSUME NEW k \in 1..(Header + arrived[i].length)
          PROVE  Cell(start[i] + k)' = Framed(arrived[i], k)
      <4>1. start[i] \in Nat /\ start[i] + k <= fresh /\ start[i] + k \in Int
        <5>1. arrived[i].length \in Nat
          BY <3>1, DatagramTypes DEF m
        <5> QED BY <1>1, <1>7, <3>1, <5>1, BlockInside DEF m
      <4>2. start[i] + k \in 1..fresh
        BY <1>1, <4>1
      <4>3. Cell(start[i] + k)' = Cell(start[i] + k)
        BY <1>6, <4>2
      <4> QED BY <1>7, <3>1, <4>3 DEF Laid, m
    <3> QED BY <1>9, <3>1, <3>2, <3>3
  <2> QED BY <2>1, <2>2
<1>16. Laid(N)'
  <2>1. Len(arrived') = m + 1 /\ (m + 1) + 1 = m + 2
    BY <1>10
  <2> QED BY <1>12, <1>13, <1>14, <1>15, <2>1 DEF Laid
<1> QED BY <1>1, <1>6, <1>16 DEF ContentOK

\* Steps that leave the ring and the counts alone keep the layout.
LEMMA RestRing ==
    ASSUME RingOK, ContentOK,
           UNCHANGED <<protocol, rx, rxRd, rxWr, RX_RSR, RX_RD, RX_inc, remaining, arrived>>
    PROVE  RingOK' /\ ContentOK' /\ fresh' = fresh /\ \A n \in Int : Cell(n)' = Cell(n)
<1>1. getSnRX_RSR' = getSnRX_RSR /\ fresh' = fresh
  BY DEF fresh, getSnRX_RSR
<1>2. RingOK'
  BY <1>1 DEF RingOK, PointersAgree
<1>3. ASSUME NEW n PROVE Cell(n)' = Cell(n)
  BY DEF Cell
<1>4. ContentOK'
  <2>1. ASSUME NEW start, Laid(start) PROVE Laid(start)'
    BY <1>1, <1>3, <2>1 DEF Laid
  <2> QED BY <2>1 DEF ContentOK
<1> QED BY <1>1, <1>2, <1>3, <1>4

LEMMA InitReceive == ReceiveInit => ReceiveIInv
<1> SUFFICES ASSUME ReceiveInit PROVE ReceiveIInv
  OBVIOUS
<1>1. /\ Word \in Nat \ {0} /\ SSize \in Nat \ {0} /\ Batch \in Nat \ {0}
  BY SizeTypes, ReaderTypes
<1>2. /\ DOMAIN rx = Sockets /\ rxRd = 0 /\ rxWr = 0 /\ RX_RSR = 0 /\ RX_RD = 0
      /\ RX_inc = 0 /\ remaining = 0 /\ parsing = FALSE /\ result = << >> /\ arrived = << >>
      /\ protocol \in {"UDP", "TCP"}
  BY DEF ReceiveInit, BoardInit
<1>3. (0 - 0) % Word = 0 /\ (0 + 0) % Word = 0
  BY <1>1, RemainderSmall
<1>4. getSnRX_RSR = 0 /\ fresh = 0
  BY <1>2, <1>3 DEF getSnRX_RSR, fresh
<1>5. RingOK
  BY <1>1, <1>2, <1>3, <1>4 DEF RingOK, PointersAgree, Pointer
<1>6. CallsOK
  <2>1. << >> \in Seq(Datagram) /\ 0 \in Nat /\ FALSE \in BOOLEAN
    OBVIOUS
  <2> QED BY <1>2, <2>1 DEF CallsOK
<1>7. Laid([i \in 1..1 |-> 0])
  BY <1>2, <1>4 DEF Laid
<1> QED BY <1>5, <1>6, <1>7 DEF ReceiveIInv, ContentOK

\* Every step of the chip and of the program keeps the ring and its content.
LEMMA NextReceive == ReceiveIInv /\ ReceiveNext => ReceiveIInv'
<1> SUFFICES ASSUME RingOK, CallsOK, ContentOK, ReceiveNext PROVE ReceiveIInv'
  BY DEF ReceiveIInv
<1>0. /\ RX_RSR \in Nat /\ RX_RSR <= fresh /\ fresh \in Nat /\ remaining \in Nat
      /\ socketRecvAvailable \in Nat /\ socketRecvAvailable <= fresh
      /\ socketRecvAvailable = 0 => RX_RSR = 0
  BY RingCounts, SizeTypes DEF RingOK, CallsOK, socketRecvAvailable
<1>1. ASSUME NEW d \in Datagram, datagramArrives(d) PROVE ReceiveIInv'
  <2>1. RingOK' /\ ContentOK'
    BY <1>1, ArrivalLaid
  <2>2. CallsOK'
    <3>1. /\ arrived' = Append(arrived, d) /\ protocol = "UDP"
          /\ UNCHANGED <<protocol, remaining, parsing, result>>
      BY <1>1 DEF datagramArrives, store, board, reader
    <3>2. arrived' \in Seq(Datagram)
      BY <3>1 DEF CallsOK
    <3> QED BY <3>1, <3>2 DEF CallsOK
  <2> QED BY <2>1, <2>2 DEF ReceiveIInv
<1>2. ASSUME NEW b \in Byte, byteArrives(b) PROVE ReceiveIInv'
  <2>1. /\ store(<<b>>) /\ protocol = "TCP" /\ <<b>> \in Seq(Byte)
        /\ UNCHANGED <<protocol, remaining, parsing, result, arrived>>
    BY <1>2 DEF byteArrives, store, board, reader
  <2>2. RingOK'
    BY <2>1, StoreRing
  <2>3. CallsOK' /\ ContentOK'
    BY <2>1 DEF CallsOK, ContentOK
  <2> QED BY <2>2, <2>3 DEF ReceiveIInv
<1>3. CASE udpBegin
  <2>1. /\ socketBegin /\ remaining' = 0 /\ result' = << >>
        /\ protocol' = protocol /\ parsing' = parsing
    BY <1>3 DEF udpBegin, board
  <2>2. RingOK' /\ fresh' = 0 /\ RX_RSR' = 0 /\ arrived' = << >>
    BY <2>1, BeginRing
  <2>3. CallsOK'
    BY <2>1, <2>2 DEF CallsOK
  <2>4. Laid([i \in 1..1 |-> 0])'
    BY <2>1, <2>2 DEF Laid
  <2> QED BY <2>2, <2>3, <2>4 DEF ReceiveIInv, ContentOK
<1>4. CASE parsePacket
  <2>1. UNCHANGED <<protocol, rx, rxRd, rxWr, RX_RSR, RX_RD, RX_inc, remaining, arrived>>
        /\ result' = << >> /\ parsing' = TRUE /\ protocol = "UDP"
    BY <1>4 DEF parsePacket, board, ring, driver
  <2>2. RingOK' /\ ContentOK'
    BY <2>1, RestRing
  <2>3. CallsOK'
    BY <2>1 DEF CallsOK
  <2> QED BY <2>2, <2>3 DEF ReceiveIInv
<1>5. CASE discard
  <2>1. /\ socketRecv(RX_RSR, remaining) /\ remaining \in Nat \ {0} /\ parsing
        /\ remaining' = remaining - Len(taken(RX_RSR, remaining))
        /\ UNCHANGED <<board, arrived>>
        /\ protocol' = protocol /\ parsing' = parsing /\ result' = result
    BY <1>0, <1>5 DEF discard, board
  <2>2. protocol = "UDP"
    BY <2>1 DEF CallsOK
  <2>3. remaining <= RX_RSR
    BY <2>2, KnownCovers DEF ContentOK
  <2>4. Len(taken(RX_RSR, remaining)) = remaining
    BY <1>0, <2>3, TakenIs
  <2>5. RingOK' /\ ContentOK'
    <3>1. remaining <= remaining /\ remaining' = remaining - remaining
      BY <1>0, <2>1, <2>4
    <3> QED BY <2>1, <2>2, <3>1, ReadLaid
  <2>6. remaining' = 0
    BY <1>0, <2>1, <2>4
  <2>7. CallsOK'
    BY <2>1, <2>2, <2>6 DEF CallsOK
  <2> QED BY <2>5, <2>7 DEF ReceiveIInv
<1>6. CASE parseHeader
  <2>1. /\ parsing /\ remaining = 0 /\ parsing' = FALSE /\ protocol = "UDP"
        /\ UNCHANGED board /\ protocol' = protocol /\ result' = result
    BY <1>6 DEF parseHeader, board, CallsOK
  <2>2. CASE socketRecvAvailable = 0
    <3>1. UNCHANGED <<protocol, rx, rxRd, rxWr, RX_RSR, RX_RD, RX_inc, remaining, arrived>>
      BY <1>0, <1>6, <2>1, <2>2 DEF parseHeader, ring
    <3>2. RingOK' /\ ContentOK'
      BY <3>1, RestRing
    <3>3. CallsOK'
      BY <2>1, <3>1 DEF CallsOK
    <3> QED BY <3>2, <3>3 DEF ReceiveIInv
  <2>3. CASE socketRecvAvailable # 0
    <3>1. /\ socketRecv(socketRecvAvailable, Header)
          /\ remaining' = lengthIn(taken(socketRecvAvailable, Header))
          /\ arrived' = Tail(arrived)
      BY <1>6, <2>3 DEF parseHeader
    <3>2. RingOK' /\ ContentOK' /\ remaining' = arrived[1].length /\ 1 \in 1..Len(arrived)
      BY <2>1, <2>3, <3>1, HeaderLaid
    <3>3. remaining' \in Nat
      BY <3>2, DatagramTypes
    <3>4. arrived' \in Seq(Datagram)
      <4>1. arrived \in Seq(Datagram) /\ arrived # << >>
        BY <3>2 DEF CallsOK
      <4> QED BY <3>1, <4>1
    <3>5. CallsOK'
      BY <2>1, <3>3, <3>4 DEF CallsOK
    <3> QED BY <3>2, <3>5 DEF ReceiveIInv
  <2> QED BY <2>2, <2>3
<1>7. ASSUME NEW len \in ReadSizes, udpRead(len) PROVE ReceiveIInv'
  <2> DEFINE n == smaller(len, remaining)
  <2>1. /\ protocol = "UDP" /\ ~parsing /\ remaining \in Nat \ {0}
        /\ socketRecv(RX_RSR, n) /\ result' = taken(RX_RSR, n)
        /\ remaining' = remaining - Len(result')
        /\ UNCHANGED <<board, arrived>> /\ protocol' = protocol /\ parsing' = parsing
    BY <1>0, <1>7 DEF udpRead, board
  <2>2. n \in Nat \ {0} /\ n <= remaining
    <3>1. len \in Nat \ {0}
      BY ReaderTypes
    <3> QED BY <2>1, <3>1 DEF smaller
  <2>3. remaining <= RX_RSR
    BY <2>1, KnownCovers DEF ContentOK
  <2> HIDE DEF n
  <2>4. Len(taken(RX_RSR, n)) = n
    <3>1. n \in Nat /\ n <= RX_RSR
      BY <1>0, <2>2, <2>3
    <3> QED BY <1>0, <3>1, TakenIs
  <2>5. RingOK' /\ ContentOK'
    <3>1. remaining' = remaining - n
      BY <2>1, <2>4
    <3> QED BY <2>1, <2>2, <3>1, ReadLaid
  <2>6. remaining' \in Nat
    BY <1>0, <2>1, <2>2, <2>4
  <2>7. CallsOK'
    BY <2>1, <2>6 DEF CallsOK
  <2> QED BY <2>5, <2>7 DEF ReceiveIInv
<1>8. CASE clientRead
  <2>1. /\ protocol = "TCP" /\ UNCHANGED <<protocol, remaining, parsing, arrived>>
    BY <1>8 DEF clientRead, board
  <2>2. CallsOK' /\ ContentOK'
    BY <2>1 DEF CallsOK, ContentOK
  <2>3. CASE socketRecvAvailable = 0
    <3>1. UNCHANGED <<rx, rxRd, rxWr, RX_RSR, RX_RD, RX_inc>>
      BY <1>0, <1>8, <2>3 DEF clientRead, ring
    <3>2. RingOK'
      BY <3>1 DEF RingOK, PointersAgree, getSnRX_RSR
    <3> QED BY <2>2, <3>2 DEF ReceiveIInv
  <2>4. CASE socketRecvAvailable # 0
    <3>1. PICK known : known = socketRecvAvailable
      OBVIOUS
    <3>2. socketRecv(known, 1) /\ known \in Nat /\ 1 <= known /\ known <= fresh
      BY <1>0, <1>8, <2>4, <3>1 DEF clientRead
    <3>3. RingOK'
      BY <3>2, RecvRing
    <3> QED BY <2>2, <3>3 DEF ReceiveIInv
  <2> QED BY <2>3, <2>4
<1>9. CASE listenAgain
  <2>1. /\ socketBegin /\ result' = << >> /\ protocol = "TCP"
        /\ UNCHANGED <<protocol, remaining, parsing>>
    BY <1>9 DEF listenAgain, board
  <2>2. RingOK' /\ fresh' = 0 /\ RX_RSR' = 0 /\ arrived' = << >>
    BY <2>1, BeginRing
  <2>3. CallsOK' /\ ContentOK'
    BY <2>1, <2>2 DEF CallsOK, ContentOK
  <2> QED BY <2>2, <2>3 DEF ReceiveIInv
<1> QED
  BY <1>1, <1>2, <1>3, <1>4, <1>5, <1>6, <1>7, <1>8, <1>9 DEF ReceiveNext

\* The other direction's steps change nothing here.
LEMMA RestReceive == ReceiveIInv /\ UNCHANGED receiveVars => ReceiveIInv'
<1> SUFFICES ASSUME ReceiveIInv, UNCHANGED receiveVars PROVE ReceiveIInv'
  OBVIOUS
<1>1. UNCHANGED <<protocol, rx, rxRd, rxWr, RX_RSR, RX_RD, RX_inc, remaining, arrived>>
      /\ UNCHANGED <<parsing, result>>
  BY DEF receiveVars, board, ring, driver, reader
<1>2. RingOK' /\ ContentOK'
  BY <1>1, RestRing DEF ReceiveIInv
<1>3. CallsOK'
  BY <1>1 DEF ReceiveIInv, CallsOK
<1> QED BY <1>2, <1>3 DEF ReceiveIInv

-----------------------------------------------------------------------------
(***************************************************************************)
(* The transmit ring.                                                      *)
(***************************************************************************)
\* Byte number i from the chip's read pointer on.
OutCell(i) == tx[Socket][(txRd + i - 1) % SSize]

\* The chip holds what is in flight, and other sockets' rings are untouched.
OutOK ==
    /\ {data, given, flight} \subseteq Seq(Bytes)
    /\ (txWr - txRd) % Word = Len(flight) /\ Len(flight) <= SSize
    /\ \A i \in 1..Len(flight) : OutCell(i) = flight[i]
    /\ \A t \in Sockets \ {Socket} : tx[t] = Cleared

\* A packet that was begun is in the ring up to offset, and nothing else is.
PacketOK ==
    step = "packet" =>
        /\ flight = << >> /\ offset = Len(given) /\ Len(given) <= SSize
        /\ given # << >> => txNew = (txWr + Len(given)) % Word
        /\ \A i \in 1..Len(given) : OutCell(i) = given[i]

\* A write of socketSend() is copied only when there is room for it; datagrams are sent one
\* at a time, and each is answered by one bit of Sn_IR.
StepOK ==
    /\ protocol \in {"UDP", "TCP"}
    /\ step = "copy" => Len(flight) + Len(data) <= SSize
    /\ protocol = "TCP" => step \notin {"packet", "ended"}
    /\ protocol = "UDP" => /\ status = "UDP"
                           /\ ir \in {{}, {"SEND_OK"}, {"TIMEOUT"}}
                           /\ step \notin {"done", "ended"} => ir = {}
                           /\ sending => step \in {"done", "ended"} /\ ir = {}
                           /\ ~sending => flight = << >>

SendIInv == SendTypeOK /\ OutOK /\ PacketOK /\ StepOK

\* How far a place is behind a pointer that is p bytes further on, in a ring.
LEMMA BehindPointer ==
    ASSUME NEW a \in Pointer, NEW p \in 0..SSize, NEW ptr, ptr = (a + p) % Word,
           NEW i \in 1..SSize, NEW o, o = (a + i - 1) % SSize
    PROVE  /\ o \in Offset
           /\ i > p => (o - ptr) % SSize = (i - 1) - p
           /\ i <= p => (o - ptr) % SSize = ((i - 1) - p) + SSize
<1> DEFINE k == (i - 1) - p
<1>1. /\ SSize \in Nat \ {0} /\ Word \in Nat \ {0} /\ a \in 0..(Word - 1) /\ a \in Int
      /\ i \in Int /\ p \in Int /\ k \in Int
  BY SizeTypes DEF Pointer
<1>2. ptr \in Int
  <2>1. a + p \in Int
    BY <1>1
  <2> QED BY <1>1, <2>1, DivMod
<1>3. o \in Offset
  <2>1. a + i - 1 \in Int
    BY <1>1
  <2> QED BY <2>1, OffsetIs
<1>4. a = (ptr - p) % Word
  <2>1. (((a + p) % Word) + (-p)) % Word = ((a + p) + (-p)) % Word
    <3>1. a + p \in Int /\ -p \in Int
      BY <1>1
    <3> QED BY <1>1, <3>1, RemainderOfSum
  <2>2. (a + p) + (-p) = a /\ ptr + (-p) = ptr - p
    BY <1>1, <1>2
  <2>3. a % Word = a
    BY <1>1, RemainderSmall
  <2> QED BY <2>1, <2>2, <2>3
<1>5. o = (ptr + k) % SSize
  <2>1. (((ptr - p) % Word) + (i - 1)) % SSize = ((ptr - p) + (i - 1)) % SSize
    <3>1. ptr - p \in Int /\ i - 1 \in Int
      BY <1>1, <1>2
    <3> QED BY <3>1, OffsetFurther
  <2>2. (ptr - p) + (i - 1) = ptr + k /\ a + i - 1 = a + (i - 1)
    BY <1>1, <1>2
  <2> QED BY <1>4, <2>1, <2>2
<1>6. ASSUME i > p PROVE (o - ptr) % SSize = k
  <2>1. k \in 0..(SSize - 1)
    BY <1>1, <1>6
  <2> HIDE DEF k
  <2> QED BY <1>2, <1>5, <2>1, DistanceOf
<1>7. ASSUME i <= p PROVE (o - ptr) % SSize = k + SSize
  <2>1. k + SSize \in 0..(SSize - 1) /\ ptr + (k + SSize) = (ptr + k) + SSize
    BY <1>1, <1>2, <1>7
  <2>2. ((ptr + k) + SSize) % SSize = (ptr + k) % SSize
    <3>1. ptr + k \in Int
      BY <1>1, <1>2
    <3> QED BY <1>1, <3>1, RemainderOfTurn
  <2> DEFINE e == k + SSize
  <2>3. e \in 0..(SSize - 1) /\ o = (ptr + e) % SSize
    BY <1>5, <2>1, <2>2
  <2> HIDE DEF e
  <2>4. (o - ptr) % SSize = e
    BY <1>2, <2>3, DistanceOf
  <2> QED BY <2>4 DEF e
<1> QED BY <1>3, <1>6, <1>7

\* socketBufferData() behind what is in flight overwrites neither that nor what was buffered
\* before, and writes in no other socket's ring.
LEMMA PutRing ==
    ASSUME SendTypeOK, OutOK, NEW at \in Nat, NEW bytes \in Seq(Bytes),
           Len(flight) + at + Len(bytes) <= SSize, putData(at, bytes), txRd' = txRd
    PROVE  /\ tx' \in [Sockets -> [Offset -> {NoByte} \cup Bytes]] /\ txNew' \in Pointer
           /\ txNew' = (txWr + at + Len(bytes)) % Word
           /\ \A t \in Sockets \ {Socket} : tx'[t] = Cleared
           /\ \A i \in 1..(Len(flight) + at) : OutCell(i)' = OutCell(i)
           /\ \A i \in 1..Len(bytes) : \A n \in Nat :
                 n = Len(flight) + at + i => OutCell(n)' = bytes[i]
<1> DEFINE ptr == (txWr + at) % Word
           p == Len(flight) + at
           len == Len(bytes)
<1>1. /\ SSize \in Nat \ {0} /\ Word \in Nat \ {0} /\ Socket \in Sockets
      /\ txRd \in 0..(Word - 1) /\ txWr \in 0..(Word - 1) /\ len \in Nat
      /\ Len(flight) \in Nat
  BY SizeTypes DEF SendTypeOK, Pointer, OutOK
<1>2. p \in 0..SSize /\ len <= SSize /\ p + len <= SSize
  BY <1>1
<1>3. ptr = (txRd + p) % Word /\ ptr \in Nat
  <2>1. (txRd + ((txWr - txRd) % Word)) % Word = txWr
    BY <1>1, RemainderOfDistance
  <2>2. txWr = (txRd + Len(flight)) % Word
    BY <2>1 DEF OutOK
  <2>3. (((txRd + Len(flight)) % Word) + at) % Word = ((txRd + Len(flight)) + at) % Word
    <3>1. txRd + Len(flight) \in Int /\ at \in Int
      BY <1>1
    <3> QED BY <1>1, <3>1, RemainderOfSum
  <2>4. (txRd + Len(flight)) + at = txRd + p /\ txRd + p \in Int
    BY <1>1
  <2>5. (txRd + p) % Word \in Nat
    BY <1>1, <2>4, DivMod
  <2> QED BY <2>2, <2>3, <2>4, <2>5
<1>4. tx' = write_data(tx, Socket, ptr, bytes) /\ txNew' = (txWr + at + len) % Word
  BY DEF putData
<1>5. txNew' \in Pointer
  <2>1. txWr + at + len \in Int
    BY <1>1
  <2> QED BY <1>1, <1>4, <2>1, DivMod DEF Pointer
<1> HIDE DEF ptr
<1>6. ASSUME NEW t \in Sockets, NEW o \in Offset
      PROVE  tx'[t][o] = IF t = Socket /\ (o - ptr) % SSize < len
                         THEN bytes[((o - ptr) % SSize) + 1] ELSE tx[t][o]
  <2>1. PICK m : m = tx
    OBVIOUS
  <2>2. ptr \in Nat /\ Len(bytes) <= SSize
    BY <1>2, <1>3
  <2>3. write_data(m, Socket, ptr, bytes)[t][o]
          = IF t = Socket /\ (o - ptr) % SSize < Len(bytes)
            THEN bytes[((o - ptr) % SSize) + 1] ELSE m[t][o]
    BY <2>2, WriteIs
  <2> QED BY <1>4, <2>1, <2>3
<1>7. tx' = [t \in Sockets |-> [o \in Offset |-> tx'[t][o]]]
  BY <1>4 DEF write_data
<1>8. ASSUME NEW t \in Sockets, NEW o \in Offset
      PROVE  tx'[t][o] \in {NoByte} \cup Bytes
  <2> DEFINE d == (o - ptr) % SSize
  <2>1. d \in 0..(SSize - 1)
    BY <1>3, AtDistance
  <2> HIDE DEF d
  <2>2. d < len => bytes[d + 1] \in Bytes
    BY <1>1, <2>1
  <2>3. tx[t][o] \in {NoByte} \cup Bytes
    BY DEF SendTypeOK
  <2> QED BY <1>6, <2>2, <2>3 DEF d
<1>9. tx' \in [Sockets -> [Offset -> {NoByte} \cup Bytes]]
  BY <1>7, <1>8
<1>10. ASSUME NEW t \in Sockets \ {Socket} PROVE tx'[t] = Cleared
  <2>1. tx[t] = Cleared
    BY DEF OutOK
  <2>2. \A o \in Offset : tx'[t][o] = NoByte
    BY <1>6, <2>1 DEF Cleared
  <2>3. tx'[t] = [o \in Offset |-> tx'[t][o]]
    BY <1>7
  <2> QED BY <2>2, <2>3 DEF Cleared
<1> HIDE DEF p, len
<1>11. ASSUME NEW i \in 1..p PROVE OutCell(i)' = OutCell(i)
  <2>1. PICK o : o = (txRd + i - 1) % SSize
    OBVIOUS
  <2>2. i \in 1..SSize /\ i <= p
    BY <1>1, <1>2
  <2>3. o \in Offset /\ (o - ptr) % SSize = ((i - 1) - p) + SSize
    BY <1>2, <1>3, <2>1, <2>2, BehindPointer DEF SendTypeOK
  <2>4. ~(((i - 1) - p) + SSize < len)
    BY <1>1, <1>2, <2>2 DEF len
  <2>5. tx'[Socket][o] = tx[Socket][o]
    BY <1>1, <1>6, <2>3, <2>4
  <2> QED BY <2>1, <2>5 DEF OutCell
<1>12. ASSUME NEW i \in 1..len, NEW n \in Nat, n = p + i PROVE OutCell(n)' = bytes[i]
  <2>1. PICK o : o = (txRd + n - 1) % SSize
    OBVIOUS
  <2>2. n \in 1..SSize /\ n > p /\ (n - 1) - p = i - 1 /\ i - 1 < len /\ (i - 1) + 1 = i
    BY <1>1, <1>2, <1>12 DEF len
  <2>3. o \in Offset /\ (o - ptr) % SSize = i - 1
    BY <1>2, <1>3, <2>1, <2>2, BehindPointer DEF SendTypeOK
  <2>4. tx'[Socket][o] = bytes[i]
    BY <1>1, <1>6, <2>2, <2>3
  <2> QED BY <2>1, <2>4 DEF OutCell
<1> QED BY <1>4, <1>5, <1>9, <1>10, <1>11, <1>12 DEF p, len

\* What is acknowledged or sent out leaves the ring, and the rest stays.
LEMMA GetRidRing ==
    ASSUME SendTypeOK, OutOK, NEW n \in 0..Len(flight), getRid(n),
           UNCHANGED <<txWr, data, given>>
    PROVE  /\ tx' \in [Sockets -> [Offset -> {NoByte} \cup Bytes]] /\ txRd' \in Pointer
           /\ OutOK' /\ Len(flight') = Len(flight) - n
<1> DEFINE len == Len(flight)
<1>1. /\ SSize \in Nat \ {0} /\ Word \in Nat \ {0} /\ Socket \in Sockets /\ SSize < Word
      /\ txRd \in 0..(Word - 1) /\ txWr \in 0..(Word - 1)
      /\ flight \in Seq(Bytes) /\ len \in Nat /\ len <= SSize /\ n \in 0..len
      /\ (txWr - txRd) % Word = len
  BY SizeTypes DEF SendTypeOK, Pointer, OutOK
<1>2. txRd' = (txRd + n) % Word /\ tx' = release(tx, Socket, txRd, txRd + n)
      /\ flight' = SubSeq(flight, n + 1, len) /\ txWr' = txWr
  BY DEF getRid
<1>3. /\ flight' \in Seq(Bytes) /\ Len(flight') = len - n
      /\ \A i \in 1..(len - n) : flight'[i] = flight[n + i]
  <2>1. n + 1 \in 1..(len + 1)
    BY <1>1
  <2>2. /\ SubSeq(flight, n + 1, len) \in Seq(Bytes)
        /\ Len(SubSeq(flight, n + 1, len))
             = IF n + 1 <= len THEN len - (n + 1) + 1 ELSE 0
        /\ \A i \in 1..(len - (n + 1) + 1) :
              SubSeq(flight, n + 1, len)[i] = flight[(n + 1) + i - 1]
    BY <1>1, <2>1, SubSeqProperties
  <2> HIDE DEF len
  <2>3. /\ len - (n + 1) + 1 = len - n /\ (~(n + 1 <= len) => len - n = 0)
        /\ \A i \in 1..(len - n) : (n + 1) + i - 1 = n + i
    BY <1>1
  <2> QED BY <1>2, <2>2, <2>3
<1>4. ((txRd + n) - txRd) % Word = n
  <2>1. (txRd + n) - txRd = n /\ n \in 0..(Word - 1)
    BY <1>1
  <2> QED BY <1>1, <2>1, RemainderSmall
<1>5. tx' = [tx EXCEPT ![Socket] = [o \in Offset |->
               IF (o - txRd) % SSize < n THEN NoByte ELSE tx[Socket][o]]]
  BY <1>2, <1>4 DEF release
<1>6. /\ tx' \in [Sockets -> [Offset -> {NoByte} \cup Bytes]]
      /\ \A t \in Sockets \ {Socket} : tx'[t] = tx[t]
      /\ \A o \in Offset :
            ~((o - txRd) % SSize < n) => tx'[Socket][o] = tx[Socket][o]
  BY <1>1, <1>5 DEF SendTypeOK
<1> HIDE DEF len
<1>7. txRd' \in Pointer
  <2>1. txRd + n \in Int
    BY <1>1
  <2> QED BY <1>1, <1>2, <2>1, DivMod DEF Pointer
<1>8. (txWr' - txRd') % Word = len - n
  <2>1. (txWr - ((txRd + n) % Word)) % Word = (txWr - (txRd + n)) % Word
    <3>1. txRd + n \in Int /\ txWr \in Int
      BY <1>1
    <3> QED BY <1>1, <3>1, RemainderOfDifference
  <2>2. (((txWr - txRd) % Word) + (-n)) % Word = ((txWr - txRd) + (-n)) % Word
    <3>1. txWr - txRd \in Int /\ -n \in Int
      BY <1>1
    <3> QED BY <1>1, <3>1, RemainderOfSum
  <2>3. txWr - (txRd + n) = (txWr - txRd) + (-n) /\ len + (-n) = len - n
        /\ len - n \in 0..(Word - 1)
    BY <1>1
  <2>4. (len - n) % Word = len - n
    BY <1>1, <2>3, RemainderSmall
  <2> QED BY <1>1, <1>2, <2>1, <2>2, <2>3, <2>4
<1>9. ASSUME NEW i \in 1..(len - n) PROVE OutCell(i)' = flight'[i]
  <2>1. PICK o : o = (txRd + (n + i) - 1) % SSize
    OBVIOUS
  <2>2. n + i \in 1..SSize /\ n + i \in 1..len /\ n + i > 0 /\ ((n + i) - 1) - 0 = n + i - 1
        /\ 0 \in 0..SSize /\ txRd + 0 = txRd /\ n + i - 1 >= n /\ i \in Int
    BY <1>1
  <2>3. o \in Offset /\ (o - txRd) % SSize = n + i - 1
    <3>1. txRd = (txRd + 0) % Word
      BY <1>1, <2>2, RemainderSmall
    <3> DEFINE j == n + i
    <3>2. j \in 1..SSize /\ o = (txRd + j - 1) % SSize /\ j > 0 /\ (j - 1) - 0 = n + i - 1
      BY <2>1, <2>2
    <3> HIDE DEF j
    <3> QED BY <2>2, <3>1, <3>2, BehindPointer DEF SendTypeOK
  <2>4. o = (txRd' + i - 1) % SSize
    <3>1. (((txRd + n) % Word) + (i - 1)) % SSize = ((txRd + n) + (i - 1)) % SSize
      <4>1. txRd + n \in Int /\ i - 1 \in Int
        BY <1>1, <2>2
      <4> QED BY <4>1, OffsetFurther
    <3>2. (txRd + n) + (i - 1) = txRd + (n + i) - 1
      BY <1>1, <2>2
    <3>3. txRd' + i - 1 = txRd' + (i - 1)
      BY <1>1, <1>7, <2>2 DEF Pointer
    <3> QED BY <1>2, <2>1, <3>1, <3>2, <3>3
  <2>5. OutCell(i)' = tx[Socket][o]
    <3>1. ~((o - txRd) % SSize < n)
      BY <1>1, <2>2, <2>3
    <3>2. tx'[Socket][o] = tx[Socket][o]
      BY <1>6, <2>3, <3>1
    <3>3. OutCell(i)' = tx'[Socket][o]
      BY <2>4 DEF OutCell
    <3> QED BY <3>2, <3>3
  <2>6. OutCell(n + i) = flight[n + i] /\ OutCell(n + i) = tx[Socket][o]
    BY <2>1, <2>2 DEF OutOK, OutCell, len
  <2> QED BY <1>3, <2>5, <2>6
<1>10. OutOK'
  <2>1. len - n <= SSize
    BY <1>1
  <2> QED BY <1>2, <1>3, <1>6, <1>8, <1>9, <2>1 DEF OutOK
<1> QED BY <1>3, <1>6, <1>7, <1>10 DEF len

\* The beginning of a piece.
LEMMA PieceBegins ==
    ASSUME NEW buf \in Pieces, NEW room \in Nat
    PROVE  /\ buf \in Seq(Bytes) /\ Len(buf) \in Nat
           /\ SubSeq(buf, 1, smaller(Len(buf), room)) \in Seq(Bytes)
           /\ Len(SubSeq(buf, 1, smaller(Len(buf), room))) = smaller(Len(buf), room)
           /\ smaller(Len(buf), room) \in Nat
           /\ smaller(Len(buf), room) <= room /\ smaller(Len(buf), room) <= Len(buf)
<1> DEFINE n == smaller(Len(buf), room)
<1>1. buf \in Seq(Bytes) /\ Len(buf) \in Nat
  BY SocketSendAssumption
<1>2. n \in Nat /\ n <= room /\ n <= Len(buf)
  BY <1>1 DEF smaller
<1> HIDE DEF n
<1>3. SubSeq(buf, 1, n) \in Seq(Bytes) /\ Len(SubSeq(buf, 1, n)) = n
  BY <1>1, <1>2, SubSeqProperties
<1> QED BY <1>1, <1>2, <1>3 DEF n

\* A SEND adds what was accepted to what is in flight, unless the connection is gone.
LEMMA CommandRing ==
    ASSUME SendTypeOK, OutOK, command, txRd' = txRd,
           {data', given'} \subseteq Seq(Bytes), Len(flight) + Len(given') <= SSize,
           \A t \in Sockets \ {Socket} : tx'[t] = Cleared,
           \A i \in 1..Len(flight) : OutCell(i)' = flight[i],
           \A i \in 1..Len(given') : \A n \in Nat :
              n = Len(flight) + i => OutCell(n)' = given'[i],
           txNew' = (txWr + Len(given')) % Word
    PROVE  OutOK' /\ sending' \in BOOLEAN /\ txWr' \in Pointer
<1> DEFINE len == Len(flight)
           more == Len(given')
<1>1. /\ SSize \in Nat \ {0} /\ Word \in Nat \ {0} /\ SSize < Word
      /\ txRd \in 0..(Word - 1) /\ txWr \in 0..(Word - 1)
      /\ flight \in Seq(Bytes) /\ len \in Nat /\ more \in Nat /\ len + more <= SSize
      /\ (txWr - txRd) % Word = len
  BY SizeTypes, SMTT(30) DEF SendTypeOK, Pointer, OutOK
<1>2. CASE UNCHANGED <<txWr, flight>> /\ sending' = FALSE
  BY <1>1, <1>2 DEF OutOK, Pointer
<1>3. CASE sending' = TRUE /\ txWr' = txNew' /\ flight' = flight \o given'
  <2>1. /\ flight' \in Seq(Bytes) /\ Len(flight') = len + more
        /\ \A i \in 1..(len + more) :
              flight'[i] = IF i <= len THEN flight[i] ELSE given'[i - len]
    <3>1. PICK g \in Seq(Bytes) : g = given'
      OBVIOUS
    <3>2. /\ flight \o g \in Seq(Bytes) /\ Len(flight \o g) = Len(flight) + Len(g)
          /\ \A i \in 1..(Len(flight) + Len(g)) :
                (flight \o g)[i] = IF i <= Len(flight) THEN flight[i]
                                   ELSE g[i - Len(flight)]
      BY <1>1, ConcatProperties
    <3> QED BY <1>3, <3>1, <3>2
  <2> HIDE DEF len, more
  <2>2. (txWr' - txRd') % Word = len + more /\ txWr' \in Pointer
    <3>1. (((txWr + more) % Word) + (-txRd)) % Word = ((txWr + more) + (-txRd)) % Word
      <4>1. txWr + more \in Int /\ -txRd \in Int
        BY <1>1
      <4> QED BY <1>1, <4>1, RemainderOfSum
    <3>2. (((txWr - txRd) % Word) + more) % Word = ((txWr - txRd) + more) % Word
      <4>1. txWr - txRd \in Int /\ more \in Int
        BY <1>1
      <4> QED BY <1>1, <4>1, RemainderOfSum
    <3>3. (txWr + more) % Word \in 0..(Word - 1)
      <4>1. txWr + more \in Int
        BY <1>1
      <4> QED BY <1>1, <4>1, DivMod
    <3>4. (txWr + more) + (-txRd) = (txWr - txRd) + more /\ len + more \in 0..(Word - 1)
          /\ ((txWr + more) % Word) + (-txRd) = ((txWr + more) % Word) - txRd
      BY <1>1, <3>3
    <3>5. (len + more) % Word = len + more
      BY <1>1, <3>4, RemainderSmall
    <3>6. txWr' = (txWr + more) % Word /\ txRd' = txRd
      BY <1>3 DEF more
    <3> QED BY <1>1, <3>1, <3>2, <3>3, <3>4, <3>5, <3>6 DEF Pointer
  <2>3. ASSUME NEW i \in 1..(len + more) PROVE OutCell(i)' = flight'[i]
    <3>1. CASE i <= len
      <4>1. i \in 1..len
        BY <1>1, <3>1
      <4> QED BY <2>1, <3>1, <4>1 DEF len
    <3>2. CASE ~(i <= len)
      <4>1. i - len \in 1..more /\ i \in Nat /\ i = len + (i - len)
        BY <1>1, <3>2
      <4>2. PICK j : j = i - len
        OBVIOUS
      <4>3. OutCell(i)' = given'[j]
        BY <4>1, <4>2 DEF len, more
      <4> QED BY <2>1, <3>2, <4>2, <4>3
    <3> QED BY <3>1, <3>2
  <2> QED BY <1>1, <1>3, <2>1, <2>2, <2>3 DEF OutOK
<1> QED BY <1>2, <1>3 DEF command

LEMMA InitSend == SendInit => SendIInv
<1> SUFFICES ASSUME SendInit PROVE SendIInv
  OBVIOUS
<1>1. /\ Word \in Nat \ {0} /\ SSize \in Nat \ {0} /\ Socket \in Sockets
  BY SizeTypes
<1>2. /\ tx = [t \in Sockets |-> Cleared] /\ txRd = 0 /\ txWr = 0 /\ txNew = 0
      /\ status = opened /\ ir = {} /\ sending = FALSE /\ step = "idle" /\ offset = 0
      /\ data = << >> /\ given = << >> /\ flight = << >> /\ protocol \in {"UDP", "TCP"}
  BY DEF SendInit, BoardInit
<1>3. (0 - 0) % Word = 0
  BY <1>1, RemainderSmall
<1>4. << >> \in Seq(Bytes) /\ Len(<< >>) = 0
  OBVIOUS
<1>5. tx \in [Sockets -> [Offset -> {NoByte} \cup Bytes]]
  BY <1>2 DEF Cleared
<1>6. SendTypeOK
  <2>1. {txRd, txWr, txNew} \subseteq Pointer /\ offset \in 0..SSize /\ Len(data) <= SSize
    BY <1>1, <1>2, <1>4 DEF Pointer
  <2>2. /\ status \in Open \cup {"CLOSED", "UDP"} /\ ir \subseteq {"SEND_OK", "TIMEOUT"}
        /\ sending \in BOOLEAN
        /\ step \in {"idle", "packet", "room", "copy", "done", "ended"}
    BY <1>2 DEF Open, opened
  <2> QED BY <1>5, <2>1, <2>2 DEF SendTypeOK
<1>7. OutOK
  BY <1>1, <1>2, <1>3, <1>4 DEF OutOK
<1>8. PacketOK /\ StepOK
  BY <1>2 DEF PacketOK, StepOK, opened
<1> QED BY <1>6, <1>7, <1>8 DEF SendIInv

\* Steps that leave the ring, the pointers and the bytes alone.
LEMMA RestRingOut ==
    ASSUME OutOK, UNCHANGED <<tx, txRd, txWr, given, flight>>, data' \in Seq(Bytes)
    PROVE  OutOK' /\ \A n \in Int : OutCell(n)' = OutCell(n)
BY DEF OutOK, OutCell

\* The steps of the chip and the network.
LEMMA NetworkSend ==
    ASSUME SendIInv,
           \/ peerAcknowledges \/ peerLeaves \/ connectionBreaks \/ segmentSent
           \/ datagramSent
    PROVE  SendIInv'
<1> USE DEF SendIInv
<1>0. Len(flight) \in Nat /\ (txWr - txRd) % Word = Len(flight) /\ data \in Seq(Bytes)
  BY DEF OutOK
<1>1. CASE peerAcknowledges
  <2>1. PICK n \in 1..Len(flight) : getRid(n)
    BY <1>0, <1>1 DEF peerAcknowledges
  <2>2. /\ UNCHANGED <<txWr, data, given>> /\ protocol = "TCP"
        /\ UNCHANGED <<protocol, txNew, status, ir, sending, step, offset>>
    BY <1>1 DEF peerAcknowledges, board, work, call
  <2>3. /\ tx' \in [Sockets -> [Offset -> {NoByte} \cup Bytes]] /\ txRd' \in Pointer
        /\ OutOK' /\ Len(flight') = Len(flight) - n
    <3>1. n \in 0..Len(flight)
      BY <1>0
    <3> QED BY <2>1, <2>2, <3>1, GetRidRing
  <2>4. SendTypeOK'
    BY <2>2, <2>3 DEF SendTypeOK
  <2>5. PacketOK' /\ StepOK'
    <3>1. step = "copy" => Len(flight') + Len(data) <= SSize
      <4>1. Len(data) \in Nat /\ SSize \in Nat
        BY <1>0, SizeTypes
      <4>2. step = "copy" => Len(flight) + Len(data) <= SSize
        BY <2>2 DEF StepOK
      <4> HIDE DEF SendIInv
      <4> QED BY <1>0, <2>3, <4>1, <4>2
    <3>2. PacketOK'
      BY <2>2 DEF PacketOK, StepOK
    <3>3. StepOK'
      BY <2>2, <3>1 DEF StepOK
    <3> QED BY <3>2, <3>3
  <2> QED BY <2>3, <2>4, <2>5
<1>2. CASE peerLeaves \/ connectionBreaks \/ segmentSent
  <2>1. /\ UNCHANGED <<protocol, tx, txRd, txWr, txNew, step, offset, data, given, flight>>
        /\ protocol = "TCP" /\ status' \in Open \cup {"CLOSED", "UDP"}
        /\ ir' \subseteq {"SEND_OK", "TIMEOUT"} /\ sending' \in BOOLEAN
    BY <1>2 DEF peerLeaves, connectionBreaks, segmentSent, board, pointers, call, history,
                work, SendTypeOK, Open
  <2>2. OutOK'
    BY <1>0, <2>1, RestRingOut
  <2>3. SendTypeOK'
    BY <2>1 DEF SendTypeOK
  <2>4. PacketOK'
    BY <2>1 DEF PacketOK, StepOK
  <2>5. StepOK'
    BY <2>1 DEF StepOK
  <2> QED BY <2>2, <2>3, <2>4, <2>5
<1>3. CASE datagramSent
  <2>1. /\ getRid(Len(flight)) /\ UNCHANGED <<txWr, data, given>> /\ protocol = "UDP"
        /\ sending /\ sending' = FALSE
        /\ UNCHANGED <<protocol, txNew, status, step, offset>>
        /\ \E bit \in {"SEND_OK", "TIMEOUT"} : ir' = ir \cup {bit}
    BY <1>3 DEF datagramSent, board, call
  <2>2. /\ tx' \in [Sockets -> [Offset -> {NoByte} \cup Bytes]] /\ txRd' \in Pointer
        /\ OutOK' /\ Len(flight') = Len(flight) - Len(flight)
    <3>1. PICK n \in 0..Len(flight) : n = Len(flight)
      BY <1>0
    <3> QED BY <2>1, <3>1, GetRidRing
  <2>3. flight' = << >>
    <3>1. flight' \in Seq(Bytes) /\ Len(flight') = 0
      BY <1>0, <2>2 DEF OutOK
    <3> QED BY <3>1
  <2>4. ir = {} /\ step \in {"done", "ended"}
    BY <2>1 DEF StepOK
  <2>5. ir' \in {{"SEND_OK"}, {"TIMEOUT"}}
    BY <2>1, <2>4
  <2>6. SendTypeOK'
    BY <2>1, <2>2, <2>5 DEF SendTypeOK
  <2>7. PacketOK' /\ StepOK'
    BY <2>1, <2>3, <2>4, <2>5 DEF PacketOK, StepOK
  <2> QED BY <2>2, <2>6, <2>7
<1> QED BY <1>1, <1>2, <1>3

\* The steps of socketSend() and of the connection it belongs to.
LEMMA ClientSend ==
    ASSUME SendIInv,
           \/ \E buf \in Pieces : socketSend(buf)
           \/ awaitRoom \/ copyAndSend \/ awaitSent \/ awaitSentUdp \/ reopen
    PROVE  SendIInv'
<1> USE DEF SendIInv
<1>0. /\ Len(flight) \in Nat /\ (txWr - txRd) % Word = Len(flight)
      /\ data \in Seq(Bytes) /\ given \in Seq(Bytes) /\ flight \in Seq(Bytes)
      /\ SSize \in Nat \ {0} /\ << >> \in Seq(Bytes) /\ Len(<< >>) = 0
  BY SizeTypes DEF OutOK
<1>1. ASSUME NEW buf \in Pieces, socketSend(buf) PROVE SendIInv'
  <2>1. /\ UNCHANGED <<protocol, tx, txRd, txWr, txNew, status, ir, sending, offset, given,
                       flight>>
        /\ step = "idle" /\ step' = "room" /\ data' = atMost(buf)
    BY <1>1 DEF socketSend, board, pointers, work, history
  <2>2. data' \in Seq(Bytes) /\ Len(data') <= SSize
    <3>1. /\ SubSeq(buf, 1, smaller(Len(buf), SSize)) \in Seq(Bytes)
          /\ Len(SubSeq(buf, 1, smaller(Len(buf), SSize))) = smaller(Len(buf), SSize)
          /\ smaller(Len(buf), SSize) <= SSize
      BY <1>0, PieceBegins
    <3> QED BY <2>1, <3>1 DEF atMost
  <2>3. OutOK'
    BY <2>1, <2>2, RestRingOut
  <2>4. SendTypeOK'
    BY <2>1, <2>2 DEF SendTypeOK
  <2>5. PacketOK' /\ StepOK'
    BY <2>1 DEF PacketOK, StepOK
  <2> QED BY <2>3, <2>4, <2>5
<1>2. CASE awaitRoom
  <2>1. /\ UNCHANGED <<protocol, tx, txRd, txWr, txNew, status, ir, sending, offset, given,
                       flight>>
        /\ step = "room"
        /\ \/ step' = "copy" /\ data' = << >>
           \/ step' = "copy" /\ data' = data /\ hasRoom(Len(data))
           \/ step' = "room" /\ data' = data
    BY <1>2 DEF awaitRoom, board, pointers, work, history
  <2>2. step' # "packet" /\ step' \notin {"done", "ended"} /\ step \notin {"done", "ended"}
    BY <2>1
  <2>3. data' \in Seq(Bytes) /\ Len(data') <= SSize
    <3>1. Len(data) <= SSize /\ 0 <= SSize
      BY <1>0 DEF SendTypeOK
    <3>2. data' = data \/ data' = << >>
      BY <2>1
    <3> QED BY <1>0, <3>1, <3>2
  <2>4. step' = "copy" => Len(flight) + Len(data') <= SSize
    <3>1. CASE data' = << >>
      <4>1. Len(flight) <= SSize /\ Len(data') = 0
        BY <1>0, <3>1 DEF OutOK
      <4> QED BY <1>0, <4>1
    <3>2. CASE data' = data /\ hasRoom(Len(data))
      <4>1. SSize - Len(flight) >= Len(data) /\ Len(data) \in Nat
        BY <1>0, <3>2 DEF hasRoom, getSnTX_FSR
      <4> QED BY <1>0, <3>2, <4>1
    <3> QED BY <2>1, <3>1, <3>2
  <2>5. OutOK'
    BY <2>1, <2>3, RestRingOut
  <2>6. SendTypeOK'
    BY <2>1, <2>3 DEF SendTypeOK
  <2>7. PacketOK' /\ StepOK'
    BY <2>1, <2>2, <2>4 DEF PacketOK, StepOK
  <2> QED BY <2>5, <2>6, <2>7
<1>3. CASE copyAndSend
  <2>1. /\ step = "copy" /\ putData(0, data) /\ given' = data /\ command /\ step' = "done"
        /\ UNCHANGED <<protocol, txRd, status, ir, offset, data>>
    BY <1>3 DEF copyAndSend, board
  <2>2. /\ Len(flight) + Len(data) <= SSize
        /\ protocol = "UDP" => status = "UDP" /\ ir = {}
    BY <2>1 DEF StepOK
  <2>3. Len(data) \in Nat /\ Len(flight) + 0 + Len(data) <= SSize
        /\ Len(flight) + 0 = Len(flight)
    BY <1>0, <2>2
  <2>4. /\ tx' \in [Sockets -> [Offset -> {NoByte} \cup Bytes]] /\ txNew' \in Pointer
        /\ txNew' = (txWr + 0 + Len(data)) % Word
        /\ \A t \in Sockets \ {Socket} : tx'[t] = Cleared
        /\ \A i \in 1..(Len(flight) + 0) : OutCell(i)' = OutCell(i)
        /\ \A i \in 1..Len(data) : \A n \in Nat :
              n = Len(flight) + 0 + i => OutCell(n)' = data[i]
    BY <1>0, <2>1, <2>3, PutRing
  <2>5. txNew' = (txWr + Len(given')) % Word
    <3>1. txWr + 0 + Len(data) = txWr + Len(data)
      BY <2>3 DEF SendTypeOK, Pointer
    <3> QED BY <2>1, <2>4, <3>1
  <2>6. \A i \in 1..Len(flight) : OutCell(i)' = flight[i]
    BY <2>3, <2>4 DEF OutOK
  <2>7. \A i \in 1..Len(given') : \A n \in Nat :
           n = Len(flight) + i => OutCell(n)' = given'[i]
    BY <2>1, <2>3, <2>4
  <2>8. OutOK' /\ sending' \in BOOLEAN /\ txWr' \in Pointer
    <3>1. {data', given'} \subseteq Seq(Bytes) /\ Len(flight) + Len(given') <= SSize
          /\ txRd' = txRd
      BY <1>0, <2>1, <2>2
    <3> QED BY <2>1, <2>4, <2>5, <2>6, <2>7, <3>1, CommandRing
  <2>9. SendTypeOK'
    BY <2>1, <2>4, <2>8 DEF SendTypeOK
  <2>10. PacketOK' /\ StepOK'
    <3>1. protocol = "UDP" => sending' = TRUE
      BY <2>1 DEF command
    <3> QED BY <2>1, <2>2, <3>1 DEF PacketOK, StepOK
  <2> QED BY <2>8, <2>9, <2>10
<1>4. CASE awaitSent \/ awaitSentUdp
  <2>1. /\ UNCHANGED <<protocol, tx, txRd, txWr, txNew, status, sending, offset, flight>>
        /\ step \in {"done", "ended"} /\ step' = "idle" /\ data' = << >> /\ given' = << >>
        /\ \/ "SEND_OK" \in ir /\ ir' = ir \ {"SEND_OK"}
           \/ "SEND_OK" \notin ir /\ status = "CLOSED" /\ ir' = ir
           \/ "SEND_OK" \notin ir /\ "TIMEOUT" \in ir /\ ir' = ir \ {"SEND_OK", "TIMEOUT"}
    <3>1. ir \ {} = ir
      OBVIOUS
    <3> QED BY <1>4, <3>1 DEF awaitSent, awaitSentUdp, return, board, pointers
  <2>2. SendTypeOK'
    <3>1. ir' \subseteq {"SEND_OK", "TIMEOUT"}
      BY <2>1 DEF SendTypeOK
    <3>2. Len(data') <= SSize
      BY <1>0, <2>1
    <3> QED BY <2>1, <3>1, <3>2 DEF SendTypeOK
  <2>3. OutOK'
    BY <1>0, <2>1 DEF OutOK, OutCell
  <2>4. protocol = "UDP" => ir' = {} /\ ~sending
    BY <2>1 DEF StepOK
  <2>5. PacketOK' /\ StepOK'
    BY <2>1, <2>4 DEF PacketOK, StepOK
  <2> QED BY <2>2, <2>3, <2>5
<1>5. CASE reopen
  <2>1. /\ tx' = [tx EXCEPT ![Socket] = Cleared] /\ txRd' = 0 /\ txWr' = 0 /\ txNew' = 0
        /\ status' = opened /\ ir' = {} /\ sending' = FALSE
        /\ step' = "idle" /\ given' = << >> /\ flight' = << >>
        /\ UNCHANGED <<protocol, offset, data>>
    BY <1>5 DEF reopen, board
  <2>2. tx' \in [Sockets -> [Offset -> {NoByte} \cup Bytes]]
    BY <2>1 DEF SendTypeOK, Cleared
  <2>3. 0 \in Pointer /\ (0 - 0) % Word = 0
    BY SizeTypes, RemainderSmall DEF Pointer
  <2>4. SendTypeOK'
    BY <2>1, <2>2, <2>3 DEF SendTypeOK, Open, opened
  <2>5. OutOK'
    BY <1>0, <2>1, <2>3 DEF OutOK, SendTypeOK
  <2>6. PacketOK' /\ StepOK'
    BY <2>1 DEF PacketOK, StepOK, opened
  <2> QED BY <2>4, <2>5, <2>6
<1> QED BY <1>1, <1>2, <1>3, <1>4, <1>5

\* The steps of EthernetUDP.
LEMMA DatagramSend ==
    ASSUME SendIInv,
           beginPacket \/ (\E buf \in Pieces : udpWrite(buf)) \/ endPacket
    PROVE  SendIInv'
<1> USE DEF SendIInv
<1>0. /\ Len(flight) \in Nat /\ (txWr - txRd) % Word = Len(flight)
      /\ data \in Seq(Bytes) /\ given \in Seq(Bytes) /\ flight \in Seq(Bytes)
      /\ SSize \in Nat \ {0} /\ << >> \in Seq(Bytes) /\ Len(<< >>) = 0
  BY SizeTypes DEF OutOK
<1>1. CASE beginPacket
  <2>1. /\ UNCHANGED <<protocol, tx, txRd, txWr, txNew, status, ir, sending, data, flight>>
        /\ protocol = "UDP" /\ step \notin {"done", "ended"} /\ step' = "packet" /\ offset' = 0
        /\ given' = << >>
    BY <1>1 DEF beginPacket, returned, board, pointers, work
  <2>2. ~sending /\ flight = << >> /\ ir = {}
    BY <2>1 DEF StepOK
  <2>3. OutOK'
    BY <1>0, <2>1 DEF OutOK, OutCell
  <2>4. SendTypeOK'
    BY <1>0, <2>1 DEF SendTypeOK
  <2>5. PacketOK' /\ StepOK'
    BY <1>0, <2>1, <2>2 DEF PacketOK, StepOK
  <2> QED BY <2>3, <2>4, <2>5
<1>2. ASSUME NEW buf \in Pieces, udpWrite(buf) PROVE SendIInv'
  <2>1. step = "packet" /\ protocol = "UDP"
    BY <1>2 DEF udpWrite, StepOK
  <2>2. /\ flight = << >> /\ Len(flight) = 0 /\ offset = Len(given) /\ Len(given) <= SSize
        /\ \A i \in 1..Len(given) : OutCell(i) = given[i]
    BY <1>0, <2>1 DEF PacketOK
  <2>3. PICK b : b = SubSeq(buf, 1, smaller(Len(buf), getSnTX_FSR))
    OBVIOUS
  <2>4. /\ Len(given) + Len(buf) <= SSize /\ putData(offset, b)
        /\ offset' = offset + Len(b) /\ given' = given \o b
        /\ UNCHANGED <<protocol, txRd, txWr, status, ir, sending, step, data, flight>>
    BY <1>2, <2>3 DEF udpWrite, board, work
  <2>5. b \in Seq(Bytes) /\ Len(b) \in Nat /\ Len(b) <= Len(buf) /\ Len(buf) \in Nat
    <3>1. getSnTX_FSR \in Nat
      BY <1>0, <2>2 DEF getSnTX_FSR
    <3> QED BY <2>3, <3>1, PieceBegins
  <2>6. PICK len \in Nat : len = Len(given)
    BY <1>0
  <2>7. len + Len(b) <= SSize
    BY <1>0, <2>4, <2>5, <2>6
  <2>8. /\ tx' \in [Sockets -> [Offset -> {NoByte} \cup Bytes]] /\ txNew' \in Pointer
        /\ txNew' = (txWr + len + Len(b)) % Word
        /\ \A t \in Sockets \ {Socket} : tx'[t] = Cleared
        /\ \A i \in 1..(Len(flight) + len) : OutCell(i)' = OutCell(i)
        /\ \A i \in 1..Len(b) : \A n \in Nat :
              n = Len(flight) + len + i => OutCell(n)' = b[i]
    <3>1. putData(len, b) /\ txRd' = txRd /\ Len(flight) + len + Len(b) <= SSize
      BY <2>2, <2>4, <2>5, <2>6, <2>7
    <3> QED BY <2>5, <3>1, PutRing
  <2>9. /\ given' \in Seq(Bytes) /\ Len(given') = len + Len(b)
        /\ \A i \in 1..(len + Len(b)) : given'[i] = IF i <= len THEN given[i] ELSE b[i - len]
    BY <1>0, <2>4, <2>5, <2>6, ConcatProperties
  <2>10. \A i \in 1..Len(given') : OutCell(i)' = given'[i]
    <3>1. ASSUME NEW i \in 1..(len + Len(b)) PROVE OutCell(i)' = given'[i]
      <4>1. CASE i <= len
        <5>1. i \in 1..len /\ i \in 1..(Len(flight) + len)
          BY <2>2, <2>6, <4>1
        <5> QED BY <2>2, <2>6, <2>8, <2>9, <4>1, <5>1
      <4>2. CASE ~(i <= len)
        <5>1. i - len \in 1..Len(b) /\ i \in Nat /\ i = Len(flight) + len + (i - len)
          BY <2>2, <2>5, <2>6, <4>2
        <5> QED BY <2>8, <2>9, <4>2, <5>1
      <4> QED BY <4>1, <4>2
    <3> QED BY <2>9, <3>1
  <2>11. SendTypeOK'
    <3>1. offset' \in 0..SSize
      BY <1>0, <2>2, <2>4, <2>5, <2>6, <2>7
    <3> QED BY <2>1, <2>4, <2>8, <3>1 DEF SendTypeOK
  <2>12. OutOK'
    BY <1>0, <2>2, <2>4, <2>8, <2>9 DEF OutOK
  <2>13. PacketOK'
    <3>1. txNew' = (txWr + Len(given')) % Word
      <4>1. txWr \in Int
        BY SizeTypes DEF SendIInv, SendTypeOK, Pointer
      <4>2. PICK m \in Nat : m = Len(b)
        BY <2>5
      <4>3. txWr + len + m = txWr + (len + m)
        BY <2>6, <4>1
      <4> QED BY <2>8, <2>9, <4>2, <4>3
    <3>2. offset' = Len(given') /\ Len(given') <= SSize
      BY <2>2, <2>4, <2>6, <2>7, <2>9
    <3> QED BY <2>2, <2>4, <2>10, <3>1, <3>2 DEF PacketOK
  <2>14. StepOK'
    BY <2>1, <2>2, <2>4 DEF StepOK
  <2> QED BY <2>11, <2>12, <2>13, <2>14
<1>3. CASE endPacket
  <2>1. /\ step = "packet" /\ given # << >> /\ given' = given /\ txNew' = txNew /\ command
        /\ step' = "ended" /\ UNCHANGED <<protocol, tx, txRd, status, ir, offset, data>>
    BY <1>3 DEF endPacket, board
  <2>2. protocol = "UDP" /\ ~sending /\ ir = {}
    BY <2>1 DEF StepOK
  <2>3. /\ flight = << >> /\ Len(flight) = 0 /\ Len(given) <= SSize
        /\ txNew = (txWr + Len(given)) % Word
        /\ \A i \in 1..Len(given) : OutCell(i) = given[i]
    BY <1>0, <2>1 DEF PacketOK
  <2>4. \A n \in Int : OutCell(n)' = OutCell(n)
    BY <2>1 DEF OutCell
  <2>5. OutOK' /\ sending' \in BOOLEAN /\ txWr' \in Pointer
    <3>1. Len(given) \in Nat
      BY <1>0
    <3>2. {data', given'} \subseteq Seq(Bytes) /\ Len(flight) + Len(given') <= SSize
          /\ txRd' = txRd /\ txNew' = (txWr + Len(given')) % Word
      BY <1>0, <2>1, <2>3, <3>1
    <3>3. \A t \in Sockets \ {Socket} : tx'[t] = Cleared
      BY <2>1 DEF OutOK
    <3>4. \A i \in 1..Len(flight) : OutCell(i)' = flight[i]
      BY <2>3
    <3>5. ASSUME NEW i \in 1..Len(given'), NEW n \in Nat, n = Len(flight) + i
          PROVE  OutCell(n)' = given'[i]
      <4>1. n = i /\ i \in 1..Len(given)
        BY <2>1, <2>3, <3>1, <3>5
      <4> QED BY <2>1, <2>3, <2>4, <4>1
    <3> QED BY <2>1, <3>2, <3>3, <3>4, <3>5, CommandRing
  <2>6. sending' = TRUE
    BY <2>1, <2>2 DEF command
  <2>7. SendTypeOK'
    BY <2>1, <2>5 DEF SendTypeOK
  <2>8. PacketOK' /\ StepOK'
    BY <2>1, <2>2, <2>6 DEF PacketOK, StepOK
  <2> QED BY <2>5, <2>7, <2>8
<1> QED BY <1>1, <1>2, <1>3

LEMMA NextSend == SendIInv /\ SendNext => SendIInv'
<1> SUFFICES ASSUME SendIInv, SendNext PROVE SendIInv'
  OBVIOUS
<1> QED BY NetworkSend, ClientSend, DatagramSend DEF SendNext

LEMMA RestSend == SendIInv /\ UNCHANGED sendVars => SendIInv'
<1> SUFFICES ASSUME SendIInv, UNCHANGED sendVars PROVE SendIInv'
  OBVIOUS
<1>1. UNCHANGED <<protocol, tx, txRd, txWr, txNew, status, ir, sending, step, offset, data,
                  given, flight>>
  BY DEF sendVars, board, pointers, work, call, history
<1>2. \A n \in Int : OutCell(n)' = OutCell(n)
  BY <1>1 DEF OutCell
<1> QED BY <1>1, <1>2 DEF SendIInv, SendTypeOK, OutOK, OutCell, PacketOK, StepOK

-----------------------------------------------------------------------------
(***************************************************************************)
(* The socket.                                                             *)
(***************************************************************************)
IInv == ReceiveIInv /\ SendIInv

LEMMA InitIInv == Init => IInv
BY InitReceive, InitSend DEF Init, IInv

LEMMA NextIInv == IInv /\ [Next]_vars => IInv'
<1> SUFFICES ASSUME IInv, [Next]_vars PROVE IInv'
  OBVIOUS
<1>1. CASE ReceiveNext /\ UNCHANGED sendVars
  BY <1>1, NextReceive, RestSend DEF IInv
<1>2. CASE SendNext /\ UNCHANGED receiveVars
  BY <1>2, NextSend, RestReceive DEF IInv
<1>3. CASE UNCHANGED vars
  BY <1>3, RestReceive, RestSend DEF IInv, vars
<1> QED BY <1>1, <1>2, <1>3 DEF Next

\* Every count and pointer stays in its range, whatever arrives and is read, written and
\* acknowledged; in particular no write asks for more room than a ring has.
THEOREM TypeCorrect == Spec => []TypeOK
<1>1. IInv => TypeOK
  BY DEF IInv, TypeOK, ReceiveIInv, RingOK, CallsOK, ReceiveTypeOK, SendIInv
<1> QED BY <1>1, InitIInv, NextIInv, PTL DEF Spec

\* The driver's pointer and counts agree with the chip's for rings and batches of any size
\* (socketRecv() and socketRecvAvailable() of socket.cpp).
THEOREM PointersCorrect == Spec => []PointersAgree
<1>1. IInv => PointersAgree
  BY DEF IInv, ReceiveIInv, RingOK
<1> QED BY <1>1, InitIInv, NextIInv, PTL DEF Spec

\* parsePacket() never loops in vain: what remains of a datagram is known to the driver,
\* however datagrams of any length were received and read (EthernetUdp.cpp).
THEOREM RemainingCovered == Spec => []RemainingIsThere
<1>1. IInv => RemainingIsThere
  <2> SUFFICES ASSUME RingOK, CallsOK, ContentOK PROVE remaining <= RX_RSR
    BY DEF IInv, ReceiveIInv, RemainingIsThere
  <2>1. CASE protocol = "UDP"
    BY <2>1, KnownCovers DEF ContentOK
  <2>2. CASE protocol = "TCP"
    <3>1. remaining = 0 /\ RX_RSR \in Nat
      BY <2>2, SizeTypes DEF CallsOK, RingOK
    <3> QED BY <3>1
  <2> QED BY <2>1, <2>2 DEF CallsOK
<1> QED BY <1>1, InitIInv, NextIInv, PTL DEF Spec

\* What is in flight is byte for byte what was written, and in no other socket's buffer, for
\* writes of any content and length (socketSend(), socketBufferData(), socketSendUDP()).
THEOREM SentAsWritten == Spec => []InFlightIsWritten
<1>1. IInv => InFlightIsWritten
  <2> SUFFICES ASSUME OutOK PROVE InFlightIsWritten
    BY DEF IInv, SendIInv
  <2>1. between(tx, Socket, txRd, txWr) = [i \in 1..Len(flight) |-> OutCell(i)]
    BY DEF between, OutOK, OutCell
  <2>2. [i \in 1..Len(flight) |-> OutCell(i)] = flight
    <3>1. flight \in Seq(Bytes) /\ \A i \in 1..Len(flight) : OutCell(i) = flight[i]
      BY DEF OutOK
    <3>2. flight = [i \in 1..Len(flight) |-> flight[i]]
      BY <3>1
    <3> QED BY <3>1, <3>2
  <2> QED BY <2>1, <2>2 DEF InFlightIsWritten, OutOK
<1> QED BY <1>1, InitIInv, NextIInv, PTL DEF Spec
-----------------------------------------------------------------------------
(***************************************************************************)
(* The promise to a reader.                                                *)
(***************************************************************************)
\* How much is left of the datagram that is being read, or of the stream.
Left == IF protocol = "TCP" THEN fresh ELSE remaining

\* A sequence of N elements is its first k and its last N - k.
LEMMA SplitAt ==
    ASSUME NEW N \in Nat, NEW k \in 0..N, NEW s, s = [i \in 1..N |-> s[i]]
    PROVE  /\ Len(s) = N
           /\ SubSeq(s, 1, k) = [i \in 1..k |-> s[i]]
           /\ SubSeq(s, k + 1, N) = [i \in 1..(N - k) |-> s[k + i]]
<1> DEFINE S == {s[i] : i \in 1..N}
<1>1. s \in Seq(S) /\ Len(s) = N
  OBVIOUS
<1>2. SubSeq(s, 1, k) = [i \in 1..k |-> s[i]]
  <2>1. /\ SubSeq(s, 1, k) \in Seq(S) /\ Len(SubSeq(s, 1, k)) = k
        /\ \A i \in 1..k : SubSeq(s, 1, k)[i] = s[i]
    OBVIOUS
  <2> QED BY <2>1
<1>3. SubSeq(s, k + 1, N) = [i \in 1..(N - k) |-> s[k + i]]
  <2>1. /\ SubSeq(s, k + 1, N) \in Seq(S) /\ Len(SubSeq(s, k + 1, N)) = N - k
        /\ \A i \in 1..(N - k) : SubSeq(s, k + 1, N)[i] = s[k + i]
    OBVIOUS
  <2> QED BY <2>1
<1> QED BY <1>1, <1>2, <1>3

\* What is unread lies from the driver's read pointer on.
LEMMA UnreadIs ==
    ReceiveIInv => /\ Left \in Nat /\ Left <= fresh
                   /\ unread = [i \in 1..Left |-> Cell(i)] /\ Len(unread) = Left
<1> SUFFICES ASSUME RingOK, CallsOK, ContentOK
             PROVE  /\ Left \in Nat /\ Left <= fresh
                    /\ unread = [i \in 1..Left |-> Cell(i)] /\ Len(unread) = Left
  BY DEF ReceiveIInv
<1>1. fresh \in Nat /\ RX_RSR \in Nat /\ RX_RSR <= fresh /\ remaining \in Nat
  BY RingCounts, SizeTypes DEF RingOK, CallsOK
<1>2. protocol # "TCP" => remaining <= fresh
  <2>1. protocol = "UDP" => remaining <= RX_RSR
    BY KnownCovers DEF ContentOK
  <2> QED BY <1>1, <2>1 DEF CallsOK
<1>3. Left \in Nat /\ Left <= fresh
  BY <1>1, <1>2 DEF Left
<1>4. ahead = [i \in 1..fresh |-> Cell(i)]
  BY AheadIs
<1>5. ahead = [i \in 1..fresh |-> ahead[i]]
  BY <1>4
<1>6. Len(ahead) = fresh
  BY <1>1, <1>4
<1>7. unread = SubSeq(ahead, 1, Left)
  <2>1. protocol # "TCP" => smaller(remaining, fresh) = remaining
    BY <1>1, <1>2, SmallerIs
  <2> QED BY <1>6, <2>1 DEF unread, Left
<1>8. SubSeq(ahead, 1, Left) = [i \in 1..Left |-> ahead[i]]
  <2>1. Left \in 0..fresh
    BY <1>1, <1>3
  <2> QED BY <1>1, <1>5, <2>1, SplitAt
<1>9. \A i \in 1..Left : ahead[i] = Cell(i)
  BY <1>1, <1>3, <1>4
<1>10. unread = [i \in 1..Left |-> Cell(i)]
  BY <1>7, <1>8, <1>9
<1> QED BY <1>3, <1>10

LEMMA UnreadNext ==
    (ReceiveIInv => /\ Left \in Nat /\ Left <= fresh
                    /\ unread = [i \in 1..Left |-> Cell(i)] /\ Len(unread) = Left)'
BY UnreadIs, PTL

LEMMA UnreadKept ==
    ASSUME ReceiveIInv, ReceiveIInv', Left' = Left, \A i \in 1..Left : Cell(i)' = Cell(i)
    PROVE  unread' = unread
BY UnreadIs, UnreadNext

\* Taking the first k bytes of what is unread is a read().
LEMMA ReadRefines ==
    ASSUME ReceiveIInv, ReceiveIInv', NEW k \in 0..Left, Left' = Left - k,
           \A i \in 1..(Left - k) : Cell(i)' = Cell(i + k),
           result' = [i \in 1..k |-> Cell(i)], UNCHANGED arrived
    PROVE  inbox!Read
<1>1. PICK N : N = Left
  OBVIOUS
<1>2. /\ N \in Nat /\ k \in 0..N /\ Len(unread) = N
      /\ unread = [i \in 1..N |-> Cell(i)]
  BY <1>1, UnreadIs
<1>3. unread = [i \in 1..N |-> unread[i]] /\ \A i \in 1..N : unread[i] = Cell(i)
  BY <1>2
<1>4. /\ SubSeq(unread, 1, k) = [i \in 1..k |-> unread[i]]
      /\ SubSeq(unread, k + 1, N) = [i \in 1..(N - k) |-> unread[k + i]]
  BY <1>2, <1>3, SplitAt
<1>5. result' = SubSeq(unread, 1, k)
  <2>1. \A i \in 1..k : unread[i] = Cell(i)
    BY <1>2, <1>3
  <2> QED BY <1>4, <2>1
<1>6. unread' = SubSeq(unread, k + 1, N)
  <2>1. unread' = [i \in 1..(N - k) |-> Cell(i)']
    BY <1>1, UnreadNext
  <2>2. ASSUME NEW i \in 1..(N - k) PROVE Cell(i)' = unread[k + i]
    <3>1. k + i \in 1..N /\ k + i = i + k
      BY <1>2
    <3> QED BY <1>1, <1>3, <3>1
  <2> QED BY <1>4, <2>1, <2>2
<1> QED BY <1>2, <1>5, <1>6 DEF inbox!Read
\* Opening the socket again: nothing is unread.
LEMMA ReopenRefines ==
    ASSUME ReceiveIInv', Left' = 0, result' = << >>, arrived' = << >>
    PROVE  inbox!Reopen
<1>1. unread' = [i \in 1..0 |-> Cell(i)']
  BY UnreadNext
<1>2. unread' = << >>
  BY <1>1
<1> QED BY <1>2 DEF inbox!Reopen

\* A datagram leaves what is unread alone, and a byte of a connection is added to it.
LEMMA ArriveRefines ==
    ASSUME ReceiveIInv, ReceiveIInv',
           \/ \E d \in Datagram : datagramArrives(d)
           \/ \E b \in Byte : byteArrives(b)
    PROVE  inbox!Arrive
<1>0. RingOK /\ CallsOK /\ ContentOK
  BY DEF ReceiveIInv
<1>1. ASSUME NEW d \in Datagram, datagramArrives(d) PROVE inbox!Arrive
  <2>1. \A n \in 1..fresh : Cell(n)' = Cell(n)
    BY <1>0, <1>1, ArrivalLaid
  <2>2. /\ arrived' = Append(arrived, d) /\ result' = result /\ Left' = Left
    BY <1>1 DEF datagramArrives, store, board, reader, Left
  <2>3. unread' = unread
    <3>1. fresh \in Nat /\ Left \in Nat /\ Left <= fresh
      BY <1>0, RingCounts, SizeTypes, UnreadIs
    <3>2. \A n \in 1..Left : n \in 1..fresh
      BY <3>1
    <3> QED BY <2>1, <2>2, <3>2, UnreadKept
  <2> QED BY <2>2, <2>3 DEF inbox!Arrive
<1>2. ASSUME NEW b \in Byte, byteArrives(b) PROVE inbox!Arrive
  <2>1. /\ store(<<b>>) /\ protocol = "TCP" /\ protocol' = "TCP" /\ <<b>> \in Seq(Byte)
        /\ UNCHANGED <<result, arrived>>
    BY <1>2 DEF byteArrives, store, board, reader
  <2>2. PICK N : N = fresh
    OBVIOUS
  <2>3. /\ fresh' = N + 1 /\ N \in Nat
        /\ \A n \in 1..N : Cell(n)' = Cell(n)
        /\ Cell(N + 1)' = b
    <3>1. N \in Nat
      BY <1>0, <2>2, RingCounts, SizeTypes
    <3>2. Len(<<b>>) = 1 /\ N + 1 \in (N + 1)..(N + 1) /\ (N + 1) - N = 1 /\ <<b>>[1] = b
      BY <3>1
    <3> QED BY <1>0, <2>1, <2>2, <3>1, <3>2, StoreRing
  <2>4. /\ unread = [i \in 1..N |-> Cell(i)] /\ unread' = [i \in 1..(N + 1) |-> Cell(i)']
    BY <2>1, <2>2, <2>3, UnreadIs, UnreadNext DEF Left
  <2>5. unread' = Append(unread, b)
    <3> DEFINE S == {unread[i] : i \in 1..N} \cup {b}
    <3>1. unread \in Seq(S) /\ Len(unread) = N
      BY <2>3, <2>4
    <3>2. /\ Append(unread, b) \in Seq(S) /\ Len(Append(unread, b)) = N + 1
          /\ \A i \in 1..N : Append(unread, b)[i] = unread[i]
          /\ Append(unread, b)[N + 1] = b
      BY <3>1, AppendProperties
    <3>3. Append(unread, b) = [i \in 1..(N + 1) |-> Append(unread, b)[i]]
      <4> HIDE DEF S
      <4>1. ASSUME NEW s \in Seq(S), Len(s) = N + 1
            PROVE  s = [i \in 1..(N + 1) |-> s[i]]
        BY <4>1
      <4> QED BY <3>2, <4>1
    <3>4. ASSUME NEW i \in 1..(N + 1) PROVE Cell(i)' = Append(unread, b)[i]
      <4>1. i \in 1..N \/ i = N + 1
        BY <2>3
      <4> QED BY <2>3, <2>4, <3>2, <4>1
    <3> HIDE DEF S
    <3> QED BY <2>4, <3>3, <3>4
  <2> QED BY <2>1, <2>5 DEF inbox!Arrive
<1> QED BY <1>1, <1>2

\* parsePacket() takes the next datagram: what is unread is that datagram, each of its bytes.
LEMMA TakeRefines ==
    ASSUME ReceiveIInv, ReceiveIInv', parseHeader, socketRecvAvailable # 0
    PROVE  inbox!Take
<1>1. /\ RingOK /\ CallsOK /\ ContentOK /\ parsing /\ remaining = 0 /\ result = << >>
      /\ result' = result /\ arrived' = Tail(arrived)
      /\ socketRecv(socketRecvAvailable, Header) /\ protocol = "UDP" /\ protocol' = "UDP"
      /\ remaining' = lengthIn(taken(socketRecvAvailable, Header))
  BY DEF ReceiveIInv, parseHeader, CallsOK, board
<1>2. PICK start : Laid(start)
  BY <1>1 DEF ContentOK
<1>3. PICK known : known = socketRecvAvailable
  OBVIOUS
<1>4. PICK d : d = arrived[1]
  OBVIOUS
<1>5. 1 \in 1..Len(arrived) /\ Header <= known /\ known <= fresh
  BY <1>1, <1>2, <1>3, HeaderWaits
<1>6. /\ d.length \in Nat /\ Header \in Nat \ {0} /\ fresh \in Nat /\ known \in Nat
  BY <1>1, <1>3, <1>4, <1>5, DatagramTypes, ReaderTypes, RingCounts, SizeTypes
  DEF RingOK, socketRecvAvailable
<1>7. arrived \in Seq(Datagram) /\ arrived # << >> /\ Head(arrived) = d
  BY <1>1, <1>4, <1>5 DEF CallsOK
<1>8. \A n \in 1..(fresh - Header) : Cell(n)' = Cell(n + Header)
  <2>1. socketRecv(known, Header)
    BY <1>1, <1>3
  <2> QED BY <1>1, <1>5, <1>6, <2>1, RecvRing
<1>9. unread = << >>
  <2>1. Left = 0
    BY <1>1 DEF Left
  <2>2. unread = [i \in 1..0 |-> Cell(i)]
    BY <2>1, UnreadIs
  <2> QED BY <2>2
<1>10. remaining' = d.length
  BY <1>1, <1>2, <1>4, HeaderRead
<1>11. unread' = [i \in 1..d.length |-> Cell(i)']
  BY <1>1, <1>10, UnreadNext DEF Left
<1>12. ASSUME NEW i \in 1..d.length
       PROVE  Cell(i)' = [from |-> d.from, length |-> d.length, at |-> i]
  <2>1. i + Header \in 1..(Header + d.length) /\ i + Header = Header + i
    BY <1>6
  <2>2. start[1] = 0 /\ 0 + (i + Header) = i + Header
    BY <1>1, <1>2, <2>1 DEF Laid
  <2>3. Cell(i + Header) = Framed(d, i + Header)
    BY <1>2, <1>4, <1>5, <2>1, <2>2 DEF Laid
  <2>4. i + Header <= fresh
    BY <1>1, <1>2, <1>4, <1>5, <2>1, <2>2, BlockInside
  <2>5. i \in 1..(fresh - Header) /\ (i + Header) - Header = i
    BY <1>6, <2>1, <2>4
  <2>6. Cell(i)' = Cell(i + Header)
    BY <1>8, <2>5
  <2> QED BY <2>3, <2>5, <2>6 DEF Framed
<1>13. unread' = inbox!payload(d)
  BY <1>11, <1>12 DEF inbox!payload
<1> QED BY <1>1, <1>7, <1>9, <1>13 DEF inbox!Take

\* Each step of the chip and of the program is one of the inbox, or nothing to its reader.
LEMMA ReceiveRefines ==
    ASSUME ReceiveIInv, ReceiveIInv', ReceiveNext
    PROVE  inbox!Next \/ UNCHANGED <<arrived, unread, result>>
<1>0. /\ RingOK /\ CallsOK /\ ContentOK /\ fresh \in Nat /\ RX_RSR \in Nat
      /\ RX_RSR <= fresh /\ remaining \in Nat /\ Left \in Nat /\ Left <= fresh
      /\ socketRecvAvailable \in Nat /\ socketRecvAvailable <= fresh
      /\ socketRecvAvailable = 0 => RX_RSR = 0
  BY RingCounts, SizeTypes, UnreadIs DEF ReceiveIInv, RingOK, CallsOK, socketRecvAvailable
<1> USE DEF inbox!Next
<1>1. CASE \E d \in Datagram : datagramArrives(d)
  BY <1>1, ArriveRefines
<1>2. CASE \E b \in Byte : byteArrives(b)
  BY <1>2, ArriveRefines
<1>3. CASE udpBegin
  <2>1. /\ socketBegin /\ remaining' = 0 /\ result' = << >> /\ protocol' = "UDP"
    BY <1>3 DEF udpBegin, board
  <2>2. arrived' = << >> /\ Left' = 0
    BY <2>1 DEF socketBegin, Left
  <2> QED BY <2>1, <2>2, ReopenRefines
<1>4. CASE listenAgain
  <2>1. /\ socketBegin /\ result' = << >> /\ protocol' = "TCP"
    BY <1>4 DEF listenAgain, board
  <2>2. arrived' = << >> /\ fresh' = 0
    BY <1>0, <2>1, BeginRing
  <2>3. Left' = 0
    BY <2>1, <2>2 DEF Left
  <2> QED BY <2>1, <2>2, <2>3, ReopenRefines
<1>5. ASSUME UNCHANGED <<protocol, rx, RX_RD, remaining, arrived>>, fresh' = fresh,
             result' = << >> \/ result' = result
      PROVE  inbox!Read \/ UNCHANGED <<arrived, unread, result>>
  <2>1. Left' = Left /\ \A i \in Int : Cell(i)' = Cell(i)
    BY <1>5 DEF Left, Cell
  <2>2. CASE result' = result
    BY <1>5, <2>1, <2>2, UnreadKept
  <2>3. CASE result' = << >>
    <3>1. 0 \in 0..Left /\ Left' = Left - 0 /\ \A i \in 1..(Left - 0) : i + 0 = i
      BY <1>0, <2>1
    <3>2. result' = [i \in 1..0 |-> Cell(i)]
      BY <2>3
    <3>3. \A i \in 1..(Left - 0) : Cell(i)' = Cell(i + 0)
      BY <2>1, <3>1
    <3> QED BY <1>5, <3>1, <3>2, <3>3, ReadRefines
  <2> QED BY <1>5, <2>2, <2>3
<1>6. CASE parsePacket
  <2>1. UNCHANGED <<protocol, rx, rxRd, rxWr, RX_RD, RX_inc, remaining, arrived>>
        /\ result' = << >>
    BY <1>6 DEF parsePacket, board, ring, driver
  <2>2. fresh' = fresh
    BY <2>1 DEF fresh, getSnRX_RSR
  <2> QED BY <1>5, <2>1, <2>2
<1>7. CASE discard
  <2>1. /\ socketRecv(RX_RSR, remaining) /\ remaining \in Nat \ {0} /\ parsing
        /\ remaining' = remaining - Len(taken(RX_RSR, remaining))
        /\ arrived' = arrived /\ protocol' = protocol /\ result' = result
        /\ protocol = "UDP" /\ result = << >>
    BY <1>0, <1>7 DEF discard, board, CallsOK
  <2>2. remaining <= RX_RSR
    BY <1>0, <2>1, KnownCovers DEF ContentOK
  <2>3. remaining' = 0
    <3>1. Len(taken(RX_RSR, remaining)) = remaining
      BY <1>0, <2>2, TakenIs
    <3> QED BY <1>0, <2>1, <3>1
  <2>4. unread' = << >>
    <3>1. unread' = [i \in 1..0 |-> Cell(i)']
      BY <2>1, <2>3, UnreadNext DEF Left
    <3> QED BY <3>1
  <2> QED BY <2>1, <2>4 DEF inbox!Discard
<1>8. CASE parseHeader
  <2>1. CASE socketRecvAvailable # 0
    BY <1>8, <2>1, TakeRefines
  <2>2. CASE socketRecvAvailable = 0
    <3>1. UNCHANGED <<protocol, rx, rxRd, rxWr, RX_RD, RX_inc, remaining, arrived, result>>
      BY <1>8, <2>2 DEF parseHeader, ring, board
    <3>2. fresh' = fresh
      BY <3>1 DEF fresh, getSnRX_RSR
    <3> QED BY <1>5, <3>1, <3>2
  <2> QED BY <2>1, <2>2
<1>9. ASSUME NEW known \in Nat, NEW k \in Nat \ {0}, k <= known, known <= fresh, k <= Left,
             socketRecv(known, k), result' = taken(known, k), Left' = Left - k,
             arrived' = arrived
      PROVE  inbox!Read
  <2>1. result' = [i \in 1..k |-> Cell(i)]
    BY <1>0, <1>9, TakenIs
  <2>2. \A i \in 1..(fresh - k) : Cell(i)' = Cell(i + k)
    BY <1>0, <1>9, RecvRing
  <2>3. k \in 0..Left /\ \A i \in 1..(Left - k) : i \in 1..(fresh - k)
    BY <1>0, <1>9
  <2> QED BY <1>9, <2>1, <2>2, <2>3, ReadRefines
<1>10. ASSUME NEW len \in ReadSizes, udpRead(len) PROVE inbox!Read
  <2>1. PICK k : k = smaller(len, remaining)
    OBVIOUS
  <2>2. PICK known : known = RX_RSR
    OBVIOUS
  <2>3. /\ protocol = "UDP" /\ protocol' = "UDP" /\ remaining \in Nat \ {0}
        /\ socketRecv(known, k) /\ result' = taken(known, k)
        /\ remaining' = remaining - Len(result') /\ arrived' = arrived
    BY <1>0, <1>10, <2>1, <2>2 DEF udpRead, board
  <2>4. k \in Nat \ {0} /\ k <= remaining
    <3>1. len \in Nat \ {0}
      BY ReaderTypes
    <3> QED BY <2>1, <2>3, <3>1 DEF smaller
  <2>5. remaining <= known
    BY <1>0, <2>2, <2>3, KnownCovers DEF ContentOK
  <2>6. known \in Nat /\ known <= fresh /\ k <= known
    BY <1>0, <2>2, <2>4, <2>5
  <2>7. Len(taken(known, k)) = k
    BY <1>0, <2>4, <2>6, TakenIs
  <2>8. k <= Left /\ Left' = Left - k
    BY <2>3, <2>4, <2>7 DEF Left
  <2> QED BY <1>9, <2>3, <2>4, <2>6, <2>8
<1>11. CASE clientRead
  <2>1. /\ protocol = "TCP" /\ protocol' = "TCP" /\ UNCHANGED <<remaining, arrived>>
    BY <1>11 DEF clientRead, board
  <2>2. CASE socketRecvAvailable = 0
    <3>1. UNCHANGED <<rx, rxRd, rxWr, RX_RD, RX_inc>> /\ result' = << >>
      BY <1>11, <2>2 DEF clientRead, ring
    <3>2. fresh' = fresh
      BY <3>1 DEF fresh, getSnRX_RSR
    <3> QED BY <1>5, <2>1, <3>1, <3>2
  <2>3. CASE socketRecvAvailable # 0
    <3>1. PICK known : known = socketRecvAvailable
      OBVIOUS
    <3>2. /\ socketRecv(known, 1) /\ known \in Nat /\ 1 <= known /\ known <= fresh
          /\ result' = taken(known, 1) /\ 1 \in Nat \ {0}
      BY <1>0, <1>11, <2>3, <3>1 DEF clientRead
    <3>3. fresh' = fresh - 1
      BY <1>0, <3>2, RecvRing
    <3>4. Left' = Left - 1 /\ 1 <= Left
      BY <1>0, <2>1, <3>2, <3>3 DEF Left
    <3> QED BY <1>9, <2>1, <3>2, <3>4
  <2> QED BY <2>2, <2>3
<1> QED
  BY <1>1, <1>2, <1>3, <1>4, <1>6, <1>7, <1>8, <1>10, <1>11 DEF ReceiveNext
LEMMA StepRefines ==
    ASSUME IInv, IInv', [Next]_vars
    PROVE  [inbox!Next]_<<arrived, unread, result>>
<1>1. CASE ReceiveNext
  BY <1>1, ReceiveRefines DEF IInv
<1>2. CASE UNCHANGED receiveVars
  <2>1. UNCHANGED <<protocol, rx, rxWr, RX_RD, remaining, arrived, result>>
    BY <1>2 DEF receiveVars, board, ring, driver, reader
  <2>2. ahead' = ahead
    BY <2>1 DEF ahead, between
  <2>3. unread' = unread
    BY <2>1, <2>2 DEF unread
  <2> QED BY <2>1, <2>3
<1>3. CASE UNCHANGED vars
  BY <1>2, <1>3 DEF vars
<1> QED BY <1>1, <1>2, <1>3 DEF Next

\* The driver's counts and pointers, its batches and the wrap of the ring never show to the
\* program: whatever arrives and is read in whatever pieces, datagrams are found one by one
\* in the order of their arrival, each with its own bytes and no other's, and a connection
\* is the stream of its bytes, each read once (socketRecv() of socket.cpp, EthernetUdp.cpp,
\* EthernetClient.cpp).
THEOREM Refinement == Spec => ImplementsInbox
<1>1. Init => inbox!Init
  <2> SUFFICES ASSUME Init PROVE inbox!Init
    OBVIOUS
  <2>1. ReceiveIInv /\ remaining = 0 /\ arrived = << >> /\ result = << >>
    BY InitReceive DEF Init, ReceiveInit
  <2>2. Left = 0
    <3>1. fresh = 0
      <4>1. (0 - 0) % Word = 0
        BY SizeTypes, RemainderSmall
      <4> QED BY <4>1 DEF Init, ReceiveInit, fresh, getSnRX_RSR
    <3> QED BY <2>1, <3>1 DEF Left
  <2>3. unread = [i \in 1..0 |-> Cell(i)]
    BY <2>1, <2>2, UnreadIs
  <2>4. unread = << >>
    BY <2>3
  <2> QED BY <2>1, <2>4 DEF inbox!Init
<1> QED
  BY <1>1, InitIInv, NextIInv, StepRefines, PTL DEF Spec, inbox!Spec, ImplementsInbox
=============================================================================
