----------------------------- MODULE ChipMemory -----------------------------
(***************************************************************************)
(* The buffers of the Ethernet chip as the driver addresses them           *)
(* (w5100.cpp, w5100.h, and read_data() and write_data() of socket.cpp).   *)
(* The chip has one region for all transmit buffers and one for all        *)
(* receive buffers, SSize bytes for each socket, used as a ring.  Pointers *)
(* into a ring are 16-bit counters that never return to 0 on their own.    *)
(* Addresses count from the beginning of the region.  One socket is        *)
(* followed.                                                               *)
(*                                                                         *)
(*   chip, protocol - which chip it is and what the socket is open for;    *)
(*               neither changes                                           *)
(***************************************************************************)
EXTENDS Integers, Sequences

CONSTANTS NumSockets,  \* MAX_SOCK_NUM, 8
          SSize,       \* 2048 bytes, a power of two
          Word,        \* number of values of a uint16_t, 2^16
          Chips,       \* 55 on this board, 52 and 51 before it
          Socket,      \* the socket's number
          NoByte       \* what a cell holds that belongs to no data

ASSUME ChipMemoryAssumption ==
    /\ {NumSockets, SSize, Word} \subseteq Nat \ {0}
    /\ Word % SSize = 0 /\ SSize < Word
    /\ Socket \in 0..(NumSockets - 1) /\ Chips \subseteq {51, 52, 55}

VARIABLES chip, protocol

board == <<chip, protocol>>

BoardInit == chip \in Chips /\ protocol \in {"UDP", "TCP"}

smaller(a, b) == IF a < b THEN a ELSE b

Sockets == 0..(NumSockets - 1)
Offset == 0..(SSize - 1)
Pointer == 0..(Word - 1)

\* Cells that hold no data.
Cleared == [o \in Offset |-> NoByte]

\* SBASE(s), RBASE(s)
base(s) == s * SSize

\* Only the W5500 takes an offset that it wraps itself.
hasOffsetAddressMapping == chip = 55

\* The socket and the offset that a linear address means ...
linear(addr, i) == <<((addr + i) \div SSize) % NumSockets, (addr + i) % SSize>>

\* ... and to the W5500, which gets the socket in the control byte, once for a transfer.
controlled(addr, i) == <<(addr \div SSize) % NumSockets, (addr + i) % SSize>>

\* Where byte i of one transfer, W5100.read() or W5100.write(), that begins at addr goes.
access(addr, i) == IF chip = 55 THEN controlled(addr, i) ELSE linear(addr, i)

\* Not the code: a ring that is never split where it wraps.
place_neverSplit(s, ptr, len, i) == access(base(s) + (ptr % SSize), i)

\* Where read_data() and write_data() find byte i of len bytes at pointer ptr: one transfer
\* if the chip wraps by itself or nothing wraps, else one to the end of the ring and one
\* from its beginning.
place(s, ptr, len, i) ==
    LET start == ptr % SSize
        size == SSize - start
    IN  IF hasOffsetAddressMapping \/ start + len <= SSize \/ i < size
        THEN access(base(s) + start, i)
        ELSE access(base(s), i - size)

\* read_data(): the bytes at ptr.
read_data(memory, s, ptr, len) ==
    [i \in 1..len |-> LET p == place(s, ptr, len, i - 1) IN memory[p[1]][p[2]]]

\* The copy of data to ptr in write_data().
write_data(memory, s, ptr, data) ==
    [t \in Sockets |-> [o \in Offset |->
        LET hit == {i \in 1..Len(data) : place(s, ptr, Len(data), i - 1) = <<t, o>>}
        IN  IF hit = {} THEN memory[t][o] ELSE data[CHOOSE i \in hit : TRUE]]]

\* What the chip itself holds in the ring of socket s between two pointers, and the ring
\* with these cells released.
between(memory, s, from, to) ==
    [i \in 1..((to - from) % Word) |-> memory[s][(from + i - 1) % SSize]]
release(memory, s, from, to) ==
    [memory EXCEPT ![s] = [o \in Offset |->
        IF (o - from) % SSize < (to - from) % Word THEN NoByte ELSE memory[s][o]]]
=============================================================================
