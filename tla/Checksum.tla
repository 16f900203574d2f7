------------------------------ MODULE Checksum ------------------------------
(***************************************************************************)
(* crc32() of include/checksum.hpp: the reflected, table-driven CRC, over  *)
(* CrcBits bits instead of 32.  Frames and log records carry it.           *)
(***************************************************************************)
EXTENDS Integers, Sequences, SequencesExt, Bitwise

CONSTANTS
    CrcBits,  \* 32
    CrcPoly   \* 0xEDB88320, the reflected polynomial

ASSUME CrcAssumption ==
    /\ CrcBits \in Nat /\ CrcBits % 8 = 0
    /\ CrcPoly \in 2 ^ (CrcBits - 1)..2 ^ CrcBits - 1  \* the term of degree 0

Ones == 2 ^ CrcBits - 1

ShiftOut(c) == IF c % 2 = 1 THEN CrcPoly ^^ (c \div 2) ELSE c \div 2

Table == [i \in 0..255 |-> FoldLeft(LAMBDA c, k : ShiftOut(c), i, [k \in 1..8 |-> k])]

CrcOverByte(crc, b) == Table[(crc ^^ b) % 256] ^^ (crc \div 256)

CrcAdditive(data) == FoldLeft(LAMBDA crc, b : (crc + b) % (Ones + 1), Ones, data)

\* The loop over the bytes; a recursive function, since TLC's stack is too short
\* for a fold over a whole log record.
Crc(data) ==
    LET over[crc \in 0..Ones, i \in 1..Len(data) + 1] ==
            IF i > Len(data) THEN crc ELSE over[CrcOverByte(crc, data[i]), i + 1]
    IN  Ones - over[Ones, 1]
=============================================================================
