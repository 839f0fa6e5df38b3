----------------------------- MODULE LZ4Format -----------------------------
(***************************************************************************)
(* What the compressor and the decompressors of lib/lz4/lz4.c share: the   *)
(* constants of the block format and the lengths its fields encode.        *)
(* A block is a sequence of bytes; addresses are counted from 0.           *)
(***************************************************************************)
EXTENDS Integers, Sequences

Byte == 0..255

\* The value of a byte nobody has written, and that of a read outside a buffer.
Junk    == 256
Outside == -1

MINMATCH                 == 4
WILDCOPYLENGTH           == 8
LASTLITERALS             == 5
MFLIMIT                  == 12
MATCH_SAFEGUARD_DISTANCE == 2 * WILDCOPYLENGTH - MINMATCH
FASTLOOP_SAFE_DISTANCE   == 64
ML_MASK                  == 15
RUN_MASK                 == 15

\* The two halves of a token: the codes of its literal and match lengths.
RunCode(t)   == t \div 16
MatchCode(t) == t % 16

MinOf(a, b) == IF a < b THEN a ELSE b
MaxOf(a, b) == IF a < b THEN b ELSE a

\* Faulty variant: one byte, however long.
LengthBytes_One(n) == IF n < 15 THEN <<>> ELSE <<n - 15>>

\* The bytes that follow a token for a length code n that is not below 15.
LengthBytes(n) ==
  IF n < 15 THEN <<>>
  ELSE [i \in 1..(n - 15) \div 255 |-> 255] \o <<(n - 15) % 255>>

LZ4_MAX_INPUT_SIZE == 2113929216

LZ4_compressBound(isize) ==
  IF isize \notin 0..LZ4_MAX_INPUT_SIZE THEN 0 ELSE isize + (isize \div 255) + 16
=============================================================================
