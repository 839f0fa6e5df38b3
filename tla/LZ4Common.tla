----------------------------- MODULE LZ4Common -----------------------------
(***************************************************************************)
(* What the two compressors of lib/lz4 share: lz4hc.c includes lz4.c for   *)
(* its common definitions, and both write the same blocks.                 *)
(*                                                                         *)
(* text is the memory that holds the source and the dictionaries, from     *)
(* address 0 on; out is the block that the running call has written to dst *)
(* so far.                                                                 *)
(***************************************************************************)
EXTENDS LZ4Format

CONSTANT LZ4_DISTANCE_MAX  \* 65535 in the code, which ties the 64 KB limits to it

ASSUME DistanceAssumption == LZ4_DISTANCE_MAX \in MFLIMIT..65535

VARIABLES
  text,       \* memory the compressor reads
  call,       \* arguments and constants of the running call
  ip,         \* address reached in the source
  anchor,     \* first byte not yet encoded
  out,        \* the block written so far; op is its length
  reach,      \* how far dst has been written, with what is past op
  inputConsumed,
  pc, result

KB64 == LZ4_DISTANCE_MAX + 1
NULL == -1000000     \* no address

LZ4_minLength == MFLIMIT + 1

source     == call.source
iend       == source + call.size
op         == Len(out)
limited    == call.output # "notLimited"
filling    == call.output = "fillOutput"

\* Faulty variant: a match may take the last literals.
matchlimit_ToEnd == iend

\* No match goes on beyond it.
matchlimit == iend - LASTLITERALS

Text(p) == IF p \in 0..Len(text) - 1 THEN text[p + 1] ELSE Outside

\* The n bytes at p and at q are the same.
SameBytes(p, q, n) == \A i \in 0..n - 1 : Text(p + i) = Text(q + i)

\* LZ4_read32(p) == LZ4_read32(q)
Same4(p, q) == SameBytes(p, q, 4)

\* Length of the common run of p and q, of n bytes at most (LZ4_count).
LZ4_count(p, q, n) ==
  LET limit == MaxOf(0, n)
  IN  CHOOSE k \in 0..limit : /\ k = limit \/ Text(p + k) # Text(q + k)
                              /\ SameBytes(p, q, k)

\* Length of the common run before p and q, of n bytes at most.
CountBack(p, q, n) ==
  LET limit == MaxOf(0, n)
  IN  CHOOSE k \in 0..limit : /\ k = limit \/ Text(p - k - 1) # Text(q - k - 1)
                              /\ SameBytes(p - k, q - k, k)

Goto(label) == pc' = label /\ UNCHANGED result

\* The call returns r.
Idle(r) == pc' = "idle" /\ result' = r

\* dst is written up to n.
Reach(n) == reach' = MaxOf(reach, n)

\* A wild copy of n bytes to at ends here: it writes 8 bytes at a time.
WildEnd(at, n) == at + WILDCOPYLENGTH * MaxOf(1, (n + 7) \div 8)

\* Faulty variant: any literals are taken to need a length byte.
FilledRun_Wasteful == LET room == call.capacity - op - 1 IN room - (room + 255) \div 256

\* The literals that fit in what is left of dst, with their length bytes.
FilledRun == LET room == call.capacity - op - 1 IN room - (room + 256 - 15) \div 256

\* The last sequence of a block, literals only; the compressors' copies of
\* this code differ in nothing but names.
EncodeLast ==
  LET all  == iend - anchor
      fits == op + all + 1 + (all + 255 - 15) \div 255 <= call.capacity
      run  == IF filling /\ ~fits THEN FilledRun ELSE all
  IN  \/ /\ call.output = "limitedOutput" /\ ~fits
         /\ Idle(0)
         /\ UNCHANGED <<ip, out, reach, inputConsumed>>
      \/ /\ call.output = "limitedOutput" => fits
         /\ out' = out \o <<16 * MinOf(run, 15)>> \o LengthBytes(run)
                       \o SubSeq(text, anchor + 1, anchor + run)
         /\ ip' = anchor + run
         /\ inputConsumed' = anchor + run - source
         /\ Reach(Len(out'))
         /\ Idle(Len(out'))

---------------------------------------------------------------------------
(* Properties.                                                             *)

\* A call that fills dst takes the whole source, or fills dst to the last byte.
\* One byte stays free when one literal more would need a length byte too.
FillsUp ==
  call.output = "fillOutput" /\ call.capacity > 0 /\ inputConsumed < call.size =>
    \/ result = call.capacity
    \/ result = call.capacity - 1 /\ (source + inputConsumed - anchor) % 255 = 14

\* Whatever the text, dst is never written past its end: neither by the bytes
\* of the block nor by the 8 and 4 bytes at a time that go beyond op.
WritesInsideDst == reach <= MaxOf(0, call.capacity) /\ op <= reach
=============================================================================
