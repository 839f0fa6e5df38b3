--------------------------- MODULE LZ4DecodeRef ----------------------------
(***************************************************************************)
(* LZ4_decompress_unsafe_generic of lib/lz4/lz4.c: the plain decoder the   *)
(* library keeps "not optimized for speed, just for maintenance".  It is   *)
(* the reference LZ4Decode and LZ4Accel are compared with, call by call.   *)
(***************************************************************************)
EXTENDS LZ4Accel

\* The byte of the source s at position i.
Given(s, i) == IF i \in 0..iend - 1 THEN s[i + 1] ELSE Outside

\* read_long_length_no_check, and whether the source holds it all.
LongLength(s, code, from) ==
  IF code # 15 THEN {[len |-> code, next |-> from]}
  ELSE {[len |-> code + 255 * (j - from) + Given(s, j), next |-> j + 1] :
          j \in {j \in from..iend - 1 :
                  Given(s, j) # 255 /\ \A i \in from..j - 1 : Given(s, i) = 255}}

\* The history and the output so far as one sequence: dictionary, prefix, out.
History(out) == job.ext \o job.prefix \o out

\* A match of ml bytes, each one copied after the one before it.
RECURSIVE CopyMatch(_, _, _)
CopyMatch(text, offs, ml) ==
  IF ml = 0 THEN text
  ELSE CopyMatch(Append(text, text[Len(text) - offs + 1]), offs, ml - 1)

\* The outputs for a content of n bytes of the source s, of a decoder that has
\* produced out and is about to read a token at i: one, or none on an error.
RECURSIVE UnsafeFrom(_, _, _, _)
UnsafeFrom(s, i, out, n) ==
  UNION {LET end  == l.next + l.len
             run  == SubSeq(s, l.next + 1, end)
             text == out \o run
             offs == Given(s, end) + 256 * Given(s, end + 1)
         IN  IF end > iend \/ Len(text) > n THEN {}
             ELSE IF n - Len(text) < MFLIMIT
             THEN IF Len(text) = n THEN {[read |-> end, out |-> text]} ELSE {}
             ELSE IF offs <= 0 \/ offs > Len(History(text)) THEN {}
             ELSE UNION {LET ml   == m.len + MINMATCH
                             copy == CopyMatch(History(text), offs, ml)
                             next == SubSeq(copy, Len(History(<<>>)) + 1, Len(copy))
                         IN  IF Len(text) + ml > n \/ n - (Len(text) + ml) < LASTLITERALS
                             THEN {} ELSE UnsafeFrom(s, m.next, next, n) :
                           m \in LongLength(s, MatchCode(Given(s, i)), end + 2)} :
           l \in IF i < iend THEN LongLength(s, RunCode(Given(s, i)), i + 1) ELSE {}}

\* The size of the content: what a caller of LZ4_decompress_fast must know.
RECURSIVE SizeFrom(_, _)
SizeFrom(i, size) ==
  IF i >= iend THEN {}
  ELSE UNION {IF l.next + l.len >= iend THEN {size + l.len}
              ELSE UNION {SizeFrom(m.next, size + l.len + m.len + MINMATCH) :
                            m \in LongLength(job.src, MatchCode(Given(job.src, i)), l.next + l.len + 2)} :
                l \in LongLength(job.src, RunCode(Given(job.src, i)), i + 1)}

\* The contents of the source as a whole block: one, or none if it is no block.
Contents ==
  {u.out : u \in {v \in UNION {UnsafeFrom(job.src, 0, <<>>, n) : n \in SizeFrom(0, 0)} : v.read = iend}}

Produced(text, n) == n <= Len(text) /\ \A i \in 1..n : mem[i - 1] = text[i]

---------------------------------------------------------------------------
(* Properties of LZ4_decompress_safe and its variants, for whole blocks.   *)

\* A block that fits is decoded to what the plain decoder yields, whichever
\* loop, shortcut or wild copy produced each byte, and its size is returned.
AgreesWithReference ==
  pc = "done" /\ ~job.partial =>
    \A text \in Contents :
      oend >= Len(text) => result = Len(text) /\ Produced(text, Len(text))

\* A block that does not fit in dst is refused, never cut short.
RefusesTooSmall ==
  pc = "done" /\ ~job.partial =>
    \A text \in Contents : oend < Len(text) => result < 0

\* LZ4_decompress_safe_partial yields exactly the bytes asked for, or the
\* whole content when it is shorter.
PartialIsPrefix ==
  pc = "done" /\ job.partial =>
    \A text \in Contents : /\ result = MinOf(oend, Len(text))
                           /\ Produced(text, result)

\* The decoder of C resumes where a token is due, in separate buffers and in
\* place: from ip on, the source holds a token - its own, or the one the NEON
\* loop left in front of an offset - and sequences which, with what the loop has
\* produced below op, make up the content.
ResumesOnSequence ==
  asm = "left" /\ pc = "start" =>
    \A text \in Contents :
      LET source == [i \in 1..iend |-> Src(i - 1)]
      IN  /\ op <= Len(text) /\ Produced(text, op)
          /\ \E u \in UnsafeFrom(source, ip, SubSeq(text, 1, op), Len(text)) : u.out = text

\* lz4.h: "In-place decompression will work inside any buffer which size is
\* >= LZ4_DECOMPRESS_INPLACE_BUFFER_SIZE(decompressedSize)."
InPlaceBufferSuffices ==
  pc = "done" /\ job.at < oend =>
    \A text \in Contents : result = Len(text) /\ Produced(text, Len(text))
=============================================================================
