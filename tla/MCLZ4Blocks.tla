---------------------------- MODULE MCLZ4Blocks ----------------------------
(* Blocks written from the lengths and offsets of their sequences, and calls *)
(* of the decoder for them.                                                  *)
EXTENDS LZ4Format, SequencesExt

\* Literals, all different as long as they are less than 251 bytes apart.
Lits(from, n) == [i \in 1..n |-> (from + i) % 251]

\* A sequence q = <<literals, offset, match length>>, the k-th of its block.
Bytes(q, k) ==
  <<16 * MinOf(q[1], 15) + MinOf(q[3] - MINMATCH, 15)>> \o LengthBytes(q[1])
    \o Lits(40 * k, q[1]) \o <<q[2] % 256, q[2] \div 256>> \o LengthBytes(q[3] - MINMATCH)

LastBytes(n, k) == <<16 * MinOf(n, 15)>> \o LengthBytes(n) \o Lits(40 * k, n)

\* A block of the sequences qs that ends in last literals.
Block(qs, last) ==
  FlattenSeq([k \in DOMAIN qs |-> Bytes(qs[k], k)]) \o LastBytes(last, Len(qs) + 1)

SizeOf(qs, last) == FoldLeft(LAMBDA n, q : n + q[1] + q[3], last, qs)

Call(s, cap, partial, dict, prefix, ext) ==
  [src |-> s, cap |-> cap, partial |-> partial, dict |-> dict, prefix |-> prefix, ext |-> ext,
   extAt |-> -100000, at |-> cap]

Plain(s, cap, partial) == Call(s, cap, partial, "noDict", <<>>, <<>>)

\* In place: the source ends margin bytes after the content.
InPlaceWith(b, size, partial, margin) ==
  [Plain(b, size, partial) EXCEPT !.at = size + margin - Len(b)]

\* In a buffer of LZ4_DECOMPRESS_INPLACE_BUFFER_SIZE(size).
InPlace(b, size, partial) == InPlaceWith(b, size, partial, (size \div 256) + 32)
=============================================================================
