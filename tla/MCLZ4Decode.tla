---------------------------- MODULE MCLZ4Decode ----------------------------
(* Calls of the LZ4 decoder for TLC: blocks are written from the lengths and *)
(* offsets of their sequences, at the values where the code changes path.    *)
EXTENDS LZ4DecodeRef, MCLZ4Blocks

\* One match, of every offset the copies treat apart.
OneMatch ==
  UNION {{<<qs, last>> : qs \in {<< <<lit, off, ml>> >> : lit \in {off, off + 16}, ml \in {4, 11, 12, 18, 19, 40}}}
           : off \in {1, 2, 3, 4, 5, 6, 7, 8, 9, 15, 16, 18}, last \in {12, 17}}

\* Two matches, the second one with few or no literals of its own.
TwoMatches ==
  {<< << <<16, off, ml>>, <<lit, 7, 8>> >>, last>> :
     off \in {1, 3, 8}, ml \in {4, 18, 33}, lit \in {0, 1, 14, 15}, last \in {5, 9, 13}}

\* Lengths that take more than one byte.
Long ==
  {<< << <<lit, 5, ml>> >>, 12>> : lit \in {15, 269, 270, 271}, ml \in {18, 273, 274, 275}}

\* Room to spare, so that every loop is taken, the exact size, and too little.
FullJobs ==
  UNION {{Plain(Block(b[1], b[2]), SizeOf(b[1], b[2]) + d, FALSE) : d \in {-1, 0, 1, 30, 90}}
           : b \in OneMatch \cup TwoMatches \cup Long}

PartialJobs ==
  UNION {{Plain(Block(b[1], b[2]), MaxOf(0, SizeOf(b[1], b[2]) + d), TRUE) : d \in -40..2}
           : b \in TwoMatches}

\* History in a prefix, in a dictionary, and in both.
DictBlocks ==
  {<< << <<lit, off, ml>>, <<1, 20, 9>> >>, 12>> : lit \in {0, 3}, off \in {6, 10, 14, 21, 22}, ml \in {4, 10, 18, 30}}

DictJobs ==
  UNION {{Call(Block(b[1], b[2]), SizeOf(b[1], b[2]) + d, partial, h[1], h[2], h[3]) :
            d \in {-3, 0, 70}, partial \in BOOLEAN,
            h \in {<<"noDict", Lits(100, 22), <<>> >>,
                   <<"usingExtDict", <<>>, Lits(100, 22)>>,
                   <<"usingExtDict", Lits(110, 12), Lits(100, 10)>>}}
           : b \in DictBlocks}

\* The 64 KB prefix of a stream that is already long.
Prefix64k == [i \in 1..65536 |-> i % 251]
Prefix64kJobs ==
  {Call(Block(<< <<2, off, 18>> >>, 12), 32 + d, FALSE, "withPrefix64k", Prefix64k, <<>>) :
     off \in {3, 20, 65535}, d \in {0, 80}}

\* Sources that are no block: cut short, an offset before the history, and
\* short sources of arbitrary bytes.
BrokenBlocks ==
  UNION {{SubSeq(Block(b[1], b[2]), 1, n) : n \in 0..Len(Block(b[1], b[2])) - 1}
           : b \in {<< << <<9, 8, 40>> >>, 12>>, << << <<30, 3, 20>>, <<0, 9, 4>> >>, 12>>,
                    << << <<9, 10, 6>> >>, 12>>, << << <<1, 1, 4>>, <<1, 6, 40>> >>, 17>>}}
  \cup UNION {[1..n -> {0, 17, 31, 240, 255}] : n \in 0..4}

BrokenJobs == {Plain(s, cap, partial) : s \in BrokenBlocks, cap \in {0, 13, 40, 120}, partial \in BOOLEAN}

\* A good block, and a dst that ends anywhere in its first bytes.
TightJobs ==
  {Plain(Block(<< <<9, 8, 6>>, <<2, 8, 18>> >>, 40), cap, partial) : cap \in 10..45, partial \in BOOLEAN}

InPlaceBlocks ==
  {b \in TwoMatches \cup
         {<< << <<17, 9, ml>>, <<n, 30, 60>>, <<0, 90, 70>> >>, last>> :
            ml \in {60, 200}, n \in {0, 3, 14, 15, 40}, last \in {5, 20, 48}} :
     Len(Block(b[1], b[2])) < SizeOf(b[1], b[2])}

InPlaceJobs == {InPlace(Block(b[1], b[2]), SizeOf(b[1], b[2]), FALSE) : b \in InPlaceBlocks}

DecodeJobs ==
  FullJobs \cup DictJobs \cup Prefix64kJobs \cup InPlaceJobs \cup PartialJobs
    \cup BrokenJobs \cup TightJobs

---------------------------------------------------------------------------
(* Blocks long enough, on both sides, for the NEON loop to be entered.       *)

\* Heads exercise the loop; the tail of literals keeps it off the end.
Heads ==
  {<< <<lit, off, ml>> >> : lit \in {32}, off \in {1, 2, 3, 5, 7, 8, 11, 15, 16, 17, 31, 32}, ml \in {4, 16, 18, 19, 33, 70, 100}}
  \cup {<< <<16, 3, ml>>, <<lit, off, 30>>, <<n, 4, 20>> >> :
          ml \in {4, 21}, lit \in {0, 14, 15}, off \in {9, 20}, n \in {0, 40, 130}}

AccelBlocks == {<<qs, last>> : qs \in Heads, last \in {100, 132, 150}}

Separate ==
  {Plain(Block(b[1], b[2]), SizeOf(b[1], b[2]) + d, FALSE) : b \in AccelBlocks, d \in {0, 20}}
  \cup {Plain(Block(b[1], b[2]), MaxOf(1, SizeOf(b[1], b[2]) - d), TRUE) : b \in AccelBlocks, d \in {30, 138, 156}}

Shrinking == {b \in AccelBlocks : Len(Block(b[1], b[2])) < SizeOf(b[1], b[2])}

\* In place, in the buffer lz4.h asks for, and with twice its fixed margin.
TightInPlaceJobs == {InPlace(Block(b[1], b[2]), SizeOf(b[1], b[2]), FALSE) : b \in Shrinking}
RoomyJobs   == {InPlaceWith(Block(b[1], b[2]), SizeOf(b[1], b[2]), FALSE, 65) : b \in Shrinking}

\* An offset before the start of dst, which the loop reports.
BadOffsetJobs == {Plain(Block(<< <<32, off, 20>> >>, 150), 300, FALSE) : off \in {0, 33, 40}}

AllJobs == DecodeJobs \cup Separate \cup RoomyJobs \cup BadOffsetJobs
=============================================================================
