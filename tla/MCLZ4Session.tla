---------------------------- MODULE MCLZ4Session ----------------------------
(* Streams of blocks with a window of 48 bytes, in every arrangement of      *)
(* buffers, and one-shot calls on the same state.                            *)
EXTENDS MCLZ4OneShot

CoarseHash(w) == (w[1] + 2 * w[2] + 3 * w[3] + w[4]) % 5
CoarseSlots == 0..4

\* No collisions between different bytes.
ByteHash(w) == w[1]
ByteSlots == Byte

Block(c, capacity) == [content |-> c, capacity |-> capacity, acceleration |-> 1]

LongBlock == Rep(1, 10) \o Ramp(30)

StreamBlocks ==
  {Block(c, 60) : c \in {<<>>, <<11, 12>>, Ramp(20), LongBlock, SubSeq(Ramp(30), 6, 25) \o Rep(1, 5)}}
    \cup {Block(Ramp(20), 10)}

Session(sender, size, dict, load, receiver) ==
  [sender |-> sender, size |-> size, dict |-> dict, load |-> load, receiver |-> receiver,
   maxBlock |-> 40, exact |-> FALSE, ring |-> 0, saveSize |-> KB64, adjacent |-> FALSE,
   force |-> FALSE, blocks |-> StreamBlocks, calls |-> 4]

\* The ring buffer of the receiver has 32 bytes more than
\* LZ4_decoderRingBufferSize, or than the sender's and a block together.
InRing(s, r) ==
  [s EXCEPT !.receiver = "ring", !.ring = r, !.calls = 6, !.blocks = {Block(Ramp(20), 60), Block(LongBlock, 60)}]
Independent(s) == InRing(s, LZ4_decoderRingBufferSize(40) + 32)
Larger(s)      == InRing(s, s.size + 40 + 32)

NoDict(sender, size, receiver) == Session(sender, size, <<>>, "none", receiver)

StreamSessions ==
  {NoDict("linear", 120, "linear"), NoDict("ring", 80, "linear"),
   [NoDict("ring", 50, "linear") EXCEPT !.maxBlock = 25],
   NoDict("double", 81, "linear"), NoDict("saved", 40, "linear"),
   Independent(NoDict("ring", 130, "ring")), Larger(NoDict("ring", 81, "ring")),
   [NoDict("ring", 85, "synchronized") EXCEPT !.exact = TRUE],
   [NoDict("linear", 120, "usingDict") EXCEPT !.adjacent = TRUE],
   [NoDict("saved", 40, "usingDict") EXCEPT !.saveSize = 20],
   [NoDict("linear", 120, "linear") EXCEPT !.force = TRUE]}
  \cup {Session("linear", 120, d, load, "linear") :
          d \in {Ramp(5), Ramp(20), Ramp(60)}, load \in {"fast", "slow", "attached"}}

\* Calls among others, on the same state.
Chained(r) == [r EXCEPT !.calls = 1]

ChainRequests ==
  {Chained(Req("fast_extState_fastReset", t, n, 1)) : t \in {Ramp(14) \o Ramp(14), Rep(1, 13), Rep(1, 60)}, n \in {12, 80}}
    \cup {Chained(Req("destSize_extState", Ramp(14) \o Ramp(14), 12, 1))}
    \cup {Chained(Req("fast_extState_fastReset", <<>>, 80, 1))}

StreamRequests == SingleRequests \cup ChainRequests

\* A receiver with a ring buffer of LZ4_decoderRingBufferSize exactly: a block
\* that leaves one byte too few for another, then one that begins with a long
\* run of literals and goes on with a match as far back as it may be.
Fresh(n) == [i \in 1..n |-> 100 + i]

RingSessions ==
  {[InRing(NoDict("linear", 173, "ring"), LZ4_decoderRingBufferSize(110)) EXCEPT
      !.maxBlock = 110,
      !.blocks = {Block(c, 140) : c \in {Ramp(63), Fresh(33) \o SubSeq(Ramp(63), 50, 63) \o [i \in 1..40 |-> 180 + i]}}]}
=============================================================================
