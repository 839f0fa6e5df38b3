------------------------------ MODULE MCLZ4HC ------------------------------
(* The high compression mode with a window of 48 bytes and few hashes: calls *)
(* of every level on texts with overlapping, repeated and nested matches,    *)
(* and streams in the arrangements lz4hc.h allows.                           *)
EXTENDS LZ4HCSession

TableSize == 16
Hash4(w) == (w[1] + 2 * w[2] + 3 * w[3] + w[4]) % 16
Hash7(w) == (w[1] + 2 * w[2] + 3 * w[3] + w[7]) % 8

Rep(b, n) == [i \in 1..n |-> b]
Ramp(n)   == [i \in 1..n |-> 10 + ((i * 7) % 240)]
Part(t, a, b) == SubSeq(t, a, b)

\* Matches that begin within each other, each longer than the one before.
Nested(n) ==
  Part(Ramp(40), 1, 5) \o <<1>> \o Part(Ramp(40), 4, 10) \o <<2>> \o Part(Ramp(40), 8, 18) \o <<3>>
    \o Part(Ramp(40), 1, n) \o Rep(4, 12)

\* Three, of which the third begins where the first has ended.
Ascending ==
  Part(Ramp(40), 1, 5) \o <<1>> \o Part(Ramp(40), 4, 11) \o <<2>> \o Part(Ramp(40), 9, 19) \o <<3>>
    \o Part(Ramp(40), 1, 20) \o Rep(4, 12)

Runs == Rep(1, 9) \o <<2>> \o Rep(1, 7) \o <<3>> \o Rep(1, 20) \o <<2>> \o Rep(1, 12) \o Ramp(8)

\* Two long matches, the second of which begins within the first.
Overlap == Part(Ramp(40), 1, 20) \o <<1>> \o Part(Ramp(40), 16, 38) \o <<2>> \o Part(Ramp(40), 1, 38) \o Rep(4, 12)

Words == {w \o u \o w \o Ramp(5) : w \in [1..4 -> {1, 2}], u \in {<<1>>, <<2, 1>>}}

\* A word again about LZ4_DISTANCE_MAX bytes later.
FarWords == {w \o Rep(9, n) \o w \o Ramp(12) :
               w \in {<<1, 2, 1, 2, 1, 3, 1>>, <<3, 3, 3, 3, 3, 1, 5>>},
               n \in LZ4_DISTANCE_MAX - 9..LZ4_DISTANCE_MAX - 5}

Req(fn, t, capacity, level) ==
  [fn |-> fn, text |-> t, size |-> Len(t), capacity |-> capacity, level |-> level]

Levels == {2, 3, 9, 10, 12}

Whole(t, level) == Req("extState", t, LZ4_compressBound(Len(t)), level)

OneShots ==
  {Whole(t, level) : t \in Words \cup FarWords \cup {Nested(14), Nested(18), Ascending, Overlap, Runs, Rep(1, 70), Ramp(60), Rep(1, 12), <<>>},
                     level \in Levels}
    \cup {Req(fn, t, n, level) : fn \in {"extState", "destSize"}, t \in {Nested(18), Overlap, Runs},
                                level \in {2, 9, 12}, n \in {-1, 0} \cup 5..30}
    \cup {Req("destSize", Rep(1, 300) \o Ramp(20), n, level) : level \in {2, 9, 12}, n \in 10..20}
    \cup {Whole(Runs, level) : level \in {0, 13}}

---------------------------------------------------------------------------
Block(fn, c, capacity, level) == [fn |-> fn, content |-> c, capacity |-> capacity, level |-> level]
Sent(c) == Block("continue", c, 60, 0)

BlockA == Rep(1, 10) \o Ramp(20)
BlockB == Part(Ramp(40), 6, 25) \o Rep(1, 12)
BlockC == Rep(1, 26)
Small  == <<10, 17>>
\* Short enough to be compressed with an attached dictionary that stays where it is.
Repeat == Part(Ramp(20), 1, 16) \o Rep(1, 8)

Blocks == {Sent(BlockA), Sent(BlockB), Sent(BlockC)}

Session(sender, size, level) ==
  [sender |-> sender, size |-> size, dict |-> <<>>, load |-> "none", receiver |-> "linear",
   maxBlock |-> 40, exact |-> FALSE, ring |-> 0, saveSize |-> KB64, adjacent |-> FALSE,
   level |-> level, dictLevel |-> level, favor |-> FALSE, blocks |-> Blocks, calls |-> 3]

WithDict(s, dict, load) == [s EXCEPT !.dict = dict, !.load = load, !.calls = 2]

\* The end of a dictionary, and what is in memory after it.
Beyond == Part(Ramp(20), 5, 20) \o Rep(0, 4) \o Ramp(14)

Dicts == {Ramp(5), Ramp(20), Rep(2, 20) \o Ramp(30) \o Rep(1, 10)}

Streams ==
  {Session("linear", 140, level) : level \in Levels}
  \cup {[Session(sender, size, level) EXCEPT !.blocks = {Sent(BlockA), Sent(BlockC), Sent(Small)}] :
          <<sender, size>> \in {<<"ring", 70>>, <<"double", 81>>}, level \in {2, 9, 12}}
  \cup {[Session("saved", 40, level) EXCEPT !.saveSize = n] : n \in {3, 20, KB64}, level \in {2, 9, 12}}
  \cup {[Session("saved", 40, level) EXCEPT !.saveSize = 20, !.adjacent = TRUE] : level \in {2, 9, 12}}
  \cup {[WithDict(Session("saved", 40, level), Ramp(20), "attached") EXCEPT
            !.adjacent = TRUE, !.blocks = {Sent(Repeat), Sent(Small)}] : level \in {2, 9}}
  \cup {WithDict(Session("linear", 140, level), d, "loaded") : d \in Dicts, level \in Levels}
  \cup {[WithDict(Session("linear", 140, level), d, "attached") EXCEPT !.dictLevel = other,
            !.blocks = {Sent(BlockA), Sent(Repeat), Sent(Beyond)}] :
          d \in Dicts, level \in {2, 4, 10}, other \in {2, 9}}
  \cup {[Session("linear", 140, 9) EXCEPT
            !.blocks = {Block("continue", c, 60, l) : c \in {BlockA, BlockB}, l \in {2, 4, 10}}]}
  \cup {[Session("double", 81, 9) EXCEPT
            !.blocks = {Block("continue", c, 60, l) : c \in {BlockA, BlockC}, l \in {2, 9}}]}
  \cup {[Session("linear", 140, level) EXCEPT
            !.blocks = {Block("destSize", c, n, 0) : c \in {BlockA, BlockB}, n \in {12, 60}}] : level \in {2, 9, 12}}
  \cup {[Session("linear", 140, level) EXCEPT !.favor = TRUE] : level \in {10, 12}}

---------------------------------------------------------------------------
\* What comes first, and what comes after it, on the same state.
FirstRequests == <<OneShots, {Req("fastReset", Nested(14), 100, 9), Req("fastReset", Nested(14), 100, 2)}>>
FirstSessions == <<Streams, {}>>

---------------------------------------------------------------------------
\* 60 bytes of which few fit in dst, and then 16 of those that did not.
Unread == Part(Ramp(60), 1, 20) \o Part(Ramp(60), 41, 53) \o Rep(7, 3) \o Part(Ramp(60), 41, 53) \o Part(Ramp(60), 24, 34)

DestSizeSessions ==
  <<{[Session("linear", 140, level) EXCEPT
        !.maxBlock = 60, !.calls = 2,
        !.blocks = {Block("destSize", Unread, 22, 0), Sent(Part(Unread, 21, 36))}] : level \in Levels}>>
NoRequests == <<{}>>
=============================================================================
