---------------------------- MODULE MCLZ4OneShot ----------------------------
(* One call of each one-shot function, with nothing before it or after it:   *)
(* it takes up all the calls there are.                                      *)
EXTENDS LZ4Session

\* Few collisions.
FineHash(w)   == (w[1] + 2 * w[2] + 3 * w[3] + w[4]) % 67
FineSlots   == 0..66

Rep(b, n)  == [i \in 1..n |-> b]
\* Bytes in which no four repeat.
Strides == <<1, 7, 11, 13, 17>>
Ramp(n) == [i \in 1..n |-> 10 + ((i * Strides[1 + (i \div 240)]) % 240)]
BinaryWords(n) == [1..n -> {1, 2}]

\* A word, something else, the word again, and an end that can not match.
Echo(w, gap) == w \o Ramp(gap) \o w \o Ramp(12)

\* Two matches with no literals between them, the second a long one.
Adjacent == Ramp(6) \o Rep(1, 25) \o Ramp(6) \o Rep(1, 25) \o Ramp(12)

Long == {Rep(1, 300), Rep(1, 40) \o Ramp(30) \o Rep(1, 40), [i \in 1..300 |-> (i * i) % 251]}

Req(fn, t, capacity, acceleration) ==
  [fn |-> fn, text |-> t, size |-> Len(t), capacity |-> capacity, acceleration |-> acceleration,
   calls |-> MaxCalls]

TooLarge(fn) == [Req(fn, <<>>, 20, 1) EXCEPT !.size = LZ4_MAX_INPUT_SIZE + 1]

Whole(fn, t) == Req(fn, t, LZ4_compressBound(Len(t)), 1)

\* One call, into a dst of any size that matters.
Texts ==
  {w \o u \o w \o Ramp(5) : w \in BinaryWords(4), u \in {<<>>, <<1>>, <<2, 1>>}}
    \cup {Echo(w, g) : w \in {<<1, 2, 1, 2, 1>>, <<1, 1, 1, 1, 1, 1>>}, g \in {0, 3, 20}}
    \cup {Rep(1, n) : n \in {1, 12, 13, 14, 30, 59, 60}} \cup {<<>>, Ramp(13), Ramp(30)}

\* The word again about LZ4_DISTANCE_MAX bytes later, just after a match.
FarTexts == {<<1, 2, 1, 2, 1>> \o Rep(9, n) \o <<1, 2, 1, 2, 1>> \o Ramp(12) :
               n \in LZ4_DISTANCE_MAX - 7..LZ4_DISTANCE_MAX - 3}

\* With a large step, a match that is found late begins long before the probe
\* that found it, and may be cut short before it.
LateText == Ramp(5) \o [i \in 1..3700 |-> i % 9]

SingleRequests ==
  {Req(fn, t, n, a) : fn \in {"fast_extState", "destSize_extState"}, t \in Texts,
                      n \in 0..24, a \in {1, 2}}
    \cup {Req("fast_extState", t, LZ4_compressBound(Len(t)), 0) : t \in Texts \cup Long}
    \cup {Req("destSize", t, n, 1) : t \in Long, n \in {20, 30, 45, 300, 400}}
    \cup {Req("destSize_extState", LateText, n, 44) : n \in 60..66}
    \cup {Req(fn, t, n, 1) : fn \in {"fast_extState", "destSize"},
             t \in {Rep(1, 1600), Ramp(30) \o Rep(1, 1100) \o Ramp(270) \o Rep(1, 300)}, n \in 10..30}
    \cup {Whole("fast_extState", t) : t \in FarTexts}
    \cup {Req("fast_extState", Adjacent, n, 1) : n \in 25..45}
    \cup {TooLarge("fast_extState")}
=============================================================================
