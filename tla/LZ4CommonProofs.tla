-------------------------- MODULE LZ4CommonProofs --------------------------
(***************************************************************************)
(* What the proofs about the two compressors of lib/lz4 share: lengths and *)
(* the bytes that encode them, common runs of bytes, the room a block      *)
(* needs, and the last literals of a block.                                *)
(***************************************************************************)
EXTENDS LZ4Link, SequenceTheorems, WellFoundedInduction, TLAPS

---------------------------------------------------------------------------
(* Arithmetic.                                                             *)

\* The bytes LengthBytes(n) has.
Extra(n) == IF n < 15 THEN 0 ELSE (n + 240) \div 255

\* A quotient by 255 and its remainder.
LEMMA Div255 ==
  ASSUME NEW n \in Nat
  PROVE  /\ n \div 255 \in Nat /\ 255 * (n \div 255) <= n
         /\ n < 255 * (n \div 255) + 255
OBVIOUS

\* The extra length bytes of n, with their remainder.
LEMMA ExtraBounds ==
  ASSUME NEW n \in Nat
  PROVE  /\ Extra(n) \in Nat /\ Extra(n) <= (n + 240) \div 255
         /\ n >= 15 => 255 * Extra(n) <= n + 240 /\ n + 240 < 255 * Extra(n) + 255
         /\ n < 15 => Extra(n) = 0
         /\ Extra(n) <= n /\ Extra(n) <= n \div 255 + 1
BY Div255 DEF Extra

\* Quotients add up to no more than the quotient of the sum.
LEMMA DivAdds ==
  ASSUME NEW a \in Nat, NEW b \in Nat
  PROVE  a \div 255 + b \div 255 <= (a + b) \div 255
<1>1. a + b \in Nat
  OBVIOUS
<1> QED
  BY <1>1, Div255

\* Quotients do not decrease.
LEMMA DivGrows ==
  ASSUME NEW a \in Nat, NEW b \in Nat, a <= b
  PROVE  a \div 255 <= b \div 255
BY Div255

\* The literals FilledRun chooses fill the room there is, but for one byte when
\* one more literal would need another length byte.
LEMMA RunFills ==
  ASSUME NEW r \in Nat, NEW n \in Int, n = r - (r + 256 - 15) \div 256
  PROVE  /\ n \in Nat
         /\ n + Extra(n) <= r
         /\ n + Extra(n) = r \/ (n + Extra(n) = r - 1 /\ n % 255 = 14)
<1> DEFINE q == (r + 256 - 15) \div 256
<1>1. q \in Nat /\ 256 * q <= r + 241 /\ r + 241 < 256 * q + 256 /\ n = r - q
  OBVIOUS
<1> HIDE DEF q
<1>2. n \in Nat
  BY <1>1
<1>3. CASE n < 15
  BY <1>1, <1>2, <1>3 DEF Extra
<1>4. CASE n >= 15
  <2>1. n + 240 = 255 * q + (r - 256 * q + 240)
    BY <1>1
  <2>2. CASE r + 241 = 256 * q
    <3>1. n + 240 = 255 * (q - 1) + 254 /\ q - 1 \in Nat
      BY <2>1, <2>2, <1>1, <1>4
    <3>2. Extra(n) = q - 1
      BY <3>1, <1>4, <1>2 DEF Extra
    <3>3. n = 255 * (q - 1) + 14 /\ q - 1 \in Int
      BY <3>1, <1>1
    <3>4. n % 255 = 14
      BY <3>3
    <3> QED
      BY <1>1, <1>2, <3>2, <3>4, <2>2
  <2>3. CASE r + 241 > 256 * q
    <3>1. Extra(n) = q
      BY <2>1, <2>3, <1>1, <1>4, <1>2 DEF Extra
    <3> QED
      BY <1>1, <1>2, <3>1
  <2> QED
    BY <1>1, <2>2, <2>3
<1> QED
  BY <1>2, <1>3, <1>4

\* A run of literals that does not fit is longer than the one FilledRun takes.
LEMMA RunIsShorter ==
  ASSUME NEW r \in Nat, NEW n \in Nat, NEW all \in Nat, n + Extra(n) <= r,
         r < all + (all + 255 - 15) \div 255
  PROVE  n <= all
<1> SUFFICES ASSUME all < n PROVE FALSE
  OBVIOUS
<1>1. CASE all >= 15
  <2>1. Extra(n) = (n + 240) \div 255
    BY <1>1 DEF Extra
  <2>2. (all + 240) \div 255 <= (n + 240) \div 255
    BY DivGrows
  <2> QED
    BY <2>1, <2>2, ExtraBounds, <1>1
<1>2. CASE all < 15
  <2>1. (all + 255 - 15) \div 255 = 0
    BY <1>2
  <2> QED
    BY <2>1, ExtraBounds
<1> QED
  BY <1>1, <1>2

---------------------------------------------------------------------------
(* Least and greatest elements; common runs.                               *)

\* The order of the natural numbers, as a set of pairs.
NatOrder == {mn \in Nat \X Nat : mn[1] < mn[2]}

\* Every set of natural numbers has a least element.
LEMMA LeastExists ==
  ASSUME NEW S, S \subseteq Nat, NEW n \in S
  PROVE  \E x \in S : \A y \in S : x <= y
<1>1. IsWellFoundedOn(NatOrder, Nat)
  BY NatLessThanWellFounded DEF OpToRel, NatOrder
<1>2. PICK x \in S : \A y \in S : ~(<<y, x>> \in NatOrder)
  BY <1>1, WFMin
<1>3. ASSUME NEW y \in S PROVE x <= y
  <2>1. x \in Nat /\ y \in Nat /\ <<y, x>> \in Nat \X Nat
    OBVIOUS
  <2>2. ~(y < x)
    BY <1>2, <2>1 DEF NatOrder
  <2> QED
    BY <2>1, <2>2
<1> QED
  BY <1>3

\* Every bounded set of natural numbers has a greatest element.
LEMMA GreatestExists ==
  ASSUME NEW k \in Nat, NEW S, S \subseteq 0..k, NEW n \in S
  PROVE  \E x \in S : \A y \in S : y <= x
<1> DEFINE T == {i \in 0..k : k - i \in S}
<1>1. T \subseteq Nat /\ k - n \in T
  OBVIOUS
<1>2. PICK x \in T : \A y \in T : x <= y
  BY <1>1, LeastExists
<1>3. ASSUME NEW y \in S PROVE y <= k - x
  <2>1. k - y \in 0..k /\ k - (k - y) = y
    OBVIOUS
  <2>2. k - y \in T
    BY <2>1
  <2> QED
    BY <1>2, <2>1, <2>2
<1> QED
  BY <1>3

\* LZ4_count goes no further than it may.
LEMMA CountBounds ==
  ASSUME NEW p \in Int, NEW q \in Int, NEW n \in Int
  PROVE  /\ LZ4_count(p, q, n) \in Nat
         /\ LZ4_count(p, q, n) <= MaxOf(0, n)
<1> DEFINE limit == MaxOf(0, n)
           Stops(k) == k = limit \/ Text(p + k) # Text(q + k)
           Ok(k) == Stops(k) /\ SameBytes(p, q, k)
           S == {k \in 0..limit : Stops(k)}
<1>1. limit \in Nat
  BY DEF MaxOf
<1>2. limit \in S /\ S \subseteq Nat
  BY <1>1
<1>3. PICK k \in S : \A y \in S : k <= y
  BY <1>2, LeastExists
<1>4. k \in 0..limit /\ Stops(k)
  OBVIOUS
<1>5. SameBytes(p, q, k)
  <2>1. SUFFICES ASSUME NEW i \in 0..k - 1 PROVE Text(p + i) = Text(q + i)
    BY DEF SameBytes
  <2>2. i \in 0..limit /\ i < k
    BY <1>1, <1>4
  <2>3. i \notin S
    BY <2>2, <1>3
  <2> QED
    BY <2>2, <2>3
<1>6. \E j \in 0..limit : Ok(j)
  BY <1>4, <1>5
<1>7. LZ4_count(p, q, n) = CHOOSE j \in 0..limit : Ok(j)
  BY DEF LZ4_count
<1> HIDE DEF limit, Ok
<1> QED
  BY <1>1, <1>6, <1>7 DEF limit

\* CountBack goes no further than it may.
LEMMA CountBackBounds ==
  ASSUME NEW p \in Int, NEW q \in Int, NEW n \in Int
  PROVE  /\ CountBack(p, q, n) \in Nat
         /\ CountBack(p, q, n) <= MaxOf(0, n)
<1> DEFINE limit == MaxOf(0, n)
           Stops(k) == k = limit \/ Text(p - k - 1) # Text(q - k - 1)
           Ok(k) == Stops(k) /\ SameBytes(p - k, q - k, k)
           S == {k \in 0..limit : Stops(k)}
<1>1. limit \in Nat
  BY DEF MaxOf
<1>2. limit \in S /\ S \subseteq Nat
  BY <1>1
<1>3. PICK k \in S : \A y \in S : k <= y
  BY <1>2, LeastExists
<1>4. k \in 0..limit /\ Stops(k)
  OBVIOUS
<1>5. SameBytes(p - k, q - k, k)
  <2>1. SUFFICES ASSUME NEW i \in 0..k - 1 PROVE Text(p - k + i) = Text(q - k + i)
    BY DEF SameBytes
  <2>2. k - 1 - i \in 0..limit /\ k - 1 - i < k
    BY <1>1, <1>4
  <2>3. k - 1 - i \notin S
    BY <2>2, <1>3
  <2>4. Text(p - (k - 1 - i) - 1) = Text(q - (k - 1 - i) - 1)
    BY <2>2, <2>3
  <2>5. p - (k - 1 - i) - 1 = p - k + i /\ q - (k - 1 - i) - 1 = q - k + i
    BY <1>4
  <2> QED
    BY <2>4, <2>5
<1>6. \E j \in 0..limit : Ok(j)
  BY <1>4, <1>5
<1>7. CountBack(p, q, n) = CHOOSE j \in 0..limit : Ok(j)
  BY DEF CountBack
<1> HIDE DEF limit, Ok
<1> QED
  BY <1>1, <1>6, <1>7 DEF limit

---------------------------------------------------------------------------
(* What is written.                                                        *)

\* The length bytes of n are bytes, Extra(n) of them.
LEMMA LengthBytesLen ==
  ASSUME NEW n \in Nat
  PROVE  LengthBytes(n) \in Seq(Int) /\ Len(LengthBytes(n)) = Extra(n)
<1>1. CASE n < 15
  BY <1>1 DEF LengthBytes, Extra
<1>2. CASE n >= 15
  <2> DEFINE k == (n - 15) \div 255
             s == [i \in 1..k |-> 255]
             t == <<(n - 15) % 255>>
  <2>1. k \in Nat /\ (n + 240) \div 255 = k + 1 /\ (n - 15) % 255 \in Int
    BY <1>2
  <2>2. LengthBytes(n) = s \o t
    BY <1>2 DEF LengthBytes
  <2> HIDE DEF k
  <2>3. s \in Seq(Int) /\ Len(s) = k
    <3>1. s \in [1..k -> Int]
      OBVIOUS
    <3> QED
      BY <2>1, <3>1, IsASeq
  <2>4. t \in Seq(Int) /\ Len(t) = 1
    BY <2>1
  <2> HIDE DEF s, t
  <2>5. s \o t \in Seq(Int) /\ Len(s \o t) = k + 1
    <3>1. s \o t \in Seq(Int) /\ Len(s \o t) = Len(s) + Len(t)
      BY <2>3, <2>4, ConcatProperties, Zenon
    <3> QED
      BY <3>1, <2>3, <2>4
  <2> QED
    BY <2>1, <2>2, <2>5, <1>2 DEF Extra
<1> QED
  BY <1>1, <1>2

\* Sequences of bytes, one after the other.
LEMMA ConcatBytes ==
  ASSUME NEW a \in Seq(Byte), NEW b \in Seq(Byte)
  PROVE  /\ a \o b \in Seq(Byte) /\ Len(a \o b) = Len(a) + Len(b)
         /\ \A i \in 1..Len(a) : (a \o b)[i] = a[i]
<1>1. /\ a \o b \in Seq(Byte) /\ Len(a \o b) = Len(a) + Len(b)
      /\ \A i \in 1..Len(a) + Len(b) : (a \o b)[i] = IF i <= Len(a) THEN a[i] ELSE b[i - Len(a)]
  BY ConcatProperties, Zenon
<1>2. Len(a) \in Nat /\ Len(b) \in Nat
  BY LenProperties
<1>3. \A i \in 1..Len(a) : i \in 1..Len(a) + Len(b) /\ i <= Len(a)
  BY <1>2
<1> QED
  BY <1>1, <1>3

\* Length bytes are bytes.
LEMMA LengthBytesType ==
  ASSUME NEW n \in Nat
  PROVE  LengthBytes(n) \in Seq(Byte)
<1>1. CASE n < 15
  BY <1>1 DEF LengthBytes
<1>2. CASE n >= 15
  <2> DEFINE k == (n - 15) \div 255
             s == [i \in 1..k |-> 255]
             t == <<(n - 15) % 255>>
  <2>1. k \in Nat /\ (n - 15) % 255 \in 0..255
    BY <1>2
  <2>2. LengthBytes(n) = s \o t
    BY <1>2 DEF LengthBytes
  <2> HIDE DEF k
  <2>3. s \in Seq(Byte)
    <3>1. s \in [1..k -> Byte]
      BY DEF Byte
    <3> QED
      BY <2>1, <3>1, IsASeq
  <2>4. t \in Seq(Byte)
    BY <2>1 DEF Byte
  <2> HIDE DEF s, t
  <2> QED
    BY <2>2, <2>3, <2>4, ConcatBytes
<1> QED
  BY <1>1, <1>2

\* A wild copy ends less than 8 bytes past what it copies, or 8 past nothing.
LEMMA WildEndBounds ==
  ASSUME NEW at \in Nat, NEW n \in Nat
  PROVE  /\ WildEnd(at, n) \in Nat
         /\ WildEnd(at, n) >= at + n
         /\ n > 0 => WildEnd(at, n) <= at + n + 7
         /\ n = 0 => WildEnd(at, n) = at + 8
<1> DEFINE k == (n + 7) \div 8
<1>1. k \in Nat /\ 8 * k <= n + 7 /\ n <= 8 * k
  OBVIOUS
<1>2. n > 0 => k >= 1
  OBVIOUS
<1>3. n = 0 => k = 0
  OBVIOUS
<1>4. WildEnd(at, n) = at + 8 * MaxOf(1, k)
  BY DEF WildEnd, WILDCOPYLENGTH
<1> HIDE DEF k
<1>5. MaxOf(1, k) = IF 1 < k THEN k ELSE 1
  BY DEF MaxOf
<1>6. CASE n > 0
  <2>1. MaxOf(1, k) = k
    BY <1>1, <1>2, <1>5, <1>6
  <2> QED
    BY <1>1, <1>4, <1>6, <2>1
<1>7. CASE n = 0
  BY <1>1, <1>3, <1>4, <1>5, <1>7
<1> QED
  BY <1>6, <1>7

\* The text from a on, as literals.
LEMMA LiteralsType ==
  ASSUME text \in Seq(Byte), NEW a \in Nat, NEW n \in Nat, a + n <= Len(text)
  PROVE  /\ SubSeq(text, a + 1, a + n) \in Seq(Int)
         /\ Len(SubSeq(text, a + 1, a + n)) = n
<1>1. Len(text) \in Nat
  BY LenProperties
<1>2. \A i \in a + 1..a + n : text[i] \in Int
  <2>1. \A i \in a + 1..a + n : i \in 1..Len(text)
    BY <1>1
  <2>2. \A i \in 1..Len(text) : text[i] \in Byte
    BY ElementOfSeq
  <2> QED
    <3>1. Byte \subseteq Int
      BY DEF Byte
    <3> QED
      BY <2>1, <2>2, <3>1
<1>3. a + 1 \in Int /\ a + n \in Int
  OBVIOUS
<1> DEFINE s == SubSeq(text, a + 1, a + n)
<1>4. /\ s \in Seq(Int)
      /\ Len(s) = IF a + 1 <= a + n THEN (a + n) - (a + 1) + 1 ELSE 0
  BY <1>2, <1>3, SubSeqProperties
<1> HIDE DEF s
<1>5. Len(s) = n
  BY <1>4
<1> QED
  BY <1>4, <1>5 DEF s

\* Literals are bytes.
LEMMA LiteralsBytes ==
  ASSUME text \in Seq(Byte), NEW a \in Nat, NEW n \in Nat, a + n <= Len(text)
  PROVE  SubSeq(text, a + 1, a + n) \in Seq(Byte)
<1>1. Len(text) \in Nat
  BY LenProperties
<1>2. \A i \in a + 1..a + n : text[i] \in Byte
  <2>1. \A i \in a + 1..a + n : i \in 1..Len(text)
    BY <1>1
  <2>2. \A i \in 1..Len(text) : text[i] \in Byte
    BY ElementOfSeq
  <2> QED
    BY <2>1, <2>2
<1>3. a + 1 \in Int /\ a + n \in Int
  OBVIOUS
<1> QED
  BY <1>2, <1>3, SubSeqProperties

\* A sequence is one of bytes when each element is.
LEMMA ByteSeq ==
  ASSUME NEW n \in Nat, NEW s, s \in [1..n -> Byte]
  PROVE  s \in Seq(Byte) /\ Len(s) = n
OBVIOUS

\* Sequences of numbers, one after the other.
LEMMA ConcatInt ==
  ASSUME NEW a \in Seq(Int), NEW b \in Seq(Int)
  PROVE  a \o b \in Seq(Int) /\ Len(a \o b) = Len(a) + Len(b)
BY ConcatProperties, Zenon

\* A token, the length bytes of n, and n literals.
LEMMA RunType ==
  ASSUME out \in Seq(Int), text \in Seq(Byte), NEW a \in Nat, NEW n \in Nat,
         a + n <= Len(text), NEW t \in Int,
         NEW o, o = out \o <<t>> \o LengthBytes(n) \o SubSeq(text, a + 1, a + n)
  PROVE  /\ o \in Seq(Int) /\ Len(o) = Len(out) + 1 + Extra(n) + n
         /\ Len(out) \in Nat
<1> DEFINE s0 == <<t>>
           s1 == LengthBytes(n)
           s2 == SubSeq(text, a + 1, a + n)
<1>1. s0 \in Seq(Int) /\ Len(s0) = 1
  OBVIOUS
<1>2. s1 \in Seq(Int) /\ Len(s1) = Extra(n)
  BY LengthBytesLen
<1>3. s2 \in Seq(Int) /\ Len(s2) = n
  BY LiteralsType
<1>4. o = ((out \o s0) \o s1) \o s2
  OBVIOUS
<1> HIDE DEF s0, s1, s2
<1>5. out \o s0 \in Seq(Int) /\ Len(out \o s0) = Len(out) + Len(s0)
  BY ONLY out \in Seq(Int), <1>1, ConcatInt
<1>6. (out \o s0) \o s1 \in Seq(Int) /\ Len((out \o s0) \o s1) = Len(out \o s0) + Len(s1)
  BY ONLY <1>2, <1>5, ConcatInt
<1>7. ((out \o s0) \o s1) \o s2 \in Seq(Int)
      /\ Len(((out \o s0) \o s1) \o s2) = Len((out \o s0) \o s1) + Len(s2)
  BY ONLY <1>3, <1>6, ConcatInt
<1>8. Len(out) \in Nat
  BY LenProperties
<1>9. Extra(n) \in Nat
  BY ExtraBounds
<1>10. Len(o) = ((Len(out) + Len(s0)) + Len(s1)) + Len(s2)
  BY <1>4, <1>5, <1>6, <1>7
<1>11. Len(o) = Len(out) + 1 + Extra(n) + n
  BY <1>1, <1>2, <1>3, <1>8, <1>9, <1>10
<1> QED
  BY <1>4, <1>7, <1>8, <1>11

\* Tokens are bytes.
LEMMA RunToken ==
  ASSUME NEW n \in Nat
  PROVE  16 * MinOf(n, 15) \in 0..240
BY DEF MinOf

\* What a token, the length bytes of n, and n literals from a make of the block.
WithRun(t, a, n) == out \o <<t>> \o LengthBytes(n) \o SubSeq(text, a + 1, a + n)

LEMMA RunBytes ==
  ASSUME out \in Seq(Byte), text \in Seq(Byte), NEW a \in Nat, NEW n \in Nat,
         a + n <= Len(text), NEW t \in Byte
  PROVE  WithRun(t, a, n) \in Seq(Byte) /\ WithRun(t, a, n)[Len(out) + 1] = t
<1> DEFINE o == WithRun(t, a, n)
           s1 == LengthBytes(n)
           s2 == SubSeq(text, a + 1, a + n)
           first == Append(out, t)
<1>1. /\ first \in Seq(Byte) /\ Len(first) = Len(out) + 1 /\ first[Len(out) + 1] = t
      /\ first = out \o <<t>>
  BY AppendProperties, AppendIsConcat
<1>2. s1 \in Seq(Byte) /\ s2 \in Seq(Byte)
  BY LengthBytesType, LiteralsBytes
<1>3. o = (first \o s1) \o s2
  BY <1>1 DEF WithRun
<1>4. Len(out) \in Nat
  BY LenProperties
<1> HIDE DEF first, s1, s2, o
<1>5. /\ first \o s1 \in Seq(Byte) /\ Len(first \o s1) = Len(first) + Len(s1)
      /\ \A i \in 1..Len(first) : (first \o s1)[i] = first[i]
  BY ONLY <1>1, <1>2, ConcatBytes
<1>6. /\ (first \o s1) \o s2 \in Seq(Byte)
      /\ \A i \in 1..Len(first \o s1) : ((first \o s1) \o s2)[i] = (first \o s1)[i]
  BY ONLY <1>2, <1>5, ConcatBytes
<1>7. PICK k : k = Len(out) + 1
  OBVIOUS
<1>8. Len(s1) \in Nat
  BY <1>2, LenProperties
<1>9. k \in 1..Len(first) /\ k \in 1..Len(first \o s1)
  BY <1>1, <1>4, <1>5, <1>7, <1>8
<1>10. o \in Seq(Byte) /\ o[Len(out) + 1] = t
  BY <1>1, <1>3, <1>5, <1>6, <1>7, <1>9
<1> QED
  BY <1>10 DEF o

---------------------------------------------------------------------------
(* The room in dst.                                                        *)

Outputs == {"notLimited", "limitedOutput", "fillOutput"}

\* The most bytes that sequences which encode n bytes of the source take.
Bound(n) == n + n \div 255

\* The sequence begins in the room its check left for it: x bytes of the source
\* are encoded in o, n literals follow, of a source of size bytes.
LEMMA LiteralsRoom ==
  ASSUME NEW o \in Nat, NEW n \in Nat, NEW cap \in Int, NEW x \in Nat, NEW size \in Nat,
         \/ o + 1 + n + 8 + n \div 255 <= cap
         \/ o + 1 + (n + 240) \div 255 + n + 8 <= cap
         \/ /\ x + n + 9 <= size /\ cap >= size + size \div 255 + 16
            /\ o <= Bound(x)
  PROVE  /\ WildEnd(o + 1 + Extra(n), n) \in Nat
         /\ WildEnd(o + 1 + Extra(n), n) <= cap
         /\ o + 1 + Extra(n) + n <= WildEnd(o + 1 + Extra(n), n)
         /\ o <= Bound(x) => o + 1 + Extra(n) + n <= Bound(x + n) + 2
<1>1. /\ Extra(n) \in Nat /\ Extra(n) <= (n + 240) \div 255 /\ Extra(n) <= n \div 255 + 1
      /\ n < 15 => Extra(n) = 0
  BY ExtraBounds
<1>2. n \div 255 \in Nat /\ x \div 255 \in Nat /\ (x + n) \div 255 \in Nat /\ size \div 255 \in Nat
      /\ (n + 240) \div 255 \in Nat
  OBVIOUS
<1>3. x \div 255 + n \div 255 <= (x + n) \div 255
  BY DivAdds
<1>4. o <= Bound(x) => o + 1 + Extra(n) + n <= Bound(x + n) + 2
  BY <1>1, <1>2, <1>3 DEF Bound
<1>5. x + n + 9 <= size => (x + n) \div 255 <= size \div 255
  BY DivGrows
<1> DEFINE w == WildEnd(o + 1 + Extra(n), n)
           at == o + 1 + Extra(n)
<1>6. at \in Nat
  BY <1>1
<1>7. /\ w \in Nat /\ w >= at + n
      /\ n > 0 => w <= at + n + 7
      /\ n = 0 => w = at + 8
  BY <1>6, WildEndBounds
<1> HIDE DEF w
<1>8. w <= cap
  <2>1. CASE n = 0
    BY <2>1, <1>1, <1>2, <1>7, <1>5, <1>3 DEF Bound
  <2>2. CASE n > 0
    <3>1. w <= o + 1 + Extra(n) + n + 7
      BY <2>2, <1>7
    <3>2. CASE o + 1 + n + 8 + n \div 255 <= cap
      BY <3>1, <3>2, <1>1, <1>2, <1>7
    <3>3. CASE o + 1 + (n + 240) \div 255 + n + 8 <= cap
      BY <3>1, <3>3, <1>1, <1>2, <1>7
    <3>4. CASE x + n + 9 <= size /\ cap >= size + size \div 255 + 16 /\ o <= Bound(x)
      <4>1. o + 1 + Extra(n) + n <= (x + n) + (x + n) \div 255 + 2
        BY <3>4, <1>4 DEF Bound
      <4> QED
        BY <3>1, <3>4, <4>1, <1>1, <1>2, <1>5, <1>7
    <3> QED
      BY <3>2, <3>3, <3>4
  <2> QED
    BY <2>1, <2>2
<1> QED
  BY <1>4, <1>7, <1>8 DEF w

\* The limit of a source is a number.
LEMMA MaxInputType == LZ4_MAX_INPUT_SIZE \in Nat
BY SMT DEF LZ4_MAX_INPUT_SIZE

\* The room a block needs is a number.
LEMMA CompressBoundType ==
  ASSUME NEW n \in Int
  PROVE  LZ4_compressBound(n) \in Int
<1>1. CASE n \in 0..LZ4_MAX_INPUT_SIZE
  <2>1. n \in Nat /\ n \div 255 \in Int
    BY <1>1, MaxInputType
  <2> QED
    BY <1>1, <2>1 DEF LZ4_compressBound
<1>2. CASE ~(n \in 0..LZ4_MAX_INPUT_SIZE)
  BY <1>2 DEF LZ4_compressBound
<1> QED
  BY <1>1, <1>2

\* Whether all the last literals fit, and how many of them are written.
LastFits == op + (iend - anchor) + 1 + ((iend - anchor) + 255 - 15) \div 255 <= call.capacity

LastRun == IF filling /\ ~LastFits THEN FilledRun ELSE iend - anchor

\* What a compressor knows when it comes to the last literals.
RoomForLast ==
  /\ source \in Nat /\ anchor \in Nat /\ call.size \in Nat /\ call.capacity \in Int /\ op \in Nat
  /\ source <= anchor /\ anchor <= iend
  /\ call.output \in Outputs
  /\ ~limited => /\ op <= Bound(anchor - source)
                /\ call.capacity >= call.size + call.size \div 255 + 16
  /\ filling => op + 1 <= call.capacity

\* What is written fits; a call that fills dst leaves no room in it.
LEMMA LastRunFits ==
  ASSUME RoomForLast, call.output = "limitedOutput" => LastFits
  PROVE  /\ LastRun \in Nat /\ LastRun <= iend - anchor
         /\ op + 1 + Extra(LastRun) + LastRun <= call.capacity
         /\ filling /\ LastRun < iend - anchor =>
              \/ op + 1 + Extra(LastRun) + LastRun = call.capacity
              \/ op + 1 + Extra(LastRun) + LastRun = call.capacity - 1 /\ LastRun % 255 = 14
<1> DEFINE all  == iend - anchor
           fits == op + all + 1 + (all + 255 - 15) \div 255 <= call.capacity
           run  == IF filling /\ ~fits THEN FilledRun ELSE all
<1>1. call.output = "limitedOutput" => fits
  BY DEF LastFits
<1>2. /\ source \in Nat /\ iend \in Nat /\ anchor \in Nat /\ source <= anchor /\ anchor <= iend
      /\ iend = source + call.size /\ call.size \in Nat
      /\ call.capacity \in Int /\ op \in Nat
  BY DEF RoomForLast, iend
<1>3. all \in Nat
  BY <1>2
<1>4. /\ ~limited => /\ op <= Bound(anchor - source)
                    /\ call.capacity >= call.size + call.size \div 255 + 16
      /\ filling => op + 1 <= call.capacity
  BY DEF RoomForLast
<1>5. call.output \in Outputs
  BY DEF RoomForLast
<1>6. /\ run \in Nat /\ run <= all /\ op + 1 + Extra(run) + run <= call.capacity
      /\ filling /\ run < all =>
           \/ op + 1 + Extra(run) + run = call.capacity
           \/ op + 1 + Extra(run) + run = call.capacity - 1 /\ run % 255 = 14
  <2>1. CASE fits /\ limited
    <3>1. run = all
      BY <2>1
    <3>2. Extra(all) \in Nat /\ Extra(all) <= (all + 240) \div 255 /\ (all + 240) \div 255 \in Nat
      BY <1>3, ExtraBounds
    <3>3. op + all + 1 + (all + 240) \div 255 <= call.capacity
      BY <2>1
    <3> HIDE DEF run, all, fits
    <3> QED
      BY <3>1, <3>2, <3>3, <1>2, <1>3
  <2>2. CASE filling /\ ~fits
    <3>1. PICK r \in Nat : r = call.capacity - op - 1
      <4>1. op + 1 <= call.capacity
        BY <2>2, <1>4
      <4> QED
        BY <4>1, <1>2
    <3>2. run = r - (r + 256 - 15) \div 256
      BY <2>2, <3>1 DEF FilledRun
    <3>3. r < all + (all + 255 - 15) \div 255
      <4>1. (all + 255 - 15) \div 255 \in Int
        BY <1>3
      <4>2. ~(op + all + 1 + (all + 255 - 15) \div 255 <= call.capacity)
        BY <2>2
      <4> HIDE DEF all
      <4> QED
        BY <4>1, <4>2, <3>1, <1>2, <1>3
    <3> HIDE DEF run, all, fits
    <3>4. PICK n \in Int : n = run
      <4>1. (r + 256 - 15) \div 256 \in Int
        OBVIOUS
      <4> QED
        BY <4>1, <3>2
    <3>5. n \in Nat /\ n + Extra(n) <= r
          /\ (n + Extra(n) = r \/ (n + Extra(n) = r - 1 /\ n % 255 = 14))
      BY <3>2, <3>4, RunFills
    <3>6. n <= all
      BY <1>3, <3>3, <3>5, RunIsShorter
    <3>7. Extra(n) \in Nat
      BY <3>5, ExtraBounds
    <3>8. op + 1 + Extra(n) + n <= call.capacity
      BY <3>1, <3>5, <3>7, <1>2
    <3>9. \/ op + 1 + Extra(n) + n = call.capacity
          \/ op + 1 + Extra(n) + n = call.capacity - 1 /\ n % 255 = 14
      <4>1. PICK e \in Nat, o \in Nat, c \in Int :
              e = Extra(n) /\ o = op /\ c = call.capacity
        BY <3>7, <1>2
      <4>2. r = c - o - 1
        BY <3>1, <4>1
      <4>3. ASSUME n + e = r PROVE o + 1 + e + n = c
        BY <4>2, <4>3
      <4>4. ASSUME n + e = r - 1 PROVE o + 1 + e + n = c - 1
        BY <4>2, <4>4
      <4> QED
        BY <4>1, <4>3, <4>4, <3>5
    <3> QED
      BY <3>4, <3>5, <3>6, <3>8, <3>9
  <2>3. CASE ~limited
    <3>1. ~filling /\ run = all
      BY <2>3 DEF limited, filling
    <3> HIDE DEF run, fits
    <3>2. PICK x \in Nat : x = anchor - source /\ x + all = call.size
      BY <1>2
    <3> HIDE DEF all
    <3>3. Extra(all) \in Nat /\ Extra(all) <= all \div 255 + 1
      BY <1>3, ExtraBounds
    <3>4. x \div 255 + all \div 255 <= call.size \div 255
      BY <1>3, <3>2, DivAdds
    <3>5. x \div 255 \in Nat /\ all \div 255 \in Nat /\ call.size \div 255 \in Nat
      BY <1>2, <1>3
    <3>6. op <= x + x \div 255
      BY <2>3, <1>4, <3>2 DEF Bound
    <3>7. call.capacity >= call.size + call.size \div 255 + 16
      BY <1>4, <2>3
    <3>8. PICK d \in Nat, e \in Nat, f \in Nat :
            d = x \div 255 /\ e = all \div 255 /\ f = call.size \div 255
      BY <3>5
    <3>9. op + 1 + Extra(all) + all <= call.capacity
      <4>1. Extra(all) <= e + 1 /\ d + e <= f /\ op <= x + d
            /\ call.capacity >= call.size + f + 16
        BY ONLY <3>3, <3>4, <3>6, <3>7, <3>8
      <4>2. Extra(all) \in Nat /\ op \in Nat /\ call.capacity \in Int /\ call.size \in Nat
            /\ all \in Nat /\ x + all = call.size
        BY <3>2, <3>3, <1>2, <1>3
      <4> QED
        BY ONLY <4>1, <4>2, x \in Nat, d \in Nat, e \in Nat, f \in Nat
    <3> QED
      BY <3>1, <3>9, <1>3
  <2> QED
    BY <2>1, <2>2, <2>3, <1>1, <1>5 DEF Outputs, limited, filling
<1> QED
  BY <1>6 DEF LastRun, LastFits

---------------------------------------------------------------------------
(* The memory of a sender.                                                 *)

\* KB64 is a number.
LEMMA WindowType == KB64 \in Nat /\ KB64 > 0
BY DistanceAssumption DEF KB64, MFLIMIT

\* The memory of a sender, empty but for the dictionary.
LEMMA MemoryType ==
  ASSUME NEW s, s.dict \in Seq(Byte), s.size \in Nat
  PROVE  Memory(s) \in Seq(Byte) /\ Len(Memory(s)) = Len(s.dict) + (1 + KB64 + 1 + s.size)
<1>1. PICK d, n, z : d = s.dict /\ n = 1 + KB64 + 1 + s.size /\ z = [i \in 1..n |-> 0]
  OBVIOUS
<1>2. n \in Nat
  BY <1>1, WindowType
<1>3. z \in [1..n -> Byte]
  BY <1>1 DEF Byte
<1>4. z \in Seq(Byte) /\ Len(z) = n
  BY <1>2, <1>3, ByteSeq
<1>5. d \o z \in Seq(Byte) /\ Len(d \o z) = Len(d) + Len(z)
  BY <1>1, <1>4, ConcatProperties
<1> QED
  BY <1>1, <1>4, <1>5 DEF Memory

\* A block put in the memory.
LEMMA BlockPutType ==
  ASSUME NEW t \in Seq(Byte), NEW p \in Nat, NEW b \in Seq(Byte)
  PROVE  Put(t, p, b) \in Seq(Byte) /\ Len(Put(t, p, b)) = Len(t)
<1>1. Len(t) \in Nat /\ DOMAIN t = 1..Len(t) /\ \A i \in DOMAIN t : t[i] \in Byte
  BY LenProperties, ElementOfSeq
<1>2. \A i \in DOMAIN b : b[i] \in Byte
  BY ElementOfSeq, LenProperties
<1>3. Put(t, p, b) \in [1..Len(t) -> Byte]
  BY <1>1, <1>2 DEF Put
<1> QED
  BY <1>1, <1>3, ByteSeq
===========================================================================
