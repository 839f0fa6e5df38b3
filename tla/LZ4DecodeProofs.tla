-------------------------- MODULE LZ4DecodeProofs --------------------------
(***************************************************************************)
(* Proofs that the C decoder of LZ4 neither writes nor reads outside its   *)
(* buffers, for every source, capacity, prefix and dictionary: the source  *)
(* may be anything at all.  Then the same of the arm64 decoder as the      *)
(* kernel calls it, the NEON loop with the C decoder behind it, wherever   *)
(* the loop gives up.  The source and dst of the call are separate, and an *)
(* offset of two bytes stays within the 64 KB that KB64 stands for.        *)
(***************************************************************************)
EXTENDS LZ4Accel, TLAPS

\* The source does not lie in dst (in-place decompression is the other case).
SeparateBuffers == KB64 = 65536 /\ job.at >= job.cap

\* What an address of dst, or of a prefix, may hold.
Cell == Byte \cup {Junk}

MemOK(m) == \A i \in DOMAIN m : m[i] \in Cell

\* m2 is m after n bytes are written from d on.
Filled(m2, m, d, n) == MemOK(m2) /\ DOMAIN m2 = DOMAIN m \cup d..(d + n - 1)

---------------------------------------------------------------------------
(* The inductive invariant.                                                *)

Typed ==
  /\ job \in Jobs /\ src \in Seq(Byte) /\ Len(src) = iend
  /\ ip \in Nat /\ op \in Nat /\ length \in Nat
  /\ token \in Byte /\ result \in Int
  /\ offset \in Nat /\ offset < KB64
  /\ MemOK(mem)

Bounded == DOMAIN mem \subseteq 0..oend - 1 /\ 0..op - 1 \subseteq DOMAIN mem /\ op <= oend

\* How far each label is from the ends of the two buffers.  A partial block
\* may come to a match anywhere; any other stays clear of the end of dst.
Margin ==
  /\ pc \in Labels
  /\ pc = "start"      => ip = 0 \/ ip < iend
  /\ pc = "fast"       => ip < iend /\ op + FASTLOOP_SAFE_DISTANCE <= oend
  /\ pc = "fast_match" => ip + 3 <= iend /\ op + 32 <= oend
  /\ pc = "fast_copy"  => /\ ip < iend /\ length >= MINMATCH
                          /\ op + length + FASTLOOP_SAFE_DISTANCE < oend
  /\ pc = "safe"       => ip < iend
  /\ pc = "literals"   => ip <= iend
  /\ pc = "offset"     => ip + 3 <= iend /\ (op + MFLIMIT <= oend \/ job.partial)
  /\ pc = "copy_match" => /\ ip < iend /\ length <= 15
                          /\ op + MFLIMIT <= oend \/ job.partial
  /\ pc = "safe_match" => /\ ip < iend /\ length >= MINMATCH
                          /\ op + MFLIMIT <= oend \/ job.partial

DecInv == SeparateBuffers /\ Typed /\ Bounded /\ Margin

---------------------------------------------------------------------------
(* Memory.                                                                 *)

\* The lengths and addresses of a call are numbers.
LEMMA CallType ==
  ASSUME job \in Jobs
  PROVE  /\ job \in JobType
         /\ iend \in Nat /\ oend \in Nat /\ dictSize \in Nat /\ lowPrefix \in Int
         /\ lowPrefix <= 0 /\ Len(job.prefix) = -lowPrefix
         /\ job.at \in Nat /\ job.extAt \in Int /\ job.partial \in BOOLEAN
         /\ job.dict \in DictModes
<1>1. job \in JobType
  BY JobsAssumption
<1>2. job.src \in Seq(Byte) /\ job.prefix \in Seq(Byte) /\ job.ext \in Seq(Byte)
      /\ job.cap \in Nat /\ job.at \in Nat /\ job.extAt \in Int
      /\ job.partial \in BOOLEAN /\ job.dict \in DictModes
  BY <1>1 DEF JobType
<1>3. Len(job.src) \in Nat /\ Len(job.prefix) \in Nat /\ Len(job.ext) \in Nat
  BY <1>2
<1>4. QED
  BY <1>1, <1>2, <1>3 DEF iend, oend, dictSize, lowPrefix

\* A source that is out of the way of dst is read as it was given.
LEMMA SrcInType ==
  ASSUME SeparateBuffers, Typed, NEW m, DOMAIN m \subseteq 0..oend - 1, NEW i \in 0..iend - 1
  PROVE  SrcIn(m, i) \in Byte
<1>1. job.at >= oend /\ job.at \in Nat /\ oend \in Nat /\ iend \in Nat
  BY CallType DEF SeparateBuffers, Typed, oend
<1>2. job.at + i \notin DOMAIN m
  BY <1>1
<1>3. src \in Seq(Byte) /\ Len(src) = iend
  BY DEF Typed
<1>4. src[i + 1] \in Byte
  BY <1>1, <1>3
<1>5. QED
  BY <1>2, <1>4 DEF SrcIn

\* The same of dst as it is.
LEMMA SrcType ==
  ASSUME SeparateBuffers, Typed, Bounded, NEW i \in 0..iend - 1
  PROVE  Src(i) \in Byte
BY SrcInType DEF Bounded, Src

\* A byte is a number below 256.
LEMMA ByteRange == \A x \in Byte : x \in Nat /\ x < 256
BY DEF Byte

\* The two bytes of an offset.
LEMMA OffsetInType ==
  ASSUME SeparateBuffers, Typed, NEW m, DOMAIN m \subseteq 0..oend - 1, NEW i \in Nat, i + 2 <= iend
  PROVE  LE16In(m, i) \in Nat /\ LE16In(m, i) < KB64
<1>1. i \in 0..iend - 1 /\ i + 1 \in 0..iend - 1
  BY CallType DEF Typed
<1>2. SrcIn(m, i) \in Byte /\ SrcIn(m, i + 1) \in Byte
  BY <1>1, SrcInType
<1>3. /\ SrcIn(m, i) \in Nat /\ SrcIn(m, i) < 256
      /\ SrcIn(m, i + 1) \in Nat /\ SrcIn(m, i + 1) < 256
  BY <1>2, ByteRange
<1>4. \A x, y \in Nat : x < 256 /\ y < 256 =>
        LET z == IF x = Outside \/ y = Outside THEN Outside ELSE x + 256 * y
        IN  z \in Nat /\ z < 65536
  BY DEF Outside
<1>5. KB64 = 65536
  BY DEF SeparateBuffers
<1>6. QED
  BY <1>3, <1>4, <1>5 DEF LE16In

\* The same of dst as it is.
LEMMA OffsetType ==
  ASSUME SeparateBuffers, Typed, Bounded, NEW i \in Nat, i + 2 <= iend
  PROVE  LZ4_readLE16(i) \in Nat /\ LZ4_readLE16(i) < KB64
BY OffsetInType DEF Bounded, LZ4_readLE16

\* Reading at or above the prefix yields a byte, or what nobody has written.
LEMMA AtType ==
  ASSUME job \in Jobs, NEW m, MemOK(m), NEW i \in Int, i >= lowPrefix
  PROVE  At(m, i) \in Cell
<1>1. CASE i \in DOMAIN m
  BY <1>1 DEF At, MemOK
<1>2. CASE i \notin DOMAIN m /\ i >= 0
  BY <1>2 DEF At, Cell
<1>3. CASE i \notin DOMAIN m /\ i < 0
  <2>1. job.prefix \in Seq(Byte) /\ Len(job.prefix) = -lowPrefix /\ lowPrefix \in Int
    BY CallType DEF JobType
  <2>2. i - lowPrefix + 1 \in 1..Len(job.prefix)
    BY <1>3, <2>1
  <2>3. job.prefix[i - lowPrefix + 1] \in Byte
    BY <2>1, <2>2
  <2>4. QED
    BY <1>3, <2>3 DEF At, Cell
<1>4. QED
  BY <1>1, <1>2, <1>3

\* The same of the dictionary.
LEMMA ExtAtType ==
  ASSUME Typed, NEW i \in 1..dictSize
  PROVE  ExtAt(i) \in Cell
<1>1. job.ext \in Seq(Byte) /\ dictSize \in Nat /\ Len(job.ext) = dictSize
  BY CallType DEF Typed, JobType, dictSize
<1>2. job.ext[dictSize - i + 1] \in Byte
  BY <1>1
<1>3. QED
  BY <1>2 DEF ExtAt, Typed, MemOK, Cell

\* Writing cells, one range or two that follow each other.
LEMMA WriteFills ==
  ASSUME NEW m, MemOK(m), NEW d \in Int, NEW n \in Int, NEW f,
         \A i \in 0..n - 1 : f[i] \in Cell
  PROVE  Filled(Write(m, d, n, f), m, d, n)
<1>1. \A i \in d..(d + n - 1) : i - d \in 0..n - 1
  OBVIOUS
<1>2. QED
  BY <1>1 DEF Filled, Write, MemOK

LEMMA FillsTwice ==
  ASSUME NEW m, NEW m1, NEW m2, NEW d \in Int, NEW n \in Int, NEW k \in Nat, NEW j \in Nat,
         Filled(m1, m, d, n), Filled(m2, m1, d + k, j), k <= n, n <= k + j
  PROVE  Filled(m2, m, d, k + j)
BY DEF Filled

\* m is good for a dst of which the first q bytes count.
Held(m, q) == /\ MemOK(m) /\ DOMAIN m \subseteq 0..oend - 1
              /\ 0..q - 1 \subseteq DOMAIN m /\ q <= oend /\ q \in Nat

\* What dst holds after n bytes are written to op, of which k count.
LEMMA FilledIsHeld ==
  ASSUME Typed, Bounded, NEW m, NEW n \in Nat, NEW k \in Nat, Filled(m, mem, op, n),
         k <= n, op + n <= oend
  PROVE  Held(m, op + k)
<1>1. oend \in Nat /\ op \in Nat
  BY CallType DEF Typed
<1>2. QED
  BY <1>1 DEF Filled, Bounded, Held

\* Words cover what they are asked for, and less than a word more.
LEMMA WordsBounds ==
  ASSUME NEW n \in Int, NEW w \in {8, 16, 32}
  PROVE  /\ Words(n, w) \in Nat /\ Words(n, w) >= n /\ Words(n, w) >= w
         /\ Words(n, w) <= n + w - 1 \/ Words(n, w) = w
<1>1. CASE w = 8
  BY <1>1 DEF Words, MaxOf
<1>2. CASE w = 16
  BY <1>2 DEF Words, MaxOf
<1>3. CASE w = 32
  BY <1>3 DEF Words, MaxOf
<1>4. QED
  BY <1>1, <1>2, <1>3

\* A remainder is below its divisor.
LEMMA ModRange ==
  ASSUME NEW a \in Nat, NEW b \in Nat, b > 0
  PROVE  a % b \in 0..b - 1
OBVIOUS

\* Copies read at or above the prefix.
LEMMA CopyFills ==
  ASSUME job \in Jobs, NEW m, MemOK(m), NEW d \in Int, NEW s \in Int, s >= lowPrefix,
         NEW n \in Int, NEW w \in Nat \ {0}
  PROVE  Filled(Copy(m, d, s, n, w), m, d, n)
<1> DEFINE f == [i \in 0..n - 1 |-> IF d - s >= w THEN At(m, s + (i % (d - s)))
                                    ELSE IF i < w THEN At(m, s + i) ELSE Junk]
<1>1. lowPrefix \in Int
  BY CallType
<1>2. ASSUME NEW i \in 0..n - 1 PROVE f[i] \in Cell
  <2>1. CASE d - s >= w
    <3>1. i % (d - s) \in Nat
      BY <2>1, ModRange
    <3>2. s + (i % (d - s)) \in Int /\ s + (i % (d - s)) >= lowPrefix
      BY <1>1, <3>1
    <3>3. QED
      BY <2>1, <3>2, AtType
  <2>2. CASE ~(d - s >= w) /\ i < w
    <3>1. s + i \in Int /\ s + i >= lowPrefix
      BY <1>1
    <3>2. QED
      BY <2>2, <3>1, AtType
  <2>3. CASE ~(d - s >= w) /\ ~(i < w)
    BY <2>3 DEF Cell
  <2>4. QED
    BY <2>1, <2>2, <2>3
<1> HIDE DEF f
<1>3. Filled(Write(m, d, n, f), m, d, n)
  BY <1>2, WriteFills
<1>4. QED
  BY <1>3 DEF Copy, f

LEMMA CopyBytesFills ==
  ASSUME job \in Jobs, NEW m, MemOK(m), NEW d \in Int, NEW s \in Int, s >= lowPrefix, s <= d,
         NEW n \in Int
  PROVE  Filled(CopyBytes(m, d, s, n), m, d, n)
<1> DEFINE f == [i \in 0..n - 1 |-> At(m, s + IF d = s THEN i ELSE (i % (d - s)))]
<1>1. lowPrefix \in Int
  BY CallType
<1>2. ASSUME NEW i \in 0..n - 1 PROVE f[i] \in Cell
  <2> DEFINE k == IF d = s THEN i ELSE (i % (d - s))
  <2>1. k \in Nat
    BY ModRange
  <2> HIDE DEF k
  <2>2. s + k \in Int /\ s + k >= lowPrefix
    BY <1>1, <2>1
  <2>3. QED
    BY <2>2, AtType DEF k
<1> HIDE DEF f
<1>3. Filled(Write(m, d, n, f), m, d, n)
  BY <1>2, WriteFills
<1>4. QED
  BY <1>3 DEF CopyBytes, f

\* Reading on from where the copy is in the prefix or in dst.
LEMMA PlainFills ==
  ASSUME job \in Jobs, NEW m, MemOK(m), NEW d \in Int, NEW s \in Int, s >= lowPrefix,
         NEW n \in Int
  PROVE  Filled(Write(m, d, n, [i \in 0..n - 1 |-> At(m, s + i)]), m, d, n)
<1>1. \A i \in 0..n - 1 : At(m, s + i) \in Cell
  BY AtType, CallType
<1>2. QED
  BY <1>1, WriteFills

\* Literals are read from the source.
LEMMA LiteralsFill ==
  ASSUME SeparateBuffers, Typed, Bounded, NEW d \in Int, NEW s \in Nat, NEW n \in Int,
         s + n <= iend
  PROVE  Filled(Literals(mem, d, s, n), mem, d, n)
<1>1. \A i \in 0..n - 1 : Src(s + i) \in Cell
  <2>1. ASSUME NEW i \in 0..n - 1 PROVE s + i \in 0..iend - 1
    BY CallType DEF Typed
  <2>2. QED
    BY <2>1, SrcType DEF Cell
<1> DEFINE f == [i \in 0..n - 1 |-> Src(s + i)]
<1>2. \A i \in 0..n - 1 : f[i] \in Cell
  BY <1>1
<1>3. MemOK(mem)
  BY DEF Typed
<1> HIDE DEF f
<1>4. Filled(Write(mem, d, n, f), mem, d, n)
  BY <1>2, <1>3, WriteFills
<1>5. QED
  BY <1>4 DEF Literals, f

---------------------------------------------------------------------------
(* The copies of the decoder.                                              *)

\* The two tables are for the offsets below 8, and never lead below the match.
LEMMA Tables ==
  \A o \in 0..7 : /\ inc32table[o + 1] \in Nat
                  /\ dec64table[o + 1] \in Int
                  /\ inc32table[o + 1] - dec64table[o + 1] \in Nat
BY DEF inc32table, dec64table

\* The first 8 bytes of a match.
LEMMA FirstFills ==
  ASSUME job \in Jobs, NEW m, MemOK(m), NEW d \in Int, NEW o \in Nat, d - o >= lowPrefix
  PROVE  Filled(First(m, d, o), m, d, 8)
<1>1. lowPrefix \in Int
  BY CallType
<1>2. CASE o < 8
  <2> DEFINE zero == Write(m, d, 4, [i \in 0..3 |-> 0])
  <2> DEFINE four == CopyBytes(zero, d, d - o, 4)
  <2> DEFINE from == d - o + inc32table[o + 1]
  <2> DEFINE eight == Copy(four, d + 4, from, 4, 4)
  <2>1. Filled(zero, m, d, 4)
    <3> DEFINE f == [i \in 0..3 |-> 0]
    <3>1. 0 \in Cell
      BY SMTT(30) DEF Cell, Byte
    <3>2. \A i \in 0..4 - 1 : f[i] \in Cell
      BY <3>1
    <3> HIDE DEF f
    <3>3. Filled(Write(m, d, 4, f), m, d, 4)
      BY <3>2, WriteFills
    <3>4. QED
      BY <3>3 DEF f
  <2>2. from \in Int /\ from >= lowPrefix
    <3>1. inc32table[o + 1] \in Nat
      BY <1>2, Tables
    <3>2. QED
      BY <1>1, <3>1
  <2>3. First(m, d, o) = eight
    BY <1>2 DEF First, FirstEight
  <2> HIDE DEF zero, from
  <2>4. Filled(four, zero, d, 4)
    <3>1. MemOK(zero)
      BY <2>1 DEF Filled
    <3>2. d - o \in Int /\ d - o <= d
      BY <1>1
    <3>3. QED
      BY <3>1, <3>2, CopyBytesFills
  <2> HIDE DEF four
  <2>5. Filled(four, m, d, 4)
    BY <2>1, <2>4 DEF Filled
  <2>6. Filled(eight, four, d + 4, 4)
    <3>1. MemOK(four)
      BY <2>5 DEF Filled
    <3>2. QED
      BY <2>2, <3>1, CopyFills
  <2> HIDE DEF eight
  <2>7. Filled(eight, m, d, 4 + 4)
    BY <2>5, <2>6, FillsTwice
  <2>8. QED
    BY <2>3, <2>7
<1>3. CASE ~(o < 8)
  BY <1>1, <1>3, CopyFills DEF First
<1>4. QED
  BY <1>2, <1>3

\* The rest of a match, n bytes from the ninth on.
LEMMA RestFills ==
  ASSUME job \in Jobs, NEW m, MemOK(m), NEW d \in Int, NEW o \in Nat, d - o >= lowPrefix,
         NEW n \in Int
  PROVE  Filled(Rest(m, d, o, n, 8), m, d + 8, n)
<1> DEFINE from == IF o < 8 THEN AfterEight(d, o) ELSE d - o + 8
<1>1. lowPrefix \in Int
  BY CallType
<1>2. from \in Int /\ from >= lowPrefix
  <2>1. CASE o < 8
    <3> DEFINE inc == inc32table[o + 1]
    <3> DEFINE dec == dec64table[o + 1]
    <3>1. inc \in Nat /\ dec \in Int /\ inc - dec \in Nat
      <4>1. o \in 0..7
        BY <2>1
      <4>2. QED
        BY <4>1, Tables
    <3>2. from = d - o + inc - dec
      BY <2>1 DEF AfterEight
    <3> HIDE DEF inc, dec, from
    <3>3. QED
      BY <1>1, <3>1, <3>2
  <2>2. CASE ~(o < 8)
    BY <1>1, <2>2
  <2>3. QED
    BY <2>1, <2>2
<1>3. Rest(m, d, o, n, 8) = Copy(m, d + 8, from, n, 8)
  BY DEF Rest
<1> HIDE DEF from
<1>4. QED
  BY <1>2, <1>3, CopyFills

\* First and rest together.
LEMMA WholeFills ==
  ASSUME job \in Jobs, NEW m, MemOK(m), NEW d \in Int, NEW o \in Nat, d - o >= lowPrefix,
         NEW n \in Nat
  PROVE  Filled(Rest(First(m, d, o), d, o, n, 8), m, d, 8 + n)
<1> DEFINE eight == First(m, d, o)
<1>1. Filled(eight, m, d, 8)
  BY FirstFills
<1> HIDE DEF eight
<1>2. Filled(Rest(eight, d, o, n, 8), eight, d + 8, n)
  <2>1. MemOK(eight)
    BY <1>1 DEF Filled
  <2>2. QED
    BY <2>1, RestFills
<1> DEFINE whole == Rest(eight, d, o, n, 8)
<1> HIDE DEF whole
<1>3. Filled(whole, m, d, 8 + n)
  BY <1>1, <1>2, FillsTwice DEF whole
<1>4. QED
  BY <1>3 DEF eight, whole

\* LZ4_memcpy_using_offset writes a little more than it is asked for.
LEMMA UsingOffsetFills ==
  ASSUME job \in Jobs, NEW m, MemOK(m), NEW d \in Int, NEW o \in Nat, d - o >= lowPrefix,
         NEW n \in Nat
  PROVE  \E size \in Nat : size >= n /\ size <= n + 16 /\ Filled(UsingOffset(m, d, o, n), m, d, size)
<1>1. lowPrefix \in Int
  BY CallType
<1>2. CASE o \in {1, 2, 4}
  <2> DEFINE size == Words(n, 8)
  <2> DEFINE f == [i \in 0..size - 1 |-> At(m, d - o + (i % o))]
  <2>1. size \in Nat /\ size >= n /\ size <= n + 16
    <3>1. /\ Words(n, 8) \in Nat /\ Words(n, 8) >= n
          /\ Words(n, 8) <= n + 8 - 1 \/ Words(n, 8) = 8
      BY WordsBounds
    <3>2. QED
      BY <3>1
  <2>2. UsingOffset(m, d, o, n) = Write(m, d, size, f)
    BY <1>2 DEF UsingOffset
  <2> HIDE DEF size
  <2>3. \A i \in 0..size - 1 : f[i] \in Cell
    <3>1. ASSUME NEW i \in 0..size - 1 PROVE d - o + (i % o) \in Int /\ d - o + (i % o) >= lowPrefix
      <4>1. i % o \in Nat
        BY <1>2, <2>1, ModRange
      <4>2. QED
        BY <1>1, <4>1
    <3>2. QED
      BY <3>1, AtType
  <2> HIDE DEF f
  <2>4. Filled(Write(m, d, size, f), m, d, size)
    BY <2>1, <2>3, WriteFills
  <2>5. QED
    BY <2>1, <2>2, <2>4
<1>3. CASE o \notin {1, 2, 4}
  <2> DEFINE w == Words(n - 8, 8)
  <2>1. w \in Nat /\ 8 + w >= n /\ 8 + w <= n + 16
    <3>1. /\ Words(n - 8, 8) \in Nat /\ Words(n - 8, 8) >= n - 8
          /\ Words(n - 8, 8) <= n - 8 + 8 - 1 \/ Words(n - 8, 8) = 8
      BY WordsBounds
    <3>2. QED
      BY <3>1
  <2>2. UsingOffset(m, d, o, n) = Rest(First(m, d, o), d, o, w, 8)
    BY <1>3 DEF UsingOffset
  <2> HIDE DEF w
  <2>3. QED
    BY <2>1, <2>2, WholeFills
<1>4. QED
  BY <1>2, <1>3

\* A match of the call that is not taken from the dictionary does not begin
\* below the prefix: an offset reaches 64 KB back at most.
LEMMA MatchInPrefix ==
  ASSUME SeparateBuffers, Typed, ~OutsideBuffers, ~FromDictionary
  PROVE  op - offset >= lowPrefix
<1>1. CASE job.dict = "usingExtDict"
  BY <1>1, CallType DEF Typed, FromDictionary, match
<1>2. CASE job.dict # "usingExtDict"
  <2>1. job.ext = <<>>
    BY <1>2, JobsAssumption DEF Typed
  <2>2. dictSize = 0 /\ KB64 \in Nat /\ KB64 > 0
    BY <2>1 DEF dictSize, SeparateBuffers
  <2>3. QED
    BY <2>2, CallType DEF OutsideBuffers, Typed, match
<1>3. QED
  BY <1>1, <1>2

\* The look at the prefix the shortcuts have instead.
LEMMA ShortcutInPrefix ==
  ASSUME SeparateBuffers, Typed, NEW d \in Nat, NEW o \in Nat, o < KB64, InPrefix(d, o)
  PROVE  d - o >= lowPrefix
<1>1. CASE job.dict = "withPrefix64k"
  <2>1. job \in Jobs /\ KB64 \in Nat
    BY DEF Typed, SeparateBuffers
  <2>2. lowPrefix = -KB64
    <3>1. Len(job.prefix) = KB64
      <4>1. job \in Jobs
        BY <2>1
      <4>2. QED
        BY <1>1, <4>1, JobsAssumption
    <3>2. QED
      BY <3>1 DEF lowPrefix
  <2>3. QED
    BY <2>1, <2>2
<1>2. CASE job.dict # "withPrefix64k"
  BY <1>2 DEF InPrefix
<1>3. QED
  BY <1>1, <1>2

\* A match that begins in the dictionary stays inside it, and goes on in the
\* prefix or in dst.
LEMMA ExtCopyFills ==
  ASSUME SeparateBuffers, Typed, ~OutsideBuffers, FromDictionary, NEW n \in Nat
  PROVE  Filled(ExtCopy(n), mem, op, n)
<1> DEFINE below == lowPrefix - match
<1> DEFINE copySize == MinOf(n, lowPrefix - match)
<1> DEFINE restSize == n - copySize
<1> DEFINE start == op + copySize
<1> DEFINE f == [i \in 0..copySize - 1 |-> ExtAt(lowPrefix - match - i)]
<1> DEFINE head == Write(mem, op, copySize, f)
<1>1. lowPrefix \in Int /\ lowPrefix <= 0 /\ op \in Nat /\ offset \in Nat /\ offset < KB64
      /\ dictSize \in Nat /\ KB64 \in Nat /\ MemOK(mem) /\ job \in Jobs
  BY CallType DEF Typed, SeparateBuffers
<1>2. below \in 1..dictSize
  BY <1>1 DEF OutsideBuffers, FromDictionary, match
<1>3. copySize \in Nat /\ copySize <= n /\ copySize <= below /\ restSize \in Nat
  BY <1>2 DEF MinOf
<1>4. ExtCopy(n) = IF restSize > start - lowPrefix THEN CopyBytes(head, start, lowPrefix, restSize)
                   ELSE Write(head, start, restSize, [i \in 0..restSize - 1 |-> At(head, lowPrefix + i)])
  BY DEF ExtCopy
<1>5. \A i \in 0..copySize - 1 : f[i] \in Cell
  <2>1. ASSUME NEW i \in 0..copySize - 1 PROVE below - i \in 1..dictSize
    BY <1>1, <1>2, <1>3
  <2>2. QED
    BY <2>1, ExtAtType
<1> HIDE DEF below, copySize, f
<1>6. Filled(head, mem, op, copySize)
  BY <1>1, <1>3, <1>5, WriteFills
<1>7. MemOK(head) /\ start \in Int /\ lowPrefix <= start
  BY <1>1, <1>3, <1>6 DEF Filled
<1> HIDE DEF head
<1>8. Filled(ExtCopy(n), head, op + copySize, restSize)
  <2>1. CASE restSize > start - lowPrefix
    <3>1. Filled(CopyBytes(head, start, lowPrefix, restSize), head, start, restSize)
      BY <1>1, <1>3, <1>7, CopyBytesFills
    <3>2. QED
      BY <1>4, <2>1, <3>1
  <2>2. CASE ~(restSize > start - lowPrefix)
    <3> DEFINE plain == [i \in 0..restSize - 1 |-> At(head, lowPrefix + i)]
    <3>1. \A i \in 0..restSize - 1 : plain[i] \in Cell
      <4>1. ASSUME NEW i \in 0..restSize - 1 PROVE At(head, lowPrefix + i) \in Cell
        <5>1. lowPrefix + i \in Int /\ lowPrefix + i >= lowPrefix
          BY <1>1, <1>3
        <5>2. QED
          BY <1>1, <1>7, <5>1, AtType
      <4>2. QED
        BY <4>1
    <3>2. ExtCopy(n) = Write(head, start, restSize, plain)
      BY <1>4, <2>2
    <3> HIDE DEF plain
    <3>3. Filled(Write(head, start, restSize, plain), head, start, restSize)
      BY <1>3, <1>7, <3>1, WriteFills
    <3>4. QED
      BY <3>2, <3>3
  <2>3. QED
    BY <2>1, <2>2
<1>9. Filled(ExtCopy(n), mem, op, copySize + restSize)
  BY <1>1, <1>3, <1>6, <1>8, FillsTwice
<1>10. copySize + restSize = n
  BY <1>3
<1>11. QED
  BY <1>9, <1>10

---------------------------------------------------------------------------
(* Lengths.                                                                *)

\* The two halves of a token.
LEMMA Codes ==
  \A t \in Byte : RunCode(t) \in Nat /\ RunCode(t) <= 15 /\ MatchCode(t) \in Nat /\ MatchCode(t) <= 15
BY ByteRange DEF RunCode, MatchCode

\* The bytes of a length lie below ilimit.
LEMMA ReadLengthType ==
  ASSUME SeparateBuffers, Typed, Bounded, NEW code \in Nat, NEW mask \in Nat, NEW from \in Nat,
         NEW ilimit \in Int, ilimit <= iend, NEW r \in ReadLength(code, mask, from, ilimit)
  PROVE  /\ r.len \in Nat /\ r.next \in Nat /\ r.len >= code
         /\ code # mask => r.len = code /\ r.next = from
         /\ code = mask => r.next > from /\ r.next <= ilimit
<1>1. CASE code # mask
  BY <1>1 DEF ReadLength
<1>2. CASE code = mask
  <2>1. PICK j \in LastLengthByte(from, ilimit) :
          r = [len |-> code + 255 * (j - from) + Src(j), next |-> j + 1]
    BY <1>2 DEF ReadLength
  <2>2. j \in from..ilimit - 1
    BY <2>1 DEF LastLengthByte
  <2>3. Src(j) \in Nat
    <3>1. j \in 0..iend - 1
      BY <2>2, CallType DEF Typed
    <3>2. QED
      BY <3>1, SrcType, ByteRange
  <2>4. QED
    BY <1>2, <2>1, <2>2, <2>3
<1>3. QED
  BY <1>1, <1>2

---------------------------------------------------------------------------
(* The steps.                                                              *)

\* What the invariant says of every label.
LEMMA Facts ==
  ASSUME DecInv
  PROVE  /\ SeparateBuffers /\ Typed /\ Bounded /\ Margin
         /\ job \in Jobs /\ iend \in Nat /\ oend \in Nat /\ lowPrefix \in Int /\ lowPrefix <= 0
         /\ ip \in Nat /\ op \in Nat /\ length \in Nat /\ token \in Byte /\ result \in Int
         /\ offset \in Nat /\ offset < KB64 /\ MemOK(mem) /\ Held(mem, op) /\ op <= oend
<1>1. SeparateBuffers /\ Typed /\ Bounded /\ Margin
  BY DEF DecInv
<1>2. job \in Jobs /\ iend \in Nat /\ oend \in Nat /\ lowPrefix \in Int /\ lowPrefix <= 0
  BY <1>1, CallType DEF Typed
<1>3. Held(mem, op)
  BY <1>1 DEF Typed, Bounded, Held
<1>4. QED
  BY <1>1, <1>2, <1>3 DEF Typed, Held

\* A step within its types and its buffers, also one that writes to the source.
LEMMA StepAnySource ==
  ASSUME DecInv, UNCHANGED job, src' \in Seq(Byte), Len(src') = iend,
         ip' \in Nat, length' \in Nat, token' \in Byte,
         offset' \in Nat, offset' < KB64, result' \in Int, Held(mem', op')
  PROVE  /\ SeparateBuffers' /\ Typed' /\ Bounded'
         /\ iend' = iend /\ oend' = oend /\ job' = job
<1>1. iend' = iend /\ oend' = oend
  BY DEF iend, oend
<1>2. SeparateBuffers'
  BY DEF DecInv, SeparateBuffers
<1>3. Typed'
  BY <1>1 DEF DecInv, Typed, Held
<1>4. Bounded'
  <2>1. DOMAIN mem' \subseteq 0..oend - 1 /\ 0..op' - 1 \subseteq DOMAIN mem' /\ op' <= oend
    BY DEF Held
  <2>2. DOMAIN mem' \subseteq 0..oend' - 1 /\ 0..op' - 1 \subseteq DOMAIN mem' /\ op' <= oend'
    BY <1>1, <2>1, Zenon
  <2>3. QED
    BY <2>2, Zenon DEF Bounded
<1>5. QED
  BY <1>1, <1>2, <1>3, <1>4

\* The steps of the decoder leave the source alone.
LEMMA Step ==
  ASSUME DecInv, UNCHANGED call, ip' \in Nat, length' \in Nat, token' \in Byte,
         offset' \in Nat, offset' < KB64, result' \in Int, Held(mem', op')
  PROVE  /\ SeparateBuffers' /\ Typed' /\ Bounded'
         /\ iend' = iend /\ oend' = oend /\ job' = job
<1>1. job' = job /\ src' = src
  BY DEF call
<1>2. src \in Seq(Byte) /\ Len(src) = iend
  BY DEF DecInv, Typed
<1>3. QED
  BY <1>1, <1>2, StepAnySource

\* Nothing is asked of a call that has returned.
LEMMA DoneMargin == ASSUME pc' = "done" PROVE Margin'
BY DEF Margin, Labels

\* A call that stops with nothing written.
LEMMA ErrorStep ==
  ASSUME DecInv, UNCHANGED call, UNCHANGED <<ip, op, mem, length>>, token' \in Byte,
         offset' \in Nat, offset' < KB64, pc' = "done", result' \in Int
  PROVE  DecInv'
<1>2. Held(mem', op') /\ ip' \in Nat /\ length' \in Nat
  BY Facts
<1>3. SeparateBuffers' /\ Typed' /\ Bounded'
  BY <1>2, Step
<1>4. Margin'
  BY DoneMargin
<1>5. QED
  BY <1>3, <1>4 DEF DecInv

\* Where a length that cannot be read stops.
LEMMA LengthErrorType ==
  ASSUME NEW from \in Nat, NEW ilimit \in Int
  PROVE  LengthErrorAt(from, ilimit, TRUE) \in Int /\ LengthErrorAt(from, ilimit, FALSE) \in Int
BY DEF LengthErrorAt, MaxOf

\* Start: a block that is not empty has a token.
LEMMA StartStep == ASSUME DecInv, Start PROVE DecInv'
<1>1. pc = "start" /\ UNCHANGED call /\ UNCHANGED <<ip, op, mem, token, length, offset>>
  BY DEF Start
<1>2. result' \in Int
  BY Facts DEF Start, Return, Goto
<1>3. /\ SeparateBuffers' /\ Typed' /\ Bounded' /\ iend' = iend /\ oend' = oend /\ job' = job
  BY <1>1, <1>2, Facts, Step
<1>4. CASE oend = 0 \/ iend = 0
  BY <1>3, <1>4, DoneMargin DEF Start, Return, DecInv
<1>5. CASE ~(oend = 0 \/ iend = 0)
  <2>1. pc' = IF oend - op < FASTLOOP_SAFE_DISTANCE THEN "safe" ELSE "fast"
    BY <1>5 DEF Start, Goto
  <2>2. ip < iend
    BY <1>1, <1>5, Facts DEF Margin
  <2>3. Margin'
    BY <1>1, <1>3, <2>1, <2>2, Facts DEF Margin, Labels, FASTLOOP_SAFE_DISTANCE
  <2>4. QED
    BY <1>3, <2>3 DEF DecInv
<1>6. QED
  BY <1>4, <1>5

\* FastLiterals: 64 bytes of dst are free, and the length bytes, 15 bytes of
\* source or more are left after them.
LEMMA FastLiteralsStep == ASSUME DecInv, FastLiterals PROVE DecInv'
<1> DEFINE code == RunCode(token')
<1> DEFINE run == ReadLength(code, RUN_MASK, ip + 1, iend - RUN_MASK)
<1> DEFINE roomy(r) == IF code = RUN_MASK THEN op + r.len <= oend - 32 /\ r.next + r.len <= iend - 32
                       ELSE r.next <= iend - (16 + 1)
<1> DEFINE size(r) == IF code = RUN_MASK THEN Words(r.len, 32) ELSE 16
<1>1. /\ pc = "fast" /\ token' = Src(ip) /\ UNCHANGED call /\ UNCHANGED offset
  BY DEF FastLiterals
<1>2. ip < iend /\ op + 64 <= oend
  BY <1>1, Facts DEF Margin, FASTLOOP_SAFE_DISTANCE
<1>3. token' \in Byte /\ code \in Nat /\ code <= 15
  <2>1. ip \in 0..iend - 1
    BY <1>2, Facts
  <2>2. token' \in Byte
    BY <1>1, <2>1, Facts, SrcType
  <2>3. QED
    BY <2>2, Codes
<1> HIDE DEF code
<1>4. ASSUME NEW r \in run
      PROVE  /\ r.len \in Nat /\ r.next \in Nat /\ r.next <= iend
             /\ code # 15 => r.len <= 14
  <2>1. ip + 1 \in Nat /\ iend - 15 \in Int /\ iend - 15 <= iend
    BY Facts
  <2>2. /\ r.len \in Nat /\ r.next \in Nat
        /\ code # 15 => r.len = code /\ r.next = ip + 1
        /\ code = 15 => r.next <= iend - 15
    BY <1>3, <2>1, Facts, ReadLengthType DEF RUN_MASK
  <2>3. QED
    BY <1>2, <1>3, <2>2, Facts
<1>5. CASE /\ OutputError(LengthErrorAt(ip + 1, iend - RUN_MASK, TRUE))
           /\ UNCHANGED <<ip, op, mem, length>>
  <2> DEFINE e == LengthErrorAt(ip + 1, iend - RUN_MASK, TRUE)
  <2>1. e \in Int
    <3>1. ip + 1 \in Nat /\ iend - RUN_MASK \in Int
      BY Facts DEF RUN_MASK
    <3>2. QED
      BY <3>1, LengthErrorType
  <2>2. pc' = "done" /\ result' = -e - 1
    BY <1>5 DEF OutputError, Return
  <2> HIDE DEF e
  <2>3. result' \in Int
    BY <2>1, <2>2
  <2>4. QED
    BY <1>1, <1>3, <1>5, <2>2, <2>3, Facts, ErrorStep
<1>6. ASSUME NEW r \in run, length' = r.len, roomy(r), mem' = Literals(mem, op, r.next, size(r)),
             ip' = r.next + r.len, op' = op + r.len, Goto("fast_match")
      PROVE  DecInv'
  <2>1. /\ size(r) \in Nat /\ r.len <= size(r)
        /\ r.next + size(r) <= iend /\ op + size(r) <= oend
        /\ r.next + r.len + 3 <= iend /\ op + r.len + 32 <= oend
    <3>1. CASE code = 15
      <4>1. /\ Words(r.len, 32) \in Nat /\ Words(r.len, 32) >= r.len
            /\ Words(r.len, 32) <= r.len + 32 - 1 \/ Words(r.len, 32) = 32
        BY <1>4, WordsBounds
      <4>2. QED
        BY <1>2, <1>4, <1>6, <3>1, <4>1, Facts DEF RUN_MASK
    <3>2. CASE code # 15
      BY <1>2, <1>4, <1>6, <3>2, Facts DEF RUN_MASK
    <3>3. QED
      BY <3>1, <3>2
  <2> HIDE DEF size, roomy, run
  <2>2. Filled(mem', mem, op, size(r))
    BY <1>4, <1>6, <2>1, Facts, LiteralsFill
  <2>3. Held(mem', op')
    BY <1>4, <1>6, <2>1, <2>2, Facts, FilledIsHeld
  <2>4. pc' = "fast_match" /\ result' = result /\ ip' \in Nat /\ length' \in Nat
    BY <1>4, <1>6 DEF Goto
  <2>5. SeparateBuffers' /\ Typed' /\ Bounded' /\ iend' = iend /\ oend' = oend
    BY <1>1, <1>3, <2>3, <2>4, Facts, Step
  <2>6. Margin'
    BY <1>6, <2>1, <2>4, <2>5 DEF Margin, Labels
  <2>7. QED
    BY <2>5, <2>6 DEF DecInv
<1>7. ASSUME NEW r \in run, length' = r.len, ip' = r.next, UNCHANGED <<op, mem>>, Goto("literals")
      PROVE  DecInv'
  <2> HIDE DEF run
  <2>1. pc' = "literals" /\ result' = result /\ ip' \in Nat /\ length' \in Nat /\ ip' <= iend
    BY <1>4, <1>7 DEF Goto
  <2>2. SeparateBuffers' /\ Typed' /\ Bounded' /\ iend' = iend /\ oend' = oend
    BY <1>1, <1>3, <1>7, <2>1, Facts, Step
  <2>3. Margin'
    BY <2>1, <2>2 DEF Margin, Labels
  <2>4. QED
    BY <2>2, <2>3 DEF DecInv
<1>8. QED
  BY <1>5, <1>6, <1>7 DEF FastLiterals, code

\* FastMatch: the offset and the length bytes end before the last literals.
LEMMA FastMatchStep == ASSUME DecInv, FastMatch PROVE DecInv'
<1> DEFINE code == MatchCode(token)
<1> DEFINE run == ReadLength(code, ML_MASK, ip + 2, iend - LASTLITERALS + 1)
<1>1. pc = "fast_match" /\ UNCHANGED call /\ UNCHANGED token /\ offset' = LZ4_readLE16(ip)
  BY DEF FastMatch
<1>2. ip + 3 <= iend /\ op + 32 <= oend
  BY <1>1, Facts DEF Margin
<1>3. token' \in Byte /\ code \in Nat /\ code <= 15 /\ offset' \in Nat /\ offset' < KB64
  <2>1. offset' \in Nat /\ offset' < KB64
    BY <1>1, <1>2, Facts, OffsetType
  <2>2. QED
    BY <1>1, <2>1, Facts, Codes
<1> HIDE DEF code
<1>4. ASSUME NEW r \in run
      PROVE  /\ r.len \in Nat /\ r.next \in Nat /\ r.next < iend
             /\ code # 15 => r.len <= 14
  <2> DEFINE limit == iend - LASTLITERALS + 1
  <2>1. ip + 2 \in Nat /\ ML_MASK \in Nat /\ limit \in Int /\ limit < iend
    BY Facts DEF ML_MASK, LASTLITERALS
  <2>2. r \in ReadLength(code, ML_MASK, ip + 2, limit)
    OBVIOUS
  <2> HIDE DEF limit, run
  <2>3. limit <= iend
    BY <2>1, Facts
  <2>4. /\ r.len \in Nat /\ r.next \in Nat
        /\ code # ML_MASK => r.len = code /\ r.next = ip + 2
        /\ code = ML_MASK => r.next <= limit
    BY <1>3, <2>1, <2>2, <2>3, Facts, ReadLengthType
  <2>5. QED
    BY <1>2, <1>3, <2>1, <2>4, Facts DEF ML_MASK
<1>5. CASE /\ OutputError(LengthErrorAt(ip + 2, iend - LASTLITERALS + 1, FALSE))
           /\ UNCHANGED <<ip, op, mem, length>>
  <2> DEFINE e == LengthErrorAt(ip + 2, iend - LASTLITERALS + 1, FALSE)
  <2>1. e \in Int
    <3>1. ip + 2 \in Nat /\ iend - LASTLITERALS + 1 \in Int
      BY Facts DEF LASTLITERALS
    <3>2. QED
      BY <3>1, LengthErrorType
  <2>2. pc' = "done" /\ result' = -e - 1
    BY <1>5 DEF OutputError, Return
  <2> HIDE DEF e
  <2>3. result' \in Int
    BY <2>1, <2>2
  <2>4. QED
    BY <1>1, <1>3, <1>5, <2>2, <2>3, Facts, ErrorStep
<1>6. ASSUME NEW r \in run, ip' = r.next, length' = r.len + MINMATCH, UNCHANGED <<op, mem>>,
             \/ Goto("safe_match")
             \/ /\ ~(op + r.len + MINMATCH >= oend - FASTLOOP_SAFE_DISTANCE)
                /\ Goto("fast_copy")
      PROVE  DecInv'
  <2> HIDE DEF run
  <2>1. /\ pc' = "safe_match" \/ (pc' = "fast_copy" /\ op + length' + 64 < oend)
        /\ result' = result /\ ip' \in Nat /\ ip' < iend /\ length' \in Nat /\ length' >= 4
    BY <1>4, <1>6, Facts DEF Goto, MINMATCH, FASTLOOP_SAFE_DISTANCE
  <2>2. SeparateBuffers' /\ Typed' /\ Bounded' /\ iend' = iend /\ oend' = oend
    BY <1>1, <1>3, <1>6, <2>1, Facts, Step
  <2>3. Margin'
    BY <1>2, <1>6, <2>1, <2>2, Facts DEF Margin, Labels, MINMATCH, FASTLOOP_SAFE_DISTANCE, MFLIMIT
  <2>4. QED
    BY <2>2, <2>3 DEF DecInv
<1>7. ASSUME NEW r \in run, ip' = r.next, length' = r.len + MINMATCH,
             ~(op + r.len + MINMATCH >= oend - FASTLOOP_SAFE_DISTANCE),
             code # ML_MASK, InPrefix(op, offset'), mem' = Copy18(mem, op, offset'),
             op' = op + length', Goto("fast")
      PROVE  DecInv'
  <2> HIDE DEF run
  <2>1. /\ pc' = "fast" /\ op + length' + 64 < oend /\ length' <= 18
        /\ result' = result /\ ip' \in Nat /\ ip' < iend /\ length' \in Nat /\ length' >= 4
    BY <1>4, <1>7, Facts DEF Goto, MINMATCH, FASTLOOP_SAFE_DISTANCE, ML_MASK
  <2>2. op - offset' >= lowPrefix /\ op - offset' \in Int
    BY <1>3, <1>7, Facts, ShortcutInPrefix
  <2>3. Filled(mem', mem, op, 18)
    BY <1>7, <2>2, Facts, CopyFills DEF Copy18
  <2>4. Held(mem', op')
    BY <1>7, <2>1, <2>3, Facts, FilledIsHeld
  <2>5. SeparateBuffers' /\ Typed' /\ Bounded' /\ iend' = iend /\ oend' = oend
    BY <1>1, <1>3, <2>1, <2>4, Facts, Step
  <2>6. Margin'
    BY <1>7, <2>1, <2>5, Facts DEF Margin, Labels, FASTLOOP_SAFE_DISTANCE
  <2>7. QED
    BY <2>5, <2>6 DEF DecInv
<1>8. QED
  BY <1>5, <1>6, <1>7 DEF FastMatch, code

\* A step that stops at a bad offset, or with too little room.
LEMMA StopStep ==
  ASSUME DecInv, UNCHANGED <<call, ip, token, offset>>, UNCHANGED <<op, mem, length>>,
         OutputError(ip)
  PROVE  DecInv'
<1>1. pc' = "done" /\ result' \in Int
  BY Facts DEF OutputError, Return
<1>2. QED
  BY <1>1, Facts, ErrorStep

\* A match from the dictionary leaves either loop where it began.
LEMMA DictionaryStep ==
  ASSUME DecInv, NEW loop \in {"fast", "safe"}, ~OutsideBuffers, FromDictionary, ip < iend,
         loop = "fast" => op + length + 64 < oend,
         DictionaryMatch(loop), UNCHANGED <<call, ip, token, offset>>
  PROVE  DecInv'
<1> DEFINE n == IF op + length > oend - LASTLITERALS THEN MinOf(length, oend - op) ELSE length
<1>1. n \in Nat /\ op + n <= oend /\ (loop = "fast" => n = length)
  BY Facts DEF MinOf, LASTLITERALS
<1>2. CASE OutputError(ip) /\ UNCHANGED <<op, mem, length>>
  BY <1>2, StopStep
<1>3. CASE mem' = ExtCopy(n) /\ length' = n /\ op' = op + n /\ Goto(loop)
  <2> HIDE DEF n
  <2>1. Filled(mem', mem, op, n)
    BY <1>1, <1>3, Facts, ExtCopyFills
  <2>2. Held(mem', op')
    BY <1>1, <1>3, <2>1, Facts, FilledIsHeld
  <2>3. pc' = loop /\ result' = result
    BY <1>3 DEF Goto
  <2>4. SeparateBuffers' /\ Typed' /\ Bounded' /\ iend' = iend /\ oend' = oend
    BY <1>1, <1>3, <2>2, <2>3, Facts, Step
  <2>5. Margin'
    BY <1>1, <1>3, <2>3, <2>4, Facts DEF Margin, Labels, FASTLOOP_SAFE_DISTANCE
  <2>6. QED
    BY <2>4, <2>5 DEF DecInv
<1>4. QED
  BY <1>2, <1>3 DEF DictionaryMatch

\* FastCopy: 64 bytes are free after the match, more than any copy goes over.
LEMMA FastCopyStep == ASSUME DecInv, FastCopy PROVE DecInv'
<1>1. pc = "fast_copy" /\ UNCHANGED <<call, ip, token, offset>>
  BY DEF FastCopy
<1>2. ip < iend /\ length >= 4 /\ op + length + 64 < oend
  BY <1>1, Facts DEF Margin, MINMATCH, FASTLOOP_SAFE_DISTANCE
<1>3. CASE OutputError(ip) /\ UNCHANGED <<op, mem, length>>
  BY <1>1, <1>3, StopStep
<1>4. CASE ~OutsideBuffers /\ FromDictionary /\ DictionaryMatch("fast")
  BY <1>1, <1>2, <1>4, DictionaryStep
<1>5. CASE /\ ~OutsideBuffers /\ ~FromDictionary
           /\ mem' = IF offset < 16 THEN UsingOffset(mem, op, offset, length)
                     ELSE Copy(mem, op, match, Words(length, 32), 16)
           /\ op' = op + length /\ Goto("fast") /\ UNCHANGED length
  <2>1. op - offset >= lowPrefix /\ op - offset \in Int
    BY <1>5, Facts, MatchInPrefix
  <2>2. PICK size \in Nat : /\ size >= length /\ size <= length + 64
                            /\ Filled(mem', mem, op, size)
    <3>1. CASE offset < 16
      <4>1. \E size \in Nat : /\ size >= length /\ size <= length + 16
                             /\ Filled(UsingOffset(mem, op, offset, length), mem, op, size)
        <5>1. op \in Int /\ offset \in Nat /\ length \in Nat /\ job \in Jobs /\ MemOK(mem)
          BY Facts
        <5>2. QED
          BY <2>1, <5>1, UsingOffsetFills
      <4>2. mem' = UsingOffset(mem, op, offset, length)
        BY <1>5, <3>1
      <4>3. QED
        BY <4>1, <4>2, Facts
    <3>2. CASE ~(offset < 16)
      <4> DEFINE size == Words(length, 32)
      <4>1. size \in Nat /\ size >= length /\ (size <= length + 32 - 1 \/ size = 32)
        BY Facts, WordsBounds
      <4>2. mem' = Copy(mem, op, op - offset, size, 16)
        BY <1>5, <3>2 DEF match
      <4> HIDE DEF size
      <4>3. Filled(mem', mem, op, size)
        BY <2>1, <4>1, <4>2, Facts, CopyFills
      <4>4. QED
        BY <4>1, <4>3, Facts
    <3>3. QED
      BY <3>1, <3>2
  <2>3. Held(mem', op')
    BY <1>2, <1>5, <2>2, Facts, FilledIsHeld
  <2>4. pc' = "fast" /\ result' = result /\ length' = length
    BY <1>5 DEF Goto
  <2>5. SeparateBuffers' /\ Typed' /\ Bounded' /\ iend' = iend /\ oend' = oend
    BY <1>1, <1>5, <2>3, <2>4, Facts, Step
  <2>6. Margin'
    BY <1>1, <1>2, <1>5, <2>4, <2>5, Facts DEF Margin, Labels, FASTLOOP_SAFE_DISTANCE
  <2>7. QED
    BY <2>5, <2>6 DEF DecInv
<1>6. QED
  BY <1>3, <1>4, <1>5 DEF FastCopy

\* SafeShortcut: 16 bytes of literals and 18 of a match fit on both sides.
LEMMA SafeShortcutStep == ASSUME DecInv, SafeShortcut PROVE DecInv'
<1> DEFINE run == RunCode(token')
<1> DEFINE code == MatchCode(token')
<1> DEFINE lit == Literals(mem, op, ip + 1, 16)
<1>1. /\ pc = "safe" /\ token' = Src(ip) /\ UNCHANGED call /\ ShortcutFits
      /\ run # 15 /\ offset' = LE16In(lit, ip + 1 + run) /\ ip' = ip + 1 + run + 2
      /\ length' = code
  BY DEF SafeShortcut, RUN_MASK
<1>2. ip + 17 < iend /\ op + 32 <= oend
  BY <1>1, Facts DEF ShortcutFits
<1>3. token' \in Byte /\ run \in Nat /\ run <= 14 /\ code \in Nat /\ code <= 15
  <2>1. ip \in 0..iend - 1
    BY <1>2, Facts
  <2>2. token' \in Byte
    BY <1>1, <2>1, Facts, SrcType
  <2>3. QED
    BY <1>1, <2>2, Codes
<1>4. Filled(lit, mem, op, 16) /\ DOMAIN lit \subseteq 0..oend - 1
  <2>1. Filled(lit, mem, op, 16)
    BY <1>2, Facts, LiteralsFill
  <2>2. QED
    BY <1>2, <2>1, Facts DEF Filled, Bounded
<1>5. offset' \in Nat /\ offset' < KB64
  <2> HIDE DEF run, lit
  <2>1. ip + 1 + run \in Nat /\ ip + 1 + run + 2 <= iend
    BY <1>2, <1>3, Facts
  <2>2. QED
    BY <1>1, <1>4, <2>1, Facts, OffsetInType
<1>6. CASE /\ code # ML_MASK /\ InPrefix(op + run, offset')
           /\ mem' = Copy18(lit, op + run, offset') /\ op' = op + run + code + MINMATCH
           /\ Goto("safe")
  <2> HIDE DEF run, code
  <2>1. offset' \in Nat /\ offset' < KB64
    BY <1>5
  <2>2. Filled(lit, mem, op, 16)
    BY <1>4
  <2>3. MemOK(lit)
    BY <2>2 DEF Filled
  <2> HIDE DEF lit
  <2>4. op + run \in Nat /\ (op + run) - offset' >= lowPrefix /\ (op + run) - offset' \in Int
    <3> DEFINE at == op + run
    <3>1. at \in Nat
      BY <1>3, Facts
    <3>2. InPrefix(at, offset')
      BY <1>6
    <3> HIDE DEF at
    <3>3. at - offset' >= lowPrefix
      BY <2>1, <3>1, <3>2, Facts, ShortcutInPrefix
    <3>4. QED
      BY <2>1, <3>1, <3>3 DEF at
  <2>5. Filled(mem', lit, op + run, 18)
    <3>1. mem' = Copy(lit, op + run, (op + run) - offset', 18, 8)
      BY <1>6 DEF Copy18
    <3>2. job \in Jobs /\ op + run \in Int
      BY <2>4, Facts
    <3>3. QED
      BY <2>3, <2>4, <3>1, <3>2, CopyFills
  <2>6. Filled(mem', mem, op, run + 18)
    BY <1>3, <2>2, <2>5, Facts, FillsTwice
  <2> DEFINE k == run + code + 4
  <2>7. k \in Nat /\ k <= run + 18 /\ op + (run + 18) <= oend /\ op' = op + k
        /\ run + 18 \in Nat
    BY <1>2, <1>3, <1>6, Facts DEF ML_MASK, MINMATCH
  <2> HIDE DEF k
  <2>8. Held(mem', op')
    BY <2>6, <2>7, Facts, FilledIsHeld
  <2>9. pc' = "safe" /\ result' = result /\ ip' \in Nat /\ ip' < iend /\ length' \in Nat
    BY <1>1, <1>2, <1>3, <1>6, Facts DEF Goto
  <2>10. SeparateBuffers' /\ Typed' /\ Bounded' /\ iend' = iend /\ oend' = oend
    BY <1>1, <1>3, <2>1, <2>8, <2>9, Facts, Step
  <2>11. Margin'
    BY <2>9, <2>10 DEF Margin, Labels
  <2>12. QED
    BY <2>10, <2>11 DEF DecInv
<1>7. CASE mem' = lit /\ op' = op + run /\ Goto("copy_match")
  <2> HIDE DEF run, code
  <2>1. offset' \in Nat /\ offset' < KB64
    BY <1>5
  <2>2. Filled(mem', mem, op, 16)
    BY <1>4, <1>7
  <2>3. Held(mem', op')
    BY <1>2, <1>3, <1>7, <2>2, Facts, FilledIsHeld
  <2>4. /\ pc' = "copy_match" /\ result' = result /\ ip' \in Nat /\ ip' < iend
        /\ length' \in Nat /\ length' <= 15 /\ op' + 12 <= oend
    BY <1>1, <1>2, <1>3, <1>7, Facts DEF Goto
  <2>5. SeparateBuffers' /\ Typed' /\ Bounded' /\ iend' = iend /\ oend' = oend
    BY <1>1, <1>3, <2>1, <2>3, <2>4, Facts, Step
  <2>6. Margin'
    BY <2>4, <2>5 DEF Margin, Labels, MFLIMIT
  <2>7. QED
    BY <2>5, <2>6 DEF DecInv
<1>8. QED
  BY <1>6, <1>7 DEF SafeShortcut

\* SafeToken: literals may be all that is left of the source.
LEMMA SafeTokenStep == ASSUME DecInv, SafeToken PROVE DecInv'
<1> DEFINE code == RunCode(token')
<1> DEFINE run == ReadLength(code, RUN_MASK, ip + 1, iend - RUN_MASK)
<1>1. pc = "safe" /\ token' = Src(ip) /\ UNCHANGED <<call, op, mem, offset>>
  BY DEF SafeToken
<1>2. ip < iend
  BY <1>1, Facts DEF Margin
<1>3. token' \in Byte /\ code \in Nat
  <2>1. ip \in 0..iend - 1
    BY <1>2, Facts
  <2>2. token' \in Byte
    BY <1>1, <2>1, Facts, SrcType
  <2>3. QED
    BY <2>2, Codes
<1> HIDE DEF code
<1>4. CASE OutputError(LengthErrorAt(ip + 1, iend - RUN_MASK, TRUE)) /\ UNCHANGED <<ip, length>>
  <2> DEFINE e == LengthErrorAt(ip + 1, iend - RUN_MASK, TRUE)
  <2>1. e \in Int
    <3>1. ip + 1 \in Nat /\ iend - RUN_MASK \in Int
      BY Facts DEF RUN_MASK
    <3>2. QED
      BY <3>1, LengthErrorType
  <2>2. pc' = "done" /\ result' = -e - 1
    BY <1>4 DEF OutputError, Return
  <2> HIDE DEF e
  <2>3. result' \in Int
    BY <2>1, <2>2
  <2>4. QED
    BY <1>1, <1>3, <1>4, <2>2, <2>3, Facts, ErrorStep
<1>5. ASSUME NEW r \in run, ip' = r.next, length' = r.len, Goto("literals")
      PROVE  DecInv'
  <2>1. ip + 1 \in Nat /\ iend - 15 \in Int /\ iend - 15 <= iend
    BY Facts
  <2>2. /\ r.len \in Nat /\ r.next \in Nat
        /\ code # 15 => r.next = ip + 1
        /\ code = 15 => r.next <= iend - 15
    BY <1>3, <2>1, Facts, ReadLengthType DEF RUN_MASK
  <2> HIDE DEF run
  <2>3. pc' = "literals" /\ result' = result /\ ip' \in Nat /\ ip' <= iend /\ length' \in Nat
    BY <1>2, <1>5, <2>1, <2>2, Facts DEF Goto
  <2>4. SeparateBuffers' /\ Typed' /\ Bounded' /\ iend' = iend /\ oend' = oend
    BY <1>1, <1>3, <2>3, Facts, Step
  <2>5. Margin'
    BY <2>3, <2>4 DEF Margin, Labels
  <2>6. QED
    BY <2>4, <2>5 DEF DecInv
<1>6. QED
  BY <1>4, <1>5 DEF SafeToken, code

\* SafeLiterals: byte by byte at either end, whole words away from them.
LEMMA SafeLiteralsStep == ASSUME DecInv, SafeLiterals PROVE DecInv'
<1> DEFINE n == MinOf(MinOf(length, iend - ip), oend - op)
<1>1. pc = "literals" /\ UNCHANGED <<call, token, offset>>
  BY DEF SafeLiterals
<1>2. ip <= iend
  BY <1>1, Facts DEF Margin
<1>3. CASE OutputError(ip) /\ UNCHANGED <<ip, op, mem, length>>
  BY <1>1, <1>3, StopStep
<1>4. CASE /\ mem' = Literals(mem, op, ip, n) /\ ip' = ip + n /\ op' = op + n /\ length' = n
           /\ IF ~job.partial \/ op' = oend \/ ip' >= iend - 2 THEN Return(op') ELSE Goto("offset")
  <2>1. n \in Nat /\ ip + n <= iend /\ op + n <= oend
    BY <1>2, Facts DEF MinOf
  <2> HIDE DEF n
  <2>2. Filled(mem', mem, op, n)
    BY <1>4, <2>1, Facts, LiteralsFill
  <2>3. Held(mem', op')
    BY <1>4, <2>1, <2>2, Facts, FilledIsHeld
  <2>4. ip' \in Nat /\ op' \in Nat /\ length' \in Nat
    BY <1>4, <2>1, Facts
  <2>5. /\ result' \in Int
        /\ pc' = "done" \/ (pc' = "offset" /\ job.partial /\ ip' + 3 <= iend)
    BY <1>4, <2>4, Facts DEF Return, Goto
  <2>6. SeparateBuffers' /\ Typed' /\ Bounded' /\ iend' = iend /\ oend' = oend /\ job' = job
    BY <1>1, <2>3, <2>4, <2>5, Facts, Step
  <2>7. Margin'
    BY <2>5, <2>6 DEF Margin, Labels
  <2>8. QED
    BY <2>6, <2>7 DEF DecInv
<1>5. CASE /\ ~(op + length > oend - MFLIMIT \/ ip + length > iend - (2 + 1 + LASTLITERALS))
           /\ mem' = Literals(mem, op, ip, Words(length, 8))
           /\ ip' = ip + length /\ op' = op + length
           /\ Goto("offset") /\ UNCHANGED length
  <2> DEFINE size == Words(length, 8)
  <2>1. size \in Nat /\ size >= length /\ (size <= length + 8 - 1 \/ size = 8)
    BY Facts, WordsBounds
  <2>2. mem' = Literals(mem, op, ip, size)
    BY <1>5
  <2> HIDE DEF size
  <2>3. op + length + 12 <= oend /\ ip + length + 8 <= iend
    BY <1>5, Facts DEF MFLIMIT, LASTLITERALS
  <2>4. op + size <= oend /\ ip + size <= iend
    BY <2>1, <2>3, Facts
  <2>5. Filled(mem', mem, op, size)
    BY <2>1, <2>2, <2>4, Facts, LiteralsFill
  <2>6. Held(mem', op')
    BY <1>5, <2>1, <2>4, <2>5, Facts, FilledIsHeld
  <2>7. pc' = "offset" /\ result' = result /\ ip' \in Nat /\ length' = length
    BY <1>5, Facts DEF Goto
  <2>8. SeparateBuffers' /\ Typed' /\ Bounded' /\ iend' = iend /\ oend' = oend
    BY <1>1, <2>6, <2>7, Facts, Step
  <2>9. Margin'
    BY <1>5, <2>3, <2>7, <2>8, Facts DEF Margin, Labels, MFLIMIT
  <2>10. QED
    BY <2>8, <2>9 DEF DecInv
<1>6. QED
  BY <1>3, <1>4, <1>5 DEF SafeLiterals

\* SafeOffset: the two bytes of an offset are there.
LEMMA SafeOffsetStep == ASSUME DecInv, SafeOffset PROVE DecInv'
<1>1. /\ pc = "offset" /\ UNCHANGED <<call, op, mem, token>> /\ offset' = LZ4_readLE16(ip)
      /\ ip' = ip + 2 /\ length' = MatchCode(token) /\ pc' = "copy_match" /\ result' = result
  BY DEF SafeOffset, Goto
<1>2. ip + 3 <= iend /\ (op + 12 <= oend \/ job.partial)
  BY <1>1, Facts DEF Margin, MFLIMIT
<1>3. /\ offset' \in Nat /\ offset' < KB64 /\ ip' \in Nat /\ ip' < iend
      /\ length' \in Nat /\ length' <= 15
  <2>1. offset' \in Nat /\ offset' < KB64
    BY <1>1, <1>2, Facts, OffsetType
  <2>2. length' \in Nat /\ length' <= 15
    BY <1>1, Facts, Codes
  <2>3. QED
    BY <1>1, <1>2, <2>1, <2>2, Facts
<1>4. SeparateBuffers' /\ Typed' /\ Bounded' /\ iend' = iend /\ oend' = oend /\ job' = job
  BY <1>1, <1>3, Facts, Step
<1>5. Margin'
  BY <1>1, <1>2, <1>3, <1>4 DEF Margin, Labels, MFLIMIT
<1>6. QED
  BY <1>4, <1>5 DEF DecInv

\* MatchLength: the length bytes end before the last literals.
LEMMA MatchLengthStep == ASSUME DecInv, MatchLength PROVE DecInv'
<1> DEFINE run == ReadLength(length, ML_MASK, ip, iend - LASTLITERALS + 1)
<1>1. pc = "copy_match" /\ UNCHANGED <<call, op, mem, token, offset>>
  BY DEF MatchLength
<1>2. ip < iend /\ (op + 12 <= oend \/ job.partial)
  BY <1>1, Facts DEF Margin, MFLIMIT
<1>3. CASE /\ OutputError(LengthErrorAt(ip, iend - LASTLITERALS + 1, FALSE))
           /\ UNCHANGED <<ip, length>>
  <2> DEFINE e == LengthErrorAt(ip, iend - LASTLITERALS + 1, FALSE)
  <2>1. e \in Int
    <3>1. ip \in Nat /\ iend - LASTLITERALS + 1 \in Int
      BY Facts DEF LASTLITERALS
    <3>2. QED
      BY <3>1, LengthErrorType
  <2>2. pc' = "done" /\ result' = -e - 1
    BY <1>3 DEF OutputError, Return
  <2> HIDE DEF e
  <2>3. result' \in Int
    BY <2>1, <2>2
  <2>4. QED
    BY <1>1, <1>3, <2>2, <2>3, Facts, ErrorStep
<1>4. ASSUME NEW r \in run, ip' = r.next, length' = r.len + MINMATCH, Goto("safe_match")
      PROVE  DecInv'
  <2> DEFINE limit == iend - LASTLITERALS + 1
  <2>1. ML_MASK \in Nat /\ limit \in Int /\ limit < iend /\ limit <= iend
    BY Facts DEF ML_MASK, LASTLITERALS
  <2>2. r \in ReadLength(length, ML_MASK, ip, limit)
    BY <1>4
  <2> HIDE DEF run, limit
  <2>3. /\ r.len \in Nat /\ r.next \in Nat
        /\ length # ML_MASK => r.next = ip
        /\ length = ML_MASK => r.next <= limit
    BY <2>1, <2>2, Facts, ReadLengthType
  <2>4. /\ pc' = "safe_match" /\ result' = result /\ ip' \in Nat /\ ip' < iend
        /\ length' \in Nat /\ length' >= 4
    BY <1>2, <1>4, <2>1, <2>3, Facts DEF Goto, MINMATCH
  <2>5. SeparateBuffers' /\ Typed' /\ Bounded' /\ iend' = iend /\ oend' = oend /\ job' = job
    BY <1>1, <2>4, Facts, Step
  <2>6. Margin'
    BY <1>1, <1>2, <2>4, <2>5 DEF Margin, Labels, MFLIMIT, MINMATCH
  <2>7. QED
    BY <2>5, <2>6 DEF DecInv
<1>5. QED
  BY <1>3, <1>4 DEF MatchLength

\* PartialMatch: the copy ends where dst ends.
LEMMA PartialMatchStep ==
  ASSUME DecInv, ip < iend, op - offset >= lowPrefix, op - offset \in Int, PartialMatch,
         UNCHANGED <<call, ip, token, length, offset>>
  PROVE  DecInv'
<1> DEFINE n == MinOf(length, oend - op)
<1> DEFINE plain == [i \in 0..n - 1 |-> At(mem, op - offset + i)]
<1>1. n \in Nat /\ op + n <= oend
  BY Facts DEF MinOf
<1>2. /\ mem' = IF op - offset + n > op THEN CopyBytes(mem, op, op - offset, n)
                 ELSE Write(mem, op, n, plain)
      /\ op' = op + n
      /\ IF op' = oend THEN Return(op') ELSE Goto("safe")
  BY DEF PartialMatch, match
<1> HIDE DEF n
<1>3. Filled(mem', mem, op, n)
  <2>1. Filled(CopyBytes(mem, op, op - offset, n), mem, op, n)
    <3>1. /\ job \in Jobs /\ MemOK(mem) /\ op \in Int /\ op - offset <= op /\ n \in Int
      BY <1>1, Facts
    <3>2. QED
      BY <3>1, CopyBytesFills
  <2>2. Filled(Write(mem, op, n, plain), mem, op, n)
    <3>1. \A i \in 0..n - 1 : plain[i] \in Cell
      <4>1. ASSUME NEW i \in 0..n - 1 PROVE At(mem, op - offset + i) \in Cell
        <5>1. op - offset + i \in Int /\ op - offset + i >= lowPrefix
          BY <1>1, Facts
        <5>2. QED
          BY <5>1, Facts, AtType
      <4>2. QED
        BY <4>1
    <3> HIDE DEF plain
    <3>2. QED
      BY <1>1, <3>1, Facts, WriteFills
  <2>3. QED
    BY <1>2, <2>1, <2>2
<1>4. Held(mem', op')
  BY <1>1, <1>2, <1>3, Facts, FilledIsHeld
<1>5. result' \in Int /\ pc' \in {"done", "safe"}
  BY <1>1, <1>2, Facts DEF Return, Goto
<1>6. SeparateBuffers' /\ Typed' /\ Bounded' /\ iend' = iend /\ oend' = oend
  BY <1>4, <1>5, Facts, Step
<1>7. Margin'
  BY <1>5, <1>6 DEF Margin, Labels
<1>8. QED
  BY <1>6, <1>7 DEF DecInv

\* BlockMatch: 12 bytes are free, so that the first 8 fit, and the words stop
\* 7 bytes before the end of dst.
LEMMA BlockMatchStep ==
  ASSUME DecInv, ip < iend, op - offset >= lowPrefix, op - offset \in Int, BlockMatch,
         length >= 4, op + 12 <= oend, UNCHANGED <<call, ip, token, length, offset>>
  PROVE  DecInv'
<1> DEFINE eight == First(mem, op, offset)
<1> DEFINE nearEnd == op + length > oend - MATCH_SAFEGUARD_DISTANCE
<1> DEFINE oCopyLimit == oend - (WILDCOPYLENGTH - 1)
<1> DEFINE words == IF op + 8 < oCopyLimit THEN Words(oCopyLimit - (op + 8), 8) ELSE 0
<1> DEFINE size == IF nearEnd THEN MaxOf(words, MaxOf(0, length - 8))
                   ELSE IF length > 16 THEN 8 + Words(length - 16, 8) ELSE 8
<1>1. job \in Jobs /\ MemOK(mem) /\ op \in Int /\ offset \in Nat
  BY Facts
<1>2. CASE mem' = eight /\ OutputError(ip) /\ UNCHANGED op
  <2>1. Filled(mem', mem, op, 8)
    BY <1>1, <1>2, FirstFills
  <2>2. Held(mem', op + 0)
    BY <2>1, Facts, FilledIsHeld
  <2>3. op + 0 = op
    BY <1>1
  <2>4. Held(mem', op')
    BY <1>2, <2>2, <2>3
  <2>5. pc' = "done" /\ result' \in Int
    BY <1>2, Facts DEF OutputError, Return
  <2>6. SeparateBuffers' /\ Typed' /\ Bounded' /\ Margin'
    BY <2>4, <2>5, Facts, Step, DoneMargin
  <2>7. QED
    BY <2>6 DEF DecInv
<1>3. CASE /\ ~nearEnd \/ op + length <= oend - LASTLITERALS
           /\ mem' = Rest(eight, op, offset, size, 8)
           /\ op' = op + length /\ Goto("safe")
  <2>1. size \in Nat /\ length <= 8 + size /\ op + (8 + size) <= oend
    <3>1. CASE nearEnd
      <4>1. op + length + 5 <= oend
        BY <1>3, <3>1, Facts DEF LASTLITERALS
      <4>2. words \in Nat /\ op + 8 + words <= oend
        <5> DEFINE room == oend - 7 - (op + 8)
        <5>1. /\ Words(room, 8) \in Nat
              /\ Words(room, 8) <= room + 8 - 1 \/ Words(room, 8) = 8
          BY Facts, WordsBounds
        <5>2. words = IF op + 8 < oend - 7 THEN Words(room, 8) ELSE 0
          BY DEF WILDCOPYLENGTH
        <5> HIDE DEF words
        <5>3. QED
          BY <5>1, <5>2, Facts
      <4> HIDE DEF words
      <4>3. size = MaxOf(words, MaxOf(0, length - 8))
        BY <3>1
      <4> HIDE DEF size
      <4>4. QED
        BY <4>1, <4>2, <4>3, Facts DEF MaxOf
    <3>2. CASE ~nearEnd
      <4>1. op + length + 12 <= oend
        BY <3>2, Facts DEF MATCH_SAFEGUARD_DISTANCE, WILDCOPYLENGTH, MINMATCH
      <4>2. /\ Words(length - 16, 8) \in Nat /\ Words(length - 16, 8) >= length - 16
            /\ Words(length - 16, 8) <= length - 16 + 8 - 1 \/ Words(length - 16, 8) = 8
        BY Facts, WordsBounds
      <4>3. size = IF length > 16 THEN 8 + Words(length - 16, 8) ELSE 8
        BY <3>2
      <4> HIDE DEF size
      <4>4. QED
        BY <4>1, <4>2, <4>3, Facts
    <3>3. QED
      BY <3>1, <3>2
  <2>2. mem' = Rest(First(mem, op, offset), op, offset, size, 8)
    BY <1>3
  <2> HIDE DEF size
  <2>3. Filled(mem', mem, op, 8 + size)
    BY <1>1, <2>1, <2>2, WholeFills
  <2>4. 8 + size \in Nat
    BY <2>1
  <2>5. Held(mem', op')
    BY <1>3, <2>1, <2>3, <2>4, Facts, FilledIsHeld
  <2>6. pc' = "safe" /\ result' = result
    BY <1>3 DEF Goto
  <2>7. SeparateBuffers' /\ Typed' /\ Bounded' /\ iend' = iend /\ oend' = oend
    BY <2>5, <2>6, Facts, Step
  <2>8. Margin'
    BY <2>6, <2>7 DEF Margin, Labels
  <2>9. QED
    BY <2>7, <2>8 DEF DecInv
<1>4. QED
  BY <1>2, <1>3 DEF BlockMatch

\* SafeMatch: a block that is not partial is clear of the end of dst, and a
\* partial one is when its match does not end there.
LEMMA SafeMatchStep == ASSUME DecInv, SafeMatch PROVE DecInv'
<1>1. pc = "safe_match" /\ UNCHANGED <<call, ip, token, offset>>
  BY DEF SafeMatch
<1>2. ip < iend /\ length >= 4 /\ (op + 12 <= oend \/ job.partial)
  BY <1>1, Facts DEF Margin, MINMATCH, MFLIMIT
<1>3. CASE OutputError(ip) /\ UNCHANGED <<op, mem, length>>
  BY <1>1, <1>3, StopStep
<1>4. CASE ~OutsideBuffers /\ FromDictionary /\ DictionaryMatch("safe")
  BY <1>1, <1>2, <1>4, DictionaryStep
<1>5. CASE /\ ~OutsideBuffers /\ ~FromDictionary /\ UNCHANGED length
           /\ IF job.partial /\ op + length > oend - MATCH_SAFEGUARD_DISTANCE
              THEN PartialMatch ELSE BlockMatch
  <2>1. op - offset >= lowPrefix /\ op - offset \in Int
    BY <1>5, Facts, MatchInPrefix
  <2>2. CASE job.partial /\ op + length > oend - MATCH_SAFEGUARD_DISTANCE
    BY <1>1, <1>2, <1>5, <2>1, <2>2, PartialMatchStep
  <2>3. CASE ~(job.partial /\ op + length > oend - MATCH_SAFEGUARD_DISTANCE)
    <3>1. op + 12 <= oend
      BY <1>2, <2>3, Facts DEF MATCH_SAFEGUARD_DISTANCE, WILDCOPYLENGTH, MINMATCH
    <3>2. QED
      BY <1>1, <1>2, <1>5, <2>1, <2>3, <3>1, BlockMatchStep
  <2>4. QED
    BY <2>2, <2>3
<1>6. QED
  BY <1>3, <1>4, <1>5 DEF SafeMatch

---------------------------------------------------------------------------
(* The theorems.                                                           *)

\* A call begins with nothing read and nothing written.
LEMMA DecInvInit == ASSUME Init, SeparateBuffers PROVE DecInv
<1>1. job \in Jobs /\ src = job.src /\ mem = <<>> /\ pc = "start"
      /\ ip = 0 /\ op = 0 /\ token = 0 /\ length = 0 /\ offset = 0 /\ result = 0
  BY DEF Init
<1>2. src \in Seq(Byte) /\ Len(src) = iend /\ oend \in Nat /\ KB64 > 0
  BY <1>1, CallType DEF JobType, iend, SeparateBuffers
<1>3. DOMAIN mem = {}
  BY <1>1
<1>4. 0 \in Byte
  BY SMTT(30) DEF Byte
<1>5. Typed
  BY <1>1, <1>2, <1>3, <1>4 DEF Typed, MemOK
<1>6. Bounded
  BY <1>1, <1>2, <1>3 DEF Bounded
<1>7. Margin
  BY <1>1 DEF Margin, Labels
<1>8. QED
  BY <1>5, <1>6, <1>7 DEF DecInv

\* Every step of the decoder keeps the invariant.
LEMMA DecInvNext == ASSUME DecInv, [Next]_vars PROVE DecInv'
<1>1. CASE UNCHANGED vars
  <2>1. UNCHANGED <<call, job, src, ip, op, mem, token, length, offset, pc, result>>
    BY <1>1 DEF vars, call
  <2>2. SeparateBuffers' /\ Typed' /\ Bounded' /\ iend' = iend /\ oend' = oend /\ job' = job
    BY <2>1, Facts, Step
  <2>3. Margin'
    BY <2>1, <2>2, Facts DEF Margin
  <2>4. QED
    BY <2>2, <2>3 DEF DecInv
<1>2. CASE Next
  BY <1>1, <1>2, StartStep, FastLiteralsStep, FastMatchStep, FastCopyStep, SafeShortcutStep,
     SafeTokenStep, SafeLiteralsStep, SafeOffsetStep, MatchLengthStep, SafeMatchStep
  DEF Next, Returned
<1>3. QED
  BY <1>1, <1>2

\* What the properties of LZ4Decode say follows.
LEMMA DecInvImplies == ASSUME DecInv PROVE TypeOK /\ WritesInside /\ ProducedIsWritten
<1>1. job \in JobType
  BY Facts, CallType
<1>2. KB64 = 65536
  BY DEF DecInv, SeparateBuffers
<1>3. TypeOK
  BY <1>1, <1>2, Facts DEF TypeOK, Typed, Margin, MemOK, Cell
<1>4. QED
  BY <1>3, Facts DEF Bounded, WritesInside, ProducedIsWritten

\* Decoding by the C code alone: whatever the source, it is read up to its end
\* and no further, dst is filled without a hole, and nothing is written
\* outside it.
THEOREM DecoderStaysInside ==
  Spec /\ SeparateBuffers => [](TypeOK /\ WritesInside /\ ProducedIsWritten)
<1>1. Init /\ SeparateBuffers => DecInv
  BY DecInvInit
<1>2. DecInv /\ [Next]_vars => DecInv'
  BY DecInvNext
<1>3. DecInv => TypeOK /\ WritesInside /\ ProducedIsWritten
  BY DecInvImplies
<1>4. QED
  BY <1>1, <1>2, <1>3, PTL DEF Spec

---------------------------------------------------------------------------
(* The NEON loop.                                                          *)

\* What the NEON loop knows at its two labels: a sequence that cannot be
\* finished begins at save_src and save_dst, and 100 bytes or more are free.
AsmMargin ==
  /\ pc = "asm"       => ip < iend
  /\ pc = "asm_match" => /\ ip \in 1..iend - 100 /\ op + 100 <= oend
                         /\ save_src \in Nat /\ save_src < iend
                         /\ save_dst \in Nat /\ lits \in Nat /\ save_dst + lits = op

AccelInv == DecInv /\ AsmMargin

---------------------------------------------------------------------------
(* Operators.                                                              *)

\* Whole steps of w bytes cover n, and go less than a step over.
LEMMA WholeSteps ==
  ASSUME NEW n \in Int, NEW w \in Nat, w > 0
  PROVE  w * ((n + w - 1) \div w) >= n /\ w * ((n + w - 1) \div w) <= n + w - 1
OBVIOUS

\* The overlapping copy moves on by no more than a store holds.
LEMMA Strides == \A o \in 0..31 : Copylength_table[o + 1] \in 16..32
BY DEF Copylength_table

\* The length bytes lie below src_end.
LEMMA AsmLengthType ==
  ASSUME SeparateBuffers, Typed, Bounded, NEW code \in Nat, NEW s \in Nat,
         NEW r \in AsmLength(code, s)
  PROVE  /\ r.len \in Nat /\ r.next \in Nat /\ r.next >= s
         /\ code # 15 => r.len = code /\ r.next = s
         /\ code = 15 => r.next <= src_end
<1>1. AsmLength(code, s) = ReadLength(code, 15, s, src_end)
  BY DEF AsmLength, ReadLength
<1>2. src_end \in Int /\ src_end <= iend
  BY CallType DEF Typed, src_end, LZ4_FAST_MARGIN
<1>3. QED
  BY <1>1, <1>2, ReadLengthType

\* The copy at label 14 writes what it is asked for, and fewer than 64 bytes more.
LEMMA DisjointSizeBounds ==
  ASSUME NEW n \in Nat
  PROVE  DisjointSize(n) \in Nat /\ DisjointSize(n) >= n /\ DisjointSize(n) <= n + 64
<1>1. /\ Words(n - 16, 32) \in Nat /\ Words(n - 16, 32) >= n - 16
      /\ Words(n - 16, 32) <= n - 16 + 32 - 1 \/ Words(n - 16, 32) = 32
  BY WordsBounds
<1>2. QED
  BY <1>1 DEF DisjointSize

\* So does the overlapping copy, up to 64 bytes more.
LEMMA OverlapSizeBounds ==
  ASSUME NEW n \in Nat, NEW stride \in 16..32
  PROVE  /\ OverlapSize(n, stride) \in Nat /\ OverlapSize(n, stride) >= n
         /\ OverlapSize(n, stride) <= n + 64
<1> DEFINE w == 2 * stride
<1> DEFINE k == (n - stride + w - 1) \div w
<1>1. w \in Nat /\ w > 0 /\ n - stride \in Int
  OBVIOUS
<1>2. w * k >= n - stride /\ w * k <= n - stride + w - 1 /\ w * k \in Int
  BY <1>1, WholeSteps
<1>3. OverlapSize(n, stride) = IF n <= stride THEN 32 ELSE w * k + 32
  BY DEF OverlapSize
<1> HIDE DEF k
<1>4. QED
  BY <1>2, <1>3

\* The repeated pattern is read at or above the match.
LEMMA OverlapCopyFills ==
  ASSUME DecInv, NEW n \in Nat, NEW o \in 1..31, op - o >= 0
  PROVE  \E size \in Nat : size >= n /\ size <= n + 64 /\ Filled(OverlapCopy(n, o), mem, op, size)
<1> DEFINE stride == Copylength_table[o + 1]
<1> DEFINE size == OverlapSize(n, stride)
<1> DEFINE store(i) == MinOf(i \div stride, (size - 32) \div stride)
<1> DEFINE t(i) == i - stride * store(i)
<1> DEFINE f == [i \in 0..size - 1 |-> At(mem, op - o + IF o < 16 THEN t(i) % o ELSE t(i))]
<1>1. stride \in 16..32
  BY Strides
<1>2. OverlapCopy(n, o) = Write(mem, op, size, f)
  BY DEF OverlapCopy
<1> HIDE DEF stride
<1>3. size \in Nat /\ size >= n /\ size <= n + 64
  BY <1>1, OverlapSizeBounds
<1> HIDE DEF size
<1>4. ASSUME NEW i \in 0..size - 1 PROVE f[i] \in Cell
  <2>1. t(i) \in Nat
    <3>1. /\ i \div stride \in Int /\ (size - 32) \div stride \in Int
          /\ stride * (i \div stride) <= i
      BY <1>1, <1>3
    <3>2. store(i) \in Int /\ store(i) <= i \div stride
      BY <3>1 DEF MinOf
    <3> HIDE DEF store
    <3>3. stride * store(i) <= stride * (i \div stride)
      BY <1>1, <3>1, <3>2
    <3>4. QED
      BY <1>1, <1>3, <3>1, <3>2, <3>3
  <2> HIDE DEF t
  <2> DEFINE from == op - o + IF o < 16 THEN t(i) % o ELSE t(i)
  <2>2. from \in Int /\ from >= lowPrefix
    <3>1. t(i) % o \in Nat
      BY <2>1, ModRange
    <3>2. QED
      BY <2>1, <3>1, Facts
  <2>3. f[i] = At(mem, from)
    OBVIOUS
  <2> HIDE DEF from, f
  <2>4. QED
    BY <2>2, <2>3, Facts, AtType
<1> HIDE DEF f
<1>5. Filled(Write(mem, op, size, f), mem, op, size)
  BY <1>3, <1>4, Facts, WriteFills
<1>6. QED
  BY <1>2, <1>3, <1>5

---------------------------------------------------------------------------
(* The steps.                                                              *)

\* The loop is entered only when the source is long enough.
LEMMA EnterStep == ASSUME AccelInv, Enter PROVE AccelInv'
<1>1. /\ pc = "start" /\ pc' = "asm" /\ Accelerated
      /\ UNCHANGED <<call, ip, op, mem, token, length, offset, result>>
  BY DEF Enter
<1>2. DecInv
  BY DEF AccelInv
<1>3. SeparateBuffers' /\ Typed' /\ Bounded' /\ iend' = iend
  BY <1>1, <1>2, Facts, Step
<1>4. ip' < iend'
  BY <1>1, <1>2, <1>3, Facts DEF Accelerated, LZ4_FAST_MARGIN, Margin
<1>5. Margin' /\ AsmMargin'
  BY <1>1, <1>4 DEF Margin, Labels, AsmMargin
<1>6. QED
  BY <1>3, <1>5 DEF AccelInv, DecInv

\* What was produced earlier is still there.
LEMMA HeldBefore == ASSUME DecInv, NEW q \in Nat, q <= op PROVE Held(mem, q)
<1>1. /\ MemOK(mem) /\ DOMAIN mem \subseteq 0..oend - 1 /\ 0..op - 1 \subseteq DOMAIN mem
      /\ op <= oend /\ op \in Nat /\ oend \in Nat
  BY Facts DEF Bounded
<1>2. 0..q - 1 \subseteq 0..op - 1 /\ q <= oend
  BY <1>1
<1>3. QED
  BY <1>1, <1>2 DEF Held

\* The C decoder goes on with a token of the source.
LEMMA LeaveStep ==
  ASSUME AccelInv, UNCHANGED job, src' \in Seq(Byte), Len(src') = iend, pc' = "start",
         result' = result, length' \in Nat, token' \in Byte, offset' \in Nat, offset' < KB64,
         ip' \in Nat, ip' < iend, mem' = mem, op' \in Nat, op' <= op
  PROVE  AccelInv'
<1>1. DecInv
  BY DEF AccelInv
<1>2. Held(mem', op')
  BY <1>1, HeldBefore
<1>3. SeparateBuffers' /\ Typed' /\ Bounded' /\ iend' = iend
  BY <1>1, <1>2, Facts, StepAnySource
<1>4. Margin' /\ AsmMargin'
  BY <1>3 DEF Margin, Labels, AsmMargin
<1>5. QED
  BY <1>3, <1>4 DEF AccelInv, DecInv

\* AsmLiterals: 128 bytes are free on both sides of it, and the copy goes over
\* by 16 at most.
LEMMA AsmLiteralsStep == ASSUME AccelInv, AsmLiterals PROVE AccelInv'
<1> DEFINE code == RunCode(token')
<1> DEFINE run == AsmLength(code, ip + 1)
<1> DEFINE Room(r) == code = RUN_MASK => op + r.len < dst_end /\ r.next + r.len < src_end
<1> DEFINE size(r) == IF code = RUN_MASK THEN Words(r.len, 16) ELSE 16
<1>1. pc = "asm" /\ UNCHANGED call /\ job' = job /\ src' = src
  BY DEF AsmLiterals, call
<1>2. DecInv /\ ip < iend
  BY <1>1 DEF AccelInv, AsmMargin
<1>3. CASE Leave(ip, op) /\ UNCHANGED <<mem, length, offset>> /\ token' \in Byte
  <2>1. src' \in Seq(Byte) /\ Len(src') = iend
    BY <1>1, <1>2 DEF DecInv, Typed
  <2>2. QED
    BY <1>1, <1>2, <1>3, <2>1, Facts, LeaveStep DEF Leave
<1>4. CASE op < dst_end /\ ip < src_end
  <2>1. token' \in Byte /\ code \in Nat /\ code <= 15
    <3>1. token' = Src(ip)
      BY <1>4, <1>2, Facts DEF AsmLiterals, dst_end, src_end, LZ4_FAST_MARGIN
    <3>2. ip \in 0..iend - 1
      BY <1>2, Facts
    <3>3. token' \in Byte
      BY <1>2, <3>1, <3>2, Facts, SrcType
    <3>4. QED
      BY <3>3, Codes
  <2> HIDE DEF code
  <2>2. ip + 128 < iend /\ op + 128 < oend
    BY <1>2, <1>4, Facts DEF dst_end, src_end, LZ4_FAST_MARGIN
  <2>3. CASE Leave(ip, op) /\ UNCHANGED <<mem, length, offset>>
    BY <1>3, <2>1, <2>3
  <2>4. ASSUME NEW r \in run, Room(r), mem' = Literals(mem, op, r.next, size(r)), lits' = r.len,
               save_src' = ip, save_dst' = op, ip' = r.next + r.len, op' = op + r.len,
               pc' = "asm_match", UNCHANGED <<asm, length, offset, result>>
        PROVE  AccelInv'
    <3>1. ip + 1 \in Nat
      BY <1>2, Facts
    <3>2. /\ r.len \in Nat /\ r.next \in Nat /\ r.next >= ip + 1
          /\ code # 15 => r.len <= 14 /\ r.next = ip + 1
          /\ code = 15 => r.next <= src_end
      BY <1>2, <2>1, <3>1, Facts, AsmLengthType
    <3>3. /\ size(r) \in Nat /\ size(r) >= r.len
          /\ r.next + size(r) <= iend /\ op + size(r) <= oend
          /\ r.next + r.len + 100 <= iend /\ op + r.len + 100 <= oend
      <4>1. CASE code = 15
        <5>1. /\ Words(r.len, 16) \in Nat /\ Words(r.len, 16) >= r.len
              /\ Words(r.len, 16) <= r.len + 16 - 1 \/ Words(r.len, 16) = 16
          BY <3>2, WordsBounds
        <5>2. op + r.len + 128 < oend /\ r.next + r.len + 128 < iend
          BY <1>2, <2>4, <3>2, <4>1, Facts DEF RUN_MASK, dst_end, src_end, LZ4_FAST_MARGIN
        <5>3. QED
          BY <1>2, <3>2, <4>1, <5>1, <5>2, Facts DEF RUN_MASK
      <4>2. CASE code # 15
        BY <1>2, <2>2, <3>2, <4>2, Facts DEF RUN_MASK
      <4>3. QED
        BY <4>1, <4>2
    <3> HIDE DEF run, Room, size
    <3>4. Filled(mem', mem, op, size(r))
      BY <1>2, <2>4, <3>2, <3>3, Facts, LiteralsFill
    <3>5. Held(mem', op')
      BY <1>2, <2>4, <3>2, <3>3, <3>4, Facts, FilledIsHeld
    <3>6. SeparateBuffers' /\ Typed' /\ Bounded' /\ iend' = iend /\ oend' = oend
      <4>1. ip' \in Nat
        BY <2>4, <3>2
      <4>2. QED
        BY <1>1, <1>2, <2>1, <2>4, <3>5, <4>1, Facts, Step
    <3>7. Margin'
      BY <2>4 DEF Margin, Labels
    <3>8. AsmMargin'
      BY <1>2, <2>4, <3>1, <3>2, <3>3, <3>6, Facts DEF AsmMargin
    <3>9. QED
      BY <3>6, <3>7, <3>8 DEF AccelInv, DecInv
  <2>5. QED
    BY <1>4, <2>3, <2>4 DEF AsmLiterals, code
<1>5. CASE Leave(ip, op) /\ UNCHANGED <<mem, token, length, offset>>
  BY <1>2, <1>3, <1>5, Facts
<1>6. QED
  BY <1>4, <1>5 DEF AsmLiterals

\* DoneInPlace: the token it leaves is in the source, not in dst.
LEMMA DoneInPlaceStep ==
  ASSUME AccelInv, pc = "asm_match", DoneInPlace, UNCHANGED <<job, token, length>>,
         offset' \in Nat, offset' < KB64
  PROVE  AccelInv'
<1>1. DecInv /\ ip \in 1..iend - 100 /\ save_dst + lits = op /\ save_dst \in Nat /\ lits \in Nat
  BY DEF AccelInv, AsmMargin
<1>2. job.at + ip - 1 \notin DOMAIN mem
  <2>1. DOMAIN mem \subseteq 0..oend - 1 /\ job.at >= oend
    BY <1>1 DEF DecInv, SeparateBuffers, Bounded, oend
  <2>2. job.at \in Nat /\ ip \in Nat /\ ip >= 1 /\ oend \in Nat
    BY <1>1, Facts, CallType
  <2>3. QED
    BY <2>1, <2>2
<1>3. src' = [src EXCEPT ![ip] = MatchCode(token)] /\ mem' = mem
  BY <1>2 DEF DoneInPlace
<1>4. pc' = "start" /\ ip' = ip - 1 /\ op' = op /\ result' = result
  BY <1>1 DEF DoneInPlace, Leave
<1>5. src' \in Seq(Byte) /\ Len(src') = iend
  <2>1. MatchCode(token) \in Byte
    <3>1. MatchCode(token) \in Nat /\ MatchCode(token) <= 15
      BY <1>1, Facts, Codes
    <3>2. QED
      BY <3>1 DEF Byte
  <2>2. src \in Seq(Byte) /\ Len(src) = iend /\ ip \in 1..Len(src)
    BY <1>1, Facts DEF Typed
  <2>3. QED
    BY <1>3, <2>1, <2>2
<1>6. QED
  BY <1>1, <1>3, <1>4, <1>5, Facts, LeaveStep

\* AsmMatch: 128 bytes of dst are free after the match.
LEMMA AsmMatchStep == ASSUME AccelInv, AsmMatch PROVE AccelInv'
<1> DEFINE code == MatchCode(token)
<1> DEFINE run == AsmLength(code, ip + 2)
<1>1. pc = "asm_match" /\ UNCHANGED <<job, token, dip, lits>> /\ offset' = LZ4_readLE16(ip)
  BY DEF AsmMatch
<1>2. /\ DecInv /\ ip \in 1..iend - 100 /\ save_src \in Nat /\ save_src < iend
      /\ save_dst \in Nat /\ save_dst <= op
  BY <1>1, Facts DEF AccelInv, AsmMargin
<1>3. offset' \in Nat /\ offset' < KB64 /\ token' \in Byte /\ code \in Nat /\ code <= 15
  <2>1. ip \in Nat /\ ip + 2 <= iend
    BY <1>2, Facts
  <2>2. offset' \in Nat /\ offset' < KB64
    BY <1>1, <1>2, <2>1, Facts, OffsetType
  <2>3. QED
    BY <1>1, <1>2, <2>2, Facts, Codes
<1> HIDE DEF code
<1>4. CASE Return(-EIO) /\ UNCHANGED <<src, ip, op, mem, length>>
  <2>1. pc' = "done" /\ result' \in Int
    BY <1>4 DEF Return, EIO
  <2>2. UNCHANGED call
    BY <1>1, <1>4 DEF call
  <2>3. DecInv'
    BY <1>2, <1>3, <1>4, <2>1, <2>2, Facts, ErrorStep
  <2>4. QED
    BY <2>1, <2>3 DEF AccelInv, AsmMargin
<1>5. CASE DoneInPlace /\ UNCHANGED length
  BY <1>1, <1>3, <1>5, DoneInPlaceStep
<1>6. CASE Leave(save_src, save_dst) /\ UNCHANGED <<src, mem, length>>
  <2>1. pc' = "start" /\ ip' = save_src /\ op' = save_dst /\ result' = result
    BY <1>6 DEF Leave
  <2>2. src' \in Seq(Byte) /\ Len(src') = iend
    BY <1>2, <1>6 DEF DecInv, Typed
  <2>3. QED
    BY <1>1, <1>2, <1>3, <1>6, <2>1, <2>2, Facts, LeaveStep
<1>7. ASSUME NEW r \in run, offset' # 0, op - offset' >= 0, op + r.len + MINMATCH < dst_end,
             length' = r.len + MINMATCH, ip' = r.next, op' = op + length',
             mem' = IF offset' >= length' \/ offset' >= 32
                    THEN Copy(mem, op, op - offset', DisjointSize(length'), 32)
                    ELSE OverlapCopy(length', offset'),
             pc' = "asm", UNCHANGED <<src, result>>
      PROVE  AccelInv'
  <2>1. ip + 2 \in Nat /\ ip + 2 < iend
    BY <1>2, Facts
  <2>2. r.len \in Nat /\ r.next \in Nat /\ (code # 15 => r.next = ip + 2)
        /\ (code = 15 => r.next <= src_end)
    BY <1>2, <1>3, <2>1, Facts, AsmLengthType
  <2>3. length' \in Nat /\ op + length' + 128 < oend /\ ip' \in Nat /\ ip' < iend
    BY <1>2, <1>7, <2>1, <2>2, Facts DEF MINMATCH, dst_end, src_end, LZ4_FAST_MARGIN
  <2>4. PICK size \in Nat : size >= length' /\ size <= length' + 64 /\ Filled(mem', mem, op, size)
    <3>1. CASE offset' >= length' \/ offset' >= 32
      <4> DEFINE n == DisjointSize(length')
      <4>1. n \in Nat /\ n >= length' /\ n <= length' + 64
        BY <2>3, DisjointSizeBounds
      <4>2. mem' = Copy(mem, op, op - offset', n, 32)
        BY <1>7, <3>1
      <4> HIDE DEF n
      <4>3. op - offset' \in Int /\ op - offset' >= lowPrefix /\ MemOK(mem) /\ job \in Jobs
        BY <1>2, <1>3, <1>7, Facts
      <4>4. Filled(mem', mem, op, n)
        BY <1>2, <4>1, <4>2, <4>3, Facts, CopyFills
      <4>5. QED
        BY <4>1, <4>4
    <3>2. CASE ~(offset' >= length' \/ offset' >= 32)
      <4>1. offset' \in 1..31 /\ mem' = OverlapCopy(length', offset')
        BY <1>3, <1>7, <3>2
      <4>2. \E size \in Nat : /\ size >= length' /\ size <= length' + 64
                             /\ Filled(OverlapCopy(length', offset'), mem, op, size)
        BY <1>2, <1>7, <2>3, <4>1, OverlapCopyFills
      <4>3. QED
        BY <4>1, <4>2
    <3>3. QED
      BY <3>1, <3>2
  <2>5. Held(mem', op')
    BY <1>2, <1>7, <2>3, <2>4, Facts, FilledIsHeld
  <2>6. SeparateBuffers' /\ Typed' /\ Bounded' /\ iend' = iend
    <3>1. src' \in Seq(Byte) /\ Len(src') = iend
      BY <1>2, <1>7 DEF DecInv, Typed
    <3>2. QED
      BY <1>1, <1>2, <1>3, <1>7, <2>3, <2>5, <3>1, Facts, StepAnySource
  <2>7. Margin' /\ AsmMargin'
    BY <1>7, <2>3, <2>6 DEF Margin, Labels, AsmMargin
  <2>8. QED
    BY <2>6, <2>7 DEF AccelInv, DecInv
<1>8. QED
  BY <1>4, <1>5, <1>6, <1>7 DEF AsmMatch, code

\* The C decoder does not go back to the loop.
LEMMA NextLabel == ASSUME Next PROVE pc' \notin {"asm", "asm_match"}
<1>1. CASE Start
  BY <1>1 DEF Start, Return, Goto
<1>2. CASE FastLiterals
  BY <1>2 DEF FastLiterals, OutputError, Return, Goto
<1>3. CASE FastMatch
  BY <1>3 DEF FastMatch, OutputError, Return, Goto
<1>4. CASE FastCopy
  BY <1>4 DEF FastCopy, DictionaryMatch, OutputError, Return, Goto
<1>5. CASE SafeShortcut
  BY <1>5 DEF SafeShortcut, Goto
<1>6. CASE SafeToken
  BY <1>6 DEF SafeToken, OutputError, Return, Goto
<1>7. CASE SafeLiterals
  BY <1>7 DEF SafeLiterals, OutputError, Return, Goto
<1>8. CASE SafeOffset
  BY <1>8 DEF SafeOffset, Goto
<1>9. CASE MatchLength
  BY <1>9 DEF MatchLength, OutputError, Return, Goto
<1>10. CASE SafeMatch
  BY <1>10 DEF SafeMatch, DictionaryMatch, PartialMatch, BlockMatch, OutputError, Return, Goto
<1>11. CASE Returned
  BY <1>11 DEF Returned, vars
<1>12. QED
  BY <1>1, <1>2, <1>3, <1>4, <1>5, <1>6, <1>7, <1>8, <1>9, <1>10, <1>11 DEF Next

\* Every step keeps the invariant.
LEMMA AccelInvNext == ASSUME AccelInv, [AccelNext]_accelVars PROVE AccelInv'
<1>1. CASE UNCHANGED accelVars
  <2>1. UNCHANGED vars /\ UNCHANGED <<job, ip, op, pc, save_src, save_dst, lits>>
    BY <1>1 DEF accelVars, vars, call
  <2>2. DecInv'
    BY <2>1, DecInvNext DEF AccelInv
  <2>3. AsmMargin'
    BY <2>1 DEF AccelInv, AsmMargin, iend, oend
  <2>4. QED
    BY <2>2, <2>3 DEF AccelInv
<1>2. CASE Finish
  <2>1. DecInv' /\ pc' \notin {"asm", "asm_match"}
    BY <1>2, DecInvNext, NextLabel DEF AccelInv, Finish
  <2>2. QED
    BY <2>1 DEF AccelInv, AsmMargin
<1>3. QED
  BY <1>1, <1>2, EnterStep, AsmLiteralsStep, AsmMatchStep DEF AccelNext

---------------------------------------------------------------------------
(* The theorems.                                                           *)

\* The invariant of a call.
LEMMA AccelInvAlways == AccelSpec /\ SeparateBuffers => []AccelInv
<1>1. AccelInit /\ SeparateBuffers => AccelInv
  <2> SUFFICES ASSUME AccelInit, SeparateBuffers PROVE AccelInv
    OBVIOUS
  <2>1. DecInv /\ pc = "start"
    BY DecInvInit DEF AccelInit, Init
  <2>2. QED
    BY <2>1 DEF AccelInv, AsmMargin
<1>2. AccelInv /\ [AccelNext]_accelVars => AccelInv'
  BY AccelInvNext
<1>3. QED
  BY <1>1, <1>2, PTL DEF AccelSpec

\* No byte, token or offset is read outside the source, the history or dst,
\* by either loop (LZ4_arm64_decompress_safe, __LZ4_decompress_generic).
THEOREM ReadsInside == AccelSpec /\ SeparateBuffers => []TypeOK
<1>1. AccelInv => TypeOK
  BY DecInvImplies DEF AccelInv
<1>2. QED
  BY <1>1, AccelInvAlways, PTL

\* The copies that write past the length asked for (LZ4_wildCopy8, 16-byte
\* literals, 18-byte matches, the stores of 32 and 64 bytes of the NEON loop)
\* never write outside dst, whatever the source.
THEOREM NeverWritesOutside == AccelSpec /\ SeparateBuffers => []WritesInside
<1>1. AccelInv => WritesInside
  BY DecInvImplies DEF AccelInv
<1>2. QED
  BY <1>1, AccelInvAlways, PTL

\* dst is filled without holes, also when the NEON loop gives up in the middle
\* of a sequence and the C decoder starts again from an earlier position.
THEOREM FillsWithoutHoles == AccelSpec /\ SeparateBuffers => []ProducedIsWritten
<1>1. AccelInv => ProducedIsWritten
  BY DecInvImplies DEF AccelInv
<1>2. QED
  BY <1>1, AccelInvAlways, PTL

=============================================================================
