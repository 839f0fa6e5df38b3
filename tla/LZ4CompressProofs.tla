------------------------- MODULE LZ4CompressProofs -------------------------
(***************************************************************************)
(* Proofs that the block compressor of lib/lz4/lz4.c never writes past the *)
(* end of dst, for every text, capacity and acceleration, in one-shot      *)
(* calls and in streams with every kind of dictionary; that a call that    *)
(* fills dst leaves no room in it; and that what is found in the hash      *)
(* table is a place the decoder may refer to.                              *)
(***************************************************************************)
EXTENDS LZ4Session, LZ4CommonProofs

---------------------------------------------------------------------------
(* The inductive invariant of a call.                                      *)

\* The words that are hashed, of 4 or of 5 bytes.
Word == [1..4 -> Byte] \cup [1..5 -> Byte]

\* A hash is below the size of the table, as LZ4_hash4 and LZ4_hash5 shift it.
HashesInSlots == \A w \in Word : Hash(w) \in Slots

Tables == {"clearedTable", "byU16", "byU32"}

\* A state with a dictionary context d.
StateWith(d) ==
  [hashTable : [Slots -> Int], currentOffset : Int, table : Tables,
   dictCtx : d, dictionary : Int, dictSize : Nat]

DictState   == StateWith({NoCtx})
StreamState == StateWith({NoCtx} \cup DictState)

\* The arguments of a call, whatever they are.
CallTyped ==
  /\ call.source \in Nat /\ call.size \in Int /\ call.capacity \in Int
  /\ call.output \in Outputs
  /\ call.acceleration \in Nat /\ call.startIndex \in Int
  /\ call.ctx \in StreamState
  /\ usingCtx => call.ctx.dictCtx \in DictState

Typed ==
  /\ text \in Seq(Byte) /\ ctx \in StreamState /\ CallTyped
  /\ ip \in Nat /\ anchor \in Nat /\ forwardIp \in Nat /\ step \in Nat /\ searchMatchNb \in Nat
  /\ match \in Int /\ offset \in Int /\ lowLimit \in Int
  /\ token \in Nat /\ reach \in Nat /\ out \in Seq(Int) /\ inputConsumed \in Int
  /\ pc \in {"idle", "first_byte", "find_match", "literals", "match", "test_next", "last_literals"}

\* The source is in the memory, and notLimited is only for a dst that is large enough.
Accepted ==
  /\ call.size \in 1..LZ4_MAX_INPUT_SIZE /\ iend <= Len(text)
  /\ call.acceleration >= 1
  /\ ~limited => call.capacity >= LZ4_compressBound(call.size)
  /\ filling => call.capacity >= 1

\* Where each label is in the source.
InSource ==
  /\ source <= anchor /\ anchor <= iend
  /\ pc = "first_byte" => ip = anchor /\ ip + MFLIMIT < iend
  /\ pc = "find_match" => anchor <= forwardIp /\ step >= 1 /\ searchMatchNb >= 64
  /\ pc \in {"literals", "match"} => anchor <= ip /\ ip + MFLIMIT <= iend
  /\ pc = "test_next" => ip = anchor /\ source + 2 <= ip /\ ip + MFLIMIT <= iend

\* The room each label leaves in dst.  A sequence takes no more bytes than
\* Bound says, as its offset, its token and the rounding of its two lengths
\* are paid for by the four bytes any match has.
RoomLeft ==
  /\ op <= reach /\ reach <= MaxOf(0, call.capacity)
  /\ pc \notin {"idle", "match"} =>
       /\ ~limited => op <= Bound(anchor - source)
       /\ filling => op + 1 <= call.capacity
  /\ pc = "test_next" => (limited => op + 1 + LASTLITERALS <= call.capacity)
  /\ pc = "match" => /\ ~limited => op <= Bound(ip - source) + 2
                     /\ token \in 1..op

EngineInv ==
  /\ Typed /\ RoomLeft
  /\ pc # "idle" => Accepted /\ InSource
  /\ pc = "idle" /\ call.size \in 0..LZ4_MAX_INPUT_SIZE => FillsUp

---------------------------------------------------------------------------
(* The hash table.                                                         *)

\* The word at a position of the text is hashed to a slot.
LEMMA HashType ==
  ASSUME HashesInSlots, text \in Seq(Byte), NEW p \in Nat, p + 5 <= Len(text)
  PROVE  LZ4_hashPosition(p) \in Slots
<1> DEFINE n == IF call.table = "byU16" THEN 4 ELSE 5
           w == SubSeq(text, p + 1, p + n)
<1>1. n \in {4, 5}
  OBVIOUS
<1> HIDE DEF n
<1>2. w \in Seq(Byte) /\ Len(w) = n
  <2>1. \A i \in p + 1..p + n : text[i] \in Byte
    BY <1>1, ElementOfSeq
  <2>2. p + 1 \in Int /\ p + n \in Int /\ p + 1 <= p + n
    BY <1>1
  <2> HIDE DEF w
  <2>3. w \in Seq(Byte) /\ Len(w) = (p + n) - (p + 1) + 1
    BY <2>1, <2>2, SubSeqProperties DEF w
  <2> QED
    BY <2>3, <1>1
<1> HIDE DEF w
<1>3. w \in [1..n -> Byte]
  BY <1>2, LenProperties
<1>4. w \in Word
  BY <1>1, <1>3 DEF Word
<1>5. LZ4_hashPosition(p) = Hash(w)
  BY DEF LZ4_hashPosition, w, n
<1> QED
  BY <1>4, <1>5 DEF HashesInSlots

\* An entry changes, and it is still a table.
LEMMA PutType ==
  ASSUME NEW table \in [Slots -> Int], NEW p \in Int, call.source \in Int,
         call.startIndex \in Int
  PROVE  PutPosition(table, p) \in [Slots -> Int]
<1> DEFINE h == LZ4_hashPosition(p)
           v == IF call.table = "byU16" THEN Index(p) % KB64 ELSE Index(p)
<1>1. Index(p) \in Int
  BY DEF Index, source, startIndex
<1>2. KB64 \in Nat /\ KB64 > 0
  BY WindowType
<1>3. v \in Int
  <2>1. Index(p) % KB64 \in Int
    BY <1>1, <1>2
  <2> QED
    BY <1>1, <2>1
<1>4. PutPosition(table, p) = [table EXCEPT ![h] = v]
  BY DEF PutPosition, LZ4_putIndexOnHash
<1> HIDE DEF h, v
<1> QED
  BY <1>3, <1>4

\* What the dictionary of a call says about itself.
LEMMA DictType ==
  ASSUME CallTyped
  PROVE  /\ dictionary \in Int /\ dictSize \in Nat /\ dictEnd \in Int
         /\ usingCtx => /\ call.ctx.dictCtx.hashTable \in [Slots -> Int]
                        /\ call.ctx.dictCtx.currentOffset \in Int
<1>1. call.ctx.dictionary \in Int /\ call.ctx.dictSize \in Nat
  BY DEF CallTyped, StreamState, StateWith
<1>2. ASSUME usingCtx
      PROVE  /\ call.ctx.dictCtx.dictionary \in Int /\ call.ctx.dictCtx.dictSize \in Nat
             /\ call.ctx.dictCtx.hashTable \in [Slots -> Int]
             /\ call.ctx.dictCtx.currentOffset \in Int
  BY <1>2 DEF CallTyped, DictState, StateWith
<1>3. dictionary \in Int /\ dictSize \in Nat
  BY <1>1, <1>2 DEF dictionary, dictSize
<1> QED
  BY <1>2, <1>3 DEF dictEnd

\* A candidate has an index, an address, and a segment.
LEMMA CandidateType ==
  ASSUME CallTyped, lowLimit \in Int, NEW table \in [Slots -> Int], NEW h \in Slots
  PROVE  /\ Candidate(table, h).index \in Int /\ Candidate(table, h).at \in Int
         /\ Candidate(table, h).low \in Int
<1>1. table[h] \in Int /\ source \in Int /\ startIndex \in Int
  BY DEF CallTyped, source, startIndex
<1>2. dictionary \in Int /\ dictEnd \in Int
  BY DictType
<1>3. CASE maybe_extMem /\ table[h] < startIndex /\ usingCtx
  <2>1. call.ctx.dictCtx.hashTable[h] \in Int /\ call.ctx.dictCtx.currentOffset \in Int
    BY <1>3, DictType
  <2>2. Candidate(table, h) =
          [index |-> call.ctx.dictCtx.hashTable[h] + startIndex - call.ctx.dictCtx.currentOffset,
           at |-> dictEnd - call.ctx.dictCtx.currentOffset + call.ctx.dictCtx.hashTable[h],
           low |-> dictionary]
    BY <1>3 DEF Candidate
  <2> QED
    BY <1>1, <1>2, <2>1, <2>2
<1>4. CASE maybe_extMem /\ table[h] < startIndex /\ ~usingCtx
  <2>1. Candidate(table, h) =
          [index |-> table[h], at |-> dictEnd - startIndex + table[h], low |-> dictionary]
    BY <1>4 DEF Candidate
  <2> QED
    BY <1>1, <1>2, <2>1
<1>5. CASE ~(maybe_extMem /\ table[h] < startIndex)
  <2>1. Candidate(table, h) =
          [index |-> table[h], at |-> source + table[h] - startIndex,
           low |-> IF maybe_extMem THEN source ELSE lowLimit]
    BY <1>5 DEF Candidate
  <2> QED
    BY <1>1, <2>1
<1> QED
  BY <1>3, <1>4, <1>5

\* A state whose table alone changes.
LEMMA TableKeepsState ==
  ASSUME ctx \in StreamState, NEW t \in [Slots -> Int], ctx' = [ctx EXCEPT !.hashTable = t]
  PROVE  ctx' \in StreamState
BY DEF StreamState, StateWith

---------------------------------------------------------------------------
(* The steps of a call.                                                    *)

\* Within a call, what is derived from its arguments stays.
LEMMA SameCall ==
  ASSUME call' = call
  PROVE  /\ source' = source /\ iend' = iend /\ (limited' <=> limited) /\ (filling' <=> filling)
         /\ CallTyped => CallTyped'
         /\ text' = text /\ Accepted => Accepted'
BY DEF source, iend, limited, filling, CallTyped, usingCtx, Accepted

\* What a running call knows of its source and of dst.
LEMMA Ranges ==
  ASSUME Typed, Accepted, InSource
  PROVE  /\ source \in Nat /\ iend \in Nat /\ anchor \in Nat /\ source <= anchor
         /\ anchor <= iend /\ iend <= Len(text) /\ iend = source + call.size
         /\ call.size \in Nat /\ call.capacity \in Int /\ Len(text) \in Nat
         /\ op \in Nat /\ op = Len(out)
         /\ anchor - source \in Nat /\ iend - anchor \in Nat
         /\ ~limited => call.capacity >= call.size + call.size \div 255 + 16
<1>1. source \in Nat /\ call.size \in Nat /\ call.capacity \in Int
  BY MaxInputType DEF Typed, CallTyped, Accepted, source
<1>2. iend = source + call.size /\ iend \in Nat /\ iend <= Len(text)
  BY <1>1 DEF iend, Accepted
<1>3. source <= anchor /\ anchor <= iend /\ anchor \in Nat
  BY DEF InSource, Typed
<1>4. op \in Nat /\ op = Len(out)
  BY LenProperties DEF Typed, op
<1>5. Len(text) \in Nat
  BY LenProperties DEF Typed
<1>6. ~limited => call.capacity >= call.size + call.size \div 255 + 16
  <2>1. call.size \in 0..LZ4_MAX_INPUT_SIZE
    BY MaxInputType DEF Accepted
  <2> QED
    BY <2>1 DEF Accepted, LZ4_compressBound
<1> QED
  BY <1>1, <1>2, <1>3, <1>4, <1>5, <1>6

\* The first byte of the source goes to the table.
LEMMA FirstByteStep ==
  ASSUME HashesInSlots, EngineInv, FirstByte
  PROVE  EngineInv'
<1>1. /\ pc = "first_byte" /\ pc' = "find_match" /\ ip' = ip + 1
      /\ forwardIp' = ip + 1 /\ step' = 1 /\ searchMatchNb' = call.acceleration * 64
      /\ ctx' = [ctx EXCEPT !.hashTable = PutPosition(ctx.hashTable, ip)]
      /\ call' = call /\ text' = text
      /\ UNCHANGED <<anchor, match, offset, lowLimit, out, token, reach, inputConsumed>>
  BY DEF FirstByte, Goto, SearchFrom, input, found
<1>2. Typed /\ Accepted /\ InSource /\ RoomLeft
  BY <1>1 DEF EngineInv
<1>3. PutPosition(ctx.hashTable, ip) \in [Slots -> Int]
  <2>1. ctx.hashTable \in [Slots -> Int]
    BY <1>2 DEF Typed, StreamState, StateWith
  <2>2. ip \in Int
    BY <1>2 DEF Typed
  <2>3. call.source \in Int /\ call.startIndex \in Int
    BY <1>2 DEF Typed, CallTyped
  <2> QED
    BY <2>1, <2>2, <2>3, PutType
<1>4. ctx' \in StreamState
  <2>1. ctx \in StreamState
    BY <1>2 DEF Typed
  <2> QED
    BY <1>1, <1>3, <2>1, TableKeepsState
<1>5. call.acceleration \in Nat /\ call.acceleration >= 1
  BY <1>2 DEF Typed, CallTyped, Accepted
<1>6. Typed'
  <2>1. CallTyped' /\ text' = text
    BY <1>1, <1>2, SameCall DEF Typed
  <2>2. ip' \in Nat /\ forwardIp' \in Nat /\ step' \in Nat /\ searchMatchNb' \in Nat
    <3>1. ip \in Nat
      BY <1>2 DEF Typed
    <3>2. ip + 1 \in Nat /\ 1 \in Nat /\ call.acceleration * 64 \in Nat
      BY <1>5, <3>1
    <3> QED
      BY <1>1, <3>2
  <2>3. UNCHANGED <<text, anchor, match, offset, lowLimit, out, token, reach, inputConsumed>>
    BY <1>1
  <2> QED
    BY <1>1, <1>2, <1>4, <2>1, <2>2, <2>3 DEF Typed
<1>7. Accepted'
  BY <1>1, <1>2, SameCall
<1>8. InSource'
  BY <1>1, <1>2, <1>5, SameCall, SMTT(20) DEF InSource, Typed
<1>9. RoomLeft'
  BY <1>1, <1>2, SameCall DEF RoomLeft, op
<1> QED
  BY <1>1, <1>6, <1>7, <1>8, <1>9 DEF EngineInv

\* A probe of the search.
LEMMA FindMatchStep ==
  ASSUME HashesInSlots, EngineInv, FindMatch
  PROVE  EngineInv'
<1> DEFINE p == forwardIp
           h == LZ4_hashPosition(p)
           c == Candidate(ctx.hashTable, h)
<1>1. /\ pc = "find_match" /\ ip' = p /\ forwardIp' = p + step
      /\ step' = searchMatchNb \div 64 /\ searchMatchNb' = searchMatchNb + 1
      /\ call' = call /\ text' = text
      /\ UNCHANGED <<anchor, out, token, reach, inputConsumed>>
  BY DEF FindMatch, input
<1>2. \/ /\ pc' = "last_literals"
         /\ UNCHANGED <<ctx, match, offset, lowLimit>>
      \/ /\ p + step <= mflimitPlusOne
         /\ ctx' = [ctx EXCEPT !.hashTable = PutPosition(ctx.hashTable, p)]
         /\ lowLimit' = c.low
         /\ \/ match' = c.at /\ offset' = Index(p) - c.index /\ pc' = "literals"
            \/ pc' = "find_match" /\ UNCHANGED <<match, offset>>
  BY DEF FindMatch, Goto, found
<1>3. Typed /\ Accepted /\ InSource /\ RoomLeft
  BY <1>1 DEF EngineInv
<1>4. p \in Nat /\ anchor <= p /\ step \in Nat /\ step >= 1 /\ searchMatchNb \in Nat
      /\ searchMatchNb >= 64 /\ searchMatchNb \div 64 >= 1 /\ searchMatchNb \div 64 \in Nat
  BY <1>1, <1>3 DEF Typed, InSource
<1>5. p + step <= mflimitPlusOne => p + MFLIMIT <= iend /\ p + 5 <= Len(text)
  BY <1>3, <1>4, Ranges, SMTT(20) DEF mflimitPlusOne, MFLIMIT
<1>6. ctx \in StreamState /\ ctx.hashTable \in [Slots -> Int] /\ CallTyped /\ lowLimit \in Int
      /\ text \in Seq(Byte) /\ match \in Int /\ offset \in Int
  BY <1>3 DEF Typed, StreamState, StateWith
<1>7. p + step <= mflimitPlusOne =>
        /\ PutPosition(ctx.hashTable, p) \in [Slots -> Int]
        /\ c.index \in Int /\ c.at \in Int /\ c.low \in Int /\ Index(p) \in Int
  <2> SUFFICES ASSUME p + step <= mflimitPlusOne
               PROVE  /\ PutPosition(ctx.hashTable, p) \in [Slots -> Int]
                      /\ c.index \in Int /\ c.at \in Int /\ c.low \in Int /\ Index(p) \in Int
    OBVIOUS
  <2>1. h \in Slots
    BY <1>4, <1>5, <1>6, HashType
  <2>2. PutPosition(ctx.hashTable, p) \in [Slots -> Int]
    BY <1>4, <1>6, PutType DEF CallTyped
  <2>3. c.index \in Int /\ c.at \in Int /\ c.low \in Int
    <3> HIDE DEF h
    <3> QED
      BY <1>6, <2>1, CandidateType
  <2>4. Index(p) \in Int
    BY <1>4, <1>6 DEF Index, source, startIndex, CallTyped
  <2> QED
    BY <2>2, <2>3, <2>4
<1> HIDE DEF h, c
<1>8. /\ ctx' \in StreamState /\ match' \in Int /\ offset' \in Int /\ lowLimit' \in Int
      /\ pc' \in {"last_literals", "literals", "find_match"}
      /\ pc' = "literals" => p + MFLIMIT <= iend
  <2>1. CASE pc' = "last_literals" /\ UNCHANGED <<ctx, match, offset, lowLimit>>
    BY <2>1, <1>6
  <2>2. CASE /\ p + step <= mflimitPlusOne
             /\ ctx' = [ctx EXCEPT !.hashTable = PutPosition(ctx.hashTable, p)]
             /\ lowLimit' = c.low
             /\ \/ match' = c.at /\ offset' = Index(p) - c.index /\ pc' = "literals"
                \/ pc' = "find_match" /\ UNCHANGED <<match, offset>>
    <3>1. ctx' \in StreamState
      BY <2>2, <1>6, <1>7, TableKeepsState
    <3>2. match' \in Int /\ offset' \in Int /\ lowLimit' \in Int
      BY <2>2, <1>6, <1>7
    <3> QED
      BY <2>2, <3>1, <3>2, <1>5
  <2> QED
    BY <1>2, <2>1, <2>2
<1>9. Typed'
  BY <1>1, <1>3, <1>4, <1>8, SameCall DEF Typed
<1>10. Accepted'
  BY <1>1, <1>3, SameCall
<1>11. InSource'
  <2>1. source' = source /\ iend' = iend
    BY <1>1, SameCall
  <2>2. source <= anchor' /\ anchor' <= iend
    BY <1>1, <1>3 DEF InSource
  <2>3. pc' = "find_match" => anchor' <= forwardIp' /\ step' >= 1 /\ searchMatchNb' >= 64
    BY <1>1, <1>3, <1>4 DEF Typed
  <2>4. pc' = "literals" => anchor' <= ip' /\ ip' + MFLIMIT <= iend
    BY <1>1, <1>4, <1>8
  <2> QED
    BY <1>8, <2>1, <2>2, <2>3, <2>4 DEF InSource
<1>12. RoomLeft'
  <2>1. op' = op /\ reach' = reach /\ anchor' = anchor /\ call' = call
    BY <1>1 DEF op
  <2>2. pc' \notin {"idle", "match", "test_next"}
    BY <1>8
  <2> QED
    BY <1>1, <1>3, <2>1, <2>2, SameCall DEF RoomLeft
<1> QED
  BY <1>8, <1>9, <1>10, <1>11, <1>12 DEF EngineInv

\* Where the catch up ends: after the anchor.
LEMMA CatchUpBounds ==
  ASSUME Typed, anchor <= ip
  PROVE  CatchUp(ip, match) \in Nat /\ CatchUp(ip, match) <= ip - anchor
<1> DEFINE n == MinOf(ip - anchor, match - lowLimit)
<1>1. ip \in Nat /\ anchor \in Nat /\ match \in Int /\ lowLimit \in Int
  BY DEF Typed
<1>2. n \in Int /\ n <= ip - anchor
  BY <1>1 DEF MinOf
<1>3. CatchUp(ip, match) = CountBack(ip, match, n)
  BY DEF CatchUp
<1> HIDE DEF n
<1>4. CountBack(ip, match, n) \in Nat /\ CountBack(ip, match, n) <= MaxOf(0, n)
  BY <1>1, <1>2, CountBackBounds
<1>5. MaxOf(0, n) <= ip - anchor /\ MaxOf(0, n) \in Int
  BY <1>1, <1>2 DEF MaxOf
<1> QED
  BY <1>1, <1>3, <1>4, <1>5

\* A call that ends with nothing, dst being too small.
LEMMA GivesUp ==
  ASSUME EngineInv, pc # "idle", call.output = "limitedOutput", pc' = "idle",
         UNCHANGED <<ctx, text, call, out, token, reach, forwardIp, step, searchMatchNb,
                     anchor, offset, lowLimit, inputConsumed>>,
         ip' \in Nat, match' \in Int
  PROVE  EngineInv'
<1>1. Typed /\ RoomLeft
  BY DEF EngineInv
<1>2. Typed'
  BY <1>1, SameCall DEF Typed
<1>3. RoomLeft'
  <2>1. op' = op /\ reach' = reach /\ call' = call
    BY DEF op
  <2> QED
    BY <1>1, <2>1 DEF RoomLeft
<1>4. FillsUp'
  BY DEF FillsUp
<1> QED
  BY <1>2, <1>3, <1>4 DEF EngineInv

\* The literals before a match.
LEMMA EncodeLiteralsStep ==
  ASSUME EngineInv, EncodeLiterals
  PROVE  EngineInv'
<1> DEFINE back == CatchUp(ip, match)
           n == ip - back - anchor
           lits == SubSeq(text, anchor + 1, anchor + n)
           NoRoom == UNCHANGED <<out, token, reach>>
           Writes == /\ call.output = "limitedOutput" => LiteralsFit(n)
                     /\ filling => LiteralsFill(n)
                     /\ token' = op + 1
                     /\ out' = out \o <<16 * MinOf(n, 15)>> \o LengthBytes(n) \o lits
                     /\ reach' = MaxOf(reach, WildEnd(op + 1 + Len(LengthBytes(n)), n))
                     /\ pc' = "match"
<1>1. /\ pc = "literals" /\ ip' = ip - back /\ match' = match - back
      /\ UNCHANGED <<ctx, text, call, forwardIp, step, searchMatchNb, anchor, offset, lowLimit,
                     filledIp, inputConsumed>>
  BY DEF EncodeLiterals, input, search
<1>2. \/ call.output = "limitedOutput" /\ pc' = "idle" /\ NoRoom
      \/ filling /\ pc' = "last_literals" /\ NoRoom
      \/ Writes
  BY DEF EncodeLiterals, Idle, Goto, Reach
<1>3. Typed /\ Accepted /\ InSource /\ RoomLeft
  BY <1>1 DEF EngineInv
<1>4. ip \in Nat /\ anchor \in Nat /\ anchor <= ip /\ ip + 12 <= iend /\ match \in Int
  BY <1>1, <1>3 DEF Typed, InSource, MFLIMIT
<1>5. back \in Nat /\ back <= ip - anchor
  BY <1>3, <1>4, CatchUpBounds
<1> HIDE DEF back
<1>6. n \in Nat /\ ip' = anchor + n /\ ip' \in Nat /\ match' \in Int
  BY <1>1, <1>4, <1>5
<1>7. /\ anchor + n <= Len(text) /\ anchor + n + 12 <= iend
      /\ (anchor - source) + n + 12 <= call.size /\ anchor - source \in Nat
  <2>1. anchor + n <= ip
    BY <1>4, <1>5
  <2> HIDE DEF n
  <2> QED
    <3>1. /\ source \in Nat /\ iend \in Nat /\ source <= anchor /\ iend <= Len(text)
          /\ iend = source + call.size /\ call.size \in Nat /\ Len(text) \in Nat
      BY <1>3, Ranges
    <3> QED
      BY <2>1, <3>1, <1>4, <1>6
<1> HIDE DEF n
<1>8. CASE call.output = "limitedOutput" /\ pc' = "idle" /\ NoRoom
  BY <1>1, <1>6, <1>8, GivesUp
<1>9. CASE filling /\ pc' = "last_literals" /\ NoRoom
  <2>1. Typed'
    BY <1>1, <1>3, <1>6, <1>9, SameCall DEF Typed
  <2>2. Accepted'
    BY <1>1, <1>3, SameCall
  <2>3. InSource'
    BY <1>1, <1>3, <1>9, SameCall DEF InSource
  <2>4. RoomLeft'
    <3>1. op' = op
      BY <1>9 DEF op
    <3>2. UNCHANGED <<reach, anchor, call>>
      BY <1>1, <1>9
    <3> QED
      BY <1>1, <1>3, <1>9, <3>1, <3>2, SameCall DEF RoomLeft
  <2> QED
    BY <1>9, <2>1, <2>2, <2>3, <2>4 DEF EngineInv
<1>10. CASE Writes
  <2>1. /\ out' \in Seq(Int) /\ Len(out') = Len(out) + 1 + Extra(n) + n /\ Len(out) \in Nat
    <3>1. 16 * MinOf(n, 15) \in Int
      BY <1>6 DEF MinOf
    <3>2. text \in Seq(Byte) /\ out \in Seq(Int)
      BY <1>3 DEF Typed
    <3>3. PICK o : o = out \o <<16 * MinOf(n, 15)>> \o LengthBytes(n) \o lits
      OBVIOUS
    <3>4. o \in Seq(Int) /\ Len(o) = Len(out) + 1 + Extra(n) + n /\ Len(out) \in Nat
      BY <1>4, <1>6, <1>7, <3>1, <3>2, <3>3, RunType
    <3>5. out' = o
      BY <1>10, <3>3
    <3> QED
      BY <3>4, <3>5
  <2>2. op' = op + 1 + Extra(n) + n /\ op \in Nat
    BY <2>1 DEF op
  <2>3. Len(LengthBytes(n)) = Extra(n)
    BY <1>6, LengthBytesLen
  <2>4. PICK w : w = WildEnd(op + 1 + Extra(n), n)
    OBVIOUS
  <2>5. reach' = MaxOf(reach, w)
    BY <1>10, <2>3, <2>4
  <2>6. PICK x \in Nat : x = anchor - source
    BY <1>7
  <2>7. \/ op + 1 + n + 8 + n \div 255 <= call.capacity
        \/ op + 1 + (n + 240) \div 255 + n + 3 + 8 <= call.capacity
        \/ /\ x + n + 12 <= call.size /\ call.capacity >= call.size + call.size \div 255 + 16
           /\ op <= Bound(x)
    <3>1. CASE call.output = "limitedOutput"
      <4>1. op + 1 + n + 8 + n \div 255 <= call.capacity
        <5>1. op + 1 + n + (2 + 1 + LASTLITERALS) + n \div 255 <= olimit
          BY <3>1, <1>10 DEF LiteralsFit
        <5> QED
          BY <5>1 DEF olimit, LASTLITERALS
      <4> QED
        BY <4>1
    <3>2. CASE filling
      <4>1. op + 1 + (n + 240) \div 255 + n + 3 + 8 <= call.capacity
        <5>1. op + 1 + (n + 240) \div 255 + n + 2 + 1 + MFLIMIT - MINMATCH <= olimit
          BY <3>2, <1>10 DEF LiteralsFill
        <5>2. (n + 240) \div 255 \in Nat /\ call.capacity \in Int
          BY <1>6, <1>3, Ranges
        <5> QED
          BY <5>1, <5>2, <1>6, <2>2 DEF olimit, MFLIMIT, MINMATCH
      <4> QED
        BY <4>1
    <3>3. CASE ~limited
      <4>1. op <= Bound(anchor - source)
        BY <1>1, <1>3, <3>3 DEF RoomLeft
      <4> QED
        BY <4>1, <2>6, <1>7, <1>3, <3>3, Ranges
    <3> QED
      BY <3>1, <3>2, <3>3, <1>3 DEF Typed, CallTyped, Outputs, limited, filling
  <2>8. /\ w \in Nat /\ w <= call.capacity /\ op + 1 + Extra(n) + n <= w
        /\ op <= Bound(x) => op + 1 + Extra(n) + n <= Bound(x + n) + 2
    <3>1. call.capacity \in Int /\ call.size \in Nat
      BY <1>3, Ranges
    <3>2. \/ op + 1 + n + 8 + n \div 255 <= call.capacity
          \/ op + 1 + (n + 240) \div 255 + n + 8 <= call.capacity
          \/ /\ x + n + 9 <= call.size /\ call.capacity >= call.size + call.size \div 255 + 16
             /\ op <= Bound(x)
      <4>1. (n + 240) \div 255 \in Nat
        BY <1>6
      <4> QED
        BY <4>1, <1>6, <2>2, <2>4, <2>7, <3>1
    <3> QED
      BY <1>6, <2>2, <2>4, <3>1, <3>2, LiteralsRoom
  <2>9. Extra(n) \in Nat /\ reach \in Nat /\ reach <= MaxOf(0, call.capacity)
    BY <1>3, <1>6, ExtraBounds DEF Typed, RoomLeft
  <2>10. reach' \in Nat /\ op' <= reach' /\ reach' <= MaxOf(0, call.capacity)
    <3>1. call.capacity \in Int
      BY <1>3, Ranges
    <3> QED
      BY <2>2, <2>5, <2>8, <2>9, <3>1 DEF MaxOf
  <2>11. token' \in 1..op'
    BY <1>10, <1>6, <2>2, <2>9
  <2>12. Typed'
    BY <1>1, <1>3, <1>6, <1>10, <2>1, <2>2, <2>10, <2>11, SameCall DEF Typed
  <2>13. Accepted'
    BY <1>1, <1>3, SameCall
  <2>14. InSource'
    <3>1. source' = source /\ iend' = iend
      BY <1>1, SameCall
    <3>2. source <= anchor' /\ anchor' <= iend
      BY <1>1, <1>3 DEF InSource
    <3>3. anchor' <= ip' /\ ip' + MFLIMIT <= iend
      BY <1>1, <1>4, <1>6, <1>7 DEF MFLIMIT
    <3> QED
      BY <1>10, <3>1, <3>2, <3>3 DEF InSource
  <2>15. RoomLeft'
    <3>1. ~limited' => op' <= Bound(ip' - source') + 2
      <4>1. ASSUME ~limited PROVE op' <= Bound(ip' - source) + 2
        <5>1. op <= Bound(anchor - source)
          BY <1>1, <1>3, <4>1 DEF RoomLeft
        <5>2. ip' - source = x + n
          BY <1>6, <1>7, <2>6, <1>3, <1>4, Ranges, SMTT(20)
        <5> QED
          BY <5>1, <5>2, <2>2, <2>6, <2>8
      <4> QED
        BY <4>1, <1>1, SameCall
    <3>2. call' = call
      BY <1>1
    <3> QED
      BY <1>10, <2>10, <2>11, <3>1, <3>2 DEF RoomLeft
  <2> QED
    BY <1>10, <2>12, <2>13, <2>14, <2>15 DEF EngineInv
<1> QED
  BY <1>2, <1>8, <1>9, <1>10

\* A match ends before the last literals.
LEMMA MatchCodeBounds ==
  ASSUME Typed, Accepted, InSource, ip + MFLIMIT <= iend, anchor <= ip
  PROVE  MatchCodeAt(ip, match) \in Nat /\ ip + 4 + MatchCodeAt(ip, match) + 5 <= iend
<1>1. ip \in Nat /\ match \in Int /\ iend \in Nat /\ source \in Nat
  BY Ranges DEF Typed
<1>2. dictEnd \in Int
  BY DictType DEF Typed
<1>3. matchlimit = iend - 5 /\ matchlimit \in Int /\ ip + 4 <= matchlimit
  BY <1>1 DEF matchlimit, LASTLITERALS, MFLIMIT
<1>4. ASSUME NEW p \in Int, NEW q \in Int, NEW l \in Int
      PROVE  /\ LZ4_count(p, q, l) \in Nat
             /\ LZ4_count(p, q, l) <= IF 0 < l THEN l ELSE 0
  BY CountBounds DEF MaxOf
<1> DEFINE limit == MinOf(ip + dictEnd - match, matchlimit)
           first == LZ4_count(ip + MINMATCH, match + MINMATCH, limit - (ip + MINMATCH))
           more  == LZ4_count(limit, source, matchlimit - limit)
           all   == LZ4_count(ip + MINMATCH, match + MINMATCH, matchlimit - (ip + MINMATCH))
<1>5. MatchCodeAt(ip, match) =
        IF maybe_extMem /\ lowLimit = dictionary
        THEN IF ip + 4 + first = limit THEN first + more ELSE first
        ELSE all
  BY DEF MatchCodeAt, MINMATCH
<1>6. limit \in Int /\ limit <= matchlimit
  BY <1>1, <1>2, <1>3 DEF MinOf
<1> HIDE DEF limit
<1>7. ip + MINMATCH \in Int /\ match + MINMATCH \in Int /\ ip + MINMATCH = ip + 4
  BY <1>1 DEF MINMATCH
<1>8. /\ first \in Nat
      /\ first <= IF 0 < limit - (ip + MINMATCH) THEN limit - (ip + MINMATCH) ELSE 0
  <2>1. limit - (ip + MINMATCH) \in Int
    BY <1>6, <1>7
  <2> QED
    BY <2>1, <1>4, <1>7
<1>9. more \in Nat /\ more <= IF 0 < matchlimit - limit THEN matchlimit - limit ELSE 0
  <2>1. matchlimit - limit \in Int
    BY <1>3, <1>6
  <2> QED
    <3>1. source \in Int
      BY <1>1
    <3>2. \A l \in Int : /\ LZ4_count(limit, source, l) \in Nat
                         /\ LZ4_count(limit, source, l) <= IF 0 < l THEN l ELSE 0
      BY ONLY <3>1, <1>4, <1>6
    <3> QED
      BY <2>1, <3>2
<1>10. /\ all \in Nat
       /\ all <= IF 0 < matchlimit - (ip + MINMATCH) THEN matchlimit - (ip + MINMATCH) ELSE 0
  <2>1. matchlimit - (ip + MINMATCH) \in Int
    BY <1>3, <1>7
  <2> QED
    BY <2>1, <1>4, <1>7
<1> HIDE DEF first, more, all
<1> QED
  BY <1>1, <1>3, <1>5, <1>6, <1>7, <1>8, <1>9, <1>10

\* How far the length bytes of a match are written from at on, four at a time.
LengthEnd(at, n) == IF n < 15 THEN at ELSE at + 4 * ((n - 15) \div 1020) + 4

\* That is past them, and by less than four.
LEMMA LengthEndBounds ==
  ASSUME NEW at \in Nat, NEW n \in Nat
  PROVE  /\ LengthEnd(at, n) \in Nat
         /\ at + Extra(n) <= LengthEnd(at, n) /\ LengthEnd(at, n) <= at + Extra(n) + 3
<1>1. CASE n < 15
  BY <1>1 DEF LengthEnd, Extra
<1>2. CASE n >= 15
  <2>1. PICK m \in Nat : m = n - 15
    BY <1>2
  <2>2. /\ m \div 1020 \in Nat /\ 1020 * (m \div 1020) <= m
        /\ m < 1020 * (m \div 1020) + 1020
    OBVIOUS
  <2>3. (n + 240) \div 255 = m \div 255 + 1
    BY <2>1
  <2>4. m \div 255 \in Nat /\ 255 * (m \div 255) <= m /\ m < 255 * (m \div 255) + 255
    BY Div255
  <2>5. LengthEnd(at, n) = at + 4 * (m \div 1020) + 4 /\ Extra(n) = m \div 255 + 1
    <3>1. n - 15 = m
      BY <2>1
    <3>2. LengthEnd(at, n) = at + 4 * ((n - 15) \div 1020) + 4
      BY <1>2 DEF LengthEnd
    <3>3. Extra(n) = (n + 240) \div 255
      BY <1>2 DEF Extra
    <3> QED
      BY <3>1, <3>2, <3>3, <2>3
  <2> QED
    BY <2>2, <2>4, <2>5
<1> QED
  BY <1>1, <1>2

\* The checks of the length of a match leave room for the last literals.
LEMMA MatchMargin ==
  ASSUME NEW o \in Nat, NEW kept \in Nat, NEW cap \in Int,
         \/ o + 2 + 6 + (kept + 240) \div 255 <= cap
         \/ kept = 14 + (cap - (o + 2) - 6) * 255 /\ o + 11 <= cap
  PROVE  o + 2 + Extra(kept) + 6 <= cap
<1>1. /\ Extra(kept) \in Nat /\ Extra(kept) <= (kept + 240) \div 255
      /\ (kept + 240) \div 255 \in Nat
      /\ kept >= 15 => 255 * Extra(kept) <= kept + 240
  BY ExtraBounds
<1>2. CASE o + 2 + 6 + (kept + 240) \div 255 <= cap
  <2>1. PICK d \in Nat : d = (kept + 240) \div 255 /\ Extra(kept) <= d /\ o + 2 + 6 + d <= cap
    BY <1>1, <1>2
  <2> QED
    BY <1>1, <2>1
<1>3. CASE kept = 14 + (cap - (o + 2) - 6) * 255 /\ o + 11 <= cap
  <2>1. PICK k \in Nat : k = cap - (o + 2) - 6 /\ k >= 3
    BY <1>3
  <2>2. Extra(kept) <= k
    BY <1>1, <1>3, <2>1
  <2> QED
    BY <1>1, <2>1, <2>2
<1> QED
  BY <1>2, <1>3

\* The sequence ends in the room its check left for it: y bytes of the source
\* come before the match, which begins at o in dst.
LEMMA MatchRoom ==
  ASSUME NEW o \in Nat, NEW kept \in Nat, NEW cap \in Int, NEW y \in Nat, NEW size \in Nat,
         \/ o + 2 + 6 + (kept + 240) \div 255 <= cap
         \/ kept = 14 + (cap - (o + 2) - 6) * 255 /\ o + 11 <= cap
         \/ /\ y + 4 + kept + 5 <= size /\ cap >= size + size \div 255 + 16
            /\ o <= Bound(y) + 2
  PROVE  /\ Extra(kept) \in Nat
         /\ LengthEnd(o + 2, kept) \in Nat
         /\ LengthEnd(o + 2, kept) <= cap
         /\ o + 2 + Extra(kept) <= LengthEnd(o + 2, kept)
         /\ o <= Bound(y) + 2 => o + 2 + Extra(kept) <= Bound(y + 4 + kept)
<1>1. /\ Extra(kept) \in Nat /\ Extra(kept) <= (kept + 240) \div 255 /\ Extra(kept) <= kept
      /\ (kept + 240) \div 255 \in Nat
      /\ kept >= 15 => 255 * Extra(kept) <= kept + 240
  BY ExtraBounds
<1>2. /\ LengthEnd(o + 2, kept) \in Nat
      /\ o + 2 + Extra(kept) <= LengthEnd(o + 2, kept)
      /\ LengthEnd(o + 2, kept) <= o + 2 + Extra(kept) + 3
  <2>1. PICK a \in Nat : a = o + 2
    OBVIOUS
  <2>2. /\ LengthEnd(a, kept) \in Nat
        /\ a + Extra(kept) <= LengthEnd(a, kept) /\ LengthEnd(a, kept) <= a + Extra(kept) + 3
    BY LengthEndBounds
  <2> QED
    BY <2>1, <2>2
<1>3. o <= Bound(y) + 2 => o + 2 + Extra(kept) <= Bound(y + 4 + kept)
  <2>1. y \div 255 <= (y + 4 + kept) \div 255
    BY DivGrows
  <2>2. y \div 255 \in Nat /\ (y + 4 + kept) \div 255 \in Nat
    OBVIOUS
  <2> QED
    BY <1>1, <2>1, <2>2 DEF Bound
<1>4. CASE o + 2 + 6 + (kept + 240) \div 255 <= cap
  <2>1. PICK d \in Nat : d = (kept + 240) \div 255 /\ Extra(kept) <= d /\ o + 2 + 6 + d <= cap
    BY <1>1, <1>4
  <2> QED
    BY <1>1, <1>2, <1>3, <2>1
<1>5. CASE kept = 14 + (cap - (o + 2) - 6) * 255 /\ o + 11 <= cap
  <2>1. PICK k \in Nat : k = cap - (o + 2) - 6 /\ k >= 3
    BY <1>5
  <2>2. Extra(kept) <= k
    BY <1>1, <1>5, <2>1
  <2> QED
    BY <1>1, <1>2, <1>3, <2>1, <2>2
<1>6. CASE y + 4 + kept + 5 <= size /\ cap >= size + size \div 255 + 16 /\ o <= Bound(y) + 2
  <2>1. (y + 4 + kept) \div 255 <= size \div 255
    BY <1>6, DivGrows
  <2>2. (y + 4 + kept) \div 255 \in Nat /\ size \div 255 \in Nat
    OBVIOUS
  <2> QED
    BY <1>1, <1>2, <1>3, <1>6, <2>1, <2>2 DEF Bound
<1> QED
  BY <1>4, <1>5, <1>6

\* The offset and the length bytes of a match, after its token is completed.
LEMMA MatchType ==
  ASSUME out \in Seq(Int), token \in 1..Len(out), offset \in Int, NEW kept \in Nat,
         NEW o, o = [out EXCEPT ![token] = @ + MinOf(kept, 15)]
                      \o <<offset % 256, (offset \div 256) % 256>> \o LengthBytes(kept)
  PROVE  /\ o \in Seq(Int) /\ Len(o) = Len(out) + 2 + Extra(kept)
<1> DEFINE v == out[token] + MinOf(kept, 15)
           m == [out EXCEPT ![token] = v]
           b == <<offset % 256, (offset \div 256) % 256>>
           l == LengthBytes(kept)
<1>1. out[token] \in Int
  BY ElementOfSeq
<1>2. v \in Int
  BY <1>1 DEF MinOf
<1>3. o = (m \o b) \o l
  OBVIOUS
<1> HIDE DEF v
<1>4. m \in Seq(Int) /\ Len(m) = Len(out)
  BY <1>2, ExceptSeq
<1>5. b \in Seq(Int) /\ Len(b) = 2
  <2>1. offset % 256 \in Int /\ (offset \div 256) % 256 \in Int
    OBVIOUS
  <2> QED
    BY <2>1
<1>6. l \in Seq(Int) /\ Len(l) = Extra(kept)
  BY LengthBytesLen
<1> HIDE DEF m, b, l
<1>7. m \o b \in Seq(Int) /\ Len(m \o b) = Len(m) + Len(b)
  BY ONLY <1>4, <1>5, ConcatInt
<1>8. (m \o b) \o l \in Seq(Int) /\ Len((m \o b) \o l) = Len(m \o b) + Len(l)
  BY ONLY <1>6, <1>7, ConcatInt
<1>9. Len(out) \in Nat /\ Extra(kept) \in Nat
  BY LenProperties, ExtraBounds
<1>10. Len(o) = (Len(m) + Len(b)) + Len(l)
  BY <1>3, <1>7, <1>8
<1>11. Len(o) = Len(out) + 2 + Extra(kept)
  BY <1>4, <1>5, <1>6, <1>9, <1>10
<1> QED
  BY <1>3, <1>8, <1>11

\* A sequence for which there is no room is taken back.
LEMMA DropMatch ==
  ASSUME EngineInv, pc = "match", filling, pc' = "last_literals",
         out' = SubSeq(out, 1, token - 1),
         UNCHANGED <<text, call, ctx, ip, anchor, reach, forwardIp, step, searchMatchNb,
                     match, offset, lowLimit, token, inputConsumed>>
  PROVE  EngineInv'
<1>1. Typed /\ Accepted /\ InSource /\ RoomLeft
  BY DEF EngineInv
<1>2. /\ Len(out) \in Nat /\ token \in 1..Len(out) /\ Len(out) <= reach /\ call.capacity \in Int
      /\ reach <= MaxOf(0, call.capacity) /\ reach \in Nat
  BY <1>1, Ranges DEF RoomLeft, op, Typed
<1>3. out' \in Seq(Int) /\ Len(out') = token - 1
  <2>1. PICK t \in Int : t = token - 1 /\ t \in 0..Len(out)
    BY <1>2
  <2>2. \A i \in 1..t : out[i] \in Int
    <3>1. \A i \in 1..Len(out) : out[i] \in Int
      BY <1>1, ElementOfSeq DEF Typed
    <3> QED
      BY <1>2, <2>1, <3>1
  <2>3. PICK s : s = SubSeq(out, 1, t)
    OBVIOUS
  <2>4. s \in Seq(Int) /\ Len(s) = IF 1 <= t THEN t - 1 + 1 ELSE 0
    BY <2>2, <2>3, SubSeqProperties
  <2> QED
    BY <2>1, <2>3, <2>4
<1>4. Typed'
  BY <1>1, <1>3, SameCall DEF Typed
<1>5. Accepted'
  BY <1>1, SameCall
<1>6. InSource'
  BY <1>1, SameCall DEF InSource
<1>7. RoomLeft'
  <2>1. op' = token - 1 /\ op' <= reach /\ op' + 1 <= call.capacity
    BY <1>2, <1>3 DEF op, MaxOf
  <2>2. filling /\ limited
    BY DEF filling, limited
  <2>3. filling' /\ limited'
    BY <2>2, SameCall
  <2> QED
    BY <1>2, <2>1, <2>3 DEF RoomLeft
<1> QED
  BY <1>4, <1>5, <1>6, <1>7 DEF EngineInv

\* The table is still one without the positions taken back.
LEMMA ClearType ==
  ASSUME ctx \in StreamState, NEW p
  PROVE  ClearBeyond(p) \in [Slots -> Int]
<1>1. \A h \in Slots : ctx.hashTable[h] \in Int
  BY DEF StreamState, StateWith
<1> QED
  BY <1>1 DEF ClearBeyond

\* The offset and the length of a match.
LEMMA EncodeMatchStep ==
  ASSUME EngineInv, EncodeMatch
  PROVE  EngineInv'
<1> DEFINE at == op + 2
           code == MatchCodeAt(ip, match)
           fits == MatchFits(at, code)
           kept == IF limited /\ ~fits THEN 15 - 1 + (olimit - at - 1 - LASTLITERALS) * 255 ELSE code
           goes == ip + MINMATCH + kept
           marked == [out EXCEPT ![token] = @ + MinOf(kept, 15)]
           Writes == /\ filling => op + 2 + 1 + MFLIMIT - MINMATCH <= olimit
                     /\ call.output = "limitedOutput" => fits
                     /\ ip' = goes /\ anchor' = goes
                     /\ ctx' = [ctx EXCEPT !.hashTable =
                                  IF filling /\ ~fits /\ goes <= filledIp
                                  THEN ClearBeyond(goes) ELSE ctx.hashTable]
                     /\ out' = marked \o <<offset % 256, (offset \div 256) % 256>> \o LengthBytes(kept)
                     /\ reach' = MaxOf(reach, LengthEnd(at, kept))
                     /\ pc' = IF goes >= mflimitPlusOne THEN "last_literals" ELSE "test_next"
<1>1. /\ pc = "match"
      /\ UNCHANGED <<text, call, forwardIp, step, searchMatchNb, match, offset, lowLimit,
                     filledIp, token, inputConsumed>>
  BY DEF EncodeMatch, input, search, found
<1>2. \/ /\ filling /\ pc' = "last_literals" /\ out' = SubSeq(out, 1, token - 1)
         /\ UNCHANGED <<ctx, ip, anchor, reach>>
      \/ /\ call.output = "limitedOutput" /\ pc' = "idle"
         /\ UNCHANGED <<ctx, ip, anchor, out, reach>>
      \/ Writes
  BY SMTT(20) DEF EncodeMatch, Idle, Goto, Reach, LengthEnd
<1>3. Typed /\ Accepted /\ InSource /\ RoomLeft
  BY <1>1 DEF EngineInv
<1>4. CASE /\ filling /\ pc' = "last_literals" /\ out' = SubSeq(out, 1, token - 1)
           /\ UNCHANGED <<ctx, ip, anchor, reach>>
  BY <1>1, <1>4, DropMatch
<1>5. CASE /\ call.output = "limitedOutput" /\ pc' = "idle"
           /\ UNCHANGED <<ctx, ip, anchor, out, reach>>
  BY <1>1, <1>3, <1>5, GivesUp DEF Typed
<1>6. CASE Writes
  <2>1. ip \in Nat /\ anchor \in Nat /\ anchor <= ip /\ ip + MFLIMIT <= iend
    BY <1>1, <1>3 DEF Typed, InSource
  <2>2. code \in Nat /\ ip + 4 + code + 5 <= iend
    BY <1>3, <2>1, MatchCodeBounds
  <2>3. /\ op \in Nat /\ op = Len(out) /\ call.capacity \in Int /\ call.size \in Nat
        /\ source \in Nat /\ iend = source + call.size /\ source <= anchor
        /\ ~limited => call.capacity >= call.size + call.size \div 255 + 16
    BY <1>3, Ranges
  <2>4. token \in 1..Len(out) /\ (~limited => op <= Bound(ip - source) + 2)
    BY <1>1, <1>3, <2>3 DEF RoomLeft
  <2>5. fits <=> op + 2 + 6 + (code + 240) \div 255 <= call.capacity
    BY <2>2, <2>3 DEF MatchFits, olimit, LASTLITERALS
  <2>6. filling => op + 11 <= call.capacity
    BY <1>6, <2>3 DEF olimit, MFLIMIT, MINMATCH
  <2>7. kept = IF limited /\ ~fits THEN 14 + (call.capacity - (op + 2) - 6) * 255 ELSE code
    BY <2>3 DEF olimit, LASTLITERALS
  <2>8. limited => filling \/ fits
    BY <1>6, <1>3 DEF Typed, CallTyped, Outputs, limited, filling
  <2>9. (code + 240) \div 255 \in Nat /\ code + 240 < 255 * ((code + 240) \div 255) + 255
    BY <2>2, Div255
  <2> HIDE DEF code, fits
  <2>10. kept \in Nat /\ kept <= code
    <3>1. CASE limited /\ ~fits
      <4>1. op + 11 <= call.capacity
        BY <3>1, <2>6, <2>8
      <4>2. PICK k \in Nat : k = call.capacity - (op + 2) - 6 /\ k >= 3
        BY <4>1, <2>3
      <4>3. kept = 14 + k * 255
        BY <3>1, <2>7, <4>2
      <4>4. k < (code + 240) \div 255
        BY <3>1, <2>5, <4>2, <2>3, <2>9, SMTT(20)
      <4> HIDE DEF kept
      <4>5. 255 * ((code + 240) \div 255) <= code + 240
        BY <2>2, Div255
      <4>6. 255 * (k + 1) <= 255 * ((code + 240) \div 255)
        BY <4>4, <2>9
      <4> QED
        BY <4>2, <4>3, <4>5, <4>6, <2>2, <2>9
    <3>2. CASE ~(limited /\ ~fits)
      BY <3>2, <2>2
    <3> QED
      BY <3>1, <3>2
  <2>11. PICK y \in Nat : y = ip - source
    BY <2>1, <2>3
  <2>12. /\ limited => \/ op + 2 + 6 + (kept + 240) \div 255 <= call.capacity
                       \/ /\ kept = 14 + (call.capacity - (op + 2) - 6) * 255
                          /\ op + 11 <= call.capacity
         /\ \/ op + 2 + 6 + (kept + 240) \div 255 <= call.capacity
            \/ kept = 14 + (call.capacity - (op + 2) - 6) * 255 /\ op + 11 <= call.capacity
            \/ /\ y + 4 + kept + 5 <= call.size
               /\ call.capacity >= call.size + call.size \div 255 + 16 /\ op <= Bound(y) + 2
    <3>1. CASE limited /\ fits
      BY <3>1, <2>5, <2>7
    <3>2. CASE limited /\ ~fits
      BY <3>2, <2>6, <2>7, <2>8
    <3>3. CASE ~limited
      <4>1. kept = code
        BY <3>3
      <4>2. y + 4 + code + 5 <= call.size
        BY <2>1, <2>2, <2>3, <2>11
      <4> QED
        BY <3>3, <4>1, <4>2, <2>3, <2>4, <2>11
    <3> QED
      BY <3>1, <3>2, <3>3
  <2>13. goes = ip + 4 + kept
    BY DEF MINMATCH
  <2> HIDE DEF kept, goes
  <2>14. /\ Extra(kept) \in Nat /\ LengthEnd(op + 2, kept) \in Nat
         /\ LengthEnd(op + 2, kept) <= call.capacity
         /\ op + 2 + Extra(kept) <= LengthEnd(op + 2, kept)
         /\ limited => op + 2 + Extra(kept) + 6 <= call.capacity
         /\ op <= Bound(y) + 2 => op + 2 + Extra(kept) <= Bound(y + 4 + kept)
    <3>1. op \in Nat /\ kept \in Nat /\ call.capacity \in Int /\ call.size \in Nat
      BY <2>3, <2>10
    <3>2. limited => op + 2 + Extra(kept) + 6 <= call.capacity
      BY <2>12, <3>1, MatchMargin
    <3>3. /\ Extra(kept) \in Nat /\ LengthEnd(op + 2, kept) \in Nat
          /\ LengthEnd(op + 2, kept) <= call.capacity
          /\ op + 2 + Extra(kept) <= LengthEnd(op + 2, kept)
          /\ op <= Bound(y) + 2 => op + 2 + Extra(kept) <= Bound(y + 4 + kept)
      <4>1. \/ op + 2 + 6 + (kept + 240) \div 255 <= call.capacity
            \/ kept = 14 + (call.capacity - (op + 2) - 6) * 255 /\ op + 11 <= call.capacity
            \/ /\ y + 4 + kept + 5 <= call.size
               /\ call.capacity >= call.size + call.size \div 255 + 16
               /\ op <= Bound(y) + 2
        BY <2>12
      <4>2. PICK c \in Int, s \in Nat : c = call.capacity /\ s = call.size
        BY <3>1
      <4>3. \/ op + 2 + 6 + (kept + 240) \div 255 <= c
            \/ kept = 14 + (c - (op + 2) - 6) * 255 /\ op + 11 <= c
            \/ y + 4 + kept + 5 <= s /\ c >= s + s \div 255 + 16 /\ op <= Bound(y) + 2
        BY ONLY <4>1, <4>2
      <4>4. PICK o \in Nat : o = op
        BY <3>1
      <4>5. \/ o + 2 + 6 + (kept + 240) \div 255 <= c
            \/ kept = 14 + (c - (o + 2) - 6) * 255 /\ o + 11 <= c
            \/ y + 4 + kept + 5 <= s /\ c >= s + s \div 255 + 16 /\ o <= Bound(y) + 2
        BY ONLY <4>3, <4>4
      <4>6. /\ Extra(kept) \in Nat /\ LengthEnd(o + 2, kept) \in Nat
            /\ LengthEnd(o + 2, kept) <= c
            /\ o + 2 + Extra(kept) <= LengthEnd(o + 2, kept)
            /\ o <= Bound(y) + 2 => o + 2 + Extra(kept) <= Bound(y + 4 + kept)
        BY ONLY <3>1, <4>5, MatchRoom, c \in Int, s \in Nat, o \in Nat, y \in Nat
      <4> QED
        BY <4>2, <4>4, <4>6
    <3> QED
      BY <3>2, <3>3
  <2>15. out' \in Seq(Int) /\ Len(out') = Len(out) + 2 + Extra(kept)
    <3>1. out \in Seq(Int) /\ offset \in Int
      BY <1>3 DEF Typed
    <3>2. PICK o : o = marked \o <<offset % 256, (offset \div 256) % 256>> \o LengthBytes(kept)
      OBVIOUS
    <3>3. o \in Seq(Int) /\ Len(o) = Len(out) + 2 + Extra(kept)
      BY <2>4, <2>10, <3>1, <3>2, MatchType
    <3> QED
      BY <1>6, <3>2, <3>3
  <2>16. op' = op + 2 + Extra(kept)
    BY <2>3, <2>15 DEF op
  <2>17. ctx' \in StreamState
    <3>1. ctx \in StreamState /\ ctx.hashTable \in [Slots -> Int]
      BY <1>3 DEF Typed, StreamState, StateWith
    <3>2. PICK t \in [Slots -> Int] : ctx' = [ctx EXCEPT !.hashTable = t]
      BY <1>6, <3>1, ClearType
    <3> QED
      BY <3>1, <3>2, TableKeepsState
  <2>18. goes \in Nat /\ goes + 5 <= iend /\ source + 4 <= goes
    BY <2>1, <2>2, <2>3, <2>10, <2>13
  <2>19. pc' \in {"last_literals", "test_next"} /\ (pc' = "test_next" => goes + MFLIMIT <= iend)
    BY <1>6, <2>18, <2>3, SMTT(20) DEF mflimitPlusOne, MFLIMIT
  <2>20. reach' \in Nat /\ op' <= reach' /\ reach' <= MaxOf(0, call.capacity)
    <3>1. reach \in Nat /\ reach <= MaxOf(0, call.capacity)
      BY <1>3 DEF Typed, RoomLeft
    <3>2. PICK e \in Nat : e = LengthEnd(op + 2, kept)
      BY <2>14
    <3>3. reach' = MaxOf(reach, e) /\ op' <= e /\ e <= call.capacity
      BY <1>6, <2>14, <2>16, <3>2
    <3>4. op' \in Nat
      BY <2>3, <2>14, <2>16, SMTT(20)
    <3> QED
      BY <2>3, <3>1, <3>3, <3>4 DEF MaxOf
  <2>21. Typed'
    BY <1>1, <1>3, <1>6, <2>15, <2>17, <2>18, <2>19, <2>20, SameCall DEF Typed
  <2>22. Accepted'
    BY <1>1, <1>3, SameCall
  <2>23. InSource'
    <3>1. source' = source /\ iend' = iend /\ ip' = goes /\ anchor' = goes
      BY <1>1, <1>6, SameCall
    <3>2. iend \in Nat
      BY <1>3, Ranges
    <3> QED
      BY <2>3, <2>18, <2>19, <3>1, <3>2 DEF InSource
  <2>24. ~limited => op' <= Bound(anchor' - source')
    <3>1. anchor' - source' = y + 4 + kept
      BY <1>1, <1>6, <2>1, <2>3, <2>10, <2>11, <2>13, SameCall, SMTT(20)
    <3> QED
      BY <2>4, <2>11, <2>14, <2>16, <3>1
  <2>25. limited => op' + 6 <= call.capacity
    BY <2>14, <2>16
  <2>26. RoomLeft'
    <3>1. call' = call
      BY <1>1
    <3>2. op' \in Nat
      BY <2>3, <2>14, <2>16, SMTT(20)
    <3>3. limited /\ filling => op' + 1 <= call.capacity
      BY <2>25, <2>3, <3>2
    <3>4. filling => limited
      BY DEF filling, limited
    <3> QED
      BY <2>19, <2>20, <2>24, <2>25, <2>3, <3>1, <3>2, <3>3, <3>4, SameCall
      DEF RoomLeft, LASTLITERALS
  <2> QED
    BY <2>19, <2>21, <2>22, <2>23, <2>26 DEF EngineInv
<1> QED
  BY <1>2, <1>4, <1>5, <1>6

\* The position after a match: another match there, or the search goes on.
LEMMA TestNextStep ==
  ASSUME HashesInSlots, EngineInv, TestNext
  PROVE  EngineInv'
<1> DEFINE filled == PutPosition(ctx.hashTable, ip - 2)
           h == LZ4_hashPosition(ip)
           c == Candidate(filled, h)
           Match == /\ match' = c.at /\ offset' = Index(ip) - c.index
                    /\ token' = op + 1 /\ out' = Append(out, 0) /\ reach' = MaxOf(reach, op + 1)
                    /\ pc' = "match"
                    /\ UNCHANGED <<ip, forwardIp, step, searchMatchNb>>
           Search == /\ ip' = ip + 1 /\ pc' = "find_match"
                     /\ forwardIp' = ip + 1 /\ step' = 1 /\ searchMatchNb' = call.acceleration * 64
                     /\ UNCHANGED <<match, offset, out, token, reach>>
<1>1. /\ pc = "test_next" /\ lowLimit' = c.low
      /\ ctx' = [ctx EXCEPT !.hashTable = PutPosition(filled, ip)]
      /\ UNCHANGED <<text, call, anchor, filledIp, inputConsumed>>
  BY DEF TestNext, input
<1>2. Match \/ Search
  BY DEF TestNext, Reach, Goto, SearchFrom, search
<1>3. Typed /\ Accepted /\ InSource /\ RoomLeft
  BY <1>1 DEF EngineInv
<1>4. ip = anchor /\ ip \in Nat /\ source + 2 <= ip /\ ip + 12 <= iend
  BY <1>1, <1>3 DEF Typed, InSource, MFLIMIT
<1>5. /\ source \in Nat /\ iend \in Nat /\ iend <= Len(text) /\ Len(text) \in Nat /\ op \in Nat
      /\ op = Len(out) /\ call.capacity \in Int /\ call.size \in Nat /\ iend = source + call.size
  BY <1>3, Ranges
<1>6. ctx \in StreamState /\ ctx.hashTable \in [Slots -> Int] /\ CallTyped /\ lowLimit \in Int
      /\ text \in Seq(Byte) /\ match \in Int /\ offset \in Int
  BY <1>3 DEF Typed, StreamState, StateWith
<1>7. call.source \in Int /\ call.startIndex \in Int /\ call.acceleration \in Nat
      /\ call.acceleration >= 1
  BY <1>3, <1>6 DEF CallTyped, Accepted
<1>8. filled \in [Slots -> Int]
  <2>1. ip - 2 \in Int
    BY <1>4
  <2> QED
    BY <2>1, <1>6, <1>7, PutType
<1>9. h \in Slots
  <2>1. ip + 5 <= Len(text)
    BY <1>4, <1>5
  <2> QED
    BY <2>1, <1>4, <1>6, HashType
<1> HIDE DEF filled, h
<1>10. c.index \in Int /\ c.at \in Int /\ c.low \in Int /\ Index(ip) \in Int
  <2>1. c.index \in Int /\ c.at \in Int /\ c.low \in Int
    BY <1>6, <1>8, <1>9, CandidateType
  <2>2. Index(ip) \in Int
    BY <1>4, <1>7 DEF Index, source, startIndex
  <2> QED
    BY <2>1, <2>2
<1>11. ctx' \in StreamState
  <2>1. PutPosition(filled, ip) \in [Slots -> Int]
    BY <1>4, <1>7, <1>8, PutType
  <2> QED
    BY <2>1, <1>1, <1>6, TableKeepsState
<1> HIDE DEF c
<1>12. /\ op <= reach /\ reach <= MaxOf(0, call.capacity) /\ reach \in Nat
       /\ ~limited => op <= Bound(anchor - source)
       /\ limited => op + 6 <= call.capacity
  BY <1>1, <1>3, <1>5 DEF RoomLeft, LASTLITERALS, Typed
<1>13. Accepted'
  BY <1>1, <1>3, SameCall
<1>14. source' = source /\ iend' = iend /\ source <= anchor /\ anchor <= iend
  BY <1>1, <1>3, SameCall DEF InSource
<1>15. CASE Match
  <2>1. out' \in Seq(Int) /\ op' = op + 1
    BY <1>3, <1>15 DEF Typed, op
  <2>2. ~limited => op + 1 <= call.capacity
    <3>1. PICK x \in Nat : x = anchor - source
      BY <1>4, <1>5
    <3>2. x <= call.size
      BY <3>1, <1>4, <1>5
    <3>3. x \div 255 <= call.size \div 255
      BY <3>2, <1>5, DivGrows
    <3>4. x \div 255 \in Nat /\ call.size \div 255 \in Nat
      BY <1>5
    <3>5. ~limited => op <= x + x \div 255
      BY <1>12, <3>1 DEF Bound
    <3>6. ~limited => call.capacity >= call.size + call.size \div 255 + 16
      BY <1>3, Ranges
    <3>7. PICK d \in Nat, e \in Nat : d = x \div 255 /\ e = call.size \div 255
      BY <3>4
    <3>8. d <= e /\ (~limited => op <= x + d) /\ (~limited => call.capacity >= call.size + e + 16)
      BY <3>3, <3>5, <3>6, <3>7
    <3> QED
      BY <3>2, <3>8, <1>5, SMTT(20)
  <2>3. reach' \in Nat /\ op' <= reach' /\ reach' <= MaxOf(0, call.capacity)
    <3>1. op + 1 <= call.capacity
      BY <1>5, <1>12, <2>2
    <3>2. reach' = MaxOf(reach, op + 1) /\ op' = op + 1
      BY <1>15, <2>1
    <3>3. op \in Nat /\ call.capacity \in Int /\ reach \in Nat /\ reach <= MaxOf(0, call.capacity)
      BY <1>5, <1>12
    <3> QED
      BY <3>1, <3>2, <3>3 DEF MaxOf
  <2>4. Typed'
    <3>1. match' \in Int /\ offset' \in Int /\ lowLimit' \in Int /\ token' \in Nat
      BY <1>1, <1>5, <1>10, <1>15
    <3>2. CallTyped' /\ text' = text
      BY <1>1, <1>6, SameCall
    <3>3. UNCHANGED <<ip, anchor, forwardIp, step, searchMatchNb, inputConsumed>>
      BY <1>1, <1>15
    <3> QED
      BY <1>3, <1>11, <1>15, <2>1, <2>3, <3>1, <3>2, <3>3 DEF Typed
  <2>5. InSource'
    BY <1>1, <1>4, <1>14, <1>15 DEF InSource, MFLIMIT
  <2>6. RoomLeft'
    <3>1. token' \in 1..op'
      BY <1>5, <1>15, <2>1
    <3>2. ~limited' => op' <= Bound(ip' - source') + 2
      <4>1. ~limited => op + 1 <= Bound(anchor - source) + 2
        <5>1. anchor - source \in Nat
          BY <1>4, <1>5
        <5>2. Bound(anchor - source) \in Nat
          BY <5>1 DEF Bound
        <5> QED
          BY <5>2, <1>5, <1>12
      <4> QED
        BY <4>1, <2>1, <1>1, <1>4, <1>14, <1>15, SameCall
    <3> QED
      BY <1>1, <1>15, <2>3, <3>1, <3>2 DEF RoomLeft
  <2> QED
    BY <1>13, <1>15, <2>4, <2>5, <2>6 DEF EngineInv
<1>16. CASE Search
  <2>1. Typed'
    <3>1. ip' \in Nat /\ forwardIp' \in Nat /\ step' \in Nat /\ searchMatchNb' \in Nat
      BY <1>4, <1>7, <1>16
    <3>2. CallTyped' /\ text' = text
      BY <1>1, <1>6, SameCall
    <3>3. lowLimit' \in Int
      BY <1>1, <1>10
    <3> QED
      BY <1>1, <1>3, <1>11, <1>16, <3>1, <3>2, <3>3 DEF Typed
  <2>2. InSource'
    BY <1>1, <1>4, <1>7, <1>14, <1>16 DEF InSource
  <2>3. RoomLeft'
    <3>1. op' = op /\ reach' = reach /\ anchor' = anchor /\ call' = call /\ pc' = "find_match"
      BY <1>1, <1>16 DEF op
    <3>2. filling => op + 1 <= call.capacity
      BY <1>1, <1>3 DEF RoomLeft
    <3> QED
      BY <1>12, <1>14, <3>1, <3>2, SameCall DEF RoomLeft
  <2> QED
    BY <1>13, <1>16, <2>1, <2>2, <2>3 DEF EngineInv
<1> QED
  BY <1>2, <1>15, <1>16

\* The room before the last literals.
LEMMA RoomAtEnd ==
  ASSUME EngineInv, pc = "last_literals"
  PROVE  RoomForLast
<1>1. Typed /\ Accepted /\ InSource /\ RoomLeft
  BY DEF EngineInv
<1>2. /\ source \in Nat /\ anchor \in Nat /\ call.size \in Nat /\ call.capacity \in Int
      /\ op \in Nat /\ source <= anchor /\ anchor <= iend
      /\ ~limited => call.capacity >= call.size + call.size \div 255 + 16
  BY <1>1, Ranges
<1>3. call.output \in Outputs
  BY <1>1 DEF Typed, CallTyped
<1>4. /\ ~limited => op <= Bound(anchor - source)
      /\ filling => op + 1 <= call.capacity
  BY <1>1 DEF RoomLeft
<1> QED
  BY <1>2, <1>3, <1>4 DEF RoomForLast

\* The last literals: all of them, or as many as fill dst.
LEMMA EncodeLastStep ==
  ASSUME EngineInv, EncodeLastLiterals
  PROVE  EngineInv'
<1> DEFINE all  == iend - anchor
           fits == op + all + 1 + (all + 255 - 15) \div 255 <= call.capacity
           run  == IF filling /\ ~fits THEN FilledRun ELSE all
           Writes == /\ call.output = "limitedOutput" => fits
                     /\ out' = out \o <<16 * MinOf(run, 15)>> \o LengthBytes(run)
                                   \o SubSeq(text, anchor + 1, anchor + run)
                     /\ ip' = anchor + run
                     /\ inputConsumed' = anchor + run - source
                     /\ reach' = MaxOf(reach, Len(out'))
                     /\ pc' = "idle" /\ result' = Len(out')
<1>1. /\ pc = "last_literals"
      /\ UNCHANGED <<ctx, text, call, forwardIp, step, searchMatchNb, anchor, match, offset,
                     lowLimit, filledIp, token>>
  BY DEF EncodeLastLiterals, input, search, found
<1>2. \/ /\ call.output = "limitedOutput" /\ pc' = "idle"
         /\ UNCHANGED <<ip, out, reach, inputConsumed>>
      \/ Writes
  BY DEF EncodeLastLiterals, EncodeLast, Idle, Reach
<1>3. Typed /\ Accepted /\ InSource /\ RoomLeft
  BY <1>1 DEF EngineInv
<1>4. CASE /\ call.output = "limitedOutput" /\ pc' = "idle"
           /\ UNCHANGED <<ip, out, reach, inputConsumed>>
  BY <1>1, <1>3, <1>4, GivesUp DEF Typed
<1>5. CASE Writes
  <2>1. /\ source \in Nat /\ iend \in Nat /\ anchor \in Nat /\ source <= anchor /\ anchor <= iend
        /\ iend <= Len(text) /\ iend = source + call.size /\ call.size \in Nat
        /\ call.capacity \in Int /\ Len(text) \in Nat /\ op \in Nat /\ op = Len(out)
    BY <1>3, Ranges
  <2>2. all \in Nat
    BY <2>1
  <2>3. /\ op <= reach /\ reach <= MaxOf(0, call.capacity) /\ reach \in Nat
        /\ ~limited => op <= Bound(anchor - source)
        /\ filling => op + 1 <= call.capacity
    BY <1>1, <1>3 DEF RoomLeft, Typed
  <2>4. call.output \in Outputs /\ text \in Seq(Byte) /\ out \in Seq(Int)
    BY <1>3 DEF Typed, CallTyped
  <2>5. /\ run \in Nat /\ run <= all /\ op + 1 + Extra(run) + run <= call.capacity
        /\ filling /\ run < all =>
             \/ op + 1 + Extra(run) + run = call.capacity
             \/ op + 1 + Extra(run) + run = call.capacity - 1 /\ run % 255 = 14
    BY <1>1, <1>5, LastRunFits, RoomAtEnd DEF LastRun, LastFits
  <2> HIDE DEF run, fits
  <2>6. anchor + run <= Len(text) /\ anchor + run - source <= call.size
        /\ (anchor + run - source < call.size => run < all)
    BY <2>1, <2>5
  <2>7. out' \in Seq(Int) /\ Len(out') = op + 1 + Extra(run) + run
    <3>1. 16 * MinOf(run, 15) \in Int
      BY <2>5 DEF MinOf
    <3>2. PICK o : o = out \o <<16 * MinOf(run, 15)>> \o LengthBytes(run)
                           \o SubSeq(text, anchor + 1, anchor + run)
      OBVIOUS
    <3>3. o \in Seq(Int) /\ Len(o) = Len(out) + 1 + Extra(run) + run
      <4>1. PICK a \in Nat, n \in Nat : a = anchor /\ n = run
        BY <2>1, <2>5
      <4>2. o = out \o <<16 * MinOf(n, 15)>> \o LengthBytes(n) \o SubSeq(text, a + 1, a + n)
        BY <3>2, <4>1
      <4>3. a + n <= Len(text) /\ 16 * MinOf(n, 15) \in Int
        BY <2>6, <3>1, <4>1
      <4>4. o \in Seq(Int) /\ Len(o) = Len(out) + 1 + Extra(n) + n
        BY <2>4, <4>2, <4>3, RunType
      <4> QED
        BY <4>1, <4>4
    <3> QED
      BY <1>5, <2>1, <3>2, <3>3
  <2>8. Extra(run) \in Nat
    BY <2>5, ExtraBounds
  <2>9. op' = Len(out') /\ op' \in Nat /\ op' <= call.capacity
    BY <2>1, <2>5, <2>7, <2>8 DEF op
  <2>10. reach' \in Nat /\ op' <= reach' /\ reach' <= MaxOf(0, call.capacity)
    <3>1. reach' = MaxOf(reach, op')
      BY <1>5, <2>9
    <3>2. call.capacity \in Int /\ reach \in Nat /\ reach <= MaxOf(0, call.capacity)
      BY <2>1, <2>3
    <3> QED
      BY <2>9, <3>1, <3>2 DEF MaxOf
  <2>11. Typed'
    <3>1. ip' \in Nat /\ inputConsumed' \in Int
      BY <1>5, <2>1, <2>5
    <3> QED
      BY <1>1, <1>3, <1>5, <2>7, <2>10, <3>1, SameCall DEF Typed
  <2>12. RoomLeft'
    <3>1. call' = call /\ pc' = "idle"
      BY <1>1, <1>5
    <3> QED
      BY <2>10, <3>1 DEF RoomLeft
  <2>13. FillsUp'
    <3>1. SUFFICES ASSUME filling, anchor + run - source < call.size
                   PROVE  \/ result' = call.capacity
                          \/ /\ result' = call.capacity - 1
                             /\ (source + inputConsumed' - anchor) % 255 = 14
      BY <1>1, <1>5, SameCall DEF FillsUp, filling
    <3>2. result' = op + 1 + Extra(run) + run
      BY <1>5, <2>7
    <3>3. source + inputConsumed' - anchor = run
      BY <1>5, <2>1, <2>5
    <3> QED
      BY <2>5, <2>6, <3>1, <3>2, <3>3
  <2> QED
    BY <1>5, <2>11, <2>12, <2>13 DEF EngineInv
<1> QED
  BY <1>2, <1>4, <1>5

\* Every step of a call keeps the invariant.
LEMMA CompressStepKeeps ==
  ASSUME HashesInSlots, EngineInv, CompressStep
  PROVE  EngineInv'
BY FirstByteStep, FindMatchStep, EncodeLiteralsStep, EncodeMatchStep, TestNextStep,
   EncodeLastStep
DEF CompressStep

---------------------------------------------------------------------------
(* The start of a call.                                                    *)

\* What a function passes on to LZ4_compress_generic, with the state c, when
\* the memory has n bytes.
GoodArguments(c, r, n) ==
  /\ c \in StreamState
  /\ r.source \in Nat /\ r.size \in Int /\ r.capacity \in Int
  /\ r.output \in Outputs /\ r.table \in Tables
  /\ r.acceleration \in Nat /\ r.acceleration >= 1
  /\ r.size \in 0..LZ4_MAX_INPUT_SIZE => r.source + r.size <= n
  /\ r.output = "notLimited" => r.capacity >= LZ4_compressBound(r.size)
  /\ r.dict = "usingDictCtx" => c.dictCtx \in DictState

\* The history of the state: where it is, when it ends where the source does.
Extends(c, r, new) ==
  /\ new.dictionary = c.dictionary
  /\ \/ new.dictSize = c.dictSize
     \/ /\ r.size \in Nat
        /\ new.dictSize = IF r.dict = "usingDictCtx" THEN r.size ELSE c.dictSize + r.size

\* The state c after a block of n bytes, with a table t; d: in a dictionary context.
AfterCall(c, n, d, t) ==
  [c EXCEPT !.dictCtx = IF d THEN NoCtx ELSE @,
            !.dictSize = IF d THEN n ELSE @ + n,
            !.currentOffset = @ + n,
            !.table = t]

\* The state a call leaves is one.
LEMMA AfterCallType ==
  ASSUME NEW c \in StreamState, NEW n \in Nat, NEW d \in BOOLEAN, NEW t \in Tables
  PROVE  /\ AfterCall(c, n, d, t) \in StreamState
         /\ AfterCall(c, n, d, t).dictionary = c.dictionary
         /\ AfterCall(c, n, d, t).dictSize = IF d THEN n ELSE c.dictSize + n
<1> DEFINE x == IF d THEN NoCtx ELSE c.dictCtx
           s == IF d THEN n ELSE c.dictSize + n
           o == c.currentOffset + n
<1>1. AfterCall(c, n, d, t) =
        [c EXCEPT !.dictCtx = x, !.dictSize = s, !.currentOffset = o, !.table = t]
  BY DEF AfterCall
<1>2. x \in {NoCtx} \cup DictState /\ s \in Nat /\ o \in Int
  BY DEF StreamState, StateWith
<1> HIDE DEF x, o
<1>3. AfterCall(c, n, d, t) \in StreamState
  BY <1>1, <1>2 DEF StreamState, StateWith
<1>4. AfterCall(c, n, d, t).dictionary = c.dictionary /\ AfterCall(c, n, d, t).dictSize = s
  BY <1>1 DEF StreamState, StateWith
<1> QED
  BY <1>3, <1>4

\* A call starts in a state of the invariant.
LEMMA StartKeeps ==
  ASSUME NEW c, NEW r, text' \in Seq(Byte), GoodArguments(c, r, Len(text')),
         LZ4_compress_generic(c, r)
  PROVE  /\ EngineInv' /\ call'.source = r.source /\ call'.size = r.size
         /\ Extends(c, r, ctx')
<1>1. /\ c \in StreamState
      /\ r.source \in Nat /\ r.size \in Int /\ r.capacity \in Int
      /\ r.output \in Outputs /\ r.table \in Tables
      /\ r.acceleration \in Nat /\ r.acceleration >= 1
      /\ r.size \in 0..LZ4_MAX_INPUT_SIZE => r.source + r.size <= Len(text')
      /\ r.output = "notLimited" => r.capacity >= LZ4_compressBound(r.size)
      /\ r.dict = "usingDictCtx" => c.dictCtx \in DictState
  BY DEF GoodArguments
<1>2. /\ call'.source = r.source /\ call'.size = r.size /\ call'.capacity = r.capacity
      /\ call'.output = r.output /\ call'.dict = r.dict /\ call'.acceleration = r.acceleration
      /\ call'.startIndex = c.currentOffset /\ call'.ctx = c
  BY DEF LZ4_compress_generic, StartCall
<1>3. /\ ip' = r.source /\ anchor' = r.source /\ token' = 0 /\ match' = r.source /\ offset' = 0
      /\ lowLimit' = r.source - (IF r.dict = "withPrefix64k" THEN c.dictSize ELSE 0)
      /\ forwardIp' = r.source /\ step' = 1 /\ searchMatchNb' = 0 /\ inputConsumed' = r.size
  BY DEF LZ4_compress_generic, StartCall
<1>4. c.currentOffset \in Int /\ c.dictSize \in Nat
  BY <1>1 DEF StreamState, StateWith
<1>5. CallTyped'
  BY <1>1, <1>2, <1>4 DEF CallTyped, usingCtx
<1>6. \/ /\ r.size \notin 0..LZ4_MAX_INPUT_SIZE
         /\ pc' = "idle" /\ out' = <<>> /\ reach' = 0 /\ ctx' = c
      \/ /\ r.size = 0 /\ pc' = "idle" /\ ctx' = c
         /\ \/ out' = <<>> /\ reach' = 0
            \/ ~(r.output # "notLimited" /\ r.capacity <= 0) /\ out' = <<0>> /\ reach' = 1
      \/ /\ r.size \in 1..LZ4_MAX_INPUT_SIZE /\ out' = <<>> /\ reach' = 0
         /\ \/ r.output = "fillOutput" /\ r.capacity < 1 /\ pc' = "idle" /\ ctx' = c
            \/ /\ ~(r.output = "fillOutput" /\ r.capacity < 1)
               /\ pc' = IF r.size < LZ4_minLength THEN "last_literals" ELSE "first_byte"
               /\ ctx' = [c EXCEPT !.dictCtx = IF r.dict = "usingDictCtx" THEN NoCtx ELSE @,
                                   !.dictSize = IF r.dict = "usingDictCtx" THEN r.size
                                                ELSE @ + r.size,
                                   !.currentOffset = @ + r.size,
                                   !.table = r.table]
  BY DEF LZ4_compress_generic, Idle, Goto
<1>7. <<>> \in Seq(Int) /\ Len(<<>>) = 0 /\ <<0>> \in Seq(Int) /\ Len(<<0>>) = 1
  OBVIOUS
<1>8. ASSUME ctx' \in StreamState, out' \in Seq(Int), reach' \in Nat,
             pc' \in {"idle", "last_literals", "first_byte"}
      PROVE  Typed'
  BY <1>1, <1>3, <1>4, <1>5, <1>8 DEF Typed
<1>9. CASE /\ pc' = "idle" /\ ctx' = c /\ out' = <<>> /\ reach' = 0
           /\ r.output = "fillOutput" /\ r.capacity > 0 => r.size \notin 1..LZ4_MAX_INPUT_SIZE
  <2>1. Typed'
    BY <1>1, <1>7, <1>8, <1>9
  <2>2. RoomLeft'
    BY <1>1, <1>2, <1>7, <1>9 DEF RoomLeft, op, MaxOf
  <2>3. call'.size \in 0..LZ4_MAX_INPUT_SIZE => FillsUp'
    <3>1. ASSUME r.size \in 0..LZ4_MAX_INPUT_SIZE, r.output = "fillOutput", r.capacity > 0
          PROVE  r.size = 0
      BY <1>9, <3>1, MaxInputType
    <3> QED
      BY <1>1, <1>2, <1>3, <3>1 DEF FillsUp
  <2>4. EngineInv'
    BY <1>9, <2>1, <2>2, <2>3 DEF EngineInv
  <2> QED
    BY <1>2, <1>9, <2>4 DEF Extends
<1>10. CASE /\ r.size = 0 /\ pc' = "idle" /\ ctx' = c /\ out' = <<0>> /\ reach' = 1
            /\ ~(r.output # "notLimited" /\ r.capacity <= 0)
  <2>1. Typed'
    BY <1>1, <1>7, <1>8, <1>10
  <2>2. r.capacity >= 1
    <3>1. CASE r.output = "notLimited"
      <4>1. r.capacity >= LZ4_compressBound(0)
        BY <1>1, <1>10, <3>1
      <4>2. 0 \in 0..LZ4_MAX_INPUT_SIZE
        BY MaxInputType
      <4>3. LZ4_compressBound(0) = 0 + (0 \div 255) + 16
        BY <4>2 DEF LZ4_compressBound
      <4>4. LZ4_compressBound(0) = 16
        BY <4>3
      <4> QED
        BY <1>1, <4>1, <4>4
    <3>2. CASE r.output # "notLimited"
      BY <1>1, <1>10, <3>2
    <3> QED
      BY <3>1, <3>2
  <2>3. RoomLeft'
    BY <1>1, <1>2, <1>7, <1>10, <2>2 DEF RoomLeft, op, MaxOf
  <2>4. FillsUp'
    BY <1>2, <1>3, <1>10 DEF FillsUp
  <2>5. EngineInv'
    BY <1>10, <2>1, <2>3, <2>4 DEF EngineInv
  <2> QED
    BY <1>2, <1>10, <2>5 DEF Extends
<1>11. CASE /\ r.size \in 1..LZ4_MAX_INPUT_SIZE /\ out' = <<>> /\ reach' = 0
            /\ ~(r.output = "fillOutput" /\ r.capacity < 1)
            /\ pc' = IF r.size < LZ4_minLength THEN "last_literals" ELSE "first_byte"
            /\ ctx' = [c EXCEPT !.dictCtx = IF r.dict = "usingDictCtx" THEN NoCtx ELSE @,
                                !.dictSize = IF r.dict = "usingDictCtx" THEN r.size
                                             ELSE @ + r.size,
                                !.currentOffset = @ + r.size,
                                !.table = r.table]
  <2>1. r.size \in Nat /\ r.size >= 1 /\ r.source + r.size <= Len(text')
    BY <1>1, <1>11, MaxInputType
  <2>2. PICK n \in Nat, t \in Tables, d \in BOOLEAN :
          n = r.size /\ t = r.table /\ d = (r.dict = "usingDictCtx")
    BY <1>1, <2>1
  <2>4. ctx' = AfterCall(c, n, d, t)
    BY <1>11, <2>2 DEF AfterCall
  <2>5. /\ ctx' \in StreamState /\ ctx'.dictionary = c.dictionary
        /\ ctx'.dictSize = IF d THEN n ELSE c.dictSize + n
    BY <1>1, <2>4, AfterCallType, SMTT(20)
  <2>6. pc' \in {"last_literals", "first_byte"} /\ (pc' = "first_byte" => r.size >= 13)
    BY <1>11, <2>1 DEF LZ4_minLength, MFLIMIT
  <2>7. Typed'
    BY <1>7, <1>8, <1>11, <2>5, <2>6
  <2>8. source' = r.source /\ iend' = r.source + r.size
    BY <1>2 DEF source, iend
  <2>9. Accepted'
    <3>1. (limited' <=> r.output # "notLimited") /\ (filling' <=> r.output = "fillOutput")
      BY <1>2 DEF limited, filling
    <3>2. filling' => call'.capacity >= 1
      BY <1>1, <1>2, <1>11, <3>1
    <3>3. ~limited' => call'.capacity >= LZ4_compressBound(call'.size)
      BY <1>1, <1>2, <3>1
    <3>4. call'.size \in 1..LZ4_MAX_INPUT_SIZE /\ iend' <= Len(text') /\ call'.acceleration >= 1
      BY <1>1, <1>2, <1>11, <2>1, <2>8
    <3> QED
      BY <3>2, <3>3, <3>4 DEF Accepted
  <2>10. InSource'
    BY <1>1, <1>3, <2>1, <2>6, <2>8 DEF InSource, MFLIMIT
  <2>11. RoomLeft'
    <3>1. op' = 0 /\ reach' = 0 /\ anchor' - source' = 0
      BY <1>1, <1>3, <1>7, <1>11, <2>8 DEF op
    <3>2. Bound(0) = 0
      BY DEF Bound
    <3>3. filling' => call'.capacity >= 1
      BY <1>1, <1>2, <1>11 DEF filling
    <3> QED
      BY <1>1, <1>2, <2>6, <3>1, <3>2, <3>3 DEF RoomLeft, MaxOf
  <2>12. EngineInv'
    BY <2>6, <2>7, <2>9, <2>10, <2>11 DEF EngineInv
  <2> QED
    BY <1>2, <2>1, <2>2, <2>5, <2>12 DEF Extends
<1> QED
  BY <1>1, <1>6, <1>9, <1>10, <1>11, MaxInputType

---------------------------------------------------------------------------
(* The functions that prepare a state.                                     *)

\* A state without a dictionary context of its own can be used as any other.
LEMMA DictIsStream == DictState \subseteq StreamState
BY DEF DictState, StreamState, StateWith

\* The state LZ4_initStream leaves.
LEMMA ClearedType == ClearedCtx \in DictState /\ ClearedCtx.dictSize = 0
<1>1. NULL \in Int
  BY SMT DEF NULL
<1>2. [h \in Slots |-> 0] \in [Slots -> Int]
  OBVIOUS
<1>3. PICK zero : zero = [h \in Slots |-> 0]
  OBVIOUS
<1>4. ClearedCtx = [hashTable |-> zero, currentOffset |-> 0, table |-> "clearedTable",
                    dictCtx |-> NoCtx, dictionary |-> NULL, dictSize |-> 0]
  BY <1>3 DEF ClearedCtx
<1>5. zero \in [Slots -> Int]
  BY <1>2, <1>3
<1> QED
  BY <1>1, <1>4, <1>5 DEF DictState, StateWith, Tables

\* The tables may have been cleared, or moved past what they hold.
LEMMA PreparedType ==
  ASSUME NEW c \in StreamState, NEW n, NEW t
  PROVE  /\ LZ4_prepareTable(c, n, t) \in DictState /\ LZ4_prepareTable(c, n, t).dictSize = 0
         /\ LZ4_prepareTable(c, n, t).dictionary = NULL
<1> DEFINE d == IF c.table # "clearedTable" /\ MustReset(c, n, t) THEN ClearedCtx ELSE c
           o == IF d.currentOffset # 0 /\ t = "byU32" THEN d.currentOffset + KB64
                ELSE d.currentOffset
<1>1. d \in StreamState
  BY ClearedType, DictIsStream
<1>2. LZ4_prepareTable(c, n, t) =
        [d EXCEPT !.currentOffset = o, !.dictCtx = NoCtx, !.dictionary = NULL, !.dictSize = 0]
  BY DEF LZ4_prepareTable
<1> HIDE DEF d
<1>3. o \in Int
  BY <1>1, WindowType DEF StreamState, StateWith
<1> HIDE DEF o
<1>4. NULL \in Int
  BY SMT DEF NULL
<1>5. /\ d.hashTable \in [Slots -> Int] /\ d.table \in Tables
      /\ LZ4_prepareTable(c, n, t) =
           [hashTable |-> d.hashTable, currentOffset |-> o, table |-> d.table,
            dictCtx |-> NoCtx, dictionary |-> NULL, dictSize |-> 0]
  BY <1>1, <1>2 DEF StreamState, StateWith
<1>6. PICK table, kind : table = d.hashTable /\ kind = d.table
  OBVIOUS
<1>7. table \in [Slots -> Int] /\ kind \in Tables
  BY <1>5, <1>6
<1>8. LZ4_prepareTable(c, n, t) =
        [hashTable |-> table, currentOffset |-> o, table |-> kind,
         dictCtx |-> NoCtx, dictionary |-> NULL, dictSize |-> 0]
  BY <1>5, <1>6
<1>9. LZ4_prepareTable(c, n, t) \in DictState
  BY <1>3, <1>4, <1>7, <1>8 DEF DictState, StateWith
<1> QED
  BY <1>8, <1>9

\* The table of a dictionary: its entries are indexes of the dictionary.
LEMMA DictTableType ==
  ASSUME NEW t, NEW p, NEW n \in Nat, n <= KB64, NEW slow
  PROVE  DictTable(t, p, n, slow) \in [Slots -> {0} \cup (KB64 - n..KB64 - 8)]
<1> DEFINE With(h, k) == {DictIndex(n, i) :
                            i \in {j \in 0..n - HASH_UNIT : j % k = 0 /\ HashAt(t, p + j) = h}} \ {0}
           fast == [h \in Slots |-> IF With(h, 3) = {} THEN 0
                                    ELSE CHOOSE i \in With(h, 3) : \A j \in With(h, 3) : j <= i]
           all == [h \in Slots |-> IF fast[h] > 0 \/ With(h, 1) = {} THEN fast[h]
                                   ELSE CHOOSE i \in With(h, 1) : \A j \in With(h, 1) : i <= j]
           In == KB64 - n..KB64 - 8
<1>1. DictTable(t, p, n, slow) = IF ~slow THEN fast ELSE all
  BY DEF DictTable
<1>2. ASSUME NEW h, NEW k PROVE With(h, k) \subseteq In
  <2>1. ASSUME NEW x \in With(h, k) PROVE x \in In
    <3>1. PICK i \in 0..n - HASH_UNIT : x = DictIndex(n, i)
      BY <2>1
    <3>2. i \in Nat /\ i <= n - 8
      BY <3>1, SMT DEF HASH_UNIT
    <3>3. x = KB64 - n + i
      BY <3>1 DEF DictIndex
    <3> QED
      BY <3>2, <3>3, WindowType
  <2> HIDE DEF With, In
  <2> QED
    BY <2>1
<1>3. In \subseteq 0..KB64
  BY WindowType
<1> HIDE DEF With, In
<1>4. ASSUME NEW h, With(h, 3) # {}
      PROVE  (CHOOSE i \in With(h, 3) : \A j \in With(h, 3) : j <= i) \in In
  <2>1. \E i \in With(h, 3) : \A j \in With(h, 3) : j <= i
    <3>1. PICK S : S = With(h, 3)
      OBVIOUS
    <3>2. S \subseteq 0..KB64 /\ S # {}
      BY <1>2, <1>3, <1>4, <3>1
    <3>3. \E i \in S : \A j \in S : j <= i
      BY <3>2, GreatestExists, WindowType
    <3> QED
      BY <3>1, <3>3
  <2>2. (CHOOSE i \in With(h, 3) : \A j \in With(h, 3) : j <= i) \in With(h, 3)
    BY <2>1
  <2> QED
    BY <1>2, <2>2
<1>5. ASSUME NEW h, With(h, 1) # {}
      PROVE  (CHOOSE i \in With(h, 1) : \A j \in With(h, 1) : i <= j) \in In
  <2>1. \E i \in With(h, 1) : \A j \in With(h, 1) : i <= j
    <3>1. PICK S : S = With(h, 1)
      OBVIOUS
    <3>2. S \subseteq Nat /\ S # {}
      <4>1. S \subseteq 0..KB64 /\ S # {}
        BY <1>2, <1>3, <1>5, <3>1
      <4> QED
        BY <4>1, WindowType
    <3>3. PICK m \in S : TRUE
      BY <3>2
    <3>4. \E i \in S : \A j \in S : i <= j
      BY <3>2, <3>3, LeastExists
    <3> QED
      BY <3>1, <3>4
  <2>2. (CHOOSE i \in With(h, 1) : \A j \in With(h, 1) : i <= j) \in With(h, 1)
    BY <2>1
  <2> QED
    BY <1>2, <2>2
<1>6. fast \in [Slots -> {0} \cup In]
  BY <1>4
<1> HIDE DEF fast
<1>7. all \in [Slots -> {0} \cup In]
  BY <1>5, <1>6
<1> HIDE DEF all
<1> QED
  BY <1>1, <1>6, <1>7 DEF In

\* The part of a memory of n bytes that the state c takes for its history.
HistoryIn(c, n) == c.dictSize = 0 \/ (0 <= c.dictionary /\ c.dictionary + c.dictSize <= n)

\* A dictionary that is loaded.
LEMMA LoadedType ==
  ASSUME NEW t, NEW size \in Nat, NEW slow
  PROVE  LET loaded == LZ4_loadDict(t, 0, size, slow)
         IN  /\ loaded \in DictState /\ HistoryIn(loaded, size) /\ loaded.currentOffset = KB64
             /\ loaded.dictionary + loaded.dictSize <= size
             /\ \/ loaded.dictSize = 0 /\ \A h \in Slots : loaded.hashTable[h] = 0
                \/ /\ loaded.dictSize <= KB64
                   /\ loaded.hashTable \in [Slots -> {0} \cup (KB64 - loaded.dictSize..KB64 - 8)]
<1> DEFINE n == MinOf(size, KB64)
           p == 0 + size - n
           table == DictTable(t, p, n, slow)
           loaded == LZ4_loadDict(t, 0, size, slow)
<1>1. n \in Nat /\ n <= KB64 /\ n <= size
  BY WindowType DEF MinOf
<1>2. p \in Nat /\ p + n = size
  BY <1>1
<1>3. PICK In : In = {0} \cup (KB64 - n..KB64 - 8)
  OBVIOUS
<1>4. table \in [Slots -> In] /\ In \subseteq Int
  BY <1>1, <1>3, DictTableType, WindowType
<1>5. loaded = IF size < HASH_UNIT THEN [ClearedCtx EXCEPT !.currentOffset = KB64]
               ELSE [ClearedCtx EXCEPT !.currentOffset = KB64, !.dictionary = p, !.dictSize = n,
                                       !.table = "byU32", !.hashTable = table]
  BY DEF LZ4_loadDict
<1> HIDE DEF n, p, table, loaded
<1>6. CASE size < HASH_UNIT
  <2>1. loaded = [ClearedCtx EXCEPT !.currentOffset = KB64]
    BY <1>5, <1>6
  <2>2. loaded \in DictState /\ loaded.dictSize = 0 /\ loaded.currentOffset = KB64
    BY <2>1, ClearedType, WindowType DEF DictState, StateWith
  <2>3. loaded.dictionary = NULL /\ \A h \in Slots : loaded.hashTable[h] = 0
    BY <2>1 DEF ClearedCtx
  <2>4. NULL + 0 <= size
    BY SMT DEF NULL
  <2> QED
    BY <2>2, <2>3, <2>4 DEF loaded, HistoryIn
<1>7. CASE ~(size < HASH_UNIT)
  <2>1. loaded = [ClearedCtx EXCEPT !.currentOffset = KB64, !.dictionary = p, !.dictSize = n,
                                    !.table = "byU32", !.hashTable = table]
    BY <1>5, <1>7
  <2>2. loaded = [hashTable |-> table, currentOffset |-> KB64, table |-> "byU32",
                  dictCtx |-> NoCtx, dictionary |-> p, dictSize |-> n]
    BY <2>1 DEF ClearedCtx
  <2>3. loaded \in DictState
    <3>1. table \in [Slots -> Int]
      BY ONLY <1>4
    <3>2. p \in Int /\ "byU32" \in Tables
      BY <1>2 DEF Tables
    <3> QED
      BY <2>2, <1>1, <3>1, <3>2, WindowType DEF DictState, StateWith
  <2>4. /\ loaded.dictSize = n /\ loaded.dictionary = p /\ loaded.currentOffset = KB64
        /\ loaded.hashTable = table
    BY <2>2
  <2> QED
    BY <2>3, <2>4, <1>1, <1>2, <1>3, <1>4 DEF loaded, HistoryIn
<1> QED
  BY <1>6, <1>7

\* A state with a dictionary attached to it.
LEMMA AttachedType ==
  ASSUME NEW c \in StreamState, NEW d \in DictState
  PROVE  /\ LZ4_attach_dictionary(c, d) \in StreamState
         /\ LZ4_attach_dictionary(c, d).dictSize = c.dictSize
         /\ LZ4_attach_dictionary(c, d).dictionary = c.dictionary
         /\ LZ4_attach_dictionary(c, d).dictCtx = IF d.dictSize = 0 THEN NoCtx ELSE d
<1> DEFINE o == IF c.currentOffset = 0 THEN KB64 ELSE c.currentOffset
           e == IF d.dictSize = 0 THEN NoCtx ELSE d
<1>1. LZ4_attach_dictionary(c, d) = [c EXCEPT !.currentOffset = o, !.dictCtx = e]
  BY DEF LZ4_attach_dictionary
<1>2. e \in {NoCtx} \cup DictState
  OBVIOUS
<1>3. o \in Int
  BY WindowType DEF StreamState, StateWith
<1> HIDE DEF o, e
<1>4. PICK Ctxs : Ctxs = {NoCtx} \cup DictState
  OBVIOUS
<1>5. e \in Ctxs /\ c \in StateWith(Ctxs) /\ StreamState = StateWith(Ctxs)
  BY <1>2, <1>4 DEF StreamState
<1>6. LZ4_attach_dictionary(c, d) \in StateWith(Ctxs)
  BY <1>1, <1>3, <1>5 DEF StateWith
<1>7. /\ LZ4_attach_dictionary(c, d).dictSize = c.dictSize
      /\ LZ4_attach_dictionary(c, d).dictionary = c.dictionary
      /\ LZ4_attach_dictionary(c, d).dictCtx = e
  BY <1>1, <1>5 DEF StateWith
<1> QED
  BY <1>5, <1>6, <1>7 DEF e

\* The state c with the n bytes at the address p as its history.
WithHistory(c, p, n) == [c EXCEPT !.dictionary = p, !.dictSize = n]

\* It is a state.
LEMMA WithHistoryType ==
  ASSUME NEW c \in StreamState, NEW p \in Int, NEW n \in Nat
  PROVE  /\ WithHistory(c, p, n) \in StreamState
         /\ WithHistory(c, p, n).dictCtx = c.dictCtx
         /\ WithHistory(c, p, n).dictionary = p /\ WithHistory(c, p, n).dictSize = n
<1>1. PICK Ctxs : Ctxs = {NoCtx} \cup DictState
  OBVIOUS
<1>2. c \in StateWith(Ctxs) /\ StreamState = StateWith(Ctxs)
  BY <1>1 DEF StreamState
<1> QED
  BY <1>2 DEF StateWith, WithHistory

\* The indexes that start over: the history ends where it did.
LEMMA RenormType ==
  ASSUME NEW c \in StreamState, NEW n
  PROVE  LET new == LZ4_renormDictT(c, n)
         IN  /\ new \in StreamState /\ new.dictCtx = c.dictCtx
             /\ new.dictSize <= c.dictSize /\ (new.dictSize = 0 => c.dictSize = 0)
             /\ new.dictionary + new.dictSize = c.dictionary + c.dictSize
<1> DEFINE delta == c.currentOffset - KB64
           kept == MinOf(c.dictSize, KB64)
           table == [h \in Slots |-> MaxOf(0, c.hashTable[h] - delta)]
           moved == [c EXCEPT !.hashTable = table, !.currentOffset = KB64, !.dictSize = kept,
                              !.dictionary = @ + c.dictSize - kept]
<1>1. PICK Ctxs : Ctxs = {NoCtx} \cup DictState
  OBVIOUS
<1>2. c \in StateWith(Ctxs) /\ StreamState = StateWith(Ctxs)
  BY <1>1 DEF StreamState
<1>3. c.dictSize \in Nat /\ c.dictionary \in Int /\ c.currentOffset \in Int /\ c.hashTable \in [Slots -> Int]
  BY <1>2 DEF StateWith
<1>4. LZ4_renormDictT(c, n) = IF c.currentOffset + n <= TwoGB THEN c ELSE moved
  BY DEF LZ4_renormDictT
<1>5. kept \in Nat /\ kept <= c.dictSize /\ (kept = 0 => c.dictSize = 0)
  BY <1>3, WindowType DEF MinOf
<1>6. delta \in Int
  BY <1>3, WindowType
<1>7. table \in [Slots -> Int]
  BY <1>3, <1>6 DEF MaxOf
<1> HIDE DEF delta, kept, table
<1>8. PICK p, e, t : p = c.dictionary + c.dictSize - kept /\ e = c.dictCtx /\ t = c.table
  OBVIOUS
<1>9. p \in Int /\ e \in Ctxs /\ t \in Tables
  BY <1>2, <1>3, <1>5, <1>8 DEF StateWith
<1>10. moved = [hashTable |-> table, currentOffset |-> KB64, table |-> t, dictCtx |-> e,
                dictionary |-> p, dictSize |-> kept]
  <2>1. moved = [c EXCEPT !.hashTable = table, !.currentOffset = KB64, !.dictSize = kept,
                          !.dictionary = p]
    <3>1. c.dictionary + c.dictSize - kept = p
      BY <1>8
    <3> QED
      BY <3>1
  <2> HIDE DEF moved
  <2> QED
    BY <2>1, <1>2, <1>8 DEF StateWith
<1> HIDE DEF moved
<1>11. moved \in StateWith(Ctxs)
  BY <1>5, <1>7, <1>9, <1>10, WindowType DEF StateWith
<1>12. moved.dictCtx = e /\ moved.dictSize = kept /\ moved.dictionary = p
  BY <1>10
<1> QED
  BY <1>2, <1>3, <1>4, <1>5, <1>8, <1>11, <1>12

\* What a source leaves of a dictionary.
LEMMA OverlapType ==
  ASSUME NEW c \in StreamState, NEW srcEnd \in Int, NEW end \in Int
  PROVE  LET new == WithoutOverlap(c, srcEnd, end)
         IN  /\ new \in StreamState /\ new.dictCtx = c.dictCtx
             /\ srcEnd >= end => new = c
<1> DEFINE left == MinOf(end - srcEnd, KB64)
           n == IF left < 4 THEN 0 ELSE left
<1>1. n \in Nat
  BY WindowType DEF MinOf
<1>2. WithoutOverlap(c, srcEnd, end) =
        IF srcEnd > c.dictionary /\ srcEnd < end
        THEN [c EXCEPT !.dictSize = n, !.dictionary = end - n] ELSE c
  BY DEF WithoutOverlap
<1> HIDE DEF n
<1>3. end - n \in Int
  BY <1>1
<1>4. PICK p, m : p = end - n /\ m = n
  OBVIOUS
<1>5. p \in Int /\ m \in Nat
  BY <1>1, <1>3, <1>4
<1>6. WithHistory(c, p, m) \in StreamState /\ WithHistory(c, p, m).dictCtx = c.dictCtx
  BY <1>5, WithHistoryType
<1>7. WithHistory(c, p, m) = [c EXCEPT !.dictSize = m, !.dictionary = p]
  <2>1. PICK Ctxs : Ctxs = {NoCtx} \cup DictState
    OBVIOUS
  <2>2. c \in StateWith(Ctxs)
    BY <2>1 DEF StreamState
  <2> QED
    BY ONLY <2>2 DEF StateWith, WithHistory
<1>8. PICK w, v : w = WithHistory(c, p, m) /\ v = WithoutOverlap(c, srcEnd, end)
  OBVIOUS
<1>9. [c EXCEPT !.dictSize = n, !.dictionary = end - n] = w
  BY <1>4, <1>7, <1>8
<1>10. v = IF srcEnd > c.dictionary /\ srcEnd < end THEN w ELSE c
  BY <1>2, <1>8, <1>9
<1>11. srcEnd >= end => v = c
  BY <1>10
<1>12. v \in StreamState /\ v.dictCtx = c.dictCtx
  BY <1>6, <1>8, <1>10
<1> QED
  BY <1>8, <1>11, <1>12

\* The acceleration the compressor is given is positive.
LEMMA ClampedType ==
  ASSUME NEW a \in Int
  PROVE  Clamped(a) \in Nat /\ Clamped(a) >= 1
<1>1. PICK m : m = LZ4_ACCELERATION_MAX
  OBVIOUS
<1>2. m \in Nat
  BY <1>1, SMT DEF LZ4_ACCELERATION_MAX
<1>3. Clamped(a) = MaxOf(1, MinOf(a, m))
  BY <1>1 DEF Clamped
<1> QED
  BY <1>2, <1>3 DEF MaxOf, MinOf

---------------------------------------------------------------------------
(* The functions that start a call.                                        *)

\* The arguments of a one-shot call.
LEMMA OneShotArguments ==
  ASSUME NEW c \in StreamState, NEW r, r.size \in Int, r.capacity \in Int, NEW len,
         r.size \in 0..LZ4_MAX_INPUT_SIZE => r.size <= len,
         NEW output \in Outputs,
         output = "notLimited" => r.capacity >= LZ4_compressBound(r.size),
         NEW small, NEW a \in Nat, a >= 1
  PROVE  GoodArguments(c, WithOutput(r, output, small, a), len)
<1> DEFINE w == WithOutput(r, output, small, a)
<1>1. /\ w.source = 0 /\ w.size = r.size /\ w.capacity = r.capacity /\ w.output = output
      /\ w.table = TableType(r.size) /\ w.dict = "noDict" /\ w.acceleration = a
  BY DEF WithOutput
<1> HIDE DEF w
<1>2. TableType(r.size) \in Tables
  BY DEF TableType, Tables
<1>3. r.size \in 0..LZ4_MAX_INPUT_SIZE => 0 + r.size <= len
  BY MaxInputType
<1> QED
  BY <1>1, <1>2, <1>3 DEF GoodArguments, w

\* A call of LZ4_compress_fast_extState.
LEMMA ExtStateKeeps ==
  ASSUME NEW r, r.size \in Int, r.capacity \in Int, r.acceleration \in Int,
         text' \in Seq(Byte), r.size \in 0..LZ4_MAX_INPUT_SIZE => r.size <= Len(text'),
         LZ4_compress_fast_extState(r)
  PROVE  EngineInv'
<1>1. PICK w : w = WithOutput(r, FastOutput(r), FALSE, Clamped(r.acceleration))
  OBVIOUS
<1>2. FastOutput(r) \in Outputs /\ (FastOutput(r) = "notLimited" => r.capacity >= LZ4_compressBound(r.size))
  BY DEF FastOutput, Outputs
<1>3. Clamped(r.acceleration) \in Nat /\ Clamped(r.acceleration) >= 1
  BY ClampedType
<1>4. ClearedCtx \in StreamState
  BY ClearedType, DictIsStream
<1>5. PICK len : len = Len(text')
  OBVIOUS
<1>6. PICK output, a : output = FastOutput(r) /\ a = Clamped(r.acceleration)
  OBVIOUS
<1>7. GoodArguments(ClearedCtx, WithOutput(r, output, FALSE, a), len)
  BY <1>2, <1>3, <1>4, <1>5, <1>6, OneShotArguments
<1>8. GoodArguments(ClearedCtx, w, Len(text'))
  BY <1>1, <1>5, <1>6, <1>7
<1>9. LZ4_compress_generic(ClearedCtx, w)
  BY <1>1 DEF LZ4_compress_fast_extState
<1> QED
  BY <1>8, <1>9, StartKeeps

\* A call of its _fastReset variant.
LEMMA FastResetKeeps ==
  ASSUME ctx \in StreamState, NEW r, r.size \in Int, r.capacity \in Int, r.acceleration \in Int,
         text' \in Seq(Byte), r.size \in 0..LZ4_MAX_INPUT_SIZE => r.size <= Len(text'),
         LZ4_compress_fast_extState_fastReset(r)
  PROVE  EngineInv'
<1>1. PICK c : c = LZ4_prepareTable(ctx, r.size, TableType(r.size))
  OBVIOUS
<1>2. c \in StreamState
  <2>1. PICK d, t : d = ctx /\ t = TableType(r.size)
    OBVIOUS
  <2>2. LZ4_prepareTable(d, r.size, t) \in DictState
    BY <2>1, PreparedType
  <2> QED
    BY <1>1, <2>1, <2>2, DictIsStream
<1>3. PICK output, small, a : /\ output = FastOutput(r) /\ small = KeepsEntries(c, r)
                              /\ a = Clamped(r.acceleration)
  OBVIOUS
<1>4. output \in Outputs /\ (output = "notLimited" => r.capacity >= LZ4_compressBound(r.size))
  BY <1>3 DEF FastOutput, Outputs
<1>5. a \in Nat /\ a >= 1
  BY <1>3, ClampedType
<1>6. PICK w, len : w = WithOutput(r, output, small, a) /\ len = Len(text')
  OBVIOUS
<1>7. GoodArguments(c, w, len)
  BY <1>2, <1>4, <1>5, <1>6, OneShotArguments
<1>8. GoodArguments(c, w, Len(text'))
  BY <1>6, <1>7
<1>9. LZ4_compress_generic(c, w)
  BY <1>1, <1>3, <1>6 DEF LZ4_compress_fast_extState_fastReset
<1> QED
  BY <1>8, <1>9, StartKeeps

\* A call of LZ4_compress_destSize, with an acceleration.
LEMMA DestSizeKeeps ==
  ASSUME NEW r, r.size \in Int, r.capacity \in Int, NEW a \in Nat, a >= 1,
         r \in [fn : STRING, text : Seq(Byte), size : Int, capacity : Int, acceleration : Int,
                calls : Nat],
         text' \in Seq(Byte), r.size \in 0..LZ4_MAX_INPUT_SIZE => r.size <= Len(text'),
         LZ4_compress_destSize(r, a)
  PROVE  EngineInv'
<1>1. CASE r.capacity >= LZ4_compressBound(r.size)
  <2>1. PICK q : q = [r EXCEPT !.acceleration = a]
    OBVIOUS
  <2>2. q.size = r.size /\ q.capacity = r.capacity /\ q.acceleration = a
    BY <2>1
  <2>3. LZ4_compress_fast_extState(q)
    BY <1>1, <2>1 DEF LZ4_compress_destSize
  <2> QED
    BY <2>2, <2>3, ExtStateKeeps
<1>2. CASE ~(r.capacity >= LZ4_compressBound(r.size))
  <2>1. PICK w, len : w = WithOutput(r, "fillOutput", FALSE, a) /\ len = Len(text')
    OBVIOUS
  <2>2. GoodArguments(ClearedCtx, w, len)
    <3>1. PICK output : output = "fillOutput"
      OBVIOUS
    <3>2. output \in Outputs /\ output # "notLimited"
      BY <3>1 DEF Outputs
    <3>3. ClearedCtx \in StreamState
      BY ClearedType, DictIsStream
    <3>4. GoodArguments(ClearedCtx, WithOutput(r, output, FALSE, a), len)
      BY <3>2, <3>3, <2>1, OneShotArguments
    <3> QED
      BY <2>1, <3>1, <3>4
  <2>3. GoodArguments(ClearedCtx, w, Len(text')) /\ LZ4_compress_generic(ClearedCtx, w)
    BY <1>2, <2>1, <2>2 DEF LZ4_compress_destSize
  <2> QED
    BY <2>3, StartKeeps
<1> QED
  BY <1>1, <1>2

\* Any one-shot call.
LEMMA CallKeeps ==
  ASSUME ctx \in StreamState, NEW r \in Requests, Call(r)
  PROVE  EngineInv' /\ onExit' # "rebase"
<1>1. /\ r \in [fn : STRING, text : Seq(Byte), size : Int, capacity : Int, acceleration : Int,
                calls : Nat]
      /\ r.size \in 0..LZ4_MAX_INPUT_SIZE => r.size <= Len(r.text)
      /\ r.fn = "destSize_extState" => r.acceleration >= 1
  BY RequestsAssumption
<1>2. r.size \in Int /\ r.capacity \in Int /\ r.acceleration \in Int /\ r.text \in Seq(Byte)
  BY <1>1
<1>3. text' = r.text
  BY DEF Call
<1>4. text' \in Seq(Byte) /\ (r.size \in 0..LZ4_MAX_INPUT_SIZE => r.size <= Len(text'))
  BY <1>1, <1>2, <1>3
<1>5. \/ LZ4_compress_fast_extState(r)
      \/ LZ4_compress_fast_extState_fastReset(r)
      \/ LZ4_compress_destSize(r, 1)
      \/ r.fn = "destSize_extState" /\ LZ4_compress_destSize(r, r.acceleration)
  BY DEF Call
<1>6. onExit' # "rebase"
  BY DEF Call
<1>7. CASE LZ4_compress_fast_extState(r)
  BY <1>2, <1>4, <1>6, <1>7, ExtStateKeeps
<1>8. CASE LZ4_compress_fast_extState_fastReset(r)
  BY <1>2, <1>4, <1>6, <1>8, FastResetKeeps
<1>9. CASE LZ4_compress_destSize(r, 1)
  BY <1>1, <1>2, <1>4, <1>6, <1>9, DestSizeKeeps
<1>10. CASE r.fn = "destSize_extState" /\ LZ4_compress_destSize(r, r.acceleration)
  <2>1. PICK a : a = r.acceleration
    OBVIOUS
  <2>2. a \in Nat /\ a >= 1
    BY <1>1, <1>2, <1>10, <2>1
  <2>3. LZ4_compress_destSize(r, a)
    BY <1>10, <2>1
  <2> QED
    BY <1>1, <1>2, <1>4, <1>6, <2>2, <2>3, DestSizeKeeps
<1> QED
  BY <1>5, <1>7, <1>8, <1>9, <1>10

\* The arguments of a call for a block of a stream.
LEMMA BlockArguments ==
  ASSUME NEW c \in StreamState, NEW src \in Nat, NEW n \in Nat, NEW capacity \in Int,
         NEW dict, NEW small, NEW acceleration \in Int, NEW len, src + n <= len,
         dict = "usingDictCtx" => c.dictCtx \in DictState
  PROVE  /\ GoodArguments(c, BlockOf(src, n, capacity, dict, small, acceleration), len)
         /\ BlockOf(src, n, capacity, dict, small, acceleration).source = src
         /\ BlockOf(src, n, capacity, dict, small, acceleration).size = n
         /\ BlockOf(src, n, capacity, dict, small, acceleration).dict = dict
<1> DEFINE w == BlockOf(src, n, capacity, dict, small, acceleration)
<1>1. /\ w.source = src /\ w.size = n /\ w.capacity = capacity /\ w.output = "limitedOutput"
      /\ w.table = "byU32" /\ w.dict = dict /\ w.acceleration = Clamped(acceleration)
  BY DEF BlockOf
<1> HIDE DEF w
<1>2. Clamped(acceleration) \in Nat /\ Clamped(acceleration) >= 1
  BY ClampedType
<1>3. GoodArguments(c, w, len)
  BY <1>1, <1>2 DEF GoodArguments, Outputs, Tables
<1> QED
  BY <1>1, <1>3 DEF w

\* A call of LZ4_compress_forceExtDict.
LEMMA ForceKeeps ==
  ASSUME ctx \in StreamState, NEW src \in Nat, NEW n \in Nat,
         text' \in Seq(Byte), src + n <= Len(text'), LZ4_compress_forceExtDict(src, n)
  PROVE  EngineInv' /\ call'.source = src /\ call'.size = n /\ onExit' = "rebase"
<1>1. PICK c, len, b, w :
        /\ c = LZ4_renormDictT(ctx, n) /\ len = Len(text')
        /\ b = BlockOf(src, n, LZ4_compressBound(n), "usingExtDict", DictSmall(c), 1)
        /\ w = [b EXCEPT !.output = "notLimited"]
  OBVIOUS
<1>2. LZ4_compress_generic(c, w) /\ onExit' = "rebase"
  BY <1>1 DEF LZ4_compress_forceExtDict
<1>3. c \in StreamState
  <2>1. PICK d : d = ctx
    OBVIOUS
  <2>2. LZ4_renormDictT(d, n) \in StreamState
    BY <2>1, RenormType
  <2> QED
    BY <1>1, <2>1, <2>2
<1>4. /\ w.source = src /\ w.size = n /\ w.capacity = LZ4_compressBound(n) /\ w.output = "notLimited"
      /\ w.table = "byU32" /\ w.dict = "usingExtDict" /\ w.acceleration = Clamped(1)
  BY <1>1 DEF BlockOf
<1>5. Clamped(1) \in Nat /\ Clamped(1) >= 1 /\ LZ4_compressBound(n) \in Int
  BY ClampedType, CompressBoundType
<1>6. src + n <= len
  BY <1>1
<1>7. GoodArguments(c, w, len)
  BY <1>3, <1>4, <1>5, <1>6 DEF GoodArguments, Outputs, Tables
<1>8. GoodArguments(c, w, Len(text'))
  BY <1>1, <1>7
<1> QED
  BY <1>2, <1>4, <1>8, StartKeeps

\* A call of LZ4_compress_fast_continue: the history of the stream is in its
\* memory again, now or when the block becomes the history.
LEMMA ContinueKeeps ==
  ASSUME ctx \in StreamState, NEW src \in Nat, NEW n \in Nat, NEW capacity \in Int,
         NEW acceleration \in Int, text' \in Seq(Byte), src + n <= Len(text'),
         HistoryIn(ctx, Len(text')),
         LZ4_compress_fast_continue(src, n, capacity, acceleration)
  PROVE  /\ EngineInv' /\ call'.source = src /\ call'.size = n
         /\ onExit' = "rebase" \/ (onExit' = "return" /\ HistoryIn(ctx', Len(text')))
<1>1. PICK given, before, old, tiny, new, end, c, len :
        /\ given = ctx /\ len = Len(text')
        /\ before = IF given.dictSize = 0 THEN NULL ELSE given.dictionary + given.dictSize
        /\ old = LZ4_renormDictT(given, n)
        /\ tiny = Tiny(old, src, n, before)
        /\ new = IF tiny THEN [old EXCEPT !.dictSize = 0, !.dictionary = src] ELSE old
        /\ end = IF tiny THEN src ELSE before
        /\ c = WithoutOverlap(new, src + n, end)
  OBVIOUS
<1>2. \/ /\ end = src
         /\ LZ4_compress_generic(c, BlockOf(src, n, capacity, "withPrefix64k", DictSmall(c), acceleration))
         /\ onExit' = "return"
      \/ /\ onExit' = "rebase"
         /\ \/ LZ4_compress_generic(c, BlockOf(src, n, capacity, "usingExtDict", DictSmall(c), acceleration))
            \/ /\ c.dictCtx # NoCtx
               /\ LZ4_compress_generic(c.dictCtx, BlockOf(src, n, capacity, "usingExtDict", FALSE, acceleration))
            \/ /\ c.dictCtx # NoCtx
               /\ LZ4_compress_generic(c, BlockOf(src, n, capacity, "usingDictCtx", FALSE, acceleration))
  BY <1>1 DEF LZ4_compress_fast_continue
<1>3. given \in StreamState /\ HistoryIn(given, len) /\ len \in Nat /\ src + n <= len
  BY <1>1, LenProperties
<1>4. given.dictionary \in Int /\ given.dictSize \in Nat
  BY <1>3 DEF StreamState, StateWith
<1>5. /\ old \in StreamState /\ old.dictSize <= given.dictSize
      /\ (old.dictSize = 0 => given.dictSize = 0)
      /\ old.dictionary + old.dictSize = given.dictionary + given.dictSize
  BY <1>1, <1>3, RenormType
<1>6. old.dictionary \in Int /\ old.dictSize \in Nat
  BY <1>5 DEF StreamState, StateWith
<1>7. NULL \in Int /\ NULL < 0
  BY SMT DEF NULL
<1>8. before \in Int /\ end \in Int
  BY <1>1, <1>4, <1>7
<1>9. /\ new \in StreamState
      /\ tiny => new.dictSize = 0 /\ new.dictionary = src
      /\ ~tiny => new = old
  <2>1. PICK w : w = WithHistory(old, src, 0)
    OBVIOUS
  <2>2. w \in StreamState /\ w.dictionary = src /\ w.dictSize = 0
    BY <2>1, <1>5, WithHistoryType
  <2>3. [old EXCEPT !.dictSize = 0, !.dictionary = src] = w
    <3>1. PICK Ctxs : Ctxs = {NoCtx} \cup DictState
      OBVIOUS
    <3>2. old \in StateWith(Ctxs)
      BY <1>5, <3>1 DEF StreamState
    <3> QED
      BY ONLY <2>1, <3>2 DEF StateWith, WithHistory
  <2>4. new = IF tiny THEN w ELSE old
    BY <1>1, <2>3
  <2> QED
    BY <1>5, <2>2, <2>4
<1>10. c \in StreamState /\ (src + n >= end => c = new)
  <2>1. PICK e : e = src + n
    OBVIOUS
  <2>2. c = WithoutOverlap(new, e, end) /\ e \in Int /\ end \in Int /\ new \in StreamState
    BY <1>1, <1>8, <1>9, <2>1
  <2>3. c \in StreamState /\ (e >= end => c = new)
    BY <2>2, OverlapType
  <2> QED
    BY <2>1, <2>3
<1>11. c.dictCtx # NoCtx => c.dictCtx \in DictState
  BY <1>10 DEF StreamState, StateWith
<1>12. CASE /\ end = src
            /\ LZ4_compress_generic(c, BlockOf(src, n, capacity, "withPrefix64k", DictSmall(c), acceleration))
            /\ onExit' = "return"
  <2>1. PICK w, dict, small :
          /\ w = BlockOf(src, n, capacity, dict, small, acceleration)
          /\ dict = "withPrefix64k" /\ small = DictSmall(c)
    OBVIOUS
  <2>2. GoodArguments(c, w, len) /\ w.source = src /\ w.size = n /\ w.dict = dict
    <3>1. dict = "usingDictCtx" => c.dictCtx \in DictState
      BY <2>1
    <3>2. GoodArguments(c, BlockOf(src, n, capacity, dict, small, acceleration), len)
      BY ONLY <1>3, <1>10, <3>1, BlockArguments, src \in Nat, n \in Nat, capacity \in Int,
              acceleration \in Int
    <3>3. w.source = src /\ w.size = n /\ w.dict = dict
      BY <2>1 DEF BlockOf
    <3> QED
      BY <2>1, <3>2, <3>3
  <2>3. GoodArguments(c, w, Len(text')) /\ LZ4_compress_generic(c, w)
    BY <1>1, <1>12, <2>1, <2>2
  <2>4. EngineInv' /\ call'.source = src /\ call'.size = n /\ Extends(c, w, ctx')
    BY <2>2, <2>3, StartKeeps
  <2>5. /\ ctx'.dictionary = c.dictionary
        /\ ctx'.dictSize = c.dictSize \/ ctx'.dictSize = c.dictSize + n
    BY <2>1, <2>2, <2>4 DEF Extends
  <2>6. c = new
    BY <1>10, <1>12
  <2>7. c.dictionary \in Int /\ c.dictSize \in Nat
    BY <1>10 DEF StreamState, StateWith
  <2>8. 0 <= c.dictionary /\ c.dictionary + c.dictSize = src
    <3>1. CASE tiny
      BY <1>9, <2>6, <3>1
    <3>2. CASE ~tiny
      <4>1. before = src /\ c = old
        BY <1>1, <1>9, <1>12, <2>6, <3>2
      <4>2. given.dictSize # 0 /\ given.dictionary + given.dictSize = src
        BY <1>1, <1>7, <4>1
      <4>3. 0 <= given.dictionary
        BY <1>3, <4>2 DEF HistoryIn
      <4> QED
        BY <1>4, <1>5, <1>6, <4>1, <4>2, <4>3, SMTT(20)
    <3> QED
      BY <3>1, <3>2
  <2>9. HistoryIn(ctx', len)
    BY <1>3, <2>5, <2>7, <2>8 DEF HistoryIn
  <2> QED
    BY <1>1, <1>12, <2>4, <2>9
<1>13. ASSUME NEW d \in StreamState, NEW dict, NEW small,
              dict = "usingDictCtx" => d.dictCtx \in DictState,
              LZ4_compress_generic(d, BlockOf(src, n, capacity, dict, small, acceleration))
       PROVE  EngineInv' /\ call'.source = src /\ call'.size = n
  <2>1. PICK w : w = BlockOf(src, n, capacity, dict, small, acceleration)
    OBVIOUS
  <2>2. GoodArguments(d, w, len) /\ w.source = src /\ w.size = n
    BY <1>3, <1>13, <2>1, BlockArguments
  <2>3. GoodArguments(d, w, Len(text')) /\ LZ4_compress_generic(d, w)
    BY <1>1, <1>13, <2>1, <2>2
  <2> QED
    BY <2>2, <2>3, StartKeeps
<1>14. CASE LZ4_compress_generic(c, BlockOf(src, n, capacity, "usingExtDict", DictSmall(c), acceleration))
  <2>1. PICK dict, small : dict = "usingExtDict" /\ small = DictSmall(c)
    OBVIOUS
  <2>2. EngineInv' /\ call'.source = src /\ call'.size = n
    BY <1>10, <1>13, <1>14, <2>1
  <2> QED
    BY <1>2, <1>12, <2>2
<1>15. CASE /\ c.dictCtx # NoCtx
            /\ LZ4_compress_generic(c.dictCtx, BlockOf(src, n, capacity, "usingExtDict", FALSE, acceleration))
  <2>1. PICK dict, d : dict = "usingExtDict" /\ d = c.dictCtx
    OBVIOUS
  <2>2. d \in StreamState
    BY <1>11, <1>15, <2>1, DictIsStream
  <2>3. EngineInv' /\ call'.source = src /\ call'.size = n
    BY <1>13, <1>15, <2>1, <2>2
  <2> QED
    BY <1>2, <1>12, <2>3
<1>16. CASE /\ c.dictCtx # NoCtx
            /\ LZ4_compress_generic(c, BlockOf(src, n, capacity, "usingDictCtx", FALSE, acceleration))
  <2>1. PICK dict : dict = "usingDictCtx"
    OBVIOUS
  <2>2. EngineInv' /\ call'.source = src /\ call'.size = n
    BY <1>10, <1>11, <1>13, <1>16, <2>1
  <2> QED
    BY <1>2, <1>12, <2>2
<1> QED
  BY <1>2, <1>12, <1>14, <1>15, <1>16

\* The steps of a call leave the history where it is.
LEMMA StepKeepsHistory ==
  ASSUME ctx \in StreamState, CompressStep
  PROVE  /\ ctx'.dictionary = ctx.dictionary /\ ctx'.dictSize = ctx.dictSize
         /\ ctx'.dictCtx = ctx.dictCtx
<1>1. CASE FirstByte
  BY <1>1 DEF FirstByte, StreamState, StateWith
<1>2. CASE FindMatch
  BY <1>2 DEF FindMatch, StreamState, StateWith
<1>3. CASE EncodeLiterals
  BY <1>3 DEF EncodeLiterals
<1>4. CASE EncodeMatch
  BY <1>4 DEF EncodeMatch, StreamState, StateWith
<1>5. CASE TestNext
  BY <1>5 DEF TestNext, StreamState, StateWith
<1>6. CASE EncodeLastLiterals
  BY <1>6 DEF EncodeLastLiterals
<1> QED
  BY <1>1, <1>2, <1>3, <1>4, <1>5, <1>6 DEF CompressStep

---------------------------------------------------------------------------
(* Streams.                                                                *)

\* The sender's memory holds the buffer of the session.
BufferThere == session # NoSession => session \in Sessions /\ Len(text) = BufferAt + session.size

\* The block of a call that is to be the history is in the memory.
BlockThere == onExit = "rebase" => call.size \in Nat /\ source + call.size <= Len(text)

\* Between the calls of a stream the history is in the memory.
HistoryThere == session # NoSession /\ onExit = "return" => HistoryIn(ctx, Len(text))

SessionInv == EngineInv /\ next \in Nat /\ BufferThere /\ BlockThere /\ HistoryThere

\* Between calls, the memory and the state may be replaced.
LEMMA IdleKeeps ==
  ASSUME EngineInv, pc = "idle", UNCHANGED engine, text' \in Seq(Byte), ctx' \in StreamState
  PROVE  EngineInv'
<1>1. /\ call' = call /\ ip' = ip /\ forwardIp' = forwardIp /\ step' = step
      /\ searchMatchNb' = searchMatchNb /\ anchor' = anchor /\ match' = match /\ offset' = offset
      /\ lowLimit' = lowLimit /\ out' = out /\ token' = token /\ reach' = reach
      /\ inputConsumed' = inputConsumed /\ pc' = pc /\ result' = result
  BY DEF engine, search, found
<1>2. CallTyped'
  BY <1>1, SameCall DEF EngineInv, Typed
<1>3. Typed'
  BY <1>1, <1>2 DEF EngineInv, Typed
<1>4. source' = source /\ op' = op
  BY <1>1, SameCall DEF op
<1>5. RoomLeft'
  BY <1>1, <1>4 DEF EngineInv, RoomLeft
<1>6. FillsUp <=> FillsUp'
  BY <1>1, <1>4 DEF FillsUp
<1> QED
  BY <1>1, <1>3, <1>5, <1>6 DEF EngineInv

\* A step that does nothing to the sender.
LEMMA OtherKeeps ==
  ASSUME SessionInv, UNCHANGED <<vars, session, next>>
  PROVE  SessionInv'
<1>1. /\ text' = text /\ ctx' = ctx /\ engine' = engine /\ onExit' = onExit /\ session' = session
      /\ next' = next
  BY DEF vars
<1>2. call' = call
  BY <1>1 DEF engine
<1>3. source' = source
  BY <1>2, SameCall
<1>4. BufferThere' /\ BlockThere' /\ HistoryThere'
  BY <1>1, <1>2, <1>3 DEF SessionInv, BufferThere, BlockThere, HistoryThere, HistoryIn, BufferAt, SafeAt
<1>5. EngineInv'
  <2>1. /\ call' = call /\ ip' = ip /\ forwardIp' = forwardIp /\ step' = step
        /\ searchMatchNb' = searchMatchNb /\ anchor' = anchor /\ match' = match /\ offset' = offset
        /\ lowLimit' = lowLimit /\ out' = out /\ token' = token /\ reach' = reach
        /\ inputConsumed' = inputConsumed /\ pc' = pc /\ result' = result
    BY <1>1 DEF engine, search, found
  <2>2. /\ (limited' <=> limited) /\ (filling' <=> filling) /\ iend' = iend
        /\ (CallTyped => CallTyped') /\ (Accepted => Accepted')
    BY <1>1, <1>2, SameCall
  <2>3. op' = op
    BY <2>1 DEF op
  <2>4. Typed'
    BY <1>1, <2>1, <2>2 DEF SessionInv, EngineInv, Typed
  <2>5. RoomLeft'
    BY <1>3, <2>1, <2>2, <2>3 DEF SessionInv, EngineInv, RoomLeft
  <2>6. InSource => InSource'
    BY <1>3, <2>1, <2>2 DEF InSource
  <2>7. FillsUp <=> FillsUp'
    BY <1>3, <2>1 DEF FillsUp
  <2> QED
    BY <2>1, <2>2, <2>4, <2>5, <2>6, <2>7 DEF SessionInv, EngineInv
<1> QED
  BY <1>1, <1>4, <1>5 DEF SessionInv

\* A step of a call.
LEMMA CompressingKeeps ==
  ASSUME HashesInSlots, SessionInv, Compressing, UNCHANGED svars
  PROVE  SessionInv'
<1>1. EngineInv'
  BY CompressStepKeeps DEF SessionInv, Compressing
<1>2. /\ text' = text /\ call' = call
  BY DEF Compressing, CompressStep, FirstByte, FindMatch, EncodeLiterals, EncodeMatch, TestNext,
         EncodeLastLiterals, input
<1>3. ctx'.dictionary = ctx.dictionary /\ ctx'.dictSize = ctx.dictSize
  BY StepKeepsHistory DEF SessionInv, EngineInv, Typed, Compressing
<1>4. onExit' = onExit /\ session' = session /\ next' = next
  BY DEF Compressing, svars
<1>5. source' = source
  BY <1>2, SameCall
<1> QED
  BY <1>1, <1>2, <1>3, <1>4, <1>5
     DEF SessionInv, BufferThere, BlockThere, HistoryThere, HistoryIn, BufferAt, SafeAt

\* What is done with the state before a call returns.
LEMMA ExitKeeps ==
  ASSUME SessionInv, CleanOnExit \/ Rebase, UNCHANGED svars
  PROVE  SessionInv'
<1>1. /\ pc = "idle" /\ text' = text /\ UNCHANGED engine /\ onExit' = "return"
      /\ session' = session /\ next' = next
  BY DEF CleanOnExit, Rebase, svars
<1>2. text \in Seq(Byte) /\ ctx \in StreamState /\ EngineInv /\ source \in Nat
  BY DEF SessionInv, EngineInv, Typed, CallTyped, source
<1>3. ctx' \in StreamState /\ (session # NoSession => HistoryIn(ctx', Len(text)))
  <2>1. CASE CleanOnExit
    <3>1. ctx' = ClearedCtx
      BY <2>1 DEF CleanOnExit
    <3> QED
      BY <3>1, ClearedType, DictIsStream DEF HistoryIn
  <2>2. CASE Rebase
    <3>1. PICK c, p, n : c = ctx /\ p = source /\ n = call.size
      OBVIOUS
    <3>2. c \in StreamState /\ p \in Nat /\ n \in Nat /\ p + n <= Len(text)
      BY <1>2, <2>2, <3>1 DEF SessionInv, BlockThere, Rebase
    <3>3. ctx' = WithHistory(c, p, n)
      BY <2>2, <3>1 DEF Rebase, WithHistory
    <3>4. WithHistory(c, p, n) \in StreamState /\ WithHistory(c, p, n).dictionary = p
          /\ WithHistory(c, p, n).dictSize = n
      BY <3>2, WithHistoryType
    <3>5. ctx' \in StreamState /\ ctx'.dictionary = p /\ ctx'.dictSize = n
      BY <3>3, <3>4
    <3> QED
      BY <3>2, <3>5 DEF HistoryIn
  <2> QED
    BY <2>1, <2>2
<1>4. EngineInv'
  BY <1>1, <1>2, <1>3, IdleKeeps
<1>5. BufferThere' /\ BlockThere'
  BY <1>1 DEF SessionInv, BufferThere, BlockThere, BufferAt, SafeAt
<1>6. HistoryThere'
  BY <1>1, <1>3 DEF HistoryThere, HistoryIn
<1> QED
  BY <1>1, <1>4, <1>5, <1>6 DEF SessionInv

\* A one-shot call, which ends the stream.
LEMMA OneShotKeeps ==
  ASSUME SessionInv, NEW r \in Requests, OneShotCall(r)
  PROVE  SessionInv'
<1>1. EngineInv' /\ onExit' # "rebase"
  BY CallKeeps DEF OneShotCall, SessionInv, EngineInv, Typed
<1>2. session' = NoSession /\ next' = next
  BY DEF OneShotCall
<1> QED
  BY <1>1, <1>2 DEF SessionInv, BufferThere, BlockThere, HistoryThere

\* The history moved to a safe place.
LEMMA SavedTextType ==
  ASSUME text \in Seq(Byte), ctx \in StreamState, HistoryIn(ctx, Len(text)),
         NEW safe \in Nat, NEW size \in Nat
  PROVE  /\ SavedSize(size) \in Nat /\ SavedSize(size) <= KB64
         /\ SavedText(safe, size) \in Seq(Byte) /\ Len(SavedText(safe, size)) = Len(text)
<1>1. PICK n, m, from, t, a, d :
        /\ n = SavedSize(size) /\ from = ctx.dictionary + ctx.dictSize - n /\ t = text
        /\ m = Len(t) /\ a = ctx.dictionary /\ d = ctx.dictSize
  OBVIOUS
<1>2. a \in Int /\ d \in Nat
  BY <1>1 DEF StreamState, StateWith
<1>3. n \in Nat /\ n <= KB64 /\ n <= d
  BY <1>1, <1>2, WindowType DEF SavedSize, MinOf
<1>4. m \in Nat /\ DOMAIN t = 1..m /\ \A i \in 1..m : t[i] \in Byte
  BY <1>1, LenProperties, ElementOfSeq
<1>5. n # 0 => 0 <= from /\ from + n <= m
  BY <1>1, <1>2, <1>3 DEF HistoryIn
<1>6. from \in Int /\ safe + n - 1 \in Int
  BY <1>1, <1>2, <1>3
<1>7. ASSUME NEW i \in 1..m, i - 1 \in safe..safe + n - 1
      PROVE  t[from + (i - 1 - safe) + 1] \in Byte
  <2>1. from + (i - 1 - safe) + 1 \in 1..m
    BY <1>3, <1>4, <1>5, <1>6, <1>7
  <2> QED
    BY <1>4, <2>1
<1>8. SavedText(safe, size) =
        [i \in 1..m |-> IF i - 1 \in safe..safe + n - 1 THEN t[from + (i - 1 - safe) + 1] ELSE t[i]]
  BY <1>1, <1>4 DEF SavedText
<1>9. SavedText(safe, size) \in [1..m -> Byte]
  BY <1>4, <1>7, <1>8
<1>10. SavedText(safe, size) \in Seq(Byte) /\ Len(SavedText(safe, size)) = m
  BY <1>4, <1>9, ByteSeq
<1> QED
  BY <1>1, <1>3, <1>10

\* The state a stream begins with.
LEMMA PreparedStream ==
  ASSUME ctx \in StreamState, NEW s, s.dict \in Seq(Byte)
  PROVE  Prepared(s) \in StreamState /\ HistoryIn(Prepared(s), Len(s.dict))
<1>1. PICK fresh : fresh = LZ4_resetStream_fast
  OBVIOUS
<1>2. fresh \in DictState /\ fresh.dictSize = 0
  <2>1. PICK c, n, t : c = ctx /\ n = 0 /\ t = "byU32"
    OBVIOUS
  <2>2. fresh = LZ4_prepareTable(c, n, t)
    BY <1>1, <2>1 DEF LZ4_resetStream_fast
  <2> QED
    BY <2>1, <2>2, PreparedType
<1>3. PICK len, slow : len = Len(s.dict) /\ slow = (s.load = "slow")
  OBVIOUS
<1>4. len \in Nat
  BY <1>3, LenProperties
<1>5. CASE s.load = "none"
  BY <1>1, <1>2, <1>5, DictIsStream DEF Prepared, HistoryIn
<1>6. CASE s.load = "attached"
  <2>1. PICK no, d, p : no = FALSE /\ d = LZ4_loadDict(s.dict, 0, len, no) /\ p = LZ4_attach_dictionary(fresh, d)
    OBVIOUS
  <2>2. d \in DictState
    BY <1>4, <2>1, LoadedType
  <2>3. p \in StreamState /\ p.dictSize = 0
    BY <1>2, <2>1, <2>2, DictIsStream, AttachedType
  <2>4. Prepared(s) = p
    BY <1>1, <1>3, <1>6, <2>1 DEF Prepared
  <2> QED
    BY <2>3, <2>4 DEF HistoryIn
<1>7. CASE s.load # "none" /\ s.load # "attached"
  <2>1. Prepared(s) = LZ4_loadDict(s.dict, 0, len, slow)
    BY <1>3, <1>7 DEF Prepared
  <2>2. /\ LZ4_loadDict(s.dict, 0, len, slow) \in DictState
        /\ HistoryIn(LZ4_loadDict(s.dict, 0, len, slow), len)
    BY <1>4, LoadedType
  <2> QED
    BY <1>3, <2>1, <2>2, DictIsStream
<1> QED
  BY <1>5, <1>6, <1>7

\* A stream is opened.
LEMMA OpenKeeps ==
  ASSUME SessionInv, Ready, NEW s \in Sessions, OpenStream(s)
  PROVE  SessionInv'
<1>1. s.dict \in Seq(Byte) /\ s.size \in Nat
  BY SessionsAssumption
<1>2. /\ pc = "idle" /\ onExit' = "return" /\ text' = Memory(s) /\ ctx' = Prepared(s)
      /\ UNCHANGED engine /\ session' = s /\ next' = 0
  BY DEF Ready, Settled, OpenStream, OpenPeer
<1>3. EngineInv /\ ctx \in StreamState
  BY DEF SessionInv, EngineInv, Typed
<1>4. text' \in Seq(Byte) /\ Len(text') = Len(s.dict) + (1 + KB64 + 1 + s.size)
  BY <1>1, <1>2, MemoryType
<1>5. ctx' \in StreamState /\ HistoryIn(ctx', Len(s.dict))
  BY <1>1, <1>2, <1>3, PreparedStream
<1>6. EngineInv'
  BY <1>2, <1>3, <1>4, <1>5, IdleKeeps
<1>7. Len(s.dict) \in Nat
  BY <1>1, LenProperties
<1>8. BufferThere'
  <2>1. Len(text') = Len(s.dict) + 1 + KB64 + 1 + s.size
    BY <1>1, <1>4, <1>7, WindowType, SMTT(20)
  <2> QED
    BY <1>2, <2>1 DEF BufferThere, BufferAt, SafeAt
<1>9. HistoryThere'
  <2>1. ctx'.dictionary \in Int /\ ctx'.dictSize \in Nat
    BY <1>5 DEF StreamState, StateWith
  <2>2. HistoryIn(ctx', Len(text'))
    BY <1>1, <1>4, <1>5, <1>7, <2>1, WindowType DEF HistoryIn
  <2> QED
    BY <2>2 DEF HistoryThere, HistoryIn
<1> QED
  BY <1>2, <1>6, <1>8, <1>9 DEF SessionInv, BlockThere

\* A block is sent.
LEMMA SendKeeps ==
  ASSUME SessionInv, Ready, session # NoSession, NEW b \in session.blocks, SendBlock(b)
  PROVE  SessionInv'
<1>1. PICK s, content, n, p, t, src, at, capacity, acceleration :
        /\ s = session /\ content = b.content /\ n = Len(content) /\ p = Place(n) /\ t = text
        /\ at = BufferAt /\ src = at + p /\ capacity = b.capacity /\ acceleration = b.acceleration
  OBVIOUS
<1>2. /\ s \in Sessions /\ Len(t) = at + s.size /\ HistoryIn(ctx, Len(t))
      /\ ctx \in StreamState /\ t \in Seq(Byte) /\ next \in Nat
  BY <1>1 DEF SessionInv, BufferThere, HistoryThere, EngineInv, Typed, Ready
<1>3. /\ s.dict \in Seq(Byte) /\ s.size \in Nat
      /\ content \in Seq(Byte) /\ capacity \in Int /\ acceleration \in Int
  BY <1>1, <1>2, SessionsAssumption
<1>4. n \in Nat /\ at \in Nat /\ p \in Nat
  <2>1. n \in Nat /\ Len(s.dict) \in Nat
    BY <1>1, <1>3, LenProperties
  <2>2. at = Len(s.dict) + 1 + KB64 + 1
    BY <1>1 DEF BufferAt, SafeAt
  <2> QED
    BY <1>1, <1>2, <2>1, <2>2, WindowType DEF Place
<1>5. /\ p + n <= s.size /\ text' = Put(t, src, content) /\ session' = s
      /\ next' = NextPlace(p, n)
      /\ \/ LZ4_compress_forceExtDict(src, n)
         \/ LZ4_compress_fast_continue(src, n, capacity, acceleration)
  BY <1>1 DEF SendBlock
<1>6. src \in Nat
  BY <1>1, <1>4
<1>7. text' \in Seq(Byte) /\ Len(text') = Len(t)
  BY <1>2, <1>3, <1>5, <1>6, BlockPutType
<1>8. src + n <= Len(text')
  <2>1. src = at + p
    BY <1>1, Zenon
  <2>2. Len(text') = at + s.size /\ p + n <= s.size /\ s.size \in Nat
    BY <1>2, <1>3, <1>5, <1>7
  <2> QED
    BY <1>4, <2>1, <2>2
<1>9. HistoryIn(ctx, Len(text'))
  BY <1>2, <1>7
<1>10. /\ EngineInv' /\ call'.source = src /\ call'.size = n
       /\ onExit' = "rebase" \/ (onExit' = "return" /\ HistoryIn(ctx', Len(text')))
  <2>1. CASE LZ4_compress_forceExtDict(src, n)
    BY <1>2, <1>4, <1>6, <1>7, <1>8, <2>1, ForceKeeps
  <2>2. CASE LZ4_compress_fast_continue(src, n, capacity, acceleration)
    BY <1>2, <1>3, <1>4, <1>6, <1>7, <1>8, <1>9, <2>2, ContinueKeeps
  <2> QED
    BY <1>5, <2>1, <2>2
<1>11. next' \in Nat
  <2>1. s.size \div 2 + 1 \in Nat
    BY <1>3
  <2> QED
    BY <1>1, <1>4, <1>5, <2>1 DEF NextPlace
<1>12. BufferThere'
  BY <1>1, <1>2, <1>5, <1>7 DEF BufferThere, BufferAt, SafeAt
<1>13. BlockThere'
  BY <1>4, <1>8, <1>10 DEF BlockThere, source
<1>14. HistoryThere'
  BY <1>10 DEF HistoryThere, HistoryIn
<1> QED
  BY <1>10, <1>11, <1>12, <1>13, <1>14 DEF SessionInv

\* The history is saved.
LEMMA SaveKeeps ==
  ASSUME SessionInv, SaveDict
  PROVE  SessionInv'
<1>1. PICK s, c, safe, size, n, len :
        /\ s = session /\ c = ctx /\ safe = SafeAt /\ size = session.saveSize
        /\ n = SavedSize(size) /\ len = Len(text)
  OBVIOUS
<1>2. /\ pc = "idle" /\ onExit = "return" /\ s # NoSession /\ UNCHANGED engine
      /\ text' = SavedText(safe, size) /\ ctx' = WithHistory(c, safe, n)
      /\ onExit' = onExit /\ session' = s /\ next' = next
  BY <1>1 DEF SaveDict, Ready, Settled, LZ4_saveDict, WithHistory
<1>3. /\ s \in Sessions /\ len = BufferAt + s.size /\ HistoryIn(ctx, len)
      /\ c \in StreamState /\ text \in Seq(Byte) /\ EngineInv /\ next \in Nat
  BY <1>1, <1>2 DEF SessionInv, BufferThere, HistoryThere, EngineInv, Typed
<1>4. s.dict \in Seq(Byte) /\ s.size \in Nat /\ size \in Nat
  BY <1>1, <1>3, SessionsAssumption
<1>5. Len(s.dict) \in Nat /\ safe = Len(s.dict) + 1 /\ len = safe + KB64 + 1 + s.size
  BY <1>1, <1>3, <1>4, LenProperties DEF SafeAt, BufferAt
<1>6. safe \in Nat
  BY <1>5
<1>7. n \in Nat /\ n <= KB64 /\ text' \in Seq(Byte) /\ Len(text') = len
  BY <1>1, <1>2, <1>3, <1>4, <1>6, SavedTextType
<1>8. ctx' \in StreamState /\ ctx'.dictionary = safe /\ ctx'.dictSize = n
  BY <1>2, <1>3, <1>6, <1>7, WithHistoryType
<1>9. EngineInv'
  BY <1>2, <1>3, <1>7, <1>8, IdleKeeps
<1>10. BufferThere'
  BY <1>1, <1>2, <1>3, <1>7 DEF BufferThere, BufferAt, SafeAt
<1>11. HistoryThere'
  <2>1. safe + n <= len
    BY <1>4, <1>5, <1>6, <1>7, WindowType
  <2> QED
    BY <1>6, <1>7, <1>8, <2>1 DEF HistoryThere, HistoryIn
<1> QED
  BY <1>2, <1>3, <1>9, <1>10, <1>11 DEF SessionInv, BlockThere

\* Nothing was called yet.
LEMMA SessionStarts ==
  ASSUME SessionInit
  PROVE  SessionInv
<1>1. /\ text = <<>> /\ ctx = ClearedCtx /\ out = <<>> /\ pc = "idle" /\ reach = 0
      /\ ip = 0 /\ forwardIp = 0 /\ step = 1 /\ searchMatchNb = 0 /\ anchor = 0
      /\ match = 0 /\ offset = 0 /\ lowLimit = 0 /\ token = 0 /\ inputConsumed = 0
      /\ onExit = "return" /\ session = NoSession /\ next = 0
  BY DEF SessionInit, Init, LinkInit
<1>2. /\ call.source = 0 /\ call.size = 0 /\ call.capacity = 0 /\ call.output = "notLimited"
      /\ call.dict = "noDict" /\ call.acceleration = 1 /\ call.startIndex = 0
      /\ call.ctx = ClearedCtx
  BY DEF SessionInit, Init
<1>3. ClearedCtx \in StreamState
  BY ClearedType, DictIsStream
<1>4. CallTyped
  BY <1>2, <1>3 DEF CallTyped, usingCtx, Outputs
<1>5. Typed
  BY <1>1, <1>3, <1>4 DEF Typed
<1>6. op = 0
  BY <1>1 DEF op
<1>7. RoomLeft
  BY <1>1, <1>2, <1>6 DEF RoomLeft, MaxOf
<1>8. FillsUp
  BY <1>2 DEF FillsUp
<1>9. EngineInv
  BY <1>1, <1>5, <1>7, <1>8 DEF EngineInv
<1> QED
  BY <1>1, <1>9 DEF SessionInv, BufferThere, BlockThere, HistoryThere

\* Every step keeps the invariant.
LEMMA SessionStep ==
  ASSUME HashesInSlots, SessionInv, [SessionNext]_<<vars, dvars, svars>>
  PROVE  SessionInv'
<1>1. CASE Ready /\ \E s \in Sessions : OpenStream(s)
  BY <1>1, OpenKeeps
<1>2. CASE Ready /\ session # NoSession /\ \E b \in session.blocks : SendBlock(b)
  BY <1>2, SendKeeps
<1>3. CASE \E r \in Requests : OneShotCall(r)
  BY <1>3, OneShotKeeps
<1>4. CASE SaveDict
  BY <1>4, SaveKeeps
<1>5. CASE Compressing /\ UNCHANGED svars
  BY <1>5, CompressingKeeps
<1>6. CASE (CleanOnExit \/ Rebase) /\ UNCHANGED svars
  BY <1>6, ExitKeeps
<1>7. CASE UNCHANGED <<vars, session, next>>
  BY <1>7, OtherKeeps
<1>8. ASSUME Deliver \/ Receive \/ SessionEnds PROVE UNCHANGED <<vars, session, next>>
  BY <1>8 DEF Deliver, HandOver, Receive, SessionEnds, Stop, svars
<1>9. ASSUME Decoding, UNCHANGED vars PROVE UNCHANGED <<vars, session, next>>
  BY <1>9 DEF Decoding, svars
<1>10. ASSUME UNCHANGED <<vars, dvars, svars>> PROVE UNCHANGED <<vars, session, next>>
  BY <1>10 DEF svars
<1> QED
  BY <1>1, <1>2, <1>3, <1>4, <1>5, <1>6, <1>7, <1>8, <1>9, <1>10 DEF SessionNext, Working

\* Whatever is called, and in whatever order, dst is never written past its
\* end: not by the bytes of the block (op), nor by the copies that go beyond
\* them (reach).  The limitedOutput and fillOutput checks leave room for both,
\* and where a function passes notLimited, LZ4_compressBound is room enough.
THEOREM BlocksStayInsideDst ==
  HashesInSlots => (SessionSpec => []WritesInsideDst)
<1> SUFFICES ASSUME HashesInSlots PROVE SessionSpec => []WritesInsideDst
  OBVIOUS
<1>1. SessionInit => SessionInv
  BY SessionStarts
<1>2. SessionInv /\ [SessionNext]_<<vars, dvars, svars>> => SessionInv'
  BY SessionStep
<1>3. SessionInv => WritesInsideDst
  BY DEF SessionInv, EngineInv, RoomLeft, WritesInsideDst
<1> QED
  BY <1>1, <1>2, <1>3, PTL DEF SessionSpec

\* LZ4_compress_destSize and its variants take the whole source, or fill dst to
\* its last byte - or to the one before it, when one literal more would need a
\* length byte too.
THEOREM DestSizeFillsDst ==
  HashesInSlots => (SessionSpec => []FillsDst)
<1> SUFFICES ASSUME HashesInSlots PROVE SessionSpec => []FillsDst
  OBVIOUS
<1>1. SessionInit => SessionInv
  BY SessionStarts
<1>2. SessionInv /\ [SessionNext]_<<vars, dvars, svars>> => SessionInv'
  BY SessionStep
<1>3. SessionInv => FillsDst
  BY DEF SessionInv, EngineInv, FillsDst, Returned
<1> QED
  BY <1>1, <1>2, <1>3, PTL DEF SessionSpec

---------------------------------------------------------------------------
(* The hash table and the window.                                          *)

\* No entry of the table t is above n, but for 0: none, or the first position.
Below(t, n) == \A h \in Slots : t[h] = 0 \/ t[h] <= n

\* A dictionary that was loaded: its entries are indexes of it.
DictSound(d) ==
  /\ d.currentOffset = KB64 /\ d.dictSize <= KB64
  /\ d.hashTable \in [Slots -> Nat]
  /\ \A h \in Slots : d.hashTable[h] = 0 \/ d.hashTable[h] \in KB64 - d.dictSize..KB64 - 8

\* A state: its entries are of bytes it has seen, with three more after them.
StateSound(c) ==
  /\ c.hashTable \in [Slots -> Nat] /\ c.currentOffset \in Nat
  /\ c.dictSize <= c.currentOffset
  /\ Below(c.hashTable, c.currentOffset - 4)
  /\ c.dictCtx # NoCtx => DictSound(c.dictCtx)

\* An entry of t that belongs to no history is not looked at: the call ignores
\* older entries, or the dictionary context has the entry instead, or it is too
\* far from any position of the source.
InReach(t) ==
  \A h \in Slots :
    \/ call.small
    \/ t[h] >= prefixIdxLimit
    \/ usingCtx /\ t[h] < startIndex
    \/ call.table = "byU32" /\ t[h] + KB64 <= startIndex

\* Four bytes from an entry on are on one side of the start of the source.
OneSide(t) == \A h \in Slots : t[h] >= startIndex \/ t[h] = 0 \/ t[h] + 4 <= startIndex

\* An entry is where its hash says; a call that fills dst relies on it when it
\* takes entries back.
InHash(t) == \A h \in Slots : t[h] # 0 => LZ4_hashPosition(source + t[h] - startIndex) = h

\* What the functions that start a call see to.
Arguments ==
  /\ startIndex \in Nat /\ ctx.currentOffset = startIndex + call.size
  /\ call.table \in {"byU16", "byU32"}
  /\ call.table = "byU16" => /\ ~maybe_extMem /\ call.size < LZ4_64Klimit
                             /\ dictSize = 0 /\ (call.small \/ startIndex = 0)
  /\ usingCtx => DictSound(call.ctx.dictCtx)
  /\ ~usingCtx => dictSize <= startIndex
  /\ filling => ~maybe_extMem /\ startIndex = 0 /\ dictSize = 0

\* The source does not take the place of its own history.
Apart == maybe_extMem => source # dictionary

\* A match of n bytes in the dictionary ends there.
InDict(n) == maybe_extMem /\ lowLimit = dictionary => match + n <= dictEnd

\* The match goes on at least to the end of the four bytes that were found,
\* as the position they were found at is in the table.
Pending ==
  /\ ip <= filledIp /\ filledIp + MFLIMIT <= iend
  /\ SameBytes(ip, match, filledIp - ip + 4)
  /\ Below(ctx.hashTable, Index(filledIp))
  /\ filledIp = ip \/ InDict(filledIp - ip + 4)

\* How far the entries go at each label.
Entries ==
  /\ pc = "first_byte" => ip = source /\ Below(ctx.hashTable, startIndex)
  /\ pc = "find_match" => source < forwardIp /\ Below(ctx.hashTable, Index(forwardIp) - 1)
  /\ pc = "literals" => /\ filledIp = ip /\ Below(ctx.hashTable, Index(ip)) /\ Same4(ip, match)
                        /\ match = lowLimit \/ InDict(4)
  /\ pc = "match" => Below(ctx.hashTable, Index(ip)) \/ Pending
  /\ pc = "test_next" => Below(ctx.hashTable, Index(ip) - 1)

\* What holds of a table t within a call.
TableSound(t) ==
  /\ t \in [Slots -> Nat]
  /\ InReach(t)
  /\ maybe_extMem => OneSide(t)
  /\ filling => InHash(t)

InWindow ==
  /\ StateSound(ctx) /\ filledIp \in Nat /\ offset \in 0..LZ4_DISTANCE_MAX
  /\ pc # "idle" => Arguments /\ Apart /\ TableSound(ctx.hashTable) /\ Entries

\* Within a call, what is derived from its arguments and the text stays.
LEMMA SameArguments ==
  ASSUME call' = call, text' = text
  PROVE  /\ startIndex' = startIndex /\ (usingCtx' <=> usingCtx) /\ (maybe_extMem' <=> maybe_extMem)
         /\ prefixIdxLimit' = prefixIdxLimit /\ source' = source /\ iend' = iend
         /\ (filling' <=> filling) /\ dictSize' = dictSize /\ dictionary' = dictionary
         /\ dictEnd' = dictEnd /\ mflimitPlusOne' = mflimitPlusOne
         /\ \A p : Index(p)' = Index(p)
         /\ \A p : LZ4_hashPosition(p)' = LZ4_hashPosition(p)
BY DEF startIndex, usingCtx, maybe_extMem, prefixIdxLimit, dictSize, dictionary, dictEnd, source,
   iend, filling, mflimitPlusOne, Index, LZ4_hashPosition

\* So does what a table is within the call.
LEMMA SameTable ==
  ASSUME call' = call, text' = text, NEW t, TableSound(t)
  PROVE  TableSound(t)'
<1>1. InReach(t) => InReach(t)'
  BY SameArguments DEF InReach
<1>2. OneSide(t) => OneSide(t)'
  BY SameArguments DEF OneSide
<1>3. InHash(t) => InHash(t)'
  BY SameArguments DEF InHash
<1> QED
  BY <1>1, <1>2, <1>3, SameArguments DEF TableSound

\* So do its arguments, as the state grows with the source only once.
LEMMA SameStart ==
  ASSUME call' = call, text' = text, ctx'.currentOffset = ctx.currentOffset, Arguments, Apart
  PROVE  Arguments' /\ Apart'
BY SameArguments DEF Arguments, Apart

\* Entries are numbers no greater than the index put, even in 16 bits.
LEMMA PutValue ==
  ASSUME NEW i \in Nat
  PROVE  i % KB64 \in 0..i /\ (i < KB64 => i % KB64 = i)
<1>1. PICK k \in Nat : k = KB64 /\ k > 0
  BY WindowType
<1>2. i % k \in 0..i /\ (i < k => i % k = i)
  BY <1>1
<1> QED
  BY <1>1, <1>2

\* A position of the source is put in the table.
LEMMA PutSound ==
  ASSUME HashesInSlots, Typed, Accepted, Arguments, NEW t, TableSound(t),
         NEW p \in Nat, source <= p, p + MFLIMIT <= iend,
         NEW n \in Int, Below(t, n), Index(p) <= n
  PROVE  TableSound(PutPosition(t, p)) /\ Below(PutPosition(t, p), n)
<1>1. PICK i, h, v, u : /\ i = Index(p) /\ h = LZ4_hashPosition(p)
                        /\ v = IF call.table = "byU16" THEN i % KB64 ELSE i
                        /\ u = PutPosition(t, p)
  OBVIOUS
<1>2. /\ source \in Nat /\ call.size \in Nat /\ iend = source + call.size /\ iend <= Len(text)
      /\ Len(text) \in Nat
  BY MaxInputType, LenProperties DEF Typed, CallTyped, Accepted, source, iend
<1>3. startIndex \in Nat /\ i = p - source + startIndex /\ i \in Nat /\ startIndex <= i
      /\ i + 12 <= startIndex + call.size
  BY <1>1, <1>2 DEF Arguments, Index, MFLIMIT
<1>4. v \in 0..i /\ (i < KB64 \/ call.table # "byU16" => v = i)
  BY <1>1, <1>3, PutValue
<1>5. t \in [Slots -> Nat] /\ u = [t EXCEPT ![h] = v]
  BY <1>1 DEF TableSound, PutPosition, LZ4_putIndexOnHash
<1>6. v \in Nat
  BY <1>3, <1>4
<1>7. u \in [Slots -> Nat] /\ \A g \in Slots : u[g] = t[g] \/ (g = h /\ u[g] = v)
  BY <1>5, <1>6
<1>8. Below(u, n)
  BY <1>1, <1>3, <1>4, <1>7 DEF Below
<1>9. InReach(u)
  <2>1. ASSUME NEW g \in Slots
        PROVE  \/ call.small \/ v >= prefixIdxLimit \/ (usingCtx /\ v < startIndex)
    <3>1. dictSize \in Nat
      BY DictType DEF Typed
    <3>2. CASE call.table = "byU16"
      BY <1>3, <1>6, <3>1, <3>2 DEF Arguments, prefixIdxLimit
    <3>3. CASE call.table # "byU16"
      BY <1>3, <1>4, <3>1, <3>3 DEF prefixIdxLimit
    <3> QED
      BY <3>2, <3>3
  <2>2. InReach(t)
    BY DEF TableSound
  <2> QED
    BY <1>7, <2>1, <2>2 DEF InReach
<1>10. ASSUME maybe_extMem PROVE OneSide(u)
  <2>1. v = i
    BY <1>4, <1>10 DEF Arguments
  <2>2. OneSide(t)
    BY <1>10 DEF TableSound
  <2> QED
    BY <1>3, <1>7, <2>1, <2>2 DEF OneSide
<1>11. ASSUME filling PROVE InHash(u)
  <2>1. startIndex = 0 /\ (call.table = "byU16" => call.size < KB64 + 11)
    BY <1>11 DEF Arguments, LZ4_64Klimit, MFLIMIT
  <2>2. v = i
    <3>1. CASE call.table = "byU16"
      BY <1>2, <1>3, <1>4, <2>1, <3>1, WindowType
    <3> QED
      BY <1>4, <3>1
  <2>3. source + v - startIndex = p
    BY <1>2, <1>3, <2>2
  <2>4. InHash(t)
    BY <1>11 DEF TableSound
  <2>5. ASSUME NEW g \in Slots, u[g] # 0
        PROVE  LZ4_hashPosition(source + u[g] - startIndex) = g
    <3>1. CASE u[g] = t[g]
      BY <2>4, <2>5, <3>1 DEF InHash
    <3>2. CASE g = h /\ u[g] = v
      BY <1>1, <2>3, <3>2
    <3> QED
      BY <1>7, <3>1, <3>2
  <2> QED
    BY <2>5 DEF InHash
<1> QED
  BY <1>1, <1>7, <1>8, <1>9, <1>10, <1>11 DEF TableSound

\* The state with another table.
LEMMA TableInState ==
  ASSUME ctx \in StreamState, StateSound(ctx), NEW u \in [Slots -> Nat], 
         Below(u, ctx.currentOffset - 4), ctx' = [ctx EXCEPT !.hashTable = u]
  PROVE  StateSound(ctx') /\ ctx'.hashTable = u /\ ctx'.currentOffset = ctx.currentOffset
<1>1. PICK c, d : c = ctx /\ d = ctx'
  OBVIOUS
<1>2. PICK Ctxs : Ctxs = {NoCtx} \cup DictState
  OBVIOUS
<1>3. c \in StateWith(Ctxs) /\ d = [c EXCEPT !.hashTable = u]
  BY <1>1, <1>2 DEF StreamState
<1>4. /\ d.hashTable = u /\ d.currentOffset = c.currentOffset /\ d.dictSize = c.dictSize
      /\ d.dictCtx = c.dictCtx
  BY <1>3 DEF StateWith
<1> QED
  BY <1>1, <1>4 DEF StateSound

---------------------------------------------------------------------------
(* Candidates.                                                             *)

\* A candidate that may be used is in the window; one of the dictionary has
\* four bytes there, or is its first byte.
LEMMA CandidateSound ==
  ASSUME Typed, Accepted, Arguments, NEW t, TableSound(t), NEW h \in Slots,
         NEW p \in Nat, source <= p, p + MFLIMIT <= iend, Below(t, Index(p) - 1), Index(p) >= 1,
         Usable(Candidate(t, h), p)
  PROVE  /\ Candidate(t, h).index \in prefixIdxLimit..Index(p) - 1
         /\ Index(p) - Candidate(t, h).index \in 1..LZ4_DISTANCE_MAX
         /\ maybe_extMem /\ Apart /\ Candidate(t, h).low = dictionary =>
              \/ Candidate(t, h).at + 4 <= dictEnd
              \/ Candidate(t, h).at = dictionary
<1>1. PICK i, s, l, c, e : /\ i = Index(p) /\ s = startIndex /\ l = prefixIdxLimit
                           /\ c = Candidate(t, h) /\ e = t[h]
  OBVIOUS
<1>2. /\ source \in Nat /\ call.size \in Nat /\ iend = source + call.size
  BY MaxInputType DEF Typed, CallTyped, Accepted, source, iend
<1>3. s \in Nat /\ i = p - source + s /\ i \in Nat /\ s <= i /\ i >= 1 /\ i + 12 <= s + call.size
  BY <1>1, <1>2 DEF Arguments, Index, MFLIMIT
<1>4. dictSize \in Nat /\ dictionary \in Int /\ dictEnd = dictionary + dictSize /\ l = s - dictSize
  BY <1>1, DictType DEF Typed, prefixIdxLimit, dictEnd
<1>5. e \in Nat /\ (e = 0 \/ e <= i - 1)
  BY <1>1 DEF TableSound, Below
<1>6. \/ call.small \/ e >= l \/ (usingCtx /\ e < s) \/ (call.table = "byU32" /\ e + KB64 <= s)
  BY <1>1 DEF TableSound, InReach
<1>7. /\ call.small => c.index >= l
      /\ call.table = "byU16" \/ c.index + LZ4_DISTANCE_MAX >= i
  BY <1>1 DEF Usable
<1>8. LZ4_DISTANCE_MAX \in Nat /\ KB64 = LZ4_DISTANCE_MAX + 1 /\ KB64 \in Nat
  BY DistanceAssumption, WindowType, SMTT(20) DEF KB64, MFLIMIT
<1>9. call.table \in {"byU16", "byU32"}
  BY DEF Arguments
<1>10. CASE maybe_extMem /\ e < s /\ usingCtx
  <2>1. DictSound(call.ctx.dictCtx) /\ dictSize = call.ctx.dictCtx.dictSize
    BY <1>10 DEF Arguments, dictSize
  <2>2. PICK k : k = call.ctx.dictCtx.hashTable[h]
    OBVIOUS
  <2>3. k = 0 \/ k \in KB64 - dictSize..KB64 - 8
    BY <2>1, <2>2 DEF DictSound
  <2>4. call.ctx.dictCtx.currentOffset = KB64
    BY <2>1 DEF DictSound
  <2>5. c = [index |-> k + s - KB64, at |-> dictEnd - KB64 + k, low |-> dictionary]
    BY <1>1, <1>10, <2>2, <2>4 DEF Candidate
  <2>6. c.index + LZ4_DISTANCE_MAX >= i
    BY <1>7, <1>10 DEF Arguments
  <2>7. k # 0
    BY <1>3, <1>8, <2>5, <2>6
  <2>8. k \in Int /\ k >= KB64 - dictSize /\ k <= KB64 - 8
    BY <2>3, <2>7, <1>4, <1>8
  <2>9. c.index \in l..i - 1 /\ i - c.index \in 1..LZ4_DISTANCE_MAX
    BY <1>3, <1>4, <1>8, <2>5, <2>6, <2>8
  <2>10. c.at + 4 <= dictEnd
    BY <1>4, <1>8, <2>5, <2>8
  <2> QED
    BY <1>1, <2>9, <2>10
<1>11. CASE maybe_extMem /\ e < s /\ ~usingCtx
  <2>1. c = [index |-> e, at |-> dictEnd - s + e, low |-> dictionary]
    BY <1>1, <1>11 DEF Candidate
  <2>2. c.index + LZ4_DISTANCE_MAX >= i
    BY <1>7, <1>11 DEF Arguments
  <2>3. e >= l
    BY <1>3, <1>5, <1>6, <1>7, <1>8, <1>11, <2>1, <2>2
  <2>4. c.index \in l..i - 1 /\ i - c.index \in 1..LZ4_DISTANCE_MAX
    BY <1>3, <1>4, <1>5, <1>8, <1>11, <2>1, <2>2, <2>3
  <2>5. e = 0 \/ e + 4 <= s
    BY <1>1, <1>3, <1>5, <1>11 DEF TableSound, OneSide
  <2>6. c.at + 4 <= dictEnd \/ c.at = dictionary
    <3>1. CASE e + 4 <= s
      BY <1>3, <1>4, <1>5, <2>1, <3>1
    <3>2. CASE e = 0
      <4>1. dictSize <= s
        BY <1>1, <1>11 DEF Arguments
      <4>2. s = dictSize
        BY <1>3, <1>4, <2>3, <3>2, <4>1
      <4> QED
        BY <1>4, <2>1, <3>2, <4>2
    <3> QED
      BY <2>5, <3>1, <3>2
  <2> QED
    BY <1>1, <2>4, <2>6
<1>12. CASE ~(maybe_extMem /\ e < s)
  <2>1. c = [index |-> e, at |-> source + e - s, low |-> IF maybe_extMem THEN source ELSE lowLimit]
    BY <1>1, <1>12 DEF Candidate
  <2>2. e >= l
    <3>1. usingCtx => e >= s
      BY <1>3, <1>5, <1>12 DEF usingCtx, maybe_extMem
    <3>2. call.table = "byU32" => e + LZ4_DISTANCE_MAX >= i
      BY <1>7, <2>1
    <3> QED
      BY <1>3, <1>4, <1>5, <1>6, <1>7, <1>8, <2>1, <3>1, <3>2
  <2>3. i - e <= LZ4_DISTANCE_MAX
    <3>1. CASE call.table = "byU16"
      <4>1. call.size < KB64 + 11 /\ dictSize = 0
        BY <3>1 DEF Arguments, LZ4_64Klimit, MFLIMIT
      <4> QED
        BY <1>2, <1>3, <1>4, <1>5, <1>8, <2>2, <4>1
    <3>2. CASE call.table = "byU32"
      BY <1>3, <1>5, <1>7, <1>8, <2>1, <3>2
    <3> QED
      BY <1>9, <3>1, <3>2
  <2>4. c.index \in l..i - 1 /\ i - c.index \in 1..LZ4_DISTANCE_MAX
    BY <1>3, <1>4, <1>5, <1>8, <2>1, <2>2, <2>3
  <2>5. ~(maybe_extMem /\ Apart /\ c.low = dictionary)
    BY <2>1 DEF Apart
  <2> QED
    BY <1>1, <2>4, <2>5
<1> QED
  BY <1>10, <1>11, <1>12

---------------------------------------------------------------------------
(* How long a match is.                                                    *)

\* LZ4_count goes as far as the bytes are the same.
LEMMA CountGoesOn ==
  ASSUME NEW p \in Int, NEW q \in Int, NEW n \in Int, NEW m \in Nat, m <= n, SameBytes(p, q, m)
  PROVE  LZ4_count(p, q, n) >= m
<1> DEFINE limit == MaxOf(0, n)
           Stops(k) == k = limit \/ Text(p + k) # Text(q + k)
           Ok(k) == Stops(k) /\ SameBytes(p, q, k)
           S == {k \in 0..limit : Stops(k)}
<1>1. limit \in Nat /\ m <= limit
  BY DEF MaxOf
<1>2. limit \in S /\ S \subseteq Nat
  BY <1>1
<1>3. PICK k \in S : \A y \in S : k <= y
  BY <1>2, LeastExists
<1>4. k \in 0..limit /\ Stops(k)
  OBVIOUS
<1>5. SameBytes(p, q, k)
  <2>1. SUFFICES ASSUME NEW i \in 0..k - 1 PROVE Text(p + i) = Text(q + i)
    BY DEF SameBytes
  <2>2. i \in 0..limit /\ i < k
    BY <1>1, <1>4
  <2>3. i \notin S
    BY <2>2, <1>3
  <2> QED
    BY <2>2, <2>3
<1>6. \E j \in 0..limit : Ok(j)
  BY <1>4, <1>5
<1>7. LZ4_count(p, q, n) = CHOOSE j \in 0..limit : Ok(j)
  BY DEF LZ4_count
<1>8. PICK c : c = CHOOSE j \in 0..limit : Ok(j)
  OBVIOUS
<1>9. c \in 0..limit /\ Ok(c)
  BY <1>6, <1>8
<1>10. ~(c < m)
  <2>1. SUFFICES ASSUME c < m PROVE FALSE
    OBVIOUS
  <2>2. c \in 0..m - 1 /\ c # limit
    BY <1>1, <1>9, <2>1
  <2> QED
    BY <1>9, <2>2 DEF SameBytes
<1>11. c \in Nat
  BY <1>1, <1>9
<1> QED
  BY <1>7, <1>8, <1>10, <1>11

\* CountBack goes back over bytes that are the same.
LEMMA CountBackSame ==
  ASSUME NEW p \in Int, NEW q \in Int, NEW n \in Int
  PROVE  SameBytes(p - CountBack(p, q, n), q - CountBack(p, q, n), CountBack(p, q, n))
<1> DEFINE limit == MaxOf(0, n)
           Stops(k) == k = limit \/ Text(p - k - 1) # Text(q - k - 1)
           Ok(k) == Stops(k) /\ SameBytes(p - k, q - k, k)
           S == {k \in 0..limit : Stops(k)}
<1>1. limit \in Nat
  BY DEF MaxOf
<1>2. limit \in S /\ S \subseteq Nat
  BY <1>1
<1>3. PICK k \in S : \A y \in S : k <= y
  BY <1>2, LeastExists
<1>4. k \in 0..limit /\ Stops(k)
  OBVIOUS
<1>5. SameBytes(p - k, q - k, k)
  <2>1. SUFFICES ASSUME NEW i \in 0..k - 1 PROVE Text(p - k + i) = Text(q - k + i)
    BY DEF SameBytes
  <2>2. k - 1 - i \in 0..limit /\ k - 1 - i < k
    BY <1>1, <1>4
  <2>3. k - 1 - i \notin S
    BY <2>2, <1>3
  <2>4. Text(p - (k - 1 - i) - 1) = Text(q - (k - 1 - i) - 1)
    BY <2>2, <2>3
  <2>5. p - (k - 1 - i) - 1 = p - k + i /\ q - (k - 1 - i) - 1 = q - k + i
    BY <1>4
  <2> QED
    BY <2>4, <2>5
<1>6. \E j \in 0..limit : Ok(j)
  BY <1>4, <1>5
<1>7. CountBack(p, q, n) = CHOOSE j \in 0..limit : Ok(j)
  BY DEF CountBack
<1>8. PICK c : c = CHOOSE j \in 0..limit : Ok(j)
  OBVIOUS
<1>9. Ok(c)
  BY <1>6, <1>8
<1> QED
  BY <1>7, <1>8, <1>9

\* Runs that meet are one.
LEMMA RunsJoin ==
  ASSUME NEW p \in Int, NEW q \in Int, NEW k \in Nat, NEW m \in Nat,
         SameBytes(p, q, k), SameBytes(p + k, q + k, m)
  PROVE  SameBytes(p, q, k + m)
<1> SUFFICES ASSUME NEW i \in 0..k + m - 1 PROVE Text(p + i) = Text(q + i)
  BY DEF SameBytes
<1>1. CASE i < k
  BY <1>1 DEF SameBytes
<1>2. CASE i >= k
  <2>1. PICK j : j = i - k
    OBVIOUS
  <2>2. j \in 0..m - 1 /\ (p + k) + j = p + i /\ (q + k) + j = q + i
    BY <1>2, <2>1
  <2>3. Text((p + k) + j) = Text((q + k) + j)
    BY <2>2 DEF SameBytes
  <2> QED
    BY <2>2, <2>3
<1> QED
  BY <1>1, <1>2

\* A part of a run.
LEMMA RunAfter ==
  ASSUME NEW p \in Int, NEW q \in Int, NEW k \in Nat, NEW m \in Nat, SameBytes(p, q, k + m)
  PROVE  SameBytes(p + k, q + k, m)
<1> SUFFICES ASSUME NEW i \in 0..m - 1 PROVE Text((p + k) + i) = Text((q + k) + i)
  BY DEF SameBytes
<1>1. PICK j : j = k + i
  OBVIOUS
<1>2. j \in 0..k + m - 1 /\ p + j = (p + k) + i /\ q + j = (q + k) + i
  BY <1>1
<1>3. Text(p + j) = Text(q + j)
  BY <1>2 DEF SameBytes
<1> QED
  BY <1>2, <1>3

\* The match covers the position it was found at, with its four bytes.
LEMMA MatchCovers ==
  ASSUME Typed, Accepted, InSource, pc = "match", filledIp \in Nat, Pending
  PROVE  MatchCodeAt(ip, match) >= filledIp - ip
<1>1. PICK p, q, m : p = ip /\ q = match /\ m = filledIp - ip
  OBVIOUS
<1>2. /\ p \in Nat /\ q \in Int /\ iend \in Nat /\ source \in Nat
      /\ dictionary \in Int /\ dictEnd \in Int
  BY <1>1, Ranges, DictType DEF Typed
<1>3. m \in Nat /\ p + m + 12 <= iend /\ SameBytes(p, q, m + 4)
  BY <1>1, <1>2 DEF Pending, MFLIMIT
<1>4. m = 0 \/ (maybe_extMem /\ lowLimit = dictionary => q + m + 4 <= dictEnd)
  BY <1>1, <1>2, <1>3 DEF Pending, InDict
<1>5. matchlimit = iend - 5
  BY DEF matchlimit, LASTLITERALS
<1>6. PICK limit, first, more, all :
        /\ limit = MinOf(p + dictEnd - q, matchlimit)
        /\ first = LZ4_count(p + 4, q + 4, limit - (p + 4))
        /\ more = LZ4_count(limit, source, matchlimit - limit)
        /\ all = LZ4_count(p + 4, q + 4, matchlimit - (p + 4))
  OBVIOUS
<1>7. MatchCodeAt(p, q) =
        IF maybe_extMem /\ lowLimit = dictionary
        THEN IF p + 4 + first = limit THEN first + more ELSE first
        ELSE all
  BY <1>6 DEF MatchCodeAt, MINMATCH
<1>8. SameBytes(p + 4, q + 4, m)
  <2>1. SameBytes(p, q, 4 + m)
    BY <1>3
  <2> QED
    BY <1>2, <1>3, <2>1, RunAfter
<1>9. limit \in Int /\ first \in Nat /\ more \in Nat
  <2>1. limit \in Int
    BY <1>2, <1>5, <1>6 DEF MinOf
  <2>2. p + 4 \in Int /\ q + 4 \in Int /\ limit - (p + 4) \in Int /\ matchlimit - limit \in Int
    BY <1>2, <1>5, <2>1
  <2>3. first \in Nat
    BY <1>6, <2>2, CountBounds
  <2>4. more \in Nat
    <3>1. PICK s, l : s = source /\ l = matchlimit - limit
      OBVIOUS
    <3>2. s \in Int /\ l \in Int /\ more = LZ4_count(limit, s, l)
      BY <1>2, <1>6, <2>2, <3>1
    <3> QED
      BY <2>1, <3>2, CountBounds
  <2> QED
    BY <2>1, <2>3, <2>4
<1>10. all >= m
  <2>1. p + 4 \in Int /\ q + 4 \in Int /\ matchlimit - (p + 4) \in Int /\ m <= matchlimit - (p + 4)
    BY <1>2, <1>3, <1>5
  <2> QED
    BY <1>3, <1>6, <1>8, <2>1, CountGoesOn
<1>11. ASSUME maybe_extMem, lowLimit = dictionary PROVE first >= m
  <2>1. CASE m = 0
    BY <1>9, <2>1
  <2>2. CASE m # 0
    <3>1. q + m + 4 <= dictEnd
      BY <1>4, <1>11, <2>2
    <3>2. m <= limit - (p + 4)
      BY <1>2, <1>3, <1>5, <1>6, <3>1 DEF MinOf
    <3>3. p + 4 \in Int /\ q + 4 \in Int /\ limit - (p + 4) \in Int
      BY <1>2, <1>9
    <3> QED
      BY <1>3, <1>6, <1>8, <3>2, <3>3, CountGoesOn
  <2> QED
    BY <2>1, <2>2
<1>12. MatchCodeAt(p, q) >= m
  BY <1>3, <1>7, <1>9, <1>10, <1>11
<1> QED
  BY <1>1, <1>12

---------------------------------------------------------------------------
(* The steps of a call.                                                    *)

\* The table of the next state.
LEMMA NextTable ==
  ASSUME NEW u, TableSound(u)', ctx'.hashTable = u
  PROVE  TableSound(ctx.hashTable)'
BY DEF TableSound, InReach, OneSide, InHash

\* A step that leaves the table u: what is left to show is how far its entries go.
LEMMA TableChanges ==
  ASSUME Typed, InWindow, pc # "idle", call' = call, text' = text,
         NEW u, TableSound(u), Below(u, ctx.currentOffset - 4),
         ctx' = [ctx EXCEPT !.hashTable = u]
  PROVE  /\ StateSound(ctx') /\ ctx'.currentOffset = ctx.currentOffset /\ ctx'.hashTable = u
         /\ Arguments' /\ Apart' /\ TableSound(ctx.hashTable)'
<1>1. u \in [Slots -> Nat] /\ ctx \in StreamState /\ StateSound(ctx) /\ Arguments /\ Apart
  BY DEF TableSound, Typed, InWindow
<1>2. StateSound(ctx') /\ ctx'.hashTable = u /\ ctx'.currentOffset = ctx.currentOffset
  BY <1>1, TableInState
<1>3. TableSound(u)'
  BY SameTable
<1> QED
  BY <1>1, <1>2, <1>3, NextTable, SameStart

\* A step that leaves the table alone.
LEMMA TableStays ==
  ASSUME InWindow, pc # "idle", call' = call, text' = text, ctx' = ctx
  PROVE  /\ StateSound(ctx') /\ ctx'.currentOffset = ctx.currentOffset
         /\ Arguments' /\ Apart' /\ TableSound(ctx.hashTable)'
<1>1. PICK t : t = ctx.hashTable
  OBVIOUS
<1>2. TableSound(t) /\ StateSound(ctx) /\ Arguments /\ Apart
  BY <1>1 DEF InWindow
<1>3. TableSound(t)'
  BY <1>2, SameTable
<1> QED
  BY <1>1, <1>2, <1>3, NextTable, SameStart

\* Where the positions of the source have their indexes.
LEMMA IndexType ==
  ASSUME Typed, Accepted, Arguments, NEW p \in Nat, source <= p, p + MFLIMIT <= iend
  PROVE  /\ Index(p) \in Nat /\ startIndex <= Index(p) /\ Index(p) + 12 <= ctx.currentOffset
         /\ Index(p) = p - source + startIndex /\ source \in Nat /\ startIndex \in Nat
         /\ ctx.currentOffset \in Nat /\ iend \in Nat /\ p + 5 <= Len(text)
<1>1. /\ source \in Nat /\ call.size \in Nat /\ iend = source + call.size /\ iend <= Len(text)
      /\ Len(text) \in Nat
  BY MaxInputType, LenProperties DEF Typed, CallTyped, Accepted, source, iend
<1>2. startIndex \in Nat /\ ctx.currentOffset = startIndex + call.size
  BY DEF Arguments
<1> QED
  BY <1>1, <1>2 DEF Index, MFLIMIT

\* A position is put in the table that is the current one, or its successor.
LEMMA PutInState ==
  ASSUME HashesInSlots, Typed, Accepted, Arguments, NEW t, TableSound(t),
         NEW p \in Nat, source <= p, p + MFLIMIT <= iend, Below(t, Index(p))
  PROVE  /\ TableSound(PutPosition(t, p)) /\ Below(PutPosition(t, p), Index(p))
         /\ Below(PutPosition(t, p), ctx.currentOffset - 4)
<1>1. Index(p) \in Nat /\ Index(p) + 12 <= ctx.currentOffset /\ ctx.currentOffset \in Nat
  BY IndexType
<1>2. TableSound(PutPosition(t, p)) /\ Below(PutPosition(t, p), Index(p))
  BY <1>1, PutSound
<1>3. PICK u : u = PutPosition(t, p)
  OBVIOUS
<1>4. Below(u, ctx.currentOffset - 4)
  BY <1>1, <1>2, <1>3 DEF Below, TableSound
<1> QED
  BY <1>2, <1>3, <1>4

\* The first byte of the source goes to the table.
LEMMA FirstByteInWindow ==
  ASSUME HashesInSlots, EngineInv, InWindow, FirstByte
  PROVE  InWindow' /\ ctx'.currentOffset = ctx.currentOffset
<1>1. PICK p, u : p = ip /\ u = PutPosition(ctx.hashTable, p)
  OBVIOUS
<1>2. /\ pc = "first_byte" /\ pc' = "find_match" /\ forwardIp' = p + 1
      /\ ctx' = [ctx EXCEPT !.hashTable = u]
      /\ call' = call /\ text' = text
      /\ UNCHANGED <<offset, filledIp>>
  BY <1>1 DEF FirstByte, Goto, SearchFrom, input, found
<1>3. /\ Typed /\ Accepted /\ InSource /\ Arguments /\ TableSound(ctx.hashTable) /\ Entries
      /\ filledIp \in Nat /\ offset \in 0..LZ4_DISTANCE_MAX
  BY <1>2 DEF EngineInv, InWindow
<1>4. p \in Nat /\ p = source /\ p + MFLIMIT <= iend /\ Below(ctx.hashTable, startIndex)
  <2>1. p \in Nat /\ iend \in Nat
    BY <1>1, <1>3, Ranges DEF Typed
  <2>2. p + MFLIMIT < iend
    BY <1>1, <1>2, <1>3 DEF InSource
  <2> QED
    BY <1>1, <1>2, <1>3, <2>1, <2>2 DEF Entries, MFLIMIT
<1>5. Index(p) = startIndex /\ startIndex \in Nat
  BY <1>3, <1>4, IndexType
<1>6. TableSound(u) /\ Below(u, Index(p)) /\ Below(u, ctx.currentOffset - 4)
  BY <1>1, <1>3, <1>4, <1>5, PutInState
<1>7. /\ StateSound(ctx') /\ ctx'.currentOffset = ctx.currentOffset /\ ctx'.hashTable = u
      /\ Arguments' /\ Apart' /\ TableSound(ctx.hashTable)'
  BY <1>2, <1>3, <1>6, TableChanges
<1>8. Index(forwardIp)' - 1 = Index(p) /\ source' < forwardIp'
  BY <1>2, <1>4, <1>5, SameArguments DEF Index
<1>9. Entries'
  BY <1>2, <1>6, <1>7, <1>8 DEF Entries, Below
<1> QED
  BY <1>2, <1>3, <1>7, <1>9 DEF InWindow

\* A probe of the search.
LEMMA FindMatchInWindow ==
  ASSUME HashesInSlots, EngineInv, InWindow, FindMatch
  PROVE  InWindow' /\ ctx'.currentOffset = ctx.currentOffset
<1>1. PICK p, t, h, c, u : /\ p = forwardIp /\ t = ctx.hashTable /\ h = LZ4_hashPosition(p)
                           /\ c = Candidate(t, h) /\ u = PutPosition(t, p)
  OBVIOUS
<1>2. /\ pc = "find_match" /\ ip' = p /\ forwardIp' = p + step
      /\ call' = call /\ text' = text
  BY <1>1 DEF FindMatch, input
<1>3. \/ /\ pc' = "last_literals"
         /\ UNCHANGED <<ctx, offset, filledIp>>
      \/ /\ p + step <= mflimitPlusOne
         /\ ctx' = [ctx EXCEPT !.hashTable = u]
         /\ lowLimit' = c.low
         /\ \/ /\ Usable(c, p) /\ Same4(c.at, p)
               /\ match' = c.at /\ offset' = Index(p) - c.index /\ filledIp' = p
               /\ pc' = "literals"
            \/ pc' = "find_match" /\ UNCHANGED <<offset, filledIp>>
  BY <1>1 DEF FindMatch, Goto, found
<1>4. /\ Typed /\ Accepted /\ InSource /\ Arguments /\ TableSound(t) /\ Entries /\ Apart
      /\ filledIp \in Nat /\ offset \in 0..LZ4_DISTANCE_MAX
  BY <1>1, <1>2 DEF EngineInv, InWindow
<1>5. p \in Nat /\ source < p /\ source \in Nat /\ step \in Nat /\ step >= 1 /\ iend \in Nat
  <2>1. p \in Nat /\ step \in Nat
    BY <1>1, <1>4 DEF Typed
  <2>2. step >= 1
    BY <1>2, <1>4 DEF InSource
  <2>3. source < p
    BY <1>1, <1>2, <1>4 DEF Entries
  <2> QED
    BY <1>4, <2>1, <2>2, <2>3, Ranges
<1>6. Below(t, Index(p) - 1)
  BY <1>1, <1>2, <1>4 DEF Entries
<1>7. CASE pc' = "last_literals" /\ UNCHANGED <<ctx, offset, filledIp>>
  <2>1. /\ StateSound(ctx') /\ ctx'.currentOffset = ctx.currentOffset
        /\ Arguments' /\ Apart' /\ TableSound(ctx.hashTable)'
    BY <1>2, <1>7, TableStays
  <2>2. Entries'
    BY <1>7 DEF Entries
  <2> QED
    BY <1>4, <1>7, <2>1, <2>2 DEF InWindow
<1>8. CASE /\ p + step <= mflimitPlusOne
           /\ ctx' = [ctx EXCEPT !.hashTable = u]
           /\ lowLimit' = c.low
           /\ \/ /\ Usable(c, p) /\ Same4(c.at, p)
                 /\ match' = c.at /\ offset' = Index(p) - c.index /\ filledIp' = p
                 /\ pc' = "literals"
              \/ pc' = "find_match" /\ UNCHANGED <<offset, filledIp>>
  <2>1. p + MFLIMIT <= iend /\ source <= p
    BY <1>5, <1>8 DEF mflimitPlusOne, MFLIMIT
  <2>2. /\ Index(p) \in Nat /\ Index(p) = p - source + startIndex /\ startIndex \in Nat
        /\ p + 5 <= Len(text)
    BY <1>4, <1>5, <2>1, IndexType
  <2>3. Below(t, Index(p)) /\ h \in Slots
    <3>1. text \in Seq(Byte)
      BY <1>4 DEF Typed
    <3>2. h \in Slots
      BY <1>1, <1>5, <2>2, <3>1, HashType
    <3>3. t \in [Slots -> Nat]
      BY <1>4 DEF TableSound
    <3> QED
      BY <1>6, <2>2, <3>2, <3>3 DEF Below
  <2>4. TableSound(u) /\ Below(u, Index(p)) /\ Below(u, ctx.currentOffset - 4)
    BY <1>1, <1>4, <1>5, <2>1, <2>3, PutInState
  <2>5. /\ StateSound(ctx') /\ ctx'.currentOffset = ctx.currentOffset /\ ctx'.hashTable = u
        /\ Arguments' /\ Apart' /\ TableSound(ctx.hashTable)'
    BY <1>2, <1>4, <1>8, <2>4, TableChanges
  <2>6. \A q : Index(q)' = q - source + startIndex
    BY <1>2, SameArguments DEF Index
  <2>7. CASE pc' = "find_match" /\ UNCHANGED <<offset, filledIp>>
    <3>1. Index(forwardIp)' - 1 >= Index(p) /\ source' < forwardIp'
      BY <1>2, <1>5, <2>2, <2>6, SameArguments
    <3>2. Index(forwardIp)' \in Nat
      BY <1>2, <1>5, <2>2, <2>6
    <3>3. Below(u, Index(forwardIp)' - 1)
      BY <2>2, <2>4, <3>1, <3>2 DEF Below, TableSound
    <3>4. Entries'
      BY <2>5, <2>7, <3>1, <3>3 DEF Entries, Below
    <3> QED
      BY <1>4, <2>5, <2>7, <3>4 DEF InWindow
  <2>8. CASE /\ Usable(c, p) /\ Same4(c.at, p)
             /\ match' = c.at /\ offset' = Index(p) - c.index /\ filledIp' = p
             /\ pc' = "literals"
    <3>1. /\ Index(p) - c.index \in 1..LZ4_DISTANCE_MAX
          /\ maybe_extMem /\ c.low = dictionary => c.at + 4 <= dictEnd \/ c.at = dictionary
      <4>1. Index(p) >= 1
        BY <1>5, <2>2
      <4>2. PICK pp \in Nat, hh \in Slots : pp = p /\ hh = h
        BY <1>5, <2>3
      <4> QED
        BY <1>1, <1>4, <1>6, <2>1, <2>8, <4>1, <4>2, CandidateSound
    <3>2. offset' \in 0..LZ4_DISTANCE_MAX
      BY <2>8, <3>1
    <3>3. Below(u, Index(ip)')
      BY <1>2, <2>2, <2>4, <2>6
    <3>4. Same4(ip, match)'
      <4>1. \A i \in 0..4 - 1 : Text(c.at + i) = Text(p + i)
        BY <2>8 DEF Same4, SameBytes
      <4> QED
        BY <1>2, <2>8, <4>1 DEF Same4, SameBytes, Text
    <3>5. match' = lowLimit' \/ InDict(4)'
      BY <1>2, <1>8, <2>8, <3>1, SameArguments DEF InDict
    <3>6. Entries'
      BY <1>2, <2>5, <2>8, <3>3, <3>4, <3>5 DEF Entries, Below
    <3> QED
      BY <1>5, <2>5, <2>8, <3>2, <3>6 DEF InWindow
  <2> QED
    BY <1>8, <2>7, <2>8
<1> QED
  BY <1>3, <1>7, <1>8

\* A step that ends the search, or the call, and leaves the table alone.
LEMMA StopsInWindow ==
  ASSUME InWindow, pc # "idle", call' = call, text' = text, ctx' = ctx,
         filledIp' = filledIp, offset' = offset, pc' \in {"idle", "last_literals"}
  PROVE  InWindow' /\ ctx'.currentOffset = ctx.currentOffset
<1>1. /\ StateSound(ctx') /\ ctx'.currentOffset = ctx.currentOffset
      /\ Arguments' /\ Apart' /\ TableSound(ctx.hashTable)'
  BY TableStays
<1>2. Entries'
  BY DEF Entries
<1> QED
  BY <1>1, <1>2 DEF InWindow

\* How far the catch up goes back, over the same bytes; not past the segment.
LEMMA CatchUpSame ==
  ASSUME Typed, anchor <= ip, NEW b, b = CatchUp(ip, match)
  PROVE  /\ b \in Nat /\ b <= ip - anchor
         /\ SameBytes(ip - b, match - b, b)
         /\ match = lowLimit => b = 0
<1>1. PICK p, q, n : p = ip /\ q = match /\ n = MinOf(ip - anchor, match - lowLimit)
  OBVIOUS
<1>2. p \in Nat /\ anchor \in Nat /\ q \in Int /\ lowLimit \in Int /\ anchor <= p
  BY <1>1 DEF Typed
<1>3. n \in Int /\ n <= p - anchor /\ (q = lowLimit => n <= 0)
  BY <1>1, <1>2 DEF MinOf
<1>4. b = CountBack(p, q, n)
  BY <1>1 DEF CatchUp
<1>5. b \in Nat /\ b <= MaxOf(0, n)
  BY <1>2, <1>3, <1>4, CountBackBounds
<1>6. SameBytes(p - b, q - b, b)
  BY <1>2, <1>3, <1>4, CountBackSame
<1> QED
  BY <1>1, <1>2, <1>3, <1>5, <1>6 DEF MaxOf

\* Catch up and literals.
LEMMA EncodeLiteralsInWindow ==
  ASSUME EngineInv, InWindow, EncodeLiterals
  PROVE  InWindow' /\ ctx'.currentOffset = ctx.currentOffset
<1>1. PICK b : b = CatchUp(ip, match)
  OBVIOUS
<1>2. /\ pc = "literals" /\ ip' = ip - b /\ match' = match - b
      /\ call' = call /\ text' = text /\ ctx' = ctx
      /\ UNCHANGED <<offset, filledIp, lowLimit>>
      /\ pc' \in {"idle", "last_literals", "match"}
  BY <1>1 DEF EncodeLiterals, input, Idle, Goto
<1>3. CASE pc' \in {"idle", "last_literals"}
  BY <1>2, <1>3, StopsInWindow
<1>4. CASE pc' = "match"
  <2>1. /\ Typed /\ Accepted /\ InSource /\ Entries /\ Arguments
        /\ filledIp \in Nat /\ offset \in 0..LZ4_DISTANCE_MAX
    BY <1>2 DEF EngineInv, InWindow
  <2>2. /\ ip \in Nat /\ match \in Int /\ anchor \in Nat /\ lowLimit \in Int
        /\ iend \in Nat /\ dictEnd \in Int
    BY <2>1, Ranges, DictType DEF Typed
  <2>3. anchor <= ip /\ ip + MFLIMIT <= iend
    BY <1>2, <2>1 DEF InSource
  <2>4. /\ filledIp = ip /\ Below(ctx.hashTable, Index(ip)) /\ Same4(ip, match)
        /\ match = lowLimit \/ InDict(4)
    BY <1>2, <2>1 DEF Entries
  <2>5. /\ b \in Nat /\ b <= ip - anchor /\ SameBytes(ip - b, match - b, b)
        /\ match = lowLimit => b = 0
    BY <1>1, <2>1, <2>3, CatchUpSame
  <2>6. /\ StateSound(ctx') /\ ctx'.currentOffset = ctx.currentOffset
        /\ Arguments' /\ Apart' /\ TableSound(ctx.hashTable)'
    BY <1>2, TableStays
  <2>7. PICK p, q : p = ip - b /\ q = match - b
    OBVIOUS
  <2>8. p \in Int /\ q \in Int /\ p + b = ip /\ q + b = match /\ filledIp - p + 4 = b + 4
    BY <2>2, <2>4, <2>5, <2>7
  <2>9. SameBytes(p, q, b + 4)
    <3>1. SameBytes(p, q, b)
      BY <2>5, <2>7
    <3>2. SameBytes(p + b, q + b, 4)
      BY <2>4, <2>8 DEF Same4
    <3> QED
      BY <2>5, <2>8, <3>1, <3>2, RunsJoin
  <2>10. SameBytes(ip, match, filledIp - ip + 4)'
    <3>1. \A i \in 0..(b + 4) - 1 : Text(p + i) = Text(q + i)
      BY <2>9 DEF SameBytes
    <3>2. ip' = p /\ match' = q /\ filledIp' - ip' + 4 = b + 4
      BY <1>2, <2>7, <2>8
    <3> QED
      BY <1>2, <3>1, <3>2 DEF SameBytes, Text
  <2>11. filledIp' = ip' \/ InDict(filledIp - ip + 4)'
    <3>1. CASE match = lowLimit
      BY <1>2, <2>2, <2>4, <2>5, <3>1
    <3>2. CASE InDict(4)
      <4>1. filledIp' - ip' + 4 = b + 4 /\ match' + (b + 4) = match + 4
        BY <1>2, <2>2, <2>7, <2>5, <2>8
      <4> QED
        BY <1>2, <3>2, <4>1, SameArguments DEF InDict
    <3> QED
      BY <2>4, <3>1, <3>2
  <2>12. Index(filledIp)' = Index(ip) /\ iend' = iend
    BY <1>2, <2>4, SameArguments DEF Index
  <2>13. Below(ctx.hashTable, Index(filledIp))'
    BY <1>2, <2>4, <2>12 DEF Below
  <2>14. ip' <= filledIp' /\ filledIp' + MFLIMIT <= iend'
    BY <1>2, <2>2, <2>3, <2>4, <2>5, <2>12
  <2>15. Entries'
    BY <1>4, <2>10, <2>11, <2>13, <2>14 DEF Entries, Pending
  <2> QED
    BY <1>2, <2>1, <2>6, <2>15 DEF InWindow
<1> QED
  BY <1>2, <1>3, <1>4

\* The entries that are taken back: none of p and after it is left.
LEMMA ClearSound ==
  ASSUME filling, Arguments, source \in Nat, TableSound(ctx.hashTable), filledIp \in Nat,
         NEW p \in Nat
  PROVE  /\ TableSound(ClearBeyond(p))
         /\ \A h \in Slots : \/ ClearBeyond(p)[h] = 0
                             \/ /\ ClearBeyond(p)[h] = ctx.hashTable[h]
                                /\ source + ctx.hashTable[h] \notin p..filledIp
<1>1. PICK t, u : t = ctx.hashTable /\ u = ClearBeyond(p)
  OBVIOUS
<1>2. /\ t \in [Slots -> Nat] /\ InReach(t) /\ InHash(t)
      /\ startIndex = 0 /\ dictSize = 0 /\ ~maybe_extMem
  BY <1>1 DEF TableSound, Arguments
<1>3. u = [h \in Slots |-> IF \E q \in p..filledIp : LZ4_hashPosition(q) = h THEN 0 ELSE t[h]]
  BY <1>1 DEF ClearBeyond
<1>4. u \in [Slots -> Nat]
  BY <1>2, <1>3
<1>5. ASSUME NEW h \in Slots
      PROVE  u[h] = 0 \/ (u[h] = t[h] /\ source + t[h] \notin p..filledIp)
  <2>1. CASE \E q \in p..filledIp : LZ4_hashPosition(q) = h
    BY <1>3, <2>1
  <2>2. CASE ~\E q \in p..filledIp : LZ4_hashPosition(q) = h
    <3>1. u[h] = t[h]
      BY <1>3, <2>2
    <3>2. ASSUME t[h] # 0 PROVE source + t[h] \notin p..filledIp
      <4>1. source + t[h] - startIndex = source + t[h]
        BY <1>2
      <4>2. LZ4_hashPosition(source + t[h]) = h
        BY <1>2, <3>2, <4>1 DEF InHash
      <4> QED
        BY <2>2, <4>2
    <3> QED
      BY <3>1, <3>2
  <2> QED
    BY <2>1, <2>2
<1>6. InReach(u)
  <2>1. prefixIdxLimit = 0
    BY <1>2 DEF prefixIdxLimit
  <2> QED
    BY <1>4, <2>1 DEF InReach
<1>7. InHash(u)
  BY <1>2, <1>5 DEF InHash
<1> QED
  BY <1>1, <1>2, <1>4, <1>5, <1>6, <1>7 DEF TableSound

\* The match that is encoded covers every position that is in the table, or
\* those it does not cover are taken back.
LEMMA EncodeMatchInWindow ==
  ASSUME EngineInv, InWindow, EncodeMatch
  PROVE  InWindow' /\ ctx'.currentOffset = ctx.currentOffset
<1>1. PICK code, fits, kept, next_, t, u :
        /\ code = MatchCodeAt(ip, match) /\ fits = MatchFits(op + 2, code)
        /\ kept = IF limited /\ ~fits THEN 15 - 1 + (olimit - (op + 2) - 1 - LASTLITERALS) * 255 ELSE code
        /\ next_ = ip + MINMATCH + kept
        /\ t = ctx.hashTable
        /\ u = IF filling /\ ~fits /\ next_ <= filledIp THEN ClearBeyond(next_) ELSE t
  OBVIOUS
<1>2. /\ pc = "match" /\ call' = call /\ text' = text
      /\ UNCHANGED <<offset, filledIp>>
  BY DEF EncodeMatch, input, found
<1>3. \/ pc' \in {"idle", "last_literals"} /\ ctx' = ctx
      \/ /\ filling => op + 2 + 1 + MFLIMIT - MINMATCH <= olimit
         /\ call.output = "limitedOutput" => fits
         /\ ip' = next_
         /\ ctx' = [ctx EXCEPT !.hashTable = u]
         /\ pc' \in {"last_literals", "test_next"}
  BY <1>1 DEF EncodeMatch, Idle, Goto
<1>4. CASE pc' \in {"idle", "last_literals"} /\ ctx' = ctx
  BY <1>2, <1>4, StopsInWindow
<1>5. CASE /\ filling => op + 2 + 1 + MFLIMIT - MINMATCH <= olimit
           /\ call.output = "limitedOutput" => fits
           /\ ip' = next_
           /\ ctx' = [ctx EXCEPT !.hashTable = u]
           /\ pc' \in {"last_literals", "test_next"}
  <2>1. /\ Typed /\ Accepted /\ InSource /\ Entries /\ Arguments /\ TableSound(t)
        /\ filledIp \in Nat /\ offset \in 0..LZ4_DISTANCE_MAX
    BY <1>1, <1>2 DEF EngineInv, InWindow
  <2>2. ip \in Nat /\ anchor <= ip /\ ip + MFLIMIT <= iend /\ t \in [Slots -> Nat]
    BY <1>2, <2>1 DEF Typed, InSource, TableSound
  <2>3. /\ source \in Nat /\ iend \in Nat /\ op \in Nat /\ call.capacity \in Int /\ source <= ip
        /\ anchor \in Nat
    BY <2>1, <2>2, Ranges
  <2>4. code \in Nat
    BY <1>1, <2>1, <2>2, MatchCodeBounds
  <2>5. limited => filling \/ fits
    BY <1>5, <2>1 DEF Typed, CallTyped, Outputs, limited, filling
  <2>6. kept \in Nat /\ (kept = code \/ (filling /\ ~fits))
    <3>1. CASE limited /\ ~fits
      <4>1. op + 11 <= call.capacity
        BY <1>5, <2>3, <2>5, <3>1 DEF olimit, MFLIMIT, MINMATCH
      <4>2. PICK k \in Nat : k = call.capacity - (op + 2) - 6
        BY <2>3, <4>1
      <4>3. olimit - (op + 2) - 1 - LASTLITERALS = k
        BY <2>3, <4>2 DEF olimit, LASTLITERALS
      <4>4. kept = 14 + k * 255
        BY <1>1, <3>1, <4>3
      <4> QED
        BY <2>5, <3>1, <4>2, <4>4
    <3>2. CASE ~(limited /\ ~fits)
      BY <1>1, <2>4, <3>2
    <3> QED
      BY <3>1, <3>2
  <2>7. next_ \in Nat /\ next_ = ip + 4 + kept
    BY <1>1, <2>2, <2>6 DEF MINMATCH
  <2>8. TableSound(u) /\ \A h \in Slots : u[h] = 0 \/ u[h] = t[h]
    <3>1. CASE filling /\ ~fits /\ next_ <= filledIp
      BY <1>1, <2>1, <2>3, <2>7, <3>1, ClearSound
    <3>2. CASE ~(filling /\ ~fits /\ next_ <= filledIp)
      BY <1>1, <2>1, <3>2
    <3> QED
      BY <3>1, <3>2
  <2>9. Below(t, ctx.currentOffset - 4)
    BY <1>1 DEF InWindow, StateSound
  <2>10. Below(u, ctx.currentOffset - 4)
    BY <2>8, <2>9 DEF Below
  <2>11. /\ StateSound(ctx') /\ ctx'.currentOffset = ctx.currentOffset /\ ctx'.hashTable = u
         /\ Arguments' /\ Apart' /\ TableSound(ctx.hashTable)'
    BY <1>2, <1>5, <2>1, <2>8, <2>10, TableChanges
  <2>12. \A q : Index(q) = q - source + startIndex
    BY DEF Index
  <2>13. startIndex \in Nat /\ Index(next_) \in Nat /\ Index(next_) = next_ - source + startIndex
    BY <2>1, <2>2, <2>3, <2>6, <2>7, <2>12 DEF Arguments
  <2>14. Below(u, Index(next_) - 1)
    <3>1. CASE Below(t, Index(ip))
      <4>1. Index(ip) <= Index(next_) - 1 /\ Index(ip) \in Int
        BY <2>2, <2>3, <2>6, <2>7, <2>12, <2>13
      <4> QED
        BY <2>2, <2>8, <2>13, <3>1, <4>1 DEF Below
    <3>2. CASE Pending
      <4>1. Below(t, Index(filledIp)) /\ ip <= filledIp
        BY <1>1, <3>2 DEF Pending
      <4>2. Index(filledIp) = filledIp - source + startIndex
        BY <2>12
      <4>3. CASE filledIp < next_
        <5>1. Index(filledIp) <= Index(next_) - 1 /\ Index(filledIp) \in Int
          BY <2>1, <2>3, <2>7, <2>13, <4>2, <4>3
        <5> QED
          BY <2>2, <2>8, <2>13, <4>1, <5>1 DEF Below
      <4>4. CASE next_ <= filledIp
        <5>1. filling /\ ~fits
          <6>1. code >= filledIp - ip
            BY <1>1, <1>2, <2>1, <3>2, MatchCovers
          <6> QED
            BY <2>1, <2>2, <2>4, <2>6, <2>7, <4>4, <6>1
        <5>2. \A h \in Slots : u[h] = 0 \/ (u[h] = t[h] /\ source + t[h] \notin next_..filledIp)
          BY <1>1, <2>1, <2>3, <2>7, <4>4, <5>1, ClearSound
        <5>3. startIndex = 0
          BY <2>1, <5>1 DEF Arguments
        <5>4. ASSUME NEW h \in Slots, u[h] # 0 PROVE u[h] <= Index(next_) - 1
          <6>1. u[h] = t[h] /\ source + t[h] \notin next_..filledIp /\ t[h] \in Nat
            BY <2>2, <5>2, <5>4
          <6>2. t[h] <= Index(filledIp)
            BY <4>1, <5>4, <6>1 DEF Below
          <6> QED
            BY <2>1, <2>3, <2>7, <2>13, <4>2, <5>3, <6>1, <6>2
        <5> QED
          BY <5>4 DEF Below
      <4> QED
        BY <2>1, <2>7, <4>3, <4>4
    <3> QED
      BY <1>1, <1>2, <2>1, <3>1, <3>2 DEF Entries
  <2>15. Index(ip)' = Index(next_)
    BY <1>2, <1>5, SameArguments DEF Index
  <2>16. Entries'
    BY <1>5, <2>11, <2>14, <2>15 DEF Entries, Below
  <2> QED
    BY <1>2, <2>1, <2>11, <2>16 DEF InWindow
<1> QED
  BY <1>3, <1>4, <1>5

\* The position after a match.
LEMMA TestNextInWindow ==
  ASSUME HashesInSlots, EngineInv, InWindow, TestNext
  PROVE  InWindow' /\ ctx'.currentOffset = ctx.currentOffset
<1>1. PICK p, t, f, h, c, u :
        /\ p = ip /\ t = ctx.hashTable /\ f = PutPosition(t, p - 2)
        /\ h = LZ4_hashPosition(p) /\ c = Candidate(f, h) /\ u = PutPosition(f, p)
  OBVIOUS
<1>2. /\ pc = "test_next" /\ call' = call /\ text' = text
      /\ ctx' = [ctx EXCEPT !.hashTable = u] /\ filledIp' = filledIp
  BY <1>1 DEF TestNext, input
<1>3. \/ /\ Usable(c, p) /\ offset' = Index(p) - c.index /\ pc' = "match" /\ ip' = p
      \/ /\ offset' = offset /\ pc' = "find_match" /\ forwardIp' = p + 1
  BY <1>1 DEF TestNext, Goto, SearchFrom
<1>4. /\ Typed /\ Accepted /\ InSource /\ Entries /\ Arguments /\ TableSound(t)
      /\ filledIp \in Nat /\ offset \in 0..LZ4_DISTANCE_MAX
  BY <1>1, <1>2 DEF EngineInv, InWindow
<1>5. p \in Nat /\ source + 2 <= p /\ p + MFLIMIT <= iend /\ text \in Seq(Byte)
  BY <1>1, <1>2, <1>4 DEF Typed, InSource
<1>6. source \in Nat /\ iend \in Nat
  BY <1>4, Ranges
<1>7. PICK before : before = p - 2
  OBVIOUS
<1>8. before \in Nat /\ source <= before /\ before + MFLIMIT <= iend /\ source <= p
  BY <1>5, <1>6, <1>7 DEF MFLIMIT
<1>9. /\ Index(p) = p - source + startIndex /\ Index(before) = before - source + startIndex
      /\ startIndex \in Nat /\ Index(p) \in Nat /\ p + 5 <= Len(text)
  BY <1>4, <1>5, <1>8, IndexType
<1>10. TableSound(f) /\ Below(f, Index(p) - 1) /\ f \in [Slots -> Nat]
  <2>1. Below(t, Index(p) - 1)
    BY <1>1, <1>2, <1>4 DEF Entries
  <2>2. PICK n \in Int : n = Index(p) - 1
    BY <1>9
  <2>3. Below(t, n) /\ Index(before) <= n
    BY <1>6, <1>5, <1>7, <1>9, <2>1, <2>2
  <2>4. TableSound(PutPosition(t, before)) /\ Below(PutPosition(t, before), n)
    BY <1>4, <1>8, <2>3, PutSound
  <2> QED
    BY <1>1, <1>7, <2>2, <2>4 DEF TableSound
<1>11. TableSound(u) /\ Below(u, Index(p)) /\ Below(u, ctx.currentOffset - 4)
  <2>1. Below(f, Index(p))
    BY <1>9, <1>10 DEF Below
  <2> QED
    BY <1>1, <1>4, <1>5, <1>8, <1>10, <2>1, PutInState
<1>12. /\ StateSound(ctx') /\ ctx'.currentOffset = ctx.currentOffset /\ ctx'.hashTable = u
       /\ Arguments' /\ Apart' /\ TableSound(ctx.hashTable)'
  BY <1>2, <1>4, <1>11, TableChanges
<1>13. \A q : Index(q)' = q - source + startIndex
  BY <1>2, SameArguments DEF Index
<1>14. CASE Usable(c, p) /\ offset' = Index(p) - c.index /\ pc' = "match" /\ ip' = p
  <2>1. h \in Slots
    BY <1>1, <1>5, <1>9, HashType
  <2>2. Index(p) - c.index \in 1..LZ4_DISTANCE_MAX
    <3>1. Index(p) >= 1
      BY <1>5, <1>6, <1>9
    <3> QED
      BY <1>1, <1>4, <1>5, <1>8, <1>10, <1>14, <2>1, <3>1, CandidateSound
  <2>3. Below(u, Index(ip)')
    BY <1>9, <1>11, <1>13, <1>14
  <2>4. Entries'
    BY <1>12, <1>14, <2>3 DEF Entries, Below
  <2> QED
    BY <1>2, <1>4, <1>12, <1>14, <2>2, <2>4 DEF InWindow
<1>15. CASE offset' = offset /\ pc' = "find_match" /\ forwardIp' = p + 1
  <2>1. Index(forwardIp)' - 1 = Index(p) /\ source' < forwardIp'
    BY <1>2, <1>5, <1>6, <1>9, <1>13, <1>15, SameArguments
  <2>2. Entries'
    BY <1>11, <1>12, <1>15, <2>1 DEF Entries, Below
  <2> QED
    BY <1>2, <1>4, <1>12, <1>15, <2>2 DEF InWindow
<1> QED
  BY <1>3, <1>14, <1>15

\* Every step of a call keeps what the table is.
LEMMA CompressStepInWindow ==
  ASSUME HashesInSlots, EngineInv, InWindow, CompressStep
  PROVE  InWindow' /\ ctx'.currentOffset = ctx.currentOffset /\ call' = call
<1>1. call' = call
  BY DEF CompressStep, FirstByte, FindMatch, EncodeLiterals, EncodeMatch, TestNext,
     EncodeLastLiterals, input
<1>2. CASE EncodeLastLiterals
  <2>1. /\ pc = "last_literals" /\ pc' = "idle" /\ ctx' = ctx /\ call' = call /\ text' = text
        /\ filledIp' = filledIp /\ offset' = offset
    BY <1>2 DEF EncodeLastLiterals, EncodeLast, Idle, input, found
  <2> QED
    BY <1>1, <2>1, StopsInWindow
<1> QED
  BY <1>1, <1>2, FirstByteInWindow, FindMatchInWindow, EncodeLiteralsInWindow,
     EncodeMatchInWindow, TestNextInWindow
  DEF CompressStep

\* Candidates are in the window: what the property says of each label.
LEMMA WindowHolds ==
  ASSUME HashesInSlots, EngineInv, InWindow
  PROVE  CandidatesInWindow
<1> SUFFICES ASSUME NEW p \in Probed, NEW table, NEW c,
                    table = IF pc = "test_next" THEN PutPosition(ctx.hashTable, ip - 2)
                            ELSE ctx.hashTable,
                    c = Candidate(table, LZ4_hashPosition(p)), Usable(c, p)
             PROVE  c.index \in prefixIdxLimit..Index(p) - 1 /\ Index(p) - c.index <= LZ4_DISTANCE_MAX
  BY DEF CandidatesInWindow
<1>1. \/ pc = "find_match" /\ forwardIp + step <= mflimitPlusOne /\ p = forwardIp
      \/ pc = "test_next" /\ p = ip
  BY DEF Probed
<1>2. /\ Typed /\ Accepted /\ InSource /\ Entries /\ Arguments /\ TableSound(ctx.hashTable)
  BY <1>1 DEF EngineInv, InWindow
<1>3. source \in Nat /\ iend \in Nat /\ text \in Seq(Byte)
  BY <1>2, Ranges DEF Typed
<1>4. PICK t : t = ctx.hashTable
  OBVIOUS
<1>5. p \in Nat /\ source < p /\ p + MFLIMIT <= iend /\ Below(t, Index(p) - 1)
  <2>1. CASE pc = "find_match" /\ forwardIp + step <= mflimitPlusOne /\ p = forwardIp
    <3>1. p \in Nat /\ step \in Nat
      BY <1>2, <2>1 DEF Typed
    <3>2. step >= 1
      BY <1>2, <2>1 DEF InSource
    <3>3. source < p /\ Below(t, Index(p) - 1)
      BY <1>2, <1>4, <2>1 DEF Entries
    <3> QED
      BY <1>3, <2>1, <3>1, <3>2, <3>3 DEF mflimitPlusOne, MFLIMIT
  <2>2. CASE pc = "test_next" /\ p = ip
    <3>1. p \in Nat
      BY <1>2, <2>2 DEF Typed
    <3>2. source + 2 <= p /\ p + MFLIMIT <= iend
      BY <1>2, <2>2 DEF InSource
    <3>3. Below(t, Index(p) - 1)
      BY <1>2, <1>4, <2>2 DEF Entries
    <3> QED
      BY <1>3, <3>1, <3>2, <3>3
  <2> QED
    BY <1>1, <2>1, <2>2
<1>6. /\ Index(p) \in Nat /\ Index(p) = p - source + startIndex /\ startIndex \in Nat
      /\ p + 5 <= Len(text) /\ source <= p
  BY <1>2, <1>3, <1>5, IndexType
<1>7. TableSound(table) /\ Below(table, Index(p) - 1)
  <2>1. CASE pc = "test_next"
    <3>1. PICK before : before = p - 2
      OBVIOUS
    <3>2. source + 2 <= p
      BY <1>1, <1>2, <2>1 DEF InSource
    <3>3. before \in Nat /\ source <= before /\ before + MFLIMIT <= iend
      BY <1>3, <1>5, <3>1, <3>2 DEF MFLIMIT
    <3>4. Index(before) = before - source + startIndex
      BY DEF Index
    <3>5. PICK n \in Int : n = Index(p) - 1
      BY <1>6
    <3>6. Below(t, n) /\ Index(before) <= n
      BY <1>3, <1>5, <1>6, <3>1, <3>4, <3>5
    <3>7. TableSound(PutPosition(t, before)) /\ Below(PutPosition(t, before), n)
      BY <1>2, <1>4, <3>3, <3>6, PutSound
    <3> QED
      BY <1>1, <1>4, <2>1, <3>1, <3>5, <3>7
  <2>2. CASE pc # "test_next"
    BY <1>2, <1>4, <1>5, <2>2
  <2> QED
    BY <2>1, <2>2
<1>8. LZ4_hashPosition(p) \in Slots
  BY <1>3, <1>5, <1>6, HashType
<1>9. PICK h : h = LZ4_hashPosition(p)
  OBVIOUS
<1>10. Index(p) >= 1
  BY <1>3, <1>5, <1>6
<1>11. /\ c.index \in prefixIdxLimit..Index(p) - 1 /\ Index(p) - c.index \in 1..LZ4_DISTANCE_MAX
  BY <1>2, <1>5, <1>6, <1>7, <1>8, <1>9, <1>10, CandidateSound
<1> QED
  BY <1>11

---------------------------------------------------------------------------
(* The start of a call.                                                    *)

External(r) == r.dict \in {"usingExtDict", "usingDictCtx"}

\* The state whose dictionary is the history of the call r, made with the state c.
History(c, r) == IF r.dict = "usingDictCtx" THEN c.dictCtx ELSE c

\* No entry of c is both looked at and of no history.
Reaches(c, r) ==
  \A h \in Slots :
    \/ r.small
    \/ c.hashTable[h] >= c.currentOffset - c.dictSize
    \/ r.table = "byU32" /\ c.hashTable[h] + KB64 <= c.currentOffset

\* The call r can be made with the state c: what it needs of its history.
GoodHistory(c, r) ==
  /\ r.table \in {"byU16", "byU32"}
  /\ r.table = "byU16" => /\ ~External(r) /\ r.size < LZ4_64Klimit
                          /\ c.dictSize = 0 /\ (r.small \/ c.currentOffset = 0)
  /\ r.dict = "usingDictCtx" => DictSound(c.dictCtx)
  /\ r.dict # "usingDictCtx" => Reaches(c, r)
  /\ r.output = "fillOutput" => ~External(r) /\ c = ClearedCtx
  /\ External(r) /\ r.size # 0 => r.source # History(c, r).dictionary

\* The parts of a state after a block.
LEMMA AfterCallParts ==
  ASSUME NEW c \in StreamState, NEW n, NEW d, NEW t
  PROVE  /\ AfterCall(c, n, d, t).hashTable = c.hashTable
         /\ AfterCall(c, n, d, t).currentOffset = c.currentOffset + n
         /\ AfterCall(c, n, d, t).dictSize = IF d THEN n ELSE c.dictSize + n
         /\ AfterCall(c, n, d, t).dictCtx = IF d THEN NoCtx ELSE c.dictCtx
         /\ AfterCall(c, n, d, t).dictionary = c.dictionary
<1> DEFINE x == IF d THEN NoCtx ELSE c.dictCtx
           s == IF d THEN n ELSE c.dictSize + n
           o == c.currentOffset + n
<1>1. AfterCall(c, n, d, t) =
        [c EXCEPT !.dictCtx = x, !.dictSize = s, !.currentOffset = o, !.table = t]
  BY DEF AfterCall
<1>2. PICK Ctxs : Ctxs = {NoCtx} \cup DictState
  OBVIOUS
<1>3. c \in StateWith(Ctxs)
  BY <1>2 DEF StreamState
<1> HIDE DEF x, o, s
<1>4. /\ AfterCall(c, n, d, t).hashTable = c.hashTable
      /\ AfterCall(c, n, d, t).currentOffset = o
      /\ AfterCall(c, n, d, t).dictSize = s
      /\ AfterCall(c, n, d, t).dictCtx = x
      /\ AfterCall(c, n, d, t).dictionary = c.dictionary
  BY <1>1, <1>3 DEF StateWith
<1> QED
  BY <1>4 DEF x, o, s

\* It has seen the block.
LEMMA AfterCallSound ==
  ASSUME NEW c \in StreamState, StateSound(c), NEW n \in Nat, NEW d \in BOOLEAN, NEW t
  PROVE  StateSound(AfterCall(c, n, d, t))
<1>1. PICK e : e = AfterCall(c, n, d, t)
  OBVIOUS
<1>2. /\ e.hashTable = c.hashTable /\ e.currentOffset = c.currentOffset + n
      /\ e.dictSize = IF d THEN n ELSE c.dictSize + n
      /\ e.dictCtx = IF d THEN NoCtx ELSE c.dictCtx
  BY <1>1, AfterCallParts
<1>3. c.dictSize \in Nat
  BY DEF StreamState, StateWith
<1>4. /\ c.hashTable \in [Slots -> Nat] /\ c.currentOffset \in Nat
      /\ c.dictSize <= c.currentOffset
      /\ \A h \in Slots : c.hashTable[h] = 0 \/ c.hashTable[h] <= c.currentOffset - 4
      /\ c.dictCtx # NoCtx => DictSound(c.dictCtx)
  BY DEF StateSound, Below
<1>5. \A h \in Slots : e.hashTable[h] = 0 \/ e.hashTable[h] <= e.currentOffset - 4
  BY <1>2, <1>4
<1>6. e.dictSize <= e.currentOffset
  BY <1>2, <1>3, <1>4
<1>7. e.dictCtx # NoCtx => DictSound(e.dictCtx)
  BY <1>2, <1>4
<1>8. e.hashTable \in [Slots -> Nat] /\ e.currentOffset \in Nat
  BY <1>2, <1>4
<1> QED
  BY <1>1, <1>5, <1>6, <1>7, <1>8 DEF StateSound, Below

\* What a call leaves of the state it is made with.
LEMMA StartLeaves ==
  ASSUME NEW c \in StreamState, NEW r, r.size \in Int, LZ4_compress_generic(c, r)
  PROVE  \/ /\ pc' = "idle" /\ ctx' = c
            /\ r.size \in 1..LZ4_MAX_INPUT_SIZE => r.output = "fillOutput"
         \/ /\ r.size \in 1..LZ4_MAX_INPUT_SIZE
            /\ pc' = IF r.size < LZ4_minLength THEN "last_literals" ELSE "first_byte"
            /\ ctx' = AfterCall(c, r.size, r.dict = "usingDictCtx", r.table)
BY MaxInputType DEF LZ4_compress_generic, Idle, Goto, AfterCall

\* What is derived from the arguments of a call.
LEMMA StartValues ==
  ASSUME NEW c, NEW r, LZ4_compress_generic(c, r)
  PROVE  /\ startIndex' = c.currentOffset /\ source' = r.source /\ iend' = r.source + r.size
         /\ (usingCtx' <=> r.dict = "usingDictCtx") /\ (maybe_extMem' <=> External(r))
         /\ (filling' <=> r.output = "fillOutput")
         /\ dictSize' = History(c, r).dictSize /\ dictionary' = History(c, r).dictionary
         /\ prefixIdxLimit' = c.currentOffset - History(c, r).dictSize
         /\ call'.table = r.table /\ call'.small = r.small /\ call'.size = r.size
         /\ call'.ctx = c
         /\ ip' = r.source /\ filledIp' = r.source /\ offset' = 0
<1>1. /\ call'.source = r.source /\ call'.size = r.size /\ call'.output = r.output
      /\ call'.dict = r.dict /\ call'.table = r.table /\ call'.small = r.small
      /\ call'.startIndex = c.currentOffset /\ call'.ctx = c
      /\ ip' = r.source /\ filledIp' = r.source /\ offset' = 0
  BY DEF LZ4_compress_generic, StartCall
<1>2. /\ startIndex' = c.currentOffset /\ source' = r.source /\ iend' = r.source + r.size
      /\ (usingCtx' <=> r.dict = "usingDictCtx") /\ (maybe_extMem' <=> External(r))
      /\ (filling' <=> r.output = "fillOutput")
  BY <1>1 DEF startIndex, source, iend, usingCtx, maybe_extMem, filling, External
<1>3. dictSize' = History(c, r).dictSize /\ dictionary' = History(c, r).dictionary
  BY <1>1, <1>2 DEF dictSize, dictionary, History
<1>4. prefixIdxLimit' = c.currentOffset - History(c, r).dictSize
  BY <1>2, <1>3 DEF prefixIdxLimit
<1> QED
  BY <1>1, <1>2, <1>3, <1>4

\* A call starts in the window.
LEMMA StartInWindow ==
  ASSUME NEW c \in StreamState, StateSound(c), NEW r, r.size \in Int, r.source \in Nat,
         r.dict = "usingDictCtx" => c.dictCtx \in DictState,
         GoodHistory(c, r), LZ4_compress_generic(c, r)
  PROVE  InWindow'
<1>1. /\ startIndex' = c.currentOffset /\ source' = r.source /\ iend' = r.source + r.size
      /\ (usingCtx' <=> r.dict = "usingDictCtx") /\ (maybe_extMem' <=> External(r))
      /\ (filling' <=> r.output = "fillOutput")
      /\ dictSize' = History(c, r).dictSize /\ dictionary' = History(c, r).dictionary
      /\ prefixIdxLimit' = c.currentOffset - History(c, r).dictSize
      /\ call'.table = r.table /\ call'.small = r.small /\ call'.size = r.size
      /\ call'.ctx = c
      /\ ip' = r.source /\ filledIp' = r.source /\ offset' = 0
  BY StartValues
<1>2. \/ pc' = "idle" /\ ctx' = c
      \/ /\ r.size \in 1..LZ4_MAX_INPUT_SIZE /\ pc' \in {"last_literals", "first_byte"}
         /\ ctx' = AfterCall(c, r.size, r.dict = "usingDictCtx", r.table)
  BY StartLeaves
<1>3. filledIp' \in Nat /\ offset' \in 0..LZ4_DISTANCE_MAX
  BY <1>1, DistanceAssumption DEF MFLIMIT
<1>4. CASE pc' = "idle" /\ ctx' = c
  BY <1>3, <1>4 DEF InWindow
<1>5. CASE /\ r.size \in 1..LZ4_MAX_INPUT_SIZE /\ pc' \in {"last_literals", "first_byte"}
           /\ ctx' = AfterCall(c, r.size, r.dict = "usingDictCtx", r.table)
  <2>1. PICK n, d, t, o, e, l :
          /\ n = r.size /\ d = (r.dict = "usingDictCtx") /\ t = c.hashTable /\ o = c.currentOffset
          /\ e = AfterCall(c, n, d, r.table) /\ l = c.dictSize
    OBVIOUS
  <2>2. n \in Nat /\ n >= 1 /\ d \in BOOLEAN /\ ctx' = e
    BY <1>5, <2>1, MaxInputType
  <2>3. StateSound(e)
    <3>1. PICK k : k = r.table
      OBVIOUS
    <3>2. StateSound(AfterCall(c, n, d, k))
      BY <2>2, AfterCallSound
    <3> QED
      BY <2>1, <3>1, <3>2
  <2>4. e.hashTable = t /\ e.currentOffset = o + n
    <3>1. PICK k : k = r.table
      OBVIOUS
    <3>2. /\ AfterCall(c, n, d, k).hashTable = c.hashTable
          /\ AfterCall(c, n, d, k).currentOffset = c.currentOffset + n
      BY AfterCallParts
    <3> QED
      BY <2>1, <3>1, <3>2
  <2>5. /\ t \in [Slots -> Nat] /\ o \in Nat /\ l \in Nat /\ l <= o
        /\ \A h \in Slots : t[h] = 0 \/ t[h] <= o - 4
    <3>1. l \in Nat
      BY <2>1 DEF StreamState, StateWith
    <3> QED
      BY <2>1, <3>1 DEF StateSound, Below
  <2>6. r.dict = "usingDictCtx" => DictSound(c.dictCtx)
    BY DEF GoodHistory
  <2>7. r.output = "fillOutput" => ~External(r) /\ o = 0 /\ l = 0 /\ \A h \in Slots : t[h] = 0
    <3>1. ASSUME c = ClearedCtx PROVE o = 0 /\ l = 0 /\ \A h \in Slots : t[h] = 0
      BY <2>1, <3>1 DEF ClearedCtx
    <3> QED
      BY <3>1 DEF GoodHistory
  <2>8. dictSize' = l \/ usingCtx'
    BY <1>1, <2>1 DEF History
  <2>9. Arguments'
    <3>1. startIndex' \in Nat /\ ctx'.currentOffset = startIndex' + call'.size
      BY <1>1, <2>1, <2>2, <2>4, <2>5
    <3>2. call'.table \in {"byU16", "byU32"}
      BY <1>1 DEF GoodHistory
    <3>3. ASSUME call'.table = "byU16"
          PROVE  /\ ~maybe_extMem' /\ call'.size < LZ4_64Klimit
                 /\ dictSize' = 0 /\ (call'.small \/ startIndex' = 0)
      <4>1. ~External(r) /\ r.size < LZ4_64Klimit /\ l = 0 /\ (r.small \/ o = 0)
        BY <1>1, <2>1, <3>3 DEF GoodHistory
      <4> QED
        BY <1>1, <2>1, <2>8, <4>1 DEF usingCtx, maybe_extMem
    <3>4. usingCtx' => DictSound(call'.ctx.dictCtx)
      BY <1>1, <2>6
    <3>5. ~usingCtx' => dictSize' <= startIndex'
      BY <1>1, <2>1, <2>5, <2>8
    <3>6. filling' => ~maybe_extMem' /\ startIndex' = 0 /\ dictSize' = 0
      BY <1>1, <2>1, <2>7, <2>8 DEF usingCtx, maybe_extMem
    <3>7. /\ startIndex' \in Nat /\ ctx'.currentOffset = startIndex' + call'.size
          /\ call'.table \in {"byU16", "byU32"}
          /\ call'.table = "byU16" => /\ ~maybe_extMem' /\ call'.size < LZ4_64Klimit
                                      /\ dictSize' = 0 /\ (call'.small \/ startIndex' = 0)
          /\ usingCtx' => DictSound(call'.ctx.dictCtx)
          /\ ~usingCtx' => dictSize' <= startIndex'
          /\ filling' => ~maybe_extMem' /\ startIndex' = 0 /\ dictSize' = 0
      BY <3>1, <3>2, <3>3, <3>4, <3>5, <3>6
    <3>8. \A u : DictSound(u)' <=> DictSound(u)
      BY DEF DictSound
    <3>9. LZ4_64Klimit' = LZ4_64Klimit
      BY DEF LZ4_64Klimit
    <3> QED
      BY <3>7, <3>8, <3>9 DEF Arguments
  <2>10. Apart'
    BY <1>1, <2>1, <2>2 DEF GoodHistory, Apart
  <2>11. ASSUME NEW h \in Slots
         PROVE  \/ r.small \/ t[h] >= prefixIdxLimit' \/ (usingCtx' /\ t[h] < o)
                \/ r.table = "byU32" /\ t[h] + KB64 <= o
    <3>1. CASE usingCtx'
      <4>1. prefixIdxLimit' = o - c.dictCtx.dictSize
        BY <1>1, <2>1, <3>1 DEF History
      <4>2. c.dictCtx.dictSize \in Nat
        <5>1. c.dictCtx \in DictState
          BY <1>1, <3>1
        <5> QED
          BY <5>1 DEF DictState, StateWith
      <4>3. t[h] = 0 \/ t[h] <= o - 4
        BY <2>5
      <4>4. t[h] \in Nat
        BY <2>5
      <4> QED
        BY <2>5, <3>1, <4>1, <4>2, <4>3, <4>4
    <3>2. CASE ~usingCtx'
      <4>1. Reaches(c, r) /\ prefixIdxLimit' = o - l
        BY <1>1, <2>1, <3>2 DEF GoodHistory, History
      <4> QED
        BY <2>1, <4>1 DEF Reaches
    <3> QED
      BY <3>1, <3>2
  <2>12. InReach(t)'
    BY <1>1, <2>1, <2>11 DEF InReach
  <2>13. OneSide(t)'
    <3>1. \A h \in Slots : t[h] >= o \/ t[h] = 0 \/ t[h] + 4 <= o
      BY <2>5
    <3> QED
      BY <1>1, <2>1, <3>1 DEF OneSide
  <2>14. filling' => InHash(t)'
    BY <1>1, <2>7 DEF InHash
  <2>15. TableSound(t)'
    <3>1. t \in [Slots -> Nat]
      BY <2>5
    <3> QED
      BY <2>12, <2>13, <2>14, <3>1 DEF TableSound
  <2>16. Below(t, o)
    BY <2>5 DEF Below
  <2>17. Entries'
    <3>1. ctx'.hashTable = t
      BY <2>2, <2>4
    <3>2. Below(ctx'.hashTable, startIndex')
      BY <1>1, <2>1, <2>16, <3>1
    <3>3. ip' = source'
      BY <1>1
    <3>4. pc' \in {"last_literals", "first_byte"}
      BY <1>5
    <3>5. Below(ctx.hashTable, startIndex)'
      BY <3>2 DEF Below
    <3> QED
      BY <3>3, <3>4, <3>5 DEF Entries
  <2>18. StateSound(ctx)'
    <3>1. StateSound(e)'
      BY <2>3 DEF StateSound, Below, DictSound
    <3> QED
      BY <2>2, <2>3 DEF StateSound, Below, DictSound
  <2>19. TableSound(ctx.hashTable)'
    BY <2>2, <2>4, <2>15 DEF TableSound, InReach, OneSide, InHash
  <2> QED
    BY <1>3, <2>9, <2>10, <2>17, <2>18, <2>19 DEF InWindow
<1> QED
  BY <1>2, <1>4, <1>5

---------------------------------------------------------------------------
(* The states that are prepared for a call.                                *)

\* The state LZ4_initStream leaves.
LEMMA ClearedSound == StateSound(ClearedCtx)
<1>1. [h \in Slots |-> 0] \in [Slots -> Nat]
  OBVIOUS
<1>2. PICK zero : zero = [h \in Slots |-> 0]
  OBVIOUS
<1>3. /\ ClearedCtx.hashTable = zero /\ ClearedCtx.currentOffset = 0 /\ ClearedCtx.dictSize = 0
      /\ ClearedCtx.dictCtx = NoCtx
  BY <1>2 DEF ClearedCtx
<1>4. \A h \in Slots : ClearedCtx.hashTable[h] = 0
  BY <1>2, <1>3
<1> QED
  BY <1>1, <1>2, <1>3, <1>4 DEF StateSound, Below

\* A table moved past what it holds, or too far from it.
LEMMA PreparedSound ==
  ASSUME NEW c \in StreamState, StateSound(c), NEW n, NEW t
  PROVE  LET e == LZ4_prepareTable(c, n, t)
         IN  /\ StateSound(e) /\ e.dictCtx = NoCtx
             /\ t = "byU32" => \A h \in Slots : \/ e.hashTable[h] >= e.currentOffset
                                                \/ e.hashTable[h] + KB64 <= e.currentOffset
<1> DEFINE d == IF c.table # "clearedTable" /\ MustReset(c, n, t) THEN ClearedCtx ELSE c
           o == IF d.currentOffset # 0 /\ t = "byU32" THEN d.currentOffset + KB64
                ELSE d.currentOffset
<1>1. d \in StreamState /\ StateSound(d)
  BY ClearedType, DictIsStream, ClearedSound
<1>2. LZ4_prepareTable(c, n, t) =
        [d EXCEPT !.currentOffset = o, !.dictCtx = NoCtx, !.dictionary = NULL, !.dictSize = 0]
  BY DEF LZ4_prepareTable
<1>3. PICK e : e = LZ4_prepareTable(c, n, t)
  OBVIOUS
<1>4. /\ d.currentOffset \in Nat /\ o \in Nat /\ d.currentOffset <= o
      /\ t = "byU32" => o = 0 \/ o = d.currentOffset + KB64
  BY <1>1, WindowType DEF StateSound
<1> HIDE DEF d, o
<1>5. e.hashTable = d.hashTable /\ e.currentOffset = o /\ e.dictSize = 0 /\ e.dictCtx = NoCtx
  BY <1>1, <1>2, <1>3 DEF StreamState, StateWith
<1>6. d.hashTable \in [Slots -> Nat] /\ \A h \in Slots : d.hashTable[h] = 0 \/ d.hashTable[h] <= d.currentOffset - 4
  BY <1>1 DEF StateSound, Below
<1>7. \A h \in Slots : e.hashTable[h] = 0 \/ e.hashTable[h] <= e.currentOffset - 4
  BY <1>4, <1>5, <1>6
<1>8. t = "byU32" => \A h \in Slots : \/ e.hashTable[h] >= e.currentOffset
                                      \/ e.hashTable[h] + KB64 <= e.currentOffset
  BY <1>4, <1>5, <1>6, WindowType
<1> QED
  BY <1>3, <1>4, <1>5, <1>6, <1>7, <1>8 DEF StateSound, Below

\* A dictionary that is loaded.
LEMMA LoadedSound ==
  ASSUME NEW t, NEW size \in Nat, NEW slow
  PROVE  LET loaded == LZ4_loadDict(t, 0, size, slow)
         IN  StateSound(loaded) /\ (loaded.dictSize # 0 => DictSound(loaded))
<1>1. PICK d : d = LZ4_loadDict(t, 0, size, slow)
  OBVIOUS
<1>2. /\ d \in DictState /\ d.currentOffset = KB64
      /\ \/ d.dictSize = 0 /\ \A h \in Slots : d.hashTable[h] = 0
         \/ /\ d.dictSize <= KB64
            /\ d.hashTable \in [Slots -> {0} \cup (KB64 - d.dictSize..KB64 - 8)]
  BY <1>1, LoadedType
<1>3. d.dictCtx = NoCtx /\ d.dictSize \in Nat /\ d.hashTable \in [Slots -> Int]
  BY <1>2 DEF DictState, StateWith
<1>4. CASE d.dictSize = 0 /\ \A h \in Slots : d.hashTable[h] = 0
  <2>1. d.hashTable \in [Slots -> Nat]
    BY <1>3, <1>4
  <2> QED
    BY <1>1, <1>2, <1>3, <1>4, <2>1, WindowType DEF StateSound, Below
<1>5. CASE d.dictSize <= KB64 /\ d.hashTable \in [Slots -> {0} \cup (KB64 - d.dictSize..KB64 - 8)]
  <2>1. \A h \in Slots : d.hashTable[h] = 0 \/ d.hashTable[h] \in KB64 - d.dictSize..KB64 - 8
    BY <1>5
  <2>2. \A h \in Slots : d.hashTable[h] \in Nat
    BY <1>3, <1>5, <2>1, WindowType
  <2>3. d.hashTable \in [Slots -> Nat]
    BY <1>3, <2>2
  <2>4. DictSound(d)
    BY <1>2, <1>5, <2>1, <2>3 DEF DictSound
  <2>5. \A h \in Slots : d.hashTable[h] = 0 \/ d.hashTable[h] <= d.currentOffset - 4
    BY <1>2, <1>3, <2>1, WindowType
  <2>6. StateSound(d)
    BY <1>2, <1>3, <1>5, <2>3, <2>5, WindowType DEF StateSound, Below
  <2> QED
    BY <1>1, <2>4, <2>6
<1> QED
  BY <1>2, <1>4, <1>5

\* A dictionary is attached to a state.
LEMMA AttachedSound ==
  ASSUME NEW c \in StreamState, StateSound(c), NEW d, d.dictSize # 0 => DictSound(d)
  PROVE  StateSound(LZ4_attach_dictionary(c, d))
<1> DEFINE o == IF c.currentOffset = 0 THEN KB64 ELSE c.currentOffset
           e == IF d.dictSize = 0 THEN NoCtx ELSE d
<1>1. LZ4_attach_dictionary(c, d) = [c EXCEPT !.currentOffset = o, !.dictCtx = e]
  BY DEF LZ4_attach_dictionary
<1>2. e # NoCtx => DictSound(e)
  OBVIOUS
<1>3. o \in Nat /\ c.currentOffset <= o
  BY WindowType DEF StateSound
<1> HIDE DEF o, e
<1>4. PICK Ctxs, a : Ctxs = {NoCtx} \cup DictState /\ a = LZ4_attach_dictionary(c, d)
  OBVIOUS
<1>5. c \in StateWith(Ctxs)
  BY <1>4 DEF StreamState
<1>6. a.hashTable = c.hashTable /\ a.currentOffset = o /\ a.dictSize = c.dictSize /\ a.dictCtx = e
  BY <1>1, <1>4, <1>5 DEF StateWith
<1>7. /\ c.hashTable \in [Slots -> Nat] /\ c.currentOffset \in Nat /\ c.dictSize <= c.currentOffset
      /\ \A h \in Slots : c.hashTable[h] = 0 \/ c.hashTable[h] <= c.currentOffset - 4
  BY DEF StateSound, Below
<1>8. c.dictSize \in Nat
  BY <1>5 DEF StateWith
<1>9. \A h \in Slots : a.hashTable[h] = 0 \/ a.hashTable[h] <= a.currentOffset - 4
  BY <1>3, <1>6, <1>7
<1>10. a.dictSize <= a.currentOffset
  BY <1>3, <1>6, <1>7, <1>8
<1> QED
  BY <1>2, <1>3, <1>4, <1>6, <1>7, <1>9, <1>10 DEF StateSound, Below

\* A dictionary context is a state of its own.
LEMMA DictStateSound ==
  ASSUME NEW d \in DictState, DictSound(d)
  PROVE  /\ StateSound(d)
         /\ \A h \in Slots : d.hashTable[h] >= KB64 - d.dictSize \/ d.hashTable[h] + KB64 <= KB64
<1>1. d.dictCtx = NoCtx /\ d.dictSize \in Nat
  BY DEF DictState, StateWith
<1>2. /\ d.currentOffset = KB64 /\ d.dictSize <= KB64
      /\ d.hashTable \in [Slots -> Nat]
      /\ \A h \in Slots : d.hashTable[h] = 0 \/ d.hashTable[h] \in KB64 - d.dictSize..KB64 - 8
  BY DEF DictSound
<1>3. \A h \in Slots : d.hashTable[h] = 0 \/ d.hashTable[h] <= d.currentOffset - 4
  BY <1>1, <1>2, WindowType
<1>4. \A h \in Slots : d.hashTable[h] >= KB64 - d.dictSize \/ d.hashTable[h] + KB64 <= KB64
  BY <1>1, <1>2, WindowType
<1> QED
  BY <1>1, <1>2, <1>3, <1>4, WindowType DEF StateSound, Below

\* Another history, no longer than what the state has seen.
LEMMA HistorySound ==
  ASSUME NEW c \in StreamState, StateSound(c), NEW p, NEW n \in Nat, n <= c.currentOffset
  PROVE  StateSound(WithHistory(c, p, n))
<1>1. PICK Ctxs, e : Ctxs = {NoCtx} \cup DictState /\ e = WithHistory(c, p, n)
  OBVIOUS
<1>2. c \in StateWith(Ctxs)
  BY <1>1 DEF StreamState
<1>3. e.hashTable = c.hashTable /\ e.currentOffset = c.currentOffset /\ e.dictSize = n /\ e.dictCtx = c.dictCtx
  BY <1>1, <1>2 DEF StateWith, WithHistory
<1> QED
  BY <1>1, <1>3 DEF StateSound, Below

\* The indexes that start over.
LEMMA RenormSound ==
  ASSUME NEW c \in StreamState, StateSound(c), NEW n \in Nat, KB64 + n <= TwoGB
  PROVE  StateSound(LZ4_renormDictT(c, n))
<1> DEFINE delta == c.currentOffset - KB64
           kept == MinOf(c.dictSize, KB64)
           table == [h \in Slots |-> MaxOf(0, c.hashTable[h] - delta)]
           moved == [c EXCEPT !.hashTable = table, !.currentOffset = KB64, !.dictSize = kept,
                              !.dictionary = @ + c.dictSize - kept]
<1>1. PICK Ctxs : Ctxs = {NoCtx} \cup DictState
  OBVIOUS
<1>2. c \in StateWith(Ctxs)
  BY <1>1 DEF StreamState
<1>3. LZ4_renormDictT(c, n) = IF c.currentOffset + n <= TwoGB THEN c ELSE moved
  BY DEF LZ4_renormDictT
<1>4. CASE c.currentOffset + n <= TwoGB
  BY <1>3, <1>4
<1>5. CASE ~(c.currentOffset + n <= TwoGB)
  <2>1. /\ c.hashTable \in [Slots -> Nat] /\ c.currentOffset \in Nat
        /\ \A h \in Slots : c.hashTable[h] = 0 \/ c.hashTable[h] <= c.currentOffset - 4
        /\ c.dictCtx # NoCtx => DictSound(c.dictCtx)
    BY DEF StateSound, Below
  <2>2. delta \in Nat /\ delta > 0
    BY <1>5, <2>1, StreamAssumption, WindowType
  <2>3. kept \in Nat /\ kept <= KB64
    BY <1>2, WindowType DEF MinOf, StateWith
  <2>4. \A h \in Slots : /\ table[h] \in Nat
                         /\ table[h] = 0 \/ table[h] <= KB64 - 4
    <3>1. ASSUME NEW h \in Slots PROVE table[h] \in Nat /\ (table[h] = 0 \/ table[h] <= KB64 - 4)
      <4>1. PICK e \in Nat : e = c.hashTable[h]
        BY <2>1
      <4>2. table[h] = MaxOf(0, e - delta)
        BY <4>1
      <4>3. e = 0 \/ e <= c.currentOffset - 4
        BY <2>1, <4>1
      <4> QED
        BY <2>1, <2>2, <4>2, <4>3, WindowType DEF MaxOf
    <3> QED
      BY <3>1
  <2>5. table \in [Slots -> Nat]
    BY <2>4
  <2> HIDE DEF delta, kept, table
  <2>6. moved.hashTable = table /\ moved.currentOffset = KB64 /\ moved.dictSize = kept /\ moved.dictCtx = c.dictCtx
    BY <1>2 DEF StateWith
  <2> HIDE DEF moved
  <2>7. StateSound(moved)
    BY <2>1, <2>3, <2>4, <2>5, <2>6, WindowType DEF StateSound, Below
  <2> QED
    BY <1>3, <1>5, <2>7
<1> QED
  BY <1>4, <1>5

---------------------------------------------------------------------------
(* Blocks of a stream.                                                     *)

\* Entries older than the history are ignored, or too far.
LEMMA SmallReaches ==
  ASSUME NEW c \in StreamState, StateSound(c), NEW r, r.table = "byU32", r.small = DictSmall(c)
  PROVE  Reaches(c, r)
<1>1. c.dictSize \in Nat
  BY DEF StreamState, StateWith
<1>2. c.hashTable \in [Slots -> Nat] /\ c.currentOffset \in Nat /\ c.dictSize <= c.currentOffset
  BY DEF StateSound
<1>3. r.small \/ c.dictSize >= KB64 \/ c.dictSize = c.currentOffset
  <2>1. DictSmall(c) \/ c.dictSize >= KB64 \/ c.dictSize = c.currentOffset
    BY <1>1, <1>2, WindowType DEF DictSmall
  <2>2. DictSmall(c) => r.small
    OBVIOUS
  <2> QED
    BY <2>1, <2>2
<1>4. ASSUME NEW h \in Slots
      PROVE  \/ r.small \/ c.hashTable[h] >= c.currentOffset - c.dictSize
             \/ c.hashTable[h] + KB64 <= c.currentOffset
  <2>1. PICK e \in Nat, o \in Nat, l \in Nat : e = c.hashTable[h] /\ o = c.currentOffset /\ l = c.dictSize
    BY <1>1, <1>2
  <2> QED
    BY <1>3, <2>1, WindowType
<1> QED
  BY <1>4 DEF Reaches

\* The end of the history of the state c.
End(c) == c.dictionary + c.dictSize

\* What LZ4_compress_fast_continue makes of the state, and the call it makes
\* with it.  If the source is where the history of the call begins, then it
\* begins within the history of the stream, and ends after it.
LEMMA ContinueCall ==
  ASSUME ctx \in StreamState, StateSound(ctx), NEW src \in Nat, NEW n \in Nat, KB64 + n <= TwoGB,
         NEW capacity, NEW acceleration,
         LZ4_compress_fast_continue(src, n, capacity, acceleration)
  PROVE  \E c \in StreamState :
           /\ StateSound(c) /\ c.dictCtx = ctx.dictCtx
           /\ \/ /\ onExit' = "return" /\ End(c) = src
                 /\ LZ4_compress_generic(c, BlockOf(src, n, capacity, "withPrefix64k", DictSmall(c), acceleration))
                 /\ \/ c.dictionary = src /\ c.dictSize = 0
                    \/ ctx.dictSize # 0 /\ End(ctx) = src /\ ctx.dictionary <= c.dictionary
              \/ /\ onExit' = "rebase"
                 /\ \/ /\ c.dictCtx = NoCtx
                       /\ LZ4_compress_generic(c, BlockOf(src, n, capacity, "usingExtDict", DictSmall(c), acceleration))
                       /\ n # 0 /\ src = c.dictionary =>
                            /\ ctx.dictSize # 0 /\ ctx.dictionary <= src /\ src < End(ctx)
                            /\ End(ctx) <= src + n
                    \/ /\ c.dictCtx # NoCtx
                       /\ LZ4_compress_generic(c.dictCtx, BlockOf(src, n, capacity, "usingExtDict", FALSE, acceleration))
                    \/ /\ c.dictCtx # NoCtx
                       /\ LZ4_compress_generic(c, BlockOf(src, n, capacity, "usingDictCtx", FALSE, acceleration))
<1>1. PICK given, before, old, tiny, new, end, c :
        /\ given = ctx
        /\ before = IF given.dictSize = 0 THEN NULL ELSE given.dictionary + given.dictSize
        /\ old = LZ4_renormDictT(given, n)
        /\ tiny = Tiny(old, src, n, before)
        /\ new = IF tiny THEN [old EXCEPT !.dictSize = 0, !.dictionary = src] ELSE old
        /\ end = IF tiny THEN src ELSE before
        /\ c = WithoutOverlap(new, src + n, end)
  OBVIOUS
<1>2. \/ /\ end = src
         /\ LZ4_compress_generic(c, BlockOf(src, n, capacity, "withPrefix64k", DictSmall(c), acceleration))
         /\ onExit' = "return"
      \/ /\ end # src /\ onExit' = "rebase"
         /\ \/ /\ c.dictCtx = NoCtx
               /\ LZ4_compress_generic(c, BlockOf(src, n, capacity, "usingExtDict", DictSmall(c), acceleration))
            \/ /\ c.dictCtx # NoCtx
               /\ LZ4_compress_generic(c.dictCtx, BlockOf(src, n, capacity, "usingExtDict", FALSE, acceleration))
            \/ /\ c.dictCtx # NoCtx
               /\ LZ4_compress_generic(c, BlockOf(src, n, capacity, "usingDictCtx", FALSE, acceleration))
  BY <1>1 DEF LZ4_compress_fast_continue
<1>3. given \in StreamState /\ StateSound(given)
  BY <1>1
<1>4. given.dictionary \in Int /\ given.dictSize \in Nat
  BY <1>3 DEF StreamState, StateWith
<1>5. /\ old \in StreamState /\ old.dictSize <= given.dictSize /\ old.dictCtx = given.dictCtx
      /\ (old.dictSize = 0 => given.dictSize = 0)
      /\ old.dictionary + old.dictSize = given.dictionary + given.dictSize
  BY <1>1, <1>3, RenormType
<1>6. StateSound(old)
  BY <1>1, <1>3, RenormSound
<1>7. old.dictionary \in Int /\ old.dictSize \in Nat /\ old.currentOffset \in Nat
      /\ old.dictSize <= old.currentOffset
  BY <1>5, <1>6 DEF StreamState, StateWith, StateSound
<1>8. NULL \in Int /\ NULL < 0
  BY SMT DEF NULL
<1>9. tiny => old.dictSize < 4 /\ n > 0 /\ old.dictCtx = NoCtx
  BY <1>1 DEF Tiny
<1>10. old.dictSize = 0 /\ n > 0 /\ old.dictCtx = NoCtx => tiny
  <2>1. before = NULL \/ given.dictSize # 0
    BY <1>1
  <2>2. old.dictSize = 0 => before # src
    BY <1>5, <1>8, <2>1
  <2>3. old.dictSize = 0 /\ n > 0 /\ old.dictCtx = NoCtx => Tiny(old, src, n, before)
    BY <2>2 DEF Tiny
  <2>4. Tiny(old, src, n, before) => tiny
    BY <1>1
  <2> QED
    BY <2>3, <2>4
<1>11. CASE tiny
  <2>1. PICK w : w = WithHistory(old, src, 0)
    OBVIOUS
  <2>2. /\ w \in StreamState /\ w.dictionary = src /\ w.dictSize = 0 /\ w.dictCtx = old.dictCtx
        /\ StateSound(w)
    BY <2>1, <1>5, <1>6, <1>7, WithHistoryType, HistorySound
  <2>3. [old EXCEPT !.dictSize = 0, !.dictionary = src] = w
    <3>1. PICK Ctxs : Ctxs = {NoCtx} \cup DictState
      OBVIOUS
    <3>2. old \in StateWith(Ctxs)
      BY <1>5, <3>1 DEF StreamState
    <3> QED
      BY ONLY <2>1, <3>2 DEF StateWith, WithHistory
  <2>4. new = w /\ end = src
    BY <1>1, <1>11, <2>3
  <2>5. c = w
    <3>1. PICK e : e = src + n
      OBVIOUS
    <3>2. c = WithoutOverlap(w, e, src) /\ e \in Int /\ e >= src
      BY <1>1, <2>4, <3>1
    <3>3. WithoutOverlap(w, e, src) = w
      BY ONLY <2>2, <3>2, OverlapType, src \in Nat
    <3> QED
      BY <3>2, <3>3
  <2>6. End(c) = src
    BY <2>2, <2>5 DEF End
  <2>7. c.dictCtx = ctx.dictCtx
    BY <1>1, <1>5, <2>2, <2>5
  <2> QED
    BY <1>2, <2>2, <2>4, <2>5, <2>6, <2>7
<1>12. CASE ~tiny
  <2>1. new = old /\ end = before /\ c = WithoutOverlap(old, src + n, before)
    BY <1>1, <1>12
  <2>2. before \in Int /\ (given.dictSize = 0 => before < 0) /\ (given.dictSize # 0 => before = End(given))
    BY <1>1, <1>4, <1>8 DEF End
  <2>3. PICK e \in Nat : e = src + n
    OBVIOUS
  <2>4. PICK left, k : left = MinOf(before - e, KB64) /\ k = IF left < 4 THEN 0 ELSE left
    OBVIOUS
  <2>5. c = IF e > old.dictionary /\ e < before
            THEN [old EXCEPT !.dictSize = k, !.dictionary = before - k] ELSE old
    BY <2>1, <2>3, <2>4 DEF WithoutOverlap
  <2>6. CASE e > old.dictionary /\ e < before
    <3>1. given.dictSize # 0 /\ before = old.dictionary + old.dictSize
      BY <1>5, <2>2, <2>6 DEF End
    <3>2. k \in Nat /\ k <= before - e
      BY <2>2, <2>4, <2>6, WindowType DEF MinOf
    <3>3. k <= old.currentOffset
      BY <1>7, <2>6, <3>1, <3>2
    <3>4. PICK q : q = before - k
      OBVIOUS
    <3>5. q \in Int /\ q >= e
      BY <2>2, <3>2, <3>4
    <3>6. PICK w : w = WithHistory(old, q, k)
      OBVIOUS
    <3>7. /\ w \in StreamState /\ w.dictionary = q /\ w.dictSize = k /\ w.dictCtx = old.dictCtx
          /\ StateSound(w)
      BY <1>5, <1>6, <3>2, <3>3, <3>5, <3>6, WithHistoryType, HistorySound
    <3>8. [old EXCEPT !.dictSize = k, !.dictionary = q] = w
      <4>1. PICK Ctxs : Ctxs = {NoCtx} \cup DictState
        OBVIOUS
      <4>2. old \in StateWith(Ctxs)
        BY <1>5, <4>1 DEF StreamState
      <4> QED
        BY ONLY <3>6, <4>2 DEF StateWith, WithHistory
    <3>9. c = w
      BY <2>5, <2>6, <3>4, <3>8
    <3>10. n # 0 => src # c.dictionary
      BY <2>3, <3>5, <3>7, <3>9
    <3>11. end # src
      BY <2>1, <2>3, <2>6
    <3>12. c.dictCtx = ctx.dictCtx
      BY <1>1, <1>5, <3>7, <3>9
    <3> QED
      BY <1>2, <3>7, <3>9, <3>10, <3>11, <3>12
  <2>7. CASE ~(e > old.dictionary /\ e < before)
    <3>1. c = old
      BY <2>5, <2>7
    <3>2. c \in StreamState /\ StateSound(c) /\ c.dictCtx = ctx.dictCtx
      BY <1>1, <1>5, <1>6, <3>1
    <3>3. ASSUME end = src
          PROVE  End(c) = src /\ ctx.dictSize # 0 /\ End(ctx) = src /\ ctx.dictionary <= c.dictionary
      <4>1. given.dictSize # 0 /\ End(given) = src
        BY <2>1, <2>2, <3>3
      <4>2. End(c) = src /\ given.dictionary <= c.dictionary
        BY <1>4, <1>5, <1>7, <3>1, <4>1 DEF End
      <4> QED
        BY <1>1, <4>1, <4>2
    <3>4. ASSUME end # src, c.dictCtx = NoCtx, n # 0, src = c.dictionary
          PROVE  /\ ctx.dictSize # 0 /\ ctx.dictionary <= src /\ src < End(ctx)
                 /\ End(ctx) <= src + n
      <4>1. old.dictSize # 0
        BY <1>10, <1>12, <3>1, <3>4
      <4>2. given.dictSize # 0
        BY <1>5, <1>7, <4>1
      <4>3. before = End(given) /\ before = old.dictionary + old.dictSize
        BY <1>5, <2>2, <4>2 DEF End
      <4>4. given.dictionary <= src /\ src < before
        BY <1>4, <1>5, <1>7, <3>1, <3>4, <4>1, <4>3
      <4>5. before <= src + n
        BY <2>2, <2>3, <2>7, <3>1, <3>4
      <4> QED
        BY <1>1, <4>2, <4>3, <4>4, <4>5
    <3> QED
      BY <1>2, <3>2, <3>3, <3>4
  <2> QED
    BY <2>6, <2>7
<1> QED
  BY <1>11, <1>12

---------------------------------------------------------------------------
(* Where the sender's blocks are.                                          *)

\* Blocks for LZ4_compress_forceExtDict have a byte at least.
ForcedNotEmpty == \A s \in Sessions : s.force => \A b \in s.blocks : b.content # <<>>

\* A block that is to be the history has been seen by the state.
BlockSeen == onExit = "rebase" => call.size \in 0..ctx.currentOffset

\* Where the second of two buffers is.
Half == session.size \div 2 + 1

\* The n bytes at d are the last of the blocks before the next one, or more.
Behind(d, n) ==
  /\ d >= BufferAt
  /\ session.force => n > 0
  /\ session.sender \in {"linear", "ring"} => d + n = BufferAt + next
  /\ session.sender = "double" => /\ d \in {BufferAt, BufferAt + Half} /\ d # BufferAt + next
                                  /\ n <= session.maxBlock
  /\ session.sender = "saved" => ~saved

\* So is the history of c, if it is not below the buffer of the blocks.
Home(c) ==
  /\ \/ c.dictSize = 0 /\ ~session.force
     \/ End(c) < BufferAt
     \/ Behind(c.dictionary, c.dictSize)
  /\ c.dictCtx # NoCtx => c.dictCtx.dictionary < BufferAt

\* The history is where it can not be the place of the next block.
Placed ==
  session # NoSession =>
    /\ session.sender = "double" => next \in {0, Half}
    /\ session.sender = "saved" => next = 0
    /\ onExit = "return" => Home(ctx)
    /\ onExit = "rebase" =>
         /\ (call.size = 0 /\ ~session.force) \/ Behind(source, call.size)
         /\ ctx.dictCtx # NoCtx => ctx.dictCtx.dictionary < BufferAt

\* The numbers of a session.
LEMMA SessionNumbers ==
  ASSUME SessionInv, session # NoSession
  PROVE  /\ BufferAt \in Nat /\ next \in Nat /\ session.size \in Nat /\ session.maxBlock \in Nat
         /\ session.maxBlock <= LZ4_MAX_INPUT_SIZE /\ KB64 + session.maxBlock <= TwoGB
         /\ session.sender \in {"linear", "ring", "double", "saved"}
         /\ session.sender \in {"ring", "double"} => 2 * session.maxBlock <= session.size
         /\ session.force => session.sender = "linear"
         /\ Half \in Nat /\ Half > 0
         /\ session.sender = "double" => session.maxBlock < Half
<1>1. PICK s : s = session
  OBVIOUS
<1>2. s \in Sessions /\ next \in Nat
  BY <1>1 DEF SessionInv, BufferThere
<1>3. /\ s.dict \in Seq(Byte) /\ s.size \in Nat /\ s.maxBlock \in 0..LZ4_MAX_INPUT_SIZE
      /\ KB64 + s.maxBlock <= TwoGB
      /\ s.sender \in {"linear", "ring", "double", "saved"}
      /\ s.sender \in {"ring", "double"} => 2 * s.maxBlock <= s.size
      /\ s.force => s.sender = "linear"
  BY <1>2, SessionsAssumption
<1>4. s.maxBlock \in Nat /\ s.maxBlock <= LZ4_MAX_INPUT_SIZE
  BY <1>3, MaxInputType
<1>5. Len(s.dict) \in Nat
  BY <1>3, LenProperties
<1>6. BufferAt \in Nat
  BY <1>1, <1>5, WindowType DEF BufferAt, SafeAt
<1>7. PICK m \in Nat, k \in Nat : m = s.size /\ k = s.maxBlock
  BY <1>3, <1>4
<1>8. m \div 2 + 1 \in Nat /\ m \div 2 + 1 > 0 /\ (2 * k <= m => k < m \div 2 + 1)
  BY <1>7
<1>9. Half = m \div 2 + 1
  BY <1>1, <1>7 DEF Half
<1> QED
  BY <1>1, <1>2, <1>3, <1>4, <1>6, <1>7, <1>8, <1>9

\* The next block does not lie over all of the history.
LEMMA NotCovered ==
  ASSUME SessionInv, session # NoSession, Home(ctx), saved, next \in {0, Half} \/ session.sender # "double",
         next = 0 \/ session.sender # "saved",
         NEW n \in Nat, n <= session.maxBlock
  PROVE  ~(/\ ctx.dictSize # 0 /\ ctx.dictionary <= BufferAt + Place(n) /\ BufferAt + Place(n) < End(ctx)
           /\ End(ctx) <= BufferAt + Place(n) + n)
<1>1. PICK b, x, m, k, h, d, l, p :
        /\ b = BufferAt /\ x = next /\ m = session.size /\ k = session.maxBlock /\ h = Half
        /\ d = ctx.dictionary /\ l = ctx.dictSize /\ p = Place(n)
  OBVIOUS
<1>2. b \in Nat /\ x \in Nat /\ m \in Nat /\ k \in Nat /\ h \in Nat /\ h > 0
  BY <1>1, SessionNumbers
<1>3. /\ session.sender \in {"linear", "ring", "double", "saved"}
      /\ session.sender \in {"ring", "double"} => 2 * k <= m
      /\ session.sender = "double" => k < h
  BY <1>1, SessionNumbers
<1>4. d \in Int /\ l \in Nat
  BY <1>1 DEF SessionInv, EngineInv, Typed, StreamState, StateWith
<1>5. p = IF session.sender = "ring" /\ x + n > m THEN 0 ELSE x
  BY <1>1 DEF Place
<1>6. End(ctx) = d + l
  BY <1>1 DEF End
<1>7. \/ l = 0
      \/ d + l < b
      \/ /\ session.sender \in {"linear", "ring"} => d + l = b + x
         /\ session.sender = "double" => d \in {b, b + h} /\ d # b + x /\ l <= k
         /\ session.sender # "saved"
  BY <1>1, <1>6 DEF Home, Behind
<1>8. SUFFICES ASSUME l # 0, d <= b + p, b + p < d + l, d + l <= b + p + n
               PROVE  FALSE
  BY <1>1, <1>6
<1>9. p \in Nat /\ n <= k
  BY <1>1, <1>2, <1>5
<1>10. d + l >= b
  BY <1>2, <1>4, <1>8, <1>9
<1>11. CASE session.sender = "linear"
  <2>1. d + l = b + x /\ p = x
    BY <1>2, <1>4, <1>5, <1>7, <1>8, <1>10, <1>11
  <2> QED
    BY <1>2, <1>4, <1>8, <2>1
<1>12. CASE session.sender = "ring"
  <2>1. d + l = b + x /\ 2 * k <= m
    BY <1>2, <1>3, <1>4, <1>7, <1>8, <1>10, <1>12
  <2>2. x + n > m /\ p = 0
    BY <1>2, <1>4, <1>5, <1>8, <1>12, <2>1
  <2> QED
    BY <1>2, <1>4, <1>8, <1>9, <2>1, <2>2
<1>13. CASE session.sender = "double"
  <2>1. d \in {b, b + h} /\ d # b + x /\ l <= k /\ k < h
    BY <1>2, <1>3, <1>4, <1>7, <1>8, <1>10, <1>13
  <2>2. p = x /\ x \in {0, h}
    BY <1>1, <1>5, <1>13
  <2> QED
    BY <1>2, <1>4, <1>8, <2>1, <2>2
<1>14. CASE session.sender = "saved"
  BY <1>2, <1>4, <1>7, <1>8, <1>10, <1>14
<1> QED
  BY <1>3, <1>11, <1>12, <1>13, <1>14

\* The next block goes on where the history ends in a buffer without end, or
\* in a ring buffer.
LEMMA GoesOn ==
  ASSUME SessionInv, session # NoSession, Home(ctx), saved, next \in {0, Half} \/ session.sender # "double",
         NEW n \in Nat, n <= session.maxBlock, ctx.dictSize # 0, End(ctx) = BufferAt + Place(n)
  PROVE  session.sender \in {"linear", "ring"} /\ ctx.dictionary >= BufferAt
<1>1. PICK b, x, m, k, h, d, l, p :
        /\ b = BufferAt /\ x = next /\ m = session.size /\ k = session.maxBlock /\ h = Half
        /\ d = ctx.dictionary /\ l = ctx.dictSize /\ p = Place(n)
  OBVIOUS
<1>2. b \in Nat /\ x \in Nat /\ m \in Nat /\ k \in Nat /\ h \in Nat /\ h > 0
  BY <1>1, SessionNumbers
<1>3. /\ session.sender \in {"linear", "ring", "double", "saved"}
      /\ session.sender = "double" => k < h
  BY <1>1, SessionNumbers
<1>4. d \in Int /\ l \in Nat /\ l # 0
  BY <1>1 DEF SessionInv, EngineInv, Typed, StreamState, StateWith
<1>5. p = IF session.sender = "ring" /\ x + n > m THEN 0 ELSE x
  BY <1>1 DEF Place
<1>6. d + l = b + p /\ p \in Nat
  BY <1>1, <1>2, <1>5 DEF End
<1>7. \/ d + l < b
      \/ /\ d >= b
         /\ session.sender = "double" => d \in {b, b + h} /\ d # b + x /\ l <= k
         /\ session.sender # "saved"
  BY <1>1, <1>4 DEF Home, Behind, End
<1>8. d >= b /\ session.sender # "saved"
  BY <1>2, <1>4, <1>6, <1>7
<1>9. session.sender # "double"
  <2>1. SUFFICES ASSUME session.sender = "double" PROVE FALSE
    OBVIOUS
  <2>2. d \in {b, b + h} /\ d # b + x /\ l <= k /\ k < h
    BY <1>2, <1>3, <1>4, <1>6, <1>7, <2>1
  <2>3. p = x /\ x \in {0, h}
    BY <1>1, <1>5, <2>1
  <2> QED
    BY <1>2, <1>4, <1>6, <2>2, <2>3
<1> QED
  BY <1>1, <1>3, <1>8, <1>9

---------------------------------------------------------------------------
(* The calls of a stream.                                                  *)

\* The call is for the n bytes at p, and the state has seen them.
Sent(p, n) == source = p /\ call.size = n /\ n <= ctx.currentOffset

\* A block is compressed.
LEMMA BlockInWindow ==
  ASSUME NEW c \in StreamState, StateSound(c), NEW r, r.source \in Nat, r.size \in Nat,
         r.size <= LZ4_MAX_INPUT_SIZE, r.output # "fillOutput", r.table = "byU32",
         r.dict = "usingDictCtx" => c.dictCtx \in DictState /\ DictSound(c.dictCtx),
         r.dict # "usingDictCtx" => Reaches(c, r),
         External(r) /\ r.size # 0 => r.source # History(c, r).dictionary,
         LZ4_compress_generic(c, r)
  PROVE  /\ InWindow' /\ source' = r.source /\ call'.size = r.size /\ r.size <= ctx'.currentOffset
         /\ ctx'.dictionary = c.dictionary /\ ctx'.dictCtx \in {NoCtx, c.dictCtx}
         /\ r.dict # "usingDictCtx" => ctx'.dictSize = c.dictSize + r.size
<1>1. GoodHistory(c, r)
  BY DEF GoodHistory
<1>2. InWindow' /\ source' = r.source /\ call'.size = r.size
  BY <1>1, StartInWindow, StartValues
<1>3. c.currentOffset \in Nat /\ c.dictSize \in Nat
  BY DEF StateSound, StreamState, StateWith
<1>4. r.size = 0 \/ r.size \in 1..LZ4_MAX_INPUT_SIZE
  BY MaxInputType
<1>5. \/ ctx' = c /\ r.size = 0
      \/ ctx' = AfterCall(c, r.size, r.dict = "usingDictCtx", r.table)
  BY <1>4, StartLeaves
<1>6. CASE ctx' = c /\ r.size = 0
  BY <1>2, <1>3, <1>6
<1>7. CASE ctx' = AfterCall(c, r.size, r.dict = "usingDictCtx", r.table)
  <2>1. PICK n, d, t, e : /\ n = r.size /\ d = (r.dict = "usingDictCtx") /\ t = r.table
                          /\ e = AfterCall(c, n, d, t)
    OBVIOUS
  <2>2. /\ e.currentOffset = c.currentOffset + n
        /\ e.dictSize = IF d THEN n ELSE c.dictSize + n
        /\ e.dictCtx = IF d THEN NoCtx ELSE c.dictCtx
        /\ e.dictionary = c.dictionary
    BY <2>1, AfterCallParts
  <2>3. ctx' = e
    BY <1>7, <2>1
  <2>4. n <= e.currentOffset
    BY <1>3, <2>1, <2>2
  <2> QED
    BY <1>2, <2>1, <2>2, <2>3, <2>4
<1> QED
  BY <1>5, <1>6, <1>7

\* LZ4_compress_fast_continue.
LEMMA ContinueInWindow ==
  ASSUME SessionInv, InWindow, Placed, session # NoSession, onExit = "return", saved,
         NEW n \in Nat, n <= session.maxBlock, NEW capacity, NEW acceleration,
         NEW src, src = BufferAt + Place(n),
         LZ4_compress_fast_continue(src, n, capacity, acceleration)
  PROVE  /\ InWindow' /\ Sent(src, n)'
         /\ ctx'.dictCtx # NoCtx => ctx'.dictCtx.dictionary < BufferAt
         /\ \/ onExit' = "rebase"
            \/ /\ onExit' = "return" /\ ctx'.dictionary >= BufferAt
               /\ End(ctx') = BufferAt + Place(n) + n
               /\ \/ session.sender \in {"linear", "ring"}
                  \/ ctx'.dictionary = BufferAt + Place(n) /\ ctx'.dictSize = n
<1>1. PICK b : b = BufferAt /\ src = BufferAt + Place(n)
  OBVIOUS
<1>2. b \in Nat /\ src \in Nat /\ b <= src /\ n <= LZ4_MAX_INPUT_SIZE /\ KB64 + n <= TwoGB
  BY <1>1, SessionNumbers, MaxInputType, WindowType, StreamAssumption DEF Place
<1>3. ctx \in StreamState /\ StateSound(ctx) /\ Home(ctx)
      /\ (next \in {0, Half} \/ session.sender # "double")
      /\ (next = 0 \/ session.sender # "saved")
  BY DEF SessionInv, EngineInv, Typed, InWindow, Placed
<1>4. PICK c \in StreamState :
           /\ StateSound(c) /\ c.dictCtx = ctx.dictCtx
           /\ \/ /\ onExit' = "return" /\ End(c) = src
                 /\ LZ4_compress_generic(c, BlockOf(src, n, capacity, "withPrefix64k", DictSmall(c), acceleration))
                 /\ \/ c.dictionary = src /\ c.dictSize = 0
                    \/ ctx.dictSize # 0 /\ End(ctx) = src /\ ctx.dictionary <= c.dictionary
              \/ /\ onExit' = "rebase"
                 /\ \/ /\ c.dictCtx = NoCtx
                       /\ LZ4_compress_generic(c, BlockOf(src, n, capacity, "usingExtDict", DictSmall(c), acceleration))
                       /\ n # 0 /\ src = c.dictionary =>
                            /\ ctx.dictSize # 0 /\ ctx.dictionary <= src /\ src < End(ctx)
                            /\ End(ctx) <= src + n
                    \/ /\ c.dictCtx # NoCtx
                       /\ LZ4_compress_generic(c.dictCtx, BlockOf(src, n, capacity, "usingExtDict", FALSE, acceleration))
                    \/ /\ c.dictCtx # NoCtx
                       /\ LZ4_compress_generic(c, BlockOf(src, n, capacity, "usingDictCtx", FALSE, acceleration))
  BY <1>1, <1>2, <1>3, ContinueCall
<1>5. c.dictCtx # NoCtx => /\ c.dictCtx.dictionary < b /\ c.dictCtx \in DictState /\ DictSound(c.dictCtx)
                           /\ c.dictCtx.dictionary # src
  <2>1. c.dictCtx # NoCtx => c.dictCtx.dictionary < b
    BY <1>1, <1>3, <1>4 DEF Home
  <2>2. c.dictCtx # NoCtx => c.dictCtx \in DictState
    BY DEF StreamState, StateWith
  <2>3. c.dictCtx # NoCtx => c.dictCtx.dictionary \in Int
    BY <2>2 DEF DictState, StateWith
  <2>4. c.dictCtx # NoCtx => c.dictCtx.dictionary # src
    BY <1>2, <2>1, <2>3
  <2>5. c.dictCtx # NoCtx => DictSound(c.dictCtx)
    BY <1>4 DEF StateSound
  <2> QED
    BY <2>1, <2>2, <2>4, <2>5
<1>6. ASSUME NEW d \in StreamState, StateSound(d), NEW dict, NEW small,
             dict = "usingDictCtx" => d.dictCtx # NoCtx /\ d.dictCtx = c.dictCtx,
             dict # "usingDictCtx" => small = DictSmall(d) \/ \A h \in Slots :
                   d.hashTable[h] >= d.currentOffset - d.dictSize \/ d.hashTable[h] + KB64 <= d.currentOffset,
             dict = "usingExtDict" /\ n # 0 => src # d.dictionary,
             dict \in {"withPrefix64k", "usingExtDict", "usingDictCtx"},
             LZ4_compress_generic(d, BlockOf(src, n, capacity, dict, small, acceleration))
      PROVE  /\ InWindow' /\ Sent(src, n)'
             /\ ctx'.dictionary = d.dictionary /\ ctx'.dictCtx \in {NoCtx, d.dictCtx}
             /\ dict # "usingDictCtx" => ctx'.dictSize = d.dictSize + n
  <2>1. PICK r : r = BlockOf(src, n, capacity, dict, small, acceleration)
    OBVIOUS
  <2>2. /\ r.source = src /\ r.size = n /\ r.output = "limitedOutput" /\ r.table = "byU32"
        /\ r.dict = dict /\ r.small = small
    BY <2>1 DEF BlockOf
  <2>3. r.dict = "usingDictCtx" => d.dictCtx \in DictState /\ DictSound(d.dictCtx)
    BY <1>5, <1>6, <2>2
  <2>4. r.dict # "usingDictCtx" => Reaches(d, r)
    <3>1. CASE small = DictSmall(d)
      BY <1>6, <2>2, <3>1, SmallReaches
    <3>2. CASE \A h \in Slots : d.hashTable[h] >= d.currentOffset - d.dictSize \/ d.hashTable[h] + KB64 <= d.currentOffset
      BY <2>2, <3>2 DEF Reaches
    <3> QED
      BY <1>6, <2>2, <3>1, <3>2
  <2>5. External(r) /\ r.size # 0 => r.source # History(d, r).dictionary
    BY <1>5, <1>6, <2>2 DEF External, History
  <2>6. r.source \in Nat /\ r.size \in Nat /\ r.size <= LZ4_MAX_INPUT_SIZE /\ r.output # "fillOutput"
    BY <1>2, <2>2
  <2>7. LZ4_compress_generic(d, r)
    BY <1>6, <2>1
  <2>8. /\ InWindow' /\ source' = r.source /\ call'.size = r.size /\ r.size <= ctx'.currentOffset
        /\ ctx'.dictionary = d.dictionary /\ ctx'.dictCtx \in {NoCtx, d.dictCtx}
        /\ r.dict # "usingDictCtx" => ctx'.dictSize = d.dictSize + r.size
    BY <1>6, <2>2, <2>3, <2>4, <2>5, <2>6, <2>7, BlockInWindow
  <2>9. Sent(src, n)'
    BY <2>2, <2>8 DEF Sent
  <2> QED
    BY <2>2, <2>8, <2>9
<1>7. CASE /\ onExit' = "return" /\ End(c) = src
           /\ LZ4_compress_generic(c, BlockOf(src, n, capacity, "withPrefix64k", DictSmall(c), acceleration))
           /\ \/ c.dictionary = src /\ c.dictSize = 0
              \/ ctx.dictSize # 0 /\ End(ctx) = src /\ ctx.dictionary <= c.dictionary
  <2>1. PICK dict, small : dict = "withPrefix64k" /\ small = DictSmall(c)
    OBVIOUS
  <2>2. /\ InWindow' /\ Sent(src, n)'
        /\ ctx'.dictionary = c.dictionary /\ ctx'.dictCtx \in {NoCtx, c.dictCtx}
        /\ ctx'.dictSize = c.dictSize + n
    BY <1>4, <1>6, <1>7, <2>1
  <2>3. c.dictionary \in Int /\ c.dictSize \in Nat /\ ctx.dictionary \in Int
    BY <1>3 DEF StreamState, StateWith
  <2>4. End(ctx') = src + n
    BY <1>2, <1>7, <2>2, <2>3 DEF End
  <2>5. CASE c.dictionary = src /\ c.dictSize = 0
    BY <1>1, <1>2, <1>5, <1>7, <2>2, <2>4, <2>5
  <2>6. CASE ctx.dictSize # 0 /\ End(ctx) = src /\ ctx.dictionary <= c.dictionary
    <3>1. session.sender \in {"linear", "ring"} /\ ctx.dictionary >= BufferAt
      BY <1>1, <1>3, <2>6, GoesOn
    <3>2. c.dictionary >= b
      BY <1>1, <1>2, <2>3, <2>6, <3>1
    <3> QED
      BY <1>1, <1>5, <1>7, <2>2, <2>4, <3>1, <3>2
  <2> QED
    BY <1>7, <2>5, <2>6
<1>8. CASE /\ onExit' = "rebase" /\ c.dictCtx = NoCtx
           /\ LZ4_compress_generic(c, BlockOf(src, n, capacity, "usingExtDict", DictSmall(c), acceleration))
           /\ n # 0 /\ src = c.dictionary =>
                /\ ctx.dictSize # 0 /\ ctx.dictionary <= src /\ src < End(ctx)
                /\ End(ctx) <= src + n
  <2>1. PICK dict, small : dict = "usingExtDict" /\ small = DictSmall(c)
    OBVIOUS
  <2>2. n # 0 => src # c.dictionary
    BY <1>1, <1>3, <1>8, NotCovered
  <2>3. InWindow' /\ Sent(src, n)' /\ ctx'.dictCtx \in {NoCtx, c.dictCtx}
    BY <1>4, <1>6, <1>8, <2>1, <2>2
  <2> QED
    BY <1>1, <1>5, <1>8, <2>3
<1>9. CASE /\ onExit' = "rebase" /\ c.dictCtx # NoCtx
           /\ LZ4_compress_generic(c.dictCtx, BlockOf(src, n, capacity, "usingExtDict", FALSE, acceleration))
  <2>1. PICK dict, small, d : dict = "usingExtDict" /\ small = FALSE /\ d = c.dictCtx
    OBVIOUS
  <2>2. d \in StreamState /\ d \in DictState /\ DictSound(d) /\ src # d.dictionary /\ d.dictCtx = NoCtx
    BY <1>5, <1>9, <2>1, DictIsStream DEF DictState, StateWith
  <2>3. /\ StateSound(d)
        /\ \A h \in Slots : d.hashTable[h] >= KB64 - d.dictSize \/ d.hashTable[h] + KB64 <= KB64
    BY <2>2, DictStateSound
  <2>4. d.currentOffset = KB64
    BY <2>2 DEF DictSound
  <2>5. InWindow' /\ Sent(src, n)' /\ ctx'.dictCtx \in {NoCtx, d.dictCtx}
    BY <1>6, <1>9, <2>1, <2>2, <2>3, <2>4
  <2> QED
    BY <1>9, <2>2, <2>5
<1>10. CASE /\ onExit' = "rebase" /\ c.dictCtx # NoCtx
            /\ LZ4_compress_generic(c, BlockOf(src, n, capacity, "usingDictCtx", FALSE, acceleration))
  <2>1. PICK dict, small : dict = "usingDictCtx" /\ small = FALSE
    OBVIOUS
  <2>2. InWindow' /\ Sent(src, n)' /\ ctx'.dictCtx \in {NoCtx, c.dictCtx}
    BY <1>4, <1>6, <1>10, <2>1
  <2> QED
    BY <1>1, <1>5, <1>10, <2>2
<1> QED
  BY <1>4, <1>7, <1>8, <1>9, <1>10

\* LZ4_compress_forceExtDict, for a block that is not empty.
LEMMA ForceInWindow ==
  ASSUME SessionInv, InWindow, Placed, session # NoSession, session.force, onExit = "return",
         NEW n \in Nat, n <= session.maxBlock,
         NEW src, src = BufferAt + Place(n), LZ4_compress_forceExtDict(src, n)
  PROVE  /\ InWindow' /\ Sent(src, n)'
         /\ ctx'.dictCtx # NoCtx => ctx'.dictCtx.dictionary < BufferAt
         /\ onExit' = "rebase"
<1>1. PICK given, b, c, l, q, r :
        /\ given = ctx /\ b = BufferAt /\ src = BufferAt + Place(n) /\ c = LZ4_renormDictT(given, n)
        /\ l = LZ4_compressBound(n)
        /\ q = BlockOf(src, n, l, "usingExtDict", DictSmall(c), 1)
        /\ r = [q EXCEPT !.output = "notLimited"]
  OBVIOUS
<1>2. LZ4_compress_generic(c, r) /\ onExit' = "rebase"
  BY <1>1 DEF LZ4_compress_forceExtDict
<1>3. /\ b \in Nat /\ next \in Nat /\ n <= LZ4_MAX_INPUT_SIZE /\ KB64 + n <= TwoGB
      /\ session.sender = "linear"
  BY <1>1, SessionNumbers, MaxInputType, WindowType, StreamAssumption
<1>4. src = b + next /\ src \in Nat
  BY <1>1, <1>3 DEF Place
<1>5. given \in StreamState /\ StateSound(given) /\ Home(given)
  BY <1>1 DEF SessionInv, EngineInv, Typed, InWindow, Placed
<1>6. /\ c \in StreamState /\ c.dictCtx = given.dictCtx
      /\ (c.dictSize = 0 => given.dictSize = 0)
      /\ c.dictionary + c.dictSize = given.dictionary + given.dictSize
  BY <1>1, <1>5, RenormType
<1>7. StateSound(c)
  BY <1>1, <1>3, <1>5, RenormSound
<1>8. /\ c.dictionary \in Int /\ c.dictSize \in Nat /\ given.dictionary \in Int /\ given.dictSize \in Nat
  BY <1>5, <1>6 DEF StreamState, StateWith
<1>9. src # c.dictionary
  <2>1. \/ given.dictionary + given.dictSize < b
        \/ given.dictSize > 0 /\ given.dictionary + given.dictSize = b + next
    BY <1>1, <1>3, <1>5 DEF Home, Behind, End
  <2> QED
    BY <1>3, <1>4, <1>6, <1>8, <2>1
<1>10. /\ r.source = src /\ r.size = n /\ r.output = "notLimited" /\ r.table = "byU32"
       /\ r.dict = "usingExtDict" /\ r.small = DictSmall(c)
  BY <1>1 DEF BlockOf
<1>11. Reaches(c, r)
  BY <1>6, <1>7, <1>10, SmallReaches
<1>12. External(r) /\ r.size # 0 => r.source # History(c, r).dictionary
  BY <1>9, <1>10 DEF History
<1>13. r.source \in Nat /\ r.size \in Nat /\ r.size <= LZ4_MAX_INPUT_SIZE /\ r.output # "fillOutput"
       /\ r.dict # "usingDictCtx"
  BY <1>3, <1>4, <1>10
<1>14. InWindow' /\ source' = r.source /\ call'.size = r.size /\ r.size <= ctx'.currentOffset /\ ctx'.dictCtx \in {NoCtx, c.dictCtx}
  BY <1>2, <1>6, <1>7, <1>10, <1>11, <1>12, <1>13, BlockInWindow
<1>15. c.dictCtx # NoCtx => c.dictCtx.dictionary < BufferAt
  BY <1>5, <1>6 DEF Home
<1>16. Sent(src, n)'
  BY <1>10, <1>14 DEF Sent
<1> QED
  BY <1>2, <1>10, <1>14, <1>15, <1>16

\* A block that has been sent is behind the place of the next one.
LEMMA BlockBehind ==
  ASSUME SessionInv, Placed, session # NoSession, saved,
         NEW n \in Nat, n <= session.maxBlock, session.force => n # 0,
         session' = session, next' = NextPlace(Place(n), n), saved' = (session.sender # "saved"),
         NEW d, d = BufferAt + Place(n)
  PROVE  /\ Behind(d, n)'
         /\ session.sender = "double" => next' \in {0, Half}
         /\ session.sender = "saved" => next' = 0
<1>1. PICK b, x, m, h, p, y : /\ b = BufferAt /\ x = next /\ m = session.size /\ h = Half
                              /\ p = Place(n) /\ y = next'
  OBVIOUS
<1>2. b \in Nat /\ x \in Nat /\ m \in Nat /\ h \in Nat /\ h > 0
      /\ session.sender \in {"linear", "ring", "double", "saved"}
  BY <1>1, SessionNumbers
<1>3. /\ session.sender = "double" => x \in {0, h}
      /\ session.sender = "saved" => x = 0
  BY <1>1 DEF Placed
<1>4. p = IF session.sender = "ring" /\ x + n > m THEN 0 ELSE x
  BY <1>1 DEF Place
<1>5. y = IF session.sender = "double" THEN IF p = 0 THEN h ELSE 0
          ELSE IF session.sender = "saved" THEN 0 ELSE p + n
  BY <1>1 DEF NextPlace, Half
<1>6. b + p >= b /\ p \in Nat
  BY <1>2, <1>4
<1>7. session.sender \in {"linear", "ring"} => (b + p) + n = b + y
  BY <1>2, <1>5, <1>6
<1>8. session.sender = "double" => b + p \in {b, b + h} /\ b + p # b + y
  BY <1>2, <1>3, <1>4, <1>5
<1>9. saved' <=> session.sender # "saved"
  OBVIOUS
<1>10. BufferAt' = b /\ Half' = h /\ Place(n) = p /\ next' = y /\ session' = session
  BY <1>1 DEF BufferAt, SafeAt, Half
<1>11. session.force => n > 0
  OBVIOUS
<1>12. /\ session.sender = "double" => y \in {0, h}
       /\ session.sender = "saved" => y = 0
  BY <1>5
<1>13. d = b + p
  BY <1>1
<1>14. Behind(d, n)'
  BY <1>6, <1>7, <1>8, <1>9, <1>10, <1>11, <1>13 DEF Behind
<1> QED
  BY <1>1, <1>12, <1>14

\* A block is sent.
LEMMA SendInWindow ==
  ASSUME ForcedNotEmpty, SessionInv, InWindow, Placed, Ready, session # NoSession,
         NEW b \in session.blocks, SendBlock(b)
  PROVE  InWindow' /\ BlockSeen' /\ Placed'
<1>1. PICK s, content, n, p, src, at, capacity, acceleration :
        /\ s = session /\ content = b.content /\ n = Len(content) /\ p = Place(n)
        /\ at = BufferAt /\ src = BufferAt + Place(n)
        /\ capacity = b.capacity /\ acceleration = b.acceleration
  OBVIOUS
<1>2. s \in Sessions /\ onExit = "return"
  BY <1>1 DEF SessionInv, BufferThere, Ready
<1>3. content \in Seq(Byte)
  BY <1>1, <1>2, SessionsAssumption
<1>4. n \in Nat /\ (session.force => n # 0)
  <2>1. n \in Nat
    BY <1>1, <1>3, LenProperties
  <2>2. session.force => content # <<>>
    BY <1>1, <1>2 DEF ForcedNotEmpty
  <2>3. content # <<>> => Len(content) # 0
    BY <1>3, EmptySeq
  <2> QED
    BY <1>1, <2>1, <2>2, <2>3
<1>5. /\ saved /\ n <= session.maxBlock /\ session' = session
      /\ next' = NextPlace(Place(n), n) /\ saved' = (session.sender # "saved")
      /\ \/ session.force /\ LZ4_compress_forceExtDict(src, n)
         \/ ~session.force /\ LZ4_compress_fast_continue(src, n, capacity, acceleration)
  BY <1>1 DEF SendBlock
<1>6. at \in Nat /\ next \in Nat /\ session.sender \in {"linear", "ring", "double", "saved"}
  BY <1>1, SessionNumbers
<1>7. src = at + p /\ p \in Nat
  BY <1>1, <1>6 DEF Place
<1>8. /\ Behind(src, n)'
      /\ session.sender = "double" => next' \in {0, Half}
      /\ session.sender = "saved" => next' = 0
  BY <1>1, <1>4, <1>5, BlockBehind
<1>9. BufferAt' = at /\ Half' = Half
  BY <1>1, <1>5 DEF BufferAt, SafeAt, Half
<1>10. ASSUME /\ InWindow' /\ Sent(src, n)' /\ onExit' = "rebase"
              /\ ctx'.dictCtx # NoCtx => ctx'.dictCtx.dictionary < BufferAt
       PROVE  InWindow' /\ BlockSeen' /\ Placed'
  <2>1. source' = src /\ call'.size = n /\ n <= ctx'.currentOffset
    BY <1>10 DEF Sent
  <2>2. BlockSeen'
    <3>1. ctx'.currentOffset \in Nat
      BY <1>10 DEF InWindow, StateSound
    <3> QED
      BY <1>4, <2>1, <3>1 DEF BlockSeen
  <2>3. Behind(source, call.size)'
    BY <1>8, <2>1 DEF Behind
  <2>4. Placed'
    BY <1>1, <1>5, <1>8, <1>9, <1>10, <2>3 DEF Placed
  <2> QED
    BY <1>10, <2>2, <2>4
<1>11. CASE session.force /\ LZ4_compress_forceExtDict(src, n)
  <2>1. /\ InWindow' /\ Sent(src, n)' /\ onExit' = "rebase"
        /\ ctx'.dictCtx # NoCtx => ctx'.dictCtx.dictionary < BufferAt
    BY <1>1, <1>2, <1>4, <1>5, <1>11, ForceInWindow
  <2> QED
    BY <1>10, <2>1
<1>12. CASE ~session.force /\ LZ4_compress_fast_continue(src, n, capacity, acceleration)
  <2>1. /\ InWindow' /\ Sent(src, n)'
        /\ ctx'.dictCtx # NoCtx => ctx'.dictCtx.dictionary < BufferAt
        /\ \/ onExit' = "rebase"
           \/ /\ onExit' = "return" /\ ctx'.dictionary >= BufferAt
              /\ End(ctx') = BufferAt + Place(n) + n
              /\ \/ session.sender \in {"linear", "ring"}
                 \/ ctx'.dictionary = BufferAt + Place(n) /\ ctx'.dictSize = n
    BY <1>1, <1>2, <1>4, <1>5, <1>12, ContinueInWindow
  <2>2. CASE onExit' = "rebase"
    BY <1>10, <2>1, <2>2
  <2>3. CASE /\ onExit' = "return" /\ ctx'.dictionary >= BufferAt
             /\ End(ctx') = BufferAt + Place(n) + n
             /\ \/ session.sender \in {"linear", "ring"}
                \/ ctx'.dictionary = BufferAt + Place(n) /\ ctx'.dictSize = n
    <3>1. BlockSeen'
      BY <2>3 DEF BlockSeen
    <3>2. PICK d, l : d = ctx'.dictionary /\ l = ctx'.dictSize
      OBVIOUS
    <3>3. Behind(d, l)'
      <4>1. CASE session.sender \in {"linear", "ring"}
        <5>1. next' = p + n
          BY <1>1, <1>5, <4>1 DEF NextPlace
        <5>2. d + l = at + next'
          BY <1>1, <1>4, <1>6, <1>7, <2>3, <3>2, <5>1 DEF End
        <5>3. d >= at
          BY <1>1, <2>3, <3>2
        <5> QED
          BY <1>5, <1>9, <1>12, <4>1, <5>2, <5>3 DEF Behind
      <4>2. CASE ~(session.sender \in {"linear", "ring"})
        <5>1. d = src /\ l = n
          BY <1>1, <2>3, <3>2, <4>2
        <5> QED
          BY <1>8, <5>1
      <4> QED
        BY <4>1, <4>2
    <3>4. Behind(ctx.dictionary, ctx.dictSize)'
      BY <3>2, <3>3 DEF Behind
    <3>5. Home(ctx)'
      BY <1>1, <1>9, <2>1, <3>4 DEF Home
    <3>6. Placed'
      BY <1>5, <1>8, <1>9, <2>3, <3>5 DEF Placed
    <3> QED
      BY <2>1, <3>1, <3>6
  <2> QED
    BY <2>1, <2>2, <2>3
<1> QED
  BY <1>5, <1>11, <1>12

---------------------------------------------------------------------------
(* The other steps.                                                        *)

\* Between calls, the memory and the state may be replaced.
LEMMA IdleInWindow ==
  ASSUME InWindow, pc = "idle", UNCHANGED engine, StateSound(ctx)'
  PROVE  InWindow'
<1>1. pc' = "idle" /\ filledIp' = filledIp /\ offset' = offset
  BY DEF engine, found
<1> QED
  BY <1>1 DEF InWindow

\* A state of its own is sound before and after a step.
LEMMA SoundNext ==
  ASSUME NEW c, StateSound(c), ctx' = c
  PROVE  StateSound(ctx)'
BY DEF StateSound, Below, DictSound

\* A step of a call.
LEMMA CompressingInWindow ==
  ASSUME HashesInSlots, SessionInv, InWindow, BlockSeen, Placed, Compressing, UNCHANGED svars
  PROVE  InWindow' /\ BlockSeen' /\ Placed'
<1>1. InWindow' /\ ctx'.currentOffset = ctx.currentOffset /\ call' = call
  BY CompressStepInWindow DEF SessionInv, Compressing
<1>2. /\ ctx'.dictionary = ctx.dictionary /\ ctx'.dictSize = ctx.dictSize
      /\ ctx'.dictCtx = ctx.dictCtx
  BY StepKeepsHistory DEF SessionInv, EngineInv, Typed, Compressing
<1>3. onExit' = onExit /\ session' = session /\ next' = next /\ saved' = saved
  BY DEF Compressing, svars
<1>4. source' = source
  BY <1>1 DEF source
<1>5. BlockSeen'
  BY <1>1, <1>3 DEF BlockSeen
<1>6. BufferAt' = BufferAt /\ Half' = Half
  BY <1>3 DEF BufferAt, SafeAt, Half
<1>7. Home(ctx) => Home(ctx)'
  BY <1>2, <1>3, <1>6 DEF Home, Behind, End
<1>8. Behind(source, call.size) => Behind(source, call.size)'
  BY <1>1, <1>3, <1>4, <1>6 DEF Behind
<1>9. Placed'
  BY <1>1, <1>2, <1>3, <1>6, <1>7, <1>8 DEF Placed
<1> QED
  BY <1>1, <1>5, <1>9

\* A step that does nothing to the sender.
LEMMA OtherInWindow ==
  ASSUME InWindow, BlockSeen, Placed, UNCHANGED <<vars, session, next, saved>>
  PROVE  InWindow' /\ BlockSeen' /\ Placed'
<1>1. /\ text' = text /\ ctx' = ctx /\ onExit' = onExit /\ session' = session
      /\ next' = next /\ saved' = saved /\ call' = call /\ pc' = pc /\ filledIp' = filledIp
      /\ offset' = offset /\ ip' = ip /\ forwardIp' = forwardIp /\ lowLimit' = lowLimit
      /\ match' = match
  BY DEF vars, engine, search, found
<1>2. source' = source
  BY <1>1 DEF source
<1>3. BlockSeen'
  BY <1>1 DEF BlockSeen
<1>4. BufferAt' = BufferAt /\ Half' = Half
  BY <1>1 DEF BufferAt, SafeAt, Half
<1>5. Home(ctx) => Home(ctx)'
  BY <1>1, <1>4 DEF Home, Behind, End
<1>6. Behind(source, call.size) => Behind(source, call.size)'
  BY <1>1, <1>2, <1>4 DEF Behind
<1>7. Placed'
  BY <1>1, <1>4, <1>5, <1>6 DEF Placed
<1>8. StateSound(ctx)'
  <2>1. PICK c : c = ctx
    OBVIOUS
  <2> QED
    BY <1>1, <2>1, SoundNext DEF InWindow
<1>9. CASE pc = "idle"
  <2>1. UNCHANGED engine
    BY DEF vars
  <2> QED
    BY <1>3, <1>7, <1>8, <1>9, <2>1, IdleInWindow
<1>10. CASE pc # "idle"
  <2>1. Arguments' /\ Apart' /\ TableSound(ctx.hashTable)'
    BY <1>1, <1>10, TableStays
  <2>2. Entries => Entries'
    BY <1>1, SameArguments DEF Entries, Pending, InDict, Below, Same4, SameBytes, Text
  <2>3. filledIp' \in Nat /\ offset' \in 0..LZ4_DISTANCE_MAX /\ Entries
    BY <1>1, <1>10 DEF InWindow
  <2>4. InWindow'
    BY <1>8, <2>1, <2>2, <2>3 DEF InWindow
  <2> QED
    BY <1>3, <1>7, <2>4
<1> QED
  BY <1>9, <1>10

\* A one-shot call, in a state without a dictionary.
LEMMA OneShotInWindow ==
  ASSUME NEW c \in StreamState, StateSound(c), c.dictSize = 0, NEW r, r.size \in Int,
         NEW output, output = "fillOutput" => c = ClearedCtx, NEW small, NEW a,
         TableType(r.size) = "byU16" => small \/ c.currentOffset = 0,
         TableType(r.size) = "byU32" =>
           \A h \in Slots : \/ c.hashTable[h] >= c.currentOffset
                            \/ c.hashTable[h] + KB64 <= c.currentOffset,
         LZ4_compress_generic(c, WithOutput(r, output, small, a))
  PROVE  InWindow'
<1>1. PICK w : w = WithOutput(r, output, small, a)
  OBVIOUS
<1>2. /\ w.source = 0 /\ w.size = r.size /\ w.output = output /\ w.table = TableType(r.size)
      /\ w.dict = "noDict" /\ w.small = small
  BY <1>1 DEF WithOutput
<1>3. ~External(w)
  BY <1>2 DEF External
<1>4. w.table \in {"byU16", "byU32"} /\ (w.table = "byU16" => w.size < LZ4_64Klimit)
  BY <1>2 DEF TableType
<1>5. Reaches(c, w)
  <2>1. c.hashTable \in [Slots -> Nat]
    BY DEF StateSound
  <2>2. ASSUME NEW h \in Slots
        PROVE  \/ w.small \/ c.hashTable[h] >= c.currentOffset - c.dictSize
               \/ w.table = "byU32" /\ c.hashTable[h] + KB64 <= c.currentOffset
    <3>1. c.hashTable[h] \in Nat /\ c.currentOffset \in Nat
      BY <2>1 DEF StateSound
    <3>2. CASE w.table = "byU16"
      BY <1>2, <3>1, <3>2
    <3>3. CASE w.table = "byU32"
      BY <1>2, <3>1, <3>3
    <3> QED
      BY <1>4, <3>2, <3>3
  <2> QED
    BY <2>2 DEF Reaches
<1>6. GoodHistory(c, w)
  BY <1>2, <1>3, <1>4, <1>5 DEF GoodHistory
<1>7. w.size \in Int /\ w.source \in Nat /\ w.dict # "usingDictCtx"
  BY <1>2
<1> QED
  BY <1>1, <1>6, <1>7, StartInWindow

\* One in the state LZ4_initStream leaves.
LEMMA ClearedInWindow ==
  ASSUME NEW r, r.size \in Int, NEW output, NEW small, NEW a,
         LZ4_compress_generic(ClearedCtx, WithOutput(r, output, small, a))
  PROVE  InWindow'
<1>1. PICK c : c = ClearedCtx
  OBVIOUS
<1>2. c \in StreamState /\ StateSound(c) /\ c.dictSize = 0
  BY <1>1, ClearedType, DictIsStream, ClearedSound
<1>3. c.currentOffset = 0
  BY <1>1 DEF ClearedCtx
<1>4. \A h \in Slots : c.hashTable[h] >= c.currentOffset
  BY <1>2, <1>3 DEF StateSound
<1> QED
  BY <1>1, <1>2, <1>3, <1>4, OneShotInWindow

\* Any one-shot call.
LEMMA CallInWindow ==
  ASSUME ctx \in StreamState, InWindow, NEW r \in Requests, Call(r)
  PROVE  InWindow'
<1>1. r.size \in Int
  BY RequestsAssumption
<1>2. ASSUME NEW q, q.size \in Int, LZ4_compress_fast_extState(q) PROVE InWindow'
  BY <1>2, ClearedInWindow DEF LZ4_compress_fast_extState
<1>3. ASSUME NEW a, LZ4_compress_destSize(r, a) PROVE InWindow'
  <2>1. CASE r.capacity >= LZ4_compressBound(r.size)
    <3>1. PICK q : q = [r EXCEPT !.acceleration = a]
      OBVIOUS
    <3>2. q.size = r.size
      BY <3>1, RequestsAssumption
    <3> QED
      BY <1>1, <1>2, <1>3, <2>1, <3>1, <3>2 DEF LZ4_compress_destSize
  <2>2. CASE ~(r.capacity >= LZ4_compressBound(r.size))
    BY <1>1, <1>3, <2>2, ClearedInWindow DEF LZ4_compress_destSize
  <2> QED
    BY <2>1, <2>2
<1>4. CASE LZ4_compress_fast_extState_fastReset(r)
  <2>1. PICK d, t : d = ctx /\ t = TableType(r.size)
    OBVIOUS
  <2>2. PICK c : c = LZ4_prepareTable(d, r.size, t)
    OBVIOUS
  <2>3. d \in StreamState /\ StateSound(d)
    BY <2>1 DEF InWindow
  <2>4. c \in StreamState /\ c.dictSize = 0
    BY <2>2, <2>3, PreparedType, DictIsStream
  <2>5. /\ StateSound(c)
        /\ t = "byU32" => \A h \in Slots : \/ c.hashTable[h] >= c.currentOffset
                                           \/ c.hashTable[h] + KB64 <= c.currentOffset
    BY <2>2, <2>3, PreparedSound
  <2>6. PICK output, small, a : /\ output = FastOutput(r) /\ small = KeepsEntries(c, r)
                                /\ a = Clamped(r.acceleration)
    OBVIOUS
  <2>7. LZ4_compress_generic(c, WithOutput(r, output, small, a))
    BY <1>4, <2>1, <2>2, <2>6 DEF LZ4_compress_fast_extState_fastReset
  <2>8. output # "fillOutput"
    BY <2>6 DEF FastOutput
  <2>9. t = "byU16" => small \/ c.currentOffset = 0
    <3>1. t = "byU16" /\ c.currentOffset # 0 => KeepsEntries(c, r)
      BY <2>1 DEF KeepsEntries
    <3>2. KeepsEntries(c, r) => small
      BY <2>6
    <3> QED
      BY <3>1, <3>2
  <2> QED
    BY <1>1, <2>1, <2>4, <2>5, <2>7, <2>8, <2>9, OneShotInWindow
<1> QED
  BY <1>1, <1>2, <1>3, <1>4 DEF Call

\* What is done with the state before a call returns.
LEMMA ExitInWindow ==
  ASSUME SessionInv, InWindow, BlockSeen, Placed, CleanOnExit \/ Rebase, UNCHANGED svars
  PROVE  InWindow' /\ BlockSeen' /\ Placed'
<1>1. /\ pc = "idle" /\ text' = text /\ UNCHANGED engine /\ onExit' = "return"
      /\ session' = session /\ next' = next /\ saved' = saved
  BY DEF CleanOnExit, Rebase, svars
<1>2. BlockSeen'
  BY <1>1 DEF BlockSeen
<1>3. BufferAt' = BufferAt /\ Half' = Half
  BY <1>1 DEF BufferAt, SafeAt, Half
<1>4. CASE CleanOnExit
  <2>1. ctx' = ClearedCtx
    BY <1>4 DEF CleanOnExit
  <2>2. StateSound(ctx)'
    BY <2>1, ClearedSound, SoundNext
  <2>3. ctx'.dictionary = NULL /\ ctx'.dictSize = 0 /\ ctx'.dictCtx = NoCtx
    BY <2>1 DEF ClearedCtx
  <2>4. session # NoSession => NULL + 0 < BufferAt
    <3>1. NULL + 0 < 0
      BY SMT DEF NULL
    <3>2. NULL \in Int
      BY SMT DEF NULL
    <3>3. session # NoSession => BufferAt \in Nat
      BY SessionNumbers
    <3> QED
      BY <3>1, <3>2, <3>3
  <2>5. session # NoSession => Home(ctx)'
    BY <1>3, <2>3, <2>4 DEF Home, End
  <2>6. Placed'
    BY <1>1, <1>3, <2>5 DEF Placed
  <2> QED
    BY <1>1, <1>2, <2>2, <2>6, IdleInWindow
<1>5. CASE Rebase
  <2>1. PICK c, p, n : c = ctx /\ p = source /\ n = call.size
    OBVIOUS
  <2>2. onExit = "rebase" /\ ctx' = WithHistory(c, p, n)
    BY <1>5, <2>1 DEF Rebase, WithHistory
  <2>3. c \in StreamState /\ StateSound(c) /\ p \in Int
    BY <2>1 DEF SessionInv, EngineInv, Typed, CallTyped, InWindow, source
  <2>4. n \in Nat /\ n <= c.currentOffset
    <3>1. c.currentOffset \in Nat
      BY <2>3 DEF StateSound
    <3> QED
      BY <2>1, <2>2, <3>1 DEF BlockSeen
  <2>5. StateSound(WithHistory(c, p, n))
    BY <2>3, <2>4, HistorySound
  <2>6. StateSound(ctx)'
    BY <2>2, <2>5, SoundNext
  <2>7. ctx'.dictionary = p /\ ctx'.dictSize = n /\ ctx'.dictCtx = c.dictCtx
    BY <2>2, <2>3, <2>4, WithHistoryType
  <2>8. session # NoSession => /\ (n = 0 /\ ~session.force) \/ Behind(p, n)
                               /\ c.dictCtx # NoCtx => c.dictCtx.dictionary < BufferAt
    BY <2>1, <2>2 DEF Placed
  <2>9. Behind(p, n) => Behind(ctx.dictionary, ctx.dictSize)'
    BY <1>1, <1>3, <2>7 DEF Behind
  <2>10. session # NoSession => Home(ctx)'
    BY <1>1, <1>3, <2>7, <2>8, <2>9 DEF Home
  <2>11. Placed'
    BY <1>1, <1>3, <2>10 DEF Placed
  <2> QED
    BY <1>1, <1>2, <2>6, <2>11, IdleInWindow
<1> QED
  BY <1>4, <1>5


\* A one-shot call ends the stream.
LEMMA OneShotPlaced ==
  ASSUME SessionInv, InWindow, NEW r \in Requests, OneShotCall(r)
  PROVE  InWindow' /\ BlockSeen' /\ Placed'
<1>1. Call(r) /\ session' = NoSession
  BY DEF OneShotCall
<1>2. ctx \in StreamState /\ EngineInv
  BY DEF SessionInv, EngineInv, Typed
<1>3. InWindow'
  BY <1>1, <1>2, CallInWindow
<1>4. onExit' # "rebase"
  BY <1>1, <1>2, CallKeeps DEF EngineInv, Typed
<1> QED
  BY <1>1, <1>3, <1>4 DEF BlockSeen, Placed

\* The history is moved to the safe buffer.
LEMMA SaveInWindow ==
  ASSUME SessionInv, InWindow, Placed, SaveDict
  PROVE  InWindow' /\ BlockSeen' /\ Placed'
<1>1. PICK c, safe, size, n : c = ctx /\ safe = SafeAt /\ size = session.saveSize /\ n = SavedSize(size)
  OBVIOUS
<1>2. /\ pc = "idle" /\ onExit = "return" /\ session # NoSession /\ UNCHANGED engine
      /\ ctx' = WithHistory(c, safe, n) /\ onExit' = onExit /\ session' = session /\ next' = next
      /\ saved' = TRUE
  BY <1>1 DEF SaveDict, Ready, Settled, LZ4_saveDict, WithHistory
<1>3. /\ session \in Sessions /\ HistoryIn(c, Len(text)) /\ c \in StreamState /\ text \in Seq(Byte)
      /\ StateSound(c)
  BY <1>1, <1>2 DEF SessionInv, BufferThere, HistoryThere, EngineInv, Typed, InWindow
<1>4. size \in Nat /\ session.dict \in Seq(Byte)
  BY <1>1, <1>3, SessionsAssumption
<1>5. safe \in Nat
  BY <1>1, <1>4, LenProperties DEF SafeAt
<1>6. n \in Nat /\ n <= KB64
  BY <1>1, <1>3, <1>4, <1>5, SavedTextType
<1>7. n <= c.currentOffset
  <2>1. c.dictSize \in Nat
    BY <1>3 DEF StreamState, StateWith
  <2>2. n <= c.dictSize
    BY <1>1, <1>4, <2>1, WindowType DEF SavedSize, MinOf
  <2>3. c.dictSize <= c.currentOffset /\ c.currentOffset \in Nat
    BY <1>3 DEF StateSound
  <2> QED
    BY <1>6, <2>1, <2>2, <2>3
<1>8. StateSound(ctx)'
  BY <1>2, <1>3, <1>6, <1>7, HistorySound, SoundNext
<1>9. InWindow'
  BY <1>2, <1>8, IdleInWindow
<1>10. BlockSeen'
  BY <1>2 DEF BlockSeen
<1>11. BufferAt' = BufferAt /\ Half' = Half
  BY <1>2 DEF BufferAt, SafeAt, Half
<1>12. ctx'.dictionary = safe /\ ctx'.dictSize = n /\ ctx'.dictCtx = c.dictCtx
  BY <1>2, <1>3, <1>5, <1>6, WithHistoryType
<1>13. safe + n < BufferAt
  BY <1>1, <1>5, <1>6, WindowType DEF BufferAt
<1>14. c.dictCtx # NoCtx => c.dictCtx.dictionary < BufferAt
  BY <1>1, <1>2 DEF Placed, Home
<1>15. Home(ctx)'
  BY <1>11, <1>12, <1>13, <1>14 DEF Home, End
<1>16. (session.sender = "double" => next \in {0, Half}) /\ (session.sender = "saved" => next = 0)
  BY <1>2 DEF Placed
<1>17. Placed'
  BY <1>2, <1>11, <1>15, <1>16 DEF Placed
<1> QED
  BY <1>9, <1>10, <1>17

\* Nothing was called yet.
LEMMA WindowStarts ==
  ASSUME SessionInit
  PROVE  InWindow /\ BlockSeen /\ Placed
<1>1. ctx = ClearedCtx /\ filledIp = 0 /\ offset = 0 /\ pc = "idle" /\ onExit = "return"
      /\ session = NoSession
  BY DEF SessionInit, Init, LinkInit
<1>2. 0 \in 0..LZ4_DISTANCE_MAX
  BY DistanceAssumption, WindowType DEF KB64
<1>3. StateSound(ctx)
  BY <1>1, ClearedSound
<1> QED
  BY <1>1, <1>2, <1>3 DEF InWindow, BlockSeen, Placed


\* The state a stream begins with: what it knows of is the dictionary.
LEMMA PreparedWindow ==
  ASSUME ctx \in StreamState, StateSound(ctx), NEW s, s.dict \in Seq(Byte)
  PROVE  /\ StateSound(Prepared(s)) /\ End(Prepared(s)) <= Len(s.dict)
         /\ Prepared(s).dictCtx # NoCtx => Prepared(s).dictCtx.dictionary <= Len(s.dict)
<1>1. PICK fresh : fresh = LZ4_resetStream_fast
  OBVIOUS
<1>2. /\ fresh \in DictState /\ fresh.dictSize = 0 /\ fresh.dictionary = NULL
      /\ StateSound(fresh) /\ fresh.dictCtx = NoCtx
  <2>1. PICK c, n, t : c = ctx /\ n = 0 /\ t = "byU32"
    OBVIOUS
  <2>2. fresh = LZ4_prepareTable(c, n, t)
    BY <1>1, <2>1 DEF LZ4_resetStream_fast
  <2>3. c \in StreamState /\ StateSound(c)
    BY <2>1
  <2>4. fresh \in DictState /\ fresh.dictSize = 0 /\ fresh.dictionary = NULL
    BY <2>2, <2>3, PreparedType
  <2>5. StateSound(fresh) /\ fresh.dictCtx = NoCtx
    BY <2>2, <2>3, PreparedSound
  <2> QED
    BY <2>4, <2>5
<1>3. PICK len, slow : len = Len(s.dict) /\ slow = (s.load = "slow")
  OBVIOUS
<1>4. len \in Nat
  BY <1>3, LenProperties
<1>5. NULL + 0 <= len
  BY <1>4, SMT DEF NULL
<1>6. CASE s.load = "none"
  <2>1. Prepared(s) = fresh
    BY <1>1, <1>6 DEF Prepared
  <2> QED
    BY <1>2, <1>3, <1>5, <2>1 DEF End
<1>7. CASE s.load = "attached"
  <2>1. PICK no, d, p : no = FALSE /\ d = LZ4_loadDict(s.dict, 0, len, no) /\ p = LZ4_attach_dictionary(fresh, d)
    OBVIOUS
  <2>2. d \in DictState /\ d.dictionary + d.dictSize <= len
    BY <1>4, <2>1, LoadedType
  <2>3. d.dictSize # 0 => DictSound(d)
    BY <1>4, <2>1, LoadedSound
  <2>4. fresh \in StreamState
    BY <1>2, DictIsStream
  <2>5. StateSound(p)
    BY <1>2, <2>1, <2>3, <2>4, AttachedSound
  <2>6. /\ p.dictSize = 0 /\ p.dictionary = NULL
        /\ p.dictCtx = IF d.dictSize = 0 THEN NoCtx ELSE d
    BY <1>2, <2>1, <2>2, <2>4, AttachedType
  <2>7. d.dictionary <= len
    <3>1. d.dictionary \in Int /\ d.dictSize \in Nat
      BY <2>2 DEF DictState, StateWith
    <3> QED
      BY <1>4, <2>2, <3>1
  <2>8. p.dictCtx # NoCtx => p.dictCtx.dictionary <= len
    BY <2>6, <2>7
  <2>9. Prepared(s) = p
    BY <1>1, <1>3, <1>7, <2>1 DEF Prepared
  <2> QED
    BY <1>3, <1>5, <2>5, <2>6, <2>8, <2>9 DEF End
<1>8. CASE s.load # "none" /\ s.load # "attached"
  <2>1. PICK d : d = LZ4_loadDict(s.dict, 0, len, slow)
    OBVIOUS
  <2>2. Prepared(s) = d
    BY <1>3, <1>8, <2>1 DEF Prepared
  <2>3. d \in DictState /\ d.dictionary + d.dictSize <= len
    BY <1>4, <2>1, LoadedType
  <2>4. StateSound(d)
    BY <1>4, <2>1, LoadedSound
  <2>5. d.dictCtx = NoCtx
    BY <2>3 DEF DictState, StateWith
  <2> QED
    BY <1>3, <2>2, <2>3, <2>4, <2>5 DEF End
<1> QED
  BY <1>6, <1>7, <1>8

\* A stream is opened.
LEMMA OpenInWindow ==
  ASSUME SessionInv, InWindow, Ready, NEW s \in Sessions, OpenStream(s)
  PROVE  InWindow' /\ BlockSeen' /\ Placed'
<1>1. s.dict \in Seq(Byte) /\ s.size \in Nat
  BY SessionsAssumption
<1>2. /\ pc = "idle" /\ onExit' = "return" /\ ctx' = Prepared(s)
      /\ UNCHANGED engine /\ session' = s /\ next' = 0
  BY DEF Ready, Settled, OpenStream, OpenPeer
<1>3. ctx \in StreamState /\ StateSound(ctx)
  BY DEF SessionInv, EngineInv, Typed, InWindow
<1>4. PICK c, len : c = Prepared(s) /\ len = Len(s.dict)
  OBVIOUS
<1>5. /\ c \in StreamState /\ StateSound(c) /\ End(c) <= len
      /\ c.dictCtx # NoCtx => c.dictCtx.dictionary <= len
  BY <1>1, <1>3, <1>4, PreparedStream, PreparedWindow
<1>6. StateSound(ctx)'
  BY <1>2, <1>4, <1>5, SoundNext
<1>7. InWindow'
  BY <1>2, <1>6, IdleInWindow
<1>8. len \in Nat /\ BufferAt' = len + 1 + KB64 + 1
  BY <1>1, <1>2, <1>4, LenProperties DEF BufferAt, SafeAt
<1>9. len < BufferAt'
  BY <1>8, WindowType
<1>10. c.dictionary \in Int /\ c.dictSize \in Nat
  BY <1>5 DEF StreamState, StateWith
<1>11. End(c) < BufferAt'
  BY <1>5, <1>8, <1>10, WindowType DEF End
<1>12. c.dictCtx # NoCtx => c.dictCtx.dictionary < BufferAt'
  <2>1. ASSUME c.dictCtx # NoCtx PROVE c.dictCtx.dictionary \in Int
    BY <1>5, <2>1 DEF StreamState, DictState, StateWith
  <2> QED
    BY <1>5, <1>8, <2>1, WindowType
<1>13. Home(ctx)'
  BY <1>2, <1>4, <1>11, <1>12 DEF Home, End
<1>14. Placed'
  BY <1>2, <1>13 DEF Placed
<1> QED
  BY <1>2, <1>7, <1>14 DEF BlockSeen

\* Every step keeps the entries in the window.
LEMMA WindowStep ==
  ASSUME HashesInSlots, ForcedNotEmpty, SessionInv, InWindow, BlockSeen, Placed,
         [SessionNext]_<<vars, dvars, svars>>
  PROVE  InWindow' /\ BlockSeen' /\ Placed'
<1>1. CASE Ready /\ \E s \in Sessions : OpenStream(s)
  BY <1>1, OpenInWindow
<1>2. CASE Ready /\ session # NoSession /\ \E b \in session.blocks : SendBlock(b)
  BY <1>2, SendInWindow
<1>3. CASE \E r \in Requests : OneShotCall(r)
  BY <1>3, OneShotPlaced
<1>4. CASE SaveDict
  BY <1>4, SaveInWindow
<1>5. CASE Compressing /\ UNCHANGED svars
  BY <1>5, CompressingInWindow
<1>6. CASE (CleanOnExit \/ Rebase) /\ UNCHANGED svars
  BY <1>6, ExitInWindow
<1>7. CASE UNCHANGED <<vars, session, next, saved>>
  BY <1>7, OtherInWindow
<1>8. ASSUME Deliver \/ Receive \/ SessionEnds PROVE UNCHANGED <<vars, session, next, saved>>
  BY <1>8 DEF Deliver, HandOver, Receive, SessionEnds, Stop, svars
<1>9. ASSUME Decoding, UNCHANGED vars PROVE UNCHANGED <<vars, session, next, saved>>
  BY <1>9 DEF Decoding, svars
<1>10. ASSUME UNCHANGED <<vars, dvars, svars>> PROVE UNCHANGED <<vars, session, next, saved>>
  BY <1>10 DEF svars
<1> QED
  BY <1>1, <1>2, <1>3, <1>4, <1>5, <1>6, <1>7, <1>8, <1>9, <1>10 DEF SessionNext, Working

\* Whatever is called, and in whatever order, the candidates the compressor
\* takes from the hash table are in the window: what it compares with the
\* source is before it, no farther than the decoder may look, and in the memory
\* of the source, of its history or of the dictionary attached to it.
THEOREM CandidatesStayInWindow ==
  HashesInSlots /\ ForcedNotEmpty => (SessionSpec => []CandidatesInWindow)
<1> SUFFICES ASSUME HashesInSlots, ForcedNotEmpty PROVE SessionSpec => []CandidatesInWindow
  OBVIOUS
<1> DEFINE Inv == SessionInv /\ InWindow /\ BlockSeen /\ Placed
<1>1. SessionInit => Inv
  BY SessionStarts, WindowStarts
<1>2. Inv /\ [SessionNext]_<<vars, dvars, svars>> => Inv'
  BY SessionStep, WindowStep
<1>3. Inv => CandidatesInWindow
  BY WindowHolds DEF SessionInv
<1> QED
  BY <1>1, <1>2, <1>3, PTL DEF SessionSpec


---------------------------------------------------------------------------
(* What is written.                                                        *)

\* The block is bytes; a token that waits for its match has room for its code.
Written ==
  /\ out \in Seq(Byte) /\ result \in Nat
  /\ pc = "match" => out[token] <= 240

LEMMA MatchToken ==
  ASSUME NEW w \in 0..240, NEW n \in Nat
  PROVE  w + MinOf(n, 15) \in Byte
BY DEF MinOf, Byte

\* What a match after the literals makes of it: its code, its offset, its length bytes.
WithMatch(kept) ==
  [out EXCEPT ![token] = @ + MinOf(kept, 15)]
    \o <<offset % 256, (offset \div 256) % 256>> \o LengthBytes(kept)

LEMMA MatchBytes ==
  ASSUME out \in Seq(Byte), token \in 1..Len(out), out[token] <= 240, offset \in Int,
         NEW kept \in Nat
  PROVE  WithMatch(kept) \in Seq(Byte)
<1> DEFINE o == WithMatch(kept)
           v == out[token] + MinOf(kept, 15)
           m == [out EXCEPT ![token] = v]
           b == <<offset % 256, (offset \div 256) % 256>>
           l == LengthBytes(kept)
<1>1. out[token] \in Byte
  BY ElementOfSeq
<1>2. v \in Byte
  <2>1. PICK w : w = out[token]
    OBVIOUS
  <2>2. w \in 0..255 /\ w <= 240
    BY <1>1, <2>1 DEF Byte
  <2>3. w \in 0..240
    BY ONLY <2>2
  <2>4. w + MinOf(kept, 15) \in Byte
    BY <2>3, MatchToken
  <2> QED
    BY <2>1, <2>4
<1>3. o = (m \o b) \o l
  BY DEF WithMatch
<1> HIDE DEF v
<1>4. m \in Seq(Byte)
  BY <1>2, ExceptSeq
<1>5. b \in Seq(Byte)
  <2>1. offset % 256 \in Byte /\ (offset \div 256) % 256 \in Byte
    BY DEF Byte
  <2> QED
    BY <2>1
<1>6. l \in Seq(Byte)
  BY LengthBytesType
<1> HIDE DEF m, b, l, o
<1>7. m \o b \in Seq(Byte)
  BY ONLY <1>4, <1>5, ConcatBytes
<1>8. o \in Seq(Byte)
  BY ONLY <1>3, <1>6, <1>7, ConcatBytes
<1> QED
  BY <1>8 DEF o

\* Literals are written.
LEMMA EncodeLiteralsWrites ==
  ASSUME EngineInv, Written, EncodeLiterals
  PROVE  Written'
<1>1. PICK n, o, t :
        /\ n = ip - CatchUp(ip, match) - anchor /\ t = 16 * MinOf(n, 15)
        /\ o = WithRun(t, anchor, n)
  OBVIOUS
<1>2. /\ pc = "literals" /\ result' \in {0, result}
      /\ \/ out' = out /\ pc' \in {"idle", "last_literals"}
         \/ out' = o /\ token' = op + 1 /\ pc' = "match"
  BY <1>1 DEF EncodeLiterals, Idle, Goto, WithRun
<1>3. Typed /\ Accepted /\ InSource /\ out \in Seq(Byte) /\ result \in Nat
  BY <1>2 DEF EngineInv, Written
<1>4. CASE out' = out /\ pc' \in {"idle", "last_literals"}
  BY <1>2, <1>3, <1>4 DEF Written
<1>5. CASE out' = o /\ token' = op + 1 /\ pc' = "match"
  <2>1. /\ ip \in Nat /\ anchor \in Nat /\ anchor <= ip /\ ip <= iend /\ iend <= Len(text)
        /\ iend \in Nat /\ Len(text) \in Nat /\ op = Len(out)
    BY <1>2, <1>3, Ranges DEF Typed, InSource, MFLIMIT
  <2>2. CatchUp(ip, match) \in Nat /\ CatchUp(ip, match) <= ip - anchor
    BY <1>3, <2>1, CatchUpBounds
  <2>3. n \in Nat /\ anchor + n <= Len(text)
    BY <1>1, <2>1, <2>2
  <2>4. t \in Byte /\ t <= 240
    <3>1. t \in 0..240
      BY <1>1, <2>3, RunToken
    <3> QED
      BY ONLY <3>1 DEF Byte
  <2>5. PICK a \in Nat : a = anchor
    BY <2>1
  <2>6. o = WithRun(t, a, n)
    BY <1>1, <2>5
  <2>7. text \in Seq(Byte) /\ a + n <= Len(text)
    BY <1>3, <2>3, <2>5 DEF Typed
  <2>8. o \in Seq(Byte) /\ o[Len(out) + 1] = t
    BY ONLY <1>3, <2>3, <2>4, <2>5, <2>6, <2>7, RunBytes
  <2>9. out' \in Seq(Byte) /\ out'[token'] = t
    BY <1>5, <2>1, <2>8
  <2> QED
    BY <1>2, <1>3, <2>4, <2>9 DEF Written
<1> QED
  BY <1>2, <1>4, <1>5

\* A match is written.
LEMMA EncodeMatchWrites ==
  ASSUME EngineInv, InWindow, Written, EncodeMatch
  PROVE  Written'
<1>1. PICK code, fits, kept, o :
        /\ code = MatchCodeAt(ip, match) /\ fits = MatchFits(op + 2, code)
        /\ kept = IF limited /\ ~fits THEN 15 - 1 + (olimit - (op + 2) - 1 - LASTLITERALS) * 255 ELSE code
        /\ o = WithMatch(kept)
  OBVIOUS
<1>2. /\ pc = "match" /\ result' \in {0, result}
      /\ pc' \in {"idle", "last_literals", "test_next"}
  BY DEF EncodeMatch, Idle, Goto
<1>3. \/ out' = SubSeq(out, 1, token - 1)
      \/ out' = out
      \/ /\ filling => op + 2 + 1 + MFLIMIT - MINMATCH <= olimit
         /\ call.output = "limitedOutput" => fits
         /\ out' = o
  BY <1>1 DEF EncodeMatch, WithMatch
<1>4. /\ Typed /\ Accepted /\ InSource /\ RoomLeft /\ out \in Seq(Byte) /\ result \in Nat
      /\ out[token] <= 240 /\ offset \in 0..LZ4_DISTANCE_MAX
  BY <1>2 DEF EngineInv, InWindow, Written
<1>5. /\ token \in 1..op /\ op = Len(out) /\ op \in Nat /\ call.capacity \in Int
      /\ ip \in Nat /\ anchor <= ip /\ ip + MFLIMIT <= iend
  BY <1>2, <1>4, Ranges DEF RoomLeft, Typed, InSource
<1>6. out' \in Seq(Byte)
  <2>1. CASE out' = SubSeq(out, 1, token - 1)
    <3>1. \A i \in 1..token - 1 : out[i] \in Byte
      <4>1. \A i \in 1..token - 1 : i \in 1..Len(out)
        BY <1>5
      <4> QED
        BY <1>4, <4>1, ElementOfSeq
    <3>2. SubSeq(out, 1, token - 1) \in Seq(Byte)
      BY <1>5, <3>1, SubSeqProperties
    <3> QED
      BY <2>1, <3>2
  <2>2. CASE out' = out
    BY <1>4, <2>2
  <2>3. CASE /\ filling => op + 2 + 1 + MFLIMIT - MINMATCH <= olimit
             /\ call.output = "limitedOutput" => fits
             /\ out' = o
    <3>1. code \in Nat
      BY <1>1, <1>4, <1>5, MatchCodeBounds
    <3>2. limited => filling \/ fits
      BY <1>4, <2>3 DEF Typed, CallTyped, Outputs, limited, filling
    <3>3. kept \in Nat
      <4>1. CASE limited /\ ~fits
        <5>1. op + 11 <= call.capacity
          BY <1>5, <2>3, <3>2, <4>1 DEF olimit, MFLIMIT, MINMATCH
        <5>2. PICK k \in Nat : k = call.capacity - (op + 2) - 6
          BY <1>5, <5>1
        <5>3. olimit - (op + 2) - 1 - LASTLITERALS = k
          BY <1>5, <5>2 DEF olimit, LASTLITERALS
        <5> QED
          BY <1>1, <4>1, <5>2, <5>3
      <4>2. CASE ~(limited /\ ~fits)
        BY <1>1, <3>1, <4>2
      <4> QED
        BY <4>1, <4>2
    <3>4. token \in 1..Len(out) /\ offset \in Int
      BY <1>4, <1>5, DistanceAssumption
    <3>5. o \in Seq(Byte)
      BY ONLY <1>1, <1>4, <3>3, <3>4, MatchBytes
    <3> QED
      BY <2>3, <3>5
  <2> QED
    BY <1>3, <2>1, <2>2, <2>3
<1> QED
  BY <1>2, <1>4, <1>6 DEF Written

\* The last literals are written.
LEMMA EncodeLastWrites ==
  ASSUME EngineInv, Written, EncodeLastLiterals
  PROVE  Written'
<1>1. PICK n, o, t :
        /\ n = LastRun /\ t = 16 * MinOf(n, 15) /\ o = WithRun(t, anchor, n)
  OBVIOUS
<1>2. /\ pc = "last_literals" /\ pc' = "idle"
      /\ \/ out' = out /\ result' = 0
         \/ /\ call.output = "limitedOutput" => LastFits
            /\ out' = o /\ result' = Len(out')
  BY <1>1 DEF EncodeLastLiterals, EncodeLast, Idle, LastRun, LastFits, WithRun
<1>3. Typed /\ Accepted /\ InSource /\ out \in Seq(Byte)
  BY <1>2 DEF EngineInv, Written
<1>4. CASE out' = out /\ result' = 0
  BY <1>2, <1>3, <1>4 DEF Written
<1>5. CASE /\ call.output = "limitedOutput" => LastFits
           /\ out' = o /\ result' = Len(out')
  <2>1. n \in Nat /\ n <= iend - anchor
    BY <1>1, <1>2, <1>5, LastRunFits, RoomAtEnd
  <2>2. /\ anchor \in Nat /\ iend \in Nat /\ iend <= Len(text) /\ Len(text) \in Nat
    BY <1>3, Ranges
  <2>3. PICK a \in Nat : a = anchor
    BY <2>2
  <2>4. text \in Seq(Byte) /\ a + n <= Len(text)
    BY <1>3, <2>1, <2>2, <2>3 DEF Typed
  <2>5. t \in Byte
    <3>1. t \in 0..240
      BY <1>1, <2>1, RunToken
    <3> QED
      BY ONLY <3>1 DEF Byte
  <2>6. WithRun(t, a, n) \in Seq(Byte)
    BY ONLY <1>3, <2>1, <2>4, <2>5, RunBytes
  <2>7. out' \in Seq(Byte)
    BY <1>1, <1>5, <2>3, <2>6
  <2>8. Len(out') \in Nat
    BY <2>7, LenProperties
  <2> QED
    BY <1>2, <1>5, <2>7, <2>8 DEF Written
<1> QED
  BY <1>2, <1>4, <1>5

\* The token of a match that follows a match has no literals.
LEMMA TestNextWrites ==
  ASSUME EngineInv, Written, TestNext
  PROVE  Written'
<1>1. /\ result' = result
      /\ \/ out' = Append(out, 0) /\ token' = op + 1
         \/ out' = out /\ pc' = "find_match"
  BY DEF TestNext, Goto
<1>2. out \in Seq(Byte) /\ result \in Nat /\ op = Len(out)
  BY DEF Written, op
<1>3. CASE out' = Append(out, 0) /\ token' = op + 1
  <2>1. 0 \in Byte
    BY DEF Byte
  <2>2. out' \in Seq(Byte) /\ out'[token'] = 0
    BY <1>2, <1>3, <2>1, AppendProperties
  <2> QED
    BY <1>1, <1>2, <2>2 DEF Written
<1>4. CASE out' = out /\ pc' = "find_match"
  BY <1>1, <1>2, <1>4 DEF Written
<1> QED
  BY <1>1, <1>3, <1>4

\* Every step of a call writes bytes.
LEMMA CompressStepWrites ==
  ASSUME EngineInv, InWindow, Written, CompressStep
  PROVE  Written'
<1>1. CASE FirstByte
  BY <1>1 DEF FirstByte, Goto, Written
<1>2. CASE FindMatch
  <2>1. out' = out /\ result' = result /\ pc' # "match"
    BY <1>2 DEF FindMatch, Goto
  <2> QED
    BY <2>1 DEF Written
<1> QED
  BY <1>1, <1>2, EncodeLiteralsWrites, EncodeMatchWrites, TestNextWrites, EncodeLastWrites
     DEF CompressStep

\* A call that starts has written nothing, or the block of an empty source.
LEMMA StartWrites ==
  ASSUME Written, NEW c, NEW r, LZ4_compress_generic(c, r)
  PROVE  Written'
<1>1. /\ out' = <<>> \/ out' = <<0>>
      /\ result' \in {0, 1, result}
      /\ pc' \in {"idle", "last_literals", "first_byte"}
  BY DEF LZ4_compress_generic, Idle, Goto
<1>2. <<0>> \in Seq(Byte) /\ <<>> \in Seq(Byte)
  BY DEF Byte
<1>3. result' \in Nat
  BY <1>1 DEF Written
<1> QED
  BY <1>1, <1>2, <1>3 DEF Written

\* What counts the calls, and what is still to be done.
Called == calls \in Nat /\ clean \in BOOLEAN /\ onExit \in {"return", "initStream", "rebase"}

\* A one-shot call.
LEMMA CallWrites ==
  ASSUME Written, Called, NEW r \in Requests, Call(r)
  PROVE  Written' /\ Called'
<1>1. r.calls \in Nat
  BY RequestsAssumption
<1>2. /\ \/ LZ4_compress_fast_extState(r)
         \/ LZ4_compress_fast_extState_fastReset(r)
         \/ \E a : LZ4_compress_destSize(r, a)
      /\ calls' = calls + r.calls /\ clean' \in {TRUE, FALSE, clean}
      /\ onExit' \in {"initStream", onExit}
  BY DEF Call
<1>3. ASSUME NEW q, LZ4_compress_fast_extState(q) PROVE Written'
  BY <1>3, StartWrites DEF LZ4_compress_fast_extState
<1>4. ASSUME LZ4_compress_fast_extState_fastReset(r) PROVE Written'
  <2>1. PICK c, a :
          /\ c = LZ4_prepareTable(ctx, r.size, TableType(r.size))
          /\ a = WithOutput(r, FastOutput(r), KeepsEntries(c, r), Clamped(r.acceleration))
    OBVIOUS
  <2>2. LZ4_compress_generic(c, a)
    BY ONLY <1>4, <2>1, Zenon DEF LZ4_compress_fast_extState_fastReset
  <2> QED
    BY <2>2, StartWrites
<1>5. ASSUME NEW a, LZ4_compress_destSize(r, a) PROVE Written'
  <2>1. CASE LZ4_compress_fast_extState([r EXCEPT !.acceleration = a])
    BY <1>3, <2>1
  <2>2. CASE LZ4_compress_generic(ClearedCtx, WithOutput(r, "fillOutput", FALSE, a))
    BY <2>2, StartWrites
  <2> QED
    BY <1>5, <2>1, <2>2 DEF LZ4_compress_destSize
<1>6. Called'
  <2>1. calls' \in Nat
    BY <1>1, <1>2 DEF Called
  <2>2. clean' \in BOOLEAN /\ onExit' \in {"return", "initStream", "rebase"}
    BY <1>2 DEF Called
  <2> QED
    BY <2>1, <2>2 DEF Called
<1> QED
  BY <1>2, <1>3, <1>4, <1>5, <1>6

\* A block of a stream.
LEMMA SendWrites ==
  ASSUME Written, Called, NEW b, SendBlock(b)
  PROVE  Written' /\ Called'
<1>1. PICK src, n : \/ LZ4_compress_forceExtDict(src, n)
                    \/ LZ4_compress_fast_continue(src, n, b.capacity, b.acceleration)
  BY DEF SendBlock
<1>2. calls' = calls + 1 /\ clean' = clean
  BY DEF SendBlock
<1>3. CASE LZ4_compress_forceExtDict(src, n)
  <2>1. \E c, r : LZ4_compress_generic(c, r)
    BY <1>3 DEF LZ4_compress_forceExtDict
  <2>2. onExit' = "rebase"
    BY <1>3 DEF LZ4_compress_forceExtDict
  <2> QED
    BY <1>2, <2>1, <2>2, StartWrites DEF Called
<1>4. CASE LZ4_compress_fast_continue(src, n, b.capacity, b.acceleration)
  <2>1. \E c, r : LZ4_compress_generic(c, r)
    BY <1>4 DEF LZ4_compress_fast_continue
  <2>2. onExit' \in {"return", "rebase"}
    BY <1>4 DEF LZ4_compress_fast_continue
  <2> QED
    BY <1>2, <2>1, <2>2, StartWrites DEF Called
<1> QED
  BY <1>1, <1>3, <1>4

\* What starts no call and compresses nothing writes nothing.
LEMMA OtherWrites ==
  ASSUME Written, Called, UNCHANGED engine, calls' \in Nat, clean' \in BOOLEAN,
         onExit' \in {"return", onExit}
  PROVE  Written' /\ Called'
<1>1. out' = out /\ result' = result /\ pc' = pc /\ token' = token
  BY DEF engine
<1> QED
  BY <1>1 DEF Written, Called

\* The steps between the calls.
LEMMA WrittenStep ==
  ASSUME SessionInv, InWindow, Written, Called, [SessionNext]_<<vars, dvars, svars>>
  PROVE  Written' /\ Called'
<1>1. CASE \E s \in Sessions : OpenStream(s)
  BY <1>1, OtherWrites DEF OpenStream, Called
<1>2. CASE \E b \in session.blocks : SendBlock(b)
  BY <1>2, SendWrites
<1>3. CASE \E r \in Requests : OneShotCall(r)
  BY <1>3, CallWrites DEF OneShotCall
<1>4. CASE SaveDict
  <2>1. UNCHANGED engine /\ calls' = calls /\ clean' = clean /\ onExit' = onExit
    BY <1>4 DEF SaveDict, LZ4_saveDict
  <2> QED
    BY <2>1, OtherWrites DEF Called
<1>5. CASE Compressing
  <2>1. Written'
    BY <1>5, CompressStepWrites DEF Compressing, SessionInv
  <2> QED
    BY <1>5, <2>1 DEF Compressing, Called
<1>6. CASE CleanOnExit \/ Rebase
  BY <1>6, OtherWrites DEF CleanOnExit, Rebase, Called
<1>7. CASE UNCHANGED vars
  BY <1>7, OtherWrites DEF vars, Called
<1>8. ASSUME Deliver \/ Receive \/ SessionEnds PROVE UNCHANGED vars
  BY <1>8 DEF Deliver, HandOver, Receive, SessionEnds, Stop
<1> QED
  BY <1>1, <1>2, <1>3, <1>4, <1>5, <1>6, <1>7, <1>8 DEF SessionNext, Working

\* The types that the run checks follow.
LEMMA WrittenIsTyped ==
  ASSUME SessionInv, InWindow, Written, Called
  PROVE  TypeOK
<1>1. Typed /\ StateSound(ctx) /\ offset \in 0..LZ4_DISTANCE_MAX
  BY DEF SessionInv, EngineInv, InWindow
<1>2. ctx.dictSize \in Nat
  BY <1>1 DEF Typed, StreamState, StateWith
<1>3. offset \in Offsets
  <2>1. PICK k, d : k = 256 * 256 - 1 /\ d = LZ4_DISTANCE_MAX
    OBVIOUS
  <2>2. k \in Nat /\ d \in MFLIMIT..k
    BY <2>1, DistanceAssumption, SMT
  <2>3. d \in Nat /\ d <= k
    BY ONLY <2>2 DEF MFLIMIT
  <2>4. offset \in 0..k
    <3>1. offset \in 0..d
      BY <1>1, <2>1
    <3> QED
      BY ONLY <2>2, <2>3, <3>1
  <2> QED
    BY ONLY <2>1, <2>4 DEF Offsets
<1>4. /\ pc \in {"idle", "first_byte", "find_match", "literals", "match", "test_next",
                "last_literals"}
      /\ ip \in Nat /\ anchor \in Nat
  BY <1>1 DEF Typed
<1>5. ctx.hashTable \in [Slots -> Nat] /\ ctx.currentOffset \in Nat
  BY <1>1 DEF StateSound
<1>6. out \in Seq(Byte) /\ result \in Nat
  BY DEF Written
<1>7. calls \in Nat /\ clean \in BOOLEAN /\ onExit \in {"return", "initStream", "rebase"}
  BY DEF Called
<1> QED
  BY ONLY <1>2, <1>3, <1>4, <1>5, <1>6, <1>7 DEF TypeOK

\* Every variable keeps its type over all calls and streams, and with it the
\* block is bytes, and an offset is a 16-bit number: no candidate is farther.
THEOREM CompressorTyped ==
  HashesInSlots /\ ForcedNotEmpty => (SessionSpec => []TypeOK)
<1> SUFFICES ASSUME HashesInSlots, ForcedNotEmpty PROVE SessionSpec => []TypeOK
  OBVIOUS
<1> DEFINE Inv == SessionInv /\ InWindow /\ BlockSeen /\ Placed
           All == Inv /\ Written /\ Called
<1>1. SessionInit => All
  <2>1. <<>> \in Seq(Byte)
    OBVIOUS
  <2>2. SessionInit => Written /\ Called
    BY <2>1 DEF SessionInit, Init, Written, Called
  <2> QED
    BY <2>2, SessionStarts, WindowStarts
<1>2. All /\ [SessionNext]_<<vars, dvars, svars>> => All'
  BY SessionStep, WindowStep, WrittenStep
<1>3. All => TypeOK
  BY WrittenIsTyped
<1> QED
  BY <1>1, <1>2, <1>3, PTL DEF SessionSpec
===========================================================================
