------------------------------- MODULE LZ4HC -------------------------------
(***************************************************************************)
(* One call of LZ4HC_compress_generic (lib/lz4/lz4hc.c): the three parsers *)
(* that choose what to encode.  LZ4MID_compress (level 2) takes the first  *)
(* match of two hash tables; LZ4HC_compress_hashChain (3 to 9) weighs up   *)
(* to three overlapping matches; LZ4HC_compress_optimal (10 to 12) plans   *)
(* the cheapest way to a position some LZ4_OPT_NUM bytes ahead.            *)
(***************************************************************************)
EXTENDS LZ4HCSearch

VARIABLES
  m0, m1, m2,      \* matches under consideration: where, length, offset
  opt,             \* the price table: how each position is reached, and at what cost
  cur,             \* position the optimal parser has reached in it
  last_match_pos,  \* where its last match ends
  plan             \* the matches and literals it has chosen, not yet encoded

choices == <<m0, m1, m2>>
pricing == <<opt, cur, last_match_pos, plan>>

OPTIMAL_ML        == ML_MASK - 1 + MINMATCH
LZ4MID_HASHSIZE   == 8
TRAILING_LITERALS == 3

mflimit == iend - MFLIMIT

\* fillOutput keeps room for the last literals.
oend == IF filling THEN call.capacity - LASTLITERALS ELSE call.capacity

Match(at, len, off) == [at |-> at, len |-> len, off |-> off]
None == Match(0, 0, 0)

\* The match the search has found.
Found == Match(find.at - find.back, find.longest, find.off)

Cut(m, n)   == [m EXCEPT !.len = n]
Shift(m, n) == [m EXCEPT !.at = @ + n, !.len = @ - n]
EndOf(m)    == m.at + m.len

\* A call that fails leaves a state that must be initialised.
Dirtied(c) == [c EXCEPT !.dirty = @ \/ (pc' = "idle" /\ result' <= 0)]

---------------------------------------------------------------------------
(* Encoding.                                                               *)

Literals(m) == m.at - anchor

\* Faulty variant: no room is kept for the last literals.
LiteralsFit_NoRoom(n) == limited => op + 1 + n \div 255 + n + (2 + 1) <= oend

\* The two checks of a sequence with n literals, the second one at op + at.
LiteralsFit(n) == limited => op + 1 + n \div 255 + n + (2 + 1 + LASTLITERALS) <= oend
LengthFits(at, n) == limited => op + at + n \div 255 + (1 + LASTLITERALS) <= oend

BeforeLength(m) == 1 + Len(LengthBytes(Literals(m))) + Literals(m) + 2

Fits(m) == LiteralsFit(Literals(m)) /\ LengthFits(BeforeLength(m), m.len - MINMATCH)

Sequence(m) ==
  <<16 * MinOf(Literals(m), 15) + MinOf(m.len - MINMATCH, 15)>> \o LengthBytes(Literals(m))
    \o SubSeq(text, anchor + 1, m.at) \o <<m.off % 256, (m.off \div 256) % 256>>
    \o LengthBytes(m.len - MINMATCH)

\* The literals are copied 8 bytes at a time.
LiteralsReach(m) == WildEnd(op + BeforeLength(m) - 2 - Literals(m), Literals(m))

Write(m) ==
  /\ out' = out \o Sequence(m)
  /\ ip' = EndOf(m) /\ anchor' = EndOf(m)
  /\ Reach(MaxOf(LiteralsReach(m), Len(out')))

\* Faulty variant: the last match is not made shorter.
LastMatch_Whole(m) == m

\* The last match of fillOutput, as long as its length bytes have room.
LastMatch(m) ==
  LET left == oend - 3 - (op + 1 + (Literals(m) + 240) \div 255 + Literals(m))
  IN  Cut(m, MinOf(m.len, MINMATCH + (ML_MASK - 1) + left * 255))

\* There is room for its literals, and the block does not end too soon after it.
HasLastMatch(m) ==
  LET literals == op + 1 + (Literals(m) + 240) \div 255 + Literals(m)
  IN  /\ literals <= oend - 3
      /\ oend + LASTLITERALS - (literals + 2) - 1 + LastMatch(m).len >= MFLIMIT

\* _dest_overflow: m does not fit.
Overflow(m) ==
  /\ ~Fits(m)
  /\ \/ /\ ~filling
        /\ Idle(0)
        /\ IF LiteralsFit(Literals(m)) THEN Reach(LiteralsReach(m)) ELSE UNCHANGED reach
        /\ UNCHANGED <<out, ip, anchor>>
     \/ /\ filling
        /\ Goto("last_literals")
        /\ IF HasLastMatch(m) THEN Write(LastMatch(m))
           ELSE /\ IF LiteralsFit(Literals(m)) THEN Reach(LiteralsReach(m)) ELSE UNCHANGED reach
                /\ ip' = m.at
                /\ UNCHANGED <<out, anchor>>

\* Encode m, and go on at label.
LZ4HC_encodeSequence(m, label) ==
  /\ \/ Fits(m) /\ Write(m) /\ Goto(label)
     \/ Overflow(m)
  /\ UNCHANGED <<text, call, inputConsumed>>

\* The block ends with literals.
LastLiterals ==
  /\ pc = "last_literals"
  /\ EncodeLast
  /\ hc' = Dirtied(hc)
  /\ UNCHANGED <<text, call, anchor, find, choices, pricing>>

---------------------------------------------------------------------------
(* LZ4MID_compress.                                                        *)

\* The table t with index i at the positions of 8 or 4 bytes from p on.
ADDPOS8(t, p, i) == [t EXCEPT ![LZ4MID_hash8Ptr(p)] = i]
ADDPOS4(t, p, i) == [t EXCEPT ![LZ4MID_hash4Ptr(p)] = i]

\* Faulty variant: off by one in the distance.
Common_Far(p, i) ==
  IF Index(p) - i > LZ4_DISTANCE_MAX + 1 \/ i < hc.lowLimit THEN 0
  ELSE LZ4_count(p, IF i >= hc.dictLimit THEN PrefixAt(i) ELSE DictAt(i), matchlimit - p)

\* How much of p is at index i: in the dictionary, up to its end.
Common(p, i) ==
  IF Index(p) - i > LZ4_DISTANCE_MAX \/ i < hc.lowLimit THEN 0
  ELSE IF i >= hc.dictLimit THEN LZ4_count(p, PrefixAt(i), matchlimit - p)
  ELSE LZ4_count(p, DictAt(i), MinOf(hc.dictLimit - i, matchlimit - p))

\* The match of p with index i, if it is one.
MidMatch(p, i) == IF Common(p, i) >= MINMATCH THEN Match(p, Common(p, i), Index(p) - i) ELSE None

Skip == ip + 1 + (ip - anchor) \div 512

\* One position: the match of 8 bytes, the one of 4 or a longer one just after
\* it, or one in an attached dictionary.
MidSearch ==
  /\ pc = "mid" /\ ip <= mflimit
  /\ LET t8     == ADDPOS8(hc.hashTable, ip, Index(ip))
         t4     == ADDPOS4(t8, ip, Index(ip))
         pos4   == t8[LZ4MID_hash4Ptr(ip)]
         long   == MidMatch(ip, hc.hashTable[LZ4MID_hash8Ptr(ip)])
         short  == MidMatch(ip, pos4)
         after  == t4[LZ4MID_hash8Ptr(ip + 1)]
         second == IF pos4 >= hc.dictLimit /\ after >= hc.dictLimit /\ ip < mflimit
                   THEN MidMatch(ip + 1, after) ELSE None
         inDict == call.usingDictCtx /\ Index(ip) - hc.lowLimit < LZ4_DISTANCE_MAX - 8
         there  == IF inDict /\ IsMid(hc.dictCtx) THEN LZ4MID_searchExtDict(ip) ELSE NoMatch
         Take(m, t) ==
           /\ m1' = m /\ hc' = [hc EXCEPT !.hashTable = t]
           /\ Goto("mid_encode") /\ UNCHANGED <<ip, find>>
     IN  IF long # None THEN Take(long, t8)
         ELSE IF short # None
         THEN IF second.len > short.len THEN Take(second, ADDPOS8(t4, ip + 1, Index(ip) + 1))
              ELSE Take(short, t4)
         ELSE IF there.len > 0 THEN Take(Match(ip, there.len, there.off), t4)
         ELSE /\ hc' = [hc EXCEPT !.hashTable = t4]
              /\ IF inDict /\ ~IsMid(hc.dictCtx)
                 THEN find' = LZ4MID_searchHCDict(ip) /\ Goto("search_dict") /\ UNCHANGED ip
                 ELSE ip' = Skip /\ Goto("mid") /\ UNCHANGED find
              /\ UNCHANGED m1
  /\ UNCHANGED <<text, call, anchor, out, reach, inputConsumed, m0, m2, pricing>>

\* The attached dictionary, of a higher level, has been searched.
MidFound ==
  /\ pc = "mid_found"
  /\ IF find.longest >= MINMATCH
     THEN m1' = Found /\ Goto("mid_encode") /\ UNCHANGED ip
     ELSE ip' = Skip /\ Goto("mid") /\ UNCHANGED m1
  /\ UNCHANGED <<text, call, anchor, out, reach, inputConsumed, hc, find, m0, m2, pricing>>

\* The table with the end of a match in it.
EndOfMatch(t, p) ==
  LET far == IF p - hc.prefixStart > 5 THEN ADDPOS8(t, p - 5, Index(p) - 5) ELSE t
      t8  == ADDPOS8(ADDPOS8(far, p - 3, Index(p) - 3), p - 2, Index(p) - 2)
  IN  IF p - 2 < iend - LZ4MID_HASHSIZE
      THEN ADDPOS4(ADDPOS4(t8, p - 2, Index(p) - 2), p - 1, Index(p) - 1)
      ELSE t

\* Catch back, encode, and fill the tables.  What is stored for the beginning
\* of the match are the indexes of the position of the search.
MidEncode ==
  /\ pc = "mid_encode"
  /\ LET back == CountBack(m1.at, m1.at - m1.off,
                           MinOf(m1.at - anchor, m1.at - hc.prefixStart - m1.off))
         m    == Match(m1.at - back, m1.len + back, m1.off)
         t8   == ADDPOS8(ADDPOS8(hc.hashTable, m.at + 1, Index(ip) + 1), m.at + 2, Index(ip) + 2)
         t4   == ADDPOS4(t8, m.at + 1, Index(ip) + 1)
     IN  /\ LZ4HC_encodeSequence(m, "mid")
         /\ hc' = Dirtied([hc EXCEPT !.hashTable = IF Fits(m) THEN EndOfMatch(t4, EndOf(m)) ELSE t4])
  /\ UNCHANGED <<find, choices, pricing>>

---------------------------------------------------------------------------
(* LZ4HC_compress_hashChain.                                               *)

searching == <<text, call, ip, anchor, out, reach, inputConsumed>>

\* A step that only chooses.
Choose(label) == Goto(label) /\ UNCHANGED <<searching, hc, find, pricing>>

\* Encode m and go on at label.
ChainEncode(m, label) ==
  /\ LZ4HC_encodeSequence(m, label)
  /\ hc' = Dirtied(hc)
  /\ UNCHANGED <<find, pricing>>

\* InsertAndFindBestMatch at ip.
ChainFirst ==
  /\ pc = "hc" /\ ip <= mflimit
  /\ StartSearch(ip, ip, MINMATCH - 1, "found1")
  /\ UNCHANGED <<searching, choices, pricing>>

ChainFound1 ==
  /\ pc = "found1"
  /\ IF Found.len < MINMATCH
     THEN ip' = ip + 1 /\ Goto("hc") /\ UNCHANGED choices
     ELSE m0' = Found /\ m1' = Found /\ Goto("search2") /\ UNCHANGED <<ip, m2>>
  /\ UNCHANGED <<text, call, anchor, out, reach, inputConsumed, hc, find, pricing>>

\* A longer match than m, which begins within it; n bytes before its end.
SearchWider(m, n, label) ==
  /\ IF EndOf(m) <= mflimit THEN StartSearch(EndOf(m) - n, m.at, m.len, label)
     ELSE find' = [find EXCEPT !.longest = 0] /\ Goto(label) /\ UNCHANGED hc
  /\ UNCHANGED <<searching, pricing>>

\* _Search2
ChainSearch2 ==
  /\ pc = "search2"
  /\ SearchWider(m1, 2, "found2")
  /\ UNCHANGED choices

\* The first match: the one before it, if the match m would cut that one short.
First(m) == IF m0.at < m1.at /\ m.at < m1.at + m0.len THEN m0 ELSE m1

ChainFound2 ==
  /\ pc = "found2"
  /\ \/ /\ Found.len <= m1.len
        /\ ChainEncode(m1, "hc")
        /\ UNCHANGED choices
     \/ /\ Found.len > m1.len /\ Found.at - First(Found).at < 3
        /\ m1' = Found
        /\ Choose("search2")
        /\ UNCHANGED <<m0, m2>>
     \/ /\ Found.len > m1.len /\ Found.at - First(Found).at >= 3
        /\ m1' = First(Found) /\ m2' = Found
        /\ Choose("search3")
        /\ UNCHANGED m0

\* How long m is at best, if n is to follow it: n keeps MINMATCH bytes.
BestLength(m, n) == MinOf(MinOf(m.len, OPTIMAL_ML), EndOf(n) - MINMATCH - m.at)

\* n, moved out of the way of m if they begin close to each other.
AfterMatch(m, n) ==
  IF n.at - m.at < OPTIMAL_ML THEN Shift(n, MaxOf(0, BestLength(m, n) - (n.at - m.at))) ELSE n

\* _Search3
ChainSearch3 ==
  /\ pc = "search3"
  /\ m2' = AfterMatch(m1, m2)
  /\ SearchWider(m2', 3, "found3")
  /\ UNCHANGED <<m0, m1>>

\* m, which ends where n begins.
UpTo(m, n) == Cut(m, MinOf(m.len, n.at - m.at))

\* m1 as it is encoded when three matches are known.
FirstOfThree ==
  IF m2.at >= EndOf(m1) THEN m1
  ELSE IF m2.at - m1.at < OPTIMAL_ML THEN Cut(m1, BestLength(m1, m2))
  ELSE UpTo(m1, m2)

\* m2 without what m1 covers, or m3 if that leaves too little.
SecondOrThird(m3) ==
  LET rest == IF m2.at < EndOf(m1) THEN Shift(m2, EndOf(m1) - m2.at) ELSE m2
  IN  IF rest.len < MINMATCH THEN m3 ELSE rest

\* With m3, the match just found, no longer than m2: encode m1 and m2.
ChainTwo ==
  /\ pc = "found3" /\ Found.len <= m2.len
  /\ ChainEncode(UpTo(m1, m2), "encode2")
  /\ UNCHANGED choices

ChainEncode2 ==
  /\ pc = "encode2"
  /\ ChainEncode(m2, "hc")
  /\ UNCHANGED choices

\* m3 leaves no room for m2: m1 is encoded, or waits for a better second one.
ChainSqueezed ==
  /\ pc = "found3" /\ Found.len > m2.len /\ Found.at < EndOf(m1) + 3
  /\ \/ /\ Found.at >= EndOf(m1)
        /\ m0' = SecondOrThird(Found) /\ m1' = Found
        /\ ChainEncode(m1, "search2")
        /\ UNCHANGED m2
     \/ /\ Found.at < EndOf(m1)
        /\ m2' = Found
        /\ Choose("search3")
        /\ UNCHANGED <<m0, m1>>

\* Three ascending matches: the first one is written.
ChainThree ==
  /\ pc = "found3" /\ Found.len > m2.len /\ Found.at >= EndOf(m1) + 3
  /\ m1' = IF m2.at < EndOf(m1) THEN AfterMatch(m1, m2) ELSE m2
  /\ m2' = Found
  /\ ChainEncode(FirstOfThree, "search3")
  /\ UNCHANGED m0

Chain ==
  \/ ChainFirst \/ ChainFound1 \/ ChainSearch2 \/ ChainFound2 \/ ChainSearch3
  \/ ChainTwo \/ ChainEncode2 \/ ChainSqueezed \/ ChainThree

---------------------------------------------------------------------------
(* LZ4HC_compress_optimal.  opt[n] says how position ip + n is reached at  *)
(* least cost: by a match of mlen bytes, or by a literal (mlen 1), the     *)
(* last of litlen.                                                         *)

LZ4HC_literalsPrice(n) == n + (IF n >= RUN_MASK THEN 1 + (n - RUN_MASK) \div 255 ELSE 0)

LZ4HC_sequencePrice(lits, len) ==
  3 + LZ4HC_literalsPrice(lits)
    + (IF len >= ML_MASK + MINMATCH THEN 1 + (len - (ML_MASK + MINMATCH)) \div 255 ELSE 0)

sufficient_len == MinOf(call.targetLength, LZ4_OPT_NUM - 1)

Literal(n, price) == [price |-> price, off |-> 0, mlen |-> 1, litlen |-> n]
ByMatch(m, n, lits, price) == [price |-> price, off |-> m.off, mlen |-> n, litlen |-> lits]

\* What LZ4HC_FindLongerMatch returns: a match longer than n, or None.
Longer(n) ==
  IF Found.len <= n THEN None
  ELSE IF call.favor /\ Found.len \in 19..36 THEN Cut(Found, 18)
  ELSE Found

\* The table t, whose last match ends at last, with literals after it.
Trailing(t, last) ==
  LET after == last + 1..last + TRAILING_LITERALS
  IN  [p \in DOMAIN t \cup after |->
         IF p \in after THEN Literal(p - last, t[last].price + LZ4HC_literalsPrice(p - last)) ELSE t[p]]

\* The table after the first match m, n literals after the last sequence.
FirstPrices(m, n) ==
  Trailing([p \in 0..m.len |->
              IF p < MINMATCH THEN Literal(n + p, LZ4HC_literalsPrice(n + p))
              ELSE ByMatch(m, p, n, LZ4HC_sequencePrice(n, p))],
           m.len)

\* Literals from cur on, where they are cheaper.
WithLiterals ==
  LET n == opt[cur].litlen
      At(k) == opt[cur].price - LZ4HC_literalsPrice(n) + LZ4HC_literalsPrice(n + k)
  IN  [p \in DOMAIN opt |->
         IF p - cur \in 1..MINMATCH - 1 /\ At(p - cur) < opt[p].price
         THEN Literal(n + p - cur, At(p - cur)) ELSE opt[p]]

\* The match m at cur: what its first n bytes cost, and where that is taken.
PriceWith(n) ==
  LET lits == opt[cur].litlen
  IN  IF opt[cur].mlen # 1 THEN opt[cur].price + LZ4HC_sequencePrice(0, n)
      ELSE (IF cur > lits THEN opt[cur - lits].price ELSE 0) + LZ4HC_sequencePrice(lits, n)

Cheaper(n) ==
  cur + n > last_match_pos + TRAILING_LITERALS
    \/ PriceWith(n) <= opt[cur + n].price - (IF call.favor THEN 1 ELSE 0)

LastAfter(m) == IF Cheaper(m.len) THEN MaxOf(last_match_pos, cur + m.len) ELSE last_match_pos

WithMatch(m) ==
  LET taken    == {n \in MINMATCH..m.len : Cheaper(n)}
      lits     == IF opt[cur].mlen = 1 THEN opt[cur].litlen ELSE 0
      literals == WithLiterals
  IN  [p \in DOMAIN opt \cup {cur + n : n \in taken} |->
         IF p - cur \in taken THEN ByMatch(m, p - cur, lits, PriceWith(p - cur)) ELSE literals[p]]

\* The sequences that lead to position n, each literal one of its own.
Path(n) ==
  LET to[p \in 0..n] ==
        IF p = 0 THEN <<>>
        ELSE Append(to[p - opt[p].mlen], Match(ip + p - opt[p].mlen, opt[p].mlen, opt[p].off))
  IN  to[n]

\* The price table is allocated, which may fail.
OptAlloc ==
  /\ pc = "opt_alloc"
  /\ Goto("opt") \/ Idle(0)
  /\ hc' = Dirtied(hc)
  /\ UNCHANGED <<searching, find, choices, pricing>>

OptFirst ==
  /\ pc = "opt" /\ ip <= mflimit
  /\ StartSearch(ip, ip, MINMATCH - 1, "opt_first")
  /\ UNCHANGED <<searching, choices, pricing>>

\* A match longer than sufficient_len is encoded at once.
OptFoundFirst ==
  /\ pc = "opt_first"
  /\ LET m == Longer(MINMATCH - 1)
     IN  \/ /\ m = None
            /\ ip' = ip + 1 /\ Goto("opt")
            /\ UNCHANGED <<text, call, anchor, out, reach, inputConsumed, hc, find, pricing>>
         \/ /\ m.len > sufficient_len
            /\ ChainEncode(m, "opt")
         \/ /\ m.len \in 1..sufficient_len
            /\ opt' = FirstPrices(m, ip - anchor)
            /\ cur' = 1 /\ last_match_pos' = m.len
            /\ Goto("opt_next")
            /\ UNCHANGED <<searching, hc, find, plan>>
  /\ UNCHANGED choices

\* The next position costs no more: no search.
Cheap ==
  /\ opt[cur + 1].price <= opt[cur].price
  /\ call.fullUpdate => opt[cur + MINMATCH].price < opt[cur].price + 3

OptNext ==
  /\ pc = "opt_next"
  /\ \/ /\ cur >= last_match_pos \/ ip + cur > mflimit
        /\ plan' = Path(last_match_pos)
        /\ Goto("opt_encode")
        /\ UNCHANGED <<hc, find, cur>>
     \/ /\ cur < last_match_pos /\ ip + cur <= mflimit
        /\ IF Cheap THEN cur' = cur + 1 /\ UNCHANGED <<hc, find, pc, result>>
           ELSE /\ StartSearch(ip + cur, ip + cur,
                               IF call.fullUpdate THEN MINMATCH - 1 ELSE last_match_pos - cur, "opt_found")
                /\ UNCHANGED cur
        /\ UNCHANGED plan
  /\ UNCHANGED <<searching, choices, opt, last_match_pos>>

\* Faulty variant: the plan may go beyond the table.
TooFar_Never(m) == m.len > sufficient_len

\* m ends the plan: it is long enough, or reaches the end of the table.
TooFar(m) == m.len > sufficient_len \/ m.len + cur >= LZ4_OPT_NUM

OptFound ==
  /\ pc = "opt_found"
  /\ LET m == Longer(IF call.fullUpdate THEN MINMATCH - 1 ELSE last_match_pos - cur)
     IN  \/ /\ m = None
            /\ cur' = cur + 1 /\ Goto("opt_next")
            /\ UNCHANGED <<opt, last_match_pos, plan>>
         \/ /\ m # None /\ TooFar(m)
            /\ plan' = Append(Path(cur), m)
            /\ Goto("opt_encode")
            /\ UNCHANGED <<opt, cur, last_match_pos>>
         \/ /\ m # None /\ ~TooFar(m)
            /\ last_match_pos' = LastAfter(m)
            /\ opt' = Trailing(WithMatch(m), last_match_pos')
            /\ cur' = cur + 1 /\ Goto("opt_next")
            /\ UNCHANGED plan
  /\ UNCHANGED <<searching, hc, find, choices>>

\* The sequences of the plan, in order; literals wait for the next match.
OptEncode ==
  /\ pc = "opt_encode"
  /\ \/ /\ plan = <<>>
        /\ Goto("opt")
        /\ UNCHANGED <<searching, hc, plan>>
     \/ /\ plan # <<>>
        /\ plan' = Tail(plan)
        /\ IF Head(plan).len = 1
           THEN ip' = ip + 1 /\ Goto("opt_encode")
                /\ UNCHANGED <<text, call, anchor, out, reach, inputConsumed, hc>>
           ELSE LZ4HC_encodeSequence(Head(plan), "opt_encode") /\ hc' = Dirtied(hc)
  /\ UNCHANGED <<find, choices, opt, cur, last_match_pos>>

Optimal == OptAlloc \/ OptFirst \/ OptFoundFirst \/ OptNext \/ OptFound \/ OptEncode

---------------------------------------------------------------------------
(* The call.                                                               *)

\* Nothing is left to be searched.
ParserEnds ==
  /\ pc \in {"mid", "hc", "opt"} /\ ip > mflimit
  /\ Goto("last_literals")
  /\ UNCHANGED <<searching, hc, find, choices, pricing>>

\* LZ4HC_compress_generic_internal on the state c.
Start(c, r, usingDictCtx) ==
  LET params == LZ4HC_getCLevelParams(r.level)
      opts   == params.strat = "opt"
  IN  /\ call' = [source |-> r.source, size |-> r.size, capacity |-> r.capacity, output |-> r.output,
                  strat |-> params.strat, nbSearches |-> params.nbSearches,
                  targetLength |-> params.targetLength,
                  fullUpdate |-> opts /\ r.level >= LZ4HC_CLEVEL_MAX,
                  patternAnalysis |-> opts \/ params.nbSearches > 128, chainSwap |-> opts,
                  favor |-> opts /\ c.favorDecSpeed, usingDictCtx |-> usingDictCtx]
      /\ ip' = r.source /\ anchor' = r.source
      /\ out' = <<>> /\ reach' = 0
      /\ inputConsumed' = r.size
      /\ IF \/ r.output = "fillOutput" /\ r.capacity < 1
            \/ r.size \notin 0..LZ4_MAX_INPUT_SIZE
         THEN Idle(0) /\ hc' = c
         ELSE /\ hc' = [c EXCEPT !.end = @ + r.size]
              /\ Goto(IF opts THEN "opt_alloc"
                      ELSE IF r.size < LZ4_minLength THEN "last_literals"
                      ELSE params.strat)
      /\ UNCHANGED <<find, choices, pricing>>

\* Faulty variant: the end of the prefix is not put in the tables.
LZ4HC_setExternalDict_Bare(c, newBlock) ==
  [c EXCEPT !.lowLimit = c.dictLimit, !.dictStart = c.prefixStart, !.dictLimit = EndIndex(c),
            !.prefixStart = newBlock, !.end = newBlock, !.dictCtx = NoDictCtx]

\* The prefix of c becomes its external dictionary, and newBlock the prefix.
LZ4HC_setExternalDict(c, newBlock) ==
  LET d == IF PrefixSize(c) >= 4 /\ ~IsMid(c) THEN LZ4HC_Insert(c, c.end - 3) ELSE c
  IN  [d EXCEPT !.lowLimit = c.dictLimit, !.dictStart = c.prefixStart, !.dictLimit = EndIndex(c),
                !.prefixStart = newBlock, !.end = newBlock, !.nextToUpdate = EndIndex(c),
                !.dictCtx = NoDictCtx]

\* Two states fill their tables in the same way.
isStateCompatible(c, d) == IsMid(c) <=> IsMid(d)

\* History, in the prefix and the external dictionary.
Position(c) == PrefixSize(c) + c.dictLimit - c.lowLimit

\* A stream with an attached dictionary forgets it when it has enough history
\* of its own, and takes over its tables when it has none and the source is large.
LZ4HC_compress_generic(c, r) ==
  \/ /\ c.dictCtx = NoDictCtx
     /\ Start(c, r, FALSE)
  \/ /\ c.dictCtx # NoDictCtx
     /\ \/ /\ Position(c) >= KB64
           /\ Start([c EXCEPT !.dictCtx = NoDictCtx], r, FALSE)
        \/ /\ Position(c) = 0 /\ r.size > FourKB /\ isStateCompatible(c, c.dictCtx)
           /\ Start([LZ4HC_setExternalDict(c.dictCtx, r.source) EXCEPT !.compressionLevel = r.level],
                    r, FALSE)
        \/ /\ Position(c) < KB64
           /\ ~(Position(c) = 0 /\ r.size > FourKB /\ isStateCompatible(c, c.dictCtx))
           /\ Start(c, r, TRUE)

HCStep ==
  \/ (SearchStep /\ UNCHANGED <<choices, pricing>>)
  \/ MidSearch \/ MidFound \/ MidEncode \/ Chain \/ Optimal \/ ParserEnds \/ LastLiterals

---------------------------------------------------------------------------
(* Properties.                                                             *)

\* What LZ4MID_compress is about to encode is a match, whichever table it is from.
MidIsMatch == pc = "mid_encode" => IsMatch(m1.at, m1.len, m1.off)

\* The price table: the three literals after the last match have a place in it,
\* and every position up to them has been reached, from an earlier one that has.
PlanInTable ==
  pc \in {"opt_next", "opt_found"} =>
    /\ last_match_pos < LZ4_OPT_NUM
    /\ 0..last_match_pos + TRAILING_LITERALS \subseteq DOMAIN opt
    /\ DOMAIN opt \subseteq 0..LZ4_OPT_NUM + TRAILING_LITERALS - 1
    /\ \A p \in 1..last_match_pos : opt[p].mlen \in 1..p
=============================================================================
