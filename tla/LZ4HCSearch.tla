---------------------------- MODULE LZ4HCSearch ----------------------------
(***************************************************************************)
(* The state of the high compression mode (lib/lz4/lz4hc.c) and its search *)
(* for matches: LZ4HC_InsertAndGetWiderMatch, which follows chains of      *)
(* earlier positions with the same hash, and the search in an attached     *)
(* dictionary.                                                             *)
(*                                                                         *)
(* Every byte the compressor has seen has an index.  The prefix, the text  *)
(* up to the source, has the indexes from dictLimit on; the external       *)
(* dictionary those from lowLimit to dictLimit; an attached dictionary     *)
(* comes before lowLimit, with indexes of its own.  One search is several  *)
(* steps, one for each candidate it looks at, and goes on in find.         *)
(***************************************************************************)
EXTENDS LZ4Common, SequencesExt

CONSTANTS
  LZ4HC_HASHTABLESIZE,
  LZ4HC_hash(_),  \* of 4 bytes, below LZ4HC_HASHTABLESIZE
  LZ4MID_hash7(_),  \* of 7 bytes, below half of it
  FourKB, ThirtyTwoKB, OneGB, TwoGB,
  LZ4_OPT_NUM     \* positions the optimal parser plans ahead

ASSUME SearchAssumption ==
  /\ LZ4HC_HASHTABLESIZE \in {2 * k : k \in 1..16384}
  /\ FourKB \in Nat /\ ThirtyTwoKB \in Nat /\ OneGB \in Nat /\ TwoGB \in Nat /\ LZ4_OPT_NUM \in 20..4096

VARIABLES
  hc,    \* LZ4HC_CCtx_internal
  find   \* the search that is going on, or the result of the last one

LZ4MID_HASHTABLESIZE  == LZ4HC_HASHTABLESIZE \div 2
LZ4HC_CLEVEL_DEFAULT  == 9
LZ4HC_CLEVEL_MAX      == 12

NoDictCtx == [compressionLevel |-> 0]

\* k_clTable, for the levels from 2 on.
LZ4HC_getCLevelParams(level) ==
  LET n == IF level < 1 THEN LZ4HC_CLEVEL_DEFAULT ELSE MinOf(level, LZ4HC_CLEVEL_MAX)
  IN  IF n <= 2 THEN [strat |-> "mid", nbSearches |-> 2, targetLength |-> 16]
      ELSE IF n <= 9
      THEN [strat |-> "hc", nbSearches |-> <<4, 8, 16, 32, 64, 128, 256>>[n - 2], targetLength |-> 16]
      ELSE [strat |-> "opt",
            nbSearches |-> CASE n = 10 -> 96 [] n = 11 -> 512 [] n = 12 -> 16384,
            targetLength |-> CASE n = 10 -> 64 [] n = 11 -> 128 [] n = 12 -> LZ4_OPT_NUM]

IsMid(c) == LZ4HC_getCLevelParams(c.compressionLevel).strat = "mid"

---------------------------------------------------------------------------
(* Indexes.  c is a state; without one, that of the running call is meant. *)

PrefixSize(c) == c.end - c.prefixStart
IndexIn(c, p) == p - c.prefixStart + c.dictLimit
EndIndex(c)   == IndexIn(c, c.end)

Index(p)   == IndexIn(hc, p)
PrefixAt(i) == hc.prefixStart + i - hc.dictLimit
DictAt(i)  == hc.dictStart + i - hc.lowLimit
dictEnd    == DictAt(hc.dictLimit)

\* The address of an index of an attached dictionary.
AttachedAt(i) == hc.dictCtx.prefixStart + i - hc.dictCtx.dictLimit

\* The lowest index an offset at p can refer to.
LowestMatchIndex(p) == MaxOf(hc.lowLimit, Index(p) - LZ4_DISTANCE_MAX)

Word(p, n) == [i \in 1..n |-> Text(p + i - 1)]

LZ4HC_hashPtr(p)   == LZ4HC_hash(Word(p, 4))
LZ4MID_hash4Ptr(p) == LZ4HC_hash(Word(p, 4)) \div 2
\* The second half of the table is hash8Table.
LZ4MID_hash8Ptr(p) == LZ4MID_HASHTABLESIZE + LZ4MID_hash7(Word(p, 7))

\* The distance to the one before, as the chain keeps it in 16 bits.  A
\* negative one is a huge number.
Delta(n) == IF n \in 0..LZ4_DISTANCE_MAX THEN n ELSE LZ4_DISTANCE_MAX

\* DELTANEXTU16
NextDelta(c, i) == c.chainTable[i % KB64]

\* c with the positions before p in the tables, from nextToUpdate on.
LZ4HC_Insert(c, p) ==
  LET target  == IndexIn(c, p)
      Add(t, i) ==
        LET h == LZ4HC_hashPtr(c.prefixStart + i - c.dictLimit)
        IN  [hash  |-> [t.hash EXCEPT ![h] = i],
             chain |-> [t.chain EXCEPT ![i % KB64] = Delta(i - t.hash[h])]]
      tables  == FoldLeft(Add, [hash |-> c.hashTable, chain |-> c.chainTable],
                          [k \in 1..target - c.nextToUpdate |-> c.nextToUpdate + k - 1])
  IN  [c EXCEPT !.hashTable = tables.hash, !.chainTable = tables.chain, !.nextToUpdate = target]

---------------------------------------------------------------------------
(* One search, at p, for a match longer than longest that may begin as     *)
(* early as low.                                                           *)

\* What comes after it is at label.
Search(p, low, longest, index, tries, label) ==
  [at |-> p, low |-> low, longest |-> longest, off |-> 0, back |-> 0, index |-> index,
   left |-> tries, chainPos |-> 0, label |-> label]

StartSearch(p, low, longest, label) ==
  /\ hc' = LZ4HC_Insert(hc, p)
  /\ find' = Search(p, low, longest, hc'.hashTable[LZ4HC_hashPtr(p)], call.nbSearches, label)
  /\ Goto("search")

lookBack == find.at - find.low

\* How far a match at q goes back, in a segment that starts at first.
BackTo(q, first) ==
  IF lookBack = 0 THEN 0 ELSE CountBack(find.at, q, MinOf(lookBack, q - first))

NoMatch == [len |-> 0, back |-> 0]

\* A match of 4 bytes and n more that goes back b bytes.
Measure(n, b) == [len |-> MINMATCH + n + b, back |-> b]

\* The candidate of index i in the prefix, unless its bytes at the end of the
\* longest match so far differ.
InPrefix(i) ==
  LET q == PrefixAt(i)
      p == find.at
  IN  IF SameBytes(find.low + find.longest - 1, q - lookBack + find.longest - 1, 2) /\ Same4(q, p)
      THEN Measure(LZ4_count(p + MINMATCH, q + MINMATCH, matchlimit - (p + MINMATCH)),
                   BackTo(q, hc.prefixStart))
      ELSE NoMatch

\* The candidate of index i in the external dictionary.  A match that reaches
\* its end goes on in the prefix.
InExtDict(i) ==
  LET q      == DictAt(i)
      p      == find.at
      vLimit == MinOf(p + hc.dictLimit - i, matchlimit)
      n      == LZ4_count(p + MINMATCH, q + MINMATCH, vLimit - (p + MINMATCH))
      more   == LZ4_count(vLimit, hc.prefixStart, matchlimit - vLimit)
  IN  IF i <= hc.dictLimit - 4 /\ Same4(q, p)
      THEN Measure(IF p + MINMATCH + n = vLimit THEN n + more ELSE n, BackTo(q, hc.dictStart))
      ELSE NoMatch

\* favorDecSpeed skips the small offsets.
Measured(i) ==
  IF call.favor /\ Index(find.at) - i < 8 THEN NoMatch
  ELSE IF i >= hc.dictLimit THEN InPrefix(i)
  ELSE InExtDict(i)

\* The search with the match m of the candidate of index i, if it is longer.
Wider(f, m, i) ==
  IF m.len > f.longest
  THEN [f EXCEPT !.longest = m.len, !.off = Index(f.at) - i, !.back = m.back]
  ELSE f

\* Where the search is over: an index below all others.
Over == -1

\* Back by delta from index i, where the code tests that the chain goes that far.
Back(i, delta) == IF delta > i THEN Over ELSE i - delta

\* The chain with the longest jump among those of the positions of a match of
\* n bytes at index i: [dist, pos].  The longer it finds none, the larger its steps.
BestChain(i, n) ==
  LET Try(s, k) ==
        LET d == NextDelta(hc, i + s.at)
        IN  IF s.at >= n - MINMATCH + 1 THEN s
            ELSE IF d > s.dist
            THEN [at |-> s.at + (s.accel \div 16), accel |-> 16, dist |-> d, pos |-> s.at]
            ELSE [s EXCEPT !.at = @ + (s.accel \div 16), !.accel = @ + 1]
      \* The step is taken from accel before it is reset.
  IN  FoldLeft(Try, [at |-> 0, accel |-> 16, dist |-> 1, pos |-> find.chainPos],
               [k \in 1..MaxOf(0, n - MINMATCH + 1) |-> k])

\* Where U32 wraps, as far up as TLC's own integers reach.
U32Size == 1073741824

\* Follow the chain of the candidate, with no test that it goes that far.
Follow(f) ==
  LET delta == NextDelta(hc, f.index + f.chainPos)
  IN  [f EXCEPT !.index = IF delta > @ THEN @ - delta + U32Size ELSE @ - delta]

---------------------------------------------------------------------------
(* Pattern analysis: a text of one byte repeated has a candidate at every  *)
(* position; the search jumps to the one that helps most.                  *)

\* Every 4 bytes at p are the same byte.
Repeats(p) == \A i \in 1..3 : Text(p + i) = Text(p)

\* The bytes from p up to limit that are b, and those before p down to first.
LZ4HC_countPattern(p, limit, b) ==
  LET n == MaxOf(0, limit - p)
  IN  CHOOSE k \in 0..n : (k = n \/ Text(p + k) # b) /\ \A i \in 0..k - 1 : Text(p + i) = b
LZ4HC_reverseCountPattern(p, first, b) ==
  LET n == MaxOf(0, p - first)
  IN  CHOOSE k \in 0..n : (k = n \/ Text(p - k - 1) # b) /\ \A i \in 1..k : Text(p - i) = b

\* Four bytes at index i do not cross the end of the dictionary.
LZ4HC_protectDictEnd(i) == i \notin hc.dictLimit - 3..hc.dictLimit - 1

\* The search after a candidate whose predecessor, at index i, is in the same
\* run of one byte: to the position where a run as long as the source's ends,
\* or to the first one of the run, which is as good as measured.
SkipPattern(f, i) ==
  LET b       == Text(f.at)
      lowest  == LowestMatchIndex(f.at)
      src     == MINMATCH + LZ4HC_countPattern(f.at + MINMATCH, matchlimit, b)
      extDict == i < hc.dictLimit
      q       == IF extDict THEN DictAt(i) ELSE PrefixAt(i)
      inSeg   == MINMATCH + LZ4HC_countPattern(q + MINMATCH, IF extDict THEN dictEnd ELSE matchlimit, b)
      forward == IF extDict /\ q + inSeg = dictEnd
                 THEN inSeg + LZ4HC_countPattern(hc.prefixStart, matchlimit, b)
                 ELSE inSeg
      before  == LZ4HC_reverseCountPattern(q, IF extDict THEN hc.dictStart ELSE hc.prefixStart, b)
      all     == IF ~extDict /\ q - before = hc.prefixStart /\ hc.lowLimit < hc.dictLimit
                 THEN before + LZ4HC_reverseCountPattern(dictEnd, hc.dictStart, b)
                 ELSE before
      back    == i - MaxOf(i - all, lowest)
      best    == i + forward - src
      first   == i - back
      maxML   == MinOf(back + forward, src)
      taken   == IF f.longest < maxML
                 THEN [f EXCEPT !.longest = maxML, !.off = Index(f.at) - first]
                 ELSE f
  IN  IF back + forward >= src /\ forward <= src
      THEN [f EXCEPT !.index = IF LZ4HC_protectDictEnd(best) THEN best ELSE hc.dictLimit]
      ELSE IF ~LZ4HC_protectDictEnd(first) THEN [f EXCEPT !.index = hc.dictLimit]
      ELSE IF lookBack > 0 THEN [f EXCEPT !.index = first]
      ELSE IF f.longest < maxML /\ Index(f.at) - first > LZ4_DISTANCE_MAX
      THEN [f EXCEPT !.index = Over]
      ELSE [taken EXCEPT !.index = Back(first, NextDelta(hc, first))]

\* The candidate before the one of index i is in a run of one byte.
InPattern(f, i) ==
  /\ call.patternAnalysis /\ NextDelta(hc, i) = 1 /\ f.chainPos = 0
  /\ Repeats(f.at)
  /\ i - 1 >= LowestMatchIndex(f.at) /\ LZ4HC_protectDictEnd(i - 1)
  /\ Same4(IF i - 1 < hc.dictLimit THEN DictAt(i - 1) ELSE PrefixAt(i - 1), f.at)

---------------------------------------------------------------------------
(* Steps.                                                                  *)

Searching == find.index >= LowestMatchIndex(find.at) /\ find.left > 0

\* The next candidate.
SearchCandidate ==
  /\ pc = "search" /\ Searching
  /\ LET i == find.index
         m == Measured(i)
         f == Wider([find EXCEPT !.left = @ - 1], m, i)
         chain == BestChain(i, f.longest)
         swap  == call.chainSwap /\ m.len = f.longest /\ i + f.longest <= Index(f.at)
         g     == IF swap THEN [f EXCEPT !.chainPos = chain.pos] ELSE f
     IN  find' = IF swap /\ chain.dist > 1 THEN [g EXCEPT !.index = Back(i, chain.dist)]
                 ELSE IF InPattern(g, i) THEN SkipPattern(g, i - 1)
                 ELSE Follow(g)
  /\ UNCHANGED <<hc, pc, result>>

\* The dictionary of another state is searched too, from its newest entry.
SearchDictionary(f) == [f EXCEPT !.index = hc.dictCtx.hashTable[LZ4HC_hashPtr(f.at)]]

ChainEnds ==
  /\ pc = "search" /\ ~Searching
  /\ \/ /\ call.usingDictCtx /\ find.left > 0 /\ hc.lowLimit + KB64 > Index(find.at)
        /\ find' = SearchDictionary(find)
        /\ Goto("search_dict")
     \/ /\ ~(call.usingDictCtx /\ find.left > 0 /\ hc.lowLimit + KB64 > Index(find.at))
        /\ Goto(find.label) /\ UNCHANGED find
  /\ UNCHANGED hc

\* The index in the stream of an index of the attached dictionary, which ends
\* where the stream's own history begins.
FromAttached(i) == i + hc.lowLimit - EndIndex(hc.dictCtx)

\* Faulty variant: a match goes on past the end of the dictionary.
InAttached_Beyond(i) ==
  LET q == AttachedAt(i)
      p == find.at
  IN  IF Same4(q, p)
      THEN Measure(LZ4_count(p + MINMATCH, q + MINMATCH, matchlimit - (p + MINMATCH)),
                   BackTo(q, hc.dictCtx.prefixStart))
      ELSE NoMatch

\* The candidate of index i in the attached dictionary: no match goes past its end.
InAttached(i) ==
  LET q      == AttachedAt(i)
      p      == find.at
      vLimit == MinOf(p + EndIndex(hc.dictCtx) - i, matchlimit)
  IN  IF Same4(q, p)
      THEN Measure(LZ4_count(p + MINMATCH, q + MINMATCH, vLimit - (p + MINMATCH)),
                   BackTo(q, hc.dictCtx.prefixStart))
      ELSE NoMatch

SearchAttached ==
  /\ pc = "search_dict"
  /\ LET i == find.index
         f == Wider([find EXCEPT !.left = @ - 1], InAttached(i), FromAttached(i))
     IN  IF Index(find.at) - FromAttached(i) <= LZ4_DISTANCE_MAX /\ find.left > 0
         THEN find' = [f EXCEPT !.index = @ - NextDelta(hc.dictCtx, i)] /\ UNCHANGED <<pc, result>>
         ELSE Goto(find.label) /\ UNCHANGED find
  /\ UNCHANGED hc

\* LZ4MID_searchExtDict: the entries of p in the tables of an attached
\* dictionary of level 2, the one of 8 bytes first.
Attached(p, i) ==
  LET n == LZ4_count(p, AttachedAt(i), MinOf(EndIndex(hc.dictCtx) - i, matchlimit - p))
  IN  IF Index(p) - FromAttached(i) <= LZ4_DISTANCE_MAX /\ n >= MINMATCH
      THEN [len |-> n, off |-> Index(p) - FromAttached(i)]
      ELSE [len |-> 0, off |-> 0]

LZ4MID_searchExtDict(p) ==
  LET long == Attached(p, hc.dictCtx.hashTable[LZ4MID_hash8Ptr(p)])
  IN  IF long.len > 0 THEN long ELSE Attached(p, hc.dictCtx.hashTable[LZ4MID_hash4Ptr(p)])

\* Its tables are those of a higher level.
LZ4MID_searchHCDict(p) ==
  Search(p, p, MINMATCH - 1, hc.dictCtx.hashTable[LZ4HC_hashPtr(p)], 2, "mid_found")

SearchStep ==
  /\ SearchCandidate \/ ChainEnds \/ SearchAttached
  /\ UNCHANGED <<text, call, ip, anchor, out, reach, inputConsumed>>

---------------------------------------------------------------------------
(* Properties.                                                             *)

\* Index i is one an offset may refer to, and the byte there.
InAttachedDict(i) ==
  hc.dictCtx # NoDictCtx /\ i \in FromAttached(hc.dictCtx.dictLimit)..hc.lowLimit - 1
InHistory(i) == i >= hc.lowLimit \/ InAttachedDict(i)

ByteAt(i) ==
  IF i >= hc.dictLimit THEN Text(PrefixAt(i))
  ELSE IF i >= hc.lowLimit THEN Text(DictAt(i))
  ELSE Text(AttachedAt(i - hc.lowLimit + EndIndex(hc.dictCtx)))

\* A candidate that is compared is an earlier position the decoder will have,
\* whichever chain, jump within a run of one byte, or table of another level or
\* of an earlier text it comes from.
CandidatesInHistory ==
  /\ pc = "search" /\ Searching => find.index \in hc.lowLimit..Index(find.at) - 1
  /\ pc = "search_dict" /\ find.left > 0 /\ Index(find.at) - FromAttached(find.index) <= LZ4_DISTANCE_MAX =>
       find.index \in hc.dictCtx.dictLimit..EndIndex(hc.dictCtx) - MINMATCH
  /\ pc = "mid" /\ ip <= iend - MFLIMIT =>
       hc.hashTable[LZ4MID_hash8Ptr(ip)] < Index(ip) /\ hc.hashTable[LZ4MID_hash4Ptr(ip)] < Index(ip)

\* The n bytes at p are those off before them, which the decoder will have.
IsMatch(p, n, off) ==
  /\ off \in 1..LZ4_DISTANCE_MAX /\ p + n <= matchlimit
  /\ \A j \in 0..n - 1 : InHistory(Index(p) + j - off) /\ ByteAt(Index(p) + j - off) = Text(p + j)

\* What a search has found is a match: all the bytes it claims, also those it
\* has not compared - a run of one byte, one that goes on from the external
\* dictionary in the prefix, one that begins before the position - are the same,
\* and no farther away than an offset can tell.
FoundIsMatch ==
  pc \in {"search", "search_dict", "found1", "found2", "found3", "mid_found", "opt_first", "opt_found"}
  /\ find.off # 0 =>
    find.at - find.back >= find.low /\ IsMatch(find.at - find.back, find.longest, find.off)

\* The chains are extended from the first position of the prefix that is not in
\* them: Insert never reads before the prefix.
InsertsInPrefix == hc.prefixStart # NULL => hc.nextToUpdate \in hc.dictLimit..EndIndex(hc)
=============================================================================
