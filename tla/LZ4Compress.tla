---------------------------- MODULE LZ4Compress ----------------------------
(***************************************************************************)
(* LZ4_compress_generic and LZ4_compress_generic_validated of              *)
(* lib/lz4/lz4.c: the search for matches through the hash table, the       *)
(* sequences written, and the three ways the end of dst is dealt with.     *)
(* The functions that call it are actions of the modules that extend this  *)
(* one; they set ctx and start a call with LZ4_compress_generic.           *)
(*                                                                         *)
(* A position of the current stream has an index: startIndex at the first  *)
(* byte of the source, less before it.  The hash table maps hashes to      *)
(* indexes and outlives the call, with the indexes of everything           *)
(* compressed since it was last cleared.  Tables of pointers (byPtr) are   *)
(* for 32-bit machines and not modelled.                                   *)
(***************************************************************************)
EXTENDS LZ4Common

CONSTANTS
  FourKB, OneGB,     \* thresholds of LZ4_prepareTable
  Slots,             \* the hashes
  Hash(_)            \* LZ4_hash4 and LZ4_hash5: of 4 and of 5 bytes

ASSUME CompressAssumption == FourKB \in Nat /\ OneGB \in Nat

VARIABLES
  ctx,        \* LZ4_stream_t_internal
  forwardIp,  \* address of the next probe
  step,       \* distance to the probe after it
  searchMatchNb,
  match,      \* address of the match found
  offset,     \* its distance from ip
  lowLimit,   \* where the segment that holds it starts
  filledIp,   \* ip of the last probe that succeeded
  token       \* position in out of the current token

input  == <<text, call>>
search == <<forwardIp, step, searchMatchNb>>
found  == <<match, offset, lowLimit, filledIp>>
engine == <<call, ip, search, anchor, found, out, token, reach, inputConsumed, pc, result>>

LZ4_64Klimit   == KB64 + MFLIMIT - 1
NoCtx          == [table |-> "clearedTable"]

\* The state LZ4_initStream leaves.
ClearedCtx == [hashTable |-> [h \in Slots |-> 0], currentOffset |-> 0, table |-> "clearedTable",
               dictCtx |-> NoCtx, dictionary |-> NULL, dictSize |-> 0]

\* A used table can not be kept for inputSize more bytes.
MustReset(c, inputSize, tableType) ==
  \/ c.table # tableType
  \/ tableType = "byU16" /\ c.currentOffset + inputSize >= KB64 - 1
  \/ tableType = "byU32" /\ c.currentOffset > OneGB
  \/ inputSize >= FourKB

\* LZ4_prepareTable: the state c made ready for a new stream.
LZ4_prepareTable(c, inputSize, tableType) ==
  LET d == IF c.table # "clearedTable" /\ MustReset(c, inputSize, tableType)
           THEN ClearedCtx
           ELSE c
  IN  [d EXCEPT !.currentOffset = IF @ # 0 /\ tableType = "byU32" THEN @ + KB64 ELSE @,
                !.dictCtx = NoCtx, !.dictionary = NULL, !.dictSize = 0]

---------------------------------------------------------------------------
mflimitPlusOne == iend - MFLIMIT + 1
startIndex     == call.startIndex
olimit         == call.capacity
usingCtx       == call.dict = "usingDictCtx"
maybe_extMem   == call.dict \in {"usingExtDict", "usingDictCtx"}
dictionary     == IF usingCtx THEN call.ctx.dictCtx.dictionary ELSE call.ctx.dictionary
dictSize       == IF usingCtx THEN call.ctx.dictCtx.dictSize ELSE call.ctx.dictSize
dictEnd        == dictionary + dictSize
prefixIdxLimit == startIndex - dictSize
Index(p)       == p - source + startIndex

LZ4_hashPosition(p) == Hash(SubSeq(text, p + 1, p + IF call.table = "byU16" THEN 4 ELSE 5))

\* An entry of a byU16 table has 16 bits.
LZ4_putIndexOnHash(table, idx, h) ==
  [table EXCEPT ![h] = IF call.table = "byU16" THEN idx % KB64 ELSE idx]

PutPosition(table, p) == LZ4_putIndexOnHash(table, Index(p), LZ4_hashPosition(p))

\* Catch up: how far the match extends to the left of p.
CatchUp(p, q) == CountBack(p, q, MinOf(p - anchor, q - lowLimit))

\* The candidate of hash h in table: its index in the current stream, its
\* address, and the start of its segment.
Candidate(table, h) ==
  LET idx == table[h]
      k   == call.ctx.dictCtx.hashTable[h]
      off == call.ctx.dictCtx.currentOffset
  IN  IF maybe_extMem /\ idx < startIndex
      THEN IF usingCtx
           THEN [index |-> k + startIndex - off, at |-> dictEnd - off + k, low |-> dictionary]
           ELSE [index |-> idx, at |-> dictEnd - startIndex + idx, low |-> dictionary]
      ELSE [index |-> idx, at |-> source + idx - startIndex,
            low |-> IF maybe_extMem THEN source ELSE lowLimit]

\* Faulty variant: off by one in the distance.
Usable_Far(c, p) ==
  /\ call.small => c.index >= prefixIdxLimit
  /\ call.table = "byU16" \/ c.index + LZ4_DISTANCE_MAX + 1 >= Index(p)

\* The candidate c of position p may be looked at: it belongs to the text the
\* decoder will have, and is not too far.  byU16 positions never are.
Usable(c, p) ==
  /\ call.small => c.index >= prefixIdxLimit
  /\ call.table = "byU16" \/ c.index + LZ4_DISTANCE_MAX >= Index(p)

---------------------------------------------------------------------------
(* A call.  c is the state it is made with and r its arguments.            *)

\* What is set when a call starts.
StartCall(c, r) ==
  /\ call' = [source |-> r.source, size |-> r.size, capacity |-> r.capacity, output |-> r.output,
              table |-> r.table, dict |-> r.dict, small |-> r.small,
              acceleration |-> r.acceleration, startIndex |-> c.currentOffset, ctx |-> c]
  /\ ip' = r.source /\ anchor' = r.source
  /\ token' = 0 /\ match' = r.source /\ offset' = 0 /\ filledIp' = r.source
  /\ lowLimit' = r.source - (IF r.dict = "withPrefix64k" THEN c.dictSize ELSE 0)
  /\ forwardIp' = r.source /\ step' = 1 /\ searchMatchNb' = 0
  /\ inputConsumed' = r.size

LZ4_compress_generic(c, r) ==
  /\ StartCall(c, r)
  /\ \/ /\ r.size \notin 0..LZ4_MAX_INPUT_SIZE
        /\ Idle(0) /\ out' = <<>> /\ reach' = 0 /\ ctx' = c
     \/ /\ r.size = 0
        /\ IF r.output # "notLimited" /\ r.capacity <= 0
           THEN Idle(0) /\ out' = <<>> /\ reach' = 0
           ELSE Idle(1) /\ out' = <<0>> /\ reach' = 1
        /\ ctx' = c
     \/ /\ r.size \in 1..LZ4_MAX_INPUT_SIZE
        /\ out' = <<>> /\ reach' = 0
        /\ IF r.output = "fillOutput" /\ r.capacity < 1
           THEN Idle(0) /\ ctx' = c
           ELSE /\ Goto(IF r.size < LZ4_minLength THEN "last_literals" ELSE "first_byte")
                /\ ctx' = [c EXCEPT !.dictCtx = IF r.dict = "usingDictCtx" THEN NoCtx ELSE @,
                                    !.dictSize = IF r.dict = "usingDictCtx" THEN r.size
                                                 ELSE @ + r.size,
                                    !.currentOffset = @ + r.size,
                                    !.table = r.table]

\* The search starts again at p.
SearchFrom(p) ==
  /\ forwardIp' = p /\ step' = 1
  /\ searchMatchNb' = call.acceleration * 64     \* LZ4_skipTrigger = 6

FirstByte ==
  /\ pc = "first_byte"
  /\ ctx' = [ctx EXCEPT !.hashTable = PutPosition(@, ip)]
  /\ ip' = ip + 1
  /\ SearchFrom(ip + 1)
  /\ Goto("find_match")
  /\ UNCHANGED <<input, anchor, found, out, token, reach, inputConsumed>>

\* One probe of the search for a match.
FindMatch ==
  /\ pc = "find_match"
  /\ LET p == forwardIp
         c == Candidate(ctx.hashTable, LZ4_hashPosition(p))
     IN  /\ ip' = p
         /\ forwardIp' = p + step
         /\ step' = searchMatchNb \div 64
         /\ searchMatchNb' = searchMatchNb + 1
         /\ \/ /\ p + step > mflimitPlusOne
               /\ Goto("last_literals")
               /\ UNCHANGED <<ctx, found>>
            \/ /\ p + step <= mflimitPlusOne
               /\ ctx' = [ctx EXCEPT !.hashTable = PutPosition(@, p)]
               /\ lowLimit' = c.low
               /\ IF Usable(c, p) /\ Same4(c.at, p)
                  THEN /\ match' = c.at /\ offset' = Index(p) - c.index /\ filledIp' = p
                       /\ Goto("literals")
                  ELSE Goto("find_match") /\ UNCHANGED <<match, offset, filledIp>>
  /\ UNCHANGED <<input, anchor, out, token, reach, inputConsumed>>

\* Faulty variant: no margin for what a wild copy writes past the literals.
LiteralsFit_NoMargin(n) == op + 1 + n + n \div 255 <= olimit

\* The check of limitedOutput that a sequence with n literals fits.
LiteralsFit(n) == op + 1 + n + (2 + 1 + LASTLITERALS) + n \div 255 <= olimit

\* The check of fillOutput, which also keeps room for the last literals.
LiteralsFill(n) == op + 1 + (n + 240) \div 255 + n + 2 + 1 + MFLIMIT - MINMATCH <= olimit

\* Catch up, and encode the literals before the match.
EncodeLiterals ==
  /\ pc = "literals"
  /\ LET back      == CatchUp(ip, match)
         litLength == ip - back - anchor
         run       == LengthBytes(litLength)
         lits      == SubSeq(text, anchor + 1, anchor + litLength)
     IN  /\ ip' = ip - back /\ match' = match - back
         /\ \/ /\ call.output = "limitedOutput" /\ ~LiteralsFit(litLength)
               /\ Idle(0)
               /\ UNCHANGED <<out, token, reach>>
            \/ /\ filling /\ ~LiteralsFill(litLength)
               /\ Goto("last_literals")
               /\ UNCHANGED <<out, token, reach>>
            \/ /\ call.output = "limitedOutput" => LiteralsFit(litLength)
               /\ filling => LiteralsFill(litLength)
               /\ token' = op + 1
               /\ out' = out \o <<16 * MinOf(litLength, 15)>> \o run \o lits
               /\ Reach(WildEnd(op + 1 + Len(run), litLength))
               /\ Goto("match")
  /\ UNCHANGED <<ctx, input, search, anchor, offset, lowLimit, filledIp, inputConsumed>>

\* How much of the match is in the bytes after its first four; a match that
\* begins in another segment than the source may go on at the source's start.
MatchCodeAt(p, q) ==
  LET limit == MinOf(p + dictEnd - q, matchlimit)
      first == LZ4_count(p + MINMATCH, q + MINMATCH, limit - (p + MINMATCH))
      more  == LZ4_count(limit, source, matchlimit - limit)
  IN  IF maybe_extMem /\ lowLimit = dictionary
      THEN IF p + MINMATCH + first = limit THEN first + more ELSE first
      ELSE LZ4_count(p + MINMATCH, q + MINMATCH, matchlimit - (p + MINMATCH))

\* Faulty variant: leaves the positions the shortened match no longer covers.
ClearBeyond_Keep(p) == ctx.hashTable

\* The table without the positions from p on (fillOutput took them back).
ClearBeyond(p) ==
  [h \in Slots |-> IF \E q \in p..filledIp : LZ4_hashPosition(q) = h THEN 0 ELSE ctx.hashTable[h]]

\* The length bytes and then the last literals still fit.
MatchFits(at, code) == at + (1 + LASTLITERALS) + (code + 240) \div 255 <= olimit

\* _next_match: encode the offset and the match length.
EncodeMatch ==
  /\ pc = "match"
  /\ LET at     == op + 2
         code   == MatchCodeAt(ip, match)
         fits   == MatchFits(at, code)
         kept   == IF limited /\ ~fits THEN 15 - 1 + (olimit - at - 1 - LASTLITERALS) * 255 ELSE code
         next   == ip + MINMATCH + kept
         marked == [out EXCEPT ![token] = @ + MinOf(kept, 15)]
     IN  \/ /\ filling /\ op + 2 + 1 + MFLIMIT - MINMATCH > olimit
            /\ out' = SubSeq(out, 1, token - 1)
            /\ Goto("last_literals")
            /\ UNCHANGED <<ctx, ip, anchor, reach>>
         \/ /\ call.output = "limitedOutput" /\ ~fits
            /\ Idle(0)
            /\ UNCHANGED <<ctx, ip, anchor, out, reach>>
         \/ /\ filling => op + 2 + 1 + MFLIMIT - MINMATCH <= olimit
            /\ call.output = "limitedOutput" => fits
            /\ ip' = next /\ anchor' = next
            /\ ctx' = [ctx EXCEPT !.hashTable =
                         IF filling /\ ~fits /\ next <= filledIp THEN ClearBeyond(next) ELSE @]
            /\ out' = marked \o <<offset % 256, (offset \div 256) % 256>> \o LengthBytes(kept)
            /\ Reach(IF kept < 15 THEN at ELSE at + 4 * ((kept - 15) \div 1020) + 4)
            /\ Goto(IF next >= mflimitPlusOne THEN "last_literals" ELSE "test_next")
  /\ UNCHANGED <<input, search, found, token, inputConsumed>>

\* Fill the table, and test the position after the match for another one.
TestNext ==
  /\ pc = "test_next"
  /\ LET filled == PutPosition(ctx.hashTable, ip - 2)
         c      == Candidate(filled, LZ4_hashPosition(ip))
     IN  /\ ctx' = [ctx EXCEPT !.hashTable = PutPosition(filled, ip)]
         /\ lowLimit' = c.low
         /\ IF Usable(c, ip) /\ Same4(c.at, ip)
            THEN /\ match' = c.at /\ offset' = Index(ip) - c.index
                 /\ token' = op + 1 /\ out' = Append(out, 0) /\ Reach(op + 1)
                 /\ Goto("match")
                 /\ UNCHANGED <<ip, search>>
            ELSE /\ ip' = ip + 1
                 /\ SearchFrom(ip + 1)
                 /\ Goto("find_match")
                 /\ UNCHANGED <<match, offset, out, token, reach>>
  /\ UNCHANGED <<input, anchor, filledIp, inputConsumed>>

\* _last_literals
EncodeLastLiterals ==
  /\ pc = "last_literals"
  /\ EncodeLast
  /\ UNCHANGED <<ctx, input, search, anchor, found, token>>

CompressStep ==
  FirstByte \/ FindMatch \/ EncodeLiterals \/ EncodeMatch \/ TestNext \/ EncodeLastLiterals

---------------------------------------------------------------------------
(* Properties.                                                             *)

\* The position about to be looked up in the hash table, if any.
Probed == IF pc = "find_match" /\ forwardIp + step <= mflimitPlusOne THEN {forwardIp}
          ELSE IF pc = "test_next" THEN {ip} ELSE {}

\* A candidate the code compares with lies in the text the decoder will have
\* at that point: in the source before the position or in the dictionary, and
\* within the reach of an offset.  An entry of an earlier block, one ahead of
\* the position, or one that wrapped around would break it.
CandidatesInWindow ==
  \A p \in Probed :
    LET table == IF pc = "test_next" THEN PutPosition(ctx.hashTable, ip - 2) ELSE ctx.hashTable
        c     == Candidate(table, LZ4_hashPosition(p))
    IN  Usable(c, p) => /\ c.index \in prefixIdxLimit..Index(p) - 1
                        /\ Index(p) - c.index <= LZ4_DISTANCE_MAX
=============================================================================
