---------------------------- MODULE LZ4HCSession ----------------------------
(***************************************************************************)
(* The functions of lib/lz4/lz4hc.c on one LZ4_streamHC_t: one-shot calls, *)
(* and streams of blocks to a receiver, with dictionaries loaded or        *)
(* attached, levels that change between blocks, history moved to a safe    *)
(* place, and blocks that stop when dst is full.                           *)
(*                                                                         *)
(* The text of a block, or of a dictionary, is in memory before the        *)
(* function that takes it is called: due says which call comes next.       *)
(***************************************************************************)
EXTENDS LZ4HC, LZ4Link

CONSTANTS
  Sessions,  \* the sessions considered first, second ..., each with its blocks and a bound of calls
  Requests   \* the one-shot calls considered first, second ...

\* Memory holds bytes, and the levels are any numbers.
ASSUME HCSessionAssumption ==
  /\ Len(Sessions) \in Nat /\ DOMAIN Sessions = 1..Len(Sessions)
  /\ Len(Requests) = Len(Sessions) /\ DOMAIN Requests = 1..Len(Requests)
  /\ \A i \in 1..Len(Sessions) : \A s \in Sessions[i] :
       /\ s.dict \in Seq(Byte) /\ s.size \in Nat /\ s.saveSize \in Int
       /\ s.level \in Int /\ s.dictLevel \in Int /\ s.favor \in BOOLEAN
       /\ s.load \in {"none", "loaded", "attached"} /\ s.sender \in {"linear", "ring", "double", "saved"}
       /\ \A b \in s.blocks : /\ b.content \in Seq(Byte) /\ b.capacity \in Int /\ b.level \in Int
                              /\ b.fn \in {"continue", "destSize"}
  /\ \A i \in 1..Len(Sessions) : \A r \in Requests[i] :
       r.text \in Seq(Byte) /\ r.size \in 0..Len(r.text) /\ r.capacity \in Int /\ r.level \in Int

VARIABLES
  calls,     \* streams and one-shot calls begun
  sent,      \* blocks sent in the stream
  due        \* the call about to be made, with its text in place

hvars == <<searching, pc, result, hc, find, choices, pricing>>
allvars == <<hvars, dvars, svars, calls, sent, due>>

NoCall == [fn |-> "none"]

---------------------------------------------------------------------------
(* The state.                                                              *)

\* Faulty variant: the level is taken as it is.
LZ4_setCompressionLevel_Raw(c, level) == [c EXCEPT !.compressionLevel = level]

LZ4_setCompressionLevel(c, level) ==
  [c EXCEPT !.compressionLevel = IF level < 1 THEN LZ4HC_CLEVEL_DEFAULT ELSE MinOf(level, LZ4HC_CLEVEL_MAX)]

LZ4_initStreamHC ==
  [hashTable |-> [h \in 0..LZ4HC_HASHTABLESIZE - 1 |-> 0], chainTable |-> [i \in 0..KB64 - 1 |-> 0],
   end |-> NULL, prefixStart |-> NULL, dictStart |-> NULL, dictLimit |-> 0, lowLimit |-> 0,
   nextToUpdate |-> 0, compressionLevel |-> LZ4HC_CLEVEL_DEFAULT, favorDecSpeed |-> FALSE,
   dirty |-> FALSE, dictCtx |-> NoDictCtx]

\* Faulty variant: the indexes of earlier texts are used again.
LZ4HC_init_internal_Reused(c, start) ==
  [c EXCEPT !.nextToUpdate = KB64, !.prefixStart = start, !.end = start, !.dictStart = start,
            !.dictLimit = KB64, !.lowLimit = KB64]

\* A state without history at start: its indexes begin 64 KB after the last one used.
LZ4HC_init_internal(c, start) ==
  LET fresh == EndIndex(c) > OneGB
      first == KB64 + (IF fresh THEN 0 ELSE EndIndex(c))
  IN  [c EXCEPT !.hashTable = IF fresh THEN LZ4_initStreamHC.hashTable ELSE @,
                !.chainTable = IF fresh THEN [i \in DOMAIN @ |-> KB64 - 1] ELSE @,
                !.nextToUpdate = first, !.prefixStart = start, !.end = start, !.dictStart = start,
                !.dictLimit = first, !.lowLimit = first]

LZ4_resetStreamHC_fast(c, level) ==
  LZ4_setCompressionLevel(
    IF c.dirty THEN LZ4_initStreamHC
    ELSE [c EXCEPT !.dictLimit = EndIndex(c), !.prefixStart = NULL, !.end = NULL, !.dictCtx = NoDictCtx],
    level)

\* The tables of level 2 with the positions from nextToUpdate on up to the last
\* hash of the prefix: every third one and, for 8 bytes, every one of the last
\* 32 KB.
LZ4MID_fillHTable(c) ==
  LET target == EndIndex(c) - LZ4MID_HASHSIZE
      Ptr(i) == c.prefixStart + i - c.dictLimit
      n      == target - c.nextToUpdate
      Coarse(t, k) == LET i == c.nextToUpdate + 3 * (k - 1)
                      IN  ADDPOS8(ADDPOS4(t, Ptr(i), i), Ptr(i + 1), i + 1)
      first  == IF PrefixSize(c) > ThirtyTwoKB + LZ4MID_HASHSIZE THEN target - ThirtyTwoKB
                ELSE c.nextToUpdate
      Fine(t, k) == ADDPOS8(t, Ptr(first + k - 1), first + k - 1)
  IN  IF PrefixSize(c) <= LZ4MID_HASHSIZE THEN c
      ELSE [c EXCEPT !.hashTable =
                       FoldLeft(Fine, FoldLeft(Coarse, @, [k \in 1..(n + 2) \div 3 |-> k]),
                                [k \in 1..target - first |-> k]),
                     !.nextToUpdate = target]

\* The state LZ4_loadDictHC leaves: everything but the level starts anew.
LZ4_loadDictHC(c, dict, size) ==
  LET n     == MinOf(size, KB64)
      begin == dict + size - n
      new   == LZ4HC_init_internal(LZ4_setCompressionLevel(LZ4_initStreamHC, c.compressionLevel), begin)
      d     == [new EXCEPT !.end = begin + n]
  IN  IF IsMid(d) THEN LZ4MID_fillHTable(d)
      ELSE IF n >= 4 THEN LZ4HC_Insert(d, d.end - 3)
      ELSE d

\* LZ4_attach_HC_dictionary
LZ4_attach_HC_dictionary(c, d) == [c EXCEPT !.dictCtx = d]

---------------------------------------------------------------------------
(* One-shot calls.                                                         *)

WithBound(r, n) ==
  IF r.capacity < LZ4_compressBound(n) THEN "limitedOutput" ELSE "notLimited"

\* Arguments of a call: n bytes at p, at a level.
Arguments(r, p, n, level, output) ==
  [source |-> p, size |-> n, capacity |-> r.capacity, level |-> level, output |-> output]

LZ4_compress_HC_extStateHC_fastReset(c, r) ==
  LZ4HC_compress_generic(LZ4HC_init_internal(LZ4_resetStreamHC_fast(c, r.level), 0),
                         Arguments(r, 0, r.size, r.level, WithBound(r, r.size)))

\* LZ4_compress_HC
LZ4_compress_HC_extStateHC(r) == LZ4_compress_HC_extStateHC_fastReset(LZ4_initStreamHC, r)

LZ4_compress_HC_destSize(r) ==
  LZ4HC_compress_generic(LZ4_setCompressionLevel(LZ4HC_init_internal(LZ4_initStreamHC, 0), r.level),
                         Arguments(r, 0, r.size, r.level, "fillOutput"))

---------------------------------------------------------------------------
(* Blocks of a stream.                                                     *)

\* Indexes start over before they overflow, with the last of the prefix as a
\* dictionary.
Renormalized(c) ==
  LET n == MinOf(PrefixSize(c), KB64)
  IN  IF EndIndex(c) > TwoGB THEN LZ4_loadDictHC(c, c.end - n, n) ELSE c

\* Faulty variant: the source is never thought to overwrite the dictionary.
WithoutOverlap_Never(c, p, n) == c

\* c without what the source of n bytes at p has overwritten of its external dictionary.
WithoutOverlap(c, p, n) ==
  LET size == c.dictLimit - c.lowLimit
      lost == MinOf(p + n, c.dictStart + size) - c.dictStart
  IN  IF ~(p + n > c.dictStart /\ p < c.dictStart + size) THEN c
      ELSE IF size - lost < 4 THEN [c EXCEPT !.lowLimit = c.dictLimit, !.dictStart = c.prefixStart]
      ELSE [c EXCEPT !.lowLimit = @ + lost, !.dictStart = @ + lost]

\* LZ4_compressHC_continue_generic
LZ4_compressHC_continue_generic(c, r, p, n, output) ==
  LET started == IF c.prefixStart = NULL THEN LZ4HC_init_internal(c, p) ELSE c
      ready   == Renormalized(started)
      linked  == IF p # ready.end THEN LZ4HC_setExternalDict(ready, p) ELSE ready
  IN  LZ4HC_compress_generic(WithoutOverlap(linked, p, n),
                             Arguments(r, p, n, ready.compressionLevel, output))

\* The bytes LZ4_saveDictHC keeps.
SavedSize(size) ==
  LET n == MinOf(size, KB64) IN IF n < 4 THEN 0 ELSE MinOf(n, PrefixSize(hc))

\* LZ4_saveDictHC: the last bytes of the prefix are at safe, and are all the
\* history there is.
LZ4_saveDictHC(safe, size) ==
  LET n     == SavedSize(size)
      first == EndIndex(hc) - n
  IN  /\ text' = Put(text, safe, SubSeq(text, hc.end - n + 1, hc.end))
      /\ hc' = [hc EXCEPT !.end = safe + n, !.prefixStart = safe, !.dictStart = safe,
                          !.dictLimit = first, !.lowLimit = first,
                          !.nextToUpdate = MaxOf(@, first)]

---------------------------------------------------------------------------
(* The user's calls.                                                       *)

Ready == Settled /\ due = NoCall

\* A stream begins; its memory is there, and its dictionary.
OpenStream(s) ==
  /\ text' = Memory(s)
  /\ hc' = [LZ4_resetStreamHC_fast(hc, s.level) EXCEPT !.favorDecSpeed = s.favor]
  /\ OpenPeer(s)
  /\ calls' = calls + 1 /\ sent' = 0
  /\ due' = IF s.load = "none" THEN NoCall ELSE [fn |-> s.load]
  /\ UNCHANGED <<call, ip, anchor, out, reach, inputConsumed, pc, result, find, choices, pricing>>

\* The dictionary is loaded, or attached in a state of its own.
LoadDict ==
  /\ due.fn = "loaded"
  /\ hc' = [LZ4_loadDictHC(hc, 0, Len(session.dict)) EXCEPT !.favorDecSpeed = session.favor]
AttachDict ==
  /\ due.fn = "attached"
  /\ hc' = LZ4_attach_HC_dictionary(
             hc, LZ4_loadDictHC(LZ4_setCompressionLevel(LZ4_initStreamHC, session.dictLevel),
                                0, Len(session.dict)))

Prepare ==
  /\ LoadDict \/ AttachDict
  /\ due' = NoCall
  /\ UNCHANGED <<searching, pc, result, find, choices, pricing, dvars, svars, calls, sent>>

\* The next block is put in the sender's buffer.
FillBlock(b) ==
  LET n == Len(b.content)
      p == Place(n)
  IN  /\ d_pc = "idle" /\ sent < session.calls /\ saved /\ n <= session.maxBlock
      /\ p + n <= session.size
      /\ text' = Put(text, BufferAt + p, b.content)
      /\ due' = [fn |-> b.fn, at |-> p, size |-> n, level |-> b.level, capacity |-> b.capacity]
      /\ UNCHANGED <<call, ip, anchor, out, reach, inputConsumed, pc, result, hc, find, choices,
                     pricing, dvars, svars, calls, sent>>

\* It is compressed, perhaps at another level than the ones before it (0: the same).
CompressBlock ==
  LET c == IF due.level = 0 THEN hc ELSE LZ4_setCompressionLevel(hc, due.level)
      p == BufferAt + due.at
      n == due.size
  IN  /\ \/ /\ due.fn = "continue"
            /\ LZ4_compressHC_continue_generic(c, due, p, n, WithBound(due, n))
         \/ /\ due.fn = "destSize"
            /\ LZ4_compressHC_continue_generic(c, due, p, n, "fillOutput")
      /\ next' = NextPlace(due.at, n) /\ saved' = (session.sender # "saved")
      /\ sent' = sent + 1
      /\ due' = NoCall
      /\ Waits("due")
      /\ UNCHANGED <<text, session, peer, calls>>

OneShotCall(r) ==
  /\ text' = r.text
  /\ \/ r.fn = "extState" /\ LZ4_compress_HC_extStateHC(r)
     \/ r.fn = "fastReset" /\ LZ4_compress_HC_extStateHC_fastReset(hc, r)
     \/ r.fn = "destSize" /\ LZ4_compress_HC_destSize(r)
  /\ calls' = calls + 1
  /\ session' = NoSession
  /\ Waits("due")
  /\ UNCHANGED <<next, saved, peer, sent, due>>

OfStream == session # NoSession

Deliver == HandOver(OfStream) /\ UNCHANGED <<hvars, calls, sent, due>>

\* The receiver has the block; the sender goes on after what it has taken.
Receive ==
  /\ OfStream /\ d_pc = "done"
  /\ Waits("idle")
  /\ peer' = Received
  /\ next' = IF filling /\ session.sender = "linear" THEN source - BufferAt + inputConsumed ELSE next
  /\ UNCHANGED <<hvars, session, saved, calls, sent, due>>

\* The safe buffer may be just before that of the blocks.
SaveDict ==
  /\ Ready /\ OfStream /\ d_pc = "idle" /\ ~saved
  /\ LZ4_saveDictHC(IF session.adjacent THEN BufferAt - SavedSize(session.saveSize) ELSE SafeAt,
                    session.saveSize)
  /\ saved' = TRUE
  /\ UNCHANGED <<call, ip, anchor, out, reach, inputConsumed, pc, result, find, choices, pricing,
                 dvars, session, next, peer, calls, sent, due>>

Stop == calls >= Len(Sessions) /\ UNCHANGED allvars

HCInit ==
  /\ text = <<>> /\ ip = 0 /\ anchor = 0 /\ out = <<>> /\ reach = 0 /\ inputConsumed = 0
  /\ call = [source |-> 0, size |-> 0, capacity |-> 0, output |-> "notLimited", strat |-> "hc",
             nbSearches |-> 0, targetLength |-> 0, fullUpdate |-> FALSE, patternAnalysis |-> FALSE,
             chainSwap |-> FALSE, favor |-> FALSE, usingDictCtx |-> FALSE]
  /\ pc = "idle" /\ result = 0
  /\ hc = LZ4_initStreamHC
  /\ find = Search(0, 0, 0, 0, 0, "hc")
  /\ m0 = None /\ m1 = None /\ m2 = None
  /\ opt = <<>> /\ cur = 0 /\ last_match_pos = 0 /\ plan = <<>>
  /\ LinkInit
  /\ calls = 0 /\ sent = 0 /\ due = NoCall

HCNext ==
  \/ Ready /\ calls < Len(Sessions) /\ \E s \in Sessions[calls + 1] : OpenStream(s)
  \/ Ready /\ OfStream /\ \E b \in session.blocks : FillBlock(b)
  \/ Ready /\ calls < Len(Requests) /\ \E r \in Requests[calls + 1] : OneShotCall(r)
  \/ Prepare \/ CompressBlock \/ Deliver \/ Receive \/ SaveDict
  \/ HCStep /\ UNCHANGED <<dvars, svars, calls, sent, due>>
  \/ Decoding /\ UNCHANGED <<hvars, calls, sent, due>>
  \/ Ready /\ Stop

HCSpec == HCInit /\ [][HCNext]_allvars

---------------------------------------------------------------------------
(* Properties.                                                             *)

HCTypeOK ==
  /\ pc \in {"idle", "mid", "mid_found", "mid_encode", "hc", "found1", "search2", "found2", "search3",
             "found3", "encode2", "opt_alloc", "opt", "opt_first", "opt_next", "opt_found", "opt_encode",
             "search", "search_dict", "last_literals"}
  /\ hc.hashTable \in [0..LZ4HC_HASHTABLESIZE - 1 -> Nat] /\ hc.chainTable \in [0..KB64 - 1 -> 0..KB64 - 1]
  /\ hc.dictLimit \in Nat /\ hc.lowLimit \in 0..hc.dictLimit /\ hc.end >= hc.prefixStart
  /\ hc.compressionLevel \in 1..LZ4HC_CLEVEL_MAX
  /\ ip \in Nat /\ anchor \in Nat /\ result \in Nat /\ out \in Seq(Byte)
  /\ due.fn \in {"none", "loaded", "attached", "continue", "destSize"}

\* Before the first byte of a block is compressed, every byte that an offset
\* can refer to - in the prefix, in the external dictionary, which the source may
\* have overwritten in part, or in an attached dictionary - is one the receiver
\* has, at that distance.
HCHistoryShared ==
  OfStream /\ pc \in {"mid", "hc", "opt_alloc"} /\ ip = source =>
    \A k \in 1..LZ4_DISTANCE_MAX :
      InHistory(Index(ip) - k) =>
        /\ k <= Len(peer.history)
        /\ ByteAt(Index(ip) - k) = peer.history[Len(peer.history) + 1 - k]

\* LZ4_compress_HC_destSize, and _continue_destSize, leave no byte of dst free
\* that could hold more of the source.
HCFillsDst == pc = "idle" /\ result > 0 => FillsUp
=============================================================================
