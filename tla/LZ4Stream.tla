----------------------------- MODULE LZ4Stream -----------------------------
(***************************************************************************)
(* The streaming compression functions of lib/lz4/lz4.c: blocks that may   *)
(* refer to the blocks before them, to a dictionary loaded into the stream *)
(* or attached to it, or to history moved to a safe place.                 *)
(*                                                                         *)
(* The functions of LZ4OneShot work on the same state, so a stream may     *)
(* begin where calls with _fastReset end.  Each operator below is a call   *)
(* of the function it is named for, made with the memory text in place.    *)
(***************************************************************************)
EXTENDS LZ4OneShot

CONSTANT TwoGB   \* 0x80000000, where LZ4_renormDictT rescales the indexes

ASSUME StreamAssumption == TwoGB \in Nat

HASH_UNIT == 8

---------------------------------------------------------------------------
(* Dictionaries.                                                           *)

\* The hash of the 5 bytes at address p of the memory t.
HashAt(t, p) == Hash(SubSeq(t, p + 1, p + 5))

\* The index of the i-th byte of a dictionary that ends at index KB64.
DictIndex(n, i) == KB64 - n + i

\* The table of the n bytes of t at p: every third position, the last one of a
\* hash; if slow, then the first position of each hash left out.  An entry 0 is
\* as good as none.
DictTable(t, p, n, slow) ==
  LET With(h, k) == {DictIndex(n, i) : i \in {j \in 0..n - HASH_UNIT : j % k = 0 /\ HashAt(t, p + j) = h}} \ {0}
      fast == [h \in Slots |-> IF With(h, 3) = {} THEN 0
                               ELSE CHOOSE i \in With(h, 3) : \A j \in With(h, 3) : j <= i]
  IN  IF ~slow THEN fast
      ELSE [h \in Slots |-> IF fast[h] > 0 \/ With(h, 1) = {} THEN fast[h]
                            ELSE CHOOSE i \in With(h, 1) : \A j \in With(h, 1) : i <= j]

\* LZ4_loadDict and LZ4_loadDictSlow: the state they leave.
LZ4_loadDict(t, dict, size, slow) ==
  LET n == MinOf(size, KB64)
      p == dict + size - n
  IN  IF size < HASH_UNIT THEN [ClearedCtx EXCEPT !.currentOffset = KB64]
      ELSE [ClearedCtx EXCEPT !.currentOffset = KB64, !.dictionary = p, !.dictSize = n,
                              !.table = "byU32", !.hashTable = DictTable(t, p, n, slow)]

\* LZ4_attach_dictionary: c with the state d as its dictionary.
LZ4_attach_dictionary(c, d) ==
  [c EXCEPT !.currentOffset = IF @ = 0 THEN KB64 ELSE @,
            !.dictCtx = IF d.dictSize = 0 THEN NoCtx ELSE d]

\* LZ4_saveDict: the last bytes of the history, at most size, are now at safe.
SavedSize(size) == MinOf(MinOf(size, KB64), ctx.dictSize)

SavedText(safe, size) ==
  LET n    == SavedSize(size)
      from == ctx.dictionary + ctx.dictSize - n
  IN  [i \in DOMAIN text |->
         IF i - 1 \in safe..safe + n - 1 THEN text[from + (i - 1 - safe) + 1] ELSE text[i]]

\* Faulty variant: the bytes are copied, and the stream is not told.
LZ4_saveDict_Unaware(safe, size) ==
  /\ text' = SavedText(safe, size)
  /\ ctx' = [ctx EXCEPT !.dictSize = SavedSize(size)]
  /\ UNCHANGED engine

LZ4_saveDict(safe, size) ==
  /\ text' = SavedText(safe, size)
  /\ ctx' = [ctx EXCEPT !.dictionary = safe, !.dictSize = SavedSize(size)]
  /\ UNCHANGED engine

LZ4_resetStream_fast == LZ4_prepareTable(ctx, 0, "byU32")

---------------------------------------------------------------------------
(* Blocks.                                                                 *)

\* Indexes start over before they overflow.
LZ4_renormDictT(c, n) ==
  LET delta == c.currentOffset - KB64
      kept  == MinOf(c.dictSize, KB64)
  IN  IF c.currentOffset + n <= TwoGB THEN c
      ELSE [c EXCEPT !.hashTable = [h \in Slots |-> MaxOf(0, c.hashTable[h] - delta)],
                     !.currentOffset = KB64,
                     !.dictSize = kept,
                     !.dictionary = @ + c.dictSize - kept]

\* A dictionary too small for a match, which is forgotten so that the source
\* can be its own prefix - unless it is one already, or there is no source.
Tiny(c, src, n, end) == c.dictSize < 4 /\ end # src /\ n > 0 /\ c.dictCtx = NoCtx

\* Faulty variant: the source is never thought to overwrite the dictionary.
WithoutOverlap_Never(c, srcEnd, end) == c

\* c, whose dictionary ends at end, without what the source, which ends at
\* srcEnd, has overwritten of it.
WithoutOverlap(c, srcEnd, end) ==
  LET left == MinOf(end - srcEnd, KB64)
      n    == IF left < 4 THEN 0 ELSE left
  IN  IF srcEnd > c.dictionary /\ srcEnd < end
      THEN [c EXCEPT !.dictSize = n, !.dictionary = end - n]
      ELSE c

\* Faulty variant: entries older than the history are looked at.
DictSmall_Never(c) == FALSE

\* The history is shorter than the window, and there are older entries.
DictSmall(c) == c.dictSize < KB64 /\ c.dictSize < c.currentOffset

\* A block of n bytes at the address src.
BlockOf(src, n, capacity, dict, small, acceleration) ==
  [source |-> src, size |-> n, capacity |-> capacity, output |-> "limitedOutput",
   table |-> "byU32", dict |-> dict, small |-> small, acceleration |-> Clamped(acceleration)]

\* LZ4_compress_fast_continue, up to the return of LZ4_compress_generic.
LZ4_compress_fast_continue(src, n, capacity, acceleration) ==
  LET before == IF ctx.dictSize = 0 THEN NULL ELSE ctx.dictionary + ctx.dictSize
      old    == LZ4_renormDictT(ctx, n)
      tiny   == Tiny(old, src, n, before)
      new    == IF tiny THEN [old EXCEPT !.dictSize = 0, !.dictionary = src] ELSE old
      end    == IF tiny THEN src ELSE before
      c      == WithoutOverlap(new, src + n, end)
      Block(dict, small) == BlockOf(src, n, capacity, dict, small, acceleration)
  IN  \/ /\ end = src
         /\ LZ4_compress_generic(c, Block("withPrefix64k", DictSmall(c)))
         /\ onExit' = "return"
      \/ /\ end # src
         /\ \/ /\ c.dictCtx = NoCtx
               /\ LZ4_compress_generic(c, Block("usingExtDict", DictSmall(c)))
            \/ /\ c.dictCtx # NoCtx /\ n > FourKB
               /\ LZ4_compress_generic(c.dictCtx, Block("usingExtDict", FALSE))
            \/ /\ c.dictCtx # NoCtx /\ n <= FourKB
               /\ LZ4_compress_generic(c, Block("usingDictCtx", FALSE))
         /\ onExit' = "rebase"

\* LZ4_compress_forceExtDict, which takes dst to be large enough.
LZ4_compress_forceExtDict(src, n) ==
  LET c == LZ4_renormDictT(ctx, n)
  IN  /\ LZ4_compress_generic(c, [BlockOf(src, n, LZ4_compressBound(n), "usingExtDict", DictSmall(c), 1)
                                    EXCEPT !.output = "notLimited"])
      /\ onExit' = "rebase"

\* What both do after a block with an external dictionary: the source becomes
\* the history of the next block.
Rebase ==
  /\ pc = "idle" /\ onExit = "rebase"
  /\ ctx' = [ctx EXCEPT !.dictionary = source, !.dictSize = call.size]
  /\ onExit' = "return"
  /\ UNCHANGED <<text, engine, calls, clean>>
=============================================================================
