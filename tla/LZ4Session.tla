----------------------------- MODULE LZ4Session -----------------------------
(***************************************************************************)
(* Streams of blocks of lib/lz4/lz4.c, from a sender's LZ4_stream_t to a   *)
(* receiver's LZ4_streamDecode_t, among one-shot calls on the same state.  *)
(***************************************************************************)
EXTENDS LZ4Stream, LZ4Link

CONSTANT
  Sessions   \* the sessions considered, each with its blocks and a bound of calls

\* Blocks are of a size the compressor takes, the last indexes before TwoGB are
\* of use, and a buffer that is used again has room for two blocks.
\* LZ4_compress_forceExtDict is for blocks one after the other.
ASSUME SessionsAssumption ==
  \A s \in Sessions :
    /\ s.dict \in Seq(Byte) /\ s.size \in Nat /\ s.saveSize \in Nat
    /\ s.maxBlock \in 0..LZ4_MAX_INPUT_SIZE /\ KB64 + s.maxBlock <= TwoGB
    /\ s.sender \in {"linear", "ring", "double", "saved"}
    /\ s.sender \in {"ring", "double"} => 2 * s.maxBlock <= s.size
    /\ s.force => s.sender = "linear"
    /\ \A b \in s.blocks : b.content \in Seq(Byte) /\ b.capacity \in Int /\ b.acceleration \in Int

\* The sender may make its next call.
Ready == Settled /\ onExit = "return"

\* The dictionary is loaded, attached, or not there.
Prepared(s) ==
  IF s.load = "none" THEN LZ4_resetStream_fast
  ELSE IF s.load = "attached"
  THEN LZ4_attach_dictionary(LZ4_resetStream_fast, LZ4_loadDict(s.dict, 0, Len(s.dict), FALSE))
  ELSE LZ4_loadDict(s.dict, 0, Len(s.dict), s.load = "slow")

\* A stream begins, at both ends.  A state LZ4_resetStream_fast gets was
\* initialised before.
OpenStream(s) ==
  /\ calls < MaxCalls /\ clean
  /\ text' = Memory(s) /\ ctx' = Prepared(s)
  /\ OpenPeer(s)
  /\ calls' = calls + 1
  /\ UNCHANGED <<engine, clean, onExit>>

\* A stream goes on after a block that was decoded.
SendBlock(b) ==
  LET n == Len(b.content)
      p == Place(n)
  IN  /\ d_pc = "idle" /\ calls < session.calls /\ saved /\ n <= session.maxBlock
      /\ p + n <= session.size
      /\ text' = Put(text, BufferAt + p, b.content)
      /\ IF session.force THEN LZ4_compress_forceExtDict(BufferAt + p, n)
         ELSE LZ4_compress_fast_continue(BufferAt + p, n, b.capacity, b.acceleration)
      /\ next' = NextPlace(p, n) /\ saved' = (session.sender # "saved")
      /\ calls' = calls + 1
      /\ Waits("due")
      /\ UNCHANGED <<session, peer, clean>>

IsBlock == call.dict # "noDict"

Deliver == onExit = "return" /\ HandOver(IsBlock) /\ UNCHANGED vars

\* The receiver has the block.
Receive ==
  /\ IsBlock /\ d_pc = "done"
  /\ Waits("idle")
  /\ peer' = Received
  /\ UNCHANGED <<vars, session, next, saved>>

\* The sender's buffer is about to be used again.
SaveDict ==
  /\ Ready /\ session # NoSession /\ d_pc = "idle" /\ ~saved
  /\ LZ4_saveDict(SafeAt, session.saveSize)
  /\ saved' = TRUE
  /\ UNCHANGED <<calls, clean, onExit, dvars, session, next, peer>>

OneShotCall(r) ==
  /\ Call(r)
  /\ Waits("due")
  /\ session' = NoSession
  /\ UNCHANGED <<next, saved, peer>>

Working ==
  \/ (Compressing \/ CleanOnExit \/ Rebase) /\ UNCHANGED <<dvars, svars>>
  \/ Decoding /\ UNCHANGED vars

SessionEnds == Ready /\ Stop /\ UNCHANGED <<dvars, svars>>

SessionInit == Init /\ LinkInit

SessionNext ==
  \/ Ready /\ \E s \in Sessions : OpenStream(s)
  \/ Ready /\ session # NoSession /\ \E b \in session.blocks : SendBlock(b)
  \/ Ready /\ calls < MaxCalls /\ \E r \in Requests : OneShotCall(r)
  \/ Deliver \/ Receive \/ SaveDict \/ Working \/ SessionEnds

SessionSpec == SessionInit /\ [][SessionNext]_<<vars, dvars, svars>>

---------------------------------------------------------------------------
(* Properties.                                                             *)

\* Between blocks, the history the sender may refer to is the end of what the
\* receiver has: same bytes, none the receiver lacks.
HistoryShared ==
  session # NoSession /\ Ready /\ d_pc = "idle" =>
    LET n == MinOf(ctx.dictSize, KB64)
        e == ctx.dictionary + ctx.dictSize
    IN  /\ n <= Len(peer.history)
        /\ SubSeq(text, e - n + 1, e) = LastOf(peer.history, n)
=============================================================================
