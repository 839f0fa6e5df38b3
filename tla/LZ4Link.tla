------------------------------ MODULE LZ4Link ------------------------------
(***************************************************************************)
(* From a compressor to the decompressor.  What a call returns is given,   *)
(* as it is, to LZ4_decompress_safe, with a dst exactly as large as the    *)
(* content, or, for a block of a stream, to the receiver of the stream.    *)
(* The decompressor is the one of LZ4Decode, with its variables renamed.   *)
(*                                                                         *)
(* A session says where the sender of a stream puts its blocks and its     *)
(* dictionary, and where the receiver decodes, in the ways lz4.h allows.   *)
(* text is the sender's memory: the dictionary, a safe buffer for          *)
(* LZ4_saveDict, and the buffer of the blocks.  peer.mem is the            *)
(* receiver's: its buffer from address 0 on, the dictionary far below.     *)
(***************************************************************************)
EXTENDS LZ4Common, SequencesExt

VARIABLES
  d_job, d_src, d_ip, d_op, d_mem, d_token, d_length, d_offset, d_pc, d_result,
  session,   \* the current one
  next,      \* the sender's next free place in its buffer
  saved,     \* LZ4_saveDict was called after the last block, if it must be
  peer       \* the receiver: LZ4_streamDecode_t_internal and its memory

dvars == <<d_job, d_src, d_ip, d_op, d_mem, d_token, d_length, d_offset, d_pc, d_result>>
svars == <<session, next, saved, peer>>

D == INSTANCE LZ4Decode WITH
       Jobs <- {}, KB64 <- KB64, job <- d_job, src <- d_src, ip <- d_ip, op <- d_op, mem <- d_mem,
       token <- d_token, length <- d_length, offset <- d_offset, pc <- d_pc, result <- d_result

NoSession == [sender |-> "none"]

SafeAt   == Len(session.dict) + 1
BufferAt == SafeAt + KB64 + 1
FarBelow == -1000

\* The memory of a sender that has sent nothing yet.
Memory(s) == s.dict \o [i \in 1..1 + KB64 + 1 + s.size |-> 0]

\* t with the bytes b at the address p.
Put(t, p, b) == [i \in DOMAIN t |-> IF i - p \in DOMAIN b THEN b[i - p] ELSE t[i]]

---------------------------------------------------------------------------
(* Calls of the decompressor.                                              *)

\* A call of LZ4_decompress_safe for the block b of n bytes of content.
DecodeJob(b, n) ==
  [src |-> b, cap |-> n, partial |-> FALSE, dict |-> "noDict", prefix |-> <<>>, ext |-> <<>>,
   extAt |-> 0, at |-> n]

\* The decompressor is about to decode the job j.
DecodeAt(j) ==
  /\ d_job' = j /\ d_src' = j.src
  /\ d_ip' = 0 /\ d_op' = 0 /\ d_mem' = <<>>
  /\ d_token' = 0 /\ d_length' = 0 /\ d_offset' = 0
  /\ d_pc' = "start" /\ d_result' = 0

\* The decompressor waits for the next call, in the state s.
Waits(s) ==
  /\ d_pc' = s
  /\ UNCHANGED <<d_job, d_src, d_ip, d_op, d_mem, d_token, d_length, d_offset, d_result>>

LastOf(s, n) == SubSeq(s, MaxOf(1, Len(s) - n + 1), Len(s))

LZ4_setStreamDecode(end, size) ==
  [prefixEnd |-> end, prefixSize |-> size, externalDict |-> NULL, extDictSize |-> 0]

\* The bytes of the receiver's memory from a up to b.
At(a, b) == [i \in 1..b - a |-> IF a + i - 1 \in DOMAIN peer.mem THEN peer.mem[a + i - 1] ELSE Junk]

Rolling(dst)  == peer.sd.prefixSize > 0 /\ peer.sd.prefixEnd = dst
Switching(dst) == peer.sd.prefixSize > 0 /\ peer.sd.prefixEnd # dst

JobWith(b, cap, dict, prefix, ext, extAt) ==
  [DecodeJob(b, cap) EXCEPT !.dict = dict, !.prefix = prefix, !.ext = ext, !.extAt = extAt]

\* The prefix of n bytes before dst, as LZ4_decompress_safe_withPrefix64k and
\* _withSmallPrefix take it.
PrefixJob(b, dst, cap, n) ==
  IF n >= KB64 - 1 THEN JobWith(b, cap, "withPrefix64k", At(dst - KB64, dst), <<>>, 0)
  ELSE JobWith(b, cap, "noDict", At(dst - n, dst), <<>>, 0)

\* The call of the generic decoder LZ4_decompress_safe_continue makes.
ContinueJob(b, dst, cap) ==
  LET sd == peer.sd
      from == sd.prefixEnd - sd.prefixSize
  IN  IF Rolling(dst)
      THEN IF sd.prefixSize >= KB64 - 1 \/ sd.extDictSize = 0
           THEN PrefixJob(b, dst, cap, sd.prefixSize)
           ELSE JobWith(b, cap, "usingExtDict", At(from, dst),
                        At(sd.externalDict, sd.externalDict + sd.extDictSize),
                        sd.externalDict - dst)
      ELSE IF Switching(dst)
      THEN JobWith(b, cap, "usingExtDict", <<>>, At(from, sd.prefixEnd), from - dst)
      ELSE DecodeJob(b, cap)

\* Its state after it returned n.
AfterContinue(dst, n) ==
  LET sd   == peer.sd
      kept == IF Switching(dst)
              THEN [sd EXCEPT !.extDictSize = sd.prefixSize, !.externalDict = sd.prefixEnd - sd.prefixSize]
              ELSE sd
  IN  IF n <= 0 THEN kept
      ELSE IF Rolling(dst) THEN [kept EXCEPT !.prefixSize = @ + n, !.prefixEnd = @ + n]
      ELSE [kept EXCEPT !.prefixSize = n, !.prefixEnd = dst + n]

\* LZ4_decompress_safe_usingDict, with the dictionary d just before dst or not.
UsingDictJob(b, cap, d, adjacent) ==
  IF d = <<>> THEN DecodeJob(b, cap)
  ELSE IF ~adjacent THEN JobWith(b, cap, "usingExtDict", <<>>, d, FarBelow)
  ELSE IF Len(d) >= KB64 - 1 THEN JobWith(b, cap, "withPrefix64k", LastOf(<<Junk>> \o d, KB64), <<>>, 0)
  ELSE JobWith(b, cap, "noDict", d, <<>>, 0)

LZ4_decoderRingBufferSize(maxBlockSize) == KB64 + 14 + MaxOf(16, maxBlockSize)

\* Where the receiver decodes a block: in a buffer without end, in a ring
\* buffer, or where the sender has it.
Dst ==
  IF session.receiver = "synchronized" THEN source - BufferAt
  ELSE IF session.receiver = "ring" /\ session.ring - peer.next < session.maxBlock THEN 0
  ELSE peer.next

Capacity == IF session.exact THEN inputConsumed ELSE session.maxBlock

BlockJob ==
  IF session.receiver = "usingDict" THEN UsingDictJob(out, Capacity, peer.history, session.adjacent)
  ELSE ContinueJob(out, Dst, Capacity)

---------------------------------------------------------------------------
(* Steps.                                                                  *)

\* What the last call returned is decompressed, or it returned nothing.
Settled == pc = "idle" /\ (d_pc = "due" => result = 0) /\ d_pc \in {"idle", "due", "done"}

\* The receiver's end of the new session s.
OpenPeer(s) ==
  /\ session' = s /\ next' = 0 /\ saved' = TRUE
  /\ peer' = [sd |-> LZ4_setStreamDecode(FarBelow + Len(s.dict), Len(s.dict)),
              mem |-> [a \in FarBelow..FarBelow + Len(s.dict) - 1 |-> s.dict[a - FarBelow + 1]],
              next |-> 0, history |-> LastOf(s.dict, KB64)]
  /\ Waits("idle")

\* The block that has just been returned, of a stream or not, is decoded.
HandOver(ofStream) ==
  /\ pc = "idle" /\ d_pc = "due" /\ result > 0
  /\ DecodeAt(IF ofStream THEN BlockJob ELSE DecodeJob(out, inputConsumed))
  /\ UNCHANGED svars

Decoding ==
  /\ d_pc \in D!Labels \ {"done"}
  /\ D!Next
  /\ UNCHANGED svars

\* The receiver with the block it has just decoded.
Received ==
  [sd   |-> AfterContinue(Dst, d_result),
   mem  |-> [a \in DOMAIN peer.mem \cup {Dst + i : i \in DOMAIN d_mem} |->
               IF a - Dst \in DOMAIN d_mem THEN d_mem[a - Dst] ELSE peer.mem[a]],
   next |-> Dst + d_result,
   history |-> LastOf(peer.history \o [i \in 1..d_result |-> d_mem[i - 1]], KB64)]

LinkInit ==
  /\ d_job = DecodeJob(<<>>, 0) /\ d_src = <<>>
  /\ d_ip = 0 /\ d_op = 0 /\ d_mem = <<>>
  /\ d_token = 0 /\ d_length = 0 /\ d_offset = 0
  /\ d_pc = "idle" /\ d_result = 0
  /\ session = NoSession /\ next = 0 /\ saved = TRUE
  /\ peer = [sd |-> LZ4_setStreamDecode(NULL, 0), mem |-> <<>>, next |-> 0, history |-> <<>>]

---------------------------------------------------------------------------
(* The sender's places.                                                    *)

\* Where a block of n bytes is put: a ring buffer starts over when the block
\* does not fit; two buffers, a byte apart, take turns.
Place(n) == IF session.sender = "ring" /\ next + n > session.size THEN 0 ELSE next

NextPlace(p, n) ==
  IF session.sender = "double" THEN IF p = 0 THEN session.size \div 2 + 1 ELSE 0
  ELSE IF session.sender = "saved" THEN 0
  ELSE p + n

---------------------------------------------------------------------------
(* Properties.                                                             *)

\* What is decompressed is what was compressed: all of the source, or, for
\* the functions that fill dst, the part they say they took.  The decompressor
\* needs no byte of room more than that.
RoundTrip ==
  d_pc = "done" =>
    /\ d_result = inputConsumed
    /\ \A i \in 1..inputConsumed : d_mem[i - 1] = text[source + i]

\* A ring buffer of LZ4_decoderRingBufferSize bytes serves any stream of blocks
\* of at most maxBlockSize bytes.
RingBufferSuffices == session # NoSession /\ session.receiver = "ring" => RoundTrip
=============================================================================
