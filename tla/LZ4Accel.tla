------------------------------ MODULE LZ4Accel ------------------------------
(***************************************************************************)
(* LZ4_arm64_decompress_safe and _safe_partial of lib/lz4/lz4.c: while     *)
(* both buffers have more than LZ4_FAST_MARGIN bytes left, the NEON loop   *)
(* of lz4armv8/lz4armv8.S decodes whole sequences; the C decoder finishes. *)
(*                                                                         *)
(* When the loop runs out of room in the middle of a sequence it goes back *)
(* to the start of the sequence - or, when the caller says that it         *)
(* decompresses in place (dip) and the literals are already written, it    *)
(* keeps them and leaves a token without literals in front of the offset,  *)
(* because the literals' own source may be overwritten by now.             *)
(***************************************************************************)
EXTENDS LZ4Decode

CONSTANT Dips   \* values of the dip argument considered

ASSUME DipsAssumption == Dips \subseteq BOOLEAN

VARIABLES
  asm,       \* "unused", "running", or "left"
  dip,       \* the dip argument
  save_src,  \* source position of the sequence in progress
  save_dst,  \* its destination address
  lits       \* x8: its literal length

accelVars == <<vars, asm, dip, save_src, save_dst, lits>>

LZ4_FAST_MARGIN == 128
EIO == 5

src_end == iend - LZ4_FAST_MARGIN
dst_end == oend - LZ4_FAST_MARGIN

---------------------------------------------------------------------------
\* Only the entry points that know no history have an accelerated form.
Accelerated ==
  job.dict = "noDict" /\ job.prefix = <<>> /\ oend > LZ4_FAST_MARGIN /\ iend > LZ4_FAST_MARGIN

\* The NEON unit may be in use, or the buffers too short: C does it all.
Enter ==
  /\ pc = "start" /\ asm = "unused" /\ Accelerated
  /\ asm' = "running" /\ pc' = "asm"
  /\ UNCHANGED <<call, ip, op, mem, token, length, offset, result, dip, save_src, save_dst, lits>>

\* Exit_here: the C decoder resumes at <<at, dst>>.
Leave(at, dst) ==
  /\ asm' = "left" /\ pc' = "start"
  /\ save_src' = at /\ save_dst' = dst /\ ip' = at /\ op' = dst
  /\ UNCHANGED result

\* Where the length bytes from s on end; none of them may be read at or
\* after src_end, and x3 ends at most one past it.
AsmLength(code, s) ==
  IF code # 15 THEN {[len |-> code, next |-> s]}
  ELSE {[len |-> code + 255 * (j - s) + Src(j), next |-> j + 1] : j \in LastLengthByte(s, src_end)}

\* Labels 1 to 6: the token, its literals, and the check of the offset.
AsmLiterals ==
  /\ pc = "asm"
  /\ \/ /\ op >= dst_end \/ ip >= src_end
        /\ Leave(ip, op)
        /\ UNCHANGED <<mem, token, length, offset, lits>>
     \/ /\ op < dst_end /\ ip < src_end
        /\ token' = Src(ip)
        /\ LET code == RunCode(token')
               run  == AsmLength(code, ip + 1)
               Room(r) == code = RUN_MASK => op + r.len < dst_end /\ r.next + r.len < src_end
           IN  \/ /\ run = {} \/ \E r \in run : ~Room(r)
                  /\ Leave(ip, op)
                  /\ UNCHANGED <<mem, length, offset, lits>>
               \/ \E r \in run :
                    /\ Room(r)
                    /\ mem' = Literals(mem, op, r.next, IF code = RUN_MASK THEN Words(r.len, 16) ELSE 16)
                    /\ lits' = r.len /\ save_src' = ip /\ save_dst' = op
                    /\ ip' = r.next + r.len /\ op' = op + r.len
                    /\ pc' = "asm_match"
                    /\ UNCHANGED <<asm, length, offset, result>>
  /\ UNCHANGED <<call, dip>>

\* Bytes the copy at label 14 writes: 16, then 32 at a time.
DisjointSize(n) == IF n <= 16 THEN 16 ELSE 16 + Words(n - 16, 32)

\* Copylength_table: how far a step of the overlapping copy advances.
Copylength_table ==
  <<32, 32, 32, 30, 32, 30, 30, 28, 32, 27, 30, 22, 24, 26, 28, 30,
    16, 17, 18, 19, 20, 21, 22, 23, 24, 25, 26, 27, 28, 29, 30, 31>>

\* Bytes the copy at label 11 writes: a store of 32 bytes, then two at a time
\* until the match is covered; the last one still stores 32.
OverlapSize(n, stride) ==
  LET pairs == IF n <= stride THEN 0 ELSE (n - stride + 2 * stride - 1) \div (2 * stride)
  IN  stride * 2 * pairs + 32

\* Labels 11 to 13: 32 bytes of the repeated pattern (Permtable) are stored
\* again and again, Copylength_table bytes apart.
OverlapCopy(n, o) ==
  LET stride == Copylength_table[o + 1]
      size   == OverlapSize(n, stride)
      pattern(t) == At(mem, op - o + IF o < 16 THEN t % o ELSE t)
      store(i) == MinOf(i \div stride, (size - 32) \div stride)
  IN  Write(mem, op, size, [i \in 0..size - 1 |-> pattern(i - stride * store(i))])

\* Faulty variant: the C decoder resumes at the offset.
DoneInPlace_AtOffset ==
  /\ Leave(ip, save_dst + lits)
  /\ IF job.at + ip - 1 \in DOMAIN mem
     THEN mem' = [mem EXCEPT ![job.at + ip - 1] = MatchCode(token)] /\ UNCHANGED src
     ELSE src' = [src EXCEPT ![ip] = MatchCode(token)] /\ UNCHANGED mem

\* Done1 with dip: the literals stay, and the byte before the offset, at ip,
\* becomes a token without literals.
DoneInPlace ==
  /\ Leave(ip - 1, save_dst + lits)
  /\ IF job.at + ip - 1 \in DOMAIN mem
     THEN mem' = [mem EXCEPT ![job.at + ip - 1] = MatchCode(token)] /\ UNCHANGED src
     ELSE src' = [src EXCEPT ![ip] = MatchCode(token)] /\ UNCHANGED mem

\* Labels 7 to 15: offset, match length and match.  ip is offset_src_ptr.
AsmMatch ==
  /\ pc = "asm_match"
  /\ offset' = LZ4_readLE16(ip)
  /\ LET run  == AsmLength(MatchCode(token), ip + 2)
         Fits(r) == op + r.len + MINMATCH < dst_end
     IN  \/ /\ offset' = 0 \/ op - offset' < 0
            /\ Return(-EIO) /\ asm' = "left"
            /\ UNCHANGED <<src, ip, op, mem, length, save_src, save_dst>>
         \/ /\ offset' # 0 /\ op - offset' >= 0
            /\ run = {} \/ \E r \in run : ~Fits(r)
            /\ IF dip THEN DoneInPlace
               ELSE Leave(save_src, save_dst) /\ UNCHANGED <<src, mem>>
            /\ UNCHANGED length
         \/ /\ offset' # 0 /\ op - offset' >= 0
            /\ \E r \in run :
                 /\ Fits(r)
                 /\ length' = r.len + MINMATCH /\ ip' = r.next /\ op' = op + length'
                 /\ mem' = IF offset' >= length' \/ offset' >= 32
                           THEN Copy(mem, op, op - offset', DisjointSize(length'), 32)
                           ELSE OverlapCopy(length', offset')
                 /\ pc' = "asm"
                 /\ UNCHANGED <<src, result, asm, save_src, save_dst>>
  /\ UNCHANGED <<job, token, dip, lits>>

\* The C decoder; from "start" on, it is entered once for all.
Finish == /\ Next
          /\ asm' = IF pc = "start" THEN "left" ELSE asm
          /\ UNCHANGED <<dip, save_src, save_dst, lits>>

\* A caller whose source lies in dst says so; without the loop dip is not used.
AccelInit == /\ Init /\ asm = "unused" /\ dip \in Dips
             /\ Accelerated \/ dip = FALSE
             /\ Accelerated /\ job.at < oend => dip
             /\ save_src = 0 /\ save_dst = 0 /\ lits = 0

AccelNext == Enter \/ AsmLiterals \/ AsmMatch \/ Finish

AccelSpec == AccelInit /\ [][AccelNext]_accelVars
=============================================================================
