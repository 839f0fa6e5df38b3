----------------------------- MODULE LZ4Decode -----------------------------
(***************************************************************************)
(* __LZ4_decompress_generic of lib/lz4/lz4.c, built with                   *)
(* LZ4_FAST_DEC_LOOP: the fast loop, the safe loop with its shortcut, the  *)
(* copies that write past their end, full and partial decoding, and the    *)
(* three places where history may lie (none, a prefix, another buffer).    *)
(*                                                                         *)
(* Address 0 is dst.  mem maps the addresses written so far to their       *)
(* bytes; job.prefix lies just below 0 and ends there, job.ext is the      *)
(* external dictionary, which begins at address job.extAt.  Source         *)
(* positions start at 0 too; the source lies at address job.at, inside dst *)
(* when decompression is in place and beyond it otherwise.  A step is the  *)
(* code between two labels of the function.                                *)
(***************************************************************************)
EXTENDS LZ4Format

CONSTANTS
  Jobs,  \* the calls considered
  KB64   \* 65536 in the code, how far back an offset reaches

DictModes == {"noDict", "withPrefix64k", "usingExtDict"}
JobType == [src : Seq(Byte), cap : Nat, partial : BOOLEAN, dict : DictModes,
            prefix : Seq(Byte), ext : Seq(Byte), extAt : Int, at : Nat]

\* withPrefix64k promises 64 KB below dst; only usingExtDict has a dictionary.
ASSUME JobsAssumption ==
  /\ Jobs \subseteq JobType
  /\ \A j \in Jobs : /\ j.dict = "withPrefix64k" => Len(j.prefix) = KB64
                     /\ j.dict # "usingExtDict" => j.ext = <<>>

VARIABLES
  job,     \* the arguments of the call
  src,     \* the source, as far as dst does not lie over it
  ip,      \* source position of the next byte to decode
  op,      \* destination address of the next byte to produce
  mem,     \* the destination: address -> byte, for the addresses written
  token,   \* token of the current sequence
  length,  \* literal or match length, as the variable of the code
  offset,  \* offset of the current match
  pc,      \* label reached
  result   \* value returned

call == <<job, src>>
vars == <<call, ip, op, mem, token, length, offset, pc, result>>

\* The labels of the decoder; "asm" and "asm_match" are those of LZ4Accel.
Labels == {"asm", "asm_match", "start", "fast", "fast_match", "fast_copy", "safe", "literals",
           "offset", "copy_match", "safe_match", "done"}

---------------------------------------------------------------------------
iend      == Len(job.src)
oend      == job.cap
lowPrefix == -Len(job.prefix)
dictSize  == Len(job.ext)
match     == op - offset

\* The source byte at position i, which a write to dst may have replaced: when
\* dst is as in m, and now.
SrcIn(m, i) == IF i \notin 0..iend - 1 THEN Outside
               ELSE IF job.at + i \in DOMAIN m THEN m[job.at + i]
               ELSE src[i + 1]

Src(i) == SrcIn(mem, i)

LE16In(m, i) ==
  IF SrcIn(m, i) = Outside \/ SrcIn(m, i + 1) = Outside THEN Outside
  ELSE SrcIn(m, i) + 256 * SrcIn(m, i + 1)

LZ4_readLE16(i) == LE16In(mem, i)

\* The destination byte at address i of the memory m.
At(m, i) == IF i \in DOMAIN m THEN m[i]
            ELSE IF i >= 0 THEN Junk
            ELSE IF i >= lowPrefix THEN job.prefix[i - lowPrefix + 1]
            ELSE Outside

\* The byte of the dictionary that is i bytes before its end, which a write to
\* dst may have replaced when both lie in one ring buffer.
ExtAt(i) == IF i \notin 1..dictSize THEN Outside
            ELSE IF job.extAt + dictSize - i \in DOMAIN mem THEN mem[job.extAt + dictSize - i]
            ELSE job.ext[dictSize - i + 1]

\* m after n bytes are written from address d on; f[i] is the i-th of them.
Write(m, d, n, f) ==
  [i \in DOMAIN m \cup d..(d + n - 1) |-> IF i \in d..(d + n - 1) THEN f[i - d] ELSE m[i]]

\* Faulty variant: rounds down.
Words_Down(n, w) == w * MaxOf(1, n \div w)

\* Bytes a copy in whole words of w bytes writes to cover n: one word at least.
Words(n, w) == w * MaxOf(1, (n + w - 1) \div w)

Literals(m, d, s, n) == Write(m, d, n, [i \in 0..n - 1 |-> Src(s + i)])

\* A copy of n bytes from s to d in words of w bytes.  A word is read before
\* it is written: when s and d are less than a word apart, the result is not
\* the repetition the format asks for.
Copy(m, d, s, n, w) ==
  Write(m, d, n, [i \in 0..n - 1 |->
                    IF d - s >= w THEN At(m, s + (i % (d - s)))
                    ELSE IF i < w THEN At(m, s + i) ELSE Junk])

\* A copy byte by byte, which may overlap; offset 0 leaves what is there.
CopyBytes(m, d, s, n) ==
  Write(m, d, n, [i \in 0..n - 1 |-> At(m, s + IF d = s THEN i ELSE (i % (d - s)))])

inc32table == <<0, 1, 2, 1, 0, 4, 4, 4>>

\* Faulty variant: the entry of offset 5 is one too small.
dec64table_Near == <<0, 0, 0, -1, -4, 0, 2, 3>>

dec64table == <<0, 0, 0, -1, -4, 1, 2, 3>>

\* The first 8 bytes of a match whose offset o is below 8: four bytes one by
\* one, over a zeroed word, then a word of four.
FirstEight(m, d, o) ==
  LET zero == Write(m, d, 4, [i \in 0..3 |-> 0])
      four == CopyBytes(zero, d, d - o, 4)
  IN  Copy(four, d + 4, d - o + inc32table[o + 1], 4, 4)

\* Where the copy goes on reading after FirstEight.
AfterEight(d, o) == d - o + inc32table[o + 1] - dec64table[o + 1]

\* The rest of a match, from the ninth byte on: n bytes in words of w, or
\* byte by byte when w = 1.
Rest(m, d, o, n, w) == Copy(m, d + 8, IF o < 8 THEN AfterEight(d, o) ELSE d - o + 8, n, w)

\* The first 8 bytes of a match.
First(m, d, o) == IF o < 8 THEN FirstEight(m, d, o) ELSE Copy(m, d, d - o, 8, 8)

\* LZ4_memcpy_using_offset: n bytes of a match of offset o < 16.
UsingOffset(m, d, o, n) ==
  IF o \in {1, 2, 4}
  THEN LET size == Words(n, 8) IN Write(m, d, size, [i \in 0..size - 1 |-> At(m, d - o + (i % o))])
  ELSE Rest(First(m, d, o), d, o, Words(n - 8, 8), 8)

---------------------------------------------------------------------------
(* Lengths that go on in the bytes after the token.                        *)

\* Where the run of length bytes that starts at from ends; none at or after
\* ilimit may be needed.
LastLengthByte(from, ilimit) ==
  {j \in from..ilimit - 1 : Src(j) # 255 /\ \A i \in from..j - 1 : Src(i) = 255}

\* read_variable_length, for a code that may be the escape value mask: the
\* length and the next address to read; none if the source ends too early.
ReadLength(code, mask, from, ilimit) ==
  IF code # mask THEN {[len |-> code, next |-> from]}
  ELSE {[len |-> code + 255 * (j - from) + Src(j), next |-> j + 1] :
          j \in LastLengthByte(from, ilimit)}

\* Where read_variable_length stops when it fails.
LengthErrorAt(from, ilimit, initial_check) ==
  IF initial_check /\ from >= ilimit THEN from ELSE MaxOf(from, ilimit) + 1

Return(r) == pc' = "done" /\ result' = r

\* _output_error
OutputError(at) == Return(-at - 1)

Goto(label) == pc' = label /\ UNCHANGED result

---------------------------------------------------------------------------
\* The special cases, and the choice of the first loop.
Start ==
  /\ pc = "start"
  /\ IF oend = 0
     THEN Return(IF job.partial \/ (job.src = <<0>>) THEN 0 ELSE -1)
     ELSE IF iend = 0 THEN Return(-1)
     ELSE Goto(IF oend - op < FASTLOOP_SAFE_DISTANCE THEN "safe" ELSE "fast")
  /\ UNCHANGED <<call, ip, op, mem, token, length, offset>>

\* Fast loop: the token and its literals, copied 16 or 32 bytes at a time.
FastLiterals ==
  /\ pc = "fast"
  /\ token' = Src(ip)
  /\ LET long   == RunCode(token') = RUN_MASK
         run    == ReadLength(RunCode(token'), RUN_MASK, ip + 1, iend - RUN_MASK)
         roomy(r) == IF long THEN op + r.len <= oend - 32 /\ r.next + r.len <= iend - 32
                     ELSE r.next <= iend - (16 + 1)
     IN  \/ /\ run = {}
            /\ OutputError(LengthErrorAt(ip + 1, iend - RUN_MASK, TRUE))
            /\ UNCHANGED <<ip, op, mem, length>>
         \/ \E r \in run :
              /\ length' = r.len
              /\ \/ /\ roomy(r)
                    /\ mem' = Literals(mem, op, r.next, IF long THEN Words(r.len, 32) ELSE 16)
                    /\ ip' = r.next + r.len /\ op' = op + r.len
                    /\ Goto("fast_match")
                 \/ /\ ~roomy(r)
                    /\ ip' = r.next /\ UNCHANGED <<op, mem>>
                    /\ Goto("literals")
  /\ UNCHANGED <<call, offset>>

\* History is contiguous up to the match: it needs no look at a dictionary.
InPrefix(d, o) == job.dict = "withPrefix64k" \/ d - o >= lowPrefix

\* The 18 bytes both loops copy for a short match that does not overlap.
Copy18(m, d, o) == Copy(m, d, d - o, 18, 8)

\* Fast loop: the offset, the match length, and short matches.
FastMatch ==
  /\ pc = "fast_match"
  /\ offset' = LZ4_readLE16(ip)
  /\ LET code == MatchCode(token)
         run  == ReadLength(code, ML_MASK, ip + 2, iend - LASTLITERALS + 1)
         near(r) == op + r.len + MINMATCH >= oend - FASTLOOP_SAFE_DISTANCE
         short == code # ML_MASK /\ InPrefix(op, offset') /\ offset' >= 8
     IN  \/ /\ run = {}
            /\ OutputError(LengthErrorAt(ip + 2, iend - LASTLITERALS + 1, FALSE))
            /\ UNCHANGED <<ip, op, mem, length>>
         \/ \E r \in run :
              /\ ip' = r.next
              /\ length' = r.len + MINMATCH
              /\ \/ /\ near(r)
                    /\ Goto("safe_match") /\ UNCHANGED <<op, mem>>
                 \/ /\ ~near(r) /\ short
                    /\ mem' = Copy18(mem, op, offset')
                    /\ op' = op + length'
                    /\ Goto("fast")
                 \/ /\ ~near(r) /\ ~short
                    /\ Goto("fast_copy") /\ UNCHANGED <<op, mem>>
  /\ UNCHANGED <<call, token>>

\* Error : offset outside buffers.
OutsideBuffers == dictSize < KB64 /\ match + dictSize < lowPrefix

FromDictionary == job.dict = "usingExtDict" /\ match < lowPrefix

\* A match of n bytes whose first byte is in the dictionary.
ExtCopy(n) ==
  LET copySize == MinOf(n, lowPrefix - match)
      restSize == n - copySize
      start    == op + copySize
      head == Write(mem, op, copySize, [i \in 0..copySize - 1 |-> ExtAt(lowPrefix - match - i)])
  IN  IF restSize > start - lowPrefix THEN CopyBytes(head, start, lowPrefix, restSize)
      ELSE Write(head, start, restSize, [i \in 0..restSize - 1 |-> At(head, lowPrefix + i)])

\* The match starts in the dictionary; either loop goes on at its top.
DictionaryMatch(loop) ==
  LET n == IF op + length > oend - LASTLITERALS THEN MinOf(length, oend - op) ELSE length
  IN  \/ /\ op + length > oend - LASTLITERALS /\ ~job.partial
         /\ OutputError(ip) /\ UNCHANGED <<op, mem, length>>
      \/ /\ op + length <= oend - LASTLITERALS \/ job.partial
         /\ mem' = ExtCopy(n)
         /\ length' = n /\ op' = op + n
         /\ Goto(loop)

\* Fast loop: the copy of a match that stays away from the end of dst.
FastCopy ==
  /\ pc = "fast_copy"
  /\ \/ /\ OutsideBuffers
        /\ OutputError(ip) /\ UNCHANGED <<op, mem, length>>
     \/ /\ ~OutsideBuffers /\ FromDictionary
        /\ DictionaryMatch("fast")
     \/ /\ ~OutsideBuffers /\ ~FromDictionary
        /\ mem' = IF offset < 16 THEN UsingOffset(mem, op, offset, length)
                  ELSE Copy(mem, op, match, Words(length, 32), 16)
        /\ op' = op + length
        /\ Goto("fast") /\ UNCHANGED length
  /\ UNCHANGED <<call, ip, token, offset>>

---------------------------------------------------------------------------
\* Faulty variant: the end of the source is not looked at.
ShortcutFits_NoInput == op <= oend - 14 - 18

\* Faulty variant: room for the literals only.
ShortcutFits_NoMatch == ip + 1 < iend - 14 - 2 /\ op <= oend - 14

\* Both ends are far enough for 16 bytes of literals and 18 of a match.
ShortcutFits == ip + 1 < iend - 14 - 2 /\ op <= oend - 14 - 18

\* Safe loop, the two-stage shortcut for the most common sequences: the offset
\* is read when the literals are written.
SafeShortcut ==
  /\ pc = "safe"
  /\ RunCode(Src(ip)) # RUN_MASK /\ ShortcutFits
  /\ token' = Src(ip)
  /\ LET run  == RunCode(token')
         code == MatchCode(token')
         at   == op + run
         lit  == Literals(mem, op, ip + 1, 16)
         both == code # ML_MASK /\ offset' >= 8 /\ InPrefix(at, offset')
     IN  /\ offset' = LE16In(lit, ip + 1 + run)
         /\ ip' = ip + 1 + run + 2
         /\ length' = code
         /\ \/ /\ both
               /\ mem' = Copy18(lit, at, offset')
               /\ op' = at + code + MINMATCH
               /\ Goto("safe")
            \/ /\ ~both
               /\ mem' = lit /\ op' = at
               /\ Goto("copy_match")
  /\ UNCHANGED call

\* Safe loop: the literal length.
SafeToken ==
  /\ pc = "safe"
  /\ ~(RunCode(Src(ip)) # RUN_MASK /\ ShortcutFits)
  /\ token' = Src(ip)
  /\ LET run == ReadLength(RunCode(token'), RUN_MASK, ip + 1, iend - RUN_MASK)
     IN  \/ /\ run = {}
            /\ OutputError(LengthErrorAt(ip + 1, iend - RUN_MASK, TRUE))
            /\ UNCHANGED <<ip, length>>
         \/ \E r \in run : ip' = r.next /\ length' = r.len /\ Goto("literals")
  /\ UNCHANGED <<call, op, mem, offset>>

\* Faulty variant: the end of dst is not looked at.
LastLiterals_AnyOutput == ip + length = iend

\* The literals end the block: the source is used up and dst holds them.
LastLiterals == ip + length = iend /\ op + length <= oend

\* safe_literal_copy: near either end, the literals must be the last of the
\* block, unless decoding is partial and may stop in their midst.
SafeLiterals ==
  /\ pc = "literals"
  /\ LET atEnd == op + length > oend - MFLIMIT \/ ip + length > iend - (2 + 1 + LASTLITERALS)
         n     == MinOf(MinOf(length, iend - ip), oend - op)
     IN  \/ /\ atEnd /\ ~job.partial /\ ~LastLiterals
            /\ OutputError(ip) /\ UNCHANGED <<ip, op, mem, length>>
         \/ /\ atEnd /\ (job.partial \/ LastLiterals)
            /\ mem' = Literals(mem, op, ip, n)
            /\ ip' = ip + n /\ op' = op + n /\ length' = n
            /\ IF ~job.partial \/ op' = oend \/ ip' >= iend - 2 THEN Return(op') ELSE Goto("offset")
         \/ /\ ~atEnd
            /\ mem' = Literals(mem, op, ip, Words(length, 8))
            /\ ip' = ip + length /\ op' = op + length
            /\ Goto("offset") /\ UNCHANGED length
  /\ UNCHANGED <<call, token, offset>>

SafeOffset ==
  /\ pc = "offset"
  /\ offset' = LZ4_readLE16(ip)
  /\ ip' = ip + 2
  /\ length' = MatchCode(token)
  /\ Goto("copy_match")
  /\ UNCHANGED <<call, op, mem, token>>

\* _copy_match: the match length.
MatchLength ==
  /\ pc = "copy_match"
  /\ LET run == ReadLength(length, ML_MASK, ip, iend - LASTLITERALS + 1)
     IN  \/ /\ run = {}
            /\ OutputError(LengthErrorAt(ip, iend - LASTLITERALS + 1, FALSE))
            /\ UNCHANGED <<ip, length>>
         \/ \E r \in run : ip' = r.next /\ length' = r.len + MINMATCH /\ Goto("safe_match")
  /\ UNCHANGED <<call, op, mem, token, offset>>

\* Faulty variant: the copy is never byte by byte.
PartialMatch_NoOverlap ==
  LET n == MinOf(length, oend - op)
  IN  /\ mem' = Write(mem, op, n, [i \in 0..n - 1 |-> At(mem, match + i)])
      /\ op' = op + n
      /\ IF op' = oend THEN Return(op') ELSE Goto("safe")

\* Partial decoding may end anywhere within the match.
PartialMatch ==
  LET n == MinOf(length, oend - op)
  IN  /\ mem' = IF match + n > op THEN CopyBytes(mem, op, match, n)
                ELSE Write(mem, op, n, [i \in 0..n - 1 |-> At(mem, match + i)])
      /\ op' = op + n
      /\ IF op' = oend THEN Return(op') ELSE Goto("safe")

\* The copy of a match within the block: 8 bytes, then words while they stay
\* clear of the end of dst, then bytes.
BlockMatch ==
  LET eight      == First(mem, op, offset)
      nearEnd    == op + length > oend - MATCH_SAFEGUARD_DISTANCE
      oCopyLimit == oend - (WILDCOPYLENGTH - 1)
      words      == IF op + 8 < oCopyLimit THEN Words(oCopyLimit - (op + 8), 8) ELSE 0
      size       == IF nearEnd THEN MaxOf(words, MaxOf(0, length - 8))
                    ELSE IF length > 16 THEN 8 + Words(length - 16, 8) ELSE 8
  IN  \/ /\ nearEnd /\ op + length > oend - LASTLITERALS
         /\ mem' = eight
         /\ OutputError(ip) /\ UNCHANGED op
      \/ /\ ~nearEnd \/ op + length <= oend - LASTLITERALS
         /\ mem' = Rest(eight, op, offset, size, 8)
         /\ op' = op + length
         /\ Goto("safe")

\* safe_match_copy
SafeMatch ==
  /\ pc = "safe_match"
  /\ \/ /\ OutsideBuffers
        /\ OutputError(ip) /\ UNCHANGED <<op, mem, length>>
     \/ /\ ~OutsideBuffers /\ FromDictionary
        /\ DictionaryMatch("safe")
     \/ /\ ~OutsideBuffers /\ ~FromDictionary
        /\ IF job.partial /\ op + length > oend - MATCH_SAFEGUARD_DISTANCE
           THEN PartialMatch ELSE BlockMatch
        /\ UNCHANGED length
  /\ UNCHANGED <<call, ip, token, offset>>

Init ==
  /\ job \in Jobs /\ src = job.src
  /\ ip = 0 /\ op = 0 /\ mem = <<>>
  /\ token = 0 /\ length = 0 /\ offset = 0
  /\ pc = "start" /\ result = 0

\* The call has returned.
Returned == pc = "done" /\ UNCHANGED vars

Next == \/ Start \/ FastLiterals \/ FastMatch \/ FastCopy
        \/ SafeShortcut \/ SafeToken \/ SafeLiterals \/ SafeOffset
        \/ MatchLength \/ SafeMatch \/ Returned

Spec == Init /\ [][Next]_vars

---------------------------------------------------------------------------
(* Properties.                                                             *)

\* Types: in particular no byte, token or offset was read outside the source,
\* the history or dst (Outside is none of the values listed).
TypeOK ==
  /\ job \in JobType /\ src \in Seq(Byte) /\ Len(src) = iend
  /\ pc \in Labels /\ result \in Int
  /\ ip \in Nat /\ op \in Nat /\ length \in Nat
  /\ token \in Byte /\ offset \in Nat /\ offset < 65536
  /\ \A i \in DOMAIN mem : mem[i] \in Byte \cup {Junk}

\* The copies that write past the length asked for (LZ4_wildCopy8, 16-byte
\* literals, 18-byte matches) never write outside dst, whatever the source.
WritesInside == DOMAIN mem \subseteq 0..oend - 1

\* dst is filled without holes, and no copy leaves a position the code has
\* already counted as produced unwritten.
ProducedIsWritten == 0..op - 1 \subseteq DOMAIN mem /\ op <= oend
=============================================================================
