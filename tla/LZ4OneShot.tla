---------------------------- MODULE LZ4OneShot -----------------------------
(***************************************************************************)
(* The one-shot compression functions of lib/lz4/lz4.c, called one after   *)
(* the other on one state: LZ4_compress_fast_extState (what                *)
(* LZ4_compress_fast and LZ4_compress_default call), its _fastReset        *)
(* variant, which keeps the hash table of the calls before it when it can, *)
(* and LZ4_compress_destSize, which compresses as much as fits in dst.     *)
(***************************************************************************)
EXTENDS LZ4Compress

CONSTANTS
  Requests,  \* the calls considered: function, text, size, capacity, acceleration,
             \* and of how many calls each takes the place in the bound
  MaxCalls

\* The source has the bytes the caller says it has, and only the functions that
\* clamp the acceleration take one below 1.
ASSUME RequestsAssumption ==
  \A r \in Requests :
    /\ r \in [fn : STRING, text : Seq(Byte), size : Int, capacity : Int, acceleration : Int,
              calls : Nat]
    /\ r.size \in 0..LZ4_MAX_INPUT_SIZE => r.size <= Len(r.text)
    /\ r.fn = "destSize_extState" => r.acceleration >= 1

VARIABLES
  calls,     \* calls made
  clean,     \* the state may be used without LZ4_initStream
  onExit     \* what is still to be done with the state before the call returns

vars == <<text, ctx, engine, calls, clean, onExit>>

LZ4_ACCELERATION_MAX == 65537

Clamped(acceleration) == MaxOf(1, MinOf(acceleration, LZ4_ACCELERATION_MAX))

TableType(size) == IF size < LZ4_64Klimit THEN "byU16" ELSE "byU32"

\* The arguments passed on: r with an output directive, in a stream without
\* history; small says whether older entries of the table are to be ignored.
WithOutput(r, output, small, acceleration) ==
  [source |-> 0, size |-> r.size, capacity |-> r.capacity, output |-> output,
   table |-> TableType(r.size), dict |-> "noDict", small |-> small,
   acceleration |-> acceleration]

FastOutput(r) ==
  IF r.capacity >= LZ4_compressBound(r.size) THEN "notLimited" ELSE "limitedOutput"

\* The state is initialised, and everything is compressed or nothing.
LZ4_compress_fast_extState(r) ==
  LZ4_compress_generic(ClearedCtx, WithOutput(r, FastOutput(r), FALSE, Clamped(r.acceleration)))

\* The table may hold entries of earlier calls that are to be ignored.
KeepsEntries(c, r) == TableType(r.size) = "byU16" /\ c.currentOffset # 0

LZ4_compress_fast_extState_fastReset(r) ==
  LET c == LZ4_prepareTable(ctx, r.size, TableType(r.size))
  IN  LZ4_compress_generic(c, WithOutput(r, FastOutput(r), KeepsEntries(c, r),
                                         Clamped(r.acceleration)))

\* LZ4_compress_destSize_extState_internal, with the acceleration it is given.
LZ4_compress_destSize(r, acceleration) ==
  IF r.capacity >= LZ4_compressBound(r.size)
  THEN LZ4_compress_fast_extState([r EXCEPT !.acceleration = acceleration])
  ELSE LZ4_compress_generic(ClearedCtx, WithOutput(r, "fillOutput", FALSE, acceleration))

---------------------------------------------------------------------------
\* A call of one of the functions.  LZ4_compress_destSize leaves a state that
\* needs LZ4_initStream, which its _extState variant calls on return.
Call(r) ==
  /\ pc = "idle" /\ onExit = "return" /\ calls + r.calls <= MaxCalls
  /\ calls' = calls + r.calls
  /\ text' = r.text
  /\ \/ /\ r.fn = "fast_extState"
        /\ LZ4_compress_fast_extState(r)
        /\ clean' = TRUE /\ UNCHANGED onExit
     \/ /\ r.fn = "fast_extState_fastReset" /\ clean
        /\ LZ4_compress_fast_extState_fastReset(r)
        /\ UNCHANGED <<clean, onExit>>
     \/ /\ r.fn = "destSize"
        /\ LZ4_compress_destSize(r, 1)
        /\ clean' = FALSE /\ UNCHANGED onExit
     \/ /\ r.fn = "destSize_extState"
        /\ LZ4_compress_destSize(r, r.acceleration)
        /\ clean' = FALSE /\ onExit' = "initStream"

\* LZ4_compress_destSize_extState cleans the state on exit.
CleanOnExit ==
  /\ pc = "idle" /\ onExit = "initStream"
  /\ ctx' = ClearedCtx
  /\ clean' = TRUE /\ onExit' = "return"
  /\ UNCHANGED <<text, engine, calls>>

Compressing == CompressStep /\ UNCHANGED <<calls, clean, onExit>>

\* No more calls.
Stop == pc = "idle" /\ onExit = "return" /\ calls >= MaxCalls /\ UNCHANGED vars

Init ==
  /\ text = <<>> /\ ctx = ClearedCtx
  /\ call = [source |-> 0, size |-> 0, capacity |-> 0, output |-> "notLimited",
             table |-> "byU16", dict |-> "noDict", small |-> FALSE, acceleration |-> 1,
             startIndex |-> 0, ctx |-> ClearedCtx]
  /\ ip = 0 /\ forwardIp = 0 /\ step = 1 /\ searchMatchNb = 0 /\ anchor = 0
  /\ match = 0 /\ offset = 0 /\ lowLimit = 0 /\ filledIp = 0
  /\ out = <<>> /\ token = 0 /\ reach = 0 /\ inputConsumed = 0
  /\ pc = "idle" /\ result = 0
  /\ calls = 0 /\ clean = TRUE /\ onExit = "return"

Next == (pc = "idle" /\ \E r \in Requests : Call(r)) \/ Compressing \/ CleanOnExit \/ Stop

Spec == Init /\ [][Next]_vars

---------------------------------------------------------------------------
(* Properties.                                                             *)

\* What two bytes can hold.
Offsets == 0..256 * 256 - 1

\* Types; in particular an offset fits the two bytes it is written to.
TypeOK ==
  /\ pc \in {"idle", "first_byte", "find_match", "literals", "match", "test_next", "last_literals"}
  /\ calls \in Nat /\ clean \in BOOLEAN
  /\ onExit \in {"return", "initStream", "rebase"}
  /\ ctx.hashTable \in [Slots -> Nat] /\ ctx.currentOffset \in Nat /\ ctx.dictSize \in Nat
  /\ ip \in Nat /\ anchor \in Nat /\ offset \in Offsets /\ result \in Nat
  /\ out \in Seq(Byte)

Returned == pc = "idle" /\ calls > 0 /\ call.size \in 0..LZ4_MAX_INPUT_SIZE

\* LZ4_compress_destSize takes the whole source, or leaves no byte of dst free
\* that could hold more of it.
FillsDst == Returned => FillsUp
=============================================================================
