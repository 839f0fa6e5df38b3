# Kernel-Lab: a verification development

The repository builds Android kernels for OnePlus devices. Most of it is
recipes: workflows that fetch a kernel tree, apply patches and call make. Three
parts hold logic of their own that is worth modelling:

* the **ADIOS I/O scheduler** (`patches/adios_ioscheduler_6.6.patch`, `block/adios.c`),
* the **LZ4 library** (`lib/lz4/`), an updated `lib/lz4` for the kernel with an
  arm64 NEON decompressor,
* the **scripts** that edit kernel sources (`scripts/`, `patches/SuSFS/`).

This directory models the first two; see *Not modelled* for the rest.

## Inventory

### ADIOS

| part | state | operations | modelled by |
|---|---|---|---|
| request path | `prio_queue[2]`, `dl_tree[2]`, `barrier_queue`, `batch_queue[2][4]`, the summary bits `ad->state` and `bq_state[]`, `in_flight_rqs`, `dl_bias`, `elv_direction`, `head_pos` | insert, bio merge, request merge, dispatch, complete, requeue | `AdiosSched` |
| latency model | per optype: `params` (base, slope and the sums they are made of), small and large buckets on each CPU, `update_lock`; for all optypes: `aggr_buckets`, `update_timer`, the last completion's time and position | input at completion, update by timer or by a first sample, predict | `AdiosLatency`; its base only in `AdiosSched` |
| attributes, lifetime | sysfs values | store, init, exit | `batch_order` in `AdiosSched`, the stores that change models in `AdiosLatency`, both `Init` |

The block layer calls insert, merge, dispatch and completion from any CPU. Five
spinlocks (`lock`, `bq_lock`, `pq_lock`, `barrier_lock`, one per latency model)
each protect a part, and `ad->state` is an atomic word read without any of them.
Hard behaviours: dispatch looks at three groups of queues one after the other;
`fill_batch_queues` gives `ad->lock` up and takes it again; the barrier is
checked, then released; batch_order changes under the feet of a filled batch;
the driver may give a request back; an allocation may fail inside an insertion, after which
the request is in no list but still known to the block layer as a neighbour to merge with.
Of the latency model: the buckets of a CPU are filled with only its own interrupts
off, and read and cleared by another CPU; the timer is re-armed while its callback runs;
what one model does not use stays where the next model looks.

What makes it correct: a request is in exactly one list until it is dispatched;
the summary bits say which lists are non-empty; the in-flight account is that of
the requests it stands for; a barrier holds what comes after it; synchronous
requests of one optype keep their order; a batch respects its limits and, in
elevator order, disk order; every request leaves. A latency model is made of its own
samples, each counted once, rests on no latency and no steepness beyond theirs, and leaves none behind.

### LZ4

| part | state | operations | modelled by |
|---|---|---|---|
| block decoder | source and destination cursors, destination memory | `LZ4_decompress_safe`, `_partial`, and the variants with prefix and dictionary | `LZ4Decode` |
| plain decoder | the same | `LZ4_decompress_unsafe_generic` | `LZ4DecodeRef` |
| NEON decoder | registers of the assembly loop, the saved cursors | `LZ4_arm64_decompress_safe`, `_partial` | `LZ4Accel` |
| block compressor | hash table, `currentOffset`, table type, dictionary; cursors of a call | `LZ4_compress_fast_extState`, `_fastReset`, `LZ4_compress_default`, `LZ4_compress_destSize`, `_extState` | `LZ4Common`, `LZ4Compress`, `LZ4OneShot` |
| high compression | `LZ4HC_CCtx_internal`: hash and chain table, prefix, external dictionary, attached dictionary, level, `dirty`; matches and prices of a call | `LZ4_compress_HC_extStateHC`, `_fastReset`, `LZ4_compress_HC_destSize`, with the parsers of levels 2, 3 to 9 and 10 to 12 | `LZ4Common`, `LZ4HCSearch`, `LZ4HC`, `LZ4HCSession` |
| streaming, sender | `LZ4_stream_t`: the compressor's state, where its history is, an attached dictionary | `LZ4_loadDict`, `_loadDictSlow`, `_attach_dictionary`, `_resetStream_fast`, `_compress_fast_continue`, `_compress_forceExtDict`, `_saveDict` | `LZ4Stream`, `LZ4Session` |
| streaming, high compression | `LZ4_streamHC_t`: the state above | `LZ4_resetStreamHC_fast`, `_setCompressionLevel`, `_favorDecompressionSpeed`, `_loadDictHC`, `_attach_HC_dictionary`, `_compress_HC_continue`, `_continue_destSize`, `_saveDictHC` | `LZ4HCSession` |
| streaming, receiver | `LZ4_streamDecode_t`: prefix and external segment | `LZ4_setStreamDecode`, `_decompress_safe_continue`, `_decompress_safe_usingDict`, `_decoderRingBufferSize` | `LZ4Link` |

The library is sequential; what is hard about it is arithmetic at the ends of
buffers (copies write past their length by design, each loop keeps another
distance), overlapping copies, decoding in place, the hand-over between loops,
and state that is reused from call to call. Of the high compression mode, also:
three address spaces under one index (prefix, external dictionary, attached
dictionary), a chain table that wraps, matches that are shortened after they were
found, a price table that ends, and indexes left over from another parser.

What makes it correct: the decoder yields the content of a block whichever loop
produces a byte, never leaves its buffers, refuses what does not fit; a probe of
a hash table, or of a chain, only looks at text the decoder will have; the compressor never
overruns dst; what was compressed is what is decompressed; the history a sender
refers to is history its receiver has, wherever either of them keeps it.

## Modules

`AdiosSched` - one action per critical section, or per lock-free read of
`ad->state`. A CPU in `adios_dispatch_request` is a program counter that goes
through `pq` (dispatch_from_pq), `bq` (dispatch_from_bq up to the fill), `fill`
(one iteration of the inner loop of fill_batch_queues), `filled` (sort, account,
flip, pop), `bp` (look at the barrier bit), `release` and `reinsert`
(release_barrier_requests); `lock` and `bq_lock` name their owner while a CPU
holds them from one step to the next. Request r is the r-th one inserted. A
deadline tree is the sequence of its requests in deadline order, the groups of
equal key in order of arrival, which is how the code pops them. Tree searches by
the block core (`blk_mq_sched_try_insert_merge`, `blk_mq_sched_try_merge`) are
free choices among the requests of the same operation. A latency model is its
`base`; predicted latencies are bases, which is exact for requests of at most
`LM_BLOCK_SIZE_THRESHOLD` bytes. `update_elv_direction` runs without `bq_lock` in
dispatch_from_pq, so that its reads race; the model then allows either direction.
`in_flight_rqs` is the packed word of the code: `Account` adds and subtracts with the carry from the
count into the latency, modulo `CountSize` and `LatSize` (2^16 and 2^48 in the code). A
request whose group could not be allocated is `lost`, in no list, but hashed all the same and,
like those of the trees, one that a request or a bio may be merged into (`Mergeable`); a bio that is makes
`del_from_dl_tree` follow a null `dl_group`, and the kernel oopses with `ad->lock` held
(`adios_bio_merge_oops`): nothing that needs the lock goes on.

`AdiosLatency` - the latency models. A CPU is a program counter that goes through a
completion (`measure`, `input`, then the writes of a bucket, `weight` and `latency`,
and `rearm`) and through an update (`lock`, `collect` and `reset` for each CPU's buckets,
`process`); `local` holds its variables, among them what it read of a bucket and
has yet to write, and the models it still has to update. A sysfs store is a sequence of
steps (`store`): one model after the other, then `aggr_buckets`. The arithmetic -
the bucket of a ratio with its 8 bits, trimming at a percentile, shrinking,
base and slope - is that of the code on small numbers. Buckets are functions on the
indexes in use. Coarser than the code: the 64 buckets of a CPU are read in one step; so are,
read and written, the time and position of the last completion; an update that
has collected is one step, from counting to publishing; a request is predicted and started in one
step; an interrupt does not come between two models of the callback on the same CPU, and
the clock does not move while no CPU is idle. A situation (`Setups`) says which CPUs take part,
which requests there are, and how many requests, stores and failing allocations.

`LZ4Format` - the constants of the format. `LZ4Decode` - one action per stage of
`LZ4_decompress_generic`: literals, offset and match length, and match of the
fast loop; the two-stage shortcut; token, literals, offset, match length and
match of the safe loop. Memory is a function from addresses to bytes; a copy that
writes past its length writes what it writes; a byte read from outside every
buffer is `Outside`, which is no byte. In place, the source is part of dst.
`LZ4DecodeRef` is `LZ4_decompress_unsafe_generic` as a recursive operator on the
source: it knows no wild copies, no shortcut and no word copies, and is what the
optimized decoders are compared with.

`LZ4Accel` extends `LZ4Decode`: entering the loop, literals and match of
`lz4armv8.S`, and its exit, after which the actions of `LZ4Decode` go on. Whether
the NEON unit is usable is a free choice (the loop is entered or not).

`LZ4Common` - what both compressors share (`lz4hc.c` includes `lz4.c`): the text,
the cursors of a call, the block written so far, and the last literals.
`LZ4Compress` - one action per stage of `LZ4_compress_generic_validated`: the
first byte, one probe of the search, literals, match, the test of the next
position, last literals. Its four directives (output, table type, dictionary,
dictionary size) are fields of the call. `LZ4OneShot` adds the entry points and
`LZ4_prepareTable`.

`LZ4Stream` adds the streaming functions on the state of `LZ4OneShot`: they choose
the directives of a block, call `LZ4_compress_generic`, and, when the history was
external, replace it by the block after the call (`onExit`, `Rebase`). Memory is
one sequence, `text`, so that dictionary, safe buffer and reused buffer have
addresses that may follow or overlap each other as in the program.

`LZ4HCSearch` - the state of the high compression mode and
`LZ4HC_InsertAndGetWiderMatch`: one action per candidate of the chain, with the
extension forwards and backwards, the pattern analysis, the chain swap, and the
search of an attached dictionary after it. The chain table has one
entry for each index modulo its size, the distance to the position before it; a
32-bit index is a number; following a chain, which the code does without a test (1418), wraps as U32 does, at
2^30 for TLC's sake, so that an index below zero would be one that `CandidatesInHistory` refuses. `LZ4HC` - the three parsers on
top of it: `LZ4MID_compress` (level 2), a probe of
its tables, the search of an attached dictionary, and the encoding being steps;
`LZ4HC_compress_hashChain` (3 to 9), whose labels `_Search2` and `_Search3` are
states, `found2`, `found3` the decisions after a search, and `encode2` the match
left over; `LZ4HC_compress_optimal` (10 to 12), one action per position of the
price table, `plan` being the path read backwards. `LZ4HCSession` - the functions
of the interface, one-shot and streaming. The caller puts a block or a dictionary
into memory in one step (`due` says which call comes next) and makes the call in the
following one, as a program does.

`LZ4Link` - from a compressor to the decompressor. It holds `LZ4Decode` as an
INSTANCE on variables of its own and the receiver of a stream. A session says in
which of the ways `lz4.h` allows the sender uses its buffers (one after the other,
ring, two buffers in turn, saved history) and the receiver decodes (contiguously, in
a ring, in step with the sender, or with an explicit dictionary). A block is
sent, compressed, decoded into the receiver's memory, which keeps what wild copies
leave in it, and received. A block of a one-shot call is decompressed into a dst
of the consumed length. `LZ4Session` composes it with `LZ4Stream` and
`LZ4HCSession` with `LZ4HC`; one-shot calls on the same state come between streams.

`MCAdiosSched`, `MCAdiosLatency`, `MCLZ4Blocks`, `MCLZ4Decode`, `MCLZ4OneShot`, `MCLZ4Session` and
`MCLZ4HC` hold the values of the constants.

Eight modules hold the proofs. `AdiosSchedProofs` extends `AdiosSched`, and
`AdiosOrderProofs`, about the order of requests, extends it. `AdiosLatencyProofs` extends
`AdiosLatency`, `LZ4DecodeProofs` extends
`LZ4Accel`, and through it `LZ4Decode`, `LZ4CompressProofs` extends `LZ4Session`, and
through it the whole fast compressor, and `LZ4HCProofs` extends `LZ4HCSession`, and through
it the whole high compression mode. `SetSums`, which `AdiosSchedProofs` and
`AdiosLatencyProofs` extend, has the lemmas on sums over finite sets, and `LZ4CommonProofs`,
which the last two extend, those on runs of literals, length bytes, counts of equal bytes, last
literals and buffers.

## Runs

| run | asks | bounds |
|---|---|---|
| `adios_ssd` | the safety of the request path under two dispatching CPUs | 4 requests (synchronous read, asynchronous write, flush), batch limits of 2 and 1, a window of 3 predicted latencies, one tree removal per hold of the lock |
| `adios_paths` | the same bits and lists for every way in; order around a flush with one CPU | 3 requests (reads of two quanta at two offsets, a flush), 1 requeue, 1 model update, bio merges, failing allocations and merges into what they lose, cold and warm start; a count of 2 bits |
| `adios_hdd` | disk order and progress on a rotational device | 3 requests (writes at two positions, flush), 2 CPUs |
| `adios_barrier_race` | a statement of the comments, refuted | 3 requests |
| `adios_latency` | what a model is made of, and that no sample is left behind | eight situations: one CPU with 2 to 4 requests, or two CPUs with 1 to 3, small and large reads, a rotational disk with writes and flushes, one store or one failing allocation |
| `adios_latency_mixed` | that a model is made of its own samples, refuted | 3 reads and writes, one CPU |
| `lz4_decode` | the C decoder against the plain one, with and without the NEON loop in front of it, and its buffers | about 2500 blocks, and as many again of 100 to 300 bytes for the NEON loop, see below |
| `lz4_accel_in_place` | the margin that `lz4.h` promises, refuted | the longer blocks, in place |
| `lz4_stream` | each entry point of the fast compressor, streams and one-shot calls on one state | one call with texts of 0 to 3705 bytes and capacities from 0 on; 4 calls (6 in a receiver's ring) with blocks of 0 to 40 bytes; a window of 47 |
| `lz4_ring` | the size of a receiver's ring buffer, refuted | blocks of 63 and 87 bytes |
| `lz4_hc` | the high compression mode: one-shot calls with a second one on the same state, and streams | levels 0 to 13, texts of 0 to 320 bytes, 2 or 3 blocks of 2 to 40 bytes, a window of 47, a price table of 24 |
| `lz4_hc_dest_size` | a stream after a block that did not fit, refuted | 2 blocks of 60 and 16 bytes |

Why the bounds are enough. *ADIOS*: four requests fill a batch (limit 2), leave
one in a tree and one behind a flush; two CPUs give every pairing of the two
halves of a dispatch; the limits are scaled so that each of the three reasons to
stop a batch (no base, batch_limit, latency window) occurs; `MaxDeletes` is 1 or 2,
so that the lock is given up within a batch; `CountSize` and `LatSize` are 4 and 64 where a request is given
back, so that three in flight and one too many wrap the count and carry into the latency, and 8 and 1024 elsewhere. CPUs are interchangeable, and
symmetry is used where no liveness is checked. *Latency model*:
the thresholds are scaled (2 samples, an interval of 50 between times 3 and 90, shrinking from 2
samples and 8000 bytes by half, latencies up to 88) so that every branch of an update
occurs: too few samples too early, enough of them, enough time, a first sample, shrinking on both
sides; latencies of 0 to 87 against a base of 2 reach the last bucket and beyond the
8 bits. Two CPUs with up to three requests give two completions and an update in every
order. *Decoder*: offsets are those that
index the two tables of overlapping copies (1 to 8), those around the 16- and
18-byte copies, and those that reach into the dictionary or before it; lengths sit
on both sides of 14/15, 18/19, 269/270 and 32; dst has less room than needed, the
exact size, one byte more, and enough for the fast loop (64 bytes). *NEON*: both
buffers exceed `LZ4_FAST_MARGIN`. *Compressor*: the constants tie the 64 KB limits
together as the code does (`LZ4_DISTANCE_MAX`, its successor, and `LZ4_64Klimit`),
and scale them to 47 so that a text can be just inside and just outside
the window, a table can run full, and the offset added between calls matters.
`CoarseHash` has five slots, so that unrelated positions collide. *Streams*: with a
window of 47 bytes a stream of four blocks leaves the window, wraps a ring of 50 to
85 bytes, and passes `TwoGB` (160), where indexes are rescaled; `FourKB` (24) has
blocks on both sides. A repeated word lies just inside and just outside the window
of each compressor run. A sender's ring holds two blocks of `maxBlock`, which is what
note 2 of `lz4.h` on `LZ4_compress_fast_continue` asks of the caller; its note 4 allows smaller rings, in
which one block may overwrite the whole dictionary (`lz4.c` 2024-2026): that is outside the sessions. A receiver's
ring has 32 bytes more than the functions of `lz4.h` say, because of `lz4_ring`.

*High compression*: the same window. A chain table has as many entries as the window,
and 16 hashes for 4 bytes and 8 for 7 make chains that hold unrelated positions.
`OneGB` is 100 and `TwoGB` 105, so that the second call starts the indexes over, or
not, and a stream of three blocks starts over in its midst; the code's 2 GB + 1
relates to its window in the same order. `ThirtyTwoKB` is 16: of the longest dictionary only
the end has every position in the table of level 2. `LZ4_OPT_NUM` is 24 in place of 4096: a
match may be longer than the table, end with it, or leave it in the middle of a
path. Dictionaries are shorter than 8 bytes (below what is hashed), shorter than the
window, and longer; `FourKB` separates an attached dictionary that is copied
from one that is searched in place; the levels of a dictionary and of its user
differ, and levels change between blocks. A safe buffer lies far from the next
block or just before it. Every parser runs into a full dst at every place of a
sequence, in the mode that gives up and in the one that fills dst.

*Fairness.* `FairSpec` assumes weak fairness of each CPU's dispatch: the block
layer runs a hardware queue again as long as `adios_has_work` says that there is
work, and each critical section is finite. Nothing is assumed of insertion,
completion or the driver. Deadlock is not checked for ADIOS: when all requests
have left, nothing is left to do. The decoders end in a stuttering `Returned`
step, and deadlock is checked for them and for the compressor.

## What the refuted statements show

* `FlushBeforeLater`: on two CPUs, CPU 2 finds `prio_queue` empty; CPU 1 releases
  a flush into `prio_queue[1]` and clears the barrier; a new request enters a
  deadline tree; CPU 2 fills a batch with it and dispatches it before the flush.
  With one CPU the property holds (`adios_paths`).
* `BaseOfOwnSamples`: a read is completed and becomes the base of the read model. A
  second one, measured before `LM_INTERVAL_THRESHOLD` has elapsed, is moved from its CPU's
  buckets to `ad->aggr_buckets` by the timer callback, and is not processed: there are fewer
  than `LM_SAMPLES_THRESHOLD`. The callback goes on to the write model, which has no base
  yet, finds a sample and makes a base of it. With the real thresholds (1024 samples, 1500 ms,
  a timer of 100 ms) this is the usual case: what the reads leave goes to the models of
  writes, discards or other operations, the last of which measures no latencies itself.
* `InPlaceBufferSuffices`: the overlapping copy of the NEON loop stores up to 62
  bytes past a match; the margin of `lz4.h` leaves 32.
* `RingBufferSuffices`: the fast loop copies literals 32 bytes at a time. At the
  start of a ring of `LZ4_decoderRingBufferSize` bytes, the bytes it writes past the
  literals are the oldest history, which a match of the same block may need: the
  block decodes to other bytes. `lz4.h` gives a third condition for ring buffers
  (larger than the sender's by `maxBlockSize`); the sessions add 32 bytes there too.

* `RoundTrip` in `lz4_hc_dest_size`: `LZ4_compress_HC_continue_destSize` may leave
  source bytes unread, but the end of the history, `end`, has been moved past
  the whole source. `lz4hc.h` lets the caller go on with the unread bytes as the next
  block; they are taken for a block elsewhere, and the former prefix becomes the external
  dictionary. Only what the new source covers of it is dropped (`lz4hc.c` 2168-2189); the unread bytes
  after that stay, and a match may refer to them, which the receiver has never had. In the run the match
  has offset 24 and the receiver has 20 bytes, so that it refuses the block; with a longer
  history it would copy other bytes.

Other things the code does that its comments do not say, or that a reader would not expect:

* `cmd_flags & REQ_OP_FLUSH` is a test of one bit, which `REQ_OP_DISCARD` (3) has as well:
  every discard is a barrier, where the comment at line 85 speaks of flushes.
* Of two priority queues, `dispatch_from_pq` takes number 1 first (`pq_state >> 1`), where the
  comment on `prio_queue` speaks of tier 0 as the higher one.
* "Fully reset the model" (1894) leaves a sample of latency 0 in it: `small_count` is 1, and the
  first base after a reset is half of the first latency.
* A store to `lat_target` resets a model without clearing `ad->aggr_buckets`.
* An update of a model with a base drops a hundredth of the weights, rounded up: a single
  small sample of weight 1 is always dropped (99 percent of one is none).
* A prediction may exceed every latency that was measured: the slope comes from all large
  samples, whatever their sizes (two pages at the slope of one short slow read), and
  `PredictionBounded` bounds base and slope, not their sum.
* Each request given back by the driver leaves one in the count of `in_flight_rqs` for good, and
  after 2^16 of them the count wraps into the latency: `CountOffByRequeues` says exactly how far it is off.
* `fill_batch_queues` decides whether to sort by the number of writes in the second queue; with at most one,
  other operations stay in it unsorted, though dispatch pops it by direction too: `ElevatorSorted`
  promises disk order while two writes wait.
* A ratio of 72 or more wraps around in the 8-bit bucket index, so that an extreme outlier
  may be put among the usual latencies.
* An update subtracts one base from the sum of all its large latencies.
* After a completion of another operation that leaves nothing in flight,
  `last_completed_time` stays set: the next latency includes the idle time.
* With two CPUs, a sample that comes between reading and clearing the buckets is lost, and one
  whose bucket is cleared between its two writes brings back what was already collected:
  `PredictionBounded` and `CountedOnce` are stated for one CPU.

## Proofs

A run shows a property on its small instance; a theorem says the same of every
instance. The table lists which; *cold or warm* means `Spec \/ WarmSpec`.

| theorem | states | of | under |
|---|---|---|---|
| `TypeCorrect`, `FlagsAlwaysAgree`, `WarmFlagsAlwaysAgree` | `TypeOK`, `FlagsAgree` | `AdiosSched`, cold or warm | |
| `QueuedOnceAlways` | `QueuedOnce` | cold or warm | |
| `BatchesBounded` | `BatchBounded` | cold or warm | |
| `CountOffByRequeuesOnly` | `CountOffByRequeues` | cold or warm | |
| `InFlightStaysExact` | `InFlightExact` | cold or warm | no request given back (`MaxRequeues = 0`), the requests fit the count (`MaxReq < CountSize`) |
| `ElevatorStaysSorted` | `ElevatorSorted` | cold or warm | |
| `BarrierAlwaysHolds` | `BarrierHoldsLater` | cold or warm | |
| `FlushFirstOnOneCPU` | `FlushBeforeLater` | cold or warm | one CPU dispatches |
| `SyncInOrder` | `SyncFifo` | cold or warm | no bio merges (`~BioMerges`) |
| `SamplesAlwaysHaveTimer` | `SamplesHaveTimer` | `AdiosLatency` | |
| `LatencyTyped` | `LatencyTypeOK` | `AdiosLatency` | |
| `SamplesCountedOnce` | `CountedOnce` | `AdiosLatency` | (the property is about one CPU) |
| `DecoderStaysInside` | `TypeOK`, `WritesInside`, `ProducedIsWritten` | `LZ4Decode` | `SeparateBuffers` |
| `ReadsInside`, `NeverWritesOutside`, `FillsWithoutHoles` | the same three | `LZ4Accel` | `SeparateBuffers` |
| `BlocksStayInsideDst` | `WritesInsideDst` | `LZ4Session` | `HashesInSlots` |
| `DestSizeFillsDst` | `FillsDst` | `LZ4Session` | `HashesInSlots` |
| `CandidatesStayInWindow` | `CandidatesInWindow` | `LZ4Session` | `HashesInSlots`, `ForcedNotEmpty` |
| `CompressorTyped` | `TypeOK` of `LZ4OneShot` | `LZ4Session` | `HashesInSlots`, `ForcedNotEmpty` |
| `HCTyped` | `HCTypeOK` | `LZ4HCSession` | `HashesInTable` |
| `HCStaysInsideDst` | `WritesInsideDst` | `LZ4HCSession` | `HashesInTable` |
| `HCDestSizeFills` | `HCFillsDst` | `LZ4HCSession` | `HashesInTable` |
| `PlanStaysInTable` | `PlanInTable` | `LZ4HCSession` | `HashesInTable` |
| `InsertsStayInPrefix` | `InsertsInPrefix` | `LZ4HCSession` | `HashesInTable` |

None of the properties is inductive as it stands. What is proved in each case is that
an invariant holds at the start, is preserved by every action, and implies the property.

### ADIOS, request path

All theorems are for every number of requests and CPUs, every set of request kinds and
all limits, under `ConstantsAssumption` of `AdiosSched`.

* `IInv` (`AdiosSchedProofs`) is the conjunction of `RqOK`, `PqOK`, `DlOK`, `BarOK`,
  `PageOK`, `FillOK`, `ElvOK`, `ModelOK`, `EnvOK`, `CtlOK`. Whether clearing a summary
  bit is right depends on who is filling which page and on what the lists may hold:
  `PqOK`, `DlOK`, `BarOK` and `PageOK` carry the agreement of bits and queues, and
  `CtlOK` and `FillOK` say that at most one CPU is past `bq_lock`, that `lock` is held
  by the CPU that works on `local_list` or on a batch, and what that CPU's locals are.
* `QInv` = `IInv` and `PlaceOK`, `NewOK`, `LocalOK` . `PlaceOK`
  treats all lists as one function from names to sequences: each has distinct requests,
  no two share one, and together they hold exactly the queued ones. Requests above
  `inserted` are new, and only a CPU in the reinsertion loop has a `local_list`. Lemmas state
  what appending, taking an end, inserting, removing, sorting, and moving a request from one
  list to another do to such a function.
* `BInv` = `QInv` and `BatchOK`, `CountOK`, `CountedSorted`.
  `batch_count` is at least what is left in a page; a fill in progress has added no more
  than the window beyond its first request. `CountOK`: the count of `in_flight_rqs` is that of the
  requests between the trees and completion but for the page that is filled, and one for each given
  back, modulo `CountSize`; what a fill has counted so far is what its page holds. `CountedSorted`: a
  queue whose writes were counted as two or more is sorted once, and either end is taken; a queue that
  holds two writes was counted so.
* `AInv` = `QInv`, `AccountOK`, and no request given back; modulo the two sizes. `AccountOK` says that
  `in_flight_rqs` is the number and the summed predictions of `Counted`, the requests
  between the trees and completion but for the page that is filled, and that a fill's
  own sums are those of that page; its end adds the one to the other. Each step
  moves at most one request into or out of `Counted`, or a whole page. A prediction is
  stored at insertion and kept, so that completion takes off what was put on.
  The lemmas of `SetSums` say what a sum over a finite set does when sets are joined and
  elements change: it is the number of units that a function gives the elements, whatever
  the order. `SumFunctionOnSet` is a fold over an operator, and a theorem of induction would
  take one too; a least subset on which fold and number differ takes its place.
  A request given back is counted a second time and is
  subtracted once: the hypothesis is needed, and `CountOffByRequeuesOnly` says what remains: the count is
  off by the requests given back, modulo `CountSize`, and by nothing else.
* `HInv` = `QInv` and `BarrierHoldsLater` (`AdiosOrderProofs`), which needs `QInv` only: a
  release takes the first requests of `barrier_queue` up to the next flush, so that what is
  left is again all that came from its head on.
* `FInv` = `HInv` and `FlushOK`, `NotPassed`. `FlushOK` says where flushes are: in
  `barrier_queue`, headed by one, or released to `prio_queue[1]`, in order and before
  all that is still held; and while one is in `prio_queue[1]`, no CPU is past its look at
  `prio_queue`. The last is what a second CPU breaks: `adios_barrier_race` is the
  counterexample without the hypothesis.
* `SInv` = `HInv` and `StageOK`, `TreesOK`, `PagesOK`, `WaitOK`, `HasRqOK`, and no bio
  merge under way. A request passes through stages: `barrier_queue`, `local_list`,
  the trees, the page that is filled, the page that is popped from, and out.
  `StageOK` says that no request has one behind it that must come before it, by stages;
  the other parts say the same within a stage: a tree is in the order of deadlines, and of
  arrival within a group, a page holds synchronous requests of one optype in one queue
  that only its head is taken of, and a fill knows whether the current page has requests, so
  that the pages flip only when the current one is empty. The hypothesis cannot be
  dropped, for this proof: `adios_request_merged` takes a request out of its group
  and puts it back at the tail, behind younger ones. `adios_paths` has bio merges and
  checks `FlushBeforeLater`; `SyncFifo` is checked by `adios_ssd`, without them. Merges
  at insertion are covered: they absorb a request and move none.

### ADIOS, latency model

`TInv` = `LocalsOK`, `BucketsThere`, `SetupOK`, `SamplesHaveTimer`, for any number of CPUs,
any situation and any interleaving of completions, updates and stores. A callback has taken the
timer down, so that it must come to every bucket: `LocalsOK` says that it is within
an update of one of the models it still has to do, and that it leaves a model (`process`)
only after the buckets of all CPUs (`left = {}`). A completion past its write to a bucket will
re-arm. An update that finds no memory gives up; the property excludes it by its
hypothesis, as in the runs.

`VInv` says what every variable holds (`ClockOK`, `InFlightOK`, `ParamsOK`, `BucketsTyped`,
`LocksOK`, `StoreOK`, `SamplesOK`) and what each CPU needs of its own where it is
(`ValuesOK`). `LatencyTypeOK` is a part of it, but not inductive: a bucket is a pair of
naturals only as long as the index of the sample on its way, and the bucket read before, are what they should be,
and a model stays one because trimming takes a natural number from each sum: the lemmas say
that the percentile's bucket exists, that the weight below it and the share of it are at most
the whole, and that the number left is positive where it is divided by.
`LatencyAssumption` requires that the CPUs are finitely many.

`CInv` is for one online CPU. `Counts`, what the models rest on and what waits in all buckets, is at
most `samples` and `Twice`, the bucket that has been collected and not yet cleared; and
what a completion has read of a bucket is still there when it writes. Both need that no
other CPU takes a step between: with two, a bucket is cleared between the read and the write of
a completion, whose write brings the collected samples back. Sums over all models and over all
buckets change in one element per step, and what an update makes of the weights
(`TrimmedOK`, `Shrunk`) is never more than it was given.
Both invariants were checked by TLC on the situations of `adios_latency` before they were proved.

### LZ4 decoders

`SeparateBuffers` says that the source does not lie in dst and that `KB64` is 65536,
as in the code. The case left out is decompression in place, where
`lz4_accel_in_place` is a counterexample. `DecInv` = `SeparateBuffers`, `Typed`,
`Bounded`, `Margin`: every source, capacity, prefix and dictionary is covered, and `Margin` says for
each label how far the cursors are from the ends of the buffers, which is what makes the wild copies of the
next label stay inside. `AccelInv`, in the same module, adds `AsmMargin` for the NEON loop: at each
hand-over, from the assembly to the C loop, what `Margin` asks of `start` or
`safe` holds again.

### LZ4 compressor

`EngineInv` = `Typed`, `RoomLeft`, and while a call runs `Accepted` and `InSource`; after it,
`FillsUp`. `RoomLeft` gives the room in dst at each label. Where output is limited
it comes from the checks of the code; where it is not (`notLimited`, dst of at least
`LZ4_compressBound` bytes) it is a count: after a sequence, op is at most
`Bound(n) = n + n \div 255` for the n bytes taken so far, since the four bytes that any
match has pay for offset, token and the rounding of two lengths. `SessionInv`
adds what the callers guarantee between calls: the buffers are in memory, and the history a
stream refers to is. `RequestsAssumption` of `LZ4OneShot` and `SessionsAssumption` of
`LZ4Session` state the callers' duties, and TLC evaluates them. `HashesInSlots`, that a hash is
below the table's size, is a hypothesis of the theorems rather than an
assumption: `LZ4_hash4` and `LZ4_hash5` shift the product right to the table's
width, and TLC cannot enumerate the words.

`InWindow` is what the window needs on top. Between calls it is `StateSound`: an entry of the
table is zero or the index of a byte the state has seen, with three more after it, and an
attached dictionary (`DictSound`) has its indexes below `KB64`. Within a call it adds

* `Arguments`: which table goes with which dictionary, and where indexes start;
* `TableSound`: `InReach`, that an entry from before the history is ruled out by one of
  the means the code has (`small`, the dictionary's own table, or a distance of 64 KB
  between two texts); `OneSide`, that four bytes from an entry on do not cross the start of the
  source; and `InHash`, which a call that fills dst relies on when it takes entries back;
* `Entries`: how far ahead entries may be at each label. After a match was cut short, or while one
  is encoded that a catch-up has moved back, the table holds positions beyond `ip`:
  `Pending` says that the match goes on at least that far, so that the search resumes after them.

Whether a call's arguments meet this depends on the memory: `Placed` says where the history of
a stream is (`Home`: at the end of what was sent, in the safe place, or in the dictionary) and that
the next block comes behind it, in another half of the buffer, or in front of it, where
`WithoutOverlap` cuts off what it overwrites; and `BlockSeen` that a block which becomes the
history has been counted. `SessionsAssumption` states what the callers owe: a buffer that is used again
has room for two of the largest blocks, and `LZ4_compress_forceExtDict` is for blocks one after the other.

`ForcedNotEmpty`, no empty block for `LZ4_compress_forceExtDict`, is needed. The function
(`lz4.c` 2104, a hidden one for tests) always takes the history for an external dictionary. After
an empty block that history is of no bytes and begins where the next block does: `lowLimit ==
dictionary` (1306) then holds of matches in the source too, `assert(dictEnd > match)` (1309)
fails, and where assertions are off the match counts for its first four bytes only, although the
catch-up has moved its start back by more; the table then has positions ahead of `ip`, and a sequence
with offset 0 can be written. TLC finds such a block of 33 bytes, after an empty one, when it
is given its contents. `lz4_stream` has an empty block in a forced session, but none
of its contents meets this. No other function leaves such a history: `LZ4_compress_fast_continue` drops
a dictionary this small.

`CompressorTyped` follows with `Written`: out is bytes, and while a match is encoded the
token has room for its length code; that an offset fits two bytes is a consequence of the window.

### LZ4 high compression

`HashesInTable`, that the two hashes are below the sizes of their tables, is again a hypothesis.
The theorems are for every level, every text and capacity, every window, price table of 20 to 4096 entries and
limit of the indexes, and for sessions that meet `HCSessionAssumption` of `LZ4HCSession`: memory
is bytes, the rest numbers. They follow from one invariant, `SessionInv` = `HCInv` and `SessionOK`.
TLC checked both parts on the run `lz4_hc` before they were proved.

* `Typed`, with `StateOK` of the state: the segments of the history are in order, and where the
  next position to insert, `nextToUpdate`, is: in the prefix, at its end at most. That is
  `InsertsInPrefix`, and it is kept by `LZ4HC_Insert`, by the loops of `LZ4MID_fillHTable`, by an external dictionary,
  an attached one, a reset, a saved history and indexes that start over. The loops are folds,
  which are taken as recursive functions here, as in `FoldType`: the set that the step maps to itself holds the result.
* `RoomLeft`, as in the fast compressor: with `notLimited`, op is at most `Bound(n)` for
  the n bytes taken, because every match that is encoded has four bytes. Here this is the hard part: a parser
  finds up to three matches that overlap, shortens them, moves them and encodes them later.
* `SearchOK` says of a running search, by what it is for, where it may begin, that what it has found is
  between `low` and `matchlimit`, and that a match longer than the one it is to beat has at least four bytes.
  The pattern analysis claims a length it has not compared; it is bounded by the run in the source.
* `ChainOK` says how the matches lie at each label of `LZ4HC_compress_hashChain`. While a second match is
  searched, the first one begins where the remembered one (`m0`) does or at most two bytes behind it, and has
  five bytes if it is behind. While a third one is searched, the second one does not begin before the first one and
  ends at least eight bytes after the first one begins; it begins inside the first one or
  at its end, or it begins one byte behind the end and has six bytes. When a third one is found, the first two
  begin at least four bytes apart. These are what leaves four bytes to each match when `BestLength` cuts
  the first one, `AfterMatch` moves the second one, or `SecondOrThird` decides that too
  little of it is left.
* `PlanOK` says what the price table holds: every position up to the last one that was reached, and three
  more, lies in it; each is reached by a literal, or by a match of at least four bytes that ends within the
  source, from an earlier position. The path read backwards (`PathLeads`) is then a list of
  matches one after the other from `ip` on, each of one byte, a literal, or of at least four.
* `Filled`: `FillsUp` after a call. The last match is shortened (`LastMatchOK`) and the last literals are cut by
  the same arithmetic as in the fast compressor.
* `SessionOK`: between calls, where the buffers, the prefix and the block that is about to be compressed are.

### Only model-checked

* Liveness: `EveryRequestLeaves`, under the fairness above.
* `PredictionBounded` of `AdiosLatency`: a base is a quotient of two sums from which trimming and
  shrinking have taken with different roundings, and a slope depends on where single
  samples lie; what bounds them is an invariant about each sample behind a sum,
  which the code does not keep.
* `SyncFifo` when bios merge into queued requests.
* What is compared with `LZ4DecodeRef`, a recursive operator: `AgreesWithReference`,
  `RefusesTooSmall`, `PartialIsPrefix`; `ResumesOnSequence`; and `RoundTrip`.
* `HistoryShared` and `HCHistoryShared`, which compare what two machines hold after a block was decoded.
* Of the high compression mode: `CandidatesInHistory`, `FoundIsMatch` and `MidIsMatch`. They are about what the entries of the
  tables and the distances of the chains are worth: which text each of them is from, and, where the
  pattern analysis skips, that bytes nobody compared are equal. `HCInv` needs none of it.

## Not modelled

* That a sample is used in the end: `SamplesHaveTimer` says that somebody will collect it, a timer
  that is pending or a CPU on its way; that these come to an end is the kernel's part.
* The width of the 64-bit sums and products of latencies and weights; that of `in_flight_rqs` is.
* The attributes that store a bounded number, and `show` functions.
* `patches/adios_ioscheduler_6.1.patch`: the same scheduler for other interfaces.
* The scripts: sequential rewriting of files whose content is not in the repository.
* The workflows: executed by a hosted service.
* Of the streams: `LZ4_decompress_fast_continue` and `_fast_usingDict`, which the
  plain decoder of `LZ4DecodeRef` stands for, and creation and release of the objects.
* Acceleration below 1 in `LZ4_compress_destSize_extState`, which an assertion of
  `LZ4_compress_generic_validated` makes the caller's duty to avoid.
* Of the high compression mode: the deprecated names for the functions above, creation
  and release, and `LZ4_compress_HC_extStateHC`'s checks of alignment.
* One arrangement of buffers, left out of the sessions: an attached dictionary, a saved
  history shorter than what precedes it (`LZ4_saveDictHC`, `lz4hc.c` 2220-2260), and the
  next block directly after the safe buffer. The saved bytes then follow the
  dictionary in the compressor's indexes, though not in the receiver's history, and
  `HCHistoryShared` does not hold; when the block is elsewhere the dictionary is
  dropped, and the run `lz4_hc` covers that.
* BBRv3, HMBIRD, Re-Kernel and the small fixes: patches carried from elsewhere, of
  which only the difference to a kernel that is not here is known.

## Plan

1. Theorems: `CandidatesInHistory` of the high compression mode, by an invariant like `TableSound`, but for
   tables that two parsers fill in two ways.
2. An abstract queue that `AdiosSched` implements: requests are accepted, wait, and leave once.
3. `scripts/LZ4-Upgrade.sh`: that a second application changes nothing.
