---------------------------- MODULE AdiosLatency ----------------------------
(***************************************************************************)
(* The latency models of ADIOS (patches/adios_ioscheduler_6.6.patch, 179   *)
(* to 256, 353 to 698 and 1422 to 1480): completions measure latencies     *)
(* and put them into buckets of their CPU; an update, by a timer or by the *)
(* first sample of a model, collects the buckets of all CPUs in the ones   *)
(* of ad->aggr_buckets and makes a base and a slope of them.               *)
(*                                                                         *)
(* The buckets of a CPU are written by that CPU with its interrupts off,   *)
(* and read and cleared by whichever CPU updates, without a common lock:   *)
(* each read and each write of them is a step.  The 64 buckets of a CPU    *)
(* are read in one step, as are last_completed_time and its position, and  *)
(* an update that holds what it collected is one step too.  An interrupt   *)
(* comes on an idle CPU, so not between two models of the timer callback.  *)
(* AdiosSched knows of a model only its base, which it lets change freely. *)
(***************************************************************************)
EXTENDS Integers, Sequences, FiniteSets, FiniteSetsExt, Functions, Bags

CONSTANTS
  CPUs,
  Setups,           \* the situations considered: the CPUs on which completions and the timer
                    \* run, whether the disk is rotational, the kinds of requests ([op, size,
                    \* pos]), the models sysfs writes to, and the bounds: the times of the
                    \* clock, how many requests, writes to sysfs, allocations that fail
  Loads,            \* the values sysfs may load: [base, slope]
  LatencyLimit,     \* lat_model_latency_limit
  LM_SAMPLES_THRESHOLD,
  LM_INTERVAL_THRESHOLD,
  ShrinkCount,      \* 1000 * lm_shrink_at_kreqs
  ShrinkBytes,      \* 0x40000000 * lm_shrink_at_gbytes
  Resist,           \* lm_shrink_resist
  NoOne

OpTypes == 0..3     \* enum adios_optype
ADIOS_OTHER == 3

ASSUME LatencyAssumption ==
  /\ \A s \in Setups : /\ s.online \in (SUBSET CPUs) \ {{}} /\ s.rotational \in BOOLEAN
                       /\ s.stored \subseteq OpTypes \ {ADIOS_OTHER}
                       /\ s.kinds \subseteq [op : OpTypes, size : Nat \ {0}, pos : Nat]
                       /\ s.times \subseteq Nat \ {0}
                       /\ s.requests \in Nat /\ s.stores \in Nat /\ s.failures \in Nat
  /\ Loads \subseteq [base : Nat, slope : Nat]
  /\ Resist \in 1..3 /\ NoOne \notin CPUs /\ IsFiniteSet(CPUs)

VARIABLES
  setup,                \* the current one
  now,                  \* ktime and jiffies
  inFlight,             \* the bag of the requests the driver has
  last_completed_time, last_completed_pos,
  params,               \* latency_model[o].params
  pcpu_buckets,         \* of each model, on each CPU
  aggr_buckets,         \* ad->aggr_buckets: one for all models
  update_lock,          \* of each model: its owner
  timer,                \* update_timer is pending
  pc, local,            \* where a CPU is, and its variables
  store,                \* what a write to sysfs has yet to do
  requests, stores, failures,  \* what is left of the bounds
  measured,             \* of each model: the latencies of its small samples, and the bases loaded
  steepest,             \* the latency per KiB of the steepest large sample, or slope loaded
  samples               \* how many small samples there were, by weight, and bases loaded

deviceVars == <<now, requests, inFlight, last_completed_time, last_completed_pos>>
modelVars  == <<params, pcpu_buckets, aggr_buckets, update_lock>>
sysfsVars  == <<store, stores, failures>>
ghosts     == <<measured, steepest, samples>>
online     == setup.online
vars == <<setup, deviceVars, modelVars, timer, pc, local, sysfsVars, ghosts>>

LM_BLOCK_SIZE_THRESHOLD == 4096
LM_LAT_BUCKET_COUNT     == 64
LM_OUTLIER_PERCENTILE   == 99

CeilDiv(a, b) == (a + b - 1) \div b

---------------------------------------------------------------------------
(* Buckets: those that are not all zero, by their index.                   *)

Zero == [weight |-> 0, latency |-> 0, bsize |-> 0]
NoBuckets == [small |-> <<>>, large |-> <<>>]

Bucket(f, i) == IF i \in DOMAIN f THEN f[i] ELSE Zero
WithBucket(f, i, b) == [j \in DOMAIN f \cup {i} |-> IF j = i THEN b ELSE f[j]]

Plus(a, b) == [weight |-> a.weight + b.weight, latency |-> a.latency + b.latency,
               bsize |-> a.bsize + b.bsize]

\* f and the buckets of g that have a weight.
Aggregated(f, g) ==
  LET weighty == {i \in DOMAIN g : g[i].weight > 0}
  IN  [i \in DOMAIN f \cup weighty |->
         IF i \in weighty THEN Plus(Bucket(f, i), g[i]) ELSE f[i]]

\* What the buckets S of f hold.
SumOf(f, field, S) == SumFunctionOnSet([i \in DOMAIN f |-> f[i][field]], S)

\* lm_count_small_entries, lm_count_large_entries
Weight(f) == SumOf(f, "weight", DOMAIN f)

\* The bucket of a latency, by its ratio to the predicted one.
lm_input_bucket_index(latency, predicted) ==
  (IF latency < predicted * 2 THEN (latency * 20) \div predicted
   ELSE IF latency < predicted * 5 THEN (latency * 10) \div predicted + 20
   ELSE (latency * 3) \div predicted + 40) % 256   \* u8

\* Faulty variant: latencies far from the prediction have buckets of their own.
BucketIndex_Free(latency, predicted) == lm_input_bucket_index(latency, predicted)

BucketIndex(latency, predicted) ==
  Min({lm_input_bucket_index(latency, predicted), LM_LAT_BUCKET_COUNT - 1})

---------------------------------------------------------------------------
(* The values of a model.                                                  *)

NewParams == [base |-> 0, slope |-> 0, small_sum_delay |-> 0, small_count |-> 0,
              large_sum_delay |-> 0, large_sum_bsize |-> 0, last_update |-> 1]

latency_model_predict(o, size) ==
  params[o].base + (IF size > LM_BLOCK_SIZE_THRESHOLD
                    THEN params[o].slope * CeilDiv(size - LM_BLOCK_SIZE_THRESHOLD, 1024) ELSE 0)

\* Of the buckets f in the order of their indexes, the first ones up to the
\* threshold, and the share of the last of these: the sum of all of them.
Trimmed(f, all) ==
  LET threshold == (Weight(f) * (IF all THEN 100 ELSE LM_OUTLIER_PERCENTILE)) \div 100
      cumulative(i) == SumOf(f, "weight", {j \in DOMAIN f : j <= i})
      last == Min({i \in DOMAIN f \cup {0} : cumulative(i) >= threshold})
      below == {j \in DOMAIN f : j < last}
      b == Bucket(f, last)
      remaining == threshold - (cumulative(last) - b.weight)
      share(x) == IF b.weight > 0 THEN (x * remaining) \div b.weight ELSE 0
  IN  [weight  |-> SumOf(f, "weight", below) + share(b.weight),
       latency |-> SumOf(f, "latency", below) + share(b.latency),
       bsize   |-> SumOf(f, "bsize", below) + share(b.bsize)]

\* x without a part of it, once the model is large.
Shrunk(x) == x - (x \div 2 ^ Resist)

\* Faulty variant: only the number of samples shrinks.
ShrunkSmall_CountOnly(p) ==
  IF p.small_count >= ShrinkCount /\ p.small_count \div 2 ^ Resist > 0
  THEN [p EXCEPT !.small_count = Shrunk(@)] ELSE p

ShrunkSmall(p) ==
  IF p.small_count >= ShrinkCount /\ p.small_count \div 2 ^ Resist > 0
  THEN [p EXCEPT !.small_sum_delay = Shrunk(@), !.small_count = Shrunk(@)] ELSE p

ShrunkLarge(p) ==
  IF p.large_sum_bsize >= ShrinkBytes /\ p.large_sum_bsize \div 2 ^ Resist > 0
  THEN [p EXCEPT !.large_sum_delay = Shrunk(@), !.large_sum_bsize = Shrunk(@)] ELSE p

\* lm_update_small_buckets, and the base made of its result.
lm_update_small_buckets(p, f) ==
  LET t == Trimmed(f, p.base = 0)
      q == [ShrunkSmall(p) EXCEPT !.small_sum_delay = @ + t.latency, !.small_count = @ + t.weight]
  IN  IF t.weight = 0 THEN ShrunkSmall(p)
      ELSE [q EXCEPT !.base = q.small_sum_delay \div q.small_count]

\* lm_update_large_buckets, and the slope.  One base is subtracted, however
\* many samples there are.
lm_update_large_buckets(p, f) ==
  LET t == Trimmed(f, p.slope = 0)
      q == [ShrunkLarge(p) EXCEPT !.large_sum_delay = @ + t.latency - (IF t.latency > p.base THEN p.base ELSE 0),
                                  !.large_sum_bsize = @ + t.bsize]
  IN  IF t.weight = 0 THEN p
      ELSE [q EXCEPT !.slope = IF q.large_sum_bsize = 0 THEN @
                               ELSE q.large_sum_delay \div CeilDiv(q.large_sum_bsize, 1024)]

\* What latency_model_update makes of p and of the aggregated buckets f.
Elapsed(p) == p.base = 0 \/ p.last_update + LM_INTERVAL_THRESHOLD <= now
SmallDue(p, f) == Weight(f.small) > 0 /\ (Elapsed(p) \/ Weight(f.small) >= LM_SAMPLES_THRESHOLD)
LargeDue(p, f) ==
  Weight(f.large) > 0 /\ (Elapsed(p) \/ Weight(f.large) >= LM_SAMPLES_THRESHOLD \/ p.slope = 0)

\* The large buckets are trimmed before the new base is made: it is the old
\* one they are relieved of.
UpdatedParams(p, f) ==
  LET small == SmallDue(p, f) /\ Trimmed(f.small, p.base = 0).weight > 0
      large == LargeDue(p, f) /\ Trimmed(f.large, p.slope = 0).weight > 0
      q == IF SmallDue(p, f) THEN lm_update_small_buckets(p, f.small) ELSE p
      r == IF LargeDue(p, f) THEN lm_update_large_buckets([q EXCEPT !.base = p.base], f.large) ELSE q
  IN  [r EXCEPT !.base = q.base,
                !.last_update = IF small \/ large \/ Elapsed(p) THEN now ELSE @]

---------------------------------------------------------------------------
(* Requests, and their completion on a CPU.                                *)

NoRequest == [kind |-> NoOne, start |-> 0, pred |-> 0]

NoLocal == [rq |-> NoRequest, now |-> 0, count |-> 0, latency |-> 0, weight |-> 0, index |-> 0,
            old |-> Zero, models |-> <<>>, left |-> {}, timer |-> FALSE]

\* Where CPU c goes, with its variables as in l.
To(c, step, l) == pc' = [pc EXCEPT ![c] = step] /\ local' = [local EXCEPT ![c] = l]
Return(c) == To(c, "idle", NoLocal)

\* Interrupts have precedence over the code that inserts and that stores.
SomeIdle == \E c \in online : pc[c] = "idle"

\* A request is inserted, and given to the driver at once.
insert_request(k) ==
  /\ SomeIdle /\ requests > 0 /\ requests' = requests - 1
  /\ inFlight' = inFlight (+) SetToBag({[kind |-> k, start |-> now, pred |-> latency_model_predict(k.op, k.size)]})
  /\ UNCHANGED <<setup, now, last_completed_time, last_completed_pos, modelVars, timer, pc, local,
                 sysfsVars, ghosts>>

\* adios_completed_request up to the early return for other operations.
adios_completed_request(c, r) ==
  /\ pc[c] = "idle"
  /\ inFlight' = inFlight (-) SetToBag({r})
  /\ IF r.kind.op = ADIOS_OTHER
     THEN /\ last_completed_pos' = IF setup.rotational THEN 0 ELSE last_completed_pos
          /\ UNCHANGED <<pc, local>>
     ELSE /\ To(c, "measure", [NoLocal EXCEPT !.rq = r, !.now = now,
                                              !.count = BagCardinality(inFlight) - 1])
          /\ UNCHANGED last_completed_pos
  /\ UNCHANGED <<setup, now, requests, last_completed_time, modelVars, timer, sysfsVars, ghosts>>

\* 65 - __builtin_clzll(distance): 1 for a distance of 0 too, on arm64.
SeekWeight(distance) == 1 + Cardinality({k \in 0..63 : \A j \in 0..k : 2 ^ j <= distance})

\* The latency, from the last completion on or from the request's start.
Measure(c) ==
  /\ pc[c] = "measure"
  /\ LET l   == local[c]
         lct == IF last_completed_time # 0 THEN last_completed_time ELSE l.rq.start
         k   == l.rq.kind
         d   == IF k.pos >= last_completed_pos THEN k.pos - last_completed_pos
                ELSE last_completed_pos - k.pos
     IN  /\ last_completed_time' = IF l.count > 0 THEN l.now ELSE 0
         /\ IF l.now < lct \/ l.now - lct > LatencyLimit
            THEN Return(c) /\ UNCHANGED last_completed_pos
            ELSE /\ last_completed_pos' = IF setup.rotational THEN k.pos + k.size \div 512
                                          ELSE last_completed_pos
                 /\ To(c, "input", [NoLocal EXCEPT
                      !.rq = [l.rq EXCEPT !.start = 0], !.latency = l.now - lct,
                      !.weight = IF setup.rotational /\ last_completed_pos > 0 THEN SeekWeight(d) ELSE 1])
  /\ UNCHANGED <<setup, now, requests, inFlight, modelVars, timer, sysfsVars, ghosts>>

\* latency_model_input: the bucket is chosen, and read.
latency_model_input(c) ==
  /\ pc[c] = "input"
  /\ LET l    == local[c]
         o    == l.rq.kind.op
         base == params[o].base
     IN  IF l.rq.kind.size <= LM_BLOCK_SIZE_THRESHOLD
         THEN LET i == BucketIndex(l.latency, IF base = 0 THEN 1 ELSE base)
              IN  To(c, "weight", [l EXCEPT !.index = i, !.old = Bucket(pcpu_buckets[o][c].small, i),
                                            !.models = IF base = 0 THEN <<o>> ELSE <<>>])
         ELSE IF base = 0 \/ l.rq.pred = 0 THEN To(c, "rearm", NoLocal)
         ELSE LET i == BucketIndex(l.latency, l.rq.pred)
              IN  To(c, "weight", [l EXCEPT !.index = i, !.old = Bucket(pcpu_buckets[o][c].large, i)])
  /\ UNCHANGED <<setup, deviceVars, modelVars, timer, sysfsVars, ghosts>>

Part(k) == IF k.size <= LM_BLOCK_SIZE_THRESHOLD THEN "small" ELSE "large"

\* The bucket CPU c has chosen.
Own(c) == Bucket(pcpu_buckets[local[c].rq.kind.op][c][Part(local[c].rq.kind)], local[c].index)

SetBucket(c, b) ==
  pcpu_buckets' = [pcpu_buckets EXCEPT ![local[c].rq.kind.op][c][Part(local[c].rq.kind)] =
                     WithBucket(@, local[c].index, b)]

\* sum_of_weights is written; what was read of the bucket may be out of date.
AddWeight(c) ==
  /\ pc[c] = "weight"
  /\ LET l == local[c]
     IN  /\ SetBucket(c, [Own(c) EXCEPT !.weight = l.old.weight + l.weight])
         /\ IF Part(l.rq.kind) = "small"
            THEN /\ measured' = [measured EXCEPT ![l.rq.kind.op] = @ \cup {l.latency}]
                 /\ samples' = samples + l.weight
                 /\ UNCHANGED steepest
            ELSE /\ steepest' = Max({steepest, (l.latency * 1024) \div l.rq.kind.size})
                 /\ UNCHANGED <<measured, samples>>
         /\ To(c, "latency", l)
  /\ UNCHANGED <<setup, deviceVars, params, aggr_buckets, update_lock, timer, sysfsVars>>

\* weighted_sum_latency and weighted_sum_block_size are written.
AddLatency(c) ==
  /\ pc[c] = "latency"
  /\ LET l == local[c]
     IN  /\ SetBucket(c, [Own(c) EXCEPT
              !.latency = l.old.latency + l.latency * l.weight,
              !.bsize = IF Part(l.rq.kind) = "large" THEN l.old.bsize + l.rq.kind.size * l.weight ELSE 0])
         /\ IF l.models # <<>> THEN To(c, "lock", [NoLocal EXCEPT !.models = l.models])
            ELSE To(c, "rearm", NoLocal)
  /\ UNCHANGED <<setup, deviceVars, params, aggr_buckets, update_lock, timer, sysfsVars, ghosts>>

\* Faulty variant: an update that is going on is thought to suffice.
timer_reduce_Skips(c) ==
  /\ pc[c] = "rearm"
  /\ timer' = (timer \/ \A d \in online : ~local[d].timer)
  /\ Return(c)
  /\ UNCHANGED <<setup, deviceVars, modelVars, sysfsVars, ghosts>>

\* The end of adios_completed_request.
timer_reduce(c) ==
  /\ pc[c] = "rearm"
  /\ timer' = TRUE
  /\ Return(c)
  /\ UNCHANGED <<setup, deviceVars, modelVars, sysfsVars, ghosts>>

---------------------------------------------------------------------------
(* latency_model_update of the first model of local[c].models.             *)

update_timer_callback(c) ==
  /\ pc[c] = "idle" /\ timer /\ \A d \in online : ~local[d].timer
  /\ timer' = FALSE
  /\ To(c, "lock", [NoLocal EXCEPT !.models = <<0, 1, 2, 3>>, !.timer = TRUE])
  /\ UNCHANGED <<setup, deviceVars, modelVars, sysfsVars, ghosts>>

\* The next model, or the end of the completion or of the callback.
NextModel(c) ==
  LET l == local[c]
  IN  IF Len(l.models) > 1 THEN To(c, "lock", [l EXCEPT !.models = Tail(@)])
      ELSE IF l.timer THEN Return(c)
      ELSE To(c, "rearm", NoLocal)

\* update_lock is taken, and the new parameters are allocated, or not.  The
\* buckets of the CPUs without completions are empty.
LockModel(c) ==
  /\ pc[c] = "lock"
  /\ LET o == Head(local[c].models)
     IN  /\ update_lock[o] = NoOne
         /\ \/ /\ update_lock' = [update_lock EXCEPT ![o] = c]
               /\ To(c, "collect", [local[c] EXCEPT !.left = online])
               /\ UNCHANGED failures
            \/ /\ failures > 0 /\ failures' = failures - 1
               /\ NextModel(c)
               /\ UNCHANGED update_lock
  /\ UNCHANGED <<setup, deviceVars, params, pcpu_buckets, aggr_buckets, timer, store, stores, ghosts>>

\* The CPU whose buckets c is collecting.
Collected(c) == CHOOSE d \in local[c].left : TRUE

CollectBuckets(c) ==
  /\ pc[c] = "collect"
  /\ LET b == pcpu_buckets[Head(local[c].models)][Collected(c)]
     IN  aggr_buckets' = [small |-> Aggregated(aggr_buckets.small, b.small),
                          large |-> Aggregated(aggr_buckets.large, b.large)]
  /\ To(c, "reset", local[c])
  /\ UNCHANGED <<setup, deviceVars, params, pcpu_buckets, update_lock, timer, sysfsVars, ghosts>>

ResetBuckets(c) ==
  /\ pc[c] = "reset"
  /\ LET left == local[c].left \ {Collected(c)}
     IN  To(c, IF left = {} THEN "process" ELSE "collect", [local[c] EXCEPT !.left = left])
  /\ pcpu_buckets' = [pcpu_buckets EXCEPT ![Head(local[c].models)][Collected(c)] = NoBuckets]
  /\ UNCHANGED <<setup, deviceVars, params, aggr_buckets, update_lock, timer, sysfsVars, ghosts>>

\* Faulty variant: small samples are kept for the next update.
Unprocessed_Small(p, f) == [small |-> f.small, large |-> IF LargeDue(p, f) THEN <<>> ELSE f.large]

\* What is left of the aggregated buckets f once p is updated.
Unprocessed(p, f) ==
  [small |-> IF SmallDue(p, f) THEN <<>> ELSE f.small, large |-> IF LargeDue(p, f) THEN <<>> ELSE f.large]

UpdateModel(c) ==
  /\ pc[c] = "process"
  /\ LET o == Head(local[c].models)
     IN  /\ params' = [params EXCEPT ![o] = UpdatedParams(@, aggr_buckets)]
         /\ aggr_buckets' = Unprocessed(params[o], aggr_buckets)
         /\ update_lock' = [update_lock EXCEPT ![o] = NoOne]
  /\ NextModel(c)
  /\ UNCHANGED <<setup, deviceVars, pcpu_buckets, timer, sysfsVars, ghosts>>

---------------------------------------------------------------------------
(* Writes to sysfs.  sysfs_lock lets one at a time through (external).     *)

NoStore == [todo |-> <<>>, clear |-> FALSE]
Set(o, v) == [op |-> o, base |-> v.base, slope |-> v.slope]
ZeroLoad == [base |-> 0, slope |-> 0]

BeginStore(s) == SomeIdle /\ store = NoStore /\ stores > 0 /\ stores' = stores - 1 /\ store' = s

\* "1", or the same values for reads, writes and discards.
adios_reset_lat_model_store ==
  \/ BeginStore([todo |-> [i \in 1..4 |-> Set(i - 1, ZeroLoad)], clear |-> TRUE])
  \/ \E v \in Loads : BeginStore([todo |-> [i \in 1..3 |-> Set(i - 1, v)], clear |-> TRUE])

adios_lat_model_store(o) == \E v \in Loads : BeginStore([todo |-> <<Set(o, v)>>, clear |-> TRUE])

\* A new target; ad->aggr_buckets is left as it is.
adios_lat_target_store(o) == BeginStore([todo |-> <<Set(o, ZeroLoad)>>, clear |-> FALSE])

Storing ==
  /\ \/ adios_reset_lat_model_store
     \/ \E o \in setup.stored : adios_lat_model_store(o) \/ adios_lat_target_store(o)
  /\ UNCHANGED <<setup, deviceVars, modelVars, timer, pc, local, failures, ghosts>>

sideload_latency_model ==
  /\ SomeIdle /\ store.todo # <<>>
  /\ store' = [store EXCEPT !.todo = Tail(@)]
  /\ LET s == Head(store.todo)
     IN  \/ /\ failures > 0 /\ failures' = failures - 1
            /\ UNCHANGED <<modelVars, ghosts>>
         \/ /\ update_lock[s.op] = NoOne
            /\ params' = [params EXCEPT ![s.op] =
                 [base |-> s.base, small_sum_delay |-> s.base, small_count |-> 1,
                  slope |-> s.slope, large_sum_delay |-> s.slope, large_sum_bsize |-> 1024,
                  last_update |-> now]]
            /\ pcpu_buckets' = [pcpu_buckets EXCEPT ![s.op] = [c \in CPUs |-> NoBuckets]]
            /\ measured' = [measured EXCEPT ![s.op] = @ \cup {s.base}] /\ samples' = samples + 1
            /\ steepest' = Max({steepest, s.slope})
            /\ UNCHANGED <<aggr_buckets, update_lock, failures>>
  /\ UNCHANGED <<setup, deviceVars, timer, pc, local, stores>>

\* reset_buckets(ad->aggr_buckets)
ClearAggregated ==
  /\ SomeIdle /\ store.todo = <<>> /\ store.clear
  /\ store' = NoStore
  /\ aggr_buckets' = NoBuckets
  /\ UNCHANGED <<setup, deviceVars, params, pcpu_buckets, update_lock, timer, pc, local, stores,
                 failures, ghosts>>

---------------------------------------------------------------------------
\* An interrupt takes no time while no other CPU has any.
Tick(t) == SomeIdle /\ t > now /\ now' = t
           /\ UNCHANGED <<setup, requests, inFlight, last_completed_time, last_completed_pos, modelVars, timer, pc,
                          local, sysfsVars, ghosts>>

Init ==
  /\ setup \in Setups
  /\ now = 1 /\ inFlight = EmptyBag /\ last_completed_time = 0 /\ last_completed_pos = 0
  /\ params = [o \in OpTypes |-> NewParams]
  /\ pcpu_buckets = [o \in OpTypes |-> [c \in CPUs |-> NoBuckets]]
  /\ aggr_buckets = NoBuckets
  /\ update_lock = [o \in OpTypes |-> NoOne]
  /\ timer = FALSE
  /\ pc = [c \in CPUs |-> "idle"] /\ local = [c \in CPUs |-> NoLocal]
  /\ store = NoStore
  /\ requests = setup.requests /\ stores = setup.stores /\ failures = setup.failures
  /\ measured = [o \in OpTypes |-> {}] /\ steepest = 0 /\ samples = 0

\* A step of what CPU c has begun.
Running(c) ==
  \/ Measure(c) \/ latency_model_input(c) \/ AddWeight(c) \/ AddLatency(c) \/ timer_reduce(c)
  \/ LockModel(c) \/ CollectBuckets(c) \/ ResetBuckets(c) \/ UpdateModel(c)

Next ==
  \/ \E k \in setup.kinds : insert_request(k)
  \/ \E c \in online : (\E r \in BagToSet(inFlight) : adios_completed_request(c, r)) \/ Running(c)
  \/ \E c \in online : update_timer_callback(c)
  \/ Storing \/ sideload_latency_model \/ ClearAggregated
  \/ \E t \in setup.times : Tick(t)

Spec == Init /\ [][Next]_vars

---------------------------------------------------------------------------
(* Properties.                                                             *)

\* The buckets b are among the 64, and their sums are not negative.
BucketsOK(b) == \A part \in {"small", "large"} :
                  /\ DOMAIN b[part] \subseteq 0..LM_LAT_BUCKET_COUNT - 1
                  /\ \A i \in DOMAIN b[part] : b[part][i] \in [weight : Nat, latency : Nat, bsize : Nat]

\* The types of the variables.  A sum that went below zero, or an index
\* beyond the 64 buckets, would break it.
LatencyTypeOK ==
  /\ now \in setup.times \cup {1}
  /\ last_completed_time \in setup.times \cup {0, 1} /\ last_completed_pos \in Nat
  /\ \A o \in OpTypes : /\ \A f \in DOMAIN params[o] : params[o][f] \in Nat
                        /\ \A c \in CPUs : BucketsOK(pcpu_buckets[o][c])
                        /\ update_lock[o] \in online \cup {NoOne}
  /\ BucketsOK(aggr_buckets)

\* With one CPU, however samples are trimmed, scaled, forgotten and mixed with
\* those of other sizes, or of other models, the base of a model is not above
\* the longest latency of a small sample, or the values loaded, and its slope
\* no steeper than the steepest large sample, or slope loaded.  What is
\* predicted for a large request may well be above every latency measured.
PredictionBounded ==
  Cardinality(online) = 1 =>
    \A o \in OpTypes :
      /\ params[o].base <= Max({0} \cup UNION {measured[p] : p \in OpTypes})
      /\ params[o].slope <= steepest

\* With one CPU, no sample is counted twice: what the models rest on, and what
\* waits in the buckets, is no more than was measured and loaded, except while
\* collected buckets wait to be cleared.
CountedOnce ==
  Cardinality(online) = 1 /\ (\A c \in online : pc[c] # "reset") =>
    SumFunction([o \in OpTypes |-> params[o].small_count]) + Weight(aggr_buckets.small)
      + SumFunction([b \in OpTypes \X CPUs |-> Weight(pcpu_buckets[b[1]][b[2]].small)])
    <= samples

\* The buckets of model o on CPU d hold samples.
Held(o, d) == \E part \in {"small", "large"} :
                \E i \in DOMAIN pcpu_buckets[o][d][part] : pcpu_buckets[o][d][part][i].weight > 0

\* A completion is about to start the timer.
WillRearm == \E c \in online : ~local[c].timer /\ pc[c] \notin {"idle", "measure", "input", "weight"}

\* The callback runs, and will come to the buckets of model o on CPU d.
WillCollect(o, d) ==
  \E c \in online : /\ local[c].timer
                    /\ LET l == local[c]
                       IN  \/ o \in Range(Tail(l.models))
                           \/ o = Head(l.models) /\ (pc[c] = "lock" \/ d \in l.left)

\* No sample is left behind: while a CPU has samples, the timer is pending, or
\* somebody is about to start it or to collect them, however completions,
\* updates and stores interleave; unless an update gave up for lack of memory.
SamplesHaveTimer ==
  failures = setup.failures =>
    \A o \in OpTypes, d \in online : Held(o, d) => timer \/ WillRearm \/ WillCollect(o, d)

\* With one CPU and no stores, the base of a model lies among the latencies of
\* the model's own small requests.
BaseOfOwnSamples ==
  Cardinality(online) = 1 /\ setup.stores = 0 =>
    \A o \in OpTypes : params[o].base # 0 =>
      \E a, b \in measured[o] : params[o].base \in a..b
=============================================================================
