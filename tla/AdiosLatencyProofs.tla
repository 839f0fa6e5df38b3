------------------------ MODULE AdiosLatencyProofs ------------------------
(***************************************************************************)
(* Proofs about AdiosLatency: no sample is left behind, the values of the  *)
(* models and of the buckets have their types, and no sample is counted    *)
(* twice.                                                                  *)
(*                                                                         *)
(* TInv: a completion that has put a sample into a bucket will start the   *)
(* timer, and a callback that has taken the timer down will come to every  *)
(* bucket.  The invariant says where a CPU that does either is, and that   *)
(* it does not leave a model before it has collected the buckets of every  *)
(* CPU.                                                                    *)
(*                                                                         *)
(* VInv: what every variable holds, and what a CPU needs of its own where  *)
(* it is.  It rests on what sums of buckets are, and on trimming samples   *)
(* never making more of them.                                              *)
(*                                                                         *)
(* CInv: with one CPU, what models and buckets count is no more than was   *)
(* measured and loaded and what the CPU has collected and not yet cleared, *)
(* and a bucket it has read does not change before it is written.          *)
(***************************************************************************)
EXTENDS AdiosLatency, SetSums, TLAPS

\* The labels of an update.
Updating == {"lock", "collect", "reset", "process"}

Fields == DOMAIN NoLocal

\* The variables l of a CPU that is at the given step: a callback is always
\* within the update of a model, and an update has come to all CPUs when it
\* processes what it has.
LocalOK(l, step) ==
  /\ DOMAIN l = Fields
  /\ l.timer \in BOOLEAN
  /\ l.timer => step \in Updating /\ l.models \in Seq(OpTypes) /\ l.models # <<>>
  /\ step = "process" => l.left = {}

LocalsOK ==
  DOMAIN pc = CPUs /\ DOMAIN local = CPUs /\ \A c \in CPUs : LocalOK(local[c], pc[c])

\* The buckets of every model on every CPU.
BucketsThere ==
  DOMAIN pcpu_buckets = OpTypes /\ \A o \in OpTypes : DOMAIN pcpu_buckets[o] = CPUs

\* What a situation says of its bounds.
SetupOK == setup \in Setups /\ failures \in Nat /\ failures <= setup.failures

TInv == LocalsOK /\ BucketsThere /\ SetupOK /\ SamplesHaveTimer

---------------------------------------------------------------------------
(* The variables of a CPU.                                                 *)

\* A CPU that does nothing.
LEMMA NoLocalOK ==
  ASSUME NEW step, step \notin Updating
  PROVE  LocalOK(NoLocal, step) /\ NoLocal.timer = FALSE
BY DEF LocalOK, Fields, NoLocal

\* A CPU that runs no callback, before it processes what it has collected.
LEMMA NoTimerOK ==
  ASSUME NEW l, DOMAIN l = Fields, l.timer = FALSE, NEW step, step # "process"
  PROVE  LocalOK(l, step)
BY DEF LocalOK

\* Other models.
LEMMA WithModels ==
  ASSUME NEW l, DOMAIN l = Fields, NEW m
  PROVE  LET n == [l EXCEPT !.models = m]
         IN  DOMAIN n = Fields /\ n.models = m /\ n.timer = l.timer /\ n.left = l.left
BY DEF Fields, NoLocal

\* Other CPUs left.
LEMMA WithLeft ==
  ASSUME NEW l, DOMAIN l = Fields, NEW m
  PROVE  LET n == [l EXCEPT !.left = m]
         IN  DOMAIN n = Fields /\ n.left = m /\ n.timer = l.timer /\ n.models = l.models
BY DEF Fields, NoLocal

\* A CPU goes on, the others stay where they are.
LEMMA Goes ==
  ASSUME LocalsOK, NEW c \in CPUs, NEW step, NEW l, LocalOK(l, step), To(c, step, l)
  PROVE  /\ LocalsOK' /\ pc'[c] = step /\ local'[c] = l
         /\ \A d \in CPUs \ {c} : pc'[d] = pc[d] /\ local'[d] = local[d]
<1>1. /\ pc' = [pc EXCEPT ![c] = step] /\ local' = [local EXCEPT ![c] = l]
      /\ DOMAIN pc = CPUs /\ DOMAIN local = CPUs
  BY DEF To, LocalsOK
<1>2. /\ DOMAIN pc' = CPUs /\ DOMAIN local' = CPUs /\ pc'[c] = step /\ local'[c] = l
      /\ \A d \in CPUs \ {c} : pc'[d] = pc[d] /\ local'[d] = local[d]
  BY <1>1
<1>3. ASSUME NEW d \in CPUs PROVE LocalOK(local'[d], pc'[d])
  BY <1>2 DEF LocalsOK
<1> QED
  BY <1>2, <1>3 DEF LocalsOK

---------------------------------------------------------------------------
(* Who sees to the samples.                                                *)

\* CPU c is about to start the timer, or in a callback that will come to the
\* buckets of model o on CPU d.
Rearms(c) == ~local[c].timer /\ pc[c] \notin {"idle", "measure", "input", "weight"}
Collects(c, o, d) ==
  /\ local[c].timer
  /\ \/ o \in Range(Tail(local[c].models))
     \/ o = Head(local[c].models) /\ (pc[c] = "lock" \/ d \in local[c].left)

Seen(o, d) == timer \/ \E c \in online : Rearms(c) \/ Collects(c, o, d)

\* The property, by CPU.
LEMMA ByCPU ==
  SamplesHaveTimer <=>
    (failures = setup.failures => \A o \in OpTypes, d \in online : Held(o, d) => Seen(o, d))
BY DEF SamplesHaveTimer, WillRearm, WillCollect, Seen, Rearms, Collects

\* The CPUs of a situation, and the bounds of it.
LEMMA SetupType ==
  ASSUME SetupOK
  PROVE  /\ online \subseteq CPUs /\ setup.failures \in Nat /\ failures \in Nat
         /\ failures <= setup.failures
BY LatencyAssumption DEF SetupOK, online

\* A step of the CPU c: no bucket gains samples, and c sees to what it saw to.
LEMMA StepOfOne ==
  ASSUME TInv, NEW c \in online, setup' = setup, failures' \in Nat, failures' <= failures,
         timer' = timer \/ timer' = TRUE,
         \A d \in CPUs \ {c} : pc'[d] = pc[d] /\ local'[d] = local[d],
         \A o \in OpTypes, d \in online : Held(o, d)' => Held(o, d),
         Rearms(c) => Rearms(c)' \/ timer',
         \A o \in OpTypes, d \in online : Held(o, d)' /\ Collects(c, o, d) => Collects(c, o, d)'
  PROVE  SamplesHaveTimer'
<1> SUFFICES ASSUME failures' = setup.failures, NEW o \in OpTypes, NEW d \in online, Held(o, d)'
             PROVE  Seen(o, d)'
  BY ByCPU DEF online, SamplesHaveTimer, WillRearm, WillCollect, Seen, Rearms, Collects
<1>1. online \subseteq CPUs /\ failures = setup.failures
  BY SetupType DEF TInv
<1>2. Seen(o, d)
  BY <1>1, ByCPU DEF TInv
<1>3. CASE timer
  BY <1>3 DEF Seen
<1>4. CASE \E b \in online : Rearms(b) \/ Collects(b, o, d)
  <2>1. PICK b \in online : Rearms(b) \/ Collects(b, o, d)
    BY <1>4
  <2>2. CASE b = c
    BY <2>1, <2>2 DEF Seen, online
  <2>3. CASE b # c
    <3>1. pc'[b] = pc[b] /\ local'[b] = local[b]
      BY <1>1, <2>3
    <3>2. Rearms(b)' \/ Collects(b, o, d)'
      BY <2>1, <3>1 DEF Rearms, Collects
    <3> QED
      BY <3>2 DEF Seen, online
  <2> QED
    BY <2>2, <2>3
<1> QED
  BY <1>2, <1>3, <1>4 DEF Seen

\* A step of no CPU.
LEMMA StepOfNone ==
  ASSUME TInv, UNCHANGED <<setup, timer, pc, local>>, failures' \in Nat, failures' <= failures,
         \A o \in OpTypes, d \in online : Held(o, d)' => Held(o, d)
  PROVE  SamplesHaveTimer'
<1> SUFFICES ASSUME failures' = setup.failures, NEW o \in OpTypes, NEW d \in online, Held(o, d)'
             PROVE  Seen(o, d)'
  BY ByCPU DEF online, SamplesHaveTimer, WillRearm, WillCollect, Seen, Rearms, Collects
<1>1. failures = setup.failures
  BY SetupType DEF TInv
<1>2. Seen(o, d)
  BY <1>1, ByCPU DEF TInv
<1> QED
  BY <1>2 DEF Seen, Rearms, Collects, online

\* Buckets that were not touched.
LEMMA HeldKept ==
  ASSUME NEW o, NEW d, pcpu_buckets'[o][d] = pcpu_buckets[o][d]
  PROVE  Held(o, d)' => Held(o, d)
BY DEF Held

\* Buckets that were cleared.
LEMMA ClearedNotHeld ==
  ASSUME NEW o, NEW d, pcpu_buckets'[o][d] = NoBuckets
  PROVE  ~Held(o, d)'
BY DEF Held, NoBuckets

\* The bounds are never raised.
LEMMA BoundsKept ==
  ASSUME SetupOK, setup' = setup,
         failures' = failures \/ (failures > 0 /\ failures' = failures - 1)
  PROVE  SetupOK' /\ failures' \in Nat /\ failures' <= failures
BY SetupType DEF SetupOK

---------------------------------------------------------------------------
(* The steps.                                                              *)

\* A request, a write to sysfs, the clock.
LEMMA QuietKeeps ==
  ASSUME TInv, UNCHANGED <<setup, timer, pc, local, failures, pcpu_buckets>>
  PROVE  TInv'
<1>1. SetupOK' /\ failures' \in Nat /\ failures' <= failures
  BY BoundsKept DEF TInv
<1>2. \A o \in OpTypes, d \in online : Held(o, d)' => Held(o, d)
  BY HeldKept
<1>3. SamplesHaveTimer'
  BY <1>1, <1>2, StepOfNone
<1> QED
  BY <1>1, <1>3 DEF TInv, LocalsOK, BucketsThere

\* A value is stored in a model, whose buckets are cleared.
LEMMA SideloadKeeps ==
  ASSUME TInv, sideload_latency_model
  PROVE  TInv'
<1>1. PICK h : h = Head(store.todo).op
  OBVIOUS
<1>2. /\ UNCHANGED <<setup, timer, pc, local>>
      /\ failures' = failures \/ (failures > 0 /\ failures' = failures - 1)
      /\ pcpu_buckets' = pcpu_buckets \/ pcpu_buckets' = [pcpu_buckets EXCEPT ![h] = [c \in CPUs |-> NoBuckets]]
  BY <1>1 DEF sideload_latency_model, modelVars
<1>3. SetupOK' /\ failures' \in Nat /\ failures' <= failures
  BY <1>2, BoundsKept DEF TInv
<1>4. BucketsThere'
  BY <1>2 DEF TInv, BucketsThere
<1>5. ASSUME NEW o \in OpTypes, NEW d \in online PROVE Held(o, d)' => Held(o, d)
  <2>1. d \in CPUs
    BY SetupType DEF TInv
  <2>2. pcpu_buckets'[o][d] = pcpu_buckets[o][d] \/ pcpu_buckets'[o][d] = NoBuckets
    BY <1>2, <2>1 DEF TInv, BucketsThere
  <2> QED
    BY <2>2, HeldKept, ClearedNotHeld
<1>6. SamplesHaveTimer'
  BY <1>2, <1>3, <1>5, StepOfNone
<1> QED
  BY <1>2, <1>3, <1>4, <1>6 DEF TInv, LocalsOK

\* A CPU that has no sample in its buckets yet, and comes to none.
LEMMA BeforeSample ==
  ASSUME TInv, NEW c \in online, pc[c] \in {"idle", "measure", "input"},
         UNCHANGED <<setup, timer, failures, pcpu_buckets>>,
         NEW step, NEW l, LocalOK(l, step), To(c, step, l)
  PROVE  TInv'
<1>1. c \in CPUs /\ LocalsOK /\ BucketsThere /\ SetupOK
  BY SetupType DEF TInv
<1>2. LocalsOK' /\ \A d \in CPUs \ {c} : pc'[d] = pc[d] /\ local'[d] = local[d]
  BY <1>1, Goes
<1>3. ~Rearms(c) /\ ~local[c].timer
  BY <1>1 DEF Rearms, LocalsOK, LocalOK, Updating
<1>4. \A o \in OpTypes, d \in online : Held(o, d)' => Held(o, d)
  BY HeldKept
<1>5. \A o \in OpTypes, d \in online : ~Collects(c, o, d)
  BY <1>3 DEF Collects
<1>6. SetupOK' /\ failures' \in Nat /\ failures' <= failures
  BY <1>1, BoundsKept
<1>7. SamplesHaveTimer'
  BY <1>2, <1>3, <1>4, <1>5, <1>6, StepOfOne
<1> QED
  BY <1>1, <1>2, <1>6, <1>7 DEF TInv, BucketsThere

\* A completion, up to the point where it has a latency.
LEMMA CompletionKeeps ==
  ASSUME TInv, NEW c \in online, NEW r, adios_completed_request(c, r)
  PROVE  TInv'
<1>1. pc[c] = "idle" /\ UNCHANGED <<setup, timer, failures, pcpu_buckets>>
  BY DEF adios_completed_request, modelVars, sysfsVars
<1>2. CASE UNCHANGED <<pc, local>>
  BY <1>1, <1>2, QuietKeeps
<1>3. CASE r.kind.op # ADIOS_OTHER
  <2>1. PICK l : l = [NoLocal EXCEPT !.rq = r, !.now = now, !.count = BagCardinality(inFlight) - 1]
    OBVIOUS
  <2>2. To(c, "measure", l)
    BY <1>3, <2>1 DEF adios_completed_request
  <2>3. LocalOK(l, "measure")
    BY <2>1 DEF LocalOK, Fields, NoLocal, Updating
  <2> QED
    BY <1>1, <2>2, <2>3, BeforeSample
<1> QED
  BY <1>2, <1>3 DEF adios_completed_request

\* The latency.
LEMMA MeasureKeeps ==
  ASSUME TInv, NEW c \in online, Measure(c)
  PROVE  TInv'
<1>1. pc[c] = "measure" /\ UNCHANGED <<setup, timer, failures, pcpu_buckets>>
  BY DEF Measure, modelVars, sysfsVars
<1>2. CASE Return(c)
  BY <1>1, <1>2, NoLocalOK, BeforeSample DEF Return, Updating
<1>3. CASE ~Return(c)
  <2>1. PICK rq, latency, weight :
          To(c, "input", [NoLocal EXCEPT !.rq = rq, !.latency = latency, !.weight = weight])
    BY <1>3 DEF Measure
  <2>2. PICK l : l = [NoLocal EXCEPT !.rq = rq, !.latency = latency, !.weight = weight]
    OBVIOUS
  <2>3. LocalOK(l, "input")
    BY <2>2 DEF LocalOK, Fields, NoLocal, Updating
  <2>4. To(c, "input", l)
    BY <2>1, <2>2
  <2> QED
    BY <1>1, <2>3, <2>4, BeforeSample
<1> QED
  BY <1>2, <1>3

\* The choice of a bucket.
LEMMA InputKeeps ==
  ASSUME TInv, NEW c \in online, latency_model_input(c)
  PROVE  TInv'
<1>1. pc[c] = "input" /\ UNCHANGED <<setup, timer, failures, pcpu_buckets>>
  BY DEF latency_model_input, modelVars, sysfsVars
<1>2. LocalOK(local[c], "input")
  BY <1>1, SetupType DEF TInv, LocalsOK
<1>3. PICK was, small, large, i, j, b, d, m :
        /\ was = local[c]
        /\ small = [was EXCEPT !.index = i, !.old = b, !.models = m]
        /\ large = [was EXCEPT !.index = j, !.old = d]
        /\ \/ To(c, "weight", small)
           \/ To(c, "rearm", NoLocal)
           \/ To(c, "weight", large)
  <2> DEFINE o == local[c].rq.kind.op
             base == params[o].base
             i == BucketIndex(local[c].latency, IF base = 0 THEN 1 ELSE base)
             j == BucketIndex(local[c].latency, local[c].rq.pred)
             b == Bucket(pcpu_buckets[o][c].small, i)
             d == Bucket(pcpu_buckets[o][c].large, j)
             m == IF base = 0 THEN <<o>> ELSE <<>>
  <2>1. \/ To(c, "weight", [local[c] EXCEPT !.index = i, !.old = b, !.models = m])
        \/ To(c, "rearm", NoLocal)
        \/ To(c, "weight", [local[c] EXCEPT !.index = j, !.old = d])
    BY DEF latency_model_input
  <2> HIDE DEF i, j, b, d, m
  <2> QED
    BY <2>1
<1>4. DOMAIN was = Fields /\ was.timer = FALSE
  BY <1>2, <1>3 DEF LocalOK, Updating
<1>5. /\ DOMAIN small = Fields /\ small.timer = FALSE
      /\ DOMAIN large = Fields /\ large.timer = FALSE
  BY <1>3, <1>4 DEF Fields, NoLocal
<1>6. LocalOK(small, "weight") /\ LocalOK(large, "weight")
  BY <1>5 DEF LocalOK
<1>7. LocalOK(NoLocal, "rearm")
  BY NoLocalOK DEF Updating
<1> QED
  BY <1>1, <1>3, <1>6, <1>7, BeforeSample

\* A CPU that is going to start the timer, or does.
LEMMA SampleSeen ==
  ASSUME TInv, NEW c \in online, setup' = setup, SetupOK', BucketsThere',
         NEW step, NEW l, LocalOK(l, step), To(c, step, l),
         timer' \/ (~l.timer /\ step \notin {"idle", "measure", "input", "weight"})
  PROVE  TInv'
<1>1. c \in CPUs /\ LocalsOK
  BY SetupType DEF TInv
<1>2. LocalsOK' /\ pc'[c] = step /\ local'[c] = l
  BY <1>1, Goes
<1>3. timer' \/ Rearms(c)'
  BY <1>2 DEF Rearms
<1>4. online' = online
  BY DEF online
<1>5. \A o \in OpTypes, d \in online : Seen(o, d)'
  BY <1>3, <1>4 DEF Seen
<1>6. SamplesHaveTimer'
  BY <1>4, <1>5 DEF SamplesHaveTimer, WillRearm, WillCollect, Seen, Rearms, Collects
<1> QED
  BY <1>2, <1>6 DEF TInv

\* The buckets stay there when one of them is written.
LEMMA BucketWritten ==
  ASSUME TInv, NEW c, NEW b, SetBucket(c, b)
  PROVE  BucketsThere'
<1>1. PICK h, part, new :
        pcpu_buckets' = [pcpu_buckets EXCEPT ![h][c][part] = new]
  <2>1. PICK h, part, i : h = local[c].rq.kind.op /\ part = Part(local[c].rq.kind) /\ i = local[c].index
    OBVIOUS
  <2>2. PICK new : new = WithBucket(pcpu_buckets[h][c][part], i, b)
    OBVIOUS
  <2>3. pcpu_buckets' = [pcpu_buckets EXCEPT ![h][c][part] = WithBucket(@, i, b)]
    BY <2>1 DEF SetBucket
  <2> QED
    BY <2>2, <2>3
<1> QED
  BY <1>1 DEF TInv, BucketsThere

\* A sample is put into its bucket, in two writes.
LEMMA SampleKeeps ==
  ASSUME TInv, NEW c \in online, AddWeight(c) \/ AddLatency(c)
  PROVE  TInv'
<1>1. /\ pc[c] \in {"weight", "latency"} /\ UNCHANGED <<setup, timer, failures>>
      /\ \E b : SetBucket(c, b)
  BY DEF AddWeight, AddLatency, sysfsVars
<1>2. BucketsThere'
  BY <1>1, BucketWritten
<1>3. SetupOK'
  BY <1>1, BoundsKept DEF TInv
<1>4. LocalOK(local[c], pc[c])
  BY SetupType DEF TInv, LocalsOK
<1>5. PICK was, m : was = local[c] /\ m = was.models
  OBVIOUS
<1>6. DOMAIN was = Fields /\ was.timer = FALSE
  BY <1>1, <1>4, <1>5 DEF LocalOK, Updating
<1>7. PICK updater : updater = [NoLocal EXCEPT !.models = m]
  OBVIOUS
<1>8. DOMAIN updater = Fields /\ updater.timer = FALSE
  BY <1>7 DEF Fields, NoLocal
<1>9. LocalOK(was, "latency") /\ LocalOK(updater, "lock") /\ LocalOK(NoLocal, "rearm") /\ ~NoLocal.timer
  <2>1. PICK a, b, r : a = "latency" /\ b = "lock" /\ r = "rearm"
    OBVIOUS
  <2>2. a # "process" /\ b # "process" /\ r \notin Updating
    BY <2>1 DEF Updating
  <2>3. LocalOK(was, a)
    BY ONLY <1>6, <2>2, NoTimerOK
  <2>4. LocalOK(updater, b)
    BY ONLY <1>8, <2>2, NoTimerOK
  <2>5. LocalOK(NoLocal, r) /\ NoLocal.timer = FALSE
    BY ONLY <2>2, NoLocalOK
  <2> QED
    BY ONLY <2>1, <2>3, <2>4, <2>5
<1>10. \/ To(c, "latency", was)
       \/ To(c, "lock", updater)
       \/ To(c, "rearm", NoLocal)
  BY <1>5, <1>7 DEF AddWeight, AddLatency
<1> QED
  BY <1>1, <1>2, <1>3, <1>6, <1>8, <1>9, <1>10, SampleSeen

\* The timer is started.
LEMMA RearmKeeps ==
  ASSUME TInv, NEW c \in online, timer_reduce(c)
  PROVE  TInv'
<1>1. UNCHANGED <<setup, failures, pcpu_buckets>> /\ timer' = TRUE /\ To(c, "idle", NoLocal)
  BY DEF timer_reduce, modelVars, sysfsVars, Return
<1>2. SetupOK' /\ BucketsThere'
  BY <1>1, BoundsKept DEF TInv, BucketsThere
<1>3. LocalOK(NoLocal, "idle")
  BY NoLocalOK DEF Updating
<1> QED
  BY <1>1, <1>2, <1>3, SampleSeen

\* The callback begins, with all models before it.
LEMMA CallbackKeeps ==
  ASSUME TInv, NEW c \in online, update_timer_callback(c)
  PROVE  TInv'
<1>1. PICK l : l = [NoLocal EXCEPT !.models = <<0, 1, 2, 3>>, !.timer = TRUE]
  OBVIOUS
<1>2. UNCHANGED <<setup, failures, pcpu_buckets>> /\ To(c, "lock", l)
  BY <1>1 DEF update_timer_callback, modelVars, sysfsVars
<1>3. DOMAIN l = Fields /\ l.timer = TRUE /\ l.models = <<0, 1, 2, 3>>
  BY <1>1 DEF Fields, NoLocal
<1>4. <<0, 1, 2, 3>> \in Seq(OpTypes) /\ <<0, 1, 2, 3>> # <<>>
  BY DEF OpTypes
<1>5. LocalOK(l, "lock")
  BY <1>3, <1>4 DEF LocalOK, Updating
<1>6. c \in CPUs /\ LocalsOK
  BY SetupType DEF TInv
<1>7. LocalsOK' /\ pc'[c] = "lock" /\ local'[c] = l
  BY <1>2, <1>5, <1>6, Goes
<1>8. ASSUME NEW o \in OpTypes, NEW d \in online PROVE Collects(c, o, d)'
  <2>1. Head(<<0, 1, 2, 3>>) = 0 /\ Tail(<<0, 1, 2, 3>>) = <<1, 2, 3>>
    OBVIOUS
  <2>2. Range(<<1, 2, 3>>) = {1, 2, 3}
    <3>1. PICK q : q = <<1, 2, 3>>
      OBVIOUS
    <3>2. DOMAIN q = 1..3 /\ q[1] = 1 /\ q[2] = 2 /\ q[3] = 3
      BY <3>1
    <3>3. {q[i] : i \in DOMAIN q} = {1, 2, 3}
      BY <3>2
    <3> QED
      BY <3>1, <3>3 DEF Range
  <2>3. o = 0 \/ o \in {1, 2, 3}
    BY DEF OpTypes
  <2> QED
    BY <1>3, <1>7, <2>1, <2>2, <2>3 DEF Collects
<1>9. SetupOK' /\ BucketsThere'
  BY <1>2, BoundsKept DEF TInv, BucketsThere
<1>10. SamplesHaveTimer'
  BY <1>2, <1>8 DEF SamplesHaveTimer, WillRearm, WillCollect, Rearms, Collects, online
<1> QED
  BY <1>7, <1>9, <1>10 DEF TInv


\* What is in the tail of a sequence is at its head, or in its tail.
LEMMA InTail ==
  ASSUME NEW q \in Seq(OpTypes), q # <<>>, NEW o \in Range(Tail(q))
  PROVE  /\ Len(q) > 1 /\ Tail(q) \in Seq(OpTypes) /\ Tail(q) # <<>>
         /\ o = Head(Tail(q)) \/ o \in Range(Tail(Tail(q)))
<1>1. Tail(q) \in Seq(OpTypes) /\ Len(Tail(q)) = Len(q) - 1 /\ Len(q) \in Nat
  OBVIOUS
<1>2. PICK t \in Seq(OpTypes) : t = Tail(q)
  BY <1>1
<1>3. PICK i \in 1..Len(t) : o = t[i]
  BY <1>2 DEF Range
<1>4. t # <<>> /\ Head(t) = t[1]
  BY <1>3
<1>5. CASE i = 1
  BY <1>1, <1>2, <1>3, <1>4, <1>5
<1>6. CASE i # 1
  <2>1. i - 1 \in 1..Len(Tail(t)) /\ Tail(t)[i - 1] = t[i] /\ DOMAIN Tail(t) = 1..Len(Tail(t))
    BY <1>3, <1>4, <1>6
  <2>2. o \in Range(Tail(t))
    BY <1>3, <2>1 DEF Range
  <2> QED
    BY <1>1, <1>2, <1>3, <1>4, <2>2
<1> QED
  BY <1>5, <1>6

\* Where a CPU goes from the update of a model.
LEMMA AfterModel ==
  ASSUME NEW c, LocalOK(local[c], pc[c]), NextModel(c)
  PROVE  \E step, l :
           /\ To(c, step, l) /\ LocalOK(l, step)
           /\ \/ /\ step = "lock" /\ Len(local[c].models) > 1
                 /\ l.timer = local[c].timer /\ l.models = Tail(local[c].models)
              \/ step = "idle" /\ local[c].timer /\ ~(Len(local[c].models) > 1)
              \/ step = "rearm" /\ l.timer = FALSE /\ ~local[c].timer
<1>1. PICK was, m, next, a, b, r :
        /\ was = local[c] /\ m = Tail(was.models) /\ next = [was EXCEPT !.models = m]
        /\ a = "lock" /\ b = "idle" /\ r = "rearm"
  OBVIOUS
<1>2. a # "process" /\ b \notin Updating /\ r \notin Updating /\ a \in Updating
  BY <1>1 DEF Updating
<1>3. DOMAIN was = Fields /\ was.timer \in BOOLEAN
      /\ (was.timer => was.models \in Seq(OpTypes) /\ was.models # <<>>)
  BY <1>1 DEF LocalOK
<1>4. DOMAIN next = Fields /\ next.models = m /\ next.timer = was.timer
  BY <1>1, <1>3, WithModels
<1>5. LocalOK(NoLocal, b) /\ LocalOK(NoLocal, r) /\ NoLocal.timer = FALSE
  BY ONLY <1>2, NoLocalOK
<1>6. ASSUME Len(was.models) > 1 PROVE LocalOK(next, a)
  <2>1. was.timer => m \in Seq(OpTypes) /\ m # <<>>
    <3> SUFFICES ASSUME was.timer PROVE m \in Seq(OpTypes) /\ m # <<>>
      OBVIOUS
    <3>1. PICK q \in Seq(OpTypes) : q = was.models
      BY <1>3
    <3>2. m = Tail(q) /\ Len(q) > 1
      BY <1>1, <1>6, <3>1
    <3>3. m \in Seq(OpTypes) /\ m # <<>>
      BY ONLY <3>2, q \in Seq(OpTypes)
    <3> QED
      BY <3>3
  <2> QED
    BY <1>2, <1>3, <1>4, <2>1 DEF LocalOK
<1>7. \/ Len(was.models) > 1 /\ To(c, a, next)
      \/ ~(Len(was.models) > 1) /\ was.timer /\ To(c, b, NoLocal)
      \/ ~(Len(was.models) > 1) /\ ~was.timer /\ To(c, r, NoLocal)
  BY <1>1 DEF NextModel, Return
<1>8. CASE Len(was.models) > 1 /\ To(c, a, next)
  BY <1>1, <1>4, <1>6, <1>8
<1>9. CASE ~(Len(was.models) > 1) /\ was.timer /\ To(c, b, NoLocal)
  BY <1>1, <1>5, <1>9
<1>10. CASE ~(Len(was.models) > 1) /\ ~was.timer /\ To(c, r, NoLocal)
  BY <1>1, <1>5, <1>10
<1> QED
  BY <1>7, <1>8, <1>9, <1>10

\* A model is made of what was collected.
LEMMA UpdateKeeps ==
  ASSUME TInv, NEW c \in online, UpdateModel(c)
  PROVE  TInv'
<1>1. pc[c] = "process" /\ NextModel(c) /\ UNCHANGED <<setup, timer, failures, pcpu_buckets>>
  BY DEF UpdateModel, sysfsVars
<1>2. c \in CPUs /\ LocalsOK /\ LocalOK(local[c], pc[c])
  BY SetupType DEF TInv, LocalsOK
<1>3. PICK step, l :
        /\ To(c, step, l) /\ LocalOK(l, step)
        /\ \/ /\ step = "lock" /\ Len(local[c].models) > 1
              /\ l.timer = local[c].timer /\ l.models = Tail(local[c].models)
           \/ step = "idle" /\ local[c].timer /\ ~(Len(local[c].models) > 1)
           \/ step = "rearm" /\ l.timer = FALSE /\ ~local[c].timer
  BY <1>1, <1>2, AfterModel
<1>4. /\ LocalsOK' /\ pc'[c] = step /\ local'[c] = l
      /\ \A d \in CPUs \ {c} : pc'[d] = pc[d] /\ local'[d] = local[d]
  BY <1>2, <1>3, Goes
<1>5. SetupOK' /\ BucketsThere' /\ failures' \in Nat /\ failures' <= failures
  BY <1>1, BoundsKept DEF TInv, BucketsThere
<1>6. \A o \in OpTypes, d \in online : Held(o, d)' => Held(o, d)
  BY <1>1, HeldKept
<1>7. Rearms(c) => Rearms(c)' \/ timer'
  BY <1>3, <1>4 DEF Rearms
<1>8. ASSUME NEW o \in OpTypes, NEW d \in online, Collects(c, o, d) PROVE Collects(c, o, d)'
  <2>1. /\ local[c].timer /\ local[c].left = {}
        /\ local[c].models \in Seq(OpTypes) /\ local[c].models # <<>>
    BY <1>1, <1>2, <1>8 DEF LocalOK, Collects
  <2>2. o \in Range(Tail(local[c].models))
    BY <1>1, <1>8, <2>1 DEF Collects
  <2>3. PICK q \in Seq(OpTypes) : q = local[c].models
    BY <2>1
  <2>4. Len(q) > 1 /\ (o = Head(Tail(q)) \/ o \in Range(Tail(Tail(q))))
    BY <2>1, <2>2, <2>3, InTail
  <2>5. step = "lock" /\ l.timer /\ l.models = Tail(q)
    BY <1>3, <2>1, <2>3, <2>4
  <2> QED
    BY <1>4, <2>4, <2>5 DEF Collects
<1>9. SamplesHaveTimer'
  BY <1>1, <1>4, <1>5, <1>6, <1>7, <1>8, StepOfOne
<1> QED
  BY <1>4, <1>5, <1>9 DEF TInv

\* The update of a model begins, or gives up for lack of memory.
LEMMA LockKeeps ==
  ASSUME TInv, NEW c \in online, LockModel(c)
  PROVE  TInv'
<1>1. /\ pc[c] = "lock" /\ UNCHANGED <<setup, timer, pcpu_buckets>>
      /\ \/ failures' = failures /\ To(c, "collect", [local[c] EXCEPT !.left = online])
         \/ failures > 0 /\ failures' = failures - 1 /\ NextModel(c)
  BY DEF LockModel
<1>2. c \in CPUs /\ LocalsOK /\ LocalOK(local[c], pc[c])
  BY SetupType DEF TInv, LocalsOK
<1>3. SetupOK' /\ BucketsThere' /\ failures' \in Nat /\ failures' <= failures
  BY <1>1, BoundsKept DEF TInv, BucketsThere
<1>4. CASE failures > 0 /\ failures' = failures - 1 /\ NextModel(c)
  <2>1. PICK step, l : To(c, step, l) /\ LocalOK(l, step)
    BY <1>2, <1>4, AfterModel
  <2>2. LocalsOK'
    BY <1>2, <2>1, Goes
  <2>3. failures' # setup'.failures
    BY <1>1, <1>4, SetupType DEF TInv
  <2>4. SamplesHaveTimer'
    BY <2>3 DEF SamplesHaveTimer
  <2> QED
    BY <1>3, <2>2, <2>4 DEF TInv
<1>5. CASE failures' = failures /\ To(c, "collect", [local[c] EXCEPT !.left = online])
  <2>1. PICK was, left, next, step :
          was = local[c] /\ left = online /\ next = [was EXCEPT !.left = left] /\ step = "collect"
    OBVIOUS
  <2>2. step # "process" /\ step \in Updating /\ step \notin {"idle", "measure", "input", "weight"}
    BY <2>1 DEF Updating
  <2>3. DOMAIN was = Fields
    BY <1>2, <2>1 DEF LocalOK
  <2>4. DOMAIN next = Fields /\ next.left = left /\ next.timer = was.timer /\ next.models = was.models
    BY <2>1, <2>3, WithLeft
  <2>5. LocalOK(next, step)
    BY <1>2, <2>1, <2>2, <2>4 DEF LocalOK
  <2>6. To(c, step, next)
    BY <1>5, <2>1
  <2>7. /\ LocalsOK' /\ pc'[c] = step /\ local'[c] = next
        /\ \A d \in CPUs \ {c} : pc'[d] = pc[d] /\ local'[d] = local[d]
    BY <1>2, <2>5, <2>6, Goes
  <2>8. \A o \in OpTypes, d \in online : Held(o, d)' => Held(o, d)
    BY <1>1, HeldKept
  <2>9. Rearms(c) => Rearms(c)' \/ timer'
    BY <2>1, <2>2, <2>4, <2>7 DEF Rearms
  <2>10. \A o \in OpTypes, d \in online : Collects(c, o, d) => Collects(c, o, d)'
    BY <2>1, <2>4, <2>7 DEF Collects
  <2>11. SamplesHaveTimer'
    BY <1>1, <1>3, <2>7, <2>8, <2>9, <2>10, StepOfOne
  <2> QED
    BY <1>3, <2>7, <2>11 DEF TInv
<1> QED
  BY <1>1, <1>4, <1>5

\* The buckets of a CPU are read.
LEMMA CollectKeeps ==
  ASSUME TInv, NEW c \in online, CollectBuckets(c)
  PROVE  TInv'
<1>1. /\ pc[c] = "collect" /\ UNCHANGED <<setup, timer, failures, pcpu_buckets>>
      /\ To(c, "reset", local[c])
  BY DEF CollectBuckets, sysfsVars
<1>2. c \in CPUs /\ LocalsOK /\ LocalOK(local[c], pc[c])
  BY SetupType DEF TInv, LocalsOK
<1>3. SetupOK' /\ BucketsThere' /\ failures' \in Nat /\ failures' <= failures
  BY <1>1, BoundsKept DEF TInv, BucketsThere
<1>4. PICK was, step : was = local[c] /\ step = "reset"
  OBVIOUS
<1>5. step # "process" /\ step \in Updating /\ step \notin {"idle", "measure", "input", "weight"}
  BY <1>4 DEF Updating
<1>6. LocalOK(was, step)
  BY <1>2, <1>4, <1>5 DEF LocalOK
<1>7. /\ LocalsOK' /\ pc'[c] = step /\ local'[c] = was
      /\ \A d \in CPUs \ {c} : pc'[d] = pc[d] /\ local'[d] = local[d]
  BY <1>1, <1>2, <1>4, <1>6, Goes
<1>8. \A o \in OpTypes, d \in online : Held(o, d)' => Held(o, d)
  BY <1>1, HeldKept
<1>9. Rearms(c) => Rearms(c)' \/ timer'
  BY <1>4, <1>5, <1>7 DEF Rearms
<1>10. \A o \in OpTypes, d \in online : Collects(c, o, d) => Collects(c, o, d)'
  BY <1>1, <1>4, <1>7 DEF Collects
<1>11. SamplesHaveTimer'
  BY <1>1, <1>3, <1>7, <1>8, <1>9, <1>10, StepOfOne
<1> QED
  BY <1>3, <1>7, <1>11 DEF TInv

\* The buckets of a CPU are cleared, after which the CPU is not left.
LEMMA ResetKeeps ==
  ASSUME TInv, NEW c \in online, ResetBuckets(c)
  PROVE  TInv'
<1>1. PICK h, k, was, left, next, step :
        /\ h = Head(local[c].models) /\ k = Collected(c) /\ was = local[c]
        /\ left = was.left \ {k} /\ next = [was EXCEPT !.left = left]
        /\ step = IF left = {} THEN "process" ELSE "collect"
  OBVIOUS
<1>2. /\ pc[c] = "reset" /\ UNCHANGED <<setup, timer, failures>> /\ To(c, step, next)
      /\ pcpu_buckets' = [pcpu_buckets EXCEPT ![h][k] = NoBuckets]
  BY <1>1 DEF ResetBuckets, sysfsVars
<1>3. c \in CPUs /\ LocalsOK /\ LocalOK(local[c], pc[c])
  BY SetupType DEF TInv, LocalsOK
<1>4. SetupOK' /\ failures' \in Nat /\ failures' <= failures
  BY <1>2, BoundsKept DEF TInv
<1>5. BucketsThere'
  BY <1>2 DEF TInv, BucketsThere
<1>6. /\ step = "process" => left = {}
      /\ step \in Updating /\ step \notin {"idle", "measure", "input", "weight"}
  BY <1>1 DEF Updating
<1>7. DOMAIN was = Fields
  BY <1>1, <1>3 DEF LocalOK
<1>8. DOMAIN next = Fields /\ next.left = left /\ next.timer = was.timer /\ next.models = was.models
  BY <1>1, <1>7, WithLeft
<1>9. LocalOK(next, step)
  BY <1>1, <1>3, <1>6, <1>8 DEF LocalOK
<1>10. /\ LocalsOK' /\ pc'[c] = step /\ local'[c] = next
       /\ \A d \in CPUs \ {c} : pc'[d] = pc[d] /\ local'[d] = local[d]
  BY <1>2, <1>3, <1>9, Goes
<1>11. ASSUME NEW o \in OpTypes, NEW d \in online
       PROVE  /\ Held(o, d)' => Held(o, d)
              /\ o = h /\ d = k => ~Held(o, d)'
  <2>1. d \in CPUs
    BY SetupType DEF TInv
  <2>2. CASE o = h /\ d = k
    <3>1. pcpu_buckets'[o][d] = NoBuckets
      BY <1>2, <2>1, <2>2 DEF TInv, BucketsThere
    <3> QED
      BY <3>1, ClearedNotHeld
  <2>3. CASE ~(o = h /\ d = k)
    <3>1. pcpu_buckets'[o][d] = pcpu_buckets[o][d]
      BY <1>2, <2>1, <2>3 DEF TInv, BucketsThere
    <3> QED
      BY <2>3, <3>1, HeldKept
  <2> QED
    BY <2>2, <2>3
<1>12. Rearms(c) => Rearms(c)' \/ timer'
  BY <1>1, <1>6, <1>8, <1>10 DEF Rearms
<1>13. ASSUME NEW o \in OpTypes, NEW d \in online, Held(o, d)' /\ Collects(c, o, d)
       PROVE  Collects(c, o, d)'
  <2>1. ~(o = h /\ d = k)
    BY <1>11, <1>13
  <2>2. local'[c].timer /\ local'[c].models = was.models /\ local'[c].left = was.left \ {k}
    BY <1>1, <1>8, <1>10, <1>13 DEF Collects
  <2>3. o \in Range(Tail(was.models)) \/ (o = h /\ d \in was.left)
    BY <1>1, <1>2, <1>13 DEF Collects
  <2> QED
    BY <1>1, <2>1, <2>2, <2>3 DEF Collects
<1>14. SamplesHaveTimer'
  BY <1>2, <1>4, <1>10, <1>11, <1>12, <1>13, StepOfOne
<1> QED
  BY <1>4, <1>5, <1>10, <1>14 DEF TInv

---------------------------------------------------------------------------
(* No sample is left behind.                                               *)

\* At first, all buckets are empty and all CPUs idle.
LEMMA InitSeen ==
  ASSUME Init
  PROVE  TInv
<1>1. LocalsOK
  BY NoLocalOK DEF Init, LocalsOK, Updating
<1>2. BucketsThere
  BY DEF Init, BucketsThere
<1>3. SetupOK
  BY LatencyAssumption DEF Init, SetupOK
<1>4. online \subseteq CPUs
  BY <1>3, SetupType
<1>5. ASSUME NEW o \in OpTypes, NEW d \in online PROVE ~Held(o, d)
  BY <1>4 DEF Held, Init, NoBuckets
<1> QED
  BY <1>1, <1>2, <1>3, <1>5 DEF TInv, SamplesHaveTimer

\* Every step keeps the invariant.
LEMMA NextKeepsSeen ==
  ASSUME TInv, [Next]_vars
  PROVE  TInv'
<1>1. ASSUME NEW k \in setup.kinds, insert_request(k) PROVE TInv'
  BY <1>1, QuietKeeps DEF insert_request, modelVars, sysfsVars
<1>2. ASSUME Storing PROVE TInv'
  BY <1>2, QuietKeeps DEF Storing, modelVars
<1>3. ASSUME ClearAggregated PROVE TInv'
  BY <1>3, QuietKeeps DEF ClearAggregated
<1>4. ASSUME NEW t \in setup.times, Tick(t) PROVE TInv'
  BY <1>4, QuietKeeps DEF Tick, modelVars, sysfsVars
<1>5. ASSUME UNCHANGED vars PROVE TInv'
  BY <1>5, QuietKeeps DEF vars, modelVars, sysfsVars
<1>6. ASSUME NEW c \in online, Running(c) PROVE TInv'
  BY <1>6, MeasureKeeps, InputKeeps, SampleKeeps, RearmKeeps, LockKeeps, CollectKeeps, ResetKeeps,
     UpdateKeeps DEF Running
<1> QED
  BY <1>1, <1>2, <1>3, <1>4, <1>5, <1>6, CompletionKeeps, CallbackKeeps, SideloadKeeps DEF Next

\* No sample is left behind, for any numbers of CPUs, requests and stores:
\* while a CPU has samples the timer is pending, or somebody is about to start
\* it or to collect them; unless an update gave up for lack of memory
\* (latency_model_input, adios_completed_request, update_timer_callback).
THEOREM SamplesAlwaysHaveTimer == Spec => []SamplesHaveTimer
<1>1. Init => TInv
  BY InitSeen
<1>2. TInv /\ [Next]_vars => TInv'
  BY NextKeepsSeen
<1>3. TInv => SamplesHaveTimer
  BY DEF TInv
<1> QED
  BY <1>1, <1>2, <1>3, PTL DEF Spec

---------------------------------------------------------------------------
(* Buckets and what they hold.                                             *)

BucketType == [weight : Nat, latency : Nat, bsize : Nat]

\* Buckets of one kind, on a CPU or aggregated; and those of both kinds.
PartOK(f) == DOMAIN f \subseteq 0..LM_LAT_BUCKET_COUNT - 1 /\ \A i \in DOMAIN f : f[i] \in BucketType
PairOK(b) == b = [small |-> b.small, large |-> b.large] /\ PartOK(b.small) /\ PartOK(b.large)

\* What the buckets of f hold of one field.
Column(f, field) == [i \in DOMAIN f |-> f[i][field]]

\* A bucket that may not be there.
LEMMA BucketOfPart ==
  ASSUME NEW f, PartOK(f), NEW i
  PROVE  Bucket(f, i) \in BucketType /\ (i \notin DOMAIN f => Bucket(f, i).weight = 0)
BY DEF PartOK, Bucket, BucketType, Zero

\* No buckets.
LEMMA EmptyPart == PartOK(<<>>) /\ PairOK(NoBuckets) /\ Weight(<<>>) = 0
<1>1. DOMAIN <<>> = {}
  OBVIOUS
<1>2. PartOK(<<>>)
  BY <1>1 DEF PartOK
<1>3. Weight(<<>>) = 0
  BY <1>1, SumOfNone DEF Weight, SumOf
<1>4. QED
  BY <1>2, <1>3 DEF PairOK, NoBuckets

\* The buckets are finitely many, and their values naturals.
LEMMA Columns ==
  ASSUME NEW f, PartOK(f), NEW field \in {"weight", "latency", "bsize"}
  PROVE  /\ IsFiniteSet(DOMAIN f) /\ DOMAIN f \subseteq Nat
         /\ \A i \in DOMAIN f : Column(f, field)[i] = f[i][field] /\ f[i][field] \in Nat
<1>1. PICK n \in Int : DOMAIN f \subseteq 0..n
  BY DEF PartOK, LM_LAT_BUCKET_COUNT
<1>2. IsFiniteSet(0..n)
  BY FS_Interval
<1>3. IsFiniteSet(DOMAIN f) /\ DOMAIN f \subseteq Nat
  BY <1>1, <1>2, FS_Subset
<1>4. ASSUME NEW i \in DOMAIN f PROVE f[i][field] \in Nat
  <2>1. f[i].weight \in Nat /\ f[i].latency \in Nat /\ f[i].bsize \in Nat
    BY DEF PartOK, BucketType
  <2>2. field = "weight" \/ field = "latency" \/ field = "bsize"
    OBVIOUS
  <2>3. QED
    BY <2>1, <2>2
<1>5. QED
  BY <1>3, <1>4 DEF Column

\* Their sums.
LEMMA SumOfPart ==
  ASSUME NEW f, PartOK(f), NEW field \in {"weight", "latency", "bsize"},
         NEW S, S \subseteq DOMAIN f
  PROVE  SumOf(f, field, S) \in Nat /\ SumOf(f, field, S) <= SumOf(f, field, DOMAIN f)
<1>1. PICK g : g = Column(f, field)
  OBVIOUS
<1>2. IsFiniteSet(DOMAIN f) /\ \A i \in DOMAIN f : g[i] \in Nat
  BY <1>1, Columns
<1>3. SumFunctionOnSet(g, S) \in Nat /\ SumFunctionOnSet(g, S) <= SumFunctionOnSet(g, DOMAIN f)
  BY <1>2, SumOfFewer
<1>4. QED
  BY <1>1, <1>3 DEF SumOf, Column

\* One more bucket.
LEMMA SumOfNext ==
  ASSUME NEW f, PartOK(f), NEW field \in {"weight", "latency", "bsize"},
         NEW S, S \subseteq DOMAIN f, NEW i \in DOMAIN f, i \notin S
  PROVE  SumOf(f, field, S \cup {i}) = SumOf(f, field, S) + f[i][field]
<1>1. PICK g : g = Column(f, field)
  OBVIOUS
<1>2. IsFiniteSet(S) /\ IsFiniteSet({i}) /\ S \cap {i} = {}
  BY Columns, FS_Subset, FS_Singleton
<1>3. \A j \in S \cup {i} : g[j] \in Nat
  BY <1>1, Columns
<1>4. SumFunctionOnSet(g, S \cup {i}) = SumFunctionOnSet(g, S) + SumFunctionOnSet(g, {i})
  BY <1>2, <1>3, SumAdds
<1>5. SumFunctionOnSet(g, {i}) = g[i]
  BY <1>3, SumOfOne
<1>6. g[i] = f[i][field]
  BY <1>1, Columns
<1>7. QED
  BY <1>1, <1>4, <1>5, <1>6 DEF SumOf, Column


\* One bucket is replaced, or there is one more.
LEMMA WeightReplaced ==
  ASSUME NEW f, PartOK(f), NEW n, PartOK(n), NEW i, DOMAIN n = DOMAIN f \cup {i},
         \A j \in DOMAIN f \ {i} : n[j] = f[j]
  PROVE  Weight(n) + Bucket(f, i).weight = Weight(f) + n[i].weight
<1>1. PICK field, S : field = "weight" /\ S = DOMAIN f \ {i}
  OBVIOUS
<1>2. field \in {"weight", "latency", "bsize"}
  BY <1>1
<1>3. PICK g, h : g = Column(f, field) /\ h = Column(n, field)
  OBVIOUS
<1>4. \A j \in S : h[j] = g[j] /\ g[j] \in Nat
  BY <1>1, <1>2, <1>3, Columns DEF Column
<1>5. IsFiniteSet(S)
  BY <1>1, <1>2, Columns, FS_Subset
<1>6. SumFunctionOnSet(h, S) = SumFunctionOnSet(g, S)
  BY <1>4, <1>5, SumKept
<1>7. SumOf(n, field, S) = SumOf(f, field, S) /\ SumOf(f, field, S) \in Nat
  <2>1. SumOf(n, field, S) = SumOf(f, field, S)
    BY <1>3, <1>6 DEF SumOf, Column
  <2>2. QED
    BY <1>1, <1>2, <2>1, SumOfPart
<1>8. SumOf(n, field, DOMAIN n) = SumOf(n, field, S) + n[i][field]
  <2>1. S \subseteq DOMAIN n /\ i \in DOMAIN n /\ i \notin S /\ S \cup {i} = DOMAIN n
    BY <1>1
  <2>2. SumOf(n, field, S \cup {i}) = SumOf(n, field, S) + n[i][field]
    BY <1>2, <2>1, SumOfNext
  <2>3. QED
    BY <2>1, <2>2
<1>9. SumOf(f, field, DOMAIN f) = SumOf(f, field, S) + Bucket(f, i)[field]
  <2>1. CASE i \in DOMAIN f
    <3>1. S \subseteq DOMAIN f /\ i \notin S /\ S \cup {i} = DOMAIN f
      BY <1>1, <2>1
    <3>2. SumOf(f, field, S \cup {i}) = SumOf(f, field, S) + f[i][field]
      BY <1>2, <2>1, <3>1, SumOfNext
    <3>3. QED
      BY <2>1, <3>1, <3>2 DEF Bucket
  <2>2. CASE i \notin DOMAIN f
    <3>1. S = DOMAIN f /\ Bucket(f, i)[field] = 0
      BY <1>1, <2>2 DEF Bucket, Zero
    <3>2. QED
      BY <1>7, <3>1
  <2>3. QED
    BY <2>1, <2>2
<1>10. n[i][field] \in Nat /\ Bucket(f, i)[field] \in Nat
  <2>1. n[i].weight \in Nat
    BY DEF PartOK, BucketType
  <2>2. Bucket(f, i).weight \in Nat
    BY BucketOfPart DEF BucketType
  <2>3. QED
    BY <1>1, <2>1, <2>2
<1>11. SumOf(n, field, DOMAIN n) + Bucket(f, i)[field] = SumOf(f, field, DOMAIN f) + n[i][field]
  BY ONLY <1>7, <1>8, <1>9, <1>10
<1>12. QED
  BY <1>1, <1>11 DEF Weight

\* A bucket is written.
LEMMA WithBucketOK ==
  ASSUME NEW f, PartOK(f), NEW i \in 0..LM_LAT_BUCKET_COUNT - 1, NEW b \in BucketType
  PROVE  /\ PartOK(WithBucket(f, i, b))
         /\ Weight(WithBucket(f, i, b)) + Bucket(f, i).weight = Weight(f) + b.weight
<1>1. PICK n : n = WithBucket(f, i, b)
  OBVIOUS
<1>2. DOMAIN n = DOMAIN f \cup {i} /\ n[i] = b /\ \A j \in DOMAIN f \ {i} : n[j] = f[j]
  BY <1>1 DEF WithBucket
<1>3. PartOK(n)
  BY <1>2 DEF PartOK
<1>4. Weight(n) + Bucket(f, i).weight = Weight(f) + n[i].weight
  BY <1>2, <1>3, WeightReplaced
<1>5. QED
  BY <1>1, <1>2, <1>3, <1>4

\* Buckets of a CPU are added to others.
LEMMA AggregatedOK ==
  ASSUME NEW f, PartOK(f), NEW g, PartOK(g)
  PROVE  PartOK(Aggregated(f, g)) /\ Weight(Aggregated(f, g)) = Weight(f) + Weight(g)
<1>1. PICK n, weighty, F, G :
        /\ n = Aggregated(f, g) /\ weighty = {i \in DOMAIN g : g[i].weight > 0}
        /\ F = DOMAIN f /\ G = DOMAIN g
  OBVIOUS
<1>2. /\ DOMAIN n = F \cup weighty /\ weighty \subseteq G
      /\ \A i \in DOMAIN n : n[i] = IF i \in weighty THEN Plus(Bucket(f, i), g[i]) ELSE f[i]
  BY <1>1 DEF Aggregated
<1>3. ASSUME NEW i \in DOMAIN n
      PROVE  /\ n[i] \in BucketType
             /\ n[i].weight = Bucket(f, i).weight + (IF i \in weighty THEN g[i].weight ELSE 0)
  <2>1. Bucket(f, i) \in BucketType
    BY BucketOfPart
  <2>2. CASE i \in weighty
    <3>1. g[i] \in BucketType /\ n[i] = Plus(Bucket(f, i), g[i])
      BY <1>1, <1>2, <2>2 DEF PartOK
    <3>2. QED
      BY <2>1, <2>2, <3>1 DEF BucketType, Plus
  <2>3. CASE i \notin weighty
    <3>1. i \in DOMAIN f /\ n[i] = Bucket(f, i)
      BY <1>1, <1>2, <2>3 DEF Bucket
    <3>2. QED
      BY <2>1, <2>3, <3>1 DEF BucketType
  <2>4. QED
    BY <2>2, <2>3
<1>4. PartOK(n)
  <2>1. DOMAIN n \subseteq 0..LM_LAT_BUCKET_COUNT - 1
    BY <1>1, <1>2 DEF PartOK
  <2>2. QED
    BY <1>3, <2>1 DEF PartOK
<1>5. PICK field : field = "weight"
  OBVIOUS
<1>6. field \in {"weight", "latency", "bsize"}
  BY <1>5
<1>7. PICK h, k, x, y : /\ h = Column(n, field) /\ k = DOMAIN n
                        /\ x = [i \in DOMAIN n |-> Bucket(f, i).weight]
                        /\ y = [i \in DOMAIN n |-> IF i \in weighty THEN g[i].weight ELSE 0]
  OBVIOUS
<1>8. IsFiniteSet(k) /\ IsFiniteSet(F) /\ IsFiniteSet(G)
  BY <1>1, <1>4, <1>6, <1>7, Columns
<1>9. \A i \in k : x[i] \in Nat /\ y[i] \in Nat /\ h[i] = x[i] + y[i]
  <2>1. \A i \in k : h[i] = n[i].weight
    BY <1>5, <1>7 DEF Column
  <2>2. \A i \in k : x[i] = Bucket(f, i).weight /\ x[i] \in Nat
    BY <1>7, BucketOfPart DEF BucketType
  <2>3. \A i \in k : y[i] = (IF i \in weighty THEN g[i].weight ELSE 0) /\ y[i] \in Nat
    BY <1>1, <1>2, <1>7 DEF PartOK, BucketType
  <2>4. QED
    BY <1>3, <1>7, <2>1, <2>2, <2>3
<1>10. SumFunctionOnSet(h, k) = SumFunctionOnSet(x, k) + SumFunctionOnSet(y, k)
  BY <1>8, <1>9, SumOfSums
<1>11. SumFunctionOnSet(x, k) = SumOf(f, field, DOMAIN f)
  <2>1. F \subseteq k /\ \A i \in k \ F : x[i] = 0
    BY <1>1, <1>2, <1>7 DEF Bucket, Zero
  <2>2. SumFunctionOnSet(x, k) = SumFunctionOnSet(x, F)
    BY <1>8, <1>9, <2>1, SumSupport
  <2>3. PICK c : c = Column(f, field)
    OBVIOUS
  <2>4. \A i \in F : x[i] \in Nat /\ c[i] = x[i]
    BY <1>1, <1>5, <1>7, <1>9, <2>1, <2>3 DEF Column, Bucket
  <2>5. SumFunctionOnSet(c, F) = SumFunctionOnSet(x, F)
    BY <1>8, <2>4, SumKept
  <2>6. QED
    BY <1>1, <2>2, <2>3, <2>5 DEF SumOf, Column
<1>12. SumFunctionOnSet(y, k) = SumOf(g, field, DOMAIN g)
  <2>1. weighty \subseteq k /\ \A i \in k \ weighty : y[i] = 0
    BY <1>2, <1>7
  <2>2. SumFunctionOnSet(y, k) = SumFunctionOnSet(y, weighty)
    BY <1>8, <1>9, <2>1, SumSupport
  <2>3. PICK c : c = Column(g, field)
    OBVIOUS
  <2>4. \A i \in G : c[i] \in Nat /\ (i \in weighty => y[i] = c[i]) /\ (i \notin weighty => c[i] = 0)
    <3>1. \A i \in G : c[i] = g[i].weight /\ g[i].weight \in Nat
      BY <1>1, <1>5, <2>3 DEF Column, PartOK, BucketType
    <3>2. \A i \in weighty : y[i] = g[i].weight
      BY <1>7, <2>1
    <3>3. QED
      BY <1>1, <3>1, <3>2
  <2>5. SumFunctionOnSet(c, G) = SumFunctionOnSet(c, weighty)
    BY <1>2, <1>8, <2>4, SumSupport
  <2>6. SumFunctionOnSet(y, weighty) = SumFunctionOnSet(c, weighty)
    <3>1. IsFiniteSet(weighty)
      BY <1>2, <1>8, FS_Subset
    <3>2. \A i \in weighty : c[i] \in Nat /\ y[i] = c[i]
      BY <1>2, <2>4
    <3>3. QED
      BY <3>1, <3>2, SumKept
  <2>7. QED
    BY <1>1, <2>2, <2>3, <2>5, <2>6 DEF SumOf, Column
<1>13. QED
  <2>1. Weight(n) = SumFunctionOnSet(h, k)
    BY <1>5, <1>7 DEF Weight, SumOf, Column
  <2>2. Weight(n) = Weight(f) + Weight(g)
    BY <1>5, <1>10, <1>11, <1>12, <2>1 DEF Weight
  <2>3. QED
    BY <1>1, <1>4, <2>2


---------------------------------------------------------------------------
(* The trimmed buckets.                                                    *)

\* A set of naturals has a least element.
LEMMA Least ==
  ASSUME NEW S, S \subseteq Nat, S # {}
  PROVE  \E m \in S : \A x \in S : m <= x
<1>1. PICK m \in S : \A x \in S : ~(<<x, m>> \in OpToRel(<, Nat))
  BY NatLessThanWellFounded, WFMin
<1>2. ASSUME NEW x \in S PROVE m <= x
  <2>1. ~(x < m)
    BY <1>1 DEF OpToRel
  <2>2. QED
    BY <2>1
<1>3. QED
  BY <1>2

\* Min and its choice.
LEMMA MinIsLeast ==
  ASSUME NEW S, S \subseteq Nat, S # {}
  PROVE  Min(S) \in S /\ \A x \in S : Min(S) <= x
BY Least DEF Min

\* Some of the buckets have a last one.
LEMMA Greatest ==
  ASSUME NEW n \in Nat, NEW S, S \subseteq 0..n, S # {}
  PROVE  \E m \in S : \A x \in S : x <= m
<1> DEFINE T == {k \in Nat : \A x \in S : x <= k}
<1>1. T \subseteq Nat /\ n \in T
  OBVIOUS
<1>2. PICK k \in T : \A j \in T : k <= j
  <2> HIDE DEF T
  <2>1. QED
    BY <1>1, Least
<1>3. k \in Nat /\ \A x \in S : x <= k
  BY <1>2
<1>4. CASE k \in S
  BY <1>3, <1>4
<1>5. CASE k \notin S
  <2>1. PICK x \in S : TRUE
    OBVIOUS
  <2>2. x \in Nat /\ x < k
    BY <1>3, <1>5
  <2>3. k - 1 \in Nat /\ \A y \in S : y <= k - 1
    <3>1. ASSUME NEW y \in S PROVE y <= k - 1
      <4>1. y \in Nat /\ y <= k /\ y # k
        BY <1>3, <1>5
      <4>2. QED
        BY <1>3, <4>1
    <3>2. QED
      BY <1>3, <2>2, <3>1
  <2>4. k - 1 \in T
    BY <2>3
  <2> HIDE DEF T
  <2>5. k <= k - 1
    BY <1>2, <2>4
  <2>6. QED
    BY <1>3, <2>5
<1>6. QED
  BY <1>4, <1>5

\* The buckets up to the i-th, and those before it.
Upto(f, i)   == {j \in DOMAIN f : j <= i}
Before(f, i) == {j \in DOMAIN f : j < i}

\* A bucket that is the last of the ones before another, or no bucket is.
LEMMA LastBefore ==
  ASSUME NEW f, PartOK(f), NEW i \in Nat
  PROVE  Before(f, i) = {} \/ \E p \in DOMAIN f : p < i /\ Upto(f, p) = Before(f, i)
<1>1. PICK n \in Nat : DOMAIN f \subseteq 0..n
  BY DEF PartOK, LM_LAT_BUCKET_COUNT
<1>2. Before(f, i) \subseteq 0..n
  BY <1>1 DEF Before
<1>3. CASE Before(f, i) # {}
  <2>1. PICK p \in Before(f, i) : \A x \in Before(f, i) : x <= p
    BY <1>2, <1>3, Greatest
  <2>2. p \in DOMAIN f /\ p < i /\ p \in Nat
    BY <1>1, <2>1 DEF Before
  <2>3. ASSUME NEW j \in DOMAIN f PROVE j <= p <=> j < i
    <3>1. j \in Nat
      BY <1>1
    <3>2. j < i => j <= p
      BY <2>1 DEF Before
    <3>3. QED
      BY <2>2, <3>1, <3>2
  <2>4. Upto(f, p) = Before(f, i)
    BY <2>3 DEF Upto, Before
  <2>5. QED
    BY <2>2, <2>4
<1>4. QED
  BY <1>3

\* All of them are up to some bucket, or to the first.
LEMMA LastOfAll ==
  ASSUME NEW f, PartOK(f)
  PROVE  \E i \in DOMAIN f \cup {0} : Upto(f, i) = DOMAIN f
<1>1. PICK n \in Nat : DOMAIN f \subseteq 0..n
  BY DEF PartOK, LM_LAT_BUCKET_COUNT
<1>2. CASE DOMAIN f = {}
  BY <1>2 DEF Upto
<1>3. CASE DOMAIN f # {}
  <2>1. PICK m \in DOMAIN f : \A x \in DOMAIN f : x <= m
    BY <1>1, <1>3, Greatest
  <2>2. Upto(f, m) = DOMAIN f
    BY <2>1 DEF Upto
  <2>3. QED
    BY <2>2
<1>4. QED
  BY <1>2, <1>3


\* The least bucket whose sum reaches the threshold.
LEMMA ThresholdReached ==
  ASSUME NEW f, PartOK(f), NEW threshold \in Nat, threshold <= Weight(f),
         NEW last, last = Min({i \in DOMAIN f \cup {0} : SumOf(f, "weight", Upto(f, i)) >= threshold})
  PROVE  /\ last \in DOMAIN f \cup {0} /\ SumOf(f, "weight", Upto(f, last)) >= threshold
         /\ \A i \in DOMAIN f : i < last => SumOf(f, "weight", Upto(f, i)) < threshold
<1>1. PICK field : field = "weight"
  OBVIOUS
<1>2. field \in {"weight", "latency", "bsize"}
  BY <1>1
<1>3. PICK C : C = {i \in DOMAIN f \cup {0} : SumOf(f, field, Upto(f, i)) >= threshold}
  OBVIOUS
<1>4. C \subseteq Nat
  BY <1>2, <1>3, Columns
<1>5. C # {}
  <2>1. PICK i \in DOMAIN f \cup {0} : Upto(f, i) = DOMAIN f
    BY LastOfAll
  <2>2. SumOf(f, field, DOMAIN f) \in Nat /\ SumOf(f, field, DOMAIN f) >= threshold
    BY <1>1, <1>2, SumOfPart DEF Weight
  <2>3. i \in C
    BY <1>3, <2>1, <2>2
  <2>4. QED
    BY <2>3
<1>6. last \in C /\ \A i \in C : last <= i
  BY <1>1, <1>3, <1>4, <1>5, MinIsLeast
<1>7. ASSUME NEW i \in DOMAIN f, i < last PROVE SumOf(f, field, Upto(f, i)) < threshold
  <2>1. i \in Nat /\ last \in Nat /\ Upto(f, i) \subseteq DOMAIN f
    BY <1>2, <1>4, <1>6, Columns DEF Upto
  <2>2. i \notin C
    BY <1>6, <1>7, <2>1
  <2>3. SumOf(f, field, Upto(f, i)) \in Nat
    BY <1>2, <2>1, SumOfPart
  <2>4. QED
    BY <1>3, <2>2, <2>3
<1>8. QED
  BY <1>1, <1>3, <1>6, <1>7

\* What the buckets before the last one hold, and its share of the threshold.
LEMMA RemainingWeight ==
  ASSUME NEW f, PartOK(f), NEW threshold \in Nat, threshold <= Weight(f),
         NEW last, last = Min({i \in DOMAIN f \cup {0} : SumOf(f, "weight", Upto(f, i)) >= threshold}),
         NEW b, b = Bucket(f, last)
  PROVE  /\ last \in Nat /\ b \in BucketType
         /\ \E below \in Nat : /\ SumOf(f, "weight", Before(f, last)) = below
                               /\ SumOf(f, "weight", Upto(f, last)) = below + b.weight
                               /\ below <= threshold /\ below <= Weight(f)
<1>1. PICK field : field = "weight"
  OBVIOUS
<1>2. field \in {"weight", "latency", "bsize"}
  BY <1>1
<1>3. /\ last \in DOMAIN f \cup {0}
      /\ \A i \in DOMAIN f : i < last => SumOf(f, field, Upto(f, i)) < threshold
  BY <1>1, ThresholdReached
<1>4. last \in Nat /\ DOMAIN f \subseteq Nat
  BY <1>2, <1>3, Columns
<1>5. b \in BucketType /\ b.weight \in Nat /\ b[field] = b.weight
  BY <1>1, BucketOfPart DEF BucketType
<1>6. Before(f, last) \subseteq DOMAIN f /\ last \notin Before(f, last)
  BY <1>4 DEF Before
<1>7. PICK below : below = SumOf(f, field, Before(f, last))
  OBVIOUS
<1>8. below \in Nat /\ below <= SumOf(f, field, DOMAIN f)
  BY <1>2, <1>6, <1>7, SumOfPart
<1>9. SumOf(f, field, Upto(f, last)) = below + b.weight
  <2>1. CASE last \in DOMAIN f
    <3>1. Upto(f, last) = Before(f, last) \cup {last}
      <4>1. ASSUME NEW j \in DOMAIN f PROVE j <= last <=> (j < last \/ j = last)
        BY <1>4
      <4>2. QED
        BY <2>1, <4>1 DEF Upto, Before
    <3>2. SumOf(f, field, Before(f, last) \cup {last}) = SumOf(f, field, Before(f, last)) + f[last][field]
      BY <1>2, <1>6, <2>1, SumOfNext
    <3>3. b = f[last]
      BY <2>1 DEF Bucket
    <3>4. QED
      BY <1>5, <1>7, <3>1, <3>2, <3>3
  <2>2. CASE last \notin DOMAIN f
    <3>1. last = 0
      BY <1>3, <2>2
    <3>2. Upto(f, last) = Before(f, last)
      <4>1. ASSUME NEW j \in DOMAIN f PROVE j <= last <=> j < last
        <5>1. j \in Nat /\ j # last
          BY <1>4, <2>2
        <5>2. QED
          BY <1>4, <5>1
      <4>2. QED
        BY <4>1 DEF Upto, Before
    <3>3. b.weight = 0
      BY <2>2, BucketOfPart
    <3>4. QED
      BY <1>7, <1>8, <3>2, <3>3
  <2>3. QED
    BY <2>1, <2>2
<1>10. below <= threshold
  <2>1. CASE Before(f, last) = {}
    <3>1. SumOf(f, field, {}) = 0
      BY SumOfNone DEF SumOf
    <3>2. below = 0
      BY ONLY <1>7, <2>1, <3>1, Zenon
    <3>3. QED
      BY <3>2
  <2>2. ASSUME NEW p \in DOMAIN f, p < last, Upto(f, p) = Before(f, last)
        PROVE  below <= threshold
    BY <1>3, <1>7, <1>8, <2>2
  <2>3. QED
    BY <1>4, <2>1, <2>2, LastBefore
<1>11. QED
  BY <1>1, <1>4, <1>5, <1>7, <1>8, <1>9, <1>10 DEF Weight

\* The arithmetic of a share.
LEMMA ShareType ==
  ASSUME NEW x \in Nat, NEW r \in Nat, NEW w \in Nat, w > 0
  PROVE  (x * r) \div w \in Nat /\ (w * r) \div w = r
<1>1. (x * r) \div w \in Nat
  OBVIOUS
<1>2. (w * r) \div w = r
  OBVIOUS
<1>3. QED
  BY <1>1, <1>2

\* The threshold.
LEMMA ThresholdType ==
  ASSUME NEW w \in Nat, NEW p \in {99, 100}
  PROVE  (w * p) \div 100 \in Nat /\ (w * p) \div 100 <= w
OBVIOUS

\* What buckets weigh.
LEMMA WeightType ==
  ASSUME NEW f, PartOK(f)
  PROVE  Weight(f) \in Nat
<1>1. PICK field : field = "weight"
  OBVIOUS
<1>2. field \in {"weight", "latency", "bsize"} /\ DOMAIN f \subseteq DOMAIN f
  BY <1>1
<1>3. SumOf(f, field, DOMAIN f) \in Nat
  BY <1>2, SumOfPart
<1>4. QED
  BY <1>1, <1>3 DEF Weight

\* Outliers are left out, so that trimming never makes more of the samples.
LEMMA TrimmedOK ==
  ASSUME NEW f, PartOK(f), NEW all
  PROVE  Trimmed(f, all) \in BucketType /\ Trimmed(f, all).weight <= Weight(f)
<1> DEFINE percent == IF all THEN 100 ELSE LM_OUTLIER_PERCENTILE
           level == (Weight(f) * percent) \div 100
           lastOne == Min({i \in DOMAIN f \cup {0} : SumOf(f, "weight", Upto(f, i)) >= level})
<1>1. Weight(f) \in Nat
  BY WeightType
<1>2. PICK threshold : threshold = level
  OBVIOUS
<1>3. threshold \in Nat /\ threshold <= Weight(f)
  <2>1. PICK p \in {99, 100} : p = percent
    BY DEF LM_OUTLIER_PERCENTILE
  <2>2. level = (Weight(f) * p) \div 100
    BY <2>1
  <2> HIDE DEF level
  <2>3. QED
    BY ONLY <1>1, <1>2, <2>2, ThresholdType
<1>4. PICK last : last = lastOne
  OBVIOUS
<1>5. last = Min({i \in DOMAIN f \cup {0} : SumOf(f, "weight", Upto(f, i)) >= threshold})
  BY <1>2, <1>4
<1>6. PICK b : b = Bucket(f, last)
  OBVIOUS
<1> HIDE DEF level, lastOne
<1>7. /\ b \in BucketType
      /\ \E below \in Nat : /\ SumOf(f, "weight", Before(f, last)) = below
                            /\ SumOf(f, "weight", Upto(f, last)) = below + b.weight
                            /\ below <= threshold /\ below <= Weight(f)
  BY ONLY PartOK(f), <1>3, <1>5, <1>6, RemainingWeight, Zenon
<1>8. b \in BucketType
  BY <1>7
<1>8a. PICK below \in Nat :
        /\ SumOf(f, "weight", Before(f, last)) = below
        /\ SumOf(f, "weight", Upto(f, last)) = below + b.weight
        /\ below <= threshold /\ below <= Weight(f)
  BY <1>7
<1> USE DEF level, lastOne
<1> DEFINE rest == threshold - (SumOf(f, "weight", Upto(f, last)) - b.weight)
           share(x) == IF b.weight > 0 THEN (x * rest) \div b.weight ELSE 0
<1>9. Trimmed(f, all) = [weight  |-> SumOf(f, "weight", Before(f, last)) + share(b.weight),
                         latency |-> SumOf(f, "latency", Before(f, last)) + share(b.latency),
                         bsize   |-> SumOf(f, "bsize", Before(f, last)) + share(b.bsize)]
  BY <1>2, <1>4, <1>6 DEF Trimmed, Upto, Before
<1>10. PICK remaining \in Nat : remaining = rest /\ remaining = threshold - below
  <2>1. b.weight \in Nat
    BY <1>8 DEF BucketType
  <2>2. rest = threshold - below
    BY <1>3, <1>8a, <2>1
  <2>3. rest \in Nat
    BY <1>3, <1>8a, <2>2
  <2>4. QED
    BY <2>2, <2>3
<1> HIDE DEF rest
<1>11. ASSUME NEW x \in Nat PROVE share(x) \in Nat
  <2>1. b.weight \in Nat
    BY <1>8 DEF BucketType
  <2>2. CASE b.weight > 0
    <3>1. PICK w \in Nat : w = b.weight /\ w > 0
      BY <2>1, <2>2
    <3>2. (x * remaining) \div w \in Nat
      BY ONLY <3>1, x \in Nat, remaining \in Nat, ShareType
    <3>3. QED
      BY <1>10, <2>2, <3>1, <3>2
  <2>3. CASE ~(b.weight > 0)
    BY <2>3
  <2>4. QED
    BY <2>2, <2>3
<1>12. share(b.weight) = IF b.weight > 0 THEN threshold - below ELSE 0
  <2>1. b.weight \in Nat
    BY <1>8 DEF BucketType
  <2>2. CASE b.weight > 0
    <3>1. PICK w \in Nat : w = b.weight /\ w > 0
      BY <2>1, <2>2
    <3>2. (w * remaining) \div w = remaining
      BY ONLY <3>1, remaining \in Nat, ShareType
    <3>3. QED
      BY <1>10, <2>2, <3>1, <3>2
  <2>3. CASE ~(b.weight > 0)
    BY <2>3
  <2>4. QED
    BY <2>2, <2>3
<1>13. PICK sw, sl, sb : sw = share(b.weight) /\ sl = share(b.latency) /\ sb = share(b.bsize)
  OBVIOUS
<1>14. sw \in Nat /\ sl \in Nat /\ sb \in Nat
  <2>1. b.weight \in Nat /\ b.latency \in Nat /\ b.bsize \in Nat
    BY <1>8 DEF BucketType
  <2> HIDE DEF share
  <2>2. QED
    BY <1>11, <1>13, <2>1
<1>15. sw = IF b.weight > 0 THEN threshold - below ELSE 0
  BY <1>12, <1>13
<1>16. \A field \in {"weight", "latency", "bsize"} : SumOf(f, field, Before(f, last)) \in Nat
  <2>1. Before(f, last) \subseteq DOMAIN f
    BY DEF Before
  <2>2. QED
    BY <2>1, SumOfPart
<1>17. Trimmed(f, all) = [weight  |-> SumOf(f, "weight", Before(f, last)) + sw,
                          latency |-> SumOf(f, "latency", Before(f, last)) + sl,
                          bsize   |-> SumOf(f, "bsize", Before(f, last)) + sb]
  BY <1>9, <1>13
<1> HIDE DEF share, level, lastOne
<1>18. below + sw <= Weight(f)
  BY ONLY <1>1, <1>3, <1>8a, <1>8, <1>14, <1>15
<1>19. QED
  <2>1. PICK w, l, s : /\ w = SumOf(f, "weight", Before(f, last))
                       /\ l = SumOf(f, "latency", Before(f, last))
                       /\ s = SumOf(f, "bsize", Before(f, last))
    OBVIOUS
  <2>2. w \in Nat /\ l \in Nat /\ s \in Nat /\ w = below
    BY <1>8a, <1>16, <2>1
  <2>3. Trimmed(f, all) = [weight |-> w + sw, latency |-> l + sl, bsize |-> s + sb]
    BY <1>17, <2>1
  <2>4. QED
    BY ONLY <1>14, <1>18, <2>2, <2>3 DEF BucketType

---------------------------------------------------------------------------
(* The values of a model.                                                  *)

ParamType == [base : Nat, slope : Nat, small_sum_delay : Nat, small_count : Nat,
              large_sum_delay : Nat, large_sum_bsize : Nat, last_update : Nat]

\* What is left of x.
LEMMA ShrunkOK ==
  ASSUME NEW x \in Nat
  PROVE  Shrunk(x) \in Nat /\ Shrunk(x) <= x /\ (x > 0 => Shrunk(x) > 0)
<1>1. Resist \in {1, 2, 3}
  BY LatencyAssumption
<1>2. 2 ^ 1 = 2 /\ 2 ^ 2 = 4 /\ 2 ^ 3 = 8
  OBVIOUS
<1>3. PICK r : r = 2 ^ Resist
  OBVIOUS
<1>4. r = 2 \/ r = 4 \/ r = 8
  BY <1>1, <1>2, <1>3
<1>5. x - (x \div r) \in Nat /\ x - (x \div r) <= x /\ (x > 0 => x - (x \div r) > 0)
  BY ONLY <1>4, x \in Nat
<1>6. Shrunk(x) = x - (x \div r)
  BY <1>3 DEF Shrunk
<1>7. QED
  BY <1>5, <1>6

\* Two values of the model shrink.
LEMMA ShrunkSmallOK ==
  ASSUME NEW p \in ParamType
  PROVE  /\ ShrunkSmall(p) \in ParamType
         /\ ShrunkSmall(p).small_count <= p.small_count
<1>1. /\ p.small_sum_delay \in Nat /\ p.small_count \in Nat
  BY DEF ParamType
<1>2. PICK a, b : a = Shrunk(p.small_sum_delay) /\ b = Shrunk(p.small_count)
  OBVIOUS
<1>3. a \in Nat /\ b \in Nat /\ b <= p.small_count
  BY <1>1, <1>2, ShrunkOK
<1>4. PICK q : q = [p EXCEPT !.small_sum_delay = a, !.small_count = b]
  OBVIOUS
<1>5. q \in ParamType /\ q.small_count = b
  BY <1>3, <1>4 DEF ParamType
<1>6. ShrunkSmall(p) = q \/ ShrunkSmall(p) = p
  BY <1>2, <1>4 DEF ShrunkSmall
<1>7. QED
  BY <1>1, <1>3, <1>5, <1>6

\* As do the ones of large samples.
LEMMA ShrunkLargeOK ==
  ASSUME NEW p \in ParamType
  PROVE  /\ ShrunkLarge(p) \in ParamType
         /\ ShrunkLarge(p).small_count = p.small_count
<1>1. /\ p.large_sum_delay \in Nat /\ p.large_sum_bsize \in Nat
  BY DEF ParamType
<1>2. PICK a, b : a = Shrunk(p.large_sum_delay) /\ b = Shrunk(p.large_sum_bsize)
  OBVIOUS
<1>3. a \in Nat /\ b \in Nat
  BY <1>1, <1>2, ShrunkOK
<1>4. PICK q : q = [p EXCEPT !.large_sum_delay = a, !.large_sum_bsize = b]
  OBVIOUS
<1>5. q \in ParamType /\ q.small_count = p.small_count
  BY <1>3, <1>4 DEF ParamType
<1>6. ShrunkLarge(p) = q \/ ShrunkLarge(p) = p
  BY <1>2, <1>4 DEF ShrunkLarge
<1>7. QED
  BY <1>5, <1>6

\* A quotient of naturals.
LEMMA Quotient ==
  ASSUME NEW x \in Nat, NEW y \in Nat, y > 0
  PROVE  x \div y \in Nat
OBVIOUS

\* Blocks of 1024, of which there are some.
LEMMA Blocks ==
  ASSUME NEW x \in Nat, x # 0
  PROVE  CeilDiv(x, 1024) \in Nat /\ CeilDiv(x, 1024) > 0
BY DEF CeilDiv

\* The new base, and the number of samples it rests on.
LEMMA SmallUpdated ==
  ASSUME NEW p \in ParamType, NEW f, PartOK(f)
  PROVE  /\ lm_update_small_buckets(p, f) \in ParamType
         /\ lm_update_small_buckets(p, f).small_count <= p.small_count + Weight(f)
<1>1. PICK t : t = Trimmed(f, p.base = 0)
  OBVIOUS
<1>2. t \in BucketType /\ t.weight <= Weight(f) /\ Weight(f) \in Nat
  BY <1>1, TrimmedOK, WeightType
<1>3. PICK s : s = ShrunkSmall(p)
  OBVIOUS
<1>4. s \in ParamType /\ s.small_count <= p.small_count
  BY <1>3, ShrunkSmallOK
<1>5. PICK l, w \in Nat : l = t.latency /\ w = t.weight
  BY <1>2 DEF BucketType
<1>6. PICK a, b : a = s.small_sum_delay + l /\ b = s.small_count + w
  OBVIOUS
<1>7. PICK q : q = [s EXCEPT !.small_sum_delay = a, !.small_count = b]
  OBVIOUS
<1>8. /\ a \in Nat /\ b \in Nat /\ s.small_count \in Nat /\ p.small_count \in Nat
      /\ b = s.small_count + w
  BY <1>4, <1>5, <1>6 DEF ParamType
<1>9. q \in ParamType /\ q.small_sum_delay = a /\ q.small_count = b
  BY <1>4, <1>7, <1>8 DEF ParamType
<1>10. PICK base : base = a \div b
  OBVIOUS
<1>11. lm_update_small_buckets(p, f) = IF w = 0 THEN s ELSE [q EXCEPT !.base = base]
  <2>1. q = [ShrunkSmall(p) EXCEPT !.small_sum_delay = @ + t.latency, !.small_count = @ + t.weight]
    BY <1>3, <1>4, <1>5, <1>6, <1>7 DEF ParamType
  <2>2. base = q.small_sum_delay \div q.small_count
    BY <1>9, <1>10
  <2>3. QED
    BY <1>1, <1>3, <1>5, <2>1, <2>2 DEF lm_update_small_buckets
<1>12. CASE w = 0
  <2>1. lm_update_small_buckets(p, f) = s
    BY <1>11, <1>12
  <2>2. s.small_count <= p.small_count + Weight(f)
    BY <1>2, <1>4, <1>8
  <2>3. QED
    BY <1>4, <2>1, <2>2
<1>13. CASE w # 0
  <2>1. base \in Nat
    <3>1. b > 0
      BY ONLY <1>13, <1>8, w \in Nat
    <3>2. QED
      BY ONLY <1>8, <1>10, <3>1, Quotient
  <2>2. PICK r : r = [q EXCEPT !.base = base]
    OBVIOUS
  <2>3. r \in ParamType /\ r.small_count = b
    BY <1>9, <2>1, <2>2 DEF ParamType
  <2>4. b <= p.small_count + Weight(f)
    BY ONLY <1>2, <1>4, <1>5, <1>8, w \in Nat
  <2>5. lm_update_small_buckets(p, f) = r
    BY <1>11, <1>13, <2>2
  <2>6. QED
    BY <2>3, <2>4, <2>5
<1>14. QED
  BY <1>12, <1>13

\* The new slope.
LEMMA LargeUpdated ==
  ASSUME NEW p \in ParamType, NEW f, PartOK(f)
  PROVE  /\ lm_update_large_buckets(p, f) \in ParamType
         /\ lm_update_large_buckets(p, f).small_count = p.small_count
<1>1. PICK t : t = Trimmed(f, p.slope = 0)
  OBVIOUS
<1>2. t \in BucketType
  BY <1>1, TrimmedOK
<1>3. PICK s : s = ShrunkLarge(p)
  OBVIOUS
<1>4. s \in ParamType /\ s.small_count = p.small_count
  BY <1>3, ShrunkLargeOK
<1>5. PICK l, n \in Nat : l = t.latency /\ n = t.bsize
  BY <1>2 DEF BucketType
<1>6. PICK a, b : /\ a = s.large_sum_delay + l - (IF l > p.base THEN p.base ELSE 0)
                  /\ b = s.large_sum_bsize + n
  OBVIOUS
<1>7. PICK q : q = [s EXCEPT !.large_sum_delay = a, !.large_sum_bsize = b]
  OBVIOUS
<1>8. a \in Nat /\ b \in Nat
  BY <1>4, <1>5, <1>6 DEF ParamType
<1>9. /\ q \in ParamType /\ q.large_sum_delay = a /\ q.large_sum_bsize = b
      /\ q.small_count = s.small_count
  BY <1>4, <1>7, <1>8 DEF ParamType
<1>10. PICK slope : slope = IF b = 0 THEN q.slope ELSE a \div CeilDiv(b, 1024)
  OBVIOUS
<1>11. slope \in Nat
  <2>1. CASE b = 0
    BY <1>9, <1>10, <2>1 DEF ParamType
  <2>2. CASE b # 0
    <3>1. PICK d \in Nat : d = CeilDiv(b, 1024) /\ d > 0
      BY ONLY <1>8, <2>2, Blocks
    <3>2. a \div d \in Nat
      BY ONLY <1>8, <3>1, Quotient
    <3>3. QED
      BY <1>10, <2>2, <3>1, <3>2
  <2>3. QED
    BY <2>1, <2>2
<1>12. PICK r : r = [q EXCEPT !.slope = slope]
  OBVIOUS
<1>13. r \in ParamType /\ r.small_count = p.small_count
  BY <1>4, <1>9, <1>11, <1>12 DEF ParamType
<1>14. lm_update_large_buckets(p, f) = IF t.weight = 0 THEN p ELSE r
  <2>1. q = [ShrunkLarge(p) EXCEPT !.large_sum_delay = @ + t.latency - (IF t.latency > p.base THEN p.base ELSE 0),
                                   !.large_sum_bsize = @ + t.bsize]
    BY <1>3, <1>4, <1>5, <1>6, <1>7 DEF ParamType
  <2>2. r = [q EXCEPT !.slope = IF q.large_sum_bsize = 0 THEN @
                                ELSE q.large_sum_delay \div CeilDiv(q.large_sum_bsize, 1024)]
    BY <1>9, <1>10, <1>12 DEF ParamType
  <2>3. QED
    BY <1>1, <2>1, <2>2 DEF lm_update_large_buckets
<1>15. QED
  BY <1>13, <1>14

\* The new values: the samples they rest on are the old ones and the ones
\* that were collected, or less.
LEMMA UpdatedOK ==
  ASSUME now \in Nat, NEW p \in ParamType, NEW f, PairOK(f)
  PROVE  /\ UpdatedParams(p, f) \in ParamType
         /\ UpdatedParams(p, f).small_count
              <= p.small_count + (IF SmallDue(p, f) THEN Weight(f.small) ELSE 0)
<1>1. PartOK(f.small) /\ PartOK(f.large) /\ Weight(f.small) \in Nat /\ p.small_count \in Nat
  BY WeightType DEF PairOK, ParamType
<1>2. PICK q : q = IF SmallDue(p, f) THEN lm_update_small_buckets(p, f.small) ELSE p
  OBVIOUS
<1>3. /\ q \in ParamType
      /\ q.small_count <= p.small_count + (IF SmallDue(p, f) THEN Weight(f.small) ELSE 0)
  <2>1. CASE SmallDue(p, f)
    BY <1>1, <1>2, <2>1, SmallUpdated
  <2>2. CASE ~SmallDue(p, f)
    BY <1>1, <1>2, <2>2
  <2>3. QED
    BY <2>1, <2>2
<1>4. PICK o : o = [q EXCEPT !.base = p.base]
  OBVIOUS
<1>5. o \in ParamType /\ o.small_count = q.small_count
  BY <1>3, <1>4 DEF ParamType
<1>6. PICK r : r = IF LargeDue(p, f) THEN lm_update_large_buckets(o, f.large) ELSE q
  OBVIOUS
<1>7. r \in ParamType /\ r.small_count = q.small_count
  BY <1>1, <1>3, <1>5, <1>6, LargeUpdated
<1>8. PICK u : u = IF \/ SmallDue(p, f) /\ Trimmed(f.small, p.base = 0).weight > 0
                      \/ LargeDue(p, f) /\ Trimmed(f.large, p.slope = 0).weight > 0
                      \/ Elapsed(p)
                   THEN now ELSE r.last_update
  OBVIOUS
<1>9. u \in Nat
  BY <1>7, <1>8 DEF ParamType
<1>10. PICK n : n = [r EXCEPT !.base = q.base, !.last_update = u]
  OBVIOUS
<1>11. n \in ParamType /\ n.small_count = r.small_count
  BY <1>3, <1>7, <1>9, <1>10 DEF ParamType
<1>12. UpdatedParams(p, f) = n
  BY <1>2, <1>4, <1>6, <1>7, <1>8, <1>10 DEF UpdatedParams, ParamType
<1>13. QED
  BY <1>3, <1>7, <1>11, <1>12

---------------------------------------------------------------------------
(* The values of the variables.                                            *)

Times == setup.times \cup {1}
RequestType == [kind : setup.kinds, start : Times, pred : Nat]
SetType == [op : OpTypes, base : Nat, slope : Nat]

ClockOK == now \in Times /\ last_completed_time \in Times \cup {0} /\ last_completed_pos \in Nat
InFlightOK == BagToSet(inFlight) \subseteq RequestType
ParamsOK == params \in [OpTypes -> ParamType]
BucketsTyped == PairOK(aggr_buckets) /\ \A o \in OpTypes, c \in CPUs : PairOK(pcpu_buckets[o][c])
LocksOK == update_lock \in [OpTypes -> online \cup {NoOne}]
StoreOK == DOMAIN store = DOMAIN NoStore /\ store.todo \in Seq(SetType)
SamplesOK == samples \in Nat

\* What a CPU needs of its variables l where it is.
ValuesOK(l, step) ==
  /\ step = "measure" => l.rq \in RequestType /\ l.now \in Times
  /\ step \in {"input", "weight", "latency"} =>
       /\ l.rq.kind \in setup.kinds /\ l.rq.pred \in Nat
       /\ l.latency \in Nat /\ l.weight \in Nat /\ l.models \in Seq(OpTypes)
  /\ step \in {"weight", "latency"} =>
       l.index \in 0..LM_LAT_BUCKET_COUNT - 1 /\ l.old \in BucketType
  /\ step \in Updating => l.models \in Seq(OpTypes) /\ l.models # <<>>
  /\ step \in {"collect", "reset"} => l.left \in (SUBSET online) \ {{}}

VInv ==
  /\ ClockOK /\ InFlightOK /\ ParamsOK /\ BucketsTyped /\ LocksOK /\ StoreOK /\ SamplesOK
  /\ \A c \in CPUs : ValuesOK(local[c], pc[c])
\* The samples the models rest on, of the values p, and those that wait in
\* the buckets b.
CountsOf(p) == [o \in OpTypes |-> p[o].small_count]
WeightsOf(b) == [x \in OpTypes \X CPUs |-> Weight(b[x[1]][x[2]].small)]
Models(p) == SumFunction(CountsOf(p))
Waiting(b) == SumFunction(WeightsOf(b))
Counts == Models(params) + Weight(aggr_buckets.small) + Waiting(pcpu_buckets)

\* The samples CPU c has collected and not cleared.
Twice(c) ==
  IF pc[c] = "reset" THEN Weight(pcpu_buckets[Head(local[c].models)][Collected(c)].small) ELSE 0

\* With one CPU, what is counted twice is what that CPU has not cleared yet,
\* and what it has read of a bucket is what the bucket still holds.
OnceFor(c) == Counts <= samples + Twice(c) /\ (pc[c] = "weight" => local[c].old = Own(c))
CInv == Cardinality(online) = 1 => \A c \in online : OnceFor(c)

---------------------------------------------------------------------------
(* What the steps do to them.                                              *)

\* The situation.
LEMMA SetupValues ==
  ASSUME SetupOK
  PROVE  /\ Times \subseteq Nat \ {0}
         /\ setup.kinds \subseteq [op : OpTypes, size : Nat \ {0}, pos : Nat]
         /\ online \subseteq CPUs /\ online # {} /\ setup.stored \subseteq OpTypes
<1>1. PICK s \in Setups : s = setup
  BY DEF SetupOK
<1>2. s.online \in (SUBSET CPUs) \ {{}} /\ s.stored \subseteq OpTypes
  BY LatencyAssumption
<1>3. s.times \subseteq Nat \ {0} /\ s.kinds \subseteq [op : OpTypes, size : Nat \ {0}, pos : Nat]
  BY ONLY LatencyAssumption
<1>4. Times \subseteq Nat \ {0}
  BY <1>1, <1>3 DEF Times
<1>5. QED
  BY <1>1, <1>2, <1>3, <1>4 DEF online

\* A CPU goes on with other variables.
LEMMA ValuesGo ==
  ASSUME LocalsOK, setup' = setup, \A d \in CPUs : ValuesOK(local[d], pc[d]),
         NEW c \in CPUs, NEW step, NEW l, ValuesOK(l, step), To(c, step, l)
  PROVE  \A d \in CPUs : ValuesOK(local[d], pc[d])'
<1>1. /\ pc' = [pc EXCEPT ![c] = step] /\ local' = [local EXCEPT ![c] = l]
      /\ DOMAIN pc = CPUs /\ DOMAIN local = CPUs
  BY DEF To, LocalsOK
<1>2. ASSUME NEW d \in CPUs PROVE ValuesOK(local[d], pc[d])'
  <2>1. CASE d = c
    <3>1. pc'[d] = step /\ local'[d] = l
      BY <1>1, <2>1
    <3>2. QED
      BY <3>1 DEF ValuesOK, Times, RequestType, online
  <2>2. CASE d # c
    <3>1. pc'[d] = pc[d] /\ local'[d] = local[d]
      BY <1>1, <2>2
    <3>2. ValuesOK(local[d], pc[d])
      OBVIOUS
    <3>3. QED
      BY <3>1, <3>2 DEF ValuesOK, Times, RequestType, online
  <2>3. QED
    BY <2>1, <2>2
<1>3. QED
  BY <1>2

\* No CPU goes on.
LEMMA ValuesStay ==
  ASSUME UNCHANGED <<setup, pc, local>>, \A d \in CPUs : ValuesOK(local[d], pc[d])
  PROVE  \A d \in CPUs : ValuesOK(local[d], pc[d])'
BY DEF ValuesOK, Times, RequestType, online

\* A CPU that does nothing has no values.
LEMMA IdleValues ==
  ASSUME NEW l, NEW step, step \in {"idle", "rearm"}
  PROVE  ValuesOK(l, step)
BY DEF ValuesOK, Updating

\* Variables that stay as they are.
LEMMA DeviceStays ==
  ASSUME VInv, UNCHANGED <<setup, deviceVars>>
  PROVE  ClockOK' /\ InFlightOK'
BY DEF VInv, deviceVars, ClockOK, InFlightOK, Times, RequestType

\* The models, too.
LEMMA ModelsStay ==
  ASSUME VInv, UNCHANGED <<setup, modelVars>>
  PROVE  ParamsOK' /\ BucketsTyped' /\ LocksOK'
BY DEF VInv, modelVars, ParamsOK, BucketsTyped, LocksOK, online

\* And what is to be stored.
LEMMA RestStays ==
  ASSUME VInv
  PROVE  (store' = store => StoreOK') /\ (samples' = samples => SamplesOK')
BY DEF VInv, StoreOK, SamplesOK

---------------------------------------------------------------------------
(* Requests.                                                               *)

\* What a model predicts.
LEMMA PredictType ==
  ASSUME ParamsOK, NEW o \in OpTypes, NEW size \in Nat
  PROVE  latency_model_predict(o, size) \in Nat
<1>1. PICK base, slope \in Nat : base = params[o].base /\ slope = params[o].slope
  BY DEF ParamsOK, ParamType
<1>2. CASE size > LM_BLOCK_SIZE_THRESHOLD
  <2>1. PICK n \in Nat : n = size - LM_BLOCK_SIZE_THRESHOLD /\ n # 0
    BY <1>2 DEF LM_BLOCK_SIZE_THRESHOLD
  <2>2. PICK blocks \in Nat : blocks = CeilDiv(n, 1024)
    BY <2>1, Blocks
  <2>3. base + slope * blocks \in Nat
    OBVIOUS
  <2>4. QED
    BY <1>1, <1>2, <2>1, <2>2, <2>3 DEF latency_model_predict
<1>3. CASE ~(size > LM_BLOCK_SIZE_THRESHOLD)
  BY <1>1, <1>3 DEF latency_model_predict
<1>4. QED
  BY <1>2, <1>3

\* A request.
LEMMA InsertKeepsValues ==
  ASSUME TInv, VInv, NEW k \in setup.kinds, insert_request(k)
  PROVE  VInv'
<1>1. PICK r : r = [kind |-> k, start |-> now, pred |-> latency_model_predict(k.op, k.size)]
  OBVIOUS
<1>2. /\ inFlight' = inFlight (+) SetToBag({r})
      /\ UNCHANGED <<setup, now, last_completed_time, last_completed_pos, modelVars, pc, local,
                     store, samples>>
  BY <1>1 DEF insert_request, sysfsVars, ghosts
<1>3. r \in RequestType
  <2>1. k.op \in OpTypes /\ k.size \in Nat
    BY SetupValues DEF TInv
  <2>2. latency_model_predict(k.op, k.size) \in Nat
    BY <2>1, PredictType DEF VInv
  <2>3. now \in Times
    BY DEF VInv, ClockOK
  <2>4. QED
    BY <1>1, <2>2, <2>3 DEF RequestType
<1>4. BagToSet(inFlight') = BagToSet(inFlight) \cup {r}
  BY <1>2 DEF BagToSet, SetToBag, (+)
<1>5. ClockOK' /\ InFlightOK'
  BY <1>2, <1>3, <1>4 DEF VInv, ClockOK, InFlightOK, Times, RequestType
<1>6. ParamsOK' /\ BucketsTyped' /\ LocksOK' /\ StoreOK' /\ SamplesOK'
  BY <1>2, ModelsStay, RestStays
<1>7. \A d \in CPUs : ValuesOK(local[d], pc[d])'
  BY <1>2, ValuesStay DEF VInv
<1>8. QED
  BY <1>5, <1>6, <1>7 DEF VInv

\* A completion begins.
LEMMA CompletionKeepsValues ==
  ASSUME TInv, VInv, NEW c \in online, NEW r \in BagToSet(inFlight), adios_completed_request(c, r)
  PROVE  VInv'
<1>1. /\ inFlight' = inFlight (-) SetToBag({r})
      /\ UNCHANGED <<setup, now, last_completed_time, modelVars, store, samples>>
      /\ last_completed_pos' \in {0, last_completed_pos}
  BY DEF adios_completed_request, sysfsVars, ghosts
<1>2. BagToSet(inFlight') \subseteq BagToSet(inFlight)
  BY <1>1 DEF BagToSet, SetToBag, (-)
<1>3. ClockOK' /\ InFlightOK'
  BY <1>1, <1>2 DEF VInv, ClockOK, InFlightOK, Times, RequestType
<1>4. ParamsOK' /\ BucketsTyped' /\ LocksOK' /\ StoreOK' /\ SamplesOK'
  BY <1>1, ModelsStay, RestStays
<1>5. \A d \in CPUs : ValuesOK(local[d], pc[d])'
  <2>1. CASE UNCHANGED <<pc, local>>
    BY <1>1, <2>1, ValuesStay DEF VInv
  <2>2. CASE r.kind.op # ADIOS_OTHER
    <3>1. PICK l : l = [NoLocal EXCEPT !.rq = r, !.now = now, !.count = BagCardinality(inFlight) - 1]
      OBVIOUS
    <3>2. To(c, "measure", l)
      BY <2>2, <3>1 DEF adios_completed_request
    <3>3. l.rq = r /\ l.now = now
      BY <3>1 DEF NoLocal
    <3>4. r \in RequestType /\ now \in Times
      BY DEF VInv, InFlightOK, ClockOK
    <3>5. ValuesOK(l, "measure")
      BY <3>3, <3>4 DEF ValuesOK, Updating
    <3>6. c \in CPUs /\ LocalsOK
      BY SetupType DEF TInv
    <3>7. QED
      BY <1>1, <3>2, <3>5, <3>6, ValuesGo DEF VInv
  <2>3. QED
    BY <2>1, <2>2 DEF adios_completed_request
<1>6. QED
  BY <1>3, <1>4, <1>5 DEF VInv

\* The weight of a sample.
LEMMA SeekWeightType ==
  ASSUME NEW distance
  PROVE  SeekWeight(distance) \in Nat
<1>1. PICK n \in Int : n = 63
  OBVIOUS
<1>2. IsFiniteSet(0..n)
  BY FS_Interval
<1>3. PICK K : K = {k \in 0..n : \A j \in 0..k : 2 ^ j <= distance}
  OBVIOUS
<1>4. IsFiniteSet(K)
  BY <1>2, <1>3, FS_Subset
<1>5. Cardinality(K) \in Nat
  BY <1>4, FS_CardinalityType
<1>6. SeekWeight(distance) = 1 + Cardinality(K)
  BY <1>1, <1>3 DEF SeekWeight
<1>7. QED
  BY <1>5, <1>6

\* A latency is measured.
LEMMA MeasureKeepsValues ==
  ASSUME TInv, VInv, NEW c \in online, Measure(c)
  PROVE  VInv'
<1>1. PICK was, k, lct, d, w, latency, done :
        /\ was = local[c] /\ k = was.rq.kind
        /\ lct = (IF last_completed_time # 0 THEN last_completed_time ELSE was.rq.start)
        /\ d = (IF k.pos >= last_completed_pos THEN k.pos - last_completed_pos
                ELSE last_completed_pos - k.pos)
        /\ w = (IF setup.rotational /\ last_completed_pos > 0 THEN SeekWeight(d) ELSE 1)
        /\ latency = was.now - lct
        /\ done = [NoLocal EXCEPT !.rq = [was.rq EXCEPT !.start = 0], !.latency = latency, !.weight = w]
  OBVIOUS
<1>2. /\ pc[c] = "measure" /\ UNCHANGED <<setup, now, inFlight, modelVars, store, samples>>
      /\ last_completed_time' = (IF was.count > 0 THEN was.now ELSE 0)
  BY <1>1 DEF Measure, sysfsVars, ghosts
<1>3. \/ Return(c) /\ UNCHANGED last_completed_pos
      \/ /\ ~(was.now < lct)
         /\ last_completed_pos' = (IF setup.rotational THEN k.pos + k.size \div 512
                                   ELSE last_completed_pos)
         /\ To(c, "input", done)
  BY <1>1 DEF Measure
<1>4. c \in CPUs /\ LocalsOK
  BY SetupType DEF TInv
<1>5. was.rq \in RequestType /\ was.now \in Times
  BY <1>1, <1>2, <1>4 DEF VInv, ValuesOK
<1>6. Times \subseteq Nat /\ k \in [op : OpTypes, size : Nat \ {0}, pos : Nat] /\ k \in setup.kinds
  BY <1>1, <1>5, SetupValues DEF TInv, RequestType
<1>7. ClockOK'
  <2>1. last_completed_time' \in Times \cup {0}
    BY <1>2, <1>5
  <2>2. k.pos + k.size \div 512 \in Nat
    <3>1. PICK p, s \in Nat : p = k.pos /\ s = k.size
      BY <1>6
    <3>2. s \div 512 \in Nat
      OBVIOUS
    <3>3. QED
      BY <3>1, <3>2
  <2>3. last_completed_pos' \in Nat
    BY <1>3, <2>2 DEF VInv, ClockOK
  <2>4. QED
    BY <1>2, <2>1, <2>3 DEF VInv, ClockOK, Times
<1>8. InFlightOK'
  BY <1>2 DEF VInv, InFlightOK, Times, RequestType
<1>9. ParamsOK' /\ BucketsTyped' /\ LocksOK' /\ StoreOK' /\ SamplesOK'
  BY <1>2, ModelsStay, RestStays
<1>10. \A e \in CPUs : ValuesOK(local[e], pc[e])'
  <2>1. CASE Return(c)
    BY <1>2, <1>4, <2>1, IdleValues, ValuesGo DEF VInv, Return
  <2>2. CASE ~(was.now < lct) /\ To(c, "input", done)
    <3>1. lct \in Nat /\ was.now \in Nat
      BY <1>1, <1>5, <1>6 DEF VInv, ClockOK, RequestType
    <3>2. latency \in Nat
      BY <1>1, <2>2, <3>1
    <3>3. w \in Nat
      BY <1>1, SeekWeightType
    <3>4. PICK q : q = [was.rq EXCEPT !.start = 0]
      OBVIOUS
    <3>5. q.kind = k /\ q.pred \in Nat
      BY <1>1, <1>5, <3>4 DEF RequestType
    <3>6. /\ done.rq = q /\ done.latency = latency /\ done.weight = w
          /\ done.models = <<>> /\ <<>> \in Seq(OpTypes)
      BY <1>1, <3>4 DEF NoLocal
    <3>7. ValuesOK(done, "input")
      BY <1>6, <3>2, <3>3, <3>5, <3>6 DEF ValuesOK, Updating
    <3>8. QED
      BY <1>2, <1>4, <2>2, <3>7, ValuesGo DEF VInv
  <2>3. QED
    BY <1>3, <2>1, <2>2
<1>11. QED
  BY <1>7, <1>8, <1>9, <1>10 DEF VInv

---------------------------------------------------------------------------
(* Samples.                                                                *)

\* There are 64 buckets, however long a latency is.
LEMMA IndexType ==
  ASSUME NEW latency \in Nat, NEW predicted \in Nat \ {0}
  PROVE  BucketIndex(latency, predicted) \in 0..LM_LAT_BUCKET_COUNT - 1
<1>1. PICK x : x = lm_input_bucket_index(latency, predicted)
  OBVIOUS
<1>2. x \in Nat
  <2>1. PICK y : y = IF latency < predicted * 2 THEN (latency * 20) \div predicted
                     ELSE IF latency < predicted * 5 THEN (latency * 10) \div predicted + 20
                     ELSE (latency * 3) \div predicted + 40
    OBVIOUS
  <2>2. \A m \in Nat : (latency * m) \div predicted \in Nat
    <3> TAKE m \in Nat
    <3>1. PICK n \in Nat : n = latency * m
      OBVIOUS
    <3>2. n \div predicted \in Nat
      BY ONLY predicted \in Nat \ {0}, n \in Nat
    <3>3. QED
      BY <3>1, <3>2
  <2>3. PICK a, b, e \in Nat : /\ a = (latency * 20) \div predicted
                               /\ b = (latency * 10) \div predicted
                               /\ e = (latency * 3) \div predicted
    BY <2>2
  <2>4. y = a \/ y = b + 20 \/ y = e + 40
    BY <2>1, <2>3
  <2>5. y \in Nat
    BY ONLY <2>4, a \in Nat, b \in Nat, e \in Nat
  <2>6. y % 256 \in Nat
    BY ONLY <2>5
  <2>7. x = y % 256
    BY <1>1, <2>1 DEF lm_input_bucket_index
  <2>8. QED
    BY <2>6, <2>7
<1>3. PICK n \in Nat : n = LM_LAT_BUCKET_COUNT - 1
  BY DEF LM_LAT_BUCKET_COUNT
<1>4. PICK S : S = {x, n}
  OBVIOUS
<1>5. S \subseteq Nat /\ S # {}
  BY <1>2, <1>4
<1>6. Min(S) \in S /\ \A i \in S : Min(S) <= i
  BY <1>5, MinIsLeast
<1>7. PICK i : i = Min(S)
  OBVIOUS
<1>8. i \in Nat /\ i <= n
  BY <1>4, <1>5, <1>6, <1>7
<1>9. BucketIndex(latency, predicted) = i
  BY <1>1, <1>3, <1>4, <1>7 DEF BucketIndex
<1>10. QED
  BY ONLY <1>3, <1>8, <1>9

\* A bucket is chosen, and read.
LEMMA InputKeepsValues ==
  ASSUME TInv, VInv, NEW c \in online, latency_model_input(c)
  PROVE  VInv'
<1>1. pc[c] = "input" /\ UNCHANGED <<setup, deviceVars, modelVars, store, samples>>
  BY DEF latency_model_input, sysfsVars, ghosts
<1>2. c \in CPUs /\ LocalsOK /\ LocalOK(local[c], "input")
  BY <1>1, SetupType DEF TInv, LocalsOK
<1>3. PICK was, o, base, pred : was = local[c] /\ o = was.rq.kind.op /\ base = params[o].base /\ pred = was.rq.pred
  OBVIOUS
<1>4a. PICK i, j, m :
         /\ i = BucketIndex(was.latency, IF base = 0 THEN 1 ELSE base)
         /\ j = BucketIndex(was.latency, pred)
         /\ m = (IF base = 0 THEN <<o>> ELSE <<>>)
  OBVIOUS
<1>4b. PICK b, d : b = Bucket(pcpu_buckets[o][c].small, i) /\ d = Bucket(pcpu_buckets[o][c].large, j)
  OBVIOUS
<1>4. PICK small, large :
        /\ small = [was EXCEPT !.index = i, !.old = b, !.models = m]
        /\ large = [was EXCEPT !.index = j, !.old = d]
  OBVIOUS
<1>5. \/ To(c, "weight", small)
      \/ To(c, "rearm", NoLocal)
      \/ ~(base = 0 \/ pred = 0) /\ To(c, "weight", large)
  BY <1>3, <1>4, <1>4a, <1>4b DEF latency_model_input
<1>6. /\ was.rq.kind \in setup.kinds /\ pred \in Nat /\ was.models \in Seq(OpTypes)
      /\ was.latency \in Nat /\ was.weight \in Nat /\ DOMAIN was = Fields
  BY <1>1, <1>2, <1>3 DEF VInv, ValuesOK, LocalOK
<1>7. o \in OpTypes
  BY <1>3, <1>6, SetupValues DEF TInv
<1>8. base \in Nat
  BY <1>3, <1>7 DEF VInv, ParamsOK, ParamType
<1>9. b \in BucketType /\ d \in BucketType
  <2>1. PairOK(pcpu_buckets[o][c])
    BY <1>2, <1>7 DEF VInv, BucketsTyped
  <2>2. PartOK(pcpu_buckets[o][c].small) /\ PartOK(pcpu_buckets[o][c].large)
    BY <2>1 DEF PairOK
  <2>3. QED
    BY <1>4b, <2>2, BucketOfPart
<1>10. m \in Seq(OpTypes)
  BY <1>4a, <1>7
<1>11. i \in 0..LM_LAT_BUCKET_COUNT - 1
  <2>1. PICK p : p = IF base = 0 THEN 1 ELSE base
    OBVIOUS
  <2>2. p \in Nat \ {0}
    BY <1>8, <2>1
  <2>3. i = BucketIndex(was.latency, p)
    BY <1>4a, <2>1
  <2>4. QED
    BY <1>6, <2>2, <2>3, IndexType
<1>12. pred # 0 => j \in 0..LM_LAT_BUCKET_COUNT - 1
  BY <1>4a, <1>6, IndexType
<1>13. /\ small.rq = was.rq /\ small.latency = was.latency /\ small.weight = was.weight
       /\ small.index = i /\ small.old = b /\ small.models = m
       /\ large.rq = was.rq /\ large.latency = was.latency /\ large.weight = was.weight
       /\ large.index = j /\ large.old = d /\ large.models = was.models
  BY <1>4, <1>6 DEF Fields, NoLocal
<1>14. ValuesOK(small, "weight")
  BY <1>3, <1>6, <1>9, <1>10, <1>11, <1>13 DEF ValuesOK, Updating
<1>15. pred # 0 => ValuesOK(large, "weight")
  BY <1>3, <1>6, <1>9, <1>12, <1>13 DEF ValuesOK, Updating
<1>16. \A e \in CPUs : ValuesOK(local[e], pc[e])'
  <2>1. CASE To(c, "weight", small)
    BY <1>1, <1>2, <1>14, <2>1, ValuesGo DEF VInv
  <2>2. CASE To(c, "rearm", NoLocal)
    BY <1>1, <1>2, <2>2, IdleValues, ValuesGo DEF VInv
  <2>3. CASE pred # 0 /\ To(c, "weight", large)
    BY <1>1, <1>2, <1>15, <2>3, ValuesGo DEF VInv
  <2>4. QED
    BY <1>5, <2>1, <2>2, <2>3
<1>17. QED
  BY <1>1, <1>16, DeviceStays, ModelsStay, RestStays DEF VInv

\* A bucket of one CPU is written: the others stay, and the small ones of this
\* CPU weigh what the new bucket does more, and the old one less.
LEMMA BucketSet ==
  ASSUME TInv, VInv, NEW c \in CPUs, NEW o \in OpTypes, NEW k, NEW i \in 0..LM_LAT_BUCKET_COUNT - 1,
         k = local[c].rq.kind, o = k.op, i = local[c].index, NEW b \in BucketType, SetBucket(c, b)
  PROVE  /\ \A p \in OpTypes, d \in CPUs : /\ PairOK(pcpu_buckets'[p][d])
                                           /\ p # o \/ d # c => pcpu_buckets'[p][d] = pcpu_buckets[p][d]
         /\ Part(k) = "small" =>
              Weight(pcpu_buckets'[o][c].small) + Own(c).weight = Weight(pcpu_buckets[o][c].small) + b.weight
         /\ Part(k) = "large" => pcpu_buckets'[o][c].small = pcpu_buckets[o][c].small
<1>1. PICK old, part, f, n, new :
        /\ old = pcpu_buckets[o][c] /\ part = Part(k) /\ f = old[part]
        /\ n = WithBucket(f, i, b) /\ new = [old EXCEPT ![part] = n]
  OBVIOUS
<1>2. pcpu_buckets' = [pcpu_buckets EXCEPT ![o][c][part] = WithBucket(@, i, b)]
  BY <1>1 DEF SetBucket
<1>3. /\ DOMAIN pcpu_buckets = OpTypes /\ \A p \in OpTypes : DOMAIN pcpu_buckets[p] = CPUs
  BY DEF TInv, BucketsThere
<1>4. PairOK(old)
  BY <1>1 DEF VInv, BucketsTyped
<1>5. part \in {"small", "large"}
  BY <1>1 DEF Part
<1>6. pcpu_buckets'[o][c] = new
  BY <1>1, <1>2, <1>3
<1>7. \A p \in OpTypes, d \in CPUs : p # o \/ d # c => pcpu_buckets'[p][d] = pcpu_buckets[p][d]
  BY <1>2, <1>3
<1>8. PartOK(f)
  BY <1>1, <1>4, <1>5 DEF PairOK
<1>9. PartOK(n) /\ Weight(n) + Bucket(f, i).weight = Weight(f) + b.weight
  BY <1>1, <1>8, WithBucketOK
<1>10. /\ old = [small |-> old.small, large |-> old.large]
       /\ PartOK(old.small) /\ PartOK(old.large)
  BY <1>4 DEF PairOK
<1>11. CASE part = "small"
  <2>1. new.small = n /\ new.large = old.large /\ new = [small |-> n, large |-> old.large] /\ f = old.small
    BY <1>1, <1>10, <1>11
  <2>2. PairOK(new)
    BY <1>9, <1>10, <2>1 DEF PairOK
  <2>3. Own(c) = Bucket(f, i)
    BY <1>1 DEF Own
  <2>4. ASSUME NEW p \in OpTypes, NEW d \in CPUs PROVE PairOK(pcpu_buckets'[p][d])
    <3>1. CASE p = o /\ d = c
      BY <1>6, <2>2, <3>1
    <3>2. CASE p # o \/ d # c
      BY <1>7, <3>2 DEF VInv, BucketsTyped
    <3>3. QED
      BY <3>1, <3>2
  <2>5. Part(k) # "large"
    BY <1>1, <1>11
  <2>6. QED
    BY <1>1, <1>6, <1>7, <1>9, <2>1, <2>3, <2>4, <2>5
<1>12. CASE part = "large"
  <2>1. new.small = old.small /\ new.large = n /\ new = [small |-> old.small, large |-> n] /\ f = old.large
    BY <1>1, <1>10, <1>12
  <2>2. PairOK(new)
    BY <1>9, <1>10, <2>1 DEF PairOK
  <2>3. ASSUME NEW p \in OpTypes, NEW d \in CPUs PROVE PairOK(pcpu_buckets'[p][d])
    <3>1. CASE p = o /\ d = c
      BY <1>6, <2>2, <3>1
    <3>2. CASE p # o \/ d # c
      BY <1>7, <3>2 DEF VInv, BucketsTyped
    <3>3. QED
      BY <3>1, <3>2
  <2>4. Part(k) # "small"
    BY <1>1, <1>12
  <2>5. QED
    BY <1>1, <1>6, <1>7, <2>1, <2>3, <2>4
<1>13. QED
  BY <1>5, <1>11, <1>12

\* What a CPU knows that writes its sample.
LEMMA OwnType ==
  ASSUME TInv, VInv, NEW c \in online, pc[c] \in {"weight", "latency"}
  PROVE  LET l == local[c]
         IN  /\ c \in CPUs /\ ValuesOK(l, pc[c]) /\ l.rq.kind.op \in OpTypes /\ l.rq.kind.size \in Nat
             /\ l.index \in 0..LM_LAT_BUCKET_COUNT - 1 /\ l.old \in BucketType
             /\ l.weight \in Nat /\ l.latency \in Nat /\ l.models \in Seq(OpTypes)
             /\ Own(c) \in BucketType
<1>1. PICK was, k, o, i : was = local[c] /\ k = was.rq.kind /\ o = k.op /\ i = was.index
  OBVIOUS
<1>2. c \in CPUs
  BY SetupType DEF TInv
<1>3. ValuesOK(was, pc[c])
  BY <1>1, <1>2 DEF VInv
<1>4. /\ k \in setup.kinds /\ i \in 0..LM_LAT_BUCKET_COUNT - 1 /\ was.old \in BucketType
      /\ was.weight \in Nat /\ was.latency \in Nat /\ was.models \in Seq(OpTypes)
  BY <1>1, <1>3 DEF ValuesOK
<1>5. o \in OpTypes /\ k.size \in Nat
  BY <1>1, <1>4, SetupValues DEF TInv
<1>6. Own(c) \in BucketType
  <2>1. PairOK(pcpu_buckets[o][c])
    BY <1>2, <1>5 DEF VInv, BucketsTyped
  <2>2. Part(k) \in {"small", "large"}
    BY DEF Part
  <2>3. PICK f : f = pcpu_buckets[o][c][Part(k)] /\ PartOK(f)
    BY <2>1, <2>2 DEF PairOK
  <2>4. Own(c) = Bucket(f, i)
    BY <1>1, <2>3 DEF Own
  <2>5. QED
    BY <2>3, <2>4, BucketOfPart
<1>7. QED
  BY <1>1, <1>2, <1>3, <1>4, <1>5, <1>6

\* The weight is written.
LEMMA WeightKeepsValues ==
  ASSUME TInv, VInv, NEW c \in online, AddWeight(c)
  PROVE  VInv'
<1>1. PICK was, k, o, i, b :
        /\ was = local[c] /\ k = was.rq.kind /\ o = k.op /\ i = was.index
        /\ b = [Own(c) EXCEPT !.weight = was.old.weight + was.weight]
  OBVIOUS
<1>2. /\ pc[c] = "weight" /\ UNCHANGED <<setup, deviceVars, params, aggr_buckets, update_lock, store>>
      /\ SetBucket(c, b) /\ To(c, "latency", was)
      /\ samples' = samples \/ samples' = samples + was.weight
  BY <1>1 DEF AddWeight, sysfsVars
<1>3. c \in CPUs /\ LocalsOK
  BY SetupType DEF TInv
<1>4. ValuesOK(was, "weight")
  BY <1>1, <1>2, OwnType
<1>5. i \in 0..LM_LAT_BUCKET_COUNT - 1 /\ was.weight \in Nat /\ was.old \in BucketType
  BY <1>1, <1>2, OwnType
<1>6. o \in OpTypes
  BY <1>1, <1>2, OwnType
<1>7. b \in BucketType
  <2>1. Own(c) \in BucketType
    BY <1>2, OwnType
  <2>2. was.old.weight + was.weight \in Nat
    BY <1>5 DEF BucketType
  <2>3. QED
    BY <1>1, <2>1, <2>2 DEF BucketType
<1>8. BucketsTyped'
  <2>1. \A p \in OpTypes, d \in CPUs : PairOK(pcpu_buckets'[p][d])
    BY <1>1, <1>2, <1>3, <1>5, <1>6, <1>7, BucketSet
  <2>2. QED
    BY <1>2, <2>1 DEF VInv, BucketsTyped
<1>9. ParamsOK' /\ LocksOK' /\ StoreOK'
  BY <1>2 DEF VInv, ParamsOK, LocksOK, StoreOK, online
<1>10. SamplesOK'
  BY <1>2, <1>5 DEF VInv, SamplesOK
<1>11. ValuesOK(was, "latency")
  BY <1>4 DEF ValuesOK, Updating
<1>12. \A e \in CPUs : ValuesOK(local[e], pc[e])'
  BY <1>2, <1>3, <1>11, ValuesGo DEF VInv
<1>13. QED
  BY <1>2, <1>8, <1>9, <1>10, <1>12, DeviceStays DEF VInv

\* The sums of the latency and of the size are written.
LEMMA LatencyKeepsValues ==
  ASSUME TInv, VInv, NEW c \in online, AddLatency(c)
  PROVE  VInv'
<1>1. PICK was, k, o, i, x, y, b :
        /\ was = local[c] /\ k = was.rq.kind /\ o = k.op /\ i = was.index
        /\ x = was.old.latency + was.latency * was.weight
        /\ y = (IF Part(k) = "large" THEN was.old.bsize + k.size * was.weight ELSE 0)
        /\ b = [Own(c) EXCEPT !.latency = x, !.bsize = y]
  OBVIOUS
<1>2. PICK m, updater : m = was.models /\ updater = [NoLocal EXCEPT !.models = m]
  OBVIOUS
<1>3. /\ pc[c] = "latency" /\ SetBucket(c, b)
      /\ UNCHANGED <<setup, deviceVars, params, aggr_buckets, update_lock, store, samples>>
      /\ \/ m # <<>> /\ To(c, "lock", updater)
         \/ To(c, "rearm", NoLocal)
  BY <1>1, <1>2 DEF AddLatency, sysfsVars, ghosts
<1>4. c \in CPUs /\ LocalsOK
  BY SetupType DEF TInv
<1>5. i \in 0..LM_LAT_BUCKET_COUNT - 1 /\ was.weight \in Nat /\ was.latency \in Nat
  BY <1>1, <1>3, OwnType
<1>6. was.old \in BucketType /\ m \in Seq(OpTypes)
  BY <1>1, <1>2, <1>3, OwnType
<1>7. o \in OpTypes /\ k.size \in Nat
  BY <1>1, <1>3, OwnType
<1>8. b \in BucketType
  <2>1. Own(c) \in BucketType
    BY <1>3, OwnType
  <2>2. x \in Nat /\ y \in Nat
    <3>1. was.latency * was.weight \in Nat /\ k.size * was.weight \in Nat
      BY <1>5, <1>7
    <3>2. was.old.latency \in Nat /\ was.old.bsize \in Nat
      BY <1>6 DEF BucketType
    <3>3. QED
      BY <1>1, <3>1, <3>2
  <2>3. QED
    BY <1>1, <2>1, <2>2 DEF BucketType
<1>9. BucketsTyped'
  <2>1. \A p \in OpTypes, d \in CPUs : PairOK(pcpu_buckets'[p][d])
    BY <1>1, <1>3, <1>4, <1>5, <1>7, <1>8, BucketSet
  <2>2. QED
    BY <1>3, <2>1 DEF VInv, BucketsTyped
<1>10. ParamsOK' /\ LocksOK' /\ StoreOK' /\ SamplesOK'
  BY <1>3 DEF VInv, ParamsOK, LocksOK, StoreOK, SamplesOK, online
<1>11. \A e \in CPUs : ValuesOK(local[e], pc[e])'
  <2>1. CASE m # <<>> /\ To(c, "lock", updater)
    <3>1. updater.models = m
      BY <1>2 DEF NoLocal
    <3>2. ValuesOK(updater, "lock")
      BY <1>6, <2>1, <3>1 DEF ValuesOK
    <3>3. QED
      BY <1>3, <1>4, <2>1, <3>2, ValuesGo DEF VInv
  <2>2. CASE To(c, "rearm", NoLocal)
    BY <1>3, <1>4, <2>2, IdleValues, ValuesGo DEF VInv
  <2>3. QED
    BY <1>3, <2>1, <2>2
<1>12. QED
  BY <1>3, <1>9, <1>10, <1>11, DeviceStays DEF VInv

\* The timer is started, or its callback begins.
LEMMA TimerKeepsValues ==
  ASSUME TInv, VInv, NEW c \in online, timer_reduce(c) \/ update_timer_callback(c)
  PROVE  VInv'
<1>1. UNCHANGED <<setup, deviceVars, modelVars, store, samples>>
  BY DEF timer_reduce, update_timer_callback, sysfsVars, ghosts
<1>2. PICK l, step : /\ To(c, step, l)
                     /\ \/ step = "idle"
                        \/ step = "lock" /\ l = [NoLocal EXCEPT !.models = <<0, 1, 2, 3>>, !.timer = TRUE]
  BY DEF timer_reduce, update_timer_callback, Return
<1>3. ValuesOK(l, step)
  <2>1. CASE step = "idle"
    BY <2>1, IdleValues
  <2>2. CASE step = "lock" /\ l = [NoLocal EXCEPT !.models = <<0, 1, 2, 3>>, !.timer = TRUE]
    <3>1. l.models = <<0, 1, 2, 3>>
      BY <2>2 DEF NoLocal
    <3>2. <<0, 1, 2, 3>> \in Seq(OpTypes) /\ <<0, 1, 2, 3>> # <<>>
      BY DEF OpTypes
    <3>3. QED
      BY <2>2, <3>1, <3>2 DEF ValuesOK
  <2>3. QED
    BY <1>2, <2>1, <2>2
<1>4. c \in CPUs /\ LocalsOK
  BY SetupType DEF TInv
<1>5. \A e \in CPUs : ValuesOK(local[e], pc[e])'
  BY <1>1, <1>2, <1>3, <1>4, ValuesGo DEF VInv
<1>6. QED
  BY <1>1, <1>5, DeviceStays, ModelsStay, RestStays DEF VInv

---------------------------------------------------------------------------
(* Updates.                                                                *)

\* Where a CPU goes from the update of a model.
LEMMA NextModelValues ==
  ASSUME NEW c, LocalOK(local[c], pc[c]), NextModel(c),
         local[c].models \in Seq(OpTypes)
  PROVE  \E step, l : To(c, step, l) /\ ValuesOK(l, step) /\ step \in {"lock", "idle", "rearm"}
<1>1. PICK step, l :
        /\ To(c, step, l)
        /\ \/ step = "lock" /\ Len(local[c].models) > 1 /\ l.models = Tail(local[c].models)
           \/ step \in {"idle", "rearm"}
  BY AfterModel
<1>2. CASE step = "lock" /\ Len(local[c].models) > 1 /\ l.models = Tail(local[c].models)
  <2>1. PICK q \in Seq(OpTypes) : q = local[c].models
    OBVIOUS
  <2>2. l.models \in Seq(OpTypes) /\ l.models # <<>>
    <3>1. Len(q) > 1 /\ l.models = Tail(q)
      BY <1>2, <2>1
    <3>2. Tail(q) \in Seq(OpTypes) /\ Tail(q) # <<>>
      BY ONLY <3>1, q \in Seq(OpTypes)
    <3>3. QED
      BY <3>1, <3>2
  <2>3. ValuesOK(l, step)
    BY <1>2, <2>2 DEF ValuesOK
  <2>4. QED
    BY <1>1, <1>2, <2>3
<1>3. CASE step \in {"idle", "rearm"}
  BY <1>1, <1>3, IdleValues
<1>4. QED
  BY <1>1, <1>2, <1>3

\* The update of a model begins, or gives up.
LEMMA LockKeepsValues ==
  ASSUME TInv, VInv, NEW c \in online, LockModel(c)
  PROVE  VInv'
<1>1. PICK was, o, next : was = local[c] /\ o = Head(was.models) /\ next = [was EXCEPT !.left = online]
  OBVIOUS
<1>2. /\ pc[c] = "lock" /\ UNCHANGED <<setup, deviceVars, params, pcpu_buckets, aggr_buckets, store, samples>>
      /\ \/ update_lock' = [update_lock EXCEPT ![o] = c] /\ To(c, "collect", next)
         \/ update_lock' = update_lock /\ NextModel(c)
  BY <1>1 DEF LockModel, ghosts
<1>3. c \in CPUs /\ LocalsOK /\ LocalOK(was, "lock")
  BY <1>1, <1>2, SetupType DEF TInv, LocalsOK
<1>4. ValuesOK(was, "lock")
  BY <1>1, <1>2, <1>3 DEF VInv
<1>5. was.models \in Seq(OpTypes) /\ was.models # <<>>
  BY <1>4 DEF ValuesOK, Updating
<1>6. ParamsOK' /\ BucketsTyped' /\ StoreOK' /\ SamplesOK'
  BY <1>2 DEF VInv, ParamsOK, BucketsTyped, StoreOK, SamplesOK
<1>7. LocksOK'
  <2>1. online' = online
    BY <1>2 DEF online
  <2>2. c \in online \cup {NoOne}
    OBVIOUS
  <2>3. update_lock' \in [OpTypes -> online \cup {NoOne}]
    BY <1>2, <2>2 DEF VInv, LocksOK
  <2>4. QED
    BY <2>1, <2>3 DEF LocksOK
<1>8. \A e \in CPUs : ValuesOK(local[e], pc[e])'
  <2>1. CASE To(c, "collect", next)
    <3>1. PICK left : left = online
      OBVIOUS
    <3>2. next.models = was.models /\ next.left = left
      BY <1>1, <1>3, <3>1, WithLeft DEF LocalOK
    <3>3. left \in (SUBSET online) \ {{}}
      BY <3>1, SetupValues DEF TInv
    <3>4. ValuesOK(next, "collect")
      BY <1>5, <3>2, <3>3 DEF ValuesOK
    <3>5. QED
      BY <1>2, <1>3, <2>1, <3>4, ValuesGo DEF VInv
  <2>2. CASE NextModel(c)
    <3>1. PICK step, l : To(c, step, l) /\ ValuesOK(l, step)
      BY <1>1, <1>2, <1>3, <1>5, <2>2, NextModelValues
    <3>2. QED
      BY <1>2, <1>3, <3>1, ValuesGo DEF VInv
  <2>3. QED
    BY <1>2, <2>1, <2>2
<1>9. QED
  BY <1>2, <1>6, <1>7, <1>8, DeviceStays DEF VInv

\* The CPU whose buckets are collected.
LEMMA CollectedType ==
  ASSUME TInv, VInv, NEW c \in online, pc[c] \in {"collect", "reset"}
  PROVE  /\ c \in CPUs /\ Collected(c) \in online /\ Collected(c) \in local[c].left
         /\ local[c].models \in Seq(OpTypes) /\ Head(local[c].models) \in OpTypes
<1>1. c \in CPUs
  BY SetupType DEF TInv
<1>2. ValuesOK(local[c], pc[c])
  BY <1>1 DEF VInv
<1>3. /\ local[c].models \in Seq(OpTypes) /\ local[c].models # <<>>
      /\ local[c].left \in (SUBSET online) \ {{}}
  BY <1>2 DEF ValuesOK, Updating
<1>4. PICK q \in Seq(OpTypes) : q = local[c].models /\ q # <<>>
  BY <1>3
<1>5. Head(q) \in OpTypes
  BY <1>4
<1>6. Collected(c) \in local[c].left
  BY <1>3 DEF Collected
<1>7. QED
  BY <1>1, <1>3, <1>4, <1>5, <1>6

\* Buckets are collected.
LEMMA CollectKeepsValues ==
  ASSUME TInv, VInv, NEW c \in online, CollectBuckets(c)
  PROVE  VInv'
<1>1. PICK was, o, d, b : /\ was = local[c] /\ o = Head(was.models) /\ d = Collected(c)
                          /\ b = pcpu_buckets[o][d]
  OBVIOUS
<1>2. /\ pc[c] = "collect" /\ UNCHANGED <<setup, deviceVars, params, pcpu_buckets, update_lock, store, samples>>
      /\ aggr_buckets' = [small |-> Aggregated(aggr_buckets.small, b.small),
                          large |-> Aggregated(aggr_buckets.large, b.large)]
      /\ To(c, "reset", was)
  BY <1>1 DEF CollectBuckets, sysfsVars, ghosts
<1>3. c \in CPUs /\ d \in CPUs /\ o \in OpTypes /\ LocalsOK
  BY <1>1, <1>2, CollectedType, SetupType DEF TInv
<1>4. PartOK(b.small) /\ PartOK(b.large) /\ PartOK(aggr_buckets.small) /\ PartOK(aggr_buckets.large)
  BY <1>1, <1>3 DEF VInv, BucketsTyped, PairOK
<1>5. PairOK(aggr_buckets')
  <2>1. PICK f, g : f = Aggregated(aggr_buckets.small, b.small) /\ g = Aggregated(aggr_buckets.large, b.large)
    OBVIOUS
  <2>2. PartOK(f) /\ PartOK(g)
    BY <1>4, <2>1, AggregatedOK
  <2>3. aggr_buckets' = [small |-> f, large |-> g]
    BY <1>2, <2>1
  <2>4. QED
    BY <2>2, <2>3 DEF PairOK
<1>6. ParamsOK' /\ BucketsTyped' /\ LocksOK' /\ StoreOK' /\ SamplesOK'
  BY <1>2, <1>5 DEF VInv, ParamsOK, BucketsTyped, LocksOK, StoreOK, SamplesOK, online
<1>7. ValuesOK(was, "reset")
  <2>1. ValuesOK(was, "collect")
    BY <1>1, <1>2, <1>3 DEF VInv
  <2>2. QED
    BY <2>1 DEF ValuesOK, Updating
<1>8. \A e \in CPUs : ValuesOK(local[e], pc[e])'
  BY <1>2, <1>3, <1>7, ValuesGo DEF VInv
<1>9. QED
  BY <1>2, <1>6, <1>8, DeviceStays DEF VInv

\* And cleared.
LEMMA ResetKeepsValues ==
  ASSUME TInv, VInv, NEW c \in online, ResetBuckets(c)
  PROVE  VInv'
<1>1. PICK was, o, d, left, next, step :
        /\ was = local[c] /\ o = Head(was.models) /\ d = Collected(c) /\ left = was.left \ {d}
        /\ next = [was EXCEPT !.left = left] /\ step = IF left = {} THEN "process" ELSE "collect"
  OBVIOUS
<1>2. /\ pc[c] = "reset" /\ UNCHANGED <<setup, deviceVars, params, aggr_buckets, update_lock, store, samples>>
      /\ pcpu_buckets' = [pcpu_buckets EXCEPT ![o][d] = NoBuckets] /\ To(c, step, next)
  BY <1>1 DEF ResetBuckets, sysfsVars, ghosts
<1>3. c \in CPUs /\ d \in CPUs /\ o \in OpTypes /\ LocalsOK /\ LocalOK(was, "reset")
  BY <1>1, <1>2, CollectedType, SetupType DEF TInv, LocalsOK
<1>4. ASSUME NEW p \in OpTypes, NEW e \in CPUs PROVE PairOK(pcpu_buckets'[p][e])
  <2>1. pcpu_buckets'[p][e] = NoBuckets \/ pcpu_buckets'[p][e] = pcpu_buckets[p][e]
    BY <1>2 DEF TInv, BucketsThere
  <2>2. QED
    BY <2>1, EmptyPart DEF VInv, BucketsTyped
<1>5. ParamsOK' /\ BucketsTyped' /\ LocksOK' /\ StoreOK' /\ SamplesOK'
  BY <1>2, <1>4 DEF VInv, ParamsOK, BucketsTyped, LocksOK, StoreOK, SamplesOK, online
<1>6. ValuesOK(next, step)
  <2>1. ValuesOK(was, "reset")
    BY <1>1, <1>2, <1>3 DEF VInv
  <2>2. was.models \in Seq(OpTypes) /\ was.models # <<>> /\ was.left \in (SUBSET online) \ {{}}
    BY <2>1 DEF ValuesOK, Updating
  <2>3. next.left = left /\ next.models = was.models
    BY <1>1, <1>3, WithLeft DEF LocalOK
  <2>4. step = "process" \/ (step = "collect" /\ left \in (SUBSET online) \ {{}})
    BY <1>1, <2>2
  <2>5. QED
    BY <2>2, <2>3, <2>4 DEF ValuesOK
<1>7. \A e \in CPUs : ValuesOK(local[e], pc[e])'
  BY <1>2, <1>3, <1>6, ValuesGo DEF VInv
<1>8. QED
  BY <1>2, <1>5, <1>7, DeviceStays DEF VInv

\* A model is made of what was collected.
LEMMA UpdateKeepsValues ==
  ASSUME TInv, VInv, NEW c \in online, UpdateModel(c)
  PROVE  VInv'
<1>1. PICK was, o, p : was = local[c] /\ o = Head(was.models) /\ p = UpdatedParams(params[o], aggr_buckets)
  OBVIOUS
<1>2. /\ pc[c] = "process" /\ UNCHANGED <<setup, deviceVars, pcpu_buckets, store, samples>>
      /\ params' = [params EXCEPT ![o] = p] /\ aggr_buckets' = Unprocessed(params[o], aggr_buckets)
      /\ update_lock' = [update_lock EXCEPT ![o] = NoOne] /\ NextModel(c)
  BY <1>1 DEF UpdateModel, sysfsVars, ghosts
<1>3. c \in CPUs /\ LocalsOK /\ LocalOK(local[c], pc[c])
  BY SetupType DEF TInv, LocalsOK
<1>4. was.models \in Seq(OpTypes) /\ was.models # <<>>
  <2>1. ValuesOK(was, "process")
    BY <1>1, <1>2, <1>3 DEF VInv
  <2>2. QED
    BY <2>1 DEF ValuesOK, Updating
<1>5. o \in OpTypes
  <2>1. PICK q \in Seq(OpTypes) : q = was.models /\ q # <<>>
    BY <1>4
  <2>2. Head(q) \in OpTypes
    BY <2>1
  <2>3. QED
    BY <1>1, <2>1, <2>2
<1>6. ParamsOK'
  <2>1. now \in Nat
    BY SetupValues DEF TInv, VInv, ClockOK
  <2>2. params[o] \in ParamType
    BY <1>5 DEF VInv, ParamsOK
  <2>3. p \in ParamType
    BY <1>1, <2>1, <2>2, UpdatedOK DEF VInv, BucketsTyped
  <2>4. QED
    BY <1>2, <2>3 DEF VInv, ParamsOK
<1>7. BucketsTyped'
  <2>1. PICK f, g : /\ f = (IF SmallDue(params[o], aggr_buckets) THEN <<>> ELSE aggr_buckets.small)
                    /\ g = (IF LargeDue(params[o], aggr_buckets) THEN <<>> ELSE aggr_buckets.large)
    OBVIOUS
  <2>2. aggr_buckets' = [small |-> f, large |-> g]
    BY <1>2, <2>1 DEF Unprocessed
  <2>3. PartOK(aggr_buckets.small) /\ PartOK(aggr_buckets.large)
    BY DEF VInv, BucketsTyped, PairOK
  <2>4. PartOK(f) /\ PartOK(g)
    BY <2>1, <2>3, EmptyPart
  <2>5. PairOK(aggr_buckets')
    BY <2>2, <2>4 DEF PairOK
  <2>6. QED
    BY <1>2, <2>5 DEF VInv, BucketsTyped
<1>8. LocksOK' /\ StoreOK' /\ SamplesOK'
  <2>1. online' = online
    BY <1>2 DEF online
  <2>2. update_lock' \in [OpTypes -> online \cup {NoOne}]
    BY <1>2 DEF VInv, LocksOK
  <2>3. QED
    BY <1>2, <2>1, <2>2 DEF VInv, LocksOK, StoreOK, SamplesOK
<1>9. \A e \in CPUs : ValuesOK(local[e], pc[e])'
  <2>1. PICK step, l : To(c, step, l) /\ ValuesOK(l, step)
    BY <1>1, <1>2, <1>3, <1>4, NextModelValues
  <2>2. QED
    BY <1>2, <1>3, <2>1, ValuesGo DEF VInv
<1>10. QED
  BY <1>2, <1>6, <1>7, <1>8, <1>9, DeviceStays DEF VInv

---------------------------------------------------------------------------
(* Stores.                                                                 *)

\* A model is to be cleared, or to be loaded with values.
LEMMA SetValue ==
  ASSUME NEW o \in OpTypes, NEW v, v = ZeroLoad \/ v \in Loads
  PROVE  Set(o, v) \in SetType
<1>1. v \in [base : Nat, slope : Nat]
  BY LatencyAssumption DEF ZeroLoad
<1>2. QED
  BY <1>1 DEF Set, SetType

\* A write to sysfs begins.
LEMMA StoringKeepsValues ==
  ASSUME TInv, VInv, Storing
  PROVE  VInv'
<1>1. UNCHANGED <<setup, deviceVars, modelVars, pc, local, samples>>
  BY DEF Storing, ghosts
<1>2. PICK todo, clear : /\ store' = [todo |-> todo, clear |-> clear]
                         /\ \/ todo = [i \in 1..4 |-> Set(i - 1, ZeroLoad)]
                            \/ \E v \in Loads : todo = [i \in 1..3 |-> Set(i - 1, v)]
                            \/ \E o \in setup.stored : \E v \in Loads : todo = <<Set(o, v)>>
                            \/ \E o \in setup.stored : todo = <<Set(o, ZeroLoad)>>
  <2>1. CASE BeginStore([todo |-> [i \in 1..4 |-> Set(i - 1, ZeroLoad)], clear |-> TRUE])
    <3>1. PICK t : t = [i \in 1..4 |-> Set(i - 1, ZeroLoad)]
      OBVIOUS
    <3>2. store' = [todo |-> t, clear |-> TRUE]
      BY <2>1, <3>1 DEF BeginStore
    <3>3. QED
      BY <3>1, <3>2
  <2>2. ASSUME NEW v \in Loads, BeginStore([todo |-> [i \in 1..3 |-> Set(i - 1, v)], clear |-> TRUE])
        PROVE  \E t : /\ store' = [todo |-> t, clear |-> TRUE]
                      /\ t = [i \in 1..3 |-> Set(i - 1, v)]
    BY <2>2 DEF BeginStore
  <2>3. ASSUME NEW o \in setup.stored, NEW v \in Loads, BeginStore([todo |-> <<Set(o, v)>>, clear |-> TRUE])
        PROVE  \E t : store' = [todo |-> t, clear |-> TRUE] /\ t = <<Set(o, v)>>
    BY <2>3 DEF BeginStore
  <2>4. ASSUME NEW o \in setup.stored, BeginStore([todo |-> <<Set(o, ZeroLoad)>>, clear |-> FALSE])
        PROVE  \E t : store' = [todo |-> t, clear |-> FALSE] /\ t = <<Set(o, ZeroLoad)>>
    BY <2>4 DEF BeginStore
  <2>5. CASE \E v \in Loads : BeginStore([todo |-> [i \in 1..3 |-> Set(i - 1, v)], clear |-> TRUE])
    <3>1. PICK v \in Loads : BeginStore([todo |-> [i \in 1..3 |-> Set(i - 1, v)], clear |-> TRUE])
      BY <2>5
    <3>2. PICK t : /\ store' = [todo |-> t, clear |-> TRUE]
                   /\ t = [i \in 1..3 |-> Set(i - 1, v)]
      BY <2>2, <3>1
    <3>3. QED
      BY <3>2
  <2>6. CASE \E o \in setup.stored : adios_lat_model_store(o)
    <3>1. PICK o \in setup.stored, v \in Loads : BeginStore([todo |-> <<Set(o, v)>>, clear |-> TRUE])
      BY <2>6 DEF adios_lat_model_store
    <3>2. PICK t : store' = [todo |-> t, clear |-> TRUE] /\ t = <<Set(o, v)>>
      BY <2>3, <3>1
    <3>3. QED
      BY <3>2
  <2>7. CASE \E o \in setup.stored : adios_lat_target_store(o)
    <3>1. PICK o \in setup.stored : BeginStore([todo |-> <<Set(o, ZeroLoad)>>, clear |-> FALSE])
      BY <2>7 DEF adios_lat_target_store
    <3>2. PICK t : store' = [todo |-> t, clear |-> FALSE] /\ t = <<Set(o, ZeroLoad)>>
      BY <2>4, <3>1
    <3>3. QED
      BY <3>2
  <2>8. QED
    BY <2>1, <2>5, <2>6, <2>7 DEF Storing, adios_reset_lat_model_store
<1>3. todo \in Seq(SetType)
  <2>1. CASE todo = [i \in 1..4 |-> Set(i - 1, ZeroLoad)]
    <3>1. ASSUME NEW i \in 1..4 PROVE Set(i - 1, ZeroLoad) \in SetType
      <4>1. i - 1 \in OpTypes
        BY DEF OpTypes
      <4>2. QED
        BY <4>1, SetValue
    <3>2. QED
      BY <2>1, <3>1
  <2>2. ASSUME NEW v \in Loads, todo = [i \in 1..3 |-> Set(i - 1, v)] PROVE todo \in Seq(SetType)
    <3>1. ASSUME NEW i \in 1..3 PROVE Set(i - 1, v) \in SetType
      <4>1. i - 1 \in OpTypes
        BY DEF OpTypes
      <4>2. QED
        BY <4>1, SetValue
    <3>2. QED
      BY <2>2, <3>1
  <2>3. ASSUME NEW o \in setup.stored, NEW v, v = ZeroLoad \/ v \in Loads, todo = <<Set(o, v)>>
        PROVE  todo \in Seq(SetType)
    <3>1. Set(o, v) \in SetType
      BY <2>3, SetValue, SetupValues DEF TInv
    <3>2. QED
      BY <2>3, <3>1
  <2>4. QED
    BY <1>2, <2>1, <2>2, <2>3
<1>4. StoreOK'
  BY <1>2, <1>3 DEF StoreOK, NoStore
<1>5. QED
  BY <1>1, <1>4, DeviceStays, ModelsStay, RestStays, ValuesStay DEF VInv

\* A value is stored in a model.
LEMMA SideloadKeepsValues ==
  ASSUME TInv, VInv, sideload_latency_model
  PROVE  VInv'
<1>1. PICK s : s = Head(store.todo)
  OBVIOUS
<1>2. /\ store.todo # <<>> /\ store' = [store EXCEPT !.todo = Tail(@)]
      /\ UNCHANGED <<setup, deviceVars, pc, local>>
  BY DEF sideload_latency_model
<1>3. \/ UNCHANGED <<modelVars, ghosts>>
      \/ /\ params' = [params EXCEPT ![s.op] =
              [base |-> s.base, small_sum_delay |-> s.base, small_count |-> 1,
               slope |-> s.slope, large_sum_delay |-> s.slope, large_sum_bsize |-> 1024,
               last_update |-> now]]
         /\ pcpu_buckets' = [pcpu_buckets EXCEPT ![s.op] = [c \in CPUs |-> NoBuckets]]
         /\ samples' = samples + 1 /\ UNCHANGED <<aggr_buckets, update_lock>>
  BY <1>1 DEF sideload_latency_model
<1>4. PICK q \in Seq(SetType) : q = store.todo /\ q # <<>>
  BY <1>2 DEF VInv, StoreOK
<1>5. s \in SetType /\ Tail(q) \in Seq(SetType)
  <2>1. Head(q) \in SetType /\ Tail(q) \in Seq(SetType)
    BY <1>4
  <2>2. QED
    BY <1>1, <1>4, <2>1
<1>6. StoreOK'
  <2>1. DOMAIN store = {"todo", "clear"}
    BY DEF VInv, StoreOK, NoStore
  <2>2. DOMAIN store' = DOMAIN store /\ store'.todo = Tail(q)
    BY <1>2, <1>4, <2>1
  <2>3. QED
    BY <1>5, <2>2 DEF VInv, StoreOK
<1>7. ParamsOK' /\ BucketsTyped' /\ LocksOK' /\ SamplesOK'
  <2>1. CASE UNCHANGED <<modelVars, ghosts>>
    BY <1>2, <2>1, ModelsStay, RestStays DEF ghosts
  <2>2. CASE /\ params' = [params EXCEPT ![s.op] =
                  [base |-> s.base, small_sum_delay |-> s.base, small_count |-> 1,
                   slope |-> s.slope, large_sum_delay |-> s.slope, large_sum_bsize |-> 1024,
                   last_update |-> now]]
             /\ pcpu_buckets' = [pcpu_buckets EXCEPT ![s.op] = [c \in CPUs |-> NoBuckets]]
             /\ samples' = samples + 1 /\ UNCHANGED <<aggr_buckets, update_lock>>
    <3>1. now \in Nat
      BY SetupValues DEF TInv, VInv, ClockOK
    <3>2. PICK p : p = [base |-> s.base, small_sum_delay |-> s.base, small_count |-> 1,
                        slope |-> s.slope, large_sum_delay |-> s.slope, large_sum_bsize |-> 1024,
                        last_update |-> now]
      OBVIOUS
    <3>3. p \in ParamType
      BY <1>5, <3>1, <3>2 DEF SetType, ParamType
    <3>4. ParamsOK'
      BY <2>2, <3>2, <3>3 DEF VInv, ParamsOK
    <3>5. ASSUME NEW o \in OpTypes, NEW c \in CPUs PROVE PairOK(pcpu_buckets'[o][c])
      <4>1. pcpu_buckets'[o][c] = NoBuckets \/ pcpu_buckets'[o][c] = pcpu_buckets[o][c]
        BY <2>2 DEF TInv, BucketsThere
      <4>2. QED
        BY <4>1, EmptyPart DEF VInv, BucketsTyped
    <3>6. BucketsTyped'
      BY <2>2, <3>5 DEF VInv, BucketsTyped
    <3>7. QED
      BY <1>2, <2>2, <3>4, <3>6 DEF VInv, LocksOK, SamplesOK, online
  <2>3. QED
    BY <1>3, <2>1, <2>2
<1>8. QED
  BY <1>2, <1>6, <1>7, DeviceStays, ValuesStay DEF VInv

\* The aggregated buckets are cleared, or time passes, or nothing happens.
LEMMA RestKeepsValues ==
  ASSUME TInv, VInv, ClearAggregated \/ (\E t \in setup.times : Tick(t)) \/ UNCHANGED vars
  PROVE  VInv'
<1>1. CASE ClearAggregated
  <2>1. /\ UNCHANGED <<setup, deviceVars, params, pcpu_buckets, update_lock, pc, local, samples>>
        /\ store' = NoStore /\ aggr_buckets' = NoBuckets
    BY <1>1 DEF ClearAggregated, ghosts
  <2>2. BucketsTyped'
    BY <2>1, EmptyPart DEF VInv, BucketsTyped
  <2>3. StoreOK'
    BY <2>1 DEF StoreOK, NoStore
  <2>4. ParamsOK' /\ LocksOK' /\ SamplesOK'
    BY <2>1 DEF VInv, ParamsOK, LocksOK, SamplesOK, online
  <2>5. QED
    BY <2>1, <2>2, <2>3, <2>4, DeviceStays, ValuesStay DEF VInv
<1>2. ASSUME NEW t \in setup.times, Tick(t) PROVE VInv'
  <2>1. /\ now' = t
        /\ UNCHANGED <<setup, inFlight, last_completed_time, last_completed_pos, modelVars, pc, local,
                       store, samples>>
    BY <1>2 DEF Tick, sysfsVars, ghosts
  <2>2. ClockOK' /\ InFlightOK'
    BY <2>1 DEF VInv, ClockOK, InFlightOK, Times, RequestType
  <2>3. QED
    BY <2>1, <2>2, ModelsStay, RestStays, ValuesStay DEF VInv
<1>3. CASE UNCHANGED vars
  <2>1. UNCHANGED <<setup, deviceVars, modelVars, pc, local, store, samples>>
    BY <1>3 DEF vars, sysfsVars, ghosts
  <2>2. QED
    BY <2>1, DeviceStays, ModelsStay, RestStays, ValuesStay DEF VInv
<1>4. QED
  BY <1>1, <1>2, <1>3

\* The values at first.
LEMMA InitValues ==
  ASSUME Init
  PROVE  VInv
<1>1. SetupOK
  BY InitSeen DEF TInv
<1>2. ClockOK
  BY DEF Init, ClockOK, Times
<1>3. InFlightOK
  BY DEF Init, InFlightOK, BagToSet, EmptyBag, SetToBag
<1>4. ParamsOK
  <2>1. NewParams \in ParamType
    BY DEF NewParams, ParamType
  <2>2. QED
    BY <2>1 DEF Init, ParamsOK
<1>5. BucketsTyped
  BY EmptyPart DEF Init, BucketsTyped
<1>6. LocksOK
  BY DEF Init, LocksOK
<1>7. StoreOK
  BY DEF Init, StoreOK, NoStore
<1>8. SamplesOK
  BY DEF Init, SamplesOK
<1>9. ASSUME NEW c \in CPUs PROVE ValuesOK(local[c], pc[c])
  BY IdleValues DEF Init
<1>10. QED
  BY <1>2, <1>3, <1>4, <1>5, <1>6, <1>7, <1>8, <1>9 DEF VInv

\* Every step keeps them.
LEMMA NextKeepsValues ==
  ASSUME TInv, VInv, [Next]_vars
  PROVE  VInv'
<1>1. ASSUME NEW k \in setup.kinds, insert_request(k) PROVE VInv'
  BY <1>1, InsertKeepsValues
<1>2. ASSUME NEW c \in online, NEW r \in BagToSet(inFlight), adios_completed_request(c, r) PROVE VInv'
  BY <1>2, CompletionKeepsValues
<1>3. ASSUME NEW c \in online, Running(c) PROVE VInv'
  BY <1>3, MeasureKeepsValues, InputKeepsValues, WeightKeepsValues, LatencyKeepsValues,
     TimerKeepsValues, LockKeepsValues, CollectKeepsValues, ResetKeepsValues, UpdateKeepsValues
     DEF Running
<1>4. ASSUME NEW c \in online, update_timer_callback(c) PROVE VInv'
  BY <1>4, TimerKeepsValues
<1>5. ASSUME Storing PROVE VInv'
  BY <1>5, StoringKeepsValues
<1>6. ASSUME sideload_latency_model PROVE VInv'
  BY <1>6, SideloadKeepsValues
<1>7. ASSUME ClearAggregated \/ (\E t \in setup.times : Tick(t)) \/ UNCHANGED vars PROVE VInv'
  BY <1>7, RestKeepsValues
<1>8. QED
  BY <1>1, <1>2, <1>3, <1>4, <1>5, <1>6, <1>7 DEF Next

\* The types the runs check.
LEMMA ValuesTyped ==
  ASSUME TInv, VInv
  PROVE  LatencyTypeOK
<1>1. /\ now \in setup.times \cup {1} /\ last_completed_time \in setup.times \cup {0, 1}
      /\ last_completed_pos \in Nat
  BY DEF VInv, ClockOK, Times
<1>2. ASSUME NEW b, PairOK(b) PROVE BucketsOK(b)
  BY <1>2 DEF PairOK, PartOK, BucketType, BucketsOK
<1>3. ASSUME NEW o \in OpTypes, NEW f \in DOMAIN params[o] PROVE params[o][f] \in Nat
  BY DEF VInv, ParamsOK, ParamType
<1>4. ASSUME NEW o \in OpTypes, NEW c \in CPUs PROVE BucketsOK(pcpu_buckets[o][c])
  BY <1>2 DEF VInv, BucketsTyped
<1>5. ASSUME NEW o \in OpTypes PROVE update_lock[o] \in online \cup {NoOne}
  BY DEF VInv, LocksOK
<1>6. BucketsOK(aggr_buckets)
  BY <1>2 DEF VInv, BucketsTyped
<1>7. QED
  BY <1>1, <1>3, <1>4, <1>5, <1>6 DEF LatencyTypeOK

\* The values of the models and of the buckets have their types, for any
\* numbers of CPUs, requests and stores, however updates, completions and
\* stores interleave: no sum of delays goes below zero when samples are
\* trimmed, shrunk and relieved of the base, and no latency, however far from
\* the prediction, finds a bucket beyond the 64 (lm_input_bucket_index,
\* lm_update_small_buckets, lm_update_large_buckets, latency_model_update).
THEOREM LatencyTyped == Spec => []LatencyTypeOK
<1>1. Init => TInv /\ VInv
  BY InitSeen, InitValues
<1>2. TInv /\ VInv /\ [Next]_vars => (TInv /\ VInv)'
  BY NextKeepsSeen, NextKeepsValues
<1>3. TInv /\ VInv => LatencyTypeOK
  BY ValuesTyped
<1>4. QED
  BY <1>1, <1>2, <1>3, PTL DEF Spec

---------------------------------------------------------------------------
(* What is counted, with one CPU.                                          *)

\* There is one CPU.
LEMMA OneCPU ==
  ASSUME TInv, Cardinality(online) = 1, NEW c \in online, NEW d \in online
  PROVE  c = d
<1>1. online \subseteq CPUs /\ IsFiniteSet(CPUs)
  BY SetupType, LatencyAssumption DEF TInv
<1>2. IsFiniteSet(online)
  BY <1>1, FS_Subset
<1>3. PICK x : online = {x}
  BY <1>2, FS_Singleton
<1>4. QED
  BY <1>3

\* The sum over the models.
LEMMA ModelsSum ==
  ASSUME NEW p \in [OpTypes -> ParamType]
  PROVE  /\ IsFiniteSet(OpTypes) /\ Models(p) = SumFunctionOnSet(CountsOf(p), OpTypes)
         /\ \A o \in OpTypes : CountsOf(p)[o] \in Nat /\ CountsOf(p)[o] = p[o].small_count
<1>1. IsFiniteSet(OpTypes)
  <2>1. PICK n \in Int : n = 3
    OBVIOUS
  <2>2. IsFiniteSet(0..n)
    BY FS_Interval
  <2>3. QED
    BY <2>1, <2>2 DEF OpTypes
<1>2. \A o \in OpTypes : CountsOf(p)[o] = p[o].small_count
  BY DEF CountsOf
<1>3. \A o \in OpTypes : CountsOf(p)[o] \in Nat
  BY <1>2 DEF ParamType
<1>4. Models(p) = SumFunctionOnSet(CountsOf(p), OpTypes)
  <2>1. PICK f : f = CountsOf(p)
    OBVIOUS
  <2>2. DOMAIN f = OpTypes /\ Models(p) = SumFunction(f)
    BY <2>1 DEF CountsOf, Models
  <2>3. SumFunction(f) = SumFunctionOnSet(f, DOMAIN f)
    BY DEF SumFunction, SumFunctionOnSet, FoldFunction
  <2>4. QED
    BY <2>1, <2>2, <2>3
<1>5. QED
  BY <1>1, <1>2, <1>3, <1>4

\* One model changes.
LEMMA ModelsChange ==
  ASSUME NEW p \in [OpTypes -> ParamType], NEW q \in [OpTypes -> ParamType],
         NEW o \in OpTypes, \A m \in OpTypes \ {o} : q[m] = p[m]
  PROVE  /\ Models(p) \in Nat /\ Models(q) \in Nat
         /\ Models(q) + p[o].small_count = Models(p) + q[o].small_count
<1>1. PICK f, g : f = CountsOf(p) /\ g = CountsOf(q)
  OBVIOUS
<1>2. /\ IsFiniteSet(OpTypes) /\ Models(p) = SumFunctionOnSet(f, OpTypes)
      /\ \A m \in OpTypes : f[m] \in Nat /\ f[m] = p[m].small_count
  BY <1>1, ModelsSum
<1>3. /\ Models(q) = SumFunctionOnSet(g, OpTypes)
      /\ \A m \in OpTypes : g[m] \in Nat /\ g[m] = q[m].small_count
  BY <1>1, ModelsSum
<1>4. \A m \in OpTypes \ {o} : g[m] = f[m]
  BY <1>2, <1>3
<1>5. SumFunctionOnSet(g, OpTypes) + f[o] = SumFunctionOnSet(f, OpTypes) + g[o]
      /\ SumFunctionOnSet(f, OpTypes) \in Nat /\ SumFunctionOnSet(g, OpTypes) \in Nat
  <2>1. PICK S : S = OpTypes
    OBVIOUS
  <2>2. IsFiniteSet(S) /\ \A m \in S : f[m] \in Nat /\ g[m] \in Nat
    BY <1>2, <1>3, <2>1
  <2>3. o \in S /\ \A m \in S \ {o} : g[m] = f[m]
    BY <1>4, <2>1
  <2>4. SumFunctionOnSet(g, S) + f[o] = SumFunctionOnSet(f, S) + g[o]
        /\ SumFunctionOnSet(f, S) \in Nat /\ SumFunctionOnSet(g, S) \in Nat
    BY ONLY <2>2, <2>3, SumReplaced
  <2>5. QED
    BY <2>1, <2>4
<1>6. QED
  BY <1>2, <1>3, <1>5

\* The buckets of all CPUs.
AllOK(b) == \A o \in OpTypes, c \in CPUs : PairOK(b[o][c])

\* The sum over the buckets.
LEMMA WaitingSum ==
  ASSUME NEW b, AllOK(b)
  PROVE  /\ IsFiniteSet(OpTypes \X CPUs) /\ Waiting(b) = SumFunctionOnSet(WeightsOf(b), OpTypes \X CPUs)
         /\ \A x \in OpTypes \X CPUs : WeightsOf(b)[x] \in Nat
         /\ \A o \in OpTypes, c \in CPUs : WeightsOf(b)[<<o, c>>] = Weight(b[o][c].small)
<1>1. IsFiniteSet(OpTypes \X CPUs)
  <2>1. PICK n \in Int : n = 3
    OBVIOUS
  <2>2. IsFiniteSet(0..n)
    BY FS_Interval
  <2>3. QED
    BY <2>1, <2>2, LatencyAssumption, FS_Product DEF OpTypes
<1>2. ASSUME NEW o \in OpTypes, NEW c \in CPUs
      PROVE  WeightsOf(b)[<<o, c>>] = Weight(b[o][c].small)
  BY DEF WeightsOf
<1>3. ASSUME NEW x \in OpTypes \X CPUs PROVE WeightsOf(b)[x] \in Nat
  <2>1. PICK o \in OpTypes, c \in CPUs : x = <<o, c>>
    OBVIOUS
  <2>2. PartOK(b[o][c].small)
    BY DEF AllOK, PairOK
  <2>3. Weight(b[o][c].small) \in Nat
    BY <2>2, WeightType
  <2>4. QED
    BY <1>2, <2>1, <2>3
<1>4. Waiting(b) = SumFunctionOnSet(WeightsOf(b), OpTypes \X CPUs)
  <2>1. PICK f : f = WeightsOf(b)
    OBVIOUS
  <2>2. DOMAIN f = OpTypes \X CPUs /\ Waiting(b) = SumFunction(f)
    BY <2>1 DEF WeightsOf, Waiting
  <2>3. SumFunction(f) = SumFunctionOnSet(f, DOMAIN f)
    BY DEF SumFunction, SumFunctionOnSet, FoldFunction
  <2>4. QED
    BY <2>1, <2>2, <2>3
<1>5. QED
  BY <1>1, <1>2, <1>3, <1>4

\* The buckets of one model on one CPU change.
LEMMA WaitingChanges ==
  ASSUME NEW b, AllOK(b), NEW n, AllOK(n), NEW o \in OpTypes, NEW c \in CPUs,
         \A p \in OpTypes, d \in CPUs : p # o \/ d # c => n[p][d] = b[p][d]
  PROVE  /\ Waiting(b) \in Nat /\ Waiting(n) \in Nat
         /\ Waiting(n) + Weight(b[o][c].small) = Waiting(b) + Weight(n[o][c].small)
<1>1. PICK S, f, g, x : S = OpTypes \X CPUs /\ f = WeightsOf(b) /\ g = WeightsOf(n) /\ x = <<o, c>>
  OBVIOUS
<1>2. /\ IsFiniteSet(S) /\ Waiting(b) = SumFunctionOnSet(f, S) /\ \A y \in S : f[y] \in Nat
      /\ \A p \in OpTypes, d \in CPUs : f[<<p, d>>] = Weight(b[p][d].small)
  BY <1>1, WaitingSum
<1>3. /\ Waiting(n) = SumFunctionOnSet(g, S) /\ \A y \in S : g[y] \in Nat
      /\ \A p \in OpTypes, d \in CPUs : g[<<p, d>>] = Weight(n[p][d].small)
  BY <1>1, WaitingSum
<1>4. ASSUME NEW y \in S \ {x} PROVE g[y] = f[y]
  <2>1. PICK p \in OpTypes, d \in CPUs : y = <<p, d>> /\ (p # o \/ d # c)
    BY <1>1
  <2>2. QED
    BY <1>2, <1>3, <2>1
<1>5. x \in S
  BY <1>1
<1>6. SumFunctionOnSet(g, S) + f[x] = SumFunctionOnSet(f, S) + g[x]
      /\ SumFunctionOnSet(f, S) \in Nat /\ SumFunctionOnSet(g, S) \in Nat
  BY ONLY <1>2, <1>3, <1>4, <1>5, SumReplaced
<1>7. f[x] = Weight(b[o][c].small) /\ g[x] = Weight(n[o][c].small)
  BY <1>1, <1>2, <1>3
<1>8. QED
  BY <1>2, <1>3, <1>6, <1>7

\* Buckets are cleared.
LEMMA WaitingLess ==
  ASSUME NEW b, AllOK(b), NEW n, AllOK(n),
         \A p \in OpTypes, d \in CPUs : n[p][d] \in {b[p][d], NoBuckets}
  PROVE  Waiting(b) \in Nat /\ Waiting(n) \in Nat /\ Waiting(n) <= Waiting(b)
<1>1. PICK S, f, g : S = OpTypes \X CPUs /\ f = WeightsOf(b) /\ g = WeightsOf(n)
  OBVIOUS
<1>2. /\ IsFiniteSet(S) /\ Waiting(b) = SumFunctionOnSet(f, S) /\ \A y \in S : f[y] \in Nat
      /\ \A p \in OpTypes, d \in CPUs : f[<<p, d>>] = Weight(b[p][d].small)
  BY <1>1, WaitingSum
<1>3. /\ Waiting(n) = SumFunctionOnSet(g, S) /\ \A y \in S : g[y] \in Nat
      /\ \A p \in OpTypes, d \in CPUs : g[<<p, d>>] = Weight(n[p][d].small)
  BY <1>1, WaitingSum
<1>4. ASSUME NEW y \in S PROVE g[y] <= f[y]
  <2>1. PICK p \in OpTypes, d \in CPUs : y = <<p, d>>
    BY <1>1
  <2>2. g[y] = Weight(n[p][d].small) /\ f[y] = Weight(b[p][d].small)
    BY <1>2, <1>3, <2>1
  <2>3. g[y] = f[y] \/ g[y] = 0
    BY <2>2, EmptyPart DEF NoBuckets
  <2>4. f[y] \in Nat
    BY <1>2
  <2>5. QED
    BY ONLY <2>3, <2>4
<1>5. SumFunctionOnSet(g, S) <= SumFunctionOnSet(f, S)
      /\ SumFunctionOnSet(f, S) \in Nat /\ SumFunctionOnSet(g, S) \in Nat
  BY ONLY <1>2, <1>3, <1>4, SumOfLess
<1>6. QED
  BY <1>2, <1>3, <1>5

\* The parts of the count are naturals.
LEMMA CountsType ==
  ASSUME VInv
  PROVE  /\ Models(params) \in Nat /\ Waiting(pcpu_buckets) \in Nat
         /\ Weight(aggr_buckets.small) \in Nat /\ samples \in Nat
         /\ params \in [OpTypes -> ParamType] /\ AllOK(pcpu_buckets)
<1>1. params \in [OpTypes -> ParamType] /\ AllOK(pcpu_buckets)
  BY DEF VInv, ParamsOK, BucketsTyped, AllOK
<1>2. Models(params) \in Nat
  <2>1. 0 \in OpTypes
    BY DEF OpTypes
  <2>2. QED
    BY <1>1, <2>1, ModelsChange
<1>3. Waiting(pcpu_buckets) \in Nat
  BY <1>1, WaitingLess
<1>4. Weight(aggr_buckets.small) \in Nat
  BY WeightType DEF VInv, BucketsTyped, PairOK
<1>5. QED
  BY <1>1, <1>2, <1>3, <1>4 DEF VInv, SamplesOK

\* Nothing is counted, and no bucket chosen.
LEMMA CountStays ==
  ASSUME NEW c, OnceFor(c), UNCHANGED <<params, aggr_buckets, pcpu_buckets, samples>>,
         pc[c] # "reset", pc'[c] \notin {"reset", "weight"}
  PROVE  OnceFor(c)'
BY DEF OnceFor, Counts, Twice

\* No CPU goes on.
LEMMA AllStays ==
  ASSUME NEW c, OnceFor(c), UNCHANGED <<params, aggr_buckets, pcpu_buckets, samples, pc, local>>
  PROVE  OnceFor(c)'
BY DEF OnceFor, Counts, Twice, Own, Collected

\* The step a CPU takes.
LEMMA Moves ==
  ASSUME TInv, NEW c \in online, NEW step, NEW l, To(c, step, l)
  PROVE  c \in CPUs /\ pc'[c] = step /\ local'[c] = l
BY SetupType DEF TInv, LocalsOK, To

\* A completion, up to its bucket.
LEMMA ChoosingCounts ==
  ASSUME TInv, VInv, NEW c \in online, OnceFor(c),
         (\E r \in BagToSet(inFlight) : adios_completed_request(c, r)) \/ Measure(c) \/ latency_model_input(c)
  PROVE  OnceFor(c)'
<1>1. /\ pc[c] \in {"idle", "measure", "input"}
      /\ UNCHANGED <<params, aggr_buckets, pcpu_buckets, samples>>
  BY DEF adios_completed_request, Measure, latency_model_input, modelVars, ghosts
<1>2. CASE UNCHANGED <<pc, local>>
  BY <1>1, <1>2, AllStays
<1>3. ASSUME NEW step \in {"measure", "idle", "input", "rearm"}, NEW l, To(c, step, l)
      PROVE  OnceFor(c)'
  BY <1>1, <1>3, Moves, CountStays
<1>4. CASE Measure(c)
  <2>1. \E l : To(c, "idle", l) \/ To(c, "input", l)
    <3>1. PICK q, a, w : Return(c) \/ To(c, "input", [NoLocal EXCEPT !.rq = q, !.latency = a, !.weight = w])
      BY <1>4 DEF Measure
    <3>2. PICK m : m = [NoLocal EXCEPT !.rq = q, !.latency = a, !.weight = w]
      OBVIOUS
    <3>3. QED
      BY <3>1, <3>2 DEF Return
  <2>2. QED
    BY <1>3, <2>1
<1>5. ASSUME NEW r \in BagToSet(inFlight), adios_completed_request(c, r), ~UNCHANGED <<pc, local>>
      PROVE  OnceFor(c)'
  <2>1. PICK l : l = [NoLocal EXCEPT !.rq = r, !.now = now, !.count = BagCardinality(inFlight) - 1]
    OBVIOUS
  <2>2. To(c, "measure", l)
    BY <1>5, <2>1 DEF adios_completed_request
  <2>3. QED
    BY <1>3, <2>2
<1>6. CASE latency_model_input(c)
  <2>1. PICK was, o : was = local[c] /\ o = was.rq.kind.op
    OBVIOUS
  <2>2. PICK i, j, b, d, m :
          /\ i = BucketIndex(was.latency, IF params[o].base = 0 THEN 1 ELSE params[o].base)
          /\ j = BucketIndex(was.latency, was.rq.pred)
          /\ b = Bucket(pcpu_buckets[o][c].small, i) /\ d = Bucket(pcpu_buckets[o][c].large, j)
          /\ m = IF params[o].base = 0 THEN <<o>> ELSE <<>>
    <3>1. PICK i, j, m : /\ i = BucketIndex(was.latency, IF params[o].base = 0 THEN 1 ELSE params[o].base)
                         /\ j = BucketIndex(was.latency, was.rq.pred)
                         /\ m = IF params[o].base = 0 THEN <<o>> ELSE <<>>
      OBVIOUS
    <3>2. PICK b, d : b = Bucket(pcpu_buckets[o][c].small, i) /\ d = Bucket(pcpu_buckets[o][c].large, j)
      OBVIOUS
    <3>3. QED
      BY <3>1, <3>2
  <2>3. PICK small, large : /\ small = [was EXCEPT !.index = i, !.old = b, !.models = m]
                            /\ large = [was EXCEPT !.index = j, !.old = d]
    OBVIOUS
  <2>4. \/ was.rq.kind.size <= LM_BLOCK_SIZE_THRESHOLD /\ To(c, "weight", small)
        \/ To(c, "rearm", NoLocal)
        \/ ~(was.rq.kind.size <= LM_BLOCK_SIZE_THRESHOLD) /\ To(c, "weight", large)
    BY <1>6, <2>1, <2>2, <2>3 DEF latency_model_input
  <2>5. DOMAIN was = Fields
    BY <2>1, SetupType DEF TInv, LocalsOK, LocalOK
  <2>6. /\ small.rq = was.rq /\ small.index = i /\ small.old = b
        /\ large.rq = was.rq /\ large.index = j /\ large.old = d
    BY <2>3, <2>5 DEF Fields, NoLocal
  <2>7. ASSUME NEW l, To(c, "weight", l), l.rq = was.rq,
               l.old = Bucket(pcpu_buckets[o][c][Part(was.rq.kind)], l.index)
        PROVE  OnceFor(c)'
    <3>1. pc'[c] = "weight" /\ local'[c] = l
      BY <2>7, Moves
    <3>2. Own(c)' = Bucket(pcpu_buckets[o][c][Part(was.rq.kind)], l.index)
      BY <1>1, <2>1, <2>7, <3>1 DEF Own
    <3>3. QED
      BY <1>1, <2>7, <3>1, <3>2 DEF OnceFor, Counts, Twice
  <2>8. CASE was.rq.kind.size <= LM_BLOCK_SIZE_THRESHOLD /\ To(c, "weight", small)
    <3>1. Part(was.rq.kind) = "small"
      BY <2>8 DEF Part
    <3>2. small.old = Bucket(pcpu_buckets[o][c][Part(was.rq.kind)], small.index)
      BY <2>2, <2>6, <3>1
    <3>3. QED
      BY <2>6, <2>7, <2>8, <3>2
  <2>9. CASE ~(was.rq.kind.size <= LM_BLOCK_SIZE_THRESHOLD) /\ To(c, "weight", large)
    <3>1. Part(was.rq.kind) = "large"
      BY <2>9 DEF Part
    <3>2. large.old = Bucket(pcpu_buckets[o][c][Part(was.rq.kind)], large.index)
      BY <2>2, <2>6, <3>1
    <3>3. QED
      BY <2>6, <2>7, <2>9, <3>2
  <2>10. QED
    BY <1>3, <2>4, <2>8, <2>9
<1>7. QED
  BY <1>2, <1>4, <1>5, <1>6

\* What waits changes as the bucket does that is written.
LEMMA WaitingAfterWrite ==
  ASSUME TInv, VInv, VInv', NEW c \in online, pc[c] \in {"weight", "latency"},
         NEW b \in BucketType, SetBucket(c, b)
  PROVE  /\ Part(local[c].rq.kind) = "small" =>
              Waiting(pcpu_buckets') + Own(c).weight = Waiting(pcpu_buckets) + b.weight
         /\ Part(local[c].rq.kind) = "large" => Waiting(pcpu_buckets') = Waiting(pcpu_buckets)
<1>1. PICK k, o, i : k = local[c].rq.kind /\ o = k.op /\ i = local[c].index
  OBVIOUS
<1>2. c \in CPUs /\ o \in OpTypes /\ i \in 0..LM_LAT_BUCKET_COUNT - 1 /\ Own(c) \in BucketType
  BY <1>1, OwnType
<1>3. PICK old, new : old = pcpu_buckets /\ new = pcpu_buckets'
  OBVIOUS
<1>4. /\ \A p \in OpTypes, d \in CPUs : PairOK(new[p][d]) /\ (p # o \/ d # c => new[p][d] = old[p][d])
      /\ Part(k) = "small" => Weight(new[o][c].small) + Own(c).weight = Weight(old[o][c].small) + b.weight
      /\ Part(k) = "large" => new[o][c].small = old[o][c].small
  BY <1>1, <1>2, <1>3, BucketSet
<1>5. AllOK(old) /\ AllOK(new)
  BY <1>3, <1>4, CountsType DEF AllOK
<1>6. /\ Waiting(old) \in Nat /\ Waiting(new) \in Nat
      /\ Waiting(new) + Weight(old[o][c].small) = Waiting(old) + Weight(new[o][c].small)
  BY <1>2, <1>4, <1>5, WaitingChanges
<1>7. PICK w, v : w = Weight(old[o][c].small) /\ v = Weight(new[o][c].small)
  OBVIOUS
<1>8. w \in Nat /\ v \in Nat
  BY <1>2, <1>5, <1>7, WeightType DEF AllOK, PairOK
<1>9. Own(c).weight \in Nat /\ b.weight \in Nat
  BY <1>2 DEF BucketType
<1>10. ASSUME Part(k) = "small" PROVE Waiting(new) + Own(c).weight = Waiting(old) + b.weight
  <2>1. v + Own(c).weight = w + b.weight
    BY <1>4, <1>7, <1>10
  <2>2. Waiting(new) + w = Waiting(old) + v
    BY <1>6, <1>7
  <2>3. QED
    BY ONLY <1>6, <1>8, <1>9, <2>1, <2>2
<1>11. ASSUME Part(k) = "large" PROVE Waiting(new) = Waiting(old)
  <2>1. v = w
    BY <1>4, <1>7, <1>11
  <2>2. Waiting(new) + w = Waiting(old) + v
    BY <1>6, <1>7
  <2>3. QED
    BY ONLY <1>6, <1>8, <2>1, <2>2
<1>12. QED
  BY <1>1, <1>3, <1>10, <1>11

\* A completion writes its sample: the small buckets of its CPU weigh as much
\* more as there are samples more, since what it read is still there.
LEMMA WritingCounts ==
  ASSUME TInv, VInv, VInv', NEW c \in online, OnceFor(c), AddWeight(c) \/ AddLatency(c)
  PROVE  OnceFor(c)'
<1>1. PICK was, part, own, w : /\ was = local[c] /\ part = Part(was.rq.kind) /\ own = Own(c)
                               /\ w = was.weight
  OBVIOUS
<1>2. UNCHANGED <<params, aggr_buckets>> /\ pc[c] \in {"weight", "latency"}
  BY DEF AddWeight, AddLatency
<1>3. own \in BucketType /\ was.old \in BucketType /\ w \in Nat /\ was.latency \in Nat
  BY <1>1, <1>2, OwnType
<1>4. part \in {"small", "large"} /\ own.weight \in Nat
  BY <1>1, <1>3 DEF Part, BucketType
<1>5. PICK a, x, y : /\ a = Models(params) + Weight(aggr_buckets.small)
                     /\ x = Waiting(pcpu_buckets) /\ y = Waiting(pcpu_buckets')
  OBVIOUS
<1>6. a \in Nat /\ x \in Nat /\ samples \in Nat
  BY <1>5, CountsType
<1>7. y \in Nat
  <2>1. AllOK(pcpu_buckets')
    BY DEF VInv, BucketsTyped, AllOK
  <2>2. QED
    BY <1>5, <2>1, WaitingLess
<1>8. a + x <= samples
  <2>1. Twice(c) = 0
    BY <1>2 DEF Twice
  <2>2. Counts <= samples
    BY <1>6, <2>1 DEF OnceFor
  <2>3. QED
    BY <1>5, <2>2 DEF Counts
<1>9. Counts' = a + y
  BY <1>2, <1>5 DEF Counts
<1>10. ASSUME NEW b \in BucketType, SetBucket(c, b)
       PROVE  (part = "small" => y + own.weight = x + b.weight) /\ (part = "large" => y = x)
  BY <1>1, <1>2, <1>5, <1>10, WaitingAfterWrite
<1>11. CASE AddWeight(c)
  <2>1. PICK b : b = [own EXCEPT !.weight = was.old.weight + w]
    OBVIOUS
  <2>2. /\ pc[c] = "weight" /\ SetBucket(c, b) /\ To(c, "latency", was)
        /\ samples' = IF part = "small" THEN samples + w ELSE samples
    BY <1>1, <1>11, <2>1 DEF AddWeight
  <2>3. was.old = own
    BY <1>1, <2>2 DEF OnceFor
  <2>4. b \in BucketType /\ b.weight = own.weight + w
    BY <1>3, <1>4, <2>1, <2>3 DEF BucketType
  <2>5. a + y <= samples'
    <3>1. CASE part = "small"
      <4>1. y + own.weight = x + b.weight /\ samples' = samples + w
        BY <1>10, <2>2, <2>4, <3>1
      <4>2. QED
        BY ONLY <1>3, <1>4, <1>6, <1>7, <1>8, <2>4, <4>1
    <3>2. CASE part = "large"
      BY <1>8, <1>10, <2>2, <2>4, <3>2
    <3>3. QED
      BY <1>4, <3>1, <3>2
  <2>6. pc'[c] = "latency"
    BY <2>2, Moves
  <2>7. samples' \in Nat
    BY DEF VInv, SamplesOK
  <2>8. Twice(c)' = 0
    BY <2>6 DEF Twice
  <2>9. QED
    BY <1>9, <2>5, <2>6, <2>7, <2>8 DEF OnceFor
<1>12. CASE AddLatency(c)
  <2>1. PICK b, u, v : /\ u = was.old.latency + was.latency * was.weight
                       /\ v = (IF Part(was.rq.kind) = "large" THEN was.old.bsize + was.rq.kind.size * was.weight
                               ELSE 0)
                       /\ b = [own EXCEPT !.latency = u, !.bsize = v]
    OBVIOUS
  <2>2. PICK m : m = [NoLocal EXCEPT !.models = was.models]
    OBVIOUS
  <2>3. /\ pc[c] = "latency" /\ SetBucket(c, b) /\ samples' = samples
        /\ To(c, "lock", m) \/ To(c, "rearm", NoLocal)
    BY <1>1, <1>12, <2>1, <2>2 DEF AddLatency, ghosts
  <2>4. u \in Nat /\ v \in Nat
    <3>0. was.rq.kind.size \in Nat
      BY <1>1, <1>2, OwnType
    <3>1. was.latency * was.weight \in Nat /\ was.rq.kind.size * was.weight \in Nat
      BY ONLY <1>1, <1>3, <3>0
    <3>2. was.old.latency \in Nat /\ was.old.bsize \in Nat
      BY <1>3 DEF BucketType
    <3>3. QED
      BY <2>1, <3>1, <3>2
  <2>5. b \in BucketType /\ b.weight = own.weight
    BY <1>3, <2>1, <2>4 DEF BucketType
  <2>6. y = x
    <3>1. y + own.weight = x + own.weight \/ y = x
      BY <1>4, <1>10, <2>3, <2>5
    <3>2. QED
      BY ONLY <1>4, <1>6, <1>7, <3>1
  <2>7. pc'[c] \in {"lock", "rearm"}
    BY <2>3, Moves
  <2>8. Twice(c)' = 0
    BY <2>7 DEF Twice
  <2>9. QED
    BY <1>6, <1>8, <1>9, <2>3, <2>6, <2>7, <2>8 DEF OnceFor
<1>13. QED
  BY <1>11, <1>12

\* Where a CPU goes from the update of a model.
LEMMA AfterUpdate ==
  ASSUME TInv, VInv, NEW c \in online, pc[c] \in {"lock", "process"}, NextModel(c)
  PROVE  \E step, l : To(c, step, l) /\ step \in {"lock", "idle", "rearm"}
<1>1. c \in CPUs /\ LocalOK(local[c], pc[c])
  BY SetupType DEF TInv, LocalsOK
<1>2. ValuesOK(local[c], pc[c])
  BY <1>1 DEF VInv
<1>3. local[c].models \in Seq(OpTypes)
  BY <1>2 DEF ValuesOK, Updating
<1>4. QED
  BY <1>1, <1>3, NextModelValues

\* The timer, and the lock of a model.
LEMMA WaitingToUpdate ==
  ASSUME TInv, VInv, NEW c \in online, OnceFor(c),
         timer_reduce(c) \/ update_timer_callback(c) \/ LockModel(c)
  PROVE  OnceFor(c)'
<1>1. /\ pc[c] \in {"rearm", "idle", "lock"}
      /\ UNCHANGED <<params, aggr_buckets, pcpu_buckets, samples>>
  BY DEF timer_reduce, update_timer_callback, LockModel, modelVars, ghosts
<1>2. ASSUME NEW step \in {"idle", "lock", "rearm", "collect"}, NEW l, To(c, step, l)
      PROVE  OnceFor(c)'
  BY <1>1, <1>2, Moves, CountStays
<1>3. CASE timer_reduce(c)
  BY <1>2, <1>3 DEF timer_reduce, Return
<1>4. CASE update_timer_callback(c)
  <2>1. PICK l : l = [NoLocal EXCEPT !.models = <<0, 1, 2, 3>>, !.timer = TRUE]
    OBVIOUS
  <2>2. To(c, "lock", l)
    BY <1>4, <2>1 DEF update_timer_callback
  <2>3. QED
    BY <1>2, <2>2
<1>5. CASE LockModel(c)
  <2>1. PICK l : l = [local[c] EXCEPT !.left = online]
    OBVIOUS
  <2>2. pc[c] = "lock" /\ (To(c, "collect", l) \/ NextModel(c))
    BY <1>5, <2>1 DEF LockModel
  <2>3. CASE NextModel(c)
    <3>1. PICK step, m : To(c, step, m) /\ step \in {"lock", "idle", "rearm"}
      BY <2>2, <2>3, AfterUpdate
    <3>2. QED
      BY <1>2, <3>1
  <2>4. QED
    BY <1>2, <2>2, <2>3
<1>6. QED
  BY <1>3, <1>4, <1>5

\* Collected samples are counted twice until they are cleared.
LEMMA CollectingCounts ==
  ASSUME TInv, VInv, VInv', NEW c \in online, OnceFor(c), CollectBuckets(c)
  PROVE  OnceFor(c)'
<1>1. PICK o, d, b : o = Head(local[c].models) /\ d = Collected(c) /\ b = pcpu_buckets[o][d]
  OBVIOUS
<1>2. /\ pc[c] = "collect" /\ UNCHANGED <<params, pcpu_buckets, samples>>
      /\ aggr_buckets' = [small |-> Aggregated(aggr_buckets.small, b.small),
                          large |-> Aggregated(aggr_buckets.large, b.large)]
      /\ To(c, "reset", local[c])
  BY <1>1 DEF CollectBuckets, ghosts
<1>3. o \in OpTypes /\ d \in CPUs
  BY <1>1, <1>2, CollectedType, SetupType DEF TInv
<1>4. PartOK(b.small) /\ PartOK(aggr_buckets.small)
  BY <1>1, <1>3 DEF VInv, BucketsTyped, PairOK
<1>5. PICK u, v : u = Weight(aggr_buckets.small) /\ v = Weight(b.small)
  OBVIOUS
<1>6. u \in Nat /\ v \in Nat /\ Weight(aggr_buckets'.small) = u + v
  <2>1. aggr_buckets'.small = Aggregated(aggr_buckets.small, b.small)
    BY <1>2
  <2>2. Weight(Aggregated(aggr_buckets.small, b.small)) = u + v
    BY <1>4, <1>5, AggregatedOK
  <2>3. QED
    BY <1>4, <1>5, <2>1, <2>2, WeightType
<1>7. PICK m, x : m = Models(params) /\ x = Waiting(pcpu_buckets)
  OBVIOUS
<1>8. m \in Nat /\ x \in Nat /\ samples \in Nat
  BY <1>7, CountsType
<1>9. m + u + x <= samples
  <2>1. Twice(c) = 0
    BY <1>2 DEF Twice
  <2>2. Counts <= samples
    <3>1. Counts <= samples + Twice(c)
      BY DEF OnceFor
    <3>2. QED
      BY <1>8, <2>1, <3>1
  <2>3. QED
    BY <1>5, <1>7, <2>2 DEF Counts
<1>10. pc'[c] = "reset" /\ local'[c] = local[c]
  BY <1>2, Moves
<1>11. Twice(c)' = v
  <2>1. Collected(c)' = d
    BY <1>1, <1>10 DEF Collected
  <2>2. QED
    BY <1>1, <1>2, <1>5, <1>10, <2>1 DEF Twice
<1>12. Counts' = m + (u + v) + x
  BY <1>2, <1>6, <1>7 DEF Counts
<1>13. m + (u + v) + x <= samples + v
  BY ONLY <1>6, <1>8, <1>9
<1>14. Counts' <= samples' + Twice(c)'
  BY <1>2, <1>11, <1>12, <1>13
<1>15. QED
  BY <1>10, <1>14 DEF OnceFor

\* And are then cleared.
LEMMA ClearingCounts ==
  ASSUME TInv, VInv, VInv', NEW c \in online, OnceFor(c), ResetBuckets(c)
  PROVE  OnceFor(c)'
<1>1. PICK o, d, step, l, left :
        /\ o = Head(local[c].models) /\ d = Collected(c) /\ left = local[c].left \ {d}
        /\ step = (IF left = {} THEN "process" ELSE "collect") /\ l = [local[c] EXCEPT !.left = left]
  OBVIOUS
<1>2. /\ pc[c] = "reset" /\ UNCHANGED <<params, aggr_buckets, samples>>
      /\ pcpu_buckets' = [pcpu_buckets EXCEPT ![o][d] = NoBuckets] /\ To(c, step, l)
  BY <1>1 DEF ResetBuckets, ghosts
<1>3. o \in OpTypes /\ d \in CPUs
  BY <1>1, <1>2, CollectedType, SetupType DEF TInv
<1>4. PICK old, new : old = pcpu_buckets /\ new = pcpu_buckets'
  OBVIOUS
<1>5. AllOK(old) /\ AllOK(new)
  BY <1>4 DEF VInv, BucketsTyped, AllOK
<1>6. new[o][d] = NoBuckets /\ \A p \in OpTypes, e \in CPUs : p # o \/ e # d => new[p][e] = old[p][e]
  BY <1>2, <1>3, <1>4 DEF TInv, BucketsThere
<1>7. PICK v, x, y : v = Weight(old[o][d].small) /\ x = Waiting(old) /\ y = Waiting(new)
  OBVIOUS
<1>8. x \in Nat /\ y \in Nat /\ y + v = x
  <2>1. x \in Nat /\ y \in Nat /\ y + v = x + Weight(new[o][d].small)
    BY <1>3, <1>5, <1>6, <1>7, WaitingChanges
  <2>2. Weight(new[o][d].small) = 0
    BY <1>6, EmptyPart DEF NoBuckets
  <2>3. QED
    BY <2>1, <2>2
<1>9. v \in Nat
  BY <1>3, <1>5, <1>7, WeightType DEF AllOK, PairOK
<1>10. PICK m, u : m = Models(params) /\ u = Weight(aggr_buckets.small)
  OBVIOUS
<1>11. m \in Nat /\ u \in Nat /\ samples \in Nat
  BY <1>10, CountsType
<1>12. m + u + x <= samples + v
  <2>1. Twice(c) = v
    BY <1>1, <1>2, <1>4, <1>7 DEF Twice
  <2>2. Counts = m + u + x
    BY <1>4, <1>7, <1>10 DEF Counts
  <2>3. QED
    BY <2>1, <2>2 DEF OnceFor
<1>13. Counts' = m + u + y
  BY <1>2, <1>4, <1>7, <1>10 DEF Counts
<1>14. m + u + y <= samples
  BY ONLY <1>8, <1>9, <1>11, <1>12
<1>15. pc'[c] \in {"process", "collect"}
  BY <1>1, <1>2, Moves
<1>16. Twice(c)' = 0
  BY <1>15 DEF Twice
<1>17. Counts' <= samples' + Twice(c)'
  BY <1>2, <1>11, <1>13, <1>14, <1>16
<1>18. QED
  BY <1>15, <1>17 DEF OnceFor

\* A model rests on no more samples than it did and was given.
LEMMA UpdatingCounts ==
  ASSUME TInv, VInv, VInv', NEW c \in online, OnceFor(c), UpdateModel(c)
  PROVE  OnceFor(c)'
<1>1. PICK o, p, q, f : /\ o = Head(local[c].models) /\ p = params[o] /\ f = aggr_buckets
                        /\ q = UpdatedParams(p, f)
  OBVIOUS
<1>2. /\ pc[c] = "process" /\ UNCHANGED <<pcpu_buckets, samples>>
      /\ params' = [params EXCEPT ![o] = q]
      /\ aggr_buckets'.small = (IF SmallDue(p, f) THEN <<>> ELSE f.small) /\ NextModel(c)
  BY <1>1 DEF UpdateModel, Unprocessed, ghosts
<1>3. c \in CPUs
  BY SetupType DEF TInv
<1>4. o \in OpTypes
  <2>1. ValuesOK(local[c], pc[c])
    BY <1>3 DEF VInv
  <2>2. PICK r \in Seq(OpTypes) : r = local[c].models /\ r # <<>>
    BY <1>2, <2>1 DEF ValuesOK, Updating
  <2>3. Head(r) \in OpTypes
    BY <2>2
  <2>4. QED
    BY <1>1, <2>2, <2>3
<1>5. p \in ParamType /\ PairOK(f) /\ params \in [OpTypes -> ParamType] /\ params' \in [OpTypes -> ParamType]
  BY <1>1, <1>4 DEF VInv, ParamsOK, BucketsTyped
<1>6. PICK u, w : u = Weight(f.small) /\ w = Weight(aggr_buckets'.small)
  OBVIOUS
<1>7. u \in Nat /\ w \in Nat
  <2>1. PartOK(f.small)
    BY <1>5 DEF PairOK
  <2>2. PartOK(aggr_buckets'.small)
    BY DEF VInv, BucketsTyped, PairOK
  <2>3. QED
    BY <1>6, <2>1, <2>2, WeightType
<1>8. q.small_count <= p.small_count + (IF SmallDue(p, f) THEN u ELSE 0)
  <2>1. now \in Nat
    BY SetupValues DEF TInv, VInv, ClockOK
  <2>2. QED
    BY <1>1, <1>5, <1>6, <2>1, UpdatedOK
<1>9. w = IF SmallDue(p, f) THEN 0 ELSE u
  BY <1>2, <1>6, EmptyPart
<1>10. PICK m, n : m = Models(params) /\ n = Models(params')
  OBVIOUS
<1>11. m \in Nat /\ n \in Nat /\ n + p.small_count = m + q.small_count
  <2>1. PICK new \in [OpTypes -> ParamType] : new = params'
    BY <1>5
  <2>2. new[o] = q /\ \A e \in OpTypes \ {o} : new[e] = params[e]
    BY <1>2, <1>4, <1>5, <2>1
  <2>3. m \in Nat /\ Models(new) \in Nat /\ Models(new) + p.small_count = m + new[o].small_count
    BY <1>1, <1>4, <1>5, <1>10, <2>2, ModelsChange
  <2>4. QED
    BY <1>10, <2>1, <2>2, <2>3
<1>12. PICK i, j \in Nat : i = p.small_count /\ j = q.small_count
  <2>1. q = params'[o]
    BY <1>2, <1>4, <1>5
  <2>2. QED
    BY <1>4, <1>5, <2>1 DEF ParamType
<1>13. n + w <= m + u
  <2>1. n + i = m + j /\ j <= i + (IF SmallDue(p, f) THEN u ELSE 0)
    BY <1>8, <1>11, <1>12
  <2>2. CASE SmallDue(p, f)
    <3>1. j <= i + u /\ w = 0
      BY <1>9, <2>1, <2>2
    <3>2. QED
      BY ONLY <1>7, <1>11, <2>1, <3>1, i \in Nat, j \in Nat
  <2>3. CASE ~SmallDue(p, f)
    <3>1. j <= i + 0 /\ w = u
      BY <1>9, <2>1, <2>3
    <3>2. QED
      BY ONLY <1>7, <1>11, <2>1, <3>1, i \in Nat, j \in Nat
  <2>4. QED
    BY <2>2, <2>3
<1>14. PICK x : x = Waiting(pcpu_buckets)
  OBVIOUS
<1>15. x \in Nat /\ samples \in Nat
  BY <1>14, CountsType
<1>16. m + u + x <= samples
  <2>1. Twice(c) = 0
    BY <1>2 DEF Twice
  <2>2. Counts = m + u + x
    BY <1>1, <1>6, <1>10, <1>14 DEF Counts
  <2>3. m + u + x <= samples + 0
    BY <2>1, <2>2 DEF OnceFor
  <2>4. QED
    BY <1>15, <2>3
<1>17. Counts' = n + w + x
  BY <1>2, <1>6, <1>10, <1>14 DEF Counts
<1>18. n + w + x <= samples + 0
  BY ONLY <1>7, <1>11, <1>13, <1>15, <1>16
<1>19. pc'[c] \in {"lock", "idle", "rearm"}
  <2>1. PICK step, l : To(c, step, l) /\ step \in {"lock", "idle", "rearm"}
    BY <1>2, AfterUpdate
  <2>2. QED
    BY <2>1, Moves
<1>20. Twice(c)' = 0
  BY <1>19 DEF Twice
<1>21. Counts' <= samples' + Twice(c)'
  BY <1>2, <1>17, <1>18, <1>20
<1>22. QED
  BY <1>19, <1>21 DEF OnceFor

\* A value that is loaded counts as a sample, and takes the place of those the
\* model rested on.  It is loaded while the only CPU is idle.
LEMMA LoadingCounts ==
  ASSUME TInv, VInv, VInv', NEW c \in online, OnceFor(c), pc[c] = "idle", sideload_latency_model
  PROVE  OnceFor(c)'
<1>1. PICK s : s = Head(store.todo)
  OBVIOUS
<1>2. PICK p : p = [base |-> s.base, small_sum_delay |-> s.base, small_count |-> 1,
                    slope |-> s.slope, large_sum_delay |-> s.slope, large_sum_bsize |-> 1024,
                    last_update |-> now]
  OBVIOUS
<1>3. /\ UNCHANGED <<pc, local>> /\ store.todo # <<>>
      /\ \/ UNCHANGED <<modelVars, ghosts>>
         \/ /\ params' = [params EXCEPT ![s.op] = p]
            /\ pcpu_buckets' = [pcpu_buckets EXCEPT ![s.op] = [d \in CPUs |-> NoBuckets]]
            /\ samples' = samples + 1 /\ UNCHANGED aggr_buckets
  BY <1>1, <1>2 DEF sideload_latency_model
<1>4. s.op \in OpTypes
  <2>1. PICK q \in Seq(SetType) : q = store.todo /\ q # <<>>
    BY <1>3 DEF VInv, StoreOK
  <2>2. Head(q) \in SetType
    BY <2>1
  <2>3. QED
    BY <1>1, <2>1, <2>2 DEF SetType
<1>5. CASE UNCHANGED <<modelVars, ghosts>>
  BY <1>3, <1>5, AllStays DEF modelVars, ghosts
<1>6. CASE /\ params' = [params EXCEPT ![s.op] = p]
           /\ pcpu_buckets' = [pcpu_buckets EXCEPT ![s.op] = [d \in CPUs |-> NoBuckets]]
           /\ samples' = samples + 1 /\ UNCHANGED aggr_buckets
  <2>1. PICK m, n, x, y, u : /\ m = Models(params) /\ n = Models(params') /\ u = Weight(aggr_buckets.small)
                             /\ x = Waiting(pcpu_buckets) /\ y = Waiting(pcpu_buckets')
    OBVIOUS
  <2>2. m \in Nat /\ u \in Nat /\ x \in Nat /\ samples \in Nat
    BY <2>1, CountsType
  <2>3. n \in Nat /\ n <= m + 1
    <3>1. PICK new \in [OpTypes -> ParamType] : new = params'
      BY DEF VInv, ParamsOK
    <3>2. params \in [OpTypes -> ParamType]
      BY CountsType
    <3>3. new[s.op] = p /\ \A e \in OpTypes \ {s.op} : new[e] = params[e]
      BY <1>4, <1>6, <3>1, <3>2
    <3>4. PICK i \in Nat : i = params[s.op].small_count
      BY <1>4, <3>2 DEF ParamType
    <3>5. Models(new) \in Nat /\ Models(new) + params[s.op].small_count = m + new[s.op].small_count
      BY <1>4, <2>1, <3>2, <3>3, ModelsChange
    <3>6. new[s.op].small_count = 1
      BY <1>2, <3>3
    <3>7. n \in Nat /\ n + i = m + 1
      BY <2>1, <3>1, <3>4, <3>5, <3>6
    <3>8. QED
      BY ONLY <2>2, <3>7, i \in Nat
  <2>4. y \in Nat /\ y <= x
    <3>1. PICK old, new : old = pcpu_buckets /\ new = pcpu_buckets'
      OBVIOUS
    <3>2. AllOK(old) /\ AllOK(new)
      BY <3>1 DEF VInv, BucketsTyped, AllOK
    <3>3. \A e \in OpTypes, d \in CPUs : new[e][d] \in {old[e][d], NoBuckets}
      BY <1>6, <3>1 DEF TInv, BucketsThere
    <3>4. QED
      BY <2>1, <3>1, <3>2, <3>3, WaitingLess
  <2>5. m + u + x <= samples
    <3>1. Twice(c) = 0
      BY DEF Twice
    <3>2. m + u + x <= samples + 0
      BY <2>1, <3>1 DEF OnceFor, Counts
    <3>3. QED
      BY <2>2, <3>2
  <2>6. n + u + y <= (samples + 1) + 0
    BY ONLY <2>2, <2>3, <2>4, <2>5
  <2>7. Counts' = n + u + y /\ Twice(c)' = 0
    BY <1>3, <1>6, <2>1 DEF Counts, Twice
  <2>8. Counts' <= samples' + Twice(c)'
    BY <1>6, <2>6, <2>7
  <2>9. QED
    BY <1>3, <2>8 DEF OnceFor
<1>7. QED
  BY <1>3, <1>5, <1>6

\* What was aggregated is forgotten.
LEMMA ForgettingCounts ==
  ASSUME TInv, VInv, NEW c \in online, OnceFor(c), pc[c] = "idle", ClearAggregated
  PROVE  OnceFor(c)'
<1>1. UNCHANGED <<params, pcpu_buckets, pc, local, samples>> /\ aggr_buckets' = NoBuckets
  BY DEF ClearAggregated, ghosts
<1>2. PICK m, u, x : /\ m = Models(params) /\ u = Weight(aggr_buckets.small)
                     /\ x = Waiting(pcpu_buckets)
  OBVIOUS
<1>3. m \in Nat /\ u \in Nat /\ x \in Nat /\ samples \in Nat
  BY <1>2, CountsType
<1>4. Twice(c) = 0 /\ Twice(c)' = 0
  BY <1>1 DEF Twice
<1>5. m + u + x <= samples + 0
  BY <1>2, <1>4 DEF OnceFor, Counts
<1>6. m + 0 + x <= samples + 0
  BY ONLY <1>3, <1>5
<1>7. Counts' = m + 0 + x
  BY <1>1, <1>2, EmptyPart DEF Counts, NoBuckets
<1>8. QED
  BY <1>1, <1>4, <1>6, <1>7 DEF OnceFor

\* Every step keeps the count.
LEMMA NextKeepsCount ==
  ASSUME TInv, VInv, CInv, [Next]_vars
  PROVE  CInv'
<1>1. setup' = setup
  <2>1. ASSUME NEW k \in setup.kinds, insert_request(k) PROVE setup' = setup
    BY <2>1 DEF insert_request
  <2>2. ASSUME NEW c \in online, NEW r, adios_completed_request(c, r) PROVE setup' = setup
    BY <2>2 DEF adios_completed_request
  <2>3. ASSUME NEW c \in online, Running(c) PROVE setup' = setup
    BY <2>3 DEF Running, Measure, latency_model_input, AddWeight, AddLatency, timer_reduce,
       LockModel, CollectBuckets, ResetBuckets, UpdateModel
  <2>4. ASSUME NEW c \in online, update_timer_callback(c) PROVE setup' = setup
    BY <2>4 DEF update_timer_callback
  <2>5. ASSUME Storing \/ sideload_latency_model \/ ClearAggregated \/ (\E t \in setup.times : Tick(t))
        PROVE  setup' = setup
    BY <2>5 DEF Storing, sideload_latency_model, ClearAggregated, Tick
  <2>6. QED
    BY <2>1, <2>2, <2>3, <2>4, <2>5 DEF Next, vars
<1>2. VInv'
  BY NextKeepsValues
<1> SUFFICES ASSUME Cardinality(online) = 1, NEW c \in online PROVE OnceFor(c)'
  BY <1>1 DEF CInv, online
<1>3. OnceFor(c)
  BY DEF CInv
<1>4. \A d \in online : d = c
  BY OneCPU
<1>5. SomeIdle => pc[c] = "idle"
  BY <1>4 DEF SomeIdle
<1>6. ASSUME NEW d \in online, NEW r \in BagToSet(inFlight), adios_completed_request(d, r)
      PROVE  OnceFor(c)'
  <2>1. d = c
    BY <1>4
  <2>2. \E q \in BagToSet(inFlight) : adios_completed_request(c, q)
    BY <1>6, <2>1
  <2>3. QED
    BY <1>3, <2>2, ChoosingCounts
<1>7. ASSUME NEW d \in online, Running(d) \/ update_timer_callback(d) PROVE OnceFor(c)'
  <2>1. d = c
    BY <1>4
  <2>2. CASE Measure(c) \/ latency_model_input(c)
    BY <1>3, <2>2, ChoosingCounts
  <2>3. CASE AddWeight(c) \/ AddLatency(c)
    BY <1>2, <1>3, <2>3, WritingCounts
  <2>4. CASE timer_reduce(c) \/ update_timer_callback(c) \/ LockModel(c)
    BY <1>3, <2>4, WaitingToUpdate
  <2>5. CASE CollectBuckets(c)
    BY <1>2, <1>3, <2>5, CollectingCounts
  <2>6. CASE ResetBuckets(c)
    BY <1>2, <1>3, <2>6, ClearingCounts
  <2>7. CASE UpdateModel(c)
    BY <1>2, <1>3, <2>7, UpdatingCounts
  <2>8. QED
    BY <1>7, <2>1, <2>2, <2>3, <2>4, <2>5, <2>6, <2>7 DEF Running
<1>8. CASE sideload_latency_model
  <2>1. pc[c] = "idle"
    BY <1>5, <1>8 DEF sideload_latency_model
  <2>2. QED
    BY <1>2, <1>3, <1>8, <2>1, LoadingCounts
<1>9. CASE ClearAggregated
  <2>1. pc[c] = "idle"
    BY <1>5, <1>9 DEF ClearAggregated
  <2>2. QED
    BY <1>3, <1>9, <2>1, ForgettingCounts
<1>10. CASE Storing
  BY <1>3, <1>10, AllStays DEF Storing, modelVars, ghosts
<1>11. ASSUME NEW k \in setup.kinds, insert_request(k) PROVE OnceFor(c)'
  BY <1>3, <1>11, AllStays DEF insert_request, modelVars, ghosts
<1>12. ASSUME NEW t \in setup.times, Tick(t) PROVE OnceFor(c)'
  BY <1>3, <1>12, AllStays DEF Tick, modelVars, ghosts
<1>13. CASE UNCHANGED vars
  BY <1>3, <1>13, AllStays DEF vars, modelVars, ghosts
<1>14. QED
  BY <1>6, <1>7, <1>8, <1>9, <1>10, <1>11, <1>12, <1>13 DEF Next

\* At first there is nothing to count.
LEMMA InitCounts ==
  ASSUME Init
  PROVE  CInv
<1>1. TInv /\ VInv
  BY InitSeen, InitValues
<1> SUFFICES ASSUME NEW c \in online PROVE OnceFor(c)
  BY DEF CInv
<1>2. pc[c] = "idle"
  BY <1>1, SetupType DEF Init, TInv
<1>3. Models(params) = 0
  <2>1. PICK f : f = CountsOf(params)
    OBVIOUS
  <2>2. IsFiniteSet(OpTypes) /\ Models(params) = SumFunctionOnSet(f, OpTypes)
    BY <1>1, <2>1, CountsType, ModelsSum
  <2>3. \A o \in OpTypes : f[o] = 0
    BY <2>1 DEF CountsOf, Init, NewParams
  <2>4. QED
    BY <2>2, <2>3, SumOfZeros
<1>4. Waiting(pcpu_buckets) = 0
  <2>1. PICK S, f : S = OpTypes \X CPUs /\ f = WeightsOf(pcpu_buckets)
    OBVIOUS
  <2>2. IsFiniteSet(S) /\ Waiting(pcpu_buckets) = SumFunctionOnSet(f, S)
        /\ \A o \in OpTypes, d \in CPUs : f[<<o, d>>] = Weight(pcpu_buckets[o][d].small)
    BY <1>1, <2>1, CountsType, WaitingSum
  <2>3. ASSUME NEW o \in OpTypes, NEW d \in CPUs PROVE f[<<o, d>>] = 0
    <3>1. pcpu_buckets[o][d] = NoBuckets
      BY DEF Init
    <3>2. QED
      BY <2>2, <3>1, EmptyPart DEF NoBuckets
  <2>4. \A x \in S : f[x] = 0
    BY <2>1, <2>3
  <2>5. QED
    BY <2>2, <2>4, SumOfZeros
<1>5. Weight(aggr_buckets.small) = 0
  BY EmptyPart DEF Init, NoBuckets
<1>6. Twice(c) = 0 /\ samples = 0
  BY <1>2 DEF Init, Twice
<1>7. Counts = 0 + 0 + 0
  BY <1>3, <1>4, <1>5 DEF Counts
<1>8. QED
  BY <1>2, <1>6, <1>7 DEF OnceFor

\* With one CPU, no sample is counted twice, for any numbers of requests,
\* stores and failures: what all models rest on, and what waits in buckets, is
\* no more than was measured and loaded, except while collected buckets wait
\* to be cleared (latency_model_input, latency_model_update,
\* lm_update_small_buckets, sideload_latency_model).
THEOREM SamplesCountedOnce == Spec => []CountedOnce
<1>1. Init => TInv /\ VInv /\ CInv
  BY InitSeen, InitValues, InitCounts
<1>2. TInv /\ VInv /\ CInv /\ [Next]_vars => (TInv /\ VInv /\ CInv)'
  BY NextKeepsSeen, NextKeepsValues, NextKeepsCount
<1>3. TInv /\ VInv /\ CInv => CountedOnce
  <2> SUFFICES ASSUME TInv, VInv, CInv, Cardinality(online) = 1, \A c \in online : pc[c] # "reset"
               PROVE  Counts <= samples
    BY DEF CountedOnce, Counts, Models, Waiting, CountsOf, WeightsOf
  <2>1. PICK c \in online : TRUE
    BY SetupValues DEF TInv
  <2>2. Counts <= samples + Twice(c) /\ Twice(c) = 0
    BY <2>1 DEF CInv, OnceFor, Twice
  <2>3. samples \in Nat
    BY CountsType
  <2>4. samples + 0 = samples
    BY ONLY <2>3
  <2>5. QED
    BY ONLY <2>2, <2>4
<1>4. QED
  BY <1>1, <1>2, <1>3, PTL DEF Spec
===========================================================================
