---------------------------- MODULE AdiosSched ----------------------------
(***************************************************************************)
(* The request path of the ADIOS multi-queue I/O scheduler                 *)
(* (patches/adios_ioscheduler_6.6.patch, block/adios.c): insertion, the    *)
(* REQ_OP_FLUSH barrier, the two deadline trees, the double-buffered batch *)
(* queues, dispatch by several CPUs at once, merging, completion, requeue. *)
(*                                                                         *)
(* A step is one critical section of ad->lock, ad->bq_lock or ad->pq_lock, *)
(* or one lock-free read of ad->state.  ad->barrier_lock is only taken     *)
(* under ad->lock, so it adds no step.  Request r is the r-th request the  *)
(* block layer inserts.  Every request is at most LM_BLOCK_SIZE_THRESHOLD  *)
(* bytes, so that its predicted latency is the base of its model.          *)
(***************************************************************************)
EXTENDS Integers, SequencesExt

CONSTANTS
  MaxReq,       \* number of requests the block layer inserts
  CPUs,         \* CPUs that may run adios_dispatch_request concurrently
  Kinds,        \* the requests the block layer may insert
  Bases,        \* values latency_model_update may give a model's base
  Rotational,   \* ad->is_rotational
  BatchLimit,   \* ad->batch_limit, by optype
  LatTarget,    \* ad->latency_target, by optype
  Window,       \* ad->global_latency_window
  RefillRatio,  \* ad->bq_refill_below_ratio
  FixOrder,     \* compliance_flags & ADIOS_CF_FIXORDER
  Weight,       \* adios_prio_to_wmult[ad->dl_prio[i] + 20], by tree
  Quantum,      \* 1 << ADIOS_QUANTUM_SHIFT
  MaxDeletes,   \* ADIOS_MAX_DELETES_PER_LOCK
  BioMerges,    \* whether bios are submitted that may merge
  AllocFails,   \* whether kmem_cache_zalloc(dl_group_pool) may fail
  MaxRequeues,  \* bound: requests the driver gives back
  MaxUpdates,   \* bound: latency model changes not caused by a completion
  CountSize,    \* values of in_flight_rqs.count, 2^16 in the code
  LatSize,      \* values of in_flight_rqs.total_pred_lat, 2^48 in the code
  NoOne,        \* owner of a free spinlock
  Oops          \* owner of a spinlock held where the kernel oopsed

Requests == 1..MaxReq
Ops      == {"read", "write", "flush", "discard"}
OpTypes  == 0..3
Bit      == 0..1
Statuses == {"new", "queued", "merged", "lost", "dispatched", "completed"}
Labels   == {"idle", "pq", "bq", "fill", "filled", "bp", "release", "reinsert"}
KindType == [op : Ops, sync : BOOLEAN, head : BOOLEAN, start : Nat, pos : Nat]
RqType   == [kind : KindType, pred : Nat, deadline : Nat, status : Statuses,
             gated : BOOLEAN]

ASSUME ConstantsAssumption ==
  /\ MaxReq \in Nat /\ MaxDeletes \in Nat \ {0} /\ Quantum \in Nat \ {0}
  /\ MaxRequeues \in Nat /\ MaxUpdates \in Nat
  /\ Kinds \subseteq KindType
  /\ Bases \subseteq Nat
  /\ BatchLimit \in [OpTypes -> Nat \ {0}] /\ LatTarget \in [OpTypes -> Nat]
  /\ Weight \in [Bit -> Nat] /\ Window \in Nat /\ RefillRatio \in 0..100
  /\ {Rotational, FixOrder, BioMerges, AllocFails} \subseteq BOOLEAN
  /\ CountSize \in Nat \ {0} /\ LatSize \in Nat \ {0}
  /\ NoOne \notin CPUs /\ Oops \notin CPUs \cup {NoOne}

VARIABLES
  rq,             \* struct request and its adios_rq_data, by request
  inserted,       \* number of requests inserted so far
  prio_queue,     \* ad->prio_queue[2]
  pq_flags,       \* bits ADIOS_STATE_PQ of ad->state
  dl_tree,        \* ad->dl_tree[2], each in deadline order
  dl_flags,       \* bits ADIOS_STATE_DL of ad->state
  dl_bias,        \* ad->dl_bias
  barrier_queue,  \* ad->barrier_queue
  bp_flag,        \* bit ADIOS_STATE_BARRIER of ad->state
  batch_queue,    \* ad->batch_queue[page][idx]
  batch_count,    \* ad->batch_count[page][optype]
  bq_state,       \* ad->bq_state[page]: the non-empty queues of a page
  bq_flags,       \* bits ADIOS_STATE_BQ of ad->state
  bq_page,        \* ad->bq_page: the page dispatch pops from
  bq_batch_order, \* ad->bq_batch_order[page]
  batch_order,    \* ad->batch_order, set through sysfs
  elv_direction,  \* ad->elv_direction
  head_pos,       \* ad->head_pos
  in_flight,      \* ad->in_flight_rqs
  models_stable,  \* ad->models_stable
  base,           \* latency_model[optype].params->base
  lock,           \* owner of ad->lock, between steps
  bq_lock,        \* owner of ad->bq_lock, between steps
  pc,             \* where each CPU is in adios_dispatch_request
  fill,           \* locals of the fill_batch_queues call in progress
  local_list,     \* local_list of the release_barrier_requests in progress
  bio,            \* a bio submitter has passed the check of adios_bio_merge
  budget          \* requeues and model updates left

prioVars  == <<prio_queue, pq_flags, in_flight>>
dlVars    == <<dl_tree, dl_flags>>
barVars   == <<barrier_queue, bp_flag>>
pageVars  == <<batch_queue, bq_state, bq_flags, bq_page>>
batchVars == <<batch_count, bq_batch_order, dl_bias, fill>>
elvVars   == <<elv_direction, head_pos>>
modelVars == <<models_stable, base>>
ctlVars   == <<lock, bq_lock, pc, local_list>>
envVars   == <<inserted, batch_order, bio, budget>>
vars == <<rq, prioVars, dlVars, barVars, pageVars, batchVars, elvVars,
          modelVars, ctlVars, envVars>>

---------------------------------------------------------------------------
(* Attributes of a request.                                                *)

\* The REQ_OP_* codes of the kernel's blk_types.h.
ReqOp == [read |-> 0, write |-> 1, flush |-> 2, discard |-> 3]

OpType(k) == CASE k.op = "read"    -> 0
               [] k.op = "write"   -> 1
               [] k.op = "discard" -> 2
               [] OTHER            -> 3

\* adios_optype_not_read: the deadline tree a request belongs to.
DlIdx(k) == IF k.op = "read" THEN 0 ELSE 1

\* cmd_flags & REQ_OP_FLUSH, a test of one bit of the operation code.
RqIsFlush(k) == (ReqOp[k.op] \div 2) % 2 = 1

\* Faulty variant: the latency target is subtracted.
Deadline_Early(n) ==
  n.kind.start - IF n.kind.sync THEN 0 ELSE LatTarget[OpType(n.kind)]

\* rd->deadline, as add_to_dl_tree computes it.
Deadline(n) ==
  n.kind.start + IF n.kind.sync THEN 0
                 ELSE LatTarget[OpType(n.kind)] + IF FixOrder THEN 0 ELSE n.pred

\* The key of the dl_group a deadline falls into.
Key(d) == d - (d % Quantum)

adios_has_work == pq_flags \cup dl_flags \cup bq_flags # {} \/ bp_flag

---------------------------------------------------------------------------
(* Queue operations.                                                       *)

\* set_adios_state(.., true) guarded by was_empty; q is the queue before.
SetIfWasEmpty(flags, i, q) == IF q = <<>> THEN flags \cup {i} ELSE flags

\* Faulty variant: the bit is never cleared.
ClearIfEmpty_Never(flags, i, q) == flags

\* set_adios_state(.., false) guarded by emptiness; q is the queue after.
ClearIfEmpty(flags, i, q) == IF q = <<>> THEN flags \ {i} ELSE flags

\* Faulty variant: the predicted latency is left out.
Account_NoLatency(count, lat) ==
  [in_flight EXCEPT !.count = (@ + count) % CountSize]

\* union adios_in_flight_rqs packs the count and the latency into one word,
\* the count below: a sum, or a difference, carries into the latency.
Account(count, lat) ==
  LET sum == in_flight.count + count
  IN  [count |-> sum % CountSize,
       lat   |-> (in_flight.lat + lat + (sum \div CountSize)) % LatSize]

\* Faulty variant: the request is not accounted.
insert_to_prio_queue_Unaccounted(r, pred, i) ==
  /\ UNCHANGED in_flight
  /\ prio_queue' = [prio_queue EXCEPT ![i] = Append(@, r)]
  /\ pq_flags' = SetIfWasEmpty(pq_flags, i, prio_queue[i])

insert_to_prio_queue(r, pred, i) ==
  /\ in_flight' = Account(1, pred)
  /\ prio_queue' = [prio_queue EXCEPT ![i] = Append(@, r)]
  /\ pq_flags' = SetIfWasEmpty(pq_flags, i, prio_queue[i])

\* Put r, described by n, into the trees given.  A request joins the tail of
\* the group of its key; a new group needs an allocation, and when that
\* fails the request is in no queue at all.
add_to_dl_tree(r, n, tree, flags) ==
  LET i     == DlIdx(n.kind)
      d     == Deadline(n)
      upTo  == {j \in DOMAIN tree[i] : Key(rq[tree[i][j]].deadline) <= Key(d)}
      group == {j \in upTo : Key(rq[tree[i][j]].deadline) = Key(d)}
  IN  \/ /\ dl_tree' = [tree EXCEPT ![i] = InsertAt(@, Cardinality(upTo) + 1, r)]
         /\ dl_flags' = SetIfWasEmpty(flags, i, tree[i])
         /\ rq' = [rq EXCEPT ![r] = [n EXCEPT !.deadline = d]]
      \/ /\ AllocFails /\ group = {}
         /\ dl_tree' = tree
         /\ dl_flags' = flags
         /\ rq' = [rq EXCEPT ![r] = [n EXCEPT !.deadline = d, !.status = "lost"]]

\* The requests of a list are distinct: a comes before b in q.
Before(q, a, b) == \E i, j \in DOMAIN q : i < j /\ q[i] = a /\ q[j] = b

\* The list q without the requests of S, the others in their order.
Without(q, S) ==
  LET kept == ToSet(q) \ S
  IN  {s \in [1..Cardinality(kept) -> kept] :
         \A i, j \in DOMAIN s : i < j => Before(q, s[i], s[j])}

\* remove_request for the requests of S: those without a dl_group are in no
\* tree, and the tree and its bit are left alone.
remove_request(i, S) ==
  \E rest \in Without(dl_tree[i], S) :
    /\ dl_tree' = [dl_tree EXCEPT ![i] = rest]
    /\ dl_flags' = IF rest = dl_tree[i] THEN dl_flags
                   ELSE ClearIfEmpty(dl_flags, i, rest)

\* The requests the block layer knows by rqhash and last_merge: those of a
\* tree, and those that a failed allocation left in none, which are hashed
\* all the same.
Mergeable(i) ==
  {t \in Requests : \/ t \in ToSet(dl_tree[i])
                    \/ rq[t].status = "lost" /\ DlIdx(rq[t].kind) = i}

\* r is merged into a request known by its operation, which may be merged
\* into another one, and so on; absorbed are those that this removes.
merge_or_insert_to_dl_tree(r, n) ==
  \/ LET same == {t \in Mergeable(DlIdx(n.kind)) : rq[t].kind.op = n.kind.op}
     IN  \E absorbed \in (SUBSET same) \ {same} :
           /\ remove_request(DlIdx(n.kind), absorbed)
           /\ rq' = [q \in Requests |->
                       IF q = r THEN [n EXCEPT !.status = "merged"]
                       ELSE IF q \in absorbed THEN [rq[q] EXCEPT !.status = "merged"]
                       ELSE rq[q]]
  \/ add_to_dl_tree(r, n, dl_tree, dl_flags)

---------------------------------------------------------------------------
(* Insertion.                                                              *)

insert_request_pre_stability(r, n) ==
  /\ insert_to_prio_queue(r, n.pred, IF n.kind.head THEN 0 ELSE 1)
  /\ rq' = [rq EXCEPT ![r] = n]
  /\ models_stable' = (base[0] > 0 /\ base[1] > 0)
  /\ UNCHANGED <<dlVars, barVars>>

\* Faulty variant: a request diverted to the barrier queue is inserted too.
insert_request_post_stability_NoReturn(r, n) ==
  /\ UNCHANGED <<models_stable, prioVars>>
  /\ bp_flag' = (bp_flag \/ RqIsFlush(n.kind))
  /\ barrier_queue' = IF bp_flag' THEN Append(barrier_queue, r) ELSE barrier_queue
  /\ merge_or_insert_to_dl_tree(r, n)

\* Faulty variant: a pending barrier does not hold later requests.
insert_request_post_stability_NoHold(r, n) ==
  /\ UNCHANGED <<models_stable, prioVars>>
  /\ \/ /\ RqIsFlush(n.kind)
        /\ bp_flag' = TRUE
        /\ barrier_queue' = Append(barrier_queue, r)
        /\ rq' = [rq EXCEPT ![r] = n]
        /\ UNCHANGED dlVars
     \/ /\ ~RqIsFlush(n.kind)
        /\ merge_or_insert_to_dl_tree(r, n)
        /\ UNCHANGED barVars

insert_request_post_stability(r, n) ==
  /\ UNCHANGED models_stable
  /\ \/ /\ n.kind.head
        /\ insert_to_prio_queue(r, n.pred, 0)
        /\ rq' = [rq EXCEPT ![r] = n]
        /\ UNCHANGED <<dlVars, barVars>>
     \/ /\ ~n.kind.head /\ (bp_flag \/ RqIsFlush(n.kind))
        /\ bp_flag' = (bp_flag \/ RqIsFlush(n.kind))
        /\ barrier_queue' = Append(barrier_queue, r)
        /\ rq' = [rq EXCEPT ![r] = n]
        /\ UNCHANGED <<prioVars, dlVars>>
     \/ /\ ~n.kind.head /\ ~bp_flag /\ ~RqIsFlush(n.kind)
        /\ merge_or_insert_to_dl_tree(r, n)
        /\ UNCHANGED <<prioVars, barVars>>

\* adios_insert_requests for one request of the list, under ad->lock.
insert_request(r, k) ==
  LET n == [kind |-> k, pred |-> base[OpType(k)], deadline |-> 0,
            status |-> "queued", gated |-> models_stable]
  IN  /\ lock = NoOne
      /\ IF models_stable THEN insert_request_post_stability(r, n)
                          ELSE insert_request_pre_stability(r, n)
      /\ UNCHANGED <<pageVars, batchVars, elvVars, base, ctlVars,
                     batch_order, bio>>

adios_insert_requests(k) ==
  /\ inserted < MaxReq
  /\ inserted' = inserted + 1
  /\ insert_request(inserted + 1, k)
  /\ UNCHANGED budget

\* The driver gives back a dispatched request: ADIOS has no requeue_request,
\* and the block layer inserts the request again, at the head.
Requeue(r) ==
  /\ rq[r].status = "dispatched" /\ budget.requeues > 0
  /\ budget' = [budget EXCEPT !.requeues = @ - 1]
  /\ insert_request(r, [rq[r].kind EXCEPT !.head = TRUE])
  /\ UNCHANGED inserted

---------------------------------------------------------------------------
(* Merging of bios into queued requests.                                   *)

\* adios_bio_merge reads the barrier bit before it tries to take ad->lock.
bio_merge_check ==
  /\ BioMerges /\ ~bio /\ ~bp_flag
  /\ bio' = TRUE
  /\ UNCHANGED <<rq, prioVars, dlVars, barVars, pageVars, batchVars, elvVars,
                 modelVars, ctlVars, inserted, batch_order, budget>>

\* Faulty variant: the bit of a tree that the removal empties stays set.
adios_request_merged_KeepsBit(i, r) ==
  \E rest \in Without(dl_tree[i], {r}) :
    add_to_dl_tree(r, rq[r], [dl_tree EXCEPT ![i] = rest], dl_flags)

\* The bio went into r, and r is taken out of its tree i and put back.  Where
\* that needs a new group and gets none, r is lost too.
adios_request_merged(i, r) ==
  \E rest \in Without(dl_tree[i], {r}) :
    add_to_dl_tree(r, rq[r], [dl_tree EXCEPT ![i] = rest],
                   ClearIfEmpty(dl_flags, i, rest))

\* Faulty variant: the absorbed request stays in its tree.
adios_merged_requests_Stays(i, next) ==
  /\ rq' = [rq EXCEPT ![next].status = "merged"]
  /\ UNCHANGED dlVars

\* The bio closed the gap between r and next: next is absorbed by r.
adios_merged_requests(i, next) ==
  /\ remove_request(i, {next})
  /\ rq' = [rq EXCEPT ![next].status = "merged"]

\* spin_trylock fails, or the bio matches nothing, or it merges.  Which
\* requests the block layer takes for neighbours is its own affair.
adios_bio_merge ==
  /\ bio
  /\ bio' = FALSE
  /\ \/ UNCHANGED <<rq, dlVars>>
     \/ lock = NoOne /\ \E i \in Bit :
          \/ \E r \in ToSet(dl_tree[i]) : adios_request_merged(i, r)
          \/ \E r \in Mergeable(i) : \E next \in Mergeable(i) \ {r} :
               rq[next].kind.op = rq[r].kind.op /\ adios_merged_requests(i, next)
  /\ UNCHANGED <<prioVars, barVars, pageVars, batchVars, elvVars, modelVars,
                 ctlVars, inserted, batch_order, budget>>

\* The bio went into a request that is in no tree: adios_request_merged has
\* del_from_dl_tree follow its dl_group, a null pointer, and the kernel oopses
\* with ad->lock held, which nobody will ever release.
adios_bio_merge_oops ==
  /\ bio /\ lock = NoOne
  /\ \E r \in Requests : rq[r].status = "lost"
  /\ bio' = FALSE
  /\ lock' = Oops
  /\ UNCHANGED <<rq, prioVars, dlVars, barVars, pageVars, batchVars, elvVars,
                 modelVars, bq_lock, pc, local_list, inserted, batch_order, budget>>

---------------------------------------------------------------------------
(* Dispatch: adios_dispatch_request, by CPU c.                             *)

goto(c, label) == pc' = [pc EXCEPT ![c] = label]

\* "found:" the request leaves the scheduler and the CPU returns it.
found(c, r) ==
  /\ rq' = [rq EXCEPT ![r].status = "dispatched"]
  /\ head_pos' = IF Rotational THEN rq[r].kind.pos + 1 ELSE head_pos
  /\ goto(c, "idle")

\* update_elv_direction for a page whose second queue is q.
ElvDirection(order, q) ==
  IF ~Rotational THEN elv_direction
  ELSE IF order = 0 \/ q = <<>> THEN 0
  ELSE IF head_pos > (rq[Head(q)].kind.pos + rq[Last(q)].kind.pos) \div 2 THEN 1 ELSE 0

\* dispatch_from_pq holds pq_lock only: when another CPU may be working on
\* the batch queues, what update_elv_direction reads from them is a race.
RacyElvDirections(c) ==
  {ElvDirection(bq_batch_order[bq_page], batch_queue[bq_page][1])} \cup
    IF Rotational /\ \E d \in CPUs \ {c} : pc[d] \in {"bq", "fill", "filled"}
    THEN Bit ELSE {}

PqIdx == IF 1 \in pq_flags THEN 1 ELSE 0

\* The block layer asks has_work, and then calls adios_dispatch_request.
call_dispatch(c) ==
  /\ pc[c] = "idle" /\ adios_has_work
  /\ goto(c, "pq")
  /\ UNCHANGED <<rq, prioVars, dlVars, barVars, pageVars, batchVars, elvVars,
                 modelVars, lock, bq_lock, local_list, envVars>>

dispatch_from_pq(c) ==
  LET q    == prio_queue[PqIdx]
      rest == Tail(q)
  IN  /\ pc[c] = "pq"
      /\ \/ /\ q = <<>>
            /\ goto(c, "bq")
            /\ UNCHANGED <<rq, prio_queue, pq_flags, elvVars>>
         \/ /\ q # <<>>
            /\ found(c, Head(q))
            /\ prio_queue' = [prio_queue EXCEPT ![PqIdx] = rest]
            /\ pq_flags' = ClearIfEmpty(pq_flags, PqIdx, rest)
            /\ elv_direction' \in IF rest = <<>> THEN RacyElvDirections(c)
                                  ELSE {elv_direction}
      /\ UNCHANGED <<in_flight, dlVars, barVars, pageVars, batchVars,
                     modelVars, lock, bq_lock, local_list, envVars>>

\* Faulty variant: the page flips as soon as the other one has requests.
FlippedPage_Eager(curHasRq, flags) ==
  IF 1 - bq_page \in flags THEN 1 - bq_page ELSE bq_page

\* The page dispatch_from_bq pops from: it flips when the current page was
\* empty and the other page has requests.
FlippedPage(curHasRq, flags) ==
  IF ~curHasRq /\ 1 - bq_page \in flags THEN 1 - bq_page ELSE bq_page

\* The end of dispatch_from_bq, from the flip on, over batch queues bqs with
\* bits flags; bq_lock is released.
pop_bq_request(c, curHasRq, bqs, flags) ==
  LET page == FlippedPage(curHasRq, flags)
      dir  == IF page = bq_page THEN elv_direction
              ELSE ElvDirection(bq_batch_order[page], bqs[page][1])
      idx  == Min(bq_state[page])
      back == bq_batch_order[page] = 1 /\ idx = 1 /\ dir = 1
      q    == bqs[page][idx]
      rest == IF back THEN Front(q) ELSE Tail(q)
      left == ClearIfEmpty(bq_state[page], idx, rest)
  IN  /\ bq_page' = page
      /\ elv_direction' = dir
      /\ bq_lock' = NoOne
      /\ \/ /\ bq_state[page] = {}
            /\ batch_queue' = bqs
            /\ bq_flags' = flags
            /\ goto(c, "bp")
            /\ UNCHANGED <<rq, bq_state, head_pos>>
         \/ /\ bq_state[page] # {}
            /\ found(c, IF back THEN Last(q) ELSE Head(q))
            /\ batch_queue' = [bqs EXCEPT ![page][idx] = rest]
            /\ bq_state' = [bq_state EXCEPT ![page] = left]
            /\ bq_flags' = IF left = {} THEN flags \ {page} ELSE flags

\* The back page is empty, and the current one is too or little is in flight.
MustRefill ==
  /\ 1 - bq_page \notin bq_flags
  /\ \/ bq_page \notin bq_flags
     \/ in_flight.lat = 0
     \/ in_flight.lat < (Window * RefillRatio) \div 100
  /\ dl_flags # {}

dispatch_from_bq(c) ==
  /\ pc[c] = "bq" /\ bq_lock = NoOne
  /\ \/ /\ ~MustRefill
        /\ pop_bq_request(c, bq_page \in bq_flags, batch_queue, bq_flags)
        /\ UNCHANGED batchVars
     \/ /\ MustRefill
        /\ bq_lock' = c
        /\ goto(c, "fill")
        /\ fill' = [tpl |-> in_flight.lat, added |-> 0, count |-> 0, dels |-> 0,
                    curHasRq |-> bq_page \in bq_flags]
        /\ batch_count' = [batch_count EXCEPT ![1 - bq_page] = [o \in OpTypes |-> 0]]
        /\ bq_batch_order' = [bq_batch_order EXCEPT ![1 - bq_page] = batch_order]
        /\ UNCHANGED <<rq, dl_bias, pageVars, elvVars>>
  /\ UNCHANGED <<prioVars, dlVars, barVars, modelVars, lock, local_list, envVars>>

---------------------------------------------------------------------------
(* fill_batch_queues, one iteration of its inner loop a step.              *)

BiasIdx == IF dl_bias < 0 THEN 1 ELSE 0

\* The tree the next request comes from.
FillIdx == IF dl_flags = Bit THEN BiasIdx ELSE CHOOSE i \in dl_flags : TRUE

UpdateBias ==
  IF dl_flags = Bit
  THEN rq[Head(dl_tree[BiasIdx])].deadline > rq[Head(dl_tree[1 - BiasIdx])].deadline
  ELSE BiasIdx = FillIdx

NewBias(pred) ==
  LET sign == 2 * BiasIdx - 1
  IN  IF ~UpdateBias THEN dl_bias
      ELSE IF pred = 0 THEN sign
      ELSE dl_bias + sign * ((pred * Weight[BiasIdx]) \div 1024)

\* Faulty variant: the limit is passed by one.
BatchFull_OffByOne(r) ==
  LET o == OpType(rq[r].kind)
  IN  /\ fill.count > 0
      /\ \/ base[o] = 0
         \/ batch_count[1 - bq_page][o] > BatchLimit[o]
         \/ fill.tpl + fill.added + rq[r].pred > Window

\* The batch is full for the request r: it stays in its tree.
BatchFull(r) ==
  LET o == OpType(rq[r].kind)
  IN  /\ fill.count > 0
      /\ \/ base[o] = 0
         \/ batch_count[1 - bq_page][o] >= BatchLimit[o]
         \/ fill.tpl + fill.added + rq[r].pred > Window

\* The batch queue of r: its optype, or the elevator's sync / async queue.
DestIdx(r) ==
  LET k == rq[r].kind
  IN  IF bq_batch_order[1 - bq_page] = 0 \/ OpType(k) = 3 THEN OpType(k)
      ELSE IF rq[r].deadline # k.start THEN 1 ELSE 0

fill_batch_queues(c) ==
  LET page == 1 - bq_page
      r    == Head(dl_tree[FillIdx])
      rest == Tail(dl_tree[FillIdx])
      idx  == DestIdx(r)
      dels == fill.dels + 1
  IN  /\ pc[c] = "fill" /\ lock \in {NoOne, c}
      /\ \/ /\ dl_flags # {} => BatchFull(r)
            /\ lock' = NoOne
            /\ goto(c, "filled")
            /\ UNCHANGED <<dlVars, dl_bias, batch_queue, bq_state, batch_count, fill>>
         \/ /\ dl_flags # {} /\ ~BatchFull(r)
            /\ dl_bias' = NewBias(rq[r].pred)
            /\ dl_tree' = [dl_tree EXCEPT ![FillIdx] = rest]
            /\ dl_flags' = ClearIfEmpty(dl_flags, FillIdx, rest)
            /\ batch_queue' = [batch_queue EXCEPT ![page][idx] = Append(@, r)]
            /\ bq_state' = [bq_state EXCEPT ![page] = @ \cup {idx}]
            /\ batch_count' = [batch_count EXCEPT ![page][OpType(rq[r].kind)] = @ + 1]
            /\ fill' = [fill EXCEPT !.count = @ + 1, !.added = @ + rq[r].pred,
                                    !.dels = dels % MaxDeletes]
            /\ lock' = IF dels = MaxDeletes THEN NoOne ELSE c
            /\ UNCHANGED pc
      /\ UNCHANGED <<rq, prioVars, barVars, bq_flags, bq_page, bq_batch_order,
                     elvVars, modelVars, bq_lock, local_list, envVars>>

\* Faulty variant: the queue is not sorted.
SortedByPos_Never(q) == {q}

\* list_sort by cmp_rq_pos, which is stable.
SortedByPos(q) ==
  {s \in [DOMAIN q -> ToSet(q)] :
     \A i, j \in DOMAIN s : i < j =>
       LET a == rq[s[i]].kind.pos
           b == rq[s[j]].kind.pos
       IN  a < b \/ (a = b /\ Before(q, s[i], s[j]))}

\* The rest of fill_batch_queues and of dispatch_from_bq around it.
fill_batch_queues_done(c) ==
  LET page  == 1 - bq_page
      q     == batch_queue[page][1]
      flags == IF fill.count > 0 THEN bq_flags \cup {page} ELSE bq_flags
  IN  /\ pc[c] = "filled"
      /\ in_flight' = Account(fill.count % CountSize, fill.added)
      /\ \E sorted \in IF bq_batch_order[page] = 1 /\ batch_count[page][1] > 1
                       THEN SortedByPos(q) ELSE {q} :
           pop_bq_request(c, fill.curHasRq, [batch_queue EXCEPT ![page][1] = sorted], flags)
      /\ UNCHANGED <<prio_queue, pq_flags, dlVars, barVars, batchVars, modelVars,
                     lock, local_list, envVars>>

---------------------------------------------------------------------------
(* The barrier.                                                            *)

\* Faulty variant: dispatch gives up without a look at the barrier.
check_barrier_Never(c) ==
  /\ pc[c] = "bp"
  /\ goto(c, "idle")
  /\ UNCHANGED <<rq, prioVars, dlVars, barVars, pageVars, batchVars, elvVars,
                 modelVars, lock, bq_lock, local_list, envVars>>

\* Nothing was found: is a barrier pending?
check_barrier(c) ==
  /\ pc[c] = "bp"
  /\ goto(c, IF bp_flag THEN "release" ELSE "idle")
  /\ UNCHANGED <<rq, prioVars, dlVars, barVars, pageVars, batchVars, elvVars,
                 modelVars, lock, bq_lock, local_list, envVars>>

\* Faulty variant: the next flush does not end the release.
Followers_All == Len(barrier_queue) - 1

\* How many requests follow the first of the barrier queue up to the next flush.
Followers ==
  LET later == {i \in 2..Len(barrier_queue) : RqIsFlush(rq[barrier_queue[i]].kind)}
  IN  (IF later = {} THEN Len(barrier_queue) + 1 ELSE Min(later)) - 2

release_barrier_requests(c) ==
  LET n    == Followers
      r    == Head(barrier_queue)
      rest == SubSeq(barrier_queue, n + 2, Len(barrier_queue))
  IN  /\ pc[c] = "release" /\ lock = NoOne
      /\ \/ /\ barrier_queue = <<>>
            /\ goto(c, "idle")
            /\ UNCHANGED <<prioVars, barVars, lock, local_list>>
         \/ /\ barrier_queue # <<>>
            /\ insert_to_prio_queue(r, rq[r].pred, 1)
            /\ local_list' = SubSeq(barrier_queue, 2, n + 1)
            /\ barrier_queue' = rest
            /\ bp_flag' = (rest # <<>> /\ bp_flag)
            /\ lock' = IF n > 0 THEN c ELSE NoOne
            /\ goto(c, IF n > 0 THEN "reinsert" ELSE "pq")
      /\ UNCHANGED <<rq, dlVars, pageVars, batchVars, elvVars, modelVars, bq_lock,
                     envVars>>

\* One request of local_list goes to its deadline tree, ad->lock being held.
release_local_list(c) ==
  LET r == Head(local_list)
  IN  /\ pc[c] = "reinsert"
      /\ merge_or_insert_to_dl_tree(r, rq[r])
      /\ local_list' = Tail(local_list)
      /\ lock' = IF Tail(local_list) = <<>> THEN NoOne ELSE c
      /\ goto(c, IF Tail(local_list) = <<>> THEN "pq" ELSE "reinsert")
      /\ UNCHANGED <<prioVars, barVars, pageVars, batchVars, elvVars, modelVars,
                     bq_lock, envVars>>

---------------------------------------------------------------------------
(* Completion, and what changes the scheduler's parameters.                *)

\* The first small sample of a model without a base gives it one.
adios_completed_request(r) ==
  LET o == OpType(rq[r].kind)
  IN  /\ rq[r].status = "dispatched"
      /\ rq' = [rq EXCEPT ![r].status = "completed"]
      /\ in_flight' = Account(-1, -rq[r].pred)
      /\ \/ UNCHANGED base
         \/ o # 3 /\ base[o] = 0 /\ \E b \in Bases : base' = [base EXCEPT ![o] = b]
      /\ UNCHANGED <<prio_queue, pq_flags, dlVars, barVars, pageVars, batchVars,
                     elvVars, models_stable, ctlVars, envVars>>

\* update_timer_callback, or a value stored through sysfs.
latency_model_update(o, b) ==
  /\ budget.updates > 0
  /\ budget' = [budget EXCEPT !.updates = @ - 1]
  /\ base' = [base EXCEPT ![o] = b]
  /\ UNCHANGED <<rq, prioVars, dlVars, barVars, pageVars, batchVars, elvVars,
                 models_stable, ctlVars, inserted, batch_order, bio>>

\* sysfs accepts ADIOS_BO_ELEVATOR on a rotational device only.
adios_batch_order_store(o) ==
  /\ Rotational /\ o # batch_order
  /\ batch_order' = o
  /\ UNCHANGED <<rq, prioVars, dlVars, barVars, pageVars, batchVars, elvVars,
                 modelVars, ctlVars, inserted, bio, budget>>

---------------------------------------------------------------------------
NoKind == [op |-> "read", sync |-> FALSE, head |-> FALSE, start |-> 0, pos |-> 0]

\* The queues as adios_init_sched sets them up, with the models given.
InitWith(stable, bases) ==
  /\ rq = [r \in Requests |-> [kind |-> NoKind, pred |-> 0, deadline |-> 0,
                               status |-> "new", gated |-> FALSE]]
  /\ inserted = 0
  /\ prio_queue = [i \in Bit |-> <<>>] /\ pq_flags = {}
  /\ dl_tree = [i \in Bit |-> <<>>] /\ dl_flags = {} /\ dl_bias = 0
  /\ barrier_queue = <<>> /\ bp_flag = FALSE
  /\ batch_queue = [p \in Bit |-> [o \in OpTypes |-> <<>>]]
  /\ batch_count = [p \in Bit |-> [o \in OpTypes |-> 0]]
  /\ bq_state = [p \in Bit |-> {}] /\ bq_flags = {} /\ bq_page = 0
  /\ bq_batch_order = [p \in Bit |-> 0] /\ batch_order = 0
  /\ elv_direction = 0 /\ head_pos = 0
  /\ in_flight = [count |-> 0, lat |-> 0]
  /\ models_stable = stable /\ base = bases
  /\ lock = NoOne /\ bq_lock = NoOne
  /\ pc = [c \in CPUs |-> "idle"]
  /\ fill = [tpl |-> 0, added |-> 0, count |-> 0, dels |-> 0, curHasRq |-> FALSE]
  /\ local_list = <<>>
  /\ bio = FALSE
  /\ budget = [requeues |-> MaxRequeues, updates |-> MaxUpdates]

\* adios_init_sched.
Init == InitWith(FALSE, [o \in OpTypes |-> 0])

\* The same queues later on: the requests so far have completed, the read and
\* the write model have a base and models_stable is set.  This is where the
\* scheduler spends its life, and a start here leaves MaxReq requests for it.
WarmInit == \E b \in Bases \ {0} :
              InitWith(TRUE, [o \in OpTypes |-> IF o = 3 THEN 0 ELSE b])

Dispatch(c) ==
  \/ call_dispatch(c)
  \/ dispatch_from_pq(c)
  \/ dispatch_from_bq(c)
  \/ fill_batch_queues(c)
  \/ fill_batch_queues_done(c)
  \/ check_barrier(c)
  \/ release_barrier_requests(c)
  \/ release_local_list(c)

Next ==
  \/ \E k \in Kinds : adios_insert_requests(k)
  \/ \E r \in Requests : Requeue(r)
  \/ bio_merge_check
  \/ adios_bio_merge
  \/ adios_bio_merge_oops
  \/ \E c \in CPUs : Dispatch(c)
  \/ \E r \in Requests : adios_completed_request(r)
  \/ \E o \in OpTypes, b \in Bases : latency_model_update(o, b)
  \/ \E o \in Bit : adios_batch_order_store(o)

Spec == Init /\ [][Next]_vars
WarmSpec == WarmInit /\ [][Next]_vars

\* The block layer runs the hardware queue again as long as has_work says
\* that there is something to dispatch, and a spinlock is held for a bounded time.
FairSpec == WarmSpec /\ \A c \in CPUs : WF_vars(Dispatch(c))
---------------------------------------------------------------------------
(* Properties.                                                             *)

\* Type correctness of ad->state, the queues and the locals of a dispatch.
TypeOK ==
  /\ rq \in [Requests -> RqType]
  /\ inserted \in 0..MaxReq
  /\ prio_queue \in [Bit -> Seq(Requests)] /\ pq_flags \subseteq Bit
  /\ dl_tree \in [Bit -> Seq(Requests)] /\ dl_flags \subseteq Bit
  /\ barrier_queue \in Seq(Requests) /\ bp_flag \in BOOLEAN
  /\ batch_queue \in [Bit -> [OpTypes -> Seq(Requests)]]
  /\ batch_count \in [Bit -> [OpTypes -> Nat]]
  /\ bq_state \in [Bit -> SUBSET OpTypes] /\ bq_flags \subseteq Bit
  /\ bq_page \in Bit /\ bq_batch_order \in [Bit -> Bit] /\ batch_order \in Bit
  /\ dl_bias \in Int /\ elv_direction \in Bit /\ head_pos \in Nat
  /\ in_flight \in [count : 0..(CountSize - 1), lat : 0..(LatSize - 1)]
  /\ models_stable \in BOOLEAN /\ base \in [OpTypes -> Nat]
  /\ lock \in CPUs \cup {NoOne, Oops} /\ bq_lock \in CPUs \cup {NoOne}
  /\ pc \in [CPUs -> Labels]
  /\ fill \in [tpl : Int, added : Nat, count : Nat, dels : Nat, curHasRq : BOOLEAN]
  /\ local_list \in Seq(Requests)
  /\ bio \in BOOLEAN
  /\ budget \in [requeues : Nat, updates : Nat]

\* The page a fill_batch_queues call in progress is filling.
Filling(p) == p = 1 - bq_page /\ \E c \in CPUs : pc[c] \in {"fill", "filled"}

\* The bits of ad->state and of ad->bq_state[] say exactly which queues hold
\* requests, though each is set and cleared at the edges only: a bit too many
\* makes dispatch read an empty tree, a bit too few strands a request.  Only
\* the page being filled has requests before its bit is set.
FlagsAgree ==
  /\ \A i \in Bit : i \in pq_flags <=> prio_queue[i] # <<>>
  /\ \A i \in Bit : i \in dl_flags <=> dl_tree[i] # <<>>
  /\ bp_flag <=> barrier_queue # <<>>
  /\ \A p \in Bit : \A o \in OpTypes : o \in bq_state[p] <=> batch_queue[p][o] # <<>>
  /\ \A p \in Bit : p \in bq_flags => bq_state[p] # {}
  /\ \A p \in Bit : bq_state[p] # {} => p \in bq_flags \/ Filling(p)

QueueNames == {<<"pq", i, 0>> : i \in Bit} \cup {<<"dl", i, 0>> : i \in Bit}
              \cup {<<"bq", p, o>> : p \in Bit, o \in OpTypes}
              \cup {<<"barrier", 0, 0>>, <<"local", 0, 0>>}

Contents(n) == CASE n[1] = "pq"      -> prio_queue[n[2]]
                 [] n[1] = "dl"      -> dl_tree[n[2]]
                 [] n[1] = "bq"      -> batch_queue[n[2]][n[3]]
                 [] n[1] = "barrier" -> barrier_queue
                 [] OTHER            -> local_list

\* A request that ADIOS accepted and has not returned is in exactly one of
\* its lists, and any other request in none, whatever CPUs insert, merge,
\* fill, dispatch and release at the same time.
QueuedOnce ==
  \A r \in Requests :
    LET places == {at \in QueueNames \X Requests :
                     at[2] \in DOMAIN Contents(at[1]) /\ Contents(at[1])[at[2]] = r}
    IN  Cardinality(places) = IF rq[r].status = "queued" THEN 1 ELSE 0

\* The requests ad->in_flight_rqs stands for.
InFlight ==
  {r \in Requests :
     \/ rq[r].status = "dispatched"
     \/ \E i \in Bit : r \in ToSet(prio_queue[i])
     \/ \E p \in Bit, o \in OpTypes : ~Filling(p) /\ r \in ToSet(batch_queue[p][o])}

\* ad->in_flight_rqs, added to and subtracted from without a lock, is the
\* number and, as far as its bits go, the predicted latency of the requests
\* between the deadline trees and completion.
InFlightExact ==
  in_flight = [count |-> Cardinality(InFlight),
               lat   |-> SumFunctionOnSet([r \in Requests |-> rq[r].pred], InFlight)
                           % LatSize]

\* A request given back by the driver is accounted twice and taken off once:
\* each requeue leaves one behind in the count for good, nothing else does,
\* and past CountSize the count of in_flight_rqs wraps round.
CountOffByRequeues ==
  in_flight.count =
    (Cardinality(InFlight) + (MaxRequeues - budget.requeues)) % CountSize

\* A batch holds at most batch_limit[] requests of each optype and, past the
\* first request, fits into global_latency_window on top of what was in
\* flight: fill_batch_queues is never run on a page that still has requests.
BatchBounded ==
  /\ \A p \in Bit, o \in OpTypes :
       Cardinality({r \in Requests : /\ OpType(rq[r].kind) = o
                                     /\ \E q \in OpTypes : r \in ToSet(batch_queue[p][q])})
         <= BatchLimit[o]
  /\ (\E c \in CPUs : pc[c] \in {"fill", "filled"})
       => fill.count <= 1 \/ fill.tpl + fill.added <= Window

\* The requests that the barrier applies to.
Gated(r) == rq[r].gated /\ ~rq[r].kind.head

\* While a barrier is pending, every request inserted after the one that
\* heads barrier_queue is held there, in order of insertion.
BarrierHoldsLater ==
  barrier_queue # <<>> =>
    /\ \A i, j \in DOMAIN barrier_queue : i < j => barrier_queue[i] < barrier_queue[j]
    /\ ToSet(barrier_queue) = {r \in 1..inserted : Gated(r) /\ r >= Head(barrier_queue)}

\* A request inserted after a flush is not dispatched before the flush.
FlushBeforeLater ==
  \A f, r \in Requests :
    /\ f < r /\ Gated(f) /\ Gated(r)
    /\ rq[f].kind.op = "flush" /\ rq[f].status = "queued"
    => rq[r].status \notin {"dispatched", "completed"}

\* Synchronous requests of one optype are dispatched in the order in which
\* they were inserted (unless a later one started in an earlier quantum).
SyncFifo ==
  \A a, b \in Requests :
    /\ a < b /\ Gated(a) /\ Gated(b)
    /\ rq[a].kind.sync /\ rq[b].kind.sync
    /\ OpType(rq[a].kind) = OpType(rq[b].kind) /\ ~RqIsFlush(rq[a].kind)
    /\ Key(rq[a].kind.start) <= Key(rq[b].kind.start)
    /\ rq[a].status = "queued"
    => rq[b].status \notin {"dispatched", "completed"}

\* In elevator order the asynchronous queue of a batch is in disk order as
\* long as it holds two writes, whichever end dispatch pops from, whatever
\* batch_order has been set to since the batch was filled and whatever other
\* operations wait in it.  The code decides to sort by the writes it counted;
\* a queue of other operations with one write at most may be in any order,
\* though dispatch pops it by direction as well.
ElevatorSorted ==
  \A p \in Bit :
    LET q == batch_queue[p][1]
    IN  /\ bq_batch_order[p] = 1 /\ ~Filling(p)
        /\ \E i, j \in DOMAIN q : i # j /\ OpType(rq[q[i]].kind) = 1
                                       /\ OpType(rq[q[j]].kind) = 1
        => \A i, j \in DOMAIN q : i < j => rq[q[i]].kind.pos <= rq[q[j]].kind.pos

\* Every request that is queued leaves the scheduler.
EveryRequestLeaves ==
  \A r \in Requests : rq[r].status = "queued" ~> rq[r].status # "queued"

===========================================================================
