------------------------- MODULE AdiosOrderProofs -------------------------
(***************************************************************************)
(* Proofs, for any number of requests, CPUs and any tunables, about the    *)
(* order that AdiosSched keeps: which requests barrier_queue holds, that   *)
(* nothing one CPU dispatches passes a flush, and that synchronous         *)
(* requests leave in the order they came, as long as no bio merges.        *)
(***************************************************************************)
EXTENDS AdiosSchedProofs

---------------------------------------------------------------------------
(* The barrier queue as a set of requests and an order on them.            *)

\* The requests from h on, of the first n, that the barrier applies to.
HeldFrom(h, n) == {r \in 1..n : Gated(r) /\ r >= h}

\* The list q is in order of insertion.
Increasing(q) == \A i, j \in DOMAIN q : i < j => q[i] < q[j]

\* The list q holds what a barrier whose queue is q should, n requests having
\* been inserted.
Holds(q, n) == q # <<>> => Increasing(q) /\ ToSet(q) = HeldFrom(Head(q), n)

\* BarrierHoldsLater in these words.
LEMMA BarrierHolds == BarrierHoldsLater <=> Holds(barrier_queue, inserted)
BY DEF BarrierHoldsLater, Holds, Increasing, HeldFrom

\* A later request that is put at the tail, or a first one.
LEMMA AppendIncreasing ==
  ASSUME NEW q \in Seq(Requests), IsInjective(q), NEW r \in Requests,
         Increasing(q), \A x \in ToSet(q) : x < r
  PROVE  /\ Increasing(Append(q, r)) /\ ToSet(Append(q, r)) = ToSet(q) \cup {r}
         /\ Append(q, r) # <<>>
         /\ Head(Append(q, r)) = IF q = <<>> THEN r ELSE Head(q)
<1> DEFINE t == Append(q, r)
<1>1. /\ t \in Seq(Requests) /\ Len(t) = Len(q) + 1
      /\ \A i \in 1..Len(q) : t[i] = q[i]
      /\ t[Len(q) + 1] = r
  BY AppendProperties
<1>2. /\ Len(q) \in Nat /\ DOMAIN q = 1..Len(q) /\ DOMAIN t = 1..(Len(q) + 1)
      /\ \A i \in 1..Len(q) : q[i] \in ToSet(q)
  BY <1>1, LenProperties DEF ToSet
<1>3. ToSet(t) = ToSet(q) \cup {r}
  <2>1. r \notin ToSet(q)
    BY DEF Requests
  <2>2. QED
    BY <2>1, AppendDistinct
<1> HIDE DEF t
<1>4. Increasing(t)
  <2> SUFFICES ASSUME NEW i \in 1..(Len(q) + 1), NEW j \in 1..(Len(q) + 1), i < j
               PROVE  t[i] < t[j]
    BY <1>2 DEF Increasing
  <2>1. i \in 1..Len(q)
    BY <1>2
  <2>2. CASE j \in 1..Len(q)
    BY <1>1, <1>2, <2>1, <2>2 DEF Increasing
  <2>3. CASE j = Len(q) + 1
    BY <1>1, <1>2, <2>1, <2>3
  <2>4. QED
    BY <1>2, <2>2, <2>3
<1>5. t # <<>> /\ Head(t) = t[1]
  BY <1>1, <1>2, EmptySeq, HeadTailProperties
<1>6. t[1] = IF q = <<>> THEN r ELSE Head(q)
  <2>1. CASE q = <<>>
    <3>1. Len(q) = 0
      BY <2>1, EmptySeq
    <3>2. QED
      BY <1>1, <2>1, <3>1
  <2>2. CASE q # <<>>
    <3>1. Len(q) # 0 /\ Head(q) = q[1]
      BY <2>2, EmptySeq, HeadTailProperties
    <3>2. 1 \in 1..Len(q)
      BY <1>2, <3>1
    <3>3. QED
      BY <1>1, <2>2, <3>1, <3>2
  <2>3. QED
    BY <2>1, <2>2
<1>7. QED
  BY <1>3, <1>4, <1>5, <1>6 DEF t

\* The rest of an increasing list from position m on are its elements that are
\* no smaller than the one there.
LEMMA RestIncreasing ==
  ASSUME NEW q \in Seq(Requests), IsInjective(q), Increasing(q),
         NEW m \in 1..Len(q), NEW t, t = SubSeq(q, m, Len(q))
  PROVE  /\ Increasing(t) /\ t # <<>> /\ Head(t) = q[m]
         /\ ToSet(t) = {x \in ToSet(q) : x >= q[m]}
<1>1. /\ Len(q) \in Nat /\ DOMAIN q = 1..Len(q)
      /\ \A i \in 1..Len(q) : q[i] \in Requests
      /\ \A x : x \in ToSet(q) <=> \E k \in 1..Len(q) : q[k] = x
  BY ElementsOf
<1>2. m \in 1..(Len(q) + 1) /\ Len(q) \in 0..Len(q)
  BY <1>1
<1>3. \A x : x \in ToSet(t) <=> \E k \in m..Len(q) : q[k] = x
  BY <1>2, PartDistinct
<1>4. /\ t \in Seq(Requests) /\ Len(t) = Len(q) - m + 1
      /\ \A k \in 1..(Len(q) - m + 1) : t[k] = q[m + k - 1]
  BY <1>1, SubSeqProperties
<1>5. DOMAIN t = 1..(Len(q) - m + 1)
  BY <1>4, LenProperties
<1>6. \A i, j \in 1..Len(q) : i < j => q[i] < q[j]
  BY <1>1 DEF Increasing
<1>7. Increasing(t)
  <2> SUFFICES ASSUME NEW i \in 1..(Len(q) - m + 1), NEW j \in 1..(Len(q) - m + 1), i < j
               PROVE  t[i] < t[j]
    BY <1>5 DEF Increasing
  <2>1. m + i - 1 \in 1..Len(q) /\ m + j - 1 \in 1..Len(q) /\ m + i - 1 < m + j - 1
    BY <1>1
  <2>2. q[m + i - 1] < q[m + j - 1]
    BY <1>6, <2>1
  <2>3. QED
    BY <1>4, <2>2
<1>8. t # <<>> /\ Head(t) = q[m]
  <2>1. Len(t) # 0 /\ 1 \in 1..(Len(q) - m + 1) /\ m + 1 - 1 = m
    BY <1>1, <1>4
  <2>2. t \in Seq(Requests) /\ Len(t) # 0
    BY <1>4, <2>1
  <2>3. t # <<>>
    BY <2>2, EmptySeq
  <2>4. Head(t) = t[1]
    BY <2>2, <2>3, HeadTailProperties
  <2>5. QED
    BY <1>4, <2>1, <2>3, <2>4
<1>9. ASSUME NEW x PROVE x \in ToSet(t) <=> x \in ToSet(q) /\ x >= q[m]
  <2>1. \A k \in 1..Len(q) : q[k] >= q[m] <=> k >= m
    <3> TAKE k \in 1..Len(q)
    <3>1. q[k] \in Int /\ q[m] \in Int
      BY <1>1 DEF Requests
    <3>2. k < m => q[k] < q[m]
      BY <1>6
    <3>3. m < k => q[m] < q[k]
      BY <1>6
    <3>4. QED
      BY <1>1, <3>1, <3>2, <3>3
  <2>2. QED
    BY <1>1, <1>3, <2>1
<1>10. QED
  BY <1>7, <1>8, <1>9

---------------------------------------------------------------------------
(* The steps.                                                              *)

\* What the queue and the requests of the barrier are when nothing changes
\* for either.
LEMMA SameBarrier ==
  ASSUME BarrierHoldsLater, UNCHANGED barrier_queue,
         barrier_queue # <<>> =>
           \A r : r >= Head(barrier_queue) =>
             (r \in 1..inserted' /\ Gated(r)' <=> r \in 1..inserted /\ Gated(r))
  PROVE  BarrierHoldsLater'
<1> SUFFICES ASSUME barrier_queue # <<>>
             PROVE  /\ Increasing(barrier_queue)
                    /\ ToSet(barrier_queue) =
                         {r \in 1..inserted' : Gated(r)' /\ r >= Head(barrier_queue)}
  BY DEF BarrierHoldsLater, Increasing
<1>1. Increasing(barrier_queue) /\ ToSet(barrier_queue) = HeldFrom(Head(barrier_queue), inserted)
  BY BarrierHolds DEF Holds
<1>2. \A r : r \in HeldFrom(Head(barrier_queue), inserted)
               <=> r \in 1..inserted' /\ Gated(r)' /\ r >= Head(barrier_queue)
  BY DEF HeldFrom
<1>3. QED
  BY <1>1, <1>2

\* The requests of the barrier queue are queued, and distinct.
LEMMA BarrierQueued ==
  ASSUME QInv
  PROVE  /\ barrier_queue \in Seq(Requests) /\ IsInjective(barrier_queue)
         /\ \A r \in ToSet(barrier_queue) :
              r \in Requests /\ rq[r].status = "queued" /\ r <= inserted
<1>1. BarrierName \in QueueNames /\ Lists[BarrierName] = barrier_queue
  BY Names, ListAt DEF Lists
<1>2. barrier_queue \in Seq(Requests) /\ IsInjective(barrier_queue)
  BY <1>1 DEF QInv, PlaceOK, Placed
<1>3. \A r \in ToSet(barrier_queue) : r \in Requests /\ rq[r].status = "queued"
  BY <1>1, InListQueued DEF QInv
<1>4. QED
  BY <1>2, <1>3 DEF QInv, NewOK

\* What a step may do to the barrier queue when it inserts the request r of the
\* kind k: a request that is diverted is one the barrier applies to.
Diverted(r, k) ==
  /\ models_stable /\ ~k.head
  /\ barrier_queue = <<>> => RqIsFlush(k)
  /\ barrier_queue' = Append(barrier_queue, r)

\* An insertion diverts its request, or the barrier does not apply to it.
LEMMA InsertDiverts ==
  ASSUME QInv, NEW r \in Requests, NEW k \in KindType, insert_request(r, k)
  PROVE  \/ Diverted(r, k)
         \/ /\ UNCHANGED barrier_queue
            /\ ~models_stable \/ k.head \/ (barrier_queue = <<>> /\ ~RqIsFlush(k))
<1> DEFINE n == [kind |-> k, pred |-> base[OpType(k)], deadline |-> 0,
                 status |-> "queued", gated |-> models_stable]
<1>1. n.kind = k
  OBVIOUS
<1>2. IF models_stable THEN insert_request_post_stability(r, n)
                       ELSE insert_request_pre_stability(r, n)
  BY DEF insert_request
<1>3. bp_flag <=> barrier_queue # <<>>
  BY DEF QInv, IInv, BarOK
<1> HIDE DEF n
<1>4. CASE insert_request_pre_stability(r, n) /\ ~models_stable
  BY <1>4 DEF insert_request_pre_stability, barVars
<1>5. CASE insert_request_post_stability(r, n) /\ models_stable
  BY <1>1, <1>3, <1>5 DEF insert_request_post_stability, Diverted, barVars
<1>6. QED
  BY <1>2, <1>4, <1>5

\* A new request is the latest one, and is held if a barrier is pending.
LEMMA InsertHolds ==
  ASSUME QInv, BarrierHoldsLater, NEW k \in Kinds, adios_insert_requests(k)
  PROVE  BarrierHoldsLater'
<1>1. PICK r \in Requests : r = inserted + 1
  BY ConstantsAssumption DEF adios_insert_requests, QInv, IInv, EnvOK, Requests
<1>2. /\ insert_request(r, k) /\ inserted' = r /\ k \in KindType
      /\ inserted \in Nat /\ r = inserted + 1
  <2>1. k \in KindType /\ inserted \in Nat
    BY ConstantsAssumption DEF QInv, IInv, EnvOK
  <2>2. insert_request(r, k) /\ inserted' = r
    BY <1>1 DEF adios_insert_requests
  <2>3. QED
    BY <1>1, <2>1, <2>2
<1>3. /\ \A q \in Requests \ {r} : KindKept(q)
      /\ rq'[r].kind = k /\ rq'[r].gated = models_stable
  BY <1>2, InsertKinds
<1>4. /\ \A q \in 1..inserted : Gated(q)' <=> Gated(q)
      /\ Gated(r)' <=> models_stable /\ ~k.head
  <2>1. \A q \in 1..inserted : q \in Requests \ {r}
    <3>1. r \in 1..MaxReq /\ r = inserted + 1 /\ inserted \in Nat /\ MaxReq \in Nat
      BY <1>2, ConstantsAssumption DEF Requests
    <3>2. QED
      BY <3>1 DEF Requests
  <2>2. \A q \in Requests \ {r} : Gated(q)' <=> Gated(q)
    BY <1>3 DEF KindKept, Gated
  <2>3. Gated(r)' <=> models_stable /\ ~k.head
    BY <1>3 DEF Gated
  <2>4. QED
    BY <2>1, <2>2, <2>3
<1>5. \A q : q \in 1..inserted' <=> q \in 1..inserted \/ q = r
  BY <1>2
<1>6. CASE UNCHANGED barrier_queue /\ (barrier_queue = <<>> \/ ~models_stable \/ k.head)
  <2>1. barrier_queue # <<>> =>
          \A q : q \in 1..inserted' /\ Gated(q)' <=> q \in 1..inserted /\ Gated(q)
    <3> SUFFICES ASSUME barrier_queue # <<>>, NEW q
                 PROVE  q \in 1..inserted' /\ Gated(q)' <=> q \in 1..inserted /\ Gated(q)
      OBVIOUS
    <3>1. ~Gated(r)'
      BY <1>4, <1>6
    <3>2. r \notin 1..inserted
      BY <1>2
    <3>3. CASE q = r
      BY <1>5, <3>1, <3>2, <3>3
    <3>4. CASE q # r
      BY <1>4, <1>5, <3>4
    <3>5. QED
      BY <3>3, <3>4
  <2>2. QED
    BY <1>6, <2>1, SameBarrier
<1>7. CASE Diverted(r, k)
  <2> DEFINE q == barrier_queue
             t == Append(q, r)
             h == IF q = <<>> THEN r ELSE Head(q)
  <2>1. q \in Seq(Requests) /\ IsInjective(q) /\ \A x \in ToSet(q) : x \in Requests /\ x <= inserted
    BY BarrierQueued
  <2>2. Holds(q, inserted)
    BY BarrierHolds
  <2>3. Increasing(q) /\ ToSet(q) = IF q = <<>> THEN {} ELSE HeldFrom(Head(q), inserted)
    BY <2>2 DEF Holds, Increasing, ToSet
  <2>4. barrier_queue' = t /\ Gated(r)'
    BY <1>4, <1>7 DEF Diverted
  <2>5. q # <<>> => Head(q) \in ToSet(q)
    BY <2>1, TailDistinct
  <2> HIDE DEF q, t
  <2>6. \A x \in ToSet(q) : x < r
    BY <1>2, <2>1 DEF Requests
  <2>7. Increasing(t) /\ ToSet(t) = ToSet(q) \cup {r} /\ t # <<>> /\ Head(t) = h
    BY <2>1, <2>3, <2>6, AppendIncreasing DEF t
  <2>8. ASSUME NEW x
        PROVE  x \in ToSet(t) <=> x \in 1..inserted' /\ Gated(x)' /\ x >= h
    <3>1. CASE q = <<>>
      <4>1. x \in ToSet(t) <=> x = r
        BY <2>3, <2>7, <3>1
      <4>2. x \in 1..inserted' /\ x >= r <=> x = r
        BY <1>2
      <4>3. QED
        BY <2>4, <3>1, <4>1, <4>2
    <3>2. CASE q # <<>>
      <4>1. x \in ToSet(t) <=> x \in HeldFrom(h, inserted) \/ x = r
        BY <2>3, <2>7, <3>2
      <4>2. h \in Nat /\ h < r
        BY <2>1, <2>5, <2>6, <3>2 DEF Requests
      <4> HIDE DEF h
      <4>3. CASE x = r
        BY <1>2, <1>5, <2>4, <4>1, <4>2, <4>3
      <4>4. CASE x # r
        BY <1>4, <1>5, <4>1, <4>4 DEF HeldFrom
      <4>5. QED
        BY <4>3, <4>4
    <3>3. QED
      BY <3>1, <3>2
  <2>9. ToSet(t) = {x \in 1..inserted' : Gated(x)' /\ x >= Head(t)}
    BY <2>7, <2>8
  <2>10. QED
    BY <2>4, <2>7, <2>9 DEF BarrierHoldsLater, Increasing
<1>8. QED
  BY <1>2, <1>6, <1>7, InsertDiverts

\* A request that the driver gave back is inserted at the head: the barrier no
\* longer applies to it, and it was not held, having been dispatched.
LEMMA RequeueHolds ==
  ASSUME QInv, BarrierHoldsLater, NEW r \in Requests, Requeue(r)
  PROVE  BarrierHoldsLater'
<1> DEFINE k == [rq[r].kind EXCEPT !.head = TRUE]
<1>1. /\ k \in KindType /\ k.head
      /\ insert_request(r, k) /\ UNCHANGED inserted /\ rq[r].status = "dispatched"
  BY DEF Requeue, QInv, IInv, RqOK, RqType, KindType
<1> HIDE DEF k
<1>2. /\ \A q \in Requests \ {r} : KindKept(q)
      /\ rq'[r].kind = k
  BY <1>1, InsertKinds
<1>3. UNCHANGED barrier_queue
  BY <1>1, InsertDiverts DEF Diverted
<1>4. r \notin ToSet(barrier_queue)
  BY <1>1, BarrierQueued
<1>5. ASSUME barrier_queue # <<>>, NEW q, q >= Head(barrier_queue)
      PROVE  q \in 1..inserted' /\ Gated(q)' <=> q \in 1..inserted /\ Gated(q)
  <2>1. CASE q \in 1..inserted /\ q # r
    <3>1. q \in Requests
      BY <2>1, ConstantsAssumption DEF Requests, QInv, IInv, EnvOK
    <3>2. Gated(q)' <=> Gated(q)
      BY <1>2, <2>1, <3>1 DEF KindKept, Gated
    <3>3. QED
      BY <1>1, <2>1, <3>2
  <2>2. CASE q = r
    <3>1. ~Gated(r)'
      BY <1>1, <1>2 DEF Gated
    <3>2. ToSet(barrier_queue) = HeldFrom(Head(barrier_queue), inserted)
      BY <1>5, BarrierHolds DEF Holds
    <3>3. ~(r \in 1..inserted /\ Gated(r))
      BY <1>4, <1>5, <2>2, <3>2 DEF HeldFrom
    <3>4. QED
      BY <2>2, <3>1, <3>3
  <2>3. CASE q \notin 1..inserted
    BY <1>1, <2>3
  <2>4. QED
    BY <2>1, <2>2, <2>3
<1>6. QED
  BY <1>1, <1>3, <1>5, SameBarrier

\* A release takes the queue's requests up to the next flush, which heads what
\* is left.
LEMMA ReleaseHolds ==
  ASSUME QInv, BarrierHoldsLater, NEW c \in CPUs, release_barrier_requests(c)
  PROVE  BarrierHoldsLater'
<1>1. UNCHANGED <<rq, inserted>>
  BY DEF release_barrier_requests, envVars
<1>2. CASE UNCHANGED barrier_queue
  <2>1. \A r : r \in 1..inserted' /\ Gated(r)' <=> r \in 1..inserted /\ Gated(r)
    BY <1>1 DEF Gated
  <2>2. QED
    BY <1>2, <2>1, SameBarrier
<1>3. ASSUME barrier_queue # <<>>, NEW n, n = Followers,
             barrier_queue' = SubSeq(barrier_queue, n + 2, Len(barrier_queue))
      PROVE  BarrierHoldsLater'
  <2> DEFINE q == barrier_queue
             t == SubSeq(q, n + 2, Len(q))
  <2>1. q \in Seq(Requests) /\ IsInjective(q) /\ Head(q) \in ToSet(q)
    <3>1. q \in Seq(Requests) /\ IsInjective(q)
      BY BarrierQueued
    <3>2. QED
      BY <1>3, <3>1, TailDistinct
  <2>2. n \in 0..(Len(q) - 1)
    BY <1>3, FollowersType DEF QInv, IInv
  <2>3. Increasing(q) /\ ToSet(q) = HeldFrom(Head(q), inserted)
    BY <1>3, BarrierHolds DEF Holds
  <2>4. barrier_queue' = t
    BY <1>3
  <2> HIDE DEF q
  <2>5. Len(q) \in Nat /\ \A i \in 1..Len(q) : q[i] \in ToSet(q)
    BY <2>1, ElementsOf
  <2>6. CASE n + 2 > Len(q)
    <3>1. t = <<>>
      <4>1. \A i \in (n + 2)..Len(q) : q[i] \in Requests
        BY <2>2, <2>5, <2>6
      <4>2. t \in Seq(Requests) /\ Len(t) = 0
        BY <2>2, <2>5, <2>6, <4>1, SubSeqProperties
      <4> HIDE DEF t
      <4>3. QED
        BY <4>2, EmptySeq
    <3>2. QED
      BY <2>4, <3>1 DEF BarrierHoldsLater
  <2>7. CASE n + 2 <= Len(q)
    <3> DEFINE h == q[n + 2]
    <3>1. n + 2 \in 1..Len(q)
      BY <2>2, <2>5, <2>7
    <3>2. /\ Increasing(t) /\ t # <<>> /\ Head(t) = h
          /\ ToSet(t) = {x \in ToSet(q) : x >= h}
      BY <2>1, <2>3, <3>1, RestIncreasing
    <3>3. h \in Int /\ Head(q) \in Int /\ h >= Head(q)
      <4>1. h \in HeldFrom(Head(q), inserted) /\ Head(q) \in HeldFrom(Head(q), inserted)
        BY <2>1, <2>3, <2>5, <3>1
      <4>2. QED
        BY <4>1 DEF HeldFrom
    <3> HIDE DEF t, h
    <3>4. ASSUME NEW x
          PROVE  x \in ToSet(t) <=> x \in 1..inserted' /\ Gated(x)' /\ x >= Head(t)
      <4>1. x \in ToSet(t) <=> x \in 1..inserted /\ Gated(x) /\ x >= Head(q) /\ x >= h
        BY <2>3, <3>2 DEF HeldFrom
      <4>2. x \in 1..inserted /\ x >= h => x >= Head(q)
        BY <3>3
      <4>3. Gated(x)' <=> Gated(x)
        BY <1>1 DEF Gated
      <4>4. QED
        BY <1>1, <3>2, <4>1, <4>2, <4>3
    <3>5. ToSet(t) = {x \in 1..inserted' : Gated(x)' /\ x >= Head(t)}
      BY <3>4
    <3>6. QED
      BY <2>4, <3>2, <3>5 DEF BarrierHoldsLater, Increasing
  <2>8. QED
    BY <2>2, <2>5, <2>6, <2>7
<1>4. QED
  BY <1>2, <1>3 DEF release_barrier_requests, barVars

\* Any other step.
LEMMA StepHolds ==
  ASSUME QInv, BarrierHoldsLater, Step,
         \A c \in CPUs : ~release_barrier_requests(c)
  PROVE  BarrierHoldsLater'
<1>1. UNCHANGED <<barrier_queue, inserted>>
  <2>1. ASSUME NEW c \in CPUs, Dispatch(c) PROVE UNCHANGED <<barrier_queue, inserted>>
    BY <2>1 DEF Dispatch, call_dispatch, dispatch_from_pq, dispatch_from_bq,
                fill_batch_queues, fill_batch_queues_done, check_barrier,
                release_local_list, barVars, envVars
  <2>2. QED
    BY <2>1 DEF Step, bio_merge_check, adios_bio_merge, adios_bio_merge_oops,
                adios_completed_request,
                latency_model_update, adios_batch_order_store, vars, barVars, envVars
<1>2. \A r \in 1..inserted : Gated(r)' <=> Gated(r)
  <2>1. \A r \in 1..inserted : r \in Requests
    BY ConstantsAssumption DEF Requests, QInv, IInv, EnvOK
  <2>2. \A r \in Requests : Gated(r)' <=> Gated(r)
    BY StepKinds DEF KindKept, Gated
  <2>3. QED
    BY <2>1, <2>2
<1>3. QED
  BY <1>1, <1>2, SameBarrier

---------------------------------------------------------------------------
(* The barrier holds what it should.                                       *)

\* The invariant it takes.
HInv == QInv /\ BarrierHoldsLater

\* It holds of a new scheduler.
LEMMA InitHInv ==
  ASSUME NEW stable \in BOOLEAN, NEW bases \in [OpTypes -> Nat], InitWith(stable, bases)
  PROVE  HInv
BY InitQInv DEF InitWith, HInv, BarrierHoldsLater

\* Every step preserves it.
LEMMA NextHInv ==
  ASSUME HInv, [Next]_vars
  PROVE  HInv'
<1>1. QInv /\ BarrierHoldsLater
  BY DEF HInv
<1>2. QInv'
  BY <1>1, NextQInv
<1>3. Step => BarrierHoldsLater'
  BY <1>1, ReleaseHolds, StepHolds
<1>4. BarrierHoldsLater'
  <2>1. \/ \E k \in Kinds : adios_insert_requests(k)
        \/ \E r \in Requests : Requeue(r)
        \/ Step
    BY DEF Next, Step
  <2>2. QED
    BY <1>1, <1>3, <2>1, InsertHolds, RequeueHolds
<1>5. QED
  BY <1>2, <1>4 DEF HInv

\* While a barrier is pending, barrier_queue holds every request inserted after
\* the one that heads it and no other, in order, through releases and requeues
\* by any number of CPUs.
THEOREM BarrierAlwaysHolds == Spec \/ WarmSpec => []BarrierHoldsLater
<1>1. Init => HInv
  BY InitHInv DEF Init
<1>2. WarmInit => HInv
  <2> SUFFICES ASSUME NEW b \in Bases \ {0},
                      InitWith(TRUE, [o \in OpTypes |-> IF o = 3 THEN 0 ELSE b])
               PROVE  HInv
    BY DEF WarmInit
  <2>1. [o \in OpTypes |-> IF o = 3 THEN 0 ELSE b] \in [OpTypes -> Nat]
    BY ConstantsAssumption
  <2>2. QED
    BY <2>1, InitHInv
<1>3. HInv /\ [Next]_vars => HInv'
  BY NextHInv
<1>4. HInv => BarrierHoldsLater
  BY DEF HInv
<1>5. QED
  BY <1>1, <1>2, <1>3, <1>4, PTL DEF Spec, WarmSpec

---------------------------------------------------------------------------
(* The status of the requests.                                             *)

\* What a step may do to the status of a request that it does not dispatch.
Settles(q) ==
  \/ rq'[q].status = rq[q].status
  \/ rq'[q].status \in {"merged", "lost"}
  \/ rq[q].status = "dispatched" /\ rq'[q].status = "completed"

\* It has left the scheduler.
Left(r) == rq[r].status \in {"dispatched", "completed"}

\* An insertion settles the others, and leaves its request queued at most.
LEMMA AddStatus ==
  ASSUME RqOK, NEW r \in Requests, NEW n \in RqType, NEW tree, NEW flags,
         add_to_dl_tree(r, n, tree, flags)
  PROVE  /\ \A q \in Requests \ {r} : Settles(q)
         /\ rq'[r].status \in {n.status, "lost"}
<1>1. \/ rq' = [rq EXCEPT ![r] = [n EXCEPT !.deadline = Deadline(n)]]
      \/ rq' = [rq EXCEPT ![r] = [n EXCEPT !.deadline = Deadline(n), !.status = "lost"]]
  BY DEF add_to_dl_tree
<1>2. rq \in [Requests -> RqType]
  BY DEF RqOK
<1>3. \A q \in Requests \ {r} : rq'[q] = rq[q]
  BY <1>1, <1>2
<1>4. rq'[r].status \in {n.status, "lost"}
  BY <1>1, <1>2 DEF RqType
<1>5. QED
  BY <1>3, <1>4 DEF Settles

\* The same when it may be merged.
LEMMA MergeStatus ==
  ASSUME RqOK, NEW r \in Requests, NEW n \in RqType, merge_or_insert_to_dl_tree(r, n)
  PROVE  /\ \A q \in Requests \ {r} : Settles(q)
         /\ rq'[r].status \in {n.status, "lost", "merged"}
<1>1. CASE add_to_dl_tree(r, n, dl_tree, dl_flags)
  BY <1>1, AddStatus
<1>2. ASSUME NEW S, rq' = [q \in Requests |->
                            IF q = r THEN [n EXCEPT !.status = "merged"]
                            ELSE IF q \in S THEN [rq[q] EXCEPT !.status = "merged"]
                            ELSE rq[q]]
      PROVE  /\ \A q \in Requests \ {r} : Settles(q)
             /\ rq'[r].status \in {n.status, "lost", "merged"}
  BY <1>2 DEF RqOK, RqType, Settles
<1>3. QED
  BY <1>1, <1>2 DEF merge_or_insert_to_dl_tree

\* The same of adios_insert_requests.
LEMMA InsertStatus ==
  ASSUME QInv, NEW r \in Requests, NEW k \in KindType, insert_request(r, k)
  PROVE  /\ \A q \in Requests \ {r} : Settles(q)
         /\ rq'[r].status \in {"queued", "lost", "merged"}
<1> DEFINE n == [kind |-> k, pred |-> base[OpType(k)], deadline |-> 0,
                 status |-> "queued", gated |-> models_stable]
<1>1. n \in RqType /\ n.status = "queued"
  BY IndexTypes DEF QInv, IInv, ModelOK, RqType, Statuses
<1>2. insert_request_pre_stability(r, n) \/ insert_request_post_stability(r, n)
  BY DEF insert_request
<1>3. RqOK
  BY DEF QInv, IInv
<1> HIDE DEF n
<1>4. CASE rq' = [rq EXCEPT ![r] = n]
  BY <1>1, <1>3, <1>4 DEF RqOK, Settles
<1>5. CASE merge_or_insert_to_dl_tree(r, n)
  BY <1>1, <1>3, <1>5, MergeStatus
<1>6. QED
  BY <1>2, <1>4, <1>5 DEF insert_request_pre_stability, insert_request_post_stability

\* A step that inserts and dispatches nothing settles every request.
LEMMA StepStatus ==
  ASSUME QInv, Step, \A c \in CPUs : ~dispatch_from_pq(c) /\ ~PageStep(c),
         NEW q \in Requests
  PROVE  Settles(q)
<1>1. RqOK /\ \A r \in Requests : rq[r] \in RqType
  BY DEF QInv, IInv, RqOK
<1>2. ASSUME UNCHANGED rq PROVE Settles(q)
  BY <1>2 DEF Settles
<1>3. CASE adios_bio_merge
  <2>1. ASSUME NEW i \in Bit, NEW r \in ToSet(dl_tree[i]), adios_request_merged(i, r)
        PROVE  Settles(q)
    <3>1. r \in Requests
      BY ToSetType DEF QInv, IInv, DlOK, TreesAgree
    <3>2. PICK rest \in Without(dl_tree[i], {r}) :
            add_to_dl_tree(r, rq[r], [dl_tree EXCEPT ![i] = rest],
                           ClearIfEmpty(dl_flags, i, rest))
      BY <2>1 DEF adios_request_merged
    <3>3. QED
      BY <1>1, <3>1, <3>2, AddStatus DEF Settles
  <2>2. ASSUME NEW i \in Bit, NEW next, adios_merged_requests(i, next)
        PROVE  Settles(q)
    BY <1>1, <2>2 DEF adios_merged_requests, Settles, RqType, RqOK
  <2>3. QED
    BY <1>2, <1>3, <2>1, <2>2 DEF adios_bio_merge
<1>4. ASSUME NEW c \in CPUs, Dispatch(c) PROVE Settles(q)
  <2>1. CASE call_dispatch(c) \/ check_barrier(c) \/ release_barrier_requests(c)
    BY <1>2, <2>1 DEF call_dispatch, check_barrier, release_barrier_requests
  <2>2. CASE release_local_list(c)
    <3> DEFINE r == Head(local_list)
    <3>1. r \in Requests /\ merge_or_insert_to_dl_tree(r, rq[r])
      BY <2>2, HeadTailProperties DEF release_local_list, QInv, IInv, CtlOK
    <3> HIDE DEF r
    <3>2. QED
      BY <1>1, <3>1, MergeStatus DEF Settles
  <2>3. QED
    BY <1>4, <2>1, <2>2 DEF Dispatch, PageStep
<1>5. ASSUME NEW r \in Requests, adios_completed_request(r) PROVE Settles(q)
  BY <1>1, <1>5 DEF adios_completed_request, Settles, RqType, RqOK
<1>6. CASE \/ bio_merge_check
           \/ adios_bio_merge_oops
           \/ \E o \in OpTypes, b \in Bases : latency_model_update(o, b)
           \/ \E o \in Bit : adios_batch_order_store(o)
           \/ UNCHANGED vars
  BY <1>2, <1>6 DEF bio_merge_check, adios_bio_merge_oops, latency_model_update,
                    adios_batch_order_store, vars
<1>7. QED
  BY <1>3, <1>4, <1>5, <1>6 DEF Step

\* The one request that a step dispatches.
Dispatches(r) ==
  /\ rq'[r].status = "dispatched"
  /\ \A q \in Requests \ {r} : rq'[q].status = rq[q].status

\* That is what the label "found:" does.
LEMMA FoundDispatches ==
  ASSUME RqOK, NEW c, NEW r \in Requests, found(c, r)
  PROVE  Dispatches(r)
BY DEF RqOK, RqType, found, Dispatches

\* dispatch_from_pq dispatches the head of a priority queue, or nothing.
TakesHead(i) ==
  /\ prio_queue[i] # <<>> /\ prio_queue'[i] = Tail(prio_queue[i])
  /\ \A j \in Bit \ {i} : prio_queue'[j] = prio_queue[j]
  /\ Dispatches(Head(prio_queue[i]))

\* And it takes one of prio_queue[0] only when prio_queue[1] is empty.
LEMMA PqTakes ==
  ASSUME QInv, NEW c \in CPUs, dispatch_from_pq(c)
  PROVE  \/ UNCHANGED <<rq, prio_queue>>
         \/ /\ pc[c] = "pq" /\ pc'[c] = "idle"
            /\ \E i \in Bit : /\ TakesHead(i)
                              /\ i = 0 => prio_queue[1] = <<>>
<1> DEFINE i == PqIdx
           q == prio_queue[i]
<1>1. i \in Bit /\ (i = 0 => prio_queue[1] = <<>>)
  BY DEF PqIdx, Bit, QInv, IInv, PqOK
<1>2. RqOK /\ prio_queue \in [Bit -> Seq(Requests)] /\ pc \in [CPUs -> Labels]
  BY DEF QInv, IInv, PqOK, CtlOK
<1>3. CASE /\ pc[c] = "pq" /\ q # <<>> /\ found(c, Head(q))
           /\ prio_queue' = [prio_queue EXCEPT ![i] = Tail(q)]
  <2>1. prio_queue[i] # <<>> /\ found(c, Head(prio_queue[i]))
        /\ prio_queue' = [prio_queue EXCEPT ![i] = Tail(prio_queue[i])]
    BY <1>3
  <2> HIDE DEF i
  <2>2. Head(prio_queue[i]) \in Requests
    BY <1>1, <1>2, <2>1, HeadTailProperties
  <2>3. TakesHead(i)
    BY <1>1, <1>2, <2>1, <2>2, FoundDispatches DEF TakesHead
  <2>4. pc'[c] = "idle"
    BY <1>2, <2>1 DEF found, goto
  <2>5. QED
    BY <1>1, <1>3, <2>3, <2>4
<1>4. QED
  BY <1>3 DEF dispatch_from_pq

\* PqTakes leaves nothing in the queue it found empty.
LEMMA PqEmpty ==
  ASSUME QInv, NEW c \in CPUs, dispatch_from_pq(c), UNCHANGED prio_queue
  PROVE  prio_queue[1] = <<>>
<1> DEFINE i == PqIdx
           q == prio_queue[i]
<1>1. i \in Bit /\ (prio_queue[1] # <<>> => i = 1)
  BY DEF PqIdx, Bit, QInv, IInv, PqOK
<1>2. prio_queue \in [Bit -> Seq(Requests)]
  BY DEF QInv, IInv, PqOK
<1>3. CASE q # <<>> /\ prio_queue' = [prio_queue EXCEPT ![i] = Tail(q)]
  <2>1. q \in Seq(Requests) /\ q # <<>> /\ prio_queue'[i] = Tail(q)
    BY <1>1, <1>2, <1>3
  <2>2. Tail(q) = q
    BY <2>1
  <2> HIDE DEF q
  <2>3. Len(q) \in Nat /\ Len(q) # 0
    BY <2>1, EmptySeq
  <2>4. Len(Tail(q)) = Len(q) - 1
    BY <2>1, HeadTailProperties
  <2>5. QED
    BY <2>2, <2>3, <2>4
<1>4. CASE q = <<>>
  BY <1>1, <1>4
<1>5. QED
  BY <1>3, <1>4 DEF dispatch_from_pq

\* What a step on the pages dispatches was in a page.
LEMMA PageDispatches ==
  ASSUME QInv, NEW c \in CPUs, PageStep(c), NEW q \in Requests
  PROVE  \/ rq'[q].status = rq[q].status
         \/ /\ rq'[q].status = "dispatched"
            /\ \E p \in Bit, o \in OpTypes : q \in ToSet(batch_queue[p][o])
<1>1. CASE (dispatch_from_bq(c) /\ MustRefill) \/ fill_batch_queues(c)
  <2>1. UNCHANGED rq
    BY <1>1, StartPages, FillPages
  <2>2. QED
    BY <2>1
<1>2. CASE (dispatch_from_bq(c) /\ ~MustRefill) \/ fill_batch_queues_done(c)
  <2>1. Taken
    BY <1>2, PopShrinks
  <2>2. rq'[q].status \in {rq[q].status, "dispatched"}
    <3>1. ASSUME NEW hasRq, NEW bqs, NEW flags, pop_bq_request(c, hasRq, bqs, flags)
          PROVE  rq'[q].status \in {rq[q].status, "dispatched"}
      <4>1. UNCHANGED rq \/ \E r : found(c, r)
        BY <3>1 DEF pop_bq_request
      <4>2. \A r : found(c, r) => rq'[q].status \in {rq[q].status, "dispatched"}
        BY DEF found, QInv, IInv, RqOK
      <4>3. QED
        BY <4>1, <4>2
    <3>2. QED
      BY <1>2, <3>1 DEF dispatch_from_bq, fill_batch_queues_done
  <2>3. QED
    BY <2>1, <2>2 DEF Taken
<1>3. QED
  BY <1>1, <1>2 DEF PageStep

---------------------------------------------------------------------------
(* The flushes.                                                            *)

\* A request that the barrier applies to and that starts one.
Flush(r) == Gated(r) /\ RqIsFlush(rq[r].kind)

\* Those that the barrier applies to.
GatedRqs == {r \in Requests : Gated(r)}

\* The requests of the list q that are in the set G are in order of insertion.
InOrder(q, G) ==
  \A i, j \in DOMAIN q : i < j /\ q[i] \in G /\ q[j] \in G => q[i] < q[j]

\* The labels at which a CPU is while prio_queue[1] holds flushes, when there is
\* no other CPU: it goes back to dispatch_from_pq after each release.
Calm == {"idle", "pq", "reinsert"}

\* Where the flushes are: at the head of barrier_queue, and released to
\* prio_queue[1], in order.
FlushOK ==
  /\ barrier_queue # <<>> => RqIsFlush(rq[Head(barrier_queue)].kind)
  /\ \A r \in GatedRqs : RqIsFlush(rq[r].kind) /\ rq[r].status = "queued"
       => r \in ToSet(barrier_queue) \/ r \in ToSet(prio_queue[1])
  /\ \A r \in ToSet(prio_queue[0]) : r \notin GatedRqs
  /\ InOrder(prio_queue[1], GatedRqs)
  /\ \A r \in ToSet(prio_queue[1]), s \in ToSet(barrier_queue) : r \in GatedRqs => r < s
  /\ \A r \in ToSet(prio_queue[1]), c \in CPUs : r \in GatedRqs => pc[c] \in Calm

\* Nothing passes a flush.
NotPassed ==
  \A f, r \in Requests :
    f < r /\ Flush(f) /\ Gated(r) /\ rq[f].status = "queued" => ~Left(r)

\* In the words of FlushBeforeLater.
LEMMA NotPassedImplies ==
  ASSUME NotPassed
  PROVE  FlushBeforeLater
<1>1. \A k : k.op = "flush" => RqIsFlush(k)
  <2>1. ReqOp["flush"] = 2
    BY DEF ReqOp
  <2>2. (2 \div 2) % 2 = 1
    OBVIOUS
  <2>3. QED
    BY <2>1, <2>2 DEF RqIsFlush
<1>2. QED
  BY <1>1 DEF NotPassed, FlushBeforeLater, Flush, Left

\* A step after which a request that is queued was queued before, and one that
\* has left had left, changes nothing for that.
LEMMA SettledNotPassed ==
  ASSUME NotPassed, \A q \in Requests : KindKept(q) /\ Settles(q)
  PROVE  NotPassed'
<1> SUFFICES ASSUME NEW f \in Requests, NEW r \in Requests, f < r, Flush(f)', Gated(r)',
                    rq'[f].status = "queued", Left(r)'
             PROVE  FALSE
  BY DEF NotPassed
<1>1. Flush(f) /\ Gated(r)
  BY DEF KindKept, Flush, Gated
<1>2. rq[f].status = "queued" /\ Left(r)
  BY DEF Settles, Left
<1>3. QED
  BY <1>1, <1>2 DEF NotPassed

\* A list of which fewer requests are in the set.
LEMMA InOrderLess ==
  ASSUME NEW q, NEW G, NEW H, InOrder(q, G), \A x \in ToSet(q) : x \in H => x \in G
  PROVE  InOrder(q, H)
BY DEF InOrder, ToSet

\* A list with one more request at its tail.
LEMMA InOrderAppend ==
  ASSUME NEW q \in Seq(Requests), NEW G, NEW r \in Requests, InOrder(q, G),
         r \in G => \A x \in ToSet(q) : x \in G => x < r
  PROVE  InOrder(Append(q, r), G)
<1> DEFINE t == Append(q, r)
<1>1. /\ t \in Seq(Requests) /\ Len(t) = Len(q) + 1
      /\ \A i \in 1..Len(q) : t[i] = q[i]
      /\ t[Len(q) + 1] = r
  BY AppendProperties
<1>2. /\ Len(q) \in Nat /\ DOMAIN q = 1..Len(q) /\ DOMAIN t = 1..(Len(q) + 1)
      /\ \A i \in 1..Len(q) : q[i] \in ToSet(q)
  BY <1>1, LenProperties DEF ToSet
<1> HIDE DEF t
<1> SUFFICES ASSUME NEW i \in 1..(Len(q) + 1), NEW j \in 1..(Len(q) + 1), i < j,
                    t[i] \in G, t[j] \in G
             PROVE  t[i] < t[j]
  BY <1>2 DEF InOrder, t
<1>3. i \in 1..Len(q)
  BY <1>2
<1>4. CASE j \in 1..Len(q)
  BY <1>1, <1>2, <1>3, <1>4 DEF InOrder
<1>5. CASE j = Len(q) + 1
  BY <1>1, <1>2, <1>3, <1>5
<1>6. QED
  BY <1>2, <1>4, <1>5

\* A list without its first request, which precedes the others.
LEMMA InOrderTail ==
  ASSUME NEW q \in Seq(Requests), NEW G, InOrder(q, G), q # <<>>
  PROVE  /\ InOrder(Tail(q), G)
         /\ Head(q) \in G => \A x \in ToSet(Tail(q)) : x \in G => Head(q) < x
<1> DEFINE t == Tail(q)
<1>1. /\ Len(q) \in Nat \ {0} /\ DOMAIN q = 1..Len(q) /\ Head(q) = q[1]
      /\ t \in Seq(Requests) /\ Len(t) = Len(q) - 1
      /\ \A i \in 1..Len(t) : t[i] = q[i + 1]
  <2>1. Len(q) \in Nat \ {0} /\ DOMAIN q = 1..Len(q)
    BY EmptySeq, LenProperties
  <2>2. QED
    BY <2>1, HeadTailProperties
<1>2. DOMAIN t = 1..(Len(q) - 1)
  BY <1>1, LenProperties
<1> HIDE DEF t
<1>3. \A i, j \in DOMAIN q : i < j /\ q[i] \in G /\ q[j] \in G => q[i] < q[j]
  BY DEF InOrder
<1>4. ASSUME NEW i \in DOMAIN t, NEW j \in DOMAIN t, i < j, t[i] \in G, t[j] \in G
      PROVE  t[i] < t[j]
  <2>1. i + 1 \in DOMAIN q /\ j + 1 \in DOMAIN q /\ i + 1 < j + 1
        /\ t[i] = q[i + 1] /\ t[j] = q[j + 1]
    BY <1>1, <1>2, <1>4
  <2>2. QED
    BY <1>3, <1>4, <2>1
<1>5. ASSUME Head(q) \in G, NEW i \in DOMAIN t, t[i] \in G
      PROVE  Head(q) < t[i]
  <2>1. 1 \in DOMAIN q /\ i + 1 \in DOMAIN q /\ 1 < i + 1 /\ t[i] = q[i + 1]
    BY <1>1, <1>2
  <2>2. QED
    BY <1>1, <1>3, <1>5, <2>1
<1>6. QED
  BY <1>4, <1>5 DEF InOrder, ToSet, t

\* What an insertion may do to the priority queues.
LEMMA InsertPq ==
  ASSUME QInv, NEW r \in Requests, NEW k, insert_request(r, k)
  PROVE  \/ UNCHANGED prio_queue
         \/ \E i \in Bit : /\ prio_queue' = [prio_queue EXCEPT ![i] = Append(@, r)]
                           /\ ~models_stable \/ k.head
<1> DEFINE n == [kind |-> k, pred |-> base[OpType(k)], deadline |-> 0,
                 status |-> "queued", gated |-> models_stable]
<1>1. n.kind = k
  OBVIOUS
<1>2. IF models_stable THEN insert_request_post_stability(r, n)
                       ELSE insert_request_pre_stability(r, n)
  BY DEF insert_request
<1> HIDE DEF n
<1>3. 0 \in Bit /\ 1 \in Bit
  BY DEF Bit
<1>4. CASE insert_request_pre_stability(r, n) /\ ~models_stable
  BY <1>3, <1>4 DEF insert_request_pre_stability, insert_to_prio_queue
<1>5. CASE insert_request_post_stability(r, n) /\ models_stable
  BY <1>1, <1>3, <1>5 DEF insert_request_post_stability, insert_to_prio_queue, prioVars
<1>6. QED
  BY <1>2, <1>4, <1>5

\* The requests of the priority queues are queued, and distinct.
LEMMA PqQueued ==
  ASSUME QInv, NEW i \in Bit
  PROVE  /\ prio_queue[i] \in Seq(Requests) /\ IsInjective(prio_queue[i])
         /\ \A r \in ToSet(prio_queue[i]) :
              r \in Requests /\ rq[r].status = "queued" /\ r <= inserted
<1>1. PqName(i) \in QueueNames /\ Lists[PqName(i)] = prio_queue[i]
  BY Names, ListAt DEF Lists
<1>2. prio_queue[i] \in Seq(Requests) /\ IsInjective(prio_queue[i])
  BY <1>1 DEF QInv, PlaceOK, Placed
<1>3. \A r \in ToSet(prio_queue[i]) : r \in Requests /\ rq[r].status = "queued"
  BY <1>1, InListQueued DEF QInv
<1>4. QED
  BY <1>2, <1>3 DEF QInv, NewOK

\* The head of a list after an addition to its tail.
LEMMA AppendHead ==
  ASSUME NEW q \in Seq(Requests), NEW r \in Requests
  PROVE  /\ Append(q, r) # <<>>
         /\ Head(Append(q, r)) = IF q = <<>> THEN r ELSE Head(q)
<1> DEFINE t == Append(q, r)
<1>1. /\ t \in Seq(Requests) /\ Len(t) = Len(q) + 1
      /\ \A i \in 1..Len(q) : t[i] = q[i]
      /\ t[Len(q) + 1] = r
  BY AppendProperties
<1>2. Len(q) \in Nat
  OBVIOUS
<1> HIDE DEF t
<1>3. t # <<>> /\ Head(t) = t[1]
  BY <1>1, <1>2, EmptySeq, HeadTailProperties
<1>4. CASE q = <<>>
  <2>1. Len(q) = 0
    BY <1>4, EmptySeq
  <2>2. QED
    BY <1>1, <1>3, <1>4, <2>1 DEF t
<1>5. CASE q # <<>>
  <2>1. Len(q) # 0 /\ Head(q) = q[1]
    BY <1>5, EmptySeq, HeadTailProperties
  <2>2. 1 \in 1..Len(q)
    BY <1>2, <2>1
  <2>3. QED
    BY <1>1, <1>3, <1>5, <2>1, <2>2 DEF t
<1>6. QED
  BY <1>4, <1>5

\* A step that moves no request into or out of the priority queues and the
\* barrier queue, nor a CPU away from its way back to dispatch_from_pq.
LEMMA FlushKept ==
  ASSUME QInv, FlushOK, UNCHANGED <<prio_queue, barrier_queue>>,
         \A q \in Requests : KindKept(q),
         \A q \in Requests : rq'[q].status = "queued" => rq[q].status = "queued",
         (\E r \in ToSet(prio_queue[1]) : r \in GatedRqs)
           => \A c \in CPUs : pc[c] \in Calm => pc'[c] \in Calm
  PROVE  FlushOK'
<1>1. GatedRqs' = GatedRqs
  BY DEF GatedRqs, Gated, KindKept
<1>2. 0 \in Bit /\ 1 \in Bit
  BY DEF Bit
<1>3. barrier_queue # <<>> => RqIsFlush(rq'[Head(barrier_queue)].kind)
  <2>1. barrier_queue # <<>> => Head(barrier_queue) \in Requests
    BY BarrierQueued, TailDistinct
  <2>2. QED
    BY <2>1 DEF KindKept, FlushOK
<1>4. \A r \in GatedRqs : RqIsFlush(rq'[r].kind) /\ rq'[r].status = "queued"
       => r \in ToSet(barrier_queue) \/ r \in ToSet(prio_queue[1])
  <2>1. \A r \in GatedRqs : r \in Requests
    BY DEF GatedRqs
  <2>2. QED
    BY <2>1 DEF FlushOK, KindKept
<1>5. \A r \in ToSet(prio_queue[1]), c \in CPUs : r \in GatedRqs => pc'[c] \in Calm
  BY DEF FlushOK
<1>6. InOrder(prio_queue[1], GatedRqs)'
  BY <1>1 DEF FlushOK, InOrder
<1>7. \A r \in ToSet(prio_queue'[0]) : r \notin GatedRqs'
  BY <1>1 DEF FlushOK
<1>8. \A r \in ToSet(prio_queue[1]), s \in ToSet(barrier_queue) : r \in GatedRqs' => r < s
  BY <1>1 DEF FlushOK
<1>9. \A r \in GatedRqs' : RqIsFlush(rq'[r].kind) /\ rq'[r].status = "queued"
       => r \in ToSet(barrier_queue') \/ r \in ToSet(prio_queue'[1])
  BY <1>1, <1>4
<1>10. QED
  BY <1>1, <1>3, <1>5, <1>6, <1>7, <1>8, <1>9 DEF FlushOK

\* The elements of a priority queue after an insertion.
JoinsQueue(r, i) ==
  /\ ToSet(prio_queue[i]) \subseteq ToSet(prio_queue'[i])
  /\ ToSet(prio_queue'[i]) \subseteq ToSet(prio_queue[i]) \cup {r}

\* insert_to_prio_queue has its request join.
LEMMA AppendJoins ==
  ASSUME QInv, NEW r \in Requests, r \notin Queued, NEW i \in Bit,
         prio_queue' = [prio_queue EXCEPT ![i] = Append(@, r)]
  PROVE  \A j \in Bit : JoinsQueue(r, j)
<1> DEFINE q == prio_queue[i]
<1>1. q \in Seq(Requests) /\ IsInjective(q) /\ r \notin ToSet(q)
  BY PqQueued DEF Queued
<1>2. prio_queue'[i] = Append(q, r) /\ \A j \in Bit \ {i} : prio_queue'[j] = prio_queue[j]
  BY DEF QInv, IInv, PqOK
<1> HIDE DEF q
<1>3. ToSet(Append(q, r)) = ToSet(q) \cup {r}
  BY <1>1, AppendDistinct
<1>4. QED
  BY <1>2, <1>3 DEF JoinsQueue, q

\* The insertion of a request that the barrier does not apply to, or of the
\* latest one.
LEMMA InsertFlush ==
  ASSUME QInv, FlushOK, NEW r \in Requests, r \notin Queued, NEW k \in KindType,
         insert_request(r, k), k.head \/ \A q \in Queued : q < r
  PROVE  FlushOK'
<1>1. /\ \A q \in Requests \ {r} : KindKept(q) /\ Settles(q)
      /\ rq'[r].kind = k /\ rq'[r].gated = models_stable
  BY InsertKinds, InsertStatus
<1>2. /\ \A q : q # r => (q \in GatedRqs' <=> q \in GatedRqs)
      /\ r \in GatedRqs' <=> models_stable /\ ~k.head
  BY <1>1 DEF GatedRqs, Gated, KindKept
<1>3. 0 \in Bit /\ 1 \in Bit /\ UNCHANGED pc
  BY DEF Bit, insert_request, ctlVars
<1>4. /\ \A q \in ToSet(barrier_queue) : q \in Requests \ {r} /\ q \in Queued
      /\ \A i \in Bit : \A q \in ToSet(prio_queue[i]) : q \in Requests \ {r} /\ q \in Queued
  BY BarrierQueued, PqQueued DEF Queued
<1>5. \A i \in Bit : JoinsQueue(r, i) /\ (r \in ToSet(prio_queue'[i]) => r \notin GatedRqs')
  <2>1. CASE UNCHANGED prio_queue
    BY <1>4, <2>1 DEF JoinsQueue
  <2>2. ASSUME NEW i \in Bit, prio_queue' = [prio_queue EXCEPT ![i] = Append(@, r)],
               ~models_stable \/ k.head
        PROVE  \A j \in Bit : JoinsQueue(r, j) /\ r \notin GatedRqs'
    BY <1>2, <2>2, AppendJoins
  <2>3. QED
    BY <2>1, <2>2, InsertPq
<1>6. /\ barrier_queue # <<>> => barrier_queue' # <<>> /\ Head(barrier_queue') = Head(barrier_queue)
      /\ barrier_queue = <<>> /\ barrier_queue' # <<>>
           => Head(barrier_queue') = r /\ RqIsFlush(k)
      /\ ToSet(barrier_queue) \subseteq ToSet(barrier_queue')
      /\ ToSet(barrier_queue') \subseteq ToSet(barrier_queue) \cup {r}
      /\ r \in GatedRqs' /\ RqIsFlush(k) => r \in ToSet(barrier_queue')
      /\ r \in ToSet(barrier_queue') => ~k.head
  <2> DEFINE q == barrier_queue
  <2>1. CASE Diverted(r, k)
    <3>1. q \in Seq(Requests) /\ IsInjective(q) /\ r \notin ToSet(q)
      BY <1>4, BarrierQueued
    <3> HIDE DEF q
    <3>2. ToSet(Append(q, r)) = ToSet(q) \cup {r}
      BY <3>1, AppendDistinct
    <3>3. Append(q, r) # <<>> /\ Head(Append(q, r)) = IF q = <<>> THEN r ELSE Head(q)
      BY <3>1, AppendHead
    <3>4. /\ q = <<>> => RqIsFlush(k)
          /\ barrier_queue' = Append(q, r) /\ ~k.head
      BY <2>1 DEF Diverted, q
    <3>5. QED
      BY <3>2, <3>3, <3>4 DEF q
  <2>2. CASE /\ UNCHANGED barrier_queue
             /\ ~models_stable \/ k.head \/ (barrier_queue = <<>> /\ ~RqIsFlush(k))
    <3>1. r \notin ToSet(barrier_queue')
      BY <1>4, <2>2
    <3>2. r \in GatedRqs' /\ RqIsFlush(k) => FALSE
      BY <1>2, <2>2
    <3>3. QED
      BY <2>2, <3>1, <3>2
  <2>3. QED
    BY <2>1, <2>2, InsertDiverts
<1>7. barrier_queue' # <<>> => RqIsFlush(rq'[Head(barrier_queue')].kind)
  <2>1. CASE barrier_queue # <<>>
    <3>1. Head(barrier_queue) \in Requests \ {r}
      BY <1>4, <2>1, BarrierQueued, TailDistinct
    <3>2. QED
      BY <1>1, <1>6, <2>1, <3>1 DEF KindKept, FlushOK
  <2>2. CASE barrier_queue = <<>>
    BY <1>1, <1>6, <2>2
  <2>3. QED
    BY <2>1, <2>2
<1>8. \A q \in GatedRqs' : RqIsFlush(rq'[q].kind) /\ rq'[q].status = "queued"
       => q \in ToSet(barrier_queue') \/ q \in ToSet(prio_queue'[1])
  <2> SUFFICES ASSUME NEW q \in GatedRqs', RqIsFlush(rq'[q].kind), rq'[q].status = "queued"
               PROVE  q \in ToSet(barrier_queue') \/ q \in ToSet(prio_queue'[1])
    OBVIOUS
  <2>1. CASE q = r
    BY <1>1, <1>6, <2>1
  <2>2. CASE q # r
    <3>1. q \in GatedRqs /\ q \in Requests \ {r}
      BY <1>2, <2>2 DEF GatedRqs
    <3>2. RqIsFlush(rq[q].kind) /\ rq[q].status = "queued"
      BY <1>1, <3>1 DEF KindKept, Settles
    <3>3. q \in ToSet(barrier_queue) \/ q \in ToSet(prio_queue[1])
      BY <3>1, <3>2 DEF FlushOK
    <3>4. QED
      BY <1>3, <1>5, <1>6, <3>3 DEF JoinsQueue
  <2>3. QED
    BY <2>1, <2>2
<1>9. \A q \in ToSet(prio_queue'[0]) : q \notin GatedRqs'
  BY <1>2, <1>3, <1>5 DEF JoinsQueue, FlushOK
<1>10. \A q \in ToSet(prio_queue'[1]) : q \in GatedRqs' => q \in ToSet(prio_queue[1]) /\ q \in GatedRqs
  BY <1>2, <1>3, <1>5 DEF JoinsQueue
<1>11. InOrder(prio_queue'[1], GatedRqs')
  <2> DEFINE p == prio_queue[1]
             G == GatedRqs'
  <2>1. p \in Seq(Requests) /\ InOrder(p, GatedRqs) /\ \A x \in ToSet(p) : x \in G => x \in GatedRqs
    BY <1>2, <1>3, <1>4, PqQueued DEF FlushOK
  <2>2. InOrder(p, G)
    <3> HIDE DEF p, G
    <3>1. QED
      BY <2>1, InOrderLess
  <2>3. prio_queue'[1] = p \/ (prio_queue'[1] = Append(p, r) /\ r \notin G)
    BY <1>2, <1>3, InsertPq DEF QInv, IInv, PqOK
  <2> HIDE DEF p, G
  <2>4. r \notin G => InOrder(Append(p, r), G)
    BY <2>1, <2>2, InOrderAppend
  <2>5. InOrder(prio_queue'[1], G)
    BY <2>2, <2>3, <2>4
  <2>6. QED
    BY <2>5 DEF G
<1>12. \A q \in ToSet(prio_queue'[1]), s \in ToSet(barrier_queue') : q \in GatedRqs' => q < s
  BY <1>3, <1>4, <1>6, <1>10 DEF FlushOK
<1>13. \A q \in ToSet(prio_queue'[1]), c \in CPUs : q \in GatedRqs' => pc'[c] \in Calm
  BY <1>3, <1>10 DEF FlushOK
<1>14. QED
  BY <1>7, <1>8, <1>9, <1>11, <1>12, <1>13 DEF FlushOK

\* The least element of a set of natural numbers is no larger than the others.
LEMMA MinIsLeast ==
  ASSUME NEW S, S \subseteq Nat, S # {}
  PROVE  Min(S) \in S /\ \A x \in S : Min(S) <= x
<1>1. PICK x \in S : \A y \in S : ~(<<y, x>> \in NatOrder)
  BY NatOrderWellFounded, WFMin
<1>2. ASSUME NEW y \in S PROVE x <= y
  <2>1. x \in Nat /\ y \in Nat /\ <<y, x>> \in Nat \X Nat
    OBVIOUS
  <2>2. ~(y < x)
    BY <1>1, <2>1 DEF NatOrder
  <2>3. QED
    BY <2>1, <2>2
<1>3. QED
  BY <1>2 DEF Min

\* A request that the barrier holds is in no page.
LEMMA HeldNotInPage ==
  ASSUME QInv, NEW r \in ToSet(barrier_queue), NEW p \in Bit, NEW o \in OpTypes
  PROVE  r \notin ToSet(batch_queue[p][o])
<1>1. /\ BarrierName \in QueueNames /\ Lists[BarrierName] = barrier_queue
      /\ BqName(p, o) \in QueueNames /\ Lists[BqName(p, o)] = batch_queue[p][o]
  BY Names, ListAt DEF Lists
<1>2. BarrierName # BqName(p, o)
  BY DEF BarrierName, BqName
<1>3. QED
  BY <1>1, <1>2, OneList

\* The requests that follow the first of the barrier queue in its release are no
\* flushes, and one heads what is left.
LEMMA FollowersAre ==
  ASSUME BarOK, barrier_queue # <<>>, NEW n, n = Followers
  PROVE  /\ \A i \in 2..(n + 1) : ~RqIsFlush(rq[barrier_queue[i]].kind)
         /\ n + 2 <= Len(barrier_queue) => RqIsFlush(rq[barrier_queue[n + 2]].kind)
<1> DEFINE later == {i \in 2..Len(barrier_queue) : RqIsFlush(rq[barrier_queue[i]].kind)}
<1>1. Len(barrier_queue) \in Nat \ {0}
  BY EmptySeq DEF BarOK
<1>2. CASE later = {}
  <2>1. n = (Len(barrier_queue) + 1) - 2
    BY <1>2 DEF Followers
  <2>2. \A i \in 2..Len(barrier_queue) : ~RqIsFlush(rq[barrier_queue[i]].kind)
    BY <1>2
  <2>3. n + 1 = Len(barrier_queue) /\ ~(n + 2 <= Len(barrier_queue))
    BY <1>1, <2>1
  <2>4. QED
    BY <2>2, <2>3
<1>3. CASE later # {}
  <2>1. PICK m : m = Min(later)
    OBVIOUS
  <2>2. later \subseteq Nat
    BY <1>1
  <2>3. n = m - 2
    BY <1>3, <2>1 DEF Followers
  <2>4. m \in later /\ \A i \in later : m <= i
    <3> HIDE DEF later
    <3>1. QED
      BY <1>3, <2>1, <2>2, MinIsLeast
  <2>5. m \in 2..Len(barrier_queue) /\ RqIsFlush(rq[barrier_queue[m]].kind)
        /\ \A i \in 2..Len(barrier_queue) : RqIsFlush(rq[barrier_queue[i]].kind) => m <= i
    BY <2>4
  <2>6. n + 2 = m
    BY <1>1, <2>3, <2>5
  <2>7. \A i \in 2..(n + 1) : i \in 2..Len(barrier_queue) /\ ~(m <= i)
    BY <1>1, <2>3, <2>5
  <2>8. QED
    BY <2>5, <2>6, <2>7
<1>4. QED
  BY <1>2, <1>3

\* dispatch_from_pq takes a request that every flush before it has preceded.
LEMMA PqFlush ==
  ASSUME QInv, FlushOK, NotPassed, NEW c \in CPUs, dispatch_from_pq(c)
  PROVE  FlushOK' /\ NotPassed'
<1>1. /\ \A q \in Requests : KindKept(q)
      /\ UNCHANGED barrier_queue /\ 0 \in Bit /\ 1 \in Bit
  <2>1. Step
    BY DEF Step, Dispatch
  <2>2. QED
    BY <2>1, StepKinds DEF dispatch_from_pq, barVars, Bit
<1>2. CASE UNCHANGED <<rq, prio_queue>>
  <2>1. ~\E r \in ToSet(prio_queue[1]) : r \in GatedRqs
    <3>1. prio_queue[1] = <<>>
      BY <1>2, PqEmpty
    <3>2. QED
      BY <3>1 DEF ToSet
  <2>2. FlushOK'
    BY <1>1, <1>2, <2>1, FlushKept
  <2>3. NotPassed'
    BY <1>2 DEF NotPassed, Flush, Gated, Left
  <2>4. QED
    BY <2>2, <2>3
<1>3. ASSUME NEW i \in Bit, TakesHead(i), i = 0 => prio_queue[1] = <<>>, pc'[c] = "idle"
      PROVE  FlushOK' /\ NotPassed'
  <2> DEFINE q == prio_queue[i]
             x == Head(q)
  <2>1. q \in Seq(Requests) /\ IsInjective(q) /\ q # <<>>
    BY <1>3, PqQueued DEF TakesHead
  <2>2. prio_queue'[i] = Tail(q) /\ \A j \in Bit \ {i} : prio_queue'[j] = prio_queue[j]
    BY <1>3 DEF TakesHead
  <2>3. x \in ToSet(q) /\ ToSet(Tail(q)) = ToSet(q) \ {x}
    <3> HIDE DEF q
    <3>1. QED
      BY <2>1, TailDistinct
  <2>4. Dispatches(x)
    BY <1>3 DEF TakesHead
  <2>5. GatedRqs' = GatedRqs
    BY <1>1 DEF GatedRqs, Gated, KindKept
  <2>6. \A d \in CPUs : pc[d] \in Calm => pc'[d] \in Calm
    BY <1>3 DEF dispatch_from_pq, goto, found, Calm, QInv, IInv, CtlOK
  <2>7. \A j \in Bit : ToSet(prio_queue'[j]) \subseteq ToSet(prio_queue[j])
    BY <2>2, <2>3
  <2>8. InOrder(prio_queue'[1], GatedRqs)
    <3>1. InOrder(prio_queue[1], GatedRqs)
      BY DEF FlushOK
    <3>2. CASE i = 1
      <4>1. InOrder(q, GatedRqs) /\ prio_queue'[1] = Tail(q)
        BY <2>2, <3>1, <3>2
      <4> HIDE DEF q
      <4>2. QED
        BY <2>1, <4>1, InOrderTail
    <3>3. CASE i # 1
      BY <1>1, <2>2, <3>1, <3>3
    <3>4. QED
      BY <3>2, <3>3
  <2>9. barrier_queue # <<>> => RqIsFlush(rq'[Head(barrier_queue)].kind)
    <3>1. barrier_queue # <<>> => Head(barrier_queue) \in Requests
      BY BarrierQueued, TailDistinct
    <3>2. QED
      BY <1>1, <3>1 DEF KindKept, FlushOK
  <2>10. \A r \in GatedRqs : RqIsFlush(rq'[r].kind) /\ rq'[r].status = "queued"
         => r \in ToSet(barrier_queue) \/ r \in ToSet(prio_queue'[1])
    <3> SUFFICES ASSUME NEW r \in GatedRqs, RqIsFlush(rq'[r].kind), rq'[r].status = "queued"
                 PROVE  r \in ToSet(barrier_queue) \/ r \in ToSet(prio_queue'[1])
      OBVIOUS
    <3>1. r \in Requests
      BY DEF GatedRqs
    <3>2. r # x /\ rq[r].status = "queued" /\ RqIsFlush(rq[r].kind)
      BY <1>1, <2>4, <3>1 DEF Dispatches, KindKept
    <3>3. r \in ToSet(barrier_queue) \/ r \in ToSet(prio_queue[1])
      BY <3>2 DEF FlushOK
    <3>4. QED
      BY <1>1, <2>2, <2>3, <3>2, <3>3
  <2>11. FlushOK'
    <3>1. \A r \in ToSet(prio_queue'[0]) : r \notin GatedRqs
      BY <1>1, <2>7 DEF FlushOK
    <3>2. \A r \in ToSet(prio_queue'[1]), s \in ToSet(barrier_queue) : r \in GatedRqs => r < s
      BY <1>1, <2>7 DEF FlushOK
    <3>3. \A r \in ToSet(prio_queue'[1]), d \in CPUs : r \in GatedRqs => pc'[d] \in Calm
      BY <1>1, <2>6, <2>7 DEF FlushOK
    <3>4. \A r \in GatedRqs' : RqIsFlush(rq'[r].kind) /\ rq'[r].status = "queued"
           => r \in ToSet(barrier_queue') \/ r \in ToSet(prio_queue'[1])
      BY <1>1, <2>5, <2>10
    <3>5. InOrder(prio_queue'[1], GatedRqs')
      BY <2>5, <2>8
    <3>6. QED
      BY <1>1, <2>5, <2>9, <3>1, <3>2, <3>3, <3>4, <3>5 DEF FlushOK
  <2>12. NotPassed'
    <3> SUFFICES ASSUME NEW f \in Requests, NEW r \in Requests, f < r, Flush(f)', Gated(r)',
                        rq'[f].status = "queued", Left(r)'
                 PROVE  FALSE
      BY DEF NotPassed
    <3>1. Flush(f) /\ Gated(r) /\ f \in GatedRqs /\ r \in GatedRqs
      BY <1>1 DEF KindKept, Flush, Gated, GatedRqs
    <3>2. f # x /\ rq[f].status = "queued"
      BY <2>4 DEF Dispatches
    <3>3. CASE r # x
      BY <2>4, <3>1, <3>2, <3>3 DEF Dispatches, NotPassed, Left
    <3>4. CASE r = x
      <4>1. i = 1
        BY <1>1, <2>3, <3>1, <3>4 DEF FlushOK, Bit
      <4>2. f \in ToSet(barrier_queue) => r < f
        BY <2>3, <3>1, <3>4, <4>1 DEF FlushOK
      <4>3. f \in ToSet(q) => r < f
        <5>1. InOrder(q, GatedRqs)
          BY <4>1 DEF FlushOK
        <5>2. f \in ToSet(q) => f \in ToSet(Tail(q))
          BY <2>3, <3>2
        <5>3. x \in GatedRqs
          BY <3>1, <3>4
        <5> HIDE DEF q
        <5>4. \A y \in ToSet(Tail(q)) : y \in GatedRqs => x < y
          BY <2>1, <5>1, <5>3, InOrderTail
        <5>5. QED
          BY <3>1, <3>4, <5>2, <5>4
      <4>4. f \in ToSet(barrier_queue) \/ f \in ToSet(q)
        BY <3>1, <3>2, <4>1 DEF FlushOK, Flush
      <4>5. QED
        BY <4>2, <4>3, <4>4 DEF Requests
    <3>5. QED
      BY <3>3, <3>4
  <2>13. QED
    BY <2>11, <2>12
<1>4. QED
  BY <1>2, <1>3, PqTakes

\* A step on the pages dispatches nothing that a flush precedes: it is not taken
\* while prio_queue[1] holds one, and the barrier queue holds what follows its.
LEMMA PageFlush ==
  ASSUME QInv, FlushOK, NotPassed, BarrierHoldsLater, NEW c \in CPUs, PageStep(c)
  PROVE  FlushOK' /\ NotPassed'
<1>1. /\ \A q \in Requests : KindKept(q)
      /\ UNCHANGED <<prio_queue, barrier_queue>>
  <2>1. Step
    BY DEF Step, Dispatch, PageStep
  <2>2. UNCHANGED <<prio_queue, barrier_queue>>
    BY DEF PageStep, dispatch_from_bq, fill_batch_queues, fill_batch_queues_done,
           prioVars, barVars
  <2>3. QED
    BY <2>1, <2>2, StepKinds
<1>2. pc[c] \notin Calm
  BY DEF PageStep, dispatch_from_bq, fill_batch_queues, fill_batch_queues_done, Calm
<1>3. \A r \in ToSet(prio_queue[1]) : r \notin GatedRqs
  BY <1>2 DEF FlushOK
<1>4. \A q \in Requests : rq'[q].status = "queued" => rq[q].status = "queued"
  BY PageDispatches
<1>5. FlushOK'
  BY <1>1, <1>3, <1>4, FlushKept
<1>6. NotPassed'
  <2> SUFFICES ASSUME NEW f \in Requests, NEW r \in Requests, f < r, Flush(f)', Gated(r)',
                      rq'[f].status = "queued", Left(r)'
               PROVE  FALSE
    BY DEF NotPassed
  <2>1. Flush(f) /\ Gated(r) /\ f \in GatedRqs /\ rq[f].status = "queued"
    BY <1>1, <1>4 DEF KindKept, Flush, Gated, GatedRqs
  <2>2. CASE rq'[r].status = rq[r].status
    BY <2>1, <2>2 DEF NotPassed, Left
  <2>3. ASSUME NEW p \in Bit, NEW o \in OpTypes, r \in ToSet(batch_queue[p][o])
        PROVE  FALSE
    <3>1. f \in ToSet(barrier_queue)
      BY <1>3, <2>1 DEF FlushOK, Flush
    <3>2. barrier_queue # <<>>
      BY <3>1 DEF ToSet
    <3>3. ToSet(barrier_queue) = HeldFrom(Head(barrier_queue), inserted)
      BY <3>2, BarrierHolds DEF Holds
    <3>4. Head(barrier_queue) \in Int /\ Head(barrier_queue) <= f /\ f \in Int
      <4>1. Head(barrier_queue) \in HeldFrom(Head(barrier_queue), inserted)
        BY <3>2, <3>3, BarrierQueued, TailDistinct
      <4>2. QED
        BY <3>1, <3>3, <4>1 DEF HeldFrom
    <3>5. r \in 1..inserted
      <4>1. BqName(p, o) \in QueueNames /\ Lists[BqName(p, o)] = batch_queue[p][o]
        BY Names, ListAt DEF Lists
      <4>2. rq[r].status = "queued"
        BY <2>3, <4>1, InListQueued DEF QInv
      <4>3. r <= inserted /\ inserted \in Nat /\ MaxReq \in Nat /\ r \in 1..MaxReq
        BY <4>2, ConstantsAssumption DEF QInv, NewOK, IInv, EnvOK, Requests
      <4>4. QED
        BY <4>3
    <3>6. r \in ToSet(barrier_queue)
      BY <2>1, <3>3, <3>4, <3>5 DEF HeldFrom
    <3>7. QED
      BY <2>3, <3>6, HeldNotInPage
  <2>4. QED
    BY <2>2, <2>3, PageDispatches
<1>7. QED
  BY <1>5, <1>6

\* A release moves the flush that heads the barrier queue behind those released
\* before it, when there is no other CPU that has passed prio_queue[1].
LEMMA ReleaseFlush ==
  ASSUME QInv, FlushOK, NotPassed, BarrierHoldsLater,
         NEW c \in CPUs, release_barrier_requests(c), \A d \in CPUs : d = c
  PROVE  FlushOK' /\ NotPassed'
<1>1. UNCHANGED rq
  BY DEF release_barrier_requests
<1>2. NotPassed'
  BY <1>1 DEF NotPassed, Flush, Gated, Left
<1>3. /\ \A q \in Requests : KindKept(q)
      /\ GatedRqs' = GatedRqs
  BY <1>1 DEF KindKept, GatedRqs, Gated
<1>4. pc[c] = "release" /\ \A d \in CPUs : pc'[d] \in Calm
  BY DEF release_barrier_requests, goto, Calm, QInv, IInv, CtlOK
<1>5. CASE UNCHANGED <<prio_queue, barrier_queue>>
  <2>1. FlushOK'
    BY <1>1, <1>3, <1>4, <1>5, FlushKept
  <2>2. QED
    BY <1>2, <2>1
<1>6. ASSUME barrier_queue # <<>>, NEW n, n = Followers,
             insert_to_prio_queue(Head(barrier_queue), rq[Head(barrier_queue)].pred, 1),
             barrier_queue' = SubSeq(barrier_queue, n + 2, Len(barrier_queue))
      PROVE  FlushOK'
  <2> DEFINE q    == barrier_queue
             h    == Head(q)
             mid  == SubSeq(q, 2, n + 1)
             rest == SubSeq(q, n + 2, Len(q))
             p    == prio_queue[1]
             G    == GatedRqs
  <2>1. /\ q \in Seq(Requests) /\ IsInjective(q) /\ q # <<>>
        /\ n \in 0..(Len(q) - 1) /\ Len(q) \in Nat
    BY <1>6, BarrierQueued, FollowersType DEF QInv, IInv
  <2>2. Splits(q, n, mid, rest)
    BY <2>1 DEF Splits
  <2>3. Increasing(q) /\ ToSet(q) = HeldFrom(h, inserted)
    BY <1>6, BarrierHolds DEF Holds
  <2>4. /\ \A i \in 2..(n + 1) : ~RqIsFlush(rq[q[i]].kind)
        /\ n + 2 <= Len(q) => RqIsFlush(rq[q[n + 2]].kind)
    BY <1>6, FollowersAre DEF QInv, IInv
  <2>5. /\ prio_queue' = [prio_queue EXCEPT ![1] = Append(p, h)]
        /\ barrier_queue' = rest
    BY <1>6 DEF insert_to_prio_queue
  <2>6. /\ prio_queue'[1] = Append(p, h) /\ prio_queue'[0] = prio_queue[0]
        /\ p \in Seq(Requests) /\ 1 \in Bit
    BY <2>5 DEF QInv, IInv, PqOK, Bit
  <2>7. /\ InOrder(p, G) /\ \A x \in ToSet(p), s \in ToSet(q) : x \in G => x < s
        /\ \A x \in ToSet(prio_queue[0]) : x \notin G
        /\ \A x \in G : RqIsFlush(rq[x].kind) /\ rq[x].status = "queued"
             => x \in ToSet(q) \/ x \in ToSet(p)
    BY DEF FlushOK
  <2> HIDE DEF q, p, G
  <2>8. /\ h \in ToSet(q) /\ h \in Requests
        /\ ToSet(q) = {h} \cup ToSet(mid) \cup ToSet(rest)
        /\ h \notin ToSet(rest) /\ rest \in Seq(Requests)
    <3>1. h \in ToSet(q) /\ ToSet(q) \subseteq Requests
      BY <2>1, TailDistinct, ToSetType
    <3> HIDE DEF h, mid, rest
    <3>2. h = Head(q)
      BY DEF h
    <3>3. QED
      BY <2>1, <2>2, <3>1, <3>2, SplitDistinct
  <2>9. \A x \in ToSet(mid) : ~RqIsFlush(rq[x].kind)
    <3>1. 2 \in 1..(Len(q) + 1) /\ n + 1 \in 0..Len(q)
      BY <2>1
    <3>2. \A x : x \in ToSet(mid) <=> \E k \in 2..(n + 1) : q[k] = x
      BY <2>1, <3>1, PartDistinct
    <3>3. QED
      BY <2>4, <3>2
  <2>10. rest # <<>> => RqIsFlush(rq[Head(rest)].kind)
    <3>1. CASE n + 2 <= Len(q)
      <4>1. n + 2 \in 1..Len(q)
        BY <2>1, <3>1
      <4>2. Head(rest) = q[n + 2]
        BY <2>1, <2>3, <4>1, RestIncreasing
      <4>3. QED
        BY <2>4, <3>1, <4>2
    <3>2. CASE ~(n + 2 <= Len(q))
      <4>1. n + 2 \in 1..(Len(q) + 1) /\ Len(q) \in 0..Len(q)
        BY <2>1
      <4>2. \A x : x \in ToSet(rest) <=> \E k \in (n + 2)..Len(q) : q[k] = x
        BY <2>1, <4>1, PartDistinct
      <4>3. \A x : x \notin ToSet(rest)
        BY <2>1, <3>2, <4>2
      <4> HIDE DEF rest
      <4>4. rest # <<>> => Head(rest) \in ToSet(rest)
        BY <2>8, SeqHead
      <4>5. QED
        BY <4>3, <4>4
    <3>3. QED
      BY <3>1, <3>2
  <2> HIDE DEF h, mid, rest
  <2>11. \A x \in ToSet(rest) : h < x
    <3>1. \A x \in ToSet(rest) : x \in ToSet(q) /\ x # h
      BY <2>8
    <3>2. \A x \in ToSet(q) : x >= h /\ x \in Int /\ h \in Int
      BY <2>3, <2>8 DEF HeldFrom
    <3>3. QED
      BY <3>1, <3>2
  <2>12. ToSet(Append(p, h)) \subseteq ToSet(p) \cup {h} /\ ToSet(p) \cup {h} \subseteq ToSet(Append(p, h))
    BY <2>6, <2>8, AppendToSet
  <2>13. InOrder(Append(p, h), G)
    BY <2>6, <2>7, <2>8, InOrderAppend
  <2>14. \A x \in ToSet(Append(p, h)), s \in ToSet(rest) : x \in G => x < s
    <3>1. \A s \in ToSet(rest) : s \in ToSet(q)
      BY <2>8
    <3>2. QED
      BY <2>7, <2>11, <2>12, <3>1
  <2>15. \A x \in G : RqIsFlush(rq[x].kind) /\ rq[x].status = "queued"
           => x \in ToSet(rest) \/ x \in ToSet(Append(p, h))
    BY <2>7, <2>8, <2>9, <2>12
  <2>16. GatedRqs' = G /\ barrier_queue' = rest
    BY <1>3, <2>5 DEF G
  <2>17. QED
    BY <1>1, <1>4, <2>6, <2>7, <2>10, <2>13, <2>14, <2>15, <2>16 DEF FlushOK
<1>7. QED
  BY <1>2, <1>5, <1>6 DEF release_barrier_requests, prioVars, barVars

\* An insertion of the latest request, or of one that the barrier does not apply
\* to, passes no flush.
LEMMA InsertNotPassed ==
  ASSUME QInv, NotPassed, NEW r \in Requests, NEW k \in KindType, insert_request(r, k),
         k.head \/ r > inserted
  PROVE  NotPassed'
<1>1. /\ \A q \in Requests \ {r} : KindKept(q) /\ Settles(q)
      /\ rq'[r].kind = k /\ rq'[r].status \in {"queued", "lost", "merged"}
  BY InsertKinds, InsertStatus
<1> SUFFICES ASSUME NEW f \in Requests, NEW q \in Requests, f < q, Flush(f)', Gated(q)',
                    rq'[f].status = "queued", Left(q)'
             PROVE  FALSE
  BY DEF NotPassed
<1>2. q # r
  BY <1>1 DEF Left
<1>3. Gated(q) /\ Left(q) /\ q <= inserted
  <2>1. Gated(q) /\ Left(q)
    BY <1>1, <1>2 DEF KindKept, Gated, Settles, Left
  <2>2. QED
    BY <2>1 DEF Left, QInv, NewOK
<1>4. CASE f = r
  <2>1. ~k.head
    BY <1>1, <1>4 DEF Flush, Gated
  <2>2. inserted \in Int /\ q \in Int /\ f \in Int
    BY DEF QInv, IInv, EnvOK, Requests
  <2>3. QED
    BY <1>3, <1>4, <2>1, <2>2
<1>5. CASE f # r
  <2>1. Flush(f) /\ rq[f].status = "queued"
    BY <1>1, <1>5 DEF KindKept, Flush, Gated, Settles
  <2>2. QED
    BY <1>3, <2>1 DEF NotPassed
<1>6. QED
  BY <1>4, <1>5

\* The steps that neither insert nor dispatch nor release.
LEMMA OtherFlush ==
  ASSUME QInv, FlushOK, NotPassed, Step,
         \A c \in CPUs : ~dispatch_from_pq(c) /\ ~PageStep(c) /\ ~release_barrier_requests(c)
  PROVE  FlushOK' /\ NotPassed'
<1>1. \A q \in Requests : KindKept(q) /\ Settles(q)
  BY StepKinds, StepStatus
<1>2. \A c \in CPUs : pc[c] \in Calm => pc'[c] \in Calm
  <2>1. ASSUME NEW c \in CPUs, Dispatch(c)
        PROVE  \A d \in CPUs : pc[d] \in Calm => pc'[d] \in Calm
    <3>1. pc \in [CPUs -> Labels]
      BY DEF QInv, IInv, CtlOK
    <3>2. CASE call_dispatch(c) \/ release_local_list(c)
      BY <3>1, <3>2 DEF call_dispatch, release_local_list, goto, Calm
    <3>3. CASE check_barrier(c)
      BY <3>1, <3>3 DEF check_barrier, goto, Calm
    <3>4. QED
      BY <2>1, <3>2, <3>3 DEF Dispatch, PageStep
  <2>2. CASE ~\E c \in CPUs : Dispatch(c)
    <3>1. UNCHANGED pc
      BY <2>2 DEF Step, bio_merge_check, adios_bio_merge, adios_bio_merge_oops,
                  adios_completed_request,
                  latency_model_update, adios_batch_order_store, vars, ctlVars
    <3>2. QED
      BY <3>1
  <2>3. QED
    BY <2>1, <2>2
<1>3. UNCHANGED <<prio_queue, barrier_queue>>
  <2>1. ASSUME NEW c \in CPUs, Dispatch(c) PROVE UNCHANGED <<prio_queue, barrier_queue>>
    BY <2>1 DEF Dispatch, PageStep, call_dispatch, check_barrier, release_local_list,
                prioVars, barVars
  <2>2. QED
    BY <2>1 DEF Step, bio_merge_check, adios_bio_merge, adios_bio_merge_oops,
                adios_completed_request,
                latency_model_update, adios_batch_order_store, vars, prioVars, barVars
<1>4. \A q \in Requests : rq'[q].status = "queued" => rq[q].status = "queued"
  BY <1>1 DEF Settles
<1>5. FlushOK'
  BY <1>1, <1>2, <1>3, <1>4, FlushKept
<1>6. NotPassed'
  BY <1>1, SettledNotPassed
<1>7. QED
  BY <1>5, <1>6

---------------------------------------------------------------------------
(* Flushes are dispatched first.                                           *)

\* The invariant it takes.
FInv == HInv /\ FlushOK /\ NotPassed

\* It holds of a new scheduler.
LEMMA InitFInv ==
  ASSUME NEW stable \in BOOLEAN, NEW bases \in [OpTypes -> Nat], InitWith(stable, bases)
  PROVE  FInv
<1>1. HInv
  BY InitHInv
<1>2. \A r \in Requests : rq[r].status = "new"
  BY DEF InitWith
<1>3. prio_queue[0] = <<>> /\ prio_queue[1] = <<>> /\ barrier_queue = <<>>
  BY DEF InitWith, Bit
<1>4. ToSet(prio_queue[0]) = {} /\ ToSet(prio_queue[1]) = {} /\ DOMAIN prio_queue[1] = {}
  BY <1>3 DEF ToSet
<1>5. FlushOK
  BY <1>2, <1>3, <1>4 DEF FlushOK, GatedRqs, InOrder
<1>6. NotPassed
  BY <1>2 DEF NotPassed
<1>7. QED
  BY <1>1, <1>5, <1>6 DEF FInv

\* Every step of one CPU preserves it.
LEMMA NextFInv ==
  ASSUME FInv, [Next]_vars, \A c, d \in CPUs : c = d
  PROVE  FInv'
<1>1. HInv /\ QInv /\ BarrierHoldsLater /\ FlushOK /\ NotPassed
  BY DEF FInv, HInv
<1>2. HInv'
  BY <1>1, NextHInv
<1>3. ASSUME NEW k \in Kinds, adios_insert_requests(k) PROVE FlushOK' /\ NotPassed'
  <2>1. PICK r \in Requests : r = inserted + 1
    BY <1>1, <1>3, ConstantsAssumption DEF adios_insert_requests, QInv, IInv, EnvOK, Requests
  <2>2. insert_request(r, k) /\ k \in KindType /\ inserted \in Nat
    BY <1>1, <1>3, <2>1, ConstantsAssumption DEF adios_insert_requests, QInv, IInv, EnvOK
  <2>3. \A q \in Queued : q <= inserted /\ q \in Int
    BY <1>1 DEF QInv, NewOK, Queued, Requests
  <2>4. r \notin Queued /\ r > inserted /\ \A q \in Queued : q < r
    BY <2>1, <2>2, <2>3
  <2>5. QED
    BY <1>1, <2>2, <2>4, InsertFlush, InsertNotPassed
<1>4. ASSUME NEW r \in Requests, Requeue(r) PROVE FlushOK' /\ NotPassed'
  <2> DEFINE k == [rq[r].kind EXCEPT !.head = TRUE]
  <2>1. k \in KindType /\ k.head /\ insert_request(r, k) /\ r \notin Queued
    BY <1>1, <1>4 DEF Requeue, QInv, IInv, RqOK, RqType, KindType, Queued
  <2> HIDE DEF k
  <2>2. QED
    BY <1>1, <2>1, InsertFlush, InsertNotPassed
<1>5. ASSUME Step PROVE FlushOK' /\ NotPassed'
  <2>1. ASSUME NEW c \in CPUs, dispatch_from_pq(c) PROVE FlushOK' /\ NotPassed'
    BY <1>1, <2>1, PqFlush
  <2>2. ASSUME NEW c \in CPUs, PageStep(c) PROVE FlushOK' /\ NotPassed'
    BY <1>1, <2>2, PageFlush
  <2>3. ASSUME NEW c \in CPUs, release_barrier_requests(c) PROVE FlushOK' /\ NotPassed'
    BY <1>1, <2>3, ReleaseFlush
  <2>4. CASE \A c \in CPUs : /\ ~dispatch_from_pq(c) /\ ~PageStep(c)
                              /\ ~release_barrier_requests(c)
    BY <1>1, <1>5, <2>4, OtherFlush
  <2>5. QED
    BY <2>1, <2>2, <2>3, <2>4
<1>6. \/ \E k \in Kinds : adios_insert_requests(k)
      \/ \E r \in Requests : Requeue(r)
      \/ Step
  BY DEF Next, Step
<1>7. QED
  BY <1>1, <1>2, <1>3, <1>4, <1>5, <1>6 DEF FInv

\* With one CPU that dispatches, no request is dispatched before a flush that
\* was inserted before it, through barriers that are released one after another
\* and requests that are diverted, merged, batched and requeued meanwhile.
\* With two CPUs the order is lost, and a run shows how.
THEOREM FlushFirstOnOneCPU ==
  (\A c, d \in CPUs : c = d) => (Spec \/ WarmSpec => []FlushBeforeLater)
<1> SUFFICES ASSUME \A c, d \in CPUs : c = d
             PROVE  Spec \/ WarmSpec => []FlushBeforeLater
  OBVIOUS
<1>1. Init => FInv
  BY InitFInv DEF Init
<1>2. WarmInit => FInv
  <2> SUFFICES ASSUME NEW b \in Bases \ {0},
                      InitWith(TRUE, [o \in OpTypes |-> IF o = 3 THEN 0 ELSE b])
               PROVE  FInv
    BY DEF WarmInit
  <2>1. [o \in OpTypes |-> IF o = 3 THEN 0 ELSE b] \in [OpTypes -> Nat]
    BY ConstantsAssumption
  <2>2. QED
    BY <2>1, InitFInv
<1>3. FInv /\ [Next]_vars => FInv'
  BY NextFInv
<1>4. FInv => FlushBeforeLater
  BY NotPassedImplies DEF FInv
<1>5. QED
  BY <1>1, <1>2, <1>3, <1>4, PTL DEF Spec, WarmSpec

---------------------------------------------------------------------------
(* Synchronous requests, which keep their order.                           *)

\* A request whose deadline is its start, and that the barrier may hold.
Sync(r) == Gated(r) /\ rq[r].kind.sync /\ ~RqIsFlush(rq[r].kind)

\* The request a has to be dispatched before b.
Precedes(a, b) ==
  /\ a < b /\ Sync(a) /\ Sync(b)
  /\ OpType(rq[a].kind) = OpType(rq[b].kind)
  /\ Key(rq[a].kind.start) <= Key(rq[b].kind.start)

\* The requests that have to come after each request, and those that have a
\* later deadline.
After == [a \in Requests |-> {b \in Requests : Precedes(a, b)}]
Later == [a \in Requests |-> {b \in Requests : Key(rq[a].deadline) < Key(rq[b].deadline)}]

\* No request of the list q comes before one that it has to come after.
Respects(q, R) == \A i, j \in DOMAIN q : i < j => q[i] \notin R[q[j]]

\* Requests of a list that need not come before r let it join at the end.
LEMMA RespectsAppend ==
  ASSUME NEW q \in Seq(Requests), NEW R, NEW r \in Requests, Respects(q, R),
         \A x \in ToSet(q) : x \notin R[r]
  PROVE  Respects(Append(q, r), R)
<1> DEFINE t == Append(q, r)
<1>1. Len(q) \in Nat /\ \A k \in 1..Len(q) : q[k] \in ToSet(q)
  BY ElementsOf
<1>2. /\ Len(t) = Len(q) + 1 /\ DOMAIN t = 1..(Len(q) + 1) /\ DOMAIN q = 1..Len(q)
      /\ \A k \in 1..Len(q) : t[k] = q[k]
      /\ t[Len(q) + 1] = r
  BY <1>1, AppendProperties, LenProperties
<1> HIDE DEF t
<1> SUFFICES ASSUME NEW i \in DOMAIN t, NEW j \in DOMAIN t, i < j PROVE t[i] \notin R[t[j]]
  BY DEF Respects, t
<1>3. i \in 1..Len(q) /\ (j \in 1..Len(q) \/ j = Len(q) + 1)
  BY <1>1, <1>2
<1>4. CASE j \in 1..Len(q)
  BY <1>2, <1>3, <1>4 DEF Respects
<1>5. CASE j = Len(q) + 1
  BY <1>1, <1>2, <1>3, <1>5
<1>6. QED
  BY <1>3, <1>4, <1>5

\* A list without its first or its last request, and what the first one may precede.
LEMMA RespectsTail ==
  ASSUME NEW q \in Seq(Requests), NEW R, Respects(q, R), q # <<>>
  PROVE  /\ Respects(Tail(q), R) /\ Respects(Front(q), R)
         /\ \A x \in ToSet(Tail(q)) : Head(q) \notin R[x]
<1> DEFINE n == Len(q) - 1
<1>1. Len(q) \in Nat /\ Len(q) # 0 /\ DOMAIN q = 1..Len(q) /\ Head(q) = q[1]
  BY LenProperties, EmptySeq
<1>2. /\ DOMAIN Tail(q) = 1..n /\ \A k \in 1..n : Tail(q)[k] = q[k + 1]
      /\ Tail(q) \in Seq(Requests) /\ Len(Tail(q)) = n
  BY HeadTailProperties, LenProperties
<1>3. DOMAIN Front(q) = 1..n /\ \A k \in 1..n : Front(q)[k] = q[k]
  BY <1>1, SubSeqProperties, LenProperties DEF Front
<1>4. n \in Nat
  BY <1>1
<1>5. Respects(Tail(q), R)
  BY <1>1, <1>2, <1>4 DEF Respects
<1>6. Respects(Front(q), R)
  BY <1>1, <1>3, <1>4 DEF Respects
<1>7. ASSUME NEW x \in ToSet(Tail(q)) PROVE Head(q) \notin R[x]
  <2>1. PICK k \in 1..n : Tail(q)[k] = x
    BY <1>2, ElementsOf
  <2>2. x = q[k + 1] /\ 1 \in DOMAIN q /\ k + 1 \in DOMAIN q /\ 1 < k + 1
    BY <1>1, <1>2, <1>4, <2>1
  <2>3. QED
    BY <1>1, <2>2 DEF Respects
<1>8. QED
  BY <1>5, <1>6, <1>7

\* Removal keeps the order of the others.
LEMMA RespectsWithout ==
  ASSUME NEW q \in Seq(Requests), NEW S, NEW s \in Without(q, S), NEW R, Respects(q, R)
  PROVE  Respects(s, R)
<1>1. \A i, j \in DOMAIN s : i < j => Before(q, s[i], s[j])
  BY DEF Without
<1>2. QED
  BY <1>1 DEF Respects, Before

\* A request joins a list between those that need not come after it and those
\* that it need not come after.
LEMMA RespectsInsert ==
  ASSUME NEW q \in Seq(Requests), NEW R, NEW r \in Requests, Respects(q, R),
         NEW k \in 1..(Len(q) + 1),
         \A i \in 1..Len(q) : i < k => q[i] \notin R[r],
         \A i \in 1..Len(q) : i >= k => r \notin R[q[i]]
  PROVE  Respects(InsertAt(q, k, r), R)
<1> DEFINE n     == Len(q)
           front == SubSeq(q, 1, k - 1)
           one   == <<r>>
           rest  == SubSeq(q, k, n)
           t     == InsertAt(q, k, r)
<1>1. n \in Nat /\ DOMAIN q = 1..n
  BY LenProperties
<1>2. /\ DOMAIN t = 1..(n + 1)
      /\ \A i \in 1..(n + 1) : t[i] = IF i < k THEN q[i] ELSE IF i = k THEN r ELSE q[i - 1]
  <2>1. /\ front \in Seq(Requests) /\ Len(front) = k - 1 /\ Len(front) \in Nat
        /\ \A i \in 1..(k - 1) : front[i] = q[i]
    BY <1>1, SubSeqProperties, LenProperties
  <2>2. /\ rest \in Seq(Requests) /\ Len(rest) = n - k + 1
        /\ \A i \in 1..(n - k + 1) : rest[i] = q[k + i - 1]
    BY <1>1, SubSeqProperties, LenProperties
  <2>3. one \in Seq(Requests) /\ Len(one) = 1 /\ one[1] = r
    OBVIOUS
  <2> HIDE DEF front, rest, one, n
  <2> DEFINE start == front \o one
  <2>4. /\ start \in Seq(Requests) /\ Len(start) = k
        /\ \A i \in 1..k : start[i] = IF i < k THEN q[i] ELSE r
    <3>1. /\ start \in Seq(Requests) /\ Len(start) = Len(front) + Len(one)
          /\ \A i \in 1..(Len(front) + Len(one)) :
               start[i] = IF i <= Len(front) THEN front[i] ELSE one[i - Len(front)]
      BY ONLY <2>1, <2>3, ConcatProperties
    <3> HIDE DEF start
    <3>2. /\ Len(front) + Len(one) = k
          /\ \A i \in 1..k : i <= k - 1 \/ i - (k - 1) = 1
      BY <1>1, <2>1, <2>3
    <3>3. \A i \in 1..k : start[i] = IF i <= k - 1 THEN front[i] ELSE one[i - (k - 1)]
      BY <2>1, <3>1, <3>2
    <3>4. ASSUME NEW i \in 1..k PROVE start[i] = IF i < k THEN q[i] ELSE r
      <4>1. CASE i < k
        <5>1. i \in 1..(k - 1) /\ i <= k - 1
          BY <1>1, <4>1
        <5>2. QED
          BY <2>1, <3>3, <4>1, <5>1
      <4>2. CASE ~(i < k)
        <5>1. ~(i <= k - 1) /\ i - (k - 1) = 1
          BY <1>1, <4>2
        <5>2. start[i] = one[1]
          BY <3>3, <5>1
        <5>3. QED
          BY <2>3, <4>2, <5>2
      <4>3. QED
        BY <4>1, <4>2
    <3>5. QED
      BY <3>1, <3>2, <3>4
  <2> HIDE DEF start
  <2>5. k \in 1..(n + 1)
    BY DEF n
  <2>6. /\ start \o rest \in Seq(Requests) /\ Len(start \o rest) = n + 1
        /\ \A i \in 1..(n + 1) : (start \o rest)[i] = IF i <= k THEN start[i] ELSE rest[i - k]
    <3>1. Len(start) + Len(rest) = n + 1
      BY <1>1, <2>2, <2>4, <2>5
    <3>2. /\ start \o rest \in Seq(Requests) /\ Len(start \o rest) = Len(start) + Len(rest)
          /\ \A i \in 1..(Len(start) + Len(rest)) :
               (start \o rest)[i] = IF i <= Len(start) THEN start[i] ELSE rest[i - Len(start)]
      BY ONLY <2>2, <2>4, ConcatProperties
    <3>3. QED
      BY <3>1, <3>2, <2>4
  <2>7. t = start \o rest
    BY DEF InsertAt, start, front, rest, one, n
  <2>8. DOMAIN t = 1..(n + 1)
    BY <2>6, <2>7, LenProperties
  <2> HIDE DEF t
  <2>9. ASSUME NEW i \in 1..(n + 1)
        PROVE  t[i] = IF i < k THEN q[i] ELSE IF i = k THEN r ELSE q[i - 1]
    <3>1. CASE i <= k
      BY <1>1, <2>4, <2>5, <2>6, <2>7, <3>1
    <3>2. CASE i > k
      <4>1. i - k \in 1..(n - k + 1) /\ k + (i - k) - 1 = i - 1
        BY <1>1, <2>5, <3>2
      <4>2. t[i] = rest[i - k]
        BY <1>1, <2>5, <2>6, <2>7, <3>2
      <4>3. QED
        BY <1>1, <2>2, <2>5, <3>2, <4>1, <4>2
    <3>3. QED
      BY <1>1, <2>5, <3>1, <3>2
  <2>10. QED
    BY <2>8, <2>9
<1> HIDE DEF t
<1> SUFFICES ASSUME NEW i \in 1..(n + 1), NEW j \in 1..(n + 1), i < j PROVE t[i] \notin R[t[j]]
  BY <1>2 DEF Respects, t
<1>3. k \in 1..(n + 1) /\ n \in Nat
  BY <1>1
<1>4. \A a, b \in 1..n : a < b => q[a] \notin R[q[b]]
  BY <1>1 DEF Respects
<1> HIDE DEF n
<1>5. CASE j < k
  BY <1>2, <1>3, <1>4, <1>5
<1>6. CASE j = k
  BY <1>2, <1>3, <1>6 DEF n
<1>7. CASE j > k /\ i = k
  <2>1. j - 1 \in 1..n /\ j - 1 >= k /\ t[j] = q[j - 1] /\ t[i] = r
    BY <1>2, <1>3, <1>7
  <2>2. QED
    BY <2>1 DEF n
<1>8. CASE j > k /\ i < k
  <2>1. j - 1 \in 1..n /\ i \in 1..n /\ i < j - 1 /\ t[j] = q[j - 1] /\ t[i] = q[i]
    BY <1>2, <1>3, <1>8
  <2>2. QED
    BY <1>4, <2>1
<1>9. CASE j > k /\ i > k
  <2>1. j - 1 \in 1..n /\ i - 1 \in 1..n /\ i - 1 < j - 1 /\ t[j] = q[j - 1] /\ t[i] = q[i - 1]
    BY <1>2, <1>3, <1>9
  <2>2. QED
    BY <1>4, <2>1
<1>10. QED
  BY <1>3, <1>5, <1>6, <1>7, <1>8, <1>9

\* Another order that asks no more of the requests of a list.
LEMMA RespectsOther ==
  ASSUME NEW q \in Seq(Requests), NEW R, NEW Q, Respects(q, R),
         \A a, b \in ToSet(q) : b \in Q[a] => b \in R[a]
  PROVE  Respects(q, Q)
<1>1. \A k \in DOMAIN q : q[k] \in ToSet(q)
  BY DEF ToSet
<1>2. QED
  BY <1>1 DEF Respects

\* Nothing that has to come after a request of S is in T.
Apart(S, T, R) == \A a \in S : \A b \in T : b \notin R[a]

\* The stages S are passed downwards: no request has one that has to come after
\* it at a stage beyond its own.
Staged(S, R) == \A i, j \in 0..5 : j < i => Apart(S[i], S[j], R)

\* Requests that leave, and another order that asks no more.
LEMMA StagedLess ==
  ASSUME NEW S, NEW T, NEW R, NEW Q, Staged(S, R), \A i \in 0..5 : T[i] \subseteq S[i],
         \A i, j \in 0..5 : \A a \in T[i], b \in T[j] : b \in Q[a] => b \in R[a]
  PROVE  Staged(T, Q)
BY DEF Staged, Apart

\* A request that joins a stage.
LEMMA StagedJoin ==
  ASSUME NEW S, NEW T, NEW R, Staged(S, R), NEW k \in 0..5, NEW x,
         \A i \in 0..5 : i # k => T[i] \subseteq S[i], T[k] \subseteq S[k] \cup {x},
         \A i \in 0..5 : i > k => \A a \in T[i] : x \notin R[a],
         \A j \in 0..5 : j < k => \A b \in T[j] : b \notin R[x]
  PROVE  Staged(T, R)
<1> SUFFICES ASSUME NEW i \in 0..5, NEW j \in 0..5, j < i, NEW a \in T[i], NEW b \in T[j]
             PROVE  b \notin R[a]
  BY DEF Staged, Apart
<1>1. CASE a \in S[i] /\ b \in S[j]
  BY <1>1 DEF Staged, Apart
<1>2. CASE a \notin S[i]
  BY <1>2
<1>3. CASE b \notin S[j]
  BY <1>3
<1>4. QED
  BY <1>1, <1>2, <1>3

\* A request that moves on by one stage.
LEMMA StagedMove ==
  ASSUME NEW S, NEW T, NEW R, Staged(S, R), NEW k \in 0..4, NEW x \in S[k + 1],
         \A i \in 0..5 : i # k => T[i] \subseteq S[i], T[k] \subseteq S[k] \cup {x},
         \A a \in T[k + 1] : x \notin R[a]
  PROVE  Staged(T, R)
<1>1. k + 1 \in 0..5 /\ k \in 0..5
  OBVIOUS
<1>2. ASSUME NEW i \in 0..5, i > k, NEW a \in T[i] PROVE x \notin R[a]
  <2>1. CASE i = k + 1
    BY <1>2, <2>1
  <2>2. CASE i > k + 1
    <3>1. a \in S[i]
      BY <1>2
    <3>2. QED
      BY <1>1, <2>2, <3>1 DEF Staged, Apart
  <2>3. QED
    BY <1>2, <2>1, <2>2
<1>3. ASSUME NEW j \in 0..5, j < k, NEW b \in T[j] PROVE b \notin R[x]
  <2>1. b \in S[j] /\ j < k + 1
    BY <1>3
  <2>2. QED
    BY <1>1, <2>1 DEF Staged, Apart
<1>4. QED
  BY <1>1, <1>2, <1>3, StagedJoin

\* Where the requests are on their way out: gone, in the page that dispatch pops
\* from, in the other one, in the trees, in local_list and behind the barrier.
Gone == {r \in Requests : Left(r)}
InTrees == UNION {ToSet(dl_tree[i]) : i \in Bit}
Stages == [i \in 0..5 |-> CASE i = 0 -> Gone
                            [] i = 1 -> InBatch(bq_page)
                            [] i = 2 -> InBatch(1 - bq_page)
                            [] i = 3 -> InTrees
                            [] i = 4 -> ToSet(local_list)
                            [] OTHER -> ToSet(barrier_queue)]

\* The stages by their numbers.
LEMMA StagesAre ==
  /\ Stages[0] = Gone /\ Stages[1] = InBatch(bq_page) /\ Stages[2] = InBatch(1 - bq_page)
  /\ Stages[3] = InTrees /\ Stages[4] = ToSet(local_list) /\ Stages[5] = ToSet(barrier_queue)
  /\ Stages'[0] = Gone' /\ Stages'[1] = InBatch(bq_page)' /\ Stages'[2] = InBatch(1 - bq_page)'
  /\ Stages'[3] = InTrees' /\ Stages'[4] = ToSet(local_list)'
  /\ Stages'[5] = ToSet(barrier_queue)'
BY DEF Stages

\* No request has been passed by one that has to come after it.
StageOK == Staged(Stages, After)

\* A deadline tree is in the order of its keys, requests of one key in the
\* order they have to keep.
TreesOK ==
  \A i \in Bit :
    /\ Respects(dl_tree[i], After) /\ Respects(dl_tree[i], Later)
    /\ \A r \in ToSet(dl_tree[i]) :
         DlIdx(rq[r].kind) = i /\ (Sync(r) => rq[r].deadline = rq[r].kind.start)

\* The queue of a page that a synchronous request is put in.
SyncIdx(order, k) == IF order = 0 THEN OpType(k) ELSE 0

\* A page keeps them in order, those of an optype in one queue, which dispatch
\* takes from the head of.
PagesOK ==
  \A p \in Bit, o \in OpTypes :
    /\ Respects(batch_queue[p][o], After)
    /\ \A r \in ToSet(batch_queue[p][o]) :
         Sync(r) => o = SyncIdx(bq_batch_order[p], rq[r].kind)

\* The queues before them.
WaitOK ==
  /\ Respects(local_list, After)
  /\ barrier_queue # <<>> => RqIsFlush(rq[Head(barrier_queue)].kind)
  /\ \A i \in Bit : \A r \in ToSet(prio_queue[i]) : ~Sync(r)

\* A fill knows whether the current page has requests.
HasRqOK == bq_lock # NoOne => (fill.curHasRq <=> bq_page \in bq_flags)

\* The invariant it takes.
SInv == HInv /\ StageOK /\ TreesOK /\ PagesOK /\ WaitOK /\ HasRqOK /\ ~bio

\* It is enough: a request that is queued is at one of the stages.
LEMMA StagedIsFifo ==
  ASSUME QInv, StageOK, WaitOK
  PROVE  SyncFifo
<1> SUFFICES ASSUME NEW a \in Requests, NEW b \in Requests, Precedes(a, b),
                    rq[a].status = "queued"
             PROVE  b \notin Gone
  <2>1. ASSUME NEW a \in Requests, NEW b \in Requests,
               a < b, Gated(a), Gated(b), rq[a].kind.sync, rq[b].kind.sync,
               OpType(rq[a].kind) = OpType(rq[b].kind), ~RqIsFlush(rq[a].kind)
        PROVE  ~RqIsFlush(rq[b].kind)
    <3>1. rq[a].kind.op \in Ops /\ rq[b].kind.op \in Ops
      BY DEF QInv, IInv, RqOK, RqType, KindType
    <3>2. rq[a].kind.op = rq[b].kind.op
      BY <2>1, <3>1 DEF OpType, Ops
    <3>3. QED
      BY <2>1, <3>2 DEF RqIsFlush
  <2>2. QED
    BY <2>1 DEF SyncFifo, Precedes, Sync, Gone, Left
<1>1. b \in After[a] /\ Sync(a)
  BY DEF After, Precedes
<1>2. \E i \in 1..5 : a \in Stages[i]
  <2>1. a \in Queued
    BY DEF Queued
  <2>2. PICK n \in QueueNames : a \in ToSet(Lists[n])
    BY <2>1 DEF QInv, PlaceOK, Placed
  <2>3. ASSUME NEW i \in Bit, n = PqName(i) PROVE FALSE
    BY <1>1, <2>2, <2>3, ListAt DEF Lists, WaitOK
  <2>4. ASSUME NEW i \in Bit, n = DlName(i) PROVE a \in InTrees
    BY <2>2, <2>4, ListAt DEF Lists, InTrees
  <2>5. ASSUME NEW p \in Bit, NEW o \in OpTypes, n = BqName(p, o) PROVE a \in InBatch(p)
    BY <2>2, <2>5, ListAt DEF Lists, InBatch
  <2>6. ASSUME n = BarrierName PROVE a \in ToSet(barrier_queue)
    BY <2>2, <2>6, ListAt DEF Lists
  <2>7. ASSUME n = LocalName PROVE a \in ToSet(local_list)
    BY <2>2, <2>7, ListAt DEF Lists
  <2>8. \A p \in Bit : p = bq_page \/ p = 1 - bq_page
    BY DEF QInv, IInv, PageOK, Bit
  <2>9. \/ a \in InTrees \/ a \in InBatch(bq_page) \/ a \in InBatch(1 - bq_page)
        \/ a \in ToSet(barrier_queue) \/ a \in ToSet(local_list)
    BY <2>3, <2>4, <2>5, <2>6, <2>7, <2>8, Names
  <2>10. 1 \in 1..5 /\ 2 \in 1..5 /\ 3 \in 1..5 /\ 4 \in 1..5 /\ 5 \in 1..5
    OBVIOUS
  <2>11. QED
    BY ONLY <2>9, <2>10, StagesAre
<1>3. PICK i \in 1..5 : a \in Stages[i]
  BY <1>2
<1>4. i \in 0..5 /\ 0 \in 0..5 /\ 0 < i
  OBVIOUS
<1>5. Apart(Stages[i], Stages[0], After)
  BY <1>4 DEF StageOK, Staged
<1>6. QED
  BY <1>1, <1>3, <1>5, StagesAre DEF Apart

\* A set of positions that holds all positions before each of its own.
LEMMA FirstPositions ==
  ASSUME NEW n \in Nat, NEW U, U \subseteq 1..n,
         \A i, j \in 1..n : i < j /\ j \in U => i \in U
  PROVE  Cardinality(U) \in 0..n /\ U = 1..Cardinality(U)
<1>0. \A k \in Nat : Cardinality(1..k) = k
  <2>1. ASSUME NEW k \in Nat PROVE Cardinality(1..k) = k
    <3>1. 1 \in Int /\ k \in Int
      OBVIOUS
    <3>2. Cardinality(1..k) = IF 1 > k THEN 0 ELSE k - 1 + 1
      BY <3>1, FS_Interval
    <3>3. QED
      BY <3>2
  <2>2. QED
    BY <2>1
<1>1. CASE U = 1..n
  BY <1>0, <1>1
<1>2. CASE U # 1..n
  <2> DEFINE C == (1..n) \ U
             m == Min(C)
  <2>1. C \subseteq Nat /\ C # {}
    <3>1. C \subseteq Nat
      OBVIOUS
    <3>2. \E x \in 1..n : x \notin U
      <4>1. ASSUME \A x \in 1..n : x \in U PROVE FALSE
        <5>1. \A x : x \in U <=> x \in 1..n
          BY <4>1
        <5> HIDE DEF C
        <5>2. U = 1..n
          BY ONLY <5>1
        <5>3. QED
          BY <1>2, <5>2
      <4>2. QED
        BY <4>1
    <3>3. QED
      BY <3>1, <3>2
  <2> HIDE DEF C
  <2>2. m \in C /\ \A x \in C : m <= x
    BY <2>1, MinIsLeast
  <2> USE DEF C
  <2> HIDE DEF m
  <2>3. m \in 1..n /\ m \notin U /\ m - 1 \in 0..n
    BY <2>2
  <2>4. ASSUME NEW x PROVE x \in U <=> x \in 1..(m - 1)
    <3>1. ASSUME x \in U PROVE x \in 1..(m - 1)
      <4>1. x \in 1..n /\ x # m /\ ~(m < x)
        BY <2>3, <3>1
      <4>2. QED
        BY <2>3, <4>1
    <3>2. ASSUME x \in 1..(m - 1) PROVE x \in U
      <4>1. x \in 1..n /\ ~(m <= x)
        BY <2>3, <3>2
      <4>2. QED
        BY <2>2, <4>1
    <3>3. QED
      BY <3>1, <3>2
  <2>5. U = 1..(m - 1)
    BY <2>4
  <2>6. Cardinality(1..(m - 1)) = m - 1
    <3>1. PICK k \in Nat : k = m - 1
      BY <2>3
    <3>2. QED
      BY <1>0, <3>1
  <2>7. QED
    BY <2>3, <2>5, <2>6
<1>3. QED
  BY <1>1, <1>2

\* The key of a deadline.
LEMMA KeyType ==
  ASSUME NEW d \in Nat
  PROVE  Key(d) \in Int
<1>1. Quantum \in Nat /\ Quantum > 0
  BY ConstantsAssumption
<1>2. d % Quantum \in Int
  BY <1>1
<1>3. QED
  BY <1>2 DEF Key

\* The place that add_to_dl_tree gives a deadline is behind the keys up to its
\* own and before the others.
LEMMA KeyPlace ==
  ASSUME RqOK, NEW q \in Seq(Requests), Respects(q, Later), NEW d \in Nat, NEW U,
         U = {j \in DOMAIN q : Key(rq[q[j]].deadline) <= Key(d)}
  PROVE  /\ Cardinality(U) + 1 \in 1..(Len(q) + 1)
         /\ \A i \in 1..Len(q) :
              Key(rq[q[i]].deadline) <= Key(d) <=> i < Cardinality(U) + 1
<1>1. /\ Len(q) \in Nat /\ DOMAIN q = 1..Len(q) /\ \A k \in 1..Len(q) : q[k] \in Requests
  BY ElementsOf
<1>2. PICK K : K = [k \in 1..Len(q) |-> Key(rq[q[k]].deadline)]
  OBVIOUS
<1>3. \A k \in 1..Len(q) : K[k] \in Int
  BY <1>1, <1>2, KeyType DEF RqOK, RqType
<1>4. Key(d) \in Int
  BY KeyType
<1>5. \A i, j \in 1..Len(q) : i < j => K[i] <= K[j]
  <2>1. ASSUME NEW i \in 1..Len(q), NEW j \in 1..Len(q), i < j PROVE ~(K[j] < K[i])
    BY <1>1, <1>2, <2>1 DEF Respects, Later
  <2>2. QED
    BY <1>3, <2>1
<1>6. U \subseteq 1..Len(q) /\ \A i \in 1..Len(q) : i \in U <=> K[i] <= Key(d)
  BY <1>1, <1>2
<1>7. \A i, j \in 1..Len(q) : i < j /\ j \in U => i \in U
  <2>1. PICK e \in Int : e = Key(d)
    BY <1>4
  <2>2. QED
    BY <1>3, <1>5, <1>6, <2>1
<1>8. Cardinality(U) \in 0..Len(q) /\ U = 1..Cardinality(U)
  BY <1>1, <1>6, <1>7, FirstPositions
<1>9. PICK c \in 0..Len(q) : c = Cardinality(U)
  BY <1>8
<1>10. \A i \in 1..Len(q) : i \in U <=> i < c + 1
  <2>1. U = 1..c
    BY ONLY <1>8, <1>9
  <2>2. \A i \in 1..Len(q) : i \in 1..c <=> i < c + 1
    BY <1>1
  <2>3. QED
    BY ONLY <2>1, <2>2
<1>11. c + 1 \in 1..(Len(q) + 1)
  BY <1>1, <1>9
<1>12. QED
  BY <1>2, <1>6, <1>9, <1>10, <1>11

\* The order is that of kinds.
LEMMA AfterKept ==
  ASSUME \A q \in Requests : KindKept(q)
  PROVE  After' = After /\ \A q \in Requests : Sync(q)' <=> Sync(q)
<1>1. \A q \in Requests : Sync(q)' <=> Sync(q)
  BY DEF Sync, Gated, KindKept
<1>2. \A a, b \in Requests : Precedes(a, b)' <=> Precedes(a, b)
  BY <1>1 DEF Precedes, KindKept
<1>3. QED
  BY <1>1, <1>2 DEF After

\* The order among requests that keep their kinds.
LEMMA AfterOthers ==
  ASSUME NEW r, \A q \in Requests \ {r} : KindKept(q)
  PROVE  /\ \A q \in Requests \ {r} : Sync(q)' <=> Sync(q)
         /\ \A a, b \in Requests \ {r} : b \in After'[a] <=> b \in After[a]
<1>1. \A q \in Requests \ {r} : Sync(q)' <=> Sync(q)
  BY DEF Sync, Gated, KindKept
<1>2. \A a, b \in Requests \ {r} : Precedes(a, b)' <=> Precedes(a, b)
  BY <1>1 DEF Precedes, KindKept
<1>3. ASSUME NEW a \in Requests \ {r}, NEW b \in Requests \ {r}
      PROVE  b \in After'[a] <=> b \in After[a]
  <2>1. /\ After[a] = {x \in Requests : Precedes(a, x)}
        /\ After'[a] = {x \in Requests : Precedes(a, x)'}
    BY DEF After
  <2>2. QED
    BY <1>2, <2>1
<1>4. QED
  BY <1>1, <1>3

\* The deadlines in the trees and the other lists are kept, but for one request
\* that is in no tree.
DeadlinesKept(r) == \A q \in Requests \ {r} : KindKept(q) /\ rq'[q].deadline = rq[q].deadline

\* The two orders among the requests of a list that keep their deadlines.
LEMMA TreesOrdersKept ==
  ASSUME NEW r, DeadlinesKept(r), NEW q \in Seq(Requests), r \notin ToSet(q),
         Respects(q, After), Respects(q, Later)
  PROVE  Respects(q, After') /\ Respects(q, Later')
<1>1. \A x \in ToSet(q) : x \in Requests \ {r}
  BY ToSetType
<1>2. \A a, b \in Requests \ {r} : b \in After'[a] <=> b \in After[a]
  BY AfterOthers DEF DeadlinesKept
<1>3. \A a, b \in Requests \ {r} : b \in Later'[a] <=> b \in Later[a]
  <2>1. ASSUME NEW a \in Requests \ {r}, NEW b \in Requests \ {r}
        PROVE  b \in Later'[a] <=> b \in Later[a]
    <3>1. /\ Later[a] = {x \in Requests : Key(rq[a].deadline) < Key(rq[x].deadline)}
          /\ Later'[a] = {x \in Requests : Key(rq'[a].deadline) < Key(rq'[x].deadline)}
      BY DEF Later
    <3>2. QED
      BY <3>1 DEF DeadlinesKept
  <2>2. QED
    BY <2>1
<1>4. PICK R, S : R = After' /\ S = Later'
  OBVIOUS
<1>5. Respects(q, R)
  BY <1>1, <1>2, <1>4, RespectsOther
<1>6. Respects(q, S)
  BY <1>1, <1>3, <1>4, RespectsOther
<1>7. QED
  BY <1>4, <1>5, <1>6

\* Trees that lose requests, or none, stay in order.
LEMMA TreesLess ==
  ASSUME TreesOK, dl_tree \in [Bit -> Seq(Requests)],
         NEW r, r \notin InTrees, DeadlinesKept(r), NEW j \in Bit,
         dl_tree'[j] \in Seq(Requests), ToSet(dl_tree'[j]) \subseteq ToSet(dl_tree[j]),
         Respects(dl_tree'[j], After), Respects(dl_tree'[j], Later)
  PROVE  /\ Respects(dl_tree'[j], After') /\ Respects(dl_tree'[j], Later')
         /\ \A x \in ToSet(dl_tree'[j]) :
              DlIdx(rq'[x].kind) = j /\ (Sync(x)' => rq'[x].deadline = rq'[x].kind.start)
<1>1. \A x \in ToSet(dl_tree'[j]) : x \in ToSet(dl_tree[j]) /\ x \in Requests /\ x # r
  BY ToSetType DEF InTrees
<1>2. /\ \A x \in Requests \ {r} : Sync(x)' <=> Sync(x)
      /\ \A a, b \in Requests \ {r} : b \in After'[a] <=> b \in After[a]
  BY AfterOthers DEF DeadlinesKept
<1>4. PICK q \in Seq(Requests) : q = dl_tree'[j]
  OBVIOUS
<1>5. Respects(q, After') /\ Respects(q, Later')
  BY <1>1, <1>4, TreesOrdersKept
<1>7. ASSUME NEW x \in ToSet(dl_tree'[j])
      PROVE  DlIdx(rq'[x].kind) = j /\ (Sync(x)' => rq'[x].deadline = rq'[x].kind.start)
  <2>1. x \in ToSet(dl_tree[j]) /\ x \in Requests \ {r}
    BY <1>1
  <2>2. DlIdx(rq[x].kind) = j /\ (Sync(x) => rq[x].deadline = rq[x].kind.start)
    BY <2>1 DEF TreesOK
  <2>3. rq'[x].kind = rq[x].kind /\ rq'[x].deadline = rq[x].deadline /\ (Sync(x)' <=> Sync(x))
    BY <1>2, <2>1 DEF DeadlinesKept, KindKept
  <2>4. QED
    BY <2>2, <2>3
<1>8. QED
  BY <1>4, <1>5, <1>7

\* add_to_dl_tree puts a request behind those of its key, where it keeps the
\* order of all that are there.
LEMMA AddInOrder ==
  ASSUME RqOK, DlOK, TreesOK, \A j \in Bit : IsInjective(dl_tree[j]),
         NEW r \in Requests, r \notin InTrees, NEW n \in RqType, NEW flags,
         add_to_dl_tree(r, n, dl_tree, flags), \A b \in InTrees : b \notin After'[r]
  PROVE  TreesOK' /\ InTrees' \subseteq InTrees \cup {r}
<1> DEFINE d    == Deadline(n)
           t    == dl_tree[DlIdx(n.kind)]
           upTo == {j \in DOMAIN t : Key(rq[t[j]].deadline) <= Key(d)}
<1>0. PICK i \in Bit : i = DlIdx(n.kind)
  BY IndexTypes DEF RqType
<1>1. dl_tree \in [Bit -> Seq(Requests)] /\ t \in Seq(Requests)
  BY <1>0 DEF DlOK, TreesAgree
<1>2. d \in Nat
  <2>1. n.kind \in KindType /\ n.kind.start \in Nat /\ n.pred \in Nat
    BY DEF RqType, KindType
  <2>2. LatTarget[OpType(n.kind)] \in Nat
    BY <2>1, IndexTypes, ConstantsAssumption
  <2>3. QED
    BY <2>1, <2>2 DEF Deadline
<1>3. /\ DeadlinesKept(r) /\ rq'[r].kind = n.kind /\ rq'[r].deadline = d
  <2> HIDE DEF d
  <2>1. PICK m : /\ rq' = [rq EXCEPT ![r] = m]
                 /\ \/ m = [n EXCEPT !.deadline = d]
                    \/ m = [n EXCEPT !.deadline = d, !.status = "lost"]
    BY DEF add_to_dl_tree, d
  <2>2. m.kind = n.kind /\ m.deadline = d
    BY <2>1 DEF RqType
  <2>3. rq'[r] = m /\ \A q \in Requests \ {r} : rq'[q] = rq[q]
    BY <2>1 DEF RqOK
  <2>4. QED
    BY <2>2, <2>3 DEF DeadlinesKept, KindKept
<1>4. /\ \A x \in Requests \ {r} : Sync(x)' <=> Sync(x)
      /\ \A a, b \in Requests \ {r} : b \in After'[a] <=> b \in After[a]
  BY <1>3, AfterOthers DEF DeadlinesKept
<1>5. ASSUME NEW j \in Bit, dl_tree'[j] = dl_tree[j]
      PROVE  /\ Respects(dl_tree'[j], After') /\ Respects(dl_tree'[j], Later')
             /\ \A x \in ToSet(dl_tree'[j]) :
                  DlIdx(rq'[x].kind) = j /\ (Sync(x)' => rq'[x].deadline = rq'[x].kind.start)
  BY <1>1, <1>3, <1>5, TreesLess DEF TreesOK
<1>6. CASE dl_tree' = dl_tree
  BY <1>5, <1>6 DEF TreesOK, InTrees
<1>7. CASE dl_tree' = [dl_tree EXCEPT ![DlIdx(n.kind)] = InsertAt(@, Cardinality(upTo) + 1, r)]
  <2> DEFINE K   == Cardinality(upTo) + 1
             new == InsertAt(t, K, r)
  <2>1. dl_tree'[i] = new /\ \A j \in Bit : j # i => dl_tree'[j] = dl_tree[j]
    BY <1>0, <1>1, <1>7
  <2>2. /\ Respects(t, After) /\ Respects(t, Later)
        /\ \A x \in ToSet(t) :
             DlIdx(rq[x].kind) = i /\ (Sync(x) => rq[x].deadline = rq[x].kind.start)
    BY <1>0 DEF TreesOK
  <2>3. /\ K \in 1..(Len(t) + 1)
        /\ \A j \in 1..Len(t) : Key(rq[t[j]].deadline) <= Key(d) <=> j < K
    <3> HIDE DEF d, t
    <3>1. QED
      BY <1>1, <1>2, <2>2, KeyPlace
  <2>4. r \notin ToSet(t) /\ IsInjective(t)
    BY <1>0 DEF InTrees
  <2>5. /\ t \in Seq(Requests) /\ Len(t) \in Nat /\ DOMAIN t = 1..Len(t)
        /\ \A j \in 1..Len(t) : t[j] \in ToSet(t) /\ t[j] \in Requests /\ t[j] # r
    <3> HIDE DEF t
    <3>1. QED
      BY <1>1, <2>4, ElementsOf
  <2>6. \A x \in ToSet(t) : x \in InTrees
    BY <1>0 DEF InTrees
  <2>7. Respects(t, After') /\ Respects(t, Later')
    BY <1>1, <1>3, <2>2, <2>4, TreesOrdersKept
  <2> HIDE DEF K, t, d, upTo
  <2>8. new \in Seq(Requests) /\ ToSet(new) = ToSet(t) \cup {r}
    BY <2>3, <2>4, <2>5, InsertAtDistinct
  <2>9. Sync(r)' => d = n.kind.start
    <3>1. Sync(r)' => n.kind.sync
      BY <1>3 DEF Sync
    <3>2. n.kind.start \in Nat
      BY DEF RqType, KindType
    <3>3. ASSUME n.kind.sync PROVE d = n.kind.start
      <4>1. d = n.kind.start + 0
        BY ONLY <3>3 DEF d, Deadline
      <4>2. QED
        BY ONLY <3>2, <4>1
    <3>4. QED
      BY <3>1, <3>3
  <2>10. ASSUME NEW j \in 1..Len(t), r \in After'[t[j]] PROVE j < K
    <3>1. PICK x \in Requests \ {r} : x = t[j] /\ x \in ToSet(t)
      BY <2>5
    <3>2. Precedes(x, r)'
      BY <2>10, <3>1 DEF After
    <3>3. Sync(x)' /\ Sync(r)' /\ Key(rq'[x].kind.start) <= Key(rq'[r].kind.start)
      BY <3>2 DEF Precedes
    <3>4. rq[x].deadline = rq'[x].kind.start
      BY <1>3, <1>4, <2>2, <3>1, <3>3 DEF DeadlinesKept, KindKept
    <3>5. Key(rq[x].deadline) <= Key(d)
      BY <1>3, <2>9, <3>3, <3>4
    <3>6. QED
      BY <2>3, <3>1, <3>5
  <2>11. Respects(new, After')
    <3>1. \A j \in 1..Len(t) : j >= K => r \notin After'[t[j]]
      BY <2>3, <2>5, <2>10
    <3>2. \A j \in 1..Len(t) : t[j] \notin After'[r]
      BY <2>5, <2>6
    <3>3. PICK R : R = After'
      OBVIOUS
    <3>4. QED
      BY <2>3, <2>5, <2>7, <3>1, <3>2, <3>3, RespectsInsert
  <2>12. Respects(new, Later')
    <3>1. \A j \in 1..Len(t) : /\ rq'[t[j]].deadline = rq[t[j]].deadline
                               /\ Key(rq[t[j]].deadline) \in Int
      BY <1>3, <2>5, KeyType DEF DeadlinesKept, RqOK, RqType
    <3>2. Key(d) \in Int
      BY <1>2, KeyType
    <3>3. \A j \in 1..Len(t) : j >= K => r \notin Later'[t[j]]
      BY <1>3, <2>3, <2>5, <3>1, <3>2 DEF Later
    <3>4. \A j \in 1..Len(t) : j < K => t[j] \notin Later'[r]
      BY <1>3, <2>3, <2>5, <3>1, <3>2 DEF Later
    <3>5. PICK R : R = Later'
      OBVIOUS
    <3>6. QED
      BY <2>3, <2>5, <2>7, <3>3, <3>4, <3>5, RespectsInsert
  <2>13. ASSUME NEW x \in ToSet(new)
         PROVE  DlIdx(rq'[x].kind) = i /\ (Sync(x)' => rq'[x].deadline = rq'[x].kind.start)
    <3>1. CASE x = r
      BY <1>0, <1>3, <2>9, <3>1
    <3>2. CASE x # r
      <4>1. x \in ToSet(t) /\ x \in Requests \ {r}
        BY <1>1, <2>5, <2>8, <3>2, ToSetType
      <4>2. QED
        BY <1>3, <1>4, <2>2, <4>1 DEF DeadlinesKept, KindKept
    <3>3. QED
      BY <3>1, <3>2
  <2>14. TreesOK'
    BY <1>5, <2>1, <2>11, <2>12, <2>13 DEF TreesOK
  <2>15. InTrees' \subseteq InTrees \cup {r}
    <3>1. ASSUME NEW j \in Bit, NEW x \in ToSet(dl_tree'[j]) PROVE x \in InTrees \cup {r}
      BY <2>1, <2>6, <2>8, <3>1 DEF InTrees
    <3>2. QED
      BY <3>1 DEF InTrees
  <2>16. QED
    BY <2>14, <2>15
<1>8. QED
  BY <1>6, <1>7 DEF add_to_dl_tree

\* merge_or_insert_to_dl_tree does the same, or takes requests out of a tree.
LEMMA MergeInOrder ==
  ASSUME RqOK, DlOK, TreesOK, \A j \in Bit : IsInjective(dl_tree[j]),
         NEW r \in Requests, r \notin InTrees, NEW n \in RqType,
         merge_or_insert_to_dl_tree(r, n), \A b \in InTrees : b \notin After'[r]
  PROVE  TreesOK' /\ InTrees' \subseteq InTrees \cup {r}
<1>1. CASE add_to_dl_tree(r, n, dl_tree, dl_flags)
  BY <1>1, AddInOrder
<1>2. PICK i \in Bit : i = DlIdx(n.kind)
  BY IndexTypes DEF RqType
<1>3. ASSUME NEW T, remove_request(DlIdx(n.kind), T),
             rq' = [q \in Requests |->
                     IF q = r THEN [n EXCEPT !.status = "merged"]
                     ELSE IF q \in T THEN [rq[q] EXCEPT !.status = "merged"]
                     ELSE rq[q]]
      PROVE  TreesOK' /\ InTrees' \subseteq InTrees \cup {r}
  <2>1. DeadlinesKept(r)
    BY <1>3 DEF DeadlinesKept, KindKept, RqOK, RqType
  <2>2. dl_tree \in [Bit -> Seq(Requests)]
    BY DEF DlOK, TreesAgree
  <2>3. PICK rest \in Without(dl_tree[i], T) : dl_tree' = [dl_tree EXCEPT ![i] = rest]
    BY <1>2, <1>3 DEF remove_request
  <2>4. dl_tree'[i] = rest /\ \A j \in Bit : j # i => dl_tree'[j] = dl_tree[j]
    BY <2>2, <2>3
  <2>5. ASSUME NEW j \in Bit
        PROVE  /\ dl_tree'[j] \in Seq(Requests) /\ ToSet(dl_tree'[j]) \subseteq ToSet(dl_tree[j])
               /\ Respects(dl_tree'[j], After) /\ Respects(dl_tree'[j], Later)
    <3>1. Respects(dl_tree[j], After) /\ Respects(dl_tree[j], Later)
      BY DEF TreesOK
    <3>2. CASE j = i
      <4>1. PICK q \in Seq(Requests) : q = dl_tree[i] /\ IsInjective(q)
        BY <2>2
      <4>2. PICK R, S : R = After /\ S = Later
        OBVIOUS
      <4>3. rest \in Seq(Requests) /\ ToSet(rest) = ToSet(q) \ T
        BY <2>3, <4>1, WithoutDistinct
      <4>4. Respects(rest, R) /\ Respects(rest, S)
        BY <2>3, <3>1, <3>2, <4>1, <4>2, RespectsWithout
      <4>5. QED
        BY <2>4, <3>2, <4>1, <4>2, <4>3, <4>4
    <3>3. CASE j # i
      BY <2>2, <2>4, <3>1, <3>3
    <3>4. QED
      BY <3>2, <3>3
  <2>6. TreesOK'
    BY <2>1, <2>2, <2>5, TreesLess DEF TreesOK
  <2>7. QED
    BY <2>5, <2>6 DEF InTrees
<1>4. QED
  BY <1>1, <1>3 DEF merge_or_insert_to_dl_tree

\* The lists that hold queued requests.
LEMMA ListsQueued ==
  ASSUME QInv
  PROVE  /\ \A i \in Bit : /\ dl_tree[i] \in Seq(Requests) /\ IsInjective(dl_tree[i])
                           /\ ToSet(dl_tree[i]) \subseteq Queued
         /\ local_list \in Seq(Requests) /\ IsInjective(local_list)
         /\ ToSet(local_list) \subseteq Queued
<1>1. ASSUME NEW i \in Bit
      PROVE  /\ dl_tree[i] \in Seq(Requests) /\ IsInjective(dl_tree[i])
             /\ ToSet(dl_tree[i]) \subseteq Queued
  <2>1. DlName(i) \in QueueNames /\ Lists[DlName(i)] = dl_tree[i]
    BY Names, ListAt DEF Lists
  <2>2. QED
    BY <2>1 DEF QInv, PlaceOK, Placed
<1>2. LocalName \in QueueNames /\ Lists[LocalName] = local_list
  BY Names, ListAt DEF Lists
<1>3. QED
  BY <1>1, <1>2 DEF QInv, PlaceOK, Placed

\* A stage holds requests, all but the last one queued requests.
LEMMA StagesHold ==
  ASSUME QInv
  PROVE  /\ InTrees \subseteq Queued /\ ToSet(local_list) \subseteq Queued
         /\ ToSet(barrier_queue) \subseteq Queued
         /\ \A p \in Bit : InBatch(p) \subseteq Queued
         /\ \A i \in 0..5 : Stages[i] \subseteq Requests
         /\ \A i \in 1..5 : Stages[i] \subseteq Queued
<1>1. InTrees \subseteq Queued /\ ToSet(local_list) \subseteq Queued
  BY ListsQueued DEF InTrees
<1>2. ToSet(barrier_queue) \subseteq Queued
  BY BarrierQueued DEF Queued
<1>3. \A p \in Bit : InBatch(p) \subseteq Queued
  BY InPage DEF InBatch
<1>4. bq_page \in Bit /\ 1 - bq_page \in Bit
  BY DEF QInv, IInv, PageOK, Bit
<1>5. \A i \in 1..5 : i = 1 \/ i = 2 \/ i = 3 \/ i = 4 \/ i = 5
  OBVIOUS
<1>6. InBatch(bq_page) \subseteq Queued /\ InBatch(1 - bq_page) \subseteq Queued
  BY <1>3, <1>4
<1>7. \A i \in 1..5 : Stages[i] \subseteq Queued
  BY ONLY <1>1, <1>2, <1>5, <1>6, StagesAre
<1>8. \A i \in 0..5 : i = 0 \/ i \in 1..5
  OBVIOUS
<1>9. Stages[0] \subseteq Requests /\ Queued \subseteq Requests
  BY StagesAre DEF Gone, Queued
<1>10. QED
  BY <1>1, <1>2, <1>3, <1>7, <1>8, <1>9

\* Pages that no step touches stay in order.
LEMMA PagesKept ==
  ASSUME QInv, PagesOK, UNCHANGED <<batch_queue, bq_batch_order>>,
         NEW r, r \notin Queued, \A q \in Requests \ {r} : KindKept(q)
  PROVE  PagesOK'
<1> SUFFICES ASSUME NEW p \in Bit, NEW o \in OpTypes
             PROVE  /\ Respects(batch_queue[p][o], After')
                    /\ \A x \in ToSet(batch_queue[p][o]) :
                         Sync(x)' => o = SyncIdx(bq_batch_order[p], rq'[x].kind)
  BY DEF PagesOK
<1>1. PICK q \in Seq(Requests) : q = batch_queue[p][o] /\ ToSet(q) \subseteq Queued
  BY InPage
<1>2. /\ Respects(q, After)
      /\ \A x \in ToSet(q) : Sync(x) => o = SyncIdx(bq_batch_order[p], rq[x].kind)
  BY <1>1 DEF PagesOK
<1>3. \A x \in ToSet(q) : x \in Requests \ {r}
  BY <1>1 DEF Queued
<1>4. /\ \A x \in Requests \ {r} : Sync(x)' <=> Sync(x)
      /\ \A a, b \in Requests \ {r} : b \in After'[a] <=> b \in After[a]
  BY AfterOthers
<1>5. PICK R : R = After'
  OBVIOUS
<1>6. Respects(q, R)
  BY <1>2, <1>3, <1>4, <1>5, RespectsOther
<1>7. QED
  BY <1>1, <1>2, <1>3, <1>4, <1>5, <1>6 DEF KindKept

\* Where an insertion puts its request.
LEMMA InsertWays ==
  ASSUME QInv, NEW r \in Requests, NEW k \in KindType, insert_request(r, k)
  PROVE  /\ UNCHANGED <<pageVars, batchVars, bq_lock, local_list, bio>> /\ local_list = <<>>
         /\ \/ /\ \E i \in Bit : prio_queue' = [prio_queue EXCEPT ![i] = Append(@, r)]
               /\ ~models_stable \/ k.head
               /\ UNCHANGED <<dl_tree, barrier_queue>> /\ DeadlinesKept(r)
            \/ /\ UNCHANGED <<dl_tree, prio_queue>> /\ Diverted(r, k) /\ DeadlinesKept(r)
            \/ /\ UNCHANGED <<barrier_queue, prio_queue>> /\ barrier_queue = <<>>
               /\ \E n \in RqType : n.kind = k /\ merge_or_insert_to_dl_tree(r, n)
<1> DEFINE n == [kind |-> k, pred |-> base[OpType(k)], deadline |-> 0,
                 status |-> "queued", gated |-> models_stable]
<1>1. n \in RqType /\ n.kind = k
  <2>1. base[OpType(k)] \in Nat
    BY IndexTypes DEF QInv, IInv, ModelOK
  <2>2. QED
    BY <2>1 DEF RqType, Statuses, QInv, IInv, ModelOK
<1>2. /\ lock = NoOne /\ UNCHANGED <<pageVars, batchVars, bq_lock, local_list, bio>>
      /\ IF models_stable THEN insert_request_post_stability(r, n)
                          ELSE insert_request_pre_stability(r, n)
  BY DEF insert_request, ctlVars
<1>3. local_list = <<>>
  BY <1>2, ConstantsAssumption DEF QInv, LocalOK, IInv, CtlOK
<1>4. bp_flag <=> barrier_queue # <<>>
  BY DEF QInv, IInv, BarOK
<1> HIDE DEF n
<1>5. rq' = [rq EXCEPT ![r] = n] => DeadlinesKept(r)
  BY DEF DeadlinesKept, KindKept, QInv, IInv, RqOK
<1>6. CASE ~models_stable
  <2>1. /\ \E i \in Bit : prio_queue' = [prio_queue EXCEPT ![i] = Append(@, r)]
        /\ UNCHANGED <<dl_tree, barrier_queue>> /\ rq' = [rq EXCEPT ![r] = n]
    BY <1>2, <1>6 DEF insert_request_pre_stability, insert_to_prio_queue, Bit, dlVars, barVars
  <2>2. QED
    BY <1>2, <1>3, <1>5, <1>6, <2>1
<1>7. CASE models_stable /\ n.kind.head /\ insert_request_post_stability(r, n)
  <2>1. /\ \E i \in Bit : prio_queue' = [prio_queue EXCEPT ![i] = Append(@, r)]
        /\ UNCHANGED <<dl_tree, barrier_queue>> /\ rq' = [rq EXCEPT ![r] = n]
    BY <1>7 DEF insert_request_post_stability, insert_to_prio_queue, Bit, dlVars, barVars
  <2>2. QED
    BY <1>1, <1>2, <1>3, <1>5, <1>7, <2>1
<1>8. CASE models_stable /\ ~n.kind.head /\ insert_request_post_stability(r, n)
  <2>1. \/ /\ barrier_queue = <<>> => RqIsFlush(k)
           /\ barrier_queue' = Append(barrier_queue, r) /\ rq' = [rq EXCEPT ![r] = n]
           /\ UNCHANGED <<prio_queue, dl_tree>>
        \/ /\ barrier_queue = <<>> /\ merge_or_insert_to_dl_tree(r, n)
           /\ UNCHANGED <<prio_queue, barrier_queue>>
    BY <1>1, <1>4, <1>8 DEF insert_request_post_stability, prioVars, dlVars, barVars
  <2>2. QED
    BY <1>1, <1>2, <1>3, <1>5, <1>8, <2>1 DEF Diverted
<1>9. QED
  BY <1>2, <1>6, <1>7, <1>8

---------------------------------------------------------------------------
(* Each action keeps the order of synchronous requests.                    *)

\* What the actions below have to show.
InOrderKept == StageOK' /\ TreesOK' /\ PagesOK' /\ WaitOK'

\* Trees that a step leaves alone.
LEMMA TreesKept ==
  ASSUME QInv, TreesOK, UNCHANGED dl_tree, NEW r, r \notin InTrees, DeadlinesKept(r)
  PROVE  TreesOK' /\ InTrees' = InTrees
<1>1. dl_tree \in [Bit -> Seq(Requests)]
  BY DEF QInv, IInv, DlOK, TreesAgree
<1>2. \A j \in Bit : /\ dl_tree'[j] \in Seq(Requests)
                     /\ ToSet(dl_tree'[j]) \subseteq ToSet(dl_tree[j])
                     /\ Respects(dl_tree'[j], After) /\ Respects(dl_tree'[j], Later)
  BY <1>1 DEF TreesOK
<1>3. TreesOK'
  BY <1>1, <1>2, TreesLess DEF TreesOK
<1>4. QED
  BY <1>3 DEF InTrees

\* Requests that settle are not dispatched.
LEMMA GoneKept ==
  ASSUME NEW q \in Requests, Settles(q), q \in Gone'
  PROVE  q \in Gone
BY DEF Settles, Gone, Left

\* A request that is inserted goes behind all that it has to come after.
LEMMA InsertSync ==
  ASSUME QInv, StageOK, TreesOK, PagesOK, WaitOK, NEW r \in Requests, r \notin Queued,
         NEW k \in KindType, insert_request(r, k), k.head \/ r > inserted
  PROVE  InOrderKept
<1>1. /\ \A q \in Requests \ {r} : KindKept(q) /\ Settles(q)
      /\ rq'[r].kind = k /\ rq'[r].gated = models_stable
      /\ rq'[r].status \in {"queued", "lost", "merged"}
  BY InsertKinds, InsertStatus
<1>2. /\ \A x \in Requests \ {r} : Sync(x)' <=> Sync(x)
      /\ \A a, b \in Requests \ {r} : b \in After'[a] <=> b \in After[a]
  BY <1>1, AfterOthers
<1>3. Gone' \subseteq Gone \ {r}
  BY <1>1, GoneKept DEF Gone, Left
<1>4. \A b \in Requests : b \in After'[r] => rq[b].status = "new"
  <2>1. ASSUME NEW b \in Requests, b \in After'[r] PROVE rq[b].status = "new"
    <3>1. Precedes(r, b)'
      BY <2>1 DEF After
    <3>2. r < b /\ Sync(r)'
      BY <3>1 DEF Precedes
    <3>3. ~k.head
      BY <1>1, <3>2 DEF Sync, Gated
    <3>4. r > inserted /\ inserted \in Int /\ r \in Int /\ b \in Int
      BY <3>3 DEF QInv, IInv, EnvOK, Requests
    <3>5. ~(b <= inserted)
      BY <3>2, <3>4
    <3>6. QED
      BY <3>5 DEF QInv, NewOK
  <2>2. QED
    BY <2>1
<1>5. /\ \A i \in 0..5 : Stages[i] \subseteq Requests
      /\ \A i \in 1..5 : Stages[i] \subseteq Queued
      /\ InTrees \subseteq Queued
  BY StagesHold
<1>6. \A i \in 0..5 : \A b \in Stages[i] : b \notin After'[r]
  <2>1. ASSUME NEW b \in Gone PROVE b \in Requests /\ rq[b].status # "new"
    BY <2>1 DEF Gone, Left
  <2>2. \A b \in Queued : b \in Requests /\ rq[b].status # "new"
    BY DEF Queued
  <2>3. \A i \in 0..5 : i = 0 \/ i \in 1..5
    OBVIOUS
  <2>4. QED
    BY <1>4, <1>5, <2>1, <2>2, <2>3, StagesAre
<1>7. PICK S : S = [i \in 0..5 |-> Stages[i] \ {r}]
  OBVIOUS
<1>8. PICK Q : Q = After'
  OBVIOUS
<1>9. Staged(S, Q)
  <2>1. PICK R, P : R = After /\ P = Stages
    OBVIOUS
  <2>2. Staged(P, R)
    BY <2>1 DEF StageOK
  <2>3. \A i \in 0..5 : S[i] \subseteq P[i] /\ S[i] \subseteq Requests \ {r}
    BY <1>5, <1>7, <2>1
  <2>4. \A a, b \in Requests \ {r} : b \in Q[a] <=> b \in R[a]
    BY <1>2, <1>8, <2>1
  <2>5. QED
    BY <2>2, <2>3, <2>4, StagedLess
<1>10. /\ UNCHANGED <<batch_queue, bq_page, bq_batch_order, local_list>> /\ local_list = <<>>
       /\ \/ /\ \E i \in Bit : prio_queue' = [prio_queue EXCEPT ![i] = Append(@, r)]
             /\ ~models_stable \/ k.head
             /\ UNCHANGED <<dl_tree, barrier_queue>> /\ DeadlinesKept(r)
          \/ /\ UNCHANGED <<dl_tree, prio_queue>> /\ Diverted(r, k) /\ DeadlinesKept(r)
          \/ /\ UNCHANGED <<barrier_queue, prio_queue>> /\ barrier_queue = <<>>
             /\ \E n \in RqType : n.kind = k /\ merge_or_insert_to_dl_tree(r, n)
  BY InsertWays DEF pageVars, batchVars
<1>11. PagesOK'
  BY <1>1, <1>10, PagesKept
<1>12. r \notin InTrees /\ \A b \in InTrees : b \notin After'[r]
  BY <1>5, <1>6, StagesAre
<1>13. \A b \in Gone' : b \in Gone \ {r}
  BY <1>3
<1>14. /\ S[0] = Gone \ {r} /\ S[1] = InBatch(bq_page) \ {r}
       /\ S[2] = InBatch(1 - bq_page) \ {r} /\ S[3] = InTrees \ {r}
       /\ S[4] = ToSet(local_list) \ {r} /\ S[5] = ToSet(barrier_queue) \ {r}
  BY <1>7, StagesAre
<1>15. /\ InBatch(bq_page)' = InBatch(bq_page) /\ InBatch(1 - bq_page)' = InBatch(1 - bq_page)
       /\ ToSet(local_list)' = {} /\ ToSet(local_list) = {}
  BY <1>10 DEF InBatch, ToSet
<1>16. \A i \in 1..5 : r \notin Stages[i]
  BY <1>5
<1>17. /\ r \notin InBatch(bq_page) /\ r \notin InBatch(1 - bq_page)
       /\ r \notin ToSet(barrier_queue)
  <2>1. 1 \in 1..5 /\ 2 \in 1..5 /\ 5 \in 1..5
    OBVIOUS
  <2>2. QED
    BY <1>16, <2>1, StagesAre
<1>18. PICK T : T = Stages'
  OBVIOUS
<1>19. /\ T[0] \subseteq S[0] /\ T[1] \subseteq S[1] /\ T[2] \subseteq S[2] /\ T[4] = {}
       /\ T[3] = InTrees' /\ T[5] = ToSet(barrier_queue)'
  BY <1>3, <1>14, <1>15, <1>17, <1>18, StagesAre
<1>20. \A i \in 0..5 : i = 0 \/ i = 1 \/ i = 2 \/ i = 3 \/ i = 4 \/ i = 5
  OBVIOUS
<1>21. \A j \in 0..5 : \A b \in S[j] : b \notin Q[r]
  BY <1>6, <1>7, <1>8
<1>22. ASSUME UNCHANGED dl_tree, DeadlinesKept(r),
              ToSet(barrier_queue)' \subseteq ToSet(barrier_queue) \cup {r}
       PROVE  StageOK' /\ TreesOK'
  <2>1. TreesOK' /\ InTrees' = InTrees
    BY <1>12, <1>22, TreesKept
  <2>2. T[3] \subseteq S[3] /\ T[5] \subseteq S[5] \cup {r}
    BY <1>12, <1>14, <1>19, <1>22, <2>1
  <2>3. \A i \in 0..5 : i # 5 => T[i] \subseteq S[i]
    BY <1>19, <1>20, <2>2
  <2>4. \A j \in 0..5 : j < 5 => \A b \in T[j] : b \notin Q[r]
    BY <1>21, <2>3
  <2>5. 5 \in 0..5 /\ \A i \in 0..5 : ~(i > 5)
    OBVIOUS
  <2>6. Staged(T, Q)
    BY <1>9, <2>2, <2>3, <2>4, <2>5, StagedJoin
  <2>7. QED
    BY <1>8, <1>18, <2>1, <2>6 DEF StageOK
<1>23. CASE /\ \E i \in Bit : prio_queue' = [prio_queue EXCEPT ![i] = Append(@, r)]
            /\ ~models_stable \/ k.head
            /\ UNCHANGED <<dl_tree, barrier_queue>> /\ DeadlinesKept(r)
  <2>1. StageOK' /\ TreesOK'
    BY <1>22, <1>23
  <2>2. ~Sync(r)'
    BY <1>1, <1>23 DEF Sync, Gated
  <2>3. ASSUME NEW i \in Bit, NEW x \in ToSet(prio_queue'[i]) PROVE ~Sync(x)'
    <3>1. x \in ToSet(prio_queue[i]) \cup {r}
      BY <1>23, AppendJoins DEF JoinsQueue
    <3>2. CASE x = r
      BY <2>2, <3>2
    <3>3. CASE x # r
      <4>1. x \in ToSet(prio_queue[i]) /\ x \in Requests \ {r}
        BY <3>1, <3>3, PqQueued
      <4>2. QED
        BY <1>2, <4>1 DEF WaitOK
    <3>4. QED
      BY <3>2, <3>3
  <2>4. barrier_queue' # <<>> => RqIsFlush(rq'[Head(barrier_queue')].kind)
    <3>1. ASSUME barrier_queue # <<>> PROVE RqIsFlush(rq'[Head(barrier_queue)].kind)
      <4>1. PICK h : h = Head(barrier_queue)
        OBVIOUS
      <4>2. h \in ToSet(barrier_queue) /\ h \in Requests
        BY <3>1, <4>1, BarrierQueued, SeqHead
      <4>3. rq'[h].kind = rq[h].kind
        BY <1>1, <1>17, <4>2 DEF KindKept
      <4>4. QED
        BY <3>1, <4>1, <4>3 DEF WaitOK
    <3>2. QED
      BY <1>23, <3>1
  <2>5. WaitOK'
    BY <1>10, <2>3, <2>4 DEF WaitOK, Respects
  <2>6. QED
    BY <1>11, <2>1, <2>5 DEF InOrderKept
<1>24. ASSUME UNCHANGED prio_queue
       PROVE  \A i \in Bit : \A x \in ToSet(prio_queue'[i]) : ~Sync(x)'
  <2>1. ASSUME NEW i \in Bit, NEW x \in ToSet(prio_queue[i]) PROVE ~Sync(x)'
    <3>1. x \in Requests \ {r}
      BY PqQueued DEF Queued
    <3>2. QED
      BY <1>2, <3>1 DEF WaitOK
  <2>2. QED
    BY <1>24, <2>1
<1>25. CASE UNCHANGED <<dl_tree, prio_queue>> /\ Diverted(r, k) /\ DeadlinesKept(r)
  <2>1. PICK q \in Seq(Requests) : q = barrier_queue
    BY BarrierQueued
  <2>2. barrier_queue' = Append(q, r) /\ (q = <<>> => RqIsFlush(k))
    BY <1>25, <2>1 DEF Diverted
  <2>3. /\ ToSet(Append(q, r)) = ToSet(q) \cup {r} /\ Append(q, r) # <<>>
        /\ Head(Append(q, r)) = IF q = <<>> THEN r ELSE Head(q)
    BY AppendToSet, AppendHead
  <2>4. StageOK' /\ TreesOK'
    BY <1>22, <1>25, <2>1, <2>2, <2>3
  <2>5. RqIsFlush(rq'[Head(barrier_queue')].kind)
    <3>1. CASE q = <<>>
      BY <1>1, <2>2, <2>3, <3>1
    <3>2. CASE q # <<>>
      <4>1. Head(q) \in ToSet(q) /\ Head(q) \in Requests
        BY <2>1, <3>2, SeqHead, ToSetType
      <4>2. rq'[Head(q)].kind = rq[Head(q)].kind
        BY <1>1, <1>17, <2>1, <4>1 DEF KindKept
      <4>3. QED
        BY <2>1, <2>2, <2>3, <3>2, <4>2 DEF WaitOK
    <3>3. QED
      BY <3>1, <3>2
  <2>6. WaitOK'
    BY <1>10, <1>24, <1>25, <2>5 DEF WaitOK, Respects
  <2>7. QED
    BY <1>11, <2>4, <2>6 DEF InOrderKept
<1>26. ASSUME UNCHANGED <<barrier_queue, prio_queue>>, barrier_queue = <<>>,
              NEW n \in RqType, merge_or_insert_to_dl_tree(r, n)
       PROVE  InOrderKept
  <2>1. RqOK /\ DlOK /\ \A j \in Bit : IsInjective(dl_tree[j])
    BY ListsQueued DEF QInv, IInv
  <2>2. TreesOK' /\ InTrees' \subseteq InTrees \cup {r}
    BY <1>12, <1>26, <2>1, MergeInOrder
  <2>3. ToSet(barrier_queue)' = {}
    BY <1>26 DEF ToSet
  <2>4. T[3] \subseteq S[3] \cup {r} /\ T[5] = {}
    BY <1>12, <1>14, <1>19, <2>2, <2>3
  <2>5. \A i \in 0..5 : i # 3 => T[i] \subseteq S[i]
    BY <1>19, <1>20, <2>4
  <2>6. \A j \in 0..5 : j < 3 => \A b \in T[j] : b \notin Q[r]
    BY <1>21, <2>5
  <2>7. 3 \in 0..5 /\ \A i \in 0..5 : i > 3 => T[i] = {}
    BY <1>19, <1>20, <2>4
  <2>8. Staged(T, Q)
    BY <1>9, <2>4, <2>5, <2>6, <2>7, StagedJoin
  <2>9. WaitOK'
    BY <1>10, <1>24, <1>26 DEF WaitOK, Respects
  <2>10. QED
    BY <1>8, <1>11, <1>18, <2>2, <2>8, <2>9 DEF StageOK, InOrderKept
<1>27. QED
  BY <1>10, <1>23, <1>25, <1>26

\* The other steps keep every kind and, but for the request released into a
\* tree, every deadline.
LEMMA FoundDeadlines ==
  ASSUME RqOK, NEW c, NEW r, found(c, r)
  PROVE  \A q \in Requests : rq'[q].deadline = rq[q].deadline
BY DEF found, RqOK, RqType

\* Waiting queues from which at most prio_queue and local_list lose requests.
LEMMA WaitKept ==
  ASSUME QInv, WaitOK, UNCHANGED barrier_queue, Respects(local_list', After),
         \A q \in Requests : KindKept(q),
         \A i \in Bit : ToSet(prio_queue'[i]) \subseteq ToSet(prio_queue[i])
  PROVE  WaitOK'
<1>1. After' = After /\ \A q \in Requests : Sync(q)' <=> Sync(q)
  BY AfterKept
<1>2. Respects(local_list', After')
  BY <1>1 DEF WaitOK
<1>3. ASSUME barrier_queue # <<>> PROVE RqIsFlush(rq'[Head(barrier_queue)].kind)
  <2>1. PICK h : h = Head(barrier_queue)
    OBVIOUS
  <2>2. h \in ToSet(barrier_queue) /\ h \in Requests
    BY <1>3, <2>1, BarrierQueued, SeqHead
  <2>3. QED
    BY <1>3, <2>1, <2>2 DEF WaitOK, KindKept
<1>4. ASSUME NEW i \in Bit, NEW x \in ToSet(prio_queue'[i]) PROVE ~Sync(x)'
  <2>1. x \in ToSet(prio_queue[i]) /\ x \in Requests
    BY <1>4, PqQueued
  <2>2. QED
    BY <1>1, <2>1 DEF WaitOK
<1>5. QED
  BY <1>2, <1>3, <1>4 DEF WaitOK

\* A step that leaves the lists behind prio_queue alone, and dispatches at most
\* a request that has no order to keep.
LEMMA ListsSync ==
  ASSUME QInv, StageOK, TreesOK, WaitOK,
         UNCHANGED <<dl_tree, batch_queue, bq_page, local_list, barrier_queue>>, PagesOK',
         \A q \in Requests : KindKept(q) /\ rq'[q].deadline = rq[q].deadline,
         \A i \in Bit : ToSet(prio_queue'[i]) \subseteq ToSet(prio_queue[i]),
         NEW x, x \in Requests => ~Sync(x), Gone' \subseteq Gone \cup {x}
  PROVE  InOrderKept
<1>1. After' = After /\ \A q \in Requests : Sync(q)' <=> Sync(q)
  BY AfterKept
<1>2. WaitOK'
  <2>1. Respects(local_list', After)
    BY DEF WaitOK
  <2>2. QED
    BY <2>1, WaitKept
<1>3. 0 \notin Requests /\ 0 \notin Queued /\ 0 \notin InTrees
  BY StagesHold DEF Requests, Queued
<1>4. DeadlinesKept(0)
  BY DEF DeadlinesKept
<1>5. TreesOK' /\ InTrees' = InTrees
  BY <1>3, <1>4, TreesKept
<1>7. PICK S, T, R : S = Stages /\ T = Stages' /\ R = After
  OBVIOUS
<1>8. Staged(S, R)
  BY <1>7 DEF StageOK
<1>9. /\ T[0] \subseteq S[0] \cup {x} /\ T[1] = S[1] /\ T[2] = S[2] /\ T[3] = S[3]
      /\ T[4] = S[4] /\ T[5] = S[5]
  <2>1. InBatch(bq_page)' = InBatch(bq_page) /\ InBatch(1 - bq_page)' = InBatch(1 - bq_page)
    BY DEF InBatch
  <2>2. ToSet(local_list)' = ToSet(local_list) /\ ToSet(barrier_queue)' = ToSet(barrier_queue)
    OBVIOUS
  <2>3. QED
    BY <1>5, <1>7, <2>1, <2>2, StagesAre
<1>10. \A i \in 0..5 : i = 0 \/ i = 1 \/ i = 2 \/ i = 3 \/ i = 4 \/ i = 5
  OBVIOUS
<1>11. \A i \in 0..5 : T[i] \subseteq Requests
  <2>1. \A i \in 0..5 : S[i] \subseteq Requests
    BY <1>7, StagesHold
  <2>2. T[0] \subseteq Requests
    BY <1>7, StagesAre DEF Gone
  <2>3. QED
    BY <1>9, <1>10, <2>1, <2>2
<1>12. \A a \in Requests : x \notin R[a]
  BY <1>7 DEF After, Precedes
<1>13. Staged(T, R)
  <2>1. \A i \in 0..5 : i # 0 => T[i] \subseteq S[i]
    BY <1>9, <1>10
  <2>2. \A i \in 0..5 : i > 0 => \A a \in T[i] : x \notin R[a]
    BY <1>11, <1>12
  <2>3. 0 \in 0..5 /\ \A j \in 0..5 : ~(j < 0)
    OBVIOUS
  <2>4. QED
    BY <1>8, <1>9, <2>1, <2>2, <2>3, StagedJoin
<1>14. QED
  BY <1>1, <1>2, <1>5, <1>7, <1>13 DEF StageOK, InOrderKept

\* dispatch_from_pq dispatches what was inserted at the head, and flushes.
LEMMA PqSync ==
  ASSUME QInv, StageOK, TreesOK, PagesOK, WaitOK, NEW c \in CPUs, dispatch_from_pq(c)
  PROVE  InOrderKept
<1>1. UNCHANGED <<dl_tree, batch_queue, bq_page, bq_batch_order, local_list, barrier_queue>>
  BY DEF dispatch_from_pq, dlVars, pageVars, batchVars, barVars
<1>2. \A q \in Requests : KindKept(q)
  BY StepKinds DEF Step, Dispatch
<1>3. \A q \in Requests : rq'[q].deadline = rq[q].deadline
  BY FoundDeadlines DEF dispatch_from_pq, QInv, IInv
<1>4. PagesOK'
  <2>1. 0 \notin Queued
    BY DEF Queued, Requests
  <2>2. QED
    BY <1>1, <1>2, <2>1, PagesKept
<1>5. CASE UNCHANGED <<rq, prio_queue>>
  <2>1. Gone' \subseteq Gone \cup {0}
    BY <1>5 DEF Gone, Left
  <2>2. 0 \notin Requests
    BY DEF Requests
  <2>3. QED
    BY <1>4, <1>1, <1>2, <1>3, <1>5, <2>1, <2>2, ListsSync
<1>6. ASSUME NEW i \in Bit, TakesHead(i) PROVE InOrderKept
  <2>1. PICK x : x = Head(prio_queue[i])
    OBVIOUS
  <2>2. /\ prio_queue[i] \in Seq(Requests) /\ IsInjective(prio_queue[i])
        /\ prio_queue[i] # <<>> /\ prio_queue'[i] = Tail(prio_queue[i])
    BY <1>6, PqQueued DEF TakesHead
  <2>3. x \in ToSet(prio_queue[i]) /\ ToSet(prio_queue'[i]) \subseteq ToSet(prio_queue[i])
    BY <2>1, <2>2, TailDistinct
  <2>4. ~Sync(x)
    BY <2>3 DEF WaitOK
  <2>5. \A j \in Bit : ToSet(prio_queue'[j]) \subseteq ToSet(prio_queue[j])
    BY <1>6, <2>3 DEF TakesHead
  <2>6. Gone' \subseteq Gone \cup {x}
    BY <1>6, <2>1 DEF TakesHead, Dispatches, Gone, Left
  <2>7. QED
    BY <1>4, <1>1, <1>2, <1>3, <2>4, <2>5, <2>6, ListsSync
<1>7. QED
  BY <1>5, <1>6, PqTakes

\* release_barrier_requests moves what follows a flush, in order of insertion.
LEMMA ReleaseSync ==
  ASSUME QInv, BarrierHoldsLater, StageOK, TreesOK, PagesOK, WaitOK,
         NEW c \in CPUs, release_barrier_requests(c)
  PROVE  InOrderKept
<1>1. UNCHANGED <<rq, dl_tree, batch_queue, bq_page, bq_batch_order>> /\ lock = NoOne
  BY DEF release_barrier_requests, dlVars, pageVars, batchVars
<1>2. /\ \A q \in Requests : KindKept(q) /\ rq'[q].deadline = rq[q].deadline
      /\ Gone' = Gone
  BY <1>1 DEF KindKept, Gone, Left
<1>3. local_list = <<>>
  BY <1>1, ConstantsAssumption DEF QInv, LocalOK, IInv, CtlOK
<1>4. CASE UNCHANGED <<prio_queue, barrier_queue, local_list>>
  <2>1. 0 \notin Requests /\ 0 \notin Queued
    BY DEF Requests, Queued
  <2>2. PagesOK'
    BY <1>1, <1>2, <2>1, PagesKept
  <2>3. QED
    BY <1>1, <1>2, <1>4, <2>1, <2>2, ListsSync
<1>5. ASSUME barrier_queue # <<>>, NEW n, n = Followers,
             insert_to_prio_queue(Head(barrier_queue), rq[Head(barrier_queue)].pred, 1),
             local_list' = SubSeq(barrier_queue, 2, n + 1),
             barrier_queue' = SubSeq(barrier_queue, n + 2, Len(barrier_queue))
      PROVE  InOrderKept
  <2> DEFINE q    == barrier_queue
             h    == Head(q)
             mid  == SubSeq(q, 2, n + 1)
             rest == SubSeq(q, n + 2, Len(q))
             p    == prio_queue[1]
  <2>1. /\ q \in Seq(Requests) /\ IsInjective(q) /\ q # <<>>
        /\ n \in 0..(Len(q) - 1) /\ Len(q) \in Nat /\ DOMAIN q = 1..Len(q)
    BY <1>5, BarrierQueued, FollowersType, LenProperties DEF QInv, IInv
  <2>2. /\ After' = After /\ \A x \in Requests : Sync(x)' <=> Sync(x)
        /\ \A a, b \in Requests : b \in After[a] => a < b
    BY <1>2, AfterKept DEF After, Precedes
  <2>3. \A i, j \in 1..Len(q) : i < j => q[i] < q[j]
    BY <1>5, <2>1, BarrierHolds DEF Holds, Increasing
  <2>5. /\ h \in ToSet(q) /\ h \in Requests /\ ~Sync(h)
    BY <1>5, <2>1, SeqHead, ToSetType DEF WaitOK, Sync
  <2>6. /\ prio_queue'[1] = Append(p, h) /\ prio_queue'[0] = prio_queue[0]
        /\ p \in Seq(Requests)
    BY <1>5 DEF insert_to_prio_queue, QInv, IInv, PqOK, Bit
  <2>7. \A k \in 1..Len(q) : q[k] \in Requests /\ q[k] \in ToSet(q)
    BY <2>1, ElementsOf
  <2>8. /\ mid \in Seq(Requests) /\ DOMAIN mid = 1..n /\ \A i \in 1..n : mid[i] = q[i + 1]
    BY <2>1, SubSeqProperties, LenProperties
  <2>9. \A x : x \in ToSet(mid) <=> \E k \in 2..(n + 1) : q[k] = x
    <3>1. 2 \in 1..(Len(q) + 1) /\ n + 1 \in 0..Len(q)
      BY <2>1
    <3>2. QED
      BY <2>1, <3>1, PartDistinct
  <2>10. /\ rest \in Seq(Requests)
         /\ \A x : x \in ToSet(rest) <=> \E k \in (n + 2)..Len(q) : q[k] = x
    <3>1. n + 2 \in 1..(Len(q) + 1) /\ Len(q) \in 0..Len(q)
      BY <2>1
    <3>2. QED
      BY <2>1, <3>1, PartDistinct
  <2>11. rest # <<>> => RqIsFlush(rq[Head(rest)].kind)
    <3>1. CASE n + 2 <= Len(q)
      <4>1. n + 2 \in 1..Len(q)
        BY <2>1, <3>1
      <4>2. Increasing(q)
        BY <2>1, <2>3 DEF Increasing
      <4>3. Head(rest) = q[n + 2]
        BY <2>1, <4>1, <4>2, RestIncreasing
      <4>4. RqIsFlush(rq[q[n + 2]].kind)
        BY <1>5, <3>1, FollowersAre DEF QInv, IInv
      <4>5. QED
        BY <4>3, <4>4
    <3>2. CASE ~(n + 2 <= Len(q))
      <4>1. \A x : x \notin ToSet(rest)
        BY <2>1, <2>10, <3>2
      <4> HIDE DEF rest
      <4>2. QED
        BY <2>10, <4>1, SeqHead
    <3>3. QED
      BY <3>1, <3>2
  <2>12. local_list' = mid /\ barrier_queue' = rest
    BY <1>5
  <2> HIDE DEF q, h, mid, rest, p
  <2>13. Respects(mid, After)
    <3>1. ASSUME NEW i \in 1..n, NEW j \in 1..n, i < j PROVE mid[i] \notin After[mid[j]]
      <4>1. i + 1 \in 1..Len(q) /\ j + 1 \in 1..Len(q) /\ i + 1 < j + 1
        BY <2>1, <3>1
      <4>2. mid[i] < mid[j] /\ mid[i] \in Requests /\ mid[j] \in Requests
        BY <2>3, <2>7, <2>8, <4>1
      <4>3. ~(mid[j] < mid[i])
        BY <4>2 DEF Requests
      <4>4. QED
        BY <2>2, <4>2, <4>3
    <3>2. QED
      BY <2>8, <3>1 DEF Respects
  <2>14. ASSUME NEW a \in ToSet(rest), NEW b \in ToSet(mid) PROVE b \notin After[a]
    <3>1. PICK k \in 2..(n + 1) : q[k] = b
      BY <2>9
    <3>2. PICK l \in (n + 2)..Len(q) : q[l] = a
      BY <2>10
    <3>3. k \in 1..Len(q) /\ l \in 1..Len(q) /\ k < l
      BY <2>1
    <3>4. b < a /\ a \in Requests /\ b \in Requests
      BY <2>3, <2>7, <3>1, <3>2, <3>3
    <3>5. ~(a < b)
      BY <3>4 DEF Requests
    <3>6. QED
      BY <2>2, <3>4, <3>5
  <2>15. ToSet(mid) \subseteq ToSet(q) /\ ToSet(rest) \subseteq ToSet(q)
    <3>1. \A k \in 2..(n + 1) : k \in 1..Len(q)
      BY <2>1
    <3>2. \A k \in (n + 2)..Len(q) : k \in 1..Len(q)
      BY <2>1
    <3>3. QED
      BY <2>7, <2>9, <2>10, <3>1, <3>2
  <2>16. 0 \notin InTrees /\ 0 \notin Queued /\ DeadlinesKept(0)
    BY <1>2, StagesHold DEF Requests, Queued, DeadlinesKept
  <2>17. TreesOK' /\ InTrees' = InTrees /\ PagesOK'
    BY <1>1, <1>2, <2>16, TreesKept, PagesKept
  <2>18. StageOK'
    <3>1. PICK S, T, R : S = Stages /\ T = Stages' /\ R = After
      OBVIOUS
    <3>2. /\ T[0] = S[0] /\ T[1] = S[1] /\ T[2] = S[2] /\ T[3] = S[3]
          /\ T[4] = ToSet(mid) /\ T[5] = ToSet(rest) /\ S[5] = ToSet(q)
      <4>1. InBatch(bq_page)' = InBatch(bq_page) /\ InBatch(1 - bq_page)' = InBatch(1 - bq_page)
        BY <1>1 DEF InBatch
      <4>2. QED
        BY <1>2, <2>12, <2>17, <3>1, <4>1, StagesAre DEF q
    <3>3. \A i, j \in 0..5 : j < i => Apart(S[i], S[j], R)
      BY <3>1 DEF StageOK, Staged
    <3>4. \A i \in 0..5 : i \in 0..3 \/ i = 4 \/ i = 5
      OBVIOUS
    <3>5. \A i \in 0..3 : T[i] = S[i] /\ i \in 0..5 /\ i < 5
      <4>1. \A i \in 0..3 : i = 0 \/ i = 1 \/ i = 2 \/ i = 3
        OBVIOUS
      <4>2. \A i \in 0..3 : T[i] = S[i]
        BY <3>2, <4>1
      <4>3. QED
        BY <4>2
    <3>6. \A j \in 0..3 : Apart(S[5], S[j], R)
      BY <3>3, <3>5
    <3>7. \A j \in 0..3 : Apart(T[4], T[j], R) /\ Apart(T[5], T[j], R)
      BY <2>15, <3>2, <3>5, <3>6 DEF Apart
    <3>8. Apart(T[5], T[4], R)
      BY <2>14, <3>1, <3>2 DEF Apart
    <3>9. \A i, j \in 0..3 : j < i => Apart(T[i], T[j], R)
      BY <3>3, <3>5
    <3>10. ASSUME NEW i \in 0..5, NEW j \in 0..5, j < i PROVE Apart(T[i], T[j], R)
      <4>1. CASE j \in 0..3
        BY <3>4, <3>7, <3>9, <3>10, <4>1
      <4>2. CASE j \notin 0..3
        <5>1. i = 5 /\ j = 4
          BY <3>10, <4>2
        <5>2. QED
          BY <3>8, <5>1
      <4>3. QED
        BY <4>1, <4>2
    <3>11. QED
      BY <2>2, <3>1, <3>10 DEF StageOK, Staged
  <2>19. ASSUME NEW i \in Bit, NEW x \in ToSet(prio_queue'[i]) PROVE ~Sync(x)'
    <3>1. \A y \in ToSet(prio_queue[0]) : ~Sync(y) /\ y \in Requests
      BY PqQueued DEF WaitOK, Bit
    <3>2. \A y \in ToSet(p) : ~Sync(y) /\ y \in Requests
      BY PqQueued DEF WaitOK, Bit, p
    <3>3. ToSet(Append(p, h)) = ToSet(p) \cup {h}
      BY <2>5, <2>6, AppendToSet
    <3>4. i = 0 \/ i = 1
      BY DEF Bit
    <3>5. ~Sync(x) /\ x \in Requests
      BY <2>5, <2>6, <3>1, <3>2, <3>3, <3>4
    <3>6. QED
      BY <2>2, <3>5
  <2>20. WaitOK'
    BY <1>1, <2>2, <2>11, <2>12, <2>13, <2>19 DEF WaitOK
  <2>21. QED
    BY <2>17, <2>18, <2>20 DEF InOrderKept
<1>6. QED
  BY <1>4, <1>5 DEF release_barrier_requests, prioVars, barVars

\* release_local_list has its request pass those that are not after it.
LEMMA LocalSync ==
  ASSUME QInv, StageOK, TreesOK, PagesOK, WaitOK, NEW c \in CPUs, release_local_list(c)
  PROVE  InOrderKept
<1>1. /\ UNCHANGED <<prio_queue, barrier_queue, batch_queue, bq_page, bq_batch_order>>
      /\ local_list' = Tail(local_list) /\ pc[c] = "reinsert"
  BY DEF release_local_list, prioVars, barVars, pageVars, batchVars
<1>2. PICK x : x = Head(local_list)
  OBVIOUS
<1>3. /\ local_list \in Seq(Requests) /\ IsInjective(local_list) /\ local_list # <<>>
      /\ ToSet(local_list) \subseteq Queued
  BY <1>1, ListsQueued DEF QInv, IInv, CtlOK
<1>4. /\ x \in ToSet(local_list) /\ x \in Requests
      /\ ToSet(local_list') = ToSet(local_list) \ {x}
  BY <1>1, <1>2, <1>3, TailDistinct DEF Queued
<1>5. Respects(local_list', After) /\ \A a \in ToSet(local_list') : x \notin After[a]
  <2>1. PICK q \in Seq(Requests) : q = local_list
    BY <1>3
  <2>2. PICK R : R = After
    OBVIOUS
  <2>3. Respects(q, R) /\ q # <<>>
    BY <1>3, <2>1, <2>2 DEF WaitOK
  <2>4. Respects(Tail(q), R) /\ \A a \in ToSet(Tail(q)) : Head(q) \notin R[a]
    BY <2>3, RespectsTail
  <2>5. QED
    BY <1>1, <1>2, <2>1, <2>2, <2>4
<1>6. \A q \in Requests : KindKept(q)
  BY StepKinds DEF Step, Dispatch
<1>7. After' = After
  BY <1>6, AfterKept
<1>8. WaitOK'
  BY <1>1, <1>5, <1>6, WaitKept
<1>9. PagesOK'
  <2>1. 0 \notin Queued
    BY DEF Queued, Requests
  <2>2. QED
    BY <1>1, <1>6, <2>1, PagesKept
<1>10. x \notin InTrees
  <2>1. ASSUME NEW i \in Bit PROVE x \notin ToSet(dl_tree[i])
    <3>1. /\ LocalName \in QueueNames /\ Lists[LocalName] = local_list
          /\ DlName(i) \in QueueNames /\ Lists[DlName(i)] = dl_tree[i]
          /\ LocalName # DlName(i)
      BY Names, ListAt DEF Lists, LocalName, DlName
    <3>2. QED
      BY <1>4, <3>1, OneList
  <2>2. QED
    BY <2>1 DEF InTrees
<1>11. \A b \in InTrees : b \notin After[x]
  <2>1. Apart(Stages[4], Stages[3], After)
    BY DEF StageOK, Staged
  <2>2. QED
    BY <1>4, <2>1, StagesAre DEF Apart
<1>12. TreesOK' /\ InTrees' \subseteq InTrees \cup {x}
  <2>1. merge_or_insert_to_dl_tree(x, rq[x]) /\ rq[x] \in RqType
    BY <1>2, <1>4 DEF release_local_list, QInv, IInv, RqOK
  <2>2. PICK n \in RqType : merge_or_insert_to_dl_tree(x, n)
    BY <2>1
  <2>3. RqOK /\ DlOK /\ \A j \in Bit : IsInjective(dl_tree[j])
    BY ListsQueued DEF QInv, IInv
  <2>4. QED
    BY <1>4, <1>7, <1>10, <1>11, <2>2, <2>3, MergeInOrder
<1>13. Gone' \subseteq Gone
  <2>1. ASSUME NEW d \in CPUs PROVE ~dispatch_from_pq(d) /\ ~PageStep(d)
    <3>1. ASSUME dispatch_from_pq(d) \/ PageStep(d) PROVE FALSE
      <4>1. UNCHANGED local_list
        BY <3>1 DEF dispatch_from_pq, PageStep, dispatch_from_bq, fill_batch_queues,
                    fill_batch_queues_done
      <4>2. ToSet(local_list) = ToSet(local_list) \ {x}
        BY <1>4, <4>1
      <4>3. QED
        BY <1>4, <4>2
    <3>2. QED
      BY <3>1
  <2>2. \A q \in Requests : Settles(q)
    BY <2>1, StepStatus DEF Step, Dispatch
  <2>3. QED
    BY <2>2, GoneKept DEF Gone
<1>14. StageOK'
  <2>1. PICK S, T, R : S = Stages /\ T = Stages' /\ R = After
    OBVIOUS
  <2>2. /\ T[0] \subseteq S[0] /\ T[1] = S[1] /\ T[2] = S[2] /\ T[3] \subseteq S[3] \cup {x}
        /\ T[4] \subseteq S[4] /\ T[5] = S[5] /\ x \in S[4]
        /\ \A a \in T[4] : x \notin R[a]
    <3>1. InBatch(bq_page)' = InBatch(bq_page) /\ InBatch(1 - bq_page)' = InBatch(1 - bq_page)
      BY <1>1 DEF InBatch
    <3>2. ToSet(local_list)' \subseteq ToSet(local_list)
          /\ ToSet(barrier_queue)' = ToSet(barrier_queue)
      BY <1>1, <1>4
    <3>3. QED
      BY <1>4, <1>5, <1>12, <1>13, <2>1, <3>1, <3>2, StagesAre
  <2>3. \A i \in 0..5 : i = 0 \/ i = 1 \/ i = 2 \/ i = 3 \/ i = 4 \/ i = 5
    OBVIOUS
  <2>4. \A i \in 0..5 : i # 3 => T[i] \subseteq S[i]
    BY <2>2, <2>3
  <2>5. Staged(S, R)
    BY <2>1 DEF StageOK
  <2>6. 3 \in 0..4 /\ 3 + 1 = 4
    OBVIOUS
  <2>7. Staged(T, R)
    BY <2>2, <2>4, <2>5, <2>6, StagedMove
  <2>8. QED
    BY <1>7, <2>1, <2>7 DEF StageOK
<1>15. QED
  BY <1>8, <1>9, <1>12, <1>14 DEF InOrderKept

\* The beginning of a fill sets the order of an empty page.
LEMMA StartSync ==
  ASSUME QInv, StageOK, TreesOK, PagesOK, WaitOK, NEW c \in CPUs,
         dispatch_from_bq(c), MustRefill
  PROVE  InOrderKept
<1>1. /\ UNCHANGED <<bq_page, batch_queue, rq, prio_queue>>
      /\ \A o \in OpTypes : batch_queue[1 - bq_page][o] = <<>>
      /\ bq_batch_order' = [bq_batch_order EXCEPT ![1 - bq_page] = batch_order]
  BY StartPages DEF prioVars
<1>2. UNCHANGED <<dl_tree, local_list, barrier_queue>>
  BY DEF dispatch_from_bq, dlVars, barVars
<1>3. /\ \A q \in Requests : KindKept(q) /\ rq'[q].deadline = rq[q].deadline
      /\ Gone' \subseteq Gone \cup {0}
  BY <1>1 DEF KindKept, Gone, Left
<1>4. After' = After /\ \A q \in Requests : Sync(q)' <=> Sync(q)
  BY <1>3, AfterKept
<1>5. ASSUME NEW p \in Bit, NEW o \in OpTypes
      PROVE  /\ Respects(batch_queue'[p][o], After')
             /\ \A r \in ToSet(batch_queue'[p][o]) :
                  Sync(r)' => o = SyncIdx(bq_batch_order'[p], rq'[r].kind)
  <2>1. CASE p = 1 - bq_page
    BY <1>1, <2>1 DEF Respects, ToSet
  <2>2. CASE p # 1 - bq_page
    <3>1. bq_batch_order'[p] = bq_batch_order[p]
      BY <1>1, <2>2 DEF QInv, IInv, FillOK
    <3>2. \A r \in ToSet(batch_queue[p][o]) : r \in Requests
      BY InPage DEF Queued
    <3>3. QED
      BY <1>1, <1>4, <3>1, <3>2 DEF PagesOK
  <2>3. QED
    BY <2>1, <2>2
<1>6. PagesOK'
  BY <1>5 DEF PagesOK
<1>7. 0 \notin Requests
  BY DEF Requests
<1>8. QED
  BY <1>1, <1>2, <1>3, <1>6, <1>7, ListsSync

\* The batch queue that a synchronous request of a tree is put in.
LEMMA SyncDest ==
  ASSUME QInv, TreesOK, NEW i \in Bit, NEW r \in ToSet(dl_tree[i]), Sync(r)
  PROVE  DestIdx(r) = SyncIdx(bq_batch_order[1 - bq_page], rq[r].kind)
<1>1. r \in Requests /\ rq[r].deadline = rq[r].kind.start
  BY ListsQueued DEF TreesOK, Queued
<1>2. rq[r].kind.op \in Ops /\ ~RqIsFlush(rq[r].kind)
  BY <1>1 DEF Sync, QInv, IInv, RqOK, RqType, KindType
<1>3. rq[r].kind.op # "flush"
  <2>1. ASSUME rq[r].kind.op = "flush" PROVE FALSE
    <3>1. ReqOp[rq[r].kind.op] = 2
      BY <2>1 DEF ReqOp
    <3>2. (2 \div 2) % 2 = 1
      OBVIOUS
    <3>3. QED
      BY <1>2, <3>1, <3>2 DEF RqIsFlush
  <2>2. QED
    BY <2>1
<1>4. OpType(rq[r].kind) # 3
  BY <1>2, <1>3 DEF OpType, Ops
<1>5. QED
  BY <1>1, <1>4 DEF DestIdx, SyncIdx

\* fill_batch_queues takes the first request of a tree.
LEMMA FillSync ==
  ASSUME QInv, StageOK, TreesOK, PagesOK, WaitOK, NEW c \in CPUs, fill_batch_queues(c)
  PROVE  InOrderKept
<1>1. UNCHANGED <<rq, prio_queue, barrier_queue, local_list, bq_page, bq_batch_order>>
  BY DEF fill_batch_queues, prioVars, barVars
<1>2. /\ \A q \in Requests : KindKept(q) /\ rq'[q].deadline = rq[q].deadline
      /\ Gone' = Gone
  BY <1>1 DEF KindKept, Gone, Left
<1>3. 0 \notin Requests /\ 0 \notin Queued /\ 0 \notin InTrees
  BY StagesHold DEF Requests, Queued
<1>4. CASE UNCHANGED <<dl_tree, batch_queue>>
  <2>1. PagesOK'
    BY <1>1, <1>2, <1>3, <1>4, PagesKept
  <2>2. QED
    BY <1>1, <1>2, <1>3, <1>4, <2>1, ListsSync
<1>5. ASSUME dl_flags # {}, NEW i, i = FillIdx, NEW r, r = Head(dl_tree[i]),
             NEW o, o = DestIdx(r), NEW page, page = 1 - bq_page,
             dl_tree' = [dl_tree EXCEPT ![i] = Tail(dl_tree[i])],
             batch_queue' = [batch_queue EXCEPT ![page][o] = Append(@, r)]
      PROVE  InOrderKept
  <2>1. i \in Bit /\ dl_tree[i] # <<>> /\ dl_tree[i] \in Seq(Requests)
    BY <1>5, FillTree DEF QInv, IInv
  <2>2. PICK t \in Seq(Requests) : t = dl_tree[i] /\ IsInjective(t) /\ t # <<>>
    BY <2>1, ListsQueued
  <2>3. /\ r \in ToSet(t) /\ Tail(t) \in Seq(Requests) /\ ToSet(Tail(t)) = ToSet(t) \ {r}
        /\ r = Head(t) /\ r \in Requests
    BY <1>5, <2>2, TailDistinct, ToSetType
  <2>4. /\ dl_tree \in [Bit -> Seq(Requests)]
        /\ dl_tree'[i] = Tail(t) /\ \A j \in Bit : j # i => dl_tree'[j] = dl_tree[j]
    <3>1. dl_tree \in [Bit -> Seq(Requests)]
      BY DEF QInv, IInv, DlOK, TreesAgree
    <3>2. QED
      BY <1>5, <2>1, <2>2, <3>1
  <2>5. PICK R, L : R = After /\ L = Later
    OBVIOUS
  <2>6. /\ Respects(t, R) /\ Respects(t, L)
        /\ \A x \in ToSet(t) : Sync(x) => rq[x].deadline = rq[x].kind.start
    BY <2>1, <2>2, <2>5 DEF TreesOK
  <2>7. /\ Respects(Tail(t), R) /\ Respects(Tail(t), L)
        /\ \A x \in ToSet(Tail(t)) : r \notin R[x]
    BY <2>2, <2>3, <2>6, RespectsTail
  <2>8. ASSUME NEW j \in Bit
        PROVE  /\ dl_tree'[j] \in Seq(Requests) /\ ToSet(dl_tree'[j]) \subseteq ToSet(dl_tree[j])
               /\ Respects(dl_tree'[j], After) /\ Respects(dl_tree'[j], Later)
    BY <2>2, <2>3, <2>4, <2>5, <2>7 DEF TreesOK
  <2>9. DeadlinesKept(0)
    BY <1>2 DEF DeadlinesKept
  <2>10. TreesOK'
    BY <1>3, <2>4, <2>8, <2>9, TreesLess DEF TreesOK
  <2>11. /\ After' = After /\ \A x \in Requests : Sync(x)' <=> Sync(x)
    BY <1>2, AfterKept
  <2>12. r \in InTrees
    BY <2>1, <2>2, <2>3 DEF InTrees
  <2>13. page \in Bit /\ bq_page \in Bit /\ page # bq_page /\ o \in OpTypes
    <3>1. OpType(rq[r].kind) \in OpTypes
      BY <2>3, IndexTypes DEF QInv, IInv, RqOK, RqType
    <3>2. o = OpType(rq[r].kind) \/ o = 0 \/ o = 1
      BY <1>5 DEF DestIdx
    <3>21. 0 \in OpTypes /\ 1 \in OpTypes
      BY DEF OpTypes
    <3>22. o \in OpTypes
      BY <3>1, <3>2, <3>21
    <3>3. QED
      BY <1>5, <3>22 DEF QInv, IInv, PageOK, Bit
  <2>14. PICK q \in Seq(Requests) : q = batch_queue[page][o]
    BY <2>13, InPage
  <2>15. /\ batch_queue'[page][o] = Append(q, r)
         /\ \A p \in Bit, k \in OpTypes :
              p # page \/ k # o => batch_queue'[p][k] = batch_queue[p][k]
    <3>1. batch_queue \in [Bit -> [OpTypes -> Seq(Requests)]]
      BY DEF QInv, IInv, PageOK
    <3>2. QED
      BY <1>5, <2>13, <2>14, <3>1
  <2>16. ToSet(Append(q, r)) = ToSet(q) \cup {r}
    BY <2>3, AppendToSet
  <2>17. \A x \in ToSet(q) : x \notin After[r]
    <3>1. Apart(Stages[3], Stages[2], After)
      BY DEF StageOK, Staged
    <3>2. \A x \in ToSet(q) : x \in InBatch(1 - bq_page)
      BY <1>5, <2>13, <2>14, ToSetType DEF InBatch
    <3>3. QED
      BY <2>12, <3>1, <3>2, StagesAre DEF Apart
  <2>18. PagesOK'
    <3>1. ASSUME NEW p \in Bit, NEW k \in OpTypes
          PROVE  /\ Respects(batch_queue'[p][k], After')
                 /\ \A x \in ToSet(batch_queue'[p][k]) :
                      Sync(x)' => k = SyncIdx(bq_batch_order'[p], rq'[x].kind)
      <4>1. CASE p # page \/ k # o
        <5>1. \A x \in ToSet(batch_queue[p][k]) : x \in Requests
          BY InPage DEF Queued
        <5>2. QED
          BY <1>1, <2>11, <2>15, <4>1, <5>1 DEF PagesOK
      <4>2. CASE p = page /\ k = o
        <5>1. Respects(Append(q, r), R)
          <6>1. Respects(q, R)
            BY <2>5, <2>13, <2>14 DEF PagesOK
          <6>2. QED
            BY <2>3, <2>5, <2>17, <6>1, RespectsAppend
        <5>2. ASSUME NEW x \in ToSet(Append(q, r)), Sync(x)'
              PROVE  o = SyncIdx(bq_batch_order[page], rq[x].kind)
          <6>1. CASE x = r
            <7>1. Sync(r)
              BY <2>3, <2>11, <5>2, <6>1
            <7>2. QED
              BY <1>5, <2>1, <2>2, <2>3, <6>1, <7>1, SyncDest
          <6>2. CASE x # r
            <7>1. x \in ToSet(q) /\ x \in Requests
              BY <2>16, <5>2, <6>2, ToSetType
            <7>2. QED
              BY <2>11, <2>13, <2>14, <5>2, <7>1 DEF PagesOK
          <6>3. QED
            BY <6>1, <6>2
        <5>3. QED
          BY <1>1, <2>5, <2>11, <2>15, <4>2, <5>1, <5>2
      <4>3. QED
        BY <4>1, <4>2
    <3>2. QED
      BY <3>1 DEF PagesOK
  <2>19. WaitOK'
    <3>1. Respects(local_list', After)
      BY <1>1 DEF WaitOK
    <3>2. QED
      BY <1>1, <1>2, <3>1, WaitKept
  <2>20. /\ InTrees' \subseteq InTrees /\ \A x \in InTrees' : r \notin After[x]
    <3>1. InTrees' \subseteq InTrees
      BY <2>8 DEF InTrees
    <3>2. ASSUME NEW j \in Bit, NEW x \in ToSet(dl_tree'[j]), r \in After[x] PROVE FALSE
      <4>1. CASE j = i
        BY <2>4, <2>5, <2>7, <3>2, <4>1
      <4>2. CASE j # i
        <5>1. x \in ToSet(dl_tree[j]) /\ x \in Requests
          BY <2>8, <3>2, ListsQueued DEF Queued
        <5>2. OpType(rq[x].kind) = OpType(rq[r].kind)
          BY <3>2, <5>1 DEF After, Precedes
        <5>3. rq[x].kind.op \in Ops /\ rq[r].kind.op \in Ops
          BY <2>3, <5>1 DEF QInv, IInv, RqOK, RqType, KindType
        <5>4. rq[x].kind.op = rq[r].kind.op
          BY <5>2, <5>3 DEF OpType, Ops
        <5>5. DlIdx(rq[x].kind) = j /\ DlIdx(rq[r].kind) = i
          BY <2>1, <2>2, <2>3, <5>1 DEF TreesOK
        <5>6. QED
          BY <4>2, <5>4, <5>5 DEF DlIdx
      <4>3. QED
        BY <4>1, <4>2
    <3>3. QED
      BY <3>1, <3>2 DEF InTrees
  <2>21. StageOK'
    <3>1. PICK S, T : S = Stages /\ T = Stages'
      OBVIOUS
    <3>2. /\ T[0] = S[0] /\ T[1] = S[1] /\ T[2] \subseteq S[2] \cup {r} /\ T[3] \subseteq S[3]
          /\ T[4] = S[4] /\ T[5] = S[5] /\ r \in S[3] /\ \A a \in T[3] : r \notin R[a]
      <4>1. InBatch(bq_page)' = InBatch(bq_page)
        BY <1>1, <2>13, <2>15 DEF InBatch
      <4>2. InBatch(1 - bq_page)' \subseteq InBatch(1 - bq_page) \cup {r}
        <5>1. ASSUME NEW x \in Requests, NEW k \in OpTypes, x \in ToSet(batch_queue'[page][k])
              PROVE  x \in ToSet(batch_queue[page][k]) \cup {r}
          BY <2>13, <2>14, <2>15, <2>16, <5>1
        <5>2. 1 - bq_page' = page
          BY <1>1, <1>5
        <5>3. QED
          BY <1>5, <5>1, <5>2 DEF InBatch
      <4>3. ToSet(local_list)' = ToSet(local_list) /\ ToSet(barrier_queue)' = ToSet(barrier_queue)
        BY <1>1
      <4>4. QED
        BY <1>2, <2>5, <2>12, <2>20, <3>1, <4>1, <4>2, <4>3, StagesAre
    <3>3. \A j \in 0..5 : j = 0 \/ j = 1 \/ j = 2 \/ j = 3 \/ j = 4 \/ j = 5
      OBVIOUS
    <3>4. \A j \in 0..5 : j # 2 => T[j] \subseteq S[j]
      BY <3>2, <3>3
    <3>5. Staged(S, R)
      BY <2>5, <3>1 DEF StageOK
    <3>6. 2 \in 0..4 /\ 2 + 1 = 3
      OBVIOUS
    <3>7. Staged(T, R)
      BY <3>2, <3>4, <3>5, <3>6, StagedMove
    <3>8. QED
      BY <2>5, <2>11, <3>1, <3>7 DEF StageOK
  <2>22. QED
    BY <2>10, <2>18, <2>19, <2>21 DEF InOrderKept
<1>6. QED
  BY <1>4, <1>5 DEF fill_batch_queues, dlVars


\* dispatch takes the head of a queue of the page, or the tail of the elevator's
\* asynchronous one.
TakenAt(c, bqs, page) ==
  \/ batch_queue' = bqs /\ UNCHANGED rq
  \/ \E o \in OpTypes, back \in BOOLEAN :
       Pops(c, bqs, page, o, back) /\ (back => bq_batch_order[page] = 1 /\ o = 1)

\* The queues, of which the asynchronous ones of the elevator may be sorted.
Resorted(bqs) ==
  /\ bqs \in [Bit -> [OpTypes -> Seq(Requests)]]
  /\ \A p \in Bit, o \in OpTypes :
       \/ bqs[p][o] = batch_queue[p][o]
       \/ /\ o = 1 /\ bq_batch_order[p] = 1
          /\ bqs[p][o] \in SortedByPos(batch_queue[p][o])

\* Where pop_bq_request pops.
LEMMA PopsAt ==
  ASSUME QInv, NEW c, NEW hasRq, NEW bqs, NEW flags,
         \A p \in Bit : \A o \in OpTypes : o \in bq_state[p] <=> bqs[p][o] # <<>>,
         pop_bq_request(c, hasRq, bqs, flags)
  PROVE  \E page \in Bit : /\ page = FlippedPage(hasRq, flags) /\ bq_page' = page
                           /\ TakenAt(c, bqs, page)
<1> DEFINE page == FlippedPage(hasRq, flags)
           dir  == IF page = bq_page THEN elv_direction
                   ELSE ElvDirection(bq_batch_order[page], bqs[page][1])
           idx  == Min(bq_state[page])
           back == bq_batch_order[page] = 1 /\ idx = 1 /\ dir = 1
<1>1. page \in Bit
  BY DEF FlippedPage, QInv, IInv, PageOK, Bit
<1>2. bq_page' = page
  BY DEF pop_bq_request
<1> HIDE DEF page, dir
<1>3. CASE bq_state[page] = {}
  <2>1. batch_queue' = bqs /\ UNCHANGED rq
    BY <1>3 DEF pop_bq_request, page
  <2>2. TakenAt(c, bqs, page)
    BY <2>1 DEF TakenAt
  <2>3. QED
    BY <1>1, <1>2, <2>2 DEF page
<1>4. CASE bq_state[page] # {}
  <2>1. idx \in OpTypes /\ idx \in bq_state[page]
    <3>1. bq_state[page] \subseteq OpTypes
      BY <1>1 DEF QInv, IInv, PageOK
    <3>2. bq_state[page] \subseteq Nat
      BY <3>1 DEF OpTypes
    <3>3. idx \in bq_state[page]
      BY <1>4, <3>2, MinType
    <3>4. QED
      BY <3>1, <3>3
  <2>2. bqs[page][idx] # <<>>
    BY <1>1, <2>1
  <2>3. /\ found(c, IF back THEN Last(bqs[page][idx]) ELSE Head(bqs[page][idx]))
        /\ batch_queue' = [bqs EXCEPT ![page][idx] = IF back THEN Front(bqs[page][idx])
                                                     ELSE Tail(bqs[page][idx])]
    BY <1>4 DEF pop_bq_request, page, dir
  <2>4. back \in BOOLEAN /\ (back => bq_batch_order[page] = 1 /\ idx = 1)
    OBVIOUS
  <2> HIDE DEF idx, back
  <2>5. Pops(c, bqs, page, idx, back)
    BY <2>2, <2>3 DEF Pops
  <2>6. TakenAt(c, bqs, page)
    BY <2>1, <2>4, <2>5 DEF TakenAt
  <2>7. QED
    BY <1>1, <1>2, <2>6 DEF page
<1>5. QED
  BY <1>3, <1>4

\* The page that dispatch leaves for the other one is empty.
LEMMA PopFront ==
  ASSUME QInv, HasRqOK, NEW c \in CPUs,
         (dispatch_from_bq(c) /\ ~MustRefill) \/ fill_batch_queues_done(c)
  PROVE  \E bqs : \E page \in Bit :
           /\ bq_page' = page /\ Resorted(bqs) /\ TakenAt(c, bqs, page)
           /\ page # bq_page => page = 1 - bq_page
                                /\ \A o \in OpTypes : batch_queue[bq_page][o] = <<>>
<1>1. /\ batch_queue \in [Bit -> [OpTypes -> Seq(Requests)]] /\ bq_page \in Bit
      /\ 1 - bq_page \in Bit /\ 1 \in OpTypes /\ 1 - bq_page # bq_page
      /\ \A p \in Bit : \A o \in OpTypes : o \in bq_state[p] <=> batch_queue[p][o] # <<>>
  BY DEF QInv, IInv, PageOK, Bit, OpTypes
<1>2. ASSUME bq_page \notin bq_flags
      PROVE  \A o \in OpTypes : batch_queue[bq_page][o] = <<>>
  <2>1. ~Filling(bq_page)
    BY <1>1 DEF Filling
  <2>2. bq_state[bq_page] = {}
    BY <1>1, <1>2, <2>1 DEF QInv, IInv, PageOK
  <2>3. QED
    BY <1>1, <2>2
<1>3. ASSUME NEW hasRq, NEW flags, NEW page, page = FlippedPage(hasRq, flags), page # bq_page
      PROVE  ~hasRq /\ page = 1 - bq_page
  BY <1>3 DEF FlippedPage
<1>4. CASE dispatch_from_bq(c) /\ ~MustRefill
  <2>1. pop_bq_request(c, bq_page \in bq_flags, batch_queue, bq_flags)
    BY <1>4 DEF dispatch_from_bq
  <2>2. PICK page \in Bit : /\ page = FlippedPage(bq_page \in bq_flags, bq_flags)
                            /\ bq_page' = page /\ TakenAt(c, batch_queue, page)
    BY <1>1, <2>1, PopsAt
  <2>3. Resorted(batch_queue)
    BY <1>1 DEF Resorted
  <2>4. page # bq_page => bq_page \notin bq_flags /\ page = 1 - bq_page
    BY <2>2 DEF FlippedPage
  <2>5. QED
    BY <1>2, <2>2, <2>3, <2>4
<1>5. CASE fill_batch_queues_done(c)
  <2> DEFINE page  == 1 - bq_page
             q     == batch_queue[page][1]
             flags == IF fill.count > 0 THEN bq_flags \cup {page} ELSE bq_flags
  <2>1. PICK sorted \in IF bq_batch_order[page] = 1 /\ batch_count[page][1] > 1
                        THEN SortedByPos(q) ELSE {q} :
          pop_bq_request(c, fill.curHasRq, [batch_queue EXCEPT ![page][1] = sorted], flags)
    BY <1>5 DEF fill_batch_queues_done
  <2>2. PICK bqs : bqs = [batch_queue EXCEPT ![page][1] = sorted]
    OBVIOUS
  <2>3. sorted = q \/ (bq_batch_order[page] = 1 /\ sorted \in SortedByPos(q))
    BY <2>1
  <2>4. q \in Seq(Requests)
    BY <1>1
  <2>5. sorted \in Seq(Requests) /\ (sorted = <<>> <=> q = <<>>)
    <3> HIDE DEF q
    <3>1. QED
      BY <2>3, <2>4, SortedType
  <2>6. bqs \in [Bit -> [OpTypes -> Seq(Requests)]] /\ bqs[page][1] = sorted
        /\ \A p \in Bit, o \in OpTypes : p # page \/ o # 1 => bqs[p][o] = batch_queue[p][o]
    BY <1>1, <2>2, <2>5
  <2>7. Resorted(bqs)
    BY <2>3, <2>6 DEF Resorted
  <2>8. ASSUME NEW p \in Bit, NEW o \in OpTypes PROVE o \in bq_state[p] <=> bqs[p][o] # <<>>
    <3>1. o \in bq_state[p] <=> batch_queue[p][o] # <<>>
      BY <1>1
    <3>2. p = page /\ o = 1 => bqs[p][o] = sorted /\ batch_queue[p][o] = q
      BY <2>6
    <3>3. ~(p = page /\ o = 1) => bqs[p][o] = batch_queue[p][o]
      BY <2>6
    <3> HIDE DEF q, page
    <3>4. QED
      BY <2>5, <3>1, <3>2, <3>3
  <2>9. pop_bq_request(c, fill.curHasRq, bqs, flags)
    BY <2>1, <2>2
  <2> HIDE DEF flags
  <2>10. PICK at \in Bit : at = FlippedPage(fill.curHasRq, flags) /\ bq_page' = at
                           /\ TakenAt(c, bqs, at)
    BY <2>8, <2>9, PopsAt
  <2>11. fill.curHasRq <=> bq_page \in bq_flags
    <3>1. bq_lock = c /\ c # NoOne
      BY <1>5, ConstantsAssumption DEF fill_batch_queues_done, QInv, IInv, CtlOK
    <3>2. QED
      BY <3>1 DEF HasRqOK
  <2>12. at # bq_page => bq_page \notin bq_flags /\ at = 1 - bq_page
    BY <2>10, <2>11 DEF FlippedPage
  <2>13. QED
    BY <1>2, <2>7, <2>10, <2>12
<1>6. QED
  BY <1>4, <1>5


\* A request of the first stages that is not empty goes, and the stage of the
\* others comes next.
LEMMA StagedTake ==
  ASSUME NEW S, NEW T, NEW R, Staged(S, R), NEW k \in 1..2, NEW x,
         k = 2 => S[1] = {},
         T[0] \subseteq S[0] \/ (T[0] \subseteq S[0] \cup {x} /\ x \in S[k]),
         T[1] \subseteq S[k], k = 1 => T[2] \subseteq S[2], k = 2 => T[2] \subseteq S[1],
         \A i \in 3..5 : T[i] \subseteq S[i],
         \A a \in T[1] : x \notin R[a]
  PROVE  Staged(T, R)
<1> SUFFICES ASSUME NEW i \in 0..5, NEW j \in 0..5, j < i, NEW a \in T[i], NEW b \in T[j]
             PROVE  b \notin R[a]
  BY DEF Staged, Apart
<1> DEFINE At(n) == IF n = 1 THEN k ELSE n
<1>1. k = 1 \/ k = 2
  OBVIOUS
<1>2. ASSUME NEW n \in 1..5, NEW y \in T[n] PROVE y \in S[At(n)] /\ (k = 2 => n # 2)
  <2>1. n = 1 \/ n = 2 \/ n \in 3..5
    OBVIOUS
  <2>2. QED
    BY <1>1, <1>2, <2>1
<1>3. \A n \in 1..5 : At(n) \in 1..5 /\ At(n) \in 0..5 /\ At(n) > 0
  BY <1>1
<1>4. i \in 1..5
  OBVIOUS
<1>5. a \in S[At(i)] /\ (k = 2 => i # 2)
  BY <1>2, <1>4
<1>6. CASE j = 0
  <2>1. CASE b \in S[0]
    <3>1. 0 \in 0..5 /\ At(i) \in 0..5 /\ 0 < At(i)
      BY <1>3, <1>4
    <3> HIDE DEF At
    <3>2. QED
      BY <1>5, <2>1, <3>1 DEF Staged, Apart
  <2>2. CASE b \notin S[0]
    <3>1. b = x /\ x \in S[k]
      BY <1>6, <2>2
    <3>2. CASE i = 1
      BY <3>1, <3>2
    <3>3. CASE i # 1
      <4>1. k < At(i) /\ At(i) \in 0..5 /\ k \in 0..5
        BY <1>1, <1>4, <1>5, <3>3
      <4> HIDE DEF At
      <4>2. QED
        BY <1>5, <3>1, <4>1 DEF Staged, Apart
    <3>4. QED
      BY <3>2, <3>3
  <2>3. QED
    BY <2>1, <2>2
<1>7. CASE j # 0
  <2>1. j \in 1..5
    BY <1>7
  <2>2. b \in S[At(j)] /\ (k = 2 => j # 2)
    BY <1>2, <2>1
  <2>3. At(j) < At(i) /\ At(j) \in 0..5 /\ At(i) \in 0..5
    BY <1>1, <1>4, <1>5, <2>1, <2>2
  <2> HIDE DEF At
  <2>4. QED
    BY <1>5, <2>2, <2>3 DEF Staged, Apart
<1>8. QED
  BY <1>6, <1>7

\* The same when the stage is the second, and the first one is empty.
LEMMA StagedTakeSecond ==
  ASSUME NEW S, NEW T, NEW R, Staged(S, R), NEW x, S[1] = {},
         T[0] \subseteq S[0] \/ (T[0] \subseteq S[0] \cup {x} /\ x \in S[2]),
         T[1] \subseteq S[2], T[2] \subseteq S[1],
         \A i \in 3..5 : T[i] \subseteq S[i],
         \A a \in T[1] : x \notin R[a]
  PROVE  Staged(T, R)
<1>1. PICK k : k = 2
  OBVIOUS
<1>2. k \in 1..2 /\ k # 1 /\ S[k] = S[2]
  BY <1>1
<1>3. T[0] \subseteq S[0] \/ (T[0] \subseteq S[0] \cup {x} /\ x \in S[k])
  BY <1>2
<1>4. T[1] \subseteq S[k] /\ (k = 1 => T[2] \subseteq S[2]) /\ (k = 2 => T[2] \subseteq S[1])
      /\ (k = 2 => S[1] = {})
  BY <1>2
<1>5. QED
  BY ONLY <1>2, <1>3, <1>4, StagedTake, Staged(S, R), \A i \in 3..5 : T[i] \subseteq S[i],
          \A a \in T[1] : x \notin R[a]

\* The stages when a request x, or none, is taken from the page.
LEMMA PopStages ==
  ASSUME QInv, StageOK, NEW page \in Bit, bq_page' = page,
         page # bq_page => page = 1 - bq_page
                           /\ \A o \in OpTypes : batch_queue[bq_page][o] = <<>>,
         UNCHANGED <<dl_tree, local_list, barrier_queue>>, After' = After,
         \A p \in Bit, o \in OpTypes : ToSet(batch_queue'[p][o]) \subseteq ToSet(batch_queue[p][o]),
         NEW x, Gone' \subseteq Gone \/ (Gone' \subseteq Gone \cup {x} /\ x \in InBatch(page)),
         \A a \in InBatch(page)' : x \notin After[a]
  PROVE  StageOK'
<1>1. PICK S, T, R : S = Stages /\ T = Stages' /\ R = After
  OBVIOUS
<1>2. Staged(S, R)
  BY <1>1 DEF StageOK
<1>3. bq_page \in Bit /\ 1 - bq_page \in Bit /\ \A p \in Bit : 1 - (1 - p) = p
  BY DEF QInv, IInv, PageOK, Bit
<1>4. \A p \in Bit : InBatch(p)' \subseteq InBatch(p)
  BY DEF InBatch
<1>5. /\ T[3] = S[3] /\ T[4] = S[4] /\ T[5] = S[5] /\ T[0] = Gone' /\ S[0] = Gone
  <2>1. InTrees' = InTrees
    BY DEF InTrees
  <2>2. ToSet(local_list)' = ToSet(local_list) /\ ToSet(barrier_queue)' = ToSet(barrier_queue)
    OBVIOUS
  <2>3. QED
    BY <1>1, <2>1, <2>2, StagesAre
<1>6. /\ S[1] = InBatch(bq_page) /\ S[2] = InBatch(1 - bq_page)
      /\ T[1] = InBatch(page)' /\ T[2] = InBatch(1 - page)'
  <2>1. InBatch(bq_page)' = InBatch(page)' /\ InBatch(1 - bq_page)' = InBatch(1 - page)'
    BY DEF InBatch
  <2>2. QED
    BY <1>1, <2>1, StagesAre
<1>7. \A i \in 3..5 : T[i] \subseteq S[i]
  <2>1. \A i \in 3..5 : i = 3 \/ i = 4 \/ i = 5
    OBVIOUS
  <2>2. QED
    BY <1>5, <2>1
<1>8. \A a \in T[1] : x \notin R[a]
  BY <1>1, <1>6
<1>9. CASE page = bq_page
  <2>1. /\ T[1] \subseteq S[1] /\ T[2] \subseteq S[2]
        /\ T[0] \subseteq S[0] \/ (T[0] \subseteq S[0] \cup {x} /\ x \in S[1])
    BY <1>3, <1>4, <1>5, <1>6, <1>9
  <2>2. 1 \in 1..2 /\ 1 # 2
    OBVIOUS
  <2>3. Staged(T, R)
    BY <1>2, <1>7, <1>8, <2>1, <2>2, StagedTake
  <2>4. QED
    BY <1>1, <2>3 DEF StageOK
<1>10. CASE page # bq_page
  <2>1. InBatch(bq_page) = {}
    <3>1. ASSUME NEW o \in OpTypes PROVE ToSet(batch_queue[bq_page][o]) = {}
      BY <1>10 DEF ToSet
    <3>2. QED
      BY <3>1 DEF InBatch
  <2>2. /\ S[1] = {} /\ T[1] \subseteq S[2] /\ T[2] \subseteq S[1]
        /\ T[0] \subseteq S[0] \/ (T[0] \subseteq S[0] \cup {x} /\ x \in S[2])
    BY <1>3, <1>4, <1>5, <1>6, <1>10, <2>1
  <2>3. Staged(T, R)
    BY ONLY <1>2, <1>7, <1>8, <2>2, StagedTakeSecond
  <2>4. QED
    BY <1>1, <2>3 DEF StageOK
<1>11. QED
  BY <1>9, <1>10


\* Sorting the asynchronous queues of the elevator leaves the synchronous
\* requests where they are.
LEMMA ResortedPages ==
  ASSUME QInv, PagesOK, NEW bqs, Resorted(bqs), NEW p \in Bit, NEW o \in OpTypes
  PROVE  /\ bqs[p][o] \in Seq(Requests) /\ IsInjective(bqs[p][o])
         /\ ToSet(bqs[p][o]) = ToSet(batch_queue[p][o])
         /\ Respects(bqs[p][o], After)
         /\ \A r \in ToSet(bqs[p][o]) : Sync(r) => o = SyncIdx(bq_batch_order[p], rq[r].kind)
         /\ o = 1 /\ bq_batch_order[p] = 1 => \A r \in ToSet(bqs[p][o]) : ~Sync(r)
<1>1. PICK s \in Seq(Requests) : s = bqs[p][o]
  BY DEF Resorted
<1>2. PICK q \in Seq(Requests) : q = batch_queue[p][o] /\ IsInjective(q)
  BY InPage
<1>3. /\ Respects(q, After)
      /\ \A r \in ToSet(q) : Sync(r) => o = SyncIdx(bq_batch_order[p], rq[r].kind)
  BY <1>2 DEF PagesOK
<1>4. o = 1 /\ bq_batch_order[p] = 1 => \A r \in ToSet(q) : ~Sync(r)
  BY <1>3 DEF SyncIdx
<1>5. CASE s = q
  BY <1>1, <1>2, <1>3, <1>4, <1>5
<1>6. CASE o = 1 /\ bq_batch_order[p] = 1 /\ s \in SortedByPos(q)
  <2>1. IsInjective(s) /\ ToSet(s) = ToSet(q)
    BY <1>2, <1>6, SortedDistinct DEF QInv, IInv
  <2>2. \A r \in ToSet(s) : ~Sync(r) /\ r \in Requests
    BY <1>4, <1>6, <2>1, ToSetType
  <2>3. \A i \in DOMAIN s : s[i] \in ToSet(s)
    BY DEF ToSet
  <2>4. Respects(s, After)
    BY <2>2, <2>3 DEF Respects, After, Precedes
  <2>5. QED
    BY <1>1, <1>2, <2>1, <2>2, <2>4
<1>7. QED
  BY <1>1, <1>2, <1>5, <1>6 DEF Resorted

\* A request x, or none, is taken from the page.
LEMMA TakenSync ==
  ASSUME QInv, PagesOK, NEW c, NEW bqs, Resorted(bqs), NEW page \in Bit,
         TakenAt(c, bqs, page), \A q \in Requests : KindKept(q), UNCHANGED bq_batch_order
  PROVE  /\ PagesOK'
         /\ \A p \in Bit, o \in OpTypes : ToSet(batch_queue'[p][o]) \subseteq ToSet(batch_queue[p][o])
         /\ \E x : /\ \/ Gone' \subseteq Gone
                      \/ Gone' \subseteq Gone \cup {x} /\ x \in InBatch(page)
                   /\ \A a \in InBatch(page)' : x \notin After[a]
<1>1. After' = After /\ \A q \in Requests : Sync(q)' <=> Sync(q)
  BY AfterKept
<1>2. ASSUME \A p \in Bit, o \in OpTypes :
               /\ Respects(batch_queue'[p][o], After)
               /\ ToSet(batch_queue'[p][o]) \subseteq ToSet(batch_queue[p][o])
      PROVE  PagesOK'
  <2>1. ASSUME NEW p \in Bit, NEW o \in OpTypes
        PROVE  /\ Respects(batch_queue'[p][o], After')
               /\ \A r \in ToSet(batch_queue'[p][o]) :
                    Sync(r)' => o = SyncIdx(bq_batch_order'[p], rq'[r].kind)
    <3>1. Respects(batch_queue'[p][o], After')
      BY <1>1, <1>2
    <3>2. ASSUME NEW r \in ToSet(batch_queue'[p][o]), Sync(r)'
          PROVE  o = SyncIdx(bq_batch_order'[p], rq'[r].kind)
      <4>1. r \in ToSet(batch_queue[p][o]) /\ r \in Requests
        BY <1>2, InPage DEF Queued
      <4>2. Sync(r) /\ rq'[r].kind = rq[r].kind
        BY <1>1, <3>2, <4>1 DEF KindKept
      <4>3. o = SyncIdx(bq_batch_order[p], rq[r].kind)
        BY <4>1, <4>2 DEF PagesOK
      <4>4. QED
        BY <4>2, <4>3
    <3>3. QED
      BY <3>1, <3>2
  <2>2. QED
    BY <2>1 DEF PagesOK
<1>3. CASE batch_queue' = bqs /\ UNCHANGED rq
  <2>1. \A p \in Bit, o \in OpTypes :
          /\ Respects(batch_queue'[p][o], After)
          /\ ToSet(batch_queue'[p][o]) \subseteq ToSet(batch_queue[p][o])
    BY <1>3, ResortedPages
  <2>2. Gone' \subseteq Gone
    BY <1>3 DEF Gone, Left
  <2>3. \A a \in InBatch(page)' : 0 \notin After[a]
    BY DEF InBatch, After, Requests
  <2>4. QED
    BY <1>2, <2>1, <2>2, <2>3
<1>4. ASSUME NEW o \in OpTypes, NEW back \in BOOLEAN, Pops(c, bqs, page, o, back),
             back => bq_batch_order[page] = 1 /\ o = 1
      PROVE  /\ PagesOK'
             /\ \A p \in Bit, k \in OpTypes :
                  ToSet(batch_queue'[p][k]) \subseteq ToSet(batch_queue[p][k])
             /\ \E x : /\ Gone' \subseteq Gone \cup {x} /\ x \in InBatch(page)
                       /\ \A a \in InBatch(page)' : x \notin After[a]
  <2>1. PICK q, R : q = bqs[page][o] /\ R = After
    OBVIOUS
  <2>2. /\ q \in Seq(Requests) /\ IsInjective(q) /\ ToSet(q) = ToSet(batch_queue[page][o])
        /\ Respects(q, R) /\ q # <<>>
        /\ \A r \in ToSet(q) : Sync(r) => o = SyncIdx(bq_batch_order[page], rq[r].kind)
        /\ o = 1 /\ bq_batch_order[page] = 1 => \A r \in ToSet(q) : ~Sync(r)
    BY <1>4, <2>1, ResortedPages DEF Pops
  <2>3. PICK x, t : x = (IF back THEN Last(q) ELSE Head(q))
                    /\ t = (IF back THEN Front(q) ELSE Tail(q))
    OBVIOUS
  <2>4. /\ t \in Seq(Requests) /\ IsInjective(t) /\ ToSet(t) = ToSet(q) \ {x} /\ x \in ToSet(q)
        /\ Respects(t, R)
        /\ ~back => \A a \in ToSet(t) : x \notin R[a]
    <3>1. CASE back
      BY <2>2, <2>3, <3>1, FrontDistinct, RespectsTail
    <3>2. CASE ~back
      BY <2>2, <2>3, <3>2, TailDistinct, RespectsTail
    <3>3. QED
      BY <3>1, <3>2
  <2>5. found(c, x) /\ batch_queue' = [bqs EXCEPT ![page][o] = t]
    BY <1>4, <2>1, <2>3 DEF Pops
  <2>6. /\ batch_queue'[page][o] = t
        /\ \A p \in Bit, k \in OpTypes : p # page \/ k # o => batch_queue'[p][k] = bqs[p][k]
    <3>1. bqs \in [Bit -> [OpTypes -> Seq(Requests)]]
      BY DEF Resorted
    <3>2. QED
      BY <2>5, <3>1
  <2>7. ASSUME NEW p \in Bit, NEW k \in OpTypes
        PROVE  /\ Respects(batch_queue'[p][k], After)
               /\ ToSet(batch_queue'[p][k]) \subseteq ToSet(batch_queue[p][k])
    <3>1. CASE p = page /\ k = o
      BY <2>1, <2>2, <2>4, <2>6, <3>1
    <3>2. CASE p # page \/ k # o
      BY <2>6, <3>2, ResortedPages
    <3>3. QED
      BY <3>1, <3>2
  <2>8. PagesOK'
    BY <1>2, <2>7
  <2>9. x \in Requests /\ x \in InBatch(page)
    BY <2>2, <2>4, ToSetType DEF InBatch
  <2>10. Gone' \subseteq Gone \cup {x}
    BY <2>5, <2>9 DEF found, Gone, Left, QInv, IInv, RqOK, RqType
  <2>11. ASSUME NEW a \in InBatch(page)', x \in After[a] PROVE FALSE
    <3>1. PICK k \in OpTypes : a \in ToSet(batch_queue'[page][k])
      BY DEF InBatch
    <3>2. a \in Requests /\ a \in ToSet(batch_queue[page][k])
      BY <2>7, <3>1, InPage DEF Queued
    <3>3. Sync(a) /\ Sync(x) /\ OpType(rq[a].kind) = OpType(rq[x].kind)
      BY <2>11, <3>2 DEF After, Precedes
    <3>4. k = SyncIdx(bq_batch_order[page], rq[a].kind)
      BY <3>2, <3>3 DEF PagesOK
    <3>5. o = SyncIdx(bq_batch_order[page], rq[x].kind)
      BY <2>2, <2>4, <3>3
    <3>6. k = o
      BY <3>3, <3>4, <3>5 DEF SyncIdx
    <3>7. ~back
      BY <1>4, <2>2, <2>4, <3>3
    <3>8. x \notin R[a]
      BY <2>4, <2>6, <3>1, <3>6, <3>7
    <3>9. QED
      BY <2>1, <2>11, <3>8
  <2>12. QED
    BY <2>7, <2>8, <2>9, <2>10, <2>11
<1>5. CASE \E o \in OpTypes, back \in BOOLEAN :
             Pops(c, bqs, page, o, back) /\ (back => bq_batch_order[page] = 1 /\ o = 1)
  <2>1. PICK o \in OpTypes, back \in BOOLEAN :
          Pops(c, bqs, page, o, back) /\ (back => bq_batch_order[page] = 1 /\ o = 1)
    BY <1>5
  <2>2. QED
    BY <1>4, <2>1
<1>6. QED
  BY <1>3, <1>5 DEF TakenAt

\* dispatch_from_bq, and the end of a fill, pop what comes first.
LEMMA PopSync ==
  ASSUME QInv, StageOK, TreesOK, PagesOK, WaitOK, HasRqOK, NEW c \in CPUs,
         (dispatch_from_bq(c) /\ ~MustRefill) \/ fill_batch_queues_done(c)
  PROVE  InOrderKept
<1>1. UNCHANGED <<dl_tree, local_list, barrier_queue, bq_batch_order, prio_queue>>
  <2>1. UNCHANGED <<bq_batch_order, prio_queue>>
    BY PopLeaves DEF batchVars
  <2>2. QED
    BY <2>1 DEF dispatch_from_bq, fill_batch_queues_done, dlVars, barVars
<1>2. PICK bqs : \E page \in Bit :
           /\ bq_page' = page /\ Resorted(bqs) /\ TakenAt(c, bqs, page)
           /\ page # bq_page => page = 1 - bq_page
                                /\ \A o \in OpTypes : batch_queue[bq_page][o] = <<>>
  BY PopFront
<1>3. PICK page \in Bit :
           /\ bq_page' = page /\ Resorted(bqs) /\ TakenAt(c, bqs, page)
           /\ page # bq_page => page = 1 - bq_page
                                /\ \A o \in OpTypes : batch_queue[bq_page][o] = <<>>
  BY <1>2
<1>4. \A q \in Requests : KindKept(q)
  BY StepKinds DEF Step, Dispatch
<1>5. \A q \in Requests : rq'[q].deadline = rq[q].deadline
  BY <1>3, FoundDeadlines DEF TakenAt, Pops, QInv, IInv
<1>6. TreesOK'
  <2>1. 0 \notin InTrees
    BY StagesHold DEF Queued, Requests
  <2>2. DeadlinesKept(0)
    BY <1>4, <1>5 DEF DeadlinesKept
  <2>3. QED
    BY <1>1, <2>1, <2>2, TreesKept
<1>7. WaitOK'
  <2>1. Respects(local_list', After)
    BY <1>1 DEF WaitOK
  <2>2. QED
    BY <1>1, <1>4, <2>1, WaitKept
<1>8. /\ PagesOK'
      /\ \A p \in Bit, o \in OpTypes : ToSet(batch_queue'[p][o]) \subseteq ToSet(batch_queue[p][o])
      /\ \E x : /\ \/ Gone' \subseteq Gone
                   \/ Gone' \subseteq Gone \cup {x} /\ x \in InBatch(page)
                /\ \A a \in InBatch(page)' : x \notin After[a]
  BY <1>1, <1>3, <1>4, TakenSync
<1>9. PICK x : /\ \/ Gone' \subseteq Gone
                  \/ Gone' \subseteq Gone \cup {x} /\ x \in InBatch(page)
               /\ \A a \in InBatch(page)' : x \notin After[a]
  BY <1>8
<1>10. After' = After
  BY <1>4, AfterKept
<1>11. StageOK'
  BY <1>1, <1>3, <1>8, <1>9, <1>10, PopStages
<1>12. QED
  BY <1>6, <1>7, <1>8, <1>11 DEF InOrderKept


\* A fill learns of the current page at its beginning, and the page stays as it is.
LEMMA HasRqNext ==
  ASSUME QInv, HasRqOK, [Next]_vars
  PROVE  HasRqOK'
<1>1. CASE Quiet
  BY <1>1 DEF Quiet, pageVars, batchVars, HasRqOK
<1>2. ASSUME NEW c \in CPUs, dispatch_from_bq(c), MustRefill PROVE HasRqOK'
  <2>1. fill'.curHasRq = (bq_page \in bq_flags) /\ UNCHANGED <<bq_page, bq_flags>>
    BY <1>2 DEF dispatch_from_bq, pageVars
  <2>2. QED
    BY <2>1 DEF HasRqOK
<1>3. ASSUME NEW c \in CPUs, fill_batch_queues(c) PROVE HasRqOK'
  <2>1. fill \in [tpl : Int, added : Nat, count : Nat, dels : Nat, curHasRq : BOOLEAN]
    BY DEF QInv, IInv, FillOK
  <2>2. fill'.curHasRq = fill.curHasRq /\ UNCHANGED <<bq_page, bq_flags, bq_lock>>
    BY <1>3, <2>1 DEF fill_batch_queues
  <2>3. QED
    BY <2>2 DEF HasRqOK
<1>4. ASSUME NEW c \in CPUs, (dispatch_from_bq(c) /\ ~MustRefill) \/ fill_batch_queues_done(c)
      PROVE  HasRqOK'
  <2>1. bq_lock' = NoOne
    BY <1>4, PopLeaves
  <2>2. QED
    BY <2>1 DEF HasRqOK
<1>5. QED
  BY <1>1, <1>2, <1>3, <1>4, QuietOrPage DEF PageStep

\* The steps that move no request that waits, when no bio merges.
LEMMA OtherSync ==
  ASSUME QInv, StageOK, TreesOK, PagesOK, WaitOK, ~BioMerges, ~bio, Step,
         \A c \in CPUs : /\ ~dispatch_from_pq(c) /\ ~PageStep(c)
                         /\ ~release_barrier_requests(c) /\ ~release_local_list(c)
  PROVE  InOrderKept
<1>1. \A q \in Requests : KindKept(q) /\ Settles(q)
  BY StepKinds, StepStatus
<1>2. UNCHANGED <<dl_tree, prio_queue, batch_queue, bq_page, bq_batch_order, local_list,
                  barrier_queue>>
  <2>1. ASSUME NEW c \in CPUs, Dispatch(c)
        PROVE  UNCHANGED <<dl_tree, prio_queue, batch_queue, bq_page, bq_batch_order,
                           local_list, barrier_queue>>
    BY <2>1 DEF Dispatch, PageStep, call_dispatch, check_barrier, prioVars, dlVars, pageVars,
                batchVars, barVars
  <2>2. QED
    BY <2>1 DEF Step, bio_merge_check, adios_bio_merge, adios_bio_merge_oops,
                adios_completed_request,
                latency_model_update, adios_batch_order_store, vars, prioVars, dlVars,
                pageVars, batchVars, barVars, ctlVars
<1>3. \A q \in Requests : rq'[q].deadline = rq[q].deadline
  <2>1. ASSUME NEW r \in Requests, adios_completed_request(r)
        PROVE  \A q \in Requests : rq'[q].deadline = rq[q].deadline
    BY <2>1 DEF adios_completed_request, QInv, IInv, RqOK, RqType
  <2>2. ASSUME NEW c \in CPUs, Dispatch(c) PROVE UNCHANGED rq
    BY <2>2 DEF Dispatch, PageStep, call_dispatch, check_barrier
  <2>3. QED
    BY <2>1, <2>2 DEF Step, bio_merge_check, adios_bio_merge, adios_bio_merge_oops,
                      latency_model_update,
                      adios_batch_order_store, vars
<1>4. Gone' \subseteq Gone \cup {0}
  BY <1>1, GoneKept DEF Gone
<1>5. 0 \notin Requests /\ 0 \notin Queued
  BY DEF Requests, Queued
<1>6. PagesOK'
  BY <1>1, <1>2, <1>5, PagesKept
<1>7. \A i \in Bit : ToSet(prio_queue'[i]) \subseteq ToSet(prio_queue[i])
  BY <1>2
<1>8. QED
  BY <1>1, <1>2, <1>3, <1>4, <1>5, <1>6, <1>7, ListsSync

---------------------------------------------------------------------------
(* Synchronous requests are dispatched in order.                           *)

\* SInv holds of a new scheduler.
LEMMA InitSInv ==
  ASSUME NEW stable \in BOOLEAN, NEW bases \in [OpTypes -> Nat], InitWith(stable, bases)
  PROVE  SInv
<1>1. HInv
  BY InitHInv
<1>2. \A r \in Requests : rq[r].status = "new" /\ ~rq[r].gated
  BY DEF InitWith
<1>3. /\ \A i \in Bit : dl_tree[i] = <<>> /\ prio_queue[i] = <<>>
      /\ \A p \in Bit, o \in OpTypes : batch_queue[p][o] = <<>>
      /\ barrier_queue = <<>> /\ local_list = <<>> /\ bq_lock = NoOne /\ ~bio
  BY DEF InitWith
<1>4. ToSet(<<>>) = {} /\ \A R : Respects(<<>>, R)
  BY DEF ToSet, Respects
<1>5. TreesOK
  BY <1>3, <1>4 DEF TreesOK
<1>6. PagesOK
  BY <1>3, <1>4 DEF PagesOK
<1>7. WaitOK
  BY <1>3, <1>4 DEF WaitOK
<1>8. StageOK
  <2>1. \A a, b \in Requests : b \notin After[a]
    BY <1>2 DEF After, Precedes, Sync, Gated
  <2>2. \A i \in 0..5 : Stages[i] \subseteq Requests
    BY <1>1, StagesHold DEF HInv
  <2>3. PICK S, R : S = Stages /\ R = After
    OBVIOUS
  <2>4. Staged(S, R)
    BY <2>1, <2>2, <2>3 DEF Staged, Apart
  <2>5. QED
    BY <2>3, <2>4 DEF StageOK
<1>9. HasRqOK
  BY <1>3 DEF HasRqOK
<1>10. QED
  BY <1>1, <1>3, <1>5, <1>6, <1>7, <1>8, <1>9 DEF SInv

\* Every step preserves it, when no bio merges.
LEMMA NextSInv ==
  ASSUME SInv, [Next]_vars, ~BioMerges
  PROVE  SInv'
<1>1. HInv /\ QInv /\ StageOK /\ TreesOK /\ PagesOK /\ WaitOK /\ HasRqOK /\ ~bio
  BY DEF SInv, HInv
<1>2. HInv' /\ HasRqOK'
  BY <1>1, NextHInv, HasRqNext
<1>3. ASSUME NEW k \in Kinds, adios_insert_requests(k) PROVE InOrderKept /\ ~bio'
  <2>1. PICK r \in Requests : r = inserted + 1
    BY <1>1, <1>3, ConstantsAssumption DEF adios_insert_requests, QInv, IInv, EnvOK, Requests
  <2>2. insert_request(r, k) /\ k \in KindType /\ inserted \in Nat
    BY <1>1, <1>3, <2>1, ConstantsAssumption DEF adios_insert_requests, QInv, IInv, EnvOK
  <2>3. \A q \in Queued : q <= inserted /\ q \in Int
    BY <1>1 DEF QInv, NewOK, Queued, Requests
  <2>4. r \notin Queued /\ r > inserted
    BY <2>1, <2>2, <2>3
  <2>5. UNCHANGED bio
    BY <2>2 DEF insert_request
  <2>6. QED
    BY <1>1, <2>2, <2>4, <2>5, InsertSync
<1>4. ASSUME NEW r \in Requests, Requeue(r) PROVE InOrderKept /\ ~bio'
  <2> DEFINE k == [rq[r].kind EXCEPT !.head = TRUE]
  <2>1. k \in KindType /\ k.head /\ insert_request(r, k) /\ r \notin Queued
    BY <1>1, <1>4 DEF Requeue, QInv, IInv, RqOK, RqType, KindType, Queued
  <2> HIDE DEF k
  <2>2. UNCHANGED bio
    BY <2>1 DEF insert_request
  <2>3. QED
    BY <1>1, <2>1, <2>2, InsertSync
<1>5. ASSUME Step PROVE InOrderKept
  <2>1. ASSUME NEW c \in CPUs, dispatch_from_pq(c) PROVE InOrderKept
    BY <1>1, <2>1, PqSync
  <2>2. ASSUME NEW c \in CPUs, PageStep(c) PROVE InOrderKept
    <3>1. CASE dispatch_from_bq(c) /\ MustRefill
      BY <1>1, <3>1, StartSync
    <3>2. CASE fill_batch_queues(c)
      BY <1>1, <3>2, FillSync
    <3>3. CASE (dispatch_from_bq(c) /\ ~MustRefill) \/ fill_batch_queues_done(c)
      BY <1>1, <3>3, PopSync
    <3>4. QED
      BY <2>2, <3>1, <3>2, <3>3 DEF PageStep
  <2>3. ASSUME NEW c \in CPUs, release_barrier_requests(c) PROVE InOrderKept
    BY <1>1, <2>3, ReleaseSync DEF HInv
  <2>4. ASSUME NEW c \in CPUs, release_local_list(c) PROVE InOrderKept
    BY <1>1, <2>4, LocalSync
  <2>5. CASE \A c \in CPUs : /\ ~dispatch_from_pq(c) /\ ~PageStep(c)
                              /\ ~release_barrier_requests(c) /\ ~release_local_list(c)
    BY <1>1, <1>5, <2>5, OtherSync
  <2>6. QED
    BY <2>1, <2>2, <2>3, <2>4, <2>5
<1>6. ASSUME Step PROVE ~bio'
  <2>1. ASSUME NEW c \in CPUs, Dispatch(c) PROVE UNCHANGED bio
    BY <2>1 DEF Dispatch, call_dispatch, dispatch_from_pq, dispatch_from_bq, fill_batch_queues,
                fill_batch_queues_done, check_barrier, release_barrier_requests,
                release_local_list, envVars
  <2>2. QED
    BY <1>1, <1>6, <2>1 DEF Step, bio_merge_check, adios_bio_merge, adios_bio_merge_oops,
                            adios_completed_request,
                            latency_model_update, adios_batch_order_store, vars, envVars
<1>7. \/ \E k \in Kinds : adios_insert_requests(k)
      \/ \E r \in Requests : Requeue(r)
      \/ Step
  BY DEF Next, Step
<1>8. InOrderKept /\ ~bio'
  BY <1>3, <1>4, <1>5, <1>6, <1>7
<1>9. QED
  BY <1>2, <1>8 DEF SInv, InOrderKept

\* When no bio is merged into a queued request, two synchronous requests of one
\* optype are dispatched in the order they were inserted in, if the deadline of
\* the first is not the later one: through the barrier queue and its release,
\* trees whose groups are merged, two pages and their flips, and the elevator's
\* order, which sorts asynchronous requests only.  A request that a bio is
\* merged into loses its place: it is put back at the tail of its group.
THEOREM SyncInOrder ==
  ~BioMerges => (Spec \/ WarmSpec => []SyncFifo)
<1> SUFFICES ASSUME ~BioMerges
             PROVE  Spec \/ WarmSpec => []SyncFifo
  OBVIOUS
<1>1. Init => SInv
  BY InitSInv DEF Init
<1>2. WarmInit => SInv
  <2> SUFFICES ASSUME NEW b \in Bases \ {0},
                      InitWith(TRUE, [o \in OpTypes |-> IF o = 3 THEN 0 ELSE b])
               PROVE  SInv
    BY DEF WarmInit
  <2>1. [o \in OpTypes |-> IF o = 3 THEN 0 ELSE b] \in [OpTypes -> Nat]
    BY ConstantsAssumption
  <2>2. QED
    BY <2>1, InitSInv
<1>3. SInv /\ [Next]_vars => SInv'
  BY NextSInv
<1>4. SInv => SyncFifo
  BY StagedIsFifo DEF SInv, HInv
<1>5. QED
  BY <1>1, <1>2, <1>3, <1>4, PTL DEF Spec, WarmSpec
===========================================================================
