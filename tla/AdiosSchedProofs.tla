------------------------- MODULE AdiosSchedProofs -------------------------
(***************************************************************************)
(* Proofs, for any number of requests, CPUs and any tunables, about        *)
(* AdiosSched: the bits of ad->state agree with the queues (IInv); a       *)
(* request which ADIOS has accepted and not returned is in exactly one of  *)
(* its lists (QInv); the double-buffered batches keep their bounds and the *)
(* elevator order, and ad->in_flight_rqs counts what is in flight and,     *)
(* once more and for good, what was given back (BInv, AInv).               *)
(***************************************************************************)
EXTENDS AdiosSched, SetSums, FiniteSetTheorems, SequenceTheorems, WellFoundedInduction, TLAPS

\* The inductive invariant, part by part: each part is about one of the groups
\* of variables that the actions leave alone together.
RqOK == rq \in [Requests -> RqType]

PqOK ==
  /\ prio_queue \in [Bit -> Seq(Requests)] /\ pq_flags \subseteq Bit
  /\ in_flight \in [count : 0..(CountSize - 1), lat : 0..(LatSize - 1)]
  /\ \A i \in Bit : i \in pq_flags <=> prio_queue[i] # <<>>

\* The trees t and the bits f of ad->state agree.
TreesAgree(t, f) ==
  /\ t \in [Bit -> Seq(Requests)] /\ f \subseteq Bit
  /\ \A i \in Bit : i \in f <=> t[i] # <<>>

DlOK == TreesAgree(dl_tree, dl_flags)

BarOK ==
  /\ barrier_queue \in Seq(Requests) /\ bp_flag \in BOOLEAN
  /\ bp_flag <=> barrier_queue # <<>>

PageOK ==
  /\ batch_queue \in [Bit -> [OpTypes -> Seq(Requests)]]
  /\ bq_state \in [Bit -> SUBSET OpTypes] /\ bq_flags \subseteq Bit /\ bq_page \in Bit
  /\ \A p \in Bit : \A o \in OpTypes : o \in bq_state[p] <=> batch_queue[p][o] # <<>>
  /\ \A p \in Bit : p \in bq_flags => bq_state[p] # {}
  /\ \A p \in Bit : bq_state[p] # {} => p \in bq_flags \/ Filling(p)

FillOK ==
  /\ batch_count \in [Bit -> [OpTypes -> Nat]] /\ bq_batch_order \in [Bit -> Bit]
  /\ dl_bias \in Int
  /\ fill \in [tpl : Int, added : Nat, count : Nat, dels : Nat, curHasRq : BOOLEAN]

ElvOK == elv_direction \in Bit /\ head_pos \in Nat

ModelOK == models_stable \in BOOLEAN /\ base \in [OpTypes -> Nat]

EnvOK == /\ inserted \in 0..MaxReq /\ batch_order \in Bit /\ bio \in BOOLEAN
         /\ budget \in [requeues : Nat, updates : Nat]

\* bq_lock is held by the CPU in fill_batch_queues and by no other; the CPU in
\* the reinsertion loop of release_barrier_requests holds ad->lock and has
\* something left to reinsert.  During a fill the bit of the back page is clear,
\* and the count of the fill tells whether that page has requests.
CtlOK ==
  /\ lock \in CPUs \cup {NoOne, Oops} /\ bq_lock \in CPUs \cup {NoOne}
  /\ pc \in [CPUs -> Labels] /\ local_list \in Seq(Requests)
  /\ \A c \in CPUs : pc[c] \in {"fill", "filled"} <=> bq_lock = c
  /\ \A c \in CPUs : pc[c] = "reinsert" => lock = c /\ local_list # <<>>
  /\ \A c \in CPUs : pc[c] \in {"fill", "filled"} =>
       /\ 1 - bq_page \notin bq_flags
       /\ bq_state[1 - bq_page] # {} => fill.count > 0
       /\ fill.count > 0 => bq_state[1 - bq_page] # {}

IInv == /\ RqOK /\ PqOK /\ DlOK /\ BarOK /\ PageOK /\ FillOK /\ ElvOK /\ ModelOK
        /\ EnvOK /\ CtlOK

---------------------------------------------------------------------------
(* Remainders, of which the fields of in_flight_rqs are made.              *)

\* A remainder and what it is the remainder of.
LEMMA ModType ==
  ASSUME NEW C \in Nat \ {0}, NEW a \in Int
  PROVE  a % C \in 0..(C - 1) /\ a \div C \in Int /\ a = C * (a \div C) + (a % C)
OBVIOUS

\* Only one number below C is the remainder.
LEMMA ModUnique ==
  ASSUME NEW C \in Nat \ {0}, NEW q \in Int, NEW k \in 0..(C - 1)
  PROVE  (C * q + k) % C = k
OBVIOUS

\* A number below C is its own remainder.
LEMMA ModSmall ==
  ASSUME NEW C \in Nat \ {0}, NEW k \in 0..(C - 1)
  PROVE  k % C = k /\ k \div C = 0
OBVIOUS

\* A number and its remainder.
LEMMA ModSplit ==
  ASSUME NEW C \in Nat \ {0}, NEW a \in Int
  PROVE  \E q \in Int, k \in 0..(C - 1) : a = C * q + k /\ a % C = k
<1>1. a % C \in 0..(C - 1) /\ a \div C \in Int /\ a = C * (a \div C) + (a % C)
  OBVIOUS
<1>2. PICK q, k : q = a \div C /\ k = a % C
  OBVIOUS
<1>3. q \in Int /\ k \in 0..(C - 1) /\ a = C * q + k
  BY <1>1, <1>2
<1>4. QED
  BY <1>2, <1>3

\* Multiples of C are put together.
LEMMA ModMultiples ==
  ASSUME NEW C \in Int, NEW m \in Int, NEW q \in Int, NEW k \in Int, NEW l \in Int,
         NEW b \in Int, l + b = C * q + k
  PROVE  C * m + l + b = C * (q + m) + k
<1>1. PICK x, y \in Int : x = C * m /\ y = C * q
  OBVIOUS
<1>2. C * (q + m) = y + x
  BY <1>1
<1>3. x + l + b = (y + x) + k
  BY <1>1
<1>4. QED
  BY <1>1, <1>2, <1>3

\* Remainders may be taken before or after an addition.
LEMMA ModAdd ==
  ASSUME NEW C \in Nat \ {0}, NEW a \in Int, NEW b \in Int
  PROVE  ((a % C) + b) % C = (a + b) % C
<1>1. PICK m \in Int, l \in 0..(C - 1) : a = C * m + l /\ a % C = l
  BY ModSplit
<1>2. l + b \in Int
  OBVIOUS
<1>3. PICK q \in Int, k \in 0..(C - 1) : l + b = C * q + k /\ (l + b) % C = k
  BY <1>2, ModSplit
<1>4. C * m + l + b = C * (q + m) + k
  BY <1>3, ModMultiples
<1>5. (C * (q + m) + k) % C = k
  BY ModUnique
<1>6. QED
  BY <1>1, <1>3, <1>4, <1>5

\* The account keeps its type, whatever is added to it or taken off.
LEMMA AccountType ==
  ASSUME in_flight \in [count : 0..(CountSize - 1), lat : 0..(LatSize - 1)],
         NEW count \in Int, NEW lat \in Int
  PROVE  Account(count, lat) \in [count : 0..(CountSize - 1), lat : 0..(LatSize - 1)]
<1> DEFINE sum   == in_flight.count + count
           carry == in_flight.lat + lat + (sum \div CountSize)
<1>1. CountSize \in Nat \ {0} /\ LatSize \in Nat \ {0}
  BY ConstantsAssumption
<1>2. in_flight.count \in Int /\ in_flight.lat \in Int
  BY <1>1
<1>3. sum \in Int
  BY <1>2
<1> HIDE DEF sum
<1>4. sum % CountSize \in 0..(CountSize - 1) /\ sum \div CountSize \in Int
  BY <1>1, <1>3, ModType
<1>5. carry \in Int
  BY <1>2, <1>4
<1> HIDE DEF carry
<1>6. carry % LatSize \in 0..(LatSize - 1)
  BY <1>1, <1>5, ModType
<1>7. QED
  BY <1>4, <1>6 DEF Account, carry, sum

---------------------------------------------------------------------------
(* Helpers of the model.                                                   *)

\* OpType and DlIdx index the arrays of the scheduler.
LEMMA IndexTypes ==
  ASSUME NEW k \in KindType
  PROVE  OpType(k) \in OpTypes /\ DlIdx(k) \in Bit
BY DEF OpType, DlIdx, OpTypes, Bit

\* Inserting into a list gives a non-empty list.
LEMMA InsertAtType ==
  ASSUME NEW S, NEW s \in Seq(S), NEW e \in S, NEW k \in 1..(Len(s) + 1)
  PROVE  InsertAt(s, k, e) \in Seq(S) /\ InsertAt(s, k, e) # <<>>
<1> DEFINE front == SubSeq(s, 1, k - 1)
           rest  == SubSeq(s, k, Len(s))
<1>1. front \in Seq(S) /\ rest \in Seq(S) /\ <<e>> \in Seq(S) /\ Len(<<e>>) = 1
  BY SubSeqProperties
<1> HIDE DEF front, rest
<1> DEFINE start == front \o <<e>>
<1>2. start \in Seq(S) /\ Len(start) = Len(front) + 1 /\ Len(front) \in Nat
  BY <1>1, ConcatProperties, LenProperties
<1> HIDE DEF start
<1>3. start \o rest \in Seq(S) /\ Len(start \o rest) = Len(start) + Len(rest)
      /\ Len(rest) \in Nat
  BY <1>1, <1>2, ConcatProperties, LenProperties
<1>4. start \o rest # <<>>
  BY <1>2, <1>3, EmptySeq
<1>5. QED
  BY <1>3, <1>4 DEF InsertAt, start, front, rest

\* The elements of a list of requests are requests.
LEMMA ToSetType ==
  ASSUME NEW q \in Seq(Requests)
  PROVE  IsFiniteSet(ToSet(q)) /\ ToSet(q) \subseteq Requests
<1>1. ToSet(q) \subseteq Requests
  BY LenProperties, ElementOfSeq DEF ToSet
<1>2. IsFiniteSet(Requests)
  BY FS_Interval, ConstantsAssumption DEF Requests
<1>3. QED
  BY <1>1, <1>2, FS_Subset

\* What removal leaves is a list of requests, and there is something left only
\* if there was something before.
LEMMA WithoutType ==
  ASSUME NEW q \in Seq(Requests), NEW S, NEW s \in Without(q, S)
  PROVE  s \in Seq(Requests) /\ (s # <<>> => q # <<>>)
<1> DEFINE kept == ToSet(q) \ S
<1>1. kept \subseteq Requests /\ Cardinality(kept) \in Nat
  BY ToSetType, FS_Subset, FS_CardinalityType
<1>2. s \in [1..Cardinality(kept) -> kept]
  BY DEF Without
<1>3. s \in [1..Cardinality(kept) -> Requests]
  BY <1>1, <1>2
<1>4. s \in Seq(Requests)
  <2> DEFINE n == Cardinality(kept)
  <2> HIDE DEF n
  <2>1. n \in Nat /\ s \in [1..n -> Requests]
    BY <1>1, <1>3 DEF n
  <2>2. QED
    BY <2>1, SeqDef
<1>5. ASSUME q = <<>> PROVE s = <<>>
  <2>1. kept = {}
    BY <1>5 DEF ToSet
  <2>2. Cardinality(kept) = 0
    BY <2>1, FS_EmptySet
  <2>3. Len(s) = 0
    BY <1>2, <1>4, <2>2, LenProperties
  <2>4. QED
    BY <1>4, <2>3, EmptySeq
<1>6. QED
  BY <1>4, <1>5

\* Sorting a list of requests gives a list of requests, as long as before.
LEMMA SortedType ==
  ASSUME NEW q \in Seq(Requests), NEW s \in SortedByPos(q)
  PROVE  s \in Seq(Requests) /\ (s = <<>> <=> q = <<>>)
<1>1. s \in [1..Len(q) -> Requests] /\ Len(q) \in Nat
  BY ToSetType, LenProperties DEF SortedByPos
<1>2. s \in Seq(Requests) /\ Len(s) = Len(q)
  BY <1>1, SeqDef, LenProperties
<1>3. QED
  BY <1>2, EmptySeq

\* A deadline is a time.
LEMMA DeadlineType ==
  ASSUME NEW n \in RqType
  PROVE  Deadline(n) \in Nat
<1>1. n.kind \in KindType /\ n.kind.start \in Nat /\ n.pred \in Nat
  BY DEF RqType, KindType
<1>2. LatTarget[OpType(n.kind)] \in Nat
  BY <1>1, IndexTypes, ConstantsAssumption
<1>3. QED
  BY <1>1, <1>2 DEF Deadline

\* add_to_dl_tree keeps trees and bits in agreement, whether or not the
\* allocation of a group succeeds.
LEMMA AddToDlTree ==
  ASSUME RqOK, NEW r \in Requests, NEW n \in RqType, NEW tree, NEW flags,
         TreesAgree(tree, flags), add_to_dl_tree(r, n, tree, flags)
  PROVE  RqOK' /\ DlOK'
<1> DEFINE i     == DlIdx(n.kind)
           d     == Deadline(n)
           upTo  == {j \in DOMAIN tree[i] : Key(rq[tree[i][j]].deadline) <= Key(d)}
           new   == InsertAt(tree[i], Cardinality(upTo) + 1, r)
<1>1. i \in Bit /\ d \in Nat
  BY IndexTypes, DeadlineType DEF RqType
<1>2. tree[i] \in Seq(Requests) /\ Len(tree[i]) \in Nat /\ DOMAIN tree[i] = 1..Len(tree[i])
  BY <1>1, LenProperties DEF TreesAgree
<1>3. Cardinality(upTo) + 1 \in 1..(Len(tree[i]) + 1)
  <2>1. IsFiniteSet(1..Len(tree[i])) /\ Cardinality(1..Len(tree[i])) = Len(tree[i])
    BY <1>2, FS_Interval
  <2>2. upTo \in SUBSET (1..Len(tree[i]))
    BY <1>2
  <2> HIDE DEF upTo
  <2>3. IsFiniteSet(upTo) /\ Cardinality(upTo) <= Len(tree[i])
    BY <2>1, <2>2, FS_Subset
  <2>4. Cardinality(upTo) \in Nat
    BY <2>3, FS_CardinalityType
  <2>5. QED
    BY <1>2, <2>3, <2>4
<1>4. new \in Seq(Requests) /\ new # <<>>
  <2> HIDE DEF upTo
  <2>1. QED
    BY <1>2, <1>3, InsertAtType
<1>5. [n EXCEPT !.deadline = d] \in RqType
      /\ [n EXCEPT !.deadline = d, !.status = "lost"] \in RqType
  <2> HIDE DEF d
  <2>1. QED
    BY <1>1 DEF RqType, Statuses
<1>6. CASE /\ dl_tree' = [tree EXCEPT ![i] = new]
           /\ dl_flags' = SetIfWasEmpty(flags, i, tree[i])
           /\ rq' = [rq EXCEPT ![r] = [n EXCEPT !.deadline = d]]
  <2> HIDE DEF new, i, d
  <2>1. RqOK'
    BY <1>5, <1>6 DEF RqOK
  <2>2. DlOK'
    BY <1>1, <1>4, <1>6 DEF DlOK, TreesAgree, SetIfWasEmpty
  <2>3. QED
    BY <2>1, <2>2
<1>7. CASE /\ dl_tree' = tree
           /\ dl_flags' = flags
           /\ rq' = [rq EXCEPT ![r] = [n EXCEPT !.deadline = d, !.status = "lost"]]
  <2> HIDE DEF new, i, d
  <2>1. QED
    BY <1>5, <1>7 DEF RqOK, DlOK, TreesAgree
<1>8. QED
  BY <1>6, <1>7 DEF add_to_dl_tree

\* Taking requests out of a tree keeps trees and bits in agreement.
LEMMA RemoveAgrees ==
  ASSUME DlOK, NEW i \in Bit, NEW S, NEW rest \in Without(dl_tree[i], S)
  PROVE  TreesAgree([dl_tree EXCEPT ![i] = rest], ClearIfEmpty(dl_flags, i, rest))
<1>1. dl_tree[i] \in Seq(Requests)
  BY DEF DlOK, TreesAgree
<1>2. rest \in Seq(Requests) /\ (rest # <<>> => dl_tree[i] # <<>>)
  BY <1>1, WithoutType
<1>3. QED
  BY <1>2 DEF DlOK, TreesAgree, ClearIfEmpty

\* So does remove_request, also of requests that are in no tree.
LEMMA RemoveRequest ==
  ASSUME DlOK, NEW i \in Bit, NEW S, remove_request(i, S)
  PROVE  DlOK'
<1>1. PICK rest \in Without(dl_tree[i], S) :
        /\ dl_tree' = [dl_tree EXCEPT ![i] = rest]
        /\ dl_flags' = IF rest = dl_tree[i] THEN dl_flags
                       ELSE ClearIfEmpty(dl_flags, i, rest)
  BY DEF remove_request
<1>2. CASE rest = dl_tree[i]
  BY <1>1, <1>2 DEF DlOK, TreesAgree
<1>3. CASE rest # dl_tree[i]
  BY <1>1, <1>3, RemoveAgrees DEF DlOK
<1>4. QED
  BY <1>2, <1>3

\* A request that ends up in a tree or merged keeps them in agreement too.
LEMMA MergeOrInsert ==
  ASSUME RqOK, DlOK, NEW r \in Requests, NEW n \in RqType,
         merge_or_insert_to_dl_tree(r, n)
  PROVE  RqOK' /\ DlOK'
<1>1. CASE add_to_dl_tree(r, n, dl_tree, dl_flags)
  BY <1>1, AddToDlTree DEF DlOK
<1>2. ASSUME NEW S, remove_request(DlIdx(n.kind), S),
             rq' = [q \in Requests |->
                     IF q = r THEN [n EXCEPT !.status = "merged"]
                     ELSE IF q \in S THEN [rq[q] EXCEPT !.status = "merged"]
                     ELSE rq[q]]
      PROVE  RqOK' /\ DlOK'
  <2>1. DlIdx(n.kind) \in Bit
    BY IndexTypes DEF RqType
  <2>2. DlOK'
    BY <1>2, <2>1, RemoveRequest
  <2>3. RqOK'
    BY <1>2 DEF RqOK, RqType, Statuses
  <2>4. QED
    BY <2>2, <2>3
<1>3. QED
  BY <1>1, <1>2 DEF merge_or_insert_to_dl_tree

\* A request put into a priority queue sets its bit.
LEMMA InsertToPrioQueue ==
  ASSUME PqOK, NEW r \in Requests, NEW pred \in Nat, NEW i \in Bit,
         insert_to_prio_queue(r, pred, i)
  PROVE  PqOK'
<1>1. Append(prio_queue[i], r) \in Seq(Requests) /\ Append(prio_queue[i], r) # <<>>
  BY AppendProperties DEF PqOK
<1>2. in_flight' \in [count : 0..(CountSize - 1), lat : 0..(LatSize - 1)]
  BY AccountType DEF insert_to_prio_queue, PqOK
<1>3. QED
  BY <1>1, <1>2 DEF insert_to_prio_queue, PqOK, SetIfWasEmpty

\* The order of the natural numbers as a relation, which is well-founded.
NatOrder == {mn \in Nat \X Nat : mn[1] < mn[2]}

LEMMA NatOrderWellFounded == IsWellFoundedOn(NatOrder, Nat)
BY NatLessThanWellFounded DEF OpToRel, NatOrder

\* A non-empty set of natural numbers has a least element.
LEMMA MinType ==
  ASSUME NEW S, S \subseteq Nat, S # {}
  PROVE  Min(S) \in S
<1>1. PICK x \in S : \A y \in S : ~(<<y, x>> \in NatOrder)
  BY NatOrderWellFounded, WFMin
<1>2. ASSUME NEW y \in S PROVE x <= y
  <2>1. x \in Nat /\ y \in Nat /\ <<y, x>> \in Nat \X Nat
    OBVIOUS
  <2>2. ~(y < x)
    BY <1>1, <2>1 DEF NatOrder
  <2>3. QED
    BY <2>1, <2>2
<1>3. QED
  BY <1>2 DEF Min

\* What dispatch looks for in the pages stays in range.
LEMMA ElvDirectionType ==
  ASSUME ElvOK, NEW order, NEW q
  PROVE  ElvDirection(order, q) \in Bit
BY DEF ElvOK, ElvDirection, Bit

\* How many requests a barrier releases with its flush.
LEMMA FollowersType ==
  ASSUME BarOK, barrier_queue # <<>>
  PROVE  Followers \in 0..(Len(barrier_queue) - 1)
<1> DEFINE later == {i \in 2..Len(barrier_queue) : RqIsFlush(rq[barrier_queue[i]].kind)}
<1>1. Len(barrier_queue) \in Nat \ {0}
  BY EmptySeq DEF BarOK
<1>2. CASE later = {}
  BY <1>1, <1>2 DEF Followers
<1>3. CASE later # {}
  <2>1. later \subseteq Nat
    BY <1>1
  <2>2. Min(later) \in later
    BY <1>3, <2>1, MinType
  <2>3. Min(later) \in 2..Len(barrier_queue)
    BY <2>2
  <2>4. QED
    BY <1>1, <1>3, <2>3 DEF Followers
<1>4. QED
  BY <1>2, <1>3

---------------------------------------------------------------------------
(* Each action preserves the invariant.                                    *)

\* adios_insert_requests and the reinsertion of a requeued request.
LEMMA InsertRequest ==
  ASSUME IInv, NEW r \in Requests, NEW k \in KindType, insert_request(r, k)
  PROVE  RqOK' /\ PqOK' /\ DlOK' /\ BarOK' /\ PageOK' /\ FillOK' /\ ElvOK'
         /\ ModelOK' /\ CtlOK'
<1> DEFINE n == [kind |-> k, pred |-> base[OpType(k)], deadline |-> 0,
                 status |-> "queued", gated |-> models_stable]
<1>1. n \in RqType /\ n.pred \in Nat
  <2>1. base[OpType(k)] \in Nat
    BY IndexTypes DEF IInv, ModelOK
  <2>2. QED
    BY <2>1 DEF RqType, Statuses, IInv, ModelOK
<1> HIDE DEF n
<1>2. FillOK' /\ ElvOK'
  BY DEF insert_request, IInv, FillOK, ElvOK, batchVars, elvVars
<1>3. PageOK' /\ CtlOK'
  BY DEF insert_request, IInv, PageOK, CtlOK, Filling, pageVars, ctlVars, batchVars
<1>4. CASE insert_request_post_stability(r, n)
  <2>1. ModelOK'
    BY <1>4 DEF insert_request_post_stability, insert_request, IInv, ModelOK
  <2>2. CASE /\ insert_to_prio_queue(r, n.pred, 0)
             /\ rq' = [rq EXCEPT ![r] = n]
             /\ UNCHANGED <<dlVars, barVars>>
    <3>1. PqOK'
      BY <1>1, <2>2, InsertToPrioQueue DEF IInv, Bit
    <3>2. RqOK' /\ DlOK' /\ BarOK'
      BY <1>1, <2>2 DEF IInv, RqOK, DlOK, BarOK, TreesAgree, dlVars, barVars
    <3>3. QED
      BY <1>2, <1>3, <2>1, <3>1, <3>2
  <2>3. CASE /\ bp_flag \/ RqIsFlush(n.kind)
             /\ bp_flag' = (bp_flag \/ RqIsFlush(n.kind))
             /\ barrier_queue' = Append(barrier_queue, r)
             /\ rq' = [rq EXCEPT ![r] = n]
             /\ UNCHANGED <<prioVars, dlVars>>
    <3>1. Append(barrier_queue, r) \in Seq(Requests) /\ Append(barrier_queue, r) # <<>>
      BY AppendProperties DEF IInv, BarOK
    <3>2. BarOK'
      BY <2>3, <3>1 DEF IInv, BarOK
    <3>3. RqOK' /\ DlOK' /\ PqOK'
      BY <1>1, <2>3 DEF IInv, RqOK, DlOK, PqOK, TreesAgree, dlVars, prioVars
    <3>4. QED
      BY <1>2, <1>3, <2>1, <3>2, <3>3
  <2>4. CASE merge_or_insert_to_dl_tree(r, n) /\ UNCHANGED <<prioVars, barVars>>
    <3>1. RqOK' /\ DlOK'
      BY <1>1, <2>4, MergeOrInsert DEF IInv
    <3>2. PqOK' /\ BarOK'
      BY <2>4 DEF IInv, PqOK, BarOK, prioVars, barVars
    <3>3. QED
      BY <1>2, <1>3, <2>1, <3>1, <3>2
  <2>5. QED
    BY <1>4, <2>2, <2>3, <2>4 DEF insert_request_post_stability
<1>5. CASE insert_request_pre_stability(r, n)
  <2>1. (IF n.kind.head THEN 0 ELSE 1) \in Bit
    BY DEF Bit
  <2>2. PqOK'
    BY <1>1, <1>5, <2>1, InsertToPrioQueue DEF insert_request_pre_stability, IInv
  <2>3. ModelOK'
    BY <1>5 DEF insert_request_pre_stability, insert_request, IInv, ModelOK
  <2>4. RqOK' /\ DlOK' /\ BarOK'
    BY <1>1, <1>5 DEF insert_request_pre_stability, IInv, RqOK, DlOK, BarOK, TreesAgree,
                      dlVars, barVars
  <2>5. QED
    BY <1>2, <1>3, <2>2, <2>3, <2>4
<1>6. QED
  BY <1>4, <1>5 DEF insert_request, n

\* bio_merge_check and adios_bio_merge.
LEMMA BioMerge ==
  ASSUME IInv, bio_merge_check \/ adios_bio_merge
  PROVE  IInv'
<1>1. /\ PqOK' /\ BarOK' /\ PageOK' /\ FillOK' /\ ElvOK' /\ ModelOK' /\ EnvOK'
      /\ CtlOK'
  <2>1. UNCHANGED <<prioVars, barVars, pageVars, batchVars, elvVars, modelVars, ctlVars,
                    inserted, batch_order, budget>>
        /\ bio' \in BOOLEAN
    BY DEF bio_merge_check, adios_bio_merge
  <2>2. PqOK' /\ BarOK' /\ ElvOK' /\ ModelOK' /\ EnvOK'
    BY <2>1 DEF IInv, PqOK, BarOK, ElvOK, ModelOK, EnvOK, prioVars, barVars, elvVars,
                modelVars
  <2>3. PageOK' /\ FillOK' /\ CtlOK'
    BY <2>1 DEF IInv, PageOK, FillOK, CtlOK, Filling, pageVars, batchVars, ctlVars
  <2>4. QED
    BY <2>2, <2>3
<1>2. CASE UNCHANGED <<rq, dlVars>>
  <2>1. RqOK' /\ DlOK'
    BY <1>2 DEF IInv, RqOK, DlOK, TreesAgree, dlVars
  <2>2. QED
    BY <1>1, <2>1 DEF IInv
<1>3. ASSUME NEW i \in Bit, NEW r \in ToSet(dl_tree[i]), adios_request_merged(i, r)
      PROVE  IInv'
  <2>1. r \in Requests /\ rq[r] \in RqType
    BY ToSetType DEF IInv, DlOK, TreesAgree, RqOK
  <2>2. PICK rest \in Without(dl_tree[i], {r}) :
          add_to_dl_tree(r, rq[r], [dl_tree EXCEPT ![i] = rest],
                         ClearIfEmpty(dl_flags, i, rest))
    BY <1>3 DEF adios_request_merged
  <2>3. TreesAgree([dl_tree EXCEPT ![i] = rest], ClearIfEmpty(dl_flags, i, rest))
    BY RemoveAgrees DEF IInv
  <2>4. RqOK' /\ DlOK'
    BY <2>1, <2>2, <2>3, AddToDlTree DEF IInv
  <2>5. QED
    BY <1>1, <2>4 DEF IInv
<1>4. ASSUME NEW i \in Bit, NEW next \in Requests, adios_merged_requests(i, next)
      PROVE  IInv'
  <2>1. DlOK'
    BY <1>4, RemoveRequest DEF adios_merged_requests, IInv
  <2>2. RqOK'
    BY <1>4 DEF adios_merged_requests, IInv, RqOK, RqType, Statuses
  <2>3. QED
    BY <1>1, <2>1, <2>2 DEF IInv
<1>5. CASE bio_merge_check
  BY <1>2, <1>5 DEF bio_merge_check
<1>6. CASE adios_bio_merge
  BY <1>2, <1>3, <1>4, <1>6 DEF adios_bio_merge, Mergeable
<1>7. QED
  BY <1>5, <1>6

\* adios_bio_merge into a request without a dl_group: nobody was reinserting,
\* since ad->lock was free, and nobody will have it again.
LEMMA BioMergeOops ==
  ASSUME IInv, adios_bio_merge_oops
  PROVE  IInv'
<1>1. /\ UNCHANGED <<rq, prioVars, dlVars, barVars, pageVars, batchVars, elvVars, modelVars,
                    bq_lock, pc, local_list, inserted, batch_order, budget>>
      /\ lock = NoOne /\ lock' = Oops /\ bio' = FALSE
  BY DEF adios_bio_merge_oops
<1>2. RqOK' /\ PqOK' /\ DlOK' /\ BarOK'
  BY <1>1 DEF IInv, RqOK, PqOK, DlOK, BarOK, TreesAgree, prioVars, dlVars, barVars
<1>3. ElvOK' /\ ModelOK' /\ EnvOK'
  BY <1>1 DEF IInv, ElvOK, ModelOK, EnvOK, elvVars, modelVars
<1>4. PageOK' /\ FillOK'
  BY <1>1 DEF IInv, PageOK, FillOK, Filling, pageVars, batchVars
<1>5. CtlOK'
  BY <1>1, ConstantsAssumption DEF IInv, CtlOK, pageVars, batchVars
<1>6. QED
  BY <1>2, <1>3, <1>4, <1>5 DEF IInv

\* Steps of a dispatch that only move the CPU on.
LEMMA MoveOn ==
  ASSUME IInv, NEW c \in CPUs, call_dispatch(c) \/ check_barrier(c)
  PROVE  IInv'
<1>1. /\ RqOK' /\ PqOK' /\ DlOK' /\ BarOK' /\ FillOK' /\ ElvOK' /\ ModelOK' /\ EnvOK'
  <2>1. UNCHANGED <<rq, prioVars, dlVars, barVars, batchVars, elvVars, modelVars, envVars>>
    BY DEF call_dispatch, check_barrier
  <2>2. RqOK' /\ PqOK' /\ DlOK' /\ BarOK'
    BY <2>1 DEF IInv, RqOK, PqOK, DlOK, BarOK, TreesAgree, prioVars, dlVars, barVars
  <2>3. FillOK' /\ ElvOK' /\ ModelOK' /\ EnvOK'
    BY <2>1 DEF IInv, FillOK, ElvOK, ModelOK, EnvOK, batchVars, elvVars, modelVars, envVars
  <2>4. QED
    BY <2>2, <2>3
<1>2. CtlOK'
  BY DEF call_dispatch, check_barrier, IInv, CtlOK, goto, Labels, pageVars, batchVars
<1>3. PageOK'
  BY DEF call_dispatch, check_barrier, IInv, PageOK, CtlOK, goto, Filling, pageVars
<1>4. QED
  BY <1>1, <1>2, <1>3 DEF IInv

\* dispatch_from_pq.
LEMMA DispatchFromPq ==
  ASSUME IInv, NEW c \in CPUs, dispatch_from_pq(c)
  PROVE  IInv'
<1> DEFINE i == PqIdx
           q == prio_queue[i]
<1>1. i \in Bit /\ q \in Seq(Requests)
  BY DEF PqIdx, Bit, IInv, PqOK
<1>2. /\ DlOK' /\ BarOK' /\ FillOK' /\ ModelOK' /\ EnvOK'
  BY DEF dispatch_from_pq, IInv, DlOK, BarOK, FillOK, ModelOK, EnvOK, TreesAgree,
         dlVars, barVars, batchVars, modelVars, envVars
<1>3. CtlOK' /\ PageOK'
  BY DEF dispatch_from_pq, IInv, CtlOK, PageOK, found, goto, Labels, Filling, pageVars,
         batchVars
<1> HIDE DEF i
<1>4. CASE /\ q = <<>>
           /\ UNCHANGED <<rq, prio_queue, pq_flags, elvVars, in_flight>>
  BY <1>2, <1>3, <1>4 DEF IInv, RqOK, PqOK, ElvOK, elvVars
<1>5. CASE /\ q # <<>>
           /\ found(c, Head(q))
           /\ prio_queue' = [prio_queue EXCEPT ![i] = Tail(q)]
           /\ pq_flags' = ClearIfEmpty(pq_flags, i, Tail(q))
           /\ elv_direction' \in IF Tail(q) = <<>> THEN RacyElvDirections(c)
                                  ELSE {elv_direction}
           /\ UNCHANGED in_flight
  <2>1. Head(q) \in Requests /\ Tail(q) \in Seq(Requests)
    BY <1>1, <1>5, HeadTailProperties
  <2>2. RqOK'
    BY <1>5, <2>1 DEF found, IInv, RqOK, RqType, Statuses
  <2>3. head_pos' \in Nat
    <3>1. rq[Head(q)].kind.pos \in Nat
      BY <2>1 DEF IInv, RqOK, RqType, KindType
    <3>2. QED
      BY <1>5, <3>1 DEF found, IInv, ElvOK
  <2>4. RacyElvDirections(c) \subseteq Bit
    BY ElvDirectionType DEF RacyElvDirections, IInv
  <2>5. ElvOK'
    BY <1>5, <2>3, <2>4 DEF IInv, ElvOK
  <2>6. PqOK'
    BY <1>1, <1>5, <2>1 DEF IInv, PqOK, ClearIfEmpty
  <2>7. QED
    BY <1>2, <1>3, <2>2, <2>5, <2>6 DEF IInv
<1>6. QED
  BY <1>4, <1>5 DEF dispatch_from_pq, i

\* The end of dispatch_from_bq pops from pages and bits that agree.
LEMMA PopBqRequest ==
  ASSUME IInv, NEW c \in CPUs, pc[c] \in {"bq", "filled"},
         pc[c] = "bq" => bq_lock = NoOne,
         NEW hasRq, NEW bqs, NEW flags, flags \subseteq Bit,
         bqs \in [Bit -> [OpTypes -> Seq(Requests)]],
         \A p \in Bit : \A o \in OpTypes : o \in bq_state[p] <=> bqs[p][o] # <<>>,
         \A p \in Bit : p \in flags <=> bq_state[p] # {},
         pop_bq_request(c, hasRq, bqs, flags), UNCHANGED <<lock, local_list>>
  PROVE  RqOK' /\ PageOK' /\ ElvOK' /\ CtlOK'
<1> DEFINE page == FlippedPage(hasRq, flags)
           dir  == IF page = bq_page THEN elv_direction
                   ELSE ElvDirection(bq_batch_order[page], bqs[page][1])
           idx  == Min(bq_state[page])
           back == bq_batch_order[page] = 1 /\ idx = 1 /\ dir = 1
           q    == bqs[page][idx]
           rest == IF back THEN Front(q) ELSE Tail(q)
           left == ClearIfEmpty(bq_state[page], idx, rest)
           r    == IF back THEN Last(q) ELSE Head(q)
<1>1. page \in Bit
  BY DEF FlippedPage, IInv, PageOK, Bit
<1>2. dir \in Bit
  BY ElvDirectionType DEF IInv, ElvOK
<1>3. \A d \in CPUs : pc'[d] \notin {"fill", "filled"}
  BY ConstantsAssumption DEF IInv, CtlOK, pop_bq_request, goto, found
<1>4. CtlOK'
  BY <1>3, ConstantsAssumption DEF IInv, CtlOK, pop_bq_request, goto, found, Labels
<1> HIDE DEF page, dir
<1>5. CASE bq_state[page] = {}
  <2>1. /\ batch_queue' = bqs /\ bq_flags' = flags /\ bq_page' = page
        /\ elv_direction' = dir /\ UNCHANGED <<rq, bq_state, head_pos>>
    BY <1>5 DEF pop_bq_request, page, dir
  <2>2. QED
    BY <1>1, <1>2, <1>4, <2>1 DEF IInv, RqOK, PageOK, ElvOK
<1>6. CASE bq_state[page] # {}
  <2>1. idx \in OpTypes /\ idx \in bq_state[page]
    <3>1. bq_state[page] \subseteq OpTypes
      BY <1>1 DEF IInv, PageOK
    <3>2. bq_state[page] \subseteq Nat
      BY <3>1 DEF OpTypes
    <3>3. idx \in bq_state[page]
      BY <1>6, <3>2, MinType
    <3>4. QED
      BY <3>1, <3>3
  <2> HIDE DEF idx
  <2>2. q \in Seq(Requests) /\ q # <<>> /\ Len(q) \in Nat \ {0}
    BY <1>1, <2>1, EmptySeq
  <2>3. r \in Requests /\ rest \in Seq(Requests)
    <3>1. Head(q) \in Requests /\ Tail(q) \in Seq(Requests)
      BY <2>2, HeadTailProperties
    <3>2. Last(q) \in Requests
      BY <2>2, ElementOfSeq DEF Last
    <3>3. Front(q) \in Seq(Requests)
      BY <2>2, ElementOfSeq, SubSeqProperties DEF Front
    <3>4. QED
      BY <3>1, <3>2, <3>3
  <2>4. /\ found(c, r) /\ bq_page' = page /\ elv_direction' = dir
        /\ batch_queue' = [bqs EXCEPT ![page][idx] = rest]
        /\ bq_state' = [bq_state EXCEPT ![page] = left]
        /\ bq_flags' = IF left = {} THEN flags \ {page} ELSE flags
    BY <1>6 DEF pop_bq_request, page, dir, idx
  <2>5. left \subseteq OpTypes
        /\ \A o \in OpTypes : o \in left <=> (IF o = idx THEN rest # <<>> ELSE bqs[page][o] # <<>>)
    <3> HIDE DEF rest, q
    <3>1. bq_state[page] \subseteq OpTypes
      BY <1>1 DEF IInv, PageOK
    <3>2. QED
      BY <1>1, <2>1, <3>1 DEF ClearIfEmpty
  <2> HIDE DEF rest, q, left, r
  <2>6. batch_queue' \in [Bit -> [OpTypes -> Seq(Requests)]]
        /\ bq_state' \in [Bit -> SUBSET OpTypes] /\ bq_flags' \subseteq Bit /\ bq_page' \in Bit
    BY <1>1, <2>3, <2>4, <2>5 DEF IInv, PageOK
  <2>7. \A p \in Bit : \A o \in OpTypes : o \in bq_state'[p] <=> batch_queue'[p][o] # <<>>
    BY <1>1, <2>1, <2>4, <2>5 DEF IInv, PageOK
  <2>8. \A p \in Bit : p \in bq_flags' <=> bq_state'[p] # {}
    BY <1>1, <1>6, <2>4, <2>5 DEF IInv, PageOK
  <2>9. PageOK'
    BY <2>6, <2>7, <2>8 DEF PageOK
  <2>10. RqOK'
    BY <2>3, <2>4 DEF found, IInv, RqOK, RqType, Statuses
  <2>11. ElvOK'
    BY <1>2, <2>3, <2>4 DEF found, IInv, ElvOK, RqOK, RqType, KindType
  <2>12. QED
    BY <1>4, <2>9, <2>10, <2>11
<1>7. QED
  BY <1>5, <1>6

\* When no fill is in progress, a bit of ad->state is set for every page that
\* has requests.
LEMMA NoFillAgrees ==
  ASSUME IInv, \A c \in CPUs : pc[c] \notin {"fill", "filled"}
  PROVE  \A p \in Bit : p \in bq_flags <=> bq_state[p] # {}
BY DEF IInv, PageOK, Filling

\* dispatch_from_bq: either it pops at once, or a fill begins.
LEMMA DispatchFromBq ==
  ASSUME IInv, NEW c \in CPUs, dispatch_from_bq(c)
  PROVE  IInv'
<1>1. pc[c] = "bq" /\ bq_lock = NoOne
  BY DEF dispatch_from_bq
<1>2. \A d \in CPUs : pc[d] \notin {"fill", "filled"}
  BY <1>1, ConstantsAssumption DEF IInv, CtlOK
<1>3. \A p \in Bit : p \in bq_flags <=> bq_state[p] # {}
  BY <1>2, NoFillAgrees
<1>4. PqOK' /\ DlOK' /\ BarOK' /\ ModelOK' /\ EnvOK'
  BY DEF dispatch_from_bq, IInv, PqOK, DlOK, BarOK, ModelOK, EnvOK, TreesAgree, prioVars,
         dlVars, barVars, modelVars, envVars
<1>5. CASE /\ pop_bq_request(c, bq_page \in bq_flags, batch_queue, bq_flags)
           /\ UNCHANGED <<batchVars, lock, local_list>>
  <2>1. RqOK' /\ PageOK' /\ ElvOK' /\ CtlOK'
    BY <1>1, <1>3, <1>5, PopBqRequest DEF IInv, PageOK
  <2>2. FillOK'
    BY <1>5 DEF IInv, FillOK, batchVars
  <2>3. QED
    BY <1>4, <2>1, <2>2 DEF IInv
<1>6. CASE /\ MustRefill
           /\ bq_lock' = c
           /\ goto(c, "fill")
           /\ fill' = [tpl |-> in_flight.lat, added |-> 0, count |-> 0, dels |-> 0,
                       curHasRq |-> bq_page \in bq_flags]
           /\ batch_count' = [batch_count EXCEPT ![1 - bq_page] = [o \in OpTypes |-> 0]]
           /\ bq_batch_order' = [bq_batch_order EXCEPT ![1 - bq_page] = batch_order]
           /\ UNCHANGED <<rq, dl_bias, pageVars, elvVars, lock, local_list>>
  <2>1. 1 - bq_page \in Bit /\ 1 - bq_page \notin bq_flags
    BY <1>6 DEF MustRefill, IInv, PageOK, Bit
  <2>2. bq_state[1 - bq_page] = {}
    BY <1>3, <2>1
  <2>3. RqOK' /\ ElvOK'
    BY <1>6 DEF IInv, RqOK, ElvOK, elvVars
  <2>4. FillOK'
    <3>1. in_flight.lat \in Int /\ batch_order \in Bit
      BY DEF IInv, PqOK, EnvOK
    <3>2. [o \in OpTypes |-> 0] \in [OpTypes -> Nat]
      OBVIOUS
    <3>3. QED
      BY <1>6, <2>1, <3>1, <3>2 DEF IInv, FillOK
  <2>5. PageOK'
    BY <1>3, <1>6 DEF IInv, PageOK, pageVars
  <2>6. CtlOK'
    BY <1>1, <1>2, <1>6, <2>1, <2>2, ConstantsAssumption
       DEF IInv, CtlOK, goto, Labels, pageVars
  <2>7. QED
    BY <1>4, <2>3, <2>4, <2>5, <2>6 DEF IInv
<1>7. QED
  BY <1>5, <1>6 DEF dispatch_from_bq

\* An iteration of fill_batch_queues: a request moves from its tree to a page.
LEMMA FillBatchQueues ==
  ASSUME IInv, NEW c \in CPUs, fill_batch_queues(c)
  PROVE  IInv'
<1> DEFINE page == 1 - bq_page
           i    == FillIdx
           r    == Head(dl_tree[i])
           rest == Tail(dl_tree[i])
           idx  == DestIdx(r)
           dels == fill.dels + 1
<1>1. pc[c] = "fill" /\ lock \in {NoOne, c} /\ bq_lock = c /\ page \in Bit
  BY DEF fill_batch_queues, IInv, CtlOK, PageOK, Bit
<1>2. \A d \in CPUs : pc[d] \in {"fill", "filled"} <=> d = c
  BY <1>1 DEF IInv, CtlOK
<1>3. \A d \in CPUs : pc[d] # "reinsert"
  BY <1>1, <1>2, ConstantsAssumption DEF IInv, CtlOK
<1>4. RqOK' /\ PqOK' /\ BarOK' /\ ElvOK' /\ ModelOK' /\ EnvOK'
  BY DEF fill_batch_queues, IInv, RqOK, PqOK, BarOK, ElvOK, ModelOK, EnvOK, prioVars,
         barVars, elvVars, modelVars, envVars
<1>5. CASE /\ lock' = NoOne
           /\ goto(c, "filled")
           /\ UNCHANGED <<dlVars, dl_bias, batch_queue, bq_state, batch_count, fill,
                          bq_flags, bq_page, bq_batch_order, bq_lock, local_list>>
  <2>1. DlOK' /\ FillOK'
    BY <1>5 DEF IInv, DlOK, FillOK, TreesAgree, dlVars
  <2>2. CtlOK'
    BY <1>1, <1>2, <1>3, <1>5 DEF IInv, CtlOK, goto, Labels
  <2>3. PageOK'
    BY <1>1, <1>5 DEF IInv, PageOK, CtlOK, Filling, goto
  <2>4. QED
    BY <1>4, <2>1, <2>2, <2>3 DEF IInv
<1>6. CASE /\ dl_flags # {}
           /\ dl_bias' = NewBias(rq[r].pred)
           /\ dl_tree' = [dl_tree EXCEPT ![i] = rest]
           /\ dl_flags' = ClearIfEmpty(dl_flags, i, rest)
           /\ batch_queue' = [batch_queue EXCEPT ![page][idx] = Append(@, r)]
           /\ bq_state' = [bq_state EXCEPT ![page] = @ \cup {idx}]
           /\ batch_count' = [batch_count EXCEPT ![page][OpType(rq[r].kind)] = @ + 1]
           /\ fill' = [fill EXCEPT !.count = @ + 1, !.added = @ + rq[r].pred,
                                   !.dels = dels % MaxDeletes]
           /\ lock' = IF dels = MaxDeletes THEN NoOne ELSE c
           /\ UNCHANGED <<pc, bq_flags, bq_page, bq_batch_order, bq_lock, local_list>>
  <2>1. i \in Bit /\ dl_tree[i] # <<>> /\ dl_tree[i] \in Seq(Requests)
    <3>1. i \in dl_flags
      <4>1. CASE dl_flags = Bit
        BY <4>1 DEF FillIdx, BiasIdx, Bit
      <4>2. CASE dl_flags # Bit
        BY <1>6, <4>2 DEF FillIdx
      <4>3. QED
        BY <4>1, <4>2
    <3>2. QED
      BY <3>1 DEF IInv, DlOK, TreesAgree
  <2> HIDE DEF i
  <2>2. r \in Requests /\ rest \in Seq(Requests)
    BY <2>1, HeadTailProperties
  <2> HIDE DEF r, rest
  <2>3. rq[r] \in RqType /\ rq[r].kind \in KindType /\ rq[r].pred \in Nat
    BY <2>2 DEF IInv, RqOK, RqType
  <2>4. OpType(rq[r].kind) \in OpTypes /\ idx \in OpTypes
    BY <2>3, IndexTypes DEF DestIdx, OpTypes
  <2> HIDE DEF idx, page
  <2>5. DlOK'
    BY <1>6, <2>1, <2>2 DEF IInv, DlOK, TreesAgree, ClearIfEmpty
  <2>6. NewBias(rq[r].pred) \in Int
    <3>1. BiasIdx \in Bit /\ Weight[BiasIdx] \in Nat
      BY ConstantsAssumption DEF BiasIdx, Bit
    <3>2. rq[r].pred * Weight[BiasIdx] \in Nat
      BY <2>3, <3>1
    <3>3. (rq[r].pred * Weight[BiasIdx]) \div 1024 \in Int
      BY <3>2
    <3>4. BiasIdx \in Int /\ dl_bias \in Int
      BY <3>1 DEF Bit, IInv, FillOK
    <3> DEFINE x == (rq[r].pred * Weight[BiasIdx]) \div 1024
               sign == 2 * BiasIdx - 1
    <3>5. x \in Int /\ sign \in Int
      BY <3>3, <3>4
    <3> HIDE DEF x, sign
    <3>6. sign * x \in Int
      BY <3>5
    <3>7. QED
      BY <3>4, <3>5, <3>6 DEF NewBias, x, sign
  <2>7. FillOK'
    <3>1. dels \in Nat /\ dels % MaxDeletes \in Nat
      BY ConstantsAssumption DEF IInv, FillOK
    <3>2. fill' \in [tpl : Int, added : Nat, count : Nat, dels : Nat, curHasRq : BOOLEAN]
      <4> DEFINE d == dels % MaxDeletes
                 a == fill.added + rq[r].pred
                 n == fill.count + 1
      <4>1. fill \in [tpl : Int, added : Nat, count : Nat, dels : Nat, curHasRq : BOOLEAN]
        BY DEF IInv, FillOK
      <4>2. n \in Nat /\ a \in Nat /\ d \in Nat
        BY <2>3, <3>1, <4>1
      <4>3. fill' = [fill EXCEPT !.count = n, !.added = a, !.dels = d]
        BY <1>6
      <4> HIDE DEF n, a, d
      <4>4. QED
        BY <4>1, <4>2, <4>3
    <3>3. batch_count' \in [Bit -> [OpTypes -> Nat]]
      BY <1>1, <1>6, <2>4 DEF IInv, FillOK
    <3>4. QED
      BY <1>6, <2>6, <3>2, <3>3 DEF IInv, FillOK
  <2>8. Append(batch_queue[page][idx], r) \in Seq(Requests)
        /\ Append(batch_queue[page][idx], r) # <<>>
    <3>1. batch_queue[page][idx] \in Seq(Requests)
      BY <1>1, <2>4 DEF IInv, PageOK
    <3>2. QED
      BY <2>2, <3>1, AppendProperties
  <2>9. PageOK'
    <3>1. page = 1 - bq_page
      BY DEF page
    <3>2. batch_queue' \in [Bit -> [OpTypes -> Seq(Requests)]]
          /\ bq_state' \in [Bit -> SUBSET OpTypes]
      BY <1>1, <1>6, <2>4, <2>8 DEF IInv, PageOK
    <3>3. \A p \in Bit : \A o \in OpTypes : o \in bq_state'[p] <=> batch_queue'[p][o] # <<>>
      BY <1>1, <1>6, <2>4, <2>8 DEF IInv, PageOK
    <3>4. \A p \in Bit : p # page => bq_state'[p] = bq_state[p]
      BY <1>6 DEF IInv, PageOK
    <3>5. \A p \in Bit : p = page => Filling(p)'
      BY <1>1, <1>6, <3>1 DEF Filling
    <3>6. \A p \in Bit : Filling(p)' <=> Filling(p)
      BY <1>6 DEF Filling
    <3>7. \A p \in Bit : p \in bq_flags' => bq_state'[p] # {}
      BY <1>1, <1>6, <3>4 DEF IInv, PageOK
    <3>8. \A p \in Bit : bq_state'[p] # {} => p \in bq_flags' \/ Filling(p)'
      BY <1>6, <3>4, <3>5, <3>6 DEF IInv, PageOK
    <3>9. bq_flags' \subseteq Bit /\ bq_page' \in Bit
      BY <1>6 DEF IInv, PageOK
    <3>10. QED
      BY <3>2, <3>3, <3>7, <3>8, <3>9 DEF PageOK
  <2>10. CtlOK'
    <3>1. page = 1 - bq_page
      BY DEF page
    <3>2. bq_state'[page] # {} /\ fill'.count > 0
      BY <1>1, <1>6 DEF IInv, PageOK, FillOK
    <3>3. 1 - bq_page' \notin bq_flags' /\ bq_state'[1 - bq_page'] # {}
      BY <1>1, <1>6, <3>1, <3>2 DEF IInv, CtlOK
    <3>4. lock' \in CPUs \cup {NoOne, Oops}
      BY <1>6
    <3>5. QED
      BY <1>2, <1>3, <1>6, <3>2, <3>3, <3>4 DEF IInv, CtlOK
  <2>11. QED
    BY <1>4, <2>5, <2>7, <2>9, <2>10 DEF IInv
<1>7. QED
  BY <1>5, <1>6 DEF fill_batch_queues

\* The end of a fill: the page gets its bit when it has requests.
LEMMA FillBatchQueuesDone ==
  ASSUME IInv, NEW c \in CPUs, fill_batch_queues_done(c)
  PROVE  IInv'
<1> DEFINE page  == 1 - bq_page
           q     == batch_queue[page][1]
           flags == IF fill.count > 0 THEN bq_flags \cup {page} ELSE bq_flags
<1>1. pc[c] = "filled" /\ page \in Bit /\ 1 \in OpTypes
  BY DEF fill_batch_queues_done, IInv, PageOK, Bit, OpTypes
<1>2. PICK sorted \in IF bq_batch_order[page] = 1 /\ batch_count[page][1] > 1
                      THEN SortedByPos(q) ELSE {q} :
        pop_bq_request(c, fill.curHasRq, [batch_queue EXCEPT ![page][1] = sorted], flags)
  BY DEF fill_batch_queues_done
<1>3. q \in Seq(Requests)
  BY <1>1 DEF IInv, PageOK
<1>4. sorted \in Seq(Requests) /\ (sorted = <<>> <=> q = <<>>)
  <2> HIDE DEF q
  <2>1. QED
    BY <1>3, SortedType
<1> DEFINE bqs == [batch_queue EXCEPT ![page][1] = sorted]
<1>5. bqs \in [Bit -> [OpTypes -> Seq(Requests)]]
      /\ \A p \in Bit : \A o \in OpTypes : o \in bq_state[p] <=> bqs[p][o] # <<>>
  BY <1>1, <1>4 DEF IInv, PageOK
<1>6. flags \subseteq Bit /\ \A p \in Bit : p \in flags <=> bq_state[p] # {}
  <2>1. flags \subseteq Bit
    BY <1>1 DEF IInv, PageOK
  <2>2. page \in flags <=> bq_state[page] # {}
    BY <1>1 DEF IInv, CtlOK
  <2>3. bq_page \in flags <=> bq_state[bq_page] # {}
    <3>1. bq_page \in Bit /\ bq_page # page
      BY DEF IInv, PageOK, Bit
    <3>2. ~Filling(bq_page)
      BY <3>1 DEF Filling
    <3>3. QED
      BY <3>1, <3>2 DEF IInv, PageOK
  <2>4. \A p \in Bit : p = page \/ p = bq_page
    BY DEF IInv, PageOK, Bit
  <2> HIDE DEF flags, page
  <2>5. QED
    BY <2>1, <2>2, <2>3, <2>4
<1>7. UNCHANGED <<lock, local_list, dlVars, barVars, batchVars, modelVars, envVars,
                  prio_queue, pq_flags>>
  BY DEF fill_batch_queues_done
<1>8. RqOK' /\ PageOK' /\ ElvOK' /\ CtlOK'
  <2> HIDE DEF bqs, flags
  <2>1. pop_bq_request(c, fill.curHasRq, bqs, flags)
    BY <1>2 DEF bqs
  <2>2. QED
    BY <1>1, <1>5, <1>6, <1>7, <2>1, PopBqRequest
<1>9. DlOK' /\ BarOK' /\ FillOK' /\ ModelOK' /\ EnvOK'
  BY <1>7 DEF IInv, DlOK, BarOK, FillOK, ModelOK, EnvOK, TreesAgree, dlVars, barVars,
              batchVars, modelVars, envVars
<1>10. PqOK'
  <2>1. fill.count % CountSize \in Int /\ fill.added \in Int
    BY ModType, ConstantsAssumption DEF IInv, FillOK
  <2>2. QED
    BY <1>7, <2>1, AccountType DEF fill_batch_queues_done, IInv, PqOK
<1>11. QED
  BY <1>8, <1>9, <1>10 DEF IInv

\* release_barrier_requests: the first part, which splits barrier_queue.
LEMMA ReleaseBarrier ==
  ASSUME IInv, NEW c \in CPUs, release_barrier_requests(c)
  PROVE  IInv'
<1>1. pc[c] = "release" /\ lock = NoOne
      /\ UNCHANGED <<rq, dlVars, pageVars, batchVars, elvVars, modelVars, bq_lock, envVars>>
  BY DEF release_barrier_requests
<1>2. RqOK' /\ DlOK' /\ FillOK' /\ ElvOK' /\ ModelOK' /\ EnvOK'
  BY <1>1 DEF IInv, RqOK, DlOK, FillOK, ElvOK, ModelOK, EnvOK, TreesAgree, dlVars,
              batchVars, elvVars, modelVars, envVars
<1>3. \A d \in CPUs : pc[d] # "reinsert"
  BY <1>1, ConstantsAssumption DEF IInv, CtlOK
<1>4. PageOK'
  BY <1>1 DEF release_barrier_requests, IInv, PageOK, CtlOK, Filling, goto, pageVars
<1>5. CASE barrier_queue = <<>> /\ goto(c, "idle")
           /\ UNCHANGED <<prioVars, barVars, lock, local_list>>
  <2>1. PqOK' /\ BarOK'
    BY <1>5 DEF IInv, PqOK, BarOK, prioVars, barVars
  <2>2. CtlOK'
    BY <1>1, <1>5 DEF IInv, CtlOK, goto, Labels, pageVars, batchVars
  <2>3. QED
    BY <1>2, <1>4, <2>1, <2>2 DEF IInv
<1>6. ASSUME NEW n, NEW r, NEW rest, n = Followers, r = Head(barrier_queue),
             rest = SubSeq(barrier_queue, n + 2, Len(barrier_queue)),
             barrier_queue # <<>>,
             insert_to_prio_queue(r, rq[r].pred, 1),
             local_list' = SubSeq(barrier_queue, 2, n + 1),
             barrier_queue' = rest,
             bp_flag' = (rest # <<>> /\ bp_flag),
             lock' = IF n > 0 THEN c ELSE NoOne,
             goto(c, IF n > 0 THEN "reinsert" ELSE "pq")
      PROVE  IInv'
  <2>1. n \in 0..(Len(barrier_queue) - 1) /\ Len(barrier_queue) \in Nat \ {0}
        /\ barrier_queue \in Seq(Requests)
    BY <1>6, FollowersType, EmptySeq DEF IInv, BarOK
  <2>2. r \in Requests /\ rq[r].pred \in Nat
    BY <1>6, <2>1, HeadTailProperties DEF IInv, RqOK, RqType
  <2>3. PqOK'
    BY <1>6, <2>2, InsertToPrioQueue DEF IInv, Bit
  <2>4. rest \in Seq(Requests)
    BY <1>6, <2>1, ElementOfSeq, SubSeqProperties
  <2>5. BarOK'
    BY <1>6, <2>4 DEF IInv, BarOK
  <2>6. local_list' \in Seq(Requests) /\ Len(local_list') = n
    BY <1>6, <2>1, ElementOfSeq, SubSeqProperties
  <2>7. n > 0 => local_list' # <<>>
    BY <2>1, <2>6, EmptySeq
  <2>8. CtlOK'
    BY <1>1, <1>3, <1>6, <2>1, <2>6, <2>7
       DEF IInv, CtlOK, goto, Labels, pageVars, batchVars
  <2>9. QED
    BY <1>2, <1>4, <2>3, <2>5, <2>8 DEF IInv
<1>7. QED
  BY <1>5, <1>6 DEF release_barrier_requests

\* release_barrier_requests: one request of local_list.
LEMMA ReleaseLocalList ==
  ASSUME IInv, NEW c \in CPUs, release_local_list(c)
  PROVE  IInv'
<1>1. pc[c] = "reinsert" /\ lock = c /\ local_list # <<>> /\ local_list \in Seq(Requests)
  BY DEF release_local_list, IInv, CtlOK
<1>2. Head(local_list) \in Requests /\ Tail(local_list) \in Seq(Requests)
  BY <1>1, HeadTailProperties
<1>3. rq[Head(local_list)] \in RqType
  BY <1>2 DEF IInv, RqOK
<1>4. RqOK' /\ DlOK'
  BY <1>2, <1>3, MergeOrInsert DEF release_local_list, IInv
<1>5. PqOK' /\ BarOK' /\ FillOK' /\ ElvOK' /\ ModelOK' /\ EnvOK'
  BY DEF release_local_list, IInv, PqOK, BarOK, FillOK, ElvOK, ModelOK, EnvOK, prioVars,
         barVars, batchVars, elvVars, modelVars, envVars
<1>6. PageOK'
  BY <1>1 DEF release_local_list, IInv, PageOK, CtlOK, Filling, goto, pageVars
<1>7. \A d \in CPUs : pc[d] = "reinsert" => d = c
  BY <1>1 DEF IInv, CtlOK
<1>8. CtlOK'
  BY <1>1, <1>2, <1>7 DEF release_local_list, IInv, CtlOK, goto, Labels, pageVars, batchVars
<1>9. QED
  BY <1>4, <1>5, <1>6, <1>8 DEF IInv

\* Completion, and the steps that change parameters only.
LEMMA Completed ==
  ASSUME IInv, NEW r \in Requests, adios_completed_request(r)
  PROVE  IInv'
<1>1. RqOK'
  BY DEF adios_completed_request, IInv, RqOK, RqType, Statuses
<1>2. PqOK'
  <2>1. -rq[r].pred \in Int /\ -1 \in Int
    BY DEF IInv, RqOK, RqType
  <2>2. QED
    BY <2>1, AccountType DEF adios_completed_request, IInv, PqOK
<1>3. ModelOK'
  BY ConstantsAssumption DEF adios_completed_request, IInv, ModelOK
<1>4. DlOK' /\ BarOK' /\ FillOK' /\ ElvOK' /\ EnvOK'
  BY DEF adios_completed_request, IInv, DlOK, BarOK, FillOK, ElvOK, EnvOK, TreesAgree,
         dlVars, barVars, batchVars, elvVars, envVars
<1>5. PageOK' /\ CtlOK'
  BY DEF adios_completed_request, IInv, PageOK, CtlOK, Filling, pageVars, ctlVars,
         batchVars
<1>6. QED
  BY <1>1, <1>2, <1>3, <1>4, <1>5 DEF IInv

LEMMA Parameters ==
  ASSUME IInv, \/ \E o \in OpTypes, b \in Bases : latency_model_update(o, b)
               \/ \E o \in Bit : adios_batch_order_store(o)
  PROVE  IInv'
<1>1. UNCHANGED <<rq, prioVars, dlVars, barVars, pageVars, batchVars, elvVars, ctlVars>>
  BY DEF latency_model_update, adios_batch_order_store
<1>2. ModelOK' /\ EnvOK'
  BY ConstantsAssumption
     DEF latency_model_update, adios_batch_order_store, IInv, ModelOK, EnvOK, modelVars
<1>3. RqOK' /\ PqOK' /\ DlOK' /\ BarOK'
  BY <1>1 DEF IInv, RqOK, PqOK, DlOK, BarOK, TreesAgree, prioVars, dlVars, barVars
<1>4. FillOK' /\ ElvOK'
  BY <1>1 DEF IInv, FillOK, ElvOK, batchVars, elvVars
<1>5. PageOK' /\ CtlOK'
  BY <1>1 DEF IInv, PageOK, CtlOK, Filling, pageVars, ctlVars, batchVars
<1>6. QED
  BY <1>2, <1>3, <1>4, <1>5 DEF IInv

---------------------------------------------------------------------------
(* The theorems.                                                           *)

\* Empty queues with any base of the models satisfy the invariant.
LEMMA InitIInv ==
  ASSUME NEW stable \in BOOLEAN, NEW bases \in [OpTypes -> Nat], InitWith(stable, bases)
  PROVE  IInv
<1>1. <<>> \in Seq(Requests)
  BY EmptySeq
<1>2. RqOK
  BY DEF InitWith, RqOK, RqType, KindType, Ops, NoKind, Statuses
<1>3. PqOK
  BY <1>1, ConstantsAssumption DEF InitWith, PqOK
<1>4. DlOK
  BY <1>1 DEF InitWith, DlOK, TreesAgree
<1>5. BarOK /\ ElvOK /\ ModelOK
  <2>1. /\ barrier_queue = <<>> /\ bp_flag = FALSE /\ elv_direction = 0 /\ head_pos = 0
        /\ models_stable = stable /\ base = bases
    BY DEF InitWith
  <2>2. BarOK
    BY <1>1, <2>1, Zenon DEF BarOK
  <2>3. ElvOK
    BY <2>1 DEF ElvOK, Bit
  <2>4. ModelOK
    BY <2>1, Zenon DEF ModelOK
  <2>5. QED
    BY <2>2, <2>3, <2>4
<1>6. FillOK
  BY DEF InitWith, FillOK, Bit
<1>7. EnvOK
  <2>1. /\ inserted = 0 /\ batch_order = 0 /\ bio = FALSE
        /\ budget = [requeues |-> MaxRequeues, updates |-> MaxUpdates]
    BY DEF InitWith
  <2>2. inserted \in 0..MaxReq /\ batch_order \in Bit
    BY <2>1, ConstantsAssumption DEF Bit
  <2>3. budget \in [requeues : Nat, updates : Nat]
    BY <2>1, ConstantsAssumption
  <2>4. bio \in BOOLEAN
    BY <2>1, Zenon
  <2>5. QED
    BY <2>2, <2>3, <2>4 DEF EnvOK
<1>8. PageOK
  BY <1>1 DEF InitWith, PageOK, Bit
<1>9. CtlOK
  BY <1>1, ConstantsAssumption DEF InitWith, CtlOK, Labels
<1>10. QED
  BY <1>2, <1>3, <1>4, <1>5, <1>6, <1>7, <1>8, <1>9 DEF IInv

\* Every step of the scheduler preserves the invariant.
LEMMA NextIInv ==
  ASSUME IInv, [Next]_vars
  PROVE  IInv'
<1>1. ASSUME NEW k \in Kinds, adios_insert_requests(k) PROVE IInv'
  <2>1. inserted + 1 \in Requests /\ k \in KindType
    BY <1>1, ConstantsAssumption DEF adios_insert_requests, IInv, EnvOK, Requests
  <2>2. EnvOK'
    BY <1>1, <2>1 DEF adios_insert_requests, insert_request, IInv, EnvOK, Requests
  <2>3. QED
    BY <1>1, <2>1, <2>2, InsertRequest DEF adios_insert_requests, IInv
<1>2. ASSUME NEW r \in Requests, Requeue(r) PROVE IInv'
  <2>1. [rq[r].kind EXCEPT !.head = TRUE] \in KindType
    BY DEF IInv, RqOK, RqType, KindType
  <2>2. EnvOK'
    BY <1>2 DEF Requeue, insert_request, IInv, EnvOK
  <2>3. QED
    BY <1>2, <2>1, <2>2, InsertRequest DEF Requeue, IInv
<1>3. ASSUME NEW c \in CPUs, Dispatch(c) PROVE IInv'
  BY <1>3, MoveOn, DispatchFromPq, DispatchFromBq, FillBatchQueues, FillBatchQueuesDone,
     ReleaseBarrier, ReleaseLocalList DEF Dispatch
<1>4. CASE UNCHANGED vars
  <2>1. RqOK' /\ PqOK' /\ DlOK' /\ BarOK'
    BY <1>4 DEF IInv, RqOK, PqOK, DlOK, BarOK, TreesAgree, vars, prioVars, dlVars, barVars
  <2>2. FillOK' /\ ElvOK' /\ ModelOK' /\ EnvOK'
    BY <1>4 DEF IInv, FillOK, ElvOK, ModelOK, EnvOK, vars, batchVars, elvVars, modelVars,
                envVars
  <2>3. PageOK' /\ CtlOK'
    BY <1>4 DEF IInv, PageOK, CtlOK, Filling, vars, pageVars, ctlVars, batchVars
  <2>4. QED
    BY <2>1, <2>2, <2>3 DEF IInv
<1>5. QED
  BY <1>1, <1>2, <1>3, <1>4, BioMerge, BioMergeOops, Completed, Parameters DEF Next

\* The parts of the invariant are type correctness and the agreement of bits.
LEMMA IInvImplies ==
  ASSUME IInv
  PROVE  TypeOK /\ FlagsAgree
<1>1. TypeOK
  BY DEF IInv, RqOK, PqOK, DlOK, BarOK, PageOK, FillOK, ElvOK, ModelOK, EnvOK, CtlOK,
         TreesAgree, TypeOK
<1>2. FlagsAgree
  BY DEF IInv, PqOK, DlOK, BarOK, PageOK, TreesAgree, FlagsAgree
<1>3. QED
  BY <1>1, <1>2

\* From adios_init_sched on, with any number of CPUs and requests and any
\* tunables, ad->state tells exactly which queues hold requests.
THEOREM TypeCorrect == Spec => []TypeOK
<1>1. Init => IInv
  BY InitIInv DEF Init
<1>2. IInv /\ [Next]_vars => IInv'
  BY NextIInv
<1>3. IInv => TypeOK
  BY IInvImplies
<1>4. QED
  BY <1>1, <1>2, <1>3, PTL DEF Spec

\* The bits of ad->state say which queues hold requests, whatever CPUs insert,
\* dispatch, fill and release at once.
THEOREM FlagsAlwaysAgree == Spec => []FlagsAgree
<1>1. Init => IInv
  BY InitIInv DEF Init
<1>2. IInv /\ [Next]_vars => IInv'
  BY NextIInv
<1>3. IInv => FlagsAgree
  BY IInvImplies
<1>4. QED
  BY <1>1, <1>2, <1>3, PTL DEF Spec

\* The same from the quiescent scheduler with stable models that the runs
\* start from.
THEOREM WarmFlagsAlwaysAgree == WarmSpec => [](TypeOK /\ FlagsAgree)
<1>1. WarmInit => IInv
  <2> SUFFICES ASSUME NEW b \in Bases \ {0},
                      InitWith(TRUE, [o \in OpTypes |-> IF o = 3 THEN 0 ELSE b])
               PROVE  IInv
    BY DEF WarmInit
  <2>1. [o \in OpTypes |-> IF o = 3 THEN 0 ELSE b] \in [OpTypes -> Nat]
    BY ConstantsAssumption
  <2>2. QED
    BY <2>1, InitIInv
<1>2. IInv /\ [Next]_vars => IInv'
  BY NextIInv
<1>3. IInv => TypeOK /\ FlagsAgree
  BY IInvImplies
<1>4. QED
  BY <1>1, <1>2, <1>3, PTL DEF WarmSpec

---------------------------------------------------------------------------
(* Lists of distinct requests.                                             *)

\* What a list holds, by position.
LEMMA ElementsOf ==
  ASSUME NEW q \in Seq(Requests)
  PROVE  /\ Len(q) \in Nat /\ DOMAIN q = 1..Len(q)
         /\ \A k \in 1..Len(q) : q[k] \in Requests
         /\ \A x : x \in ToSet(q) <=> \E k \in 1..Len(q) : q[k] = x
BY LenProperties, ElementOfSeq DEF ToSet

\* A request put at the tail of a list it is not in.
LEMMA AppendDistinct ==
  ASSUME NEW q \in Seq(Requests), IsInjective(q), NEW r \in Requests, r \notin ToSet(q)
  PROVE  /\ Append(q, r) \in Seq(Requests) /\ IsInjective(Append(q, r))
         /\ ToSet(Append(q, r)) = ToSet(q) \cup {r}
<1> DEFINE t == Append(q, r)
<1>1. /\ t \in Seq(Requests) /\ Len(t) = Len(q) + 1 /\ Len(q) \in Nat
      /\ \A k \in 1..Len(q) : t[k] = q[k]
      /\ t[Len(q) + 1] = r
  BY AppendProperties, LenProperties
<1> HIDE DEF t
<1>2. \A x : x \in ToSet(t) <=> \E k \in 1..Len(t) : t[k] = x
  BY <1>1, ElementsOf
<1>3. \A x : x \in ToSet(q) <=> \E k \in 1..Len(q) : q[k] = x
  BY ElementsOf
<1>4. DOMAIN t = 1..Len(t) /\ DOMAIN q = 1..Len(q)
  BY <1>1, ElementsOf
<1>5. IsInjective(t)
  BY <1>1, <1>3, <1>4 DEF IsInjective
<1>6. ASSUME NEW x PROVE x \in ToSet(t) <=> x \in ToSet(q) \cup {r}
  BY <1>1, <1>2, <1>3
<1>7. QED
  BY <1>1, <1>5, <1>6 DEF t

\* A list of distinct requests without its head.
LEMMA TailDistinct ==
  ASSUME NEW q \in Seq(Requests), IsInjective(q), q # <<>>
  PROVE  /\ Head(q) \in ToSet(q) /\ Tail(q) \in Seq(Requests) /\ IsInjective(Tail(q))
         /\ ToSet(Tail(q)) = ToSet(q) \ {Head(q)}
<1> DEFINE t == Tail(q)
<1>1. /\ t \in Seq(Requests) /\ Len(t) = Len(q) - 1 /\ Len(q) \in Nat \ {0}
      /\ \A k \in 1..Len(t) : t[k] = q[k + 1]
      /\ Head(q) = q[1]
  BY HeadTailProperties, EmptySeq
<1> HIDE DEF t
<1>2. \A x : x \in ToSet(t) <=> \E k \in 1..Len(t) : t[k] = x
  BY <1>1, ElementsOf
<1>3. \A x : x \in ToSet(q) <=> \E k \in 1..Len(q) : q[k] = x
  BY ElementsOf
<1>4. DOMAIN t = 1..Len(t) /\ DOMAIN q = 1..Len(q)
  BY <1>1, ElementsOf
<1>5. IsInjective(t)
  <2> SUFFICES ASSUME NEW a \in 1..Len(t), NEW b \in 1..Len(t), t[a] = t[b]
               PROVE  a = b
    BY <1>4 DEF IsInjective
  <2>1. a + 1 \in 1..Len(q) /\ b + 1 \in 1..Len(q) /\ q[a + 1] = q[b + 1]
    BY <1>1
  <2>2. a + 1 = b + 1
    BY <1>4, <2>1 DEF IsInjective
  <2>3. QED
    BY <1>1, <2>2
<1>6. ASSUME NEW x PROVE x \in ToSet(t) <=> x \in ToSet(q) \ {Head(q)}
  <2>1. ASSUME x \in ToSet(t) PROVE x \in ToSet(q) \ {Head(q)}
    <3>1. PICK k \in 1..Len(t) : t[k] = x
      BY <1>2, <2>1
    <3>2. k + 1 \in 1..Len(q) /\ q[k + 1] = x /\ k + 1 # 1 /\ 1 \in 1..Len(q)
      BY <1>1, <3>1
    <3>3. q[k + 1] # q[1]
      BY <1>4, <3>2 DEF IsInjective
    <3>4. QED
      BY <1>1, <1>3, <3>2, <3>3
  <2>2. ASSUME x \in ToSet(q), x # Head(q) PROVE x \in ToSet(t)
    <3>1. PICK k \in 1..Len(q) : q[k] = x
      BY <1>3, <2>2
    <3>2. k - 1 \in 1..Len(t) /\ (k - 1) + 1 = k
      BY <1>1, <2>2, <3>1
    <3>3. QED
      BY <1>1, <1>2, <3>1, <3>2
  <2>3. QED
    BY <2>1, <2>2
<1>7. Head(q) \in ToSet(q)
  BY <1>1, <1>3
<1>8. QED
  BY <1>1, <1>5, <1>6, <1>7 DEF t

\* A list of distinct requests without its last one.
LEMMA FrontDistinct ==
  ASSUME NEW q \in Seq(Requests), IsInjective(q), q # <<>>
  PROVE  /\ Last(q) \in ToSet(q) /\ Front(q) \in Seq(Requests) /\ IsInjective(Front(q))
         /\ ToSet(Front(q)) = ToSet(q) \ {Last(q)}
<1> DEFINE t == Front(q)
<1>1. Len(q) \in Nat \ {0} /\ \A k \in 1..(Len(q) - 1) : q[k] \in Requests
  BY EmptySeq, ElementOfSeq
<1>2. /\ t \in Seq(Requests) /\ Len(t) = Len(q) - 1
      /\ \A k \in 1..Len(t) : t[k] = q[k]
  <2> DEFINE n == Len(q) - 1
  <2>1. n \in Nat /\ \A k \in 1..n : q[k] \in Requests
    BY <1>1
  <2>2. t = SubSeq(q, 1, n)
    BY DEF Front
  <2> HIDE DEF n, t
  <2>3. /\ SubSeq(q, 1, n) \in Seq(Requests)
        /\ Len(SubSeq(q, 1, n)) = IF 1 <= n THEN n - 1 + 1 ELSE 0
        /\ \A k \in 1..(n - 1 + 1) : SubSeq(q, 1, n)[k] = q[1 + k - 1]
    BY <2>1, SubSeqProperties
  <2>4. Len(t) = n
    BY <2>1, <2>2, <2>3
  <2>5. ASSUME NEW k \in 1..Len(t) PROVE t[k] = q[k]
    <3>1. k \in 1..(n - 1 + 1) /\ 1 + k - 1 = k
      BY <2>1, <2>4
    <3>2. QED
      BY <2>2, <2>3, <3>1
  <2>6. QED
    BY <2>2, <2>3, <2>4, <2>5 DEF n
<1> HIDE DEF t
<1>3. \A x : x \in ToSet(t) <=> \E k \in 1..Len(t) : t[k] = x
  BY <1>2, ElementsOf
<1>4. \A x : x \in ToSet(q) <=> \E k \in 1..Len(q) : q[k] = x
  BY ElementsOf
<1>5. DOMAIN t = 1..Len(t) /\ DOMAIN q = 1..Len(q)
  BY <1>2, ElementsOf
<1>6. IsInjective(t)
  BY <1>1, <1>2, <1>5 DEF IsInjective
<1>7. ASSUME NEW x PROVE x \in ToSet(t) <=> x \in ToSet(q) \ {Last(q)}
  <2>1. ASSUME x \in ToSet(t) PROVE x \in ToSet(q) \ {Last(q)}
    <3>1. PICK k \in 1..Len(t) : t[k] = x
      BY <1>3, <2>1
    <3>2. k \in 1..Len(q) /\ q[k] = x /\ k # Len(q) /\ Len(q) \in 1..Len(q)
      BY <1>1, <1>2, <3>1
    <3>3. QED
      BY <1>4, <1>5, <3>2 DEF IsInjective, Last
  <2>2. ASSUME x \in ToSet(q), x # Last(q) PROVE x \in ToSet(t)
    <3>1. PICK k \in 1..Len(q) : q[k] = x
      BY <1>4, <2>2
    <3>2. k \in 1..Len(t)
      BY <1>1, <1>2, <2>2, <3>1 DEF Last
    <3>3. QED
      BY <1>2, <1>3, <3>1, <3>2
  <2>3. QED
    BY <2>1, <2>2
<1>8. Last(q) \in ToSet(q)
  BY <1>1, <1>4 DEF Last
<1>9. QED
  BY <1>2, <1>6, <1>7, <1>8 DEF t

\* A part of a list of distinct requests.
LEMMA PartDistinct ==
  ASSUME NEW q \in Seq(Requests), IsInjective(q),
         NEW m \in 1..(Len(q) + 1), NEW n \in 0..Len(q)
  PROVE  /\ SubSeq(q, m, n) \in Seq(Requests) /\ IsInjective(SubSeq(q, m, n))
         /\ \A x : x \in ToSet(SubSeq(q, m, n)) <=> \E k \in m..n : q[k] = x
<1> DEFINE t == SubSeq(q, m, n)
<1>1. Len(q) \in Nat /\ \A k \in m..n : q[k] \in Requests
  BY ElementsOf
<1>2. /\ t \in Seq(Requests) /\ Len(t) = IF m <= n THEN n - m + 1 ELSE 0
      /\ \A k \in 1..(n - m + 1) : t[k] = q[m + k - 1]
  BY <1>1, SubSeqProperties
<1> HIDE DEF t
<1>3. \A x : x \in ToSet(t) <=> \E k \in 1..Len(t) : t[k] = x
  BY <1>2, ElementsOf
<1>4. DOMAIN t = 1..Len(t) /\ DOMAIN q = 1..Len(q)
  BY <1>2, ElementsOf
<1>5. IsInjective(t)
  <2> SUFFICES ASSUME NEW a \in 1..Len(t), NEW b \in 1..Len(t), t[a] = t[b]
               PROVE  a = b
    BY <1>4 DEF IsInjective
  <2>1. a \in 1..(n - m + 1) /\ b \in 1..(n - m + 1)
    BY <1>1, <1>2
  <2>2. m + a - 1 \in 1..Len(q) /\ m + b - 1 \in 1..Len(q)
    BY <1>1, <2>1
  <2>3. q[m + a - 1] = q[m + b - 1]
    BY <1>2, <2>1
  <2>4. m + a - 1 = m + b - 1
    BY <1>4, <2>2, <2>3 DEF IsInjective
  <2>5. QED
    BY <1>1, <2>1, <2>4
<1>6. ASSUME NEW x PROVE x \in ToSet(t) <=> \E k \in m..n : q[k] = x
  <2>1. ASSUME x \in ToSet(t) PROVE \E k \in m..n : q[k] = x
    <3>1. PICK a \in 1..Len(t) : t[a] = x
      BY <1>3, <2>1
    <3>2. a \in 1..(n - m + 1) /\ m + a - 1 \in m..n
      BY <1>1, <1>2, <3>1
    <3>3. QED
      BY <1>2, <3>1, <3>2
  <2>2. ASSUME NEW k \in m..n, q[k] = x PROVE x \in ToSet(t)
    <3>1. k - m + 1 \in 1..(n - m + 1) /\ m + (k - m + 1) - 1 = k /\ k - m + 1 \in 1..Len(t)
      BY <1>1, <1>2
    <3>2. t[k - m + 1] = x
      BY <1>2, <2>2, <3>1
    <3>3. QED
      BY <1>3, <3>1, <3>2
  <2>3. QED
    BY <2>1, <2>2
<1>7. QED
  BY <1>2, <1>5, <1>6 DEF t

\* Two lists of distinct requests with nothing in common, one after the other.
LEMMA ConcatDistinct ==
  ASSUME NEW s \in Seq(Requests), IsInjective(s), NEW t \in Seq(Requests), IsInjective(t),
         \A x : ~(x \in ToSet(s) /\ x \in ToSet(t))
  PROVE  /\ s \o t \in Seq(Requests) /\ IsInjective(s \o t)
         /\ ToSet(s \o t) = ToSet(s) \cup ToSet(t)
<1> DEFINE u == s \o t
           m == Len(s)
           n == Len(t)
<1>1. /\ u \in Seq(Requests) /\ Len(u) = m + n
      /\ \A k \in 1..(m + n) : u[k] = IF k <= m THEN s[k] ELSE t[k - m]
  BY ConcatProperties
<1>2. /\ \A x : x \in ToSet(s) <=> \E k \in 1..m : s[k] = x
      /\ DOMAIN s = 1..m /\ m \in Nat
  BY ElementsOf
<1>3. /\ \A x : x \in ToSet(t) <=> \E k \in 1..n : t[k] = x
      /\ DOMAIN t = 1..n /\ n \in Nat
  BY ElementsOf
<1> HIDE DEF u, m, n
<1>4. /\ \A x : x \in ToSet(u) <=> \E k \in 1..(m + n) : u[k] = x
      /\ DOMAIN u = 1..(m + n)
  BY <1>1, ElementsOf
<1>5. \A k \in 1..m : k \in 1..(m + n) /\ u[k] = s[k] /\ s[k] \in ToSet(s)
  BY <1>1, <1>2, <1>3
<1>6. ASSUME NEW k \in 1..n PROVE m + k \in 1..(m + n) /\ u[m + k] = t[k] /\ t[k] \in ToSet(t)
  <2>1. m + k \in 1..(m + n) /\ ~(m + k <= m) /\ (m + k) - m = k
    BY <1>2, <1>3
  <2>2. QED
    BY <1>1, <1>3, <2>1
<1>7. ASSUME NEW k \in 1..(m + n), k \notin 1..m
      PROVE  \E j \in 1..n : k = m + j
  <2>1. k - m \in 1..n /\ k = m + (k - m)
    BY <1>2, <1>3, <1>7
  <2>2. QED
    BY <2>1
<1>8. IsInjective(u)
  <2> SUFFICES ASSUME NEW a \in 1..(m + n), NEW b \in 1..(m + n), u[a] = u[b]
               PROVE  a = b
    BY <1>4 DEF IsInjective
  <2>1. CASE a \in 1..m /\ b \in 1..m
    BY <1>2, <1>5, <2>1 DEF IsInjective
  <2>2. CASE a \notin 1..m /\ b \notin 1..m
    <3>1. PICK i \in 1..n : a = m + i
      BY <1>7, <2>2
    <3>2. PICK j \in 1..n : b = m + j
      BY <1>7, <2>2
    <3>3. t[i] = t[j]
      BY <1>6, <3>1, <3>2
    <3>4. QED
      BY <1>3, <3>1, <3>2, <3>3 DEF IsInjective
  <2>3. CASE a \in 1..m /\ b \notin 1..m
    BY <1>5, <1>6, <1>7, <2>3
  <2>4. CASE a \notin 1..m /\ b \in 1..m
    BY <1>5, <1>6, <1>7, <2>4
  <2>5. QED
    BY <2>1, <2>2, <2>3, <2>4
<1>9. ASSUME NEW x PROVE x \in ToSet(u) <=> x \in ToSet(s) \/ x \in ToSet(t)
  <2>1. ASSUME x \in ToSet(u) PROVE x \in ToSet(s) \/ x \in ToSet(t)
    BY <1>4, <1>5, <1>6, <1>7, <2>1
  <2>2. ASSUME x \in ToSet(s) PROVE x \in ToSet(u)
    BY <1>2, <1>4, <1>5, <2>2
  <2>3. ASSUME x \in ToSet(t) PROVE x \in ToSet(u)
    BY <1>3, <1>4, <1>6, <2>3
  <2>4. QED
    BY <2>1, <2>2, <2>3
<1>10. QED
  BY <1>1, <1>8, <1>9 DEF u

\* A request put anywhere into a list it is not in.
LEMMA InsertAtDistinct ==
  ASSUME NEW q \in Seq(Requests), IsInjective(q), NEW r \in Requests, r \notin ToSet(q),
         NEW k \in 1..(Len(q) + 1)
  PROVE  /\ InsertAt(q, k, r) \in Seq(Requests) /\ IsInjective(InsertAt(q, k, r))
         /\ ToSet(InsertAt(q, k, r)) = ToSet(q) \cup {r}
<1> DEFINE n     == Len(q)
           front == SubSeq(q, 1, k - 1)
           one   == <<r>>
           rest  == SubSeq(q, k, n)
<1>1. n \in Nat /\ DOMAIN q = 1..n /\ \A x : x \in ToSet(q) <=> \E j \in 1..n : q[j] = x
  BY ElementsOf
<1>2. k - 1 \in 0..n /\ k \in 1..(n + 1) /\ 1 \in 1..(n + 1) /\ n \in 0..n
  BY <1>1
<1>3. /\ front \in Seq(Requests) /\ IsInjective(front)
      /\ \A x : x \in ToSet(front) <=> \E j \in 1..(k - 1) : q[j] = x
  BY <1>2, PartDistinct
<1>4. /\ rest \in Seq(Requests) /\ IsInjective(rest)
      /\ \A x : x \in ToSet(rest) <=> \E j \in k..n : q[j] = x
  BY <1>2, PartDistinct
<1>5. one \in Seq(Requests) /\ IsInjective(one) /\ \A x : x \in ToSet(one) <=> x = r
  BY DEF IsInjective, ToSet
<1>6. InsertAt(q, k, r) = (front \o one) \o rest
  BY DEF InsertAt
<1> HIDE DEF n, front, one, rest
<1>7. \A x : ~(x \in ToSet(front) /\ x \in ToSet(one))
  <2>1. \A j \in 1..(k - 1) : j \in 1..n
    BY <1>1, <1>2
  <2>2. QED
    BY <1>1, <1>3, <1>5, <2>1
<1>8. /\ front \o one \in Seq(Requests) /\ IsInjective(front \o one)
      /\ ToSet(front \o one) = ToSet(front) \cup ToSet(one)
  BY <1>3, <1>5, <1>7, ConcatDistinct
<1>9. \A x : ~(x \in ToSet(front \o one) /\ x \in ToSet(rest))
  <2>1. \A j \in k..n : j \in 1..n
    BY <1>1, <1>2
  <2>2. ASSUME NEW i \in 1..(k - 1), NEW j \in k..n PROVE q[i] # q[j]
    <3>1. i \in 1..n /\ j \in 1..n /\ i # j
      BY <1>1, <1>2
    <3>2. QED
      BY <1>1, <3>1 DEF IsInjective
  <2>3. \A x : ~(x \in ToSet(front) /\ x \in ToSet(rest))
    BY <1>3, <1>4, <2>2
  <2>4. \A x : ~(x \in ToSet(one) /\ x \in ToSet(rest))
    BY <1>1, <1>4, <1>5, <2>1
  <2>5. QED
    BY <1>8, <2>3, <2>4
<1>10. /\ (front \o one) \o rest \in Seq(Requests) /\ IsInjective((front \o one) \o rest)
       /\ ToSet((front \o one) \o rest) = ToSet(front \o one) \cup ToSet(rest)
  BY <1>4, <1>8, <1>9, ConcatDistinct
<1>11. \A x : x \in ToSet(q) <=> x \in ToSet(front) \/ x \in ToSet(rest)
  <2>1. \A j \in 1..n : j \in 1..(k - 1) \/ j \in k..n
    BY <1>1, <1>2
  <2>2. \A j \in 1..(k - 1) : j \in 1..n
    BY <1>1, <1>2
  <2>3. \A j \in k..n : j \in 1..n
    BY <1>1, <1>2
  <2>4. QED
    BY <1>1, <1>3, <1>4, <2>1, <2>2, <2>3
<1>12. \A x : x \in ToSet((front \o one) \o rest) <=> x \in ToSet(q) \/ x = r
  BY <1>5, <1>8, <1>10, <1>11
<1>13. ToSet((front \o one) \o rest) = ToSet(q) \cup {r}
  BY <1>12
<1>14. QED
  BY <1>6, <1>10, <1>13

\* A list of n different elements of a set of n elements has all of them.
LEMMA FullDistinct ==
  ASSUME NEW T, T \subseteq Requests, NEW s \in [1..Cardinality(T) -> T],
         \A i, j \in 1..Cardinality(T) : i < j => s[i] # s[j]
  PROVE  s \in Seq(Requests) /\ IsInjective(s) /\ ToSet(s) = T
<1> DEFINE n == Cardinality(T)
<1>1. IsFiniteSet(T) /\ n \in Nat
  <2>1. IsFiniteSet(Requests)
    BY FS_Interval, ConstantsAssumption DEF Requests
  <2>2. QED
    BY <2>1, FS_Subset, FS_CardinalityType
<1> HIDE DEF n
<1>2. s \in [1..n -> T] /\ \A i, j \in 1..n : i < j => s[i] # s[j]
  BY DEF n
<1>3. IsInjective(s)
  <2> SUFFICES ASSUME NEW i \in 1..n, NEW j \in 1..n, s[i] = s[j] PROVE i = j
    BY <1>2 DEF IsInjective
  <2>1. i < j \/ j < i \/ i = j
    BY <1>1
  <2>2. QED
    BY <1>2, <2>1
<1>4. IsFiniteSet(1..n) /\ Cardinality(1..n) = n
  BY <1>1, FS_Interval
<1>5. s \in Injection(1..n, T)
  BY <1>2, <1>3 DEF Injection
<1>6. s \in Surjection(1..n, T)
  BY <1>1, <1>4, <1>5, FS_Injection DEF n
<1>7. ToSet(s) = T
  <2>1. \A x : x \in ToSet(s) <=> \E i \in 1..n : s[i] = x
    BY <1>2 DEF ToSet
  <2>2. \A x \in T : \E i \in 1..n : s[i] = x
    BY <1>6 DEF Surjection
  <2>3. \A i \in 1..n : s[i] \in T
    BY <1>2
  <2>4. ASSUME NEW x PROVE x \in ToSet(s) <=> x \in T
    BY <2>1, <2>2, <2>3
  <2>5. QED
    BY <2>4
<1>8. s \in Seq(Requests)
  <2>1. s \in [1..n -> Requests]
    BY <1>2
  <2>2. QED
    BY <1>1, <2>1, SeqDef
<1>9. QED
  BY <1>3, <1>7, <1>8

\* What removal leaves is what was not removed.
LEMMA WithoutDistinct ==
  ASSUME NEW q \in Seq(Requests), IsInjective(q), NEW S, NEW s \in Without(q, S)
  PROVE  s \in Seq(Requests) /\ IsInjective(s) /\ ToSet(s) = ToSet(q) \ S
<1> DEFINE kept == ToSet(q) \ S
<1>1. kept \subseteq Requests
  BY ToSetType
<1>2. /\ s \in [1..Cardinality(kept) -> kept]
      /\ \A i, j \in DOMAIN s : i < j => Before(q, s[i], s[j])
  BY DEF Without
<1>3. ASSUME NEW a PROVE ~Before(q, a, a)
  <2>1. DOMAIN q = 1..Len(q) /\ Len(q) \in Nat
    BY ElementsOf
  <2>2. ASSUME NEW i \in DOMAIN q, NEW j \in DOMAIN q, i < j, q[i] = a, q[j] = a
        PROVE FALSE
    BY <2>1, <2>2 DEF IsInjective
  <2>3. QED
    BY <2>2 DEF Before
<1> HIDE DEF kept
<1>4. \A i, j \in 1..Cardinality(kept) : i < j => s[i] # s[j]
  BY <1>2, <1>3
<1>5. s \in Seq(Requests) /\ IsInjective(s) /\ ToSet(s) = kept
  BY <1>1, <1>2, <1>4, FullDistinct
<1>6. QED
  BY <1>5 DEF kept

\* Sorting keeps the requests of the list, each once.
LEMMA SortedDistinct ==
  ASSUME RqOK, NEW q \in Seq(Requests), IsInjective(q), NEW s \in SortedByPos(q)
  PROVE  s \in Seq(Requests) /\ IsInjective(s) /\ ToSet(s) = ToSet(q)
<1> DEFINE T == ToSet(q)
           n == Len(q)
<1>1. T \subseteq Requests /\ IsFiniteSet(T)
  BY ToSetType
<1>2. n \in Nat /\ DOMAIN q = 1..n /\ q \in [1..n -> T]
  BY ElementsOf, LenProperties DEF ToSet
<1>3. Cardinality(T) = n
  <2>1. q \in Surjection(1..n, T) /\ q \in Injection(1..n, T)
    BY <1>2 DEF Surjection, Injection, ToSet
  <2>2. IsFiniteSet(1..n) /\ Cardinality(1..n) = n
    BY <1>2, FS_Interval
  <2> HIDE DEF T, n
  <2>3. QED
    BY <2>1, <2>2, FS_Surjection
<1>4. ASSUME NEW a PROVE ~Before(q, a, a)
  <2>1. ASSUME NEW i \in DOMAIN q, NEW j \in DOMAIN q, i < j, q[i] = a, q[j] = a
        PROVE FALSE
    BY <1>2, <2>1 DEF IsInjective
  <2>2. QED
    BY <2>1 DEF Before
<1>5. s \in [1..n -> T]
  BY <1>2 DEF SortedByPos
<1>6. ASSUME NEW i \in 1..n, NEW j \in 1..n, i < j PROVE s[i] # s[j]
  <2>1. LET a == rq[s[i]].kind.pos
            b == rq[s[j]].kind.pos
        IN  a < b \/ (a = b /\ Before(q, s[i], s[j]))
    BY <1>5, <1>6 DEF SortedByPos
  <2>2. rq[s[i]].kind.pos \in Nat
    BY <1>1, <1>5 DEF RqOK, RqType, KindType
  <2>3. s[i] = s[j] => Before(q, s[i], s[i])
    BY <2>1, <2>2
  <2>4. QED
    BY <1>4, <2>3
<1> HIDE DEF T, n
<1>7. s \in Seq(Requests) /\ IsInjective(s) /\ ToSet(s) = T
  BY <1>1, <1>3, <1>5, <1>6, FullDistinct
<1>8. QED
  BY <1>7 DEF T

---------------------------------------------------------------------------
(* The lists of the scheduler taken together.                              *)

\* The list of a name, and every list by its name.
ListOf(n, pq, dl, bq, bar, loc) ==
  IF n[1] = "pq" THEN pq[n[2]]
  ELSE IF n[1] = "dl" THEN dl[n[2]]
  ELSE IF n[1] = "bq" THEN bq[n[2]][n[3]]
  ELSE IF n[1] = "barrier" THEN bar
  ELSE loc

ListsOf(pq, dl, bq, bar, loc) == [n \in QueueNames |-> ListOf(n, pq, dl, bq, bar, loc)]

\* The lists L with the list s in place of the one named n.
Put(L, n, s) == [L EXCEPT ![n] = s]

Lists == ListsOf(prio_queue, dl_tree, batch_queue, barrier_queue, local_list)

\* The requests of the set S are in the lists L, each at one place, and no
\* other request is.
Placed(L, S) ==
  /\ L \in [QueueNames -> Seq(Requests)]
  /\ \A n \in QueueNames : IsInjective(L[n])
  /\ \A n, m \in QueueNames : \A x : x \in ToSet(L[n]) /\ x \in ToSet(L[m]) => n = m
  /\ \A x : x \in S <=> \E n \in QueueNames : x \in ToSet(L[n])

Queued == {r \in Requests : rq[r].status = "queued"}

\* A list may be replaced by one that takes requests from nowhere but from
\* itself and from outside.
LEMMA Replace ==
  ASSUME NEW L, NEW S, Placed(L, S), NEW n \in QueueNames,
         NEW s \in Seq(Requests), IsInjective(s),
         \A x \in ToSet(s) : x \in ToSet(L[n]) \/ x \notin S
  PROVE  Placed(Put(L, n, s), (S \ ToSet(L[n])) \cup ToSet(s))
<1> DEFINE M == Put(L, n, s)
<1>1. L \in [QueueNames -> Seq(Requests)]
  BY DEF Placed
<1>2. M \in [QueueNames -> Seq(Requests)] /\ M[n] = s
      /\ \A m \in QueueNames : m # n => M[m] = L[m]
  BY <1>1 DEF Put
<1> HIDE DEF M
<1>3. \A m \in QueueNames : IsInjective(M[m])
  BY <1>2 DEF Placed
<1>4. ASSUME NEW m \in QueueNames, m # n, NEW x, x \in ToSet(L[m])
      PROVE  x \in S /\ x \notin ToSet(L[n]) /\ x \notin ToSet(s)
  BY <1>4 DEF Placed
<1>5. ASSUME NEW m \in QueueNames, NEW p \in QueueNames, NEW x,
             x \in ToSet(M[m]), x \in ToSet(M[p])
      PROVE  m = p
  <2>1. CASE m # n /\ p # n
    BY <1>2, <1>5, <2>1 DEF Placed
  <2>2. CASE m # n /\ p = n
    BY <1>2, <1>4, <1>5, <2>2
  <2>3. CASE m = n /\ p # n
    BY <1>2, <1>4, <1>5, <2>3
  <2>4. QED
    BY <2>1, <2>2, <2>3
<1>6. ASSUME NEW x
      PROVE  x \in (S \ ToSet(L[n])) \cup ToSet(s) <=> \E m \in QueueNames : x \in ToSet(M[m])
  <2>1. ASSUME NEW m \in QueueNames, x \in ToSet(M[m])
        PROVE  x \in (S \ ToSet(L[n])) \cup ToSet(s)
    BY <1>2, <1>4, <2>1
  <2>2. ASSUME x \in S, x \notin ToSet(L[n])
        PROVE  \E m \in QueueNames : x \in ToSet(M[m])
    <3>1. PICK m \in QueueNames : x \in ToSet(L[m])
      BY <2>2 DEF Placed
    <3>2. M[m] = L[m]
      BY <1>2, <2>2, <3>1
    <3>3. QED
      BY <3>1, <3>2
  <2>3. QED
    BY <1>2, <2>1, <2>2
<1>7. QED
  BY <1>2, <1>3, <1>5, <1>6 DEF Placed, M

\* A list may be changed into any list of the same requests.
LEMMA Reorder ==
  ASSUME NEW L, NEW S, Placed(L, S), NEW n \in QueueNames,
         NEW s \in Seq(Requests), IsInjective(s), ToSet(s) = ToSet(L[n])
  PROVE  Placed(Put(L, n, s), S)
<1>1. Placed(Put(L, n, s), (S \ ToSet(L[n])) \cup ToSet(s))
  BY Replace
<1>2. ToSet(L[n]) \subseteq S
  BY DEF Placed
<1>3. (S \ ToSet(L[n])) \cup ToSet(s) = S
  BY <1>2
<1>4. QED
  BY <1>1, <1>3

\* A request that is in no list may join one.
LEMMA Join ==
  ASSUME NEW L, NEW S, Placed(L, S), NEW n \in QueueNames, NEW r, r \notin S,
         NEW s \in Seq(Requests), IsInjective(s), ToSet(s) = ToSet(L[n]) \cup {r}
  PROVE  Placed(Put(L, n, s), S \cup {r})
<1>1. Placed(Put(L, n, s), (S \ ToSet(L[n])) \cup ToSet(s))
  BY Replace
<1>2. ToSet(L[n]) \subseteq S
  BY DEF Placed
<1>3. (S \ ToSet(L[n])) \cup ToSet(s) = S \cup {r}
  BY <1>2
<1>4. QED
  BY <1>1, <1>3

\* Requests of a list may leave it.
LEMMA Leave ==
  ASSUME NEW L, NEW S, Placed(L, S), NEW n \in QueueNames, NEW T, T \subseteq ToSet(L[n]),
         NEW s \in Seq(Requests), IsInjective(s), ToSet(s) = ToSet(L[n]) \ T
  PROVE  Placed(Put(L, n, s), S \ T)
<1>1. Placed(Put(L, n, s), (S \ ToSet(L[n])) \cup ToSet(s))
  BY Replace
<1>2. ToSet(L[n]) \subseteq S
  BY DEF Placed
<1>3. (S \ ToSet(L[n])) \cup ToSet(s) = S \ T
  BY <1>2
<1>4. QED
  BY <1>1, <1>3

\* The names of the lists.
PqName(i)    == <<"pq", i, 0>>
DlName(i)    == <<"dl", i, 0>>
BqName(p, o) == <<"bq", p, o>>
BarrierName  == <<"barrier", 0, 0>>
LocalName    == <<"local", 0, 0>>

LEMMA Names ==
  /\ \A i \in Bit : PqName(i) \in QueueNames /\ DlName(i) \in QueueNames
  /\ \A p \in Bit, o \in OpTypes : BqName(p, o) \in QueueNames
  /\ BarrierName \in QueueNames /\ LocalName \in QueueNames
  /\ \A n \in QueueNames :
       \/ \E i \in Bit : n = PqName(i)
       \/ \E i \in Bit : n = DlName(i)
       \/ \E p \in Bit, o \in OpTypes : n = BqName(p, o)
       \/ n = BarrierName
       \/ n = LocalName
<1>1. \A i \in Bit : PqName(i) \in QueueNames
  BY DEF QueueNames, PqName
<1>2. \A i \in Bit : DlName(i) \in QueueNames
  BY DEF QueueNames, DlName
<1>3. \A p \in Bit, o \in OpTypes : BqName(p, o) \in QueueNames
  BY DEF QueueNames, BqName
<1>4. BarrierName \in QueueNames /\ LocalName \in QueueNames
  BY DEF QueueNames, BarrierName, LocalName
<1>5. \A n \in QueueNames :
        \/ \E i \in Bit : n = PqName(i)
        \/ \E i \in Bit : n = DlName(i)
        \/ \E p \in Bit, o \in OpTypes : n = BqName(p, o)
        \/ n = BarrierName
        \/ n = LocalName
  BY DEF QueueNames, PqName, DlName, BqName, BarrierName, LocalName
<1>6. QED
  BY <1>1, <1>2, <1>3, <1>4, <1>5

\* What each name stands for.
LEMMA ListAt ==
  ASSUME NEW pq, NEW dl, NEW bq, NEW bar, NEW loc
  PROVE  LET L == ListsOf(pq, dl, bq, bar, loc)
         IN  /\ \A i \in Bit : L[PqName(i)] = pq[i] /\ L[DlName(i)] = dl[i]
             /\ \A p \in Bit, o \in OpTypes : L[BqName(p, o)] = bq[p][o]
             /\ L[BarrierName] = bar /\ L[LocalName] = loc
BY Names DEF ListsOf, ListOf, PqName, DlName, BqName, BarrierName, LocalName

\* A change of a priority queue.
LEMMA PqList ==
  ASSUME NEW pq, NEW new, NEW dl, NEW bq, NEW bar, NEW loc, NEW i \in Bit,
         \A j \in Bit : j # i => new[j] = pq[j]
  PROVE  ListsOf(new, dl, bq, bar, loc) = Put(ListsOf(pq, dl, bq, bar, loc), PqName(i), new[i])
<1>1. ASSUME NEW n \in QueueNames
      PROVE  ListOf(n, new, dl, bq, bar, loc)
               = IF n = PqName(i) THEN new[i] ELSE ListOf(n, pq, dl, bq, bar, loc)
  <2>1. CASE \E j \in Bit : n = PqName(j)
    BY <2>1 DEF ListOf, PqName, DlName, BqName, BarrierName, LocalName
  <2>2. CASE \E j \in Bit : n = DlName(j)
    BY <2>2 DEF ListOf, PqName, DlName, BqName, BarrierName, LocalName
  <2>3. CASE \E j \in Bit, k \in OpTypes : n = BqName(j, k)
    BY <2>3 DEF ListOf, PqName, DlName, BqName, BarrierName, LocalName
  <2>4. CASE n = BarrierName \/ n = LocalName
    BY <2>4 DEF ListOf, PqName, DlName, BqName, BarrierName, LocalName
  <2>5. QED
    BY <2>1, <2>2, <2>3, <2>4, Names
<1>2. QED
  BY <1>1, Names DEF ListsOf, Put

\* A change of a deadline tree.
LEMMA DlList ==
  ASSUME NEW dl, NEW new, NEW pq, NEW bq, NEW bar, NEW loc, NEW i \in Bit,
         \A j \in Bit : j # i => new[j] = dl[j]
  PROVE  ListsOf(pq, new, bq, bar, loc) = Put(ListsOf(pq, dl, bq, bar, loc), DlName(i), new[i])
<1>1. ASSUME NEW n \in QueueNames
      PROVE  ListOf(n, pq, new, bq, bar, loc)
               = IF n = DlName(i) THEN new[i] ELSE ListOf(n, pq, dl, bq, bar, loc)
  <2>1. CASE \E j \in Bit : n = PqName(j)
    BY <2>1 DEF ListOf, PqName, DlName, BqName, BarrierName, LocalName
  <2>2. CASE \E j \in Bit : n = DlName(j)
    BY <2>2 DEF ListOf, PqName, DlName, BqName, BarrierName, LocalName
  <2>3. CASE \E j \in Bit, k \in OpTypes : n = BqName(j, k)
    BY <2>3 DEF ListOf, PqName, DlName, BqName, BarrierName, LocalName
  <2>4. CASE n = BarrierName \/ n = LocalName
    BY <2>4 DEF ListOf, PqName, DlName, BqName, BarrierName, LocalName
  <2>5. QED
    BY <2>1, <2>2, <2>3, <2>4, Names
<1>2. QED
  BY <1>1, Names DEF ListsOf, Put

\* A change of a batch queue.
OnlyAt(p, o, s, bq, new) ==
  /\ p \in Bit /\ o \in OpTypes /\ new[p][o] = s
  /\ \A j \in Bit, k \in OpTypes : j # p \/ k # o => new[j][k] = bq[j][k]

\* The lists after it.
LEMMA BqList ==
  ASSUME NEW bq, NEW new, NEW pq, NEW dl, NEW bar, NEW loc, NEW p, NEW o, NEW s,
         OnlyAt(p, o, s, bq, new)
  PROVE  ListsOf(pq, dl, new, bar, loc)
           = Put(ListsOf(pq, dl, bq, bar, loc), BqName(p, o), s)
<1>1. ASSUME NEW n \in QueueNames
      PROVE  ListOf(n, pq, dl, new, bar, loc)
               = IF n = BqName(p, o) THEN s ELSE ListOf(n, pq, dl, bq, bar, loc)
  <2>1. CASE \E j \in Bit : n = PqName(j)
    BY <2>1 DEF ListOf, PqName, DlName, BqName, BarrierName, LocalName
  <2>2. CASE \E j \in Bit : n = DlName(j)
    BY <2>2 DEF ListOf, PqName, DlName, BqName, BarrierName, LocalName
  <2>3. CASE \E j \in Bit, k \in OpTypes : n = BqName(j, k)
    BY <2>3 DEF OnlyAt, ListOf, PqName, DlName, BqName, BarrierName, LocalName
  <2>4. CASE n = BarrierName \/ n = LocalName
    BY <2>4 DEF ListOf, PqName, DlName, BqName, BarrierName, LocalName
  <2>5. QED
    BY <2>1, <2>2, <2>3, <2>4, Names
<1>2. QED
  BY <1>1, Names DEF OnlyAt, ListsOf, Put

\* A change of the barrier queue.
LEMMA BarrierList ==
  ASSUME NEW pq, NEW dl, NEW bq, NEW bar, NEW new, NEW loc
  PROVE  ListsOf(pq, dl, bq, new, loc) = Put(ListsOf(pq, dl, bq, bar, loc), BarrierName, new)
<1>1. ASSUME NEW n \in QueueNames
      PROVE  ListOf(n, pq, dl, bq, new, loc)
               = IF n = BarrierName THEN new ELSE ListOf(n, pq, dl, bq, bar, loc)
  <2>1. CASE \E j \in Bit : n = PqName(j)
    BY <2>1 DEF ListOf, PqName, DlName, BqName, BarrierName, LocalName
  <2>2. CASE \E j \in Bit : n = DlName(j)
    BY <2>2 DEF ListOf, PqName, DlName, BqName, BarrierName, LocalName
  <2>3. CASE \E j \in Bit, k \in OpTypes : n = BqName(j, k)
    BY <2>3 DEF ListOf, PqName, DlName, BqName, BarrierName, LocalName
  <2>4. CASE n = BarrierName \/ n = LocalName
    BY <2>4 DEF ListOf, PqName, DlName, BqName, BarrierName, LocalName
  <2>5. QED
    BY <2>1, <2>2, <2>3, <2>4, Names
<1>2. QED
  BY <1>1, Names DEF ListsOf, Put

\* A change of the list of requests being reinserted.
LEMMA LocalList ==
  ASSUME NEW pq, NEW dl, NEW bq, NEW bar, NEW loc, NEW new
  PROVE  ListsOf(pq, dl, bq, bar, new) = Put(ListsOf(pq, dl, bq, bar, loc), LocalName, new)
<1>1. ASSUME NEW n \in QueueNames
      PROVE  ListOf(n, pq, dl, bq, bar, new)
               = IF n = LocalName THEN new ELSE ListOf(n, pq, dl, bq, bar, loc)
  <2>1. CASE \E j \in Bit : n = PqName(j)
    BY <2>1 DEF ListOf, PqName, DlName, BqName, BarrierName, LocalName
  <2>2. CASE \E j \in Bit : n = DlName(j)
    BY <2>2 DEF ListOf, PqName, DlName, BqName, BarrierName, LocalName
  <2>3. CASE \E j \in Bit, k \in OpTypes : n = BqName(j, k)
    BY <2>3 DEF ListOf, PqName, DlName, BqName, BarrierName, LocalName
  <2>4. CASE n = BarrierName \/ n = LocalName
    BY <2>4 DEF ListOf, PqName, DlName, BqName, BarrierName, LocalName
  <2>5. QED
    BY <2>1, <2>2, <2>3, <2>4, Names
<1>2. QED
  BY <1>1, Names DEF ListsOf, Put

---------------------------------------------------------------------------
(* The invariant, and what the operations on the lists do to it.           *)

\* Each queued request is in one list, at one position.
PlaceOK == Placed(Lists, Queued)

\* A request the block layer has not inserted yet is new, so that the request
\* it inserts next is in no list.
NewOK == \A r \in Requests : rq[r].status # "new" => r <= inserted

\* Only the CPU in the reinsertion loop has a local list, so that a release
\* that starts does not overwrite another one's.
LocalOK == local_list # <<>> => \E c \in CPUs : pc[c] = "reinsert"

QInv == IInv /\ PlaceOK /\ NewOK /\ LocalOK

\* A change of the status of one request.
LEMMA QueuedChange ==
  ASSUME NEW r \in Requests,
         \A q \in Requests \ {r} : rq'[q].status = rq[q].status
  PROVE  Queued' = IF rq'[r].status = "queued" THEN Queued \cup {r} ELSE Queued \ {r}
<1>1. \A q : q \in Queued' <=> q \in Requests /\ rq'[q].status = "queued"
  BY DEF Queued
<1>2. \A q : q \in Queued <=> q \in Requests /\ rq[q].status = "queued"
  BY DEF Queued
<1>3. QED
  BY <1>1, <1>2

\* Statuses that change are not those of new requests.
LEMMA NewKept ==
  ASSUME NewOK, inserted' = inserted,
         \A q \in Requests : rq'[q].status # rq[q].status => rq[q].status # "new"
  PROVE  NewOK'
BY DEF NewOK

\* insert_to_prio_queue, for a request that is in no list.
LEMMA PlacedInPq ==
  ASSUME PqOK, PlaceOK, NEW r \in Requests, r \notin Queued, NEW pred, NEW i \in Bit,
         insert_to_prio_queue(r, pred, i),
         UNCHANGED <<dl_tree, batch_queue, barrier_queue, local_list>>
  PROVE  Placed(Lists', Queued \cup {r})
<1> DEFINE q == Append(prio_queue[i], r)
<1>1. /\ Lists[PqName(i)] = prio_queue[i] /\ PqName(i) \in QueueNames
      /\ Lists' = Put(Lists, PqName(i), q)
  <2>1. prio_queue'[i] = q /\ \A j \in Bit : j # i => prio_queue'[j] = prio_queue[j]
    BY DEF PqOK, insert_to_prio_queue
  <2> HIDE DEF q
  <2>2. Lists' = ListsOf(prio_queue', dl_tree, batch_queue, barrier_queue, local_list)
    BY DEF Lists
  <2>3. Lists' = Put(Lists, PqName(i), prio_queue'[i])
    BY <2>1, <2>2, PqList DEF Lists
  <2>4. QED
    BY <2>1, <2>3, Names, ListAt DEF Lists
<1>2. prio_queue[i] \in Seq(Requests) /\ IsInjective(prio_queue[i])
      /\ r \notin ToSet(prio_queue[i])
  BY <1>1 DEF PlaceOK, Placed, PqOK
<1>3. q \in Seq(Requests) /\ IsInjective(q) /\ ToSet(q) = ToSet(prio_queue[i]) \cup {r}
  BY <1>2, AppendDistinct
<1> HIDE DEF q
<1>4. Placed(Put(Lists, PqName(i), q), Queued \cup {r})
  BY <1>1, <1>3, Join DEF PlaceOK
<1>5. QED
  BY <1>1, <1>4

\* add_to_dl_tree, for a request that is in no list: it is in its tree then,
\* or nowhere.
LEMMA PlacedInDl ==
  ASSUME RqOK, NEW r \in Requests, NEW n \in RqType, n.status = "queued",
         NEW tree, NEW flags, TreesAgree(tree, flags), NEW loc, NEW S, r \notin S,
         Placed(ListsOf(prio_queue, tree, batch_queue, barrier_queue, loc), S),
         add_to_dl_tree(r, n, tree, flags)
  PROVE  /\ \A q \in Requests \ {r} : rq'[q] = rq[q]
         /\ \/ /\ rq'[r].status = "queued"
               /\ Placed(ListsOf(prio_queue, dl_tree', batch_queue, barrier_queue, loc),
                         S \cup {r})
            \/ /\ rq'[r].status = "lost"
               /\ Placed(ListsOf(prio_queue, dl_tree', batch_queue, barrier_queue, loc), S)
<1> DEFINE i    == DlIdx(n.kind)
           d    == Deadline(n)
           upTo == {j \in DOMAIN tree[i] : Key(rq[tree[i][j]].deadline) <= Key(d)}
           new  == InsertAt(tree[i], Cardinality(upTo) + 1, r)
           L    == ListsOf(prio_queue, tree, batch_queue, barrier_queue, loc)
<1>1. i \in Bit
  BY IndexTypes DEF RqType
<1>2. tree \in [Bit -> Seq(Requests)] /\ tree[i] \in Seq(Requests)
      /\ Len(tree[i]) \in Nat /\ DOMAIN tree[i] = 1..Len(tree[i])
  BY <1>1, LenProperties DEF TreesAgree
<1>3. Cardinality(upTo) + 1 \in 1..(Len(tree[i]) + 1)
  <2>1. IsFiniteSet(1..Len(tree[i])) /\ Cardinality(1..Len(tree[i])) = Len(tree[i])
    BY <1>2, FS_Interval
  <2>2. upTo \in SUBSET (1..Len(tree[i]))
    BY <1>2
  <2> HIDE DEF upTo
  <2>3. IsFiniteSet(upTo) /\ Cardinality(upTo) <= Len(tree[i])
    BY <2>1, <2>2, FS_Subset
  <2>4. Cardinality(upTo) \in Nat
    BY <2>3, FS_CardinalityType
  <2>5. QED
    BY <1>2, <2>3, <2>4
<1>4. /\ DlName(i) \in QueueNames /\ L[DlName(i)] = tree[i]
      /\ \A t : /\ t[i] = new /\ \A j \in Bit : j # i => t[j] = tree[j]
              => ListsOf(prio_queue, t, batch_queue, barrier_queue, loc)
                   = Put(L, DlName(i), new)
  <2> HIDE DEF i, new
  <2>1. DlName(i) \in QueueNames /\ L[DlName(i)] = tree[i]
    BY <1>1, Names, ListAt
  <2>2. ASSUME NEW t, t[i] = new, \A j \in Bit : j # i => t[j] = tree[j]
        PROVE  ListsOf(prio_queue, t, batch_queue, barrier_queue, loc)
                 = Put(L, DlName(i), t[i])
    BY <1>1, <2>2, DlList
  <2> HIDE DEF L
  <2>3. QED
    BY <2>1, <2>2
<1>5. IsInjective(tree[i]) /\ r \notin ToSet(tree[i])
  BY <1>4 DEF Placed
<1>6. new \in Seq(Requests) /\ IsInjective(new) /\ ToSet(new) = ToSet(tree[i]) \cup {r}
  <2> HIDE DEF upTo, i
  <2>1. QED
    BY <1>2, <1>3, <1>5, InsertAtDistinct
<1>7. CASE /\ dl_tree' = [tree EXCEPT ![i] = new]
           /\ rq' = [rq EXCEPT ![r] = [n EXCEPT !.deadline = d]]
  <2> HIDE DEF new, i, d, L
  <2>1. Placed(Put(L, DlName(i), new), S \cup {r})
    <3>1. Placed(L, S)
      BY DEF L
    <3>2. QED
      BY <1>4, <1>6, <3>1, Join
  <2>2. rq'[r].status = "queued" /\ \A q \in Requests \ {r} : rq'[q] = rq[q]
    BY <1>7 DEF RqOK, RqType
  <2>3. dl_tree'[i] = new /\ \A j \in Bit : j # i => dl_tree'[j] = tree[j]
    BY <1>1, <1>2, <1>7
  <2>4. ListsOf(prio_queue, dl_tree', batch_queue, barrier_queue, loc)
          = Put(L, DlName(i), new)
    BY <1>4, <2>3
  <2>5. QED
    BY <2>1, <2>2, <2>4
<1>8. CASE /\ dl_tree' = tree
           /\ rq' = [rq EXCEPT ![r] = [n EXCEPT !.deadline = d, !.status = "lost"]]
  <2> HIDE DEF new, i, d, L
  <2>1. rq'[r].status = "lost" /\ \A q \in Requests \ {r} : rq'[q] = rq[q]
    BY <1>8 DEF RqOK, RqType
  <2>2. QED
    BY <1>8, <2>1
<1>9. QED
  BY <1>7, <1>8 DEF add_to_dl_tree

\* Taking requests out of a tree.
LEMMA PlacedWithout ==
  ASSUME DlOK, NEW i \in Bit, NEW T, NEW S, S \cap T \subseteq ToSet(dl_tree[i]),
         NEW rest \in Without(dl_tree[i], T), NEW loc,
         Placed(ListsOf(prio_queue, dl_tree, batch_queue, barrier_queue, loc), S),
         NEW tree, tree[i] = rest, \A j \in Bit : j # i => tree[j] = dl_tree[j]
  PROVE  Placed(ListsOf(prio_queue, tree, batch_queue, barrier_queue, loc), S \ T)
<1> DEFINE L == ListsOf(prio_queue, dl_tree, batch_queue, barrier_queue, loc)
<1>1. /\ DlName(i) \in QueueNames /\ L[DlName(i)] = dl_tree[i]
      /\ ListsOf(prio_queue, tree, batch_queue, barrier_queue, loc)
           = Put(L, DlName(i), rest)
  <2>1. DlName(i) \in QueueNames /\ L[DlName(i)] = dl_tree[i]
    BY Names, ListAt
  <2>2. ListsOf(prio_queue, tree, batch_queue, barrier_queue, loc)
           = Put(L, DlName(i), tree[i])
    BY DlList
  <2> HIDE DEF L
  <2>3. QED
    BY <2>1, <2>2
<1>2. dl_tree[i] \in Seq(Requests) /\ IsInjective(dl_tree[i])
  BY <1>1 DEF Placed, DlOK, TreesAgree
<1> DEFINE taken == T \cap ToSet(dl_tree[i])
<1>3. rest \in Seq(Requests) /\ IsInjective(rest) /\ ToSet(rest) = ToSet(dl_tree[i]) \ taken
  <2>1. ToSet(rest) = ToSet(dl_tree[i]) \ T
    BY <1>2, WithoutDistinct
  <2>2. QED
    BY <1>2, <2>1, WithoutDistinct
<1>4. Placed(L, S) /\ S \ T = S \ taken /\ taken \subseteq ToSet(dl_tree[i])
  OBVIOUS
<1> HIDE DEF L, taken
<1>5. Placed(Put(L, DlName(i), rest), S \ T)
  BY <1>1, <1>3, <1>4, Leave
<1>6. QED
  BY <1>1, <1>5

\* The requests that the block layer may merge something into.
Known == {q \in Requests : rq[q].status \in {"queued", "lost"}}

\* Those are queued in the tree, or lost.
LEMMA MergeableType ==
  ASSUME NEW i \in Bit, NEW loc, NEW S \in SUBSET Queued,
         Placed(ListsOf(prio_queue, dl_tree, batch_queue, barrier_queue, loc), S)
  PROVE  /\ Mergeable(i) \subseteq Known
         /\ S \cap Mergeable(i) \subseteq ToSet(dl_tree[i])
<1> DEFINE L == ListsOf(prio_queue, dl_tree, batch_queue, barrier_queue, loc)
<1>1. DlName(i) \in QueueNames /\ L[DlName(i)] = dl_tree[i]
  BY Names, ListAt
<1> HIDE DEF L
<1>2. \A x : x \in ToSet(L[DlName(i)]) => x \in S
  BY <1>1 DEF Placed, L
<1>3. ToSet(dl_tree[i]) \subseteq S
  BY <1>1, <1>2
<1>4. ASSUME NEW q \in Mergeable(i)
      PROVE  q \in Known /\ (q \in S => q \in ToSet(dl_tree[i]))
  BY <1>3, <1>4 DEF Mergeable, Known, Queued
<1>5. QED
  BY <1>4

\* merge_or_insert_to_dl_tree, for a request that is in no list: afterwards the
\* lists hold what is queued.
LEMMA PlacedOrMerged ==
  ASSUME RqOK, DlOK, NEW r \in Requests, NEW n \in RqType, n.status = "queued", NEW loc,
         Placed(ListsOf(prio_queue, dl_tree, batch_queue, barrier_queue, loc),
                Queued \ {r}),
         merge_or_insert_to_dl_tree(r, n)
  PROVE  /\ Placed(ListsOf(prio_queue, dl_tree', batch_queue, barrier_queue, loc), Queued')
         /\ \A q \in Requests \ {r} : rq'[q].status # rq[q].status => q \in Known
<1> DEFINE i == DlIdx(n.kind)
<1>1. i \in Bit
  BY IndexTypes DEF RqType
<1>2. CASE add_to_dl_tree(r, n, dl_tree, dl_flags)
  <2> DEFINE P(S) == Placed(ListsOf(prio_queue, dl_tree', batch_queue, barrier_queue, loc), S)
  <2>1. TreesAgree(dl_tree, dl_flags) /\ r \notin Queued \ {r}
    BY DEF DlOK
  <2>2. /\ \A q \in Requests \ {r} : rq'[q] = rq[q]
        /\ \/ rq'[r].status = "queued" /\ P((Queued \ {r}) \cup {r})
           \/ rq'[r].status = "lost" /\ P(Queued \ {r})
    BY <1>2, <2>1, PlacedInDl
  <2>3. Queued' = IF rq'[r].status = "queued" THEN Queued \cup {r} ELSE Queued \ {r}
    BY <2>2, QueuedChange
  <2>4. P(Queued')
    <3>1. (Queued \ {r}) \cup {r} = Queued \cup {r}
      OBVIOUS
    <3> HIDE DEF P
    <3>2. QED
      BY <2>2, <2>3, <3>1
  <2>5. QED
    BY <2>2, <2>4
<1>3. ASSUME NEW T \in SUBSET Mergeable(i), remove_request(i, T),
             rq' = [q \in Requests |->
                     IF q = r THEN [n EXCEPT !.status = "merged"]
                     ELSE IF q \in T THEN [rq[q] EXCEPT !.status = "merged"]
                     ELSE rq[q]]
      PROVE  /\ Placed(ListsOf(prio_queue, dl_tree', batch_queue, barrier_queue, loc),
                       Queued')
             /\ \A q \in Requests \ {r} : rq'[q].status # rq[q].status => q \in Known
  <2> HIDE DEF i
  <2>1. T \subseteq Known /\ (Queued \ {r}) \cap T \subseteq ToSet(dl_tree[i])
    <3>1. Queued \ {r} \in SUBSET Queued
      OBVIOUS
    <3>2. Mergeable(i) \subseteq Known
          /\ (Queued \ {r}) \cap Mergeable(i) \subseteq ToSet(dl_tree[i])
      BY <1>1, <3>1, MergeableType
    <3>3. QED
      BY <3>2
  <2>2. PICK rest \in Without(dl_tree[i], T) : dl_tree' = [dl_tree EXCEPT ![i] = rest]
    BY <1>3 DEF remove_request
  <2>3. Placed(ListsOf(prio_queue, dl_tree', batch_queue, barrier_queue, loc),
               (Queued \ {r}) \ T)
    <3>1. dl_tree'[i] = rest /\ \A j \in Bit : j # i => dl_tree'[j] = dl_tree[j]
      BY <1>1, <2>2 DEF DlOK, TreesAgree
    <3>2. QED
      BY <1>1, <2>1, <3>1, PlacedWithout
  <2>4. \A q \in Requests : rq'[q].status = IF q = r \/ q \in T THEN "merged" ELSE rq[q].status
    BY <1>3 DEF RqOK, RqType
  <2>5. Queued' = (Queued \ {r}) \ T
    <3>1. \A q : q \in Queued' <=> q \in Requests /\ rq'[q].status = "queued"
      BY DEF Queued
    <3>2. \A q : q \in Queued <=> q \in Requests /\ rq[q].status = "queued"
      BY DEF Queued
    <3>3. QED
      BY <2>4, <3>1, <3>2
  <2>6. QED
    BY <2>1, <2>3, <2>4, <2>5
<1>4. QED
  BY <1>2, <1>3 DEF merge_or_insert_to_dl_tree

---------------------------------------------------------------------------
(* Each action keeps every queued request in one place.                    *)

\* What the actions below have to show.
Kept == PlaceOK' /\ NewOK' /\ LocalOK'

\* A request in a list is queued.
LEMMA InListQueued ==
  ASSUME PlaceOK, NEW n \in QueueNames, NEW r \in ToSet(Lists[n])
  PROVE  r \in Queued /\ r \in Requests /\ rq[r].status = "queued"
BY DEF PlaceOK, Placed, Queued

\* insert_request, for a request that is in no list.
LEMMA InsertPlaces ==
  ASSUME QInv, NEW r \in Requests, r \notin Queued, NEW k \in KindType,
         insert_request(r, k)
  PROVE  /\ PlaceOK' /\ LocalOK'
         /\ \A q \in Requests \ {r} : rq'[q].status # rq[q].status => q \in Known
<1> DEFINE n == [kind |-> k, pred |-> base[OpType(k)], deadline |-> 0,
                 status |-> "queued", gated |-> models_stable]
<1>1. n \in RqType /\ n.status = "queued"
  <2>1. base[OpType(k)] \in Nat
    BY IndexTypes DEF QInv, IInv, ModelOK
  <2>2. QED
    BY <2>1 DEF RqType, Statuses, QInv, IInv, ModelOK
<1> HIDE DEF n
<1>2. UNCHANGED <<pc, local_list, batch_queue>>
  BY DEF insert_request, ctlVars, pageVars
<1>3. LocalOK'
  BY <1>2 DEF QInv, LocalOK
<1>4. ASSUME rq' = [rq EXCEPT ![r] = n], Placed(Lists', Queued \cup {r})
      PROVE  /\ PlaceOK'
             /\ \A q \in Requests \ {r} : rq'[q].status # rq[q].status => q \in Known
  <2>1. rq'[r].status = "queued" /\ \A q \in Requests \ {r} : rq'[q] = rq[q]
    BY <1>1, <1>4 DEF QInv, IInv, RqOK
  <2>2. Queued' = Queued \cup {r}
    BY <2>1, QueuedChange
  <2>3. QED
    BY <1>4, <2>1, <2>2 DEF PlaceOK
<1>5. ASSUME NEW i \in Bit, insert_to_prio_queue(r, n.pred, i), rq' = [rq EXCEPT ![r] = n],
             UNCHANGED <<dlVars, barVars>>
      PROVE  /\ PlaceOK'
             /\ \A q \in Requests \ {r} : rq'[q].status # rq[q].status => q \in Known
  <2>1. UNCHANGED <<dl_tree, batch_queue, barrier_queue, local_list>>
    BY <1>2, <1>5 DEF dlVars, barVars
  <2>2. Placed(Lists', Queued \cup {r})
    BY <1>5, <2>1, PlacedInPq DEF QInv, IInv
  <2>3. QED
    BY <1>4, <1>5, <2>2
<1>6. CASE insert_request_pre_stability(r, n)
  <2>1. (IF n.kind.head THEN 0 ELSE 1) \in Bit
    BY DEF Bit
  <2>2. QED
    BY <1>3, <1>5, <1>6, <2>1 DEF insert_request_pre_stability
<1>7. CASE insert_request_post_stability(r, n)
  <2>1. CASE /\ insert_to_prio_queue(r, n.pred, 0)
             /\ rq' = [rq EXCEPT ![r] = n]
             /\ UNCHANGED <<dlVars, barVars>>
    <3>1. 0 \in Bit
      BY DEF Bit
    <3>2. QED
      BY <1>3, <1>5, <2>1, <3>1
  <2>2. CASE /\ barrier_queue' = Append(barrier_queue, r)
             /\ rq' = [rq EXCEPT ![r] = n]
             /\ UNCHANGED <<prioVars, dlVars>>
    <3> DEFINE q == Append(barrier_queue, r)
    <3>1. Lists' = Put(Lists, BarrierName, q)
      <4>1. Lists' = ListsOf(prio_queue, dl_tree, batch_queue, q, local_list)
        BY <1>2, <2>2 DEF Lists, prioVars, dlVars
      <4>2. QED
        BY <4>1, BarrierList DEF Lists
    <3>2. BarrierName \in QueueNames /\ Lists[BarrierName] = barrier_queue
      BY Names, ListAt DEF Lists
    <3>3. barrier_queue \in Seq(Requests) /\ IsInjective(barrier_queue)
          /\ r \notin ToSet(barrier_queue)
      BY <3>2 DEF QInv, PlaceOK, Placed
    <3>4. q \in Seq(Requests) /\ IsInjective(q) /\ ToSet(q) = ToSet(barrier_queue) \cup {r}
      BY <3>3, AppendDistinct
    <3> HIDE DEF q
    <3>5. Placed(Put(Lists, BarrierName, q), Queued \cup {r})
      BY <3>2, <3>4, Join DEF QInv, PlaceOK
    <3>6. QED
      BY <1>3, <1>4, <2>2, <3>1, <3>5
  <2>3. CASE merge_or_insert_to_dl_tree(r, n) /\ UNCHANGED <<prioVars, barVars>>
    <3>1. Queued \ {r} = Queued
      OBVIOUS
    <3>2. Placed(ListsOf(prio_queue, dl_tree, batch_queue, barrier_queue, local_list),
                 Queued \ {r})
      BY <3>1 DEF QInv, PlaceOK, Lists
    <3>3. /\ Placed(ListsOf(prio_queue, dl_tree', batch_queue, barrier_queue, local_list),
                    Queued')
          /\ \A q \in Requests \ {r} : rq'[q].status # rq[q].status => q \in Known
      BY <1>1, <2>3, <3>2, PlacedOrMerged DEF QInv, IInv
    <3>4. Lists' = ListsOf(prio_queue, dl_tree', batch_queue, barrier_queue, local_list)
      BY <1>2, <2>3 DEF Lists, prioVars, barVars
    <3>5. QED
      BY <1>3, <3>3, <3>4 DEF PlaceOK
  <2>4. QED
    BY <1>7, <2>1, <2>2, <2>3 DEF insert_request_post_stability
<1>8. QED
  BY <1>6, <1>7 DEF insert_request, n

\* The block layer inserts a new request, or one that was dispatched.
LEMMA InsertKeeps ==
  ASSUME QInv, \/ \E k \in Kinds : adios_insert_requests(k)
               \/ \E r \in Requests : Requeue(r)
  PROVE  Kept
<1>1. ASSUME NEW k \in Kinds, adios_insert_requests(k) PROVE Kept
  <2> DEFINE r == inserted + 1
  <2>1. r \in Requests /\ k \in KindType /\ inserted' = r /\ inserted \in Nat
    BY <1>1, ConstantsAssumption DEF adios_insert_requests, QInv, IInv, EnvOK, Requests
  <2>2. rq[r].status = "new"
    BY <2>1 DEF QInv, NewOK
  <2>3. r \notin Queued
    BY <2>2 DEF Queued
  <2>4. /\ PlaceOK' /\ LocalOK'
        /\ \A q \in Requests \ {r} : rq'[q].status # rq[q].status => q \in Known
    BY <1>1, <2>1, <2>3, InsertPlaces DEF adios_insert_requests
  <2>5. NewOK'
    <3> SUFFICES ASSUME NEW q \in Requests, rq'[q].status # "new" PROVE q <= r
      BY <2>1 DEF NewOK
    <3>1. CASE q = r
      BY <2>1, <3>1 DEF Requests
    <3>2. CASE q # r
      <4>1. rq[q].status # "new"
        BY <2>4, <3>2 DEF Known
      <4>2. q <= inserted /\ q \in Nat
        BY <4>1 DEF QInv, NewOK, Requests
      <4>3. QED
        BY <2>1, <4>2
    <3>3. QED
      BY <3>1, <3>2
  <2>6. QED
    BY <2>4, <2>5 DEF Kept
<1>2. ASSUME NEW r \in Requests, Requeue(r) PROVE Kept
  <2>1. rq[r].status = "dispatched" /\ inserted' = inserted
        /\ insert_request(r, [rq[r].kind EXCEPT !.head = TRUE])
    BY <1>2 DEF Requeue
  <2>2. r \notin Queued /\ [rq[r].kind EXCEPT !.head = TRUE] \in KindType
    BY <2>1 DEF Queued, QInv, IInv, RqOK, RqType, KindType
  <2>3. /\ PlaceOK' /\ LocalOK'
        /\ \A q \in Requests \ {r} : rq'[q].status # rq[q].status => q \in Known
    BY <2>1, <2>2, InsertPlaces
  <2>4. \A q \in Requests : rq'[q].status # rq[q].status => rq[q].status # "new"
    BY <2>1, <2>3 DEF Known
  <2>5. NewOK'
    BY <2>1, <2>4, NewKept DEF QInv
  <2>6. QED
    BY <2>3, <2>5 DEF Kept
<1>3. QED
  BY <1>1, <1>2

\* bio_merge_check and adios_bio_merge.
LEMMA MergeKeeps ==
  ASSUME QInv, bio_merge_check \/ adios_bio_merge
  PROVE  Kept
<1>1. /\ UNCHANGED <<prio_queue, batch_queue, barrier_queue, local_list, pc>>
      /\ inserted' = inserted
  BY DEF bio_merge_check, adios_bio_merge, prioVars, barVars, pageVars, ctlVars
<1>2. LocalOK'
  BY <1>1 DEF QInv, LocalOK
<1>3. Lists' = ListsOf(prio_queue, dl_tree', batch_queue, barrier_queue, local_list)
  BY <1>1 DEF Lists
<1>4. Placed(ListsOf(prio_queue, dl_tree, batch_queue, barrier_queue, local_list), Queued)
  BY DEF QInv, PlaceOK, Lists
<1>5. CASE UNCHANGED <<rq, dlVars>>
  <2>1. PlaceOK' /\ NewOK'
    BY <1>1, <1>5 DEF QInv, PlaceOK, NewOK, Lists, Queued, dlVars
  <2>2. QED
    BY <1>2, <2>1 DEF Kept
<1>6. ASSUME NEW i \in Bit, NEW r \in ToSet(dl_tree[i]), adios_request_merged(i, r)
      PROVE  Kept
  <2>1. r \in Queued /\ r \in Requests /\ rq[r].status = "queued" /\ rq[r] \in RqType
    <3>1. DlName(i) \in QueueNames /\ Lists[DlName(i)] = dl_tree[i]
      BY Names, ListAt DEF Lists
    <3>2. QED
      BY <1>6, <3>1, InListQueued DEF QInv, IInv, RqOK
  <2>2. PICK rest \in Without(dl_tree[i], {r}) :
          add_to_dl_tree(r, rq[r], [dl_tree EXCEPT ![i] = rest],
                         ClearIfEmpty(dl_flags, i, rest))
    BY <1>6 DEF adios_request_merged
  <2> DEFINE tree  == [dl_tree EXCEPT ![i] = rest]
             flags == ClearIfEmpty(dl_flags, i, rest)
             P(S)  == Placed(ListsOf(prio_queue, dl_tree', batch_queue, barrier_queue,
                                     local_list), S)
  <2>3. TreesAgree(tree, flags)
    BY RemoveAgrees DEF QInv, IInv
  <2>4. tree[i] = rest /\ \A j \in Bit : j # i => tree[j] = dl_tree[j]
    BY DEF QInv, IInv, DlOK, TreesAgree
  <2>5. add_to_dl_tree(r, rq[r], tree, flags)
    BY <2>2
  <2> HIDE DEF tree, flags
  <2>6. Placed(ListsOf(prio_queue, tree, batch_queue, barrier_queue, local_list),
               Queued \ {r})
    <3>1. Queued \cap {r} \subseteq ToSet(dl_tree[i])
      OBVIOUS
    <3>2. QED
      BY <1>4, <2>4, <3>1, PlacedWithout DEF QInv, IInv
  <2>7. /\ \A q \in Requests \ {r} : rq'[q] = rq[q]
        /\ \/ rq'[r].status = "queued" /\ P((Queued \ {r}) \cup {r})
           \/ rq'[r].status = "lost" /\ P(Queued \ {r})
    <3>1. r \notin Queued \ {r}
      OBVIOUS
    <3>2. QED
      BY <2>1, <2>3, <2>5, <2>6, <3>1, PlacedInDl DEF QInv, IInv
  <2>8. Queued' = IF rq'[r].status = "queued" THEN Queued \cup {r} ELSE Queued \ {r}
    BY <2>1, <2>7, QueuedChange
  <2>9. P(Queued')
    <3>1. (Queued \ {r}) \cup {r} = Queued \cup {r}
      OBVIOUS
    <3> HIDE DEF P
    <3>2. QED
      BY <2>7, <2>8, <3>1
  <2>10. PlaceOK'
    BY <1>3, <2>9 DEF PlaceOK
  <2>11. NewOK'
    <3>1. \A q \in Requests : rq'[q].status # rq[q].status => rq[q].status # "new"
      BY <2>1, <2>7
    <3>2. QED
      BY <1>1, <3>1, NewKept DEF QInv
  <2>12. QED
    BY <1>2, <2>10, <2>11 DEF Kept
<1>7. ASSUME NEW i \in Bit, NEW next \in Mergeable(i), adios_merged_requests(i, next)
      PROVE  Kept
  <2>1. /\ next \in Requests /\ rq[next].status \in {"queued", "lost"}
        /\ Queued \cap {next} \subseteq ToSet(dl_tree[i])
    <3>1. next \in Known /\ (next \in Queued => next \in ToSet(dl_tree[i]))
      <4>1. Queued \in SUBSET Queued
        OBVIOUS
      <4>2. Mergeable(i) \subseteq Known /\ Queued \cap Mergeable(i) \subseteq ToSet(dl_tree[i])
        BY <1>4, <4>1, MergeableType
      <4>3. QED
        BY <4>2
    <3>2. QED
      BY <3>1 DEF Known
  <2>2. PICK rest \in Without(dl_tree[i], {next}) : dl_tree' = [dl_tree EXCEPT ![i] = rest]
    BY <1>7 DEF adios_merged_requests, remove_request
  <2>3. dl_tree'[i] = rest /\ \A j \in Bit : j # i => dl_tree'[j] = dl_tree[j]
    BY <2>2 DEF QInv, IInv, DlOK, TreesAgree
  <2>4. Placed(Lists', Queued \ {next})
    <3>1. QED
      BY <1>3, <1>4, <2>1, <2>3, PlacedWithout DEF QInv, IInv
  <2>5. rq'[next].status = "merged" /\ \A q \in Requests \ {next} : rq'[q] = rq[q]
    BY <1>7, <2>1 DEF adios_merged_requests, QInv, IInv, RqOK, RqType
  <2>6. Queued' = Queued \ {next}
    BY <2>1, <2>5, QueuedChange
  <2>7. PlaceOK'
    BY <2>4, <2>6 DEF PlaceOK
  <2>8. NewOK'
    <3>1. \A q \in Requests : rq'[q].status # rq[q].status => rq[q].status # "new"
      BY <2>1, <2>5
    <3>2. QED
      BY <1>1, <3>1, NewKept DEF QInv
  <2>9. QED
    BY <1>2, <2>7, <2>8 DEF Kept
<1>8. CASE bio_merge_check
  BY <1>5, <1>8 DEF bio_merge_check
<1>9. CASE adios_bio_merge
  BY <1>5, <1>6, <1>7, <1>9 DEF adios_bio_merge
<1>10. QED
  BY <1>8, <1>9

\* Steps that touch neither a list nor a request.
LEMMA OtherStepsKeep ==
  ASSUME QInv,
         UNCHANGED <<rq, inserted, prio_queue, dl_tree, batch_queue, barrier_queue,
                     local_list>>,
         \A c \in CPUs : pc[c] = "reinsert" => pc'[c] = "reinsert"
  PROVE  Kept
<1>1. PlaceOK' /\ NewOK'
  BY DEF QInv, PlaceOK, NewOK, Lists, Queued
<1>2. LocalOK'
  BY DEF QInv, LocalOK
<1>3. QED
  BY <1>1, <1>2 DEF Kept

\* A request leaves the scheduler: it was in the list n, which is s from now on.
LEMMA FoundLeaves ==
  ASSUME QInv, NEW c \in CPUs, pc[c] # "reinsert",
         NEW L, Placed(L, Queued), NEW n \in QueueNames, NEW r \in ToSet(L[n]),
         NEW s \in Seq(Requests), IsInjective(s), ToSet(s) = ToSet(L[n]) \ {r},
         found(c, r), Lists' = Put(L, n, s), UNCHANGED <<inserted, local_list>>
  PROVE  Kept
<1>1. r \in Queued /\ r \in Requests /\ rq[r].status = "queued"
  BY DEF Placed, Queued
<1>2. Placed(Lists', Queued \ {r})
  BY Leave
<1>3. rq'[r].status = "dispatched" /\ \A q \in Requests \ {r} : rq'[q] = rq[q]
  BY <1>1 DEF found, QInv, IInv, RqOK, RqType
<1>4. Queued' = Queued \ {r}
  BY <1>1, <1>3, QueuedChange
<1>5. PlaceOK'
  BY <1>2, <1>4 DEF PlaceOK
<1>6. NewOK'
  <2>1. \A q \in Requests : rq'[q].status # rq[q].status => rq[q].status # "new"
    BY <1>1, <1>3
  <2>2. QED
    BY <2>1, NewKept DEF QInv
<1>7. LocalOK'
  BY DEF found, goto, QInv, LocalOK, IInv, CtlOK
<1>8. QED
  BY <1>5, <1>6, <1>7 DEF Kept

\* dispatch_from_pq.
LEMMA PqKeeps ==
  ASSUME QInv, NEW c \in CPUs, dispatch_from_pq(c)
  PROVE  Kept
<1> DEFINE i == PqIdx
           q == prio_queue[i]
<1>1. i \in Bit /\ prio_queue \in [Bit -> Seq(Requests)] /\ q \in Seq(Requests)
  BY DEF PqIdx, Bit, QInv, IInv, PqOK
<1>2. /\ UNCHANGED <<inserted, dl_tree, batch_queue, barrier_queue, local_list>>
      /\ pc[c] = "pq" /\ pc \in [CPUs -> Labels]
  BY DEF dispatch_from_pq, dlVars, pageVars, barVars, envVars, QInv, IInv, CtlOK
<1> HIDE DEF i
<1>3. CASE goto(c, "bq") /\ UNCHANGED <<rq, prio_queue>>
  BY <1>2, <1>3, OtherStepsKeep DEF goto
<1>4. CASE q # <<>> /\ found(c, Head(q)) /\ prio_queue' = [prio_queue EXCEPT ![i] = Tail(q)]
  <2>1. PqName(i) \in QueueNames /\ Lists[PqName(i)] = q
    BY <1>1, Names, ListAt DEF Lists
  <2>2. Placed(Lists, Queued) /\ IsInjective(q)
    BY <2>1 DEF QInv, PlaceOK, Placed
  <2>3. /\ Head(q) \in ToSet(q) /\ Tail(q) \in Seq(Requests) /\ IsInjective(Tail(q))
        /\ ToSet(Tail(q)) = ToSet(q) \ {Head(q)}
    BY <1>1, <1>4, <2>2, TailDistinct
  <2>4. Lists' = Put(Lists, PqName(i), Tail(q))
    <3>1. prio_queue'[i] = Tail(q) /\ \A j \in Bit : j # i => prio_queue'[j] = prio_queue[j]
      BY <1>1, <1>4
    <3>2. Lists' = ListsOf(prio_queue', dl_tree, batch_queue, barrier_queue, local_list)
      BY <1>2 DEF Lists
    <3>3. i \in Bit /\ \A j \in Bit : j # i => prio_queue'[j] = prio_queue[j]
      BY <1>1, <3>1
    <3>4. Lists' = Put(Lists, PqName(i), prio_queue'[i])
      BY <3>2, <3>3, PqList DEF Lists
    <3>5. QED
      BY <3>1, <3>4
  <2> HIDE DEF q
  <2>5. QED
    BY <1>2, <1>4, <2>1, <2>2, <2>3, <2>4, FoundLeaves
<1>5. QED
  BY <1>3, <1>4 DEF dispatch_from_pq, i

\* The end of dispatch_from_bq, over pages that hold what is queued.
LEMMA PopKeeps ==
  ASSUME QInv, NEW c \in CPUs, pc[c] # "reinsert", NEW hasRq, NEW bqs, NEW flags,
         bqs \in [Bit -> [OpTypes -> Seq(Requests)]],
         \A p \in Bit : \A o \in OpTypes : o \in bq_state[p] <=> bqs[p][o] # <<>>,
         Placed(ListsOf(prio_queue, dl_tree, bqs, barrier_queue, local_list), Queued),
         pop_bq_request(c, hasRq, bqs, flags),
         UNCHANGED <<inserted, prio_queue, dl_tree, barrier_queue, local_list>>
  PROVE  Kept
<1> DEFINE page == FlippedPage(hasRq, flags)
           dir  == IF page = bq_page THEN elv_direction
                   ELSE ElvDirection(bq_batch_order[page], bqs[page][1])
           idx  == Min(bq_state[page])
           back == bq_batch_order[page] = 1 /\ idx = 1 /\ dir = 1
           q    == bqs[page][idx]
           rest == IF back THEN Front(q) ELSE Tail(q)
           r    == IF back THEN Last(q) ELSE Head(q)
           L    == ListsOf(prio_queue, dl_tree, bqs, barrier_queue, local_list)
<1>1. page \in Bit /\ pc \in [CPUs -> Labels]
  BY DEF FlippedPage, QInv, IInv, PageOK, CtlOK, Bit
<1> HIDE DEF page, dir
<1>2. CASE bq_state[page] = {}
  <2>1. batch_queue' = bqs /\ goto(c, "bp") /\ UNCHANGED rq
    BY <1>2 DEF pop_bq_request, page
  <2>2. PlaceOK'
    BY <2>1 DEF PlaceOK, Lists, Queued
  <2>3. NewOK' /\ LocalOK'
    BY <1>1, <2>1 DEF QInv, NewOK, LocalOK, goto
  <2>4. QED
    BY <2>2, <2>3 DEF Kept
<1>3. CASE bq_state[page] # {}
  <2>1. idx \in OpTypes /\ idx \in bq_state[page]
    <3>1. bq_state[page] \subseteq OpTypes
      BY <1>1 DEF QInv, IInv, PageOK
    <3>2. bq_state[page] \subseteq Nat
      BY <3>1 DEF OpTypes
    <3>3. idx \in bq_state[page]
      BY <1>3, <3>2, MinType
    <3>4. QED
      BY <3>1, <3>3
  <2>2. found(c, r) /\ batch_queue' = [bqs EXCEPT ![page][idx] = rest]
    BY <1>3 DEF pop_bq_request, page, dir
  <2> HIDE DEF idx, back
  <2>3. BqName(page, idx) \in QueueNames /\ L[BqName(page, idx)] = q
    BY <1>1, <2>1, Names, ListAt
  <2>4. q \in Seq(Requests) /\ q # <<>> /\ IsInjective(q)
    <3>1. q \in Seq(Requests) /\ q # <<>>
      BY <1>1, <2>1
    <3> HIDE DEF q
    <3>2. QED
      BY <2>3, <3>1 DEF Placed
  <2>5. /\ r \in ToSet(q) /\ rest \in Seq(Requests) /\ IsInjective(rest)
        /\ ToSet(rest) = ToSet(q) \ {r}
    <3> HIDE DEF q
    <3>1. CASE back
      BY <2>4, <3>1, FrontDistinct
    <3>2. CASE ~back
      BY <2>4, <3>2, TailDistinct
    <3>3. QED
      BY <3>1, <3>2
  <2>6. Lists' = Put(L, BqName(page, idx), rest)
    <3>1. OnlyAt(page, idx, rest, bqs, batch_queue')
      BY <1>1, <2>1, <2>2 DEF OnlyAt
    <3>2. Lists' = ListsOf(prio_queue, dl_tree, batch_queue', barrier_queue, local_list)
      BY DEF Lists
    <3> HIDE DEF rest, q
    <3>3. \A pq, dl, bar, loc :
            ListsOf(pq, dl, batch_queue', bar, loc)
              = Put(ListsOf(pq, dl, bqs, bar, loc), BqName(page, idx), rest)
      BY <3>1, BqList
    <3>4. QED
      BY <3>2, <3>3
  <2>7. Placed(L, Queued)
    OBVIOUS
  <2> HIDE DEF L, q, r, rest
  <2>8. QED
    BY <2>2, <2>3, <2>5, <2>6, <2>7, FoundLeaves
<1>4. QED
  BY <1>2, <1>3

\* dispatch_from_bq.
LEMMA BqKeeps ==
  ASSUME QInv, NEW c \in CPUs, dispatch_from_bq(c)
  PROVE  Kept
<1>1. /\ UNCHANGED <<inserted, prio_queue, dl_tree, barrier_queue, local_list>>
      /\ pc[c] = "bq" /\ pc \in [CPUs -> Labels]
  BY DEF dispatch_from_bq, prioVars, dlVars, barVars, envVars, QInv, IInv, CtlOK
<1>2. CASE pop_bq_request(c, bq_page \in bq_flags, batch_queue, bq_flags)
  BY <1>1, <1>2, PopKeeps DEF QInv, IInv, PageOK, PlaceOK, Lists
<1>3. CASE goto(c, "fill") /\ UNCHANGED <<rq, pageVars>>
  BY <1>1, <1>3, OtherStepsKeep DEF goto, pageVars
<1>4. QED
  BY <1>2, <1>3 DEF dispatch_from_bq

\* The tree that fill_batch_queues takes a request from has one.
LEMMA FillTree ==
  ASSUME DlOK, dl_flags # {}
  PROVE  FillIdx \in Bit /\ dl_tree[FillIdx] # <<>> /\ dl_tree[FillIdx] \in Seq(Requests)
<1>1. FillIdx \in dl_flags
  <2>1. CASE dl_flags = Bit
    BY <2>1 DEF FillIdx, BiasIdx, Bit
  <2>2. CASE dl_flags # Bit
    BY <2>2 DEF FillIdx
  <2>3. QED
    BY <2>1, <2>2
<1>2. QED
  BY <1>1 DEF DlOK, TreesAgree

\* An iteration of fill_batch_queues: a request moves from its tree to a page.
LEMMA FillKeeps ==
  ASSUME QInv, NEW c \in CPUs, fill_batch_queues(c)
  PROVE  Kept
<1> DEFINE page == 1 - bq_page
           i    == FillIdx
           t    == dl_tree[i]
           r    == Head(t)
           idx  == DestIdx(r)
           q    == batch_queue[page][idx]
<1>1. /\ UNCHANGED <<rq, inserted, prio_queue, barrier_queue, local_list>>
      /\ pc[c] = "fill" /\ page \in Bit
  BY DEF fill_batch_queues, prioVars, barVars, envVars, QInv, IInv, PageOK, Bit
<1>2. CASE goto(c, "filled") /\ UNCHANGED <<dlVars, batch_queue>>
  BY <1>1, <1>2, OtherStepsKeep DEF goto, dlVars, QInv, IInv, CtlOK
<1>3. CASE /\ dl_flags # {} /\ UNCHANGED pc
           /\ dl_tree' = [dl_tree EXCEPT ![i] = Tail(t)]
           /\ batch_queue' = [batch_queue EXCEPT ![page][idx] = Append(@, r)]
  <2>1. i \in Bit /\ t # <<>> /\ t \in Seq(Requests)
    BY <1>3, FillTree DEF QInv, IInv
  <2> HIDE DEF i, page
  <2>2. DlName(i) \in QueueNames /\ Lists[DlName(i)] = t
    BY <2>1, Names, ListAt DEF Lists
  <2>3. Placed(Lists, Queued) /\ IsInjective(t)
    <3> HIDE DEF t
    <3>1. QED
      BY <2>2 DEF QInv, PlaceOK, Placed
  <2>4. /\ r \in ToSet(t) /\ Tail(t) \in Seq(Requests) /\ IsInjective(Tail(t))
        /\ ToSet(Tail(t)) = ToSet(t) \ {r}
    <3> HIDE DEF t
    <3>1. QED
      BY <2>1, <2>3, TailDistinct
  <2>5. r \in Queued /\ r \in Requests
    <3> HIDE DEF r
    <3>1. QED
      BY <2>2, <2>4, InListQueued DEF QInv
  <2> DEFINE M == Put(Lists, DlName(i), Tail(t))
  <2>6. Placed(M, Queued \ {r})
    <3>1. {r} \subseteq ToSet(t)
      BY <2>4
    <3> HIDE DEF t, r
    <3>2. QED
      BY <2>2, <2>3, <2>4, <3>1, Leave
  <2>7. M = ListsOf(prio_queue, dl_tree', batch_queue, barrier_queue, local_list)
    <3>1. dl_tree'[i] = Tail(t) /\ \A j \in Bit : j # i => dl_tree'[j] = dl_tree[j]
      BY <1>3, <2>1 DEF QInv, IInv, DlOK, TreesAgree
    <3> HIDE DEF t
    <3>2. i \in Bit /\ \A j \in Bit : j # i => dl_tree'[j] = dl_tree[j]
      BY <2>1, <3>1
    <3>3. ListsOf(prio_queue, dl_tree', batch_queue, barrier_queue, local_list)
            = Put(Lists, DlName(i), dl_tree'[i])
      BY <3>2, DlList DEF Lists
    <3>4. QED
      BY <3>1, <3>3
  <2>8. idx \in OpTypes
    <3> HIDE DEF r
    <3>1. rq[r].kind \in KindType
      BY <2>5 DEF QInv, IInv, RqOK, RqType
    <3>2. OpType(rq[r].kind) \in OpTypes
      BY <3>1, IndexTypes
    <3>3. QED
      BY <3>2 DEF DestIdx, OpTypes
  <2> HIDE DEF idx, M, r, t
  <2>9. BqName(page, idx) \in QueueNames /\ M[BqName(page, idx)] = q
    BY <1>1, <2>7, <2>8, Names, ListAt
  <2>10. q \in Seq(Requests) /\ IsInjective(q) /\ r \notin ToSet(q)
    <3> HIDE DEF q
    <3>1. QED
      BY <2>6, <2>9 DEF Placed
  <2>11. /\ Append(q, r) \in Seq(Requests) /\ IsInjective(Append(q, r))
         /\ ToSet(Append(q, r)) = ToSet(q) \cup {r}
    <3> HIDE DEF q
    <3>1. QED
      BY <2>5, <2>10, AppendDistinct
  <2>12. Lists' = Put(M, BqName(page, idx), Append(q, r))
    <3>1. OnlyAt(page, idx, Append(q, r), batch_queue, batch_queue')
      BY <1>1, <1>3, <2>8 DEF OnlyAt, QInv, IInv, PageOK, r, t, idx
    <3>2. Lists' = ListsOf(prio_queue, dl_tree', batch_queue', barrier_queue, local_list)
      BY <1>1 DEF Lists
    <3> HIDE DEF q
    <3>3. \A pq, dl, bar, loc :
            ListsOf(pq, dl, batch_queue', bar, loc)
              = Put(ListsOf(pq, dl, batch_queue, bar, loc), BqName(page, idx), Append(q, r))
      BY <3>1, BqList
    <3>4. QED
      BY <2>7, <3>2, <3>3
  <2>13. Placed(Lists', (Queued \ {r}) \cup {r})
    <3> HIDE DEF q
    <3>1. r \notin Queued \ {r}
      OBVIOUS
    <3> DEFINE s == Append(q, r)
    <3>2. s \in Seq(Requests) /\ IsInjective(s) /\ ToSet(s) = ToSet(M[BqName(page, idx)]) \cup {r}
          /\ Lists' = Put(M, BqName(page, idx), s)
      BY <2>9, <2>11, <2>12
    <3> HIDE DEF s
    <3>3. Placed(Put(M, BqName(page, idx), s), (Queued \ {r}) \cup {r})
      BY <2>6, <2>9, <3>1, <3>2, Join
    <3>4. QED
      BY <3>2, <3>3
  <2>14. (Queued \ {r}) \cup {r} = Queued /\ Queued' = Queued
    BY <1>1, <2>5 DEF Queued
  <2>15. PlaceOK'
    BY <2>13, <2>14 DEF PlaceOK
  <2>16. NewOK' /\ LocalOK'
    BY <1>1, <1>3 DEF QInv, NewOK, LocalOK
  <2>17. QED
    BY <2>15, <2>16 DEF Kept
<1>4. QED
  BY <1>2, <1>3 DEF fill_batch_queues

\* The end of a fill: one queue is sorted, and a request is popped.
LEMMA DoneKeeps ==
  ASSUME QInv, NEW c \in CPUs, fill_batch_queues_done(c)
  PROVE  Kept
<1> DEFINE page  == 1 - bq_page
           q     == batch_queue[page][1]
           flags == IF fill.count > 0 THEN bq_flags \cup {page} ELSE bq_flags
<1>1. /\ pc[c] = "filled" /\ page \in Bit /\ 1 \in OpTypes
      /\ UNCHANGED <<inserted, prio_queue, dl_tree, barrier_queue, local_list>>
  BY DEF fill_batch_queues_done, QInv, IInv, PageOK, Bit, OpTypes, dlVars, barVars, envVars
<1>2. PICK sorted \in IF bq_batch_order[page] = 1 /\ batch_count[page][1] > 1
                      THEN SortedByPos(q) ELSE {q} :
        pop_bq_request(c, fill.curHasRq, [batch_queue EXCEPT ![page][1] = sorted], flags)
  BY DEF fill_batch_queues_done
<1> DEFINE bqs == [batch_queue EXCEPT ![page][1] = sorted]
<1>3. q \in Seq(Requests) /\ IsInjective(q) /\ Placed(Lists, Queued)
      /\ BqName(page, 1) \in QueueNames /\ Lists[BqName(page, 1)] = q
  <2>1. BqName(page, 1) \in QueueNames /\ Lists[BqName(page, 1)] = q
    BY <1>1, Names, ListAt DEF Lists
  <2>2. q \in Seq(Requests)
    BY <1>1 DEF QInv, IInv, PageOK
  <2> HIDE DEF q
  <2>3. QED
    BY <2>1, <2>2 DEF QInv, PlaceOK, Placed
<1>4. sorted \in Seq(Requests) /\ IsInjective(sorted) /\ ToSet(sorted) = ToSet(q)
      /\ (sorted = <<>> <=> q = <<>>)
  <2> HIDE DEF q
  <2>1. QED
    BY <1>2, <1>3, SortedDistinct, SortedType DEF QInv, IInv
<1>5. bqs \in [Bit -> [OpTypes -> Seq(Requests)]]
      /\ \A p \in Bit : \A o \in OpTypes : o \in bq_state[p] <=> bqs[p][o] # <<>>
  BY <1>1, <1>4 DEF QInv, IInv, PageOK
<1>6. Placed(ListsOf(prio_queue, dl_tree, bqs, barrier_queue, local_list), Queued)
  <2>1. OnlyAt(page, 1, sorted, batch_queue, bqs)
    BY <1>1 DEF OnlyAt, QInv, IInv, PageOK
  <2> HIDE DEF bqs, q, page
  <2>2. \A pq, dl, bar, loc :
          ListsOf(pq, dl, bqs, bar, loc)
            = Put(ListsOf(pq, dl, batch_queue, bar, loc), BqName(page, 1), sorted)
    BY <2>1, BqList
  <2>3. Placed(Put(Lists, BqName(page, 1), sorted), Queued)
    BY <1>3, <1>4, Reorder
  <2>4. QED
    BY <2>2, <2>3 DEF Lists
<1>7. pop_bq_request(c, fill.curHasRq, bqs, flags)
  BY <1>2
<1> HIDE DEF bqs, flags
<1>8. QED
  BY <1>1, <1>5, <1>6, <1>7, PopKeeps

\* A list split into its first element, the n that follow and the rest.
Splits(q, n, mid, rest) ==
  /\ q # <<>> /\ n \in 0..(Len(q) - 1)
  /\ mid = SubSeq(q, 2, n + 1)
  /\ rest = SubSeq(q, n + 2, Len(q))

\* The parts have distinct elements, and share none.
LEMMA SplitDistinct ==
  ASSUME NEW q \in Seq(Requests), IsInjective(q), NEW n, NEW mid, NEW rest,
         Splits(q, n, mid, rest)
  PROVE  /\ mid \in Seq(Requests) /\ IsInjective(mid)
         /\ rest \in Seq(Requests) /\ IsInjective(rest)
         /\ Head(q) \notin ToSet(mid) /\ Head(q) \notin ToSet(rest)
         /\ \A x : ~(x \in ToSet(mid) /\ x \in ToSet(rest))
         /\ ToSet(q) = {Head(q)} \cup ToSet(mid) \cup ToSet(rest)
<1> DEFINE len == Len(q)
<1>1. len \in Nat \ {0} /\ Head(q) = q[1] /\ DOMAIN q = 1..len /\ n \in 0..(len - 1)
  BY EmptySeq, LenProperties DEF Splits
<1>2. n + 1 \in 0..len /\ n + 2 \in 1..(len + 1) /\ 2 \in 1..(len + 1) /\ len \in 0..len
  BY <1>1
<1>3. /\ mid \in Seq(Requests) /\ IsInjective(mid)
      /\ \A x : x \in ToSet(mid) <=> \E k \in 2..(n + 1) : q[k] = x
  BY <1>2, PartDistinct DEF Splits
<1>4. /\ rest \in Seq(Requests) /\ IsInjective(rest)
      /\ \A x : x \in ToSet(rest) <=> \E k \in (n + 2)..len : q[k] = x
  BY <1>2, PartDistinct DEF Splits
<1>5. \A x : x \in ToSet(q) <=> \E k \in 1..len : q[k] = x
  BY <1>1 DEF ToSet
<1>6. \A j, k \in 1..len : q[j] = q[k] => j = k
  BY <1>1 DEF IsInjective
<1> HIDE DEF len
<1>7. Head(q) \notin ToSet(mid) /\ Head(q) \notin ToSet(rest)
  BY <1>1, <1>2, <1>3, <1>4, <1>6
<1>8. \A x : ~(x \in ToSet(mid) /\ x \in ToSet(rest))
  BY <1>1, <1>2, <1>3, <1>4, <1>6
<1>9. ASSUME NEW x
      PROVE  x \in ToSet(q) <=> x \in {Head(q)} \cup ToSet(mid) \cup ToSet(rest)
  BY <1>1, <1>2, <1>3, <1>4, <1>5
<1>10. ToSet(q) = {Head(q)} \cup ToSet(mid) \cup ToSet(rest)
  BY <1>9
<1>11. QED
  BY <1>3, <1>4, <1>7, <1>8, <1>10

\* release_barrier_requests: the head of the barrier queue goes to a priority
\* queue, and those that follow it to the list of requests being reinserted.
LEMMA ReleaseKeeps ==
  ASSUME QInv, NEW c \in CPUs, release_barrier_requests(c)
  PROVE  Kept
<1>1. /\ UNCHANGED <<rq, inserted, dl_tree, batch_queue>>
      /\ pc[c] = "release" /\ pc \in [CPUs -> Labels] /\ lock = NoOne
  BY DEF release_barrier_requests, dlVars, pageVars, envVars, QInv, IInv, CtlOK
<1>2. local_list = <<>>
  BY <1>1, ConstantsAssumption DEF QInv, LocalOK, IInv, CtlOK
<1>3. CASE goto(c, "idle") /\ UNCHANGED <<prioVars, barVars, lock, local_list>>
  BY <1>1, <1>3, OtherStepsKeep DEF goto, prioVars, barVars
<1>4. ASSUME NEW n, n = Followers, NEW r, r = Head(barrier_queue),
             NEW rest, rest = SubSeq(barrier_queue, n + 2, Len(barrier_queue)),
             NEW mid, mid = SubSeq(barrier_queue, 2, n + 1),
             barrier_queue # <<>>,
             insert_to_prio_queue(r, rq[r].pred, 1),
             local_list' = mid,
             barrier_queue' = rest,
             goto(c, IF n > 0 THEN "reinsert" ELSE "pq")
      PROVE  Kept
  <2> DEFINE T  == ToSet(barrier_queue) \ ToSet(rest)
             L1 == Put(Lists, BarrierName, rest)
             L2 == Put(L1, LocalName, mid)
             q  == Append(prio_queue[1], r)
  <2>1. /\ BarrierName \in QueueNames /\ Lists[BarrierName] = barrier_queue
        /\ LocalName \in QueueNames /\ PqName(1) \in QueueNames
    BY Names, ListAt DEF Lists, Bit
  <2>2. /\ barrier_queue \in Seq(Requests) /\ IsInjective(barrier_queue)
        /\ ToSet(barrier_queue) \subseteq Queued /\ Placed(Lists, Queued)
    BY <2>1 DEF QInv, PlaceOK, Placed
  <2>3. n \in 0..(Len(barrier_queue) - 1)
    BY <1>4, FollowersType DEF QInv, IInv
  <2>4. /\ mid \in Seq(Requests) /\ IsInjective(mid)
        /\ rest \in Seq(Requests) /\ IsInjective(rest)
        /\ r \notin ToSet(mid) /\ r \notin ToSet(rest)
        /\ \A x : ~(x \in ToSet(mid) /\ x \in ToSet(rest))
        /\ ToSet(barrier_queue) = {r} \cup ToSet(mid) \cup ToSet(rest)
    <3>1. Splits(barrier_queue, n, mid, rest)
      BY <1>4, <2>3 DEF Splits
    <3>2. barrier_queue \in Seq(Requests) /\ IsInjective(barrier_queue)
      BY <2>2
    <3>3. /\ mid \in Seq(Requests) /\ IsInjective(mid)
          /\ rest \in Seq(Requests) /\ IsInjective(rest)
          /\ Head(barrier_queue) \notin ToSet(mid) /\ Head(barrier_queue) \notin ToSet(rest)
          /\ \A x : ~(x \in ToSet(mid) /\ x \in ToSet(rest))
          /\ ToSet(barrier_queue) = {Head(barrier_queue)} \cup ToSet(mid) \cup ToSet(rest)
      BY <3>1, <3>2, SplitDistinct
    <3>4. QED
      BY <1>4, <3>3
  <2>5. T = {r} \cup ToSet(mid) /\ T \subseteq Queued /\ r \in Requests
    BY <2>2, <2>4 DEF Queued
  <2>6. Placed(L1, Queued \ T)
    <3>1. T \subseteq ToSet(Lists[BarrierName])
          /\ ToSet(rest) = ToSet(Lists[BarrierName]) \ T
      BY <2>1, <2>4
    <3> HIDE DEF T
    <3>2. QED
      BY <2>1, <2>2, <2>4, <3>1, Leave
  <2>7. L1 = ListsOf(prio_queue, dl_tree, batch_queue, rest, local_list)
    BY BarrierList DEF Lists
  <2>8. L1[LocalName] = <<>>
    <3> HIDE DEF L1
    <3>1. QED
      BY <1>2, <2>7, ListAt
  <2> HIDE DEF T, L1
  <2>9. Placed(L2, (Queued \ T) \cup ToSet(mid))
    <3>1. ToSet(L1[LocalName]) = {}
      BY <2>8 DEF ToSet
    <3>2. \A x \in ToSet(mid) : x \in ToSet(L1[LocalName]) \/ x \notin Queued \ T
      BY <2>5
    <3>3. Placed(Put(L1, LocalName, mid),
                 ((Queued \ T) \ ToSet(L1[LocalName])) \cup ToSet(mid))
      BY <2>1, <2>4, <2>6, <3>2, Replace
    <3>4. (Queued \ T) \ ToSet(L1[LocalName]) = Queued \ T
      BY <3>1
    <3>5. QED
      BY <3>3, <3>4
  <2>10. L2 = ListsOf(prio_queue, dl_tree, batch_queue, rest, mid)
    BY <2>7, LocalList
  <2>11. L2[PqName(1)] = prio_queue[1]
    <3> HIDE DEF L2
    <3>1. QED
      BY <2>10, ListAt DEF Bit
  <2> HIDE DEF L2
  <2>12. q \in Seq(Requests) /\ IsInjective(q) /\ ToSet(q) = ToSet(prio_queue[1]) \cup {r}
    <3>1. r \notin (Queued \ T) \cup ToSet(mid)
      BY <2>4, <2>5
    <3> DEFINE s == prio_queue[1]
    <3>2. s \in Seq(Requests) /\ IsInjective(s) /\ r \notin ToSet(s)
      BY <2>1, <2>9, <2>11, <3>1 DEF Placed
    <3> HIDE DEF s
    <3>3. Append(s, r) \in Seq(Requests) /\ IsInjective(Append(s, r))
          /\ ToSet(Append(s, r)) = ToSet(s) \cup {r}
      BY <2>5, <3>2, AppendDistinct
    <3>4. QED
      BY <3>3 DEF s
  <2>13. Placed(Put(L2, PqName(1), q), ((Queued \ T) \cup ToSet(mid)) \cup {r})
    <3> DEFINE S == (Queued \ T) \cup ToSet(mid)
    <3>1. r \notin S
      BY <2>4, <2>5
    <3> HIDE DEF q, S
    <3>2. Placed(L2, S) /\ ToSet(q) = ToSet(L2[PqName(1)]) \cup {r}
      BY <2>9, <2>11, <2>12 DEF S
    <3>3. Placed(Put(L2, PqName(1), q), S \cup {r})
      BY <2>1, <2>12, <3>1, <3>2, Join
    <3>4. QED
      BY <3>3 DEF S
  <2>14. ((Queued \ T) \cup ToSet(mid)) \cup {r} = Queued
    BY <2>5
  <2>15. Lists' = Put(L2, PqName(1), q)
    <3>1. /\ 1 \in Bit /\ prio_queue'[1] = q
          /\ \A j \in Bit : j # 1 => prio_queue'[j] = prio_queue[j]
      BY <1>4 DEF insert_to_prio_queue, Bit, QInv, IInv, PqOK
    <3>2. Lists' = ListsOf(prio_queue', dl_tree, batch_queue, rest, mid)
      BY <1>1, <1>4 DEF Lists
    <3> HIDE DEF q
    <3>3. 1 \in Bit /\ \A j \in Bit : j # 1 => prio_queue'[j] = prio_queue[j]
      BY <3>1
    <3>4. ListsOf(prio_queue', dl_tree, batch_queue, rest, mid)
            = Put(ListsOf(prio_queue, dl_tree, batch_queue, rest, mid), PqName(1), prio_queue'[1])
      BY <3>3, PqList
    <3>5. QED
      BY <2>10, <3>1, <3>2, <3>4
  <2>16. PlaceOK'
    <3>1. Queued' = Queued
      BY <1>1 DEF Queued
    <3>2. QED
      BY <2>13, <2>14, <2>15, <3>1 DEF PlaceOK
  <2>17. NewOK'
    BY <1>1 DEF QInv, NewOK
  <2>18. LocalOK'
    <3>1. n = 0 => mid = <<>>
      <4>1. n = 0 => \A x : x \notin ToSet(mid)
        <5>1. n = 0 => mid = SubSeq(barrier_queue, 2, 1)
          BY <1>4
        <5>2. SubSeq(barrier_queue, 2, 1) = <<>>
          BY SubSeqProperties, <2>2
        <5>3. QED
          BY <5>1, <5>2 DEF ToSet
      <4>2. QED
        BY <4>1, <2>4, EmptySeq, LenProperties DEF ToSet
    <3>2. n > 0 => pc'[c] = "reinsert"
      BY <1>1, <1>4 DEF goto
    <3>3. QED
      BY <1>4, <2>3, <3>1, <3>2 DEF LocalOK
  <2>19. QED
    BY <2>16, <2>17, <2>18 DEF Kept
<1>5. QED
  BY <1>3, <1>4 DEF release_barrier_requests

\* release_barrier_requests: one request of local_list.
LEMMA LocalKeeps ==
  ASSUME QInv, NEW c \in CPUs, release_local_list(c)
  PROVE  Kept
<1> DEFINE q == local_list
           r == Head(q)
           P(loc, S) == Placed(ListsOf(prio_queue, dl_tree, batch_queue, barrier_queue, loc), S)
<1>1. /\ pc[c] = "reinsert" /\ q \in Seq(Requests) /\ q # <<>> /\ pc \in [CPUs -> Labels]
      /\ UNCHANGED <<inserted, prio_queue, batch_queue, barrier_queue>>
  BY DEF release_local_list, prioVars, barVars, pageVars, envVars, QInv, IInv, CtlOK
<1>2. /\ merge_or_insert_to_dl_tree(r, rq[r]) /\ local_list' = Tail(q)
      /\ goto(c, IF Tail(q) = <<>> THEN "pq" ELSE "reinsert")
  BY DEF release_local_list
<1>3. LocalName \in QueueNames /\ Lists[LocalName] = q /\ Placed(Lists, Queued)
  BY Names, ListAt DEF Lists, QInv, PlaceOK
<1> HIDE DEF q
<1>4. IsInjective(q)
  BY <1>3 DEF Placed
<1>5. /\ r \in ToSet(q) /\ Tail(q) \in Seq(Requests) /\ IsInjective(Tail(q))
      /\ ToSet(Tail(q)) = ToSet(q) \ {r}
  BY <1>1, <1>4, TailDistinct
<1> HIDE DEF r
<1>6. r \in Queued /\ r \in Requests /\ rq[r].status = "queued" /\ rq[r] \in RqType
  BY <1>3, <1>5, InListQueued DEF QInv, IInv, RqOK
<1>7. P(Tail(q), Queued \ {r})
  <2>1. {r} \subseteq ToSet(Lists[LocalName])
        /\ ToSet(Tail(q)) = ToSet(Lists[LocalName]) \ {r}
    BY <1>3, <1>5
  <2>2. Placed(Put(Lists, LocalName, Tail(q)), Queued \ {r})
    BY <1>3, <1>5, <2>1, Leave
  <2>3. Put(Lists, LocalName, Tail(q))
          = ListsOf(prio_queue, dl_tree, batch_queue, barrier_queue, Tail(q))
    BY LocalList DEF Lists
  <2>4. QED
    BY <2>2, <2>3
<1>8. /\ Placed(ListsOf(prio_queue, dl_tree', batch_queue, barrier_queue, Tail(q)), Queued')
      /\ \A x \in Requests \ {r} : rq'[x].status # rq[x].status => x \in Known
  BY <1>2, <1>6, <1>7, PlacedOrMerged DEF QInv, IInv
<1>9. PlaceOK'
  BY <1>1, <1>2, <1>8 DEF PlaceOK, Lists
<1>10. NewOK'
  <2>1. \A x \in Requests : rq'[x].status # rq[x].status => rq[x].status # "new"
    BY <1>6, <1>8 DEF Known
  <2>2. QED
    BY <1>1, <2>1, NewKept DEF QInv
<1>11. LocalOK'
  BY <1>1, <1>2 DEF LocalOK, goto
<1>12. QED
  BY <1>9, <1>10, <1>11 DEF Kept

\* adios_completed_request.
LEMMA CompletedKeeps ==
  ASSUME QInv, NEW r \in Requests, adios_completed_request(r)
  PROVE  Kept
<1>1. /\ UNCHANGED <<inserted, prio_queue, dl_tree, batch_queue, barrier_queue, local_list, pc>>
      /\ rq[r].status = "dispatched" /\ rq'[r].status = "completed"
      /\ \A q \in Requests \ {r} : rq'[q] = rq[q]
  BY DEF adios_completed_request, dlVars, pageVars, barVars, envVars, ctlVars, QInv, IInv,
         RqOK, RqType
<1>2. Queued' = Queued
  <2>1. Queued' = Queued \ {r}
    BY <1>1, QueuedChange
  <2>2. r \notin Queued
    BY <1>1 DEF Queued
  <2>3. QED
    BY <2>1, <2>2
<1>3. PlaceOK'
  BY <1>1, <1>2 DEF QInv, PlaceOK, Lists
<1>4. NewOK'
  <2>1. \A q \in Requests : rq'[q].status # rq[q].status => rq[q].status # "new"
    BY <1>1
  <2>2. QED
    BY <1>1, <2>1, NewKept DEF QInv
<1>5. LocalOK'
  BY <1>1 DEF QInv, LocalOK
<1>6. QED
  BY <1>3, <1>4, <1>5 DEF Kept

\* The empty lists of a new scheduler.
LEMMA InitQInv ==
  ASSUME NEW stable \in BOOLEAN, NEW bases \in [OpTypes -> Nat], InitWith(stable, bases)
  PROVE  QInv
<1>1. IInv
  BY InitIInv
<1>2. NewOK /\ LocalOK
  BY DEF InitWith, NewOK, LocalOK
<1>3. \A n \in QueueNames : Lists[n] = <<>>
  <2>1. /\ \A i \in Bit : prio_queue[i] = <<>> /\ dl_tree[i] = <<>>
        /\ \A p \in Bit, o \in OpTypes : batch_queue[p][o] = <<>>
        /\ barrier_queue = <<>> /\ local_list = <<>>
    BY DEF InitWith
  <2>2. /\ \A i \in Bit : Lists[PqName(i)] = <<>> /\ Lists[DlName(i)] = <<>>
        /\ \A p \in Bit, o \in OpTypes : Lists[BqName(p, o)] = <<>>
        /\ Lists[BarrierName] = <<>> /\ Lists[LocalName] = <<>>
    BY <2>1, ListAt DEF Lists
  <2>3. QED
    BY <2>2, Names
<1>4. Lists \in [QueueNames -> Seq(Requests)]
  <2>1. DOMAIN Lists = QueueNames /\ Lists = [n \in QueueNames |-> Lists[n]]
    BY DEF Lists, ListsOf
  <2> HIDE DEF Lists
  <2>2. QED
    BY <1>3, <2>1, EmptySeq
<1>5. Queued = {}
  BY DEF InitWith, Queued
<1>6. PlaceOK
  <2>1. \A x : x \notin ToSet(<<>>)
    BY DEF ToSet
  <2>2. IsInjective(<<>>)
    BY DEF IsInjective
  <2>3. QED
    BY <1>3, <1>4, <1>5, <2>1, <2>2 DEF PlaceOK, Placed
<1>7. QED
  BY <1>1, <1>2, <1>6 DEF QInv

\* Every step of the scheduler preserves the invariant.
LEMMA NextQInv ==
  ASSUME QInv, [Next]_vars
  PROVE  QInv'
<1>1. IInv'
  BY NextIInv DEF QInv
<1>2. ASSUME NEW c \in CPUs, Dispatch(c) PROVE Kept
  <2>1. CASE call_dispatch(c) \/ check_barrier(c)
    <3>1. /\ UNCHANGED <<rq, inserted, prio_queue, dl_tree, batch_queue, barrier_queue,
                         local_list>>
          /\ \A d \in CPUs : pc[d] = "reinsert" => pc'[d] = "reinsert"
      BY <2>1 DEF call_dispatch, check_barrier, goto, prioVars, dlVars, barVars, pageVars,
                  envVars, QInv, IInv, CtlOK
    <3>2. QED
      BY <3>1, OtherStepsKeep
  <2>2. QED
    BY <1>2, <2>1, PqKeeps, BqKeeps, FillKeeps, DoneKeeps, ReleaseKeeps, LocalKeeps
       DEF Dispatch
<1>3. CASE \/ \E o \in OpTypes, b \in Bases : latency_model_update(o, b)
           \/ \E o \in Bit : adios_batch_order_store(o)
           \/ adios_bio_merge_oops \/ UNCHANGED vars
  <2>1. UNCHANGED <<rq, inserted, prio_queue, dl_tree, batch_queue, barrier_queue,
                    local_list, pc>>
    BY <1>3 DEF latency_model_update, adios_batch_order_store, adios_bio_merge_oops, vars,
                prioVars, dlVars, barVars, pageVars, ctlVars, envVars
  <2>2. Kept
    BY <2>1, OtherStepsKeep
  <2>3. QED
    BY <1>1, <2>2 DEF Kept, QInv
<1>4. ASSUME Kept PROVE QInv'
  BY <1>1, <1>4 DEF Kept, QInv
<1>5. QED
  BY <1>2, <1>3, <1>4, InsertKeeps, MergeKeeps, CompletedKeeps DEF Next

---------------------------------------------------------------------------
(* The theorems.                                                           *)

\* A list of distinct requests is no longer than their number.
LEMMA DistinctLength ==
  ASSUME NEW q \in Seq(Requests), IsInjective(q)
  PROVE  DOMAIN q \subseteq Requests
<1> DEFINE n == Len(q)
<1>1. n \in Nat /\ DOMAIN q = 1..n /\ q \in [1..n -> Requests] /\ MaxReq \in Nat
  BY LenProperties, ConstantsAssumption
<1> HIDE DEF n
<1>2. /\ IsFiniteSet(1..n) /\ Cardinality(1..n) = n
      /\ IsFiniteSet(Requests) /\ Cardinality(Requests) = MaxReq
  BY <1>1, FS_Interval DEF Requests
<1>3. ~(MaxReq < n)
  <2> SUFFICES ASSUME MaxReq < n PROVE FALSE
    OBVIOUS
  <2>1. \E x, y \in 1..n : x # y /\ q[x] = q[y]
    BY <1>1, <1>2, FS_PigeonHole
  <2>2. QED
    BY <1>1, <2>1 DEF IsInjective
<1>4. QED
  BY <1>1, <1>3 DEF Requests

\* Where the request r is, as the property counts it.
Places(r) == {at \in QueueNames \X Requests :
                at[2] \in DOMAIN Contents(at[1]) /\ Contents(at[1])[at[2]] = r}

\* The invariant implies the property.
LEMMA PlaceOnce ==
  ASSUME QInv
  PROVE  QueuedOnce
<1>1. ASSUME NEW n \in QueueNames PROVE Contents(n) = Lists[n]
  <2>1. Lists[n] = ListOf(n, prio_queue, dl_tree, batch_queue, barrier_queue, local_list)
    BY DEF Lists, ListsOf
  <2>2. CASE \E i \in Bit : n = PqName(i)
    BY <2>1, <2>2 DEF Contents, ListOf, PqName
  <2>3. CASE \E i \in Bit : n = DlName(i)
    BY <2>1, <2>3 DEF Contents, ListOf, DlName
  <2>4. CASE \E p \in Bit, o \in OpTypes : n = BqName(p, o)
    BY <2>1, <2>4 DEF Contents, ListOf, BqName
  <2>5. CASE n = BarrierName \/ n = LocalName
    BY <2>1, <2>5 DEF Contents, ListOf, BarrierName, LocalName
  <2>6. QED
    BY <2>2, <2>3, <2>4, <2>5, Names
<1>2. ASSUME NEW r \in Requests
      PROVE  Cardinality(Places(r)) = IF rq[r].status = "queued" THEN 1 ELSE 0
  <2>1. \A at : at \in Places(r) =>
          at[1] \in QueueNames /\ r \in ToSet(Lists[at[1]])
    BY <1>1 DEF ToSet, Places
  <2>2. CASE rq[r].status # "queued"
    <3>1. \A n \in QueueNames : r \notin ToSet(Lists[n])
      BY <2>2 DEF QInv, PlaceOK, Placed, Queued
    <3>2. Places(r) = {}
      BY <2>1, <3>1
    <3>3. QED
      BY <2>2, <3>2, FS_EmptySet
  <2>3. CASE rq[r].status = "queued"
    <3>1. PICK n \in QueueNames : r \in ToSet(Lists[n])
      BY <2>3 DEF QInv, PlaceOK, Placed, Queued
    <3> DEFINE q == Lists[n]
    <3>2. q \in Seq(Requests) /\ IsInjective(q)
      BY DEF QInv, PlaceOK, Placed
    <3>3. \A m \in QueueNames : r \in ToSet(Lists[m]) => m = n
      BY <3>1 DEF QInv, PlaceOK, Placed
    <3>4. PICK k \in DOMAIN q : q[k] = r
      BY <3>1 DEF ToSet
    <3>5. k \in Requests
      <4> HIDE DEF q
      <4>1. QED
        BY <3>2, <3>4, DistinctLength
    <3>6. ASSUME NEW at
          PROVE  at \in Places(r) <=> at = <<n, k>>
      <4>1. at \in Places(r) => at \in QueueNames \X Requests /\ at[1] = n /\ at[2] \in DOMAIN q
                             /\ q[at[2]] = r
        BY <1>1, <2>1, <3>3 DEF Places
      <4>2. at \in Places(r) => at[2] = k
        BY <3>2, <3>4, <4>1 DEF IsInjective
      <4>3. at \in Places(r) => at = <<n, k>>
        BY <4>1, <4>2
      <4>4. <<n, k>> \in Places(r)
        BY <1>1, <3>4, <3>5 DEF Places
      <4>5. QED
        BY <4>3, <4>4
    <3>7. Places(r) = {<<n, k>>}
      BY <3>6
    <3>8. QED
      BY <2>3, <3>7, FS_Singleton
  <2>4. QED
    BY <2>2, <2>3
<1>3. QED
  BY <1>2 DEF QueuedOnce, Places

\* From adios_init_sched on, and from the scheduler with stable models that
\* most runs start from, with any number of CPUs and requests and any tunables,
\* a request that counts as queued is in exactly one list, and any other in
\* none: not one that was merged, also into a request which a failed allocation
\* had left in no list, and not that one either.
THEOREM QueuedOnceAlways == Spec \/ WarmSpec => []QueuedOnce
<1>1. Init => QInv
  BY InitQInv DEF Init
<1>2. WarmInit => QInv
  <2> SUFFICES ASSUME NEW b \in Bases \ {0},
                      InitWith(TRUE, [o \in OpTypes |-> IF o = 3 THEN 0 ELSE b])
               PROVE  QInv
    BY DEF WarmInit
  <2>1. [o \in OpTypes |-> IF o = 3 THEN 0 ELSE b] \in [OpTypes -> Nat]
    BY ConstantsAssumption
  <2>2. QED
    BY <2>1, InitQInv
<1>3. QInv /\ [Next]_vars => QInv'
  BY NextQInv
<1>4. QInv => QueuedOnce
  BY PlaceOnce
<1>5. QED
  BY <1>1, <1>2, <1>3, <1>4, PTL DEF Spec, WarmSpec

---------------------------------------------------------------------------
(* What a step does to the requests and to the pages.                      *)

\* What a request keeps from its insertion on.
KindKept(q) ==
  rq'[q].kind = rq[q].kind /\ rq'[q].pred = rq[q].pred /\ rq'[q].gated = rq[q].gated

\* A request put into a tree, or one that no group could be allocated for.
LEMMA AddKinds ==
  ASSUME RqOK, NEW r \in Requests, NEW n \in RqType, NEW tree, NEW flags,
         add_to_dl_tree(r, n, tree, flags)
  PROVE  /\ \A q \in Requests \ {r} : KindKept(q)
         /\ rq'[r].kind = n.kind /\ rq'[r].pred = n.pred /\ rq'[r].gated = n.gated
<1>1. \/ rq' = [rq EXCEPT ![r] = [n EXCEPT !.deadline = Deadline(n)]]
      \/ rq' = [rq EXCEPT ![r] = [n EXCEPT !.deadline = Deadline(n), !.status = "lost"]]
  BY DEF add_to_dl_tree
<1>2. rq \in [Requests -> RqType]
  BY DEF RqOK
<1>3. \A q \in Requests \ {r} : rq'[q] = rq[q]
  BY <1>1, <1>2
<1>4. rq'[r].kind = n.kind /\ rq'[r].pred = n.pred /\ rq'[r].gated = n.gated
  BY <1>1, <1>2 DEF RqType
<1>5. QED
  BY <1>3, <1>4 DEF KindKept

\* The same for a request that may be merged instead.
LEMMA MergeKinds ==
  ASSUME RqOK, NEW r \in Requests, NEW n \in RqType, merge_or_insert_to_dl_tree(r, n)
  PROVE  /\ \A q \in Requests \ {r} : KindKept(q)
         /\ rq'[r].kind = n.kind /\ rq'[r].pred = n.pred /\ rq'[r].gated = n.gated
<1>1. CASE add_to_dl_tree(r, n, dl_tree, dl_flags)
  BY <1>1, AddKinds
<1>2. ASSUME NEW S, rq' = [q \in Requests |->
                            IF q = r THEN [n EXCEPT !.status = "merged"]
                            ELSE IF q \in S THEN [rq[q] EXCEPT !.status = "merged"]
                            ELSE rq[q]]
      PROVE  /\ \A q \in Requests \ {r} : KindKept(q)
             /\ rq'[r].kind = n.kind /\ rq'[r].pred = n.pred /\ rq'[r].gated = n.gated
  BY <1>2 DEF KindKept, RqOK, RqType
<1>3. QED
  BY <1>1, <1>2 DEF merge_or_insert_to_dl_tree

\* An insertion changes the request it inserts only.
LEMMA InsertKinds ==
  ASSUME QInv, NEW r \in Requests, NEW k \in KindType, insert_request(r, k)
  PROVE  /\ \A q \in Requests \ {r} : KindKept(q)
         /\ rq'[r].kind = k /\ rq'[r].gated = models_stable
<1> DEFINE n == [kind |-> k, pred |-> base[OpType(k)], deadline |-> 0,
                 status |-> "queued", gated |-> models_stable]
<1>1. n \in RqType /\ n.kind = k /\ n.gated = models_stable
  <2>1. base[OpType(k)] \in Nat
    BY IndexTypes DEF QInv, IInv, ModelOK
  <2>2. QED
    BY <2>1 DEF RqType, Statuses, QInv, IInv, ModelOK
<1> HIDE DEF n
<1>2. CASE rq' = [rq EXCEPT ![r] = n]
  BY <1>1, <1>2 DEF KindKept, QInv, IInv, RqOK, RqType
<1>3. CASE merge_or_insert_to_dl_tree(r, n)
  BY <1>1, <1>3, MergeKinds DEF QInv, IInv
<1>4. insert_request_pre_stability(r, n) \/ insert_request_post_stability(r, n)
  BY DEF insert_request, n
<1>5. QED
  BY <1>2, <1>3, <1>4 DEF insert_request_pre_stability, insert_request_post_stability

\* Steps that insert nothing.
Step ==
  \/ bio_merge_check
  \/ adios_bio_merge
  \/ adios_bio_merge_oops
  \/ \E c \in CPUs : Dispatch(c)
  \/ \E r \in Requests : adios_completed_request(r)
  \/ \E o \in OpTypes, b \in Bases : latency_model_update(o, b)
  \/ \E o \in Bit : adios_batch_order_store(o)
  \/ UNCHANGED vars

\* The request that leaves the scheduler keeps its kind.
LEMMA FoundKinds ==
  ASSUME RqOK, NEW c, NEW r, found(c, r), NEW q \in Requests
  PROVE  KindKept(q)
BY DEF found, KindKept, RqOK, RqType

\* No other step changes the kind of a request.
LEMMA StepKinds ==
  ASSUME QInv, Step, NEW q \in Requests
  PROVE  KindKept(q)
<1>1. RqOK /\ \A r \in Requests : rq[r] \in RqType
  BY DEF QInv, IInv, RqOK
<1>2. ASSUME UNCHANGED rq PROVE KindKept(q)
  BY <1>2 DEF KindKept
<1>3. CASE adios_bio_merge
  <2>1. ASSUME NEW i \in Bit, NEW r \in ToSet(dl_tree[i]), adios_request_merged(i, r)
        PROVE  KindKept(q)
    <3>1. r \in Requests
      BY ToSetType DEF QInv, IInv, DlOK, TreesAgree
    <3>2. PICK rest \in Without(dl_tree[i], {r}) :
            add_to_dl_tree(r, rq[r], [dl_tree EXCEPT ![i] = rest],
                           ClearIfEmpty(dl_flags, i, rest))
      BY <2>1 DEF adios_request_merged
    <3>3. QED
      BY <1>1, <3>1, <3>2, AddKinds DEF KindKept
  <2>2. ASSUME NEW i \in Bit, NEW next \in Requests, adios_merged_requests(i, next)
        PROVE  KindKept(q)
    BY <1>1, <2>2 DEF adios_merged_requests, KindKept, RqType, RqOK
  <2>3. QED
    BY <1>2, <1>3, <2>1, <2>2 DEF adios_bio_merge, Mergeable
<1>4. ASSUME NEW c \in CPUs, Dispatch(c) PROVE KindKept(q)
  <2>1. CASE call_dispatch(c) \/ fill_batch_queues(c) \/ check_barrier(c)
             \/ release_barrier_requests(c)
    BY <1>2, <2>1 DEF call_dispatch, fill_batch_queues, check_barrier,
                      release_barrier_requests
  <2>2. CASE dispatch_from_pq(c)
    BY <1>1, <1>2, <2>2, FoundKinds DEF dispatch_from_pq
  <2>3. ASSUME NEW hasRq, NEW bqs, NEW flags, pop_bq_request(c, hasRq, bqs, flags)
        PROVE  KindKept(q)
    BY <1>1, <1>2, <2>3, FoundKinds DEF pop_bq_request
  <2>4. CASE dispatch_from_bq(c)
    BY <1>2, <2>3, <2>4 DEF dispatch_from_bq
  <2>5. CASE fill_batch_queues_done(c)
    BY <2>3, <2>5 DEF fill_batch_queues_done
  <2>6. CASE release_local_list(c)
    <3> DEFINE r == Head(local_list)
    <3>1. r \in Requests /\ merge_or_insert_to_dl_tree(r, rq[r])
      BY <2>6, HeadTailProperties DEF release_local_list, QInv, IInv, CtlOK
    <3> HIDE DEF r
    <3>2. QED
      BY <1>1, <3>1, MergeKinds DEF KindKept
  <2>7. QED
    BY <1>4, <2>1, <2>2, <2>4, <2>5, <2>6 DEF Dispatch
<1>5. ASSUME NEW r \in Requests, adios_completed_request(r) PROVE KindKept(q)
  BY <1>1, <1>5 DEF adios_completed_request, KindKept, RqType, RqOK
<1>6. CASE \/ bio_merge_check \/ adios_bio_merge_oops
           \/ \E o \in OpTypes, b \in Bases : latency_model_update(o, b)
           \/ \E o \in Bit : adios_batch_order_store(o)
           \/ UNCHANGED vars
  BY <1>2, <1>6 DEF bio_merge_check, adios_bio_merge_oops, latency_model_update, adios_batch_order_store, vars
<1>7. QED
  BY <1>3, <1>4, <1>5, <1>6 DEF Step

\* What the scheduler has queued keeps its kind in every step.
LEMMA QueuedKinds ==
  ASSUME QInv, [Next]_vars, NEW q \in Queued
  PROVE  KindKept(q)
<1>1. q \in Requests /\ rq[q].status = "queued"
  BY DEF Queued
<1>2. ASSUME NEW k \in Kinds, adios_insert_requests(k) PROVE KindKept(q)
  <2>1. inserted + 1 \in Requests /\ k \in KindType /\ insert_request(inserted + 1, k)
    BY <1>2, ConstantsAssumption DEF adios_insert_requests, QInv, IInv, EnvOK, Requests
  <2>2. q # inserted + 1
    BY <1>1 DEF QInv, NewOK, IInv, EnvOK
  <2>3. QED
    BY <1>1, <2>1, <2>2, InsertKinds
<1>3. ASSUME NEW r \in Requests, Requeue(r) PROVE KindKept(q)
  <2>1. rq[r].status = "dispatched" /\ insert_request(r, [rq[r].kind EXCEPT !.head = TRUE])
    BY <1>3 DEF Requeue
  <2>2. [rq[r].kind EXCEPT !.head = TRUE] \in KindType
    BY DEF QInv, IInv, RqOK, RqType, KindType
  <2>3. QED
    BY <1>1, <2>1, <2>2, InsertKinds
<1>4. CASE Step
  BY <1>1, <1>4, StepKinds
<1>5. QED
  BY <1>2, <1>3, <1>4 DEF Next, Step

\* A page is being filled as long as bq_lock is held between steps.
LEMMA FillingIs ==
  ASSUME IInv
  PROVE  /\ (\E c \in CPUs : pc[c] \in {"fill", "filled"}) <=> bq_lock # NoOne
         /\ \A p \in Bit : Filling(p) <=> bq_lock # NoOne /\ p = 1 - bq_page
<1>1. (\E c \in CPUs : pc[c] \in {"fill", "filled"}) <=> bq_lock # NoOne
  BY ConstantsAssumption DEF IInv, CtlOK
<1>2. QED
  BY <1>1 DEF Filling

\* The same after a step.
LEMMA FillingWillBe ==
  ASSUME IInv'
  PROVE  /\ (\E c \in CPUs : pc'[c] \in {"fill", "filled"}) <=> bq_lock' # NoOne
         /\ \A p \in Bit : Filling(p)' <=> bq_lock' # NoOne /\ p = 1 - bq_page'
<1>1. (\E c \in CPUs : pc'[c] \in {"fill", "filled"}) <=> bq_lock' # NoOne
  BY ConstantsAssumption DEF IInv, CtlOK
<1>2. QED
  BY <1>1 DEF Filling

\* Most steps have nothing to do with the pages.
Quiet == UNCHANGED <<pageVars, batchVars, bq_lock>>

\* The steps that work on the pages, by CPU c.
PageStep(c) ==
  \/ dispatch_from_bq(c)
  \/ fill_batch_queues(c)
  \/ fill_batch_queues_done(c)

\* Any step is of one of the two sorts.
LEMMA QuietOrPage ==
  ASSUME [Next]_vars
  PROVE  Quiet \/ \E c \in CPUs : PageStep(c)
<1>1. ASSUME NEW r, NEW k, insert_request(r, k) PROVE Quiet
  BY <1>1 DEF insert_request, Quiet, ctlVars
<1>2. CASE (\E k \in Kinds : adios_insert_requests(k)) \/ \E r \in Requests : Requeue(r)
  BY <1>1, <1>2 DEF adios_insert_requests, Requeue
<1>3. CASE bio_merge_check \/ adios_bio_merge \/ adios_bio_merge_oops
  BY <1>3 DEF bio_merge_check, adios_bio_merge, adios_bio_merge_oops, Quiet, ctlVars
<1>4. ASSUME NEW c \in CPUs, Dispatch(c) PROVE Quiet \/ PageStep(c)
  BY <1>4 DEF Dispatch, PageStep, call_dispatch, dispatch_from_pq, check_barrier,
              release_barrier_requests, release_local_list, Quiet
<1>5. CASE \/ \E r \in Requests : adios_completed_request(r)
           \/ \E o \in OpTypes, b \in Bases : latency_model_update(o, b)
           \/ \E o \in Bit : adios_batch_order_store(o)
           \/ UNCHANGED vars
  BY <1>5 DEF adios_completed_request, latency_model_update, adios_batch_order_store, vars,
              Quiet, ctlVars, batchVars
<1>6. QED
  BY <1>2, <1>3, <1>4, <1>5 DEF Next

\* The elements of a list after an addition to its tail.
LEMMA AppendToSet ==
  ASSUME NEW q \in Seq(Requests), NEW r \in Requests
  PROVE  ToSet(Append(q, r)) = ToSet(q) \cup {r}
<1> DEFINE t == Append(q, r)
<1>1. /\ t \in Seq(Requests) /\ Len(t) = Len(q) + 1
      /\ \A i \in 1..Len(q) : t[i] = q[i]
      /\ t[Len(q) + 1] = r
  BY AppendProperties
<1>2. /\ Len(q) \in Nat /\ DOMAIN q = 1..Len(q) /\ DOMAIN t = 1..(Len(q) + 1)
  BY <1>1, LenProperties
<1>3. \A i : i \in 1..(Len(q) + 1) <=> i \in 1..Len(q) \/ i = Len(q) + 1
  BY <1>2
<1> HIDE DEF t
<1>4. ToSet(t) = ToSet(q) \cup {r}
  BY <1>1, <1>2, <1>3 DEF ToSet
<1>5. QED
  BY <1>4 DEF t

\* The first element of a list is in it.
LEMMA SeqHead ==
  ASSUME NEW q \in Seq(Requests), q # <<>>
  PROVE  Head(q) \in ToSet(q)
<1>1. Len(q) \in Nat /\ Len(q) # 0 /\ DOMAIN q = 1..Len(q) /\ Head(q) = q[1]
  BY EmptySeq, LenProperties, HeadTailProperties
<1>2. 1 \in DOMAIN q
  BY <1>1
<1>3. QED
  BY <1>1, <1>2 DEF ToSet

\* A request is in one list only.
LEMMA OneList ==
  ASSUME QInv, NEW m \in QueueNames, NEW n \in QueueNames, m # n,
         NEW r \in ToSet(Lists[m])
  PROVE  r \notin ToSet(Lists[n])
BY DEF QInv, PlaceOK, Placed

\* One request is popped from pages bqs, at either end of its queue.
Pops(c, bqs, p, o, back) ==
  LET q == bqs[p][o]
  IN  /\ q # <<>>
      /\ found(c, IF back THEN Last(q) ELSE Head(q))
      /\ batch_queue' = [bqs EXCEPT ![p][o] = IF back THEN Front(q) ELSE Tail(q)]

\* Nothing or one request is popped.
Popped(c, bqs) ==
  \/ batch_queue' = bqs /\ UNCHANGED rq
  \/ \E p \in Bit, o \in OpTypes, back \in BOOLEAN : Pops(c, bqs, p, o, back)

\* pop_bq_request, whatever page it has flipped to, pops at most one.
LEMMA PopPages ==
  ASSUME QInv, NEW c, NEW hasRq, NEW bqs, NEW flags,
         \A p \in Bit : \A o \in OpTypes : o \in bq_state[p] <=> bqs[p][o] # <<>>,
         pop_bq_request(c, hasRq, bqs, flags)
  PROVE  Popped(c, bqs)
<1> DEFINE page == FlippedPage(hasRq, flags)
           dir  == IF page = bq_page THEN elv_direction
                   ELSE ElvDirection(bq_batch_order[page], bqs[page][1])
           idx  == Min(bq_state[page])
           back == bq_batch_order[page] = 1 /\ idx = 1 /\ dir = 1
<1>1. page \in Bit
  BY DEF FlippedPage, QInv, IInv, PageOK, Bit
<1> HIDE DEF page, dir
<1>2. CASE bq_state[page] = {}
  BY <1>2 DEF pop_bq_request, page, Popped
<1>3. CASE bq_state[page] # {}
  <2>1. idx \in OpTypes /\ idx \in bq_state[page]
    <3>1. bq_state[page] \subseteq OpTypes
      BY <1>1 DEF QInv, IInv, PageOK
    <3>2. bq_state[page] \subseteq Nat
      BY <3>1 DEF OpTypes
    <3>3. idx \in bq_state[page]
      BY <1>3, <3>2, MinType
    <3>4. QED
      BY <3>1, <3>3
  <2>2. bqs[page][idx] # <<>>
    BY <1>1, <2>1
  <2>3. /\ found(c, IF back THEN Last(bqs[page][idx]) ELSE Head(bqs[page][idx]))
        /\ batch_queue' = [bqs EXCEPT ![page][idx] = IF back THEN Front(bqs[page][idx])
                                                     ELSE Tail(bqs[page][idx])]
    BY <1>3 DEF pop_bq_request, page, dir
  <2>4. back \in BOOLEAN
    OBVIOUS
  <2> HIDE DEF idx, back
  <2>5. Pops(c, bqs, page, idx, back)
    BY <2>2, <2>3 DEF Pops
  <2>6. QED
    BY <1>1, <2>1, <2>4, <2>5 DEF Popped
<1>4. QED
  BY <1>2, <1>3

\* A page from which something may be popped at the end of a fill.
LEMMA DonePages ==
  ASSUME QInv, NEW c \in CPUs, fill_batch_queues_done(c)
  PROVE  \E bqs :
           /\ Popped(c, bqs)
           /\ bqs \in [Bit -> [OpTypes -> Seq(Requests)]]
           /\ \A p \in Bit, o \in OpTypes :
                \/ bqs[p][o] = batch_queue[p][o]
                \/ /\ p = 1 - bq_page /\ o = 1
                   /\ bqs[p][o] \in SortedByPos(batch_queue[p][o])
           /\ bq_batch_order[1 - bq_page] = 1 /\ batch_count[1 - bq_page][1] > 1
                => bqs[1 - bq_page][1] \in SortedByPos(batch_queue[1 - bq_page][1])
<1> DEFINE page  == 1 - bq_page
           q     == batch_queue[page][1]
           flags == IF fill.count > 0 THEN bq_flags \cup {page} ELSE bq_flags
<1>1. page \in Bit /\ 1 \in OpTypes /\ batch_queue \in [Bit -> [OpTypes -> Seq(Requests)]]
  BY DEF QInv, IInv, PageOK, Bit, OpTypes
<1>2. PICK sorted \in IF bq_batch_order[page] = 1 /\ batch_count[page][1] > 1
                      THEN SortedByPos(q) ELSE {q} :
        pop_bq_request(c, fill.curHasRq, [batch_queue EXCEPT ![page][1] = sorted], flags)
  BY DEF fill_batch_queues_done
<1> DEFINE bqs == [batch_queue EXCEPT ![page][1] = sorted]
<1>3. q \in Seq(Requests)
  BY <1>1
<1>4. sorted \in Seq(Requests) /\ (sorted = <<>> <=> q = <<>>)
  <2> HIDE DEF q
  <2>1. QED
    BY <1>2, <1>3, SortedType
<1>5. bqs \in [Bit -> [OpTypes -> Seq(Requests)]]
      /\ \A p \in Bit : \A o \in OpTypes : o \in bq_state[p] <=> bqs[p][o] # <<>>
  BY <1>1, <1>4 DEF QInv, IInv, PageOK
<1>6. /\ \A p \in Bit, o \in OpTypes : p # page \/ o # 1 => bqs[p][o] = batch_queue[p][o]
      /\ bqs[page][1] = sorted
  BY <1>1
<1>7. pop_bq_request(c, fill.curHasRq, bqs, flags)
  BY <1>2
<1> HIDE DEF bqs, flags
<1>8. Popped(c, bqs)
  BY <1>5, <1>7, PopPages
<1>9. sorted = q \/ sorted \in SortedByPos(q)
  BY <1>2
<1>10. ASSUME NEW p \in Bit, NEW o \in OpTypes
       PROVE  \/ bqs[p][o] = batch_queue[p][o]
              \/ /\ p = 1 - bq_page /\ o = 1
                 /\ bqs[p][o] \in SortedByPos(batch_queue[p][o])
  <2>1. CASE p = page /\ o = 1
    BY <1>6, <1>9, <2>1
  <2>2. QED
    BY <1>6, <2>1
<1>11. bq_batch_order[1 - bq_page] = 1 /\ batch_count[1 - bq_page][1] > 1
         => bqs[1 - bq_page][1] \in SortedByPos(batch_queue[1 - bq_page][1])
  BY <1>2, <1>6
<1>12. bqs \in [Bit -> [OpTypes -> Seq(Requests)]]
  BY <1>5
<1>13. QED
  BY <1>8, <1>10, <1>11, <1>12

\* An iteration of fill_batch_queues ends the fill or adds a request to it.
Added(r, o) ==
  LET page == 1 - bq_page
  IN  /\ ~BatchFull(r) /\ \E i \in Bit : r \in ToSet(dl_tree[i])
      /\ batch_queue' = [batch_queue EXCEPT ![page][o] = Append(@, r)]
      /\ batch_count' = [batch_count EXCEPT ![page][OpType(rq[r].kind)] = @ + 1]
      /\ fill'.count = fill.count + 1
      /\ fill'.tpl = fill.tpl /\ fill'.added = fill.added + rq[r].pred

\* Which of the two fill_batch_queues does.
LEMMA FillPages ==
  ASSUME QInv, NEW c \in CPUs, fill_batch_queues(c)
  PROVE  /\ bq_lock = c /\ UNCHANGED <<bq_page, bq_batch_order, bq_lock, rq, prioVars>>
         /\ \/ UNCHANGED <<batch_queue, batch_count, fill>>
            \/ \E r \in Requests, o \in OpTypes : Added(r, o)
<1> DEFINE i == FillIdx
           r == Head(dl_tree[i])
           o == DestIdx(r)
<1>1. /\ bq_lock = c /\ UNCHANGED <<bq_page, bq_batch_order, bq_lock, rq, prioVars>>
  BY DEF fill_batch_queues, QInv, IInv, CtlOK
<1>2. CASE UNCHANGED <<batch_queue, batch_count, fill>>
  BY <1>1, <1>2
<1>3. CASE /\ dl_flags # {} /\ ~BatchFull(r)
           /\ batch_queue' = [batch_queue EXCEPT ![1 - bq_page][o] = Append(@, r)]
           /\ batch_count' = [batch_count EXCEPT ![1 - bq_page][OpType(rq[r].kind)] = @ + 1]
           /\ fill' = [fill EXCEPT !.count = @ + 1, !.added = @ + rq[r].pred,
                                   !.dels = (fill.dels + 1) % MaxDeletes]
  <2>1. r \in Requests /\ \E j \in Bit : r \in ToSet(dl_tree[j])
    <3>1. i \in Bit /\ dl_tree[i] # <<>> /\ dl_tree[i] \in Seq(Requests)
      BY <1>3, FillTree DEF QInv, IInv
    <3> HIDE DEF i
    <3>2. QED
      BY <3>1, HeadTailProperties, SeqHead
  <2> HIDE DEF r
  <2>2. o \in OpTypes
    <3>1. OpType(rq[r].kind) \in OpTypes
      BY <2>1, IndexTypes DEF QInv, IInv, RqOK, RqType
    <3>2. QED
      BY <3>1 DEF DestIdx, OpTypes
  <2>3. fill \in [tpl : Int, added : Nat, count : Nat, dels : Nat, curHasRq : BOOLEAN]
    BY DEF QInv, IInv, FillOK
  <2>4. /\ fill'.count = fill.count + 1
        /\ fill'.tpl = fill.tpl /\ fill'.added = fill.added + rq[r].pred
    BY <1>3, <2>3
  <2> HIDE DEF o
  <2>5. Added(r, o)
    BY <1>3, <2>1, <2>4 DEF Added
  <2>6. QED
    BY <1>1, <2>1, <2>2, <2>5
<1>4. QED
  BY <1>2, <1>3 DEF fill_batch_queues

\* The beginning of a fill: the page to be filled is empty.
LEMMA StartPages ==
  ASSUME QInv, NEW c \in CPUs, dispatch_from_bq(c), MustRefill
  PROVE  /\ bq_lock = NoOne /\ bq_lock' = c
         /\ UNCHANGED <<bq_page, batch_queue, rq, prioVars>>
         /\ \A o \in OpTypes : batch_queue[1 - bq_page][o] = <<>>
         /\ fill'.count = 0 /\ fill'.tpl = in_flight.lat /\ fill'.added = 0
         /\ batch_count' = [batch_count EXCEPT ![1 - bq_page] = [o \in OpTypes |-> 0]]
         /\ bq_batch_order' = [bq_batch_order EXCEPT ![1 - bq_page] = batch_order]
<1>1. /\ bq_lock = NoOne /\ bq_lock' = c
      /\ UNCHANGED <<bq_page, batch_queue, rq, prioVars>>
      /\ fill' = [tpl |-> in_flight.lat, added |-> 0, count |-> 0, dels |-> 0,
                  curHasRq |-> bq_page \in bq_flags]
      /\ batch_count' = [batch_count EXCEPT ![1 - bq_page] = [o \in OpTypes |-> 0]]
      /\ bq_batch_order' = [bq_batch_order EXCEPT ![1 - bq_page] = batch_order]
  BY DEF dispatch_from_bq, pageVars
<1>2. 1 - bq_page \in Bit /\ 1 - bq_page \notin bq_flags
  BY DEF MustRefill, QInv, IInv, PageOK, Bit
<1>3. \A d \in CPUs : pc[d] \notin {"fill", "filled"}
  BY <1>1, ConstantsAssumption DEF QInv, IInv, CtlOK
<1>4. bq_state[1 - bq_page] = {}
  BY <1>2, <1>3, NoFillAgrees DEF QInv
<1>5. \A o \in OpTypes : batch_queue[1 - bq_page][o] = <<>>
  BY <1>2, <1>4 DEF QInv, IInv, PageOK
<1>6. QED
  BY <1>1, <1>5

\* What dispatch_from_bq and the end of a fill change besides what they pop.
LEMMA PopLeaves ==
  ASSUME QInv, NEW c \in CPUs,
         (dispatch_from_bq(c) /\ ~MustRefill) \/ fill_batch_queues_done(c)
  PROVE  bq_lock' = NoOne /\ UNCHANGED <<batchVars, prio_queue, pq_flags>>
BY DEF dispatch_from_bq, fill_batch_queues_done, pop_bq_request, prioVars

---------------------------------------------------------------------------
(* The elevator order.                                                     *)

\* The requests of the list q are in disk order.
InDiskOrder(q) ==
  \A i, j \in DOMAIN q : i < j => rq[q[i]].kind.pos <= rq[q[j]].kind.pos

\* The ends of such a list may be taken.
LEMMA PartInDiskOrder ==
  ASSUME NEW q \in Seq(Requests), q # <<>>, InDiskOrder(q)
  PROVE  InDiskOrder(Tail(q)) /\ InDiskOrder(Front(q))
<1> DEFINE n == Len(q) - 1
<1>1. n \in Nat /\ Len(q) = n + 1 /\ DOMAIN q = 1..(n + 1)
  BY EmptySeq, LenProperties
<1>2. /\ DOMAIN Tail(q) = 1..n
      /\ \A i \in 1..n : Tail(q)[i] = q[i + 1]
  <2>1. Tail(q) \in Seq(Requests) /\ Len(Tail(q)) = n /\ \A i \in 1..n : Tail(q)[i] = q[i + 1]
    BY <1>1, HeadTailProperties
  <2>2. QED
    BY <2>1, LenProperties
<1>3. /\ DOMAIN Front(q) = 1..n
      /\ \A i \in 1..n : Front(q)[i] = q[i]
  <2>1. \A i \in 1..n : q[i] \in Requests
    BY <1>1, ElementOfSeq
  <2>2. Front(q) = SubSeq(q, 1, n)
    BY DEF Front
  <2> HIDE DEF n
  <2>3. Front(q) \in Seq(Requests) /\ Len(Front(q)) = n
        /\ \A i \in 1..n : Front(q)[i] = q[i]
    BY <1>1, <2>1, <2>2, SubSeqProperties
  <2>4. QED
    BY <2>3, LenProperties
<1> HIDE DEF n
<1>4. InDiskOrder(Tail(q))
  <2> SUFFICES ASSUME NEW i \in 1..n, NEW j \in 1..n, i < j
               PROVE  rq[Tail(q)[i]].kind.pos <= rq[Tail(q)[j]].kind.pos
    BY <1>2 DEF InDiskOrder
  <2>1. i + 1 \in 1..(n + 1) /\ j + 1 \in 1..(n + 1) /\ i + 1 < j + 1
    BY <1>1
  <2>2. rq[q[i + 1]].kind.pos <= rq[q[j + 1]].kind.pos
    BY <1>1, <2>1 DEF InDiskOrder
  <2>3. QED
    BY <1>2, <2>2
<1>5. InDiskOrder(Front(q))
  <2> SUFFICES ASSUME NEW i \in 1..n, NEW j \in 1..n, i < j
               PROVE  rq[Front(q)[i]].kind.pos <= rq[Front(q)[j]].kind.pos
    BY <1>3 DEF InDiskOrder
  <2>1. i \in 1..(n + 1) /\ j \in 1..(n + 1)
    BY <1>1
  <2>2. rq[q[i]].kind.pos <= rq[q[j]].kind.pos
    BY <1>1, <2>1 DEF InDiskOrder
  <2>3. QED
    BY <1>3, <2>2
<1>6. QED
  BY <1>4, <1>5

\* list_sort puts a list into disk order.
LEMMA SortedInDiskOrder ==
  ASSUME RqOK, NEW q \in Seq(Requests), NEW s \in SortedByPos(q)
  PROVE  InDiskOrder(s)
<1>1. s \in Seq(Requests)
  BY SortedType
<1>2. \A i \in DOMAIN s : s[i] \in Requests
  BY <1>1, ElementOfSeq, LenProperties
<1>3. \A i \in DOMAIN s : rq[s[i]].kind.pos \in Nat
  BY <1>2 DEF RqOK, RqType, KindType
<1>4. \A i, j \in DOMAIN s : i < j =>
        \/ rq[s[i]].kind.pos < rq[s[j]].kind.pos
        \/ rq[s[i]].kind.pos = rq[s[j]].kind.pos
  BY DEF SortedByPos
<1>5. QED
  BY <1>3, <1>4 DEF InDiskOrder

\* A page that is neither filled nor popped from keeps its order, as the
\* requests in it keep their positions.
LEMMA OrderKept ==
  ASSUME QInv, [Next]_vars, NEW p \in Bit, NEW o \in OpTypes, InDiskOrder(batch_queue[p][o])
  PROVE  \A i, j \in DOMAIN batch_queue[p][o] : i < j =>
           rq'[batch_queue[p][o][i]].kind.pos <= rq'[batch_queue[p][o][j]].kind.pos
<1> DEFINE q == batch_queue[p][o]
<1>1. \A i \in DOMAIN q : q[i] \in Queued
  <2>1. BqName(p, o) \in QueueNames /\ Lists[BqName(p, o)] = q
    BY Names, ListAt DEF Lists
  <2>2. \A i \in DOMAIN q : q[i] \in ToSet(q)
    BY DEF ToSet
  <2> HIDE DEF q
  <2>3. QED
    BY <2>1, <2>2, InListQueued DEF QInv
<1> HIDE DEF q
<1>2. \A i \in DOMAIN q : rq'[q[i]].kind.pos = rq[q[i]].kind.pos
  BY <1>1, QueuedKinds DEF KindKept
<1>3. QED
  BY <1>2 DEF InDiskOrder, q

\* A pop keeps the order of the queue it takes from.
LEMMA PopOrder ==
  ASSUME QInv, NEW c, NEW bqs, bqs \in [Bit -> [OpTypes -> Seq(Requests)]], Popped(c, bqs),
         NEW p \in Bit, NEW o \in OpTypes, InDiskOrder(bqs[p][o])
  PROVE  InDiskOrder(batch_queue[p][o])'
<1>1. \A q \in Requests : KindKept(q)
  <2>1. UNCHANGED rq \/ \E r : found(c, r)
    BY DEF Popped, Pops
  <2>2. QED
    BY <2>1, FoundKinds DEF KindKept, QInv, IInv
<1>2. batch_queue'[p][o] \in Seq(Requests) /\ InDiskOrder(batch_queue'[p][o])
  <2>1. CASE batch_queue' = bqs
    BY <2>1
  <2>2. ASSUME NEW i \in Bit, NEW k \in OpTypes, NEW back \in BOOLEAN, Pops(c, bqs, i, k, back)
        PROVE  batch_queue'[p][o] \in Seq(Requests) /\ InDiskOrder(batch_queue'[p][o])
    <3> DEFINE q == bqs[p][o]
    <3>1. q \in Seq(Requests)
      OBVIOUS
    <3>2. CASE i = p /\ k = o
      <4>1. q # <<>> /\ batch_queue'[p][o] = IF back THEN Front(q) ELSE Tail(q)
        BY <2>2, <3>2 DEF Pops
      <4> HIDE DEF q
      <4>2. InDiskOrder(Tail(q)) /\ InDiskOrder(Front(q))
        BY <3>1, <4>1, PartInDiskOrder DEF q
      <4>3. Tail(q) \in Seq(Requests)
        BY <3>1, <4>1, HeadTailProperties
      <4>4. Front(q) \in Seq(Requests)
        BY <3>1, <4>1, EmptySeq, ElementOfSeq, SubSeqProperties DEF Front
      <4>5. QED
        BY <4>1, <4>2, <4>3, <4>4
    <3>3. CASE ~(i = p /\ k = o)
      <4>1. batch_queue'[p][o] = q
        BY <2>2, <3>3 DEF Pops
      <4>2. QED
        BY <4>1
    <3>4. QED
      BY <3>2, <3>3
  <2>3. QED
    BY <2>1, <2>2 DEF Popped
<1> DEFINE s == batch_queue'[p][o]
<1>3. \A i \in DOMAIN s : s[i] \in Requests
  <2> HIDE DEF s
  <2>1. s \in Seq(Requests)
    BY <1>2 DEF s
  <2>2. QED
    BY <2>1, ElementOfSeq, LenProperties
<1>4. \A i, j \in DOMAIN s : i < j => rq[s[i]].kind.pos <= rq[s[j]].kind.pos
  BY <1>2 DEF InDiskOrder
<1>5. \A i, j \in DOMAIN s : i < j => rq'[s[i]].kind.pos <= rq'[s[j]].kind.pos
  <2> HIDE DEF s
  <2>1. QED
    BY <1>1, <1>3, <1>4 DEF KindKept
<1>6. QED
  BY <1>5 DEF InDiskOrder

\* A queue in elevator order of which batch_count counts several writes is in
\* disk order: that is when fill_batch_queues sorts it.
CountedSorted ==
  \A p \in Bit : bq_batch_order[p] = 1 /\ batch_count[p][1] > 1 /\ ~Filling(p)
                   => InDiskOrder(batch_queue[p][1])

\* Every step of the scheduler preserves it.
LEMMA NextElevator ==
  ASSUME QInv, IInv', CountedSorted, [Next]_vars
  PROVE  CountedSorted'
<1> SUFFICES ASSUME NEW p \in Bit, bq_batch_order'[p] = 1, batch_count'[p][1] > 1,
                    ~(bq_lock' # NoOne /\ p = 1 - bq_page')
             PROVE  InDiskOrder(batch_queue[p][1])'
  BY FillingWillBe DEF CountedSorted
<1>1. ASSUME bq_batch_order[p] = 1, batch_count[p][1] > 1,
             ~(bq_lock # NoOne /\ p = 1 - bq_page)
      PROVE  InDiskOrder(batch_queue[p][1])
  BY <1>1, FillingIs DEF QInv, CountedSorted
<1>2. ASSUME batch_queue'[p][1] = batch_queue[p][1], InDiskOrder(batch_queue[p][1])
      PROVE  InDiskOrder(batch_queue[p][1])'
  <2>1. 1 \in OpTypes
    BY DEF OpTypes
  <2>2. \A i, j \in DOMAIN batch_queue[p][1] : i < j =>
          rq'[batch_queue[p][1][i]].kind.pos <= rq'[batch_queue[p][1][j]].kind.pos
    BY <1>2, <2>1, OrderKept
  <2>3. QED
    BY <1>2, <2>2 DEF InDiskOrder
<1>3. /\ batch_queue \in [Bit -> [OpTypes -> Seq(Requests)]] /\ 1 \in OpTypes
      /\ batch_count \in [Bit -> [OpTypes -> Nat]] /\ bq_batch_order \in [Bit -> Bit]
      /\ bq_page \in Bit
  <2>1. 1 \in OpTypes
    BY DEF OpTypes
  <2>2. PageOK /\ FillOK
    BY DEF QInv, IInv
  <2>3. QED
    BY <2>1, <2>2 DEF PageOK, FillOK
<1>4. CASE Quiet
  BY <1>1, <1>2, <1>4 DEF Quiet, pageVars, batchVars
<1>5. ASSUME NEW c \in CPUs, dispatch_from_bq(c), MustRefill
      PROVE  InDiskOrder(batch_queue[p][1])'
  <2>1. /\ bq_lock = NoOne /\ bq_lock' = c /\ UNCHANGED <<bq_page, batch_queue>>
        /\ batch_count' = [batch_count EXCEPT ![1 - bq_page] = [o \in OpTypes |-> 0]]
        /\ bq_batch_order' = [bq_batch_order EXCEPT ![1 - bq_page] = batch_order]
    BY <1>5, StartPages
  <2>2. p # 1 - bq_page
    BY <2>1, ConstantsAssumption
  <2>3. bq_batch_order[p] = 1 /\ batch_count[p][1] > 1
    BY <1>3, <2>1, <2>2
  <2>4. QED
    BY <1>1, <1>2, <2>1, <2>3
<1>6. ASSUME NEW c \in CPUs, dispatch_from_bq(c), ~MustRefill
      PROVE  InDiskOrder(batch_queue[p][1])'
  <2>1. bq_lock = NoOne /\ UNCHANGED batchVars
    BY <1>6 DEF dispatch_from_bq
  <2>2. Popped(c, batch_queue)
    <3>1. pop_bq_request(c, bq_page \in bq_flags, batch_queue, bq_flags)
      BY <1>6 DEF dispatch_from_bq
    <3>2. \A i \in Bit : \A o \in OpTypes : o \in bq_state[i] <=> batch_queue[i][o] # <<>>
      BY DEF QInv, IInv, PageOK
    <3>3. QED
      BY <3>1, <3>2, PopPages
  <2>3. InDiskOrder(batch_queue[p][1])
    BY <1>1, <2>1 DEF batchVars
  <2>4. QED
    BY <1>3, <2>2, <2>3, PopOrder
<1>7. ASSUME NEW c \in CPUs, fill_batch_queues(c)
      PROVE  InDiskOrder(batch_queue[p][1])'
  <2>1. /\ bq_lock = c /\ UNCHANGED <<bq_page, bq_batch_order, bq_lock>>
        /\ \/ UNCHANGED <<batch_queue, batch_count, fill>>
           \/ \E r \in Requests, o \in OpTypes : Added(r, o)
    BY <1>7, FillPages
  <2>2. p # 1 - bq_page
    BY <2>1, ConstantsAssumption
  <2>3. batch_queue'[p] = batch_queue[p] /\ batch_count'[p] = batch_count[p]
    BY <1>3, <2>1, <2>2 DEF Added
  <2>4. QED
    BY <1>1, <1>2, <2>1, <2>2, <2>3
<1>8. ASSUME NEW c \in CPUs, fill_batch_queues_done(c)
      PROVE  InDiskOrder(batch_queue[p][1])'
  <2>1. UNCHANGED batchVars
    BY <1>8 DEF fill_batch_queues_done
  <2>2. PICK bqs :
          /\ Popped(c, bqs)
          /\ bqs \in [Bit -> [OpTypes -> Seq(Requests)]]
          /\ \A i \in Bit, o \in OpTypes :
               \/ bqs[i][o] = batch_queue[i][o]
               \/ /\ i = 1 - bq_page /\ o = 1
                  /\ bqs[i][o] \in SortedByPos(batch_queue[i][o])
          /\ bq_batch_order[1 - bq_page] = 1 /\ batch_count[1 - bq_page][1] > 1
               => bqs[1 - bq_page][1] \in SortedByPos(batch_queue[1 - bq_page][1])
    BY <1>8, DonePages
  <2>3. InDiskOrder(bqs[p][1])
    <3>1. CASE p = 1 - bq_page
      <4>1. bqs[p][1] \in SortedByPos(batch_queue[p][1])
        BY <2>1, <2>2, <3>1 DEF batchVars
      <4>2. batch_queue[p][1] \in Seq(Requests)
        BY <1>3
      <4>3. QED
        BY <4>1, <4>2, SortedInDiskOrder DEF QInv, IInv
    <3>2. CASE p # 1 - bq_page
      BY <1>1, <1>3, <2>1, <2>2, <3>2 DEF batchVars
    <3>3. QED
      BY <3>1, <3>2
  <2>4. QED
    BY <1>3, <2>2, <2>3, PopOrder
<1>9. QED
  BY <1>4, <1>5, <1>6, <1>7, <1>8, QuietOrPage DEF PageStep

---------------------------------------------------------------------------
(* How many requests the pages hold.                                       *)

\* The requests of a page, and those of one optype.
InBatch(p) == {r \in Requests : \E q \in OpTypes : r \in ToSet(batch_queue[p][q])}

OfType(p, o) == {r \in Requests : /\ OpType(rq[r].kind) = o
                                  /\ \E q \in OpTypes : r \in ToSet(batch_queue[p][q])}

\* A batch queue is a list of distinct requests, which are queued.
LEMMA InPage ==
  ASSUME QInv, NEW p \in Bit, NEW o \in OpTypes
  PROVE  /\ batch_queue[p][o] \in Seq(Requests) /\ IsInjective(batch_queue[p][o])
         /\ ToSet(batch_queue[p][o]) \subseteq Queued
<1> DEFINE q == batch_queue[p][o]
<1>1. BqName(p, o) \in QueueNames /\ Lists[BqName(p, o)] = q
  BY Names, ListAt DEF Lists
<1>2. q \in Seq(Requests)
  BY DEF QInv, IInv, PageOK
<1> HIDE DEF q
<1>3. IsInjective(q) /\ ToSet(q) \subseteq Queued
  BY <1>1 DEF QInv, PlaceOK, Placed
<1>4. QED
  BY <1>2, <1>3 DEF q

\* Subsets of the requests have no more elements.
LEMMA FewerRequests ==
  ASSUME NEW S, S \subseteq Requests, NEW T, T \subseteq S
  PROVE  Cardinality(T) \in Nat /\ Cardinality(S) \in Nat /\ Cardinality(T) <= Cardinality(S)
<1>1. IsFiniteSet(Requests)
  BY FS_Interval, ConstantsAssumption DEF Requests
<1>2. IsFiniteSet(S)
  BY <1>1, FS_Subset
<1>3. IsFiniteSet(T)
  BY <1>2, FS_Subset
<1>4. QED
  BY <1>2, <1>3, FS_Subset, FS_CardinalityType

\* One more request makes a set larger by at most one.
LEMMA OneMoreRequest ==
  ASSUME NEW S, S \subseteq Requests, NEW r \in Requests, NEW T, T \subseteq S \cup {r}
  PROVE  /\ Cardinality(T) \in Nat /\ Cardinality(S) \in Nat
         /\ Cardinality(T) <= Cardinality(S) + 1
<1>1. IsFiniteSet(Requests)
  BY FS_Interval, ConstantsAssumption DEF Requests
<1>2. IsFiniteSet(S)
  BY <1>1, FS_Subset
<1>3. Cardinality(S) \in Nat
        /\ Cardinality(S \cup {r}) = IF r \in S THEN Cardinality(S) ELSE Cardinality(S) + 1
  BY <1>2, FS_AddElement, FS_CardinalityType
<1> DEFINE U == S \cup {r}
<1>4. U \subseteq Requests /\ T \subseteq U
  OBVIOUS
<1>5. Cardinality(U) <= Cardinality(S) + 1
  BY <1>3
<1> HIDE DEF U
<1>6. Cardinality(T) \in Nat /\ Cardinality(U) \in Nat /\ Cardinality(T) <= Cardinality(U)
  BY <1>4, FewerRequests
<1>7. QED
  BY <1>3, <1>5, <1>6

\* A page that gets no request holds no more of any optype.
LEMMA PageShrinks ==
  ASSUME QInv, [Next]_vars, NEW p \in Bit,
         \A k \in OpTypes : ToSet(batch_queue'[p][k]) \subseteq ToSet(batch_queue[p][k])
  PROVE  /\ \A o \in OpTypes : OfType(p, o)' \subseteq OfType(p, o)
         /\ InBatch(p)' \subseteq InBatch(p)
<1>1. \A r \in Requests : \A k \in OpTypes :
        r \in ToSet(batch_queue'[p][k]) => r \in ToSet(batch_queue[p][k]) /\ KindKept(r)
  BY InPage, QueuedKinds
<1>2. QED
  BY <1>1 DEF OfType, InBatch, KindKept

\* Nothing is put into a page, what becomes dispatched was in one, and what
\* leaves a page is dispatched.
Taken ==
  /\ \A p \in Bit, k \in OpTypes :
       ToSet(batch_queue'[p][k]) \subseteq ToSet(batch_queue[p][k])
  /\ \A r \in Requests : rq'[r].status = "dispatched" =>
       \/ rq[r].status = "dispatched"
       \/ \E p \in Bit, k \in OpTypes : r \in ToSet(batch_queue[p][k])
  /\ \A r \in Requests : rq[r].status = "dispatched" => rq'[r].status = "dispatched"
  /\ \A p \in Bit, k \in OpTypes : \A r \in ToSet(batch_queue[p][k]) :
       r \in ToSet(batch_queue'[p][k]) \/ rq'[r].status = "dispatched"

\* The pages bqs have the requests of the scheduler's, in any order.
SameRequests(bqs) ==
  /\ bqs \in [Bit -> [OpTypes -> Seq(Requests)]]
  /\ \A p \in Bit, k \in OpTypes :
       IsInjective(bqs[p][k]) /\ ToSet(bqs[p][k]) = ToSet(batch_queue[p][k])

\* A pop takes one request from the pages bqs, which becomes dispatched.
LEMMA PopTakes ==
  ASSUME QInv, NEW c, NEW bqs, SameRequests(bqs), Popped(c, bqs)
  PROVE  Taken
<1>1. CASE batch_queue' = bqs /\ UNCHANGED rq
  BY <1>1 DEF Taken, SameRequests
<1>2. ASSUME NEW i \in Bit, NEW o \in OpTypes, NEW back \in BOOLEAN, Pops(c, bqs, i, o, back)
      PROVE  Taken
  <2> DEFINE q    == bqs[i][o]
             rest == IF back THEN Front(q) ELSE Tail(q)
             x    == IF back THEN Last(q) ELSE Head(q)
  <2>1. q \in Seq(Requests) /\ IsInjective(q) /\ q # <<>> /\ ToSet(q) = ToSet(batch_queue[i][o])
    BY <1>2 DEF Pops, SameRequests
  <2>2. x \in ToSet(q) /\ x \in Requests /\ ToSet(rest) = ToSet(q) \ {x}
    <3> HIDE DEF q
    <3>1. QED
      BY <2>1, TailDistinct, FrontDistinct, ToSetType
  <2>3. found(c, x) /\ batch_queue' = [bqs EXCEPT ![i][o] = rest]
    BY <1>2 DEF Pops
  <2> HIDE DEF q, rest, x
  <2>4. \A p \in Bit, k \in OpTypes :
          batch_queue'[p][k] = IF p = i /\ k = o THEN rest ELSE bqs[p][k]
    BY <2>3 DEF SameRequests
  <2>5. \A r \in Requests : rq'[r].status = "dispatched" <=> rq[r].status = "dispatched" \/ r = x
    BY <2>2, <2>3 DEF found, QInv, IInv, RqOK, RqType
  <2>6. x \in ToSet(batch_queue[i][o]) /\ rq'[x].status = "dispatched"
    BY <2>1, <2>2, <2>5
  <2>7. ASSUME NEW p \in Bit, NEW k \in OpTypes
        PROVE  /\ ToSet(batch_queue'[p][k]) \subseteq ToSet(batch_queue[p][k])
               /\ \A r \in ToSet(batch_queue[p][k]) : r \in ToSet(batch_queue'[p][k]) \/ r = x
    <3>1. ToSet(bqs[p][k]) = ToSet(batch_queue[p][k])
      BY DEF SameRequests
    <3>2. CASE p = i /\ k = o
      <4>1. batch_queue'[p][k] = rest /\ ToSet(rest) = ToSet(batch_queue[p][k]) \ {x}
        BY <2>1, <2>2, <2>4, <3>2
      <4>2. QED
        BY <4>1
    <3>3. CASE ~(p = i /\ k = o)
      BY <2>4, <3>1, <3>3
    <3>4. QED
      BY <3>2, <3>3
  <2>8. QED
    BY <2>5, <2>6, <2>7 DEF Taken
<1>3. QED
  BY <1>1, <1>2 DEF Popped

\* The same of the steps that pop.
LEMMA PopShrinks ==
  ASSUME QInv, NEW c \in CPUs,
         (dispatch_from_bq(c) /\ ~MustRefill) \/ fill_batch_queues_done(c)
  PROVE  Taken
<1>1. CASE dispatch_from_bq(c) /\ ~MustRefill
  <2>1. pop_bq_request(c, bq_page \in bq_flags, batch_queue, bq_flags)
    BY <1>1 DEF dispatch_from_bq
  <2>2. /\ \A i \in Bit : \A o \in OpTypes : o \in bq_state[i] <=> batch_queue[i][o] # <<>>
        /\ batch_queue \in [Bit -> [OpTypes -> Seq(Requests)]]
    BY DEF QInv, IInv, PageOK
  <2>3. Popped(c, batch_queue)
    BY <2>1, <2>2, PopPages
  <2>4. SameRequests(batch_queue)
    BY <2>2, InPage DEF SameRequests
  <2>5. QED
    BY <2>3, <2>4, PopTakes
<1>2. CASE fill_batch_queues_done(c)
  <2>1. PICK bqs :
          /\ Popped(c, bqs)
          /\ bqs \in [Bit -> [OpTypes -> Seq(Requests)]]
          /\ \A i \in Bit, o \in OpTypes :
               \/ bqs[i][o] = batch_queue[i][o]
               \/ /\ i = 1 - bq_page /\ o = 1
                  /\ bqs[i][o] \in SortedByPos(batch_queue[i][o])
    BY <1>2, DonePages
  <2>2. ASSUME NEW p \in Bit, NEW k \in OpTypes
        PROVE  IsInjective(bqs[p][k]) /\ ToSet(bqs[p][k]) = ToSet(batch_queue[p][k])
    <3>1. batch_queue[p][k] \in Seq(Requests) /\ IsInjective(batch_queue[p][k])
      BY InPage
    <3>2. bqs[p][k] = batch_queue[p][k] \/ bqs[p][k] \in SortedByPos(batch_queue[p][k])
      BY <2>1
    <3> DEFINE q == batch_queue[p][k]
               s == bqs[p][k]
    <3> HIDE DEF q, s
    <3>3. CASE s \in SortedByPos(q)
      <4>1. q \in Seq(Requests) /\ IsInjective(q)
        BY <3>1 DEF q
      <4>2. IsInjective(s) /\ ToSet(s) = ToSet(q)
        BY <3>3, <4>1, SortedDistinct DEF QInv, IInv
      <4>3. QED
        BY <4>2 DEF q, s
    <3>4. QED
      BY <3>1, <3>2, <3>3 DEF q, s
  <2>3. SameRequests(bqs)
    BY <2>1, <2>2 DEF SameRequests
  <2>4. Popped(c, bqs)
    BY <2>1
  <2>5. QED
    BY <2>3, <2>4, PopTakes
<1>3. QED
  BY <1>1, <1>2

\* An addition to a page changes its queues by one request.
LEMMA AddGrows ==
  ASSUME QInv, NEW r \in Requests, NEW o \in OpTypes, Added(r, o)
  PROVE  /\ \A k \in OpTypes :
              /\ ToSet(batch_queue[1 - bq_page][k]) \subseteq ToSet(batch_queue'[1 - bq_page][k])
              /\ ToSet(batch_queue'[1 - bq_page][k])
                   \subseteq ToSet(batch_queue[1 - bq_page][k]) \cup {r}
         /\ r \in ToSet(batch_queue'[1 - bq_page][o])
         /\ batch_queue'[bq_page] = batch_queue[bq_page]
<1> DEFINE page == 1 - bq_page
           q    == batch_queue[page][o]
<1>1. page \in Bit /\ bq_page \in Bit /\ page # bq_page
  BY DEF QInv, IInv, PageOK, Bit
<1>2. batch_queue \in [Bit -> [OpTypes -> Seq(Requests)]]
  BY DEF QInv, IInv, PageOK
<1>3. batch_queue' = [batch_queue EXCEPT ![page][o] = Append(q, r)]
  BY DEF Added
<1>4. q \in Seq(Requests)
  BY <1>1, <1>2
<1> HIDE DEF page, q
<1>5. ToSet(Append(q, r)) = ToSet(q) \cup {r}
  BY <1>4, AppendToSet
<1>6. /\ \A k \in OpTypes : batch_queue'[page][k]
                              = IF k = o THEN Append(q, r) ELSE batch_queue[page][k]
      /\ batch_queue'[bq_page] = batch_queue[bq_page]
  BY <1>1, <1>2, <1>3
<1>7. /\ \A k \in OpTypes :
           /\ ToSet(batch_queue[page][k]) \subseteq ToSet(batch_queue'[page][k])
           /\ ToSet(batch_queue'[page][k]) \subseteq ToSet(batch_queue[page][k]) \cup {r}
      /\ r \in ToSet(batch_queue'[page][o])
  BY <1>5, <1>6 DEF q
<1>8. QED
  BY <1>6, <1>7 DEF page

\* In numbers.
LEMMA PageCounts ==
  ASSUME QInv, [Next]_vars, NEW p \in Bit,
         \A k \in OpTypes : ToSet(batch_queue'[p][k]) \subseteq ToSet(batch_queue[p][k])
  PROVE  /\ \A o \in OpTypes :
              /\ Cardinality(OfType(p, o)') \in Nat /\ Cardinality(OfType(p, o)) \in Nat
              /\ Cardinality(OfType(p, o)') <= Cardinality(OfType(p, o))
         /\ Cardinality(InBatch(p)') \in Nat /\ Cardinality(InBatch(p)) \in Nat
         /\ Cardinality(InBatch(p)') <= Cardinality(InBatch(p))
<1>1. /\ \A o \in OpTypes : OfType(p, o) \subseteq Requests /\ OfType(p, o)' \subseteq OfType(p, o)
      /\ InBatch(p) \subseteq Requests /\ InBatch(p)' \subseteq InBatch(p)
  <2>1. \A o \in OpTypes : OfType(p, o) \subseteq Requests
    BY DEF OfType
  <2>2. InBatch(p) \subseteq Requests
    BY DEF InBatch
  <2>3. QED
    BY <2>1, <2>2, PageShrinks
<1>2. QED
  BY <1>1, FewerRequests

\* A batch holds what batch_count says of each optype, and no more than the
\* limit allows.  A fill starts from an empty page and a count of zero, and
\* what is beyond its first request fits into the window.
Within(p) ==
  \A o \in OpTypes : /\ Cardinality(OfType(p, o)) <= batch_count[p][o]
                     /\ batch_count[p][o] <= BatchLimit[o]

BatchOK ==
  /\ \A p \in Bit : Within(p)
  /\ bq_lock # NoOne =>
       /\ fill.count <= 1 \/ fill.tpl + fill.added <= Window
       /\ fill.count = 0 => \A o \in OpTypes : batch_count[1 - bq_page][o] = 0

\* Every step of the scheduler preserves it.
LEMMA NextBatchOK ==
  ASSUME QInv, BatchOK, [Next]_vars
  PROVE  BatchOK'
<1>1. /\ bq_page \in Bit /\ 1 - bq_page \in Bit /\ 1 - bq_page # bq_page
      /\ \A p \in Bit : p = bq_page \/ p = 1 - bq_page
      /\ batch_count \in [Bit -> [OpTypes -> Nat]] /\ BatchLimit \in [OpTypes -> Nat \ {0}]
      /\ fill.count \in Nat /\ fill.tpl \in Int /\ fill.added \in Nat
      /\ Window \in Nat
  <2>1. PageOK /\ FillOK
    BY DEF QInv, IInv
  <2>2. bq_page \in Bit /\ 1 - bq_page \in Bit /\ 1 - bq_page # bq_page
        /\ \A p \in Bit : p = bq_page \/ p = 1 - bq_page
    BY <2>1 DEF PageOK, Bit
  <2>3. batch_count \in [Bit -> [OpTypes -> Nat]] /\ fill.count \in Nat
        /\ fill.tpl \in Int /\ fill.added \in Nat
    BY <2>1 DEF FillOK
  <2>4. QED
    BY <2>2, <2>3, ConstantsAssumption
<1>2. ASSUME NEW p \in Bit, batch_count'[p] = batch_count[p],
             \A k \in OpTypes : ToSet(batch_queue'[p][k]) \subseteq ToSet(batch_queue[p][k])
      PROVE  Within(p)'
  <2>1. \A o \in OpTypes :
          /\ Cardinality(OfType(p, o)') \in Nat /\ Cardinality(OfType(p, o)) \in Nat
          /\ Cardinality(OfType(p, o)') <= Cardinality(OfType(p, o))
    BY <1>2, PageCounts
  <2>2. \A o \in OpTypes : /\ batch_count[p][o] \in Nat
                           /\ Cardinality(OfType(p, o)) <= batch_count[p][o]
                           /\ batch_count[p][o] <= BatchLimit[o]
    BY <1>1 DEF BatchOK, Within
  <2>3. QED
    BY <1>2, <2>1, <2>2 DEF Within
<1>3. CASE Quiet
  <2>1. UNCHANGED <<batch_queue, batch_count, bq_lock, fill, bq_page>>
    BY <1>3 DEF Quiet, pageVars, batchVars
  <2>2. \A p \in Bit : Within(p)'
    BY <1>2, <2>1
  <2>3. QED
    BY <2>1, <2>2 DEF BatchOK
<1>4. ASSUME NEW c \in CPUs, dispatch_from_bq(c), MustRefill
      PROVE  BatchOK'
  <2>1. /\ UNCHANGED <<bq_page, batch_queue>>
        /\ \A o \in OpTypes : batch_queue[1 - bq_page][o] = <<>>
        /\ fill'.count = 0
        /\ batch_count' = [batch_count EXCEPT ![1 - bq_page] = [o \in OpTypes |-> 0]]
    BY <1>4, StartPages
  <2>2. batch_count'[bq_page] = batch_count[bq_page]
        /\ \A o \in OpTypes : batch_count'[1 - bq_page][o] = 0
    BY <1>1, <2>1
  <2>3. ASSUME NEW p \in Bit PROVE Within(p)'
    <3>1. CASE p = bq_page
      <4>1. batch_queue'[p] = batch_queue[p] /\ batch_count'[p] = batch_count[p]
        BY <2>1, <2>2, <3>1
      <4>2. QED
        BY <1>2, <4>1
    <3>2. CASE p = 1 - bq_page
      <4>1. \A x : x \notin ToSet(<<>>)
        BY DEF ToSet
      <4>2. \A o \in OpTypes : OfType(p, o)' = {}
        BY <2>1, <3>2, <4>1 DEF OfType
      <4>3. \A o \in OpTypes : Cardinality(OfType(p, o)') = 0
        BY <4>2, FS_EmptySet
      <4>4. QED
        BY <1>1, <2>2, <3>2, <4>3 DEF Within
    <3>3. QED
      BY <1>1, <3>1, <3>2
  <2>4. QED
    BY <2>1, <2>2, <2>3 DEF BatchOK
<1>5. ASSUME NEW c \in CPUs,
             (dispatch_from_bq(c) /\ ~MustRefill) \/ fill_batch_queues_done(c)
      PROVE  BatchOK'
  <2>1. bq_lock' = NoOne /\ UNCHANGED batch_count
    BY <1>5, PopLeaves DEF batchVars
  <2>2. \A p \in Bit, k \in OpTypes :
          ToSet(batch_queue'[p][k]) \subseteq ToSet(batch_queue[p][k])
    BY <1>5, PopShrinks DEF Taken
  <2>3. \A p \in Bit : Within(p)'
    BY <1>2, <2>1, <2>2
  <2>4. QED
    BY <2>1, <2>3 DEF BatchOK
<1>6. ASSUME NEW c \in CPUs, fill_batch_queues(c)
      PROVE  BatchOK'
  <2>1. bq_lock = c /\ UNCHANGED <<bq_page, bq_lock, rq>> /\ c # NoOne
    BY <1>6, FillPages, ConstantsAssumption
  <2>2. CASE UNCHANGED <<batch_queue, batch_count, fill>>
    <3>1. \A p \in Bit : Within(p)'
      BY <1>2, <2>2
    <3>2. QED
      BY <2>1, <2>2, <3>1 DEF BatchOK
  <2>3. ASSUME NEW r \in Requests, NEW q \in OpTypes, Added(r, q)
        PROVE  BatchOK'
    <3> DEFINE t == OpType(rq[r].kind)
    <3>1. t \in OpTypes /\ rq[r].pred \in Nat
      BY IndexTypes DEF QInv, IInv, RqOK, RqType
    <3>2. /\ ~BatchFull(r) /\ fill'.count = fill.count + 1
          /\ fill'.tpl = fill.tpl /\ fill'.added = fill.added + rq[r].pred
          /\ batch_count' = [batch_count EXCEPT ![1 - bq_page][t] = @ + 1]
      BY <2>3 DEF Added
    <3>3. PICK page \in Bit : page = 1 - bq_page
      BY <1>1
    <3>4. fill.count > 0 => /\ batch_count[page][t] < BatchLimit[t]
                            /\ fill.tpl + fill.added + rq[r].pred <= Window
      <4>1. fill.count > 0 => /\ ~(batch_count[page][t] >= BatchLimit[t])
                              /\ ~(fill.tpl + fill.added + rq[r].pred > Window)
        BY <3>2, <3>3 DEF BatchFull
      <4>2. batch_count[page][t] \in Nat /\ BatchLimit[t] \in Nat
        BY <1>1, <3>1
      <4> HIDE DEF t
      <4>3. QED
        BY <1>1, <3>1, <4>1, <4>2
    <3> HIDE DEF t
    <3>5. fill.count = 0 => batch_count[page][t] = 0
      BY <2>1, <3>1, <3>3 DEF BatchOK
    <3>6. batch_count[page][t] < BatchLimit[t]
      BY <1>1, <3>1, <3>4, <3>5
    <3>7. /\ batch_count'[bq_page] = batch_count[bq_page]
          /\ \A o \in OpTypes : batch_count'[page][o]
               = IF o = t THEN batch_count[page][o] + 1 ELSE batch_count[page][o]
      BY <1>1, <3>1, <3>2, <3>3
    <3>8. /\ \A k \in OpTypes :
               ToSet(batch_queue'[page][k]) \subseteq ToSet(batch_queue[page][k]) \cup {r}
          /\ batch_queue'[bq_page] = batch_queue[bq_page]
      BY <2>3, <3>3, AddGrows
    <3>9. ASSUME NEW o \in OpTypes
          PROVE  Cardinality(OfType(page, o)') <= batch_count'[page][o]
                 /\ batch_count'[page][o] <= BatchLimit[o]
      <4>1. OfType(page, o)' \subseteq OfType(page, o) \cup (IF o = t THEN {r} ELSE {})
        BY <2>1, <3>8 DEF OfType, t
      <4>2. OfType(page, o) \subseteq Requests
        BY DEF OfType
      <4>3. /\ batch_count[page][o] \in Nat /\ BatchLimit[o] \in Nat
            /\ Cardinality(OfType(page, o)) <= batch_count[page][o]
            /\ batch_count[page][o] <= BatchLimit[o]
        BY <1>1 DEF BatchOK, Within
      <4>4. CASE o = t
        <5>1. OfType(page, o)' \subseteq OfType(page, o) \cup {r}
          BY <4>1, <4>4
        <5>2. /\ Cardinality(OfType(page, o)') \in Nat /\ Cardinality(OfType(page, o)) \in Nat
              /\ Cardinality(OfType(page, o)') <= Cardinality(OfType(page, o)) + 1
          BY <4>2, <5>1, OneMoreRequest
        <5>3. batch_count'[page][o] = batch_count[page][o] + 1
              /\ batch_count[page][o] < BatchLimit[o]
          BY <3>6, <3>7, <4>4
        <5>4. QED
          BY <4>3, <5>2, <5>3
      <4>5. CASE o # t
        <5>1. OfType(page, o)' \subseteq OfType(page, o)
          BY <4>1, <4>5
        <5>2. /\ Cardinality(OfType(page, o)') \in Nat /\ Cardinality(OfType(page, o)) \in Nat
              /\ Cardinality(OfType(page, o)') <= Cardinality(OfType(page, o))
          BY <4>2, <5>1, FewerRequests
        <5>3. batch_count'[page][o] = batch_count[page][o]
          BY <3>7, <4>5
        <5>4. QED
          BY <4>3, <5>2, <5>3
      <4>6. QED
        BY <4>4, <4>5
    <3>10. ASSUME NEW p \in Bit PROVE Within(p)'
      <4>1. CASE p = page
        BY <3>9, <4>1 DEF Within
      <4>2. CASE p = bq_page
        <5>1. batch_queue'[p] = batch_queue[p] /\ batch_count'[p] = batch_count[p]
          BY <3>7, <3>8, <4>2
        <5>2. QED
          BY <1>2, <5>1
      <4>3. QED
        BY <1>1, <3>3, <4>1, <4>2
    <3>11. fill'.count <= 1 \/ fill'.tpl + fill'.added <= Window
      BY <1>1, <3>1, <3>2, <3>4
    <3>12. fill'.count # 0
      BY <1>1, <3>2
    <3>13. QED
      BY <3>10, <3>11, <3>12 DEF BatchOK
  <2>4. QED
    BY <1>6, <2>2, <2>3, FillPages
<1>7. QED
  BY <1>3, <1>4, <1>5, <1>6, QuietOrPage DEF PageStep

---------------------------------------------------------------------------
(* Sums of predicted latencies.                                            *)

\* The predicted latencies.
Preds == [r \in Requests |-> rq[r].pred]

\* A sum over two sets of requests.
LEMMA SumsAdd ==
  ASSUME NEW f \in [Requests -> Nat], NEW S, S \subseteq Requests,
         NEW T, T \subseteq Requests, S \cap T = {}
  PROVE  /\ SumFunctionOnSet(f, S) \in Nat /\ SumFunctionOnSet(f, T) \in Nat
         /\ SumFunctionOnSet(f, S \cup T) = SumFunctionOnSet(f, S) + SumFunctionOnSet(f, T)
<1>1. IsFiniteSet(Requests)
  BY FS_Interval, ConstantsAssumption DEF Requests
<1>2. IsFiniteSet(S) /\ IsFiniteSet(T) /\ \A r \in S \cup T : f[r] \in Nat
  BY <1>1, FS_Subset
<1>3. QED
  BY <1>2, SumAdds

\* A sum does not change while what is summed does not.
LEMMA SumsKept ==
  ASSUME NEW f \in [Requests -> Nat], NEW g, NEW S, S \subseteq Requests, \A r \in S : g[r] = f[r]
  PROVE  SumFunctionOnSet(g, S) = SumFunctionOnSet(f, S)
<1>1. IsFiniteSet(Requests)
  BY FS_Interval, ConstantsAssumption DEF Requests
<1>2. IsFiniteSet(S) /\ \A r \in S : f[r] \in Nat /\ g[r] = f[r]
  BY <1>1, FS_Subset
<1>3. QED
  BY <1>2, SumKept

---------------------------------------------------------------------------
(* ad->in_flight_rqs.                                                      *)

\* InFlight by what the locks say: a page that is being filled is not counted
\* before the fill ends.
Counted ==
  {r \in Requests :
     \/ rq[r].status = "dispatched"
     \/ \E i \in Bit : r \in ToSet(prio_queue[i])
     \/ \E p \in Bit, o \in OpTypes :
          ~(bq_lock # NoOne /\ p = 1 - bq_page) /\ r \in ToSet(batch_queue[p][o])}

\* The two agree.
LEMMA InFlightCounted ==
  ASSUME IInv
  PROVE  InFlight = Counted
BY FillingIs DEF InFlight, Counted

\* A request is dispatched after the step if it was before.
Stays(q) == rq'[q].status = "dispatched" <=> rq[q].status = "dispatched"

\* Nothing is dispatched by an addition to a tree.
LEMMA AddStays ==
  ASSUME RqOK, NEW r \in Requests, NEW n \in RqType, n.status # "dispatched",
         NEW tree, NEW flags, add_to_dl_tree(r, n, tree, flags)
  PROVE  rq'[r].status # "dispatched" /\ \A q \in Requests \ {r} : Stays(q)
<1>1. \/ rq' = [rq EXCEPT ![r] = [n EXCEPT !.deadline = Deadline(n)]]
      \/ rq' = [rq EXCEPT ![r] = [n EXCEPT !.deadline = Deadline(n), !.status = "lost"]]
  BY DEF add_to_dl_tree
<1>2. rq \in [Requests -> RqType]
  BY DEF RqOK
<1>3. \A q \in Requests \ {r} : rq'[q] = rq[q]
  BY <1>1, <1>2
<1>4. rq'[r].status = n.status \/ rq'[r].status = "lost"
  BY <1>1, <1>2 DEF RqType
<1>5. QED
  BY <1>3, <1>4 DEF Stays

\* A request of a tree is not dispatched.
LEMMA InTreeQueued ==
  ASSUME QInv, NEW i \in Bit, NEW r \in ToSet(dl_tree[i])
  PROVE  r \in Requests /\ rq[r].status = "queued"
<1>1. DlName(i) \in QueueNames /\ Lists[DlName(i)] = dl_tree[i]
  BY Names, ListAt DEF Lists
<1>2. QED
  BY <1>1, InListQueued DEF QInv

\* Nor is one that something may be merged into.
LEMMA MergeableStatus ==
  ASSUME QInv, NEW i \in Bit, NEW r \in Mergeable(i)
  PROVE  r \in Requests /\ rq[r].status \in {"queued", "lost"}
BY InTreeQueued DEF Mergeable

\* Nor by an insertion that may end in a merge.
LEMMA MergeStays ==
  ASSUME QInv, NEW r \in Requests, NEW n \in RqType, n.status # "dispatched",
         merge_or_insert_to_dl_tree(r, n)
  PROVE  rq'[r].status # "dispatched" /\ \A q \in Requests \ {r} : Stays(q)
<1>1. RqOK
  BY DEF QInv, IInv
<1>2. CASE add_to_dl_tree(r, n, dl_tree, dl_flags)
  BY <1>1, <1>2, AddStays
<1>3. ASSUME NEW S, \A q \in S \cap Requests : rq[q].status # "dispatched",
             rq' = [q \in Requests |->
                      IF q = r THEN [n EXCEPT !.status = "merged"]
                      ELSE IF q \in S THEN [rq[q] EXCEPT !.status = "merged"]
                      ELSE rq[q]]
      PROVE  rq'[r].status # "dispatched" /\ \A q \in Requests \ {r} : Stays(q)
  BY <1>1, <1>3 DEF Stays, RqOK, RqType
<1>4. CASE ~add_to_dl_tree(r, n, dl_tree, dl_flags)
  <2> DEFINE i    == DlIdx(n.kind)
             same == {t \in Mergeable(i) : rq[t].kind.op = n.kind.op}
  <2>1. PICK absorbed \in SUBSET same :
          rq' = [q \in Requests |->
                   IF q = r THEN [n EXCEPT !.status = "merged"]
                   ELSE IF q \in absorbed THEN [rq[q] EXCEPT !.status = "merged"]
                   ELSE rq[q]]
    BY <1>4 DEF merge_or_insert_to_dl_tree
  <2>2. i \in Bit
    BY DEF DlIdx, Bit
  <2>3. \A q \in absorbed : q \in Mergeable(i)
    OBVIOUS
  <2> HIDE DEF i
  <2>4. \A q \in absorbed : rq[q].status # "dispatched"
    BY <2>2, <2>3, MergeableStatus
  <2>5. QED
    BY <1>3, <2>1, <2>4
<1>5. QED
  BY <1>2, <1>4

\* in_flight_rqs gets what the request r adds to the requests in flight.
Joins(r) == Counted' = Counted \cup {r} /\ in_flight' = Account(1, rq'[r].pred)

\* And gives back what it takes from them.
Leaves(r) == Counted' = Counted \ {r} /\ in_flight' = Account(-1, -rq[r].pred)

\* The same requests are in flight.
SameCounted == Counted' = Counted /\ UNCHANGED in_flight

\* What is neither in a page nor in prio_queue is in flight if it is dispatched.
LEMMA CountedKept ==
  ASSUME UNCHANGED <<prio_queue, batch_queue, bq_lock, bq_page>>, \A q \in Requests : Stays(q)
  PROVE  Counted' = Counted
BY DEF Counted, Stays

\* A request in none of the lists is in flight if it is dispatched.
LEMMA CountedOutside ==
  ASSUME QInv, NEW r \in Requests, r \notin Queued
  PROVE  /\ r \in Counted <=> rq[r].status = "dispatched"
         /\ \A i \in Bit : r \notin ToSet(prio_queue[i])
         /\ \A p \in Bit, o \in OpTypes : r \notin ToSet(batch_queue[p][o])
<1>1. /\ \A i \in Bit : r \notin ToSet(prio_queue[i])
      /\ \A p \in Bit, o \in OpTypes : r \notin ToSet(batch_queue[p][o])
  <2>1. /\ \A i \in Bit : PqName(i) \in QueueNames /\ Lists[PqName(i)] = prio_queue[i]
        /\ \A p \in Bit, o \in OpTypes :
             BqName(p, o) \in QueueNames /\ Lists[BqName(p, o)] = batch_queue[p][o]
    BY Names, ListAt DEF Lists
  <2>2. QED
    BY <2>1, InListQueued DEF QInv
<1>2. QED
  BY <1>1 DEF Counted

\* A request that joins prio_queue joins those in flight.
LEMMA PqJoins ==
  ASSUME PqOK, NEW r \in Requests, NEW pred, NEW i \in Bit,
         insert_to_prio_queue(r, pred, i), pred = rq'[r].pred,
         UNCHANGED <<batch_queue, bq_lock, bq_page>>,
         \A q \in Requests \ {r} : Stays(q)
  PROVE  Joins(r)
<1>1. /\ prio_queue' = [prio_queue EXCEPT ![i] = Append(prio_queue[i], r)]
      /\ in_flight' = Account(1, pred)
  BY DEF insert_to_prio_queue
<1>2. prio_queue \in [Bit -> Seq(Requests)]
  BY DEF PqOK
<1>3. ToSet(Append(prio_queue[i], r)) = ToSet(prio_queue[i]) \cup {r}
  BY <1>2, AppendToSet
<1>4. \A j \in Bit : prio_queue'[j] = IF j = i THEN Append(prio_queue[i], r) ELSE prio_queue[j]
  BY <1>1, <1>2
<1>5. /\ \A q \in Requests \ {r} : \A j \in Bit :
           q \in ToSet(prio_queue'[j]) <=> q \in ToSet(prio_queue[j])
      /\ r \in ToSet(prio_queue'[i])
  BY <1>3, <1>4
<1>6. ASSUME NEW q PROVE q \in Counted' <=> q \in Counted \cup {r}
  BY <1>5 DEF Counted, Stays
<1>7. QED
  BY <1>1, <1>6 DEF Joins

\* An insertion puts one request in flight, or none; at the head, always one.
LEMMA InsertCounts ==
  ASSUME QInv, NEW r \in Requests, r \notin Queued, NEW k \in KindType, insert_request(r, k)
  PROVE  Joins(r) \/ (~k.head /\ Counted' = Counted \ {r} /\ UNCHANGED in_flight)
<1> DEFINE n == [kind |-> k, pred |-> base[OpType(k)], deadline |-> 0,
                 status |-> "queued", gated |-> models_stable]
<1>1. n \in RqType /\ n.status = "queued" /\ n.kind = k
  BY IndexTypes DEF QInv, IInv, ModelOK, RqType, Statuses
<1>2. insert_request_pre_stability(r, n) \/ insert_request_post_stability(r, n)
  BY DEF insert_request
<1>3. UNCHANGED <<batch_queue, bq_lock, bq_page>> /\ RqOK /\ PqOK
  BY DEF insert_request, pageVars, ctlVars, QInv, IInv
<1> HIDE DEF n
<1>4. ASSUME rq' = [rq EXCEPT ![r] = n]
      PROVE  /\ rq'[r].pred = n.pred /\ rq'[r].status # "dispatched"
             /\ \A q \in Requests \ {r} : Stays(q)
  BY <1>1, <1>3, <1>4 DEF Stays, RqOK
<1>5. ASSUME UNCHANGED <<prio_queue, in_flight>>, rq'[r].status # "dispatched",
             \A q \in Requests \ {r} : Stays(q)
      PROVE  Counted' = Counted \ {r} /\ UNCHANGED in_flight
  <2>1. /\ \A i \in Bit : r \notin ToSet(prio_queue[i])
        /\ \A p \in Bit, o \in OpTypes : r \notin ToSet(batch_queue[p][o])
    BY CountedOutside
  <2>2. ASSUME NEW q PROVE q \in Counted' <=> q \in Counted \ {r}
    BY <1>3, <1>5, <2>1 DEF Counted, Stays
  <2>3. QED
    BY <1>5, <2>2
<1>6. CASE insert_request_pre_stability(r, n)
  <2>1. 0 \in Bit /\ 1 \in Bit
    BY DEF Bit
  <2>2. /\ insert_to_prio_queue(r, n.pred, 0) \/ insert_to_prio_queue(r, n.pred, 1)
        /\ rq' = [rq EXCEPT ![r] = n]
    BY <1>6 DEF insert_request_pre_stability
  <2>3. QED
    BY <1>3, <1>4, <2>1, <2>2, PqJoins
<1>7. CASE insert_request_post_stability(r, n)
  <2>1. CASE insert_to_prio_queue(r, n.pred, 0) /\ rq' = [rq EXCEPT ![r] = n]
    <3>1. 0 \in Bit
      BY DEF Bit
    <3>2. QED
      BY <1>3, <1>4, <2>1, <3>1, PqJoins
  <2>2. CASE ~n.kind.head /\ rq' = [rq EXCEPT ![r] = n] /\ UNCHANGED prioVars
    BY <1>1, <1>4, <1>5, <2>2 DEF prioVars
  <2>3. CASE ~n.kind.head /\ merge_or_insert_to_dl_tree(r, n) /\ UNCHANGED prioVars
    <3>1. rq'[r].status # "dispatched" /\ \A q \in Requests \ {r} : Stays(q)
      BY <1>1, <2>3, MergeStays
    <3>2. QED
      BY <1>1, <1>5, <2>3, <3>1 DEF prioVars
  <2>4. QED
    BY <1>7, <2>1, <2>2, <2>3 DEF insert_request_post_stability
<1>8. QED
  BY <1>2, <1>6, <1>7

\* A bio is merged into a queued request.
LEMMA BioCounts ==
  ASSUME QInv, adios_bio_merge
  PROVE  SameCounted
<1>1. RqOK /\ UNCHANGED <<batch_queue, bq_lock, bq_page, in_flight, prio_queue>>
  BY DEF adios_bio_merge, pageVars, ctlVars, prioVars, QInv, IInv
<1>2. ASSUME \A q \in Requests : Stays(q) PROVE SameCounted
  BY <1>1, <1>2, CountedKept DEF SameCounted
<1>3. CASE UNCHANGED <<rq, dlVars>>
  BY <1>2, <1>3 DEF Stays
<1>4. ASSUME NEW i \in Bit, NEW r \in ToSet(dl_tree[i]), adios_request_merged(i, r)
      PROVE  SameCounted
  <2>1. PICK rest : add_to_dl_tree(r, rq[r], [dl_tree EXCEPT ![i] = rest],
                                   ClearIfEmpty(dl_flags, i, rest))
    BY <1>4 DEF adios_request_merged
  <2>2. r \in Requests /\ rq[r].status = "queued" /\ rq[r] \in RqType
    BY <1>1, InTreeQueued DEF RqOK
  <2>3. rq'[r].status # "dispatched" /\ \A q \in Requests \ {r} : Stays(q)
    BY <1>1, <2>1, <2>2, AddStays
  <2>4. \A q \in Requests : Stays(q)
    BY <2>2, <2>3 DEF Stays
  <2>5. QED
    BY <1>2, <2>4
<1>5. ASSUME NEW i \in Bit, NEW next \in Mergeable(i), adios_merged_requests(i, next)
      PROVE  SameCounted
  <2>1. next \in Requests /\ rq[next].status \in {"queued", "lost"}
    BY MergeableStatus
  <2>2. \A q \in Requests : Stays(q)
    BY <1>1, <1>5, <2>1 DEF adios_merged_requests, RqOK, RqType, Stays
  <2>3. QED
    BY <1>2, <2>2
<1>6. QED
  BY <1>3, <1>4, <1>5 DEF adios_bio_merge

\* The steps of a dispatch that leave the pages alone: the request released with
\* the barrier was not in flight.
LEMMA DispatchCounts ==
  ASSUME QInv, NEW c \in CPUs, Dispatch(c), ~PageStep(c)
  PROVE  SameCounted \/ \E r \in Requests \ Counted : Joins(r)
<1>1. RqOK /\ PqOK
  BY DEF QInv, IInv
<1>2. ASSUME \A q \in Requests : Stays(q),
             UNCHANGED <<prio_queue, batch_queue, bq_lock, bq_page, in_flight>>
      PROVE  SameCounted
  BY <1>2, CountedKept DEF SameCounted
<1>3. CASE call_dispatch(c) \/ check_barrier(c)
  <2>1. UNCHANGED <<rq, prio_queue, batch_queue, bq_lock, bq_page, in_flight>>
    BY <1>3 DEF call_dispatch, check_barrier, pageVars, prioVars
  <2>2. QED
    BY <1>2, <2>1 DEF Stays
<1>4. CASE dispatch_from_pq(c)
  <2>1. UNCHANGED <<batch_queue, bq_lock, bq_page, in_flight>>
    BY <1>4 DEF dispatch_from_pq, pageVars
  <2> DEFINE i == PqIdx
             q == prio_queue[i]
  <2>2. CASE UNCHANGED <<rq, prio_queue>>
    BY <1>2, <2>1, <2>2 DEF Stays
  <2>3. CASE q # <<>> /\ found(c, Head(q)) /\ prio_queue' = [prio_queue EXCEPT ![i] = Tail(q)]
    <3>1. i \in Bit /\ q \in Seq(Requests)
      BY <1>1 DEF PqIdx, PqOK, Bit
    <3>2. IsInjective(q)
      <4>1. PqName(i) \in QueueNames /\ Lists[PqName(i)] = q
        BY <3>1, Names, ListAt DEF Lists
      <4>2. QED
        BY <4>1 DEF QInv, PlaceOK, Placed
    <3>3. q # <<>> /\ found(c, Head(q)) /\ prio_queue' = [prio_queue EXCEPT ![i] = Tail(q)]
      BY <2>3
    <3>4. q = prio_queue[i]
      OBVIOUS
    <3> HIDE DEF i, q
    <3>5. PICK x \in Requests : x = Head(q) /\ x \in ToSet(q) /\ ToSet(Tail(q)) = ToSet(q) \ {x}
      BY <3>1, <3>2, <3>3, TailDistinct, ToSetType
    <3>6. \A j \in Bit : prio_queue'[j] = IF j = i THEN Tail(q) ELSE prio_queue[j]
      BY <1>1, <3>3 DEF PqOK
    <3>7. \A r \in Requests :
            rq'[r].status = "dispatched" <=> rq[r].status = "dispatched" \/ r = x
      BY <1>1, <3>3, <3>5 DEF found, RqOK, RqType
    <3>8. x \in ToSet(prio_queue[i])
      BY <3>4, <3>5
    <3>9. \A r : r # x => \A j \in Bit : r \in ToSet(prio_queue'[j]) <=> r \in ToSet(prio_queue[j])
      BY <3>4, <3>5, <3>6
    <3>10. ASSUME NEW r PROVE r \in Counted' <=> r \in Counted
      BY <2>1, <3>1, <3>5, <3>7, <3>8, <3>9 DEF Counted
    <3>11. QED
      BY <2>1, <3>10 DEF SameCounted
  <2>4. QED
    BY <1>4, <2>2, <2>3 DEF dispatch_from_pq
<1>5. CASE release_barrier_requests(c)
  <2>1. UNCHANGED <<rq, batch_queue, bq_lock, bq_page>>
    BY <1>5 DEF release_barrier_requests, pageVars
  <2>2. CASE UNCHANGED prioVars
    BY <1>2, <2>1, <2>2 DEF Stays, prioVars
  <2>3. ASSUME barrier_queue # <<>>,
               insert_to_prio_queue(Head(barrier_queue), rq[Head(barrier_queue)].pred, 1)
        PROVE  \E r \in Requests \ Counted : Joins(r)
    <3>1. barrier_queue \in Seq(Requests) /\ 1 \in Bit
      BY DEF QInv, IInv, BarOK, Bit
    <3>2. PICK r \in Requests : r = Head(barrier_queue) /\ r \in ToSet(barrier_queue)
      BY <2>3, <3>1, SeqHead, ToSetType
    <3>3. Joins(r)
      BY <1>1, <2>1, <2>3, <3>1, <3>2, PqJoins DEF Stays
    <3>4. r \notin Counted
      <4>1. /\ BarrierName \in QueueNames /\ Lists[BarrierName] = barrier_queue
            /\ \A i \in Bit : PqName(i) \in QueueNames /\ Lists[PqName(i)] = prio_queue[i]
            /\ \A p \in Bit, o \in OpTypes :
                 BqName(p, o) \in QueueNames /\ Lists[BqName(p, o)] = batch_queue[p][o]
        BY Names, ListAt DEF Lists
      <4>2. /\ \A i \in Bit : BarrierName # PqName(i)
            /\ \A p \in Bit, o \in OpTypes : BarrierName # BqName(p, o)
        BY DEF BarrierName, PqName, BqName
      <4>3. rq[r].status = "queued"
        BY <3>2, <4>1, InListQueued DEF QInv
      <4>4. /\ \A i \in Bit : r \notin ToSet(prio_queue[i])
            /\ \A p \in Bit, o \in OpTypes : r \notin ToSet(batch_queue[p][o])
        BY <3>2, <4>1, <4>2, OneList
      <4>5. QED
        BY <4>3, <4>4 DEF Counted
    <3>5. QED
      BY <3>3, <3>4
  <2>4. QED
    BY <1>5, <2>2, <2>3 DEF release_barrier_requests
<1>6. CASE release_local_list(c)
  <2>1. UNCHANGED <<batch_queue, bq_lock, bq_page, in_flight, prio_queue>>
    BY <1>6 DEF release_local_list, pageVars, prioVars
  <2>2. PICK r \in Requests : r = Head(local_list) /\ rq[r].status = "queued"
    <3>1. local_list \in Seq(Requests) /\ local_list # <<>>
      BY <1>6 DEF release_local_list, QInv, IInv, CtlOK
    <3>2. LocalName \in QueueNames /\ Lists[LocalName] = local_list
      BY Names, ListAt DEF Lists
    <3>3. QED
      BY <3>1, <3>2, SeqHead, InListQueued DEF QInv
  <2>3. merge_or_insert_to_dl_tree(r, rq[r]) /\ rq[r] \in RqType /\ rq[r].status # "dispatched"
    BY <1>1, <1>6, <2>2 DEF release_local_list, RqOK
  <2>4. rq'[r].status # "dispatched" /\ \A q \in Requests \ {r} : Stays(q)
    BY <2>3, MergeStays
  <2>5. QED
    BY <1>2, <2>1, <2>3, <2>4 DEF Stays
<1>7. QED
  BY <1>3, <1>4, <1>5, <1>6 DEF Dispatch, PageStep

\* A completion takes its request out of what is in flight: a dispatched
\* request is in none of the lists.
LEMMA CompletedCounts ==
  ASSUME QInv, NEW r \in Requests, adios_completed_request(r)
  PROVE  r \in Counted /\ Leaves(r)
<1>1. /\ rq[r].status = "dispatched"
      /\ UNCHANGED <<prio_queue, batch_queue, bq_lock, bq_page>>
      /\ rq' = [rq EXCEPT ![r].status = "completed"]
      /\ in_flight' = Account(-1, -rq[r].pred)
  BY DEF adios_completed_request, pageVars, ctlVars
<1>2. rq'[r].status = "completed" /\ \A q \in Requests \ {r} : Stays(q)
  BY <1>1 DEF QInv, IInv, RqOK, RqType, Stays
<1>3. r \notin Queued
  BY <1>1 DEF Queued
<1>4. /\ \A i \in Bit : r \notin ToSet(prio_queue[i])
      /\ \A p \in Bit, o \in OpTypes : r \notin ToSet(batch_queue[p][o])
  BY <1>3, CountedOutside
<1>5. r \in Counted
  BY <1>1 DEF Counted
<1>6. ASSUME NEW q PROVE q \in Counted' <=> q \in Counted \ {r}
  BY <1>1, <1>2, <1>4 DEF Counted, Stays
<1>7. QED
  BY <1>1, <1>5, <1>6 DEF Leaves

\* What the steps that do not work on the pages change about it, but for the
\* requeue of a request: nothing, or one request that comes or goes.
LEMMA QuietCounts ==
  ASSUME QInv, [Next]_vars, \A c \in CPUs : ~PageStep(c), \A r \in Requests : ~Requeue(r)
  PROVE  \/ SameCounted
         \/ \E r \in Requests \ Counted : Joins(r)
         \/ \E r \in Counted : Leaves(r)
<1>1. ASSUME NEW k \in Kinds, adios_insert_requests(k)
      PROVE  SameCounted \/ \E r \in Requests \ Counted : Joins(r)
  <2>1. PICK r : r = inserted + 1
    OBVIOUS
  <2>2. r \in Requests /\ k \in KindType /\ insert_request(r, k)
    BY <1>1, <2>1, ConstantsAssumption DEF adios_insert_requests, QInv, IInv, EnvOK, Requests
  <2>3. rq[r].status = "new"
    BY <2>1, <2>2 DEF QInv, NewOK, IInv, EnvOK
  <2>4. r \notin Queued /\ rq[r].status # "dispatched"
    BY <2>3 DEF Queued
  <2>5. r \notin Counted
    BY <2>2, <2>4, CountedOutside
  <2>6. QED
    BY <2>2, <2>4, <2>5, InsertCounts DEF SameCounted
<1>2. CASE \/ bio_merge_check \/ adios_bio_merge_oops
           \/ \E o \in OpTypes, b \in Bases : latency_model_update(o, b)
           \/ \E o \in Bit : adios_batch_order_store(o)
           \/ UNCHANGED vars
  <2>1. UNCHANGED <<rq, prio_queue, batch_queue, bq_lock, bq_page, in_flight>>
    BY <1>2 DEF bio_merge_check, adios_bio_merge_oops, latency_model_update, adios_batch_order_store, vars,
                prioVars, pageVars, ctlVars
  <2>2. Counted' = Counted
    BY <2>1, CountedKept DEF Stays
  <2>3. QED
    BY <2>1, <2>2 DEF SameCounted
<1>3. QED
  BY <1>1, <1>2, BioCounts, DispatchCounts, CompletedCounts DEF Next

\* A request given back by the driver is in flight already, and is accounted
\* once more.
LEMMA RequeueCounts ==
  ASSUME QInv, NEW r \in Requests, Requeue(r)
  PROVE  /\ Counted' = Counted /\ in_flight' = Account(1, rq'[r].pred)
         /\ budget'.requeues = budget.requeues - 1
<1>1. rq[r].status = "dispatched" /\ insert_request(r, [rq[r].kind EXCEPT !.head = TRUE])
  BY DEF Requeue
<1>2. PICK k : k = [rq[r].kind EXCEPT !.head = TRUE]
  OBVIOUS
<1>3. k \in KindType /\ k.head
  BY <1>2 DEF QInv, IInv, RqOK, RqType, KindType
<1>4. r \notin Queued /\ insert_request(r, k)
  BY <1>1, <1>2 DEF Queued
<1>5. Joins(r)
  BY <1>3, <1>4, InsertCounts
<1>6. Counted \cup {r} = Counted
  BY <1>1 DEF Counted
<1>7. budget'.requeues = budget.requeues - 1
  BY DEF Requeue, QInv, IInv, EnvOK
<1>8. QED
  BY <1>5, <1>6, <1>7 DEF Joins

\* No other step gives a request back.
LEMMA RequeuesKept ==
  ASSUME QInv, [Next]_vars, \A r \in Requests : ~Requeue(r)
  PROVE  budget'.requeues = budget.requeues
<1>1. CASE \E k \in Kinds : adios_insert_requests(k)
  BY <1>1 DEF adios_insert_requests
<1>2. CASE bio_merge_check \/ adios_bio_merge \/ adios_bio_merge_oops
  BY <1>2 DEF bio_merge_check, adios_bio_merge, adios_bio_merge_oops
<1>3. ASSUME NEW c \in CPUs, Dispatch(c) PROVE budget'.requeues = budget.requeues
  BY <1>3 DEF Dispatch, call_dispatch, dispatch_from_pq, dispatch_from_bq, fill_batch_queues,
              fill_batch_queues_done, check_barrier, release_barrier_requests,
              release_local_list, envVars
<1>4. CASE \E r \in Requests : adios_completed_request(r)
  BY <1>4 DEF adios_completed_request, envVars
<1>5. ASSUME NEW o \in OpTypes, NEW b \in Bases, latency_model_update(o, b)
      PROVE  budget'.requeues = budget.requeues
  BY <1>5 DEF latency_model_update, QInv, IInv, EnvOK
<1>6. CASE (\E o \in Bit : adios_batch_order_store(o)) \/ UNCHANGED vars
  BY <1>6 DEF adios_batch_order_store, vars, envVars
<1>7. QED
  BY <1>1, <1>2, <1>3, <1>4, <1>5, <1>6 DEF Next

\* A page being filled has nothing that is in flight.
LEMMA FillOutside ==
  ASSUME QInv, bq_lock # NoOne, NEW p \in Bit, p = 1 - bq_page
  PROVE  InBatch(p) \cap Counted = {}
<1> SUFFICES ASSUME NEW r \in Requests, NEW o \in OpTypes, r \in ToSet(batch_queue[p][o])
             PROVE  r \notin Counted
  BY DEF InBatch
<1>1. /\ \A i \in Bit : PqName(i) \in QueueNames /\ Lists[PqName(i)] = prio_queue[i]
      /\ \A j \in Bit, k \in OpTypes :
           BqName(j, k) \in QueueNames /\ Lists[BqName(j, k)] = batch_queue[j][k]
  BY Names, ListAt DEF Lists
<1>2. /\ \A i \in Bit : BqName(p, o) # PqName(i)
      /\ \A j \in Bit, k \in OpTypes : j # p => BqName(p, o) # BqName(j, k)
  BY DEF PqName, BqName
<1>3. rq[r].status = "queued"
  BY <1>1, InListQueued DEF QInv
<1>4. /\ \A i \in Bit : r \notin ToSet(prio_queue[i])
      /\ \A j \in Bit, k \in OpTypes : j # p => r \notin ToSet(batch_queue[j][k])
  BY <1>1, <1>2, OneList
<1>5. QED
  BY <1>3, <1>4 DEF Counted

\* The requests of both pages.
Paged == {r \in Requests : \E p \in Bit, o \in OpTypes : r \in ToSet(batch_queue[p][o])}

\* With the lock free, both pages are in flight, and a pop keeps it so.
LEMMA PopCounts ==
  ASSUME Taken, UNCHANGED prio_queue, bq_lock' = NoOne, NEW r
  PROVE  r \in Counted' <=> /\ r \in Requests
                            /\ \/ rq[r].status = "dispatched"
                               \/ \E i \in Bit : r \in ToSet(prio_queue[i])
                               \/ r \in Paged
<1>1. r \in Counted' <=> /\ r \in Requests
                         /\ \/ rq'[r].status = "dispatched"
                            \/ \E i \in Bit : r \in ToSet(prio_queue[i])
                            \/ r \in Paged'
  BY DEF Counted, Paged
<1>2. ASSUME r \in Requests, rq'[r].status = "dispatched"
      PROVE  rq[r].status = "dispatched" \/ r \in Paged
  BY <1>2 DEF Taken, Paged
<1>3. ASSUME r \in Requests, rq[r].status = "dispatched" PROVE rq'[r].status = "dispatched"
  BY <1>3 DEF Taken
<1>4. ASSUME r \in Paged' PROVE r \in Paged
  BY <1>4 DEF Taken, Paged
<1>5. ASSUME r \in Paged PROVE r \in Paged' \/ rq'[r].status = "dispatched"
  BY <1>5 DEF Taken, Paged
<1>6. QED
  BY <1>1, <1>2, <1>3, <1>4, <1>5

\* What the page steps do to it: only the end of a fill adds its batch.
LEMMA PageStepCounts ==
  ASSUME QInv, NEW c \in CPUs, PageStep(c), NEW p \in Bit, p = 1 - bq_page
  PROVE  \/ SameCounted
         \/ /\ bq_lock # NoOne /\ Counted' = Counted \cup InBatch(p)
            /\ in_flight' = Account(fill.count % CountSize, fill.added)
<1>1. CASE dispatch_from_bq(c) /\ MustRefill
  <2>1. /\ bq_lock = NoOne /\ UNCHANGED <<bq_page, batch_queue, rq, prioVars>>
        /\ \A o \in OpTypes : batch_queue[p][o] = <<>>
    BY <1>1, StartPages
  <2>2. \A x : x \notin ToSet(<<>>)
    BY DEF ToSet
  <2>3. \A r \in Requests, o \in OpTypes : r \notin ToSet(batch_queue[p][o])
    BY <2>1, <2>2
  <2>4. ASSUME NEW r \in Requests, NEW j \in Bit, NEW o \in OpTypes,
               r \in ToSet(batch_queue'[j][o])
        PROVE  j # p /\ r \in ToSet(batch_queue[j][o])
    BY <2>1, <2>3, <2>4
  <2>6. ASSUME NEW r PROVE r \in Counted' <=> r \in Counted
    BY <2>1, <2>3, <2>4 DEF Counted, prioVars
  <2>5. QED
    BY <2>1, <2>6 DEF prioVars, SameCounted
<1>2. CASE dispatch_from_bq(c) /\ ~MustRefill
  <2>1. bq_lock = NoOne /\ UNCHANGED <<prio_queue, in_flight>>
    BY <1>2 DEF dispatch_from_bq, prioVars
  <2>2. Taken /\ bq_lock' = NoOne
    BY <1>2, PopShrinks, PopLeaves
  <2>3. ASSUME NEW r PROVE r \in Counted' <=> r \in Counted
    <3>1. r \in Counted <=> /\ r \in Requests
                            /\ \/ rq[r].status = "dispatched"
                               \/ \E i \in Bit : r \in ToSet(prio_queue[i])
                               \/ r \in Paged
      BY <2>1 DEF Counted, Paged
    <3>2. QED
      BY <2>1, <2>2, <3>1, PopCounts
  <2>4. QED
    BY <2>1, <2>3 DEF SameCounted
<1>3. CASE fill_batch_queues(c)
  <2>1. bq_lock = c /\ UNCHANGED <<bq_page, bq_lock, rq, prioVars>> /\ c # NoOne
    BY <1>3, FillPages, ConstantsAssumption
  <2>2. batch_queue'[bq_page] = batch_queue[bq_page]
    <3>1. CASE UNCHANGED batch_queue
      BY <3>1
    <3>2. CASE \E r \in Requests, o \in OpTypes : Added(r, o)
      BY <3>2, AddGrows
    <3>3. QED
      BY <1>3, <3>1, <3>2, FillPages
  <2>3. \A j \in Bit : j = bq_page \/ j = 1 - bq_page
    BY DEF QInv, IInv, PageOK, Bit
  <2>4. ASSUME NEW r PROVE r \in Counted' <=> r \in Counted
    BY <2>1, <2>2, <2>3 DEF Counted, prioVars
  <2>5. QED
    BY <2>1, <2>4 DEF prioVars, SameCounted
<1>4. CASE fill_batch_queues_done(c)
  <2>1. UNCHANGED prio_queue /\ in_flight' = Account(fill.count % CountSize, fill.added)
    BY <1>4 DEF fill_batch_queues_done
  <2>2. Taken /\ bq_lock' = NoOne
    BY <1>4, PopShrinks, PopLeaves
  <2>3. bq_lock # NoOne
    BY <1>4, ConstantsAssumption DEF fill_batch_queues_done, QInv, IInv, CtlOK
  <2>4. ASSUME NEW r PROVE r \in Counted' <=> r \in Counted \cup InBatch(p)
    <3>1. r \in Counted \cup InBatch(p)
            <=> /\ r \in Requests
                /\ \/ rq[r].status = "dispatched"
                   \/ \E i \in Bit : r \in ToSet(prio_queue[i])
                   \/ r \in Paged
      BY <2>3 DEF Counted, Paged, InBatch
    <3>2. QED
      BY <2>1, <2>2, <3>1, PopCounts
  <2>5. QED
    BY <2>1, <2>3, <2>4
<1>5. QED
  BY <1>1, <1>2, <1>3, <1>4 DEF PageStep

\* What the requeues so far have left behind in in_flight_rqs.
Leaked == MaxRequeues - budget.requeues

\* ad->in_flight_rqs.count, as far as its bits go, counts the requests in
\* flight and one more for each requeue; a fill in progress counts what it has
\* put into its page, which is what its end adds to in_flight_rqs.
CountOK ==
  /\ in_flight.count = (Cardinality(Counted) + Leaked) % CountSize
  /\ bq_lock # NoOne => \A p \in Bit : p = 1 - bq_page =>
                          fill.count = Cardinality(InBatch(p))

\* Sets of requests have a number of elements.
LEMMA CardOf ==
  ASSUME NEW S, S \subseteq Requests
  PROVE  IsFiniteSet(S) /\ Cardinality(S) \in Nat /\ Cardinality(S) <= MaxReq
<1>1. IsFiniteSet(Requests) /\ Cardinality(Requests) = MaxReq
  BY FS_Interval, ConstantsAssumption DEF Requests
<1>2. IsFiniteSet(S) /\ Cardinality(S) <= Cardinality(Requests)
  BY <1>1, FS_Subset
<1>3. QED
  BY <1>1, <1>2, FS_CardinalityType

\* One request more in the page that is being filled.
LEMMA AddedToBatch ==
  ASSUME QInv, NEW p \in Bit, p = 1 - bq_page, NEW r \in Requests, NEW o \in OpTypes, Added(r, o)
  PROVE  r \notin InBatch(p) /\ InBatch(p)' = InBatch(p) \cup {r}
<1>1. /\ \A k \in OpTypes :
           /\ ToSet(batch_queue[p][k]) \subseteq ToSet(batch_queue'[p][k])
           /\ ToSet(batch_queue'[p][k]) \subseteq ToSet(batch_queue[p][k]) \cup {r}
      /\ r \in ToSet(batch_queue'[p][o])
  BY AddGrows
<1>2. InBatch(p)' = InBatch(p) \cup {r}
  BY <1>1 DEF InBatch
<1>3. PICK i \in Bit : r \in ToSet(dl_tree[i])
  BY DEF Added
<1>4. /\ DlName(i) \in QueueNames /\ Lists[DlName(i)] = dl_tree[i]
      /\ \A k \in OpTypes : BqName(p, k) \in QueueNames
                            /\ Lists[BqName(p, k)] = batch_queue[p][k]
  BY Names, ListAt DEF Lists
<1>5. \A k \in OpTypes : DlName(i) # BqName(p, k)
  BY DEF DlName, BqName
<1>6. \A k \in OpTypes : r \notin ToSet(batch_queue[p][k])
  BY <1>3, <1>4, <1>5, OneList
<1>7. QED
  BY <1>2, <1>6 DEF InBatch

\* The part of it about the page that is being filled.
LEMMA NextFillCounts ==
  ASSUME QInv, CountOK, [Next]_vars, bq_lock' # NoOne, NEW p \in Bit, p = 1 - bq_page'
  PROVE  fill'.count = Cardinality(InBatch(p)')
<1>1. ASSUME bq_lock # NoOne, UNCHANGED <<bq_page, batch_queue, fill>>
      PROVE  fill'.count = Cardinality(InBatch(p)')
  <2>1. InBatch(p)' = InBatch(p)
    BY <1>1 DEF InBatch
  <2>2. QED
    BY <1>1, <2>1 DEF CountOK
<1>2. CASE Quiet
  BY <1>1, <1>2 DEF Quiet, pageVars, batchVars
<1>3. ASSUME NEW c \in CPUs, dispatch_from_bq(c), MustRefill
      PROVE  fill'.count = Cardinality(InBatch(p)')
  <2>1. /\ UNCHANGED <<bq_page, batch_queue>> /\ fill'.count = 0
        /\ \A o \in OpTypes : batch_queue[1 - bq_page][o] = <<>>
    BY <1>3, StartPages
  <2>2. \A x : x \notin ToSet(<<>>)
    BY DEF ToSet
  <2>3. InBatch(p)' = {}
    BY <2>1, <2>2 DEF InBatch
  <2>4. Cardinality(InBatch(p)') = 0
    BY <2>3, FS_EmptySet
  <2>5. QED
    BY <2>1, <2>4
<1>4. ASSUME NEW c \in CPUs,
             (dispatch_from_bq(c) /\ ~MustRefill) \/ fill_batch_queues_done(c)
      PROVE  FALSE
  BY <1>4, PopLeaves
<1>5. ASSUME NEW c \in CPUs, fill_batch_queues(c)
      PROVE  fill'.count = Cardinality(InBatch(p)')
  <2>1. bq_lock = c /\ UNCHANGED <<bq_page, bq_lock>> /\ c # NoOne
    BY <1>5, FillPages, ConstantsAssumption
  <2>2. CASE UNCHANGED <<batch_queue, fill>>
    BY <1>1, <2>1, <2>2
  <2>3. ASSUME NEW r \in Requests, NEW o \in OpTypes, Added(r, o)
        PROVE  fill'.count = Cardinality(InBatch(p)')
    <3>1. r \notin InBatch(p) /\ InBatch(p)' = InBatch(p) \cup {r}
      BY <2>1, <2>3, AddedToBatch
    <3>2. IsFiniteSet(InBatch(p))
      <4>1. InBatch(p) \subseteq Requests
        BY DEF InBatch
      <4>2. QED
        BY <4>1, CardOf
    <3>3. Cardinality(InBatch(p)') = Cardinality(InBatch(p)) + 1
      BY <3>1, <3>2, FS_AddElement
    <3>4. fill'.count = fill.count + 1 /\ fill.count = Cardinality(InBatch(p))
      BY <2>1, <2>3 DEF Added, CountOK
    <3>5. QED
      BY <3>3, <3>4
  <2>4. QED
    BY <1>5, <2>2, <2>3, FillPages
<1>6. QED
  BY <1>2, <1>3, <1>4, <1>5, QuietOrPage DEF PageStep

\* Every step of the scheduler preserves it.
LEMMA NextCountOK ==
  ASSUME QInv, CountOK, [Next]_vars
  PROVE  CountOK'
<1> DEFINE total == Cardinality(Counted) + Leaked
<1>1. bq_lock' # NoOne => \A p \in Bit : p = 1 - bq_page' =>
        fill'.count = Cardinality(InBatch(p)')
  BY NextFillCounts
<1>2. Counted \subseteq Requests /\ IsFiniteSet(Counted) /\ Cardinality(Counted) \in Nat
  <2>1. Counted \subseteq Requests
    BY DEF Counted
  <2>2. QED
    BY <2>1, CardOf
<1>3. Leaked \in Int /\ total \in Int /\ CountSize \in Nat \ {0}
  BY <1>2, ConstantsAssumption DEF Leaked, QInv, IInv, EnvOK
<1>4. in_flight.count = total % CountSize
  BY DEF CountOK
<1> HIDE DEF total
<1>5. ASSUME NEW d \in Int, total' = total + d,
             in_flight'.count = (in_flight.count + d) % CountSize
      PROVE  CountOK'
  <2>1. in_flight'.count = total' % CountSize
    BY <1>3, <1>4, <1>5, ModAdd
  <2>2. QED
    BY <1>1, <2>1 DEF CountOK, total
<1>6. ASSUME budget'.requeues = budget.requeues PROVE Leaked' = Leaked
  BY <1>6 DEF Leaked
<1>7. ASSUME SameCounted, budget'.requeues = budget.requeues PROVE CountOK'
  <2>1. Counted' = Counted /\ in_flight'.count = in_flight.count /\ Leaked' = Leaked
    BY <1>6, <1>7 DEF SameCounted
  <2>2. in_flight'.count = total' % CountSize
    BY <1>4, <2>1 DEF total
  <2>3. QED
    BY <1>1, <2>2 DEF CountOK, total
<1>8. ASSUME NEW r \in Requests \ Counted, Joins(r), budget'.requeues = budget.requeues
      PROVE  CountOK'
  <2>1. Counted' = Counted \cup {r} /\ in_flight'.count = (in_flight.count + 1) % CountSize
    BY <1>8 DEF Joins, Account
  <2>2. Cardinality(Counted') = Cardinality(Counted) + 1
    BY <1>2, <1>8, <2>1, FS_AddElement
  <2>3. total' = total + 1
    BY <1>2, <1>3, <1>6, <1>8, <2>2 DEF total
  <2>4. QED
    BY <1>5, <2>1, <2>3
<1>9. ASSUME NEW r \in Counted, Leaves(r), budget'.requeues = budget.requeues
      PROVE  CountOK'
  <2>1. Counted' = Counted \ {r} /\ in_flight'.count = (in_flight.count + (-1)) % CountSize
    BY <1>9 DEF Leaves, Account
  <2>2. Cardinality(Counted') = Cardinality(Counted) - 1
    BY <1>2, <1>9, <2>1, FS_RemoveElement
  <2>3. total' = total + (-1)
    BY <1>2, <1>3, <1>6, <1>9, <2>2 DEF total
  <2>4. QED
    BY <1>5, <2>1, <2>3
<1>10. ASSUME NEW r \in Requests, Requeue(r) PROVE CountOK'
  <2>1. /\ Counted' = Counted /\ in_flight'.count = (in_flight.count + 1) % CountSize
        /\ budget'.requeues = budget.requeues - 1
    BY <1>10, RequeueCounts DEF Account
  <2>2. total' = total + 1
    BY <1>2, <2>1, ConstantsAssumption DEF total, Leaked, QInv, IInv, EnvOK
  <2>3. QED
    BY <1>5, <2>1, <2>2
<1>11. ASSUME NEW c \in CPUs, PageStep(c), \A r \in Requests : ~Requeue(r) PROVE CountOK'
  <2>1. PICK p \in Bit : p = 1 - bq_page
    BY DEF QInv, IInv, PageOK, Bit
  <2>2. budget'.requeues = budget.requeues
    BY <1>11, RequeuesKept
  <2>3. CASE SameCounted
    BY <1>7, <2>2, <2>3
  <2>4. CASE /\ bq_lock # NoOne /\ Counted' = Counted \cup InBatch(p)
             /\ in_flight' = Account(fill.count % CountSize, fill.added)
    <3>1. PICK S, T : S = Counted /\ T = InBatch(p)
      OBVIOUS
    <3>2. /\ T \subseteq Requests /\ S \cap T = {} /\ Cardinality(T) = fill.count
          /\ Counted' = S \cup T /\ fill.count \in Nat
      <4>1. InBatch(p) \cap Counted = {}
        BY <2>1, <2>4, FillOutside
      <4>2. QED
        BY <2>1, <2>4, <3>1, <4>1 DEF CountOK, InBatch, QInv, IInv, FillOK
    <3>3. Cardinality(S \cup T) = Cardinality(S) + Cardinality(T)
      <4>1. IsFiniteSet(S) /\ IsFiniteSet(T) /\ Cardinality(S) \in Nat /\ Cardinality(T) \in Nat
        BY <1>2, <3>1, <3>2, CardOf
      <4>2. Cardinality(S \cap T) = 0
        BY <3>2, FS_EmptySet
      <4>3. Cardinality(S \cup T) = Cardinality(S) + Cardinality(T) - Cardinality(S \cap T)
        BY <4>1, FS_Union
      <4>4. QED
        BY <4>1, <4>2, <4>3
    <3>4. Cardinality(Counted') = Cardinality(Counted) + fill.count
      BY <3>1, <3>2, <3>3
    <3>5. total' = total + fill.count
      BY <1>2, <1>3, <1>6, <2>2, <3>2, <3>4 DEF total
    <3>6. in_flight'.count = (in_flight.count + fill.count) % CountSize
      <4>1. in_flight.count \in Int /\ fill.count % CountSize \in Int
        <5>1. in_flight.count \in 0..(CountSize - 1)
          BY DEF QInv, IInv, PqOK
        <5>2. fill.count % CountSize \in 0..(CountSize - 1)
          <6>1. PICK x : x = fill.count
            OBVIOUS
          <6>2. x \in Int /\ CountSize \in Nat \ {0}
            BY <1>3, <3>2, <6>1
          <6>3. x % CountSize \in 0..(CountSize - 1)
            BY <6>2
          <6>4. QED
            BY <6>1, <6>3
        <5>3. QED
          BY <1>3, <5>1, <5>2
      <4>2. in_flight'.count = ((fill.count % CountSize) + in_flight.count) % CountSize
        BY <2>4, <4>1 DEF Account
      <4>3. QED
        BY <1>3, <3>2, <4>1, <4>2, ModAdd
    <3>7. QED
      BY <1>5, <3>2, <3>5, <3>6
  <2>5. QED
    BY <1>11, <2>1, <2>3, <2>4, PageStepCounts
<1>12. CASE \A r \in Requests : ~Requeue(r)
  BY <1>7, <1>8, <1>9, <1>11, <1>12, RequeuesKept, QuietCounts
<1>13. QED
  BY <1>10, <1>12

---------------------------------------------------------------------------
(* The theorems.                                                           *)

\* What the three properties need together.
BInv == QInv /\ BatchOK /\ CountOK /\ CountedSorted

\* They hold of a new scheduler.
LEMMA InitBInv ==
  ASSUME NEW stable \in BOOLEAN, NEW bases \in [OpTypes -> Nat], InitWith(stable, bases)
  PROVE  BInv
<1>1. QInv
  BY InitQInv
<1>2. /\ \A p \in Bit, o \in OpTypes : batch_queue[p][o] = <<>> /\ batch_count[p][o] = 0
      /\ \A i \in Bit : prio_queue[i] = <<>>
      /\ \A r \in Requests : rq[r].status = "new"
      /\ bq_lock = NoOne /\ in_flight.count = 0 /\ Leaked = 0
  BY ConstantsAssumption DEF InitWith, Leaked
<1>3. \A x : x \notin ToSet(<<>>)
  BY DEF ToSet
<1>4. BatchOK
  <2>1. \A p \in Bit, o \in OpTypes : OfType(p, o) = {}
    BY <1>2, <1>3 DEF OfType
  <2>2. \A p \in Bit, o \in OpTypes : Cardinality(OfType(p, o)) = 0
    BY <2>1, FS_EmptySet
  <2>3. \A o \in OpTypes : BatchLimit[o] >= 0
    BY ConstantsAssumption
  <2>4. QED
    BY <1>2, <2>2, <2>3 DEF BatchOK, Within
<1>5. CountOK
  <2>1. Counted = {}
    BY <1>2, <1>3 DEF Counted
  <2>2. Cardinality(Counted) = 0
    BY <2>1, FS_EmptySet
  <2>3. (0 + 0) % CountSize = 0
    BY ConstantsAssumption, ModSmall
  <2>4. QED
    BY <1>2, <2>2, <2>3 DEF CountOK
<1>6. CountedSorted
  <2>1. 1 \in OpTypes
    BY DEF OpTypes
  <2>2. \A p \in Bit : DOMAIN batch_queue[p][1] = {}
    BY <1>2, <2>1
  <2>3. QED
    BY <2>2 DEF CountedSorted, InDiskOrder
<1>7. QED
  BY <1>1, <1>4, <1>5, <1>6 DEF BInv

\* Every step preserves them.
LEMMA NextBInv ==
  ASSUME BInv, [Next]_vars
  PROVE  BInv'
<1>1. QInv'
  BY NextQInv DEF BInv
<1>2. IInv'
  BY <1>1 DEF QInv
<1>3. QED
  BY <1>1, <1>2, NextBatchOK, NextCountOK, NextElevator DEF BInv

\* The invariant holds from a cold start and from a warm one.
LEMMA InvariantHolds == Spec \/ WarmSpec => []BInv
<1>1. Init => BInv
  BY InitBInv DEF Init
<1>2. WarmInit => BInv
  <2> SUFFICES ASSUME NEW b \in Bases \ {0},
                      InitWith(TRUE, [o \in OpTypes |-> IF o = 3 THEN 0 ELSE b])
               PROVE  BInv
    BY DEF WarmInit
  <2>1. [o \in OpTypes |-> IF o = 3 THEN 0 ELSE b] \in [OpTypes -> Nat]
    BY ConstantsAssumption
  <2>2. QED
    BY <2>1, InitBInv
<1>3. BInv /\ [Next]_vars => BInv'
  BY NextBInv
<1>4. QED
  BY <1>1, <1>2, <1>3, PTL DEF Spec, WarmSpec

\* fill_batch_queues respects batch_limit[] and global_latency_window, however
\* the fills, the page flips and the pops of several CPUs interleave.
THEOREM BatchesBounded == Spec \/ WarmSpec => []BatchBounded
<1>1. BInv => BatchBounded
  <2> SUFFICES ASSUME BInv PROVE BatchBounded
    OBVIOUS
  <2>1. IInv /\ BatchOK
    BY DEF BInv, QInv
  <2>2. ASSUME NEW p \in Bit, NEW o \in OpTypes
        PROVE  Cardinality(OfType(p, o)) <= BatchLimit[o]
    <3>1. OfType(p, o) \subseteq Requests
      BY DEF OfType
    <3>2. Cardinality(OfType(p, o)) \in Nat
      BY <3>1, FewerRequests
    <3>3. batch_count[p][o] \in Nat /\ BatchLimit[o] \in Nat
      BY <2>1, ConstantsAssumption DEF IInv, FillOK
    <3>4. /\ Cardinality(OfType(p, o)) <= batch_count[p][o]
          /\ batch_count[p][o] <= BatchLimit[o]
      BY <2>1 DEF BatchOK, Within
    <3>5. QED
      BY <3>2, <3>3, <3>4
  <2>3. (\E c \in CPUs : pc[c] \in {"fill", "filled"})
          => fill.count <= 1 \/ fill.tpl + fill.added <= Window
    BY <2>1, FillingIs DEF BatchOK
  <2>4. QED
    BY <2>2, <2>3 DEF BatchBounded, OfType
<1>2. QED
  BY <1>1, InvariantHolds, PTL

\* The lock-free count of ad->in_flight_rqs differs from the number of requests
\* in flight by the requests that the driver gave back, and by nothing else, as
\* far as its bits go: fill_batch_queues, which adds its batch at the end only,
\* the releases of the barrier and the completions of other CPUs lose and
\* repeat nothing between them.  With 65536 requeues the count has wrapped.
THEOREM CountOffByRequeuesOnly == Spec \/ WarmSpec => []CountOffByRequeues
<1>1. BInv => CountOffByRequeues
  BY InFlightCounted DEF BInv, QInv, CountOK, Leaked, CountOffByRequeues
<1>2. QED
  BY <1>1, InvariantHolds, PTL

\* Two writes of a batch are two of those that batch_count counted, so that the
\* code has sorted their queue.
LEMMA CountedIsSorted ==
  ASSUME BInv
  PROVE  ElevatorSorted
<1> SUFFICES ASSUME NEW p \in Bit, bq_batch_order[p] = 1, ~Filling(p),
                    NEW i \in DOMAIN batch_queue[p][1], NEW j \in DOMAIN batch_queue[p][1], i # j,
                    OpType(rq[batch_queue[p][1][i]].kind) = 1,
                    OpType(rq[batch_queue[p][1][j]].kind) = 1
             PROVE  InDiskOrder(batch_queue[p][1])
  BY DEF ElevatorSorted, InDiskOrder
<1>1. 1 \in OpTypes
  BY DEF OpTypes
<1>2. PICK q, a, b : q = batch_queue[p][1] /\ a = q[i] /\ b = q[j]
  OBVIOUS
<1>3. a # b /\ a \in OfType(p, 1) /\ b \in OfType(p, 1)
  <2>1. q \in Seq(Requests) /\ IsInjective(q)
    BY <1>1, <1>2, InPage DEF BInv
  <2>2. a \in ToSet(q) /\ b \in ToSet(q) /\ ToSet(q) \subseteq Requests
    BY <1>2, <2>1, ToSetType DEF ToSet
  <2>3. a # b
    BY <1>2, <2>1 DEF IsInjective
  <2>4. QED
    BY <1>1, <1>2, <2>2, <2>3 DEF OfType
<1>4. Cardinality({a, b}) = 2
  <2>1. IsFiniteSet({a}) /\ Cardinality({a}) = 1 /\ b \notin {a}
    BY <1>3, FS_Singleton
  <2>2. \A S : IsFiniteSet(S) /\ b \notin S => Cardinality(S \cup {b}) = Cardinality(S) + 1
    BY FS_AddElement
  <2>3. {a} \cup {b} = {a, b}
    OBVIOUS
  <2>4. QED
    BY <2>1, <2>2, <2>3
<1>5. Cardinality(OfType(p, 1)) \in Nat /\ 2 <= Cardinality(OfType(p, 1))
  <2>1. OfType(p, 1) \subseteq Requests /\ {a, b} \subseteq OfType(p, 1)
    BY <1>3 DEF OfType
  <2>2. QED
    BY <1>4, <2>1, FewerRequests
<1>6. batch_count[p][1] > 1
  <2>1. Cardinality(OfType(p, 1)) <= batch_count[p][1]
    BY <1>1 DEF BInv, BatchOK, Within
  <2>2. batch_count[p][1] \in Nat
    BY <1>1 DEF BInv, QInv, IInv, FillOK
  <2>3. QED
    BY <1>5, <2>1, <2>2
<1>7. QED
  BY <1>6 DEF BInv, CountedSorted

\* As long as the asynchronous queue of a batch in elevator order holds two
\* writes it is in disk order, while it is popped from either end, whatever else
\* it holds and whatever batch_order is set to in the meantime.
THEOREM ElevatorStaysSorted == Spec \/ WarmSpec => []ElevatorSorted
<1>1. BInv => ElevatorSorted
  BY CountedIsSorted
<1>2. QED
  BY <1>1, InvariantHolds, PTL

---------------------------------------------------------------------------
(* ad->in_flight_rqs in full.                                              *)

\* A request keeps its predicted latency once it is inserted.
LEMMA PredsKept ==
  ASSUME QInv, [Next]_vars, \A r \in Requests : ~Requeue(r),
         NEW q \in Requests, rq[q].status # "new"
  PROVE  Preds'[q] = Preds[q]
<1>1. ASSUME NEW k \in Kinds, adios_insert_requests(k) PROVE KindKept(q)
  <2>1. inserted + 1 \in Requests /\ k \in KindType /\ insert_request(inserted + 1, k)
    BY <1>1, ConstantsAssumption DEF adios_insert_requests, QInv, IInv, EnvOK, Requests
  <2>2. q # inserted + 1
    BY DEF QInv, NewOK, IInv, EnvOK
  <2>3. QED
    BY <2>1, <2>2, InsertKinds
<1>2. KindKept(q)
  BY <1>1, StepKinds DEF Next, Step
<1>3. QED
  BY <1>2 DEF KindKept, Preds

\* What is in flight, or in a page, has been inserted.
LEMMA CountedInserted ==
  ASSUME QInv
  PROVE  /\ Counted \subseteq Requests /\ \A r \in Counted : rq[r].status # "new"
         /\ \A p \in Bit : /\ InBatch(p) \subseteq Requests
                           /\ \A r \in InBatch(p) : rq[r].status # "new"
<1>1. ASSUME NEW p \in Bit, NEW o \in OpTypes, NEW r \in ToSet(batch_queue[p][o])
      PROVE  rq[r].status = "queued"
  BY InPage DEF Queued
<1>2. ASSUME NEW i \in Bit, NEW r \in ToSet(prio_queue[i]) PROVE rq[r].status = "queued"
  <2>1. PqName(i) \in QueueNames /\ Lists[PqName(i)] = prio_queue[i]
    BY Names, ListAt DEF Lists
  <2>2. QED
    BY <2>1, InListQueued DEF QInv
<1>3. QED
  BY <1>1, <1>2 DEF Counted, InBatch

\* The account a of the requests S, whose latencies are f.
IsAccount(a, f, S) == a.count = Cardinality(S) /\ a.lat = SumFunctionOnSet(f, S)

\* The account of two sets of requests.
LEMMA AccountUnion ==
  ASSUME NEW f \in [Requests -> Nat], NEW g \in [Requests -> Nat],
         NEW S, S \subseteq Requests, NEW T, T \subseteq Requests, S \cap T = {},
         \A r \in S : g[r] = f[r],
         NEW a, IsAccount(a, f, S), NEW b, b.count = a.count + Cardinality(T),
         b.lat = a.lat + SumFunctionOnSet(g, T)
  PROVE  IsAccount(b, g, S \cup T)
<1>1. SumFunctionOnSet(g, S) = SumFunctionOnSet(f, S)
  BY SumsKept
<1>2. SumFunctionOnSet(g, S \cup T) = SumFunctionOnSet(g, S) + SumFunctionOnSet(g, T)
  BY SumsAdd
<1>3. Cardinality(S \cup T) = Cardinality(S) + Cardinality(T)
  <2>1. IsFiniteSet(S) /\ IsFiniteSet(T) /\ Cardinality(S) \in Nat /\ Cardinality(T) \in Nat
    BY CardOf
  <2>2. Cardinality(S \cap T) = 0
    BY FS_EmptySet
  <2>3. Cardinality(S \cup T) = Cardinality(S) + Cardinality(T) - Cardinality(S \cap T)
    BY <2>1, FS_Union
  <2>4. QED
    BY <2>1, <2>2, <2>3
<1>4. QED
  BY <1>1, <1>2, <1>3 DEF IsAccount

\* One request more.
LEMMA AccountJoin ==
  ASSUME NEW f \in [Requests -> Nat], NEW g \in [Requests -> Nat],
         NEW S, S \subseteq Requests, NEW r \in Requests \ S,
         \A q \in S : g[q] = f[q],
         NEW a, IsAccount(a, f, S), NEW b, b.count = a.count + 1, b.lat = a.lat + g[r]
  PROVE  IsAccount(b, g, S \cup {r})
<1> DEFINE T == {r}
<1>1. T \subseteq Requests /\ S \cap T = {}
  OBVIOUS
<1>2. Cardinality(T) = 1 /\ SumFunctionOnSet(g, T) = g[r]
  BY FS_Singleton, SumOfOne
<1> HIDE DEF T
<1>3. b.count = a.count + Cardinality(T) /\ b.lat = a.lat + SumFunctionOnSet(g, T)
  BY <1>2
<1>4. IsAccount(b, g, S \cup T)
  BY <1>1, <1>3, AccountUnion
<1>5. QED
  BY <1>4 DEF T

\* One request less.
LEMMA AccountLeave ==
  ASSUME NEW f \in [Requests -> Nat], NEW g \in [Requests -> Nat],
         NEW S, S \subseteq Requests, NEW r \in S, \A q \in S : g[q] = f[q],
         NEW a \in [count : Int, lat : Int], IsAccount(a, f, S),
         NEW b, b.count = a.count + (-1), b.lat = a.lat + (-f[r])
  PROVE  IsAccount(b, g, S \ {r})
<1> DEFINE T == S \ {r}
<1>1. T \subseteq Requests /\ {r} \subseteq Requests /\ T \cap {r} = {} /\ T \cup {r} = S
  OBVIOUS
<1>2. IsFiniteSet(S) /\ Cardinality(S) \in Nat
  BY CardOf
<1>3. Cardinality(T) = Cardinality(S) - 1
  BY <1>2, FS_RemoveElement
<1>4. \A q \in T : g[q] = f[q]
  OBVIOUS
<1> HIDE DEF T
<1>5. SumFunctionOnSet(f, T) \in Nat /\ SumFunctionOnSet(f, {r}) = f[r] /\ f[r] \in Nat
      /\ SumFunctionOnSet(f, T \cup {r}) = SumFunctionOnSet(f, T) + SumFunctionOnSet(f, {r})
  <2>1. r \in Requests /\ f[r] \in Nat
    BY <1>1
  <2>2. SumFunctionOnSet(f, {r}) = f[r]
    BY ONLY <2>1, SumOfOne, f \in [Requests -> Nat]
  <2>3. /\ SumFunctionOnSet(f, T) \in Nat
        /\ SumFunctionOnSet(f, T \cup {r}) = SumFunctionOnSet(f, T) + SumFunctionOnSet(f, {r})
    BY ONLY <1>1, SumsAdd, f \in [Requests -> Nat]
  <2>4. QED
    BY <2>1, <2>2, <2>3
<1>6. SumFunctionOnSet(g, T) = SumFunctionOnSet(f, T)
  BY <1>1, <1>4, SumsKept
<1>7. a.lat = SumFunctionOnSet(f, T) + f[r] /\ a.count = Cardinality(S)
  BY <1>1, <1>5 DEF IsAccount
<1>8. b.lat = SumFunctionOnSet(g, T) /\ b.count = Cardinality(T)
  BY <1>2, <1>3, <1>5, <1>6, <1>7
<1>9. QED
  BY <1>8 DEF IsAccount, T

\* The same requests.
LEMMA AccountSame ==
  ASSUME NEW f \in [Requests -> Nat], NEW g, NEW S, S \subseteq Requests, \A q \in S : g[q] = f[q],
         NEW a, IsAccount(a, f, S), NEW b, b.count = a.count, b.lat = a.lat
  PROVE  IsAccount(b, g, S)
BY SumsKept DEF IsAccount

\* in_flight_rqs is the account of what is in flight, the latency as far as its
\* bits go; what a fill in progress is going to add is the account of its page.
AccountOK ==
  /\ in_flight.count = Cardinality(Counted)
  /\ in_flight.lat = SumFunctionOnSet(Preds, Counted) % LatSize
  /\ bq_lock # NoOne => \A p \in Bit : p = 1 - bq_page =>
       fill.count = Cardinality(InBatch(p)) /\ fill.added = SumFunctionOnSet(Preds, InBatch(p))

\* The part of it about the page that is being filled.
LEMMA NextFillAccount ==
  ASSUME QInv, QInv', AccountOK, [Next]_vars, \A r \in Requests : ~Requeue(r),
         bq_lock' # NoOne, NEW p \in Bit, p = 1 - bq_page'
  PROVE  fill'.count = Cardinality(InBatch(p)')
         /\ fill'.added = SumFunctionOnSet(Preds', InBatch(p)')
<1>1. /\ Preds \in [Requests -> Nat] /\ Preds' \in [Requests -> Nat]
      /\ \A r \in Requests : Preds[r] = rq[r].pred /\ Preds'[r] = rq'[r].pred
  BY DEF QInv, IInv, RqOK, RqType, Preds
<1>2. InBatch(p) \subseteq Requests /\ \A r \in InBatch(p) : Preds'[r] = Preds[r]
  BY CountedInserted, PredsKept
<1>3. ASSUME bq_lock # NoOne, UNCHANGED <<bq_page, batch_queue, fill>>
      PROVE  fill'.count = Cardinality(InBatch(p)')
             /\ fill'.added = SumFunctionOnSet(Preds', InBatch(p)')
  <2>1. InBatch(p)' = InBatch(p)
    BY <1>3 DEF InBatch
  <2>2. fill.count = Cardinality(InBatch(p)) /\ fill.added = SumFunctionOnSet(Preds, InBatch(p))
    BY <1>3 DEF AccountOK
  <2>3. SumFunctionOnSet(Preds', InBatch(p)) = SumFunctionOnSet(Preds, InBatch(p))
    BY <1>1, <1>2, SumsKept
  <2>4. QED
    BY <1>3, <2>1, <2>2, <2>3
<1>4. CASE Quiet
  BY <1>3, <1>4 DEF Quiet, pageVars, batchVars
<1>5. ASSUME NEW c \in CPUs, dispatch_from_bq(c), MustRefill
      PROVE  fill'.count = Cardinality(InBatch(p)')
             /\ fill'.added = SumFunctionOnSet(Preds', InBatch(p)')
  <2>1. /\ UNCHANGED <<bq_page, batch_queue>> /\ fill'.count = 0 /\ fill'.added = 0
        /\ \A o \in OpTypes : batch_queue[1 - bq_page][o] = <<>>
    BY <1>5, StartPages
  <2>2. \A x : x \notin ToSet(<<>>)
    BY DEF ToSet
  <2>3. InBatch(p)' = {}
    BY <2>1, <2>2 DEF InBatch
  <2>4. Cardinality(InBatch(p)') = 0 /\ SumFunctionOnSet(Preds', InBatch(p)') = 0
    BY <2>3, SumOfNone, FS_EmptySet
  <2>5. QED
    BY <2>1, <2>4
<1>6. ASSUME NEW c \in CPUs,
             (dispatch_from_bq(c) /\ ~MustRefill) \/ fill_batch_queues_done(c)
      PROVE  FALSE
  BY <1>6, PopLeaves
<1>7. ASSUME NEW c \in CPUs, fill_batch_queues(c)
      PROVE  fill'.count = Cardinality(InBatch(p)')
             /\ fill'.added = SumFunctionOnSet(Preds', InBatch(p)')
  <2>1. bq_lock = c /\ UNCHANGED <<bq_page, bq_lock>> /\ c # NoOne
    BY <1>7, FillPages, ConstantsAssumption
  <2>2. CASE UNCHANGED <<batch_queue, fill>>
    BY <1>3, <2>1, <2>2
  <2>3. ASSUME NEW r \in Requests, NEW o \in OpTypes, Added(r, o)
        PROVE  fill'.count = Cardinality(InBatch(p)')
               /\ fill'.added = SumFunctionOnSet(Preds', InBatch(p)')
    <3>1. r \notin InBatch(p) /\ InBatch(p)' = InBatch(p) \cup {r}
      BY <2>1, <2>3, AddedToBatch
    <3>4. PICK a, b : a = [count |-> fill.count, lat |-> fill.added]
                      /\ b = [count |-> fill'.count, lat |-> fill'.added]
      OBVIOUS
    <3>5. a.count = fill.count /\ a.lat = fill.added /\ b.count = fill'.count /\ b.lat = fill'.added
      BY <3>4
    <3>6. IsAccount(a, Preds, InBatch(p))
      BY <2>1, <3>5 DEF AccountOK, IsAccount
    <3>7. Preds'[r] = rq[r].pred
      <4>1. rq[r].status # "new"
        BY <2>3, InTreeQueued DEF Added
      <4>2. QED
        BY <1>1, <4>1, PredsKept
    <3>8. b.count = a.count + 1 /\ b.lat = a.lat + Preds'[r]
      BY <2>3, <3>5, <3>7 DEF Added
    <3>9. IsAccount(b, Preds', InBatch(p) \cup {r})
      <4>1. PICK f, g, S : f = Preds /\ g = Preds' /\ S = InBatch(p)
        OBVIOUS
      <4>2. /\ f \in [Requests -> Nat] /\ g \in [Requests -> Nat] /\ S \subseteq Requests
            /\ r \in Requests \ S /\ \A q \in S : g[q] = f[q]
            /\ IsAccount(a, f, S) /\ b.count = a.count + 1 /\ b.lat = a.lat + g[r]
        BY <1>1, <1>2, <3>1, <3>6, <3>8, <4>1
      <4>3. IsAccount(b, g, S \cup {r})
        BY ONLY <4>2, AccountJoin
      <4>4. QED
        BY <4>1, <4>3
    <3>10. QED
      BY <3>1, <3>5, <3>9 DEF IsAccount
  <2>4. QED
    BY <1>7, <2>2, <2>3, FillPages
<1>8. QED
  BY <1>4, <1>5, <1>6, <1>7, QuietOrPage DEF PageStep

\* An addition that leaves the account b of the requests U does not carry into
\* the latency, as there are fewer requests than the count has values.
LEMMA AccountPlain ==
  ASSUME MaxReq < CountSize,
         in_flight \in [count : 0..(CountSize - 1), lat : 0..(LatSize - 1)],
         NEW d \in Int, NEW e \in Int, in_flight' = Account(d, e),
         NEW a \in [count : Int, lat : Int], in_flight.count = a.count,
         in_flight.lat = a.lat % LatSize,
         NEW U, U \subseteq Requests, NEW g, NEW b, IsAccount(b, g, U),
         b.count = a.count + d, b.lat = a.lat + e
  PROVE  /\ in_flight'.count = Cardinality(U)
         /\ in_flight'.lat = SumFunctionOnSet(g, U) % LatSize
<1>1. CountSize \in Nat \ {0} /\ LatSize \in Nat \ {0} /\ MaxReq \in Nat
  BY ConstantsAssumption
<1>2. Cardinality(U) \in Nat /\ Cardinality(U) <= MaxReq
  BY CardOf
<1>3. in_flight.count + d = Cardinality(U)
  BY DEF IsAccount
<1>4. Cardinality(U) \in 0..(CountSize - 1)
  BY <1>1, <1>2
<1>5. Cardinality(U) % CountSize = Cardinality(U) /\ Cardinality(U) \div CountSize = 0
  BY <1>1, <1>4, ModSmall
<1>6. /\ in_flight'.count = Cardinality(U)
      /\ in_flight'.lat = (in_flight.lat + e + 0) % LatSize
  BY <1>3, <1>5 DEF Account
<1>7. in_flight.lat \in Int
  BY <1>1
<1>8. in_flight'.lat = ((a.lat % LatSize) + e) % LatSize
  BY <1>6, <1>7
<1>9. in_flight'.lat = (a.lat + e) % LatSize
  BY <1>1, <1>8, ModAdd
<1>10. QED
  BY <1>6, <1>9 DEF IsAccount

\* Every step preserves it, as long as no request is given back.
LEMMA NextAccountOK ==
  ASSUME QInv, QInv', AccountOK, [Next]_vars, \A r \in Requests : ~Requeue(r),
         MaxReq < CountSize
  PROVE  AccountOK'
<1>1. /\ Preds \in [Requests -> Nat] /\ Preds' \in [Requests -> Nat]
      /\ \A r \in Requests : Preds[r] = rq[r].pred /\ Preds'[r] = rq'[r].pred
  BY DEF QInv, IInv, RqOK, RqType, Preds
<1>2. /\ Counted \subseteq Requests /\ \A r \in Counted : Preds'[r] = Preds[r]
      /\ Counted' \subseteq Requests
      /\ in_flight \in [count : 0..(CountSize - 1), lat : 0..(LatSize - 1)]
  BY CountedInserted, PredsKept DEF QInv, IInv, PqOK, Counted
<1>3. PICK f, g, S, U : f = Preds /\ g = Preds' /\ S = Counted /\ U = Counted'
  OBVIOUS
<1>4. /\ f \in [Requests -> Nat] /\ g \in [Requests -> Nat] /\ S \subseteq Requests
      /\ U \subseteq Requests /\ \A q \in S : g[q] = f[q]
  BY <1>1, <1>2, <1>3
<1>5. PICK a : a = [count |-> Cardinality(S), lat |-> SumFunctionOnSet(f, S)]
  OBVIOUS
<1>6. /\ IsAccount(a, f, S) /\ a \in [count : Int, lat : Int]
      /\ in_flight.count = a.count /\ in_flight.lat = a.lat % LatSize
  <2>1. Cardinality(S) \in Nat /\ SumFunctionOnSet(f, S) \in Nat
    <3>1. Cardinality(S) \in Nat
      BY <1>4, CardOf
    <3>2. {} \subseteq Requests /\ S \cap {} = {}
      OBVIOUS
    <3>3. SumFunctionOnSet(f, S) \in Nat
      BY <1>4, <3>2, SumsAdd
    <3>4. QED
      BY <3>1, <3>3
  <2>2. QED
    BY <1>3, <1>5, <2>1 DEF AccountOK, IsAccount
<1>7. SUFFICES /\ in_flight'.count = Cardinality(U)
               /\ in_flight'.lat = SumFunctionOnSet(g, U) % LatSize
  BY <1>3, NextFillAccount DEF AccountOK
<1>8. ASSUME NEW d \in Int, NEW e \in Int, in_flight' = Account(d, e),
             IsAccount([count |-> a.count + d, lat |-> a.lat + e], g, U)
      PROVE  /\ in_flight'.count = Cardinality(U)
             /\ in_flight'.lat = SumFunctionOnSet(g, U) % LatSize
  <2>1. PICK b : b = [count |-> a.count + d, lat |-> a.lat + e]
    OBVIOUS
  <2>2. b.count = a.count + d /\ b.lat = a.lat + e /\ IsAccount(b, g, U)
    BY <1>8, <2>1
  <2>3. QED
    BY <1>2, <1>4, <1>6, <1>8, <2>2, AccountPlain
<1>9. CASE SameCounted
  <2>1. S = U /\ UNCHANGED in_flight
    BY <1>3, <1>9 DEF SameCounted
  <2>2. SumFunctionOnSet(g, S) = SumFunctionOnSet(f, S)
    BY <1>4, SumsKept
  <2>3. QED
    BY <1>6, <2>1, <2>2 DEF IsAccount
<1>10. ASSUME NEW r \in Requests \ Counted, Joins(r)
       PROVE  /\ in_flight'.count = Cardinality(U)
              /\ in_flight'.lat = SumFunctionOnSet(g, U) % LatSize
  <2>1. /\ r \in Requests \ S /\ U = S \cup {r} /\ in_flight' = Account(1, g[r])
        /\ g[r] \in Int /\ 1 \in Int
    BY <1>1, <1>3, <1>10 DEF Joins
  <2>2. PICK b : b = [count |-> a.count + 1, lat |-> a.lat + g[r]]
    OBVIOUS
  <2>3. b.count = a.count + 1 /\ b.lat = a.lat + g[r]
    BY <2>2
  <2>4. IsAccount(b, g, S \cup {r})
    BY ONLY <1>4, <1>6, <2>1, <2>3, AccountJoin
  <2>5. QED
    BY <1>8, <2>1, <2>2, <2>4
<1>11. ASSUME NEW r \in Counted, Leaves(r)
       PROVE  /\ in_flight'.count = Cardinality(U)
              /\ in_flight'.lat = SumFunctionOnSet(g, U) % LatSize
  <2>1. /\ r \in S /\ U = S \ {r} /\ in_flight' = Account(-1, -f[r])
        /\ -f[r] \in Int /\ -1 \in Int
    BY <1>1, <1>2, <1>3, <1>11 DEF Leaves
  <2>2. PICK b : b = [count |-> a.count + (-1), lat |-> a.lat + (-f[r])]
    OBVIOUS
  <2>3. b.count = a.count + (-1) /\ b.lat = a.lat + (-f[r])
    BY <2>2
  <2>4. IsAccount(b, g, S \ {r})
    BY ONLY <1>4, <1>6, <2>1, <2>3, AccountLeave
  <2>5. QED
    BY <1>8, <2>1, <2>2, <2>4
<1>12. ASSUME NEW c \in CPUs, PageStep(c)
       PROVE  /\ in_flight'.count = Cardinality(U)
              /\ in_flight'.lat = SumFunctionOnSet(g, U) % LatSize
  <2>1. PICK p \in Bit : p = 1 - bq_page
    BY DEF QInv, IInv, PageOK, Bit
  <2>2. CASE /\ bq_lock # NoOne /\ Counted' = Counted \cup InBatch(p)
             /\ in_flight' = Account(fill.count % CountSize, fill.added)
    <3>1. PICK T : T = InBatch(p)
      OBVIOUS
    <3>2. /\ T \subseteq Requests /\ S \cap T = {} /\ \A r \in T : g[r] = f[r]
          /\ U = S \cup T
      <4>1. InBatch(p) \subseteq Requests /\ \A r \in InBatch(p) : Preds'[r] = Preds[r]
        BY CountedInserted, PredsKept
      <4>2. InBatch(p) \cap Counted = {}
        BY <2>1, <2>2, FillOutside
      <4>3. QED
        BY <1>3, <2>2, <3>1, <4>1, <4>2
    <3>3. SumFunctionOnSet(g, T) = SumFunctionOnSet(f, T)
      BY <1>4, <3>2, SumsKept
    <3>4. PICK d, e : d = Cardinality(T) /\ e = SumFunctionOnSet(g, T)
      OBVIOUS
    <3>5. fill.count = d /\ fill.added = e
      BY <1>3, <2>1, <2>2, <3>1, <3>3, <3>4 DEF AccountOK
    <3>6. d \in 0..(CountSize - 1) /\ e \in Int
      <4>1. d \in Nat /\ d <= MaxReq
        BY <3>2, <3>4, CardOf
      <4>2. e \in Int
        BY <3>5 DEF QInv, IInv, FillOK
      <4>3. QED
        BY <4>1, <4>2, ConstantsAssumption
    <3>7. d % CountSize = d /\ d \in Int
      <4>1. CountSize \in Nat \ {0}
        BY ConstantsAssumption
      <4>2. QED
        BY <3>6, <4>1
    <3>8. in_flight' = Account(d, e)
      BY <2>2, <3>5, <3>7
    <3>9. PICK b : b = [count |-> a.count + d, lat |-> a.lat + e]
      OBVIOUS
    <3>10. b.count = a.count + Cardinality(T) /\ b.lat = a.lat + SumFunctionOnSet(g, T)
      BY <3>4, <3>9
    <3>11. IsAccount(b, g, S \cup T)
      BY ONLY <1>4, <1>6, <3>2, <3>10, AccountUnion
    <3>12. QED
      BY <1>8, <3>2, <3>6, <3>7, <3>8, <3>9, <3>11
  <2>3. QED
    BY <1>9, <1>12, <2>1, <2>2, PageStepCounts
<1>13. QED
  BY <1>9, <1>10, <1>11, <1>12, QuietCounts

\* Where nothing is given back, nothing is given back later.
NoneGivenBack == budget.requeues = 0

\* The invariant behind the theorem below.
AInv == QInv /\ AccountOK /\ NoneGivenBack

\* It holds of a new scheduler.
LEMMA InitAInv ==
  ASSUME MaxRequeues = 0,
         NEW stable \in BOOLEAN, NEW bases \in [OpTypes -> Nat], InitWith(stable, bases)
  PROVE  AInv
<1>1. QInv
  BY InitQInv
<1>2. /\ \A p \in Bit, o \in OpTypes : batch_queue[p][o] = <<>>
      /\ \A i \in Bit : prio_queue[i] = <<>>
      /\ \A r \in Requests : rq[r].status = "new"
      /\ bq_lock = NoOne /\ in_flight = [count |-> 0, lat |-> 0] /\ budget.requeues = 0
  BY DEF InitWith
<1>3. \A x : x \notin ToSet(<<>>)
  BY DEF ToSet
<1>4. Counted = {}
  BY <1>2, <1>3 DEF Counted
<1>5. Cardinality(Counted) = 0 /\ SumFunctionOnSet(Preds, Counted) = 0
  BY <1>4, SumOfNone, FS_EmptySet
<1>6. 0 % LatSize = 0
  BY ModSmall, ConstantsAssumption
<1>7. QED
  BY <1>1, <1>2, <1>5, <1>6 DEF AInv, AccountOK, NoneGivenBack

\* Every step preserves it.
LEMMA NextAInv ==
  ASSUME AInv, [Next]_vars, MaxReq < CountSize
  PROVE  AInv'
<1>1. QInv'
  BY NextQInv DEF AInv
<1>2. \A r \in Requests : ~Requeue(r)
  BY DEF AInv, NoneGivenBack, Requeue
<1>3. AccountOK'
  BY <1>1, <1>2, NextAccountOK DEF AInv
<1>4. budget'.requeues = budget.requeues
  BY <1>2, RequeuesKept DEF AInv
<1>5. QED
  BY <1>1, <1>3, <1>4 DEF AInv, NoneGivenBack

\* While the driver gives no request back, and fewer requests come than the
\* count has values, ad->in_flight_rqs is exactly the number and, as far as its
\* bits go, the summed predicted latency of the requests in flight: no
\* interleaving of the insertions, the barrier's releases, the ends of fills
\* and the completions, each of which adds or subtracts without a lock of its
\* own, loses or repeats a latency, or carries from the count into it.
THEOREM InFlightStaysExact ==
  MaxRequeues = 0 /\ MaxReq < CountSize => (Spec \/ WarmSpec => []InFlightExact)
<1> SUFFICES ASSUME MaxRequeues = 0, MaxReq < CountSize
             PROVE  Spec \/ WarmSpec => []InFlightExact
  OBVIOUS
<1>1. Init => AInv
  BY InitAInv DEF Init
<1>2. WarmInit => AInv
  <2> SUFFICES ASSUME NEW b \in Bases \ {0},
                      InitWith(TRUE, [o \in OpTypes |-> IF o = 3 THEN 0 ELSE b])
               PROVE  AInv
    BY DEF WarmInit
  <2>1. [o \in OpTypes |-> IF o = 3 THEN 0 ELSE b] \in [OpTypes -> Nat]
    BY ConstantsAssumption
  <2>2. QED
    BY <2>1, InitAInv
<1>3. AInv /\ [Next]_vars => AInv'
  BY NextAInv
<1>4. AInv => InFlightExact
  <2> SUFFICES ASSUME AInv PROVE InFlightExact
    OBVIOUS
  <2>1. InFlight = Counted /\ Counted \subseteq Requests /\ RqOK
    BY InFlightCounted, CountedInserted DEF AInv, QInv, IInv
  <2>2. SumFunctionOnSet([r \in Requests |-> rq[r].pred], InFlight)
        = SumFunctionOnSet(Preds, InFlight)
    BY DEF Preds
  <2>3. in_flight \in [count : 0..(CountSize - 1), lat : 0..(LatSize - 1)]
    BY DEF AInv, QInv, IInv, PqOK
  <2>4. /\ in_flight.count = Cardinality(InFlight)
        /\ in_flight.lat = SumFunctionOnSet(Preds, InFlight) % LatSize
    BY <2>1 DEF AInv, AccountOK
  <2>5. in_flight = [count |-> in_flight.count, lat |-> in_flight.lat]
    BY <2>3
  <2>6. QED
    BY <2>2, <2>4, <2>5 DEF InFlightExact
<1>5. QED
  BY <1>1, <1>2, <1>3, <1>4, PTL DEF Spec, WarmSpec
===========================================================================
