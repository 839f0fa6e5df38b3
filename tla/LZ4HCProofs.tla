----------------------------- MODULE LZ4HCProofs -----------------------------
(***************************************************************************)
(* Proofs about the high compression mode of lib/lz4/lz4hc.c.              *)
(***************************************************************************)
EXTENDS LZ4HCSession, LZ4CommonProofs

---------------------------------------------------------------------------
(* The inductive invariant.                                                *)

\* The words that are hashed; a byte outside the text may be among them.
Words4 == [1..4 -> Byte \cup {Outside}]
Words7 == [1..7 -> Byte \cup {Outside}]

\* A hash is an entry of its table, as LZ4HC_hashPtr and LZ4MID_hash8 shift it.
HashesInTable ==
  /\ \A w \in Words4 : LZ4HC_hash(w) \in 0..LZ4HC_HASHTABLESIZE - 1
  /\ \A w \in Words7 : LZ4MID_hash7(w) \in 0..LZ4MID_HASHTABLESIZE - 1

\* A state with an attached dictionary of d.
StateWith(d) ==
  [hashTable : [0..LZ4HC_HASHTABLESIZE - 1 -> Nat], chainTable : [0..KB64 - 1 -> 0..KB64 - 1],
   end : Int, prefixStart : Int, dictStart : Int, dictLimit : Nat, lowLimit : Nat,
   nextToUpdate : Nat, compressionLevel : 1..LZ4HC_CLEVEL_MAX, favorDecSpeed : BOOLEAN,
   dirty : BOOLEAN, dictCtx : d]

DictState   == StateWith({NoDictCtx})
StreamState == StateWith({NoDictCtx} \cup DictState)

\* The segments of the history are in order, and the tables are filled from
\* the beginning of the prefix, up to its end at most.
Ordered(c) ==
  /\ c.lowLimit <= c.dictLimit /\ c.prefixStart <= c.end
  /\ c.nextToUpdate <= EndIndex(c)
  /\ c.prefixStart # NULL => c.dictLimit <= c.nextToUpdate

StateOK(c) == c \in StreamState /\ Ordered(c) /\ (c.dictCtx # NoDictCtx => Ordered(c.dictCtx))

CallTyped ==
  /\ call.source \in Nat /\ call.size \in Int /\ call.capacity \in Int
  /\ call.output \in Outputs
  /\ call.nbSearches \in Nat /\ call.targetLength \in Nat

\* The labels a search is for.
Purposes == {"found1", "found2", "found3", "mid_found", "opt_first", "opt_found"}

Labels ==
  {"idle", "mid", "mid_found", "mid_encode", "hc", "found1", "search2", "found2", "search3",
   "found3", "encode2", "opt_alloc", "opt", "opt_first", "opt_next", "opt_found", "opt_encode",
   "search", "search_dict", "last_literals"}

\* A match, and a search.
Matches == [at : Nat, len : Nat, off : Int]
Searches ==
  [at : Nat, low : Nat, longest : Nat, off : Int, back : Nat, index : Int, left : Int,
   chainPos : Nat, label : Labels]

Typed ==
  /\ text \in Seq(Byte) /\ StateOK(hc) /\ CallTyped /\ find \in Searches
  /\ ip \in Nat /\ anchor \in Nat /\ out \in Seq(Byte) /\ reach \in Nat /\ inputConsumed \in Int
  /\ pc \in Labels /\ result \in Nat

\* A call that goes on: its source is in the text, at the end of the prefix.
Accepted ==
  /\ call.size \in 0..LZ4_MAX_INPUT_SIZE /\ iend <= Len(text)
  /\ hc.end = iend /\ hc.prefixStart <= source
  /\ call.usingDictCtx => hc.dictCtx # NoDictCtx
  /\ ~limited => call.capacity >= LZ4_compressBound(call.size)
  /\ filling => call.capacity >= 1
  /\ source <= anchor /\ anchor <= ip /\ anchor <= iend
  /\ inputConsumed \in Nat

RoomLeft ==
  /\ op <= reach /\ reach <= MaxOf(0, call.capacity)
  /\ pc # "idle" =>
       /\ ~limited => op <= Bound(anchor - source)
       /\ filling => op + 1 <= call.capacity

\* What is being found, or has been found just now.
For(label) == pc = label \/ (pc \in {"search", "search_dict"} /\ find.label = label)

\* A match that can be encoded next.
Valid(m) ==
  /\ m \in Matches
  /\ anchor <= m.at /\ MINMATCH <= m.len /\ EndOf(m) <= matchlimit

\* A search finds what is longer than this.
Initial ==
  IF For("found2") THEN m1.len
  ELSE IF For("found3") THEN m2.len
  ELSE IF For("opt_found") /\ ~call.fullUpdate THEN last_match_pos - cur
  ELSE MINMATCH - 1

SearchOK ==
  /\ pc \in {"search", "search_dict"} =>
       /\ find.label \in Purposes /\ (find.label = "mid_found" => pc = "search_dict")
       /\ pc = "search_dict" => call.usingDictCtx
       /\ find.longest > 0
  /\ For("found1") \/ For("mid_found") \/ For("opt_first") => find.low = ip /\ find.at = ip
  /\ For("found2") /\ find.longest > 0 => find.low = m1.at /\ find.at = EndOf(m1) - 2
  /\ For("found3") /\ find.longest > 0 => find.low = m2.at /\ find.at = EndOf(m2) - 3
  /\ For("opt_found") => find.low = ip + cur /\ find.at = ip + cur
  /\ (\E l \in Purposes : For(l)) /\ find.longest > 0 =>
       /\ find.low <= find.at /\ find.at <= mflimit
       /\ find.back <= find.at - find.low
       /\ find.longest > Initial =>
            find.at - find.back + find.longest \in find.at + MINMATCH..matchlimit

ChainOK ==
  /\ pc = "mid_encode" => Valid(m1) /\ m1.at \in ip..ip + 1 /\ ip <= mflimit
  /\ pc = "search2" \/ For("found2") =>
       /\ Valid(m0) /\ Valid(m1)
       /\ m1.at - m0.at \in 0..2 /\ (m0.at < m1.at => m1.len >= 5)
  /\ pc = "search3" \/ For("found3") =>
       /\ Valid(m1) /\ Valid(m2)
       /\ EndOf(m2) >= m1.at + 8 /\ m2.at >= m1.at
       /\ m2.at <= EndOf(m1) \/ (m2.at = EndOf(m1) + 1 /\ m2.len >= 6)
  /\ For("found3") => m2.at - m1.at >= 4
  /\ pc = "encode2" => Valid(m2)

PlanOK ==
  /\ pc = "opt_next" \/ For("opt_found") =>
       /\ last_match_pos \in 1..LZ4_OPT_NUM - 1 /\ cur \in 1..last_match_pos
       /\ 0..last_match_pos + TRAILING_LITERALS \subseteq DOMAIN opt
       /\ DOMAIN opt \subseteq 0..LZ4_OPT_NUM + TRAILING_LITERALS - 1
       /\ \A p \in DOMAIN opt \ {0} :
            /\ opt[p].mlen \in 1..p /\ opt[p].off \in Int
            /\ opt[p].mlen = 1 \/ (opt[p].mlen >= MINMATCH /\ ip + p <= matchlimit)
  /\ For("opt_found") => cur < last_match_pos
  /\ pc = "opt_encode" =>
       /\ plan \in Seq(Matches)
       /\ plan # <<>> => plan[1].at = ip
       /\ \A i \in 1..Len(plan) - 1 : plan[i + 1].at = EndOf(plan[i])
       /\ \A i \in 1..Len(plan) :
            plan[i].len = 1 \/ (plan[i].len >= MINMATCH /\ EndOf(plan[i]) <= matchlimit)

Filled == pc = "idle" /\ result > 0 => FillsUp /\ inputConsumed \in Nat

HCInv ==
  /\ Typed /\ RoomLeft /\ Filled
  /\ pc # "idle" => Accepted /\ SearchOK /\ ChainOK /\ PlanOK

\* The text of the next block is in place.
SessionOK ==
  /\ due.fn \in {"none", "loaded", "attached", "continue", "destSize"}
  /\ next \in Nat /\ calls \in Nat
  /\ OfStream => session \in UNION {Sessions[i] : i \in DOMAIN Sessions} /\ Len(text) = BufferAt + session.size
  /\ due # NoCall => OfStream /\ pc = "idle"
  /\ due.fn \in {"continue", "destSize"} =>
       /\ due.at \in Nat /\ due.size \in Nat /\ due.level \in Int /\ due.capacity \in Int
       /\ due.at + due.size <= session.size
  /\ OfStream /\ d_pc # "idle" => BufferAt <= source
  /\ d_pc \notin {"idle", "due"} => pc = "idle" /\ result > 0
  /\ OfStream =>
       IF hc.prefixStart = NULL THEN hc.end = NULL
       ELSE 0 <= hc.prefixStart /\ hc.end <= Len(text)

---------------------------------------------------------------------------
(* Folds and recursive functions.                                          *)

\* The greatest of the first naturals is the last one that is there.
LEMMA MaxIsLast ==
  ASSUME NEW k \in Nat, NEW s \in SUBSET (1..k + 1), k + 1 \in s
  PROVE  Max(s) = k + 1
<1>1. \A y \in s : k + 1 >= y
  OBVIOUS
<1>2. \A x \in s : (\A y \in s : x >= y) => x = k + 1
  OBVIOUS
<1> QED
  BY <1>1, <1>2 DEF Max

\* It is one of them.
LEMMA MaxIsOne ==
  ASSUME NEW k \in Nat, NEW s \in SUBSET (1..k), s # {}
  PROVE  Max(s) \in s
<1>1. PICK n \in s : TRUE
  OBVIOUS
<1>2. s \subseteq 0..k
  OBVIOUS
<1>3. PICK x \in s : \A y \in s : y <= x
  BY <1>2, GreatestExists
<1>4. \A y \in s : x >= y
  BY <1>3
<1> QED
  BY <1>4 DEF Max

\* A fold of g over the numbers up to n.
Folds(it, n, base, g) ==
  it = [s \in SUBSET (1..n) |-> IF s = {} THEN base ELSE g[<<Max(s), it[s \ {Max(s)}]>>]]

\* There is one, and it stays in the set g maps to.
LEMMA FoldExists ==
  ASSUME NEW n \in Nat, NEW G, NEW base \in G, NEW g \in [(1..n) \X G -> G]
  PROVE  \E it \in [SUBSET (1..n) -> G] : Folds(it, n, base, g)
<1> DEFINE P(k) == \E it \in [SUBSET (1..k) -> G] : Folds(it, k, base, g)
           Bad  == {k \in 0..n : ~P(k)}
<1> SUFFICES ASSUME Bad # {} PROVE FALSE
  <2>1. n \in 0..n
    OBVIOUS
  <2> QED
    BY <2>1
<1>1. Bad \subseteq Nat
  OBVIOUS
<1>2. PICK k \in Bad : \A j \in Bad : k <= j
  <2>1. PICK b : b \in Bad
    OBVIOUS
  <2> HIDE DEF Bad
  <2> QED
    BY <1>1, <2>1, LeastExists
<1> HIDE DEF P
<1>3. k \in 0..n /\ ~P(k)
  OBVIOUS
<1>4. \A j \in 0..n : j < k => P(j)
  <2>1. \A j \in 0..n : j \notin Bad => P(j)
    OBVIOUS
  <2>2. \A j \in 0..n : j < k => j \notin Bad
    <3> HIDE DEF Bad
    <3> QED
      BY <1>1, <1>2
  <2> QED
    BY <2>1, <2>2
<1> HIDE DEF Bad
<1> USE DEF P
<1>5. ASSUME NEW z \in Nat, z = 0 PROVE P(z)
  <2> DEFINE it == [s \in SUBSET (1..z) |-> base]
  <2>1. it \in [SUBSET (1..z) -> G]
    OBVIOUS
  <2>2. \A s \in SUBSET (1..z) : s = {}
    BY <1>5
  <2>3. Folds(it, z, base, g)
    BY <2>2 DEF Folds
  <2> HIDE DEF it
  <2> QED
    BY <2>1, <2>3
<1>6. CASE k # 0
  <2>1. PICK j \in Nat : k = j + 1 /\ j \in 0..n /\ j < k /\ k \in 1..n
    <3>1. k - 1 \in Nat /\ k = (k - 1) + 1 /\ k - 1 \in 0..n /\ k - 1 < k /\ k \in 1..n
      BY <1>3, <1>6
    <3> QED
      BY <3>1
  <2>2. PICK f \in [SUBSET (1..j) -> G] : Folds(f, j, base, g)
    BY <1>4, <2>1
  <2> DEFINE it == [s \in SUBSET (1..k) |-> IF k \in s THEN g[<<k, f[s \ {k}]>>] ELSE f[s]]
  <2>3. \A s \in SUBSET (1..k) : s \ {k} \in SUBSET (1..j) /\ (k \notin s => s \in SUBSET (1..j))
    BY <2>1
  <2>4. \A s \in SUBSET (1..k) : f[s \ {k}] \in G /\ (k \notin s => f[s] \in G)
    BY <2>3
  <2>5. it \in [SUBSET (1..k) -> G]
    <3>1. \A s \in SUBSET (1..k) : <<k, f[s \ {k}]>> \in (1..n) \X G
      BY <2>1, <2>4
    <3>2. \A s \in SUBSET (1..k) : (IF k \in s THEN g[<<k, f[s \ {k}]>>] ELSE f[s]) \in G
      BY <2>4, <3>1
    <3> QED
      BY <3>2
  <2>6. \A s \in SUBSET (1..k) : it[s] = IF s = {} THEN base ELSE g[<<Max(s), it[s \ {Max(s)}]>>]
    <3> SUFFICES ASSUME NEW s \in SUBSET (1..k)
                 PROVE  it[s] = IF s = {} THEN base ELSE g[<<Max(s), it[s \ {Max(s)}]>>]
      OBVIOUS
    <3>1. CASE k \in s
      <4>1. Max(s) = k
        BY <2>1, <3>1, MaxIsLast
      <4>2. s \ {k} \in SUBSET (1..k) /\ k \notin s \ {k}
        OBVIOUS
      <4>3. it[s \ {k}] = f[(s \ {k})]
        BY <4>2
      <4>4. it[s] = g[<<k, f[s \ {k}]>>]
        BY <3>1
      <4> HIDE DEF it
      <4> QED
        BY <3>1, <4>1, <4>3, <4>4
    <3>2. CASE k \notin s
      <4>1. s \in SUBSET (1..j) /\ it[s] = f[s]
        BY <2>3, <3>2
      <4>2. f[s] = IF s = {} THEN base ELSE g[<<Max(s), f[s \ {Max(s)}]>>]
        BY <2>2, <4>1 DEF Folds
      <4>3. it[s \ {Max(s)}] = f[s \ {Max(s)}]
        BY <3>2
      <4> HIDE DEF it
      <4> QED
        BY <4>1, <4>2, <4>3
    <3> QED
      BY <3>1, <3>2
  <2>7. Folds(it, k, base, g)
    <3>1. it = [s \in SUBSET (1..k) |-> it[s]]
      OBVIOUS
    <3> HIDE DEF it
    <3> QED
      BY <2>6, <3>1 DEF Folds
  <2> HIDE DEF it
  <2> QED
    BY <1>3, <2>5, <2>7
<1>7. CASE k = 0
  BY <1>3, <1>5, <1>7
<1> QED
  BY <1>6, <1>7

\* Every fold whose steps stay in a set stays in it.
LEMMA FoldType ==
  ASSUME NEW n \in Nat, NEW G, NEW it,
         \A s \in SUBSET (1..n) :
           IF s = {} THEN it[s] \in G ELSE it[s \ {Max(s)}] \in G => it[s] \in G
  PROVE  it[1..n] \in G
<1> DEFINE Bad == {k \in 0..n : \E s \in SUBSET (1..k) : it[s] \notin G}
<1>1. \A s \in SUBSET (1..n) :
        IF s = {} THEN it[s] \in G ELSE it[s \ {Max(s)}] \in G => it[s] \in G
  OBVIOUS
<1>2. Bad \subseteq Nat
  OBVIOUS
<1>3. CASE Bad = {}
  <2>1. n \in 0..n /\ 1..n \in SUBSET (1..n)
    OBVIOUS
  <2> QED
    BY <1>3, <2>1
<1>4. CASE Bad # {}
  <2>1. PICK k \in Bad : \A j \in Bad : k <= j
    <3>1. PICK b : b \in Bad
      BY <1>4
    <3> HIDE DEF Bad
    <3> QED
      BY <1>2, <3>1, LeastExists
  <2>2. PICK s \in SUBSET (1..k) : it[s] \notin G
    OBVIOUS
  <2>3. k \in 0..n /\ s \in SUBSET (1..n)
    OBVIOUS
  <2>9. \A j \in 0..n : j \notin Bad => \A t \in SUBSET (1..j) : it[t] \in G
    OBVIOUS
  <2> HIDE DEF Bad
  <2>4. s # {}
    BY <1>1, <2>2, <2>3
  <2>5. Max(s) \in s
    BY <2>3, <2>4, MaxIsOne
  <2>6. PICK m \in 1..n : m = Max(s) /\ m \in 1..k
    BY <2>3, <2>5
  <2>7. it[s \ {m}] \in G
    <3>1. CASE k \in s
      <4>1. PICK j \in Nat : k = j + 1 /\ j \in 0..n /\ j < k
        <5>1. k - 1 \in Nat /\ k = (k - 1) + 1 /\ k - 1 \in 0..n /\ k - 1 < k
          BY <2>3, <3>1
        <5> QED
          BY <5>1
      <4>2. m = k
        BY <2>6, <3>1, <4>1, MaxIsLast
      <4>3. s \ {m} \in SUBSET (1..j)
        BY <4>1, <4>2
      <4>4. j \notin Bad
        BY <2>1, <4>1
      <4> QED
        BY <2>9, <4>1, <4>3, <4>4
    <3>2. CASE k \notin s
      <4>1. PICK j \in Nat : k = j + 1 /\ j \in 0..n /\ j < k
        <5>1. k - 1 \in Nat /\ k = (k - 1) + 1 /\ k - 1 \in 0..n /\ k - 1 < k
          BY <2>3, <2>6
        <5> QED
          BY <5>1
      <4>2. s \ {m} \in SUBSET (1..j)
        BY <4>1, <3>2
      <4>3. j \notin Bad
        BY <2>1, <4>1
      <4> QED
        BY <2>9, <4>1, <4>2, <4>3
    <3> QED
      BY <3>1, <3>2
  <2> QED
    BY <1>1, <2>2, <2>3, <2>4, <2>6, <2>7
<1> QED
  BY <1>3, <1>4

\* The tables a state may have.
HashTables  == [0..LZ4HC_HASHTABLESIZE - 1 -> Nat]
ChainTables == [0..KB64 - 1 -> 0..KB64 - 1]

\* The constants are numbers, the chain a table of 64 KB entries.
LEMMA Constants ==
  /\ LZ4_DISTANCE_MAX \in Nat /\ LZ4_DISTANCE_MAX >= MFLIMIT /\ KB64 \in Nat
  /\ KB64 = LZ4_DISTANCE_MAX + 1
  /\ LZ4HC_HASHTABLESIZE \in Nat /\ LZ4MID_HASHTABLESIZE \in Nat
  /\ LZ4HC_HASHTABLESIZE = 2 * LZ4MID_HASHTABLESIZE /\ LZ4MID_HASHTABLESIZE > 0
  /\ LZ4_OPT_NUM \in Nat /\ LZ4_OPT_NUM >= 20
  /\ FourKB \in Nat /\ ThirtyTwoKB \in Nat /\ OneGB \in Nat /\ TwoGB \in Nat
<1>1. LZ4_DISTANCE_MAX \in Nat /\ LZ4_DISTANCE_MAX >= MFLIMIT
  BY DistanceAssumption, SMTT(20) DEF MFLIMIT
<1>2. PICK k \in 1..16384 : LZ4HC_HASHTABLESIZE = 2 * k
  BY SearchAssumption
<1>3. (2 * k) \div 2 = k
  OBVIOUS
<1>4. LZ4MID_HASHTABLESIZE = k
  BY <1>2, <1>3 DEF LZ4MID_HASHTABLESIZE
<1>5. FourKB \in Nat /\ ThirtyTwoKB \in Nat /\ OneGB \in Nat /\ TwoGB \in Nat /\ LZ4_OPT_NUM \in Nat /\ LZ4_OPT_NUM >= 20
  BY SearchAssumption
<1> QED
  BY <1>1, <1>2, <1>4, <1>5 DEF KB64

\* An entry of a chain.
LEMMA DeltaType ==
  ASSUME NEW n
  PROVE  Delta(n) \in 0..KB64 - 1
<1>1. KB64 - 1 = LZ4_DISTANCE_MAX /\ LZ4_DISTANCE_MAX \in Nat
  BY Constants
<1> QED
  BY <1>1 DEF Delta

\* The fields of a state.
LEMMA StateFields ==
  ASSUME NEW c \in StreamState
  PROVE  /\ c.hashTable \in HashTables /\ c.chainTable \in ChainTables
         /\ c.end \in Int /\ c.prefixStart \in Int /\ c.dictStart \in Int
         /\ c.dictLimit \in Nat /\ c.lowLimit \in Nat /\ c.nextToUpdate \in Nat
         /\ c.compressionLevel \in 1..LZ4HC_CLEVEL_MAX
         /\ c.favorDecSpeed \in BOOLEAN /\ c.dirty \in BOOLEAN
         /\ c.dictCtx \in {NoDictCtx} \cup DictState
BY DEF StreamState, StateWith, HashTables, ChainTables

\* The state with the positions before p in its tables.
LEMMA InsertType ==
  ASSUME NEW c \in StreamState, NEW p \in Int
  PROVE  \E h \in HashTables, t \in ChainTables :
           LZ4HC_Insert(c, p) = [c EXCEPT !.hashTable = h, !.chainTable = t,
                                          !.nextToUpdate = IndexIn(c, p)]
<1> DEFINE G       == [hash : HashTables, chain : ChainTables]
           target  == IndexIn(c, p)
           first   == c.nextToUpdate
           N       == target - first
           slot(i) == LZ4HC_hashPtr(c.prefixStart + i - c.dictLimit)
           Add(t, i) == [hash  |-> [t.hash EXCEPT ![slot(i)] = i],
                         chain |-> [t.chain EXCEPT ![i % KB64] = Delta(i - t.hash[slot(i)])]]
           base    == [hash |-> c.hashTable, chain |-> c.chainTable]
           seq     == [k \in 1..N |-> first + k - 1]
           Is(it)  == it = [s \in SUBSET (DOMAIN seq) |->
                              IF s = {} THEN base ELSE Add(it[s \ {Max(s)}], seq[Max(s)])]
           it      == CHOOSE it : Is(it)
           tables  == it[DOMAIN seq]
<1>1. base \in G
  BY StateFields
<1>2. /\ c.prefixStart \in Int /\ c.dictLimit \in Nat /\ first \in Nat /\ N \in Int /\ target \in Int
  BY StateFields DEF IndexIn
<1>3. ASSUME NEW t \in G, NEW i \in Nat PROVE Add(t, i) \in G
  <2>1. PICK d : d = Delta(i - t.hash[slot(i)])
    OBVIOUS
  <2>2. d \in 0..KB64 - 1
    BY <2>1, DeltaType
  <2>3. [t.hash EXCEPT ![slot(i)] = i] \in HashTables
    <3>1. t.hash \in HashTables
      OBVIOUS
    <3>2. PICK x : x = slot(i)
      OBVIOUS
    <3> HIDE DEF G, slot
    <3> QED
      BY <3>1, <3>2 DEF HashTables
  <2>4. [t.chain EXCEPT ![i % KB64] = d] \in ChainTables
    <3>1. t.chain \in ChainTables
      OBVIOUS
    <3>2. PICK x : x = i % KB64
      OBVIOUS
    <3> HIDE DEF G, slot
    <3> QED
      BY <3>1, <3>2, <2>2 DEF ChainTables
  <2> QED
    BY <2>1, <2>3, <2>4
<1>4. LZ4HC_Insert(c, p) = [c EXCEPT !.hashTable = tables.hash, !.chainTable = tables.chain,
                                     !.nextToUpdate = target]
  BY DEF LZ4HC_Insert, FoldLeft, MapThenFoldSet
<1> HIDE DEF Add, base, G
<1>5. PICK n \in Nat : 1..N = 1..n
  <2>1. CASE N >= 0
    BY <1>2, <2>1
  <2>2. CASE N < 0
    BY <1>2, <2>2, 1..0 = 1..N
  <2> QED
    BY <1>2, <2>1, <2>2
<1>6. DOMAIN seq = 1..n /\ \A k \in 1..n : seq[k] \in Nat
  BY <1>2, <1>5
<1> HIDE DEF seq
<1>7. \E f : Is(f)
  <2> DEFINE g == [x \in (1..n) \X G |-> Add(x[2], seq[x[1]])]
  <2>1. g \in [(1..n) \X G -> G]
    BY <1>3, <1>6
  <2>2. PICK f \in [SUBSET (1..n) -> G] : Folds(f, n, base, g)
    <3> HIDE DEF g
    <3> QED
      BY <1>1, <2>1, FoldExists
  <2>3. ASSUME NEW s \in SUBSET (1..n), s # {}
        PROVE  g[<<Max(s), f[s \ {Max(s)}]>>] = Add(f[s \ {Max(s)}], seq[Max(s)])
    <3>1. Max(s) \in 1..n
      BY <2>3, MaxIsOne
    <3>2. PICK m \in 1..n : m = Max(s)
      BY <3>1
    <3>3. PICK u \in G : u = f[s \ {m}]
      OBVIOUS
    <3>4. g[<<m, u>>] = Add(u, seq[m])
      OBVIOUS
    <3> HIDE DEF g
    <3> QED
      BY <3>2, <3>3, <3>4
  <2> HIDE DEF g
  <2>4. Is(f)
    BY <1>6, <2>2, <2>3 DEF Folds
  <2> QED
    BY <2>4
<1>8. Is(it)
  <2> HIDE DEF Is
  <2> QED
    BY <1>7
<1>9. it[1..n] \in G
  <2>1. \A s \in SUBSET (1..n) :
          IF s = {} THEN it[s] \in G ELSE it[s \ {Max(s)}] \in G => it[s] \in G
    <3> SUFFICES ASSUME NEW s \in SUBSET (1..n)
                 PROVE  IF s = {} THEN it[s] \in G ELSE it[s \ {Max(s)}] \in G => it[s] \in G
      OBVIOUS
    <3> HIDE DEF it
    <3>1. it[s] = IF s = {} THEN base ELSE Add(it[s \ {Max(s)}], seq[Max(s)])
      BY <1>6, <1>8
    <3>2. CASE s = {}
      BY <1>1, <3>1, <3>2
    <3>3. CASE s # {}
      <4>1. seq[Max(s)] \in Nat
        BY <1>6, <3>3, MaxIsOne
      <4> QED
        BY <1>3, <3>1, <3>3, <4>1
    <3> QED
      BY <3>2, <3>3
  <2> HIDE DEF it
  <2> QED
    BY <2>1, FoldType
<1>10. tables.hash \in HashTables /\ tables.chain \in ChainTables
  <2>1. tables \in G
    BY <1>6, <1>9
  <2> HIDE DEF tables
  <2> QED
    BY <2>1 DEF G
<1> HIDE DEF tables, it, Is
<1> QED
  BY <1>4, <1>10

\* The numbers up to n, which may be below 1.
LEMMA NumbersUpTo ==
  ASSUME NEW N \in Int
  PROVE  \E n \in Nat : 1..N = 1..n
<1>1. CASE N >= 0
  BY <1>1
<1>2. CASE N < 0
  BY <1>2, 1..0 = 1..N
<1> QED
  BY <1>1, <1>2

\* A position put in a table.
LEMMA AddType ==
  ASSUME NEW t \in HashTables, NEW p, NEW i \in Nat
  PROVE  ADDPOS8(t, p, i) \in HashTables /\ ADDPOS4(t, p, i) \in HashTables
<1>1. PICK x, y : x = LZ4MID_hash8Ptr(p) /\ y = LZ4MID_hash4Ptr(p)
  OBVIOUS
<1> QED
  BY <1>1 DEF ADDPOS8, ADDPOS4, HashTables

\* One pass over the tables of level 2: every third position, for 4 bytes and
\* for 8, and then all of them from first on for 8.
CoarseStep(c, t, k) ==
  ADDPOS8(ADDPOS4(t, c.prefixStart + (c.nextToUpdate + 3 * (k - 1)) - c.dictLimit,
                  c.nextToUpdate + 3 * (k - 1)),
          c.prefixStart + (c.nextToUpdate + 3 * (k - 1) + 1) - c.dictLimit,
          c.nextToUpdate + 3 * (k - 1) + 1)
FineStep(c, first, t, k) ==
  ADDPOS8(t, c.prefixStart + (first + k - 1) - c.dictLimit, first + k - 1)

\* The table of level 2 with every third position of a prefix.
LEMMA CoarseType ==
  ASSUME NEW c \in StreamState, NEW base \in HashTables, NEW N \in Int
  PROVE  FoldLeft(LAMBDA t, k : CoarseStep(c, t, k), base, [k \in 1..N |-> k]) \in HashTables
<1> DEFINE G      == HashTables
           Add(t, k) == CoarseStep(c, t, k)
           seq    == [k \in 1..N |-> k]
           Is(it) == it = [s \in SUBSET (DOMAIN seq) |->
                             IF s = {} THEN base ELSE Add(it[s \ {Max(s)}], seq[Max(s)])]
           it     == CHOOSE it : Is(it)
<1>1. FoldLeft(LAMBDA t, k : CoarseStep(c, t, k), base, seq) = it[DOMAIN seq]
  BY DEF FoldLeft, MapThenFoldSet
<1>2. ASSUME NEW t \in G, NEW k \in Nat, k >= 1 PROVE Add(t, k) \in G
  <2>1. c.nextToUpdate \in Nat
    BY StateFields
  <2>2. PICK i \in Nat : i = c.nextToUpdate + 3 * (k - 1)
    BY <1>2, <2>1
  <2>3. \A p : ADDPOS4(t, p, i) \in G
    BY AddType
  <2>4. \A u \in G : \A p : ADDPOS8(u, p, i + 1) \in G
    BY AddType
  <2> QED
    BY <2>2, <2>3, <2>4 DEF CoarseStep
<1> HIDE DEF Add, G
<1>3. PICK n \in Nat : 1..N = 1..n
  BY NumbersUpTo
<1>4. DOMAIN seq = 1..n /\ \A k \in 1..n : seq[k] \in Nat /\ seq[k] >= 1
  BY <1>3
<1> HIDE DEF seq
<1>5. base \in G
  BY DEF G
<1>6. \E f : Is(f)
  <2> DEFINE g == [x \in (1..n) \X G |-> Add(x[2], seq[x[1]])]
  <2>1. g \in [(1..n) \X G -> G]
    BY <1>2, <1>4
  <2>2. PICK f \in [SUBSET (1..n) -> G] : Folds(f, n, base, g)
    <3> HIDE DEF g
    <3> QED
      BY <1>5, <2>1, FoldExists
  <2>3. ASSUME NEW s \in SUBSET (1..n), s # {}
        PROVE  g[<<Max(s), f[s \ {Max(s)}]>>] = Add(f[s \ {Max(s)}], seq[Max(s)])
    <3>1. PICK m \in 1..n : m = Max(s)
      BY <2>3, MaxIsOne
    <3>2. PICK u \in G : u = f[s \ {m}]
      OBVIOUS
    <3>3. g[<<m, u>>] = Add(u, seq[m])
      OBVIOUS
    <3> HIDE DEF g
    <3> QED
      BY <3>1, <3>2, <3>3
  <2> HIDE DEF g
  <2>4. Is(f)
    BY <1>4, <2>2, <2>3 DEF Folds
  <2> QED
    BY <2>4
<1>7. Is(it)
  <2> HIDE DEF Is
  <2> QED
    BY <1>6
<1>8. \A s \in SUBSET (1..n) :
        IF s = {} THEN it[s] \in G ELSE it[s \ {Max(s)}] \in G => it[s] \in G
  <2> SUFFICES ASSUME NEW s \in SUBSET (1..n)
               PROVE  IF s = {} THEN it[s] \in G ELSE it[s \ {Max(s)}] \in G => it[s] \in G
    OBVIOUS
  <2> HIDE DEF it
  <2>1. it[s] = IF s = {} THEN base ELSE Add(it[s \ {Max(s)}], seq[Max(s)])
    BY <1>4, <1>7
  <2>2. CASE s = {}
    BY <1>5, <2>1, <2>2
  <2>3. CASE s # {}
    <3>1. seq[Max(s)] \in Nat /\ seq[Max(s)] >= 1
      BY <1>4, <2>3, MaxIsOne
    <3> QED
      BY <1>2, <2>1, <2>3, <3>1
  <2> QED
    BY <2>2, <2>3
<1> HIDE DEF it, Is
<1>9. it[1..n] \in G
  BY <1>8, FoldType
<1> QED
  BY <1>1, <1>4, <1>9 DEF G, seq

\* And with all of them.
LEMMA FineType ==
  ASSUME NEW c \in StreamState, NEW first \in Nat, NEW base \in HashTables, NEW N \in Int
  PROVE  FoldLeft(LAMBDA t, k : FineStep(c, first, t, k), base, [k \in 1..N |-> k]) \in HashTables
<1> DEFINE G      == HashTables
           Add(t, k) == FineStep(c, first, t, k)
           seq    == [k \in 1..N |-> k]
           Is(it) == it = [s \in SUBSET (DOMAIN seq) |->
                             IF s = {} THEN base ELSE Add(it[s \ {Max(s)}], seq[Max(s)])]
           it     == CHOOSE it : Is(it)
<1>1. FoldLeft(LAMBDA t, k : FineStep(c, first, t, k), base, seq) = it[DOMAIN seq]
  BY DEF FoldLeft, MapThenFoldSet
<1>2. ASSUME NEW t \in G, NEW k \in Nat, k >= 1 PROVE Add(t, k) \in G
  <2>1. PICK i \in Nat : i = first + k - 1
    BY <1>2
  <2>2. \A p : ADDPOS8(t, p, i) \in G
    BY AddType
  <2> QED
    BY <2>1, <2>2 DEF FineStep
<1> HIDE DEF Add, G
<1>3. PICK n \in Nat : 1..N = 1..n
  BY NumbersUpTo
<1>4. DOMAIN seq = 1..n /\ \A k \in 1..n : seq[k] \in Nat /\ seq[k] >= 1
  BY <1>3
<1> HIDE DEF seq
<1>5. base \in G
  BY DEF G
<1>6. \E f : Is(f)
  <2> DEFINE g == [x \in (1..n) \X G |-> Add(x[2], seq[x[1]])]
  <2>1. g \in [(1..n) \X G -> G]
    BY <1>2, <1>4
  <2>2. PICK f \in [SUBSET (1..n) -> G] : Folds(f, n, base, g)
    <3> HIDE DEF g
    <3> QED
      BY <1>5, <2>1, FoldExists
  <2>3. ASSUME NEW s \in SUBSET (1..n), s # {}
        PROVE  g[<<Max(s), f[s \ {Max(s)}]>>] = Add(f[s \ {Max(s)}], seq[Max(s)])
    <3>1. PICK m \in 1..n : m = Max(s)
      BY <2>3, MaxIsOne
    <3>2. PICK u \in G : u = f[s \ {m}]
      OBVIOUS
    <3>3. g[<<m, u>>] = Add(u, seq[m])
      OBVIOUS
    <3> HIDE DEF g
    <3> QED
      BY <3>1, <3>2, <3>3
  <2> HIDE DEF g
  <2>4. Is(f)
    BY <1>4, <2>2, <2>3 DEF Folds
  <2> QED
    BY <2>4
<1>7. Is(it)
  <2> HIDE DEF Is
  <2> QED
    BY <1>6
<1>8. \A s \in SUBSET (1..n) :
        IF s = {} THEN it[s] \in G ELSE it[s \ {Max(s)}] \in G => it[s] \in G
  <2> SUFFICES ASSUME NEW s \in SUBSET (1..n)
               PROVE  IF s = {} THEN it[s] \in G ELSE it[s \ {Max(s)}] \in G => it[s] \in G
    OBVIOUS
  <2> HIDE DEF it
  <2>1. it[s] = IF s = {} THEN base ELSE Add(it[s \ {Max(s)}], seq[Max(s)])
    BY <1>4, <1>7
  <2>2. CASE s = {}
    BY <1>5, <2>1, <2>2
  <2>3. CASE s # {}
    <3>1. seq[Max(s)] \in Nat /\ seq[Max(s)] >= 1
      BY <1>4, <2>3, MaxIsOne
    <3> QED
      BY <1>2, <2>1, <2>3, <3>1
  <2> QED
    BY <2>2, <2>3
<1> HIDE DEF it, Is
<1>9. it[1..n] \in G
  BY <1>8, FoldType
<1> QED
  BY <1>1, <1>4, <1>9 DEF G, seq


\* The tables a state of level 2 has after a dictionary was loaded.
LEMMA FillType ==
  ASSUME NEW c \in StreamState
  PROVE  \/ LZ4MID_fillHTable(c) = c /\ PrefixSize(c) <= 8
         \/ /\ PrefixSize(c) > 8
            /\ \E h \in HashTables :
                 LZ4MID_fillHTable(c) = [c EXCEPT !.hashTable = h, !.nextToUpdate = EndIndex(c) - 8]
<1> DEFINE n == EndIndex(c) - 8 - c.nextToUpdate
           coarse == FoldLeft(LAMBDA t, k : CoarseStep(c, t, k), c.hashTable,
                              [k \in 1..(n + 2) \div 3 |-> k])
           target == EndIndex(c) - 8
           first  == IF PrefixSize(c) > ThirtyTwoKB + 8 THEN target - ThirtyTwoKB ELSE c.nextToUpdate
           fine   == FoldLeft(LAMBDA t, k : FineStep(c, first, t, k), coarse,
                              [k \in 1..target - first |-> k])
<1>1. n \in Int /\ (n + 2) \div 3 \in Int /\ c.hashTable \in HashTables /\ PrefixSize(c) \in Int
  BY StateFields DEF EndIndex, IndexIn, PrefixSize
<1>2. LZ4MID_fillHTable(c) =
        IF PrefixSize(c) <= 8 THEN c
        ELSE [c EXCEPT !.hashTable = fine, !.nextToUpdate = EndIndex(c) - 8]
  BY DEF LZ4MID_fillHTable, LZ4MID_HASHSIZE, CoarseStep, FineStep
<1>3. first \in Nat /\ target - first \in Int
  BY StateFields, Constants DEF EndIndex, IndexIn, PrefixSize
<1> HIDE DEF n, first, target
<1>4. coarse \in HashTables
  BY <1>1, CoarseType
<1> HIDE DEF coarse
<1>5. fine \in HashTables
  BY <1>4, <1>3, FineType
<1> HIDE DEF fine
<1>6. CASE PrefixSize(c) <= 8
  BY <1>2, <1>6
<1>7. CASE PrefixSize(c) > 8
  <2>1. LZ4MID_fillHTable(c) = [c EXCEPT !.hashTable = fine, !.nextToUpdate = EndIndex(c) - 8]
    BY <1>1, <1>2, <1>7
  <2> QED
    BY ONLY <1>5, <1>7, <2>1, Zenon
<1>8. PrefixSize(c) <= 8 \/ PrefixSize(c) > 8
  BY <1>1
<1> QED
  BY ONLY <1>6, <1>7, <1>8, Zenon

---------------------------------------------------------------------------
(* The functions on a state.                                               *)

\* What StateOK says, field by field.
LEMMA StateParts ==
  ASSUME NEW c, StateOK(c)
  PROVE  /\ c \in StreamState
         /\ c.hashTable \in HashTables /\ c.chainTable \in ChainTables
         /\ c.end \in Int /\ c.prefixStart \in Int /\ c.dictStart \in Int
         /\ c.dictLimit \in Nat /\ c.lowLimit \in Nat /\ c.nextToUpdate \in Nat
         /\ c.compressionLevel \in 1..LZ4HC_CLEVEL_MAX
         /\ c.favorDecSpeed \in BOOLEAN /\ c.dirty \in BOOLEAN
         /\ c.dictCtx = NoDictCtx \/ (c.dictCtx \in DictState /\ Ordered(c.dictCtx))
         /\ c.lowLimit <= c.dictLimit /\ c.prefixStart <= c.end
         /\ PrefixSize(c) \in Nat
         /\ EndIndex(c) \in Nat /\ EndIndex(c) = c.dictLimit + PrefixSize(c)
         /\ c.nextToUpdate <= EndIndex(c)
         /\ c.prefixStart # NULL => c.dictLimit <= c.nextToUpdate
<1>1. c \in StreamState
  BY DEF StateOK
<1>2. /\ c.lowLimit <= c.dictLimit /\ c.prefixStart <= c.end
      /\ c.nextToUpdate <= EndIndex(c)
      /\ c.prefixStart # NULL => c.dictLimit <= c.nextToUpdate
      /\ c.dictCtx # NoDictCtx => Ordered(c.dictCtx)
  BY DEF StateOK, Ordered
<1>3. /\ c.end \in Int /\ c.prefixStart \in Int /\ c.dictLimit \in Nat
      /\ c.dictCtx \in {NoDictCtx} \cup DictState
  BY <1>1, StateFields
<1>4. /\ PrefixSize(c) \in Nat
      /\ EndIndex(c) \in Nat /\ EndIndex(c) = c.dictLimit + PrefixSize(c)
  BY <1>2, <1>3 DEF PrefixSize, EndIndex, IndexIn
<1> QED
  BY <1>1, <1>2, <1>3, <1>4, StateFields

\* A state of no dictionary is one of a stream.
LEMMA DictIsState ==
  ASSUME NEW c \in DictState, Ordered(c)
  PROVE  StateOK(c) /\ c.dictCtx = NoDictCtx
<1>1. c \in StreamState /\ c.dictCtx = NoDictCtx
  BY DEF DictState, StreamState, StateWith
<1> QED
  BY <1>1 DEF StateOK

\* A state without a dictionary can be attached.
LEMMA StateIsDict ==
  ASSUME NEW c, StateOK(c), c.dictCtx = NoDictCtx
  PROVE  c \in DictState /\ Ordered(c)
<1>1. c \in StreamState /\ Ordered(c)
  BY DEF StateOK
<1>2. c \in DictState
  BY <1>1 DEF DictState, StreamState, StateWith
<1> QED
  BY <1>1, <1>2

\* What NULL is.
LEMMA NullType == NULL \in Int /\ NULL < 0
BY DEF NULL

\* A state at the level set.
LEMMA LevelOK ==
  ASSUME NEW c, StateOK(c), NEW level \in Int
  PROVE  /\ StateOK(LZ4_setCompressionLevel(c, level))
         /\ LZ4_setCompressionLevel(c, level).end = c.end
         /\ LZ4_setCompressionLevel(c, level).prefixStart = c.prefixStart
         /\ LZ4_setCompressionLevel(c, level).dictCtx = c.dictCtx
<1>1. PICK l \in 1..LZ4HC_CLEVEL_MAX :
        l = IF level < 1 THEN LZ4HC_CLEVEL_DEFAULT ELSE MinOf(level, LZ4HC_CLEVEL_MAX)
  <2>1. (IF level < 1 THEN LZ4HC_CLEVEL_DEFAULT ELSE MinOf(level, LZ4HC_CLEVEL_MAX)) \in 1..LZ4HC_CLEVEL_MAX
    BY DEF LZ4HC_CLEVEL_DEFAULT, LZ4HC_CLEVEL_MAX, MinOf
  <2> QED
    BY <2>1
<1>2. PICK d : d = [c EXCEPT !.compressionLevel = l]
  OBVIOUS
<1>3. LZ4_setCompressionLevel(c, level) = d
  BY <1>1, <1>2 DEF LZ4_setCompressionLevel
<1>4. c \in StreamState
  BY DEF StateOK
<1>5. /\ d \in StreamState
      /\ d.end = c.end /\ d.prefixStart = c.prefixStart /\ d.dictLimit = c.dictLimit
      /\ d.lowLimit = c.lowLimit /\ d.nextToUpdate = c.nextToUpdate /\ d.dictCtx = c.dictCtx
  BY <1>1, <1>2, <1>4 DEF StreamState, StateWith
<1>6. StateOK(d)
  BY <1>5 DEF StateOK, Ordered, EndIndex, IndexIn
<1> QED
  BY <1>3, <1>5, <1>6

\* A state that has just been initialised.
LEMMA InitOK ==
  /\ StateOK(LZ4_initStreamHC) /\ LZ4_initStreamHC.dictCtx = NoDictCtx
  /\ LZ4_initStreamHC.prefixStart = NULL /\ LZ4_initStreamHC.end = NULL
<1>1. PICK h \in HashTables, t \in ChainTables :
        /\ h = [x \in 0..LZ4HC_HASHTABLESIZE - 1 |-> 0] /\ t = [i \in 0..KB64 - 1 |-> 0]
  <2>1. [x \in 0..LZ4HC_HASHTABLESIZE - 1 |-> 0] \in HashTables
    BY DEF HashTables
  <2>2. \A i \in 0..KB64 - 1 : 0 \in 0..KB64 - 1
    BY Constants
  <2>3. [i \in 0..KB64 - 1 |-> 0] \in ChainTables
    BY <2>2 DEF ChainTables
  <2> QED
    BY <2>1, <2>3
<1>2. PICK d : d = LZ4_initStreamHC
  OBVIOUS
<1>3. PICK l \in 1..LZ4HC_CLEVEL_MAX : l = LZ4HC_CLEVEL_DEFAULT
  BY DEF LZ4HC_CLEVEL_DEFAULT, LZ4HC_CLEVEL_MAX
<1>4. PICK z \in Int : z = NULL
  BY NullType
<1>5. /\ d = [hashTable |-> h, chainTable |-> t, end |-> z, prefixStart |-> z, dictStart |-> z,
              dictLimit |-> 0, lowLimit |-> 0, nextToUpdate |-> 0, compressionLevel |-> l,
              favorDecSpeed |-> FALSE, dirty |-> FALSE, dictCtx |-> NoDictCtx]
  BY <1>1, <1>2, <1>3, <1>4 DEF LZ4_initStreamHC
<1>6. d \in StreamState
  BY <1>5 DEF StreamState, StateWith, HashTables, ChainTables
<1>7. Ordered(d)
  BY <1>5 DEF Ordered, EndIndex, IndexIn
<1> QED
  BY <1>2, <1>4, <1>5, <1>6, <1>7 DEF StateOK

\* A state without history: what is at start begins it.
LEMMA InternalOK ==
  ASSUME NEW c, StateOK(c), NEW start \in Int
  PROVE  /\ StateOK(LZ4HC_init_internal(c, start))
         /\ LZ4HC_init_internal(c, start).prefixStart = start
         /\ LZ4HC_init_internal(c, start).end = start
         /\ LZ4HC_init_internal(c, start).nextToUpdate = LZ4HC_init_internal(c, start).dictLimit
         /\ LZ4HC_init_internal(c, start).dictCtx = c.dictCtx
<1> DEFINE fresh == EndIndex(c) > OneGB
<1>1. PICK first \in Nat : first = KB64 + (IF fresh THEN 0 ELSE EndIndex(c))
  BY Constants, StateParts
<1>2. PICK h \in HashTables : h = IF fresh THEN LZ4_initStreamHC.hashTable ELSE c.hashTable
  BY InitOK, StateParts
<1>3. PICK t \in ChainTables : t = IF fresh THEN [i \in DOMAIN c.chainTable |-> KB64 - 1] ELSE c.chainTable
  <2>1. c.chainTable \in ChainTables
    BY StateParts
  <2>2. DOMAIN c.chainTable = 0..KB64 - 1
    BY <2>1 DEF ChainTables
  <2>3. KB64 - 1 \in 0..KB64 - 1
    BY Constants
  <2>4. [i \in DOMAIN c.chainTable |-> KB64 - 1] \in ChainTables
    BY <2>2, <2>3 DEF ChainTables
  <2> QED
    BY <2>1, <2>4
<1>4. PICK d : d = [c EXCEPT !.hashTable = h, !.chainTable = t, !.nextToUpdate = first,
                             !.prefixStart = start, !.end = start, !.dictStart = start,
                             !.dictLimit = first, !.lowLimit = first]
  OBVIOUS
<1>5. LZ4HC_init_internal(c, start) = d
  BY <1>1, <1>2, <1>3, <1>4 DEF LZ4HC_init_internal
<1>6. c \in StreamState
  BY DEF StateOK
<1>7. /\ d \in StreamState
      /\ d.nextToUpdate = first /\ d.prefixStart = start /\ d.end = start
      /\ d.dictLimit = first /\ d.lowLimit = first /\ d.dictCtx = c.dictCtx
  BY <1>4, <1>6 DEF StreamState, StateWith, HashTables, ChainTables
<1>8. Ordered(d)
  BY <1>7 DEF Ordered, EndIndex, IndexIn
<1>9. StateOK(d)
  BY <1>7, <1>8 DEF StateOK
<1> QED
  BY <1>5, <1>7, <1>9

\* A stream that is reset has no history, and no dictionary.
LEMMA ResetOK ==
  ASSUME NEW c, StateOK(c), NEW level \in Int
  PROVE  /\ StateOK(LZ4_resetStreamHC_fast(c, level))
         /\ LZ4_resetStreamHC_fast(c, level).dictCtx = NoDictCtx
         /\ LZ4_resetStreamHC_fast(c, level).prefixStart = NULL
         /\ LZ4_resetStreamHC_fast(c, level).end = NULL
<1>1. PICK e \in Nat : e = EndIndex(c)
  BY StateParts
<1>2. PICK d : d = [c EXCEPT !.dictLimit = e, !.prefixStart = NULL, !.end = NULL, !.dictCtx = NoDictCtx]
  OBVIOUS
<1>3. c \in StreamState
  BY DEF StateOK
<1>4. PICK z \in Int : z = NULL
  BY NullType
<1>5. /\ d \in StreamState
      /\ d.nextToUpdate = c.nextToUpdate /\ d.prefixStart = z /\ d.end = z
      /\ d.dictLimit = e /\ d.lowLimit = c.lowLimit /\ d.dictCtx = NoDictCtx
  BY <1>2, <1>3, <1>4 DEF StreamState, StateWith, HashTables, ChainTables
<1>6. c.nextToUpdate <= e /\ c.lowLimit <= e
  BY <1>1, StateParts
<1>7. Ordered(d)
  BY <1>1, <1>4, <1>5, <1>6 DEF Ordered, EndIndex, IndexIn
<1>8. StateOK(d)
  BY <1>5, <1>7 DEF StateOK
<1>9. PICK x : x = IF c.dirty THEN LZ4_initStreamHC ELSE d
  OBVIOUS
<1>10. StateOK(x) /\ x.dictCtx = NoDictCtx /\ x.prefixStart = NULL /\ x.end = NULL
  BY <1>4, <1>5, <1>8, <1>9, InitOK
<1>11. LZ4_resetStreamHC_fast(c, level) = LZ4_setCompressionLevel(x, level)
  BY <1>1, <1>2, <1>9 DEF LZ4_resetStreamHC_fast
<1> QED
  BY <1>10, <1>11, LevelOK

\* The positions before p are put in the tables of a state that has a prefix.
LEMMA InsertOK ==
  ASSUME NEW c, StateOK(c), NEW p \in Int, c.prefixStart <= p, p <= c.end
  PROVE  /\ StateOK(LZ4HC_Insert(c, p))
         /\ LZ4HC_Insert(c, p).prefixStart = c.prefixStart
         /\ LZ4HC_Insert(c, p).end = c.end
         /\ LZ4HC_Insert(c, p).dictStart = c.dictStart
         /\ LZ4HC_Insert(c, p).lowLimit = c.lowLimit
         /\ LZ4HC_Insert(c, p).dictLimit = c.dictLimit
         /\ LZ4HC_Insert(c, p).dictCtx = c.dictCtx
         /\ LZ4HC_Insert(c, p).compressionLevel = c.compressionLevel
         /\ LZ4HC_Insert(c, p).favorDecSpeed = c.favorDecSpeed
         /\ LZ4HC_Insert(c, p).nextToUpdate = IndexIn(c, p)
<1>1. c \in StreamState /\ Ordered(c)
  BY DEF StateOK
<1>2. PICK n \in Nat : n = IndexIn(c, p) /\ c.dictLimit <= n /\ n <= EndIndex(c)
  <2>1. IndexIn(c, p) \in Nat /\ c.dictLimit <= IndexIn(c, p) /\ IndexIn(c, p) <= EndIndex(c)
    BY StateParts DEF IndexIn, EndIndex
  <2> QED
    BY <2>1
<1>3. PICK h \in HashTables, t \in ChainTables :
        LZ4HC_Insert(c, p) = [c EXCEPT !.hashTable = h, !.chainTable = t, !.nextToUpdate = n]
  BY <1>1, <1>2, InsertType
<1>4. PICK d : d = [c EXCEPT !.hashTable = h, !.chainTable = t, !.nextToUpdate = n]
  OBVIOUS
<1>5. /\ d \in StreamState
      /\ d.nextToUpdate = n /\ d.prefixStart = c.prefixStart /\ d.end = c.end /\ d.dictStart = c.dictStart
      /\ d.dictLimit = c.dictLimit /\ d.lowLimit = c.lowLimit /\ d.dictCtx = c.dictCtx
      /\ d.compressionLevel = c.compressionLevel /\ d.favorDecSpeed = c.favorDecSpeed
  BY <1>1, <1>4 DEF StreamState, StateWith, HashTables, ChainTables
<1>6. EndIndex(d) = EndIndex(c)
  BY <1>5 DEF EndIndex, IndexIn
<1>7. Ordered(d)
  BY <1>1, <1>2, <1>5, <1>6 DEF Ordered
<1>8. StateOK(d)
  BY <1>5, <1>7 DEF StateOK
<1> QED
  BY <1>2, <1>3, <1>4, <1>5, <1>8

\* The tables of level 2, filled.
LEMMA FillOK ==
  ASSUME NEW c, StateOK(c), c.nextToUpdate = c.dictLimit
  PROVE  /\ StateOK(LZ4MID_fillHTable(c))
         /\ LZ4MID_fillHTable(c).prefixStart = c.prefixStart
         /\ LZ4MID_fillHTable(c).end = c.end
         /\ LZ4MID_fillHTable(c).dictCtx = c.dictCtx
<1>1. c \in StreamState /\ Ordered(c)
  BY DEF StateOK
<1>2. CASE LZ4MID_fillHTable(c) = c
  BY <1>2
<1>3. ASSUME NEW h \in HashTables, PrefixSize(c) > 8,
             LZ4MID_fillHTable(c) = [c EXCEPT !.hashTable = h, !.nextToUpdate = EndIndex(c) - 8]
      PROVE  /\ StateOK(LZ4MID_fillHTable(c))
             /\ LZ4MID_fillHTable(c).prefixStart = c.prefixStart
             /\ LZ4MID_fillHTable(c).end = c.end
             /\ LZ4MID_fillHTable(c).dictCtx = c.dictCtx
  <2>1. PICK n \in Nat : n = EndIndex(c) - 8 /\ c.dictLimit <= n /\ n <= EndIndex(c)
    <3>1. EndIndex(c) - 8 \in Nat /\ c.dictLimit <= EndIndex(c) - 8 /\ EndIndex(c) - 8 <= EndIndex(c)
      BY <1>3, StateParts
    <3> QED
      BY <3>1
  <2>2. PICK d : d = [c EXCEPT !.hashTable = h, !.nextToUpdate = n]
    OBVIOUS
  <2>3. /\ d \in StreamState
        /\ d.nextToUpdate = n /\ d.prefixStart = c.prefixStart /\ d.end = c.end
        /\ d.dictLimit = c.dictLimit /\ d.lowLimit = c.lowLimit /\ d.dictCtx = c.dictCtx
    BY <1>1, <2>2 DEF StreamState, StateWith, HashTables, ChainTables
  <2>4. EndIndex(d) = EndIndex(c)
    BY <2>3 DEF EndIndex, IndexIn
  <2>5. Ordered(d)
    BY <1>1, <2>1, <2>3, <2>4 DEF Ordered
  <2>6. StateOK(d)
    BY <2>3, <2>5 DEF StateOK
  <2> QED
    BY <1>3, <2>1, <2>2, <2>3, <2>6
<1> QED
  BY <1>1, <1>2, <1>3, FillType

\* A dictionary is loaded: it is the prefix, and there is nothing before it.
LEMMA LoadOK ==
  ASSUME NEW c, StateOK(c), NEW dict \in Int, NEW size \in Nat
  PROVE  /\ StateOK(LZ4_loadDictHC(c, dict, size))
         /\ LZ4_loadDictHC(c, dict, size).dictCtx = NoDictCtx
         /\ LZ4_loadDictHC(c, dict, size).end = dict + size
         /\ dict <= LZ4_loadDictHC(c, dict, size).prefixStart
<1>1. PICK n \in Nat : n = MinOf(size, KB64) /\ n <= size
  <2>1. MinOf(size, KB64) \in Nat /\ MinOf(size, KB64) <= size
    BY Constants DEF MinOf
  <2> QED
    BY <2>1
<1>2. PICK begin \in Int : begin = dict + size - n
  OBVIOUS
<1>3. PICK new : new = LZ4HC_init_internal(LZ4_setCompressionLevel(LZ4_initStreamHC, c.compressionLevel), begin)
  OBVIOUS
<1>4. c.compressionLevel \in Int
  BY StateParts DEF LZ4HC_CLEVEL_MAX
<1>5. /\ StateOK(new) /\ new.prefixStart = begin /\ new.end = begin /\ new.nextToUpdate = new.dictLimit
      /\ new.dictCtx = NoDictCtx
  <2>1. PICK l \in Int : l = c.compressionLevel
    BY <1>4
  <2>2. PICK x : x = LZ4_setCompressionLevel(LZ4_initStreamHC, l)
    OBVIOUS
  <2>3. StateOK(x) /\ x.dictCtx = NoDictCtx
    BY <2>2, InitOK, LevelOK
  <2>4. new = LZ4HC_init_internal(x, begin)
    BY <1>3, <2>1, <2>2
  <2> QED
    BY <2>3, <2>4, InternalOK
<1>6. PICK e \in Int : e = begin + n
  OBVIOUS
<1>7. PICK d : d = [new EXCEPT !.end = e]
  OBVIOUS
<1>8. new \in StreamState /\ Ordered(new)
  BY <1>5 DEF StateOK
<1>9. /\ d \in StreamState
      /\ d.nextToUpdate = new.nextToUpdate /\ d.prefixStart = begin /\ d.end = e
      /\ d.dictLimit = new.dictLimit /\ d.lowLimit = new.lowLimit /\ d.dictCtx = NoDictCtx
  BY <1>5, <1>7, <1>8 DEF StreamState, StateWith, HashTables, ChainTables
<1>10. new.lowLimit <= new.dictLimit /\ new.dictLimit \in Nat /\ new.lowLimit \in Nat
  BY <1>5, StateParts
<1>11. Ordered(d)
  BY <1>5, <1>6, <1>9, <1>10 DEF Ordered, EndIndex, IndexIn
<1>12. StateOK(d)
  BY <1>9, <1>11 DEF StateOK
<1>13. /\ d.end = dict + size /\ dict <= d.prefixStart /\ d.dictCtx = NoDictCtx
       /\ d.nextToUpdate = d.dictLimit /\ PrefixSize(d) = n
  BY <1>1, <1>2, <1>5, <1>6, <1>9 DEF PrefixSize
<1>14. LZ4_loadDictHC(c, dict, size) =
         IF IsMid(d) THEN LZ4MID_fillHTable(d)
         ELSE IF n >= 4 THEN LZ4HC_Insert(d, d.end - 3)
         ELSE d
  BY <1>1, <1>2, <1>3, <1>6, <1>7 DEF LZ4_loadDictHC
<1>15. CASE IsMid(d)
  <2>1. /\ StateOK(LZ4MID_fillHTable(d)) /\ LZ4MID_fillHTable(d).dictCtx = d.dictCtx
        /\ LZ4MID_fillHTable(d).end = d.end /\ LZ4MID_fillHTable(d).prefixStart = d.prefixStart
    BY <1>12, <1>13, FillOK
  <2> QED
    BY <1>13, <1>14, <1>15, <2>1
<1>16. CASE ~IsMid(d) /\ n >= 4
  <2>1. d.end - 3 \in Int /\ d.prefixStart <= d.end - 3 /\ d.end - 3 <= d.end
    BY <1>9, <1>13, <1>16 DEF PrefixSize
  <2>2. PICK p \in Int : p = d.end - 3
    BY <2>1
  <2>3. /\ StateOK(LZ4HC_Insert(d, p)) /\ LZ4HC_Insert(d, p).dictCtx = d.dictCtx
        /\ LZ4HC_Insert(d, p).end = d.end /\ LZ4HC_Insert(d, p).prefixStart = d.prefixStart
    BY <1>12, <2>1, <2>2, InsertOK
  <2> QED
    BY <1>13, <1>14, <1>16, <2>2, <2>3
<1>17. CASE ~IsMid(d) /\ ~(n >= 4)
  BY <1>12, <1>13, <1>14, <1>17
<1> QED
  BY <1>15, <1>16, <1>17

\* The prefix becomes the external dictionary, and newBlock the prefix.
LEMMA ExternalOK ==
  ASSUME NEW c, StateOK(c), NEW newBlock \in Int
  PROVE  /\ StateOK(LZ4HC_setExternalDict(c, newBlock))
         /\ LZ4HC_setExternalDict(c, newBlock).prefixStart = newBlock
         /\ LZ4HC_setExternalDict(c, newBlock).end = newBlock
         /\ LZ4HC_setExternalDict(c, newBlock).dictCtx = NoDictCtx
<1>1. PICK d : d = IF PrefixSize(c) >= 4 /\ ~IsMid(c) THEN LZ4HC_Insert(c, c.end - 3) ELSE c
  OBVIOUS
<1>2. StateOK(d)
  <2>1. CASE PrefixSize(c) >= 4 /\ ~IsMid(c)
    <3>1. PICK p \in Int : p = c.end - 3 /\ c.prefixStart <= p /\ p <= c.end
      <4>1. c.end - 3 \in Int /\ c.prefixStart <= c.end - 3 /\ c.end - 3 <= c.end
        BY <2>1, StateParts DEF PrefixSize
      <4> QED
        BY <4>1
    <3> QED
      BY <1>1, <2>1, <3>1, InsertOK
  <2>2. CASE ~(PrefixSize(c) >= 4 /\ ~IsMid(c))
    BY <1>1, <2>2
  <2> QED
    BY <2>1, <2>2
<1>3. PICK l \in Nat, s \in Int, e \in Nat : l = c.dictLimit /\ s = c.prefixStart /\ e = EndIndex(c) /\ l <= e
  <2>1. c.dictLimit \in Nat /\ c.prefixStart \in Int /\ EndIndex(c) \in Nat /\ c.dictLimit <= EndIndex(c)
    BY StateParts
  <2> QED
    BY <2>1
<1>4. PICK x : x = [d EXCEPT !.lowLimit = l, !.dictStart = s, !.dictLimit = e,
                             !.prefixStart = newBlock, !.end = newBlock, !.nextToUpdate = e,
                             !.dictCtx = NoDictCtx]
  OBVIOUS
<1>5. LZ4HC_setExternalDict(c, newBlock) = x
  BY <1>1, <1>3, <1>4 DEF LZ4HC_setExternalDict
<1>6. d \in StreamState
  BY <1>2 DEF StateOK
<1>7. /\ x \in StreamState
      /\ x.lowLimit = l /\ x.dictLimit = e /\ x.prefixStart = newBlock /\ x.end = newBlock
      /\ x.nextToUpdate = e /\ x.dictCtx = NoDictCtx
  BY <1>4, <1>6 DEF StreamState, StateWith, HashTables, ChainTables
<1>8. Ordered(x)
  BY <1>3, <1>7 DEF Ordered, EndIndex, IndexIn
<1>9. StateOK(x)
  BY <1>7, <1>8 DEF StateOK
<1> QED
  BY <1>5, <1>7, <1>9

\* The external dictionary loses what the source of n bytes at p overwrites.
LEMMA OverlapOK ==
  ASSUME NEW c, StateOK(c), NEW p \in Int, NEW n \in Int
  PROVE  /\ StateOK(WithoutOverlap(c, p, n))
         /\ WithoutOverlap(c, p, n).prefixStart = c.prefixStart
         /\ WithoutOverlap(c, p, n).end = c.end
         /\ WithoutOverlap(c, p, n).dictCtx = c.dictCtx
<1> DEFINE size == c.dictLimit - c.lowLimit
           lost == MinOf(p + n, c.dictStart + size) - c.dictStart
<1>1. c \in StreamState /\ Ordered(c)
  BY DEF StateOK
<1>2. c.dictLimit \in Nat /\ c.lowLimit \in Nat /\ c.dictStart \in Int /\ c.lowLimit <= c.dictLimit
      /\ c.prefixStart \in Int
  BY StateParts
<1>3. CASE ~(p + n > c.dictStart /\ p < c.dictStart + size)
  <2>1. WithoutOverlap(c, p, n) = c
    BY <1>3 DEF WithoutOverlap
  <2> QED
    BY <2>1
<1>4. ASSUME NEW l \in Nat, NEW s \in Int, l <= c.dictLimit,
             WithoutOverlap(c, p, n) = [c EXCEPT !.lowLimit = l, !.dictStart = s]
      PROVE  /\ StateOK(WithoutOverlap(c, p, n))
             /\ WithoutOverlap(c, p, n).prefixStart = c.prefixStart
             /\ WithoutOverlap(c, p, n).end = c.end
             /\ WithoutOverlap(c, p, n).dictCtx = c.dictCtx
  <2>1. PICK d : d = [c EXCEPT !.lowLimit = l, !.dictStart = s]
    OBVIOUS
  <2>2. /\ d \in StreamState
        /\ d.nextToUpdate = c.nextToUpdate /\ d.prefixStart = c.prefixStart /\ d.end = c.end
        /\ d.dictLimit = c.dictLimit /\ d.lowLimit = l /\ d.dictCtx = c.dictCtx
    BY <1>1, <2>1 DEF StreamState, StateWith, HashTables, ChainTables
  <2>3. EndIndex(d) = EndIndex(c)
    BY <2>2 DEF EndIndex, IndexIn
  <2>4. Ordered(d)
    BY <1>1, <1>4, <2>2, <2>3 DEF Ordered
  <2>5. StateOK(d)
    BY <2>2, <2>4 DEF StateOK
  <2> QED
    BY <1>4, <2>1, <2>2, <2>5
<1>5. CASE (p + n > c.dictStart /\ p < c.dictStart + size) /\ size - lost < 4
  <2>1. PICK l \in Nat, s \in Int : l = c.dictLimit /\ s = c.prefixStart /\ l <= c.dictLimit
    BY <1>2
  <2>2. WithoutOverlap(c, p, n) = [c EXCEPT !.lowLimit = l, !.dictStart = s]
    BY <1>5, <2>1 DEF WithoutOverlap
  <2> QED
    BY <1>4, <2>1, <2>2
<1>6. CASE (p + n > c.dictStart /\ p < c.dictStart + size) /\ ~(size - lost < 4)
  <2>1. PICK k \in Int : k = lost
    BY <1>2 DEF MinOf
  <2>2. k \in Nat /\ c.lowLimit + k \in Nat /\ c.lowLimit + k <= c.dictLimit /\ c.dictStart + k \in Int
    BY <1>2, <1>6, <2>1 DEF MinOf
  <2>3. WithoutOverlap(c, p, n) = [c EXCEPT !.lowLimit = @ + k, !.dictStart = @ + k]
    BY <1>6, <2>1 DEF WithoutOverlap
  <2>4. PICK l \in Nat, s \in Int : l = c.lowLimit + k /\ s = c.dictStart + k /\ l <= c.dictLimit
    BY <2>2
  <2>5. WithoutOverlap(c, p, n) = [c EXCEPT !.lowLimit = l, !.dictStart = s]
    BY <2>3, <2>4
  <2> QED
    BY <1>4, <2>4, <2>5
<1> QED
  BY <1>3, <1>5, <1>6

\* The indexes start over.
LEMMA RenormalizedOK ==
  ASSUME NEW c, StateOK(c), 0 <= c.prefixStart
  PROVE  /\ StateOK(Renormalized(c))
         /\ Renormalized(c).end = c.end
         /\ 0 <= Renormalized(c).prefixStart
<1>1. PrefixSize(c) \in Nat /\ c.end \in Int /\ c.prefixStart \in Int /\ c.prefixStart <= c.end
  BY StateParts
<1>2. PICK n \in Nat : n = MinOf(PrefixSize(c), KB64) /\ n <= PrefixSize(c)
  <2>1. MinOf(PrefixSize(c), KB64) \in Nat /\ MinOf(PrefixSize(c), KB64) <= PrefixSize(c)
    BY <1>1, Constants DEF MinOf
  <2> QED
    BY <2>1
<1>3. CASE EndIndex(c) > TwoGB
  <2>1. PICK b \in Int : b = c.end - n /\ b >= 0 /\ b + n = c.end
    <3>1. c.end - n \in Int /\ c.end - n >= 0 /\ (c.end - n) + n = c.end
      BY <1>1, <1>2 DEF PrefixSize
    <3> QED
      BY <3>1
  <2>2. Renormalized(c) = LZ4_loadDictHC(c, b, n)
    BY <1>2, <1>3, <2>1 DEF Renormalized
  <2>3. StateOK(LZ4_loadDictHC(c, b, n)) /\ LZ4_loadDictHC(c, b, n).end = b + n
        /\ b <= LZ4_loadDictHC(c, b, n).prefixStart
    BY LoadOK
  <2>4. LZ4_loadDictHC(c, b, n).prefixStart \in Int
    BY <2>3, StateParts
  <2> QED
    BY <2>1, <2>2, <2>3, <2>4
<1>4. CASE ~(EndIndex(c) > TwoGB)
  BY <1>4 DEF Renormalized
<1> QED
  BY <1>3, <1>4

---------------------------------------------------------------------------
(* The running call.                                                       *)

\* The places of a call that goes on.
LEMMA Ranges ==
  ASSUME Typed, Accepted
  PROVE  /\ source \in Nat /\ call.size \in Nat /\ iend \in Nat /\ iend = source + call.size
         /\ matchlimit \in Int /\ matchlimit = iend - 5
         /\ mflimit \in Int /\ mflimit = iend - 12
         /\ Len(text) \in Nat /\ iend <= Len(text)
         /\ anchor \in Nat /\ ip \in Nat /\ source <= anchor /\ anchor <= ip /\ anchor <= iend
         /\ op \in Nat /\ call.capacity \in Int
         /\ hc.prefixStart \in Int /\ hc.prefixStart <= source /\ hc.end = iend
         /\ hc.dictLimit \in Nat /\ hc.lowLimit \in Nat /\ hc.dictStart \in Int
<1>1. StateOK(hc) /\ CallTyped /\ text \in Seq(Byte) /\ out \in Seq(Byte) /\ ip \in Nat /\ anchor \in Nat
  BY DEF Typed
<1>2. /\ call.size \in 0..LZ4_MAX_INPUT_SIZE /\ iend <= Len(text)
      /\ hc.end = iend /\ hc.prefixStart <= source
      /\ source <= anchor /\ anchor <= ip /\ anchor <= iend
  BY DEF Accepted
<1>3. call.size \in Nat /\ source \in Nat /\ call.capacity \in Int
  BY <1>1, <1>2, MaxInputType DEF CallTyped, source
<1>4. iend \in Nat /\ iend = source + call.size
  BY <1>3 DEF iend
<1>5. Len(text) \in Nat /\ op \in Nat
  BY <1>1, LenProperties DEF op
<1>6. hc.prefixStart \in Int /\ hc.dictLimit \in Nat /\ hc.lowLimit \in Nat /\ hc.dictStart \in Int
  BY <1>1, StateParts
<1>7. matchlimit \in Int /\ matchlimit = iend - 5 /\ mflimit \in Int /\ mflimit = iend - 12
  BY <1>4 DEF matchlimit, mflimit, LASTLITERALS, MFLIMIT
<1> QED
  BY <1>1, <1>2, <1>3, <1>4, <1>5, <1>6, <1>7

\* The words that are hashed.
LEMMA WordType ==
  ASSUME text \in Seq(Byte), NEW p
  PROVE  Word(p, 4) \in Words4 /\ Word(p, 7) \in Words7
<1>1. \A q : Text(q) \in Byte \cup {Outside}
  <2> SUFFICES ASSUME NEW q PROVE Text(q) \in Byte \cup {Outside}
    OBVIOUS
  <2>1. Len(text) \in Nat
    BY LenProperties
  <2>2. CASE q \in 0..Len(text) - 1
    <3>1. q + 1 \in 1..Len(text)
      BY <2>1, <2>2
    <3>2. text[q + 1] \in Byte
      BY <3>1, ElementOfSeq
    <3> QED
      BY <2>2, <3>2 DEF Text
  <2>3. CASE ~(q \in 0..Len(text) - 1)
    BY <2>3 DEF Text
  <2> QED
    BY <2>2, <2>3
<1> QED
  BY <1>1 DEF Word, Words4, Words7

\* Where a hash leads to is in the table.
LEMMA HashType ==
  ASSUME HashesInTable, text \in Seq(Byte), NEW p
  PROVE  /\ LZ4HC_hashPtr(p) \in 0..LZ4HC_HASHTABLESIZE - 1
         /\ LZ4MID_hash4Ptr(p) \in 0..LZ4HC_HASHTABLESIZE - 1
         /\ LZ4MID_hash8Ptr(p) \in 0..LZ4HC_HASHTABLESIZE - 1
<1>1. Word(p, 4) \in Words4 /\ Word(p, 7) \in Words7
  BY WordType
<1>2. PICK h \in Int : h = LZ4HC_hash(Word(p, 4)) /\ 0 <= h /\ h <= LZ4HC_HASHTABLESIZE - 1
  BY <1>1 DEF HashesInTable
<1>3. PICK g \in Int : g = LZ4MID_hash7(Word(p, 7)) /\ 0 <= g /\ g <= LZ4MID_HASHTABLESIZE - 1
  BY <1>1 DEF HashesInTable
<1>4. h \div 2 \in Int /\ 0 <= h \div 2 /\ h \div 2 <= h
  BY <1>2
<1>5. LZ4HC_HASHTABLESIZE \in Nat /\ LZ4MID_HASHTABLESIZE \in Nat
      /\ LZ4HC_HASHTABLESIZE = 2 * LZ4MID_HASHTABLESIZE
  BY Constants
<1>6. LZ4HC_hashPtr(p) = h /\ LZ4MID_hash4Ptr(p) = h \div 2
      /\ LZ4MID_hash8Ptr(p) = LZ4MID_HASHTABLESIZE + g
  BY <1>2, <1>3 DEF LZ4HC_hashPtr, LZ4MID_hash4Ptr, LZ4MID_hash8Ptr
<1> QED
  BY <1>2, <1>3, <1>4, <1>5, <1>6

\* An entry of a table.
LEMMA EntryType ==
  ASSUME HashesInTable, text \in Seq(Byte), NEW t \in HashTables, NEW p
  PROVE  t[LZ4HC_hashPtr(p)] \in Nat /\ t[LZ4MID_hash4Ptr(p)] \in Nat /\ t[LZ4MID_hash8Ptr(p)] \in Nat
BY HashType DEF HashTables

\* The distance to the candidate before.
LEMMA NextDeltaType ==
  ASSUME NEW c, c.chainTable \in ChainTables, NEW i \in Int
  PROVE  NextDelta(c, i) \in Nat
<1>1. i % KB64 \in 0..KB64 - 1
  BY Constants
<1> QED
  BY <1>1, Constants DEF NextDelta, ChainTables

\* The index of it.
LEMMA BackType ==
  ASSUME NEW i \in Int, NEW d \in Nat
  PROVE  Back(i, d) \in Int
BY DEF Back, Over

---------------------------------------------------------------------------
(* A search.                                                               *)

\* What the search step f does to the search.
KeepsSearch(f) ==
  /\ f \in Searches
  /\ f.at = find.at /\ f.low = find.low /\ f.label = find.label
  /\ f.longest >= find.longest
  /\ \/ f.longest = find.longest /\ f.back = find.back
     \/ /\ f.back <= find.at - find.low
        /\ f.at - f.back + f.longest \in f.at + MINMATCH..matchlimit

\* A search that goes on: what it knows of where it is.
LEMMA SearchRanges ==
  ASSUME Typed, Accepted, SearchOK, pc \in {"search", "search_dict"}
  PROVE  /\ find \in Searches /\ find.label \in Purposes /\ find.longest > 0
         /\ find.low <= find.at /\ find.at <= mflimit /\ find.back <= find.at - find.low
         /\ find.longest > Initial =>
              find.at - find.back + find.longest \in find.at + MINMATCH..matchlimit
         /\ lookBack \in Nat /\ lookBack = find.at - find.low
<1>1. find \in Searches
  BY DEF Typed
<1>2. find.label \in Purposes /\ find.longest > 0
  BY DEF SearchOK
<1>3. \E l \in Purposes : For(l)
  BY <1>2 DEF For
<1>4. /\ find.low <= find.at /\ find.at <= mflimit /\ find.back <= find.at - find.low
      /\ find.longest > Initial =>
           find.at - find.back + find.longest \in find.at + MINMATCH..matchlimit
  BY <1>2, <1>3 DEF SearchOK
<1>5. find.low \in Nat /\ find.at \in Nat
  BY <1>1 DEF Searches
<1> QED
  BY <1>1, <1>2, <1>4, <1>5 DEF lookBack

\* How far back a candidate goes.
LEMMA BackToBounds ==
  ASSUME find \in Searches, lookBack \in Nat, NEW q \in Int, NEW first \in Int
  PROVE  BackTo(q, first) \in Nat /\ BackTo(q, first) <= lookBack
<1>1. CASE lookBack = 0
  BY <1>1 DEF BackTo
<1>2. CASE lookBack # 0
  <2>1. PICK n \in Int : n = MinOf(lookBack, q - first) /\ n <= lookBack
    <3>1. MinOf(lookBack, q - first) \in Int /\ MinOf(lookBack, q - first) <= lookBack
      BY DEF MinOf
    <3> QED
      BY <3>1
  <2>2. find.at \in Int
    BY DEF Searches
  <2>3. CountBack(find.at, q, n) \in Nat /\ CountBack(find.at, q, n) <= MaxOf(0, n)
    BY <2>2, CountBackBounds
  <2>4. MaxOf(0, n) <= lookBack
    BY <2>1 DEF MaxOf
  <2>5. BackTo(q, first) = CountBack(find.at, q, n)
    BY <1>2, <2>1 DEF BackTo
  <2>6. MaxOf(0, n) \in Int
    BY DEF MaxOf
  <2> QED
    BY <2>3, <2>4, <2>5, <2>6
<1> QED
  BY <1>1, <1>2

\* What the comparison of a candidate may yield.
Measures(m) ==
  m = NoMatch \/ \E n \in Nat, b \in Nat :
                   m = Measure(n, b) /\ b <= lookBack /\ find.at + MINMATCH + n <= matchlimit

\* A candidate in the prefix, or in the external dictionary.
LEMMA MeasuredBounds ==
  ASSUME Typed, Accepted, SearchOK, pc \in {"search", "search_dict"}, NEW i \in Int
  PROVE  Measures(Measured(i))
<1>1. /\ find \in Searches /\ lookBack \in Nat
      /\ matchlimit \in Int /\ mflimit = matchlimit - 7 /\ find.at <= mflimit
      /\ hc.prefixStart \in Int /\ hc.dictLimit \in Nat /\ hc.lowLimit \in Nat /\ hc.dictStart \in Int
  BY Ranges, SearchRanges
<1>2. PICK p \in Nat : p = find.at /\ p + 4 <= matchlimit
  <2>1. find.at \in Nat
    BY <1>1 DEF Searches
  <2> QED
    BY <1>1, <2>1
<1>3. Measures(InPrefix(i))
  <2>1. PICK q \in Int : q = PrefixAt(i)
    BY <1>1 DEF PrefixAt
  <2>2. PICK n : n = LZ4_count(p + 4, q + 4, matchlimit - (p + 4))
    OBVIOUS
  <2>3. n \in Nat /\ p + 4 + n <= matchlimit
    <3>1. n \in Nat /\ n <= MaxOf(0, matchlimit - (p + 4))
      BY <1>1, <2>2, CountBounds
    <3>2. MaxOf(0, matchlimit - (p + 4)) = matchlimit - (p + 4)
      BY <1>1, <1>2 DEF MaxOf
    <3> QED
      BY <1>1, <1>2, <3>1, <3>2
  <2>4. PICK b : b = BackTo(q, hc.prefixStart)
    OBVIOUS
  <2>5. b \in Nat /\ b <= lookBack
    BY <1>1, <2>4, BackToBounds
  <2>6. InPrefix(i) = NoMatch \/ InPrefix(i) = Measure(n, b)
    BY <1>2, <2>1, <2>2, <2>4 DEF InPrefix, MINMATCH
  <2> QED
    BY <1>2, <2>3, <2>5, <2>6 DEF Measures, MINMATCH
<1>4. Measures(InExtDict(i))
  <2>1. PICK q \in Int : q = DictAt(i)
    BY <1>1 DEF DictAt
  <2>2. CASE ~(i <= hc.dictLimit - 4)
    BY <2>2 DEF InExtDict, Measures
  <2>3. CASE i <= hc.dictLimit - 4
    <3>1. PICK v \in Int : v = MinOf(p + hc.dictLimit - i, matchlimit) /\ p + 4 <= v /\ v <= matchlimit
      <4>1. /\ MinOf(p + hc.dictLimit - i, matchlimit) \in Int
            /\ p + 4 <= MinOf(p + hc.dictLimit - i, matchlimit)
            /\ MinOf(p + hc.dictLimit - i, matchlimit) <= matchlimit
        BY <1>1, <1>2, <2>3 DEF MinOf
      <4> QED
        BY <4>1
    <3>2. PICK n : n = LZ4_count(p + 4, q + 4, v - (p + 4))
      OBVIOUS
    <3>3. n \in Nat /\ p + 4 + n <= v
      <4>1. n \in Nat /\ n <= MaxOf(0, v - (p + 4))
        BY <3>1, <3>2, CountBounds
      <4>2. MaxOf(0, v - (p + 4)) = v - (p + 4)
        BY <3>1 DEF MaxOf
      <4> QED
        BY <3>1, <4>1, <4>2
    <3>4. PICK k : k = LZ4_count(v, hc.prefixStart, matchlimit - v)
      OBVIOUS
    <3>5. k \in Nat /\ v + k <= matchlimit
      <4>1. k \in Nat /\ k <= MaxOf(0, matchlimit - v)
        <5>1. PICK w \in Int, s \in Int : w = matchlimit - v /\ s = hc.prefixStart
          BY <1>1, <3>1
        <5> QED
          BY <3>1, <3>4, <5>1, CountBounds
      <4>2. MaxOf(0, matchlimit - v) = matchlimit - v
        BY <1>1, <3>1 DEF MaxOf
      <4> QED
        BY <1>1, <3>1, <4>1, <4>2
    <3>6. PICK b : b = BackTo(q, hc.dictStart)
      OBVIOUS
    <3>7. b \in Nat /\ b <= lookBack
      BY <1>1, <3>6, BackToBounds
    <3>8. PICK j \in Nat : j = (IF p + 4 + n = v THEN n + k ELSE n) /\ p + 4 + j <= matchlimit
      <4>1. CASE p + 4 + n = v
        BY <1>1, <3>1, <3>3, <3>5, <4>1
      <4>2. CASE p + 4 + n # v
        BY <1>1, <3>1, <3>3, <4>2
      <4> QED
        BY <4>1, <4>2
    <3>9. InExtDict(i) = NoMatch \/ InExtDict(i) = Measure(j, b)
      BY <1>2, <2>1, <3>1, <3>2, <3>4, <3>6, <3>8 DEF InExtDict, MINMATCH
    <3> QED
      BY <1>2, <3>7, <3>8, <3>9 DEF Measures, MINMATCH
  <2> QED
    BY <2>2, <2>3
<1> QED
  BY <1>3, <1>4 DEF Measured, Measures

\* A candidate in the attached dictionary.
LEMMA AttachedBounds ==
  ASSUME Typed, Accepted, SearchOK, pc = "search_dict", NEW i \in Int
  PROVE  Measures(InAttached(i))
<1>1. /\ find \in Searches /\ lookBack \in Nat
      /\ matchlimit \in Int /\ mflimit = matchlimit - 7 /\ find.at <= mflimit
  BY Ranges, SearchRanges
<1>2. PICK p \in Nat : p = find.at /\ p + 4 <= matchlimit
  <2>1. find.at \in Nat
    BY <1>1 DEF Searches
  <2> QED
    BY <1>1, <2>1
<1>3. StateOK(hc.dictCtx)
  <2>1. call.usingDictCtx
    BY DEF SearchOK
  <2>2. hc.dictCtx # NoDictCtx /\ StateOK(hc)
    BY <2>1 DEF Accepted, Typed
  <2> QED
    BY <2>2, StateParts, DictIsState
<1>4. hc.dictCtx.prefixStart \in Int /\ hc.dictCtx.dictLimit \in Nat /\ EndIndex(hc.dictCtx) \in Nat
  BY <1>3, StateParts
<1>5. PICK q \in Int : q = AttachedAt(i)
  BY <1>4 DEF AttachedAt
<1>6. PICK v \in Int : v = MinOf(p + EndIndex(hc.dictCtx) - i, matchlimit) /\ v <= matchlimit
  <2>1. /\ MinOf(p + EndIndex(hc.dictCtx) - i, matchlimit) \in Int
        /\ MinOf(p + EndIndex(hc.dictCtx) - i, matchlimit) <= matchlimit
    BY <1>1, <1>4 DEF MinOf
  <2> QED
    BY <2>1
<1>7. PICK n : n = LZ4_count(p + 4, q + 4, v - (p + 4))
  OBVIOUS
<1>8. n \in Nat /\ p + 4 + n <= matchlimit
  <2>1. n \in Nat /\ n <= MaxOf(0, v - (p + 4))
    BY <1>7, CountBounds
  <2> QED
    BY <1>1, <1>2, <1>6, <2>1 DEF MaxOf
<1>9. PICK b : b = BackTo(q, hc.dictCtx.prefixStart)
  OBVIOUS
<1>10. b \in Nat /\ b <= lookBack
  BY <1>1, <1>4, <1>9, BackToBounds
<1>11. InAttached(i) = NoMatch \/ InAttached(i) = Measure(n, b)
  BY <1>2, <1>5, <1>6, <1>7, <1>9 DEF InAttached, MINMATCH
<1> QED
  BY <1>2, <1>8, <1>10, <1>11 DEF Measures, MINMATCH

\* The longest match of a search, with a candidate that was compared.
LEMMA WiderKeeps ==
  ASSUME Typed, Accepted, SearchOK, pc \in {"search", "search_dict"},
         NEW m, Measures(m), NEW i \in Int, NEW left \in Int
  PROVE  KeepsSearch(Wider([find EXCEPT !.left = left], m, i))
<1>1. find \in Searches /\ lookBack \in Nat /\ lookBack = find.at - find.low /\ matchlimit \in Int
  BY Ranges, SearchRanges
<1>2. PICK f : f = [find EXCEPT !.left = left]
  OBVIOUS
<1> SUFFICES KeepsSearch(Wider(f, m, i))
  BY <1>2, Zenon
<1>3. /\ f \in Searches /\ f.at = find.at /\ f.low = find.low /\ f.label = find.label
      /\ f.longest = find.longest /\ f.back = find.back
  BY <1>1, <1>2 DEF Searches
<1>4. CASE ~(m.len > f.longest)
  <2>1. Wider(f, m, i) = f
    BY <1>4 DEF Wider
  <2>2. f.longest \in Nat
    BY <1>3 DEF Searches
  <2> QED
    BY <1>3, <2>1, <2>2 DEF KeepsSearch
<1>5. CASE m.len > f.longest
  <2>1. m # NoMatch
    <3>1. NoMatch.len = 0
      BY DEF NoMatch
    <3>2. f.longest \in Nat
      BY <1>3 DEF Searches
    <3> QED
      BY <1>5, <3>1, <3>2
  <2>2. PICK n \in Nat, b \in Nat :
          m = Measure(n, b) /\ b <= lookBack /\ find.at + MINMATCH + n <= matchlimit
    BY <2>1 DEF Measures
  <2>3. m.len = 4 + n + b /\ m.back = b
    BY <2>2 DEF Measure, MINMATCH
  <2>4. PICK o \in Int : o = Index(f.at) - i
    <3>1. f.at \in Nat /\ hc.prefixStart \in Int /\ hc.dictLimit \in Nat
      BY <1>3, Ranges DEF Searches
    <3> QED
      BY <3>1 DEF Index, IndexIn
  <2>5. PICK l \in Nat : l = m.len
    BY <2>3
  <2>6. PICK g : g = [f EXCEPT !.longest = l, !.off = o, !.back = b]
    OBVIOUS
  <2>7. Wider(f, m, i) = g
    BY <1>5, <2>3, <2>4, <2>5, <2>6 DEF Wider
  <2>8. /\ g \in Searches /\ g.at = f.at /\ g.low = f.low /\ g.label = f.label
        /\ g.longest = l /\ g.back = b
    BY <1>3, <2>6 DEF Searches
  <2>9. f.at \in Nat /\ f.longest \in Nat
    BY <1>3 DEF Searches
  <2>10. g.longest >= find.longest
    BY <1>3, <1>5, <2>5, <2>8, <2>9
  <2>11. g.at - g.back + g.longest \in g.at + MINMATCH..matchlimit
    <3>1. find.at + 4 + n <= matchlimit
      BY <2>2 DEF MINMATCH
    <3>2. g.at = find.at /\ g.back = b /\ g.longest = 4 + n + b /\ find.at \in Nat
      BY <1>3, <2>3, <2>5, <2>8, <2>9
    <3> QED
      BY <1>1, <3>1, <3>2 DEF MINMATCH
  <2> QED
    BY <1>1, <1>3, <2>2, <2>7, <2>8, <2>10, <2>11 DEF KeepsSearch
<1> QED
  BY <1>4, <1>5

\* The runs of one byte go no further than they may.
LEMMA PatternBounds ==
  ASSUME NEW p \in Int, NEW limit \in Int, NEW b
  PROVE  /\ LZ4HC_countPattern(p, limit, b) \in Nat
         /\ LZ4HC_countPattern(p, limit, b) <= MaxOf(0, limit - p)
<1> DEFINE n == MaxOf(0, limit - p)
           Stops(k) == k = n \/ Text(p + k) # b
           Ok(k) == Stops(k) /\ \A i \in 0..k - 1 : Text(p + i) = b
           S == {k \in 0..n : Stops(k)}
<1>1. n \in Nat
  BY DEF MaxOf
<1>2. n \in S /\ S \subseteq Nat
  BY <1>1
<1>3. PICK k \in S : \A y \in S : k <= y
  BY <1>2, LeastExists
<1>4. k \in 0..n /\ Stops(k)
  OBVIOUS
<1>5. ASSUME NEW i \in 0..k - 1 PROVE Text(p + i) = b
  <2>1. i \in 0..n /\ i < k
    BY <1>1, <1>4
  <2>2. i \notin S
    BY <2>1, <1>3
  <2> QED
    BY <2>1, <2>2
<1>6. \E j \in 0..n : Ok(j)
  BY <1>4, <1>5
<1>7. LZ4HC_countPattern(p, limit, b) = CHOOSE j \in 0..n : Ok(j)
  BY DEF LZ4HC_countPattern
<1> HIDE DEF n, Ok
<1> QED
  BY <1>1, <1>6, <1>7 DEF n

\* A run of one byte is counted back to the start of its segment at most.
LEMMA ReverseBounds ==
  ASSUME NEW p \in Int, NEW first \in Int, NEW b
  PROVE  /\ LZ4HC_reverseCountPattern(p, first, b) \in Nat
         /\ LZ4HC_reverseCountPattern(p, first, b) <= MaxOf(0, p - first)
<1> DEFINE n == MaxOf(0, p - first)
           Stops(k) == k = n \/ Text(p - k - 1) # b
           Ok(k) == Stops(k) /\ \A i \in 1..k : Text(p - i) = b
           S == {k \in 0..n : Stops(k)}
<1>1. n \in Nat
  BY DEF MaxOf
<1>2. n \in S /\ S \subseteq Nat
  BY <1>1
<1>3. PICK k \in S : \A y \in S : k <= y
  BY <1>2, LeastExists
<1>4. k \in 0..n /\ Stops(k)
  OBVIOUS
<1>5. ASSUME NEW i \in 1..k PROVE Text(p - i) = b
  <2>1. i - 1 \in 0..n /\ i - 1 < k
    BY <1>1, <1>4
  <2>2. i - 1 \notin S
    BY <2>1, <1>3
  <2>3. Text(p - (i - 1) - 1) = b
    BY <2>1, <2>2
  <2>4. p - (i - 1) - 1 = p - i
    BY <1>1, <1>4
  <2> QED
    BY <2>3, <2>4
<1>6. \E j \in 0..n : Ok(j)
  BY <1>4, <1>5
<1>7. LZ4HC_reverseCountPattern(p, first, b) = CHOOSE j \in 0..n : Ok(j)
  BY DEF LZ4HC_reverseCountPattern
<1> HIDE DEF n, Ok
<1> QED
  BY <1>1, <1>6, <1>7 DEF n

\* What does not concern the longest match.
LEMMA ElsewhereKeeps ==
  ASSUME NEW f, KeepsSearch(f), NEW x \in Int, NEW y \in Nat
  PROVE  KeepsSearch([f EXCEPT !.index = x]) /\ KeepsSearch([f EXCEPT !.chainPos = y])
<1>1. f \in Searches
  BY DEF KeepsSearch
<1>2. PICK g, h : g = [f EXCEPT !.index = x] /\ h = [f EXCEPT !.chainPos = y]
  OBVIOUS
<1>3. /\ g \in Searches /\ g.at = f.at /\ g.low = f.low /\ g.label = f.label
      /\ g.longest = f.longest /\ g.back = f.back
  BY <1>1, <1>2 DEF Searches
<1>4. /\ h \in Searches /\ h.at = f.at /\ h.low = f.low /\ h.label = f.label
      /\ h.longest = f.longest /\ h.back = f.back
  BY <1>1, <1>2 DEF Searches
<1>5. KeepsSearch(g) /\ KeepsSearch(h)
  BY <1>3, <1>4 DEF KeepsSearch
<1> QED
  BY <1>2, <1>5, Zenon

\* The best chain: how far it jumps, and which one it is.
LEMMA BestChainType ==
  ASSUME Typed, NEW i \in Int, NEW len \in Nat
  PROVE  BestChain(i, len).dist \in Nat /\ BestChain(i, len).pos \in Nat
<1> DEFINE G      == [at : Nat, accel : Nat, dist : Nat, pos : Nat]
           Add(s, k) ==
             LET d == NextDelta(hc, i + s.at)
             IN  IF s.at >= len - MINMATCH + 1 THEN s
                 ELSE IF d > s.dist
                 THEN [at |-> s.at + (s.accel \div 16), accel |-> 16, dist |-> d, pos |-> s.at]
                 ELSE [s EXCEPT !.at = @ + (s.accel \div 16), !.accel = @ + 1]
           base   == [at |-> 0, accel |-> 16, dist |-> 1, pos |-> find.chainPos]
           N      == MaxOf(0, len - MINMATCH + 1)
           seq    == [k \in 1..N |-> k]
           Is(it) == it = [s \in SUBSET (DOMAIN seq) |->
                             IF s = {} THEN base ELSE Add(it[s \ {Max(s)}], seq[Max(s)])]
           it     == CHOOSE it : Is(it)
<1>1. BestChain(i, len) = it[DOMAIN seq]
  BY DEF BestChain, FoldLeft, MapThenFoldSet
<1>2. ASSUME NEW s \in G, NEW k PROVE Add(s, k) \in G
  <2>1. hc.chainTable \in ChainTables
    BY StateParts DEF Typed
  <2>2. PICK d \in Nat : d = NextDelta(hc, i + s.at)
    BY <2>1, NextDeltaType
  <2>3. PICK a \in Nat : a = s.at + (s.accel \div 16)
    OBVIOUS
  <2>4. PICK t \in G : t = [s EXCEPT !.at = a, !.accel = @ + 1]
    <3>1. PICK e \in Nat : e = s.accel + 1
      OBVIOUS
    <3>2. [s EXCEPT !.at = a, !.accel = e] \in G
      BY ONLY s \in G, a \in Nat, e \in Nat
    <3>3. [s EXCEPT !.at = a, !.accel = @ + 1] = [s EXCEPT !.at = a, !.accel = e]
      BY <3>1
    <3> QED
      BY <3>2, <3>3
  <2>5. Add(s, k) = IF s.at >= len - MINMATCH + 1 THEN s
                    ELSE IF d > s.dist THEN [at |-> a, accel |-> 16, dist |-> d, pos |-> s.at]
                    ELSE t
    BY <2>2, <2>3, <2>4
  <2> HIDE DEF Add
  <2> QED
    BY <2>5
<1>3. base \in G
  BY DEF Typed, Searches
<1> HIDE DEF Add, G, base
<1>4. PICK n \in Nat : N = n
  BY DEF MaxOf, MINMATCH
<1>5. DOMAIN seq = 1..n
  BY <1>4
<1> HIDE DEF seq
<1>6. \E f : Is(f)
  <2> DEFINE g == [x \in (1..n) \X G |-> Add(x[2], seq[x[1]])]
  <2>1. g \in [(1..n) \X G -> G]
    BY <1>2
  <2>2. PICK f \in [SUBSET (1..n) -> G] : Folds(f, n, base, g)
    <3> HIDE DEF g
    <3> QED
      BY <1>3, <2>1, FoldExists
  <2>3. ASSUME NEW s \in SUBSET (1..n), s # {}
        PROVE  g[<<Max(s), f[s \ {Max(s)}]>>] = Add(f[s \ {Max(s)}], seq[Max(s)])
    <3>1. PICK m \in 1..n : m = Max(s)
      BY <2>3, MaxIsOne
    <3>2. PICK u \in G : u = f[s \ {m}]
      OBVIOUS
    <3>3. g[<<m, u>>] = Add(u, seq[m])
      OBVIOUS
    <3> HIDE DEF g
    <3> QED
      BY <3>1, <3>2, <3>3
  <2> HIDE DEF g
  <2>4. Is(f)
    BY <1>5, <2>2, <2>3 DEF Folds
  <2> QED
    BY <2>4
<1>7. Is(it)
  <2> HIDE DEF Is
  <2> QED
    BY <1>6
<1>8. \A s \in SUBSET (1..n) :
        IF s = {} THEN it[s] \in G ELSE it[s \ {Max(s)}] \in G => it[s] \in G
  <2> SUFFICES ASSUME NEW s \in SUBSET (1..n)
               PROVE  IF s = {} THEN it[s] \in G ELSE it[s \ {Max(s)}] \in G => it[s] \in G
    OBVIOUS
  <2> HIDE DEF it
  <2>1. it[s] = IF s = {} THEN base ELSE Add(it[s \ {Max(s)}], seq[Max(s)])
    BY <1>5, <1>7
  <2>2. CASE s = {}
    BY <1>3, <2>1, <2>2
  <2>3. CASE s # {}
    BY <1>2, <2>1, <2>3
  <2> QED
    BY <2>2, <2>3
<1> HIDE DEF it, Is
<1>9. it[1..n] \in G
  BY <1>8, FoldType
<1>10. PICK r \in G : r = it[1..n]
  BY <1>9
<1>11. r.dist \in Nat /\ r.pos \in Nat
  BY DEF G
<1> QED
  BY <1>1, <1>5, <1>10, <1>11

\* A jump within a run of one byte.
LEMMA SkipKeeps ==
  ASSUME Typed, Accepted, SearchOK, pc = "search", NEW f, KeepsSearch(f),
         NEW i \in Int, i >= LowestMatchIndex(f.at)
  PROVE  KeepsSearch(SkipPattern(f, i))
<1>1. /\ find \in Searches /\ lookBack \in Nat /\ lookBack = find.at - find.low
      /\ matchlimit \in Int /\ mflimit = matchlimit - 7 /\ find.at <= mflimit
      /\ hc.prefixStart \in Int /\ hc.dictLimit \in Nat /\ hc.lowLimit \in Nat /\ hc.dictStart \in Int
  BY Ranges, SearchRanges
<1>2. /\ f \in Searches /\ f.at = find.at /\ f.low = find.low /\ f.label = find.label
      /\ f.longest >= find.longest
  BY DEF KeepsSearch
<1>3. PICK p \in Nat : p = f.at /\ p = find.at /\ p + 4 <= matchlimit
  <2>1. find.at \in Nat
    BY <1>1 DEF Searches
  <2> QED
    BY <1>1, <1>2, <2>1
<1>4. PICK b : b = Text(f.at)
  OBVIOUS
<1>5. PICK lowest \in Int : lowest = LowestMatchIndex(f.at) /\ lowest <= i
  <2>1. LowestMatchIndex(p) \in Int
    BY <1>1, Constants DEF LowestMatchIndex, Index, IndexIn, MaxOf
  <2> QED
    BY <1>3, <2>1
<1>6. PICK src \in Nat : src = MINMATCH + LZ4HC_countPattern(f.at + MINMATCH, matchlimit, b)
                         /\ p + src <= matchlimit /\ 4 <= src
  <2>1. PICK n \in Nat : n = LZ4HC_countPattern(p + 4, matchlimit, b) /\ n <= MaxOf(0, matchlimit - (p + 4))
    BY <1>1, PatternBounds
  <2>2. MaxOf(0, matchlimit - (p + 4)) = matchlimit - (p + 4)
    BY <1>1, <1>3 DEF MaxOf
  <2> QED
    BY <1>1, <1>3, <2>1, <2>2 DEF MINMATCH
<1>7. PICK extDict : extDict = (i < hc.dictLimit)
  OBVIOUS
<1>8. PICK q \in Int, end \in Int, start \in Int, dEnd \in Int :
        /\ q = IF extDict THEN DictAt(i) ELSE PrefixAt(i)
        /\ end = IF extDict THEN dictEnd ELSE matchlimit
        /\ start = IF extDict THEN hc.dictStart ELSE hc.prefixStart
        /\ dEnd = dictEnd
  <2>1. /\ DictAt(i) \in Int /\ PrefixAt(i) \in Int /\ dictEnd \in Int
    BY <1>1 DEF DictAt, PrefixAt, dictEnd
  <2> QED
    BY <1>1, <2>1
<1>9. PICK inSeg \in Nat : inSeg = MINMATCH + LZ4HC_countPattern(q + MINMATCH, end, b) /\ 4 <= inSeg
  <2>1. PICK n \in Nat : n = LZ4HC_countPattern(q + 4, end, b)
    BY <1>8, PatternBounds
  <2> QED
    BY <2>1 DEF MINMATCH
<1>10. PICK forward \in Nat : forward = (IF extDict /\ q + inSeg = dictEnd
                                         THEN inSeg + LZ4HC_countPattern(hc.prefixStart, matchlimit, b)
                                         ELSE inSeg) /\ 4 <= forward
  <2>1. PICK n \in Nat : n = LZ4HC_countPattern(hc.prefixStart, matchlimit, b)
    BY <1>1, PatternBounds
  <2> QED
    BY <1>9, <2>1
<1>11. PICK before \in Nat : before = LZ4HC_reverseCountPattern(q, start, b)
  BY <1>8, ReverseBounds
<1>12. PICK all \in Nat : all = IF ~extDict /\ q - before = hc.prefixStart /\ hc.lowLimit < hc.dictLimit
                                THEN before + LZ4HC_reverseCountPattern(dictEnd, hc.dictStart, b)
                                ELSE before
  <2>1. PICK n \in Nat : n = LZ4HC_reverseCountPattern(dEnd, hc.dictStart, b)
    BY <1>1, <1>8, ReverseBounds
  <2> QED
    BY <1>8, <1>11, <2>1
<1>13. PICK back \in Nat : back = i - MaxOf(i - all, lowest)
  BY <1>5 DEF MaxOf
<1>14. PICK best \in Int, first \in Int, maxML \in Nat :
         /\ best = i + forward - src /\ first = i - back /\ maxML = MinOf(back + forward, src)
         /\ 4 <= maxML /\ p + maxML <= matchlimit
  <2>1. /\ i + forward - src \in Int /\ i - back \in Int /\ MinOf(back + forward, src) \in Nat
        /\ 4 <= MinOf(back + forward, src) /\ p + MinOf(back + forward, src) <= matchlimit
    BY <1>1, <1>6, <1>10 DEF MinOf
  <2> QED
    BY <2>1
<1>15. PICK off \in Int : off = Index(f.at) - first
  BY <1>1, <1>3 DEF Index, IndexIn
<1>16. PICK taken : taken = IF f.longest < maxML THEN [f EXCEPT !.longest = maxML, !.off = off] ELSE f
  OBVIOUS
<1>17. PICK after \in Int : after = Back(first, NextDelta(hc, first))
  <2>1. NextDelta(hc, first) \in Nat
    BY NextDeltaType, StateParts DEF Typed
  <2> QED
    BY <2>1, BackType
<1>18. PICK r : r = SkipPattern(f, i)
  OBVIOUS
<1>19. \/ r = [f EXCEPT !.index = best] \/ r = [f EXCEPT !.index = hc.dictLimit]
       \/ r = [f EXCEPT !.index = first] \/ r = [f EXCEPT !.index = Over]
       \/ ~(lookBack > 0) /\ r = [taken EXCEPT !.index = after]
  BY <1>4, <1>5, <1>6, <1>7, <1>8, <1>9, <1>10, <1>11, <1>12, <1>13, <1>14, <1>15, <1>16, <1>17, <1>18
     DEF SkipPattern
<1>20. ~(lookBack > 0) => KeepsSearch(taken)
  <2>1. SUFFICES ASSUME lookBack = 0, f.longest < maxML PROVE KeepsSearch(taken)
    BY <1>1, <1>16
  <2>2. PICK g : g = [f EXCEPT !.longest = maxML, !.off = off]
    OBVIOUS
  <2>3. /\ g \in Searches /\ g.at = f.at /\ g.low = f.low /\ g.label = f.label
        /\ g.longest = maxML /\ g.back = f.back
    BY <1>2, <2>2 DEF Searches
  <2>4. f.back = 0
    <3>1. find.back <= find.at - find.low
      BY SearchRanges
    <3>2. f.back <= lookBack
      BY <1>1, <3>1 DEF KeepsSearch
    <3>3. f.back \in Nat
      BY <1>2 DEF Searches
    <3> QED
      BY <2>1, <3>2, <3>3
  <2>5. find.longest \in Nat /\ f.longest \in Nat
    BY <1>1, <1>2 DEF Searches
  <2>6. g.longest >= find.longest
    BY <1>2, <2>1, <2>3, <2>5
  <2>7. g.back <= find.at - find.low
    BY <1>1, <2>1, <2>3, <2>4
  <2>8. g.at - g.back + g.longest \in g.at + MINMATCH..matchlimit
    <3>1. g.at = p /\ g.back = 0 /\ g.longest = maxML
      BY <1>3, <2>3, <2>4
    <3>2. p - 0 + maxML \in p + MINMATCH..matchlimit
      BY <1>1, <1>14 DEF MINMATCH
    <3> QED
      BY <3>1, <3>2
  <2>9. KeepsSearch(g)
    BY <1>2, <2>3, <2>6, <2>7, <2>8 DEF KeepsSearch
  <2> QED
    BY <1>16, <2>1, <2>2, <2>9, Zenon
<1>21. hc.dictLimit \in Int /\ Over \in Int
  BY <1>1 DEF Over
<1>22. /\ KeepsSearch([f EXCEPT !.index = best]) /\ KeepsSearch([f EXCEPT !.index = hc.dictLimit])
       /\ KeepsSearch([f EXCEPT !.index = first]) /\ KeepsSearch([f EXCEPT !.index = Over])
  BY <1>21, ElsewhereKeeps
<1>23. ~(lookBack > 0) => KeepsSearch([taken EXCEPT !.index = after])
  BY <1>20, ElsewhereKeeps
<1> QED
  BY <1>18, <1>19, <1>22, <1>23, Zenon

\* The next candidate.
LEMMA CandidateKeeps ==
  ASSUME Typed, Accepted, SearchOK, SearchCandidate
  PROVE  KeepsSearch(find')
<1>1. pc = "search"
  BY DEF SearchCandidate
<1>2. find \in Searches
  BY DEF Typed
<1>3. PICK i \in Int, left \in Int : i = find.index /\ left = find.left - 1
  BY <1>2 DEF Searches
<1>4. PICK m : m = Measured(i) /\ Measures(m)
  BY <1>1, MeasuredBounds
<1>5. PICK f : f = Wider([find EXCEPT !.left = @ - 1], m, i)
  OBVIOUS
<1>6. KeepsSearch(f)
  <2>1. [find EXCEPT !.left = @ - 1] = [find EXCEPT !.left = left]
    BY <1>3
  <2>2. KeepsSearch(Wider([find EXCEPT !.left = left], m, i))
    BY <1>1, <1>4, WiderKeeps
  <2> QED
    BY <1>5, <2>1, <2>2, Zenon
<1>7. f \in Searches /\ f.at = find.at
  BY <1>6 DEF KeepsSearch
<1>8. PICK d \in Nat, pos \in Nat :
        \E chain : chain = BestChain(i, f.longest) /\ d = chain.dist /\ pos = chain.pos
  <2>1. PICK l \in Nat : l = f.longest
    BY <1>7 DEF Searches
  <2>2. BestChain(i, l).dist \in Nat /\ BestChain(i, l).pos \in Nat
    BY BestChainType
  <2> QED
    BY <2>1, <2>2
<1>9. PICK swap : swap = (call.chainSwap /\ m.len = f.longest /\ i + f.longest <= Index(f.at))
  OBVIOUS
<1>10. PICK g : g = IF swap THEN [f EXCEPT !.chainPos = pos] ELSE f
  OBVIOUS
<1>11. KeepsSearch(g)
  <2>1. KeepsSearch([f EXCEPT !.chainPos = pos])
    BY <1>6, ElsewhereKeeps
  <2> QED
    BY <1>6, <1>10, <2>1, Zenon
<1>12. g \in Searches /\ g.at = find.at
  BY <1>11 DEF KeepsSearch
<1>13. \/ find' = [g EXCEPT !.index = Back(i, d)]
       \/ InPattern(g, i) /\ find' = SkipPattern(g, i - 1)
       \/ find' = Follow(g)
  BY <1>3, <1>4, <1>5, <1>8, <1>9, <1>10 DEF SearchCandidate
<1>14. CASE find' = [g EXCEPT !.index = Back(i, d)]
  <2>1. Back(i, d) \in Int
    BY BackType
  <2> QED
    BY <1>11, <1>14, <2>1, ElsewhereKeeps
<1>15. CASE InPattern(g, i) /\ find' = SkipPattern(g, i - 1)
  <2>1. PICK j \in Int : j = i - 1
    OBVIOUS
  <2>2. j >= LowestMatchIndex(g.at)
    BY <1>12, <1>15, <2>1 DEF InPattern
  <2>3. KeepsSearch(SkipPattern(g, j))
    BY <1>1, <1>11, <2>2, SkipKeeps
  <2> QED
    BY <1>15, <2>1, <2>3
<1>16. CASE find' = Follow(g)
  <2>1. g.index \in Int /\ g.chainPos \in Nat
    BY <1>12 DEF Searches
  <2>2. PICK n \in Nat : n = NextDelta(hc, g.index + g.chainPos)
    <3>1. PICK j \in Int : j = g.index + g.chainPos
      BY <2>1
    <3>2. hc.chainTable \in ChainTables
      BY StateParts DEF Typed
    <3>3. NextDelta(hc, j) \in Nat
      BY <3>2, NextDeltaType
    <3> QED
      BY <3>1, <3>3
  <2>3. PICK x \in Int : x = IF n > g.index THEN g.index - n + U32Size ELSE g.index - n
    BY <2>1 DEF U32Size
  <2>4. find' = [g EXCEPT !.index = x]
    BY <1>16, <2>2, <2>3 DEF Follow
  <2> QED
    BY <1>11, <2>4, ElsewhereKeeps
<1> QED
  BY <1>13, <1>14, <1>15, <1>16

\* A step that encodes nothing.
LEMMA CallKept ==
  ASSUME HCInv, pc # "idle", UNCHANGED <<text, call, anchor, out, reach, inputConsumed, result>>,
         ip' \in Nat, ip <= ip', StateOK(hc'), hc'.end = hc.end, hc'.prefixStart = hc.prefixStart,
         hc'.dictCtx = hc.dictCtx, find' \in Searches, pc' \in Labels, pc' # "idle"
  PROVE  /\ Typed' /\ Accepted' /\ RoomLeft' /\ Filled'
         /\ matchlimit' = matchlimit /\ mflimit' = mflimit /\ source' = source
<1>1. Typed /\ Accepted /\ RoomLeft
  BY DEF HCInv
<1>2. /\ source' = source /\ iend' = iend /\ op' = op /\ (limited' <=> limited) /\ (filling' <=> filling)
      /\ matchlimit' = matchlimit /\ mflimit' = mflimit
  BY DEF source, iend, op, limited, filling, matchlimit, mflimit
<1>3. Typed'
  BY <1>1 DEF Typed, CallTyped
<1>4. Accepted'
  <2>1. anchor <= ip /\ anchor \in Nat /\ ip \in Nat
    BY <1>1, Ranges
  <2>2. anchor <= ip'
    BY <2>1
  <2> QED
    BY <1>1, <1>2, <2>2 DEF Accepted
<1>5. RoomLeft'
  BY <1>1, <1>2 DEF RoomLeft
<1>6. Filled'
  BY DEF Filled
<1> QED
  BY <1>2, <1>3, <1>4, <1>5, <1>6

\* The search has moved on, or it is over.
LEMMA SearchKeeps ==
  ASSUME HCInv, pc \in {"search", "search_dict"},
         UNCHANGED <<text, call, ip, anchor, out, reach, inputConsumed, result, hc, choices, pricing>>,
         KeepsSearch(find'), pc' \in {pc, "search_dict", find.label},
         pc' = "search_dict" => call.usingDictCtx
  PROVE  HCInv'
<1>1. /\ Typed /\ Accepted /\ SearchOK /\ ChainOK /\ PlanOK
      /\ UNCHANGED <<m0, m1, m2, opt, cur, last_match_pos, plan>>
  BY DEF HCInv, choices, pricing
<1>2. /\ find \in Searches /\ find.label \in Purposes /\ find.longest > 0
      /\ find.low <= find.at /\ find.at <= mflimit /\ find.back <= find.at - find.low
      /\ find.longest > Initial =>
           find.at - find.back + find.longest \in find.at + MINMATCH..matchlimit
  BY <1>1, SearchRanges
<1>3. /\ find' \in Searches
      /\ find'.at = find.at /\ find'.low = find.low /\ find'.label = find.label
      /\ find'.longest >= find.longest
      /\ \/ find'.longest = find.longest /\ find'.back = find.back
         \/ /\ find'.back <= find.at - find.low
            /\ find'.at - find'.back + find'.longest \in find'.at + MINMATCH..matchlimit
  BY DEF KeepsSearch
<1>4. pc' \in Labels /\ pc' # "idle"
  BY <1>2 DEF Labels, Purposes
<1>5. StateOK(hc') /\ ip' \in Nat /\ ip <= ip'
  BY <1>1 DEF Typed
<1>6. /\ Typed' /\ Accepted' /\ RoomLeft' /\ Filled'
      /\ matchlimit' = matchlimit /\ mflimit' = mflimit
  BY <1>3, <1>4, <1>5, CallKept
<1>7. \A l \in Purposes : For(l)' <=> For(l)
  BY <1>2, <1>3 DEF For, Purposes
<1>8. Initial' = Initial
  BY <1>1, <1>7 DEF Initial, Purposes
<1>9. pc' \in {"search", "search_dict"} \cup Purposes
  BY <1>2
<1>10. ChainOK'
  <2>1. (Valid(m0))' <=> Valid(m0)
    BY <1>1, <1>6 DEF Valid, EndOf
  <2>2. (Valid(m1))' <=> Valid(m1)
    BY <1>1, <1>6 DEF Valid, EndOf
  <2>3. (Valid(m2))' <=> Valid(m2)
    BY <1>1, <1>6 DEF Valid, EndOf
  <2>4. For("found2")' <=> For("found2")
    BY <1>7 DEF Purposes
  <2>5. For("found3")' <=> For("found3")
    BY <1>7 DEF Purposes
  <2> QED
    BY <1>1, <1>9, <2>1, <2>2, <2>3, <2>4, <2>5 DEF ChainOK, EndOf, Purposes
<1>11. PlanOK'
  <2>1. For("opt_found")' <=> For("opt_found")
    BY <1>7 DEF Purposes
  <2>2. pc' # "opt_next" /\ pc' # "opt_encode"
    BY <1>9 DEF Purposes
  <2> QED
    BY <1>1, <1>6, <2>1, <2>2 DEF PlanOK
<1>12. SearchOK'
  <2>1. pc' \in {"search", "search_dict"} =>
          /\ find'.label \in Purposes /\ (find'.label = "mid_found" => pc' = "search_dict")
          /\ pc' = "search_dict" => call'.usingDictCtx
          /\ find'.longest > 0
    <3>1. find'.longest > 0
      BY <1>2, <1>3 DEF Searches
    <3>2. pc' = "search" => pc = "search"
      BY <1>2 DEF Purposes
    <3> QED
      BY <1>1, <1>2, <1>3, <3>1, <3>2 DEF SearchOK
  <2>2. /\ For("found1") \/ For("mid_found") \/ For("opt_first") => find.low = ip /\ find.at = ip
        /\ For("found2") => find.low = m1.at /\ find.at = EndOf(m1) - 2
        /\ For("found3") => find.low = m2.at /\ find.at = EndOf(m2) - 3
        /\ For("opt_found") => find.low = ip + cur /\ find.at = ip + cur
    BY <1>1, <1>2 DEF SearchOK
  <2>3. /\ For("found1")' <=> For("found1")
        /\ For("found2")' <=> For("found2")
        /\ For("found3")' <=> For("found3")
        /\ For("mid_found")' <=> For("mid_found")
        /\ For("opt_first")' <=> For("opt_first")
        /\ For("opt_found")' <=> For("opt_found")
    BY <1>7 DEF Purposes
  <2>4. /\ find'.low <= find'.at /\ find'.at <= mflimit' /\ find'.back <= find'.at - find'.low
        /\ find'.longest > Initial' =>
             find'.at - find'.back + find'.longest \in find'.at + MINMATCH..matchlimit'
    BY <1>2, <1>3, <1>6, <1>8
  <2> QED
    BY <1>1, <1>3, <2>1, <2>2, <2>3, <2>4 DEF SearchOK, EndOf
<1> QED
  BY <1>4, <1>6, <1>10, <1>11, <1>12 DEF HCInv

\* A step of a search.
LEMMA SearchInv ==
  ASSUME HashesInTable, HCInv, SearchStep, UNCHANGED <<choices, pricing>>
  PROVE  HCInv'
<1>1. /\ UNCHANGED <<text, call, ip, anchor, out, reach, inputConsumed>>
      /\ SearchCandidate \/ ChainEnds \/ SearchAttached
  BY DEF SearchStep
<1>2. pc \in {"search", "search_dict"}
  BY <1>1 DEF SearchCandidate, ChainEnds, SearchAttached
<1>3. Typed /\ Accepted /\ SearchOK
  BY <1>2 DEF HCInv
<1>4. find \in Searches /\ find.label \in Purposes
  BY <1>2, <1>3, SearchRanges
<1>5. KeepsSearch(find)
  BY <1>4 DEF KeepsSearch, Searches
<1>6. CASE SearchCandidate
  <2>1. KeepsSearch(find')
    BY <1>3, <1>6, CandidateKeeps
  <2>2. UNCHANGED <<hc, pc, result>> /\ pc = "search"
    BY <1>6 DEF SearchCandidate
  <2> QED
    BY <1>1, <1>2, <2>1, <2>2, SearchKeeps
<1>7. CASE ChainEnds
  <2>1. UNCHANGED <<hc, result>> /\ pc = "search"
    BY <1>7 DEF ChainEnds, Goto
  <2>2. CASE /\ call.usingDictCtx /\ find' = SearchDictionary(find) /\ pc' = "search_dict"
    <3>1. StateOK(hc) /\ hc.dictCtx # NoDictCtx /\ text \in Seq(Byte)
      BY <1>3, <2>2 DEF Accepted, Typed
    <3>2. hc.dictCtx.hashTable \in HashTables
      BY <3>1, StateParts, DictIsState
    <3>3. PICK t \in HashTables : t = hc.dictCtx.hashTable
      BY <3>2
    <3>4. PICK x \in Int : x = t[LZ4HC_hashPtr(find.at)]
      BY <3>1, EntryType
    <3>5. find' = [find EXCEPT !.index = x]
      BY <2>2, <3>3, <3>4 DEF SearchDictionary
    <3>6. KeepsSearch(find')
      BY <1>5, <3>5, ElsewhereKeeps
    <3> QED
      BY <1>1, <1>2, <2>1, <2>2, <3>6, SearchKeeps
  <2>3. CASE pc' = find.label /\ UNCHANGED find
    <3>1. KeepsSearch(find')
      BY <1>5, <2>3
    <3>2. pc' # "search_dict"
      BY <1>4, <2>3 DEF Purposes
    <3> QED
      BY <1>1, <1>2, <2>1, <2>3, <3>1, <3>2, SearchKeeps
  <2> QED
    BY <1>7, <2>2, <2>3 DEF ChainEnds, Goto
<1>8. CASE SearchAttached
  <2>1. UNCHANGED <<hc, result>> /\ pc = "search_dict"
    BY <1>8 DEF SearchAttached, Goto
  <2>2. call.usingDictCtx
    BY <1>3, <2>1 DEF SearchOK
  <2>3. StateOK(hc) /\ StateOK(hc.dictCtx)
    <3>1. hc.dictCtx # NoDictCtx /\ StateOK(hc)
      BY <1>3, <2>2 DEF Accepted, Typed
    <3> QED
      BY <3>1, StateParts, DictIsState
  <2>4. PICK i \in Int, left \in Int, far \in Int :
          i = find.index /\ left = find.left - 1 /\ far = FromAttached(i)
    <3>1. find.index \in Int /\ find.left \in Int
      BY <1>4 DEF Searches
    <3>2. hc.lowLimit \in Nat /\ EndIndex(hc.dictCtx) \in Nat
      BY <2>3, StateParts
    <3> QED
      BY <3>1, <3>2 DEF FromAttached
  <2>5. PICK m : m = InAttached(i) /\ Measures(m)
    BY <1>3, <2>1, AttachedBounds
  <2>6. PICK f : f = Wider([find EXCEPT !.left = @ - 1], m, far)
    OBVIOUS
  <2>7. KeepsSearch(f)
    <3>1. [find EXCEPT !.left = @ - 1] = [find EXCEPT !.left = left]
      BY <2>4
    <3>2. KeepsSearch(Wider([find EXCEPT !.left = left], m, far))
      BY <1>2, <1>3, <2>5, WiderKeeps
    <3> QED
      BY <2>6, <3>1, <3>2, Zenon
  <2>8. PICK x \in Int : x = f.index - NextDelta(hc.dictCtx, i)
    <3>1. f.index \in Int
      BY <2>7 DEF KeepsSearch, Searches
    <3>2. hc.dictCtx.chainTable \in ChainTables
      BY <2>3, StateParts
    <3>3. NextDelta(hc.dictCtx, i) \in Nat
      BY <3>2, NextDeltaType
    <3> QED
      BY <3>1, <3>3
  <2>9. \/ find' = [f EXCEPT !.index = x] /\ pc' = pc
        \/ UNCHANGED find /\ pc' = find.label
    BY <1>8, <2>4, <2>5, <2>6, <2>8 DEF SearchAttached, Goto
  <2>10. KeepsSearch(find')
    <3>1. KeepsSearch([f EXCEPT !.index = x])
      BY <2>7, ElsewhereKeeps
    <3> QED
      BY <1>5, <2>9, <3>1, Zenon
  <2>11. pc' \in {pc, "search_dict", find.label}
    BY <2>9
  <2> QED
    BY <1>1, <1>2, <2>1, <2>2, <2>10, <2>11, SearchKeeps
<1> QED
  BY <1>1, <1>6, <1>7, <1>8

\* A search begins.
LEMMA StartSearchOK ==
  ASSUME HashesInTable, Typed, Accepted,
         NEW p \in Nat, NEW low \in Nat, NEW longest \in Nat, NEW label \in Labels,
         source <= p, p <= iend, StartSearch(p, low, longest, label)
  PROVE  /\ StateOK(hc') /\ hc'.end = hc.end /\ hc'.prefixStart = hc.prefixStart
         /\ hc'.dictCtx = hc.dictCtx
         /\ find' \in Searches /\ find'.at = p /\ find'.low = low /\ find'.longest = longest
         /\ find'.back = 0 /\ find'.label = label
         /\ pc' = "search" /\ result' = result
<1>1. /\ source \in Nat /\ iend \in Nat /\ hc.prefixStart \in Int /\ hc.prefixStart <= source
      /\ hc.end = iend
  BY Ranges
<1>2. StateOK(hc) /\ text \in Seq(Byte) /\ call.nbSearches \in Nat
  BY DEF Typed, CallTyped
<1>3. hc.prefixStart <= p /\ p <= hc.end
  BY <1>1
<1>4. hc' = LZ4HC_Insert(hc, p)
  BY DEF StartSearch
<1>5. /\ StateOK(hc') /\ hc'.end = hc.end /\ hc'.prefixStart = hc.prefixStart
      /\ hc'.dictCtx = hc.dictCtx
  BY <1>2, <1>3, <1>4, InsertOK
<1>6. PICK i \in Nat, tries \in Nat : i = hc'.hashTable[LZ4HC_hashPtr(p)] /\ tries = call.nbSearches
  <2>1. hc'.hashTable \in HashTables
    BY <1>5, StateParts
  <2>2. PICK t \in HashTables : t = hc'.hashTable
    BY <2>1
  <2> QED
    BY <1>2, <2>2, EntryType
<1>7. find' = [at |-> p, low |-> low, longest |-> longest, off |-> 0, back |-> 0, index |-> i,
               left |-> tries, chainPos |-> 0, label |-> label]
  BY <1>6 DEF StartSearch, Search
<1>8. /\ find' \in Searches /\ find'.at = p /\ find'.low = low /\ find'.longest = longest
      /\ find'.back = 0 /\ find'.label = label
  BY <1>7 DEF Searches
<1> QED
  BY <1>5, <1>8 DEF StartSearch, Goto

---------------------------------------------------------------------------
(* Encoding.                                                               *)

\* The room a sequence takes that fits up to e.
LEMMA FittingRoom ==
  ASSUME NEW o \in Nat, NEW n \in Nat, NEW ml \in Nat, NEW e \in Int,
         o + 1 + n \div 255 + n + 8 <= e,
         o + (3 + Extra(n) + n) + ml \div 255 + 6 <= e
  PROVE  /\ WildEnd(o + 1 + Extra(n), n) \in Nat /\ WildEnd(o + 1 + Extra(n), n) <= e
         /\ o + 1 + Extra(n) + n + 2 + Extra(ml) <= e - 5
<1>1. n \div 255 \in Nat /\ ml \div 255 \in Nat
  OBVIOUS
<1>2. Extra(n) \in Nat /\ Extra(ml) \in Nat /\ Extra(ml) <= ml \div 255 + 1
  BY ExtraBounds, SMTT(20)
<1>3. o + 1 + n + 8 + n \div 255 <= e
  BY <1>1
<1>4. WildEnd(o + 1 + Extra(n), n) \in Nat /\ WildEnd(o + 1 + Extra(n), n) <= e
  BY <1>3, LiteralsRoom, 0 \in Nat
<1>5. o + 1 + Extra(n) + n + 2 + Extra(ml) <= e - 5
  BY <1>1, <1>2
<1> QED
  BY <1>4, <1>5

\* The room a sequence takes that is not checked: x bytes are encoded before it.
LEMMA UncheckedRoom ==
  ASSUME NEW o \in Nat, NEW n \in Nat, NEW ml \in Nat, NEW cap \in Int, NEW x \in Nat, NEW size \in Nat,
         o <= Bound(x), x + n + 4 + ml + 5 <= size, cap >= size + size \div 255 + 16
  PROVE  /\ WildEnd(o + 1 + Extra(n), n) \in Nat /\ WildEnd(o + 1 + Extra(n), n) <= cap
         /\ o + 1 + Extra(n) + n + 2 + Extra(ml) <= Bound(x + n + (4 + ml))
         /\ o + 1 + Extra(n) + n + 2 + Extra(ml) <= cap
<1>1. x + n + 9 <= size
  OBVIOUS
<1>2. /\ WildEnd(o + 1 + Extra(n), n) \in Nat /\ WildEnd(o + 1 + Extra(n), n) <= cap
      /\ o + 1 + Extra(n) + n <= Bound(x + n) + 2
  BY <1>1, LiteralsRoom
<1>3. PICK y \in Nat, z \in Nat : y = x + n /\ z = x + n + (4 + ml) /\ z <= size
  OBVIOUS
<1>4. PICK d \in Nat, f \in Nat, g \in Nat : d = y \div 255 /\ f = z \div 255 /\ g = size \div 255
  OBVIOUS
<1>5. d <= f /\ f <= g
  BY <1>3, <1>4, DivGrows
<1>6. Extra(ml) \in Nat /\ Extra(n) \in Nat /\ Extra(ml) <= ml
  BY ExtraBounds
<1>7. o + 1 + Extra(n) + n <= y + d + 2
  BY <1>2, <1>3, <1>4 DEF Bound
<1>8. o + 1 + Extra(n) + n + 2 + Extra(ml) <= z + f
  BY <1>3, <1>5, <1>6, <1>7
<1>9. z + f <= cap
  BY <1>3, <1>4, <1>5
<1> QED
  BY <1>2, <1>3, <1>4, <1>6, <1>8, <1>9 DEF Bound

\* The room the last sequence of a dst that is filled takes.
LEMMA LastMatchRoom ==
  ASSUME NEW o \in Nat, NEW n \in Nat, NEW ml \in Nat, NEW cap \in Int, NEW left \in Nat,
         o + 1 + (n + 240) \div 255 + n + left = cap - 8,
         ml <= 14 + left * 255
  PROVE  /\ WildEnd(o + 1 + Extra(n), n) \in Nat /\ WildEnd(o + 1 + Extra(n), n) <= cap
         /\ o + 1 + Extra(n) + n + 2 + Extra(ml) <= cap - 5
<1>1. (n + 240) \div 255 \in Nat
  OBVIOUS
<1>2. /\ Extra(n) \in Nat /\ Extra(n) <= (n + 240) \div 255
      /\ Extra(ml) \in Nat /\ (ml >= 15 => 255 * Extra(ml) <= ml + 240) /\ (ml < 15 => Extra(ml) = 0)
  BY ExtraBounds
<1>3. o + 1 + (n + 240) \div 255 + n + 8 <= cap
  BY <1>1
<1>4. WildEnd(o + 1 + Extra(n), n) \in Nat /\ WildEnd(o + 1 + Extra(n), n) <= cap
  BY <1>3, LiteralsRoom, 0 \in Nat
<1>5. Extra(ml) <= left
  <2>1. CASE ml < 15
    BY <1>2, <2>1
  <2>2. CASE ml >= 15
    <3>1. PICK e \in Nat : e = Extra(ml) /\ 255 * e <= ml + 240
      BY <1>2, <2>2
    <3>2. 255 * e <= 254 + left * 255
      BY <3>1
    <3> QED
      BY <3>1, <3>2
  <2> QED
    BY <2>1, <2>2
<1>6. o + 1 + Extra(n) + n + 2 + Extra(ml) <= cap - 5
  BY <1>1, <1>2, <1>5
<1> QED
  BY <1>4, <1>6

\* The bytes of a sequence.
LEMMA SequenceType ==
  ASSUME text \in Seq(Byte), anchor \in Nat, NEW m \in Matches, anchor <= m.at, m.at <= Len(text),
         4 <= m.len
  PROVE  /\ Literals(m) \in Nat /\ Literals(m) = m.at - anchor /\ m.len - 4 \in Nat
         /\ Extra(Literals(m)) \in Nat /\ Extra(m.len - 4) \in Nat
         /\ BeforeLength(m) = 1 + Extra(Literals(m)) + Literals(m) + 2
         /\ Sequence(m) \in Seq(Byte)
         /\ Len(Sequence(m)) = 1 + Extra(Literals(m)) + Literals(m) + 2 + Extra(m.len - 4)
<1>1. m.at \in Nat /\ m.len \in Nat /\ m.off \in Int
  BY DEF Matches
<1>2. PICK n \in Nat, ml \in Nat : n = Literals(m) /\ n = m.at - anchor /\ ml = m.len - MINMATCH /\ ml = m.len - 4
                                   /\ anchor + n = m.at
  <2>1. Literals(m) = m.at - anchor /\ m.len - MINMATCH = m.len - 4
    BY DEF Literals, MINMATCH
  <2>2. m.at - anchor \in Nat /\ m.len - 4 \in Nat /\ anchor + (m.at - anchor) = m.at
    BY <1>1
  <2> QED
    BY <2>1, <2>2, Zenon
<1>3. PICK t \in Byte : t = 16 * MinOf(n, 15) + MinOf(ml, 15)
  <2>1. 16 * MinOf(n, 15) + MinOf(ml, 15) \in 0..255
    BY DEF MinOf
  <2> QED
    BY <2>1 DEF Byte
<1>4. PICK o1 \in Byte, o2 \in Byte : o1 = m.off % 256 /\ o2 = (m.off \div 256) % 256
  <2>1. PICK x \in Int, y \in Int : x = m.off /\ y = m.off \div 256
    BY <1>1
  <2>2. x % 256 \in 0..255 /\ y % 256 \in 0..255
    OBVIOUS
  <2> QED
    BY <2>1, <2>2 DEF Byte
<1>5. PICK a, b, c, d, e :
        /\ a = <<t>> /\ b = LengthBytes(n) /\ c = SubSeq(text, anchor + 1, m.at) /\ d = <<o1, o2>>
        /\ e = LengthBytes(ml)
  OBVIOUS
<1>6. Extra(n) \in Nat /\ Extra(ml) \in Nat
  BY ExtraBounds
<1>7. /\ a \in Seq(Byte) /\ Len(a) = 1 /\ b \in Seq(Byte) /\ Len(b) = Extra(n)
      /\ d \in Seq(Byte) /\ Len(d) = 2 /\ e \in Seq(Byte) /\ Len(e) = Extra(ml)
  BY <1>5, LengthBytesLen, LengthBytesType
<1>8. c \in Seq(Byte) /\ Len(c) = n
  <2>1. c = SubSeq(text, anchor + 1, anchor + n)
    BY <1>2, <1>5
  <2>2. anchor + n <= Len(text)
    BY <1>2
  <2> QED
    BY <2>1, <2>2, LiteralsType, LiteralsBytes
<1>71. a \in Seq(Byte) /\ Len(a) = 1
  BY <1>7
<1>72. b \in Seq(Byte) /\ Len(b) = Extra(n)
  BY <1>7
<1>73. d \in Seq(Byte) /\ Len(d) = 2
  BY <1>7
<1>74. e \in Seq(Byte) /\ Len(e) = Extra(ml)
  BY <1>7
<1>9. a \o b \in Seq(Byte) /\ Len(a \o b) = 1 + Extra(n)
  BY ONLY <1>71, <1>72, ConcatBytes
<1>10. (a \o b) \o c \in Seq(Byte) /\ Len((a \o b) \o c) = 1 + Extra(n) + n
  BY <1>8, <1>9, ConcatBytes
<1>11. ((a \o b) \o c) \o d \in Seq(Byte) /\ Len(((a \o b) \o c) \o d) = 1 + Extra(n) + n + 2
  BY ONLY <1>73, <1>10, ConcatBytes
<1>12. /\ (((a \o b) \o c) \o d) \o e \in Seq(Byte)
       /\ Len((((a \o b) \o c) \o d) \o e) = 1 + Extra(n) + n + 2 + Extra(ml)
  BY ONLY <1>74, <1>11, ConcatBytes
<1>13. Sequence(m) = (((a \o b) \o c) \o d) \o e
  <2>1. Sequence(m) = (((<<16 * MinOf(n, 15) + MinOf(ml, 15)>> \o LengthBytes(n))
                         \o SubSeq(text, anchor + 1, m.at))
                         \o <<m.off % 256, (m.off \div 256) % 256>>) \o LengthBytes(ml)
    BY <1>2, Zenon DEF Sequence
  <2> QED
    BY <1>3, <1>4, <1>5, <2>1, Zenon
<1>14. BeforeLength(m) = 1 + Extra(n) + n + 2
  BY <1>2, <1>5, <1>7 DEF BeforeLength
<1> QED
  BY <1>2, <1>6, <1>12, <1>13, <1>14

\* What a match that can be encoded is.
LEMMA ValidParts ==
  ASSUME Typed, Accepted, NEW m, Valid(m)
  PROVE  /\ m \in Matches /\ m.at \in Nat /\ m.len \in Nat /\ m.off \in Int
         /\ anchor <= m.at /\ 4 <= m.len
         /\ EndOf(m) \in Nat /\ EndOf(m) = m.at + m.len /\ EndOf(m) <= matchlimit
         /\ m.at <= Len(text) /\ EndOf(m) <= iend - 5
<1>1. /\ m \in Matches /\ anchor <= m.at /\ 4 <= m.len /\ EndOf(m) <= matchlimit
      /\ EndOf(m) = m.at + m.len
  BY DEF Valid, MINMATCH, EndOf
<1>2. m.at \in Nat /\ m.len \in Nat /\ m.off \in Int
  BY <1>1 DEF Matches
<1>3. matchlimit \in Int /\ matchlimit = iend - 5 /\ iend <= Len(text) /\ Len(text) \in Nat /\ iend \in Nat
  BY Ranges
<1> QED
  BY <1>1, <1>2, <1>3

\* A sequence has been written that has room.
LEMMA WriteKeeps ==
  ASSUME Typed, Accepted, RoomLeft, NEW m, Valid(m), Write(m),
         NEW n \in Nat, n = Literals(m), NEW ml \in Nat, ml = m.len - 4,
         WildEnd(op + 1 + Extra(n), n) \in Nat, WildEnd(op + 1 + Extra(n), n) <= call.capacity,
         op + 1 + Extra(n) + n + 2 + Extra(ml) <= call.capacity
  PROVE  /\ out' \in Seq(Byte) /\ Len(out') = op + 1 + Extra(n) + n + 2 + Extra(ml)
         /\ ip' = EndOf(m) /\ anchor' = EndOf(m)
         /\ reach' \in Nat /\ Len(out') <= reach' /\ reach' <= MaxOf(0, call.capacity)
<1>1. text \in Seq(Byte) /\ anchor \in Nat /\ out \in Seq(Byte) /\ reach \in Nat
  BY DEF Typed
<1>2. m \in Matches /\ anchor <= m.at /\ 4 <= m.len /\ m.at <= Len(text)
  BY ValidParts
<1>3. /\ Extra(n) \in Nat /\ Extra(ml) \in Nat
      /\ BeforeLength(m) = 1 + Extra(n) + n + 2
      /\ Sequence(m) \in Seq(Byte)
      /\ Len(Sequence(m)) = 1 + Extra(n) + n + 2 + Extra(ml)
  BY <1>1, <1>2, SequenceType
<1>4. op \in Nat /\ op = Len(out) /\ call.capacity \in Int
  BY Ranges DEF op
<1>5. out \o Sequence(m) \in Seq(Byte) /\ Len(out \o Sequence(m)) = Len(out) + Len(Sequence(m))
  BY <1>1, <1>3, ConcatBytes
<1>6. PICK l \in Nat : l = Len(out') /\ l = op + 1 + Extra(n) + n + 2 + Extra(ml)
  <2>1. out' = out \o Sequence(m)
    BY DEF Write
  <2>2. PICK s : s = Sequence(m)
    OBVIOUS
  <2>3. out' \in Seq(Byte) /\ Len(out') = Len(out) + Len(s) /\ Len(s) = 1 + Extra(n) + n + 2 + Extra(ml)
    BY <1>3, <1>5, <2>1, <2>2
  <2>4. PICK o \in Nat, x \in Nat, y \in Nat : o = op /\ x = Extra(n) /\ y = Extra(ml)
    BY <1>3, <1>4
  <2>5. Len(out') = o + (1 + x + n + 2 + y)
    BY <1>4, <2>3, <2>4
  <2>6. o + (1 + x + n + 2 + y) = o + 1 + x + n + 2 + y /\ o + 1 + x + n + 2 + y \in Nat
    OBVIOUS
  <2> QED
    BY <2>4, <2>5, <2>6
<1>7. PICK w \in Nat : w = WildEnd(op + 1 + Extra(n), n)
  OBVIOUS
<1>8. LiteralsReach(m) = w
  <2>1. op + BeforeLength(m) - 2 - n = op + 1 + Extra(n)
    <3>1. PICK o \in Nat, x \in Nat : o = op /\ x = Extra(n)
      BY <1>3, <1>4
    <3>2. BeforeLength(m) = 1 + x + n + 2
      BY <1>3, <3>1
    <3>3. o + (1 + x + n + 2) - 2 - n = o + 1 + x
      OBVIOUS
    <3> QED
      BY <3>1, <3>2, <3>3
  <2>2. LiteralsReach(m) = WildEnd(op + BeforeLength(m) - 2 - n, n)
    BY DEF LiteralsReach
  <2> QED
    BY <1>7, <2>1, <2>2
<1>9. reach' = MaxOf(reach, MaxOf(w, l))
  BY <1>6, <1>8 DEF Write, Reach
<1>10. reach <= MaxOf(0, call.capacity)
  BY DEF RoomLeft
<1>11. reach' \in Nat /\ l <= reach' /\ reach' <= MaxOf(0, call.capacity)
  <2>1. w <= call.capacity /\ l <= call.capacity
    BY <1>6, <1>7
  <2> QED
    BY <1>1, <1>4, <1>9, <1>10, <2>1 DEF MaxOf
<1> QED
  BY <1>5, <1>6, <1>11 DEF Write

\* A sequence that passes its checks has room.
LEMMA FitsRoom ==
  ASSUME Typed, Accepted, RoomLeft, pc # "idle", NEW m, Valid(m), Fits(m),
         NEW n \in Nat, n = Literals(m), NEW ml \in Nat, ml = m.len - 4
  PROVE  /\ WildEnd(op + 1 + Extra(n), n) \in Nat
         /\ WildEnd(op + 1 + Extra(n), n) <= call.capacity
         /\ op + 1 + Extra(n) + n + 2 + Extra(ml) <= call.capacity
         /\ ~limited => op + 1 + Extra(n) + n + 2 + Extra(ml) <= Bound(EndOf(m) - source)
         /\ filling => op + 1 + Extra(n) + n + 2 + Extra(ml) + 1 <= call.capacity
<1>1. PICK o \in Nat, cap \in Int : o = op /\ cap = call.capacity
  BY Ranges
<1>2. /\ m \in Matches /\ anchor <= m.at /\ 4 <= m.len /\ m.at <= Len(text) /\ m.at \in Nat
      /\ m.len \in Nat /\ EndOf(m) = m.at + m.len /\ EndOf(m) <= iend - 5
  BY ValidParts
<1>3. text \in Seq(Byte) /\ anchor \in Nat /\ call.output \in Outputs
  BY DEF Typed, CallTyped
<1>4. BeforeLength(m) = 1 + Extra(n) + n + 2 /\ n = m.at - anchor
  BY <1>2, <1>3, SequenceType
<1>5. Extra(n) \in Nat /\ Extra(ml) \in Nat /\ n \div 255 \in Nat /\ ml \div 255 \in Nat
  <2>1. Extra(n) \in Nat /\ Extra(ml) \in Nat
    BY ExtraBounds
  <2>2. n \div 255 \in Nat /\ ml \div 255 \in Nat
    OBVIOUS
  <2> QED
    BY <2>1, <2>2
<1>6. CASE limited
  <2>1. PICK e \in Int : e = oend /\ e <= cap /\ (filling => e = cap - 5)
    BY <1>1 DEF oend, LASTLITERALS
  <2>2. /\ o + 1 + n \div 255 + n + (2 + 1 + 5) <= e
        /\ o + BeforeLength(m) + ml \div 255 + (1 + 5) <= e
    BY <1>1, <1>2, <1>6, <2>1 DEF Fits, LiteralsFit, LengthFits, LASTLITERALS, MINMATCH
  <2>3. /\ o + 1 + n \div 255 + n + 8 <= e
        /\ o + (3 + Extra(n) + n) + ml \div 255 + 6 <= e
    BY <1>4, <1>5, <2>1, <2>2
  <2>4. /\ WildEnd(o + 1 + Extra(n), n) \in Nat /\ WildEnd(o + 1 + Extra(n), n) <= e
        /\ o + 1 + Extra(n) + n + 2 + Extra(ml) <= e - 5
    BY <2>3, FittingRoom, SMTT(20)
  <2> QED
    BY <1>1, <1>5, <1>6, <2>1, <2>4
<1>7. CASE ~limited
  <2>0. PICK s \in Nat : s = source /\ s <= anchor
    BY Ranges
  <2>1. PICK x \in Nat, size \in Nat : x = anchor - s /\ size = call.size /\ iend = s + size
    <3>1. anchor - s \in Nat
      BY <1>3, <2>0
    <3> QED
      BY <2>0, <3>1, Ranges
  <2>2. o <= Bound(x)
    BY <1>1, <1>7, <2>0, <2>1 DEF RoomLeft
  <2>3. PICK p \in Nat, l \in Nat, a \in Nat :
          /\ p = m.at /\ l = m.len /\ a = anchor /\ EndOf(m) = p + l /\ p + l <= s + size - 5
          /\ n = p - a /\ x = a - s /\ ml = l - 4
    <3>1. PICK p \in Nat, l \in Nat, a \in Nat : p = m.at /\ l = m.len /\ a = anchor
      BY <1>2, <1>3
    <3>2. EndOf(m) = p + l
      BY <1>2, <3>1
    <3>3. p + l <= s + size - 5
      BY <1>2, <2>1, <3>2
    <3>4. n = p - a /\ x = a - s /\ ml = l - 4
      BY <1>4, <2>1, <3>1
    <3> QED
      BY <3>1, <3>2, <3>3, <3>4
  <2>4. x + n + 4 + ml + 5 <= size /\ x + n + (4 + ml) = p + l - s
    BY ONLY <2>3, s \in Nat, size \in Nat, n \in Nat, ml \in Nat, x \in Nat
  <2>5. cap >= size + size \div 255 + 16
    BY <1>1, <1>7, <2>1, CompressBoundType DEF Accepted, LZ4_compressBound
  <2>6. /\ WildEnd(o + 1 + Extra(n), n) \in Nat /\ WildEnd(o + 1 + Extra(n), n) <= cap
        /\ o + 1 + Extra(n) + n + 2 + Extra(ml) <= Bound(x + n + (4 + ml))
        /\ o + 1 + Extra(n) + n + 2 + Extra(ml) <= cap
    BY ONLY <2>2, <2>4, <2>5, UncheckedRoom, o \in Nat, n \in Nat, ml \in Nat, cap \in Int, x \in Nat,
            size \in Nat
  <2>7. x + n + (4 + ml) = EndOf(m) - source
    BY <2>0, <2>3, <2>4
  <2>8. ~filling
    BY <1>7 DEF limited, filling
  <2> QED
    BY <1>1, <2>6, <2>7, <2>8
<1> QED
  BY <1>6, <1>7

\* So has the last match of a dst that is filled.
LEMMA LastMatchOK ==
  ASSUME Typed, Accepted, filling, NEW m, Valid(m), HasLastMatch(m),
         NEW n \in Nat, n = Literals(m)
  PROVE  /\ Valid(LastMatch(m)) /\ LastMatch(m).at = m.at
         /\ \E ml \in Nat :
              /\ ml = LastMatch(m).len - 4
              /\ WildEnd(op + 1 + Extra(n), n) \in Nat
              /\ WildEnd(op + 1 + Extra(n), n) <= call.capacity
              /\ op + 1 + Extra(n) + n + 2 + Extra(ml) <= call.capacity - 5
<1>1. PICK o \in Nat, cap \in Int : o = op /\ cap = call.capacity
  BY Ranges
<1>2. /\ m \in Matches /\ anchor <= m.at /\ 4 <= m.len /\ m.at \in Nat /\ m.len \in Nat
      /\ EndOf(m) = m.at + m.len /\ EndOf(m) <= matchlimit
  BY ValidParts
<1>3. oend = cap - 5
  BY <1>1 DEF oend, LASTLITERALS
<1>4. PICK d \in Nat : d = (n + 240) \div 255
  OBVIOUS
<1>5. PICK left \in Nat : left = oend - 3 - (op + 1 + (Literals(m) + 240) \div 255 + Literals(m))
                          /\ o + 1 + d + n + left = cap - 8
  <2>1. o + 1 + d + n <= cap - 8
    BY <1>1, <1>3, <1>4 DEF HasLastMatch
  <2>2. cap - 8 - (o + 1 + d + n) \in Nat
    BY <2>1
  <2> QED
    BY <1>1, <1>3, <1>4, <2>2
<1>6. PICK l \in Nat : l = MinOf(m.len, 18 + left * 255)
  BY <1>2 DEF MinOf
<1>7. LastMatch(m) = [m EXCEPT !.len = l]
  <2>1. MINMATCH + (ML_MASK - 1) + left * 255 = 18 + left * 255
    BY DEF MINMATCH, ML_MASK
  <2> QED
    BY <1>5, <1>6, <2>1 DEF LastMatch, Cut
<1>8. l <= m.len /\ 4 <= l /\ l - 4 <= 14 + left * 255
  BY <1>2, <1>6 DEF MinOf
<1>9. LastMatch(m) \in Matches /\ LastMatch(m).at = m.at /\ LastMatch(m).len = l
  BY <1>2, <1>7 DEF Matches
<1>10. Valid(LastMatch(m))
  <2>1. matchlimit \in Int
    BY Ranges
  <2>2. m.at + l <= matchlimit
    BY <1>2, <1>8, <2>1
  <2> QED
    BY <1>2, <1>8, <1>9, <2>2 DEF Valid, EndOf, MINMATCH
<1>11. PICK ml \in Nat : ml = l - 4 /\ ml <= 14 + left * 255
  BY <1>8
<1>12. /\ WildEnd(o + 1 + Extra(n), n) \in Nat /\ WildEnd(o + 1 + Extra(n), n) <= cap
       /\ o + 1 + Extra(n) + n + 2 + Extra(ml) <= cap - 5
  <2>1. o + 1 + (n + 240) \div 255 + n + left = cap - 8
    BY <1>4, <1>5
  <2> QED
    BY ONLY <1>11, <2>1, LastMatchRoom, o \in Nat, n \in Nat, ml \in Nat, cap \in Int, left \in Nat
<1> QED
  BY <1>1, <1>9, <1>10, <1>11, <1>12

\* A step that encodes something, or fails.
LEMMA Advanced ==
  ASSUME HCInv, pc # "idle", UNCHANGED <<text, call, inputConsumed>>,
         out' \in Seq(Byte), ip' \in Nat, anchor' \in Nat, anchor <= anchor', anchor' <= ip', anchor' <= iend,
         reach' \in Nat, Len(out') <= reach', reach' <= MaxOf(0, call.capacity),
         StateOK(hc'), hc'.end = hc.end, hc'.prefixStart = hc.prefixStart, hc'.dictCtx = hc.dictCtx,
         find' \in Searches, pc' \in Labels, result' \in Nat,
         pc' = "idle" => result' = 0,
         pc' # "idle" => /\ ~limited => Len(out') <= Bound(anchor' - source)
                         /\ filling => Len(out') + 1 <= call.capacity
  PROVE  /\ Typed' /\ Accepted' /\ RoomLeft' /\ Filled'
         /\ matchlimit' = matchlimit /\ mflimit' = mflimit /\ source' = source
<1>1. Typed /\ Accepted /\ RoomLeft
  BY DEF HCInv
<1>2. /\ source' = source /\ iend' = iend /\ op' = Len(out') /\ (limited' <=> limited) /\ (filling' <=> filling)
      /\ matchlimit' = matchlimit /\ mflimit' = mflimit
  BY DEF source, iend, op, limited, filling, matchlimit, mflimit
<1>3. Typed'
  BY <1>1 DEF Typed, CallTyped
<1>4. Accepted'
  <2>1. anchor \in Nat /\ source \in Nat /\ source <= anchor
    BY <1>1, Ranges
  <2>2. source <= anchor'
    BY <2>1
  <2> QED
    BY <1>1, <1>2, <2>2 DEF Accepted
<1>5. RoomLeft'
  BY <1>2 DEF RoomLeft
<1>6. Filled'
  <2>1. pc' = "idle" => ~(result' > 0)
    OBVIOUS
  <2> QED
    BY <2>1 DEF Filled
<1> QED
  BY <1>2, <1>3, <1>4, <1>5, <1>6

\* A sequence is encoded, or the call fails, or goes on with the last literals.
LEMMA EncodeKeeps ==
  ASSUME HCInv, pc # "idle", NEW m, Valid(m), NEW label \in Labels \ {"idle", "last_literals"},
         LZ4HC_encodeSequence(m, label),
         StateOK(hc'), hc'.end = hc.end, hc'.prefixStart = hc.prefixStart, hc'.dictCtx = hc.dictCtx,
         find' \in Searches
  PROVE  /\ Typed' /\ Accepted' /\ RoomLeft' /\ Filled'
         /\ matchlimit' = matchlimit /\ mflimit' = mflimit /\ source' = source
         /\ pc' \in {label, "idle", "last_literals"}
         /\ pc' = label => anchor' = EndOf(m) /\ ip' = EndOf(m)
<1>1. Typed /\ Accepted /\ RoomLeft
  BY DEF HCInv
<1>2. PICK n \in Nat, ml \in Nat : n = Literals(m) /\ ml = m.len - 4
  <2>1. /\ text \in Seq(Byte) /\ anchor \in Nat /\ m \in Matches /\ anchor <= m.at /\ m.at <= Len(text)
        /\ 4 <= m.len
    BY <1>1, ValidParts DEF Typed
  <2> QED
    BY <2>1, SequenceType
<1>3. /\ anchor \in Nat /\ m.at \in Nat /\ anchor <= m.at /\ EndOf(m) \in Nat /\ EndOf(m) <= iend - 5
      /\ EndOf(m) = m.at + m.len /\ m.len \in Nat /\ iend \in Nat
  BY <1>1, ValidParts, Ranges
<1>4. anchor <= EndOf(m) /\ EndOf(m) <= iend
  BY <1>3
<1>5. out \in Seq(Byte) /\ op = Len(out) /\ reach \in Nat /\ result \in Nat /\ ip \in Nat /\ anchor <= iend /\ anchor <= ip
  BY <1>1, Ranges DEF Typed, op
<1>6. UNCHANGED <<text, call, inputConsumed>> /\ label \in Labels
  BY DEF LZ4HC_encodeSequence
<1>7. op <= reach /\ reach <= MaxOf(0, call.capacity)
      /\ (~limited => op <= Bound(anchor - source)) /\ (filling => op + 1 <= call.capacity)
  BY <1>1 DEF RoomLeft
<1>8. CASE Fits(m) /\ Write(m) /\ Goto(label)
  <2>1. /\ WildEnd(op + 1 + Extra(n), n) \in Nat
        /\ WildEnd(op + 1 + Extra(n), n) <= call.capacity
        /\ op + 1 + Extra(n) + n + 2 + Extra(ml) <= call.capacity
        /\ ~limited => op + 1 + Extra(n) + n + 2 + Extra(ml) <= Bound(EndOf(m) - source)
        /\ filling => op + 1 + Extra(n) + n + 2 + Extra(ml) + 1 <= call.capacity
    BY <1>1, <1>2, <1>8, FitsRoom
  <2>2. /\ out' \in Seq(Byte) /\ Len(out') = op + 1 + Extra(n) + n + 2 + Extra(ml)
        /\ ip' = EndOf(m) /\ anchor' = EndOf(m)
        /\ reach' \in Nat /\ Len(out') <= reach' /\ reach' <= MaxOf(0, call.capacity)
    BY <1>1, <1>2, <1>8, <2>1, WriteKeeps
  <2>3. pc' = label /\ result' = result
    BY <1>8 DEF Goto
  <2>4. /\ ip' \in Nat /\ anchor' \in Nat /\ anchor <= anchor' /\ anchor' <= ip' /\ anchor' <= iend
    BY <1>3, <1>4, <2>2
  <2>5. /\ ~limited => Len(out') <= Bound(anchor' - source)
        /\ filling => Len(out') + 1 <= call.capacity
    BY <2>1, <2>2
  <2> QED
    BY <1>5, <1>6, <2>2, <2>3, <2>4, <2>5, Advanced
<1>9. ASSUME UNCHANGED <<out, anchor>>, ip' \in {ip, m.at},
             IF LiteralsFit(Literals(m)) THEN Reach(LiteralsReach(m)) ELSE UNCHANGED reach,
             \/ limited /\ Idle(0)
             \/ filling /\ Goto("last_literals")
      PROVE  /\ Typed' /\ Accepted' /\ RoomLeft' /\ Filled'
             /\ matchlimit' = matchlimit /\ mflimit' = mflimit /\ source' = source
             /\ pc' \in {label, "idle", "last_literals"}
             /\ pc' = label => anchor' = EndOf(m) /\ ip' = EndOf(m)
  <2>1. limited
    BY <1>9 DEF limited, filling
  <2>2. reach' \in Nat /\ reach <= reach' /\ reach' <= MaxOf(0, call.capacity)
    <3>1. CASE ~LiteralsFit(n)
      BY <1>2, <1>5, <1>7, <1>9, <3>1
    <3>2. CASE LiteralsFit(n)
      <4>1. PICK cap \in Int, e \in Int, o \in Nat : cap = call.capacity /\ e = oend /\ e <= cap /\ o = op
        <5>1. op \in Nat /\ call.capacity \in Int
          BY <1>1, Ranges
        <5>2. oend \in Int /\ oend <= call.capacity
          BY <5>1 DEF oend, LASTLITERALS
        <5> QED
          BY <5>1, <5>2
      <4>2. o + 1 + n \div 255 + n + (2 + 1 + 5) <= e
        BY <2>1, <3>2, <4>1 DEF LiteralsFit, LASTLITERALS
      <4>3. PICK q \in Nat : q = n \div 255
        OBVIOUS
      <4>4. o + 1 + n + 8 + n \div 255 <= cap
        <5>1. o + 1 + q + n + (2 + 1 + 5) <= e
          BY <4>2, <4>3
        <5>2. o + 1 + n + 8 + q <= cap
          BY ONLY <4>1, <5>1, n \in Nat, q \in Nat, o \in Nat, e \in Int, cap \in Int
        <5> QED
          BY <4>3, <5>2
      <4>5. WildEnd(o + 1 + Extra(n), n) \in Nat /\ WildEnd(o + 1 + Extra(n), n) <= cap
        BY <4>4, LiteralsRoom, 0 \in Nat
      <4>6. PICK w \in Nat : w = WildEnd(o + 1 + Extra(n), n) /\ w <= cap
        BY <4>5
      <4>7. LiteralsReach(m) = w
        <5>1. PICK x \in Nat : x = Extra(n)
          BY ExtraBounds
        <5>2. BeforeLength(m) = 1 + x + n + 2
          <6>1. /\ text \in Seq(Byte) /\ m \in Matches /\ anchor <= m.at /\ m.at <= Len(text)
                /\ 4 <= m.len
            BY <1>1, ValidParts DEF Typed
          <6> QED
            BY <1>2, <1>3, <5>1, <6>1, SequenceType
        <5>3. o + (1 + x + n + 2) - 2 - n = o + 1 + x
          OBVIOUS
        <5>4. LiteralsReach(m) = WildEnd(o + BeforeLength(m) - 2 - n, n)
          BY <1>2, <4>1 DEF LiteralsReach
        <5> QED
          BY <4>6, <5>1, <5>2, <5>3, <5>4
      <4>8. reach' = MaxOf(reach, w)
        BY <1>2, <1>9, <3>2, <4>7 DEF Reach
      <4> QED
        BY <1>5, <1>7, <4>1, <4>6, <4>8 DEF MaxOf
    <3> QED
      BY <3>1, <3>2
  <2>3. pc' \in {"idle", "last_literals"} /\ result' \in Nat /\ (pc' = "idle" => result' = 0)
    BY <1>5, <1>9 DEF Idle, Goto
  <2>4. pc' \in Labels
    BY <2>3 DEF Labels
  <2>5. Len(out') <= reach'
    <3>1. op \in Nat
      BY <1>1, Ranges
    <3> QED
      BY <1>5, <1>7, <1>9, <2>2, <3>1
  <2>6. ip' \in Nat /\ anchor' <= ip' /\ anchor' <= iend /\ anchor' \in Nat /\ anchor <= anchor'
    BY <1>3, <1>5, <1>9
  <2>7. (~limited => Len(out') <= Bound(anchor' - source)) /\ (filling => Len(out') + 1 <= call.capacity)
    BY <1>5, <1>7, <1>9
  <2>8. /\ Typed' /\ Accepted' /\ RoomLeft' /\ Filled'
        /\ matchlimit' = matchlimit /\ mflimit' = mflimit /\ source' = source
    BY <1>5, <1>6, <1>9, <2>2, <2>3, <2>4, <2>5, <2>6, <2>7, Advanced
  <2> QED
    BY <2>3, <2>8
<1>10. CASE ~filling /\ Overflow(m)
  <2>1. limited
    BY <1>10 DEF Overflow, Fits, LiteralsFit, LengthFits
  <2> QED
    BY <1>9, <1>10, <2>1 DEF Overflow
<1>11. CASE filling /\ Overflow(m) /\ ~HasLastMatch(m)
  BY <1>9, <1>11 DEF Overflow
<1>12. CASE filling /\ Overflow(m) /\ HasLastMatch(m)
  <2>1. Write(LastMatch(m)) /\ Goto("last_literals")
    BY <1>12 DEF Overflow
  <2>2. PICK l : l = LastMatch(m)
    OBVIOUS
  <2>3. /\ Valid(l) /\ l.at = m.at
        /\ \E k \in Nat :
             /\ k = l.len - 4
             /\ WildEnd(op + 1 + Extra(n), n) \in Nat
             /\ WildEnd(op + 1 + Extra(n), n) <= call.capacity
             /\ op + 1 + Extra(n) + n + 2 + Extra(k) <= call.capacity - 5
    BY <1>1, <1>2, <1>12, <2>2, LastMatchOK
  <2>4. PICK k \in Nat :
          /\ k = l.len - 4
          /\ WildEnd(op + 1 + Extra(n), n) \in Nat
          /\ WildEnd(op + 1 + Extra(n), n) <= call.capacity
          /\ op + 1 + Extra(n) + n + 2 + Extra(k) <= call.capacity - 5
    BY <2>3
  <2>5. n = Literals(l)
    BY <1>2, <2>3 DEF Literals
  <2>6. PICK t \in Int, cap \in Int : t = op + 1 + Extra(n) + n + 2 + Extra(k) /\ cap = call.capacity /\ t + 5 <= cap
    <3>1. op \in Nat /\ call.capacity \in Int /\ Extra(n) \in Nat /\ Extra(k) \in Nat
      BY <1>1, Ranges, ExtraBounds
    <3>2. op + 1 + Extra(n) + n + 2 + Extra(k) \in Int
      BY <3>1
    <3> QED
      BY <2>4, <3>1, <3>2
  <2>7. op + 1 + Extra(n) + n + 2 + Extra(k) <= call.capacity
    BY <2>6
  <2>8. /\ out' \in Seq(Byte) /\ Len(out') = op + 1 + Extra(n) + n + 2 + Extra(k)
        /\ ip' = EndOf(l) /\ anchor' = EndOf(l)
        /\ reach' \in Nat /\ Len(out') <= reach' /\ reach' <= MaxOf(0, call.capacity)
    BY <1>1, <2>1, <2>2, <2>3, <2>4, <2>5, <2>7, WriteKeeps
  <2>9. /\ anchor <= l.at /\ l.at \in Nat /\ l.len \in Nat /\ EndOf(l) \in Nat /\ EndOf(l) = l.at + l.len
        /\ EndOf(l) <= iend - 5
    BY <1>1, <2>3, ValidParts
  <2>10. ip' \in Nat /\ anchor' <= ip' /\ anchor' <= iend /\ anchor' \in Nat /\ anchor <= anchor'
    <3>1. PICK z \in Nat : z = EndOf(l) /\ z = l.at + l.len /\ z <= iend - 5 /\ ip' = z /\ anchor' = z
      BY <2>8, <2>9
    <3>2. z <= iend
      BY <1>3, <3>1
    <3>3. anchor <= z
      BY <1>3, <2>9, <3>1
    <3> QED
      BY <3>1, <3>2, <3>3
  <2>11. pc' = "last_literals" /\ result' = result
    BY <2>1 DEF Goto
  <2>12. Len(out') + 1 <= call.capacity /\ limited
    BY <1>12, <2>6, <2>8 DEF limited, filling
  <2>13. "last_literals" \in Labels
    BY DEF Labels
  <2>14. /\ Typed' /\ Accepted' /\ RoomLeft' /\ Filled'
         /\ matchlimit' = matchlimit /\ mflimit' = mflimit /\ source' = source
    BY <1>5, <1>6, <2>8, <2>10, <2>11, <2>12, <2>13, Advanced
  <2> QED
    BY <2>11, <2>14
<1> QED
  BY <1>8, <1>10, <1>11, <1>12 DEF LZ4HC_encodeSequence

\* A state that must be initialised before it is used again.
LEMMA DirtiedOK ==
  ASSUME NEW c, StateOK(c)
  PROVE  /\ StateOK(Dirtied(c)) /\ Dirtied(c).end = c.end /\ Dirtied(c).prefixStart = c.prefixStart
         /\ Dirtied(c).dictCtx = c.dictCtx
<1>1. PICK b \in BOOLEAN : b = (c.dirty \/ (pc' = "idle" /\ result' <= 0))
  OBVIOUS
<1>2. PICK d : d = [c EXCEPT !.dirty = b]
  OBVIOUS
<1>3. Dirtied(c) = d
  BY <1>1, <1>2 DEF Dirtied
<1>4. c \in StreamState
  BY DEF StateOK
<1>5. /\ d \in StreamState
      /\ d.end = c.end /\ d.prefixStart = c.prefixStart /\ d.dictLimit = c.dictLimit
      /\ d.lowLimit = c.lowLimit /\ d.nextToUpdate = c.nextToUpdate /\ d.dictCtx = c.dictCtx
  BY <1>1, <1>2, <1>4 DEF StreamState, StateWith
<1>6. StateOK(d)
  BY <1>5 DEF StateOK, Ordered, EndIndex, IndexIn
<1> QED
  BY <1>3, <1>5, <1>6

\* A state with another hash table.
LEMMA TableOK ==
  ASSUME NEW c, StateOK(c), NEW h \in HashTables
  PROVE  /\ StateOK([c EXCEPT !.hashTable = h]) /\ [c EXCEPT !.hashTable = h].end = c.end
         /\ [c EXCEPT !.hashTable = h].prefixStart = c.prefixStart
         /\ [c EXCEPT !.hashTable = h].dictCtx = c.dictCtx
<1>1. PICK d : d = [c EXCEPT !.hashTable = h]
  OBVIOUS
<1>2. c \in StreamState
  BY DEF StateOK
<1>3. /\ d \in StreamState
      /\ d.end = c.end /\ d.prefixStart = c.prefixStart /\ d.dictLimit = c.dictLimit
      /\ d.lowLimit = c.lowLimit /\ d.nextToUpdate = c.nextToUpdate /\ d.dictCtx = c.dictCtx
  BY <1>1, <1>2 DEF StreamState, StateWith, HashTables
<1>4. StateOK(d)
  BY <1>3 DEF StateOK, Ordered, EndIndex, IndexIn
<1> QED
  BY <1>1, <1>3, <1>4

---------------------------------------------------------------------------
(* Steps after which nothing is being searched, chosen or planned.         *)

\* Nothing is searched.
LEMMA SearchQuiet ==
  ASSUME pc' \notin Purposes \cup {"search", "search_dict"}
  PROVE  SearchOK'
BY DEF SearchOK, For, Purposes

\* No match is chosen.
LEMMA ChainQuiet ==
  ASSUME pc' \notin {"mid_encode", "search2", "found2", "search3", "found3", "encode2"},
         pc' \in {"search", "search_dict"} => find'.label \notin {"found2", "found3"}
  PROVE  ChainOK'
BY DEF ChainOK, For

\* Nothing is planned.
LEMMA PlanQuiet ==
  ASSUME pc' \notin {"opt_next", "opt_found", "opt_encode"},
         pc' \in {"search", "search_dict"} => find'.label # "opt_found"
  PROVE  PlanOK'
BY DEF PlanOK, For

\* A parser goes on, or the call ends.
LEMMA Quiet ==
  ASSUME pc' \in {"idle", "mid", "hc", "opt", "opt_alloc", "last_literals"}
  PROVE  SearchOK' /\ ChainOK' /\ PlanOK'
BY SearchQuiet, ChainQuiet, PlanQuiet DEF Purposes

---------------------------------------------------------------------------
(* LZ4MID_compress.                                                        *)

\* The index of a position of the prefix.
LEMMA IndexType ==
  ASSUME Typed, Accepted, NEW p \in Nat, source <= p
  PROVE  Index(p) \in Nat /\ Index(p) = p - hc.prefixStart + hc.dictLimit
<1>1. PICK f \in Int, s \in Nat, d \in Nat : f = hc.prefixStart /\ s = source /\ d = hc.dictLimit /\ f <= s
  BY Ranges
<1>2. p - f + d \in Nat
  BY <1>1
<1> QED
  BY <1>1, <1>2 DEF Index, IndexIn

\* A match of a table is one that can be encoded.
LEMMA MidMatchOK ==
  ASSUME Typed, Accepted, NEW p \in Nat, anchor <= p, NEW i \in Int
  PROVE  MidMatch(p, i) = None \/ (Valid(MidMatch(p, i)) /\ MidMatch(p, i).at = p)
<1>1. PICK limit \in Int, x \in Int : limit = matchlimit - p /\ x = hc.dictLimit - i /\ matchlimit = limit + p
  <2>1. PICK l \in Int, d \in Int : l = matchlimit /\ d = hc.dictLimit
    BY Ranges
  <2>2. l - p \in Int /\ d - i \in Int /\ l = (l - p) + p
    OBVIOUS
  <2> QED
    BY <2>1, <2>2
<1>2. PICK a \in Int, b \in Int : a = PrefixAt(i) /\ b = DictAt(i)
  <2>1. PICK f \in Int, d \in Int, s \in Int, l \in Int :
          f = hc.prefixStart /\ d = hc.dictLimit /\ s = hc.dictStart /\ l = hc.lowLimit
    <3>1. hc.prefixStart \in Int /\ hc.dictLimit \in Nat /\ hc.dictStart \in Int /\ hc.lowLimit \in Nat
      BY Ranges, Zenon
    <3> QED
      BY <3>1
  <2>2. f + i - d \in Int /\ s + i - l \in Int
    OBVIOUS
  <2> QED
    BY <2>1, <2>2 DEF PrefixAt, DictAt
<1>3. /\ LZ4_count(p, a, limit) \in Nat /\ LZ4_count(p, a, limit) <= MaxOf(0, limit)
      /\ LZ4_count(p, b, MinOf(x, limit)) \in Nat
      /\ LZ4_count(p, b, MinOf(x, limit)) <= MaxOf(0, MinOf(x, limit))
  <2>1. PICK l \in Int : l = MinOf(x, limit)
    BY DEF MinOf
  <2>2. PICK c, d : c = LZ4_count(p, a, limit) /\ d = LZ4_count(p, b, l)
    OBVIOUS
  <2>3. c \in Nat /\ c <= MaxOf(0, limit)
    BY ONLY <2>2, CountBounds, p \in Int, a \in Int, limit \in Int
  <2>4. d \in Nat /\ d <= MaxOf(0, l)
    BY ONLY <2>2, CountBounds, p \in Int, b \in Int, l \in Int
  <2> QED
    BY <2>1, <2>2, <2>3, <2>4
<1>4. PICK n \in Nat : n = Common(p, i) /\ (n > 0 => n <= limit)
  <2>1. MaxOf(0, MinOf(x, limit)) <= MaxOf(0, limit)
    BY DEF MinOf, MaxOf
  <2>2. Common(p, i) \in Nat /\ (Common(p, i) > 0 => Common(p, i) <= MaxOf(0, limit))
    <3>1. Common(p, i) \in {0, LZ4_count(p, a, limit), LZ4_count(p, b, MinOf(x, limit))}
      BY <1>1, <1>2 DEF Common
    <3>2. PICK k1 \in Nat, k2 \in Nat, l1 \in Int, l2 \in Int :
            /\ k1 = LZ4_count(p, a, limit) /\ k2 = LZ4_count(p, b, MinOf(x, limit))
            /\ l1 = MaxOf(0, limit) /\ l2 = MaxOf(0, MinOf(x, limit))
            /\ k1 <= l1 /\ k2 <= l2
      BY <1>3 DEF MaxOf, MinOf
    <3> QED
      BY <2>1, <3>1, <3>2
  <2> QED
    BY <2>2 DEF MaxOf
<1>5. CASE n < 4
  BY <1>4, <1>5 DEF MidMatch, MINMATCH
<1>6. CASE n >= 4
  <2>1. PICK off \in Int : off = Index(p) - i
    <3>1. source <= p
      BY Ranges
    <3> QED
      BY <3>1, IndexType
  <2>2. MidMatch(p, i) = [at |-> p, len |-> n, off |-> off]
    BY <1>4, <1>6, <2>1 DEF MidMatch, MINMATCH, Match
  <2>3. PICK m : m = MidMatch(p, i)
    OBVIOUS
  <2>4. m \in Matches /\ m.at = p /\ m.len = n
    BY <2>2, <2>3 DEF Matches
  <2>5. p + n <= matchlimit
    BY <1>1, <1>4, <1>6
  <2>6. Valid(m)
    BY <1>6, <2>4, <2>5 DEF Valid, EndOf, MINMATCH
  <2> QED
    BY <2>3, <2>4, <2>6
<1> QED
  BY <1>5, <1>6

\* So is one of an attached dictionary.
LEMMA ExtDictOK ==
  ASSUME HashesInTable, Typed, Accepted, hc.dictCtx # NoDictCtx, NEW p \in Nat, anchor <= p,
         LZ4MID_searchExtDict(p).len > 0
  PROVE  Valid(Match(p, LZ4MID_searchExtDict(p).len, LZ4MID_searchExtDict(p).off))
<1>1. StateOK(hc) /\ StateOK(hc.dictCtx)
  BY StateParts, DictIsState DEF Typed
<1>2. PICK t \in HashTables : t = hc.dictCtx.hashTable
  BY <1>1, StateParts
<1>3. text \in Seq(Byte)
  BY DEF Typed
<1>4. PICK i \in Nat : LZ4MID_searchExtDict(p) = Attached(p, i)
  <2>1. PICK x \in Nat, y \in Nat :
          x = hc.dictCtx.hashTable[LZ4MID_hash8Ptr(p)] /\ y = hc.dictCtx.hashTable[LZ4MID_hash4Ptr(p)]
    BY <1>2, <1>3, EntryType
  <2> QED
    BY <2>1 DEF LZ4MID_searchExtDict
<1>5. PICK q \in Int, limit \in Int, x \in Int, off \in Int :
        /\ q = AttachedAt(i) /\ limit = matchlimit - p /\ x = EndIndex(hc.dictCtx) - i
        /\ off = Index(p) - FromAttached(i) /\ matchlimit = limit + p
  <2>1. hc.dictCtx.prefixStart \in Int /\ hc.dictCtx.dictLimit \in Nat /\ EndIndex(hc.dictCtx) \in Nat
        /\ hc.lowLimit \in Nat
    BY <1>1, StateParts
  <2>2. source <= p /\ matchlimit \in Int
    BY Ranges
  <2>3. Index(p) \in Nat
    BY <2>2, IndexType
  <2> QED
    BY <2>1, <2>2, <2>3 DEF AttachedAt, FromAttached
<1>6. PICK l \in Int : l = MinOf(x, limit) /\ l <= limit
  <2>1. MinOf(x, limit) \in {x, limit} /\ MinOf(x, limit) <= limit
    BY DEF MinOf
  <2> QED
    BY <2>1
<1>7. PICK n \in Nat : n = LZ4_count(p, q, l) /\ n <= MaxOf(0, l)
  <2>1. PICK c : c = LZ4_count(p, q, l)
    OBVIOUS
  <2>2. c \in Nat /\ c <= MaxOf(0, l)
    BY ONLY <2>1, CountBounds, p \in Int, q \in Int, l \in Int
  <2> QED
    BY <2>1, <2>2
<1>8. Attached(p, i).len > 0 => n >= 4 /\ Attached(p, i) = [len |-> n, off |-> off]
  BY <1>5, <1>6, <1>7 DEF Attached, MINMATCH
<1>9. n >= 4 /\ Attached(p, i) = [len |-> n, off |-> off]
  BY <1>4, <1>8
<1>10. PICK m : m = Match(p, LZ4MID_searchExtDict(p).len, LZ4MID_searchExtDict(p).off)
                /\ m = [at |-> p, len |-> n, off |-> off]
  <2>1. PICK there : there = LZ4MID_searchExtDict(p)
    OBVIOUS
  <2>2. there.len = n /\ there.off = off
    BY <1>4, <1>9, <2>1
  <2> QED
    BY <2>1, <2>2 DEF Match
<1>11. m \in Matches /\ m.at = p /\ m.len = n
  BY <1>10 DEF Matches
<1>12. p + n <= matchlimit
  BY <1>5, <1>6, <1>7, <1>9 DEF MaxOf
<1> QED
  BY <1>9, <1>10, <1>11, <1>12 DEF Valid, EndOf, MINMATCH

\* What the next position is after one without a match.
LEMMA SkipType ==
  ASSUME Typed, Accepted
  PROVE  Skip \in Nat /\ ip <= Skip /\ ip + 1 <= Skip
<1>1. PICK i \in Nat, a \in Nat : i = ip /\ a = anchor /\ a <= i
  BY Ranges
<1>2. PICK d \in Nat : d = i - a
  BY <1>1
<1>3. d \div 512 \in Nat
  OBVIOUS
<1>4. PICK q \in Nat : q = d \div 512
  BY <1>3
<1>5. Skip = i + 1 + q
  BY <1>1, <1>2, <1>4 DEF Skip
<1> QED
  BY <1>1, <1>5

\* A position whose match is to be encoded.
LEMMA MidTaken ==
  ASSUME HCInv, pc # "idle", UNCHANGED <<text, call, ip, anchor, out, reach, inputConsumed, result>>,
         StateOK(hc'), hc'.end = hc.end, hc'.prefixStart = hc.prefixStart, hc'.dictCtx = hc.dictCtx,
         find' = find, pc' = "mid_encode", Valid(m1'), m1'.at \in ip..ip + 1, ip <= mflimit
  PROVE  HCInv'
<1>1. Typed
  BY DEF HCInv
<1>2. ip' \in Nat /\ ip <= ip' /\ find' \in Searches /\ pc' \in Labels /\ pc' # "idle"
  BY <1>1 DEF Typed, Labels
<1>3. /\ Typed' /\ Accepted' /\ RoomLeft' /\ Filled'
      /\ matchlimit' = matchlimit /\ mflimit' = mflimit
  BY <1>2, CallKept
<1>4. SearchOK' /\ PlanOK'
  BY SearchQuiet, PlanQuiet DEF Purposes
<1>5. ChainOK'
  <2>1. (Valid(m1))'
    BY <1>3 DEF Valid, EndOf
  <2> QED
    BY <1>3, <2>1 DEF ChainOK, For
<1> QED
  BY <1>3, <1>4, <1>5 DEF HCInv

\* A parser goes on at another position.
LEMMA GoesOn ==
  ASSUME HCInv, pc # "idle", UNCHANGED <<text, call, anchor, out, reach, inputConsumed, result>>,
         StateOK(hc'), hc'.end = hc.end, hc'.prefixStart = hc.prefixStart, hc'.dictCtx = hc.dictCtx,
         find' \in Searches, ip' \in Nat, ip <= ip',
         pc' \in {"mid", "hc", "opt", "last_literals"}
  PROVE  HCInv'
<1>1. pc' \in Labels /\ pc' # "idle"
  BY DEF Labels
<1>2. Typed' /\ Accepted' /\ RoomLeft' /\ Filled'
  BY <1>1, CallKept
<1>3. SearchOK' /\ ChainOK' /\ PlanOK'
  BY Quiet
<1> QED
  BY <1>2, <1>3 DEF HCInv

\* The tables of one position.
LEMMA MidSearchInv ==
  ASSUME HashesInTable, HCInv, MidSearch
  PROVE  HCInv'
<1>1. pc = "mid" /\ ip <= mflimit /\ UNCHANGED <<text, call, anchor, out, reach, inputConsumed>>
  BY DEF MidSearch
<1>2. Typed /\ Accepted
  BY <1>1 DEF HCInv
<1>3. StateOK(hc) /\ text \in Seq(Byte) /\ find \in Searches /\ pc # "idle" /\ ip \in Nat /\ anchor \in Nat
      /\ anchor <= ip
  BY <1>1, <1>2, Ranges DEF Typed
<1>4. hc.hashTable \in HashTables /\ hc.dictLimit \in Nat
  BY <1>3, StateParts
<1>5. Index(ip) \in Nat /\ Index(ip) + 1 \in Nat
  <2>1. source <= ip /\ ip \in Nat
    <3>1. source \in Nat /\ source <= anchor
      BY <1>2, Ranges
    <3> QED
      BY <1>3, <3>1
  <2> QED
    BY <1>2, <2>1, IndexType
<1>6. PICK t8 \in HashTables : t8 = ADDPOS8(hc.hashTable, ip, Index(ip))
  BY <1>4, <1>5, AddType
<1>7. PICK t4 \in HashTables : t4 = ADDPOS4(t8, ip, Index(ip))
  BY <1>5, AddType
<1>8. PICK t48 \in HashTables : t48 = ADDPOS8(t4, ip + 1, Index(ip) + 1)
  BY <1>5, AddType
<1>9. PICK i8 \in Nat, pos4 \in Nat, after \in Nat :
        /\ i8 = hc.hashTable[LZ4MID_hash8Ptr(ip)] /\ pos4 = t8[LZ4MID_hash4Ptr(ip)]
        /\ after = t4[LZ4MID_hash8Ptr(ip + 1)]
  BY <1>3, <1>4, EntryType
<1>10. PICK long, short, second :
         /\ long = MidMatch(ip, i8) /\ short = MidMatch(ip, pos4)
         /\ second = IF pos4 >= hc.dictLimit /\ after >= hc.dictLimit /\ ip < mflimit
                     THEN MidMatch(ip + 1, after) ELSE None
  OBVIOUS
<1>11. /\ long = None \/ (Valid(long) /\ long.at = ip)
       /\ short = None \/ (Valid(short) /\ short.at = ip)
       /\ second = None \/ (Valid(second) /\ second.at = ip + 1)
  <2>1. ip + 1 \in Nat /\ anchor <= ip + 1
    BY <1>3
  <2>2. i8 \in Int /\ pos4 \in Int /\ after \in Int
    OBVIOUS
  <2>3. MidMatch(ip, i8) = None \/ (Valid(MidMatch(ip, i8)) /\ MidMatch(ip, i8).at = ip)
    BY <1>2, <1>3, <2>2, MidMatchOK
  <2>4. MidMatch(ip, pos4) = None \/ (Valid(MidMatch(ip, pos4)) /\ MidMatch(ip, pos4).at = ip)
    BY <1>2, <1>3, <2>2, MidMatchOK
  <2>5. MidMatch(ip + 1, after) = None \/ (Valid(MidMatch(ip + 1, after)) /\ MidMatch(ip + 1, after).at = ip + 1)
    BY <1>2, <2>1, <2>2, MidMatchOK
  <2> QED
    BY <1>10, <2>3, <2>4, <2>5
<1> DEFINE inDict == call.usingDictCtx /\ Index(ip) - hc.lowLimit < LZ4_DISTANCE_MAX - 8
           there == IF inDict /\ IsMid(hc.dictCtx) THEN LZ4MID_searchExtDict(ip) ELSE NoMatch
           Take(m, t) == /\ m1' = m /\ hc' = [hc EXCEPT !.hashTable = t]
                         /\ Goto("mid_encode") /\ UNCHANGED <<ip, find>>
<1>12. \/ long # None /\ Take(long, t8)
       \/ short # None /\ second.len > short.len /\ Take(second, t48)
       \/ short # None /\ Take(short, t4)
       \/ there.len > 0 /\ Take(Match(ip, there.len, there.off), t4)
       \/ /\ hc' = [hc EXCEPT !.hashTable = t4]
          /\ \/ inDict /\ find' = LZ4MID_searchHCDict(ip) /\ Goto("search_dict") /\ UNCHANGED ip
             \/ ip' = Skip /\ Goto("mid") /\ UNCHANGED find
  BY <1>6, <1>7, <1>8, <1>9, <1>10 DEF MidSearch
<1>13. inDict => hc.dictCtx # NoDictCtx
  BY <1>2 DEF Accepted
<1>14. ASSUME NEW m, Valid(m), m.at \in ip..ip + 1, NEW t \in HashTables, Take(m, t)
       PROVE  HCInv'
  <2>1. /\ StateOK(hc') /\ hc'.end = hc.end /\ hc'.prefixStart = hc.prefixStart /\ hc'.dictCtx = hc.dictCtx
    BY <1>3, <1>14, TableOK
  <2>2. /\ UNCHANGED <<text, call, ip, anchor, out, reach, inputConsumed, result>>
        /\ find' = find /\ pc' = "mid_encode" /\ m1' = m
    BY <1>1, <1>14 DEF Goto
  <2> QED
    BY <1>1, <1>3, <1>14, <2>1, <2>2, MidTaken
<1>15. there.len > 0 => Valid(Match(ip, there.len, there.off))
  <2>1. CASE inDict /\ IsMid(hc.dictCtx)
    BY <1>2, <1>3, <1>13, <2>1, ExtDictOK
  <2>2. CASE ~(inDict /\ IsMid(hc.dictCtx))
    BY <2>2 DEF NoMatch
  <2> QED
    BY <2>1, <2>2
<1>16. Match(ip, there.len, there.off).at = ip
  BY DEF Match
<1> HIDE DEF there, inDict, Take
<1>17. CASE long # None /\ Take(long, t8)
  <2>1. Valid(long) /\ long.at \in ip..ip + 1
    BY <1>3, <1>11, <1>17
  <2> QED
    BY <1>14, <1>17, <2>1
<1>18. CASE short # None /\ second.len > short.len /\ Take(second, t48)
  <2>1. second # None
    <3>1. short.len \in Nat
      BY <1>11, <1>18 DEF Valid, Matches
    <3>2. None.len = 0
      BY DEF None, Match
    <3> QED
      BY <1>18, <3>1, <3>2
  <2>2. Valid(second) /\ second.at \in ip..ip + 1
    BY <1>3, <1>11, <2>1
  <2> QED
    BY <1>14, <1>18, <2>2
<1>19. CASE short # None /\ Take(short, t4)
  <2>1. Valid(short) /\ short.at \in ip..ip + 1
    BY <1>3, <1>11, <1>19
  <2> QED
    BY <1>14, <1>19, <2>1
<1>20. CASE there.len > 0 /\ Take(Match(ip, there.len, there.off), t4)
  <2>1. Valid(Match(ip, there.len, there.off)) /\ Match(ip, there.len, there.off).at \in ip..ip + 1
    BY <1>3, <1>15, <1>16, <1>20
  <2> QED
    BY <1>14, <1>20, <2>1
<1>21. ASSUME hc' = [hc EXCEPT !.hashTable = t4]
       PROVE  StateOK(hc') /\ hc'.end = hc.end /\ hc'.prefixStart = hc.prefixStart /\ hc'.dictCtx = hc.dictCtx
  BY <1>3, <1>21, TableOK
<1>22. CASE hc' = [hc EXCEPT !.hashTable = t4] /\ ip' = Skip /\ Goto("mid") /\ UNCHANGED find
  <2>1. Skip \in Nat /\ ip <= Skip
    BY <1>2, SkipType
  <2>2. result' = result /\ pc' = "mid" /\ ip' \in Nat /\ ip <= ip' /\ find' \in Searches
    BY <1>3, <1>22, <2>1 DEF Goto
  <2>3. StateOK(hc') /\ hc'.end = hc.end /\ hc'.prefixStart = hc.prefixStart /\ hc'.dictCtx = hc.dictCtx
    BY <1>21, <1>22
  <2> QED
    BY <1>1, <1>3, <2>2, <2>3, GoesOn
<1>23. CASE /\ hc' = [hc EXCEPT !.hashTable = t4]
            /\ inDict /\ find' = LZ4MID_searchHCDict(ip) /\ Goto("search_dict") /\ UNCHANGED ip
  <2>1. PICK x \in Nat : x = hc.dictCtx.hashTable[LZ4HC_hashPtr(ip)]
    <3>1. StateOK(hc.dictCtx)
      BY <1>3, <1>13, <1>23, StateParts, DictIsState
    <3>2. PICK t \in HashTables : t = hc.dictCtx.hashTable
      BY <3>1, StateParts
    <3> QED
      BY <1>3, <3>2, EntryType
  <2>2. find' = [at |-> ip, low |-> ip, longest |-> 3, off |-> 0, back |-> 0, index |-> x, left |-> 2,
                 chainPos |-> 0, label |-> "mid_found"]
    BY <1>23, <2>1 DEF LZ4MID_searchHCDict, Search, MINMATCH
  <2>3. /\ find' \in Searches
        /\ find'.at = ip /\ find'.low = ip /\ find'.longest = 3 /\ find'.back = 0 /\ find'.label = "mid_found"
    BY <1>3, <2>2 DEF Searches, Labels
  <2>4. StateOK(hc') /\ hc'.end = hc.end /\ hc'.prefixStart = hc.prefixStart /\ hc'.dictCtx = hc.dictCtx
    BY <1>21, <1>23
  <2>5. /\ UNCHANGED <<text, call, ip, anchor, out, reach, inputConsumed, result>>
        /\ pc' = "search_dict" /\ pc' \in Labels /\ pc' # "idle" /\ ip' \in Nat /\ ip <= ip'
    BY <1>1, <1>3, <1>23 DEF Goto, Labels
  <2>6. /\ Typed' /\ Accepted' /\ RoomLeft' /\ Filled' /\ mflimit' = mflimit
    BY <1>3, <2>3, <2>4, <2>5, CallKept
  <2>7. ChainOK' /\ PlanOK'
    BY <2>3, <2>5, ChainQuiet, PlanQuiet
  <2>8. SearchOK'
    <3>1. /\ For("mid_found")'
          /\ ~For("found1")' /\ ~For("opt_first")' /\ ~For("found2")' /\ ~For("found3")' /\ ~For("opt_found")'
      BY <2>3, <2>5 DEF For
    <3>2. Initial' = 3
      BY <3>1 DEF Initial, MINMATCH
    <3>3. call'.usingDictCtx
      BY <1>23, <2>5 DEF inDict
    <3>4. find'.at <= mflimit' /\ find'.low <= find'.at /\ find'.back <= find'.at - find'.low
          /\ find'.longest > 0 /\ ~(find'.longest > Initial')
      BY <1>1, <1>3, <2>3, <2>6, <3>2
    <3> QED
      BY <2>3, <2>5, <3>1, <3>3, <3>4 DEF SearchOK, Purposes
  <2> QED
    BY <2>6, <2>7, <2>8 DEF HCInv
<1> QED
  BY <1>12, <1>17, <1>18, <1>19, <1>20, <1>22, <1>23

\* What a search that is over has found.
LEMMA FoundParts ==
  ASSUME HCInv, pc \in Purposes
  PROVE  /\ find \in Searches /\ find.at \in Nat /\ find.longest \in Nat /\ find.low \in Nat
         /\ find.longest > 0 =>
              /\ find.low <= find.at /\ find.at <= mflimit
              /\ find.longest > Initial =>
                   /\ Found \in Matches /\ Found.len = find.longest /\ Found.off = find.off
                   /\ find.low <= Found.at /\ Found.at <= find.at
                   /\ find.at + 4 <= EndOf(Found) /\ EndOf(Found) <= matchlimit
                   /\ EndOf(Found) = Found.at + Found.len
         /\ Found.len = find.longest
<1>1. Typed /\ Accepted /\ SearchOK
  BY DEF HCInv, Purposes
<1>2. find \in Searches
  BY <1>1 DEF Typed
<1>3. find.at \in Nat /\ find.longest \in Nat /\ find.low \in Nat /\ find.back \in Nat /\ find.off \in Int
  BY <1>2 DEF Searches
<1>4. Found.len = find.longest /\ Found.off = find.off /\ Found.at = find.at - find.back
  BY DEF Found, Match
<1>5. ASSUME find.longest > 0
      PROVE  /\ find.low <= find.at /\ find.at <= mflimit /\ find.back <= find.at - find.low
             /\ find.longest > Initial =>
                  find.at - find.back + find.longest \in find.at + MINMATCH..matchlimit
  <2>1. \E l \in Purposes : For(l)
    BY DEF For
  <2> QED
    BY <1>1, <1>5, <2>1 DEF SearchOK
<1>6. ASSUME find.longest > 0, find.longest > Initial
      PROVE  /\ Found \in Matches /\ find.low <= Found.at /\ Found.at <= find.at
             /\ find.at + 4 <= EndOf(Found) /\ EndOf(Found) <= matchlimit
  <2>1. PICK x \in Nat : x = find.at - find.back /\ find.low <= x /\ x <= find.at
    BY <1>3, <1>5, <1>6
  <2>2. Found = [at |-> x, len |-> find.longest, off |-> find.off]
    BY <2>1 DEF Found, Match
  <2>3. Found \in Matches
    BY <1>3, <2>1, <2>2 DEF Matches
  <2>4. x + find.longest \in find.at + 4..matchlimit
    BY <1>5, <1>6, <2>1 DEF MINMATCH
  <2>5. EndOf(Found) = x + find.longest
    BY <1>4, <2>1 DEF EndOf
  <2> QED
    BY <1>3, <1>4, <2>1, <2>3, <2>4, <2>5
<1> QED
  BY <1>2, <1>3, <1>4, <1>5, <1>6 DEF EndOf

\* A search of an attached dictionary by level 2 ends.
LEMMA MidFoundInv ==
  ASSUME HCInv, MidFound
  PROVE  HCInv'
<1>1. /\ pc = "mid_found" /\ UNCHANGED <<text, call, anchor, out, reach, inputConsumed, hc, find>>
      /\ IF find.longest >= MINMATCH
         THEN m1' = Found /\ Goto("mid_encode") /\ UNCHANGED ip
         ELSE ip' = Skip /\ Goto("mid") /\ UNCHANGED m1
  BY DEF MidFound
<1>2. Typed /\ Accepted /\ SearchOK /\ pc # "idle"
  BY <1>1 DEF HCInv
<1>3. StateOK(hc) /\ find \in Searches
  BY <1>2 DEF Typed
<1>4. /\ StateOK(hc') /\ hc'.end = hc.end /\ hc'.prefixStart = hc.prefixStart /\ hc'.dictCtx = hc.dictCtx
      /\ find' = find /\ find' \in Searches
  BY <1>1, <1>3
<1>5. CASE find.longest >= MINMATCH
  <2>1. find.low = ip /\ find.at = ip /\ Initial = 3 /\ find.longest > 3 /\ find.longest > 0
    BY <1>1, <1>2, <1>3, <1>5 DEF SearchOK, For, Initial, MINMATCH, Searches
  <2>2. /\ Found \in Matches /\ Found.at = ip /\ Found.len >= 4 /\ EndOf(Found) <= matchlimit /\ ip <= mflimit
    <3>0. pc \in Purposes /\ find.longest > Initial /\ find.longest > 0
      BY <1>1, <2>1 DEF Purposes
    <3>1. /\ Found \in Matches /\ Found.len = find.longest
          /\ find.low <= Found.at /\ Found.at <= find.at
          /\ EndOf(Found) <= matchlimit /\ find.at <= mflimit
      BY <3>0, FoundParts
    <3>2. Found.at \in Nat
      BY <3>1 DEF Matches
    <3>3. Found.at = ip
      <4>1. ip \in Nat
        BY <1>2, Ranges
      <4> QED
        BY <2>1, <3>1, <3>2, <4>1
    <3> QED
      BY <1>5, <2>1, <3>1, <3>3 DEF MINMATCH
  <2>3. Valid(m1') /\ m1'.at \in ip..ip + 1
    <3>1. anchor <= ip /\ ip \in Nat
      BY <1>2, Ranges
    <3> QED
      BY <1>1, <1>5, <2>2, <3>1 DEF Valid, MINMATCH
  <2>4. UNCHANGED <<text, call, ip, anchor, out, reach, inputConsumed, result>> /\ pc' = "mid_encode"
    BY <1>1, <1>5 DEF Goto
  <2> QED
    BY <1>2, <1>4, <2>2, <2>3, <2>4, MidTaken
<1>6. CASE ~(find.longest >= MINMATCH)
  <2>1. Skip \in Nat /\ ip <= Skip
    BY <1>2, SkipType
  <2>2. /\ UNCHANGED <<text, call, anchor, out, reach, inputConsumed, result>>
        /\ pc' = "mid" /\ ip' \in Nat /\ ip <= ip'
    BY <1>1, <1>6, <2>1 DEF Goto
  <2> QED
    BY <1>2, <1>4, <2>2, GoesOn
<1> QED
  BY <1>5, <1>6

\* The table with the end of a match is a table.
LEMMA EndOfMatchType ==
  ASSUME Typed, Accepted, NEW t \in HashTables, NEW p \in Nat, source + 4 <= p
  PROVE  EndOfMatch(t, p) \in HashTables
<1>1. PICK f \in Int, s \in Nat, d \in Nat : f = hc.prefixStart /\ s = source /\ d = hc.dictLimit /\ f <= s
  BY Ranges
<1>2. Index(p) = p - f + d
  BY <1>1 DEF Index, IndexIn
<1>3. Index(p) - 3 \in Nat /\ Index(p) - 2 \in Nat /\ Index(p) - 1 \in Nat
      /\ (p - hc.prefixStart > 5 => Index(p) - 5 \in Nat)
  BY <1>1, <1>2
<1>4. PICK far \in HashTables : far = IF p - hc.prefixStart > 5 THEN ADDPOS8(t, p - 5, Index(p) - 5) ELSE t
  BY <1>3, AddType
<1>5. PICK a \in HashTables : a = ADDPOS8(far, p - 3, Index(p) - 3)
  BY <1>3, AddType
<1>6. PICK t8 \in HashTables : t8 = ADDPOS8(a, p - 2, Index(p) - 2)
  BY <1>3, AddType
<1>7. PICK b \in HashTables : b = ADDPOS4(t8, p - 2, Index(p) - 2)
  BY <1>3, AddType
<1>8. PICK c \in HashTables : c = ADDPOS4(b, p - 1, Index(p) - 1)
  BY <1>3, AddType
<1>9. EndOfMatch(t, p) = IF p - 2 < iend - LZ4MID_HASHSIZE THEN c ELSE t
  BY <1>4, <1>5, <1>6, <1>7, <1>8 DEF EndOfMatch
<1> QED
  BY <1>9

\* Level 2 encodes what it has found, moved back as far as the bytes are the same.
LEMMA MidEncodeInv ==
  ASSUME HCInv, MidEncode
  PROVE  HCInv'
<1> DEFINE back == CountBack(m1.at, m1.at - m1.off,
                             MinOf(m1.at - anchor, m1.at - hc.prefixStart - m1.off))
           m    == Match(m1.at - back, m1.len + back, m1.off)
           t8   == ADDPOS8(ADDPOS8(hc.hashTable, m.at + 1, Index(ip) + 1), m.at + 2, Index(ip) + 2)
           t4   == ADDPOS4(t8, m.at + 1, Index(ip) + 1)
<1>1. /\ pc = "mid_encode" /\ LZ4HC_encodeSequence(m, "mid") /\ find' = find
      /\ hc' = Dirtied([hc EXCEPT !.hashTable = IF Fits(m) THEN EndOfMatch(t4, EndOf(m)) ELSE t4])
  BY DEF MidEncode
<1>2. Typed /\ Accepted /\ pc # "idle" /\ Valid(m1)
  BY <1>1 DEF HCInv, ChainOK
<1>3. StateOK(hc) /\ find \in Searches
  BY <1>2 DEF Typed
<1>4. /\ m1.at \in Nat /\ m1.len \in Nat /\ m1.off \in Int
      /\ anchor <= m1.at /\ 4 <= m1.len /\ EndOf(m1) = m1.at + m1.len /\ EndOf(m1) <= matchlimit
  BY <1>2, ValidParts
<1>5. anchor \in Nat /\ ip \in Nat /\ source \in Nat /\ source <= anchor /\ source <= ip /\ hc.prefixStart \in Int
  BY <1>2, Ranges
<1>6. back \in Nat /\ back <= m1.at - anchor
  <2>1. PICK a \in Nat, o \in Int, x \in Int, y \in Int :
          /\ a = m1.at /\ o = m1.off /\ x = m1.at - anchor /\ y = m1.at - hc.prefixStart - m1.off /\ 0 <= x
    BY <1>4, <1>5
  <2>2. PICK l \in Int : l = MinOf(x, y) /\ l <= x
    <3>1. MinOf(x, y) \in {x, y} /\ MinOf(x, y) <= x
      BY DEF MinOf
    <3> QED
      BY <3>1
  <2>3. PICK q \in Int : q = a - o
    OBVIOUS
  <2>4. back = CountBack(a, q, l)
    BY <2>1, <2>2, <2>3
  <2>5. PICK c : c = CountBack(a, q, l)
    OBVIOUS
  <2>6. c \in Nat /\ c <= MaxOf(0, l)
    BY ONLY <2>5, CountBackBounds, a \in Int, q \in Int, l \in Int
  <2>7. c <= x
    BY <2>1, <2>2, <2>6 DEF MaxOf
  <2> QED
    BY <2>1, <2>4, <2>5, <2>6, <2>7
<1> HIDE DEF back
<1>7. PICK at \in Nat, len \in Nat : at = m1.at - back /\ len = m1.len + back /\ anchor <= at /\ 4 <= len
                                     /\ at + len = m1.at + m1.len
  <2>1. m1.at - back \in Nat /\ m1.len + back \in Nat /\ anchor <= m1.at - back /\ 4 <= m1.len + back
        /\ (m1.at - back) + (m1.len + back) = m1.at + m1.len
    BY <1>4, <1>5, <1>6
  <2> QED
    BY <2>1
<1>8. m = [at |-> at, len |-> len, off |-> m1.off]
  BY <1>7 DEF Match
<1>9. PICK s : s = m
  OBVIOUS
<1>10. s \in Matches /\ s.at = at /\ s.len = len
  BY <1>4, <1>8, <1>9 DEF Matches
<1>11. EndOf(s) = at + len /\ EndOf(s) <= matchlimit /\ EndOf(s) \in Nat /\ source + 4 <= EndOf(s)
  BY <1>4, <1>5, <1>7, <1>10 DEF EndOf
<1>12. Valid(s)
  BY <1>7, <1>10, <1>11 DEF Valid, MINMATCH
<1>13. PICK h \in HashTables : hc' = Dirtied([hc EXCEPT !.hashTable = h])
  <2>1. Index(ip) + 1 \in Nat /\ Index(ip) + 2 \in Nat
    <3>1. Index(ip) \in Nat
      BY <1>2, <1>5, IndexType
    <3> QED
      BY <3>1
  <2>2. hc.hashTable \in HashTables
    BY <1>3, StateParts
  <2>3. ADDPOS8(hc.hashTable, m.at + 1, Index(ip) + 1) \in HashTables
    BY <2>1, <2>2, AddType
  <2>4. t8 \in HashTables
    BY <2>1, <2>3, AddType
  <2> HIDE DEF t8
  <2>5. t4 \in HashTables
    BY <2>1, <2>4, AddType
  <2> HIDE DEF t4
  <2>6. EndOfMatch(t4, EndOf(s)) \in HashTables
    BY <1>2, <1>11, <2>5, EndOfMatchType
  <2> HIDE DEF m
  <2> QED
    BY <1>1, <1>9, <2>5, <2>6
<1>14. /\ StateOK(hc') /\ hc'.end = hc.end /\ hc'.prefixStart = hc.prefixStart /\ hc'.dictCtx = hc.dictCtx
  <2>1. PICK c : c = [hc EXCEPT !.hashTable = h]
    OBVIOUS
  <2>2. StateOK(c) /\ c.end = hc.end /\ c.prefixStart = hc.prefixStart /\ c.dictCtx = hc.dictCtx
    BY <1>3, <2>1, TableOK
  <2> QED
    BY <1>13, <2>1, <2>2, DirtiedOK
<1>15. "mid" \in Labels \ {"idle", "last_literals"} /\ find' \in Searches
  BY <1>1, <1>3 DEF Labels
<1>16. LZ4HC_encodeSequence(s, "mid")
  BY <1>1, <1>9
<1>17. /\ Typed' /\ Accepted' /\ RoomLeft' /\ Filled'
       /\ pc' \in {"mid", "idle", "last_literals"}
  BY <1>2, <1>12, <1>14, <1>15, <1>16, EncodeKeeps
<1>18. SearchOK' /\ ChainOK' /\ PlanOK'
  BY <1>17, Quiet
<1> QED
  BY <1>17, <1>18 DEF HCInv

---------------------------------------------------------------------------
(* LZ4HC_compress_hashChain.                                               *)

\* A match cut to n bytes, and one moved n bytes on.
LEMMA CutOK ==
  ASSUME NEW m \in Matches, NEW n \in Nat
  PROVE  Cut(m, n) \in Matches /\ Cut(m, n).at = m.at /\ Cut(m, n).len = n /\ EndOf(Cut(m, n)) = m.at + n
<1>1. PICK c : c = [m EXCEPT !.len = n]
  OBVIOUS
<1>2. c \in Matches /\ c.at = m.at /\ c.len = n
  BY <1>1 DEF Matches
<1>3. Cut(m, n) = c
  BY <1>1 DEF Cut
<1> QED
  BY <1>2, <1>3 DEF EndOf

\* A match moved n bytes on ends where it did.
LEMMA ShiftOK ==
  ASSUME NEW m \in Matches, NEW n \in Nat, n <= m.len
  PROVE  /\ Shift(m, n) \in Matches /\ Shift(m, n).at = m.at + n /\ Shift(m, n).len = m.len - n
         /\ EndOf(Shift(m, n)) = EndOf(m)
<1>1. PICK a \in Nat, l \in Nat, x \in Nat, y \in Nat : a = m.at /\ l = m.len /\ x = a + n /\ y = l - n
  BY DEF Matches
<1>2. PICK c : c = [m EXCEPT !.at = x, !.len = y]
  OBVIOUS
<1>3. c \in Matches /\ c.at = x /\ c.len = y
  BY <1>2 DEF Matches
<1>4. Shift(m, n) = c
  BY <1>1, <1>2 DEF Shift
<1>5. x + y = a + l
  BY <1>1
<1> QED
  BY <1>1, <1>3, <1>4, <1>5 DEF EndOf

\* A search begins within the call.
LEMMA SearchBegun ==
  ASSUME HashesInTable, HCInv, pc # "idle",
         NEW p \in Nat, NEW low \in Nat, NEW longest \in Nat, NEW label \in Purposes, label # "mid_found",
         longest > 0, source <= p, low <= p, p <= mflimit,
         StartSearch(p, low, longest, label), UNCHANGED searching,
         label \in {"found1", "opt_first"} => low = ip /\ p = ip /\ longest = 3,
         label = "found2" => low = m1'.at /\ p = EndOf(m1') - 2 /\ longest = m1'.len,
         label = "found3" => low = m2'.at /\ p = EndOf(m2') - 3 /\ longest = m2'.len,
         label = "opt_found" =>
           /\ low = ip + cur' /\ p = ip + cur'
           /\ longest = IF call.fullUpdate THEN 3 ELSE last_match_pos' - cur'
  PROVE  /\ Typed' /\ Accepted' /\ RoomLeft' /\ Filled' /\ SearchOK'
         /\ matchlimit' = matchlimit /\ mflimit' = mflimit
         /\ pc' = "search" /\ find'.label = label
<1>1. Typed /\ Accepted
  BY DEF HCInv
<1>2. label \in Labels
  BY DEF Purposes, Labels
<1>3. p <= iend
  <2>1. mflimit = iend - 12 /\ iend \in Nat
    BY <1>1, Ranges
  <2> QED
    BY <2>1
<1>4. /\ StateOK(hc') /\ hc'.end = hc.end /\ hc'.prefixStart = hc.prefixStart
      /\ hc'.dictCtx = hc.dictCtx
      /\ find' \in Searches /\ find'.at = p /\ find'.low = low /\ find'.longest = longest
      /\ find'.back = 0 /\ find'.label = label
      /\ pc' = "search" /\ result' = result
  BY <1>1, <1>2, <1>3, StartSearchOK
<1>5. UNCHANGED <<text, call, ip, anchor, out, reach, inputConsumed>>
  BY DEF searching
<1>6. ip' \in Nat /\ ip <= ip' /\ pc' \in Labels /\ pc' # "idle"
  <2>1. ip \in Nat
    BY <1>1, Ranges
  <2> QED
    BY <1>4, <1>5, <2>1 DEF Labels
<1>7. /\ Typed' /\ Accepted' /\ RoomLeft' /\ Filled'
      /\ matchlimit' = matchlimit /\ mflimit' = mflimit
  BY <1>4, <1>5, <1>6, CallKept
<1>8. \A l \in Purposes : For(l)' <=> l = label
  BY <1>4 DEF For, Purposes
<1>9. /\ For("found1")' <=> label = "found1"
      /\ For("found2")' <=> label = "found2"
      /\ For("found3")' <=> label = "found3"
      /\ For("mid_found")' <=> label = "mid_found"
      /\ For("opt_first")' <=> label = "opt_first"
      /\ For("opt_found")' <=> label = "opt_found"
  BY <1>8 DEF Purposes
<1>10. Initial' = longest
  <2>1. Initial' = IF For("found2")' THEN m1'.len
                   ELSE IF For("found3")' THEN m2'.len
                   ELSE IF For("opt_found")' /\ ~call'.fullUpdate THEN last_match_pos' - cur'
                   ELSE 3
    BY DEF Initial, MINMATCH
  <2> QED
    BY <1>5, <1>9, <2>1 DEF Purposes
<1>11. SearchOK'
  <2>1. find'.low <= find'.at /\ find'.at <= mflimit' /\ find'.back <= find'.at - find'.low
        /\ ~(find'.longest > Initial') /\ find'.longest > 0
    BY <1>4, <1>7, <1>10
  <2>2. /\ For("found1")' \/ For("mid_found")' \/ For("opt_first")' => find'.low = ip' /\ find'.at = ip'
        /\ For("found2")' => find'.low = m1'.at /\ find'.at = EndOf(m1') - 2
        /\ For("found3")' => find'.low = m2'.at /\ find'.at = EndOf(m2') - 3
        /\ For("opt_found")' => find'.low = ip' + cur' /\ find'.at = ip' + cur'
    BY <1>4, <1>5, <1>9
  <2>3. pc' \in {"search", "search_dict"} =>
          /\ find'.label \in Purposes /\ (find'.label = "mid_found" => pc' = "search_dict")
          /\ pc' = "search_dict" => call'.usingDictCtx
          /\ find'.longest > 0
    BY <1>4
  <2>4. EndOf(m1)' = EndOf(m1') /\ EndOf(m2)' = EndOf(m2')
    BY DEF EndOf
  <2> QED
    BY <2>1, <2>2, <2>3, <2>4 DEF SearchOK
<1> QED
  BY <1>4, <1>7, <1>11

\* A step that only chooses matches.
LEMMA Chosen ==
  ASSUME HCInv, pc # "idle", UNCHANGED <<text, call, ip, anchor, out, reach, inputConsumed, result, hc, find>>,
         pc' \in {"search2", "search3"}
  PROVE  /\ Typed' /\ Accepted' /\ RoomLeft' /\ Filled' /\ SearchOK' /\ PlanOK'
         /\ matchlimit' = matchlimit
<1>1. Typed
  BY DEF HCInv
<1>2. StateOK(hc') /\ ip' \in Nat /\ ip <= ip' /\ find' \in Searches /\ pc' \in Labels /\ pc' # "idle"
  BY <1>1 DEF Typed, Labels
<1>3. Typed' /\ Accepted' /\ RoomLeft' /\ Filled' /\ matchlimit' = matchlimit
  BY <1>2, CallKept
<1>4. SearchOK' /\ PlanOK'
  BY SearchQuiet, PlanQuiet DEF Purposes
<1> QED
  BY <1>3, <1>4

\* A match is encoded.
LEMMA ChainEncodes ==
  ASSUME HCInv, pc # "idle", NEW m, Valid(m), NEW label \in {"hc", "search2", "search3", "encode2", "opt"},
         ChainEncode(m, label)
  PROVE  /\ Typed' /\ Accepted' /\ RoomLeft' /\ Filled' /\ SearchOK' /\ PlanOK'
         /\ matchlimit' = matchlimit
         /\ pc' # label \/ label \in {"hc", "opt"} => HCInv'
         /\ pc' = label => anchor' = EndOf(m) /\ ip' = EndOf(m)
<1>1. Typed
  BY DEF HCInv
<1>2. /\ LZ4HC_encodeSequence(m, label) /\ hc' = Dirtied(hc) /\ find' = find
  BY DEF ChainEncode
<1>3. StateOK(hc) /\ find \in Searches
  BY <1>1 DEF Typed
<1>4. /\ StateOK(hc') /\ hc'.end = hc.end /\ hc'.prefixStart = hc.prefixStart /\ hc'.dictCtx = hc.dictCtx
      /\ find' \in Searches
  BY <1>2, <1>3, DirtiedOK
<1>5. label \in Labels \ {"idle", "last_literals"}
  BY DEF Labels
<1>6. /\ Typed' /\ Accepted' /\ RoomLeft' /\ Filled' /\ matchlimit' = matchlimit
      /\ pc' \in {label, "idle", "last_literals"}
      /\ pc' = label => anchor' = EndOf(m) /\ ip' = EndOf(m)
  BY <1>2, <1>4, <1>5, EncodeKeeps
<1>7. SearchOK' /\ PlanOK'
  BY <1>6, SearchQuiet, PlanQuiet DEF Purposes
<1>8. pc' # label \/ label \in {"hc", "opt"} => HCInv'
  <2>1. pc' # label \/ label \in {"hc", "opt"} => pc' \in {"idle", "last_literals", "hc", "opt"}
    BY <1>6
  <2> QED
    BY <1>6, <2>1, Quiet DEF HCInv
<1> QED
  BY <1>6, <1>7, <1>8

\* A match that can be encoded after the step.
NextValid(m) ==
  /\ m \in Matches
  /\ anchor' <= m.at /\ MINMATCH <= m.len /\ EndOf(m) <= matchlimit'

\* What search2 and search3 choose between.
Pair(first, second) ==
  /\ second.at - first.at \in 0..2 /\ (first.at < second.at => second.len >= 5)
Ahead(first, second) ==
  /\ EndOf(second) >= first.at + 8 /\ second.at >= first.at
  /\ second.at <= EndOf(first) \/ (second.at = EndOf(first) + 1 /\ second.len >= 6)

\* What the second search needs of the matches.
LEMMA ChainAt2 ==
  ASSUME pc' = "search2" \/ (pc' \in {"found2", "search"} /\ (pc' = "search" => find'.label = "found2")),
         NextValid(m0'), NextValid(m1'), Pair(m0', m1')
  PROVE  ChainOK'
BY DEF ChainOK, For, NextValid, Valid, Pair, EndOf

\* What the third one needs.
LEMMA ChainAt3 ==
  ASSUME pc' = "search3" \/ (pc' \in {"found3", "search"} /\ (pc' = "search" => find'.label = "found3")),
         NextValid(m1'), NextValid(m2'), Ahead(m1', m2'), pc' # "search3" => m2'.at - m1'.at >= 4
  PROVE  ChainOK'
BY DEF ChainOK, For, NextValid, Valid, Ahead, EndOf

\* A match that can be encoded still can.
LEMMA StillValid ==
  ASSUME NEW m, Valid(m), UNCHANGED anchor, matchlimit' = matchlimit
  PROVE  NextValid(m)
BY DEF Valid, NextValid

\* The first search of a round begins.
LEMMA ChainFirstInv ==
  ASSUME HashesInTable, HCInv, ChainFirst
  PROVE  HCInv'
<1>1. /\ pc = "hc" /\ ip <= mflimit /\ StartSearch(ip, ip, 3, "found1")
      /\ UNCHANGED <<searching, choices, pricing>>
  BY DEF ChainFirst, MINMATCH
<1>2. Typed /\ Accepted /\ pc # "idle"
  BY <1>1 DEF HCInv
<1>3. ip \in Nat /\ source \in Nat /\ source <= ip
  <2>1. ip \in Nat /\ source \in Nat /\ source <= anchor /\ anchor <= ip /\ anchor \in Nat
    BY <1>2, Ranges
  <2> QED
    BY <2>1
<1>4. PICK p \in Nat, label \in Purposes : p = ip /\ label = "found1"
  BY <1>3 DEF Purposes
<1>5. /\ Typed' /\ Accepted' /\ RoomLeft' /\ Filled' /\ SearchOK'
      /\ pc' = "search" /\ find'.label = label
  <2>1. StartSearch(p, p, 3, label) /\ source <= p /\ p <= p /\ p <= mflimit /\ UNCHANGED searching
    BY <1>1, <1>3, <1>4
  <2>2. /\ label # "mid_found" /\ label # "found2" /\ label # "found3" /\ label # "opt_found"
        /\ label \in {"found1", "opt_first"} => p = ip /\ p = ip /\ 3 = 3
    BY <1>4
  <2>3. 3 \in Nat /\ 3 > 0
    OBVIOUS
  <2> QED
    BY <1>2, <2>1, <2>2, <2>3, SearchBegun
<1>6. ChainOK' /\ PlanOK'
  BY <1>4, <1>5, ChainQuiet, PlanQuiet
<1> QED
  BY <1>5, <1>6 DEF HCInv

\* It ends: a literal, or a match.
LEMMA ChainFound1Inv ==
  ASSUME HCInv, ChainFound1
  PROVE  HCInv'
<1>1. /\ pc = "found1" /\ UNCHANGED <<text, call, anchor, out, reach, inputConsumed, hc, find>>
      /\ IF Found.len < MINMATCH
         THEN ip' = ip + 1 /\ Goto("hc") /\ UNCHANGED choices
         ELSE m0' = Found /\ m1' = Found /\ Goto("search2") /\ UNCHANGED <<ip, m2>>
  BY DEF ChainFound1
<1>2. Typed /\ Accepted /\ SearchOK /\ pc # "idle" /\ pc \in Purposes
  BY <1>1 DEF HCInv, Purposes
<1>3. StateOK(hc) /\ find \in Searches /\ find.longest \in Nat
  BY <1>2 DEF Typed, Searches
<1>4. ip \in Nat /\ anchor \in Nat /\ anchor <= ip
  BY <1>2, Ranges
<1>5. CASE Found.len < MINMATCH
  <2>1. ip + 1 \in Nat /\ ip <= ip + 1
    BY <1>4
  <2>2. /\ UNCHANGED <<text, call, anchor, out, reach, inputConsumed, result>>
        /\ pc' = "hc" /\ ip' \in Nat /\ ip <= ip'
    BY <1>1, <1>5, <2>1 DEF Goto
  <2>3. /\ StateOK(hc') /\ hc'.end = hc.end /\ hc'.prefixStart = hc.prefixStart /\ hc'.dictCtx = hc.dictCtx
        /\ find' \in Searches
    BY <1>1, <1>3
  <2> QED
    BY <1>2, <2>2, <2>3, GoesOn
<1>6. CASE ~(Found.len < MINMATCH)
  <2>1. Found.len = find.longest
    BY <1>2, FoundParts
  <2>2. find.longest > 3 /\ find.longest > 0 /\ Initial = 3
    BY <1>1, <1>3, <1>6, <2>1 DEF Initial, For, MINMATCH
  <2>3. find.low = ip
    BY <1>1, <1>2 DEF SearchOK, For
  <2>4. Found \in Matches /\ ip <= Found.at /\ EndOf(Found) <= matchlimit
    <3>1. find.longest > Initial
      BY <2>2
    <3>2. Found \in Matches /\ find.low <= Found.at /\ EndOf(Found) <= matchlimit
      BY <1>2, <2>2, <3>1, FoundParts
    <3> QED
      BY <2>3, <3>2
  <2>5. Found.at \in Nat
    BY <2>4 DEF Matches
  <2>6. Valid(Found)
    BY <1>3, <1>4, <1>6, <2>1, <2>2, <2>4, <2>5 DEF Valid, MINMATCH
  <2>7. /\ UNCHANGED <<text, call, ip, anchor, out, reach, inputConsumed, result, hc, find>>
        /\ pc' = "search2" /\ m0' = Found /\ m1' = Found
    BY <1>1, <1>6 DEF Goto
  <2>8. /\ Typed' /\ Accepted' /\ RoomLeft' /\ Filled' /\ SearchOK' /\ PlanOK'
        /\ matchlimit' = matchlimit
    BY <1>2, <2>7, Chosen
  <2>9. NextValid(Found)
    BY <2>6, <2>7, <2>8, StillValid
  <2>10. Pair(Found, Found)
    BY <2>5 DEF Pair
  <2>11. ChainOK'
    BY <2>7, <2>9, <2>10, ChainAt2
  <2> QED
    BY <2>8, <2>11 DEF HCInv
<1> QED
  BY <1>5, <1>6

\* A search for a longer match, or none as the end is near.
LEMMA SearchWiderOK ==
  ASSUME HashesInTable, HCInv, pc # "idle", NEW m, Valid(m),
         NEW n \in {2, 3}, NEW label \in {"found2", "found3"}, SearchWider(m, n, label),
         label = "found2" => n = 2 /\ m = m1',
         label = "found3" => n = 3 /\ m = m2'
  PROVE  /\ Typed' /\ Accepted' /\ RoomLeft' /\ Filled' /\ SearchOK' /\ PlanOK'
         /\ matchlimit' = matchlimit
         /\ pc' = label \/ (pc' = "search" /\ find'.label = label)
         /\ UNCHANGED anchor
<1>1. Typed /\ Accepted
  BY DEF HCInv
<1>2. UNCHANGED <<searching, pricing>> /\ UNCHANGED <<text, call, ip, anchor, out, reach, inputConsumed>>
  BY DEF SearchWider, searching
<1>3. /\ m.at \in Nat /\ m.len \in Nat /\ anchor <= m.at /\ 4 <= m.len
      /\ EndOf(m) = m.at + m.len
  BY <1>1, ValidParts
<1>4. anchor \in Nat /\ source \in Nat /\ source <= anchor /\ mflimit \in Int /\ ip \in Nat
  BY <1>1, Ranges
<1>5. CASE EndOf(m) <= mflimit
  <2>1. PICK p \in Nat, low \in Nat, longest \in Nat :
          p = EndOf(m) - n /\ low = m.at /\ longest = m.len /\ low <= p /\ longest > 0 /\ source <= p /\ p <= mflimit
    <3>1. PICK a \in Nat, l \in Nat : a = m.at /\ l = m.len /\ EndOf(m) = a + l /\ 4 <= l /\ source <= a
      BY <1>3, <1>4
    <3>2. n \in Nat /\ n <= 3
      OBVIOUS
    <3>3. (a + l) - n \in Nat /\ a <= (a + l) - n /\ (a + l) - n <= a + l
      BY <3>1, <3>2
    <3> QED
      BY <1>4, <1>5, <3>1, <3>3
  <2>2. StartSearch(p, low, longest, label)
    BY <1>5, <2>1 DEF SearchWider
  <2>3. label \in Purposes /\ label # "mid_found" /\ label # "found1" /\ label # "opt_first" /\ label # "opt_found"
    BY DEF Purposes
  <2>4. /\ label = "found2" => low = m1'.at /\ p = EndOf(m1') - 2 /\ longest = m1'.len
        /\ label = "found3" => low = m2'.at /\ p = EndOf(m2') - 3 /\ longest = m2'.len
    BY <2>1
  <2>5. /\ Typed' /\ Accepted' /\ RoomLeft' /\ Filled' /\ SearchOK'
        /\ matchlimit' = matchlimit
        /\ pc' = "search" /\ find'.label = label
    BY <1>2, <2>1, <2>2, <2>3, <2>4, SearchBegun
  <2>6. PlanOK'
    BY <2>5, PlanQuiet
  <2> QED
    BY <1>2, <2>5, <2>6
<1>6. CASE ~(EndOf(m) <= mflimit)
  <2>1. find' = [find EXCEPT !.longest = 0] /\ pc' = label /\ result' = result /\ hc' = hc
    BY <1>6 DEF SearchWider, Goto
  <2>2. find \in Searches /\ StateOK(hc)
    BY <1>1 DEF Typed
  <2>3. find' \in Searches /\ find'.longest = 0
    BY <2>1, <2>2 DEF Searches
  <2>4. StateOK(hc') /\ ip' \in Nat /\ ip <= ip' /\ pc' \in Labels /\ pc' # "idle"
    BY <1>2, <1>4, <2>1, <2>2 DEF Labels
  <2>5. Typed' /\ Accepted' /\ RoomLeft' /\ Filled' /\ matchlimit' = matchlimit
    BY <1>2, <2>1, <2>3, <2>4, CallKept
  <2>6. SearchOK'
    BY <2>1, <2>3 DEF SearchOK, For
  <2>7. PlanOK'
    BY <2>1, PlanQuiet
  <2> QED
    BY <1>2, <2>1, <2>5, <2>6, <2>7
<1> QED
  BY <1>5, <1>6

\* A second search begins, near the end of the first match.
LEMMA ChainSearch2Inv ==
  ASSUME HashesInTable, HCInv, ChainSearch2
  PROVE  HCInv'
<1>1. pc = "search2" /\ SearchWider(m1, 2, "found2") /\ UNCHANGED <<m0, m1>>
  BY DEF ChainSearch2, choices
<1>2. Valid(m0) /\ Valid(m1) /\ Pair(m0, m1)
  BY <1>1 DEF HCInv, ChainOK, Pair
<1>3. /\ Typed' /\ Accepted' /\ RoomLeft' /\ Filled' /\ SearchOK' /\ PlanOK'
      /\ matchlimit' = matchlimit
      /\ pc' = "found2" \/ (pc' = "search" /\ find'.label = "found2")
      /\ UNCHANGED anchor
  <2>1. PICK n \in {2, 3}, label \in {"found2", "found3"} : n = 2 /\ label = "found2"
    OBVIOUS
  <2>2. SearchWider(m1, n, label) /\ pc # "idle"
    BY <1>1, <2>1
  <2>3. (label = "found2" => n = 2 /\ m1 = m1') /\ (label = "found3" => n = 3 /\ m1 = m2')
    BY <1>1, <2>1
  <2> QED
    BY <1>2, <2>1, <2>2, <2>3, SearchWiderOK
<1>4. NextValid(m0') /\ NextValid(m1')
  BY <1>1, <1>2, <1>3, StillValid
<1>5. ChainOK'
  BY <1>1, <1>2, <1>3, <1>4, ChainAt2
<1> QED
  BY <1>3, <1>5 DEF HCInv

\* The longer match a second search has found.
LEMMA LongerSecond ==
  ASSUME HCInv, pc = "found2", Found.len > m1.len
  PROVE  /\ Valid(Found) /\ m1.at <= Found.at /\ Found.at + 2 <= EndOf(m1)
         /\ EndOf(m1) + 2 <= EndOf(Found)
<1>1. Typed /\ Accepted /\ SearchOK /\ Valid(m1) /\ pc \in Purposes
  BY DEF HCInv, ChainOK, Purposes, For
<1>2. /\ m1.at \in Nat /\ m1.len \in Nat /\ anchor <= m1.at /\ 4 <= m1.len /\ EndOf(m1) = m1.at + m1.len
      /\ anchor \in Nat
  BY <1>1, ValidParts, Ranges
<1>3. Found.len = find.longest /\ find.longest \in Nat /\ find.at \in Nat
  BY <1>1, FoundParts
<1>4. find.longest > 0 /\ find.longest > Initial
  BY <1>2, <1>3 DEF Initial, For
<1>5. /\ find.low <= find.at
      /\ Found \in Matches /\ Found.len = find.longest
      /\ find.low <= Found.at /\ Found.at <= find.at
      /\ find.at + 4 <= EndOf(Found) /\ EndOf(Found) <= matchlimit
  BY <1>1, <1>4, FoundParts
<1>6. find.low = m1.at /\ find.at = EndOf(m1) - 2
  BY <1>1, <1>4 DEF SearchOK, For
<1>7. PICK f \in Nat, l \in Nat, a \in Nat, k \in Nat, e \in Nat :
        f = Found.at /\ l = Found.len /\ a = m1.at /\ k = m1.len /\ EndOf(Found) = e /\ e = f + l
  <2>1. Found.at \in Nat /\ Found.len \in Nat
    BY <1>5 DEF Matches
  <2>2. EndOf(Found) = Found.at + Found.len /\ Found.at + Found.len \in Nat
    BY <2>1 DEF EndOf
  <2> QED
    BY <1>2, <2>1, <2>2
<1>8. f <= a + k - 2 /\ a + k - 2 + 4 <= e /\ a <= f
  BY <1>2, <1>5, <1>6, <1>7
<1>9. f + 2 <= a + k /\ a + k + 2 <= e /\ anchor <= f /\ 4 <= l
  BY <1>2, <1>7, <1>8
<1> QED
  BY <1>2, <1>5, <1>7, <1>8, <1>9 DEF Valid, MINMATCH

\* It ends: the first match is encoded or replaced, or a third search follows.
LEMMA ChainFound2Inv ==
  ASSUME HCInv, ChainFound2
  PROVE  HCInv'
<1>1. pc = "found2"
  BY DEF ChainFound2
<1>2. Typed /\ Accepted /\ pc # "idle" /\ Valid(m0) /\ Valid(m1) /\ Pair(m0, m1)
  BY <1>1 DEF HCInv, ChainOK, Pair, For
<1>3. /\ m0.at \in Nat /\ m0.len \in Nat /\ 4 <= m0.len /\ EndOf(m0) = m0.at + m0.len
      /\ m1.at \in Nat /\ m1.len \in Nat /\ 4 <= m1.len /\ EndOf(m1) = m1.at + m1.len
  BY <1>2, ValidParts
<1>4. CASE Found.len <= m1.len /\ ChainEncode(m1, "hc")
  <2>1. PICK label \in {"hc", "search2", "search3", "encode2", "opt"} : label = "hc"
    OBVIOUS
  <2> QED
    BY <1>2, <1>4, <2>1, ChainEncodes
<1>5. ASSUME Found.len > m1.len, Choose("search2") \/ Choose("search3")
      PROVE  /\ Typed' /\ Accepted' /\ RoomLeft' /\ Filled' /\ SearchOK' /\ PlanOK'
             /\ matchlimit' = matchlimit /\ UNCHANGED anchor
             /\ Valid(Found) /\ m1.at <= Found.at /\ Found.at + 2 <= EndOf(m1)
             /\ EndOf(m1) + 2 <= EndOf(Found)
             /\ Found.at \in Nat /\ Found.len \in Nat /\ EndOf(Found) = Found.at + Found.len
  <2>1. /\ UNCHANGED <<text, call, ip, anchor, out, reach, inputConsumed, result, hc, find>>
        /\ pc' \in {"search2", "search3"}
    BY <1>5 DEF Choose, Goto, searching
  <2>2. /\ Typed' /\ Accepted' /\ RoomLeft' /\ Filled' /\ SearchOK' /\ PlanOK'
        /\ matchlimit' = matchlimit
    BY <1>2, <2>1, Chosen
  <2>3. /\ Valid(Found) /\ m1.at <= Found.at /\ Found.at + 2 <= EndOf(m1)
        /\ EndOf(m1) + 2 <= EndOf(Found)
    BY <1>1, <1>5, LongerSecond
  <2>4. Found.at \in Nat /\ Found.len \in Nat /\ EndOf(Found) = Found.at + Found.len
    BY <1>2, <2>3, ValidParts
  <2> QED
    BY <2>1, <2>2, <2>3, <2>4
<1>6. CASE /\ Found.len > m1.len /\ Found.at - First(Found).at < 3
           /\ m1' = Found /\ Choose("search2") /\ UNCHANGED <<m0, m2>>
  <2>1. /\ Typed' /\ Accepted' /\ RoomLeft' /\ Filled' /\ SearchOK' /\ PlanOK'
        /\ matchlimit' = matchlimit /\ UNCHANGED anchor
        /\ Valid(Found) /\ m1.at <= Found.at
        /\ Found.at \in Nat /\ Found.len \in Nat
    BY <1>5, <1>6
  <2>2. Pair(m0, Found)
    <3>1. PICK f \in Nat, l \in Nat, a0 \in Nat, l0 \in Nat, a1 \in Nat, l1 \in Nat :
            /\ f = Found.at /\ l = Found.len /\ a0 = m0.at /\ l0 = m0.len /\ a1 = m1.at /\ l1 = m1.len
            /\ a1 <= f /\ l > l1 /\ l0 >= 4 /\ l1 >= 4 /\ a1 - a0 \in 0..2
      BY <1>2, <1>3, <1>6, <2>1 DEF Pair
    <3>2. First(Found).at = IF a0 < a1 /\ f < a1 + l0 THEN a0 ELSE a1
      BY <3>1 DEF First
    <3>3. f - First(Found).at < 3
      BY <1>6, <3>1
    <3>4. f - a0 \in 0..2 /\ l >= 5
      BY <3>1, <3>2, <3>3
    <3> QED
      BY <3>1, <3>4 DEF Pair
  <2>3. pc' = "search2"
    BY <1>6 DEF Choose, Goto
  <2>4. NextValid(m0') /\ NextValid(m1')
    BY <1>2, <1>6, <2>1, StillValid
  <2>5. ChainOK'
    BY <1>6, <2>2, <2>3, <2>4, ChainAt2
  <2> QED
    BY <2>1, <2>5 DEF HCInv
<1>7. CASE /\ Found.len > m1.len /\ Found.at - First(Found).at >= 3
           /\ m1' = First(Found) /\ m2' = Found /\ Choose("search3") /\ UNCHANGED m0
  <2>1. /\ Typed' /\ Accepted' /\ RoomLeft' /\ Filled' /\ SearchOK' /\ PlanOK'
        /\ matchlimit' = matchlimit /\ UNCHANGED anchor
        /\ Valid(Found) /\ m1.at <= Found.at /\ Found.at + 2 <= EndOf(m1)
        /\ EndOf(m1) + 2 <= EndOf(Found)
        /\ Found.at \in Nat /\ Found.len \in Nat /\ EndOf(Found) = Found.at + Found.len
    BY <1>5, <1>7
  <2>2. Valid(First(Found))
    BY <1>2 DEF First
  <2>3. Ahead(First(Found), Found)
    <3>1. PICK f \in Nat, l \in Nat, a0 \in Nat, l0 \in Nat, a1 \in Nat, l1 \in Nat :
            /\ f = Found.at /\ l = Found.len /\ a0 = m0.at /\ l0 = m0.len /\ a1 = m1.at /\ l1 = m1.len
            /\ a1 <= f /\ l > l1 /\ l0 >= 4 /\ l1 >= 4 /\ a1 - a0 \in 0..2 /\ (a0 < a1 => l1 >= 5)
            /\ f + 2 <= a1 + l1 /\ EndOf(Found) = f + l /\ EndOf(m0) = a0 + l0 /\ EndOf(m1) = a1 + l1
      BY <1>2, <1>3, <1>7, <2>1 DEF Pair
    <3>2. CASE a0 < a1 /\ f < a1 + l0
      <4>1. First(Found) = m0
        BY <3>1, <3>2 DEF First
      <4>2. f - a0 >= 3
        BY <1>7, <3>1, <4>1
      <4>3. f + l >= a0 + 8 /\ f >= a0 /\ l >= 6 /\ (f <= a0 + l0 \/ f = a0 + l0 + 1)
        BY <3>1, <3>2, <4>2
      <4> QED
        BY <3>1, <4>1, <4>3 DEF Ahead
    <3>3. CASE ~(a0 < a1 /\ f < a1 + l0)
      <4>1. First(Found) = m1
        BY <3>1, <3>3 DEF First
      <4>2. f - a1 >= 3
        BY <1>7, <3>1, <4>1
      <4>3. f + l >= a1 + 8 /\ f >= a1 /\ f <= a1 + l1
        BY <3>1, <4>2
      <4> QED
        BY <3>1, <4>1, <4>3 DEF Ahead
    <3> QED
      BY <3>2, <3>3
  <2>4. pc' = "search3"
    BY <1>7 DEF Choose, Goto
  <2>5. NextValid(m1') /\ NextValid(m2')
    BY <1>7, <2>1, <2>2, StillValid
  <2>6. ChainOK'
    BY <1>7, <2>3, <2>4, <2>5, ChainAt3
  <2> QED
    BY <2>1, <2>6 DEF HCInv
<1> QED
  BY <1>4, <1>6, <1>7 DEF ChainFound2

\* How long the first of two matches is at best.
LEMMA BestLengthOK ==
  ASSUME Typed, Accepted, NEW m, NEW n, Valid(m), Valid(n), Ahead(m, n)
  PROVE  /\ BestLength(m, n) \in Nat /\ 4 <= BestLength(m, n) /\ BestLength(m, n) <= m.len
         /\ m.at + BestLength(m, n) + 4 <= EndOf(n)
<1>1. PICK a \in Nat, l \in Nat, b \in Nat, k \in Nat :
        /\ a = m.at /\ l = m.len /\ b = n.at /\ k = n.len /\ 4 <= l /\ 4 <= k
        /\ EndOf(m) = a + l /\ EndOf(n) = b + k
  BY ValidParts
<1>2. b + k >= a + 8
  BY <1>1 DEF Ahead
<1>3. BestLength(m, n) = MinOf(MinOf(l, 18), b + k - 4 - a)
  BY <1>1 DEF BestLength, OPTIMAL_ML, ML_MASK, MINMATCH
<1>4. PICK x \in Nat : x = MinOf(MinOf(l, 18), b + k - 4 - a) /\ 4 <= x /\ x <= l /\ a + x + 4 <= b + k
  <2>1. PICK y \in Nat : y = MinOf(l, 18) /\ 4 <= y /\ y <= l
    BY <1>1 DEF MinOf
  <2>2. PICK z \in Nat : z = b + k - 4 - a /\ 4 <= z
    BY <1>2
  <2>3. MinOf(y, z) \in {y, z} /\ MinOf(y, z) <= y /\ MinOf(y, z) <= z
    BY DEF MinOf
  <2>4. PICK x \in Nat : x = MinOf(y, z) /\ x <= y /\ x <= z /\ 4 <= x
    BY <2>1, <2>2, <2>3
  <2>5. x <= l /\ a + x + 4 <= b + k
    BY <2>1, <2>2, <2>4
  <2> QED
    BY <2>1, <2>2, <2>4, <2>5
<1> QED
  BY <1>1, <1>3, <1>4

\* The second of two matches, moved out of the way of the first.
LEMMA AfterMatchOK ==
  ASSUME Typed, Accepted, NEW m, NEW n, Valid(m), Valid(n), Ahead(m, n)
  PROVE  /\ Valid(AfterMatch(m, n)) /\ EndOf(AfterMatch(m, n)) = EndOf(n)
         /\ AfterMatch(m, n).at >= m.at + 4
         /\ AfterMatch(m, n).at <= EndOf(m) \/ AfterMatch(m, n) = n
         /\ n.at - m.at < OPTIMAL_ML => AfterMatch(m, n).at >= m.at + BestLength(m, n)
         /\ n.at - m.at >= OPTIMAL_ML => AfterMatch(m, n) = n
<1>1. PICK a \in Nat, l \in Nat, b \in Nat, k \in Nat :
        /\ a = m.at /\ l = m.len /\ b = n.at /\ k = n.len /\ 4 <= l /\ 4 <= k
        /\ EndOf(m) = a + l /\ EndOf(n) = b + k
  BY ValidParts
<1>2. b >= a
  BY <1>1 DEF Ahead
<1>3. PICK x \in Nat : x = BestLength(m, n) /\ 4 <= x /\ x <= l /\ a + x + 4 <= b + k
  BY <1>1, BestLengthOK
<1>4. OPTIMAL_ML = 18
  BY DEF OPTIMAL_ML, ML_MASK, MINMATCH
<1>5. CASE b - a < 18
  <2>1. PICK s \in Nat : s = MaxOf(0, x - (b - a)) /\ (s = 0 => b >= a + x) /\ (s > 0 => b + s = a + x)
    <3>1. PICK y \in Int : y = x - (b - a)
      OBVIOUS
    <3>2. CASE y > 0
      BY <3>1, <3>2 DEF MaxOf
    <3>3. CASE ~(y > 0)
      BY <3>1, <3>3 DEF MaxOf
    <3> QED
      BY <3>2, <3>3
  <2>2. AfterMatch(m, n) = Shift(n, s)
    BY <1>1, <1>3, <1>4, <1>5, <2>1 DEF AfterMatch
  <2>3. s <= k
    BY <1>3, <2>1
  <2>4. n \in Matches
    BY DEF Valid
  <2>5. /\ Shift(n, s) \in Matches /\ Shift(n, s).at = b + s /\ Shift(n, s).len = k - s
        /\ EndOf(Shift(n, s)) = b + k
    BY <1>1, <2>3, <2>4, ShiftOK
  <2>6. k - s >= 4 /\ b + s >= a + x /\ (b + s <= a + l \/ s = 0)
    BY <1>1, <1>3, <2>1
  <2>7. s = 0 => Shift(n, s) = n
    <3>1. n.at + 0 = n.at /\ n.len - 0 = n.len
      BY <1>1
    <3>2. [n EXCEPT !.at = n.at, !.len = n.len] = n
      BY <2>4 DEF Matches
    <3> QED
      BY <3>1, <3>2 DEF Shift
  <2>8. PICK v : v = Shift(n, s)
    OBVIOUS
  <2>9. anchor <= b + s
    <3>1. anchor <= b /\ anchor \in Nat
      BY <1>1, ValidParts, Ranges
    <3> QED
      BY <3>1
  <2>10. Valid(v)
    <3>1. EndOf(n) <= matchlimit
      BY DEF Valid
    <3> QED
      BY <1>1, <2>5, <2>6, <2>8, <2>9, <3>1 DEF Valid, MINMATCH
  <2>11. v.at >= a + 4 /\ v.at >= a + x /\ (v.at <= a + l \/ v = n) /\ EndOf(v) = b + k
    BY <1>3, <2>5, <2>6, <2>7, <2>8
  <2>12. AfterMatch(m, n) = v /\ ~(n.at - m.at >= OPTIMAL_ML)
    BY <1>1, <1>4, <1>5, <2>2, <2>8
  <2> QED
    BY <1>1, <1>3, <2>10, <2>11, <2>12
<1>6. CASE ~(b - a < 18)
  <2>1. AfterMatch(m, n) = n
    BY <1>1, <1>4, <1>6 DEF AfterMatch
  <2>2. ~(n.at - m.at < OPTIMAL_ML) /\ n.at >= m.at + 4
    BY <1>1, <1>4, <1>6
  <2> QED
    BY <1>1, <2>1, <2>2
<1> QED
  BY <1>5, <1>6

\* The longer match a third search has found.
LEMMA LongerThird ==
  ASSUME HCInv, pc = "found3", Found.len > m2.len
  PROVE  /\ Valid(Found) /\ m2.at <= Found.at /\ Found.at + 3 <= EndOf(m2)
         /\ EndOf(m2) + 1 <= EndOf(Found)
<1>1. Typed /\ Accepted /\ SearchOK /\ Valid(m2) /\ pc \in Purposes
  BY DEF HCInv, ChainOK, Purposes, For
<1>2. /\ m2.at \in Nat /\ m2.len \in Nat /\ anchor <= m2.at /\ 4 <= m2.len /\ EndOf(m2) = m2.at + m2.len
      /\ anchor \in Nat
  BY <1>1, ValidParts, Ranges
<1>3. Found.len = find.longest /\ find.longest \in Nat /\ find.at \in Nat
  BY <1>1, FoundParts
<1>4. find.longest > 0 /\ find.longest > Initial
  BY <1>2, <1>3 DEF Initial, For
<1>5. /\ find.low <= find.at
      /\ Found \in Matches /\ Found.len = find.longest
      /\ find.low <= Found.at /\ Found.at <= find.at
      /\ find.at + 4 <= EndOf(Found) /\ EndOf(Found) <= matchlimit
  BY <1>1, <1>4, FoundParts
<1>6. find.low = m2.at /\ find.at = EndOf(m2) - 3
  BY <1>1, <1>4 DEF SearchOK, For
<1>7. PICK f \in Nat, l \in Nat, a \in Nat, k \in Nat, e \in Nat :
        f = Found.at /\ l = Found.len /\ a = m2.at /\ k = m2.len /\ EndOf(Found) = e /\ e = f + l
  <2>1. Found.at \in Nat /\ Found.len \in Nat
    BY <1>5 DEF Matches
  <2>2. EndOf(Found) = Found.at + Found.len /\ Found.at + Found.len \in Nat
    BY <2>1 DEF EndOf
  <2> QED
    BY <1>2, <2>1, <2>2
<1>8. f <= a + k - 3 /\ a + k - 3 + 4 <= e /\ a <= f
  BY <1>2, <1>5, <1>6, <1>7
<1>9. f + 3 <= a + k /\ a + k + 1 <= e /\ anchor <= f /\ 4 <= l
  BY <1>2, <1>7, <1>8
<1> QED
  BY <1>2, <1>5, <1>7, <1>8, <1>9 DEF Valid, MINMATCH

\* The third search begins, with the second match moved out of the way of the first.
LEMMA ChainSearch3Inv ==
  ASSUME HashesInTable, HCInv, ChainSearch3
  PROVE  HCInv'
<1>1. /\ pc = "search3" /\ m2' = AfterMatch(m1, m2) /\ SearchWider(m2', 3, "found3")
      /\ UNCHANGED <<m0, m1>>
  BY DEF ChainSearch3
<1>2. Typed /\ Accepted /\ pc # "idle" /\ Valid(m1) /\ Valid(m2) /\ Ahead(m1, m2)
  BY <1>1 DEF HCInv, ChainOK, Ahead
<1>3. PICK m : m = AfterMatch(m1, m2)
  OBVIOUS
<1>4. /\ Valid(m) /\ EndOf(m) = EndOf(m2) /\ m.at >= m1.at + 4
      /\ m.at <= EndOf(m1) \/ m = m2
  BY <1>2, <1>3, AfterMatchOK
<1>5. /\ Typed' /\ Accepted' /\ RoomLeft' /\ Filled' /\ SearchOK' /\ PlanOK'
      /\ matchlimit' = matchlimit
      /\ pc' = "found3" \/ (pc' = "search" /\ find'.label = "found3")
      /\ UNCHANGED anchor
  <2>1. PICK n \in {2, 3}, label \in {"found2", "found3"} : n = 3 /\ label = "found3"
    OBVIOUS
  <2>2. SearchWider(m, n, label)
    BY <1>1, <1>3, <2>1
  <2>3. (label = "found2" => n = 2 /\ m = m1') /\ (label = "found3" => n = 3 /\ m = m2')
    BY <1>1, <1>3, <2>1
  <2> QED
    BY <1>2, <1>4, <2>1, <2>2, <2>3, SearchWiderOK
<1>6. NextValid(m1') /\ NextValid(m2')
  BY <1>1, <1>2, <1>3, <1>4, <1>5, StillValid
<1>7. m2' = m /\ m1' = m1
  BY <1>1, <1>3
<1>8. Ahead(m1, m)
  <2>1. EndOf(m2) >= m1.at + 8
    BY <1>2 DEF Ahead
  <2>2. m.at \in Nat /\ m1.at \in Nat
    BY <1>2, <1>4, ValidParts
  <2> QED
    BY <1>2, <1>4, <2>1, <2>2 DEF Ahead
<1>9. m2'.at - m1'.at >= 4
  <2>1. m.at \in Nat /\ m1.at \in Nat
    BY <1>2, <1>4, ValidParts
  <2> QED
    BY <1>4, <1>7, <2>1
<1>10. ChainOK'
  BY <1>5, <1>6, <1>7, <1>8, <1>9, ChainAt3
<1> QED
  BY <1>5, <1>10 DEF HCInv

\* The second match leaves the first one MINMATCH bytes.
Apart(first, second) == second.at - first.at >= 4

\* The first of two matches, cut where the second begins.
LEMMA UpToOK ==
  ASSUME Typed, Accepted, NEW m, NEW n, Valid(m), Valid(n), Apart(m, n)
  PROVE  /\ Valid(UpTo(m, n)) /\ EndOf(UpTo(m, n)) <= n.at /\ UpTo(m, n).at = m.at
         /\ EndOf(UpTo(m, n)) <= EndOf(m)
         /\ n.at <= EndOf(m) => EndOf(UpTo(m, n)) = n.at
<1>1. PICK a \in Nat, l \in Nat, b \in Nat : a = m.at /\ l = m.len /\ b = n.at /\ 4 <= l /\ EndOf(m) = a + l
                                             /\ a + l <= matchlimit /\ anchor <= a
  <2>1. EndOf(m) <= matchlimit
    BY DEF Valid
  <2> QED
    BY <2>1, ValidParts
<1>2. b - a >= 4
  BY <1>1 DEF Apart
<1>3. PICK x \in Nat : x = MinOf(l, b - a) /\ 4 <= x /\ x <= l /\ a + x <= b /\ (b <= a + l => a + x = b)
  <2>1. PICK y \in Nat : y = b - a
    BY <1>2
  <2>2. MinOf(l, y) \in {l, y} /\ MinOf(l, y) <= l /\ MinOf(l, y) <= y /\ (y <= l => MinOf(l, y) = y)
    BY DEF MinOf
  <2>3. PICK x \in Nat : x = MinOf(l, y) /\ x <= l /\ x <= y /\ (y <= l => x = y) /\ 4 <= x
    BY <1>1, <1>2, <2>1, <2>2
  <2>4. a + x <= b /\ (b <= a + l => a + x = b)
    BY <2>1, <2>3
  <2> QED
    BY <2>1, <2>3, <2>4
<1>4. UpTo(m, n) = Cut(m, x)
  BY <1>1, <1>3 DEF UpTo
<1>5. PICK c : c = Cut(m, x)
  OBVIOUS
<1>6. c \in Matches /\ c.at = a /\ c.len = x /\ EndOf(c) = a + x
  BY <1>1, <1>5, CutOK DEF Valid
<1>7. matchlimit \in Int
  BY Ranges
<1>8. a + x <= matchlimit /\ a + x <= a + l
  BY <1>1, <1>3, <1>7
<1>9. Valid(c)
  BY <1>1, <1>3, <1>6, <1>8 DEF Valid, MINMATCH
<1> QED
  BY <1>1, <1>3, <1>4, <1>5, <1>6, <1>8, <1>9

\* It found nothing longer: two matches are encoded, the first cut where the second begins.
LEMMA ChainTwoInv ==
  ASSUME HCInv, ChainTwo
  PROVE  HCInv'
<1>1. pc = "found3" /\ ChainEncode(UpTo(m1, m2), "encode2") /\ UNCHANGED <<m0, m1, m2>>
  BY DEF ChainTwo, choices
<1>2. Typed /\ Accepted /\ pc # "idle" /\ Valid(m1) /\ Valid(m2) /\ Apart(m1, m2)
  BY <1>1 DEF HCInv, ChainOK, For, Apart
<1>3. PICK m : m = UpTo(m1, m2)
  OBVIOUS
<1>4. Valid(m) /\ EndOf(m) <= m2.at
  <2>1. Valid(UpTo(m1, m2)) /\ EndOf(UpTo(m1, m2)) <= m2.at
    BY ONLY <1>2, UpToOK
  <2> QED
    BY <1>3, <2>1
<1>5. PICK label \in {"hc", "search2", "search3", "encode2", "opt"} : label = "encode2"
  OBVIOUS
<1>6. ChainEncode(m, label)
  BY <1>1, <1>3, <1>5
<1>7. /\ Typed' /\ Accepted' /\ RoomLeft' /\ Filled' /\ SearchOK' /\ PlanOK'
      /\ matchlimit' = matchlimit
      /\ pc' # label => HCInv'
      /\ pc' = label => anchor' = EndOf(m)
  BY <1>2, <1>4, <1>6, ChainEncodes
<1>8. CASE pc' = "encode2"
  <2>1. anchor' <= m2.at
    BY <1>4, <1>5, <1>7, <1>8
  <2>2. Valid(m2)'
    BY <1>1, <1>2, <1>7, <2>1 DEF Valid, EndOf
  <2>3. ChainOK'
    BY <1>8, <2>2 DEF ChainOK, For
  <2> QED
    BY <1>7, <2>3 DEF HCInv
<1>9. CASE pc' # "encode2"
  BY <1>5, <1>7, <1>9
<1> QED
  BY <1>8, <1>9

\* The second of them.
LEMMA ChainEncode2Inv ==
  ASSUME HCInv, ChainEncode2
  PROVE  HCInv'
<1>1. pc = "encode2" /\ ChainEncode(m2, "hc") /\ pc # "idle"
  BY DEF ChainEncode2
<1>2. Valid(m2)
  BY <1>1 DEF HCInv, ChainOK
<1>3. PICK label \in {"hc", "search2", "search3", "encode2", "opt"} : label = "hc"
  OBVIOUS
<1>4. ChainEncode(m2, label)
  BY <1>1, <1>3
<1> QED
  BY <1>1, <1>2, <1>3, <1>4, ChainEncodes

\* What is known of the three matches.
LEMMA ThreeMatches ==
  ASSUME HCInv, pc = "found3", Found.len > m2.len
  PROVE  /\ Typed /\ Accepted /\ pc # "idle"
         /\ Valid(m1) /\ Valid(m2) /\ Valid(Found) /\ Ahead(m1, m2) /\ Apart(m1, m2)
         /\ \E a \in Nat, l \in Nat, b \in Nat, k \in Nat, f \in Nat, n \in Nat :
              /\ a = m1.at /\ l = m1.len /\ b = m2.at /\ k = m2.len /\ f = Found.at /\ n = Found.len
              /\ EndOf(m1) = a + l /\ EndOf(m2) = b + k /\ EndOf(Found) = f + n
              /\ 4 <= l /\ 4 <= k /\ n > k /\ b <= f /\ f + 3 <= b + k /\ b + k + 1 <= f + n
              /\ b + k >= a + 8 /\ b >= a + 4 /\ (b <= a + l \/ (b = a + l + 1 /\ k >= 6))
<1>1. /\ Typed /\ Accepted /\ pc # "idle"
      /\ Valid(m1) /\ Valid(m2) /\ Ahead(m1, m2) /\ Apart(m1, m2)
  BY DEF HCInv, ChainOK, For, Ahead, Apart
<1>2. /\ Valid(Found) /\ m2.at <= Found.at /\ Found.at + 3 <= EndOf(m2)
      /\ EndOf(m2) + 1 <= EndOf(Found)
  BY LongerThird
<1>3. PICK a \in Nat, l \in Nat, b \in Nat, k \in Nat, f \in Nat, n \in Nat :
        /\ a = m1.at /\ l = m1.len /\ b = m2.at /\ k = m2.len /\ f = Found.at /\ n = Found.len
        /\ EndOf(m1) = a + l /\ EndOf(m2) = b + k /\ EndOf(Found) = f + n
        /\ 4 <= l /\ 4 <= k
  BY <1>1, <1>2, ValidParts
<1>4. n > k /\ b <= f /\ f + 3 <= b + k /\ b + k + 1 <= f + n
  BY <1>2, <1>3
<1>5. b + k >= a + 8 /\ b >= a + 4 /\ (b <= a + l \/ (b = a + l + 1 /\ k >= 6))
  BY <1>1, <1>3 DEF Ahead, Apart
<1> QED
  BY <1>1, <1>2, <1>3, <1>4, <1>5

\* A third match leaves the second one no room.
LEMMA ChainSqueezedInv ==
  ASSUME HCInv, ChainSqueezed
  PROVE  HCInv'
<1>1. pc = "found3" /\ Found.len > m2.len /\ Found.at < EndOf(m1) + 3
  BY DEF ChainSqueezed
<1>2. /\ Typed /\ Accepted /\ pc # "idle"
      /\ Valid(m1) /\ Valid(m2) /\ Valid(Found) /\ Ahead(m1, m2)
  BY <1>1, ThreeMatches
<1>3. PICK a \in Nat, l \in Nat, b \in Nat, k \in Nat, f \in Nat, n \in Nat :
        /\ a = m1.at /\ l = m1.len /\ b = m2.at /\ k = m2.len /\ f = Found.at /\ n = Found.len
        /\ EndOf(m1) = a + l /\ EndOf(m2) = b + k /\ EndOf(Found) = f + n
        /\ 4 <= l /\ 4 <= k /\ n > k /\ b <= f /\ f + 3 <= b + k /\ b + k + 1 <= f + n
        /\ b + k >= a + 8 /\ b >= a + 4 /\ (b <= a + l \/ (b = a + l + 1 /\ k >= 6))
  BY ONLY <1>1, HCInv, ThreeMatches
<1>4. f < a + l + 3
  BY <1>1, <1>3
<1>5. CASE /\ Found.at >= EndOf(m1) /\ m0' = SecondOrThird(Found) /\ m1' = Found
           /\ ChainEncode(m1, "search2") /\ UNCHANGED m2
  <2>1. f >= a + l
    BY <1>3, <1>5
  <2>2. PICK label \in {"hc", "search2", "search3", "encode2", "opt"} : label = "search2"
    OBVIOUS
  <2>3. ChainEncode(m1, label)
    BY <1>5, <2>2
  <2>4. /\ Typed' /\ Accepted' /\ RoomLeft' /\ Filled' /\ SearchOK' /\ PlanOK'
        /\ matchlimit' = matchlimit
        /\ pc' # label => HCInv'
        /\ pc' = label => anchor' = EndOf(m1)
    BY <1>2, <2>3, ChainEncodes
  <2>5. PICK s : s = SecondOrThird(Found)
    OBVIOUS
  <2>6. PICK r : r = IF m2.at < EndOf(m1) THEN Shift(m2, EndOf(m1) - m2.at) ELSE m2
    OBVIOUS
  <2>7. r \in Matches /\ EndOf(r) = b + k /\ r.at >= a + l /\ r.at <= f /\ r.len \in Nat
    <3>1. CASE b < a + l
      <4>1. PICK x \in Nat : x = a + l - b
        BY <3>1
      <4>2. x <= k /\ b + x = a + l
        BY <1>3, <2>1, <4>1
      <4>3. r = Shift(m2, x)
        BY <1>3, <2>6, <3>1, <4>1
      <4>4. r \in Matches /\ r.at = a + l /\ EndOf(r) = b + k
        BY <1>2, <1>3, <4>2, <4>3, ShiftOK DEF Valid
      <4> QED
        BY <2>1, <4>4 DEF Matches
    <3>2. CASE ~(b < a + l)
      <4>1. r = m2
        BY <1>3, <2>6, <3>2
      <4> QED
        BY <1>2, <1>3, <3>2, <4>1 DEF Valid
    <3> QED
      BY <3>1, <3>2
  <2>8. s = IF r.len < 4 THEN Found ELSE r
    BY <2>5, <2>6 DEF SecondOrThird, MINMATCH
  <2>9. Pair(s, Found)
    <3>1. PICK x \in Nat : x = r.at /\ a + l <= x /\ x <= f
      BY <2>7 DEF Matches
    <3>2. f - x \in 0..2 /\ f - f \in 0..2 /\ ~(f < f) /\ n >= 5
      BY <1>3, <1>4, <3>1
    <3> QED
      BY <1>3, <2>8, <3>1, <3>2 DEF Pair
  <2>10. CASE pc' = label
    <3>1. anchor' = a + l
      BY <1>3, <2>4, <2>10
    <3>2. EndOf(Found) <= matchlimit' /\ EndOf(m2) <= matchlimit'
      BY <1>2, <2>4 DEF Valid
    <3>3. NextValid(Found)
      <4>1. Found \in Matches /\ MINMATCH <= Found.len
        BY <1>2 DEF Valid
      <4> QED
        BY <1>3, <2>1, <3>1, <3>2, <4>1 DEF NextValid
    <3>4. ~(r.len < 4) => NextValid(r)
      BY <1>3, <2>7, <3>1, <3>2 DEF NextValid, MINMATCH
    <3>5. NextValid(s)
      BY <2>8, <3>3, <3>4
    <3>6. pc' = "search2" /\ m0' = s /\ m1' = Found
      BY <1>5, <2>2, <2>5, <2>10
    <3>7. ChainOK'
      BY <2>9, <3>3, <3>5, <3>6, ChainAt2
    <3> QED
      BY <2>4, <3>7 DEF HCInv
  <2>11. CASE pc' # label
    BY <2>4, <2>11
  <2> QED
    BY <2>10, <2>11
<1>6. CASE /\ Found.at < EndOf(m1) /\ m2' = Found /\ Choose("search3") /\ UNCHANGED <<m0, m1>>
  <2>1. /\ UNCHANGED <<text, call, ip, anchor, out, reach, inputConsumed, result, hc, find>>
        /\ pc' = "search3"
    BY <1>6 DEF Choose, Goto, searching
  <2>2. /\ Typed' /\ Accepted' /\ RoomLeft' /\ Filled' /\ SearchOK' /\ PlanOK'
        /\ matchlimit' = matchlimit
    BY <1>2, <2>1, Chosen
  <2>3. NextValid(m1') /\ NextValid(m2')
    BY <1>2, <1>6, <2>1, <2>2, StillValid
  <2>4. Ahead(m1, Found)
    <3>1. f < a + l
      BY <1>3, <1>6
    <3>2. f + n >= a + 8 /\ f >= a /\ f <= a + l
      BY <1>3, <3>1
    <3> QED
      BY <1>3, <3>2 DEF Ahead
  <2>5. ChainOK'
    BY <1>6, <2>1, <2>3, <2>4, ChainAt3
  <2> QED
    BY <2>2, <2>5 DEF HCInv
<1> QED
  BY <1>5, <1>6 DEF ChainSqueezed

\* The first of three matches as it is encoded, and what the second begins with then.
LEMMA FirstOfThreeOK ==
  ASSUME Typed, Accepted, Valid(m1), Valid(m2), Ahead(m1, m2), Apart(m1, m2), NEW s,
         s = IF m2.at < EndOf(m1) THEN AfterMatch(m1, m2) ELSE m2
  PROVE  /\ Valid(FirstOfThree) /\ Valid(s) /\ EndOf(FirstOfThree) <= s.at /\ EndOf(s) = EndOf(m2)
         /\ s.at <= EndOf(m1) \/ s = m2
<1>1. PICK a \in Nat, l \in Nat, b \in Nat, k \in Nat :
        /\ a = m1.at /\ l = m1.len /\ b = m2.at /\ k = m2.len
        /\ EndOf(m1) = a + l /\ EndOf(m2) = b + k
        /\ 4 <= l /\ 4 <= k
  BY ValidParts
<1>2. CASE b >= a + l
  <2>1. s = m2 /\ FirstOfThree = m1
    BY <1>1, <1>2 DEF FirstOfThree
  <2> QED
    BY <1>1, <1>2, <2>1
<1>3. CASE ~(b >= a + l)
  <2>1. s = AfterMatch(m1, m2)
    BY <1>1, <1>3
  <2>2. /\ Valid(s) /\ EndOf(s) = EndOf(m2)
        /\ s.at <= EndOf(m1) \/ s = m2
        /\ m2.at - m1.at < OPTIMAL_ML => s.at >= m1.at + BestLength(m1, m2)
        /\ m2.at - m1.at >= OPTIMAL_ML => s = m2
    BY <2>1, AfterMatchOK
  <2>3. OPTIMAL_ML = 18
    BY DEF OPTIMAL_ML, ML_MASK, MINMATCH
  <2>4. CASE b - a < 18
    <3>1. PICK x \in Nat : x = BestLength(m1, m2) /\ 4 <= x /\ x <= l
      BY <1>1, BestLengthOK
    <3>2. FirstOfThree = Cut(m1, x)
      BY <1>1, <1>3, <2>3, <2>4, <3>1 DEF FirstOfThree
    <3>3. PICK c : c = Cut(m1, x)
      OBVIOUS
    <3>4. c \in Matches /\ c.at = a /\ c.len = x /\ EndOf(c) = a + x
      BY <1>1, <3>3, CutOK DEF Valid
    <3>5. Valid(c)
      <4>1. a + l <= matchlimit /\ matchlimit \in Int /\ anchor <= a
        BY <1>1, Ranges DEF Valid
      <4>2. a + x <= matchlimit
        BY <3>1, <4>1
      <4> QED
        BY <3>1, <3>4, <4>1, <4>2 DEF Valid, MINMATCH
    <3>6. a + x <= s.at
      BY <1>1, <2>2, <2>3, <2>4, <3>1
    <3> QED
      BY <2>2, <3>2, <3>3, <3>4, <3>5, <3>6
  <2>5. CASE ~(b - a < 18)
    <3>1. FirstOfThree = UpTo(m1, m2) /\ s = m2
      BY <1>1, <1>3, <2>2, <2>3, <2>5 DEF FirstOfThree
    <3>2. Valid(UpTo(m1, m2)) /\ EndOf(UpTo(m1, m2)) <= m2.at
      BY UpToOK
    <3> QED
      BY <2>2, <3>1, <3>2
  <2> QED
    BY <2>4, <2>5
<1> QED
  BY <1>2, <1>3

\* Three matches: the first is encoded.
LEMMA ChainThreeInv ==
  ASSUME HCInv, ChainThree
  PROVE  HCInv'
<1>1. /\ pc = "found3" /\ Found.len > m2.len /\ Found.at >= EndOf(m1) + 3
      /\ m1' = IF m2.at < EndOf(m1) THEN AfterMatch(m1, m2) ELSE m2
      /\ m2' = Found
      /\ ChainEncode(FirstOfThree, "search3")
  BY DEF ChainThree
<1>2. /\ Typed /\ Accepted /\ pc # "idle"
      /\ Valid(m1) /\ Valid(m2) /\ Valid(Found) /\ Ahead(m1, m2) /\ Apart(m1, m2)
  BY <1>1, ThreeMatches
<1>3. PICK a \in Nat, l \in Nat, b \in Nat, k \in Nat, f \in Nat, n \in Nat :
        /\ a = m1.at /\ l = m1.len /\ b = m2.at /\ k = m2.len /\ f = Found.at /\ n = Found.len
        /\ EndOf(m1) = a + l /\ EndOf(m2) = b + k /\ EndOf(Found) = f + n
        /\ 4 <= l /\ 4 <= k /\ n > k /\ b <= f /\ f + 3 <= b + k /\ b + k + 1 <= f + n
        /\ b + k >= a + 8 /\ b >= a + 4 /\ (b <= a + l \/ (b = a + l + 1 /\ k >= 6))
  BY ONLY <1>1, HCInv, ThreeMatches
<1>4. PICK s : s = IF m2.at < EndOf(m1) THEN AfterMatch(m1, m2) ELSE m2
  OBVIOUS
<1>5. PICK m : m = FirstOfThree
  OBVIOUS
<1>6. /\ Valid(m) /\ Valid(s) /\ EndOf(m) <= s.at /\ EndOf(s) = b + k
      /\ s.at <= a + l \/ s = m2
  BY <1>2, <1>3, <1>4, <1>5, FirstOfThreeOK
<1>7. PICK label \in {"hc", "search2", "search3", "encode2", "opt"} : label = "search3"
  OBVIOUS
<1>8. ChainEncode(m, label)
  BY <1>1, <1>5, <1>7
<1>9. /\ Typed' /\ Accepted' /\ RoomLeft' /\ Filled' /\ SearchOK' /\ PlanOK'
      /\ matchlimit' = matchlimit
      /\ pc' # label => HCInv'
      /\ pc' = label => anchor' = EndOf(m)
  BY <1>2, <1>6, <1>8, ChainEncodes
<1>10. CASE pc' = label
  <2>1. PICK x \in Nat, e \in Nat : x = s.at /\ e = EndOf(m) /\ e <= x /\ anchor' = e
    BY <1>2, <1>6, <1>9, <1>10, ValidParts
  <2>2. (x <= f /\ f >= x + 3) \/ (x <= f /\ s = m2 /\ n >= 7)
    <3>1. f >= a + l + 3
      BY <1>1, <1>3
    <3>2. CASE x <= a + l
      BY <3>1, <3>2
    <3>3. CASE s = m2
      <4>1. x = b
        BY <1>3, <2>1, <3>3
      <4> QED
        BY <1>3, <3>1, <3>3, <4>1
    <3> QED
      BY <1>6, <2>1, <3>2, <3>3
  <2>3. Ahead(s, Found)
    <3>1. f + n >= x + 8
      <4>1. CASE f >= x + 3
        BY <1>3, <4>1
      <4>2. CASE s = m2 /\ n >= 7
        <5>1. x = b /\ f >= a + l + 3
          BY <1>1, <1>3, <2>1, <4>2
        <5> QED
          BY <1>3, <4>2, <5>1
      <4> QED
        BY <2>2, <4>1, <4>2
    <3>2. f <= b + k /\ x <= f
      BY <1>3, <2>2
    <3> QED
      BY <1>3, <1>6, <2>1, <3>1, <3>2 DEF Ahead
  <2>4. m1' = s /\ m2' = Found /\ pc' = "search3"
    BY <1>1, <1>4, <1>7, <1>10
  <2>5. NextValid(s) /\ NextValid(Found)
    <3>1. anchor' <= s.at /\ anchor' <= Found.at
      BY <1>3, <2>1, <2>2
    <3> QED
      BY <1>2, <1>6, <1>9, <3>1 DEF Valid, NextValid
  <2>6. ChainOK'
    BY <2>3, <2>4, <2>5, ChainAt3
  <2> QED
    BY <1>9, <2>6 DEF HCInv
<1>11. CASE pc' # label
  BY <1>9, <1>11
<1> QED
  BY <1>10, <1>11

\* Every step of LZ4HC_compress_hashChain.
LEMMA ChainInv ==
  ASSUME HashesInTable, HCInv, Chain
  PROVE  HCInv'
BY ChainFirstInv, ChainFound1Inv, ChainSearch2Inv, ChainFound2Inv, ChainSearch3Inv, ChainTwoInv,
   ChainEncode2Inv, ChainSqueezedInv, ChainThreeInv DEF Chain

---------------------------------------------------------------------------
(* LZ4HC_compress_optimal.                                                 *)

\* An entry of the price table for the position p after ip, and a table of them
\* with all the positions up to n.
Reached(e, p) ==
  /\ e.mlen \in 1..p /\ e.off \in Int
  /\ e.mlen = 1 \/ (e.mlen >= MINMATCH /\ ip + p <= matchlimit)
Entries(t) ==
  /\ DOMAIN t \subseteq 0..LZ4_OPT_NUM + TRAILING_LITERALS - 1
  /\ \A p \in DOMAIN t \ {0} : Reached(t[p], p)

\* A position reached by a literal, and one reached by a match.
LEMMA LiteralReached ==
  ASSUME NEW p \in Nat, p >= 1, NEW n, NEW price
  PROVE  Reached(Literal(n, price), p)
BY DEF Reached, Literal

LEMMA MatchReached ==
  ASSUME NEW m \in Matches, NEW n \in Nat, 4 <= n, NEW p \in Nat, n <= p, NEW lits, NEW price,
         ip + p <= matchlimit
  PROVE  Reached(ByMatch(m, n, lits, price), p)
BY DEF Reached, ByMatch, Matches, MINMATCH

\* The literals after the last position have their places in the table.
LEMMA TrailingOK ==
  ASSUME NEW t, Entries(t), NEW last \in 1..LZ4_OPT_NUM - 1, 0..last \subseteq DOMAIN t
  PROVE  Entries(Trailing(t, last)) /\ 0..last + TRAILING_LITERALS \subseteq DOMAIN Trailing(t, last)
<1>1. LZ4_OPT_NUM \in Nat /\ last \in Nat /\ last >= 1 /\ last <= LZ4_OPT_NUM - 1 /\ TRAILING_LITERALS = 3
  BY Constants DEF TRAILING_LITERALS
<1>2. PICK u : u = Trailing(t, last)
  OBVIOUS
<1> DEFINE price(p) == t[last].price + LZ4HC_literalsPrice(p - last)
<1>3. u = [p \in DOMAIN t \cup (last + 1..last + 3) |->
             IF p \in last + 1..last + 3 THEN Literal(p - last, price(p)) ELSE t[p]]
  BY <1>1, <1>2 DEF Trailing
<1> HIDE DEF price
<1>4. DOMAIN u = DOMAIN t \cup (last + 1..last + 3)
  BY <1>3
<1>5. 0..last + 3 \subseteq DOMAIN u
  <2>1. \A p \in 0..last + 3 : p \in 0..last \/ p \in last + 1..last + 3
    BY <1>1
  <2> QED
    BY <1>4, <2>1
<1>6. DOMAIN u \subseteq 0..LZ4_OPT_NUM + 2
  <2>1. last + 1..last + 3 \subseteq 0..LZ4_OPT_NUM + 2
    BY <1>1
  <2>2. DOMAIN t \subseteq 0..LZ4_OPT_NUM + 2
    BY <1>1 DEF Entries
  <2> QED
    BY <1>4, <2>1, <2>2
<1>7. ASSUME NEW p \in DOMAIN u \ {0} PROVE Reached(u[p], p)
  <2>1. CASE p \in last + 1..last + 3
    <3>1. p \in Nat /\ p >= 1
      BY <1>1, <2>1
    <3>2. u[p] = Literal(p - last, price(p))
      BY <1>3, <1>4, <2>1
    <3> QED
      BY <3>1, <3>2, LiteralReached
  <2>2. CASE p \notin last + 1..last + 3
    <3>1. p \in DOMAIN t \ {0} /\ u[p] = t[p]
      BY <1>3, <1>4, <2>2
    <3> QED
      BY <3>1 DEF Entries
  <2> QED
    BY <2>1, <2>2
<1>8. DOMAIN u \subseteq 0..LZ4_OPT_NUM + TRAILING_LITERALS - 1
  <2>1. LZ4_OPT_NUM + TRAILING_LITERALS - 1 = LZ4_OPT_NUM + 2
    BY <1>1
  <2> QED
    BY <1>6, <2>1
<1> QED
  BY <1>1, <1>2, <1>5, <1>7, <1>8 DEF Entries

\* The prices of the first match.
LEMMA FirstPricesOK ==
  ASSUME Typed, Accepted, NEW m, Valid(m), m.at = ip, m.len <= LZ4_OPT_NUM - 1, NEW n
  PROVE  /\ Entries(FirstPrices(m, n))
         /\ 0..m.len + TRAILING_LITERALS \subseteq DOMAIN FirstPrices(m, n)
<1>1. /\ m \in Matches /\ m.len \in Nat /\ 4 <= m.len /\ EndOf(m) = ip + m.len /\ EndOf(m) <= matchlimit
      /\ ip \in Nat /\ matchlimit \in Int
  BY ValidParts, Ranges
<1>2. PICK l \in Nat : l = m.len /\ 4 <= l /\ ip + l <= matchlimit /\ l <= LZ4_OPT_NUM - 1
  BY <1>1
<1>3. LZ4_OPT_NUM \in Nat /\ TRAILING_LITERALS = 3
  BY Constants DEF TRAILING_LITERALS
<1> DEFINE E(p) == IF p < MINMATCH THEN Literal(n + p, LZ4HC_literalsPrice(n + p))
                   ELSE ByMatch(m, p, n, LZ4HC_sequencePrice(n, p))
<1>4. PICK t : t = [p \in 0..l |-> E(p)]
  OBVIOUS
<1>5. FirstPrices(m, n) = Trailing(t, l)
  BY <1>2, <1>4 DEF FirstPrices
<1>6. ASSUME NEW p \in 0..l, p # 0 PROVE Reached(E(p), p)
  <2>1. p \in Nat /\ p >= 1 /\ p <= l /\ ip + p <= matchlimit
    BY <1>1, <1>2, <1>6
  <2>2. CASE p < 4
    <3>1. E(p) = Literal(n + p, LZ4HC_literalsPrice(n + p))
      BY <2>2 DEF MINMATCH
    <3> QED
      BY <2>1, <3>1, LiteralReached
  <2>3. CASE ~(p < 4)
    <3>1. E(p) = ByMatch(m, p, n, LZ4HC_sequencePrice(n, p))
      BY <2>3 DEF MINMATCH
    <3>2. 4 <= p
      BY <2>1, <2>3
    <3> QED
      BY <1>1, <2>1, <3>1, <3>2, MatchReached
  <2> QED
    BY <2>2, <2>3
<1> HIDE DEF E
<1>7. DOMAIN t = 0..l /\ \A p \in 0..l : t[p] = E(p)
  BY <1>4
<1>8. Entries(t)
  <2>1. 0..l \subseteq 0..LZ4_OPT_NUM + TRAILING_LITERALS - 1
    BY <1>2, <1>3
  <2> QED
    BY <1>6, <1>7, <2>1 DEF Entries
<1>9. l \in 1..LZ4_OPT_NUM - 1
  BY <1>2, <1>3
<1> QED
  BY <1>2, <1>5, <1>7, <1>8, <1>9, TrailingOK

\* Literals after the current position replace the higher prices.
LEMMA WithLiteralsOK ==
  ASSUME Entries(opt), cur \in Nat
  PROVE  DOMAIN WithLiterals = DOMAIN opt /\ Entries(WithLiterals)
<1> DEFINE n == opt[cur].litlen
           Cost(k) == opt[cur].price - LZ4HC_literalsPrice(n) + LZ4HC_literalsPrice(n + k)
<1>1. WithLiterals = [p \in DOMAIN opt |->
                        IF p - cur \in 1..MINMATCH - 1 /\ Cost(p - cur) < opt[p].price
                        THEN Literal(n + p - cur, Cost(p - cur)) ELSE opt[p]]
  BY DEF WithLiterals
<1> HIDE DEF Cost, n
<1>2. PICK w : w = WithLiterals
  OBVIOUS
<1>3. DOMAIN w = DOMAIN opt
  BY <1>1, <1>2
<1>4. ASSUME NEW p \in DOMAIN opt \ {0} PROVE Reached(w[p], p)
  <2>1. p \in Nat /\ p >= 1
    <3>1. p \in 0..LZ4_OPT_NUM + TRAILING_LITERALS - 1
      BY DEF Entries
    <3> QED
      BY <3>1
  <2>2. w[p] = Literal(n + p - cur, Cost(p - cur)) \/ w[p] = opt[p]
    BY <1>1, <1>2
  <2>3. Reached(opt[p], p)
    BY DEF Entries
  <2> QED
    BY <2>1, <2>2, <2>3, LiteralReached
<1> QED
  BY <1>2, <1>3, <1>4 DEF Entries

\* The price table while a plan is made.
Planning ==
  /\ last_match_pos \in 1..LZ4_OPT_NUM - 1 /\ cur \in 1..last_match_pos
  /\ Entries(opt) /\ 0..last_match_pos + TRAILING_LITERALS \subseteq DOMAIN opt

\* The prices of a match found at a position within the table.
LEMMA WithMatchOK ==
  ASSUME Typed, Accepted, Planning, NEW m, Valid(m), m.at = ip + cur, m.len + cur < LZ4_OPT_NUM
  PROVE  /\ Entries(WithMatch(m)) /\ 0..LastAfter(m) \subseteq DOMAIN WithMatch(m)
         /\ LastAfter(m) \in last_match_pos..LZ4_OPT_NUM - 1
<1>1. /\ m \in Matches /\ m.len \in Nat /\ 4 <= m.len /\ EndOf(m) = m.at + m.len /\ EndOf(m) <= matchlimit
      /\ ip \in Nat /\ matchlimit \in Int
  BY ValidParts, Ranges
<1>2. PICK N \in Nat, last \in Nat, c \in Nat, l \in Nat :
        /\ N = LZ4_OPT_NUM /\ last = last_match_pos /\ c = cur /\ l = m.len
        /\ 1 <= c /\ c <= last /\ last <= N - 1 /\ 4 <= l /\ c + l < N /\ ip + c + l <= matchlimit
  <2>1. LZ4_OPT_NUM \in Nat
    BY Constants
  <2>2. last_match_pos \in Nat /\ cur \in Nat /\ 1 <= cur /\ cur <= last_match_pos /\ last_match_pos <= LZ4_OPT_NUM - 1
    BY <2>1 DEF Planning
  <2>3. PICK N \in Nat, last \in Nat, c \in Nat, l \in Nat :
          N = LZ4_OPT_NUM /\ last = last_match_pos /\ c = cur /\ l = m.len
    BY <1>1, <2>1, <2>2
  <2>4. 1 <= c /\ c <= last /\ last <= N - 1 /\ 4 <= l /\ c + l < N
    <3>1. l + c < N
      BY <2>3
    <3> QED
      BY <1>1, <2>2, <2>3, <3>1
  <2>5. ip + c + l <= matchlimit
    <3>1. PICK i \in Nat : i = ip
      BY <1>1
    <3>2. m.at = i + c /\ EndOf(m) = (i + c) + l
      BY <1>1, <2>3, <3>1
    <3>3. (i + c) + l = i + c + l
      OBVIOUS
    <3> QED
      BY <1>1, <3>1, <3>2, <3>3
  <2> QED
    BY <2>3, <2>4, <2>5
<1>3. TRAILING_LITERALS = 3
  BY DEF TRAILING_LITERALS
<1> DEFINE taken == {n \in MINMATCH..m.len : Cheaper(n)}
           lits  == IF opt[cur].mlen = 1 THEN opt[cur].litlen ELSE 0
<1>4. WithMatch(m) = [p \in DOMAIN opt \cup {cur + n : n \in taken} |->
                        IF p - cur \in taken THEN ByMatch(m, p - cur, lits, PriceWith(p - cur))
                        ELSE WithLiterals[p]]
  BY DEF WithMatch
<1>5. \A n \in taken : n \in Nat /\ 4 <= n /\ n <= l
  BY <1>2 DEF MINMATCH
<1>6. \A n \in 4..l : c + n > last + 3 => n \in taken
  BY <1>2, <1>3 DEF Cheaper, MINMATCH
<1> HIDE DEF taken, lits
<1>7. PICK w : w = WithMatch(m)
  OBVIOUS
<1>8. DOMAIN w = DOMAIN opt \cup {c + n : n \in taken}
  BY <1>2, <1>4, <1>7
<1>9. DOMAIN WithLiterals = DOMAIN opt /\ Entries(WithLiterals)
  BY <1>2, WithLiteralsOK DEF Planning
<1>10. ASSUME NEW p \in DOMAIN w \ {0} PROVE Reached(w[p], p)
  <2>1. CASE p - c \in taken
    <3>1. w[p] = ByMatch(m, p - c, lits, PriceWith(p - c))
      BY <1>2, <1>4, <1>7, <1>8, <2>1
    <3>2. p \in Int
      <4>1. p \in DOMAIN opt \/ \E n \in taken : p = c + n
        BY <1>8
      <4>2. p \in DOMAIN opt => p \in Int
        BY <1>2, <1>3 DEF Planning, Entries
      <4> QED
        BY <1>2, <1>5, <4>1, <4>2
    <3>3. PICK n \in Nat : n = p - c /\ 4 <= n /\ n <= l
      BY <1>5, <2>1
    <3>4. p \in Nat /\ n <= p /\ ip + p <= matchlimit
      BY <1>1, <1>2, <3>2, <3>3
    <3> QED
      BY <1>1, <3>1, <3>3, <3>4, MatchReached
  <2>2. CASE p - c \notin taken
    <3>1. w[p] = WithLiterals[p]
      BY <1>2, <1>4, <1>7, <1>8, <2>2
    <3>2. p \in DOMAIN opt
      <4>1. \A n \in taken : (c + n) - c = n
        BY <1>2, <1>5
      <4> QED
        BY <1>8, <2>2, <4>1
    <3> QED
      BY <1>9, <3>1, <3>2 DEF Entries
  <2> QED
    BY <2>1, <2>2
<1>11. DOMAIN w \subseteq 0..LZ4_OPT_NUM + TRAILING_LITERALS - 1
  <2>1. DOMAIN opt \subseteq 0..N + 2
    <3>1. N + 2 = LZ4_OPT_NUM + TRAILING_LITERALS - 1
      BY <1>2, <1>3
    <3> QED
      BY <3>1 DEF Planning, Entries
  <2>2. \A n \in taken : c + n \in 0..N + 2
    BY <1>2, <1>5
  <2>3. LZ4_OPT_NUM + TRAILING_LITERALS - 1 = N + 2
    BY <1>2, <1>3
  <2> QED
    BY <1>8, <2>1, <2>2, <2>3
<1>12. LastAfter(m) = last \/ (LastAfter(m) = c + l /\ c + l >= last)
  <2>1. MaxOf(last, c + l) = last \/ (MaxOf(last, c + l) = c + l /\ c + l >= last)
    BY <1>2 DEF MaxOf
  <2> QED
    BY <1>2, <2>1 DEF LastAfter
<1>13. LastAfter(m) \in last_match_pos..LZ4_OPT_NUM - 1
  BY <1>2, <1>12
<1>14. \A q \in 0..last + 3 : q \in DOMAIN w
  BY <1>2, <1>3, <1>8 DEF Planning
<1>15. ASSUME NEW q \in 0..c + l PROVE q \in DOMAIN w
  <2>1. CASE q <= last + 3
    <3>1. q \in 0..last + 3
      BY <1>2, <2>1
    <3> QED
      BY <1>14, <3>1
  <2>2. CASE ~(q <= last + 3)
    <3>1. PICK n \in Nat : n = q - c /\ n \in 4..l /\ c + n = q
      BY <1>2, <2>2
    <3>2. n \in taken
      BY <1>2, <1>6, <2>2, <3>1
    <3> QED
      BY <1>8, <3>1, <3>2
  <2> QED
    BY <2>1, <2>2
<1>16. 0..LastAfter(m) \subseteq DOMAIN w
  <2>1. CASE LastAfter(m) = last
    <3>1. \A q \in 0..last : q \in 0..last + 3
      BY <1>2
    <3> QED
      BY <1>14, <2>1, <3>1
  <2>2. CASE LastAfter(m) = c + l
    BY <1>15, <2>2
  <2> QED
    BY <1>12, <2>1, <2>2
<1> QED
  BY <1>7, <1>10, <1>11, <1>13, <1>16 DEF Entries

\* The function f goes back from p to the earlier position d[p].
GoesBack(f, n, d, e) == f = [p \in 0..n |-> IF p = 0 THEN <<>> ELSE Append(f[d[p]], e[p])]

\* A recursion that goes back to an earlier position has a solution.
LEMMA RecursionExists ==
  ASSUME NEW n \in Nat, NEW d, NEW e, \A p \in 1..n : d[p] \in 0..p - 1
  PROVE  \E f : GoesBack(f, n, d, e)
<1> DEFINE P(k) == \E f : f = [p \in 0..k |-> IF p = 0 THEN <<>> ELSE Append(f[d[p]], e[p])]
           Bad == {k \in 0..n : ~P(k)}
<1>1. Bad \subseteq Nat
  OBVIOUS
<1>2. ASSUME NEW k \in Bad, \A j \in Bad : k <= j PROVE FALSE
  <2>1. k \in 0..n /\ ~P(k)
    OBVIOUS
  <2>2. \A j \in 0..n : j < k => P(j)
    <3>1. \A j \in 0..n : P(j) \/ j \in Bad
      OBVIOUS
    <3> HIDE DEF Bad, P
    <3> QED
      BY <1>2, <2>1, <3>1
  <2>3. CASE k = 0
    <3>1. [p \in 0..0 |-> <<>>] = [p \in 0..0 |-> IF p = 0 THEN <<>> ELSE Append([q \in 0..0 |-> <<>>][d[p]], e[p])]
      OBVIOUS
    <3>2. P(0)
      BY <3>1
    <3> HIDE DEF P
    <3> QED
      BY <2>1, <2>3, <3>2
  <2>4. CASE k # 0
    <3>1. PICK j \in Nat : j + 1 = k /\ j \in 0..n /\ j < k /\ k \in 1..n
      <4>1. k - 1 \in Nat /\ (k - 1) + 1 = k /\ k - 1 \in 0..n /\ k - 1 < k /\ k \in 1..n
        BY <2>1, <2>4
      <4> QED
        BY <4>1
    <3>2. P(j)
      <4> HIDE DEF P
      <4> QED
        BY <2>2, <3>1
    <3>3. PICK f : f = [p \in 0..j |-> IF p = 0 THEN <<>> ELSE Append(f[d[p]], e[p])]
      BY <3>2
    <3>4. PICK g : g = [p \in 0..k |-> IF p = k THEN Append(f[d[k]], e[k]) ELSE f[p]]
      OBVIOUS
    <3>5. \A p \in 0..k : p # k => p \in 0..j
      BY <3>1
    <3>6. ASSUME NEW p \in 0..k PROVE g[p] = IF p = 0 THEN <<>> ELSE Append(g[d[p]], e[p])
      <4>1. p # 0 => d[p] \in 0..j /\ d[p] \in 0..k /\ d[p] # k
        <5> SUFFICES ASSUME p # 0 PROVE d[p] \in 0..j /\ d[p] \in 0..k /\ d[p] # k
          OBVIOUS
        <5>1. p \in 1..n /\ p <= k
          BY <2>1, <3>1
        <5>2. PICK x \in Nat : x = d[p] /\ x < p
          BY <5>1
        <5>3. x \in 0..j /\ x \in 0..k /\ x # k
          BY <3>1, <5>1, <5>2
        <5> QED
          BY <5>2, <5>3
      <4>2. p # 0 => g[d[p]] = f[d[p]]
        BY <3>4, <4>1
      <4>3. CASE p = k
        BY <3>4, <2>4, <4>2, <4>3
      <4>4. CASE p # k
        <5>1. p \in 0..j /\ g[p] = f[p]
          BY <3>4, <3>5, <4>4
        <5>2. f[p] = IF p = 0 THEN <<>> ELSE Append(f[d[p]], e[p])
          BY <3>3, <5>1
        <5> QED
          BY <4>2, <5>1, <5>2
      <4> QED
        BY <4>3, <4>4
    <3>7. g = [p \in 0..k |-> g[p]]
      BY <3>4
    <3>8. g = [p \in 0..k |-> IF p = 0 THEN <<>> ELSE Append(g[d[p]], e[p])]
      BY <3>6, <3>7
    <3>9. P(k)
      BY <3>8
    <3> HIDE DEF P
    <3> QED
      BY <2>1, <3>9
  <2> QED
    BY <2>3, <2>4
<1>3. Bad = {}
  <2>1. ASSUME Bad # {} PROVE FALSE
    <3>1. PICK b : b \in Bad
      BY <2>1
    <3>2. \E k \in Bad : \A j \in Bad : k <= j
      <4> HIDE DEF Bad
      <4> QED
        BY <1>1, <3>1, LeastExists
    <3> HIDE DEF Bad
    <3> QED
      BY <1>2, <3>2
  <2> HIDE DEF Bad
  <2> QED
    BY <2>1
<1>4. n \in 0..n
  OBVIOUS
<1>5. P(n)
  <2>1. \A k \in 0..n : k \notin Bad => P(k)
    OBVIOUS
  <2> HIDE DEF Bad, P
  <2> QED
    BY <1>3, <1>4, <2>1
<1> QED
  BY <1>5 DEF GoesBack

\* A plan that leads to position n, and what can be in one.
Planned(m) == m.len = 1 \/ (m.len >= MINMATCH /\ EndOf(m) <= matchlimit)
Leads(s, n) ==
  /\ s \in Seq(Matches)
  /\ s = <<>> => n = 0
  /\ s # <<>> => s[1].at = ip /\ EndOf(s[Len(s)]) = ip + n
  /\ \A i \in 1..Len(s) - 1 : s[i + 1].at = EndOf(s[i])
  /\ \A i \in 1..Len(s) : Planned(s[i])

\* A path with one step more at its end.
LEMMA AppendLeads ==
  ASSUME NEW n \in Nat, NEW s, Leads(s, n), ip \in Nat,
         NEW m \in Matches, m.at = ip + n, Planned(m)
  PROVE  Leads(Append(s, m), n + m.len)
<1>1. s \in Seq(Matches)
  BY DEF Leads
<1>2. PICK k \in Nat : k = Len(s)
  BY <1>1
<1>3. PICK t : t = Append(s, m)
  OBVIOUS
<1>4. t \in Seq(Matches) /\ Len(t) = k + 1 /\ t[k + 1] = m /\ \A i \in 1..k : t[i] = s[i]
  BY <1>1, <1>2, <1>3
<1>5. t # <<>>
  BY <1>4
<1>6. PICK i0 \in Nat, l \in Nat : i0 = ip /\ l = m.len /\ m.at = i0 + n
  BY DEF Matches
<1>7. EndOf(t[Len(t)]) = ip + (n + m.len)
  <2>1. EndOf(m) = (i0 + n) + l
    BY <1>6 DEF EndOf
  <2>2. (i0 + n) + l = i0 + (n + l)
    OBVIOUS
  <2>3. t[Len(t)] = m
    BY <1>4
  <2>4. EndOf(t[Len(t)]) = i0 + (n + l)
    BY ONLY <2>1, <2>2, <2>3
  <2> QED
    BY <1>6, <2>4
<1>8. CASE k = 0
  <2>1. s = <<>>
    BY <1>1, <1>2, <1>8, EmptySeq
  <2>2. n = 0 /\ i0 + 0 = i0
    BY <2>1 DEF Leads
  <2>3. t[1] = m /\ Len(t) = 1 /\ m.at = i0
    BY <1>4, <1>6, <1>8, <2>2
  <2>4. \A i \in 1..Len(t) - 1 : t[i + 1].at = EndOf(t[i])
    BY <2>3
  <2>5. \A i \in 1..Len(t) : Planned(t[i])
    BY <2>3
  <2> QED
    BY <1>3, <1>4, <1>5, <1>6, <1>7, <2>3, <2>4, <2>5 DEF Leads
<1>9. CASE k # 0
  <2>1. s # <<>> /\ k >= 1
    BY <1>1, <1>2, <1>9
  <2>2. s[1].at = ip /\ EndOf(s[k]) = ip + n
    BY <1>2, <2>1 DEF Leads
  <2>3. t[1].at = ip
    BY <1>4, <2>1, <2>2
  <2>4. ASSUME NEW i \in 1..k PROVE t[i + 1].at = EndOf(t[i])
    <3>1. CASE i = k
      BY <1>4, <2>1, <2>2, <3>1
    <3>2. CASE i # k
      <4>1. i \in 1..k - 1 /\ i + 1 \in 1..k
        BY <3>2
      <4>2. s[i + 1].at = EndOf(s[i])
        BY <1>2, <4>1 DEF Leads
      <4> QED
        BY <1>4, <4>1, <4>2
    <3> QED
      BY <3>1, <3>2
  <2>5. ASSUME NEW i \in 1..k + 1 PROVE Planned(t[i])
    <3>1. CASE i = k + 1
      BY <1>4, <3>1
    <3>2. CASE i # k + 1
      <4>1. i \in 1..k
        BY <3>2
      <4> QED
        BY <1>2, <1>4, <4>1 DEF Leads
    <3> QED
      BY <3>1, <3>2
  <2>6. Len(t) - 1 = k
    BY <1>4
  <2> QED
    BY <1>3, <1>4, <1>5, <1>7, <2>3, <2>4, <2>5, <2>6 DEF Leads
<1> QED
  BY <1>8, <1>9

\* The path read backwards leads from the first position to the last.
LEMMA PathLeads ==
  ASSUME Typed, Accepted, Entries(opt), NEW n \in Nat, 0..n \subseteq DOMAIN opt
  PROVE  Leads(Path(n), n)
<1> DEFINE d == [p \in 0..n |-> p - opt[p].mlen]
           e == [p \in 0..n |-> Match(ip + p - opt[p].mlen, opt[p].mlen, opt[p].off)]
<1>1. ip \in Nat /\ matchlimit \in Int
  BY Ranges
<1>2. ASSUME NEW p \in 1..n
      PROVE  /\ d[p] \in 0..p - 1 /\ e[p] \in Matches /\ e[p].at = ip + d[p] /\ d[p] + e[p].len = p
             /\ Planned(e[p])
  <2>1. p \in DOMAIN opt \ {0}
    <3>1. p \in 0..n /\ p # 0
      OBVIOUS
    <3> QED
      BY <3>1
  <2>2. Reached(opt[p], p)
    BY <2>1 DEF Entries
  <2>3. PICK l \in Nat, off \in Int : l = opt[p].mlen /\ off = opt[p].off /\ 1 <= l /\ l <= p
    BY <2>2 DEF Reached
  <2>4. l = 1 \/ (l >= 4 /\ ip + p <= matchlimit)
    BY <2>2, <2>3 DEF Reached, MINMATCH
  <2>5. PICK x \in Nat : x = p - l /\ x \in 0..p - 1 /\ ip + p - l = ip + x /\ (ip + x) + l = ip + p /\ x + l = p
                         /\ ip + x \in Nat
    BY <1>1, <2>3
  <2>6. d[p] = x /\ e[p] = Match(ip + x, l, off)
    <3>1. p \in 0..n
      OBVIOUS
    <3>2. d[p] = p - opt[p].mlen /\ e[p] = Match(ip + p - opt[p].mlen, opt[p].mlen, opt[p].off)
      BY <3>1, Zenon
    <3>3. d[p] = p - l /\ e[p] = Match(ip + p - l, l, off)
      BY <2>3, <3>2, Zenon
    <3> QED
      BY <2>5, <3>3, Zenon
  <2>7. PICK m : m = Match(ip + x, l, off)
    OBVIOUS
  <2>8. m \in Matches /\ m.at = ip + x /\ m.len = l
    BY <2>5, <2>7 DEF Match, Matches
  <2>9. Planned(m)
    BY <2>4, <2>5, <2>8 DEF Planned, EndOf, MINMATCH
  <2> HIDE DEF d, e
  <2> QED
    BY <2>5, <2>6, <2>7, <2>8, <2>9
<1> DEFINE Solves(f) ==
             f = [p \in 0..n |->
                    IF p = 0 THEN <<>>
                    ELSE Append(f[p - opt[p].mlen], Match(ip + p - opt[p].mlen, opt[p].mlen, opt[p].off))]
<1>3. PICK to : to = CHOOSE f : Solves(f)
  OBVIOUS
<1>4. Path(n) = to[n]
  BY <1>3 DEF Path
<1>5. Solves(to)
  <2>1. PICK f : GoesBack(f, n, d, e)
    <3>1. \A p \in 1..n : d[p] \in 0..p - 1
      BY <1>2
    <3> HIDE DEF d, e
    <3> QED
      BY <3>1, RecursionExists
  <2>2. Solves(f)
    BY <2>1 DEF GoesBack
  <2> HIDE DEF Solves
  <2> QED
    BY <1>3, <2>2
<1>6. to[0] = <<>> /\ \A p \in 1..n : to[p] = Append(to[d[p]], e[p])
  <2>1. 0 \in 0..n /\ \A p \in 1..n : p \in 0..n /\ p # 0
    OBVIOUS
  <2>2. \A p \in 0..n :
          to[p] = IF p = 0 THEN <<>>
                  ELSE Append(to[p - opt[p].mlen], Match(ip + p - opt[p].mlen, opt[p].mlen, opt[p].off))
    BY <1>5
  <2>3. \A p \in 0..n :
          d[p] = p - opt[p].mlen /\ e[p] = Match(ip + p - opt[p].mlen, opt[p].mlen, opt[p].off)
    OBVIOUS
  <2> HIDE DEF d, e, Solves
  <2> QED
    BY <2>1, <2>2, <2>3
<1> HIDE DEF d, e
<1> DEFINE Bad == {p \in 0..n : ~Leads(to[p], p)}
<1>7. ASSUME NEW k \in Bad, \A j \in Bad : k <= j PROVE FALSE
  <2>1. k \in 0..n /\ ~Leads(to[k], k)
    OBVIOUS
  <2>2. \A j \in 0..n : j < k => Leads(to[j], j)
    <3>1. \A j \in 0..n : Leads(to[j], j) \/ j \in Bad
      OBVIOUS
    <3> HIDE DEF Bad
    <3> QED
      BY <1>7, <2>1, <3>1
  <2>3. CASE k = 0
    <3>1. <<>> \in Seq(Matches) /\ Len(<<>>) = 0
      OBVIOUS
    <3>2. Leads(<<>>, 0)
      BY <3>1 DEF Leads
    <3> QED
      BY <1>6, <2>1, <2>3, <3>2
  <2>4. CASE k # 0
    <3>1. k \in 1..n /\ k \in Nat
      BY <2>1, <2>4
    <3>2. PICK x \in Nat, m \in Matches :
            x = d[k] /\ m = e[k] /\ x < k /\ m.at = ip + x /\ x + m.len = k /\ Planned(m) /\ x \in 0..n
      BY <1>2, <3>1
    <3>3. Leads(to[x], x)
      BY <2>2, <3>2
    <3>4. Leads(Append(to[x], m), k)
      <4>1. Leads(Append(to[x], m), x + m.len)
        BY <1>1, <3>2, <3>3, AppendLeads
      <4> QED
        BY <3>2, <4>1
    <3> QED
      BY <1>6, <2>1, <3>1, <3>2, <3>4
  <2> QED
    BY <2>3, <2>4
<1>8. Bad = {}
  <2>1. Bad \subseteq Nat
    OBVIOUS
  <2>2. ASSUME Bad # {} PROVE FALSE
    <3> HIDE DEF Bad
    <3> QED
      BY <1>7, <2>1, <2>2, LeastExists
  <2> HIDE DEF Bad
  <2> QED
    BY <2>2
<1>9. n \in 0..n
  OBVIOUS
<1> QED
  BY <1>4, <1>8, <1>9

\* The table while a plan is made, before a step and after it.
LEMMA PlanningNow ==
  ASSUME PlanOK, pc = "opt_next" \/ pc = "opt_found"
  PROVE  Planning
BY DEF PlanOK, For, Planning, Entries, Reached

\* What planning needs at the next label.
LEMMA PlanAt ==
  ASSUME pc' = "opt_next" \/ (/\ pc' \in {"opt_found", "search"} /\ (pc' = "search" => find'.label = "opt_found")
                              /\ cur' < last_match_pos'),
         Entries(opt'), 0..last_match_pos' + TRAILING_LITERALS \subseteq DOMAIN opt',
         last_match_pos' \in 1..LZ4_OPT_NUM - 1, cur' \in 1..last_match_pos',
         ip' = ip, matchlimit' = matchlimit
  PROVE  PlanOK'
<1>1. pc' # "opt_encode"
  OBVIOUS
<1>2. \A p \in DOMAIN opt' \ {0} :
        /\ opt'[p].mlen \in 1..p /\ opt'[p].off \in Int
        /\ opt'[p].mlen = 1 \/ (opt'[p].mlen >= MINMATCH /\ ip' + p <= matchlimit')
  BY DEF Entries, Reached
<1>3. DOMAIN opt' \subseteq 0..LZ4_OPT_NUM + TRAILING_LITERALS - 1
  BY DEF Entries
<1>4. For("opt_found")' => cur' < last_match_pos'
  BY DEF For
<1> QED
  BY <1>1, <1>2, <1>3, <1>4 DEF PlanOK

\* And before a match is encoded.
LEMMA PlanReady ==
  ASSUME pc' = "opt_encode", NEW n, Leads(plan', n), ip' = ip, matchlimit' = matchlimit
  PROVE  PlanOK'
BY DEF PlanOK, For, Leads, Planned, EndOf

\* A step that goes on, without reading or writing.
LEMMA Continues ==
  ASSUME HCInv, pc # "idle", UNCHANGED <<text, call, ip, anchor, out, reach, inputConsumed, result, hc, find>>,
         pc' \in {"opt_next", "opt_encode"}
  PROVE  /\ Typed' /\ Accepted' /\ RoomLeft' /\ Filled' /\ SearchOK' /\ ChainOK'
         /\ matchlimit' = matchlimit
<1>1. Typed
  BY DEF HCInv
<1>2. StateOK(hc') /\ ip' \in Nat /\ ip <= ip' /\ find' \in Searches /\ pc' \in Labels /\ pc' # "idle"
  BY <1>1 DEF Typed, Labels
<1>3. Typed' /\ Accepted' /\ RoomLeft' /\ Filled' /\ matchlimit' = matchlimit
  BY <1>2, CallKept
<1>4. SearchOK' /\ ChainOK'
  BY SearchQuiet, ChainQuiet DEF Purposes
<1> QED
  BY <1>3, <1>4

\* The price table is there.
LEMMA OptAllocInv ==
  ASSUME HCInv, OptAlloc
  PROVE  HCInv'
<1>1. /\ pc = "opt_alloc" /\ hc' = Dirtied(hc) /\ (Goto("opt") \/ Idle(0))
      /\ UNCHANGED <<text, call, ip, anchor, out, reach, inputConsumed, find>>
  BY DEF OptAlloc, searching
<1>2. Typed /\ Accepted /\ RoomLeft /\ pc # "idle"
  BY <1>1 DEF HCInv
<1>3. StateOK(hc) /\ find \in Searches
  BY <1>2 DEF Typed
<1>4. /\ StateOK(hc') /\ hc'.end = hc.end /\ hc'.prefixStart = hc.prefixStart /\ hc'.dictCtx = hc.dictCtx
      /\ find' \in Searches
  BY <1>1, <1>3, DirtiedOK
<1>5. CASE Goto("opt")
  <2>1. ip \in Nat /\ ip <= ip
    BY <1>2, Ranges
  <2>2. pc' = "opt" /\ result' = result
    BY <1>5 DEF Goto
  <2> QED
    BY <1>1, <1>2, <1>4, <2>1, <2>2, GoesOn
<1>6. CASE Idle(0)
  <2>1. pc' = "idle" /\ result' = 0
    BY <1>6 DEF Idle
  <2>2. CallTyped'
    BY <1>1, <1>2 DEF Typed, CallTyped
  <2>3. text' \in Seq(Byte) /\ ip' \in Nat /\ anchor' \in Nat /\ out' \in Seq(Byte) /\ reach' \in Nat
        /\ inputConsumed' \in Int
    BY <1>1, <1>2 DEF Typed
  <2>4. pc' \in Labels /\ result' \in Nat
    BY <2>1 DEF Labels
  <2>5. Typed'
    BY <1>4, <2>2, <2>3, <2>4 DEF Typed
  <2>6. RoomLeft'
    BY <1>1, <1>2, <2>1 DEF RoomLeft, op
  <2>7. Filled'
    BY <2>1 DEF Filled
  <2> QED
    BY <2>1, <2>5, <2>6, <2>7 DEF HCInv
<1> QED
  BY <1>1, <1>5, <1>6

\* The first search of a round begins.
LEMMA OptFirstInv ==
  ASSUME HashesInTable, HCInv, OptFirst
  PROVE  HCInv'
<1>1. /\ pc = "opt" /\ ip <= mflimit /\ StartSearch(ip, ip, 3, "opt_first")
      /\ UNCHANGED <<searching, choices, pricing>>
  BY DEF OptFirst, MINMATCH
<1>2. Typed /\ Accepted /\ pc # "idle"
  BY <1>1 DEF HCInv
<1>3. ip \in Nat /\ source \in Nat /\ source <= ip
  <2>1. ip \in Nat /\ source \in Nat /\ source <= anchor /\ anchor <= ip /\ anchor \in Nat
    BY <1>2, Ranges
  <2> QED
    BY <2>1
<1>4. PICK p \in Nat, label \in Purposes : p = ip /\ label = "opt_first"
  BY <1>3 DEF Purposes
<1>5. /\ Typed' /\ Accepted' /\ RoomLeft' /\ Filled' /\ SearchOK'
      /\ pc' = "search" /\ find'.label = label
  <2>1. StartSearch(p, p, 3, label) /\ source <= p /\ p <= p /\ p <= mflimit /\ UNCHANGED searching
    BY <1>1, <1>3, <1>4
  <2>2. /\ label # "mid_found" /\ label # "found2" /\ label # "found3" /\ label # "opt_found"
        /\ label \in {"found1", "opt_first"} => p = ip /\ p = ip /\ 3 = 3
    BY <1>4
  <2>3. 3 \in Nat /\ 3 > 0
    OBVIOUS
  <2> QED
    BY <1>2, <2>1, <2>2, <2>3, SearchBegun
<1>6. ChainOK' /\ PlanOK'
  BY <1>4, <1>5, ChainQuiet, PlanQuiet
<1> QED
  BY <1>5, <1>6 DEF HCInv

\* The longer match that a search has found, if one.
LEMMA LongerOK ==
  ASSUME HCInv, pc \in {"opt_first", "opt_found"}, NEW n \in Nat, n = Initial, n > 0
  PROVE  Longer(n) = None \/ (Valid(Longer(n)) /\ Longer(n).at = IF pc = "opt_first" THEN ip ELSE ip + cur)
<1>1. Typed /\ Accepted /\ SearchOK /\ pc \in Purposes /\ pc # "idle"
  BY DEF HCInv, Purposes
<1>2. CASE Found.len <= n
  BY <1>2 DEF Longer
<1>3. CASE ~(Found.len <= n)
  <2>1. Found.len = find.longest /\ find.longest \in Nat /\ find.at \in Nat
    BY <1>1, FoundParts
  <2>2. find.longest > 0 /\ find.longest > Initial
    BY <1>3, <2>1
  <2>3. /\ Found \in Matches /\ Found.len = find.longest
        /\ find.low <= Found.at /\ Found.at <= find.at
        /\ find.at + 4 <= EndOf(Found) /\ EndOf(Found) <= matchlimit
        /\ EndOf(Found) = Found.at + Found.len
    BY <1>1, <2>2, FoundParts
  <2>4. PICK q \in Nat : q = (IF pc = "opt_first" THEN ip ELSE ip + cur) /\ find.low = q /\ find.at = q
    <3>1. find.low = find.at /\ find.at = IF pc = "opt_first" THEN ip ELSE ip + cur
      BY <1>1 DEF SearchOK, For
    <3> QED
      BY <2>1, <3>1
  <2>5. PICK l \in Nat : l = Found.len /\ Found.at = q /\ 4 <= l /\ q + l <= matchlimit
    <3>1. PICK a \in Nat, l \in Nat : a = Found.at /\ l = Found.len
      BY <2>3 DEF Matches
    <3>2. a = q /\ q + 4 <= a + l /\ a + l <= matchlimit
      BY <2>3, <2>4, <3>1
    <3>3. 4 <= l
      BY <3>2
    <3> QED
      BY <3>1, <3>2, <3>3
  <2>6. anchor <= q
    <3>1. anchor \in Nat /\ ip \in Nat /\ anchor <= ip
      BY <1>1, Ranges
    <3>2. pc = "opt_found" => cur \in Nat
      <4>1. pc = "opt_found" => Planning
        BY <1>1, PlanningNow DEF HCInv
      <4>2. LZ4_OPT_NUM \in Nat
        BY Constants
      <4> QED
        BY <4>1, <4>2 DEF Planning
    <3> QED
      BY <2>4, <3>1, <3>2
  <2>7. CASE call.favor /\ Found.len \in 19..36
    <3>1. Longer(n) = Cut(Found, 18)
      BY <1>3, <2>7 DEF Longer
    <3>2. PICK x \in Nat : x = 18
      OBVIOUS
    <3>3. PICK c : c = Cut(Found, x)
      OBVIOUS
    <3>4. c \in Matches /\ c.at = q /\ c.len = x /\ EndOf(c) = q + x
      BY <2>3, <2>5, <3>3, CutOK
    <3>5. q + x <= matchlimit /\ 4 <= x
      <4>1. matchlimit \in Int
        BY <1>1, Ranges
      <4> QED
        BY <2>5, <2>7, <3>2, <4>1
    <3>6. Valid(c) /\ c.at = q
      BY <2>6, <3>4, <3>5 DEF Valid, MINMATCH
    <3> QED
      BY <2>4, <3>1, <3>2, <3>3, <3>6
  <2>8. CASE ~(call.favor /\ Found.len \in 19..36)
    <3>1. Longer(n) = Found
      BY <1>3, <2>8 DEF Longer
    <3>2. Valid(Found)
      BY <2>3, <2>5, <2>6 DEF Valid, MINMATCH
    <3> QED
      BY <2>4, <2>5, <3>1, <3>2
  <2> QED
    BY <2>7, <2>8
<1> QED
  BY <1>2, <1>3

\* It ends: a literal, a match long enough to be encoded at once, or prices.
LEMMA OptFoundFirstInv ==
  ASSUME HCInv, OptFoundFirst
  PROVE  HCInv'
<1>1. pc = "opt_first" /\ UNCHANGED choices
  BY DEF OptFoundFirst
<1>2. Typed /\ Accepted /\ pc # "idle"
  BY <1>1 DEF HCInv
<1>3. PICK n \in Nat : n = 3 /\ n = MINMATCH - 1
  BY DEF MINMATCH
<1>4. PICK m : m = Longer(n)
  OBVIOUS
<1>5. m = None \/ (Valid(m) /\ m.at = ip)
  <2>1. n = Initial /\ n > 0
    BY <1>1, <1>3 DEF Initial, For, MINMATCH
  <2>2. Longer(n) = None \/ (Valid(Longer(n)) /\ Longer(n).at = IF pc = "opt_first" THEN ip ELSE ip + cur)
    BY <1>1, <2>1, LongerOK
  <2> QED
    BY <1>1, <1>4, <2>2
<1>6. None.len = 0 /\ None.at = 0
  BY DEF None, Match
<1>7. PICK suf \in Nat : suf = sufficient_len /\ suf <= LZ4_OPT_NUM - 1
  <2>1. call.targetLength \in Nat /\ LZ4_OPT_NUM \in Nat /\ LZ4_OPT_NUM >= 20
    BY <1>2, Constants DEF Typed, CallTyped
  <2> QED
    BY <2>1 DEF sufficient_len, MinOf
<1>8. \/ /\ m = None /\ ip' = ip + 1 /\ Goto("opt")
         /\ UNCHANGED <<text, call, anchor, out, reach, inputConsumed, hc, find, pricing>>
      \/ m.len > suf /\ ChainEncode(m, "opt")
      \/ /\ m.len \in 1..suf
         /\ opt' = FirstPrices(m, ip - anchor)
         /\ cur' = 1 /\ last_match_pos' = m.len
         /\ Goto("opt_next")
         /\ UNCHANGED <<searching, hc, find, plan>>
  BY <1>3, <1>4, <1>7, ZenonT(60) DEF OptFoundFirst
<1>9. CASE /\ m = None /\ ip' = ip + 1 /\ Goto("opt")
           /\ UNCHANGED <<text, call, anchor, out, reach, inputConsumed, hc, find, pricing>>
  <2>1. ip \in Nat /\ ip + 1 \in Nat /\ ip <= ip + 1
    <3>1. ip \in Nat
      BY <1>2, Ranges, Zenon
    <3> QED
      BY <3>1
  <2>2. /\ UNCHANGED <<text, call, anchor, out, reach, inputConsumed, result>>
        /\ pc' = "opt" /\ ip' \in Nat /\ ip <= ip'
    BY <1>9, <2>1 DEF Goto
  <2>3. /\ StateOK(hc') /\ hc'.end = hc.end /\ hc'.prefixStart = hc.prefixStart /\ hc'.dictCtx = hc.dictCtx
        /\ find' \in Searches
    BY <1>2, <1>9 DEF Typed
  <2> QED
    BY <1>2, <2>2, <2>3, GoesOn
<1>10. CASE m.len > suf /\ ChainEncode(m, "opt")
  <2>1. Valid(m)
    BY <1>5, <1>6, <1>10
  <2>2. PICK label \in {"hc", "search2", "search3", "encode2", "opt"} : label = "opt"
    OBVIOUS
  <2>3. ChainEncode(m, label)
    BY <1>10, <2>2
  <2> QED
    BY <1>2, <2>1, <2>2, <2>3, ChainEncodes
<1>11. CASE /\ m.len \in 1..suf
            /\ opt' = FirstPrices(m, ip - anchor)
            /\ cur' = 1 /\ last_match_pos' = m.len
            /\ Goto("opt_next")
            /\ UNCHANGED <<searching, hc, find, plan>>
  <2>1. Valid(m) /\ m.at = ip
    BY <1>5, <1>6, <1>11
  <2>2. m.len \in Nat /\ 4 <= m.len /\ m.len <= LZ4_OPT_NUM - 1
    <3>1. m.len \in Nat /\ 4 <= m.len
      BY <1>2, <2>1, ValidParts
    <3>2. LZ4_OPT_NUM \in Nat /\ m.len <= suf
      BY <1>11, Constants
    <3> QED
      BY <1>7, <3>1, <3>2
  <2>3. /\ UNCHANGED <<text, call, ip, anchor, out, reach, inputConsumed, result, hc, find>>
        /\ pc' = "opt_next"
    BY <1>11 DEF Goto, searching
  <2>4. /\ Typed' /\ Accepted' /\ RoomLeft' /\ Filled' /\ SearchOK' /\ ChainOK'
        /\ matchlimit' = matchlimit
    BY <1>2, <2>3, Continues
  <2>5. /\ Entries(FirstPrices(m, ip - anchor))
        /\ 0..m.len + TRAILING_LITERALS \subseteq DOMAIN FirstPrices(m, ip - anchor)
    BY <1>2, <2>1, <2>2, FirstPricesOK
  <2>6. Entries(opt') /\ 0..last_match_pos' + TRAILING_LITERALS \subseteq DOMAIN opt'
    BY <1>11, <2>5
  <2>7. last_match_pos' \in 1..LZ4_OPT_NUM - 1 /\ cur' \in 1..last_match_pos'
    <3>1. LZ4_OPT_NUM \in Nat
      BY Constants
    <3> QED
      BY <1>11, <2>2, <3>1
  <2>8. PlanOK'
    BY <2>3, <2>4, <2>6, <2>7, PlanAt
  <2> QED
    BY <2>4, <2>8 DEF HCInv
<1> QED
  BY <1>8, <1>9, <1>10, <1>11

\* What is known while a plan is made.
LEMMA PlanFacts ==
  ASSUME HCInv, pc = "opt_next" \/ pc = "opt_found"
  PROVE  /\ Typed /\ Accepted /\ Planning /\ pc # "idle"
         /\ \E N \in Nat, last \in Nat, c \in Nat :
              /\ N = LZ4_OPT_NUM /\ last = last_match_pos /\ c = cur
              /\ 1 <= c /\ c <= last /\ last <= N - 1
              /\ pc = "opt_found" => c < last
<1>1. Typed /\ Accepted /\ Planning /\ pc # "idle"
  BY PlanningNow DEF HCInv
<1>2. LZ4_OPT_NUM \in Nat
  BY Constants
<1>3. last_match_pos \in Nat /\ cur \in Nat /\ 1 <= cur /\ cur <= last_match_pos /\ last_match_pos <= LZ4_OPT_NUM - 1
  BY <1>1, <1>2 DEF Planning
<1>4. pc = "opt_found" => cur < last_match_pos
  BY DEF HCInv, PlanOK, For
<1> QED
  BY <1>1, <1>2, <1>3, <1>4

\* The next position of the table.
LEMMA OptNextInv ==
  ASSUME HashesInTable, HCInv, OptNext
  PROVE  HCInv'
<1>1. pc = "opt_next" /\ UNCHANGED <<text, call, ip, anchor, out, reach, inputConsumed, choices, opt, last_match_pos>>
  BY DEF OptNext, searching
<1>2. Typed /\ Accepted /\ Planning /\ pc # "idle" /\ Entries(opt)
  BY <1>1, PlanFacts DEF Planning
<1>3. PICK N \in Nat, last \in Nat, c \in Nat :
        /\ N = LZ4_OPT_NUM /\ last = last_match_pos /\ c = cur
        /\ 1 <= c /\ c <= last /\ last <= N - 1
  BY <1>1, PlanFacts
<1>4. CASE /\ plan' = Path(last_match_pos) /\ Goto("opt_encode")
           /\ UNCHANGED <<hc, find, cur>>
  <2>1. /\ UNCHANGED <<text, call, ip, anchor, out, reach, inputConsumed, result, hc, find>>
        /\ pc' = "opt_encode"
    BY <1>1, <1>4 DEF Goto
  <2>2. /\ Typed' /\ Accepted' /\ RoomLeft' /\ Filled' /\ SearchOK' /\ ChainOK'
        /\ matchlimit' = matchlimit
    BY <1>2, <2>1, Continues
  <2>3. 0..last \subseteq DOMAIN opt
    <3>1. 0..last + 3 \subseteq DOMAIN opt
      BY <1>2, <1>3 DEF Planning, TRAILING_LITERALS
    <3>2. \A q \in 0..last : q \in 0..last + 3
      OBVIOUS
    <3> QED
      BY <3>1, <3>2
  <2>4. Leads(plan', last)
    BY <1>2, <1>3, <1>4, <2>3, PathLeads
  <2>5. PlanOK'
    BY <2>1, <2>2, <2>4, PlanReady
  <2> QED
    BY <2>2, <2>5 DEF HCInv
<1>5. CASE /\ cur < last_match_pos /\ cur' = cur + 1 /\ UNCHANGED <<hc, find, pc, result, plan>>
  <2>1. /\ UNCHANGED <<text, call, ip, anchor, out, reach, inputConsumed, result, hc, find>>
        /\ pc' = "opt_next"
    BY <1>1, <1>5
  <2>2. /\ Typed' /\ Accepted' /\ RoomLeft' /\ Filled' /\ SearchOK' /\ ChainOK'
        /\ matchlimit' = matchlimit
    BY <1>2, <2>1, Continues
  <2>3. Entries(opt') /\ 0..last_match_pos' + TRAILING_LITERALS \subseteq DOMAIN opt'
    BY <1>1, <1>2 DEF Planning
  <2>4. last_match_pos' \in 1..LZ4_OPT_NUM - 1 /\ cur' \in 1..last_match_pos'
    BY <1>1, <1>3, <1>5
  <2>5. PlanOK'
    BY <2>1, <2>2, <2>3, <2>4, PlanAt
  <2> QED
    BY <2>2, <2>5 DEF HCInv
<1>6. CASE /\ cur < last_match_pos /\ ip + cur <= mflimit
           /\ StartSearch(ip + cur, ip + cur,
                          IF call.fullUpdate THEN MINMATCH - 1 ELSE last_match_pos - cur, "opt_found")
           /\ UNCHANGED <<cur, plan>>
  <2>1. ip \in Nat /\ source \in Nat /\ source <= ip
    <3>1. ip \in Nat /\ source \in Nat /\ source <= anchor /\ anchor <= ip /\ anchor \in Nat
      BY <1>2, Ranges
    <3> QED
      BY <3>1
  <2>2. PICK p \in Nat : p = ip + cur /\ source <= p /\ p <= p /\ p <= mflimit
    <3>1. PICK p \in Nat : p = ip + c /\ source <= p
      BY <2>1
    <3>2. p = ip + cur
      BY <1>3, <3>1
    <3>3. mflimit \in Int
      BY <1>2, Ranges
    <3>4. p <= p /\ p <= mflimit
      <4>1. ip + cur <= mflimit
        BY <1>6
      <4>2. p <= mflimit
        BY ONLY <3>2, <4>1
      <4> QED
        BY <4>2
    <3> QED
      BY <3>1, <3>2, <3>4
  <2>3. PICK longest \in Nat : longest = (IF call.fullUpdate THEN 3 ELSE last_match_pos - cur) /\ longest > 0
    <3>1. cur < last_match_pos
      BY <1>6
    <3>2. PICK x \in Nat : x = last - c /\ x > 0
      BY <1>3, <3>1
    <3>3. x = last_match_pos - cur
      BY <1>3, <3>2
    <3> QED
      BY <3>2, <3>3
  <2>4. PICK label \in Purposes : label = "opt_found"
    BY DEF Purposes
  <2>5. StartSearch(p, p, longest, label) /\ UNCHANGED searching
    BY <1>1, <1>6, <2>2, <2>3, <2>4 DEF MINMATCH, searching
  <2>6. /\ label # "mid_found" /\ label # "found1" /\ label # "opt_first" /\ label # "found2" /\ label # "found3"
        /\ label = "opt_found" =>
             /\ p = ip + cur' /\ p = ip + cur'
             /\ longest = IF call.fullUpdate THEN 3 ELSE last_match_pos' - cur'
    BY <1>1, <1>6, <2>2, <2>3, <2>4
  <2>7. /\ Typed' /\ Accepted' /\ RoomLeft' /\ Filled' /\ SearchOK'
        /\ matchlimit' = matchlimit
        /\ pc' = "search" /\ find'.label = label
    BY <1>2, <2>2, <2>3, <2>5, <2>6, SearchBegun
  <2>8. ChainOK'
    BY <2>4, <2>7, ChainQuiet
  <2>9. Entries(opt') /\ 0..last_match_pos' + TRAILING_LITERALS \subseteq DOMAIN opt'
    BY <1>1, <1>2 DEF Planning
  <2>10. last_match_pos' \in 1..LZ4_OPT_NUM - 1 /\ cur' \in 1..last_match_pos' /\ cur' < last_match_pos'
    <3>1. cur < last_match_pos /\ cur' = cur
      BY <1>6
    <3> QED
      BY <1>1, <1>3, <3>1
  <2>11. ip' = ip
    BY <1>1
  <2>12. PlanOK'
    BY <2>4, <2>7, <2>9, <2>10, <2>11, PlanAt
  <2> QED
    BY <2>7, <2>8, <2>12 DEF HCInv
<1> QED
  BY <1>4, <1>5, <1>6 DEF OptNext

\* A search from a position within the table ends.
LEMMA OptFoundInv ==
  ASSUME HCInv, OptFound
  PROVE  HCInv'
<1>1. pc = "opt_found" /\ UNCHANGED <<text, call, ip, anchor, out, reach, inputConsumed, hc, find, choices>>
  BY DEF OptFound, searching
<1>2. Typed /\ Accepted /\ Planning /\ pc # "idle" /\ Entries(opt)
  BY <1>1, PlanFacts DEF Planning
<1>3. PICK N \in Nat, last \in Nat, c \in Nat :
        /\ N = LZ4_OPT_NUM /\ last = last_match_pos /\ c = cur
        /\ 1 <= c /\ c < last /\ last <= N - 1
  BY <1>1, PlanFacts
<1>4. PICK n \in Nat : n = (IF call.fullUpdate THEN 3 ELSE last_match_pos - cur) /\ n > 0
  <2>1. PICK x \in Nat : x = last - c /\ x > 0
    BY <1>3
  <2>2. x = last_match_pos - cur
    BY <1>3, <2>1
  <2> QED
    BY <2>1, <2>2
<1>5. PICK m : m = Longer(n)
  OBVIOUS
<1>6. m = None \/ (Valid(m) /\ m.at = ip + cur)
  <2>1. n = Initial
    BY <1>1, <1>4 DEF Initial, For, MINMATCH
  <2>2. Longer(n) = None \/ (Valid(Longer(n)) /\ Longer(n).at = IF pc = "opt_first" THEN ip ELSE ip + cur)
    BY <1>1, <1>4, <2>1, LongerOK
  <2> QED
    BY <1>1, <1>5, <2>2
<1>7. \/ /\ m = None
         /\ cur' = cur + 1 /\ Goto("opt_next")
         /\ UNCHANGED <<opt, last_match_pos, plan>>
      \/ /\ m # None /\ TooFar(m)
         /\ plan' = Append(Path(cur), m)
         /\ Goto("opt_encode")
         /\ UNCHANGED <<opt, cur, last_match_pos>>
      \/ /\ m # None /\ ~TooFar(m)
         /\ last_match_pos' = LastAfter(m)
         /\ opt' = Trailing(WithMatch(m), last_match_pos')
         /\ cur' = cur + 1 /\ Goto("opt_next")
         /\ UNCHANGED plan
  BY <1>4, <1>5 DEF OptFound, MINMATCH
<1>8. CASE /\ m = None
           /\ cur' = cur + 1 /\ Goto("opt_next")
           /\ UNCHANGED <<opt, last_match_pos, plan>>
  <2>1. /\ UNCHANGED <<text, call, ip, anchor, out, reach, inputConsumed, result, hc, find>>
        /\ pc' = "opt_next"
    BY <1>1, <1>8 DEF Goto
  <2>2. /\ Typed' /\ Accepted' /\ RoomLeft' /\ Filled' /\ SearchOK' /\ ChainOK'
        /\ matchlimit' = matchlimit
    BY <1>2, <2>1, Continues
  <2>3. Entries(opt') /\ 0..last_match_pos' + TRAILING_LITERALS \subseteq DOMAIN opt'
    BY <1>2, <1>8 DEF Planning
  <2>4. last_match_pos' \in 1..LZ4_OPT_NUM - 1 /\ cur' \in 1..last_match_pos'
    BY <1>3, <1>8
  <2>5. PlanOK'
    BY <2>1, <2>2, <2>3, <2>4, PlanAt
  <2> QED
    BY <2>2, <2>5 DEF HCInv
<1>9. CASE /\ m # None
           /\ plan' = Append(Path(cur), m)
           /\ Goto("opt_encode")
  <2>1. /\ UNCHANGED <<text, call, ip, anchor, out, reach, inputConsumed, result, hc, find>>
        /\ pc' = "opt_encode"
    BY <1>1, <1>9 DEF Goto
  <2>2. /\ Typed' /\ Accepted' /\ RoomLeft' /\ Filled' /\ SearchOK' /\ ChainOK'
        /\ matchlimit' = matchlimit
    BY <1>2, <2>1, Continues
  <2>3. 0..c \subseteq DOMAIN opt
    <3>1. 0..last + 3 \subseteq DOMAIN opt
      BY <1>2, <1>3 DEF Planning, TRAILING_LITERALS
    <3>2. \A q \in 0..c : q \in 0..last + 3
      BY <1>3
    <3> QED
      BY <3>1, <3>2
  <2>4. PICK s : s = Path(c) /\ Leads(s, c)
    BY <1>2, <2>3, PathLeads
  <2>5. m \in Matches /\ m.at = ip + c /\ Planned(m) /\ ip \in Nat
    <3>1. Valid(m) /\ m.at = ip + cur
      BY <1>6, <1>9
    <3> QED
      BY <1>2, <1>3, <3>1, Ranges DEF Valid, Planned
  <2>6. Leads(Append(s, m), c + m.len)
    BY <2>4, <2>5, AppendLeads
  <2>7. Leads(plan', c + m.len)
    BY <1>3, <1>9, <2>4, <2>6
  <2>8. PlanOK'
    BY <2>1, <2>2, <2>7, PlanReady
  <2> QED
    BY <2>2, <2>8 DEF HCInv
<1>10. CASE /\ m # None /\ ~TooFar(m)
            /\ last_match_pos' = LastAfter(m)
            /\ opt' = Trailing(WithMatch(m), last_match_pos')
            /\ cur' = cur + 1 /\ Goto("opt_next")
            /\ UNCHANGED plan
  <2>1. /\ UNCHANGED <<text, call, ip, anchor, out, reach, inputConsumed, result, hc, find>>
        /\ pc' = "opt_next"
    BY <1>1, <1>10 DEF Goto
  <2>2. /\ Typed' /\ Accepted' /\ RoomLeft' /\ Filled' /\ SearchOK' /\ ChainOK'
        /\ matchlimit' = matchlimit
    BY <1>2, <2>1, Continues
  <2>3. Valid(m) /\ m.at = ip + cur
    BY <1>6, <1>10
  <2>4. m.len + cur < LZ4_OPT_NUM
    <3>1. m.len \in Nat
      BY <1>2, <2>3, ValidParts
    <3>2. ~(m.len + cur >= LZ4_OPT_NUM)
      BY <1>10 DEF TooFar
    <3> QED
      BY <1>3, <3>1, <3>2
  <2>5. PICK l, w : l = LastAfter(m) /\ w = WithMatch(m)
    OBVIOUS
  <2>6. Entries(w) /\ 0..l \subseteq DOMAIN w /\ l \in last_match_pos..LZ4_OPT_NUM - 1
    BY <1>2, <2>3, <2>4, <2>5, WithMatchOK
  <2>7. l \in 1..LZ4_OPT_NUM - 1 /\ cur + 1 \in 1..l
    BY <1>3, <2>6
  <2>8. Entries(Trailing(w, l)) /\ 0..l + TRAILING_LITERALS \subseteq DOMAIN Trailing(w, l)
    BY <2>6, <2>7, TrailingOK
  <2>9. last_match_pos' = l /\ opt' = Trailing(w, l) /\ cur' = cur + 1
    BY <1>10, <2>5
  <2>10. PlanOK'
    BY <2>1, <2>2, <2>7, <2>8, <2>9, PlanAt
  <2> QED
    BY <2>2, <2>10 DEF HCInv
<1> QED
  BY <1>7, <1>8, <1>9, <1>10

\* The rest of a plan.
LEMMA RestReady ==
  ASSUME PlanOK, pc = "opt_encode", plan # <<>>, pc' = "opt_encode", plan' = Tail(plan),
         ip' = EndOf(Head(plan)), matchlimit' = matchlimit
  PROVE  PlanOK'
<1>1. /\ plan \in Seq(Matches)
      /\ \A i \in 1..Len(plan) - 1 : plan[i + 1].at = EndOf(plan[i])
      /\ \A i \in 1..Len(plan) :
           plan[i].len = 1 \/ (plan[i].len >= MINMATCH /\ EndOf(plan[i]) <= matchlimit)
  BY DEF PlanOK
<1>2. PICK k \in Nat : k + 1 = Len(plan)
  <2>1. Len(plan) \in Nat \ {0}
    BY <1>1, EmptySeq
  <2>2. Len(plan) - 1 \in Nat /\ (Len(plan) - 1) + 1 = Len(plan)
    BY <2>1
  <2> QED
    BY <2>2
<1>3. PICK t : t = Tail(plan)
  OBVIOUS
<1>4. t \in Seq(Matches) /\ Len(t) = k /\ \A i \in 1..k : t[i] = plan[i + 1]
  BY <1>1, <1>2, <1>3
<1>5. Head(plan) = plan[1]
  BY <1>1, <1>2
<1>6. t # <<>> => t[1].at = EndOf(plan[1])
  <2>1. t # <<>> => k >= 1
    BY <1>4, EmptySeq
  <2>2. k >= 1 => 1 \in 1..k /\ 1 \in 1..Len(plan) - 1
    BY <1>2
  <2>3. 1 + 1 = 2
    OBVIOUS
  <2> QED
    BY <1>1, <1>4, <2>1, <2>2, <2>3
<1>7. \A i \in 1..Len(t) - 1 : t[i + 1].at = EndOf(t[i])
  <2>1. ASSUME NEW i \in 1..k - 1 PROVE t[i + 1].at = EndOf(t[i])
    <3>1. PICK j \in Nat : j = i + 1 /\ j \in 1..k /\ i \in 1..k /\ j \in 1..Len(plan) - 1
      BY <1>2
    <3>2. plan[j + 1].at = EndOf(plan[j])
      BY <1>1, <3>1
    <3>3. t[i] = plan[j] /\ t[j] = plan[j + 1]
      BY <1>4, <3>1
    <3> QED
      BY <3>1, <3>2, <3>3
  <2> QED
    BY <1>4, <2>1
<1>8. \A i \in 1..Len(t) :
        t[i].len = 1 \/ (t[i].len >= MINMATCH /\ EndOf(t[i]) <= matchlimit)
  <2>1. ASSUME NEW i \in 1..k
        PROVE  t[i].len = 1 \/ (t[i].len >= MINMATCH /\ EndOf(t[i]) <= matchlimit)
    <3>1. PICK j \in Nat : j = i + 1 /\ j \in 1..Len(plan)
      BY <1>2
    <3> QED
      BY <1>1, <1>4, <3>1
  <2> QED
    BY <1>4, <2>1
<1>9. plan' = t /\ ip' = EndOf(plan[1])
  BY <1>3, <1>5
<1>10. /\ plan' \in Seq(Matches)
       /\ plan' # <<>> => plan'[1].at = ip'
       /\ \A i \in 1..Len(plan') - 1 : plan'[i + 1].at = EndOf(plan'[i])
       /\ \A i \in 1..Len(plan') :
            plan'[i].len = 1 \/ (plan'[i].len >= MINMATCH /\ EndOf(plan'[i]) <= matchlimit')
  BY <1>4, <1>6, <1>7, <1>8, <1>9
<1> QED
  BY <1>10 DEF PlanOK, For, EndOf

\* The next match of the plan is encoded; matches of one byte are literals.
LEMMA OptEncodeInv ==
  ASSUME HCInv, OptEncode
  PROVE  HCInv'
<1>1. pc = "opt_encode" /\ UNCHANGED <<find, choices, opt, cur, last_match_pos>>
  BY DEF OptEncode
<1>2. Typed /\ Accepted /\ PlanOK /\ pc # "idle"
  BY <1>1 DEF HCInv
<1>3. StateOK(hc) /\ find \in Searches /\ ip \in Nat /\ anchor \in Nat /\ anchor <= ip
  BY <1>2, Ranges DEF Typed
<1>4. CASE Goto("opt") /\ UNCHANGED <<searching, hc, plan>>
  <2>1. /\ UNCHANGED <<text, call, anchor, out, reach, inputConsumed, result, ip>>
        /\ pc' = "opt" /\ ip' \in Nat /\ ip <= ip'
    BY <1>3, <1>4 DEF Goto, searching
  <2>2. /\ StateOK(hc') /\ hc'.end = hc.end /\ hc'.prefixStart = hc.prefixStart /\ hc'.dictCtx = hc.dictCtx
        /\ find' \in Searches
    BY <1>1, <1>3, <1>4
  <2> QED
    BY <1>2, <2>1, <2>2, GoesOn
<1>5. CASE /\ plan # <<>> /\ plan' = Tail(plan)
           /\ IF Head(plan).len = 1
              THEN ip' = ip + 1 /\ Goto("opt_encode")
                   /\ UNCHANGED <<text, call, anchor, out, reach, inputConsumed, hc>>
              ELSE LZ4HC_encodeSequence(Head(plan), "opt_encode") /\ hc' = Dirtied(hc)
  <2>1. PICK m \in Matches : /\ m = Head(plan) /\ m.at = ip
                             /\ m.len = 1 \/ (m.len >= 4 /\ EndOf(m) <= matchlimit)
    <3>1. plan \in Seq(Matches) /\ plan # <<>>
      BY <1>1, <1>2, <1>5 DEF PlanOK
    <3>2. 1 \in 1..Len(plan)
      BY <3>1, EmptySeq
    <3>3. Head(plan) = plan[1] /\ plan[1] \in Matches
      BY <3>1, <3>2
    <3>4. /\ plan[1].at = ip
          /\ plan[1].len = 1 \/ (plan[1].len >= 4 /\ EndOf(plan[1]) <= matchlimit)
      BY <1>1, <1>2, <3>1, <3>2 DEF PlanOK, MINMATCH
    <3> QED
      BY <3>3, <3>4
  <2>2. CASE m.len = 1
    <3>1. /\ ip' = ip + 1 /\ Goto("opt_encode")
          /\ UNCHANGED <<text, call, anchor, out, reach, inputConsumed, hc>>
      BY <1>5, <2>1, <2>2
    <3>2. /\ UNCHANGED <<text, call, anchor, out, reach, inputConsumed, result>>
          /\ pc' = "opt_encode" /\ ip' \in Nat /\ ip <= ip'
      BY <1>3, <3>1 DEF Goto
    <3>3. /\ StateOK(hc') /\ hc'.end = hc.end /\ hc'.prefixStart = hc.prefixStart /\ hc'.dictCtx = hc.dictCtx
          /\ find' \in Searches /\ pc' \in Labels /\ pc' # "idle"
      BY <1>1, <1>3, <3>1, <3>2 DEF Labels
    <3>4. Typed' /\ Accepted' /\ RoomLeft' /\ Filled' /\ matchlimit' = matchlimit
      BY <1>2, <3>2, <3>3, CallKept
    <3>5. ip' = EndOf(Head(plan))
      BY <2>1, <2>2, <3>1 DEF EndOf
    <3>6. PlanOK'
      BY <1>1, <1>2, <1>5, <3>2, <3>4, <3>5, RestReady
    <3>7. SearchOK' /\ ChainOK'
      BY <3>2, SearchQuiet, ChainQuiet DEF Purposes
    <3> QED
      BY <3>4, <3>6, <3>7 DEF HCInv
  <2>3. CASE m.len # 1
    <3>1. PICK label \in Labels \ {"idle", "last_literals"} : label = "opt_encode"
      BY DEF Labels
    <3>2. LZ4HC_encodeSequence(m, label) /\ hc' = Dirtied(hc)
      BY <1>5, <2>1, <2>3, <3>1
    <3>3. Valid(m)
      BY <1>3, <2>1, <2>3 DEF Valid, MINMATCH
    <3>4. /\ StateOK(hc') /\ hc'.end = hc.end /\ hc'.prefixStart = hc.prefixStart /\ hc'.dictCtx = hc.dictCtx
          /\ find' \in Searches
      BY <1>1, <1>3, <3>2, DirtiedOK
    <3>5. /\ Typed' /\ Accepted' /\ RoomLeft' /\ Filled' /\ matchlimit' = matchlimit
          /\ pc' \in {label, "idle", "last_literals"}
          /\ pc' = label => ip' = EndOf(m)
      BY <1>2, <3>2, <3>3, <3>4, EncodeKeeps
    <3>6. CASE pc' = "opt_encode"
      <4>1. ip' = EndOf(Head(plan))
        BY <2>1, <3>1, <3>5, <3>6
      <4>2. PlanOK'
        BY <1>1, <1>2, <1>5, <3>5, <3>6, <4>1, RestReady
      <4>3. SearchOK' /\ ChainOK'
        BY <3>6, SearchQuiet, ChainQuiet DEF Purposes
      <4> QED
        BY <3>5, <4>2, <4>3 DEF HCInv
    <3>7. CASE pc' \in {"idle", "last_literals"}
      <4>1. SearchOK' /\ ChainOK' /\ PlanOK'
        BY <3>7, Quiet
      <4> QED
        BY <3>5, <4>1 DEF HCInv
    <3> QED
      BY <3>1, <3>5, <3>6, <3>7
  <2> QED
    BY <2>2, <2>3
<1> QED
  BY <1>4, <1>5 DEF OptEncode

\* Every step of LZ4HC_compress_optimal.
LEMMA OptimalInv ==
  ASSUME HashesInTable, HCInv, Optimal
  PROVE  HCInv'
BY OptAllocInv, OptFirstInv, OptFoundFirstInv, OptNextInv, OptFoundInv, OptEncodeInv DEF Optimal

\* The rest are literals.
LEMMA ParserEndsInv ==
  ASSUME HCInv, ParserEnds
  PROVE  HCInv'
<1>1. /\ pc # "idle" /\ pc' = "last_literals"
      /\ UNCHANGED <<text, call, ip, anchor, out, reach, inputConsumed, hc, find, result>>
  BY DEF ParserEnds, Goto, searching
<1>2. Typed /\ Accepted
  BY <1>1 DEF HCInv
<1>3. /\ StateOK(hc') /\ hc'.end = hc.end /\ hc'.prefixStart = hc.prefixStart /\ hc'.dictCtx = hc.dictCtx
      /\ find' \in Searches /\ ip' \in Nat /\ ip <= ip'
  BY <1>1, <1>2 DEF Typed
<1> QED
  BY <1>1, <1>3, GoesOn

---------------------------------------------------------------------------
(* The last literals, and every step of a call.                            *)

\* What is known when the last literals are written.
LEMMA RoomAtEnd ==
  ASSUME Typed, Accepted, RoomLeft, pc # "idle"
  PROVE  RoomForLast
<1>1. /\ source \in Nat /\ anchor \in Nat /\ call.size \in Nat /\ call.capacity \in Int
      /\ op \in Nat /\ source <= anchor /\ anchor <= iend
  BY Ranges
<1>2. call.output \in Outputs
  BY DEF Typed, CallTyped
<1>3. /\ ~limited => op <= Bound(anchor - source)
      /\ filling => op + 1 <= call.capacity
  BY DEF RoomLeft
<1>4. ~limited => call.capacity >= call.size + call.size \div 255 + 16
  <2>1. call.size \in 0..LZ4_MAX_INPUT_SIZE /\ (~limited => call.capacity >= LZ4_compressBound(call.size))
    BY DEF Accepted
  <2>2. LZ4_compressBound(call.size) = call.size + call.size \div 255 + 16
    BY <2>1 DEF LZ4_compressBound
  <2> QED
    BY <2>1, <2>2
<1> QED
  BY <1>1, <1>2, <1>3, <1>4 DEF RoomForLast

\* The last run is written.
LEMMA LastWritten ==
  ASSUME Typed, Accepted, RoomLeft, pc # "idle", NEW n,
         n = LastRun, call.output = "limitedOutput" => LastFits,
         out' = WithRun(16 * MinOf(n, 15), anchor, n)
  PROVE  /\ n \in Nat /\ anchor + n <= iend
         /\ out' \in Seq(Byte) /\ op' \in Nat /\ op' <= call.capacity
         /\ filling /\ anchor + n < iend =>
              op' = call.capacity \/ (op' = call.capacity - 1 /\ n % 255 = 14)
<1>1. /\ n \in Nat /\ n <= iend - anchor /\ op + 1 + Extra(n) + n <= call.capacity
      /\ filling /\ n < iend - anchor =>
           op + 1 + Extra(n) + n = call.capacity
           \/ (op + 1 + Extra(n) + n = call.capacity - 1 /\ n % 255 = 14)
  BY LastRunFits, RoomAtEnd
<1>2. /\ anchor \in Nat /\ iend \in Nat /\ iend <= Len(text) /\ Len(text) \in Nat
      /\ call.capacity \in Int /\ op \in Nat /\ op = Len(out)
  BY Ranges DEF op
<1>3. PICK a \in Nat, t \in Int : a = anchor /\ t = 16 * MinOf(n, 15)
  BY <1>1, <1>2 DEF MinOf
<1>4. text \in Seq(Byte) /\ out \in Seq(Byte) /\ a + n <= Len(text)
  BY <1>1, <1>2, <1>3 DEF Typed
<1>5. t \in 0..240
  BY <1>1, <1>3, RunToken
<1>6. t \in Byte /\ t \in Int
  BY ONLY <1>5 DEF Byte
<1>7. WithRun(t, a, n) \in Seq(Byte) /\ out' = WithRun(t, a, n)
  <2>1. WithRun(t, a, n) \in Seq(Byte)
    BY ONLY <1>1, <1>4, <1>6, RunBytes
  <2> QED
    BY <1>3, <2>1
<1>8. out \in Seq(Int)
  <2>1. PICK k \in Nat : k = Len(out)
    BY <1>2
  <2>2. out \in [1..k -> Byte]
    BY <1>4, <2>1
  <2>3. \A b \in Byte : b \in Int
    BY DEF Byte
  <2>4. out \in [1..k -> Int]
    BY <2>2, <2>3
  <2> QED
    BY <2>4
<1>9. PICK o : o = out \o <<t>> \o LengthBytes(n) \o SubSeq(text, a + 1, a + n)
  OBVIOUS
<1>10. Len(o) = Len(out) + 1 + Extra(n) + n
  BY <1>1, <1>4, <1>6, <1>8, <1>9, RunType
<1>11. out' = o
  BY <1>7, <1>9 DEF WithRun
<1>12. Extra(n) \in Nat
  BY <1>1, ExtraBounds
<1>13. op' = op + 1 + Extra(n) + n
  BY <1>2, <1>10, <1>11 DEF op
<1>14. op' \in Nat /\ op' <= call.capacity
  BY <1>1, <1>2, <1>12, <1>13
<1>15. filling /\ anchor + n < iend => n < iend - anchor
  BY <1>1, <1>2
<1> QED
  BY <1>1, <1>2, <1>7, <1>13, <1>14, <1>15

\* What a call that ends leaves.
LEMMA EndsInv ==
  ASSUME Typed, UNCHANGED <<text, call, anchor, find>>, StateOK(hc'),
         ip' \in Nat, out' \in Seq(Byte), reach' \in Nat, inputConsumed' \in Int,
         pc' = "idle", result' \in Nat,
         op' <= reach', reach' <= MaxOf(0, call.capacity),
         result' > 0 => FillsUp' /\ inputConsumed' \in Nat
  PROVE  HCInv'
<1>1. CallTyped'
  BY DEF Typed, CallTyped
<1>2. text' \in Seq(Byte) /\ anchor' \in Nat /\ find' \in Searches
  BY DEF Typed
<1>3. pc' \in Labels
  BY DEF Labels
<1>4. Typed'
  BY <1>1, <1>2, <1>3 DEF Typed
<1>5. RoomLeft'
  BY DEF RoomLeft
<1>6. Filled'
  BY DEF Filled
<1> QED
  BY <1>4, <1>5, <1>6 DEF HCInv

\* They are written, and the call returns.
LEMMA LastLiteralsInv ==
  ASSUME HCInv, LastLiterals
  PROVE  HCInv'
<1>1. /\ pc = "last_literals" /\ hc' = Dirtied(hc)
      /\ UNCHANGED <<text, call, anchor, find>>
  BY DEF LastLiterals
<1>2. Typed /\ Accepted /\ RoomLeft /\ pc # "idle"
  BY <1>1 DEF HCInv
<1>3. StateOK(hc)
  BY <1>2 DEF Typed
<1>4. StateOK(hc')
  BY <1>1, <1>3, DirtiedOK
<1>5. PICK n : n = LastRun
  OBVIOUS
<1>6. \/ /\ pc' = "idle" /\ result' = 0
         /\ UNCHANGED <<ip, out, reach, inputConsumed>>
      \/ /\ call.output = "limitedOutput" => LastFits
         /\ out' = WithRun(16 * MinOf(n, 15), anchor, n)
         /\ ip' = anchor + n /\ inputConsumed' = anchor + n - source
         /\ reach' = MaxOf(reach, Len(out')) /\ pc' = "idle" /\ result' = Len(out')
  BY <1>5 DEF LastLiterals, EncodeLast, Idle, Reach, LastRun, LastFits, WithRun
<1>7. CASE /\ pc' = "idle" /\ result' = 0
           /\ UNCHANGED <<ip, out, reach, inputConsumed>>
  <2>1. ip' \in Nat /\ out' \in Seq(Byte) /\ reach' \in Nat /\ inputConsumed' \in Int
    BY <1>2, <1>7 DEF Typed
  <2>2. op' <= reach' /\ reach' <= MaxOf(0, call.capacity)
    BY <1>2, <1>7 DEF RoomLeft, op
  <2> QED
    BY <1>1, <1>2, <1>4, <1>7, <2>1, <2>2, EndsInv
<1>8. CASE /\ call.output = "limitedOutput" => LastFits
           /\ out' = WithRun(16 * MinOf(n, 15), anchor, n)
           /\ ip' = anchor + n /\ inputConsumed' = anchor + n - source
           /\ reach' = MaxOf(reach, Len(out')) /\ pc' = "idle" /\ result' = Len(out')
  <2>1. /\ n \in Nat /\ anchor + n <= iend
        /\ out' \in Seq(Byte) /\ op' \in Nat /\ op' <= call.capacity
        /\ filling /\ anchor + n < iend =>
             op' = call.capacity \/ (op' = call.capacity - 1 /\ n % 255 = 14)
    BY <1>2, <1>5, <1>8, LastWritten
  <2>2. /\ source \in Nat /\ anchor \in Nat /\ source <= anchor /\ iend = source + call.size
        /\ call.size \in Nat /\ call.capacity \in Int
    BY <1>2, Ranges
  <2>3. reach \in Nat /\ reach <= MaxOf(0, call.capacity)
    BY <1>2 DEF RoomLeft, Typed
  <2>4. op' = Len(out')
    BY DEF op
  <2>5. reach' \in Nat /\ op' <= reach' /\ reach' <= MaxOf(0, call.capacity)
    <3>1. reach' = MaxOf(reach, op')
      BY <1>8, <2>4
    <3> QED
      BY <2>1, <2>2, <2>3, <3>1 DEF MaxOf
  <2>6. ip' \in Nat /\ inputConsumed' \in Nat /\ inputConsumed' \in Int
    BY <1>8, <2>1, <2>2
  <2>7. result' = op' /\ result' \in Nat
    BY <1>8, <2>1, <2>4
  <2>8. FillsUp'
    <3>1. SUFFICES ASSUME filling, inputConsumed' < call.size
                   PROVE  \/ result' = call.capacity
                          \/ /\ result' = call.capacity - 1
                             /\ (source + inputConsumed' - anchor) % 255 = 14
      BY <1>1 DEF FillsUp, filling, source
    <3>2. anchor + n < iend /\ source + inputConsumed' - anchor = n
      BY <1>8, <2>1, <2>2, <3>1
    <3> QED
      BY <2>1, <2>7, <3>1, <3>2
  <2> QED
    BY <1>1, <1>2, <1>4, <1>8, <2>1, <2>5, <2>6, <2>7, <2>8, EndsInv
<1> QED
  BY <1>6, <1>7, <1>8

\* Every step of a call keeps the invariant.
LEMMA HCStepInv ==
  ASSUME HashesInTable, HCInv, HCStep
  PROVE  HCInv'
BY SearchInv, MidSearchInv, MidFoundInv, MidEncodeInv, ChainInv, OptimalInv, ParserEndsInv,
   LastLiteralsInv DEF HCStep

---------------------------------------------------------------------------
(* A call starts.                                                          *)

\* What a level asks for.
LEMMA ParamsType ==
  ASSUME NEW level \in Int
  PROVE  /\ LZ4HC_getCLevelParams(level).strat \in {"mid", "hc", "opt"}
         /\ LZ4HC_getCLevelParams(level).nbSearches \in Nat
         /\ LZ4HC_getCLevelParams(level).targetLength \in Nat
<1>1. PICK n \in Int : n = (IF level < 1 THEN LZ4HC_CLEVEL_DEFAULT ELSE MinOf(level, LZ4HC_CLEVEL_MAX))
                       /\ n \in 1..12
  BY DEF LZ4HC_CLEVEL_DEFAULT, LZ4HC_CLEVEL_MAX, MinOf
<1>2. CASE n <= 2
  BY <1>1, <1>2 DEF LZ4HC_getCLevelParams
<1>3. CASE ~(n <= 2) /\ n <= 9
  <2>1. LZ4HC_getCLevelParams(level)
          = [strat |-> "hc", nbSearches |-> <<4, 8, 16, 32, 64, 128, 256>>[n - 2], targetLength |-> 16]
    BY <1>1, <1>3 DEF LZ4HC_getCLevelParams
  <2>2. \A i \in 3..9 : <<4, 8, 16, 32, 64, 128, 256>>[i - 2] \in Nat
    OBVIOUS
  <2>3. n \in 3..9
    BY <1>1, <1>3
  <2> QED
    BY <2>1, <2>2, <2>3
<1>4. CASE n = 10
  <2>1. LZ4HC_getCLevelParams(level).strat = "opt"
    BY <1>1, <1>4 DEF LZ4HC_getCLevelParams
  <2>2. LZ4HC_getCLevelParams(level).nbSearches = 96
    BY <1>1, <1>4 DEF LZ4HC_getCLevelParams
  <2>3. LZ4HC_getCLevelParams(level).targetLength = 64
    BY <1>1, <1>4 DEF LZ4HC_getCLevelParams
  <2> QED
    BY <2>1, <2>2, <2>3, Constants
<1>5. CASE n = 11
  <2>1. LZ4HC_getCLevelParams(level).strat = "opt"
    BY <1>1, <1>5 DEF LZ4HC_getCLevelParams
  <2>2. LZ4HC_getCLevelParams(level).nbSearches = 512
    BY <1>1, <1>5 DEF LZ4HC_getCLevelParams
  <2>3. LZ4HC_getCLevelParams(level).targetLength = 128
    BY <1>1, <1>5 DEF LZ4HC_getCLevelParams
  <2> QED
    BY <2>1, <2>2, <2>3, Constants
<1>6. CASE n = 12
  <2>1. LZ4HC_getCLevelParams(level).strat = "opt"
    BY <1>1, <1>6 DEF LZ4HC_getCLevelParams
  <2>2. LZ4HC_getCLevelParams(level).nbSearches = 16384
    BY <1>1, <1>6 DEF LZ4HC_getCLevelParams
  <2>3. LZ4HC_getCLevelParams(level).targetLength = LZ4_OPT_NUM
    BY <1>1, <1>6 DEF LZ4HC_getCLevelParams
  <2> QED
    BY <2>1, <2>2, <2>3, Constants
<1>7. n <= 2 \/ (~(n <= 2) /\ n <= 9) \/ n = 10 \/ n = 11 \/ n = 12
  BY <1>1
<1> QED
  BY <1>2, <1>3, <1>4, <1>5, <1>6, <1>7

\* A state of a longer prefix.
LEMMA LongerPrefixOK ==
  ASSUME NEW c, StateOK(c), NEW n \in Nat
  PROVE  /\ StateOK([c EXCEPT !.end = @ + n])
         /\ [c EXCEPT !.end = @ + n].end = c.end + n
         /\ [c EXCEPT !.end = @ + n].prefixStart = c.prefixStart
         /\ [c EXCEPT !.end = @ + n].dictCtx = c.dictCtx
<1>1. c \in StreamState /\ Ordered(c) /\ (c.dictCtx # NoDictCtx => Ordered(c.dictCtx))
  BY DEF StateOK
<1>2. PICK e \in Int : e = c.end + n /\ c.end \in Int /\ c.prefixStart \in Int
                       /\ c.nextToUpdate \in Nat /\ c.dictLimit \in Nat
  <2>1. c.end \in Int /\ c.prefixStart \in Int /\ c.nextToUpdate \in Nat /\ c.dictLimit \in Nat
    BY StateParts
  <2> QED
    BY <2>1
<1>3. PICK d : d = [c EXCEPT !.end = e] /\ d = [c EXCEPT !.end = @ + n]
  BY <1>2
<1>4. /\ d \in StreamState
      /\ d.nextToUpdate = c.nextToUpdate /\ d.prefixStart = c.prefixStart /\ d.end = e
      /\ d.dictLimit = c.dictLimit /\ d.lowLimit = c.lowLimit /\ d.dictCtx = c.dictCtx
  BY <1>1, <1>3 DEF StreamState, StateWith, HashTables, ChainTables
<1>5. EndIndex(c) = c.end - c.prefixStart + c.dictLimit
      /\ EndIndex(d) = e - c.prefixStart + c.dictLimit
  BY <1>4 DEF EndIndex, IndexIn
<1>6. Ordered(d)
  BY <1>1, <1>2, <1>4, <1>5 DEF Ordered
<1>7. StateOK(d)
  BY <1>1, <1>4, <1>6 DEF StateOK
<1> QED
  BY <1>2, <1>3, <1>4, <1>7

\* Arguments of a call whose source is in the text t.
ArgumentsOK(r, t) ==
  /\ r.source \in Nat /\ r.size \in Int /\ r.capacity \in Int /\ r.level \in Int
  /\ r.output \in Outputs
  /\ r.source + r.size <= Len(t)
  /\ r.output = "notLimited" => r.capacity >= LZ4_compressBound(r.size)

\* A call with its arguments, on a state whose prefix ends where the source begins.
LEMMA StartInv ==
  ASSUME Typed, NEW c, StateOK(c), NEW r, ArgumentsOK(r, text'), c.end = r.source,
         NEW u, u => c.dictCtx # NoDictCtx, Start(c, r, u), text' \in Seq(Byte)
  PROVE  HCInv' /\ hc'.prefixStart = c.prefixStart /\ hc'.end \in {c.end, r.source + r.size}
<1>1. PICK nb \in Nat, target \in Nat, s \in {"mid", "hc", "opt"} :
        /\ s = LZ4HC_getCLevelParams(r.level).strat
        /\ nb = LZ4HC_getCLevelParams(r.level).nbSearches
        /\ target = LZ4HC_getCLevelParams(r.level).targetLength
  BY ParamsType DEF ArgumentsOK
<1>2. /\ call'.source = r.source /\ call'.size = r.size /\ call'.capacity = r.capacity
      /\ call'.output = r.output /\ call'.nbSearches = nb /\ call'.targetLength = target
      /\ call'.usingDictCtx = u
      /\ ip' = r.source /\ anchor' = r.source /\ out' = <<>> /\ reach' = 0 /\ inputConsumed' = r.size
      /\ find' = find
  BY <1>1 DEF Start
<1>3. \/ pc' = "idle" /\ result' = 0 /\ hc' = c
      \/ /\ ~(r.output = "fillOutput" /\ r.capacity < 1)
         /\ r.size \in 0..LZ4_MAX_INPUT_SIZE
         /\ hc' = [c EXCEPT !.end = @ + r.size] /\ result' = result
         /\ pc' \in {"opt_alloc", "last_literals", "mid", "hc"}
  BY <1>1 DEF Start, Idle, Goto
<1>4. /\ r.source \in Nat /\ r.size \in Int /\ r.capacity \in Int /\ r.output \in Outputs
      /\ r.source + r.size <= Len(text')
      /\ r.output = "notLimited" => r.capacity >= LZ4_compressBound(r.size)
  BY DEF ArgumentsOK
<1>5. CallTyped'
  BY <1>2, <1>4 DEF CallTyped, source
<1>6. /\ ip' \in Nat /\ anchor' \in Nat /\ out' \in Seq(Byte) /\ reach' \in Nat /\ inputConsumed' \in Int
      /\ find' \in Searches
  BY <1>2, <1>4 DEF Typed
<1>7. op' = 0 /\ op' <= reach' /\ reach' <= MaxOf(0, call'.capacity)
  BY <1>2, <1>4 DEF op, MaxOf
<1>8. CASE pc' = "idle" /\ result' = 0 /\ hc' = c
  <2>1. pc' \in Labels /\ result' \in Nat
    BY <1>8 DEF Labels
  <2>2. Typed'
    BY <1>5, <1>6, <1>8, <2>1 DEF Typed
  <2>3. RoomLeft'
    BY <1>7, <1>8 DEF RoomLeft
  <2>4. Filled'
    BY <1>8 DEF Filled
  <2> QED
    BY <1>8, <2>2, <2>3, <2>4 DEF HCInv
<1>9. CASE /\ ~(r.output = "fillOutput" /\ r.capacity < 1)
           /\ r.size \in 0..LZ4_MAX_INPUT_SIZE
           /\ hc' = [c EXCEPT !.end = @ + r.size] /\ result' = result
           /\ pc' \in {"opt_alloc", "last_literals", "mid", "hc"}
  <2>1. r.size \in Nat
    BY <1>9, MaxInputType
  <2>2. /\ StateOK(hc') /\ hc'.end = c.end + r.size /\ hc'.prefixStart = c.prefixStart
        /\ hc'.dictCtx = c.dictCtx
    BY <1>9, <2>1, LongerPrefixOK
  <2>3. pc' \in Labels /\ pc' # "idle" /\ result' \in Nat
    BY <1>9 DEF Labels, Typed
  <2>4. Typed'
    BY <1>5, <1>6, <2>2, <2>3 DEF Typed
  <2>5. source' = r.source /\ iend' = r.source + r.size
    BY <1>2 DEF source, iend
  <2>6. (~limited)' <=> r.output = "notLimited"
    BY <1>2 DEF limited
  <2>7. filling' <=> r.output = "fillOutput"
    BY <1>2 DEF filling
  <2>8. c.prefixStart <= c.end
    BY StateParts
  <2>9. Accepted'
    <3>1. call'.size \in 0..LZ4_MAX_INPUT_SIZE /\ iend' <= Len(text')
          /\ hc'.end = iend' /\ hc'.prefixStart <= source'
      BY <1>2, <1>4, <1>9, <2>2, <2>5, <2>8
    <3>2. call'.usingDictCtx => hc'.dictCtx # NoDictCtx
      BY <1>2, <2>2
    <3>3. (~limited)' => call'.capacity >= LZ4_compressBound(call'.size)
      BY <1>2, <1>4, <2>6
    <3>4. filling' => call'.capacity >= 1
      BY <1>2, <1>4, <1>9, <2>7
    <3>5. source' <= anchor' /\ anchor' <= ip' /\ anchor' <= iend' /\ inputConsumed' \in Nat
      BY <1>2, <1>4, <2>1, <2>5
    <3> QED
      BY <3>1, <3>2, <3>3, <3>4, <3>5 DEF Accepted
  <2>10. RoomLeft'
    <3>1. Bound(anchor' - source') = 0
      BY <1>2, <1>4, <2>5 DEF Bound
    <3>2. (~limited)' => op' <= Bound(anchor' - source')
      BY <1>7, <3>1
    <3>3. filling' => op' + 1 <= call'.capacity
      BY <1>2, <1>4, <1>7, <1>9, <2>7
    <3> QED
      BY <1>7, <3>2, <3>3 DEF RoomLeft
  <2>11. Filled'
    BY <2>3 DEF Filled
  <2>12. SearchOK' /\ ChainOK' /\ PlanOK'
    BY <1>9, Quiet
  <2> QED
    BY <1>2, <2>2, <2>4, <2>9, <2>10, <2>11, <2>12 DEF HCInv
<1> QED
  BY <1>3, <1>8, <1>9

\* A state that forgets its attached dictionary, or is attached to one.
LEMMA AttachOK ==
  ASSUME NEW c, StateOK(c), NEW d, d = NoDictCtx \/ (d \in DictState /\ Ordered(d))
  PROVE  /\ StateOK([c EXCEPT !.dictCtx = d]) /\ [c EXCEPT !.dictCtx = d].end = c.end
         /\ [c EXCEPT !.dictCtx = d].prefixStart = c.prefixStart
<1>1. c \in StreamState /\ Ordered(c)
  BY DEF StateOK
<1>2. PICK e : e = [c EXCEPT !.dictCtx = d]
  OBVIOUS
<1>3. d \in {NoDictCtx} \cup DictState
  OBVIOUS
<1>4. /\ e \in StreamState
      /\ e.nextToUpdate = c.nextToUpdate /\ e.prefixStart = c.prefixStart /\ e.end = c.end
      /\ e.dictLimit = c.dictLimit /\ e.lowLimit = c.lowLimit /\ e.dictCtx = d
  BY <1>1, <1>2, <1>3 DEF StreamState, StateWith, HashTables, ChainTables
<1>5. EndIndex(e) = EndIndex(c)
  BY <1>4 DEF EndIndex, IndexIn
<1>6. Ordered(e)
  BY <1>1, <1>4, <1>5 DEF Ordered
<1>7. StateOK(e)
  BY <1>4, <1>6 DEF StateOK
<1> QED
  BY <1>2, <1>4, <1>7

\* A state of another level, as it is given.
LEMMA GivenLevelOK ==
  ASSUME NEW c, StateOK(c), NEW level \in 1..LZ4HC_CLEVEL_MAX
  PROVE  /\ StateOK([c EXCEPT !.compressionLevel = level])
         /\ [c EXCEPT !.compressionLevel = level].end = c.end
         /\ [c EXCEPT !.compressionLevel = level].prefixStart = c.prefixStart
         /\ [c EXCEPT !.compressionLevel = level].dictCtx = c.dictCtx
<1>1. level \in Int /\ ~(level < 1) /\ MinOf(level, LZ4HC_CLEVEL_MAX) = level
  BY DEF LZ4HC_CLEVEL_MAX, MinOf
<1>2. LZ4_setCompressionLevel(c, level) = [c EXCEPT !.compressionLevel = level]
  BY <1>1 DEF LZ4_setCompressionLevel
<1> QED
  BY <1>1, <1>2, LevelOK

\* A call, with or without an attached dictionary.
LEMMA GenericInv ==
  ASSUME Typed, NEW c, StateOK(c), 0 <= c.prefixStart, NEW r, ArgumentsOK(r, text'),
         c.end = r.source, c.dictCtx # NoDictCtx => r.level \in 1..LZ4HC_CLEVEL_MAX,
         LZ4HC_compress_generic(c, r), text' \in Seq(Byte)
  PROVE  HCInv' /\ 0 <= hc'.prefixStart /\ hc'.end \in {r.source, r.source + r.size}
<1>1. ASSUME NEW d, StateOK(d), 0 <= d.prefixStart, d.end = r.source, NEW w,
             w => d.dictCtx # NoDictCtx, Start(d, r, w)
      PROVE  HCInv' /\ 0 <= hc'.prefixStart /\ hc'.end \in {r.source, r.source + r.size}
  BY <1>1, StartInv
<1>2. CASE Start(c, r, FALSE)
  BY <1>1, <1>2
<1>3. CASE c.dictCtx # NoDictCtx /\ Start(c, r, TRUE)
  BY <1>1, <1>3
<1>4. CASE Start([c EXCEPT !.dictCtx = NoDictCtx], r, FALSE)
  <2>1. PICK d : d = [c EXCEPT !.dictCtx = NoDictCtx]
    OBVIOUS
  <2>2. StateOK(d) /\ 0 <= d.prefixStart /\ d.end = r.source
    BY <2>1, AttachOK
  <2>3. Start(d, r, FALSE)
    BY <1>4, <2>1
  <2> QED
    BY <1>1, <2>2, <2>3
<1>5. CASE /\ c.dictCtx # NoDictCtx
           /\ Start([LZ4HC_setExternalDict(c.dictCtx, r.source) EXCEPT !.compressionLevel = r.level],
                    r, FALSE)
  <2>1. c.dictCtx \in DictState /\ Ordered(c.dictCtx)
    BY <1>5, StateParts
  <2>2. StateOK(c.dictCtx) /\ r.source \in Int /\ r.source >= 0
    BY <2>1, DictIsState DEF ArgumentsOK
  <2>3. PICK e : e = LZ4HC_setExternalDict(c.dictCtx, r.source)
    OBVIOUS
  <2>4. StateOK(e) /\ e.prefixStart = r.source /\ e.end = r.source
    BY <2>2, <2>3, ExternalOK
  <2>5. PICK d : d = [e EXCEPT !.compressionLevel = r.level]
    OBVIOUS
  <2>6. StateOK(d) /\ 0 <= d.prefixStart /\ d.end = r.source
    BY <1>5, <2>2, <2>4, <2>5, GivenLevelOK
  <2>7. Start(d, r, FALSE)
    BY <1>5, <2>3, <2>5
  <2> QED
    BY <1>1, <2>6, <2>7
<1> QED
  BY <1>2, <1>3, <1>4, <1>5 DEF LZ4HC_compress_generic

\* A one-shot call.
LEMMA OneShotInv ==
  ASSUME Typed, NEW r, text' = r.text, r.text \in Seq(Byte), r.size \in Int, r.size <= Len(r.text),
         r.capacity \in Int, r.level \in Int,
         \/ LZ4_compress_HC_extStateHC(r)
         \/ LZ4_compress_HC_extStateHC_fastReset(hc, r)
         \/ LZ4_compress_HC_destSize(r)
  PROVE  HCInv'
<1>1. Len(r.text) \in Nat /\ StateOK(hc)
  BY DEF Typed
<1>2. ASSUME NEW output \in Outputs,
             output = "notLimited" => r.capacity >= LZ4_compressBound(r.size)
      PROVE  ArgumentsOK(Arguments(r, 0, r.size, r.level, output), text')
  BY <1>1, <1>2 DEF ArgumentsOK, Arguments
<1>3. ASSUME NEW c, StateOK(c), c.dictCtx = NoDictCtx, NEW output \in Outputs,
             output = "notLimited" => r.capacity >= LZ4_compressBound(r.size),
             c.prefixStart = 0, c.end = 0,
             LZ4HC_compress_generic(c, Arguments(r, 0, r.size, r.level, output))
      PROVE  HCInv'
  <2>1. PICK a : a = Arguments(r, 0, r.size, r.level, output)
    OBVIOUS
  <2>2. ArgumentsOK(a, text') /\ LZ4HC_compress_generic(c, a)
    BY <1>2, <1>3, <2>1
  <2>3. a.source = 0
    BY <2>1 DEF Arguments
  <2> QED
    BY <1>3, <2>2, <2>3, GenericInv
<1>4. ASSUME NEW c, StateOK(c), LZ4_compress_HC_extStateHC_fastReset(c, r)
      PROVE  HCInv'
  <2>1. PICK d : d = LZ4HC_init_internal(LZ4_resetStreamHC_fast(c, r.level), 0)
    OBVIOUS
  <2>2. PICK e : e = LZ4_resetStreamHC_fast(c, r.level)
    OBVIOUS
  <2>3. StateOK(e) /\ e.dictCtx = NoDictCtx
    BY <1>4, <2>2, ResetOK
  <2>4. StateOK(d) /\ d.dictCtx = NoDictCtx /\ d.prefixStart = 0 /\ d.end = 0
    <3>1. PICK at \in Int : at = 0
      OBVIOUS
    <3>2. d = LZ4HC_init_internal(e, at)
      BY <2>1, <2>2, <3>1
    <3> QED
      BY <2>3, <3>1, <3>2, InternalOK
  <2>5. PICK output \in Outputs :
          /\ output = WithBound(r, r.size)
          /\ output = "notLimited" => r.capacity >= LZ4_compressBound(r.size)
    <3>1. LZ4_compressBound(r.size) \in Int
      BY CompressBoundType
    <3> QED
      BY <3>1 DEF WithBound, Outputs
  <2>6. LZ4HC_compress_generic(d, Arguments(r, 0, r.size, r.level, output))
    BY <1>4, <2>1, <2>5 DEF LZ4_compress_HC_extStateHC_fastReset
  <2> QED
    BY <1>3, <2>4, <2>5, <2>6
<1>5. CASE LZ4_compress_HC_extStateHC(r)
  BY <1>4, <1>5, InitOK DEF LZ4_compress_HC_extStateHC
<1>6. CASE LZ4_compress_HC_extStateHC_fastReset(hc, r)
  BY <1>1, <1>4, <1>6
<1>7. CASE LZ4_compress_HC_destSize(r)
  <2>1. PICK e : e = LZ4HC_init_internal(LZ4_initStreamHC, 0)
    OBVIOUS
  <2>2. StateOK(e) /\ e.dictCtx = NoDictCtx /\ e.prefixStart = 0 /\ e.end = 0
    <3>1. PICK at \in Int : at = 0
      OBVIOUS
    <3>2. e = LZ4HC_init_internal(LZ4_initStreamHC, at)
      BY <2>1, <3>1
    <3> QED
      BY <3>1, <3>2, InternalOK, InitOK
  <2>3. PICK d : d = LZ4_setCompressionLevel(e, r.level)
    OBVIOUS
  <2>4. StateOK(d) /\ d.dictCtx = NoDictCtx /\ d.prefixStart = 0 /\ d.end = 0
    BY <2>2, <2>3, LevelOK
  <2>5. PICK output \in Outputs : output = "fillOutput" /\ output # "notLimited"
    BY DEF Outputs
  <2>6. LZ4HC_compress_generic(d, Arguments(r, 0, r.size, r.level, output))
    BY <1>7, <2>1, <2>3, <2>5 DEF LZ4_compress_HC_destSize
  <2> QED
    BY <1>3, <2>4, <2>5, <2>6
<1> QED
  BY <1>5, <1>6, <1>7

---------------------------------------------------------------------------
(* Sessions.                                                               *)

\* What has the prefix of the state c.
SamePrefix(d, c) == d.end = c.end /\ d.prefixStart = c.prefixStart

\* Inserting moves no end of the prefix.
LEMMA InsertPrefix ==
  ASSUME NEW c \in StreamState, NEW p
  PROVE  SamePrefix(LZ4HC_Insert(c, p), c)
<1>1. \E h, t, n : LZ4HC_Insert(c, p) = [c EXCEPT !.hashTable = h, !.chainTable = t, !.nextToUpdate = n]
  BY Zenon DEF LZ4HC_Insert
<1>2. PICK h, t, n : LZ4HC_Insert(c, p) = [c EXCEPT !.hashTable = h, !.chainTable = t, !.nextToUpdate = n]
  BY <1>1
<1>3. PICK d : d = [c EXCEPT !.hashTable = h, !.chainTable = t, !.nextToUpdate = n]
  OBVIOUS
<1>4. d.end = c.end /\ d.prefixStart = c.prefixStart
  BY <1>3 DEF StreamState, StateWith
<1> QED
  BY <1>2, <1>3, <1>4 DEF SamePrefix

\* Nor does an entry of the table, or a call that fails.
LEMMA TablePrefix ==
  ASSUME NEW c \in StreamState, NEW h
  PROVE  SamePrefix([c EXCEPT !.hashTable = h], c)
BY DEF StreamState, StateWith, SamePrefix

\* A call that failed marks the state, and leaves its prefix where it is.
LEMMA DirtiedPrefix ==
  ASSUME NEW c, NEW d, d \in StreamState \/ \E h : d = [c EXCEPT !.hashTable = h], c \in StreamState
  PROVE  SamePrefix(Dirtied(d), d)
BY DEF StreamState, StateWith, SamePrefix, Dirtied

\* The steps that search.
LEMMA SearchPrefix ==
  ASSUME hc \in StreamState, NEW p, NEW low, NEW longest, NEW label, StartSearch(p, low, longest, label)
  PROVE  SamePrefix(hc', hc)
BY InsertPrefix DEF StartSearch

\* A wider search inserts positions too.
LEMMA WiderPrefix ==
  ASSUME hc \in StreamState, NEW m, NEW n, NEW label, SearchWider(m, n, label)
  PROVE  SamePrefix(hc', hc)
BY SearchPrefix DEF SearchWider, SamePrefix

\* Encoding leaves the prefix, the text and the call.
LEMMA ChainEncodePrefix ==
  ASSUME hc \in StreamState, NEW m, NEW label, ChainEncode(m, label)
  PROVE  SamePrefix(hc', hc) /\ UNCHANGED <<text, call>>
<1>1. hc' = Dirtied(hc) /\ UNCHANGED <<text, call>>
  BY DEF ChainEncode, LZ4HC_encodeSequence
<1> QED
  BY <1>1, DirtiedPrefix

\* A call keeps its source, its arguments and the prefix.
LEMMA StepPrefix ==
  ASSUME hc \in StreamState, HCStep
  PROVE  SamePrefix(hc', hc) /\ UNCHANGED <<text, call>>
<1>1. CASE SearchStep
  BY <1>1 DEF SearchStep, SearchCandidate, ChainEnds, SearchAttached, SamePrefix, Goto
<1>2. CASE MidSearch
  <2>1. \E t : hc' = [hc EXCEPT !.hashTable = t]
    BY <1>2, Zenon DEF MidSearch
  <2>2. UNCHANGED <<text, call>>
    BY <1>2 DEF MidSearch
  <2> QED
    BY <2>1, <2>2, TablePrefix
<1>3. CASE MidFound
  BY <1>3 DEF MidFound, SamePrefix
<1>4. CASE MidEncode
  <2>1. \E t : hc' = Dirtied([hc EXCEPT !.hashTable = t])
    BY <1>4, Zenon DEF MidEncode
  <2>2. UNCHANGED <<text, call>>
    BY <1>4 DEF MidEncode, LZ4HC_encodeSequence
  <2>3. PICK t : hc' = Dirtied([hc EXCEPT !.hashTable = t])
    BY <2>1
  <2>4. PICK d : d = [hc EXCEPT !.hashTable = t]
    OBVIOUS
  <2>5. SamePrefix(Dirtied(d), d) /\ SamePrefix(d, hc)
    BY <2>4, DirtiedPrefix, TablePrefix
  <2> QED
    BY <2>2, <2>3, <2>4, <2>5 DEF SamePrefix
<1>5. CASE Chain
  <2>1. CASE ChainFirst
    BY <2>1, SearchPrefix DEF ChainFirst, searching
  <2>2. CASE ChainFound1
    BY <2>2 DEF ChainFound1, SamePrefix
  <2>3. CASE ChainSearch2
    BY <2>3, WiderPrefix DEF ChainSearch2, SearchWider, searching
  <2>4. CASE ChainFound2
    BY <2>4, ChainEncodePrefix DEF ChainFound2, Choose, searching, SamePrefix
  <2>5. CASE ChainSearch3
    BY <2>5, WiderPrefix DEF ChainSearch3, SearchWider, searching
  <2>6. CASE ChainTwo
    BY <2>6, ChainEncodePrefix DEF ChainTwo
  <2>7. CASE ChainEncode2
    BY <2>7, ChainEncodePrefix DEF ChainEncode2
  <2>8. CASE ChainSqueezed
    BY <2>8, ChainEncodePrefix DEF ChainSqueezed, Choose, searching, SamePrefix
  <2>9. CASE ChainThree
    BY <2>9, ChainEncodePrefix DEF ChainThree
  <2> QED
    BY <1>5, <2>1, <2>2, <2>3, <2>4, <2>5, <2>6, <2>7, <2>8, <2>9 DEF Chain
<1>6. CASE Optimal
  <2>1. CASE OptAlloc
    <3>1. hc' = Dirtied(hc) /\ UNCHANGED <<text, call>>
      BY <2>1 DEF OptAlloc, searching
    <3> QED
      BY <3>1, DirtiedPrefix
  <2>2. CASE OptFirst
    BY <2>2, SearchPrefix DEF OptFirst, searching
  <2>3. CASE OptFoundFirst
    <3>1. \/ UNCHANGED <<text, call, hc>>
          \/ \E m : ChainEncode(m, "opt")
      BY <2>3, Zenon DEF OptFoundFirst, searching
    <3> QED
      BY <3>1, ChainEncodePrefix DEF SamePrefix
  <2>4. CASE OptNext
    BY <2>4, SearchPrefix DEF OptNext, searching, SamePrefix
  <2>5. CASE OptFound
    BY <2>5 DEF OptFound, searching, SamePrefix
  <2>6. CASE OptEncode
    <3>1. \/ UNCHANGED <<text, call, hc>>
          \/ hc' = Dirtied(hc) /\ UNCHANGED <<text, call>>
      BY <2>6 DEF OptEncode, LZ4HC_encodeSequence, searching
    <3> QED
      BY <3>1, DirtiedPrefix DEF SamePrefix
  <2> QED
    BY <1>6, <2>1, <2>2, <2>3, <2>4, <2>5, <2>6 DEF Optimal
<1>7. CASE ParserEnds
  BY <1>7 DEF ParserEnds, searching, SamePrefix
<1>8. CASE LastLiterals
  <2>1. hc' = Dirtied(hc) /\ UNCHANGED <<text, call>>
    BY <1>8 DEF LastLiterals
  <2> QED
    BY <2>1, DirtiedPrefix
<1> QED
  BY <1>1, <1>2, <1>3, <1>4, <1>5, <1>6, <1>7, <1>8 DEF HCStep

\* Between calls, the memory and the state may be replaced.
LEMMA IdleKeeps ==
  ASSUME HCInv, pc = "idle", UNCHANGED <<call, ip, anchor, out, reach, inputConsumed, pc, result, find>>,
         text' \in Seq(Byte), StateOK(hc')
  PROVE  HCInv'
<1>1. Typed /\ RoomLeft /\ Filled
  BY DEF HCInv
<1>2. CallTyped'
  BY <1>1 DEF Typed, CallTyped
<1>3. /\ ip' \in Nat /\ anchor' \in Nat /\ out' \in Seq(Byte) /\ reach' \in Nat /\ inputConsumed' \in Int
      /\ pc' \in Labels /\ result' \in Nat /\ find' \in Searches
  BY <1>1 DEF Typed
<1>4. Typed'
  BY <1>2, <1>3 DEF Typed
<1>5. RoomLeft'
  BY <1>1 DEF RoomLeft, op
<1>6. Filled'
  BY <1>1 DEF Filled, FillsUp, source
<1> QED
  BY <1>4, <1>5, <1>6 DEF HCInv

\* A step of others.
LEMMA UnchangedInv ==
  ASSUME HCInv,
         UNCHANGED <<text, call, ip, anchor, out, reach, inputConsumed, pc, result, hc, find, choices, pricing>>
  PROVE  HCInv'
<1>1. Typed /\ RoomLeft /\ Filled
  BY DEF HCInv
<1>2. CASE pc = "idle"
  BY <1>1, <1>2, IdleKeeps DEF Typed
<1>3. CASE pc # "idle"
  <2>1. Accepted /\ SearchOK /\ ChainOK /\ PlanOK
    BY <1>3 DEF HCInv
  <2>2. /\ StateOK(hc') /\ hc'.end = hc.end /\ hc'.prefixStart = hc.prefixStart
        /\ hc'.dictCtx = hc.dictCtx /\ find' \in Searches /\ pc' \in Labels /\ pc' # "idle"
        /\ ip' \in Nat /\ ip <= ip'
    BY <1>1, <1>3 DEF Typed
  <2>3. Typed' /\ Accepted' /\ RoomLeft' /\ Filled' /\ matchlimit' = matchlimit /\ mflimit' = mflimit
    BY <1>3, <2>2, CallKept
  <2>4. m0' = m0 /\ m1' = m1 /\ m2' = m2 /\ opt' = opt /\ cur' = cur
        /\ last_match_pos' = last_match_pos /\ plan' = plan
    BY DEF choices, pricing
  <2>5. \A l : For(l)' <=> For(l)
    BY DEF For
  <2>6. Initial' = Initial
    BY <2>4, <2>5 DEF Initial
  <2>7. SearchOK'
    BY <2>1, <2>3, <2>4, <2>5, <2>6 DEF SearchOK, EndOf
  <2>8. \A m : Valid(m)' <=> Valid(m)
    BY <2>3 DEF Valid, EndOf
  <2>9. ChainOK'
    BY <2>1, <2>3, <2>4, <2>5, <2>8 DEF ChainOK, EndOf
  <2>10. PlanOK'
    BY <2>1, <2>3, <2>4, <2>5 DEF PlanOK, EndOf
  <2> QED
    BY <2>3, <2>7, <2>9, <2>10 DEF HCInv
<1> QED
  BY <1>2, <1>3

\* A block of a stream is compressed.
LEMMA ContinueInv ==
  ASSUME Typed, text' \in Seq(Byte), NEW c, StateOK(c), c.prefixStart = NULL \/ 0 <= c.prefixStart,
         NEW r, r.capacity \in Int, NEW p \in Nat, NEW n \in Nat, p + n <= Len(text'),
         NEW output \in Outputs, output = "notLimited" => r.capacity >= LZ4_compressBound(n),
         LZ4_compressHC_continue_generic(c, r, p, n, output)
  PROVE  HCInv' /\ 0 <= hc'.prefixStart /\ hc'.end \in {p, p + n}
<1>1. PICK started : started = IF c.prefixStart = NULL THEN LZ4HC_init_internal(c, p) ELSE c
  OBVIOUS
<1>2. PICK at \in Int : at = p
  OBVIOUS
<1>3. StateOK(started) /\ 0 <= started.prefixStart
  <2>1. CASE c.prefixStart = NULL
    <3>1. started = LZ4HC_init_internal(c, at)
      BY <1>1, <1>2, <2>1
    <3>2. StateOK(LZ4HC_init_internal(c, at)) /\ LZ4HC_init_internal(c, at).prefixStart = at
      BY InternalOK
    <3> QED
      BY <1>2, <3>1, <3>2
  <2>2. CASE c.prefixStart # NULL
    BY <1>1, <2>2
  <2> QED
    BY <2>1, <2>2
<1>4. PICK ready : ready = Renormalized(started)
  OBVIOUS
<1>5. StateOK(ready) /\ 0 <= ready.prefixStart
  BY <1>3, <1>4, RenormalizedOK
<1>6. PICK linked : linked = IF p # ready.end THEN LZ4HC_setExternalDict(ready, p) ELSE ready
  OBVIOUS
<1>7. StateOK(linked) /\ 0 <= linked.prefixStart /\ linked.end = p
  <2>1. CASE p # ready.end
    <3>1. linked = LZ4HC_setExternalDict(ready, at)
      BY <1>2, <1>6, <2>1
    <3>2. StateOK(LZ4HC_setExternalDict(ready, at)) /\ LZ4HC_setExternalDict(ready, at).prefixStart = at
          /\ LZ4HC_setExternalDict(ready, at).end = at
      BY <1>5, ExternalOK
    <3> QED
      BY <1>2, <3>1, <3>2
  <2>2. CASE p = ready.end
    BY <1>5, <1>6, <2>2
  <2> QED
    BY <2>1, <2>2
<1>8. PICK d : d = WithoutOverlap(linked, p, n)
  OBVIOUS
<1>9. StateOK(d) /\ 0 <= d.prefixStart /\ d.end = p
  <2>1. PICK size \in Int : size = n
    OBVIOUS
  <2>2. d = WithoutOverlap(linked, at, size)
    BY <1>2, <1>8, <2>1
  <2> QED
    BY <1>7, <2>2, OverlapOK
<1>10. ready.compressionLevel \in 1..LZ4HC_CLEVEL_MAX
  BY <1>5, StateParts
<1>11. PICK a : a = Arguments(r, p, n, ready.compressionLevel, output)
  OBVIOUS
<1>12. /\ a.source = p /\ a.size = n /\ a.capacity = r.capacity /\ a.level = ready.compressionLevel
       /\ a.output = output
  BY <1>11 DEF Arguments
<1>13. ArgumentsOK(a, text')
  <2>1. a.source \in Nat /\ a.size \in Int /\ a.capacity \in Int
    BY <1>12
  <2>2. a.level \in Int
    BY <1>10, <1>12 DEF LZ4HC_CLEVEL_MAX
  <2> QED
    BY <1>12, <2>1, <2>2 DEF ArgumentsOK
<1>14. LZ4HC_compress_generic(d, a)
  BY <1>1, <1>4, <1>6, <1>8, <1>11 DEF LZ4_compressHC_continue_generic
<1> QED
  BY <1>9, <1>10, <1>12, <1>13, <1>14, GenericInv

\* A state that favours decompression speed, or not.
LEMMA FavorOK ==
  ASSUME NEW c, StateOK(c), NEW b \in BOOLEAN
  PROVE  /\ StateOK([c EXCEPT !.favorDecSpeed = b]) /\ SamePrefix([c EXCEPT !.favorDecSpeed = b], c)
<1>1. c \in StreamState /\ Ordered(c) /\ (c.dictCtx # NoDictCtx => Ordered(c.dictCtx))
  BY DEF StateOK
<1>2. PICK e : e = [c EXCEPT !.favorDecSpeed = b]
  OBVIOUS
<1>3. /\ e \in StreamState
      /\ e.nextToUpdate = c.nextToUpdate /\ e.prefixStart = c.prefixStart /\ e.end = c.end
      /\ e.dictLimit = c.dictLimit /\ e.lowLimit = c.lowLimit /\ e.dictCtx = c.dictCtx
  BY <1>1, <1>2 DEF StreamState, StateWith, HashTables, ChainTables
<1>4. EndIndex(e) = EndIndex(c)
  BY <1>3 DEF EndIndex, IndexIn
<1>5. Ordered(e)
  BY <1>1, <1>3, <1>4 DEF Ordered
<1> QED
  BY <1>1, <1>2, <1>3, <1>5 DEF StateOK, SamePrefix

\* The invariant of a session.
SessionInv == HCInv /\ SessionOK

\* What is known of a session.
SessionTyped(s) ==
  /\ s.dict \in Seq(Byte) /\ s.size \in Nat /\ s.saveSize \in Int
  /\ s.level \in Int /\ s.dictLevel \in Int /\ s.favor \in BOOLEAN
  /\ s.load \in {"none", "loaded", "attached"}
  /\ \A b \in s.blocks : /\ b.content \in Seq(Byte) /\ b.capacity \in Int /\ b.level \in Int
                         /\ b.fn \in {"continue", "destSize"}

LEMMA SessionsTyped ==
  ASSUME NEW s \in UNION {Sessions[i] : i \in DOMAIN Sessions}
  PROVE  SessionTyped(s) /\ s # NoSession
<1>1. PICK i \in 1..Len(Sessions) : s \in Sessions[i]
  BY HCSessionAssumption
<1>2. s.sender \in {"linear", "ring", "double", "saved"}
  BY <1>1, HCSessionAssumption
<1>3. s # NoSession
  BY <1>2 DEF NoSession
<1>4. SessionTyped(s)
  BY <1>1, HCSessionAssumption DEF SessionTyped
<1> QED
  BY <1>3, <1>4

\* Where the buffers of a stream are.
LEMMA StreamFacts ==
  ASSUME SessionOK, OfStream
  PROVE  /\ SessionTyped(session) /\ Len(session.dict) \in Nat
         /\ SafeAt = Len(session.dict) + 1 /\ BufferAt = SafeAt + KB64 + 1
         /\ SafeAt \in Nat /\ BufferAt \in Nat /\ KB64 \in Nat
         /\ Len(text) = BufferAt + session.size
<1>1. SessionTyped(session) /\ Len(text) = BufferAt + session.size
  BY SessionsTyped DEF SessionOK
<1>2. Len(session.dict) \in Nat
  BY <1>1, LenProperties DEF SessionTyped
<1>3. SafeAt = Len(session.dict) + 1 /\ BufferAt = SafeAt + KB64 + 1
  BY DEF SafeAt, BufferAt
<1> QED
  BY <1>1, <1>2, <1>3, WindowType

\* Where the prefix is.
PrefixThere(c, n) == IF c.prefixStart = NULL THEN c.end = NULL ELSE 0 <= c.prefixStart /\ c.end <= n

\* A stream is opened.
LEMMA OpenInv ==
  ASSUME SessionInv, Ready, calls < Len(Sessions), NEW s \in Sessions[calls + 1], OpenStream(s)
  PROVE  SessionInv'
<1>1. /\ pc = "idle" /\ HCInv /\ StateOK(hc) /\ calls \in Nat
      /\ UNCHANGED <<call, ip, anchor, out, reach, inputConsumed, pc, result, find>>
      /\ text' = Memory(s) /\ session' = s /\ next' = 0 /\ d_pc' = "idle" /\ calls' = calls + 1
      /\ hc' = [LZ4_resetStreamHC_fast(hc, s.level) EXCEPT !.favorDecSpeed = s.favor]
      /\ due' = IF s.load = "none" THEN NoCall ELSE [fn |-> s.load]
  BY DEF SessionInv, SessionOK, HCInv, Typed, Ready, Settled, OpenStream, OpenPeer, Waits
<1>2. s \in UNION {Sessions[i] : i \in DOMAIN Sessions}
  <2>1. PICK k : k = calls + 1
    OBVIOUS
  <2>2. k \in 1..Len(Sessions)
    BY <1>1, <2>1, HCSessionAssumption
  <2>3. k \in DOMAIN Sessions
    BY <2>2, HCSessionAssumption
  <2>4. s \in Sessions[k]
    BY <2>1
  <2> QED
    BY ONLY <2>3, <2>4
<1>3. SessionTyped(s) /\ s # NoSession
  BY <1>2, SessionsTyped
<1>4. s.dict \in Seq(Byte) /\ s.size \in Nat /\ s.level \in Int /\ s.favor \in BOOLEAN
      /\ s.load \in {"none", "loaded", "attached"}
  BY <1>3 DEF SessionTyped
<1>5. text' \in Seq(Byte) /\ Len(text') = Len(s.dict) + (1 + KB64 + 1 + s.size)
  BY <1>1, <1>4, MemoryType
<1>6. StateOK(hc') /\ hc'.prefixStart = NULL /\ hc'.end = NULL
  <2>1. PICK level \in Int, favor \in BOOLEAN : level = s.level /\ favor = s.favor
    BY <1>4
  <2>2. PICK c : /\ c = LZ4_resetStreamHC_fast(hc, s.level)
               /\ StateOK(c) /\ c.prefixStart = NULL /\ c.end = NULL
    <3>1. LZ4_resetStreamHC_fast(hc, s.level) = LZ4_resetStreamHC_fast(hc, level)
      BY <2>1
    <3>2. StateOK(LZ4_resetStreamHC_fast(hc, level))
          /\ LZ4_resetStreamHC_fast(hc, level).prefixStart = NULL
          /\ LZ4_resetStreamHC_fast(hc, level).end = NULL
      BY <1>1, ResetOK
    <3> QED
      BY ONLY <3>1, <3>2
  <2>3. hc' = [c EXCEPT !.favorDecSpeed = favor]
    BY <1>1, <2>1, <2>2
  <2> QED
    BY <2>2, <2>3, FavorOK DEF SamePrefix
<1>7. HCInv'
  BY <1>1, <1>5, <1>6, IdleKeeps
<1>8. due'.fn \in {"none", "loaded", "attached"}
  BY <1>1, <1>4 DEF NoCall
<1>9. Len(text') = BufferAt' + session'.size
  <2>1. Len(s.dict) \in Nat
    BY <1>4, LenProperties
  <2>2. Len(text') = Len(s.dict) + 1 + KB64 + 1 + s.size
    <3>1. PICK d \in Nat, k \in Nat, n \in Nat : d = Len(s.dict) /\ k = KB64 /\ n = s.size
      BY <1>4, <2>1, WindowType
    <3>2. Len(text') = d + (1 + k + 1 + n)
      BY <1>5, <3>1
    <3>3. d + (1 + k + 1 + n) = d + 1 + k + 1 + n
      OBVIOUS
    <3> QED
      BY <3>1, <3>2, <3>3, Zenon
  <2> QED
    BY <1>1, <2>2 DEF BufferAt, SafeAt
<1>10. next' \in Nat /\ calls' \in Nat
  BY <1>1
<1>11. OfStream'
  BY <1>1, <1>3 DEF OfStream
<1>12. SessionOK'
  BY <1>1, <1>2, <1>6, <1>8, <1>9, <1>10, <1>11 DEF SessionOK
<1> QED
  BY <1>7, <1>12 DEF SessionInv

\* A dictionary is loaded or attached.
LEMMA PrepareInv ==
  ASSUME SessionInv, Prepare
  PROVE  SessionInv'
<1>1. /\ UNCHANGED <<text, call, ip, anchor, out, reach, inputConsumed, pc, result, find, session,
                     next, calls, d_pc>>
      /\ due' = NoCall /\ due # NoCall
  BY DEF Prepare, LoadDict, AttachDict, searching, dvars, svars, NoCall
<1>2. /\ HCInv /\ SessionOK /\ OfStream /\ pc = "idle" /\ StateOK(hc) /\ text \in Seq(Byte)
  BY <1>1 DEF SessionInv, SessionOK, HCInv, Typed
<1>3. /\ SessionTyped(session) /\ Len(session.dict) \in Nat /\ Len(session.dict) <= Len(text)
  <2>1. PICK d \in Nat, k \in Nat, n \in Nat :
          d = Len(session.dict) /\ k = KB64 /\ n = session.size /\ Len(text) = d + 1 + k + 1 + n
    BY <1>2, StreamFacts DEF SessionTyped
  <2>2. d <= Len(text)
    BY <2>1
  <2> QED
    BY <1>2, <2>1, <2>2, StreamFacts
<1>4. PICK at \in Int, len \in Nat, level \in Int, favor \in BOOLEAN :
        /\ at = 0 /\ len = Len(session.dict) /\ len <= Len(text)
        /\ level = session.dictLevel /\ favor = session.favor
  <2>1. session.dictLevel \in Int /\ session.favor \in BOOLEAN
    BY <1>3 DEF SessionTyped
  <2>2. PICK level \in Int : level = session.dictLevel
    BY <2>1
  <2>3. PICK favor \in BOOLEAN : favor = session.favor
    BY <2>1
  <2>4. PICK at \in Int : at = 0
    OBVIOUS
  <2>5. PICK len \in Nat : len = Len(session.dict)
    BY <1>3
  <2>6. len <= Len(text)
    BY <1>3, <2>5
  <2> QED
    BY ONLY <2>2, <2>3, <2>4, <2>5, <2>6, level \in Int, favor \in BOOLEAN, at \in Int, len \in Nat
<1>5. ASSUME NEW c, StateOK(c)
      PROVE  /\ StateOK(LZ4_loadDictHC(c, at, len)) /\ LZ4_loadDictHC(c, at, len).dictCtx = NoDictCtx
             /\ 0 <= LZ4_loadDictHC(c, at, len).prefixStart
             /\ LZ4_loadDictHC(c, at, len).end <= Len(text)
  <2>1. /\ StateOK(LZ4_loadDictHC(c, at, len)) /\ LZ4_loadDictHC(c, at, len).dictCtx = NoDictCtx
        /\ LZ4_loadDictHC(c, at, len).end = at + len /\ at <= LZ4_loadDictHC(c, at, len).prefixStart
    BY <1>5, LoadOK
  <2> QED
    BY <1>4, <2>1
<1>6. StateOK(hc') /\ PrefixThere(hc', Len(text))
  <2>1. CASE LoadDict
    <3>1. PICK c : c = LZ4_loadDictHC(hc, at, len)
      OBVIOUS
    <3>2. StateOK(c) /\ 0 <= c.prefixStart /\ c.end <= Len(text)
      BY <1>2, <1>5, <3>1
    <3>3. hc' = [c EXCEPT !.favorDecSpeed = favor]
      BY <1>4, <2>1, <3>1 DEF LoadDict
    <3>4. StateOK(hc') /\ hc'.end = c.end /\ hc'.prefixStart = c.prefixStart
      BY <3>2, <3>3, FavorOK DEF SamePrefix
    <3>5. hc'.prefixStart # NULL
      BY <3>2, <3>4, NullType
    <3> QED
      BY <3>2, <3>4, <3>5 DEF PrefixThere
  <2>2. CASE AttachDict
    <3>1. PICK e, d : e = LZ4_setCompressionLevel(LZ4_initStreamHC, level) /\ d = LZ4_loadDictHC(e, at, len)
      OBVIOUS
    <3>2. StateOK(e)
      BY <3>1, InitOK, LevelOK
    <3>3. StateOK(d) /\ d.dictCtx = NoDictCtx
      BY <1>5, <3>1, <3>2
    <3>4. d \in DictState /\ Ordered(d)
      BY <3>3, StateIsDict
    <3>5. hc' = [hc EXCEPT !.dictCtx = d]
      BY <1>4, <2>2, <3>1 DEF AttachDict, LZ4_attach_HC_dictionary
    <3>6. StateOK(hc') /\ hc'.end = hc.end /\ hc'.prefixStart = hc.prefixStart
      BY <1>2, <3>4, <3>5, AttachOK
    <3>7. PrefixThere(hc, Len(text))
      BY <1>2 DEF SessionOK, PrefixThere
    <3> QED
      BY <3>6, <3>7 DEF PrefixThere
  <2> QED
    BY <2>1, <2>2 DEF Prepare
<1>7. HCInv'
  BY <1>1, <1>2, <1>6, IdleKeeps
<1>8. OfStream' /\ BufferAt' = BufferAt /\ source' = source
  BY <1>1, <1>2 DEF OfStream, BufferAt, SafeAt, source
<1>9. due'.fn = "none"
  BY <1>1 DEF NoCall
<1>10. SessionOK'
  BY <1>1, <1>2, <1>6, <1>8, <1>9 DEF SessionOK, PrefixThere
<1> QED
  BY <1>7, <1>10 DEF SessionInv

\* A block is put in the buffer.
LEMMA FillBlockInv ==
  ASSUME SessionInv, Ready, OfStream, NEW b \in session.blocks, FillBlock(b)
  PROVE  SessionInv'
<1>1. /\ HCInv /\ SessionOK /\ pc = "idle" /\ StateOK(hc) /\ text \in Seq(Byte) /\ next \in Nat
  BY DEF SessionInv, SessionOK, HCInv, Typed, Ready, Settled
<1>2. PICK content, n, p, at, level, capacity, fn :
        /\ content = b.content /\ n = Len(content) /\ p = Place(n) /\ at = BufferAt
        /\ level = b.level /\ capacity = b.capacity /\ fn = b.fn
  OBVIOUS
<1>3. /\ UNCHANGED <<call, ip, anchor, out, reach, inputConsumed, pc, result, hc, find, choices, pricing,
                     session, next, calls, d_pc>>
      /\ p + n <= session.size
      /\ text' = Put(text, at + p, content)
      /\ due' = [fn |-> fn, at |-> p, size |-> n, level |-> level, capacity |-> capacity]
  BY <1>2 DEF FillBlock, dvars, svars
<1>4. /\ content \in Seq(Byte) /\ capacity \in Int /\ level \in Int /\ fn \in {"continue", "destSize"}
      /\ at \in Nat
  BY <1>1, <1>2, StreamFacts DEF SessionTyped
<1>5. n \in Nat /\ p \in Nat
  BY <1>1, <1>2, <1>4, LenProperties DEF Place
<1>6. text' \in Seq(Byte) /\ Len(text') = Len(text)
  <2>1. PICK q \in Nat : q = at + p
    BY <1>4, <1>5
  <2> QED
    BY <1>1, <1>3, <1>4, <2>1, BlockPutType
<1>7. HCInv'
  BY <1>1, <1>3, <1>6, IdleKeeps
<1>8. OfStream' /\ BufferAt' = BufferAt /\ source' = source
  BY <1>3 DEF OfStream, BufferAt, SafeAt, source
<1>9. /\ due'.fn = fn /\ due'.at = p /\ due'.size = n /\ due'.level = level /\ due'.capacity = capacity
  BY <1>3
<1>10. SessionOK'
  BY <1>1, <1>3, <1>4, <1>5, <1>6, <1>8, <1>9 DEF SessionOK
<1> QED
  BY <1>7, <1>10 DEF SessionInv

\* The block is compressed.
LEMMA CompressBlockInv ==
  ASSUME SessionInv, CompressBlock
  PROVE  SessionInv'
<1>1. PICK c, p, n, at :
        /\ c = IF due.level = 0 THEN hc ELSE LZ4_setCompressionLevel(hc, due.level)
        /\ at = due.at /\ p = BufferAt + at /\ n = due.size
  OBVIOUS
<1>2. /\ due.fn \in {"continue", "destSize"}
      /\ \/ LZ4_compressHC_continue_generic(c, due, p, n, WithBound(due, n))
         \/ LZ4_compressHC_continue_generic(c, due, p, n, "fillOutput")
      /\ next' = NextPlace(at, n) /\ due' = NoCall /\ d_pc' = "due"
      /\ text' = text /\ session' = session /\ calls' = calls
  BY <1>1 DEF CompressBlock, Waits
<1>3. due # NoCall
  BY <1>2 DEF NoCall
<1>4. /\ HCInv /\ SessionOK /\ OfStream /\ Typed /\ StateOK(hc) /\ text \in Seq(Byte)
      /\ at \in Nat /\ n \in Nat /\ due.level \in Int /\ due.capacity \in Int
      /\ at + n <= session.size
  <2>1. HCInv /\ SessionOK
    BY DEF SessionInv
  <2>2. Typed /\ OfStream
    <3>1. due # NoCall => OfStream
      BY <2>1 DEF SessionOK
    <3> QED
      BY <1>3, <2>1, <3>1 DEF HCInv
  <2>3. StateOK(hc) /\ text \in Seq(Byte)
    BY <2>2 DEF Typed
  <2>4. /\ due.at \in Nat /\ due.size \in Nat /\ due.level \in Int /\ due.capacity \in Int
        /\ due.at + due.size <= session.size
    BY <1>2, <2>1 DEF SessionOK
  <2> QED
    BY <1>1, <2>1, <2>2, <2>3, <2>4
<1>5. PICK buffer \in Nat, size \in Nat :
        buffer = BufferAt /\ size = session.size /\ Len(text) = buffer + size
  <2>1. SessionTyped(session) /\ BufferAt \in Nat /\ Len(text) = BufferAt + session.size
    BY <1>4, StreamFacts
  <2>2. session.size \in Nat
    BY <2>1 DEF SessionTyped
  <2> QED
    BY <2>1, <2>2
<1>6. p \in Nat /\ p = buffer + at /\ p + n <= Len(text) /\ buffer <= p
  <2>1. p = buffer + at
    BY <1>1, <1>5, Zenon
  <2>2. Len(text) = buffer + size /\ at + n <= size /\ at \in Nat /\ n \in Nat
    BY <1>4, <1>5, Zenon
  <2> QED
    BY <2>1, <2>2
<1>7. StateOK(c) /\ c.prefixStart = hc.prefixStart
  <2>1. PICK level \in Int : level = due.level
    BY <1>4
  <2>2. c = hc \/ c = LZ4_setCompressionLevel(hc, level)
    BY <1>1, <2>1
  <2> QED
    BY <1>4, <2>2, LevelOK
<1>8. c.prefixStart = NULL \/ 0 <= c.prefixStart
  BY <1>4, <1>7 DEF SessionOK
<1>9. PICK output \in Outputs :
        /\ output = "notLimited" => due.capacity >= LZ4_compressBound(n)
        /\ LZ4_compressHC_continue_generic(c, due, p, n, output)
  <2>1. LZ4_compressBound(n) \in Int
    BY <1>4, CompressBoundType
  <2>2. /\ WithBound(due, n) \in Outputs
        /\ WithBound(due, n) = "notLimited" => due.capacity >= LZ4_compressBound(n)
    BY <1>4, <2>1 DEF WithBound, Outputs
  <2>3. "fillOutput" \in Outputs /\ "fillOutput" # "notLimited"
    BY DEF Outputs
  <2> QED
    BY <1>2, <2>2, <2>3
<1>10. text' \in Seq(Byte) /\ p + n <= Len(text')
  BY <1>2, <1>4, <1>6
<1>11. HCInv' /\ 0 <= hc'.prefixStart /\ hc'.end \in {p, p + n}
  BY <1>4, <1>6, <1>7, <1>8, <1>9, <1>10, ContinueInv
<1>12. source' = p
  <2>1. PICK d, level : LZ4HC_compress_generic(d, Arguments(due, p, n, level, output))
    BY <1>9 DEF LZ4_compressHC_continue_generic
  <2>2. PICK a : a = Arguments(due, p, n, level, output)
    OBVIOUS
  <2>3. a.source = p
    BY <2>2 DEF Arguments
  <2>4. LZ4HC_compress_generic(d, a)
    BY <2>1, <2>2
  <2>5. call'.source = a.source
    BY ONLY <2>4 DEF LZ4HC_compress_generic, Start
  <2> QED
    BY <2>3, <2>5 DEF source
<1>13. BufferAt' = buffer /\ OfStream'
  BY <1>2, <1>4, <1>5 DEF BufferAt, SafeAt, OfStream
<1>14. next' \in Nat
  <2>1. size \div 2 + 1 \in Nat
    BY <1>5
  <2> QED
    BY <1>2, <1>4, <1>5, <2>1 DEF NextPlace
<1>15. hc'.prefixStart # NULL /\ hc'.end <= Len(text')
  BY <1>4, <1>6, <1>10, <1>11, NullType
<1>16. due'.fn = "none"
  BY <1>2 DEF NoCall
<1>17. BufferAt' <= source' /\ d_pc' \in {"idle", "due"} /\ calls' \in Nat
  BY <1>2, <1>4, <1>6, <1>12, <1>13 DEF SessionOK
<1>18. session' \in UNION {Sessions[i] : i \in DOMAIN Sessions} /\ Len(text') = BufferAt' + session'.size
  BY <1>2, <1>4, <1>13, <1>5 DEF SessionOK
<1>19. SessionOK'
  BY <1>2, <1>11, <1>14, <1>15, <1>16, <1>17, <1>18 DEF SessionOK
<1> QED
  BY <1>11, <1>19 DEF SessionInv

\* A one-shot call.
LEMMA OneShotCallInv ==
  ASSUME SessionInv, Ready, calls < Len(Sessions), NEW r \in Requests[calls + 1], OneShotCall(r)
  PROVE  SessionInv'
<1>1. HCInv /\ SessionOK /\ Typed /\ calls \in Nat /\ next \in Nat
  BY DEF SessionInv, SessionOK, HCInv
<1>2. r.text \in Seq(Byte) /\ r.size \in 0..Len(r.text) /\ r.capacity \in Int /\ r.level \in Int
  <2>1. PICK k : k = calls + 1
    OBVIOUS
  <2>2. k \in 1..Len(Sessions)
    BY <1>1, <2>1, HCSessionAssumption
  <2>3. r \in Requests[k]
    BY <2>1
  <2> QED
    BY <2>2, <2>3, HCSessionAssumption
<1>3. /\ text' = r.text /\ calls' = calls + 1 /\ session' = NoSession /\ d_pc' = "due"
      /\ next' = next /\ due' = due /\ due = NoCall
      /\ \/ LZ4_compress_HC_extStateHC(r)
         \/ LZ4_compress_HC_extStateHC_fastReset(hc, r)
         \/ LZ4_compress_HC_destSize(r)
  BY DEF OneShotCall, Waits, Ready
<1>4. r.size \in Int /\ r.size <= Len(r.text)
  <2>1. Len(r.text) \in Nat
    BY <1>2, LenProperties
  <2> QED
    BY <1>2, <2>1
<1>5. HCInv'
  BY <1>1, <1>2, <1>3, <1>4, OneShotInv
<1>6. ~OfStream' /\ due'.fn = "none" /\ due' = NoCall
  BY <1>3 DEF OfStream, NoCall
<1>7. next' \in Nat /\ calls' \in Nat
  BY <1>1, <1>3
<1>8. SessionOK'
  BY <1>3, <1>6, <1>7 DEF SessionOK
<1> QED
  BY <1>5, <1>8 DEF SessionInv

\* The block that was returned goes to the decompressor.
LEMMA DeliverInv ==
  ASSUME SessionInv, Deliver
  PROVE  SessionInv'
<1>1. /\ pc = "idle" /\ d_pc = "due" /\ result > 0 /\ d_pc' = "start"
      /\ UNCHANGED <<text, call, ip, anchor, out, reach, inputConsumed, pc, result, hc, find, choices,
                     pricing, session, next, calls, due>>
  BY DEF Deliver, HandOver, DecodeAt, hvars, svars, searching
<1>2. HCInv /\ SessionOK
  BY DEF SessionInv
<1>3. HCInv'
  BY <1>1, <1>2, UnchangedInv
<1>4. OfStream' = OfStream /\ BufferAt' = BufferAt /\ source' = source
  BY <1>1 DEF OfStream, BufferAt, SafeAt, source
<1>5. SessionOK'
  BY <1>1, <1>2, <1>4 DEF SessionOK
<1> QED
  BY <1>3, <1>5 DEF SessionInv

\* A step of the decompressor.
LEMMA DecodingInv ==
  ASSUME SessionInv, Decoding, UNCHANGED <<hvars, calls, sent, due>>
  PROVE  SessionInv'
<1>1. /\ d_pc \notin {"idle", "due"}
      /\ UNCHANGED <<text, call, ip, anchor, out, reach, inputConsumed, pc, result, hc, find, choices,
                     pricing, session, next, calls, due>>
  BY DEF Decoding, D!Labels, hvars, svars, searching
<1>2. HCInv /\ SessionOK
  BY DEF SessionInv
<1>3. HCInv'
  BY <1>1, <1>2, UnchangedInv
<1>4. OfStream' = OfStream /\ BufferAt' = BufferAt /\ source' = source
  BY <1>1 DEF OfStream, BufferAt, SafeAt, source
<1>5. SessionOK'
  BY <1>1, <1>2, <1>4 DEF SessionOK
<1> QED
  BY <1>3, <1>5 DEF SessionInv

\* The receiver has the block.
LEMMA ReceiveInv ==
  ASSUME SessionInv, Receive
  PROVE  SessionInv'
<1>1. /\ OfStream /\ d_pc = "done" /\ d_pc' = "idle"
      /\ UNCHANGED <<text, call, ip, anchor, out, reach, inputConsumed, pc, result, hc, find, choices,
                     pricing, session, calls, due>>
      /\ next' \in {source - BufferAt + inputConsumed, next}
  BY DEF Receive, Waits, hvars, searching
<1>2. HCInv /\ SessionOK /\ Typed /\ Filled /\ next \in Nat
  BY DEF SessionInv, HCInv, SessionOK
<1>3. HCInv'
  BY <1>1, <1>2, UnchangedInv
<1>4. OfStream' = OfStream /\ BufferAt' = BufferAt /\ source' = source
  BY <1>1 DEF OfStream, BufferAt, SafeAt, source
<1>5. next' \in Nat
  <2>1. pc = "idle" /\ result > 0 /\ BufferAt <= source
    BY <1>1, <1>2 DEF SessionOK
  <2>2. inputConsumed \in Nat
    BY <1>2, <2>1 DEF Filled
  <2>3. source \in Nat
    BY <1>2 DEF Typed, CallTyped, source
  <2>4. BufferAt \in Nat
    BY <1>1, <1>2, StreamFacts
  <2> QED
    BY <1>1, <1>2, <2>1, <2>2, <2>3, <2>4
<1>6. SessionOK'
  BY <1>1, <1>2, <1>4, <1>5 DEF SessionOK
<1> QED
  BY <1>3, <1>6 DEF SessionInv

\* A step of the compressor.
LEMMA CompressingInv ==
  ASSUME HashesInTable, SessionInv, HCStep, UNCHANGED <<dvars, svars, calls, sent, due>>
  PROVE  SessionInv'
<1>1. HCInv /\ SessionOK /\ Typed /\ hc \in StreamState
  BY DEF SessionInv, HCInv, Typed, StateOK
<1>2. HCInv'
  BY <1>1, HCStepInv
<1>3. SamePrefix(hc', hc) /\ UNCHANGED <<text, call>>
  BY <1>1, StepPrefix
<1>4. hc'.prefixStart = hc.prefixStart /\ hc'.end = hc.end
  BY <1>3 DEF SamePrefix
<1>5. pc # "idle"
  <2>1. SearchStep => pc # "idle"
    BY DEF SearchStep, SearchCandidate, ChainEnds, SearchAttached
  <2>2. MidSearch \/ MidFound \/ MidEncode \/ ParserEnds \/ LastLiterals => pc # "idle"
    BY DEF MidSearch, MidFound, MidEncode, ParserEnds, LastLiterals
  <2>3. Chain => pc # "idle"
    BY DEF Chain, ChainFirst, ChainFound1, ChainSearch2, ChainFound2, ChainSearch3, ChainTwo,
           ChainEncode2, ChainSqueezed, ChainThree
  <2>4. Optimal => pc # "idle"
    BY DEF Optimal, OptAlloc, OptFirst, OptFoundFirst, OptNext, OptFound, OptEncode
  <2> QED
    BY <2>1, <2>2, <2>3, <2>4 DEF HCStep
<1>6. UNCHANGED <<d_pc, session, next, calls, due>>
  BY DEF dvars, svars
<1>7. due.fn = "none" /\ d_pc \in {"idle", "due"}
  BY <1>1, <1>5 DEF SessionOK, NoCall
<1>8. due = NoCall
  BY <1>1, <1>5 DEF SessionOK
<1>9. OfStream' = OfStream /\ BufferAt' = BufferAt /\ source' = source
  BY <1>3, <1>6 DEF OfStream, BufferAt, SafeAt, source
<1>10. SessionOK'
  BY <1>1, <1>3, <1>4, <1>6, <1>7, <1>8, <1>9 DEF SessionOK
<1> QED
  BY <1>2, <1>10 DEF SessionInv

\* d is the state c with only the last n bytes of its prefix, at safe.
SavedAs(d, c, n, safe) ==
  d = [c EXCEPT !.end = safe + n, !.prefixStart = safe, !.dictStart = safe,
                !.dictLimit = EndIndex(c) - n, !.lowLimit = EndIndex(c) - n,
                !.nextToUpdate = MaxOf(c.nextToUpdate, EndIndex(c) - n)]

LEMMA SavedOK ==
  ASSUME NEW c, StateOK(c), NEW n \in Nat, n <= PrefixSize(c), NEW safe \in Nat, NEW d,
         SavedAs(d, c, n, safe)
  PROVE  StateOK(d) /\ d.end = safe + n /\ d.prefixStart = safe
<1> DEFINE first == EndIndex(c) - n
<1>1. /\ c \in StreamState /\ Ordered(c) /\ (c.dictCtx # NoDictCtx => Ordered(c.dictCtx))
      /\ c.end \in Int /\ c.prefixStart \in Int /\ c.dictLimit \in Nat /\ c.nextToUpdate \in Nat
  BY StateParts DEF StateOK
<1>2. first \in Nat /\ first + n = EndIndex(c)
  BY <1>1 DEF EndIndex, IndexIn, PrefixSize
<1>3. PICK m \in Nat : m = MaxOf(c.nextToUpdate, first)
  BY <1>1, <1>2 DEF MaxOf
<1>4. PICK end \in Int : end = safe + n
  OBVIOUS
<1>5. PICK at \in Int : at = safe
  OBVIOUS
<1>6. PICK k \in Nat : k = first
  BY <1>2
<1>7. d = [c EXCEPT !.end = end, !.prefixStart = at, !.dictStart = at,
                    !.dictLimit = k, !.lowLimit = k, !.nextToUpdate = m]
  BY <1>3, <1>4, <1>5, <1>6 DEF SavedAs
<1>8. /\ d \in StreamState
      /\ d.end = end /\ d.prefixStart = at /\ d.dictLimit = k /\ d.lowLimit = k
      /\ d.nextToUpdate = m /\ d.dictCtx = c.dictCtx
  BY <1>1, <1>7 DEF StreamState, StateWith, HashTables, ChainTables
<1>9. EndIndex(d) = EndIndex(c)
  BY <1>2, <1>4, <1>5, <1>6, <1>8 DEF EndIndex, IndexIn
<1>10. m <= EndIndex(c) /\ k <= m
  BY <1>1, <1>2, <1>3, <1>6 DEF MaxOf, Ordered
<1>11. Ordered(d)
  BY <1>4, <1>5, <1>8, <1>9, <1>10 DEF Ordered
<1>12. StateOK(d)
  BY <1>1, <1>8, <1>11 DEF StateOK
<1> QED
  BY <1>4, <1>5, <1>8, <1>12

\* The last of the history is moved to a safe place.
LEMMA SaveDictInv ==
  ASSUME SessionInv, SaveDict
  PROVE  SessionInv'
<1>1. PICK size, n, safe :
        /\ size = session.saveSize /\ n = SavedSize(size)
        /\ safe = IF session.adjacent THEN BufferAt - n ELSE SafeAt
  OBVIOUS
<1>2. /\ pc = "idle" /\ OfStream /\ d_pc = "idle" /\ due = NoCall
      /\ UNCHANGED <<call, ip, anchor, out, reach, inputConsumed, pc, result, find, session, next, calls,
                     d_pc, due>>
      /\ LZ4_saveDictHC(safe, size)
  BY <1>1 DEF SaveDict, Ready, Settled, dvars
<1>3. /\ HCInv /\ SessionOK /\ StateOK(hc) /\ text \in Seq(Byte) /\ next \in Nat
  BY DEF SessionInv, SessionOK, HCInv, Typed
<1>4. hc.end \in Int /\ hc.prefixStart \in Int /\ hc.prefixStart <= hc.end
  BY <1>3, StateParts DEF StateOK, Ordered
<1>5. size \in Int
  BY <1>1, <1>2, <1>3, StreamFacts DEF SessionTyped
<1>6. PICK window \in Nat : window = KB64
  BY WindowType
<1>7. PICK prefix \in Nat : prefix = PrefixSize(hc)
  BY <1>4 DEF PrefixSize
<1>8. n \in Nat /\ n <= window /\ n <= prefix
  <2>1. PICK k \in Int : k = MinOf(size, KB64) /\ k <= window
    BY <1>5, <1>6 DEF MinOf
  <2>2. n = IF k < 4 THEN 0 ELSE MinOf(k, prefix)
    BY <1>1, <1>7, <2>1 DEF SavedSize
  <2>3. CASE k < 4
    BY <1>6, <1>7, <2>2, <2>3
  <2>4. CASE ~(k < 4)
    <3>1. k \in Nat /\ n = MinOf(k, prefix)
      BY <2>2, <2>4
    <3> QED
      BY <2>1, <3>1 DEF MinOf
  <2> QED
    BY <2>3, <2>4
<1>9. PICK dict \in Nat, buffer \in Nat, room \in Nat :
        /\ dict = SafeAt /\ buffer = BufferAt /\ room = session.size
        /\ buffer = dict + window + 1 /\ Len(text) = buffer + room
  <2>1. /\ SessionTyped(session) /\ BufferAt = SafeAt + KB64 + 1 /\ SafeAt \in Nat /\ BufferAt \in Nat
        /\ Len(text) = BufferAt + session.size
    BY <1>2, <1>3, StreamFacts
  <2>2. session.size \in Nat
    BY <2>1 DEF SessionTyped
  <2> QED
    BY <1>6, <2>1, <2>2
<1>10. safe \in Nat /\ safe + n <= Len(text)
  <2>1. safe = buffer - n \/ safe = dict
    BY <1>1, <1>9
  <2> QED
    BY <1>8, <1>9, <2>1
<1>11. StateOK(hc') /\ hc'.end = safe + n /\ hc'.prefixStart = safe
  <2>1. SavedAs(hc', hc, n, safe)
    BY <1>1, <1>2 DEF LZ4_saveDictHC, SavedAs
  <2> QED
    BY <1>3, <1>7, <1>8, <1>10, <2>1, SavedOK
<1>12. PICK b : b = SubSeq(text, hc.end - n + 1, hc.end)
  OBVIOUS
<1>13. b \in Seq(Byte)
  <2>1. CASE n = 0
    <3>1. PICK e \in Int : e = hc.end
      BY <1>4
    <3>2. b = SubSeq(text, e + 1, e)
      <4>1. hc.end - n + 1 = e + 1
        BY <2>1, <3>1
      <4> QED
        BY <1>12, <3>1, <4>1, Zenon
    <3>3. b = << >>
      <4>1. PICK f \in Int : f = e + 1 /\ e < f
        OBVIOUS
      <4>2. SubSeq(text, f, e) = << >>
        BY <4>1, SubSeqEmpty
      <4> QED
        BY <3>2, <4>1, <4>2
    <3> QED
      BY <3>3
  <2>2. CASE n # 0
    <3>1. hc.prefixStart # NULL
      <4>1. prefix # 0
        BY <1>8, <2>2
      <4>2. hc.end # hc.prefixStart
        BY <1>4, <1>7, <4>1 DEF PrefixSize
      <4> QED
        BY <1>2, <1>3, <4>2 DEF SessionOK
    <3>2. 0 <= hc.prefixStart /\ hc.end <= Len(text)
      BY <1>2, <1>3, <3>1 DEF SessionOK
    <3>3. PICK a \in Nat : a = hc.end - n /\ a + n = hc.end
      BY <1>4, <1>7, <1>8, <3>2 DEF PrefixSize
    <3>4. SubSeq(text, a + 1, a + n) \in Seq(Byte)
      BY <1>3, <1>8, <3>2, <3>3, LiteralsBytes
    <3> QED
      BY <1>12, <3>3, <3>4
  <2> QED
    BY <2>1, <2>2
<1>14. text' \in Seq(Byte) /\ Len(text') = Len(text)
  <2>1. text' = Put(text, safe, b)
    BY <1>1, <1>2, <1>12 DEF LZ4_saveDictHC
  <2> QED
    BY <1>3, <1>10, <1>13, <2>1, BlockPutType
<1>15. HCInv'
  BY <1>2, <1>3, <1>11, <1>14, IdleKeeps
<1>16. OfStream' = OfStream /\ BufferAt' = BufferAt /\ source' = source
  BY <1>2 DEF OfStream, BufferAt, SafeAt, source
<1>17. hc'.prefixStart # NULL
  BY <1>10, <1>11, NullType
<1>18. due'.fn = "none"
  BY <1>2 DEF NoCall
<1>19. Len(text') = BufferAt' + session'.size /\ hc'.end <= Len(text') /\ 0 <= hc'.prefixStart
  <2>1. Len(text') = buffer + room /\ BufferAt' = buffer /\ session'.size = room
    BY <1>2, <1>9, <1>14, <1>16
  <2>2. hc'.end <= Len(text') /\ 0 <= hc'.prefixStart
    BY <1>10, <1>11, <1>14
  <2> QED
    BY <2>1, <2>2
<1>20. SessionOK'
  BY <1>2, <1>3, <1>16, <1>17, <1>18, <1>19 DEF SessionOK
<1> QED
  BY <1>15, <1>20 DEF SessionInv

---------------------------------------------------------------------------
(* The invariant, and the theorems.                                        *)

\* Nothing was called yet.
LEMMA HCStarts ==
  ASSUME HCInit
  PROVE  SessionInv
<1>1. /\ text = <<>> /\ ip = 0 /\ anchor = 0 /\ out = <<>> /\ reach = 0 /\ inputConsumed = 0
      /\ pc = "idle" /\ result = 0 /\ hc = LZ4_initStreamHC /\ find = Search(0, 0, 0, 0, 0, "hc")
      /\ session = NoSession /\ next = 0 /\ d_pc = "idle" /\ calls = 0 /\ due = NoCall
  BY DEF HCInit, LinkInit
<1>2. /\ call.source = 0 /\ call.size = 0 /\ call.capacity = 0 /\ call.output = "notLimited"
      /\ call.nbSearches = 0 /\ call.targetLength = 0
  BY DEF HCInit
<1>3. CallTyped
  BY <1>2 DEF CallTyped, Outputs
<1>4. StateOK(hc)
  BY <1>1, InitOK
<1>5. find \in Searches
  BY <1>1 DEF Search, Searches, Labels
<1>6. Typed
  <2>1. text \in Seq(Byte) /\ out \in Seq(Byte)
    BY <1>1
  <2>2. pc \in Labels
    BY <1>1 DEF Labels
  <2> QED
    BY <1>1, <1>3, <1>4, <1>5, <2>1, <2>2 DEF Typed
<1>7. op = 0
  BY <1>1 DEF op
<1>8. RoomLeft
  BY <1>1, <1>2, <1>7 DEF RoomLeft, MaxOf
<1>9. Filled
  BY <1>1 DEF Filled
<1>10. HCInv
  BY <1>1, <1>6, <1>8, <1>9 DEF HCInv
<1>11. ~OfStream /\ due.fn = "none"
  BY <1>1 DEF OfStream, NoCall
<1>12. SessionOK
  BY <1>1, <1>11 DEF SessionOK
<1> QED
  BY <1>10, <1>12 DEF SessionInv

\* Every step keeps the invariant.
LEMMA HCNextInv ==
  ASSUME HashesInTable, SessionInv, [HCNext]_allvars
  PROVE  SessionInv'
<1>1. CASE Ready /\ calls < Len(Sessions) /\ \E s \in Sessions[calls + 1] : OpenStream(s)
  BY <1>1, OpenInv
<1>2. CASE Ready /\ OfStream /\ \E b \in session.blocks : FillBlock(b)
  BY <1>2, FillBlockInv
<1>3. CASE Ready /\ calls < Len(Requests) /\ \E r \in Requests[calls + 1] : OneShotCall(r)
  <2>1. calls < Len(Sessions)
    BY <1>3, HCSessionAssumption
  <2> QED
    BY <1>3, <2>1, OneShotCallInv
<1>4. CASE Prepare
  BY <1>4, PrepareInv
<1>5. CASE CompressBlock
  BY <1>5, CompressBlockInv
<1>6. CASE Deliver
  BY <1>6, DeliverInv
<1>7. CASE Receive
  BY <1>7, ReceiveInv
<1>8. CASE SaveDict
  BY <1>8, SaveDictInv
<1>9. CASE HCStep /\ UNCHANGED <<dvars, svars, calls, sent, due>>
  BY <1>9, CompressingInv
<1>10. CASE Decoding /\ UNCHANGED <<hvars, calls, sent, due>>
  BY <1>10, DecodingInv
<1>11. CASE UNCHANGED allvars
  <2>1. UNCHANGED <<text, call, ip, anchor, out, reach, inputConsumed, pc, result, hc, find, choices,
                    pricing, session, next, calls, d_pc, due>>
    BY <1>11 DEF allvars, hvars, dvars, svars, searching
  <2>2. HCInv /\ SessionOK
    BY DEF SessionInv
  <2>3. HCInv'
    BY <2>1, <2>2, UnchangedInv
  <2>4. OfStream' = OfStream /\ BufferAt' = BufferAt /\ source' = source
    BY <2>1 DEF OfStream, BufferAt, SafeAt, source
  <2>5. SessionOK'
    BY <2>1, <2>2, <2>4 DEF SessionOK
  <2> QED
    BY <2>3, <2>5 DEF SessionInv
<1>12. Stop => UNCHANGED allvars
  BY DEF Stop
<1> QED
  BY <1>1, <1>2, <1>3, <1>4, <1>5, <1>6, <1>7, <1>8, <1>9, <1>10, <1>11, <1>12 DEF HCNext

\* What the invariant says of the properties the runs check.
LEMMA HCInvImplies ==
  ASSUME SessionInv
  PROVE  HCTypeOK /\ WritesInsideDst /\ HCFillsDst /\ PlanInTable /\ InsertsInPrefix
<1>1. /\ Typed /\ RoomLeft /\ Filled /\ StateOK(hc) /\ SessionOK
      /\ pc # "idle" => PlanOK
  BY DEF SessionInv, HCInv, Typed
<1>2. HCTypeOK
  <2>1. /\ hc.hashTable \in HashTables /\ hc.chainTable \in ChainTables
        /\ hc.end \in Int /\ hc.prefixStart \in Int /\ hc.dictLimit \in Nat /\ hc.lowLimit \in Nat
        /\ hc.compressionLevel \in 1..LZ4HC_CLEVEL_MAX
    BY <1>1, StateParts
  <2>2. hc.lowLimit <= hc.dictLimit /\ hc.prefixStart <= hc.end
    BY <1>1 DEF StateOK, Ordered
  <2>3. hc.lowLimit \in 0..hc.dictLimit /\ hc.end >= hc.prefixStart
    BY <2>1, <2>2
  <2>4. pc \in Labels /\ ip \in Nat /\ anchor \in Nat /\ result \in Nat /\ out \in Seq(Byte)
    BY <1>1 DEF Typed
  <2>5. due.fn \in {"none", "loaded", "attached", "continue", "destSize"}
    BY <1>1 DEF SessionOK
  <2> QED
    BY <2>1, <2>3, <2>4, <2>5 DEF HCTypeOK, Labels, HashTables, ChainTables
<1>3. WritesInsideDst
  BY <1>1 DEF RoomLeft, WritesInsideDst
<1>4. HCFillsDst
  BY <1>1 DEF Filled, HCFillsDst
<1>5. PlanInTable
  <2>1. SUFFICES ASSUME pc \in {"opt_next", "opt_found"} PROVE PlanInTable
    BY DEF PlanInTable
  <2>2. PlanOK
    BY <1>1, <2>1
  <2>3. pc = "opt_next" \/ For("opt_found")
    BY <2>1 DEF For
  <2>4. /\ last_match_pos \in 1..LZ4_OPT_NUM - 1
        /\ 0..last_match_pos + TRAILING_LITERALS \subseteq DOMAIN opt
        /\ DOMAIN opt \subseteq 0..LZ4_OPT_NUM + TRAILING_LITERALS - 1
        /\ \A p \in DOMAIN opt \ {0} : opt[p].mlen \in 1..p
    BY <2>2, <2>3 DEF PlanOK
  <2>5. PICK l \in Nat, k \in Nat : l = last_match_pos /\ k = TRAILING_LITERALS
    BY <2>4, Constants DEF TRAILING_LITERALS
  <2>6. last_match_pos < LZ4_OPT_NUM
    BY <2>4, Constants
  <2>7. ASSUME NEW p \in 1..l PROVE opt[p].mlen \in 1..p
    <3>1. p \in 0..l + k /\ p # 0
      OBVIOUS
    <3>2. p \in DOMAIN opt \ {0}
      BY <2>4, <2>5, <3>1
    <3> QED
      BY <2>4, <3>2
  <2> QED
    BY <2>4, <2>5, <2>6, <2>7 DEF PlanInTable
<1>6. InsertsInPrefix
  <2>1. hc.end \in Int /\ hc.prefixStart \in Int /\ hc.dictLimit \in Nat /\ hc.nextToUpdate \in Nat
    BY <1>1, StateParts
  <2>2. hc.nextToUpdate <= EndIndex(hc) /\ (hc.prefixStart # NULL => hc.dictLimit <= hc.nextToUpdate)
    BY <1>1 DEF StateOK, Ordered
  <2>3. EndIndex(hc) \in Int
    BY <2>1 DEF EndIndex, IndexIn
  <2> QED
    BY <2>1, <2>2, <2>3 DEF InsertsInPrefix
<1> QED
  BY <1>2, <1>3, <1>4, <1>5, <1>6

\* The invariant holds of every call, whatever the calls and the texts are.
LEMMA SessionInvHolds ==
  HashesInTable => (HCSpec => []SessionInv)
<1> SUFFICES ASSUME HashesInTable PROVE HCSpec => []SessionInv
  OBVIOUS
<1>1. HCInit => SessionInv
  BY HCStarts
<1>2. SessionInv /\ [HCNext]_allvars => SessionInv'
  BY HCNextInv
<1> QED
  BY <1>1, <1>2, PTL DEF HCSpec

\* The state of the compressor keeps its types over all calls, levels and
\* dictionaries: entries of the chain table stay 16 bits wide, and the segments
\* of the history in order.
THEOREM HCTyped ==
  HashesInTable => (HCSpec => []HCTypeOK)
<1>1. SessionInv => HCTypeOK
  BY HCInvImplies
<1> QED
  BY <1>1, SessionInvHolds, PTL

\* dst is never written past its end at any level: not by LZ4HC_encodeSequence,
\* whose copies of literals go beyond op, nor by the last literals, nor - with
\* notLimited - without any check at all.
THEOREM HCStaysInsideDst ==
  HashesInTable => (HCSpec => []WritesInsideDst)
<1>1. SessionInv => WritesInsideDst
  BY HCInvImplies
<1> QED
  BY <1>1, SessionInvHolds, PTL

\* LZ4_compress_HC_destSize and _continue_destSize take the whole source, or
\* fill dst to its last byte, or to the one before it when one literal more
\* would need a length byte too.
THEOREM HCDestSizeFills ==
  HashesInTable => (HCSpec => []HCFillsDst)
<1>1. SessionInv => HCFillsDst
  BY HCInvImplies
<1> QED
  BY <1>1, SessionInvHolds, PTL

\* LZ4HC_compress_optimal never prices a position beyond its table of
\* LZ4_OPT_NUM + TRAILING_LITERALS entries, and never reads an entry that was
\* not written in this round; a step back never goes before the first position.
THEOREM PlanStaysInTable ==
  HashesInTable => (HCSpec => []PlanInTable)
<1>1. SessionInv => PlanInTable
  BY HCInvImplies
<1> QED
  BY <1>1, SessionInvHolds, PTL

\* LZ4HC_Insert and LZ4MID_fillHTable take their positions from the prefix: the
\* first to be inserted is never before it, whatever is reset, loaded, moved or
\* begun in between.
THEOREM InsertsStayInPrefix ==
  HashesInTable => (HCSpec => []InsertsInPrefix)
<1>1. SessionInv => InsertsInPrefix
  BY HCInvImplies
<1> QED
  BY <1>1, SessionInvHolds, PTL
=============================================================================
