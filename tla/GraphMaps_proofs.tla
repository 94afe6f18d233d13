-------------------------- MODULE GraphMaps_proofs --------------------------
EXTENDS GraphMaps, Folding

(***************************************************************************)
(* The numbers of the edges and the entries of the maps, for any finite    *)
(* sets of graphs and maps, any edges and any size of the buckets.         *)
(*                                                                         *)
(* Hypothesis: Allowed = {}, the steps of KnownFaults are not taken (the   *)
(* invariants are false with them).  The invariant IndInv says of a world  *)
(*   WorldSound    every table with an agent has numbered its edges        *)
(*                 without gaps or repetition, the free list included; the *)
(*                 maps a table lists are those that point at it; data     *)
(*                 that are attached have just the entries of the edges,   *)
(*                 buckets for every number, and a map and a graph that    *)
(*                 use them;                                               *)
(*   Registration  a map registered with a graph (through shared_alias) is *)
(*                 attached to no other table than that of the graph.      *)
(* The runs' invariants follow from it.  Every step is a composition of    *)
(* the operators of GraphMaps on worlds: copying and leaving data and      *)
(* tables (copy on write), the divorce of a graph with its registered maps *)
(* (a fold over them), and a change of one table that nobody else hosts.   *)
(* There is a lemma for each, and one that says which tables keep their    *)
(* edges (OnItsOwn, OnlyTable, Reset), from which GraphsIndependent comes. *)
(***************************************************************************)

(***************************************************************************)
(* Numbers and buckets.                                                    *)
(***************************************************************************)

(* Division by the size of a bucket.                                                     *)
LEMMA Division ==
  ASSUME NEW n \in Nat
  PROVE  /\ n \div BucketSize \in Nat
         /\ (n \div BucketSize) * BucketSize <= n
         /\ n < (n \div BucketSize) * BucketSize + BucketSize
BY SizesAssumption

(* The multiples of the size of a bucket are ordered like their factors.                *)
LEMMA Multiples ==
  ASSUME NEW a \in Nat, NEW b \in Nat, a * BucketSize < b * BucketSize + BucketSize
  PROVE  a <= b
<1> SUFFICES ASSUME b + 1 <= a PROVE FALSE
  OBVIOUS
<1>1. PICK c \in Nat : a = b + 1 + c
  <2>1. a - b - 1 \in Nat /\ a = b + 1 + (a - b - 1)
    OBVIOUS
  <2> QED BY <2>1
<1>2. a * BucketSize = b * BucketSize + BucketSize + c * BucketSize
  BY <1>1, SizesAssumption
<1>3. c * BucketSize \in Nat /\ b * BucketSize \in Nat
  BY SizesAssumption
<1> QED BY <1>2, <1>3, SizesAssumption

(* Smaller numbers are in earlier buckets.                                               *)
LEMMA DivisionMonotone ==
  ASSUME NEW a \in Nat, NEW b \in Nat, a <= b
  PROVE  a \div BucketSize <= b \div BucketSize
<1> DEFINE x == a \div BucketSize
           y == b \div BucketSize
<1>1. x \in Nat /\ y \in Nat /\ x * BucketSize <= a /\ b < y * BucketSize + BucketSize
  BY Division
<1> HIDE DEF x, y
<1>2. x * BucketSize < y * BucketSize + BucketSize
  <2>1. x * BucketSize \in Nat /\ y * BucketSize \in Nat
    BY <1>1, SizesAssumption
  <2> QED BY <1>1, <2>1, SizesAssumption
<1> QED BY <1>1, <1>2, Multiples DEF x, y

(* The buckets for n numbers are those of the numbers below n.                           *)
LEMMA Buckets ==
  ASSUME NEW n \in Nat
  PROVE  /\ CeilDiv(n) \in Nat
         /\ n = 0 => CeilDiv(n) = 0
         /\ n > 0 => CeilDiv(n) = (n - 1) \div BucketSize + 1
         /\ \A i \in 0 .. n - 1 : i \div BucketSize \in 0 .. CeilDiv(n) - 1
<1>1. CASE n = 0
  <2> DEFINE q == (BucketSize - 1) \div BucketSize
  <2>1. q \in Nat /\ q * BucketSize <= BucketSize - 1
    BY Division, SizesAssumption
  <2>2. q = 0
    <3> HIDE DEF q
    <3>1. q * BucketSize < 0 * BucketSize + BucketSize
      BY <2>1, SizesAssumption
    <3> QED BY <2>1, <3>1, Multiples
  <2>3. CeilDiv(n) = q
    BY <1>1, SizesAssumption DEF CeilDiv
  <2> QED BY <1>1, <2>2, <2>3
<1>2. CASE n > 0
  <2> DEFINE k == n - 1
             p == k \div BucketSize
             q == (k + BucketSize) \div BucketSize
  <2>0. k \in Nat /\ k + BucketSize \in Nat
    BY <1>2, SizesAssumption
  <2>1. /\ p \in Nat /\ p * BucketSize <= k /\ k < p * BucketSize + BucketSize
        /\ q \in Nat /\ q * BucketSize <= k + BucketSize /\ k + BucketSize < q * BucketSize + BucketSize
    BY <2>0, Division
  <2> HIDE DEF p, q
  <2>2. p * BucketSize \in Nat /\ q * BucketSize \in Nat /\ (p + 1) * BucketSize = p * BucketSize + BucketSize
    BY <2>1, SizesAssumption
  <2>3. q <= p + 1
    <3>1. q * BucketSize < (p + 1) * BucketSize + BucketSize
      BY <2>0, <2>1, <2>2, SizesAssumption
    <3> QED BY <2>1, <3>1, Multiples
  <2>4. p + 1 <= q
    <3>1. (p + 1) * BucketSize < q * BucketSize + BucketSize
      BY <2>0, <2>1, <2>2, SizesAssumption
    <3> QED BY <2>1, <3>1, Multiples
  <2>5. CeilDiv(n) = q
    BY <1>2, SizesAssumption DEF CeilDiv, q
  <2>6. \A i \in 0 .. n - 1 : i \div BucketSize \in Nat /\ i \div BucketSize <= p
    <3> SUFFICES ASSUME NEW i \in 0 .. n - 1 PROVE i \div BucketSize \in Nat /\ i \div BucketSize <= p
      OBVIOUS
    <3>1. i \in Nat /\ k \in Nat /\ i <= k
      BY <2>0
    <3> HIDE DEF k
    <3> QED BY <3>1, Division, DivisionMonotone DEF p
  <2>7. CeilDiv(n) = p + 1
    BY <2>1, <2>3, <2>4, <2>5
  <2> QED BY <1>2, <2>1, <2>6, <2>7 DEF p
<1> QED BY <1>1, <1>2

(* The number after n - 1 is in the same bucket or opens the next one.                   *)
LEMMA NextBucket ==
  ASSUME NEW n \in Nat, n > 0
  PROVE  /\ n \div BucketSize <= (n - 1) \div BucketSize + 1
         /\ n % BucketSize # 0 => n \div BucketSize = (n - 1) \div BucketSize
<1> DEFINE k == n - 1
           p == k \div BucketSize
           q == n \div BucketSize
<1>0. k \in Nat /\ n = k + 1
  OBVIOUS
<1>1. /\ p \in Nat /\ p * BucketSize <= k /\ k < p * BucketSize + BucketSize
      /\ q \in Nat /\ q * BucketSize <= n /\ n < q * BucketSize + BucketSize
      /\ p <= q
  BY <1>0, Division, DivisionMonotone
<1>2. n % BucketSize = n - q * BucketSize
  BY SizesAssumption
<1> HIDE DEF p, q
<1>3. p * BucketSize \in Nat /\ q * BucketSize \in Nat /\ (p + 1) * BucketSize = p * BucketSize + BucketSize
  BY <1>1, SizesAssumption
<1>4. q <= p + 1
  <2>1. q * BucketSize < (p + 1) * BucketSize + BucketSize
    BY <1>0, <1>1, <1>3, SizesAssumption
  <2> QED BY <1>1, <2>1, Multiples
<1>5. ASSUME n % BucketSize # 0 PROVE q <= p
  <2>1. q * BucketSize < n
    BY <1>1, <1>2, <1>3, <1>5
  <2>2. q * BucketSize < p * BucketSize + BucketSize
    BY <1>0, <1>1, <1>3, <2>1, SizesAssumption
  <2> QED BY <1>1, <2>2, Multiples
<1> QED BY <1>1, <1>4, <1>5 DEF p, q, k

(* The least number that is not used.                                                    *)
LEMMA FreeOne ==
  ASSUME NEW used, NEW n \in Nat, NEW m, IsFiniteSet(used), Cardinality(used) <= n, m = n + 1
  PROVE  FreeOf(used, 1 .. m) \in (1 .. m) \ used
<1>1. IsFiniteSet(1 .. m) /\ Cardinality(1 .. m) = n + 1
  BY FS_Interval
<1>2. (1 .. m) \ used # {}
  <2> SUFFICES ASSUME 1 .. m \subseteq used PROVE FALSE
    OBVIOUS
  <2>1. Cardinality(1 .. m) <= Cardinality(used)
    BY FS_Subset
  <2> QED BY <1>1, <2>1, FS_CardinalityType
<1>3. \E x \in (1 .. m) \ used : \A y \in (1 .. m) \ used : x <= y
  <2> DEFINE rest == (1 .. m) \ used
             R == OpToRel(<, Nat)
  <2>1. rest \subseteq Nat /\ rest # {}
    BY <1>2
  <2>2. \A x, y \in Nat : <<x, y>> \in R <=> x < y
    BY DEF OpToRel
  <2>3. IsWellFoundedOn(R, Nat)
    BY NatLessThanWellFounded
  <2> HIDE DEF R, rest
  <2>4. \E x \in rest : \A y \in rest : ~(<<y, x>> \in R)
    BY <2>1, <2>3, WFMin
  <2>5. \E x \in rest : \A y \in rest : x <= y
    <3>1. PICK x \in rest : \A y \in rest : ~(<<y, x>> \in R)
      BY <2>4
    <3>2. \A y \in rest : y \in Nat /\ x \in Nat /\ ~(y < x)
      BY <2>1, <2>2, <3>1
    <3> QED BY <3>2
  <2> QED BY <2>5 DEF rest
<1> QED BY <1>3 DEF FreeOf

(***************************************************************************)
(* The order of edges.                                                     *)
(***************************************************************************)

(* Position numbers the elements of a finite set of naturals from 0.                     *)
LEMMA Positions ==
  ASSUME NEW S \in SUBSET Nat, IsFiniteSet(S)
  PROVE  /\ Cardinality(S) \in Nat
         /\ \A e \in S : Position(S, e) \in 0 .. Cardinality(S) - 1
         /\ \A e, f \in S : Position(S, e) = Position(S, f) => e = f
         /\ \A k \in 0 .. Cardinality(S) - 1 : \E e \in S : Position(S, e) = k
<1> DEFINE N == Cardinality(S)
           Less(e) == {x \in S : x < e}
<1>0. N \in Nat
  BY FS_CardinalityType
<1>1. ASSUME NEW e \in S
      PROVE  Position(S, e) \in Nat /\ Position(S, e) < N /\ IsFiniteSet(Less(e))
  <2>1. Less(e) \subseteq S /\ Less(e) # S
    <3>1. ~(e < e)
      OBVIOUS
    <3> QED BY <3>1
  <2>2. IsFiniteSet(Less(e)) /\ Cardinality(Less(e)) <= N /\ Cardinality(Less(e)) # N
    <3> HIDE DEF Less
    <3> QED BY <2>1, FS_Subset
  <2>3. Cardinality(Less(e)) \in Nat
    <3> HIDE DEF Less
    <3> QED BY <2>2, FS_CardinalityType
  <2> QED BY <1>0, <2>2, <2>3 DEF Position
<1>2. ASSUME NEW e \in S, NEW f \in S, e < f
      PROVE  Position(S, e) < Position(S, f)
  <2>1. Less(e) \subseteq Less(f) /\ Less(e) # Less(f)
    <3>1. e \in Less(f) /\ e \notin Less(e)
      BY <1>2
    <3>2. \A x \in Less(e) : x \in Less(f)
      BY <1>2
    <3> QED BY <3>1, <3>2
  <2>2. IsFiniteSet(Less(f)) /\ Cardinality(Less(f)) \in Nat /\ Cardinality(Less(e)) \in Nat
    <3>1. Cardinality(Less(f)) \in Nat /\ Cardinality(Less(e)) \in Nat
      BY <1>1 DEF Position
    <3> QED BY <1>1, <3>1
  <2>3. Cardinality(Less(e)) <= Cardinality(Less(f)) /\ Cardinality(Less(e)) # Cardinality(Less(f))
    <3> HIDE DEF Less
    <3> QED BY <2>1, <2>2, FS_Subset
  <2> QED BY <2>2, <2>3 DEF Position
<1>3. ASSUME NEW e \in S, NEW f \in S, Position(S, e) = Position(S, f)
      PROVE  e = f
  <2>1. ~(e < f) /\ ~(f < e)
    <3>1. Position(S, e) \in Nat /\ Position(S, f) \in Nat
      BY <1>1
    <3> QED BY <1>2, <1>3, <3>1
  <2> QED BY <2>1
<1>8. ASSUME NEW e \in S PROVE Position(S, e) \in 0 .. N - 1
  <2>1. Position(S, e) \in Nat /\ Position(S, e) < N
    BY <1>1
  <2> DEFINE q == Position(S, e)
  <2> HIDE DEF N, q
  <2>2. q \in 0 .. N - 1
    BY <1>0, <2>1 DEF q
  <2> QED BY <2>2 DEF q
<1> DEFINE P == [e \in S |-> Position(S, e)]
<1>4. P \in Injection(S, 0 .. N - 1)
  <2>1. P \in [S -> 0 .. N - 1]
    BY <1>8
  <2>2. IsInjective(P)
    <3> SUFFICES ASSUME NEW a \in S, NEW b \in S, P[a] = P[b] PROVE a = b
      BY DEF IsInjective
    <3> QED BY <1>3
  <2> QED BY <2>1, <2>2 DEF Injection
<1>5. IsFiniteSet(0 .. N - 1) /\ Cardinality(0 .. N - 1) = N
  <2> HIDE DEF N
  <2>1. N - 1 \in Int /\ 0 \in Int
    BY <1>0
  <2>2. (0 > N - 1 => N = 0) /\ N - 1 - 0 + 1 = N
    BY <1>0
  <2> QED BY <2>1, <2>2, FS_Interval
<1>6. P \in Surjection(S, 0 .. N - 1)
  <2> HIDE DEF P
  <2> QED BY <1>4, <1>5, FS_Injection
<1>7. \A k \in 0 .. N - 1 : \E e \in S : P[e] = k
  <2> HIDE DEF P
  <2> QED BY <1>6 DEF Surjection
<1> QED BY <1>0, <1>3, <1>7, <1>8

(* InOrder lists every element of a finite set of naturals once.                         *)
LEMMA Listed ==
  ASSUME NEW S \in SUBSET Nat, IsFiniteSet(S)
  PROVE  /\ Cardinality(S) \in Nat
         /\ DOMAIN InOrder(S) = 1 .. Cardinality(S) /\ Len(InOrder(S)) = Cardinality(S)
         /\ \A k \in 1 .. Cardinality(S) : InOrder(S)[k] \in S
         /\ \A e \in S : \E k \in 1 .. Cardinality(S) : InOrder(S)[k] = e
         /\ \A j, k \in 1 .. Cardinality(S) : InOrder(S)[j] = InOrder(S)[k] => j = k
<1> DEFINE N == Cardinality(S)
           s == InOrder(S)
<1>0. N \in Nat
  BY Positions
<1>1. \A k \in 1 .. N : s[k] \in S /\ Position(S, s[k]) = k - 1
  <2> SUFFICES ASSUME NEW k \in 1 .. N PROVE s[k] \in S /\ Position(S, s[k]) = k - 1
    OBVIOUS
  <2>1. k - 1 \in 0 .. N - 1
    BY <1>0
  <2>2. \E e \in S : Position(S, e) = k - 1
    BY <2>1, Positions
  <2>3. s[k] = CHOOSE e \in S : Position(S, e) = k - 1
    BY DEF InOrder
  <2> QED BY <2>2, <2>3
<1>2. DOMAIN s = 1 .. N
  BY DEF InOrder
<1>3. Len(s) = N
  <2>1. s = [k \in 1 .. N |-> s[k]]
    BY DEF InOrder
  <2> HIDE DEF s
  <2>2. s \in Seq(S)
    BY <1>0, <1>1, <2>1
  <2> QED BY <1>0, <1>2, <2>2
<1>4. ASSUME NEW e \in S PROVE \E k \in 1 .. N : s[k] = e
  <2>1. Position(S, e) \in 0 .. N - 1
    BY Positions
  <2>2. Position(S, e) + 1 \in 1 .. N /\ (Position(S, e) + 1) - 1 = Position(S, e)
    BY <1>0, <2>1
  <2>3. s[Position(S, e) + 1] = e
    <3>1. s[Position(S, e) + 1] \in S /\ Position(S, s[Position(S, e) + 1]) = Position(S, e)
      <4> HIDE DEF s, N
      <4> QED BY <1>1, <2>2
    <3> DEFINE x == s[Position(S, e) + 1]
    <3>2. x \in S /\ Position(S, x) = Position(S, e)
      BY <3>1
    <3> HIDE DEF x
    <3>3. x = e
      BY <3>2, Positions
    <3> QED BY <3>3 DEF x
  <2> QED BY <2>2, <2>3
<1>5. ASSUME NEW j \in 1 .. N, NEW k \in 1 .. N, s[j] = s[k] PROVE j = k
  <2>1. j - 1 = k - 1
    <3> HIDE DEF s
    <3> QED BY <1>1, <1>5
  <2> QED BY <1>0, <2>1
<1> QED BY <1>0, <1>1, <1>2, <1>3, <1>4, <1>5

(***************************************************************************)
(* The invariant.                                                          *)
(***************************************************************************)

\* Numbers of finitely many edges, and entries of finitely many numbers.
Ids == UNION {[S -> Nat] : S \in {T \in SUBSET Edges : IsFiniteSet(T)}}
Vals == UNION {[S -> Edges] : S \in SUBSET Nat}

TableType == [ids: Ids, free: Seq(Nat), agent: BOOLEAN, n_alloc: Nat, maps: SUBSET Datas]
DataType == [table: Tables \cup {None}, n_alloc: Nat, buckets: SUBSET Nat, val: Vals]
WorldType == [graph: [Graphs -> Tables], table: [Tables -> TableType],
              data: [Datas -> DataType], map: [Maps -> Datas \cup {None}]]

\* How many numbers have been given, those on the free list included.
Total(r) == NEdges(r) + Len(r.free)

\* The numbers of a table with an agent.
Exact(ids, free, n) ==
  /\ IsInjective(ids) /\ IsInjective(free)
  /\ Range(free) \cup Range(ids) = 0 .. n - 1
  /\ Range(free) \cap Range(ids) = {}

Numbered(r) == /\ Exact(r.ids, r.free, Total(r))
               /\ \A i \in 0 .. Total(r) - 1 : i \div BucketSize < r.n_alloc

\* Only an agent gives numbers back, and maps have one.
TableSound(r) == IF r.agent THEN Numbered(r) ELSE r.free = <<>> /\ r.maps = {}

\* Data attached to a table have the entries of its edges, and room for all its numbers.
DataSound(D, r) ==
  /\ DOMAIN D.val = Range(r.ids)
  /\ \A e \in EdgesOf(r) : D.val[r.ids[e]] = e
  /\ \A i \in 0 .. Total(r) - 1 : i \div BucketSize \in D.buckets
  /\ \A b \in D.buckets : b < D.n_alloc
  /\ r.n_alloc <= D.n_alloc

\* Data that are attached are used by a map, and their table by a graph.
Attachment(w, d) ==
  /\ DataSound(w.data[d], w.table[w.data[d].table])
  /\ \E m \in Maps : w.map[m] = d
  /\ \E g \in Graphs : w.graph[g] = w.data[d].table

WorldSound(w) ==
  /\ w \in WorldType
  /\ \A t \in Tables : TableSound(w.table[t])
  /\ \A t \in Tables, d \in Datas : d \in w.table[t].maps <=> w.data[d].table = t
  /\ \A d \in Datas : w.data[d].table # None => Attachment(w, d)

\* The map m is attached to no other table than t.
OnlyAt(w, m, t) == w.map[m] # None /\ w.data[w.map[m]].table # None => w.data[w.map[m]].table = t

Registration(w, o) ==
  /\ o \in [Maps -> Graphs \cup {None}]
  /\ \A m \in Maps : o[m] # None => OnlyAt(w, m, w.graph[o[m]])

IndInv == WorldSound(World) /\ Registration(World, owner)

(* Numbers of edges.                                                                     *)
LEMMA IdsFacts ==
  ASSUME NEW f \in Ids
  PROVE  /\ DOMAIN f \in SUBSET Edges /\ DOMAIN f \in SUBSET Nat
         /\ IsFiniteSet(DOMAIN f) /\ Cardinality(DOMAIN f) \in Nat
         /\ f \in [DOMAIN f -> Nat]
<1>1. PICK S \in SUBSET Edges : IsFiniteSet(S) /\ f \in [S -> Nat]
  BY DEF Ids
<1>2. DOMAIN f = S
  BY <1>1
<1> QED BY <1>1, <1>2, FS_CardinalityType, SizesAssumption

(* A numbering of finitely many edges is one.                                           *)
LEMMA IdsIntro ==
  ASSUME NEW S \in SUBSET Edges, IsFiniteSet(S), NEW f \in [S -> Nat]
  PROVE  f \in Ids
BY DEF Ids

(* Entries of a map.                                                                     *)
LEMMA ValsFacts ==
  ASSUME NEW f \in Vals
  PROVE  DOMAIN f \in SUBSET Nat /\ f \in [DOMAIN f -> Edges]
<1>1. PICK S \in SUBSET Nat : f \in [S -> Edges]
  BY DEF Vals
<1>2. DOMAIN f = S
  BY <1>1
<1> QED BY <1>1, <1>2

(* So is a function from numbers to edges one of entries.                               *)
LEMMA ValsIntro ==
  ASSUME NEW S \in SUBSET Nat, NEW f \in [S -> Edges]
  PROVE  f \in Vals
BY DEF Vals

(* Nothing at all.                                                                       *)
LEMMA Nothing ==
  /\ NoEntries \in Ids /\ NoEntries \in Vals /\ DOMAIN NoEntries = {} /\ Cardinality({}) = 0
  /\ EmptyTable \in TableType /\ NoData \in DataType
  /\ EmptyTable.ids = NoEntries /\ EmptyTable.free = <<>> /\ EmptyTable.agent = FALSE
  /\ EmptyTable.n_alloc = 0 /\ EmptyTable.maps = {}
  /\ NoData.table = None /\ NoData.n_alloc = 0 /\ NoData.buckets = {} /\ NoData.val = NoEntries
<1>1. IsFiniteSet({}) /\ Cardinality({}) = 0
  BY FS_EmptySet
<1>2. NoEntries \in [{} -> Nat] /\ NoEntries \in [{} -> Edges] /\ DOMAIN NoEntries = {}
  BY DEF NoEntries
<1>3. NoEntries \in Ids /\ NoEntries \in Vals
  BY <1>1, <1>2, IdsIntro, ValsIntro
<1>4. <<>> \in Seq(Nat)
  OBVIOUS
<1> QED BY <1>1, <1>2, <1>3, <1>4 DEF EmptyTable, NoData, TableType, DataType

(* A number is put on the free list.                                                     *)
LEMMA Given ==
  ASSUME NEW s \in Seq(Nat), NEW x \in Nat
  PROVE  /\ Append(s, x) \in Seq(Nat) /\ Len(Append(s, x)) = Len(s) + 1
         /\ Range(Append(s, x)) = Range(s) \cup {x}
         /\ IsInjective(s) /\ x \notin Range(s) => IsInjective(Append(s, x))
<1> DEFINE u == Append(s, x)
<1>1. /\ u \in Seq(Nat) /\ Len(u) = Len(s) + 1 /\ Len(s) \in Nat
      /\ DOMAIN s = 1 .. Len(s) /\ DOMAIN u = 1 .. Len(s) + 1
      /\ \A i \in 1 .. Len(s) : u[i] = s[i]
      /\ u[Len(s) + 1] = x
  OBVIOUS
<1> HIDE DEF u
<1>2. \A i \in DOMAIN u : i \in DOMAIN s \/ i = Len(s) + 1
  BY <1>1
<1>3. Range(u) = Range(s) \cup {x}
  <2>1. \A y \in Range(u) : y \in Range(s) \cup {x}
    BY <1>1, <1>2 DEF Range
  <2>2. \A y \in Range(s) : y \in Range(u)
    BY <1>1 DEF Range
  <2>3. x \in Range(u)
    <3>1. Len(s) + 1 \in DOMAIN u
      BY <1>1
    <3> QED BY <1>1, <3>1 DEF Range
  <2> QED BY <2>1, <2>2, <2>3
<1>4. ASSUME IsInjective(s), x \notin Range(s) PROVE IsInjective(u)
  <2>1. \A i \in DOMAIN s : u[i] = s[i] /\ s[i] # x
    BY <1>1, <1>4 DEF Range
  <2> QED BY <1>1, <1>2, <1>4, <2>1 DEF IsInjective
<1> QED BY <1>1, <1>3, <1>4 DEF u

(* The last number of the free list is taken.                                            *)
LEMMA Taken ==
  ASSUME NEW s \in Seq(Nat), s # <<>>
  PROVE  /\ LeftFree(s) \in Seq(Nat) /\ Len(LeftFree(s)) = Len(s) - 1 /\ Len(s) \in Nat \ {0}
         /\ Last(s) \in Nat
         /\ Range(s) = Range(LeftFree(s)) \cup {Last(s)}
         /\ IsInjective(s) => IsInjective(LeftFree(s)) /\ Last(s) \notin Range(LeftFree(s))
<1> DEFINE u == LeftFree(s)
<1>0. Len(s) \in Nat \ {0} /\ DOMAIN s = 1 .. Len(s)
  OBVIOUS
<1>1. /\ u \in Seq(Nat) /\ Len(u) = Len(s) - 1 /\ DOMAIN u = 1 .. Len(s) - 1
      /\ \A i \in 1 .. Len(s) - 1 : u[i] = s[i]
  BY <1>0 DEF LeftFree, Front
<1>2. Last(s) = s[Len(s)] /\ Last(s) \in Nat
  BY <1>0 DEF Last
<1> HIDE DEF u
<1>3. \A i \in DOMAIN s : i \in DOMAIN u \/ i = Len(s)
  BY <1>0, <1>1
<1>4. \A i \in DOMAIN u : i \in DOMAIN s /\ i # Len(s) /\ u[i] = s[i]
  BY SMTT(30), <1>0, <1>1
<1>5. Len(s) \in DOMAIN s
  BY <1>0
<1>6. Range(s) = Range(u) \cup {Last(s)}
  BY <1>2, <1>3, <1>4, <1>5 DEF Range
<1>7. IsInjective(s) => IsInjective(u) /\ Last(s) \notin Range(u)
  BY <1>2, <1>4, <1>5 DEF Range, IsInjective
<1> QED BY <1>0, <1>1, <1>2, <1>6, <1>7 DEF u

(***************************************************************************)
(* The edge agent: what happens to the numbers of a table, and to the      *)
(* entries of the data attached to it.                                     *)
(***************************************************************************)

(* The parts of a table.                                                                 *)
LEMMA TableParts ==
  ASSUME NEW r \in TableType
  PROVE  /\ r.ids \in Ids /\ r.free \in Seq(Nat) /\ r.agent \in BOOLEAN /\ r.n_alloc \in Nat
         /\ r.maps \in SUBSET Datas
         /\ EdgesOf(r) \in SUBSET Edges /\ EdgesOf(r) \in SUBSET Nat /\ IsFiniteSet(EdgesOf(r))
         /\ r.ids \in [EdgesOf(r) -> Nat]
         /\ NEdges(r) \in Nat /\ Len(r.free) \in Nat /\ Total(r) \in Nat
         /\ r.free = <<>> => Total(r) = NEdges(r) /\ Range(r.free) = {}
<1>1. r.ids \in Ids /\ r.free \in Seq(Nat) /\ r.agent \in BOOLEAN /\ r.n_alloc \in Nat /\ r.maps \in SUBSET Datas
  BY DEF TableType
<1>2. Range(<<>>) = {} /\ Len(<<>>) = 0
  BY DEF Range
<1> QED BY <1>1, <1>2, IdsFacts DEF EdgesOf, NEdges, Total

(* There is room for the numbers of the edges in the buckets the agent starts with.      *)
LEMMA StartBuckets ==
  ASSUME NEW n \in Nat
  PROVE  /\ AtLeast(CeilDiv(n)) \in Nat /\ CeilDiv(n) <= AtLeast(CeilDiv(n))
         /\ \A i \in 0 .. n - 1 : i \div BucketSize < AtLeast(CeilDiv(n))
<1>1. CeilDiv(n) \in Nat
  BY Buckets
<1>2. AtLeast(CeilDiv(n)) \in Nat /\ CeilDiv(n) <= AtLeast(CeilDiv(n))
  <2> DEFINE c == CeilDiv(n)
  <2> HIDE DEF c
  <2>1. AtLeast(c) \in Nat /\ c <= AtLeast(c)
    BY <1>1, SizesAssumption DEF AtLeast, c
  <2> QED BY <2>1 DEF c
<1>3. \A i \in 0 .. n - 1 : i \div BucketSize \in 0 .. CeilDiv(n) - 1
  BY Buckets
<1> DEFINE a == AtLeast(CeilDiv(n))
<1> HIDE DEF a
<1>4. \A i \in 0 .. n - 1 : i \div BucketSize < a
  BY <1>1, <1>2, <1>3 DEF a
<1> QED BY <1>2, <1>4 DEF a

(* The agent numbers the edges.                                                          *)
LEMMA AgentNumbers ==
  ASSUME NEW r \in TableType, ~r.agent, r.free = <<>>
  PROVE  LET s == WithAgent(r, FALSE) IN
         /\ s \in TableType /\ s.agent /\ Numbered(s)
         /\ EdgesOf(s) = EdgesOf(r) /\ s.free = <<>> /\ s.maps = r.maps
<1> DEFINE E == EdgesOf(r)
           ids == [e \in E |-> Position(E, e)]
           a == AtLeast(CeilDiv(NEdges(r)))
           s == [r EXCEPT !.agent = TRUE, !.n_alloc = a, !.ids = ids]
<1>1. WithAgent(r, FALSE) = s
  BY DEF WithAgent
<1>2. /\ E \in SUBSET Edges /\ E \in SUBSET Nat /\ IsFiniteSet(E) /\ NEdges(r) \in Nat /\ NEdges(r) = Cardinality(E)
      /\ r.free \in Seq(Nat) /\ r.maps \in SUBSET Datas
  BY TableParts DEF NEdges
<1>3. /\ ids \in [E -> Nat] /\ IsInjective(ids) /\ Range(ids) = 0 .. NEdges(r) - 1 /\ DOMAIN ids = E
  <2> HIDE DEF E
  <2>1. /\ \A e \in E : Position(E, e) \in 0 .. NEdges(r) - 1
        /\ \A e, f \in E : Position(E, e) = Position(E, f) => e = f
        /\ \A k \in 0 .. NEdges(r) - 1 : \E e \in E : Position(E, e) = k
    BY <1>2, Positions
  <2> QED BY <1>2, <2>1 DEF IsInjective, Range
<1>4. a \in Nat /\ \A i \in 0 .. NEdges(r) - 1 : i \div BucketSize < a
  BY <1>2, StartBuckets
<1> HIDE DEF a, ids, E
<1>5. s \in TableType
  BY <1>2, <1>3, <1>4, IdsIntro DEF TableType
<1>6. s.agent = TRUE /\ s.ids = ids /\ s.free = <<>> /\ s.maps = r.maps /\ s.n_alloc = a
  BY DEF TableType
<1>7. EdgesOf(s) = E /\ NEdges(s) = NEdges(r)
  BY <1>2, <1>3, <1>6 DEF EdgesOf, NEdges
<1>8. Total(s) = NEdges(r) /\ Range(s.free) = {} /\ IsInjective(s.free)
  <2>1. Total(s) = NEdges(s) /\ Range(s.free) = {}
    BY <1>5, <1>6, TableParts
  <2>2. IsInjective(<<>>)
    BY DEF IsInjective
  <2> QED BY <1>6, <1>7, <2>1, <2>2
<1>9. Numbered(s)
  BY <1>3, <1>4, <1>6, <1>8 DEF Numbered, Exact
<1> QED BY <1>1, <1>5, <1>6, <1>7, <1>9 DEF E

(* An agent that finds numbers in the cells keeps them.                                  *)
LEMMA AgentKeeps ==
  ASSUME NEW r \in TableType, ~r.agent, r.free = <<>>, Exact(r.ids, <<>>, NEdges(r))
  PROVE  LET s == WithAgent(r, TRUE) IN
         s \in TableType /\ s.agent /\ Numbered(s) /\ s.ids = r.ids /\ s.free = <<>> /\ s.maps = r.maps
<1> DEFINE a == AtLeast(CeilDiv(NEdges(r)))
           s == [r EXCEPT !.agent = TRUE, !.n_alloc = a, !.ids = r.ids]
<1>1. WithAgent(r, TRUE) = s
  BY DEF WithAgent
<1>2. NEdges(r) \in Nat /\ r.ids \in Ids
  BY TableParts
<1>3. a \in Nat /\ \A i \in 0 .. NEdges(r) - 1 : i \div BucketSize < a
  BY <1>2, StartBuckets
<1> HIDE DEF a
<1>4. s \in TableType
  BY <1>2, <1>3 DEF TableType
<1>5. s.agent = TRUE /\ s.ids = r.ids /\ s.free = <<>> /\ s.maps = r.maps /\ s.n_alloc = a
  BY DEF TableType
<1>6. Total(s) = NEdges(r)
  BY <1>4, <1>5, TableParts DEF NEdges, EdgesOf
<1>7. Numbered(s)
  BY <1>3, <1>5, <1>6 DEF Numbered
<1> QED BY <1>1, <1>4, <1>5, <1>7

(* The buckets after one more number has been given.                                     *)
LEMMA Grown ==
  ASSUME NEW r \in TableType, r.free = <<>>, \A i \in 0 .. NEdges(r) - 1 : i \div BucketSize < r.n_alloc
  PROVE  LET n == NEdges(r)
             a == IF Extends(r) THEN GrownTo(r) ELSE r.n_alloc
         IN  /\ a \in Nat /\ r.n_alloc <= a
             /\ n \in Nat /\ n \div BucketSize \in Nat /\ n \div BucketSize < a
             /\ ~Extends(r) => n > 0 /\ n \div BucketSize = (n - 1) \div BucketSize
<1> DEFINE n == NEdges(r)
           q == n \div BucketSize
           a == IF Extends(r) THEN GrownTo(r) ELSE r.n_alloc
<1>1. n \in Nat /\ r.n_alloc \in Nat /\ q \in Nat
  BY TableParts, Division
<1>2. q <= r.n_alloc
  <2>1. CASE n = 0
    BY <2>1, <1>1, SizesAssumption
  <2>2. CASE n > 0
    <3>1. q <= (n - 1) \div BucketSize + 1 /\ (n - 1) \div BucketSize \in Nat
      <4>1. n - 1 \in Nat
        BY <1>1, <2>2
      <4> HIDE DEF n
      <4> QED BY <1>1, <2>2, <4>1, NextBucket, Division
    <3>2. (n - 1) \div BucketSize < r.n_alloc
      BY <1>1, <2>2
    <3> HIDE DEF q
    <3> QED BY <1>1, <3>1, <3>2
  <2> QED BY <1>1, <2>1, <2>2
<1>3. Extends(r) <=> n % BucketSize = 0
  BY DEF Extends
<1>4. n % BucketSize # 0 => n > 0 /\ q = (n - 1) \div BucketSize
  <2>1. n % BucketSize # 0 => n > 0
    BY <1>1, SizesAssumption
  <2> QED BY <1>1, <2>1, NextBucket
<1>5. n % BucketSize # 0 => q < r.n_alloc
  BY <1>1, <1>4
<1>6. /\ AtLeast(r.n_alloc \div 5) \in Nat \ {0}
      /\ GrownTo(r) = IF q >= r.n_alloc THEN r.n_alloc + AtLeast(r.n_alloc \div 5) ELSE r.n_alloc
  <2>1. r.n_alloc \div 5 \in Nat
    BY <1>1
  <2> QED BY <2>1, SizesAssumption DEF AtLeast, GrownTo
<1> HIDE DEF n, q
<1>7. GrownTo(r) \in Nat /\ r.n_alloc <= GrownTo(r) /\ q < GrownTo(r)
  BY <1>1, <1>2, <1>6
<1>8. a \in Nat /\ r.n_alloc <= a /\ q < a
  BY <1>1, <1>3, <1>5, <1>7
<1> QED BY <1>1, <1>3, <1>4, <1>8 DEF n, q

(* A table gets one more edge.                                                           *)
LEMMA EdgeAddedParts ==
  ASSUME NEW r \in TableType, TableSound(r), NEW e \in Edges, e \notin EdgesOf(r)
  PROVE  LET s == EdgeAdded(r, e) IN
         /\ s \in TableType /\ TableSound(s) /\ s.agent = r.agent /\ s.maps = r.maps
         /\ EdgesOf(s) = EdgesOf(r) \cup {e}
         /\ r.agent => /\ s.ids = With(r.ids, e, NextId(r)) /\ NextId(r) \in Nat /\ NextId(r) \notin Range(r.ids)
                       /\ Total(s) = IF r.free = <<>> THEN Total(r) + 1 ELSE Total(r)
                       /\ s.n_alloc = IF Extends(r) THEN GrownTo(r) ELSE r.n_alloc
<1> DEFINE s == EdgeAdded(r, e)
           E == EdgesOf(r)
<1>1. /\ E \in SUBSET Edges /\ IsFiniteSet(E) /\ r.ids \in [E -> Nat] /\ E = DOMAIN r.ids /\ e \notin E
      /\ r.free \in Seq(Nat) /\ r.n_alloc \in Nat /\ r.maps \in SUBSET Datas /\ r.agent \in BOOLEAN
      /\ NEdges(r) \in Nat /\ Len(r.free) \in Nat /\ NEdges(r) = Cardinality(E)
  BY TableParts DEF EdgesOf, NEdges
<1>2. /\ IsFiniteSet(E \cup {e}) /\ Cardinality(E \cup {e}) = NEdges(r) + 1 /\ E \cup {e} \in SUBSET Edges
  <2> HIDE DEF E
  <2> QED BY <1>1, FS_AddElement
<1>3. ASSUME NEW v \in Nat
      PROVE  /\ With(r.ids, e, v) \in Ids /\ DOMAIN With(r.ids, e, v) = E \cup {e}
             /\ Range(With(r.ids, e, v)) = Range(r.ids) \cup {v}
             /\ IsInjective(r.ids) /\ v \notin Range(r.ids) => IsInjective(With(r.ids, e, v))
  <2> HIDE DEF E
  <2> DEFINE f == r.ids
             h == With(f, e, v)
  <2>0. /\ DOMAIN h = E \cup {e} /\ h[e] = v /\ e \notin E /\ E = DOMAIN f
        /\ \A y \in E : h[y] = f[y]
    BY <1>1 DEF With
  <2>1. Range(h) = Range(f) \cup {v} /\ (IsInjective(f) /\ v \notin Range(f) => IsInjective(h))
    <3> HIDE DEF f, h
    <3>1. Range(h) = Range(f) \cup {v}
      <4> HIDE DEF E
      <4> QED BY <2>0 DEF Range
    <3>2. IsInjective(f) /\ v \notin Range(f) => IsInjective(h)
      BY <2>0 DEF Range, IsInjective
    <3> QED BY <3>1, <3>2
  <2>2. With(r.ids, e, v) \in [E \cup {e} -> Nat]
    BY <1>1 DEF With
  <2> QED BY <1>2, <2>0, <2>1, <2>2, IdsIntro
<1>4. CASE ~r.agent
  <2>1. s = [r EXCEPT !.ids = With(r.ids, e, 0), !.n_alloc = 0]
    BY <1>4 DEF EdgeAdded
  <2>2. s \in TableType /\ s.ids = With(r.ids, e, 0) /\ s.agent = r.agent /\ s.maps = r.maps /\ s.free = r.free
    <3> HIDE DEF s
    <3> QED BY <1>3, <2>1 DEF TableType
  <2> QED BY <1>3, <1>4, <2>2 DEF TableSound, EdgesOf
<1>5. CASE r.agent
  <2> DEFINE id == NextId(r)
             a == IF Extends(r) THEN GrownTo(r) ELSE r.n_alloc
             left == LeftFree(r.free)
  <2>0. /\ Exact(r.ids, r.free, Total(r)) /\ \A i \in 0 .. Total(r) - 1 : i \div BucketSize < r.n_alloc
        /\ Total(r) = NEdges(r) + Len(r.free)
    BY <1>5 DEF TableSound, Numbered, Total
  <2>1. s = [r EXCEPT !.ids = With(r.ids, e, id), !.free = left, !.n_alloc = a]
    BY <1>5 DEF EdgeAdded
  <2> DEFINE total == IF r.free = <<>> THEN Total(r) + 1 ELSE Total(r)
  <2>2. /\ id \in Nat /\ id \notin Range(r.ids) /\ left \in Seq(Nat)
        /\ a \in Nat /\ r.n_alloc <= a
        /\ IsInjective(left) /\ id \notin Range(left)
        /\ Range(left) \cup Range(r.ids) \cup {id} = 0 .. total - 1
        /\ Range(left) \cap Range(r.ids) = {}
        /\ Len(left) + NEdges(r) + 1 = total
        /\ \A i \in 0 .. total - 1 : i \div BucketSize < a
    <3>1. CASE r.free = <<>>
      <4>1. id = NEdges(r) /\ left = <<>> /\ Total(r) = NEdges(r) /\ Range(<<>>) = {} /\ Len(left) = 0 /\ IsInjective(<<>>)
        BY <3>1, TableParts DEF NextId, LeftFree, IsInjective, Range
      <4>2. Range(r.ids) = 0 .. NEdges(r) - 1
        BY <2>0, <3>1, <4>1 DEF Exact
      <4>3. /\ a \in Nat /\ r.n_alloc <= a /\ NEdges(r) \div BucketSize < a
        BY <2>0, <3>1, <4>1, Grown
      <4>4. \A i \in 0 .. NEdges(r) : i \div BucketSize < a
        <5> SUFFICES ASSUME NEW i \in 0 .. NEdges(r) PROVE i \div BucketSize < a
          OBVIOUS
        <5>1. CASE i = NEdges(r)
          BY <4>3, <5>1
        <5>2. CASE i # NEdges(r)
          <6>1. i \in 0 .. Total(r) - 1 /\ i \in Nat
            BY <1>1, <4>1, <5>2
          <6>2. i \div BucketSize < r.n_alloc /\ i \div BucketSize \in Nat
            BY <2>0, <6>1, Division
          <6> HIDE DEF a
          <6> QED BY <1>1, <4>3, <6>2
        <5> QED BY <5>1, <5>2
      <4>5. total = NEdges(r) + 1 /\ total - 1 = NEdges(r)
        BY <1>1, <3>1, <4>1
      <4>6. NEdges(r) \notin 0 .. NEdges(r) - 1 /\ (0 .. NEdges(r) - 1) \cup {NEdges(r)} = 0 .. NEdges(r)
        BY <1>1
      <4> HIDE DEF a, id, left, total
      <4> QED BY <1>1, <4>1, <4>2, <4>3, <4>4, <4>5, <4>6
    <3>2. CASE r.free # <<>>
      <4>1. id = Last(r.free) /\ total = Total(r)
        BY <3>2 DEF NextId
      <4>2. /\ left \in Seq(Nat) /\ Len(left) = Len(r.free) - 1 /\ Len(r.free) \in Nat \ {0}
            /\ id \in Nat
            /\ Range(r.free) = Range(left) \cup {id}
            /\ IsInjective(left) /\ id \notin Range(left)
        BY <1>1, <2>0, <3>2, <4>1, Taken DEF Exact
      <4>3. a = r.n_alloc
        BY <3>2 DEF Extends
      <4> HIDE DEF a, id, left, total
      <4> QED BY <1>1, <2>0, <4>1, <4>2, <4>3 DEF Exact
    <3> QED BY <3>1, <3>2
  <2> HIDE DEF s, a, left, id, total, E
  <2>3. s \in TableType /\ s.ids = With(r.ids, e, id) /\ s.agent = r.agent /\ s.maps = r.maps /\ s.free = left /\ s.n_alloc = a
    BY <1>3, <2>1, <2>2 DEF TableType
  <2>4. EdgesOf(s) = E \cup {e} /\ Total(s) = total
    <3>1. EdgesOf(s) = E \cup {e} /\ NEdges(s) = NEdges(r) + 1
      BY <1>2, <1>3, <2>2, <2>3 DEF EdgesOf, NEdges
    <3>2. Len(left) \in Nat
      BY <2>2
    <3> QED BY <1>1, <2>2, <2>3, <3>1, <3>2 DEF Total
  <2>5. Numbered(s)
    <3>1. Range(s.ids) = Range(r.ids) \cup {id} /\ IsInjective(s.ids)
      BY <1>3, <2>0, <2>2, <2>3 DEF Exact
    <3> QED BY <2>2, <2>3, <2>4, <3>1 DEF Numbered, Exact
  <2> QED BY <1>5, <2>2, <2>3, <2>4, <2>5 DEF TableSound, s, a, id, total, E
<1> QED BY <1>1, <1>4, <1>5

(* A table loses an edge.                                                                *)
LEMMA EdgeRemovedParts ==
  ASSUME NEW r \in TableType, TableSound(r), NEW e \in EdgesOf(r)
  PROVE  LET s == EdgeRemoved(r, e) IN
         /\ s \in TableType /\ TableSound(s) /\ s.agent = r.agent /\ s.maps = r.maps
         /\ EdgesOf(s) = EdgesOf(r) \ {e}
         /\ r.agent => /\ s.ids = Without(r.ids, {e}) /\ r.ids[e] \in Nat
                       /\ Total(s) = Total(r) /\ s.n_alloc = r.n_alloc
                       /\ \A i : i \in Range(s.ids) <=> i \in Range(r.ids) /\ i # r.ids[e]
<1> DEFINE s == EdgeRemoved(r, e)
           E == EdgesOf(r)
           f == r.ids
           h == Without(f, {e})
<1>1. /\ E \in SUBSET Edges /\ IsFiniteSet(E) /\ f \in [E -> Nat] /\ E = DOMAIN f
      /\ r.free \in Seq(Nat) /\ r.n_alloc \in Nat /\ r.maps \in SUBSET Datas /\ r.agent \in BOOLEAN
      /\ NEdges(r) \in Nat /\ Len(r.free) \in Nat /\ NEdges(r) = Cardinality(E) /\ e \in E
  BY TableParts DEF EdgesOf, NEdges
<1>2. /\ IsFiniteSet(E \ {e}) /\ Cardinality(E \ {e}) = NEdges(r) - 1 /\ E \ {e} \in SUBSET Edges
  <2> HIDE DEF E
  <2>1. IsFiniteSet(E \ {e}) /\ Cardinality(E \ {e}) = Cardinality(E) - 1
    BY <1>1, FS_RemoveElement
  <2>2. E \ {e} \in SUBSET Edges
    BY <1>1
  <2> QED BY <1>1, <2>1, <2>2
<1>3. /\ DOMAIN h = E \ {e} /\ h \in [E \ {e} -> Nat] /\ f[e] \in Nat
      /\ \A y \in E \ {e} : h[y] = f[y]
  <2> HIDE DEF f, E
  <2> QED BY <1>1 DEF Without, Restrict
<1>4. h \in Ids
  <2> HIDE DEF h, E
  <2> QED BY <1>2, <1>3, IdsIntro
<1>5. CASE ~r.agent
  <2>1. s = [r EXCEPT !.ids = h, !.n_alloc = 0]
    BY <1>5 DEF EdgeRemoved
  <2>2. s \in TableType /\ s.ids = h /\ s.agent = r.agent /\ s.maps = r.maps /\ s.free = r.free
    <3> HIDE DEF s, h
    <3> QED BY <1>4, <2>1 DEF TableType
  <2> QED BY <1>3, <1>5, <2>2 DEF TableSound, EdgesOf
<1>6. CASE r.agent
  <2> DEFINE free == Append(r.free, f[e])
  <2>0. /\ Exact(f, r.free, Total(r)) /\ \A i \in 0 .. Total(r) - 1 : i \div BucketSize < r.n_alloc
        /\ Total(r) = NEdges(r) + Len(r.free)
    BY <1>6 DEF TableSound, Numbered, Total
  <2>1. s = [r EXCEPT !.ids = h, !.free = free]
    BY <1>6 DEF EdgeRemoved
  <2>2. IsInjective(h) /\ Range(h) = Range(f) \ {f[e]} /\ f[e] \in Range(f)
    <3>1. IsInjective(f)
      BY <2>0 DEF Exact
    <3> HIDE DEF f, h, E
    <3>2. IsInjective(h)
      BY <1>3, <1>1, <3>1 DEF IsInjective
    <3>3. f[e] \in Range(f)
      BY <1>1 DEF Range
    <3>4. \A x \in Range(h) : x \in Range(f) /\ x # f[e]
      BY <1>3, <1>1, <3>1 DEF IsInjective, Range
    <3>5. \A x \in Range(f) : x # f[e] => x \in Range(h)
      BY <1>3, <1>1 DEF Range
    <3> QED BY <3>2, <3>3, <3>4, <3>5
  <2>3. /\ free \in Seq(Nat) /\ Len(free) = Len(r.free) + 1 /\ Range(free) = Range(r.free) \cup {f[e]}
        /\ IsInjective(free)
    <3>1. IsInjective(r.free) /\ f[e] \notin Range(r.free)
      BY <2>0, <2>2 DEF Exact
    <3> QED BY <1>1, <1>3, <3>1, Given
  <2> HIDE DEF s, h, free, f, E
  <2>4. s \in TableType /\ s.ids = h /\ s.agent = r.agent /\ s.maps = r.maps /\ s.free = free /\ s.n_alloc = r.n_alloc
    BY <1>4, <2>1, <2>3 DEF TableType
  <2>5. EdgesOf(s) = E \ {e} /\ Total(s) = Total(r)
    <3>1. EdgesOf(s) = E \ {e} /\ NEdges(s) = NEdges(r) - 1
      BY <1>2, <1>3, <2>4 DEF EdgesOf, NEdges
    <3> QED BY <1>1, <2>0, <2>3, <2>4, <3>1 DEF Total
  <2>6. Numbered(s)
    BY <2>0, <2>2, <2>3, <2>4, <2>5 DEF Numbered, Exact
  <2>7. f[e] \in Nat
    BY <1>3
  <2> QED BY <1>6, <2>2, <2>4, <2>5, <2>6, <2>7 DEF TableSound, s, h, f, E
<1> QED BY <1>1, <1>5, <1>6

(* The parts of map data.                                                                *)
LEMMA DataParts ==
  ASSUME NEW D \in DataType
  PROVE  /\ D.table \in Tables \cup {None} /\ D.n_alloc \in Nat /\ D.buckets \in SUBSET Nat /\ D.val \in Vals
         /\ DOMAIN D.val \in SUBSET Nat /\ D.val \in [DOMAIN D.val -> Edges]
<1>1. D.table \in Tables \cup {None} /\ D.n_alloc \in Nat /\ D.buckets \in SUBSET Nat /\ D.val \in Vals
  BY DEF DataType
<1> QED BY <1>1, ValsFacts

(* The data attached to a table get an entry for an edge that is added.                  *)
LEMMA EntryAddedSound ==
  ASSUME NEW r \in TableType, TableSound(r), r.agent, NEW e \in Edges, e \notin EdgesOf(r),
         NEW D \in DataType, DataSound(D, r)
  PROVE  /\ EntryAdded(D, r, e) \in DataType /\ EntryAdded(D, r, e).table = D.table
         /\ DataSound(EntryAdded(D, r, e), EdgeAdded(r, e))
<1> DEFINE s == EdgeAdded(r, e)
           id == NextId(r)
           a == IF Extends(r) THEN GrownTo(r) ELSE r.n_alloc
           F == IF Extends(r) THEN Extended(D, r) ELSE D
           G == EntryAdded(D, r, e)
           val == With(F.val, id, e)
           q == NEdges(r) \div BucketSize
<1>1. /\ r.ids \in [EdgesOf(r) -> Nat] /\ NEdges(r) \in Nat /\ Total(r) \in Nat /\ r.n_alloc \in Nat
      /\ Len(r.free) \in Nat
      /\ r.free = <<>> => Total(r) = NEdges(r)
  BY TableParts
<1>2. /\ s.ids = With(r.ids, e, id) /\ id \in Nat /\ id \notin Range(r.ids)
      /\ Total(s) = IF r.free = <<>> THEN Total(r) + 1 ELSE Total(r)
      /\ s.n_alloc = a /\ EdgesOf(s) = EdgesOf(r) \cup {e}
  BY EdgeAddedParts
<1>3. /\ D.table \in Tables \cup {None} /\ D.n_alloc \in Nat /\ D.buckets \in SUBSET Nat
      /\ DOMAIN D.val \in SUBSET Nat /\ D.val \in [DOMAIN D.val -> Edges]
  BY DataParts
<1>4. \A i \in 0 .. Total(r) - 1 : i \div BucketSize < r.n_alloc
  BY DEF TableSound, Numbered
<1>5. r.free = <<>> => /\ a \in Nat /\ r.n_alloc <= a /\ q \in Nat /\ q < a
                       /\ ~Extends(r) => NEdges(r) > 0 /\ q = (NEdges(r) - 1) \div BucketSize
  BY <1>1, <1>4, Grown
<1>6. Extends(r) => r.free = <<>>
  BY DEF Extends
<1>7. /\ F \in DataType /\ F.table = D.table /\ F.val = D.val
      /\ F.buckets = IF Extends(r) THEN D.buckets \cup {q} ELSE D.buckets
      /\ F.n_alloc = IF Extends(r) /\ a > r.n_alloc /\ a > D.n_alloc THEN a ELSE D.n_alloc
  <2>1. CASE ~Extends(r)
    BY <2>1
  <2>2. CASE Extends(r)
    <3>1. F = [D EXCEPT !.buckets = D.buckets \cup {q},
                        !.n_alloc = IF a > r.n_alloc /\ a > D.n_alloc THEN a ELSE D.n_alloc]
      BY <2>2 DEF Extended
    <3>2. a \in Nat /\ q \in Nat
      BY <1>5, <1>6, <2>2
    <3> HIDE DEF F, a, q
    <3> QED BY <1>3, <2>2, <3>1, <3>2 DEF DataType
  <2> QED BY <2>1, <2>2
<1>8. G = [F EXCEPT !.val = val]
  BY DEF EntryAdded
<1>9. /\ val \in Vals /\ DOMAIN val = DOMAIN D.val \cup {id}
      /\ val[id] = e /\ \A i \in DOMAIN D.val : i # id => val[i] = D.val[i]
  <2> HIDE DEF F, id
  <2>1. /\ DOMAIN val = DOMAIN D.val \cup {id} /\ val[id] = e /\ val \in [DOMAIN D.val \cup {id} -> Edges]
        /\ \A i \in DOMAIN D.val : i # id => val[i] = D.val[i]
    BY <1>3, <1>7 DEF With
  <2>2. DOMAIN D.val \cup {id} \in SUBSET Nat
    BY <1>2, <1>3
  <2> HIDE DEF val
  <2> QED BY <2>1, <2>2, ValsIntro
<1> HIDE DEF val, F
<1>10. /\ G \in DataType /\ G.table = D.table /\ G.val = val /\ G.buckets = F.buckets /\ G.n_alloc = F.n_alloc
  <2> HIDE DEF G
  <2> QED BY <1>7, <1>8, <1>9 DEF DataType
<1>11. DOMAIN val = Range(s.ids) /\ \A x \in EdgesOf(s) : val[s.ids[x]] = x
  <2>1. DOMAIN D.val = Range(r.ids) /\ \A x \in EdgesOf(r) : D.val[r.ids[x]] = x
    BY DEF DataSound
  <2> HIDE DEF id, s
  <2>2. /\ DOMAIN s.ids = EdgesOf(r) \cup {e} /\ s.ids[e] = id
        /\ \A x \in EdgesOf(r) : s.ids[x] = r.ids[x] /\ r.ids[x] \in Range(r.ids)
    BY <1>1, <1>2 DEF With, Range
  <2>3. Range(s.ids) = Range(r.ids) \cup {id}
    <3>1. \A z \in Range(s.ids) : z \in Range(r.ids) \cup {id}
      BY <2>2 DEF Range
    <3>2. DOMAIN r.ids = EdgesOf(r)
      BY <1>1
    <3>3. \A z \in Range(r.ids) : z \in Range(s.ids)
      BY <2>2, <3>2 DEF Range
    <3>4. id \in Range(s.ids)
      BY <2>2 DEF Range
    <3> QED BY <3>1, <3>3, <3>4
  <2>4. \A x \in EdgesOf(s) : val[s.ids[x]] = x
    BY <1>2, <1>9, <2>1, <2>2
  <2> QED BY <1>9, <2>1, <2>3, <2>4
<1>12. \A i \in 0 .. Total(s) - 1 : i \div BucketSize \in G.buckets
  <2>1. \A i \in 0 .. Total(r) - 1 : i \div BucketSize \in F.buckets
    BY <1>7 DEF DataSound
  <2>2. CASE r.free # <<>>
    BY <1>2, <1>10, <2>1, <2>2
  <2>3. CASE r.free = <<>>
    <3>1. Total(s) - 1 = NEdges(r) /\ Total(r) = NEdges(r)
      BY <1>1, <1>2, <2>3
    <3>2. q \in F.buckets
      <4>1. CASE Extends(r)
        BY <1>7, <4>1
      <4>2. CASE ~Extends(r)
        <5>1. q = (NEdges(r) - 1) \div BucketSize /\ NEdges(r) - 1 \in 0 .. Total(r) - 1
          BY <1>1, <1>5, <2>3, <3>1, <4>2
        <5> HIDE DEF q
        <5> QED BY <2>1, <5>1
      <4> QED BY <4>1, <4>2
    <3>3. \A i \in 0 .. NEdges(r) : i \in 0 .. Total(r) - 1 \/ i = NEdges(r)
      BY <1>1, <3>1
    <3> QED BY <1>10, <2>1, <3>1, <3>2, <3>3
  <2> QED BY <2>2, <2>3
<1>13. (\A b \in G.buckets : b < G.n_alloc) /\ s.n_alloc <= G.n_alloc
  <2>1. (\A b \in D.buckets : b < D.n_alloc) /\ r.n_alloc <= D.n_alloc
    BY DEF DataSound
  <2> HIDE DEF a, q, G, s
  <2>2. CASE Extends(r)
    BY <1>1, <1>2, <1>3, <1>5, <1>6, <1>7, <1>10, <2>1, <2>2
  <2>3. CASE ~Extends(r)
    <3>1. a = r.n_alloc
      BY <2>3 DEF a
    <3> QED BY <1>2, <1>7, <1>10, <2>1, <2>3, <3>1
  <2> QED BY <2>2, <2>3
<1> QED BY <1>10, <1>11, <1>12, <1>13 DEF DataSound

(* They lose the entry of an edge that is removed.                                       *)
LEMMA EmptiedSound ==
  ASSUME NEW r \in TableType, TableSound(r), r.agent, NEW e \in EdgesOf(r),
         NEW D \in DataType, DataSound(D, r)
  PROVE  /\ Emptied(D, r.ids[e]) \in DataType /\ Emptied(D, r.ids[e]).table = D.table
         /\ DataSound(Emptied(D, r.ids[e]), EdgeRemoved(r, e))
<1> DEFINE s == EdgeRemoved(r, e)
           id == r.ids[e]
           G == Emptied(D, id)
           val == Without(D.val, {id})
<1>1. /\ r.ids \in [EdgesOf(r) -> Nat] /\ DOMAIN r.ids = EdgesOf(r)
  BY TableParts
<1>2. /\ s.ids = Without(r.ids, {e}) /\ Total(s) = Total(r) /\ s.n_alloc = r.n_alloc /\ EdgesOf(s) = EdgesOf(r) \ {e}
      /\ Range(s.ids) = Range(r.ids) \ {id}
  <2> HIDE DEF s
  <2>1. r.agent => /\ s.ids = Without(r.ids, {e}) /\ Total(s) = Total(r) /\ s.n_alloc = r.n_alloc
                   /\ \A i : i \in Range(s.ids) <=> i \in Range(r.ids) /\ i # r.ids[e]
    BY EdgeRemovedParts DEF s
  <2>2. EdgesOf(s) = EdgesOf(r) \ {e}
    BY ZenonT(30), EdgeRemovedParts DEF s
  <2> QED BY <2>1, <2>2
<1>3. DOMAIN D.val \in SUBSET Nat /\ D.val \in [DOMAIN D.val -> Edges]
  BY DataParts
<1>4. /\ DOMAIN val = DOMAIN D.val \ {id} /\ val \in [DOMAIN D.val \ {id} -> Edges]
      /\ \A i \in DOMAIN D.val \ {id} : val[i] = D.val[i]
  BY <1>3 DEF Without, Restrict
<1>5. val \in Vals
  <2> HIDE DEF val
  <2> QED BY <1>3, <1>4, ValsIntro
<1> HIDE DEF val
<1>6. G = [D EXCEPT !.val = val]
  BY DEF Emptied, val
<1> HIDE DEF G
<1>7. G \in DataType /\ G.table = D.table /\ G.val = val /\ G.buckets = D.buckets /\ G.n_alloc = D.n_alloc
  BY <1>5, <1>6 DEF DataType
<1>8. DOMAIN D.val = Range(r.ids) /\ \A x \in EdgesOf(r) : D.val[r.ids[x]] = x
  BY DEF DataSound
<1> HIDE DEF s, id
<1>9. \A x \in EdgesOf(s) : s.ids[x] = r.ids[x] /\ r.ids[x] \in Range(s.ids)
  <2>1. \A x \in EdgesOf(r) \ {e} : s.ids[x] = r.ids[x]
    BY <1>1, <1>2 DEF Without, Restrict
  <2>2. DOMAIN s.ids = EdgesOf(r) \ {e}
    BY <1>1, <1>2 DEF Without, Restrict
  <2> QED BY <1>2, <2>1, <2>2 DEF Range
<1>10. \A x \in EdgesOf(s) : val[s.ids[x]] = x
  BY SMTT(30), <1>2, <1>4, <1>8, <1>9
<1>11. DOMAIN val = Range(s.ids)
  BY <1>2, <1>4, <1>8
<1> QED BY <1>2, <1>7, <1>10, <1>11 DEF DataSound, s, G, id

(***************************************************************************)
(* Hosts and maps.                                                         *)
(***************************************************************************)

(* The parts of a world.                                                                 *)
LEMMA WorldParts ==
  ASSUME NEW w \in WorldType
  PROVE  /\ w.graph \in [Graphs -> Tables] /\ w.table \in [Tables -> TableType]
         /\ w.data \in [Datas -> DataType] /\ w.map \in [Maps -> Datas \cup {None}]
         /\ w = WorldOf(w.graph, w.table, w.data, w.map)
BY DEF WorldType, WorldOf

(* The parts of a world put together are those it was made of, and of their types.      *)
LEMMA WorldOfParts ==
  ASSUME NEW g, NEW t, NEW a, NEW m
  PROVE  /\ WorldOf(g, t, a, m).graph = g /\ WorldOf(g, t, a, m).table = t
         /\ WorldOf(g, t, a, m).data = a /\ WorldOf(g, t, a, m).map = m
         /\ (/\ g \in [Graphs -> Tables] /\ t \in [Tables -> TableType]
             /\ a \in [Datas -> DataType] /\ m \in [Maps -> Datas \cup {None}]) => WorldOf(g, t, a, m) \in WorldType
BY DEF WorldType, WorldOf

(* A set with an element has more when its cardinality exceeds one.                      *)
LEMMA MoreThanOne ==
  ASSUME NEW S, IsFiniteSet(S), NEW x \in S
  PROVE  Cardinality(S) > 1 <=> \E y \in S : y # x
<1>1. /\ IsFiniteSet(S \ {x}) /\ Cardinality(S \ {x}) = Cardinality(S) - 1
      /\ Cardinality(S) \in Nat /\ Cardinality(S \ {x}) \in Nat
  BY OneLess, FS_Difference
<1>2. Cardinality(S \ {x}) = 0 <=> S \ {x} = {}
  BY <1>1, FS_EmptySet
<1>3. S \ {x} = {} <=> ~\E y \in S : y # x
  OBVIOUS
<1> QED BY <1>1, <1>2, <1>3

(* A map shares its data when another map has them.                                      *)
LEMMA RefcShared ==
  ASSUME NEW w, NEW m \in Maps
  PROVE  Refc(w, w.map[m]) > 1 <=> \E k \in Maps : k # m /\ w.map[k] = w.map[m]
<1> DEFINE S == {k \in Maps : w.map[k] = w.map[m]}
<1>1. IsFiniteSet(S) /\ m \in S
  BY ObjectsAssumption, FS_Subset
<1>2. Cardinality(S) > 1 <=> \E y \in S : y # m
  <2> HIDE DEF S
  <2> QED BY <1>1, MoreThanOne
<1>3. Refc(w, w.map[m]) = Cardinality(S)
  BY DEF Refc
<1> QED BY <1>2, <1>3

(* A graph shares its table when another graph has it.                                   *)
LEMMA TableShared ==
  ASSUME NEW w, NEW g \in Graphs
  PROVE  IsShared(w, g) <=> \E h \in Graphs : h # g /\ w.graph[h] = w.graph[g]
<1> DEFINE S == {h \in Graphs : w.graph[h] = w.graph[g]}
<1>1. IsFiniteSet(S) /\ g \in S
  BY ObjectsAssumption, FS_Subset
<1>2. Cardinality(S) > 1 <=> \E y \in S : y # g
  <2> HIDE DEF S
  <2> QED BY <1>1, MoreThanOne
<1>3. IsShared(w, g) <=> Cardinality(S) > 1
  BY DEF IsShared, Hosts
<1> QED BY <1>2, <1>3

(* There is one more number than there are users.                                        *)
LEMMA FreeImage ==
  ASSUME NEW S, IsFiniteSet(S), NEW T, NEW f \in [S -> T]
  PROVE  /\ FreeOf({f[x] : x \in S}, 1 .. Cardinality(S) + 1) \in 1 .. Cardinality(S) + 1
         /\ \A x \in S : f[x] # FreeOf({f[y] : y \in S}, 1 .. Cardinality(S) + 1)
<1> DEFINE U == {f[x] : x \in S}
           n == Cardinality(S)
<1>1. n \in Nat
  BY FS_CardinalityType
<1>2. f \in Surjection(S, U)
  BY DEF Surjection
<1>3. IsFiniteSet(U) /\ Cardinality(U) <= n
  <2> HIDE DEF U
  <2> QED BY <1>2, FS_Surjection
<1>4. FreeOf(U, 1 .. n + 1) \in (1 .. n + 1) \ U
  <2> HIDE DEF U, n
  <2> QED BY <1>1, <1>3, FreeOne
<1>5. \A x \in S : f[x] \in U
  OBVIOUS
<1> HIDE DEF U
<1>6. FreeOf(U, 1 .. n + 1) \in 1 .. n + 1 /\ \A x \in S : f[x] # FreeOf(U, 1 .. n + 1)
  BY <1>4, <1>5
<1> QED BY <1>6 DEF U

\* The data a new map gets, and the table a graph gets that leaves a shared one.
NextData(w) == FreeOf({w.map[k] : k \in Maps}, Datas)
NextTable(w) == FreeOf({w.graph[h] : h \in Graphs}, Tables)

(* There is a table that no graph hosts and data that no map holds: where copies go.    *)
LEMMA NextFree ==
  ASSUME NEW w \in WorldType
  PROVE  /\ NextData(w) \in Datas /\ \A k \in Maps : w.map[k] # NextData(w)
         /\ NextTable(w) \in Tables /\ \A h \in Graphs : w.graph[h] # NextTable(w)
         /\ None \notin Datas /\ None \notin Tables /\ None \notin Graphs
<1>1. w.map \in [Maps -> Datas \cup {None}] /\ w.graph \in [Graphs -> Tables]
  BY WorldParts
<1>2. NextData(w) \in Datas /\ \A k \in Maps : w.map[k] # NextData(w)
  <2> DEFINE f == w.map
  <2>1. f \in [Maps -> Datas \cup {None}] /\ IsFiniteSet(Maps)
    BY <1>1, ObjectsAssumption
  <2>2. NextData(w) = FreeOf({f[x] : x \in Maps}, 1 .. Cardinality(Maps) + 1)
    BY DEF NextData, Datas
  <2> HIDE DEF f
  <2>3. /\ FreeOf({f[x] : x \in Maps}, 1 .. Cardinality(Maps) + 1) \in 1 .. Cardinality(Maps) + 1
        /\ \A x \in Maps : f[x] # FreeOf({f[y] : y \in Maps}, 1 .. Cardinality(Maps) + 1)
    BY <2>1, FreeImage
  <2> QED BY <2>2, <2>3 DEF f, Datas
<1>3. NextTable(w) \in Tables /\ \A h \in Graphs : w.graph[h] # NextTable(w)
  <2> DEFINE f == w.graph
  <2>1. f \in [Graphs -> Tables] /\ IsFiniteSet(Graphs)
    BY <1>1, ObjectsAssumption
  <2>2. NextTable(w) = FreeOf({f[x] : x \in Graphs}, 1 .. Cardinality(Graphs) + 1)
    BY DEF NextTable, Tables
  <2> HIDE DEF f
  <2>3. /\ FreeOf({f[x] : x \in Graphs}, 1 .. Cardinality(Graphs) + 1) \in 1 .. Cardinality(Graphs) + 1
        /\ \A x \in Graphs : f[x] # FreeOf({f[y] : y \in Graphs}, 1 .. Cardinality(Graphs) + 1)
    BY <2>1, FreeImage
  <2> QED BY <2>2, <2>3 DEF f, Tables
<1> QED BY <1>2, <1>3, ObjectsAssumption

\* m becomes the host of new data with the entries val, attached to t, which has become r.
Fresh(w, m, t, r, val) ==
  LET d == NextData(w)
      D == [table |-> t, n_alloc |-> r.n_alloc, buckets |-> 0 .. CeilDiv(NEdges(r)) - 1, val |-> val]
  IN  WorldOf(w.graph, [w.table EXCEPT ![t] = [r EXCEPT !.maps = r.maps \cup {d}]],
              [w.data EXCEPT ![d] = D], [w.map EXCEPT ![m] = d])

(* What NewData does.                                                                    *)
LEMMA NewDataParts ==
  ASSUME NEW w \in WorldType, NEW m \in Maps, NEW t \in Tables, NEW c \in BOOLEAN
  PROVE  NewData(w, m, t, c) = Fresh(w, m, t, WithAgent(w.table[t], c), NoEntries)
BY DEF NewData, NextData, Fresh

\* The new data of w, which have been attached in u, get the entries val.
Filled(w, u, val) == WorldOf(u.graph, u.table, [u.data EXCEPT ![NextData(w)].val = val], u.map)

(* The entries are filled in later.                                                      *)
LEMMA FreshFilled ==
  ASSUME NEW w \in WorldType, NEW m \in Maps, NEW t \in Tables, NEW r \in TableType, NEW v, NEW val
  PROVE  Filled(w, Fresh(w, m, t, r, v), val) = Fresh(w, m, t, r, val)
<1> DEFINE d == NextData(w)
           B == 0 .. CeilDiv(NEdges(r)) - 1
           D == [table |-> t, n_alloc |-> r.n_alloc, buckets |-> B, val |-> v]
           E == [table |-> t, n_alloc |-> r.n_alloc, buckets |-> B, val |-> val]
           T == [w.table EXCEPT ![t] = [r EXCEPT !.maps = r.maps \cup {d}]]
           A == [w.data EXCEPT ![d] = D]
           X == [w.data EXCEPT ![d] = E]
           M == [w.map EXCEPT ![m] = d]
           u == Fresh(w, m, t, r, v)
<1>1. w.data \in [Datas -> DataType] /\ d \in Datas
  BY WorldParts, NextFree
<1>2. u = WorldOf(w.graph, T, A, M) /\ Fresh(w, m, t, r, val) = WorldOf(w.graph, T, X, M)
  BY DEF Fresh
<1> HIDE DEF B
<1>3. [D EXCEPT !.val = val] = E
  <2>1. \E z : z = D
    OBVIOUS
  <2>2. PICK z : z = D
    BY <2>1
  <2>3. [z EXCEPT !.val = val] = E
    BY <2>2
  <2> QED BY <2>2, <2>3
<1> HIDE DEF d, u, D, E
<1>4. u.data = A /\ u.graph = w.graph /\ u.table = T /\ u.map = M
  BY <1>2, WorldOfParts
<1>5. A[d] = D /\ [A EXCEPT ![d] = E] = X
  BY <1>1
<1> HIDE DEF A, X, T, M
<1>6. [u.data EXCEPT ![d].val = val] = [u.data EXCEPT ![d] = [u.data[d] EXCEPT !.val = val]]
  OBVIOUS
<1>7. [u.data EXCEPT ![d].val = val] = X
  BY <1>3, <1>4, <1>5, <1>6
<1> QED BY <1>2, <1>4, <1>7 DEF u, d, Filled

(* A map that has no data gets new ones, on a table with an agent and without gaps.      *)
LEMMA FreshSound ==
  ASSUME NEW w, WorldSound(w), NEW m \in Maps, w.map[m] = None,
         NEW t \in Tables, NEW h \in Graphs, w.graph[h] = t,
         NEW r \in TableType, r.agent, Numbered(r), r.free = <<>>, r.maps = w.table[t].maps,
         r.maps # {} => r = w.table[t],
         NEW val \in Vals, DOMAIN val = Range(r.ids), \A e \in EdgesOf(r) : val[r.ids[e]] = e
  PROVE  WorldSound(Fresh(w, m, t, r, val))
<1> DEFINE d == NextData(w)
           B == 0 .. CeilDiv(NEdges(r)) - 1
           D == [table |-> t, n_alloc |-> r.n_alloc, buckets |-> B, val |-> val]
           s == [r EXCEPT !.maps = r.maps \cup {d}]
           u == Fresh(w, m, t, r, val)
<1>1. /\ w \in WorldType
      /\ \A x \in Tables : TableSound(w.table[x])
      /\ \A x \in Tables, y \in Datas : y \in w.table[x].maps <=> w.data[y].table = x
      /\ \A y \in Datas : w.data[y].table # None => Attachment(w, y)
  BY DEF WorldSound
<1>2. /\ w.graph \in [Graphs -> Tables] /\ w.table \in [Tables -> TableType]
      /\ w.data \in [Datas -> DataType] /\ w.map \in [Maps -> Datas \cup {None}]
  BY <1>1, WorldParts
<1>3. d \in Datas /\ (\A k \in Maps : w.map[k] # d) /\ None \notin Datas /\ None \notin Tables
  BY <1>1, NextFree
<1>4. w.data[d].table = None
  BY <1>1, <1>3 DEF Attachment
<1>5. /\ u.graph = w.graph /\ u.table = [w.table EXCEPT ![t] = s]
      /\ u.data = [w.data EXCEPT ![d] = D] /\ u.map = [w.map EXCEPT ![m] = d]
      /\ u = WorldOf(u.graph, u.table, u.data, u.map)
  BY WorldOfParts DEF Fresh
<1>6. NEdges(r) \in Nat /\ Total(r) = NEdges(r) /\ r.n_alloc \in Nat /\ r.maps \in SUBSET Datas
  BY TableParts
<1>7. D \in DataType
  <2>1. B \in SUBSET Nat
    BY <1>6, Buckets
  <2> HIDE DEF B
  <2> QED BY <1>6, <2>1 DEF DataType
<1>8. /\ s \in TableType /\ s.ids = r.ids /\ s.free = r.free /\ s.agent /\ s.n_alloc = r.n_alloc
      /\ s.maps = r.maps \cup {d}
  <2> HIDE DEF d
  <2> QED BY <1>3, <1>6 DEF TableType
<1>9. Total(s) = Total(r) /\ Numbered(s) /\ EdgesOf(s) = EdgesOf(r)
  <2>1. Total(s) = Total(r) /\ EdgesOf(s) = EdgesOf(r)
    BY <1>8 DEF Total, NEdges, EdgesOf
  <2> QED BY <1>8, <2>1 DEF Numbered
<1>10. DataSound(D, s)
  <2>1. \A b \in B : b < r.n_alloc
    <3>1. CASE NEdges(r) = 0
      BY <1>6, <3>1, Buckets
    <3>2. CASE NEdges(r) > 0
      <4> DEFINE q == (NEdges(r) - 1) \div BucketSize
      <4>1. CeilDiv(NEdges(r)) = q + 1
        BY <1>6, <3>2, Buckets
      <4>2. NEdges(r) - 1 \in 0 .. Total(r) - 1 /\ NEdges(r) - 1 \in Nat
        BY <1>6, <3>2
      <4>3. q < r.n_alloc /\ q \in Nat
        BY <4>2, Division DEF Numbered
      <4> HIDE DEF q
      <4> QED BY <1>6, <4>1, <4>3
    <3> QED BY <1>6, <3>1, <3>2
  <2>2. \A i \in 0 .. Total(r) - 1 : i \div BucketSize \in B
    BY <1>6, Buckets
  <2>3. D.val = val /\ D.buckets = B /\ D.n_alloc = r.n_alloc
    OBVIOUS
  <2> HIDE DEF D, B, s
  <2> QED BY <1>6, <1>8, <1>9, <2>1, <2>2, <2>3 DEF DataSound
<1>11. D.table = t
  OBVIOUS
<1> HIDE DEF D, s, d, u
<1>12. u \in WorldType
  <2>1. u.table \in [Tables -> TableType]
    BY <1>2, <1>5, <1>8
  <2>2. u.data \in [Datas -> DataType]
    BY ZenonT(30), <1>2, <1>5, <1>7
  <2>3. u.map \in [Maps -> Datas \cup {None}]
    BY <1>2, <1>3, <1>5
  <2> QED BY <1>2, <1>5, <2>1, <2>2, <2>3, WorldOfParts
<1>13. /\ u.table[t] = s /\ \A x \in Tables \ {t} : u.table[x] = w.table[x]
       /\ u.data[d] = D /\ \A y \in Datas \ {d} : u.data[y] = w.data[y]
       /\ u.map[m] = d /\ \A k \in Maps \ {m} : u.map[k] = w.map[k]
  BY <1>2, <1>3, <1>5
<1>14. ASSUME NEW x \in Tables PROVE TableSound(u.table[x])
  BY <1>1, <1>8, <1>9, <1>13 DEF TableSound
<1>15. ASSUME NEW x \in Tables, NEW y \in Datas PROVE y \in u.table[x].maps <=> u.data[y].table = x
  <2>1. CASE x = t /\ y = d
    BY <1>8, <1>11, <1>13, <2>1
  <2>2. CASE x = t /\ y # d
    BY <1>1, <1>8, <1>13, <2>2
  <2>3. CASE x # t /\ y = d
    <3>1. d \notin w.table[x].maps
      BY <1>1, <1>3, <1>4
    <3> QED BY <1>11, <1>13, <2>3, <3>1
  <2>4. CASE x # t /\ y # d
    BY <1>1, <1>13, <2>4
  <2> QED BY <2>1, <2>2, <2>3, <2>4
<1>16. ASSUME NEW y \in Datas, u.data[y].table # None PROVE Attachment(u, y)
  <2>1. CASE y = d
    <3>1. u.graph[h] = u.data[y].table
      BY <1>5, <1>11, <1>13, <2>1
    <3> QED BY <1>10, <1>11, <1>13, <2>1, <3>1 DEF Attachment
  <2>2. CASE y # d
    <3>1. Attachment(w, y) /\ u.data[y] = w.data[y] /\ w.data[y].table # None
      BY <1>1, <1>13, <1>16, <2>2
    <3>2. PICK k \in Maps, g \in Graphs : w.map[k] = y /\ w.graph[g] = w.data[y].table
      BY <3>1 DEF Attachment
    <3>3. k # m /\ u.map[k] = y /\ u.graph[g] = u.data[y].table
      BY <1>3, <1>5, <1>13, <3>1, <3>2
    <3>4. DataSound(u.data[y], u.table[u.data[y].table])
      <4>1. CASE w.data[y].table = t
        <5>1. y \in w.table[t].maps
          BY <1>1, <4>1
        <5>2. r = w.table[t]
          BY <5>1
        <5>3. DataSound(w.data[y], r)
          BY <3>1, <4>1, <5>2 DEF Attachment
        <5>4. DataSound(w.data[y], s)
          BY <1>8, <1>9, <5>3 DEF DataSound
        <5> QED BY <1>13, <3>1, <4>1, <5>4
      <4>2. CASE w.data[y].table # t
        <5>1. w.data[y].table \in Tables
          BY <1>2, <3>2
        <5> QED BY <1>13, <3>1, <4>2, <5>1 DEF Attachment
      <4> QED BY <4>1, <4>2
    <3> QED BY <3>3, <3>4 DEF Attachment
  <2> QED BY <2>1, <2>2
<1>17. WorldSound(u)
  BY <1>12, <1>14, <1>15, <1>16 DEF WorldSound
<1> QED BY <1>17 DEF u

(***************************************************************************)
(* Maps leave their data, and copy them.                                   *)
(***************************************************************************)

(* The parts of a sound world.                                                           *)
LEMMA SoundParts ==
  ASSUME NEW w, WorldSound(w)
  PROVE  /\ w \in WorldType
         /\ w.graph \in [Graphs -> Tables] /\ w.table \in [Tables -> TableType]
         /\ w.data \in [Datas -> DataType] /\ w.map \in [Maps -> Datas \cup {None}]
         /\ None \notin Datas /\ None \notin Tables /\ None \notin Graphs
         /\ \A x \in Tables : TableSound(w.table[x]) /\ w.table[x] \in TableType /\ w.table[x].maps \in SUBSET Datas
         /\ \A x \in Tables, y \in Datas : y \in w.table[x].maps <=> w.data[y].table = x
         /\ \A y \in Datas : w.data[y].table # None => Attachment(w, y)
         /\ \A y \in Datas : w.data[y] \in DataType /\ w.data[y].table \in Tables \cup {None}
         /\ \A x \in Tables : w.table[x].maps # {} => w.table[x].agent
<1>1. w \in WorldType
  BY DEF WorldSound
<1>2. /\ w.graph \in [Graphs -> Tables] /\ w.table \in [Tables -> TableType]
      /\ w.data \in [Datas -> DataType] /\ w.map \in [Maps -> Datas \cup {None}]
  BY <1>1, WorldParts
<1>3. \A x \in Tables : w.table[x] \in TableType /\ w.table[x].maps \in SUBSET Datas
  BY <1>2, TableParts
<1>4. \A y \in Datas : w.data[y] \in DataType /\ w.data[y].table \in Tables \cup {None}
  BY <1>2, DataParts
<1>5. None \notin Datas /\ None \notin Tables /\ None \notin Graphs
  BY ObjectsAssumption
<1>6. /\ \A x \in Tables : TableSound(w.table[x])
      /\ \A x \in Tables, y \in Datas : y \in w.table[x].maps <=> w.data[y].table = x
      /\ \A y \in Datas : w.data[y].table # None => Attachment(w, y)
  BY DEF WorldSound
<1>7. \A x \in Tables : w.table[x].maps # {} => w.table[x].agent
  BY <1>6 DEF TableSound
<1> QED BY <1>1, <1>2, <1>3, <1>4, <1>5, <1>6, <1>7

(* A map gets other data, or none, while others keep the ones it had.                    *)
LEMMA HostingSound ==
  ASSUME NEW w, WorldSound(w), NEW m \in Maps, NEW d \in Datas \cup {None},
         w.map[m] # None => \E k \in Maps \ {m} : w.map[k] = w.map[m]
  PROVE  LET u == Hosting(w, m, d) IN
         WorldSound(u) /\ u.graph = w.graph /\ u.table = w.table /\ u.data = w.data
<1> DEFINE u == Hosting(w, m, d)
<1>1. /\ u.graph = w.graph /\ u.table = w.table /\ u.data = w.data /\ u.map = [w.map EXCEPT ![m] = d]
      /\ u = WorldOf(u.graph, u.table, u.data, u.map)
  BY WorldOfParts DEF Hosting
<1> HIDE DEF u
<1>2. u \in WorldType
  BY <1>1, SoundParts, WorldOfParts
<1>3. ASSUME NEW y \in Datas, w.data[y].table # None PROVE Attachment(u, y)
  <2>1. Attachment(w, y)
    BY <1>3, SoundParts
  <2>2. PICK k \in Maps : w.map[k] = y
    BY <2>1 DEF Attachment
  <2>3. \E j \in Maps : u.map[j] = y
    <3>1. CASE k # m
      BY <1>1, <2>2, <3>1, SoundParts
    <3>2. CASE k = m
      <4>1. w.map[m] # None
        BY <2>2, <3>2, SoundParts
      <4>2. PICK j \in Maps \ {m} : w.map[j] = w.map[m]
        BY <4>1
      <4>3. u.map[j] = y
        BY <1>1, <2>2, <3>2, <4>2, SoundParts
      <4> QED BY <4>3
    <3> QED BY <3>1, <3>2
  <2> QED BY <1>1, <2>1, <2>3 DEF Attachment
<1>4. WorldSound(u)
  <2>1. /\ \A x \in Tables : TableSound(w.table[x])
        /\ \A x \in Tables, y \in Datas : y \in w.table[x].maps <=> w.data[y].table = x
    BY SoundParts
  <2> QED BY <1>1, <1>2, <1>3, <2>1 DEF WorldSound
<1> QED BY <1>1, <1>4 DEF u

\* What a step on the map m leaves as it was.
OthersKept(w, u, m) ==
  /\ u.graph = w.graph
  /\ \A x \in Tables : u.table[x].ids = w.table[x].ids /\ (w.table[x].free = <<>> => u.table[x].free = <<>>)
  /\ \A k \in Maps \ {m} : u.map[k] = w.map[k]
  /\ \A k \in Maps \ {m} : w.map[k] # None => u.data[w.map[k]].table = w.data[w.map[k]].table

\* The tables are as in w, but the data d have been detached.
Detached(w, T, d) ==
  LET t == w.data[d].table IN
  /\ T \in [Tables -> TableType] /\ t \in Tables
  /\ \A x \in Tables \ {t} : T[x] = w.table[x]
  /\ T[t].ids = w.table[t].ids
  /\ (\A y : y \in T[t].maps <=> y \in w.table[t].maps /\ y # d)
  /\ T[t].maps # {} => /\ T[t].free = w.table[t].free /\ T[t].agent /\ T[t].n_alloc = w.table[t].n_alloc
                       /\ Total(T[t]) = Total(w.table[t]) /\ EdgesOf(T[t]) = EdgesOf(w.table[t])
  /\ w.table[t].free = <<>> => T[t].free = <<>>
  /\ TableSound(T[t])

(* A table is left by the data d.                                                        *)
LEMMA DetachParts ==
  ASSUME NEW w, WorldSound(w), NEW d \in Datas, w.data[d].table # None
  PROVE  LET u == DetachData(w, d) IN
         u.graph = w.graph /\ u.data = w.data /\ u.map = w.map /\ Detached(w, u.table, d)
<1> DEFINE u == DetachData(w, d)
           t == w.data[d].table
           r == w.table[t]
           left == r.maps \ {d}
           s == IF left = {} THEN [r EXCEPT !.maps = {}, !.agent = FALSE, !.n_alloc = 0, !.free = <<>>]
                             ELSE [r EXCEPT !.maps = left]
<1>1. u = WorldOf(w.graph, [w.table EXCEPT ![t] = s], w.data, w.map)
  BY DEF DetachData
<1>2. /\ t \in Tables /\ r \in TableType /\ TableSound(r) /\ r.maps \in SUBSET Datas /\ d \in r.maps
      /\ w.table \in [Tables -> TableType] /\ r.agent
  BY SoundParts
<1> HIDE DEF r, t, left
<1>3. /\ s \in TableType /\ s.ids = r.ids /\ s.maps = left
      /\ left # {} => s.free = r.free /\ s.agent = r.agent /\ s.n_alloc = r.n_alloc
      /\ left = {} => s.free = <<>> /\ s.agent = FALSE
  <2>1. <<>> \in Seq(Nat) /\ left \in SUBSET Datas
    BY <1>2 DEF left
  <2>2. CASE left = {}
    <3>1. s = [r EXCEPT !.maps = {}, !.agent = FALSE, !.n_alloc = 0, !.free = <<>>]
      BY <2>2
    <3> HIDE DEF s
    <3> QED BY <1>2, <2>1, <2>2, <3>1 DEF TableType
  <2>3. CASE left # {}
    <3>1. s = [r EXCEPT !.maps = left]
      BY <2>3
    <3> HIDE DEF s
    <3> QED BY <1>2, <2>1, <2>3, <3>1 DEF TableType
  <2> QED BY <2>2, <2>3
<1> HIDE DEF s
<1>4. /\ u.graph = w.graph /\ u.data = w.data /\ u.map = w.map /\ u.table = [w.table EXCEPT ![t] = s]
  BY <1>1, WorldOfParts
<1>5. u.table \in [Tables -> TableType] /\ u.table[t] = s /\ \A x \in Tables \ {t} : u.table[x] = w.table[x]
  BY <1>2, <1>3, <1>4
<1>6. left # {} => Total(s) = Total(r) /\ EdgesOf(s) = EdgesOf(r)
  BY <1>3 DEF Total, NEdges, EdgesOf
<1>7. TableSound(s)
  <2>1. CASE left = {}
    BY <1>3, <2>1 DEF TableSound
  <2>2. CASE left # {}
    <3>1. Numbered(r)
      BY <1>2 DEF TableSound
    <3>2. Numbered(s)
      BY <1>3, <1>6, <2>2, <3>1 DEF Numbered
    <3> QED BY <1>2, <1>3, <2>2, <3>2 DEF TableSound
  <2> QED BY <2>1, <2>2
<1>8. \A y : y \in left <=> y \in r.maps /\ y # d
  BY DEF left
<1> HIDE DEF u
<1>9. Detached(w, u.table, d)
  BY <1>2, <1>3, <1>5, <1>6, <1>7, <1>8 DEF t, r, Detached
<1> QED BY <1>4, <1>9 DEF u

(* A map leaves its data; the last one destroys them.                                    *)
LEMMA LeaveSound ==
  ASSUME NEW w, WorldSound(w), NEW m \in Maps
  PROVE  LET u == Leave(w, m) IN
         WorldSound(u) /\ OthersKept(w, u, m) /\ u.map = [w.map EXCEPT ![m] = None]
<1> DEFINE u == Leave(w, m)
           d == w.map[m]
           w1 == Hosting(w, m, None)
           w2 == IF w.data[d].table = None THEN w1 ELSE DetachData(w1, d)
<1>0. /\ w.graph \in [Graphs -> Tables] /\ w.table \in [Tables -> TableType]
      /\ w.data \in [Datas -> DataType] /\ w.map \in [Maps -> Datas \cup {None}]
      /\ None \notin Datas /\ None \notin Tables
  BY SoundParts
<1>1. CASE d = None \/ Refc(w, d) > 1
  <2>1. u = w1
    BY <1>1 DEF Leave
  <2>2. d # None => \E k \in Maps \ {m} : w.map[k] = w.map[m]
    BY <1>1, RefcShared
  <2>3. /\ WorldSound(u) /\ u.graph = w.graph /\ u.table = w.table /\ u.data = w.data
        /\ u.map = [w.map EXCEPT ![m] = None]
    <3>1. WorldSound(w1) /\ w1.graph = w.graph /\ w1.table = w.table /\ w1.data = w.data
      BY <2>2, HostingSound
    <3>2. w1.map = [w.map EXCEPT ![m] = None]
      BY WorldOfParts DEF Hosting
    <3> HIDE DEF u, w1
    <3> QED BY <2>1, <3>1, <3>2
  <2>4. OthersKept(w, u, m)
    <3> HIDE DEF u
    <3> QED BY <1>0, <2>3 DEF OthersKept
  <2> QED BY <2>3, <2>4
<1>2. CASE d # None /\ ~(Refc(w, d) > 1)
  <2>1. d \in Datas
    BY <1>0, <1>2
  <2>2. \A k \in Maps : k # m => w.map[k] # d
    BY <1>2, RefcShared
  <2> DEFINE A == [w2.data EXCEPT ![d] = NoData]
  <2>3. u = WorldOf(w2.graph, w2.table, A, w2.map)
    BY <1>2 DEF Leave
  <2>4. w1.graph = w.graph /\ w1.table = w.table /\ w1.data = w.data /\ w1.map = [w.map EXCEPT ![m] = None]
    BY WorldOfParts DEF Hosting
  <2> DEFINE t == w.data[d].table
  <2>5. t # None =>
           /\ DetachData(w1, d).graph = w.graph /\ DetachData(w1, d).data = w.data
           /\ DetachData(w1, d).table = DetachData(w, d).table /\ DetachData(w1, d).map = w1.map
    <3> DEFINE left == w.table[t].maps \ {d}
               s == IF left = {} THEN [w.table[t] EXCEPT !.maps = {}, !.agent = FALSE, !.n_alloc = 0, !.free = <<>>]
                                 ELSE [w.table[t] EXCEPT !.maps = left]
               T == [w.table EXCEPT ![t] = s]
    <3>1. DetachData(w, d) = WorldOf(w.graph, T, w.data, w.map)
      BY DEF DetachData
    <3>2. DetachData(w1, d) = WorldOf(w1.graph, T, w1.data, w1.map)
      BY <2>4 DEF DetachData
    <3> HIDE DEF T, w1
    <3> QED BY <2>4, <3>1, <3>2, WorldOfParts
  <2>6. /\ u.graph = w.graph /\ u.data = [w.data EXCEPT ![d] = NoData] /\ u.map = [w.map EXCEPT ![m] = None]
        /\ u.table = IF t = None THEN w.table ELSE DetachData(w, d).table
        /\ u = WorldOf(u.graph, u.table, u.data, u.map)
    <3>1. /\ w2.graph = w.graph /\ w2.data = w.data /\ w2.map = [w.map EXCEPT ![m] = None]
          /\ w2.table = IF t = None THEN w.table ELSE DetachData(w, d).table
      BY <2>4, <2>5
    <3>2. /\ u.graph = w2.graph /\ u.data = A /\ u.map = w2.map /\ u.table = w2.table
          /\ u = WorldOf(u.graph, u.table, u.data, u.map)
      <4> HIDE DEF A, w2
      <4> QED BY <2>3, WorldOfParts
    <3> HIDE DEF w2, u, t
    <3> QED BY <3>1, <3>2
  <2>7. t # None => /\ u.table \in [Tables -> TableType] /\ t \in Tables
                    /\ \A x \in Tables \ {t} : u.table[x] = w.table[x]
                    /\ u.table[t].ids = w.table[t].ids
                    /\ (\A y : y \in u.table[t].maps <=> y \in w.table[t].maps /\ y # d)
                    /\ u.table[t].maps # {} =>
                         /\ u.table[t].free = w.table[t].free /\ u.table[t].agent /\ u.table[t].n_alloc = w.table[t].n_alloc
                         /\ Total(u.table[t]) = Total(w.table[t]) /\ EdgesOf(u.table[t]) = EdgesOf(w.table[t])
                    /\ w.table[t].free = <<>> => u.table[t].free = <<>>
                    /\ TableSound(u.table[t])
    <3>1. ASSUME t # None PROVE Detached(w, u.table, d)
      <4>1. Detached(w, DetachData(w, d).table, d)
        BY <2>1, <3>1, DetachParts
      <4>2. u.table = DetachData(w, d).table
        BY <2>6, <3>1
      <4> HIDE DEF u, d
      <4> QED BY <4>1, <4>2
    <3> HIDE DEF u, d
    <3> QED BY <3>1 DEF Detached
  <2>8. t = None => u.table = w.table
    BY <2>6
  <2> HIDE DEF u, w1, w2, A
  <2>9. /\ NoData \in DataType /\ NoData.table = None
        /\ u.data[d] = NoData /\ \A y \in Datas \ {d} : u.data[y] = w.data[y]
        /\ u.map[m] = None /\ \A k \in Maps \ {m} : u.map[k] = w.map[k]
    BY <1>0, <2>1, <2>6, Nothing
  <2>10. u \in WorldType
    <3>1. u.table \in [Tables -> TableType]
      BY <1>0, <2>7, <2>8
    <3>2. u.data \in [Datas -> DataType] /\ u.map \in [Maps -> Datas \cup {None}]
      BY ZenonT(30), <1>0, <2>6, <2>9
    <3> QED BY SMTT(30), <1>0, <2>6, <3>1, <3>2, WorldOfParts
  <2>11. ASSUME NEW x \in Tables PROVE TableSound(u.table[x])
    <3>1. TableSound(w.table[x])
      BY SoundParts
    <3> HIDE DEF t
    <3> QED BY <2>7, <2>8, <3>1
  <2>12. ASSUME NEW x \in Tables, NEW y \in Datas PROVE y \in u.table[x].maps <=> u.data[y].table = x
    <3>1. y \in w.table[x].maps <=> w.data[y].table = x
      BY SoundParts
    <3>2. CASE y = d
      <4>1. y \notin u.table[x].maps
        <5>1. CASE x = t
          <6>1. t # None
            BY <1>0, <5>1
          <6> HIDE DEF t
          <6> QED BY <2>7, <3>2, <5>1, <6>1
        <5>2. CASE x # t
          <6>1. u.table[x] = w.table[x]
            <7> HIDE DEF t
            <7> QED BY <2>7, <2>8, <5>2
          <6> QED BY <3>1, <3>2, <5>2, <6>1
        <5> QED BY <5>1, <5>2
      <4> QED BY <1>0, <2>9, <3>2, <4>1
    <3>3. CASE y # d
      <4> HIDE DEF t
      <4>1. y \in u.table[x].maps <=> y \in w.table[x].maps
        <5>1. CASE t # None /\ x = t
          BY <2>7, <3>3, <5>1
        <5>2. CASE t = None \/ x # t
          BY <2>7, <2>8, <5>2
        <5> QED BY <5>1, <5>2
      <4> QED BY <2>9, <3>1, <3>3, <4>1
    <3> QED BY <3>2, <3>3
  <2>13. ASSUME NEW y \in Datas, u.data[y].table # None PROVE Attachment(u, y)
    <3>1. y # d /\ u.data[y] = w.data[y]
      BY <2>9, <2>13
    <3>2. Attachment(w, y)
      BY <2>13, <3>1, SoundParts
    <3>3. PICK k \in Maps : w.map[k] = y
      BY <3>2 DEF Attachment
    <3>4. k # m /\ u.map[k] = y
      BY <2>9, <3>1, <3>3
    <3>5. DataSound(u.data[y], u.table[u.data[y].table])
      <4> DEFINE x == w.data[y].table
      <4>1. DataSound(w.data[y], w.table[x]) /\ x \in Tables
        BY <1>0, <2>13, <3>1, <3>2, SoundParts DEF Attachment
      <4>2. CASE x = t
        <5>1. t # None /\ y \in u.table[t].maps
          BY SMTT(30), <1>0, <2>12, <3>1, <4>1, <4>2
        <5>2. /\ u.table[x].ids = w.table[x].ids /\ u.table[x].n_alloc = w.table[x].n_alloc
              /\ Total(u.table[x]) = Total(w.table[x]) /\ EdgesOf(u.table[x]) = EdgesOf(w.table[x])
          <6> HIDE DEF t, x
          <6> QED BY <2>7, <4>2, <5>1
        <5>3. DataSound(w.data[y], u.table[x])
          <6> HIDE DEF t, x
          <6> QED BY <4>1, <5>2 DEF DataSound
        <5> QED BY <3>1, <5>3
      <4>3. CASE x # t
        <5>1. u.table[x] = w.table[x]
          <6> HIDE DEF t, x
          <6> QED BY <2>7, <2>8, <4>1, <4>3
        <5> QED BY <3>1, <4>1, <5>1
      <4> QED BY <4>2, <4>3
    <3> QED BY <2>6, <3>1, <3>2, <3>4, <3>5 DEF Attachment
  <2>14. WorldSound(u)
    BY <2>10, <2>11, <2>12, <2>13 DEF WorldSound
  <2>15. OthersKept(w, u, m)
    <3>1. \A k \in Maps \ {m} : w.map[k] # None => u.data[w.map[k]] = w.data[w.map[k]]
      BY <1>0, <2>2, <2>9
    <3>2. ASSUME NEW x \in Tables
          PROVE  u.table[x].ids = w.table[x].ids /\ (w.table[x].free = <<>> => u.table[x].free = <<>>)
      <4> HIDE DEF t
      <4> QED BY <2>7, <2>8
    <3> QED BY <2>6, <2>9, <3>1, <3>2 DEF OthersKept
  <2> QED BY <2>6, <2>14, <2>15 DEF u
<1> QED BY <1>1, <1>2

(***************************************************************************)
(* Copies of map data.                                                     *)
(***************************************************************************)

(* Two iterators that run over the same numbers copy every entry.                        *)
LEMMA CopiedSound ==
  ASSUME NEW val \in Vals, NEW from \in Ids, NEW to \in Ids, to = from \/ DOMAIN to = {},
         IsInjective(from), DOMAIN val = Range(from), \A e \in DOMAIN from : val[from[e]] = e
  PROVE  /\ Copied(val, from, to) \in Vals /\ DOMAIN Copied(val, from, to) = Range(to)
         /\ \A e \in DOMAIN to : Copied(val, from, to)[to[e]] = e
<1> DEFINE src == InOrder(DOMAIN from)
           dst == InOrder(DOMAIN to)
           Read(k) == IF k <= Len(src) /\ from[src[k]] \in DOMAIN val THEN val[from[src[k]]] ELSE Junk
           At(i) == Max({k \in DOMAIN dst : to[dst[k]] = i})
           c == [i \in Range(to) |-> Read(At(i))]
<1>1. Copied(val, from, to) = c
  BY DEF Copied
<1>2. /\ from \in [DOMAIN from -> Nat] /\ to \in [DOMAIN to -> Nat] /\ val \in [DOMAIN val -> Edges]
      /\ DOMAIN from \in SUBSET Nat /\ IsFiniteSet(DOMAIN from) /\ DOMAIN to \in SUBSET Nat /\ IsFiniteSet(DOMAIN to)
      /\ DOMAIN from \in SUBSET Edges /\ DOMAIN to \in SUBSET Edges
  BY IdsFacts, ValsFacts
<1>3. ASSUME NEW e \in DOMAIN to PROVE to[e] \in Range(to) /\ Read(At(to[e])) = e
  <2>1. to = from
    BY <1>3
  <2> DEFINE n == Cardinality(DOMAIN from)
  <2>2. /\ n \in Nat /\ DOMAIN src = 1 .. n /\ Len(src) = n
        /\ \A k \in 1 .. n : src[k] \in DOMAIN from
        /\ \A x \in DOMAIN from : \E k \in 1 .. n : src[k] = x
        /\ \A j, k \in 1 .. n : src[j] = src[k] => j = k
    BY <1>2, Listed
  <2> HIDE DEF src, n
  <2>3. dst = src
    BY <2>1 DEF src
  <2> HIDE DEF dst
  <2>4. PICK k \in 1 .. n : src[k] = e
    BY <1>3, <2>1, <2>2
  <2>5. \A j \in 1 .. n : to[dst[j]] = to[e] => j = k
    BY <1>3, <2>1, <2>2, <2>3, <2>4 DEF IsInjective
  <2>6. \A j : j \in {x \in DOMAIN dst : to[dst[x]] = to[e]} <=> j \in {k}
    BY <2>2, <2>3, <2>4, <2>5
  <2>7. At(to[e]) = Max({k})
    <3>1. {x \in DOMAIN dst : to[dst[x]] = to[e]} = {k}
      BY <2>6
    <3> QED BY <3>1
  <2>8. Max({k}) = k
    BY <2>4 DEF Max
  <2>9. Read(k) = val[from[e]]
    <3>1. k <= Len(src) /\ from[src[k]] = from[e] /\ from[e] \in DOMAIN val
      BY <1>3, <2>1, <2>2, <2>4 DEF Range
    <3> QED BY <3>1
  <2> HIDE DEF At, Read
  <2> QED BY <1>3, <2>1, <2>7, <2>8, <2>9 DEF Range
<1> HIDE DEF At, Read
<1>4. \A i \in Range(to) : c[i] \in Edges
  <2> SUFFICES ASSUME NEW i \in Range(to) PROVE c[i] \in Edges
    OBVIOUS
  <2>1. PICK e \in DOMAIN to : i = to[e]
    BY DEF Range
  <2> QED BY <1>2, <1>3, <2>1
<1>5. \A e \in DOMAIN to : c[to[e]] = e
  BY <1>3
<1>6. Range(to) \in SUBSET Nat
  BY <1>2 DEF Range
<1>7. DOMAIN c = Range(to) /\ c \in [Range(to) -> Edges]
  BY <1>4
<1> HIDE DEF c
<1>8. c \in Vals
  BY <1>6, <1>7, ValsIntro
<1> QED BY <1>1, <1>5, <1>7, <1>8

\* The map m has got data of its own, attached to t.
CopiedTo(w, u, m, t) ==
  /\ OthersKept(w, u, m)
  /\ u.map[m] \in Datas /\ u.data[u.map[m]].table = t
  /\ \A x \in Tables \ {t} : u.table[x] = w.table[x]
  /\ u.table[t].agent

\* A new map on t finds numbers without gaps, or edges without numbers.
Enumerable(r) == r.free = <<>> /\ (r.agent \/ Exact(r.ids, <<>>, NEdges(r)))

(* A map that shares its data gets data of its own.                                      *)
LEMMA CopySound ==
  ASSUME NEW w, WorldSound(w), NEW m \in Maps, w.map[m] # None, w.data[w.map[m]].table # None,
         NEW k \in Maps \ {m}, w.map[k] = w.map[m],
         NEW t \in Tables, NEW h \in Graphs, w.graph[h] = t, Enumerable(w.table[t]),
         w.table[t].ids = w.table[w.data[w.map[m]].table].ids \/ EdgesOf(w.table[t]) = {}
  PROVE  WorldSound(CopyData(w, m, t)) /\ CopiedTo(w, CopyData(w, m, t), m, t)
<1> DEFINE v == Hosting(w, m, None)
           d == w.map[m]
           o == w.data[d].table
           r == WithAgent(v.table[t], TRUE)
           w1 == NewData(v, m, t, TRUE)
           n == NextData(v)
           val == Copied(w.data[d].val, w.table[o].ids, w.table[t].ids)
           u == CopyData(w, m, t)
<1>1. WorldSound(v) /\ v.graph = w.graph /\ v.table = w.table /\ v.data = w.data /\ v.map = [w.map EXCEPT ![m] = None]
  <2>1. WorldSound(v) /\ v.graph = w.graph /\ v.table = w.table /\ v.data = w.data
    BY HostingSound
  <2>2. v.map = [w.map EXCEPT ![m] = None]
    BY WorldOfParts DEF Hosting
  <2> HIDE DEF v
  <2> QED BY <2>1, <2>2
<1>2. /\ w.graph \in [Graphs -> Tables] /\ w.table \in [Tables -> TableType]
      /\ w.data \in [Datas -> DataType] /\ w.map \in [Maps -> Datas \cup {None}]
      /\ d \in Datas /\ o \in Tables /\ Attachment(w, d) /\ v \in WorldType
      /\ w.table[t] \in TableType /\ TableSound(w.table[t]) /\ w.table[o] \in TableType /\ TableSound(w.table[o])
      /\ w.data[d] \in DataType /\ w.table[o].maps # {}
  <2>1. d \in Datas
    BY SoundParts
  <2>2. o \in Tables
    BY <2>1, SoundParts
  <2>3. d \in w.table[o].maps
    BY SMTT(30), <2>1, <2>2, SoundParts
  <2> HIDE DEF v
  <2>4. v \in WorldType
    BY <1>1 DEF WorldSound
  <2>5. Attachment(w, d) /\ w.data[d] \in DataType
    BY <2>1, SoundParts
  <2> HIDE DEF o, d
  <2>6. w.table[o] \in TableType /\ TableSound(w.table[o]) /\ w.table[t] \in TableType /\ TableSound(w.table[t])
    BY <2>2, SoundParts
  <2> QED BY <2>1, <2>2, <2>3, <2>4, <2>5, <2>6, SoundParts
<1>3. /\ r \in TableType /\ r.agent /\ Numbered(r) /\ r.free = <<>> /\ r.maps = w.table[t].maps
      /\ r.ids = w.table[t].ids /\ (r.maps # {} => r = w.table[t])
  <2> DEFINE x == w.table[t]
  <2>1. CASE x.agent
    <3>1. r = x
      BY <1>1, <2>1 DEF WithAgent
    <3> QED BY <1>2, <2>1, <3>1 DEF TableSound, Enumerable
  <2>2. CASE ~x.agent
    <3>1. Exact(x.ids, <<>>, NEdges(x)) /\ x.free = <<>> /\ x.maps = {} /\ x \in TableType
      BY <1>2, <2>2 DEF TableSound, Enumerable
    <3>2. r = WithAgent(x, TRUE)
      BY <1>1
    <3> HIDE DEF x, r
    <3> QED BY <2>2, <3>1, <3>2, AgentKeeps DEF x
  <2> QED BY <2>1, <2>2
<1>4. v.map[m] = None
  BY <1>1, <1>2
<1>5. w1 = Fresh(v, m, t, r, NoEntries)
  BY <1>2, NewDataParts
<1> DEFINE s == [r EXCEPT !.maps = r.maps \cup {n}]
<1>6. /\ w1.table = [v.table EXCEPT ![t] = s] /\ w1.map = [v.map EXCEPT ![m] = n] /\ s.ids = r.ids /\ s.free = r.free /\ s.agent = r.agent
  <2>1. /\ w1.table = [v.table EXCEPT ![t] = s] /\ w1.map = [v.map EXCEPT ![m] = n]
    <3> DEFINE E == [table |-> t, n_alloc |-> r.n_alloc, buckets |-> 0 .. CeilDiv(NEdges(r)) - 1, val |-> NoEntries]
    <3>1. w1 = WorldOf(v.graph, [v.table EXCEPT ![t] = s], [v.data EXCEPT ![n] = E], [v.map EXCEPT ![m] = n])
      <4> HIDE DEF w1, v, r
      <4> QED BY <1>5 DEF Fresh
    <3> HIDE DEF w1, v, s, n, E
    <3> QED BY <3>1, WorldOfParts
  <2>2. s.ids = r.ids /\ s.free = r.free /\ s.agent = r.agent
    <3> HIDE DEF r, n
    <3> QED BY <1>3 DEF TableType
  <2> QED BY <2>1, <2>2
<1>7. w1.table[t].ids = w.table[t].ids /\ w1.map[m] = n
  <2> HIDE DEF w1, s, r, v, n
  <2> QED BY <1>1, <1>2, <1>3, <1>6
<1>8. u = WorldOf(w1.graph, w1.table, [w1.data EXCEPT ![n].val = val], w1.map)
  <2>1. u = WorldOf(w1.graph, w1.table,
                    [w1.data EXCEPT ![w1.map[m]].val = Copied(w.data[d].val, w.table[o].ids, w1.table[t].ids)], w1.map)
    BY DEF CopyData
  <2> HIDE DEF u, w1, n
  <2> QED BY <1>7, <2>1
<1>9. u = Fresh(v, m, t, r, val)
  <2> HIDE DEF u, w1, r, v, val
  <2>1. Filled(v, w1, val) = Fresh(v, m, t, r, val)
    <3>1. v \in WorldType /\ r \in TableType
      BY <1>2, <1>3
    <3>2. Filled(v, Fresh(v, m, t, r, NoEntries), val) = Fresh(v, m, t, r, val)
      BY ONLY <3>1, m \in Maps, t \in Tables, FreshFilled
    <3> QED BY <1>5, <3>2
  <2> QED BY <1>8, <2>1 DEF Filled
<1>10. val \in Vals /\ DOMAIN val = Range(r.ids) /\ \A e \in EdgesOf(r) : val[r.ids[e]] = e
  <2>1. /\ w.data[d].val \in Vals /\ w.table[o].ids \in Ids /\ w.table[t].ids \in Ids
    BY <1>2, TableParts, DataParts
  <2>2. IsInjective(w.table[o].ids)
    <3>1. w.table[o].agent
      <4> HIDE DEF o
      <4> QED BY <1>2, SoundParts
    <3> HIDE DEF o
    <3> QED BY <1>2, <3>1 DEF TableSound, Numbered, Exact
  <2>3. DOMAIN w.data[d].val = Range(w.table[o].ids) /\ \A e \in DOMAIN w.table[o].ids : w.data[d].val[w.table[o].ids[e]] = e
    BY <1>2 DEF Attachment, DataSound, EdgesOf
  <2>4. w.table[t].ids = w.table[o].ids \/ DOMAIN w.table[t].ids = {}
    BY DEF EdgesOf
  <2>5. /\ val \in Vals /\ DOMAIN val = Range(w.table[t].ids)
        /\ \A e \in DOMAIN w.table[t].ids : val[w.table[t].ids[e]] = e
    <3> HIDE DEF d, o
    <3> QED BY <2>1, <2>2, <2>3, <2>4, CopiedSound
  <2> HIDE DEF val, r
  <2> QED BY <1>3, <2>5 DEF EdgesOf
<1>11. WorldSound(u)
  <2> HIDE DEF u, r, val, v
  <2> QED BY <1>1, <1>3, <1>4, <1>9, <1>10, FreshSound
<1> DEFINE D == [table |-> t, n_alloc |-> r.n_alloc, buckets |-> 0 .. CeilDiv(NEdges(r)) - 1, val |-> val]
<1>12. /\ u.graph = w.graph /\ u.table = [w.table EXCEPT ![t] = s]
       /\ u.data = [w.data EXCEPT ![n] = D] /\ u.map = [v.map EXCEPT ![m] = n]
  <2>1. Fresh(v, m, t, r, val) = WorldOf(v.graph, [v.table EXCEPT ![t] = s], [v.data EXCEPT ![n] = D], [v.map EXCEPT ![m] = n])
    BY DEF Fresh
  <2> HIDE DEF u, r, val, v, D, s, n
  <2> QED BY <1>1, <1>9, <2>1, WorldOfParts
<1>13. D.table = t
  OBVIOUS
<1>14. n \in Datas /\ \A j \in Maps : v.map[j] # n
  <2> HIDE DEF v
  <2> QED BY <1>2, NextFree
<1>15. CopiedTo(w, u, m, t)
  <2> HIDE DEF u, v, r, s, D, n, val
  <2>1. \A j \in Maps \ {m} : u.map[j] = w.map[j] /\ w.map[j] # n
    BY ZenonT(30), <1>1, <1>2, <1>12, <1>14
  <2>2. \A x \in Tables \ {t} : u.table[x] = w.table[x]
    BY <1>2, <1>12
  <2>3. u.table[t] = s /\ u.map[m] = n /\ u.data[n] = D
    BY <1>1, <1>2, <1>12, <1>14
  <2>4. \A x \in Tables : u.table[x].ids = w.table[x].ids /\ (w.table[x].free = <<>> => u.table[x].free = <<>>)
    BY <1>3, <1>6, <2>2, <2>3
  <2>5. \A j \in Maps \ {m} : w.map[j] # None => u.data[w.map[j]].table = w.data[w.map[j]].table
    BY ZenonT(30), <1>2, <1>12, <2>1
  <2> QED BY <1>3, <1>6, <1>12, <1>13, <1>14, <2>1, <2>2, <2>3, <2>4, <2>5 DEF CopiedTo, OthersKept
<1> QED BY <1>11, <1>15

(***************************************************************************)
(* A map is attached to a graph.                                           *)
(***************************************************************************)

(* Every edge gets its entry.                                                            *)
LEMMA InitialisedSound ==
  ASSUME NEW val \in Vals, NEW ids \in Ids, IsInjective(ids), DOMAIN val \in SUBSET Range(ids)
  PROVE  /\ Initialised(val, ids) \in Vals /\ DOMAIN Initialised(val, ids) = Range(ids)
         /\ \A e \in DOMAIN ids : Initialised(val, ids)[ids[e]] = e
<1> DEFINE At(i) == CHOOSE e \in DOMAIN ids : ids[e] = i
           S == Range(ids) \cup DOMAIN val
           c == [i \in S |-> IF i \in Range(ids) THEN At(i) ELSE val[i]]
<1>1. Initialised(val, ids) = c
  BY DEF Initialised
<1>2. ids \in [DOMAIN ids -> Nat] /\ DOMAIN ids \in SUBSET Edges
  BY IdsFacts
<1>3. \A e \in DOMAIN ids : ids[e] \in Range(ids) /\ At(ids[e]) = e
  <2> SUFFICES ASSUME NEW e \in DOMAIN ids PROVE ids[e] \in Range(ids) /\ At(ids[e]) = e
    OBVIOUS
  <2>1. \E x \in DOMAIN ids : ids[x] = ids[e]
    OBVIOUS
  <2>2. At(ids[e]) \in DOMAIN ids /\ ids[At(ids[e])] = ids[e]
    BY <2>1
  <2> HIDE DEF At
  <2> QED BY <2>2 DEF IsInjective, Range
<1> HIDE DEF At
<1>4. S = Range(ids)
  OBVIOUS
<1>5. \A i \in Range(ids) : At(i) \in Edges
  BY <1>2, <1>3 DEF Range
<1>6. DOMAIN c = Range(ids) /\ \A i \in Range(ids) : c[i] = At(i)
  BY <1>4
<1>7. Range(ids) \in SUBSET Nat
  BY <1>2 DEF Range
<1>8. c \in [Range(ids) -> Edges]
  <2>1. c = [i \in Range(ids) |-> c[i]]
    BY <1>4
  <2> HIDE DEF c
  <2> QED BY <1>5, <1>6, <2>1
<1> HIDE DEF c
<1>9. c \in Vals
  BY <1>7, <1>8, ValsIntro
<1> QED BY <1>1, <1>3, <1>6, <1>9

\* The edges of every table, and the other maps, are as before.
OthersStay(w, u, m) ==
  /\ u.graph = w.graph
  /\ \A x \in Tables : EdgesOf(u.table[x]) = EdgesOf(w.table[x])
  /\ \A k \in Maps \ {m} : u.map[k] = w.map[k]
  /\ \A k \in Maps \ {m} : w.map[k] # None => u.data[w.map[k]].table = w.data[w.map[k]].table

\* m leaves the data it has and is attached to t.
AttachedAnew(w, m, t) == LET x == NewData(Leave(w, m), m, t, FALSE) IN InitEntries(x, x.map[m])

(* A map gets data of its own with an entry for every edge.                              *)
LEMMA AttachSound ==
  ASSUME NEW w, WorldSound(w), NEW m \in Maps, NEW t \in Tables, NEW h \in Graphs, w.graph[h] = t,
         w.table[t].free = <<>>
  PROVE  LET u == AttachedAnew(w, m, t) IN
         /\ WorldSound(u) /\ OthersStay(w, u, m)
         /\ u.map[m] \in Datas /\ u.data[u.map[m]].table = t
<1> DEFINE v == Leave(w, m)
           r == WithAgent(v.table[t], FALSE)
           n == NextData(v)
           s == [r EXCEPT !.maps = r.maps \cup {n}]
           B == 0 .. CeilDiv(NEdges(r)) - 1
           E == [table |-> t, n_alloc |-> r.n_alloc, buckets |-> B, val |-> NoEntries]
           val == Initialised(NoEntries, r.ids)
           D == [table |-> t, n_alloc |-> r.n_alloc, buckets |-> B, val |-> val]
           x == NewData(v, m, t, FALSE)
           u == InitEntries(x, x.map[m])
<1>1. WorldSound(v) /\ OthersKept(w, v, m) /\ v.map = [w.map EXCEPT ![m] = None]
  BY LeaveSound
<1> HIDE DEF v
<1>2. /\ v.graph = w.graph /\ v.table \in [Tables -> TableType]
      /\ v.data \in [Datas -> DataType] /\ v.map \in [Maps -> Datas \cup {None}]
      /\ v.table[t] \in TableType /\ TableSound(v.table[t]) /\ v.table[t].free = <<>>
      /\ v \in WorldType /\ v.map[m] = None
  <2>1. v.map[m] = None
    BY <1>1, SoundParts
  <2> QED BY <1>1, <2>1, SoundParts DEF OthersKept
<1>3. /\ r \in TableType /\ r.agent /\ Numbered(r) /\ r.free = <<>> /\ r.maps = v.table[t].maps
      /\ EdgesOf(r) = EdgesOf(v.table[t]) /\ (r.maps # {} => r = v.table[t])
  <2> DEFINE y == v.table[t]
  <2>1. CASE y.agent
    <3>1. r = y
      BY <2>1 DEF WithAgent
    <3> QED BY <1>2, <2>1, <3>1 DEF TableSound
  <2>2. CASE ~y.agent
    <3>1. y.free = <<>> /\ y.maps = {} /\ y \in TableType
      BY <1>2, <2>2 DEF TableSound
    <3>2. r = WithAgent(y, FALSE)
      OBVIOUS
    <3> HIDE DEF y, r
    <3> QED BY <2>2, <3>1, <3>2, AgentNumbers DEF y
  <2> QED BY <2>1, <2>2
<1>4. x = Fresh(v, m, t, r, NoEntries)
  BY <1>2, NewDataParts
<1> HIDE DEF r
<1>5. n \in Datas /\ \A k \in Maps : v.map[k] # n
  BY <1>2, NextFree
<1>6. x = WorldOf(v.graph, [v.table EXCEPT ![t] = s], [v.data EXCEPT ![n] = E], [v.map EXCEPT ![m] = n])
  <2> HIDE DEF x
  <2> QED BY <1>4 DEF Fresh
<1>7. s.ids = r.ids /\ s.maps = r.maps \cup {n}
  <2> HIDE DEF n
  <2> QED BY <1>3 DEF TableType
<1>8. E.table = t /\ E.val = NoEntries /\ D.table = t
  OBVIOUS
<1> HIDE DEF x, s, E, D, n
<1>9. x.graph = v.graph /\ x.table = [v.table EXCEPT ![t] = s] /\ x.data = [v.data EXCEPT ![n] = E] /\ x.map = [v.map EXCEPT ![m] = n]
  BY <1>6, WorldOfParts
<1>10. x.map[m] = n /\ x.data[n] = E /\ x.table[t] = s
  BY <1>2, <1>5, <1>9
<1>11. u = WorldOf(x.graph, x.table, [x.data EXCEPT ![n].val = val], x.map)
  <2>1. u = WorldOf(x.graph, x.table, [x.data EXCEPT ![n].val = Initialised(x.data[n].val, x.table[x.data[n].table].ids)], x.map)
    BY <1>10 DEF InitEntries
  <2>2. x.data[n].val = NoEntries /\ x.table[x.data[n].table].ids = r.ids
    BY <1>7, <1>8, <1>10
  <2> HIDE DEF u
  <2> QED BY <2>1, <2>2
<1> HIDE DEF u, val
<1>12. u = Fresh(v, m, t, r, val)
  <2>1. Filled(v, Fresh(v, m, t, r, NoEntries), val) = Fresh(v, m, t, r, val)
    BY <1>2, <1>3, FreshFilled
  <2> QED BY <1>4, <1>11, <2>1 DEF Filled, n
<1>13. val \in Vals /\ DOMAIN val = Range(r.ids) /\ \A e \in EdgesOf(r) : val[r.ids[e]] = e
  <2>1. NoEntries \in Vals /\ DOMAIN NoEntries = {} /\ r.ids \in Ids /\ IsInjective(r.ids)
    BY <1>3, Nothing, TableParts DEF Numbered, Exact
  <2>2. /\ Initialised(NoEntries, r.ids) \in Vals /\ DOMAIN Initialised(NoEntries, r.ids) = Range(r.ids)
        /\ \A e \in DOMAIN r.ids : Initialised(NoEntries, r.ids)[r.ids[e]] = e
    BY <2>1, InitialisedSound
  <2> QED BY <2>2 DEF val, EdgesOf
<1>14. WorldSound(u)
  BY <1>1, <1>2, <1>3, <1>12, <1>13, FreshSound
<1>15. u.graph = v.graph /\ u.table = [v.table EXCEPT ![t] = s] /\ u.data = [v.data EXCEPT ![n] = D] /\ u.map = [v.map EXCEPT ![m] = n]
  <2>1. u = WorldOf(v.graph, [v.table EXCEPT ![t] = s], [v.data EXCEPT ![n] = D], [v.map EXCEPT ![m] = n])
    BY <1>12 DEF Fresh, s, D, n
  <2> QED BY <2>1, WorldOfParts
<1>16. /\ u.map[m] = n /\ u.data[n] = D /\ u.table[t] = s
       /\ \A k \in Maps \ {m} : u.map[k] = v.map[k]
       /\ \A y \in Tables \ {t} : u.table[y] = v.table[y]
       /\ \A y \in Datas \ {n} : u.data[y] = v.data[y]
  BY <1>2, <1>5, <1>15
<1>17. \A y \in Tables : EdgesOf(u.table[y]) = EdgesOf(v.table[y])
  BY <1>3, <1>7, <1>16 DEF EdgesOf
<1>18. \A y \in Tables : EdgesOf(v.table[y]) = EdgesOf(w.table[y])
  BY <1>1 DEF OthersKept, EdgesOf
<1>19. \A k \in Maps \ {m} : v.map[k] = w.map[k]
                             /\ (w.map[k] # None => /\ w.map[k] \in Datas \ {n}
                                                    /\ v.data[w.map[k]].table = w.data[w.map[k]].table)
  BY <1>1, <1>2, <1>5 DEF OthersKept
<1>20. OthersStay(w, u, m)
  BY <1>2, <1>15, <1>16, <1>17, <1>18, <1>19 DEF OthersStay
<1> QED BY <1>5, <1>8, <1>14, <1>16, <1>20 DEF u, x, v, AttachedAnew

(***************************************************************************)
(* A graph that shares its table gets one of its own, and takes its maps   *)
(* along.                                                                  *)
(***************************************************************************)

(* Nothing is attached to a table without a graph.                                       *)
LEMMA Unhosted ==
  ASSUME NEW w, WorldSound(w), NEW t \in Tables, \A h \in Graphs : w.graph[h] # t
  PROVE  w.table[t].maps = {} /\ \A d \in Datas : w.data[d].table # t
<1>1. ASSUME NEW d \in Datas, w.data[d].table = t PROVE FALSE
  <2>1. w.data[d].table # None
    BY <1>1, SoundParts
  <2>2. Attachment(w, d)
    BY <2>1, SoundParts
  <2> QED BY <1>1, <2>2 DEF Attachment
<1>2. w.table[t].maps \in SUBSET Datas /\ \A d \in Datas : d \in w.table[t].maps <=> w.data[d].table = t
  BY SoundParts
<1> QED BY <1>1, <1>2

(* A graph moves to an unused table, with or without its edges.                          *)
LEMMA MovedSound ==
  ASSUME NEW w, WorldSound(w), NEW g \in Graphs, NEW h \in Graphs \ {g}, w.graph[h] = w.graph[g],
         NEW t \in Tables, \A x \in Graphs : w.graph[x] # t,
         NEW r \in TableType, TableSound(r), r.maps = {}
  PROVE  LET u == Moved(w, g, t, r) IN
         /\ WorldSound(u) /\ u.data = w.data /\ u.map = w.map
         /\ u.graph = [w.graph EXCEPT ![g] = t] /\ u.table = [w.table EXCEPT ![t] = r]
<1> DEFINE u == Moved(w, g, t, r)
<1>0. /\ u.graph = [w.graph EXCEPT ![g] = t] /\ u.table = [w.table EXCEPT ![t] = r] /\ u.data = w.data /\ u.map = w.map
      /\ u = WorldOf(u.graph, u.table, u.data, u.map)
  BY WorldOfParts DEF Moved
<1> HIDE DEF u
<1>1. /\ w.graph \in [Graphs -> Tables] /\ w.table \in [Tables -> TableType]
      /\ w.data \in [Datas -> DataType] /\ w.map \in [Maps -> Datas \cup {None}]
  BY SoundParts
<1>2. w.table[t].maps = {} /\ \A d \in Datas : w.data[d].table # t
  BY Unhosted
<1>3. /\ u.table[t] = r /\ \A x \in Tables \ {t} : u.table[x] = w.table[x]
      /\ u.graph[g] = t /\ \A x \in Graphs \ {g} : u.graph[x] = w.graph[x]
  BY <1>0, <1>1
<1>4. u \in WorldType
  <2>1. u.table \in [Tables -> TableType] /\ u.graph \in [Graphs -> Tables]
    BY <1>0, <1>1
  <2> QED BY <1>0, <1>1, <2>1, WorldOfParts
<1>5. \A x \in Tables : TableSound(u.table[x])
  BY <1>3, SoundParts
<1>6. \A x \in Tables, y \in Datas : y \in u.table[x].maps <=> u.data[y].table = x
  BY <1>0, <1>2, <1>3, SoundParts
<1>7. ASSUME NEW y \in Datas, u.data[y].table # None PROVE Attachment(u, y)
  <2>1. Attachment(w, y) /\ w.data[y].table \in Tables
    BY <1>0, <1>7, SoundParts
  <2>2. u.table[u.data[y].table] = w.table[w.data[y].table]
    BY <1>0, <1>2, <1>3, <2>1
  <2>3. PICK x \in Graphs : w.graph[x] = w.data[y].table
    BY <2>1 DEF Attachment
  <2>4. \E z \in Graphs : u.graph[z] = u.data[y].table
    BY <1>0, <1>3, <2>3
  <2> QED BY <1>0, <2>1, <2>2, <2>4 DEF Attachment
<1>8. WorldSound(u)
  BY <1>4, <1>5, <1>6, <1>7 DEF WorldSound
<1> QED BY <1>0, <1>8 DEF u

\* The maps of g that have data; those in S have parted with the other graphs, whose tables
\* and maps are as in w.
MapsOf(w, g) == {m \in Registered(g) : w.map[m] # None}
Parted(w, v, t, S, own) ==
  /\ WorldSound(v) /\ v.graph = w.graph
  /\ \A x \in Tables \ {t} : v.table[x] = w.table[x]
  /\ v.table[t].ids = w.table[t].ids /\ (own # {} => Enumerable(v.table[t]))
  /\ \A m \in Maps \ S : v.map[m] = w.map[m]
  /\ \A m \in Maps \ S : w.map[m] # None => v.data[w.map[m]].table = w.data[w.map[m]].table
  /\ \A m \in S : v.map[m] \in Datas /\ v.data[v.map[m]].table = t
  /\ S \subseteq own

\* Every map of g that has data is attached to a table t's edges come from, and another
\* map, not of g, has the same data.
MayPart(w, t, own) ==
  \A m \in own : /\ w.map[m] # None /\ w.data[w.map[m]].table # None
                 /\ \E k \in Maps \ own : w.map[k] = w.map[m]
                 /\ w.data[w.map[m]].table # t
                 /\ w.table[t].ids = w.table[w.data[w.map[m]].table].ids \/ EdgesOf(w.table[t]) = {}

(* The next map of g gets a copy of its data.                                            *)
LEMMA PartedStep ==
  ASSUME NEW w, WorldSound(w), NEW t \in Tables, NEW g \in Graphs, w.graph[g] = t,
         NEW own \in SUBSET Maps, MayPart(w, t, own),
         NEW S \in SUBSET own, NEW m \in S, NEW v, Parted(w, v, t, S \ {m}, own)
  PROVE  Parted(w, DivorceMap(v, m, t), t, S, own)
<1> DEFINE u == DivorceMap(v, m, t)
           d == w.map[m]
           T == S \ {m}
<1>1. m \in own /\ m \in Maps \ T /\ m \in Maps
  OBVIOUS
<1>2. /\ d # None /\ w.data[d].table # None /\ w.data[d].table # t
      /\ w.table[t].ids = w.table[w.data[d].table].ids \/ EdgesOf(w.table[t]) = {}
  BY DEF MayPart
<1>3. PICK k \in Maps \ own : w.map[k] = d
  BY DEF MayPart
<1>4. k \in Maps \ T /\ k \in Maps \ {m}
  OBVIOUS
<1>5. /\ WorldSound(v) /\ v.graph = w.graph
      /\ \A x \in Tables \ {t} : v.table[x] = w.table[x]
      /\ v.table[t].ids = w.table[t].ids /\ Enumerable(v.table[t])
      /\ \A j \in Maps \ T : v.map[j] = w.map[j]
      /\ \A j \in Maps \ T : w.map[j] # None => v.data[w.map[j]].table = w.data[w.map[j]].table
      /\ \A j \in T : v.map[j] \in Datas /\ v.data[v.map[j]].table = t
  BY DEF Parted
<1>6. v.map[m] = d /\ v.map[k] = d /\ v.data[d].table = w.data[d].table
  BY <1>1, <1>2, <1>3, <1>4, <1>5
<1>7. u = CopyData(v, m, t)
  <2>1. Refc(v, v.map[m]) > 1
    BY <1>4, <1>6, RefcShared
  <2> HIDE DEF d
  <2> QED BY <1>6, <2>1 DEF DivorceMap
<1>8. w.data[d].table \in Tables \ {t} /\ d \in Datas
  BY SMTT(30), <1>2, SoundParts
<1>9. v.table[t].ids = v.table[v.data[v.map[m]].table].ids \/ EdgesOf(v.table[t]) = {}
  BY SMTT(30), <1>2, <1>5, <1>6, <1>8 DEF EdgesOf
<1> HIDE DEF u, d
<1>10. WorldSound(u) /\ CopiedTo(v, u, m, t)
  BY <1>1, <1>2, <1>4, <1>5, <1>6, <1>7, <1>9, CopySound
<1>11. /\ u.graph = v.graph
       /\ \A x \in Tables : u.table[x].ids = v.table[x].ids /\ (v.table[x].free = <<>> => u.table[x].free = <<>>)
       /\ \A j \in Maps \ {m} : u.map[j] = v.map[j]
       /\ \A j \in Maps \ {m} : v.map[j] # None => u.data[v.map[j]].table = v.data[v.map[j]].table
       /\ u.map[m] \in Datas /\ u.data[u.map[m]].table = t
       /\ \A x \in Tables \ {t} : u.table[x] = v.table[x]
       /\ u.table[t].agent
  BY <1>10 DEF CopiedTo, OthersKept
<1>12. u.table[t].ids = w.table[t].ids /\ Enumerable(u.table[t])
  BY <1>5, <1>11 DEF Enumerable
<1>13. \A j \in Maps \ S : u.map[j] = w.map[j] /\ (w.map[j] # None => u.data[w.map[j]].table = w.data[w.map[j]].table)
  BY <1>5, <1>11
<1>14. \A j \in S : u.map[j] \in Datas /\ u.data[u.map[j]].table = t
  <2> SUFFICES ASSUME NEW j \in S PROVE u.map[j] \in Datas /\ u.data[u.map[j]].table = t
    OBVIOUS
  <2>1. CASE j = m
    BY <1>11, <2>1
  <2>2. CASE j # m
    <3>1. j \in T /\ j \in Maps \ {m}
      BY <2>2
    <3>2. v.map[j] # None
      BY <1>5, <3>1, ObjectsAssumption
    <3> QED BY <1>5, <1>11, <3>1, <3>2
  <2> QED BY <2>1, <2>2
<1>15. Parted(w, u, t, S, own)
  BY <1>5, <1>10, <1>11, <1>12, <1>13, <1>14 DEF Parted
<1> QED BY <1>15 DEF u

(* divorce_maps: all maps of g move to its new table.                                    *)
LEMMA NewBodyParted ==
  ASSUME NEW w, NEW g \in Graphs, NEW r,
         LET t == NextTable(w)
             u == Moved(w, g, t, r)
         IN  /\ t \in Tables
             /\ WorldSound(u) /\ u.graph[g] = t
             /\ MayPart(u, t, MapsOf(w, g))
             /\ MapsOf(w, g) # {} => Enumerable(u.table[t])
  PROVE  Parted(Moved(w, g, NextTable(w), r), NewBody(w, g, r), NextTable(w), MapsOf(w, g), MapsOf(w, g))
<1> DEFINE t == NextTable(w)
           S == MapsOf(w, g)
           base == Moved(w, g, t, r)
           E == WorldType
           op(m, v) == DivorceMap(v, m, t)
           next == [s \in SUBSET S |-> CHOOSE x \in s : TRUE]
           step == [q \in S \X E |-> op(q[1], q[2])]
           Eq(h) == h = [s \in SUBSET S |-> IF s = {} THEN base
                                            ELSE op(CHOOSE x \in s : TRUE, h[s \ {CHOOSE x \in s : TRUE}])]
           f == CHOOSE h : Eq(h)
           Good == {z \in (SUBSET S) \X E : Parted(base, z[2], t, z[1], S)}
<1>0. IsFiniteSet(S) /\ S \in SUBSET Maps
  <2>1. S \in SUBSET Maps
    BY DEF MapsOf, Registered
  <2> HIDE DEF S
  <2> QED BY <2>1, ObjectsAssumption, FS_Subset
<1>1. \A s \in SUBSET S : s # {} => next[s] \in s
  OBVIOUS
<1>2. /\ t \in Tables /\ WorldSound(base) /\ base \in E /\ base.graph[g] = t
      /\ MayPart(base, t, S) /\ (S # {} => Enumerable(base.table[t]))
  BY DEF WorldSound
<1>3. Parted(base, base, t, {}, S)
  <2> HIDE DEF base, S, t
  <2> QED BY <1>2 DEF Parted
<1>4. ASSUME NEW s \in SUBSET S, NEW m \in s, NEW v, Parted(base, v, t, s \ {m}, S)
      PROVE  Parted(base, op(m, v), t, s, S) /\ op(m, v) \in E
  <2>1. Parted(base, DivorceMap(v, m, t), t, s, S)
    <3> HIDE DEF base, S, t
    <3> QED BY <1>0, <1>2, <1>4, PartedStep
  <2>2. DivorceMap(v, m, t) \in E
    BY <2>1 DEF Parted, WorldSound
  <2> QED BY <2>1, <2>2
<1> HIDE DEF base, S, op, E
<1>5. Invariant(S, next, base, step, Good)
  <2>1. <<{}, base>> \in Good
    BY <1>2, <1>3
  <2>2. ASSUME NEW s \in SUBSET S, NEW v, s # {}, <<s \ {next[s]}, v>> \in Good
        PROVE  <<s, step[<<next[s], v>>]>> \in Good
    <3>1. next[s] \in s /\ next[s] \in S
      BY <1>1, <2>2
    <3>2. v \in E /\ Parted(base, v, t, s \ {next[s]}, S)
      BY <2>2
    <3> HIDE DEF next
    <3>3. <<next[s], v>> \in S \X E
      BY <3>1, <3>2
    <3>4. step[<<next[s], v>>] = op(next[s], v)
      BY <3>3
    <3>5. Parted(base, op(next[s], v), t, s, S) /\ op(next[s], v) \in E
      BY <1>4, <2>2, <3>1, <3>2
    <3> HIDE DEF step
    <3> QED BY <3>4, <3>5
  <2> HIDE DEF Good, step, next
  <2> QED BY <1>1, <2>1, <2>2 DEF Invariant
<1>6. PICK h : Folded(h, S, next, base, step) /\ \A s \in SUBSET S : <<s, h[s]>> \in Good
  <2> HIDE DEF Good, step, next
  <2> QED BY <1>0, <1>5, FoldedGood
<1>7. Eq(h)
  <2>1. \A s \in SUBSET S : h[s] \in E
    BY <1>6
  <2>2. \A s \in SUBSET S : s # {} => <<next[s], h[s \ {next[s]}]>> \in S \X E
    BY <1>1, <2>1
  <2>3. h = [s \in SUBSET S |-> IF s = {} THEN base ELSE op(next[s], h[s \ {next[s]}])]
    <3> HIDE DEF next, Good
    <3> QED BY <2>2, <1>6 DEF Folded
  <2> QED BY <2>3
<1>8. Eq(f)
  <2> HIDE DEF Eq
  <2> QED BY <1>7
<1>9. NewBody(w, g, r) = f[S]
  BY DEF NewBody, FoldSet, MapThenFoldSet, MapsOf, NextTable, base, S, op
<1>10. f = h
  <2> DEFINE Q == {s \in SUBSET S : f[s] = h[s]}
  <2> HIDE DEF f
  <2>1. {} \in Q
    BY <1>7, <1>8
  <2>2. \A s \in SUBSET S : s # {} => f[s] = op(next[s], f[s \ {next[s]}]) /\ h[s] = op(next[s], h[s \ {next[s]}])
    BY ZenonT(30), <1>7, <1>8
  <2>3. \A s \in SUBSET S : s # {} /\ s \ {next[s]} \in Q => s \in Q
    <3> HIDE DEF next
    <3> QED BY <2>2
  <2>4. \A s \in SUBSET S : s \in Q
    <3> HIDE DEF Q, next
    <3> QED BY ONLY <1>0, <1>1, <2>1, <2>3, SubsetInduction
  <2>5. \A s \in SUBSET S : f[s] = h[s]
    BY <2>4
  <2>6. DOMAIN f = SUBSET S /\ DOMAIN h = SUBSET S /\ f = [s \in SUBSET S |-> f[s]] /\ h = [s \in SUBSET S |-> h[s]]
    BY <1>7, <1>8
  <2> QED BY <2>5, <2>6
<1> HIDE DEF f
<1>11. <<S, f[S]>> \in Good
  BY <1>6, <1>10
<1> QED BY <1>9, <1>11 DEF base, S

\* g has a table of its own, and nothing has changed for the other graphs.
OnItsOwn(w, u, g) ==
  /\ WorldSound(u) /\ Registration(u, owner)
  /\ \A h \in Graphs \ {g} : /\ u.graph[h] = w.graph[h] /\ u.graph[h] # u.graph[g]
                             /\ u.table[u.graph[h]] = w.table[w.graph[h]]

(* The table a graph gets.                                                               *)
LEMMA TableCopyParts ==
  ASSUME NEW r \in TableType, NEW s, s = TableCopy(r) \/ s = EmptyTable
  PROVE  /\ s \in TableType /\ TableSound(s) /\ s.maps = {} /\ s.free = <<>> /\ ~s.agent
         /\ s = TableCopy(r) => s.ids = r.ids
         /\ s = EmptyTable => s.ids = NoEntries
<1>1. /\ EmptyTable \in TableType /\ EmptyTable.ids = NoEntries /\ EmptyTable.free = <<>> /\ EmptyTable.agent = FALSE
      /\ EmptyTable.maps = {}
  BY Nothing
<1>2. /\ TableCopy(r) \in TableType /\ TableCopy(r).ids = r.ids /\ TableCopy(r).free = <<>>
      /\ TableCopy(r).agent = FALSE /\ TableCopy(r).maps = {}
  <2>1. r.ids \in Ids
    BY TableParts
  <2> QED BY <1>1, <2>1 DEF TableCopy, TableType
<1> QED BY <1>1, <1>2 DEF TableSound

(* What the invariant says of the variables.                                             *)
LEMMA Invariants ==
  ASSUME IndInv
  PROVE  /\ World.graph = graph /\ World.table = table /\ World.data = data /\ World.map = map
         /\ WorldSound(World) /\ World \in WorldType
         /\ owner \in [Maps -> Graphs \cup {None}]
         /\ \A m \in Maps : owner[m] # None /\ map[m] # None /\ data[map[m]].table # None => data[map[m]].table = graph[owner[m]]
<1>1. World.graph = graph /\ World.table = table /\ World.data = data /\ World.map = map
  BY WorldOfParts DEF World
<1> QED BY <1>1 DEF IndInv, Registration, OnlyAt, WorldSound

(* A graph that shares its table gets one of its own.                                    *)
LEMMA DivorcedSound ==
  ASSUME IndInv, Allowed = {}, NEW g \in Graphs, MayDivorce(g), IsShared(World, g),
         NEW r, r = TableCopy(table[graph[g]]) \/ r = EmptyTable
  PROVE  LET u == NewBody(World, g, r) IN
         /\ OnItsOwn(World, u, g)
         /\ EdgesOf(u.table[u.graph[g]]) = EdgesOf(r)
<1> DEFINE t == NextTable(World)
           base == Moved(World, g, t, r)
           S == MapsOf(World, g)
           u == NewBody(World, g, r)
           o == graph[g]
<1>1. /\ World.graph = graph /\ World.table = table /\ World.data = data /\ World.map = map
      /\ WorldSound(World) /\ World \in WorldType
      /\ owner \in [Maps -> Graphs \cup {None}]
      /\ \A m \in Maps : owner[m] # None /\ map[m] # None /\ data[map[m]].table # None => data[map[m]].table = graph[owner[m]]
  BY Invariants
<1>2. /\ graph \in [Graphs -> Tables] /\ table \in [Tables -> TableType]
      /\ data \in [Datas -> DataType] /\ map \in [Maps -> Datas \cup {None}]
      /\ o \in Tables /\ table[o] \in TableType /\ TableSound(table[o])
  <2>1. /\ graph \in [Graphs -> Tables] /\ table \in [Tables -> TableType]
        /\ data \in [Datas -> DataType] /\ map \in [Maps -> Datas \cup {None}]
        /\ \A x \in Tables : TableSound(table[x])
    BY <1>1, SoundParts
  <2> QED BY <2>1
<1>3. PICK h \in Graphs \ {g} : graph[h] = o
  BY <1>1, TableShared
<1>4. t \in Tables /\ \A x \in Graphs : graph[x] # t
  BY <1>1, NextFree
<1>5. /\ r \in TableType /\ TableSound(r) /\ r.maps = {} /\ r.free = <<>>
      /\ r.ids = table[o].ids \/ r = EmptyTable
      /\ r = EmptyTable => r.ids = NoEntries /\ EdgesOf(r) = {} /\ NEdges(r) = 0
  <2>1. r = EmptyTable => r.ids = NoEntries
    BY Nothing
  <2> QED BY <1>2, <2>1, TableCopyParts, Nothing DEF EdgesOf, NEdges
<1>6. /\ \A m \in Registered(g) : map[m] # None => Attached(m)
      /\ \A m \in Registered(g) : map[m] # None => \E k \in Maps \ Registered(g) : map[k] = map[m]
      /\ table[o].free = <<>>
  BY DEF MayDivorce, MayNumber
<1>7. /\ WorldSound(base) /\ base.data = data /\ base.map = map
      /\ base.graph = [graph EXCEPT ![g] = t] /\ base.table = [table EXCEPT ![t] = r]
  <2> HIDE DEF t, base
  <2>1. LET x == Moved(World, g, t, r) IN
        /\ WorldSound(x) /\ x.data = World.data /\ x.map = World.map
        /\ x.graph = [World.graph EXCEPT ![g] = t] /\ x.table = [World.table EXCEPT ![t] = r]
    BY <1>1, <1>3, <1>4, <1>5, MovedSound
  <2> QED BY <1>1, <2>1 DEF base
<1>8. \A d \in Datas : data[d].table # t
  BY <1>1, <1>4, Unhosted
<1> HIDE DEF base, t
<1>9. /\ base.graph[g] = t /\ \A x \in Graphs \ {g} : base.graph[x] = graph[x]
      /\ base.table[t] = r /\ \A x \in Tables \ {t} : base.table[x] = table[x]
      /\ o # t
  BY <1>2, <1>4, <1>7
<1>10. \A m \in S : m \in Registered(g) /\ m \in Maps /\ owner[m] = g /\ map[m] # None
  BY <1>1 DEF MapsOf, Registered
<1>11. \A m \in S : /\ map[m] \in Datas /\ data[map[m]].table = o
                    /\ \E k \in Maps \ S : map[k] = map[m]
  <2> SUFFICES ASSUME NEW m \in S
               PROVE  map[m] \in Datas /\ data[map[m]].table = o /\ \E k \in Maps \ S : map[k] = map[m]
    OBVIOUS
  <2>1. map[m] \in Datas /\ Attached(m) /\ owner[m] # None
    BY <1>2, <1>6, <1>10, ObjectsAssumption
  <2>2. data[map[m]].table = o
    BY <1>1, <1>10, <2>1 DEF Attached
  <2>3. PICK k \in Maps \ Registered(g) : map[k] = map[m]
    BY <1>6, <1>10
  <2>4. k \in Maps \ S
    BY <1>10, <2>3
  <2> HIDE DEF S
  <2> QED BY <2>1, <2>2, <2>3, <2>4
<1>12. MayPart(base, t, S)
  <2> SUFFICES ASSUME NEW m \in S
               PROVE  /\ base.map[m] # None /\ base.data[base.map[m]].table # None
                      /\ \E k \in Maps \ S : base.map[k] = base.map[m]
                      /\ base.data[base.map[m]].table # t
                      /\ base.table[t].ids = base.table[base.data[base.map[m]].table].ids \/ EdgesOf(base.table[t]) = {}
    BY DEF MayPart
  <2> HIDE DEF S
  <2>1. base.map[m] = map[m] /\ base.data[map[m]].table = o
    BY <1>7, <1>11
  <2>2. o # None
    BY <1>2, ObjectsAssumption
  <2>3. base.table[t].ids = base.table[o].ids \/ EdgesOf(base.table[t]) = {}
    BY <1>2, <1>5, <1>9
  <2> QED BY <1>7, <1>9, <1>10, <1>11, <2>1, <2>2, <2>3
<1>13. S # {} => Enumerable(base.table[t])
  <2> SUFFICES ASSUME NEW m \in S PROVE Exact(r.ids, <<>>, NEdges(r))
    BY <1>5, <1>9 DEF Enumerable
  <2>1. CASE r.ids = table[o].ids
    <3>1. map[m] \in table[o].maps
      <4>1. map[m] \in Datas /\ data[map[m]].table = o
        BY <1>11
      <4> QED BY <1>1, <1>2, <4>1, SoundParts
    <3>2. table[o].agent
      BY <1>2, <3>1 DEF TableSound
    <3>3. Exact(table[o].ids, table[o].free, Total(table[o])) /\ Total(table[o]) = NEdges(table[o])
      BY <1>2, <1>6, <3>2, TableParts DEF TableSound, Numbered
    <3>4. NEdges(r) = NEdges(table[o])
      BY <2>1 DEF NEdges, EdgesOf
    <3> QED BY <1>6, <2>1, <3>3, <3>4
  <2>2. CASE r = EmptyTable
    <3>1. Range(NoEntries) = {} /\ IsInjective(NoEntries) /\ IsInjective(<<>>) /\ Range(<<>>) = {}
      <4>1. DOMAIN NoEntries = {}
        BY Nothing
      <4> QED BY <4>1 DEF Range, IsInjective
    <3>2. {} = 0 .. 0 - 1
      OBVIOUS
    <3> QED BY <1>5, <2>2, <3>1, <3>2 DEF Exact
  <2> QED BY <1>5, <2>1, <2>2
<1>14. Parted(base, u, t, S, S)
  <2>1. Parted(Moved(World, g, NextTable(World), r), NewBody(World, g, r), NextTable(World), MapsOf(World, g), MapsOf(World, g))
    <3>1. LET z == NextTable(World)
              y == Moved(World, g, z, r)
          IN  /\ z \in Tables
              /\ WorldSound(y) /\ y.graph[g] = z
              /\ MayPart(y, z, MapsOf(World, g))
              /\ MapsOf(World, g) # {} => Enumerable(y.table[z])
      BY <1>4, <1>7, <1>9, <1>12, <1>13 DEF base, t
    <3> QED BY <3>1, NewBodyParted
  <2> QED BY <2>1 DEF base, t
<1> HIDE DEF u
<1>15. /\ WorldSound(u) /\ u.graph = base.graph
       /\ \A x \in Tables \ {t} : u.table[x] = base.table[x]
       /\ u.table[t].ids = base.table[t].ids
       /\ \A m \in Maps \ S : u.map[m] = map[m]
       /\ \A m \in Maps \ S : map[m] # None => u.data[map[m]].table = data[map[m]].table
       /\ \A m \in S : u.map[m] \in Datas /\ u.data[u.map[m]].table = t
  BY <1>7, <1>14 DEF Parted
<1>16. Registration(u, owner)
  <2> SUFFICES ASSUME NEW m \in Maps, owner[m] # None, u.map[m] # None, u.data[u.map[m]].table # None
               PROVE  u.data[u.map[m]].table = u.graph[owner[m]]
    BY <1>1 DEF Registration, OnlyAt
  <2>1. CASE m \in S
    <3>1. owner[m] = g
      BY <1>10, <2>1
    <3> HIDE DEF S
    <3> QED BY <1>9, <1>15, <2>1, <3>1
  <2>2. CASE m \notin S
    <3>1. u.map[m] = map[m] /\ map[m] # None /\ u.data[map[m]].table = data[map[m]].table
      <4> HIDE DEF S
      <4> QED BY <1>15, <2>2
    <3>2. owner[m] \in Graphs \ {g}
      BY <1>1, <2>2, <3>1 DEF MapsOf, Registered
    <3>3. data[map[m]].table = graph[owner[m]]
      BY <1>1, <2>2, <3>1
    <3> QED BY <1>9, <1>15, <3>1, <3>2, <3>3
  <2> QED BY <2>1, <2>2
<1>17. \A x \in Graphs \ {g} : /\ u.graph[x] = graph[x] /\ u.graph[x] # u.graph[g]
                               /\ u.table[u.graph[x]] = table[graph[x]]
  BY <1>2, <1>4, <1>9, <1>15
<1>18. OnItsOwn(World, u, g)
  BY <1>1, <1>15, <1>16, <1>17 DEF OnItsOwn
<1>19. EdgesOf(u.table[u.graph[g]]) = EdgesOf(r)
  BY <1>9, <1>15 DEF EdgesOf
<1> QED BY <1>18, <1>19 DEF u

(* Copy on write of the graph.                                                           *)
LEMMA UnshareSound ==
  ASSUME IndInv, Allowed = {}, NEW g \in Graphs, MayDivorce(g)
  PROVE  OnItsOwn(World, Unshare(World, g), g)
<1>1. /\ World.graph = graph /\ World.table = table /\ WorldSound(World) /\ Registration(World, owner)
  BY Invariants DEF IndInv
<1>2. CASE IsShared(World, g)
  <2>1. Unshare(World, g) = NewBody(World, g, TableCopy(table[graph[g]]))
    BY <1>1, <1>2 DEF Unshare
  <2> QED BY <1>2, <2>1, DivorcedSound
<1>3. CASE ~IsShared(World, g)
  <2>1. Unshare(World, g) = World
    BY <1>3 DEF Unshare
  <2>2. \A h \in Graphs \ {g} : World.graph[h] # World.graph[g]
    BY <1>3, TableShared
  <2> QED BY <1>1, <2>1, <2>2 DEF OnItsOwn
<1> QED BY <1>2, <1>3

(***************************************************************************)
(* Steps that change one table and the data attached to it.                *)
(***************************************************************************)

\* The table t and the entries of its maps may have changed.
OnlyTable(w, u, t) ==
  /\ WorldSound(u) /\ u.graph = w.graph /\ u.map = w.map
  /\ \A d \in Datas : u.data[d].table = w.data[d].table
  /\ \A x \in Tables \ {t} : u.table[x] = w.table[x]

(* A table may be replaced by another sound one with the same maps, their data along.   *)
LEMMA TableReplaced ==
  ASSUME NEW w, WorldSound(w), NEW t \in Tables, NEW s \in TableType, TableSound(s), s.maps = w.table[t].maps,
         NEW F \in [Datas -> DataType], \A d \in Datas : F[d].table = w.data[d].table,
         \A d \in Datas : d \notin w.table[t].maps => F[d] = w.data[d],
         \A d \in Datas : d \in w.table[t].maps => DataSound(F[d], s)
  PROVE  OnlyTable(w, WorldOf(w.graph, [w.table EXCEPT ![t] = s], F, w.map), t)
<1> DEFINE u == WorldOf(w.graph, [w.table EXCEPT ![t] = s], F, w.map)
<1>1. u.graph = w.graph /\ u.table = [w.table EXCEPT ![t] = s] /\ u.data = F /\ u.map = w.map
  BY WorldOfParts
<1>2. /\ w.graph \in [Graphs -> Tables] /\ w.table \in [Tables -> TableType]
      /\ w.data \in [Datas -> DataType] /\ w.map \in [Maps -> Datas \cup {None}]
  BY SoundParts
<1>3. u \in WorldType
  <2>1. [w.table EXCEPT ![t] = s] \in [Tables -> TableType]
    BY <1>2
  <2> QED BY <1>2, <2>1, WorldOfParts
<1> HIDE DEF u
<1>4. u.table[t] = s /\ \A x \in Tables \ {t} : u.table[x] = w.table[x]
  BY <1>1, <1>2
<1>5. \A x \in Tables : TableSound(u.table[x])
  BY <1>4, SoundParts
<1>6. \A x \in Tables, y \in Datas : y \in u.table[x].maps <=> u.data[y].table = x
  BY <1>1, <1>4, SoundParts
<1>7. ASSUME NEW y \in Datas, u.data[y].table # None PROVE Attachment(u, y)
  <2>1. Attachment(w, y) /\ w.data[y].table \in Tables /\ u.data[y].table = w.data[y].table
    BY <1>1, <1>7, SoundParts
  <2>2. DataSound(u.data[y], u.table[u.data[y].table])
    <3>1. CASE w.data[y].table = t
      <4>1. y \in w.table[t].maps
        BY <3>1, SoundParts
      <4> QED BY <1>1, <1>4, <2>1, <3>1, <4>1
    <3>2. CASE w.data[y].table # t
      <4>1. y \notin w.table[t].maps
        BY <3>2, SoundParts
      <4> QED BY <1>1, <1>4, <2>1, <3>2, <4>1 DEF Attachment
    <3> QED BY <3>1, <3>2
  <2> QED BY <1>1, <2>1, <2>2 DEF Attachment
<1>8. WorldSound(u)
  BY <1>3, <1>5, <1>6, <1>7 DEF WorldSound
<1>9. OnlyTable(w, u, t)
  BY <1>1, <1>4, <1>8 DEF OnlyTable
<1> QED BY <1>9 DEF u

(* Nothing need change.                                                                  *)
LEMMA TableKept ==
  ASSUME NEW w, WorldSound(w), NEW t
  PROVE  OnlyTable(w, w, t)
BY DEF OnlyTable

(* An edge is added.                                                                     *)
LEMMA AddedSound ==
  ASSUME NEW w, WorldSound(w), NEW t \in Tables, NEW e \in Edges
  PROVE  OnlyTable(w, Added(w, t, e), t)
<1> DEFINE r == w.table[t]
           s == EdgeAdded(r, e)
           F == [d \in Datas |-> IF r.agent /\ d \in r.maps THEN EntryAdded(w.data[d], r, e) ELSE w.data[d]]
<1>1. CASE e \in EdgesOf(r)
  BY <1>1, TableKept DEF Added
<1>2. CASE e \notin EdgesOf(r)
  <2>1. Added(w, t, e) = WorldOf(w.graph, [w.table EXCEPT ![t] = s], F, w.map)
    BY <1>2 DEF Added
  <2>2. r \in TableType /\ TableSound(r) /\ r.maps \in SUBSET Datas /\ (r.maps # {} => r.agent)
    BY SoundParts
  <2>3. s \in TableType /\ TableSound(s) /\ s.maps = r.maps
    <3> HIDE DEF r
    <3> QED BY <1>2, <2>2, EdgeAddedParts
  <2>4. \A d \in Datas : w.data[d] \in DataType /\ (d \in r.maps => r.agent /\ DataSound(w.data[d], r))
    <3> SUFFICES ASSUME NEW d \in Datas PROVE w.data[d] \in DataType /\ (d \in r.maps => r.agent /\ DataSound(w.data[d], r))
      OBVIOUS
    <3>1. w.data[d] \in DataType
      BY SoundParts
    <3>2. ASSUME d \in r.maps PROVE DataSound(w.data[d], r)
      <4>1. w.data[d].table = t /\ t # None
        BY <3>2, SoundParts
      <4>2. Attachment(w, d)
        BY <4>1, SoundParts
      <4> QED BY <4>1, <4>2 DEF Attachment
    <3> HIDE DEF r
    <3> QED BY <2>2, <3>1, <3>2
  <2>5. ASSUME NEW d \in Datas
        PROVE  /\ F[d] \in DataType /\ F[d].table = w.data[d].table
               /\ d \notin r.maps => F[d] = w.data[d]
               /\ d \in r.maps => DataSound(F[d], s)
    <3> HIDE DEF r, s
    <3>1. CASE d \in r.maps
      <4>1. F[d] = EntryAdded(w.data[d], r, e)
        BY <2>4, <3>1
      <4>2. /\ EntryAdded(w.data[d], r, e) \in DataType /\ EntryAdded(w.data[d], r, e).table = w.data[d].table
            /\ DataSound(EntryAdded(w.data[d], r, e), EdgeAdded(r, e))
        BY <1>2, <2>2, <2>4, <3>1, EntryAddedSound
      <4> HIDE DEF F
      <4> QED BY <3>1, <4>1, <4>2 DEF s
    <3>2. CASE d \notin r.maps
      BY <2>4, <3>2
    <3> QED BY <3>1, <3>2
  <2>6. F \in [Datas -> DataType]
    <3>1. DOMAIN F = Datas /\ F = [d \in Datas |-> F[d]]
      OBVIOUS
    <3> HIDE DEF F
    <3> QED BY <2>5, <3>1
  <2> HIDE DEF F, s
  <2>7. OnlyTable(w, WorldOf(w.graph, [w.table EXCEPT ![t] = s], F, w.map), t)
    BY <2>3, <2>5, <2>6, TableReplaced
  <2> QED BY <2>1, <2>7
<1> QED BY <1>1, <1>2

(* An edge is removed.                                                                   *)
LEMMA RemovedSound ==
  ASSUME NEW w, WorldSound(w), NEW t \in Tables, NEW e \in Edges
  PROVE  OnlyTable(w, Removed(w, t, e), t)
<1> DEFINE r == w.table[t]
           s == EdgeRemoved(r, e)
           F == [d \in Datas |-> IF r.agent /\ d \in r.maps THEN Emptied(w.data[d], r.ids[e]) ELSE w.data[d]]
<1>1. CASE e \notin EdgesOf(r)
  BY <1>1, TableKept DEF Removed
<1>2. CASE e \in EdgesOf(r)
  <2>1. Removed(w, t, e) = WorldOf(w.graph, [w.table EXCEPT ![t] = s], F, w.map)
    BY <1>2 DEF Removed
  <2>2. r \in TableType /\ TableSound(r) /\ r.maps \in SUBSET Datas /\ (r.maps # {} => r.agent)
    BY SoundParts
  <2>3. s \in TableType /\ TableSound(s) /\ s.maps = r.maps
    <3> HIDE DEF r
    <3> QED BY <1>2, <2>2, EdgeRemovedParts
  <2>4. \A d \in Datas : w.data[d] \in DataType /\ (d \in r.maps => r.agent /\ DataSound(w.data[d], r))
    <3> SUFFICES ASSUME NEW d \in Datas PROVE w.data[d] \in DataType /\ (d \in r.maps => r.agent /\ DataSound(w.data[d], r))
      OBVIOUS
    <3>1. w.data[d] \in DataType
      BY SoundParts
    <3>2. ASSUME d \in r.maps PROVE DataSound(w.data[d], r)
      <4>1. w.data[d].table = t /\ t # None
        BY <3>2, SoundParts
      <4>2. Attachment(w, d)
        BY <4>1, SoundParts
      <4> QED BY <4>1, <4>2 DEF Attachment
    <3> HIDE DEF r
    <3> QED BY <2>2, <3>1, <3>2
  <2>5. ASSUME NEW d \in Datas
        PROVE  /\ F[d] \in DataType /\ F[d].table = w.data[d].table
               /\ d \notin r.maps => F[d] = w.data[d]
               /\ d \in r.maps => DataSound(F[d], s)
    <3> HIDE DEF r, s
    <3>1. CASE d \in r.maps
      <4>1. F[d] = Emptied(w.data[d], r.ids[e])
        BY <2>4, <3>1
      <4>2. /\ Emptied(w.data[d], r.ids[e]) \in DataType /\ Emptied(w.data[d], r.ids[e]).table = w.data[d].table
            /\ DataSound(Emptied(w.data[d], r.ids[e]), EdgeRemoved(r, e))
        BY <1>2, <2>2, <2>4, <3>1, EmptiedSound
      <4> HIDE DEF F
      <4> QED BY <3>1, <4>1, <4>2 DEF s
    <3>2. CASE d \notin r.maps
      BY <2>4, <3>2
    <3> QED BY <3>1, <3>2
  <2>6. F \in [Datas -> DataType]
    <3>1. DOMAIN F = Datas /\ F = [d \in Datas |-> F[d]]
      OBVIOUS
    <3> HIDE DEF F
    <3> QED BY <2>5, <3>1
  <2> HIDE DEF F, s
  <2>7. OnlyTable(w, WorldOf(w.graph, [w.table EXCEPT ![t] = s], F, w.map), t)
    BY <2>3, <2>5, <2>6, TableReplaced
  <2> QED BY <2>1, <2>7
<1> QED BY <1>1, <1>2

(* Table::clear.                                                                         *)
LEMMA ClearedSound ==
  ASSUME NEW w, WorldSound(w), NEW t \in Tables
  PROVE  OnlyTable(w, WorldOf(w.graph, [w.table EXCEPT ![t] = EmptyWith(w.table[t].maps)],
                              [d \in Datas |-> IF d \in w.table[t].maps THEN [NoData EXCEPT !.table = t] ELSE w.data[d]],
                              w.map), t)
<1> DEFINE maps == w.table[t].maps
           s == EmptyWith(maps)
           D == [NoData EXCEPT !.table = t]
           F == [d \in Datas |-> IF d \in maps THEN D ELSE w.data[d]]
<1>1. /\ maps \in SUBSET Datas /\ \A d \in Datas : d \in maps <=> w.data[d].table = t
      /\ \A d \in Datas : w.data[d] \in DataType
  BY SoundParts
<1>2. /\ EmptyTable \in TableType /\ NoData \in DataType /\ EmptyTable.ids = NoEntries /\ EmptyTable.free = <<>>
      /\ EmptyTable.n_alloc = 0 /\ NoData.n_alloc = 0 /\ NoData.buckets = {} /\ NoData.val = NoEntries
      /\ DOMAIN NoEntries = {} /\ Cardinality({}) = 0
  BY Nothing
<1>3. /\ D \in DataType /\ D.table = t /\ D.n_alloc = 0 /\ D.buckets = {} /\ D.val = NoEntries
  BY <1>2 DEF DataType
<1>4. /\ s \in TableType /\ s.ids = NoEntries /\ s.free = <<>> /\ s.n_alloc = 0 /\ s.maps = maps
      /\ (s.agent <=> maps # {})
  <2> HIDE DEF maps
  <2>1. (maps # {}) \in BOOLEAN
    OBVIOUS
  <2> QED BY <1>1, <1>2, <2>1 DEF EmptyWith, TableType
<1> HIDE DEF s, D, maps
<1>5. /\ EdgesOf(s) = {} /\ NEdges(s) = 0 /\ Total(s) = 0 /\ Range(s.ids) = {}
  <2>1. EdgesOf(s) = {} /\ NEdges(s) = 0 /\ Range(s.ids) = {}
    BY <1>2, <1>4 DEF EdgesOf, NEdges, Range
  <2>2. Total(s) = NEdges(s)
    BY <1>4, TableParts
  <2> QED BY <2>1, <2>2
<1>6. Range(<<>>) = {} /\ IsInjective(<<>>) /\ IsInjective(NoEntries) /\ 0 .. 0 - 1 = {}
  BY <1>2 DEF Range, IsInjective
<1>7. TableSound(s)
  <2>1. Numbered(s)
    BY <1>4, <1>5, <1>6 DEF Numbered, Exact
  <2> QED BY <1>4, <2>1 DEF TableSound
<1>8. DataSound(D, s)
  BY <1>2, <1>3, <1>4, <1>5, <1>6 DEF DataSound
<1>9. /\ F \in [Datas -> DataType]
      /\ \A d \in Datas : F[d] = IF d \in maps THEN D ELSE w.data[d]
  BY <1>1, <1>3
<1> HIDE DEF F
<1>10. OnlyTable(w, WorldOf(w.graph, [w.table EXCEPT ![t] = s], F, w.map), t)
  <2>1. /\ \A d \in Datas : F[d].table = w.data[d].table
        /\ \A d \in Datas : d \notin maps => F[d] = w.data[d]
        /\ \A d \in Datas : d \in maps => DataSound(F[d], s)
    BY <1>1, <1>3, <1>8, <1>9
  <2> QED BY <1>4, <1>7, <1>9, <2>1, TableReplaced DEF maps
<1> QED BY <1>10 DEF s, F, maps, D

(* The edges get numbers.                                                                *)
LEMMA EnumeratedSound ==
  ASSUME NEW w, WorldSound(w), NEW t \in Tables
  PROVE  OnlyTable(w, WorldOf(w.graph, [w.table EXCEPT ![t] = WithAgent(w.table[t], FALSE)], w.data, w.map), t)
<1> DEFINE r == w.table[t]
           s == WithAgent(r, FALSE)
<1>1. /\ r \in TableType /\ TableSound(r) /\ w.data \in [Datas -> DataType]
      /\ \A d \in Datas : d \in r.maps => w.data[d].table = t /\ t # None
  BY SoundParts
<1>2. /\ s \in TableType /\ TableSound(s) /\ s.maps = r.maps /\ (r.maps # {} => s = r)
  <2> HIDE DEF r
  <2>1. CASE r.agent
    BY <1>1, <2>1 DEF WithAgent
  <2>2. CASE ~r.agent
    <3>1. r.free = <<>> /\ r.maps = {}
      BY <1>1, <2>2 DEF TableSound
    <3>2. s \in TableType /\ s.agent /\ Numbered(s) /\ s.maps = r.maps
      BY <1>1, <2>2, <3>1, AgentNumbers
    <3> HIDE DEF s
    <3> QED BY <3>1, <3>2 DEF TableSound
  <2> QED BY <2>1, <2>2
<1>3. \A d \in Datas : d \in r.maps => DataSound(w.data[d], s)
  <2> SUFFICES ASSUME NEW d \in Datas, d \in r.maps PROVE DataSound(w.data[d], s)
    OBVIOUS
  <2>1. Attachment(w, d) /\ w.data[d].table = t
    BY <1>1, SoundParts
  <2>2. s = r
    <3> HIDE DEF s, r
    <3> QED BY <1>2
  <2> HIDE DEF s
  <2> QED BY <2>1, <2>2 DEF Attachment
<1> HIDE DEF s
<1>4. OnlyTable(w, WorldOf(w.graph, [w.table EXCEPT ![t] = s], w.data, w.map), t)
  BY <1>1, <1>2, <1>3, TableReplaced
<1> QED BY <1>4 DEF s

\* The table t has been replaced and its maps are gone from it.
Reset(w, u, t) ==
  /\ WorldSound(u) /\ u.map = w.map
  /\ \A d \in Datas : u.data[d].table = w.data[d].table \/ u.data[d].table = None
  /\ \A x \in Tables \ {t} : u.table[x] = w.table[x]

(* A table is emptied, or renumbered, and its maps are detached.                         *)
LEMMA ResetSound ==
  ASSUME NEW w, WorldSound(w), NEW t \in Tables, NEW s \in TableType, TableSound(s), s.maps = {},
         NEW G \in [Graphs -> Tables], \A x \in Graphs : w.graph[x] # t => \E z \in Graphs : G[z] = w.graph[x]
  PROVE  Reset(w, WorldOf(G, [w.table EXCEPT ![t] = s],
                          [d \in Datas |-> IF d \in w.table[t].maps THEN NoData ELSE w.data[d]], w.map), t)
<1> DEFINE F == [d \in Datas |-> IF d \in w.table[t].maps THEN NoData ELSE w.data[d]]
           u == WorldOf(G, [w.table EXCEPT ![t] = s], F, w.map)
<1>1. u.graph = G /\ u.table = [w.table EXCEPT ![t] = s] /\ u.data = F /\ u.map = w.map
  BY WorldOfParts
<1>2. /\ w.graph \in [Graphs -> Tables] /\ w.table \in [Tables -> TableType]
      /\ w.data \in [Datas -> DataType] /\ w.map \in [Maps -> Datas \cup {None}]
  BY SoundParts
<1>3. /\ NoData \in DataType /\ NoData.table = None
  BY Nothing
<1>4. F \in [Datas -> DataType] /\ \A d \in Datas : F[d] = IF d \in w.table[t].maps THEN NoData ELSE w.data[d]
  BY <1>2, <1>3
<1>5. u \in WorldType
  <2>1. [w.table EXCEPT ![t] = s] \in [Tables -> TableType]
    BY <1>2
  <2> HIDE DEF F
  <2> QED BY <1>2, <1>4, <2>1, WorldOfParts
<1> HIDE DEF u, F
<1>6. u.table[t] = s /\ \A x \in Tables \ {t} : u.table[x] = w.table[x]
  BY <1>1, <1>2
<1>7. \A x \in Tables : TableSound(u.table[x])
  BY <1>6, SoundParts
<1>8. \A d \in Datas : /\ d \in w.table[t].maps <=> w.data[d].table = t
                       /\ w.data[d].table = t => u.data[d].table = None
                       /\ w.data[d].table # t => u.data[d] = w.data[d]
  <2>1. \A d \in Datas : d \in w.table[t].maps <=> w.data[d].table = t
    BY SoundParts
  <2> QED BY <1>1, <1>3, <1>4, <2>1
<1>9. ASSUME NEW x \in Tables, NEW y \in Datas PROVE y \in u.table[x].maps <=> u.data[y].table = x
  <2>1. y \in w.table[x].maps <=> w.data[y].table = x
    BY SoundParts
  <2>2. None # x
    BY ObjectsAssumption
  <2>3. CASE x = t
    <3>1. u.data[y].table # t
      BY <1>8, <2>2, <2>3
    <3> QED BY <1>6, <2>3, <3>1
  <2>4. CASE x # t
    BY <1>6, <1>8, <2>1, <2>2, <2>4
  <2> QED BY <2>3, <2>4
<1>10. ASSUME NEW y \in Datas, u.data[y].table # None PROVE Attachment(u, y)
  <2>1. w.data[y].table # t /\ u.data[y] = w.data[y]
    BY <1>8, <1>10
  <2>2. Attachment(w, y) /\ w.data[y].table \in Tables
    BY <1>10, <2>1, SoundParts
  <2>3. u.table[u.data[y].table] = w.table[w.data[y].table]
    BY <1>6, <2>1, <2>2
  <2>4. \E z \in Graphs : u.graph[z] = u.data[y].table
    <3>1. PICK x \in Graphs : w.graph[x] = w.data[y].table
      BY <2>2 DEF Attachment
    <3> QED BY <1>1, <2>1, <3>1
  <2> QED BY <1>1, <2>1, <2>2, <2>3, <2>4 DEF Attachment
<1>11. WorldSound(u)
  BY <1>5, <1>7, <1>9, <1>10 DEF WorldSound
<1>12. Reset(w, u, t)
  BY <1>1, <1>6, <1>8, <1>11 DEF Reset
<1> QED BY <1>12 DEF u, F

(***************************************************************************)
(* The steps.                                                              *)
(***************************************************************************)

\* The world u is sound, the maps are registered as o says, and the edges of one graph at
\* most have changed.
StepDone(w, u, o) ==
  /\ WorldSound(u) /\ Registration(u, o)
  /\ \E g : \A h \in Graphs \ {g} : EdgesOf(u.table[u.graph[h]]) = EdgesOf(w.table[w.graph[h]])

(* A graph with a table of its own has it changed.                                       *)
LEMMA OwnTableChanged ==
  ASSUME NEW w, NEW x, NEW u, NEW g \in Graphs, OnItsOwn(w, x, g), OnlyTable(x, u, x.graph[g])
  PROVE  StepDone(w, u, owner)
<1>1. /\ WorldSound(x) /\ Registration(x, owner)
      /\ \A h \in Graphs \ {g} : x.graph[h] # x.graph[g] /\ x.table[x.graph[h]] = w.table[w.graph[h]]
  BY DEF OnItsOwn
<1>2. /\ WorldSound(u) /\ u.graph = x.graph /\ u.map = x.map
      /\ \A d \in Datas : u.data[d].table = x.data[d].table
      /\ \A y \in Tables \ {x.graph[g]} : u.table[y] = x.table[y]
  BY DEF OnlyTable
<1>3. x.graph \in [Graphs -> Tables] /\ x.map \in [Maps -> Datas \cup {None}]
  BY <1>1, SoundParts
<1>4. Registration(u, owner)
  BY <1>1, <1>2, <1>3 DEF Registration, OnlyAt
<1>5. \A h \in Graphs \ {g} : u.table[u.graph[h]] = w.table[w.graph[h]]
  BY <1>1, <1>2, <1>3
<1> QED BY <1>2, <1>4, <1>5 DEF StepDone

(* A graph with a table of its own may reset it.                                        *)
LEMMA OwnTableReset ==
  ASSUME NEW w, NEW x, NEW u, NEW g \in Graphs, OnItsOwn(w, x, g), Reset(x, u, x.graph[g]), u.graph = x.graph
  PROVE  StepDone(w, u, owner)
<1>1. /\ WorldSound(x) /\ Registration(x, owner)
      /\ \A h \in Graphs \ {g} : x.graph[h] # x.graph[g] /\ x.table[x.graph[h]] = w.table[w.graph[h]]
  BY DEF OnItsOwn
<1>2. /\ WorldSound(u) /\ u.map = x.map
      /\ \A d \in Datas : u.data[d].table = x.data[d].table \/ u.data[d].table = None
      /\ \A y \in Tables \ {x.graph[g]} : u.table[y] = x.table[y]
  BY DEF Reset
<1>3. x.graph \in [Graphs -> Tables] /\ x.map \in [Maps -> Datas \cup {None}]
  BY <1>1, SoundParts
<1>4. Registration(u, owner)
  BY <1>1, <1>2, <1>3 DEF Registration, OnlyAt
<1>5. \A h \in Graphs \ {g} : u.table[u.graph[h]] = w.table[w.graph[h]]
  BY <1>1, <1>2, <1>3
<1> QED BY <1>2, <1>4, <1>5 DEF StepDone

(* A map alone changes.                                                                  *)
LEMMA MapChanged ==
  ASSUME NEW w, WorldSound(w), NEW u, WorldSound(u), NEW m \in Maps, OthersStay(w, u, m), NEW o, NEW p,
         Registration(w, o), p \in [Maps -> Graphs \cup {None}], \A k \in Maps \ {m} : p[k] = o[k],
         p[m] # None => OnlyAt(u, m, w.graph[p[m]])
  PROVE  StepDone(w, u, p)
<1>1. /\ u.graph = w.graph /\ \A x \in Tables : EdgesOf(u.table[x]) = EdgesOf(w.table[x])
      /\ \A k \in Maps \ {m} : u.map[k] = w.map[k]
      /\ \A k \in Maps \ {m} : w.map[k] # None => u.data[w.map[k]].table = w.data[w.map[k]].table
  BY DEF OthersStay
<1>2. w.graph \in [Graphs -> Tables]
  BY SoundParts
<1>3. Registration(u, p)
  <2> SUFFICES ASSUME NEW k \in Maps, p[k] # None PROVE OnlyAt(u, k, u.graph[p[k]])
    BY DEF Registration
  <2>1. CASE k = m
    BY <1>1, <2>1
  <2>2. CASE k # m
    <3>1. OnlyAt(w, k, w.graph[p[k]])
      BY <2>2 DEF Registration
    <3> QED BY <1>1, <2>2, <3>1 DEF OnlyAt
  <2> QED BY <2>1, <2>2
<1>4. \A h \in Graphs : EdgesOf(u.table[u.graph[h]]) = EdgesOf(w.table[w.graph[h]])
  BY <1>1, <1>2
<1> QED BY <1>3, <1>4 DEF StepDone

(* Leaving and copying disturb no other map.                                             *)
LEMMA KeptStay ==
  ASSUME NEW w, NEW u, NEW m, OthersKept(w, u, m)
  PROVE  OthersStay(w, u, m)
BY DEF OthersKept, OthersStay, EdgesOf

(* Graph::edge.                                                                          *)
LEMMA AddEdgeSound ==
  ASSUME IndInv, Allowed = {}, NEW g \in Graphs, NEW e \in Edges, MayDivorce(g)
  PROVE  LET w == Unshare(World, g) IN StepDone(World, Added(w, w.graph[g], e), owner)
<1> DEFINE w == Unshare(World, g)
<1>1. OnItsOwn(World, w, g)
  BY UnshareSound
<1> HIDE DEF w
<1>2. WorldSound(w) /\ w.graph[g] \in Tables
  BY <1>1, SoundParts DEF OnItsOwn
<1>3. OnlyTable(w, Added(w, w.graph[g], e), w.graph[g])
  BY <1>2, AddedSound
<1>4. StepDone(World, Added(w, w.graph[g], e), owner)
  BY <1>1, <1>3, OwnTableChanged
<1> QED BY <1>4 DEF w

(* Graph::delete_edge.                                                                   *)
LEMMA DeleteEdgeSound ==
  ASSUME IndInv, Allowed = {}, NEW g \in Graphs, NEW e \in Edges, MayDivorce(g)
  PROVE  LET w == Unshare(World, g) IN StepDone(World, Removed(w, w.graph[g], e), owner)
<1> DEFINE w == Unshare(World, g)
<1>1. OnItsOwn(World, w, g)
  BY UnshareSound
<1> HIDE DEF w
<1>2. WorldSound(w) /\ w.graph[g] \in Tables
  BY <1>1, SoundParts DEF OnItsOwn
<1>3. OnlyTable(w, Removed(w, w.graph[g], e), w.graph[g])
  BY <1>2, RemovedSound
<1>4. StepDone(World, Removed(w, w.graph[g], e), owner)
  BY <1>1, <1>3, OwnTableChanged
<1> QED BY <1>4 DEF w

(* Graph::clear.                                                                         *)
LEMMA ClearGraphSound ==
  ASSUME IndInv, Allowed = {}, NEW g \in Graphs, ClearGraph(g)
  PROVE  \E u : Become(u) /\ owner' = owner /\ StepDone(World, u, owner)
<1> DEFINE t == graph[g]
           maps == table[t].maps
           v == WorldOf(graph, [table EXCEPT ![t] = EmptyWith(maps)],
                        [d \in Datas |-> IF d \in maps THEN [NoData EXCEPT !.table = t] ELSE data[d]], map)
<1>1. MayDivorce(g) /\ owner' = owner /\ Become(IF IsShared(World, g) THEN NewBody(World, g, EmptyTable) ELSE v)
  BY DEF ClearGraph
<1>2. World.graph = graph /\ World.table = table /\ World.data = data /\ World.map = map /\ WorldSound(World)
  BY Invariants
<1>3. CASE IsShared(World, g)
  <2> DEFINE u == NewBody(World, g, EmptyTable)
  <2>1. OnItsOwn(World, u, g)
    <3>1. EmptyTable = TableCopy(table[graph[g]]) \/ EmptyTable = EmptyTable
      OBVIOUS
    <3> QED BY <1>1, <1>3, <3>1, DivorcedSound
  <2>2. Become(u)
    BY <1>1, <1>3
  <2> HIDE DEF u
  <2>3. OnlyTable(u, u, u.graph[g])
    BY <2>1, TableKept DEF OnItsOwn
  <2>4. StepDone(World, u, owner)
    BY <2>1, <2>3, OwnTableChanged
  <2> QED BY <1>1, <2>2, <2>4
<1>4. CASE ~IsShared(World, g)
  <2>1. OnItsOwn(World, World, g)
    <3>1. \A h \in Graphs \ {g} : World.graph[h] # World.graph[g]
      BY <1>4, TableShared
    <3> QED BY <1>2, <3>1 DEF OnItsOwn, IndInv
  <2>2. t \in Tables
    BY <1>2, SoundParts
  <2>3. OnlyTable(World, v, t)
    <3>1. OnlyTable(World, WorldOf(World.graph, [World.table EXCEPT ![t] = EmptyWith(World.table[t].maps)],
                              [d \in Datas |-> IF d \in World.table[t].maps THEN [NoData EXCEPT !.table = t] ELSE World.data[d]],
                              World.map), t)
      <4> HIDE DEF t
      <4> QED BY <1>2, <2>2, ClearedSound
    <3> QED BY <1>2, <3>1
  <2> HIDE DEF v
  <2>4. StepDone(World, v, owner)
    BY <1>2, <2>1, <2>3, OwnTableChanged
  <2> QED BY <1>1, <1>4, <2>4
<1> QED BY <1>3, <1>4

(* Graph::enumerate_edges.                                                               *)
LEMMA EnumerateEdgesSound ==
  ASSUME IndInv, NEW g \in Graphs
  PROVE  StepDone(World, WorldOf(graph, [table EXCEPT ![graph[g]] = WithAgent(table[graph[g]], FALSE)], data, map), owner)
<1> DEFINE t == graph[g]
           r == WithAgent(table[t], FALSE)
           u == WorldOf(graph, [table EXCEPT ![t] = r], data, map)
<1>1. /\ World.graph = graph /\ World.table = table /\ World.data = data /\ World.map = map
      /\ WorldSound(World) /\ Registration(World, owner)
  BY Invariants DEF IndInv
<1>2. graph \in [Graphs -> Tables] /\ table \in [Tables -> TableType] /\ t \in Tables /\ map \in [Maps -> Datas \cup {None}]
  BY <1>1, SoundParts
<1>3. OnlyTable(World, u, t)
  <2>1. OnlyTable(World, WorldOf(World.graph, [World.table EXCEPT ![t] = WithAgent(World.table[t], FALSE)], World.data, World.map), t)
    <3> HIDE DEF t
    <3> QED BY <1>1, <1>2, EnumeratedSound
  <2> QED BY <1>1, <2>1
<1>4. EdgesOf(r) = EdgesOf(table[t])
  <2> DEFINE q == table[t]
  <2>1. q \in TableType /\ q.ids \in [EdgesOf(q) -> Nat]
    BY <1>2, TableParts
  <2> HIDE DEF q
  <2>2. EdgesOf(WithAgent(q, FALSE)) = EdgesOf(q)
    <3>1. CASE q.agent
      BY <3>1 DEF WithAgent
    <3>2. CASE ~q.agent
      <4> DEFINE f == [e \in EdgesOf(q) |-> Position(EdgesOf(q), e)]
                 a == AtLeast(CeilDiv(NEdges(q)))
      <4>1. WithAgent(q, FALSE) = [q EXCEPT !.agent = TRUE, !.n_alloc = a, !.ids = f]
        BY <3>2 DEF WithAgent
      <4>2. DOMAIN f = EdgesOf(q)
        OBVIOUS
      <4> HIDE DEF f, a
      <4>3. [q EXCEPT !.agent = TRUE, !.n_alloc = a, !.ids = f].ids = f
        BY <2>1 DEF TableType
      <4> QED BY <4>1, <4>2, <4>3 DEF EdgesOf
    <3> QED BY <3>1, <3>2
  <2> QED BY <2>2 DEF q
<1>5. /\ WorldSound(u) /\ u.graph = graph /\ u.map = map
      /\ \A d \in Datas : u.data[d].table = data[d].table
      /\ \A x \in Tables \ {t} : u.table[x] = table[x]
      /\ u.table = [table EXCEPT ![t] = r]
  <2>1. u.table = [table EXCEPT ![t] = r]
    BY WorldOfParts
  <2> HIDE DEF u, r, t
  <2> QED BY <1>1, <1>3, <2>1 DEF OnlyTable
<1> HIDE DEF u, r
<1>6. \A h \in Graphs : EdgesOf(u.table[u.graph[h]]) = EdgesOf(table[graph[h]])
  <2> SUFFICES ASSUME NEW h \in Graphs PROVE EdgesOf(u.table[graph[h]]) = EdgesOf(table[graph[h]])
    BY <1>5
  <2> HIDE DEF t
  <2>1. u.table[t] = r
    BY <1>2, <1>5
  <2> QED BY <1>2, <1>4, <1>5, <2>1
<1>7. Registration(u, owner)
  BY <1>1, <1>2, <1>5 DEF Registration, OnlyAt
<1>8. StepDone(World, u, owner)
  BY <1>1, <1>5, <1>6, <1>7 DEF StepDone
<1> QED BY <1>8 DEF u, r

(* The renumbered table.                                                                 *)
LEMMA RenumberedSound ==
  ASSUME NEW r \in TableType, TableSound(r), r.agent, r.maps = {} => r.free = <<>>
  PROVE  Renumbered(r) \in TableType /\ TableSound(Renumbered(r)) /\ Renumbered(r).maps = {}
<1> DEFINE q == [r EXCEPT !.agent = FALSE]
           y == WithAgent(q, FALSE)
           s == Renumbered(r)
<1>1. /\ r.free \in Seq(Nat) /\ r.n_alloc \in Nat /\ r.ids \in Ids /\ Numbered(r)
  BY TableParts DEF TableSound
<1>2. q \in TableType /\ q.agent = FALSE /\ q.ids = r.ids /\ q.free = r.free /\ q.maps = r.maps /\ q.n_alloc = r.n_alloc
  BY DEF TableType
<1> HIDE DEF q
<1>3. CASE r.maps = {}
  <2>1. /\ y \in TableType /\ y.agent /\ Numbered(y)
        /\ EdgesOf(y) = EdgesOf(q) /\ y.free = <<>> /\ y.maps = {}
    BY <1>2, <1>3, AgentNumbers
  <2>2. s = [y EXCEPT !.n_alloc = r.n_alloc]
    BY <1>3 DEF Renumbered, q
  <2> HIDE DEF y
  <2>3. s \in TableType /\ s.agent = y.agent /\ s.ids = y.ids /\ s.free = <<>> /\ s.maps = {} /\ s.n_alloc = r.n_alloc
    BY <1>1, <2>1, <2>2 DEF TableType
  <2> HIDE DEF s
  <2>4. Total(s) = Total(y) /\ Total(y) = NEdges(y) /\ Total(r) = NEdges(r)
    <3>1. Total(s) = Total(y)
      BY <2>1, <2>3 DEF Total, NEdges, EdgesOf
    <3> QED BY <1>3, <2>1, <3>1, TableParts
  <2>5. NEdges(y) = NEdges(r)
    BY <1>2, <2>1 DEF NEdges, EdgesOf
  <2>6. Numbered(s)
    BY <1>1, <2>1, <2>3, <2>4, <2>5 DEF Numbered
  <2>7. s \in TableType /\ TableSound(s) /\ s.maps = {}
    BY <2>1, <2>3, <2>6 DEF TableSound
  <2> QED BY <2>7 DEF s
<1>4. CASE r.maps # {}
  <2> DEFINE E == EdgesOf(q)
             f == [e \in E |-> Position(E, e)]
             a == AtLeast(CeilDiv(NEdges(q)))
  <2>1. /\ E \in SUBSET Edges /\ E \in SUBSET Nat /\ IsFiniteSet(E) /\ NEdges(q) \in Nat
    BY <1>2, TableParts
  <2>2. y = [q EXCEPT !.agent = TRUE, !.n_alloc = a, !.ids = f]
    BY <1>2 DEF WithAgent
  <2>3. f \in [E -> Nat]
    <3> HIDE DEF E
    <3>1. \A e \in E : Position(E, e) \in 0 .. Cardinality(E) - 1 /\ Cardinality(E) \in Nat
      BY <2>1, Positions
    <3> QED BY <3>1
  <2>4. a \in Nat
    BY <2>1, StartBuckets
  <2>6. s = TableCopy(y)
    BY <1>4 DEF Renumbered, q
  <2> HIDE DEF y, a, f, E
  <2>5. y \in TableType
    BY <1>2, <2>1, <2>2, <2>3, <2>4, IdsIntro DEF TableType
  <2> HIDE DEF s
  <2>7. s \in TableType /\ TableSound(s) /\ s.maps = {}
    BY <2>5, <2>6, TableCopyParts
  <2> QED BY <2>7 DEF s
<1> QED BY <1>3, <1>4

(* Graph::squeeze_edges.                                                                 *)
LEMMA SqueezeEdgesSound ==
  ASSUME IndInv, Allowed = {}, NEW g \in Graphs, SqueezeEdges(g)
  PROVE  \E u : Become(u) /\ owner' = owner /\ StepDone(World, u, owner)
<1> DEFINE w == Unshare(World, g)
           t == w.graph[g]
           r == w.table[t]
           s == Renumbered(r)
           F == [d \in Datas |-> IF d \in r.maps THEN NoData ELSE w.data[d]]
           u == WorldOf(w.graph, [w.table EXCEPT ![t] = s], F, w.map)
<1>1. MayDivorce(g) /\ owner' = owner /\ Become(u) /\ r.agent /\ (r.maps = {} => r.free = <<>>)
  BY DEF SqueezeEdges
<1>2. OnItsOwn(World, w, g)
  BY <1>1, UnshareSound
<1> HIDE DEF w
<1>3. WorldSound(w) /\ w.graph \in [Graphs -> Tables] /\ t \in Tables /\ r \in TableType /\ TableSound(r)
  <2>1. WorldSound(w) /\ w.graph \in [Graphs -> Tables] /\ t \in Tables
    BY <1>2, SoundParts DEF OnItsOwn
  <2> HIDE DEF t
  <2> QED BY <2>1, SoundParts
<1>4. s \in TableType /\ TableSound(s) /\ s.maps = {}
  <2> HIDE DEF r
  <2> QED BY <1>1, <1>3, RenumberedSound
<1> HIDE DEF s, t
<1>5. Reset(w, u, t)
  <2>1. \A x \in Graphs : w.graph[x] # t => \E z \in Graphs : w.graph[z] = w.graph[x]
    OBVIOUS
  <2>2. Reset(w, WorldOf(w.graph, [w.table EXCEPT ![t] = s],
                         [d \in Datas |-> IF d \in w.table[t].maps THEN NoData ELSE w.data[d]], w.map), t)
    BY <1>3, <1>4, <2>1, ResetSound
  <2> QED BY <2>2
<1>6. u.graph = w.graph
  BY WorldOfParts
<1> HIDE DEF u
<1>7. StepDone(World, u, owner)
  BY <1>2, <1>5, <1>6, OwnTableReset DEF t
<1> QED BY <1>1, <1>7

(* Graphs change their tables, and every table that had one still has a graph.           *)
LEMMA GraphsChanged ==
  ASSUME NEW w, WorldSound(w), NEW G \in [Graphs -> Tables], \A x \in Graphs : \E z \in Graphs : G[z] = w.graph[x]
  PROVE  WorldSound(WorldOf(G, w.table, w.data, w.map))
<1> DEFINE u == WorldOf(G, w.table, w.data, w.map)
<1>1. /\ u.graph = G /\ u.table = w.table /\ u.data = w.data /\ u.map = w.map /\ u \in WorldType
  <2>1. /\ w.table \in [Tables -> TableType] /\ w.data \in [Datas -> DataType] /\ w.map \in [Maps -> Datas \cup {None}]
    BY SoundParts
  <2> QED BY <2>1, WorldOfParts
<1> HIDE DEF u
<1>2. ASSUME NEW y \in Datas, w.data[y].table # None PROVE Attachment(u, y)
  <2>1. Attachment(w, y)
    BY <1>2, SoundParts
  <2>2. PICK x \in Graphs : w.graph[x] = w.data[y].table
    BY <2>1 DEF Attachment
  <2>3. \E z \in Graphs : G[z] = w.data[y].table
    BY <2>2
  <2> QED BY <1>1, <2>1, <2>3 DEF Attachment
<1>3. WorldSound(u)
  BY <1>1, <1>2 DEF WorldSound
<1> QED BY <1>3 DEF u

(* Graph::operator=.                                                                     *)
LEMMA AssignGraphSound ==
  ASSUME IndInv, NEW g \in Graphs, NEW h \in Graphs, AssignGraph(g, h)
  PROVE  \E u : Become(u) /\ StepDone(World, u, owner')
<1> DEFINE t == graph[g]
           G == [graph EXCEPT ![g] = graph[h]]
           w == WorldOf(G, table, data, map)
           u == Abandon(w, t)
           p == [m \in Maps |-> IF owner[m] = g THEN None ELSE owner[m]]
<1>1. Become(u) /\ owner' = p
  BY DEF AssignGraph
<1>2. /\ World.graph = graph /\ World.table = table /\ World.data = data /\ World.map = map
      /\ WorldSound(World) /\ owner \in [Maps -> Graphs \cup {None}]
      /\ \A m \in Maps : owner[m] # None /\ map[m] # None /\ data[map[m]].table # None => data[map[m]].table = graph[owner[m]]
  BY Invariants
<1>3. graph \in [Graphs -> Tables] /\ map \in [Maps -> Datas \cup {None}] /\ t \in Tables
  BY <1>2, SoundParts
<1>4. G \in [Graphs -> Tables] /\ G[g] = graph[h] /\ \A x \in Graphs \ {g} : G[x] = graph[x]
  BY <1>3
<1>5. w.graph = G /\ w.table = table /\ w.data = data /\ w.map = map
  BY WorldOfParts
<1>6. Hosts(w, t) = {x \in Graphs : G[x] = t}
  BY <1>5 DEF Hosts
<1> HIDE DEF G, p, w
<1>7. /\ WorldSound(u) /\ u.graph = G /\ u.map = map
      /\ \A d \in Datas : u.data[d].table = data[d].table \/ u.data[d].table = None
      /\ \A x \in Graphs \ {g} : u.table[graph[x]] = table[graph[x]]
  <2>1. CASE Hosts(w, t) # {}
    <3>1. u = w
      BY <2>1 DEF Abandon
    <3>2. PICK z \in Graphs : G[z] = t
      BY <1>6, <2>1
    <3>3. \A x \in Graphs : \E y \in Graphs : G[y] = World.graph[x]
      BY <1>2, <1>4, <3>2
    <3>4. WorldSound(WorldOf(G, World.table, World.data, World.map))
      BY <1>2, <1>4, <3>3, GraphsChanged
    <3>5. WorldSound(w)
      BY <1>2, <3>4 DEF w
    <3> QED BY <1>5, <3>1, <3>5
  <2>2. CASE Hosts(w, t) = {}
    <3> DEFINE F == [d \in Datas |-> IF d \in table[t].maps THEN NoData ELSE data[d]]
    <3>1. u = WorldOf(G, [table EXCEPT ![t] = EmptyTable], F, map)
      BY <1>5, <2>2 DEF Abandon
    <3>2. \A x \in Graphs : G[x] # t
      BY <1>6, <2>2
    <3>3. EmptyTable \in TableType /\ TableSound(EmptyTable) /\ EmptyTable.maps = {}
      BY Nothing DEF TableSound
    <3>4. \A x \in Graphs : World.graph[x] # t => \E z \in Graphs : G[z] = World.graph[x]
      BY <1>2, <1>4
    <3>5. Reset(World, WorldOf(G, [World.table EXCEPT ![t] = EmptyTable],
                               [d \in Datas |-> IF d \in World.table[t].maps THEN NoData ELSE World.data[d]], World.map), t)
      <4> HIDE DEF t
      <4> QED BY <1>2, <1>3, <1>4, <3>3, <3>4, ResetSound
    <3>6. Reset(World, u, t)
      BY <1>2, <3>1, <3>5
    <3>7. u.graph = G
      BY <3>1, WorldOfParts
    <3> HIDE DEF u
    <3>8. \A x \in Graphs \ {g} : graph[x] \in Tables \ {t}
      BY <1>3, <1>4, <3>2
    <3> HIDE DEF t
    <3> QED BY <1>2, <3>6, <3>7, <3>8 DEF Reset
  <2> QED BY <2>1, <2>2
<1> HIDE DEF u
<1>8. Registration(u, p)
  <2>1. p \in [Maps -> Graphs \cup {None}] /\ \A m \in Maps : p[m] # None => p[m] = owner[m] /\ owner[m] # g /\ owner[m] \in Graphs
    BY <1>2 DEF p
  <2> QED BY <1>2, <1>3, <1>4, <1>7, <2>1 DEF Registration, OnlyAt
<1>9. \A x \in Graphs \ {g} : EdgesOf(u.table[u.graph[x]]) = EdgesOf(World.table[World.graph[x]])
  BY <1>2, <1>4, <1>7
<1>10. StepDone(World, u, p)
  BY <1>7, <1>8, <1>9 DEF StepDone
<1> QED BY <1>1, <1>10

(* Entries that are there are initialised to what they are.                              *)
LEMMA InitialisedAgain ==
  ASSUME NEW w, WorldSound(w), NEW d \in Datas, w.data[d].table # None
  PROVE  InitEntries(w, d) = w
<1> DEFINE t == w.data[d].table
           ids == w.table[t].ids
           val == w.data[d].val
           c == Initialised(val, ids)
<1>1. /\ w \in WorldType /\ w.data \in [Datas -> DataType] /\ t \in Tables /\ d \in w.table[t].maps
      /\ DataSound(w.data[d], w.table[t])
  <2>1. w \in WorldType /\ w.data \in [Datas -> DataType] /\ t \in Tables /\ Attachment(w, d)
    BY SoundParts
  <2> QED BY <2>1, SoundParts DEF Attachment
<1>2. w.table[t] \in TableType /\ TableSound(w.table[t]) /\ w.table[t].agent /\ w.data[d] \in DataType
  <2> HIDE DEF t
  <2> QED BY <1>1, SoundParts
<1>3. ids \in Ids /\ val \in Vals /\ IsInjective(ids) /\ DOMAIN val = Range(ids) /\ \A e \in DOMAIN ids : val[ids[e]] = e
  <2>1. ids \in Ids /\ val \in Vals
    <3> HIDE DEF t
    <3> QED BY <1>2, TableParts, DataParts
  <2>2. IsInjective(ids)
    <3> HIDE DEF t
    <3> QED BY <1>2 DEF TableSound, Numbered, Exact
  <2>3. DOMAIN val = Range(ids) /\ \A e \in DOMAIN ids : val[ids[e]] = e
    <3> HIDE DEF t
    <3> QED BY <1>1 DEF DataSound, EdgesOf
  <2> QED BY <2>1, <2>2, <2>3
<1> HIDE DEF ids, val
<1>4. c \in Vals /\ DOMAIN c = Range(ids) /\ \A e \in DOMAIN ids : c[ids[e]] = e
  BY <1>3, InitialisedSound
<1> HIDE DEF c
<1>5. c = val
  <2>1. \A i \in Range(ids) : c[i] = val[i]
    BY <1>3, <1>4 DEF Range
  <2>2. c = [i \in DOMAIN c |-> c[i]] /\ val = [i \in DOMAIN val |-> val[i]]
    BY <1>3, <1>4, ValsFacts
  <2> QED BY <1>3, <1>4, <2>1, <2>2
<1>6. InitEntries(w, d) = WorldOf(w.graph, w.table, [w.data EXCEPT ![d].val = c], w.map)
  BY DEF InitEntries, c, ids, val
<1>7. [w.data EXCEPT ![d].val = c] = w.data
  <2> DEFINE D == w.data[d]
  <2>1. D.val = c
    BY <1>5 DEF val
  <2>2. [D EXCEPT !.val = c] = D
    <3>1. D \in DataType
      BY <1>2
    <3> HIDE DEF D
    <3> QED BY <2>1, <3>1 DEF DataType
  <2>3. [w.data EXCEPT ![d].val = c] = [w.data EXCEPT ![d] = [D EXCEPT !.val = c]]
    OBVIOUS
  <2>4. [w.data EXCEPT ![d] = D] = w.data
    BY <1>1
  <2> HIDE DEF D
  <2> QED BY <2>2, <2>3, <2>4
<1> QED BY <1>1, <1>6, <1>7, WorldParts

(* Graph::attach.                                                                        *)
LEMMA AttachMapSound ==
  ASSUME IndInv, Allowed = {}, NEW m \in Maps, NEW g \in Graphs, AttachMap(m, g)
  PROVE  \E u : Become(u) /\ StepDone(World, u, owner')
<1> DEFINE t == graph[g]
           same == map[m] # None /\ data[map[m]].table = t
           x == NewData(Leave(World, m), m, t, FALSE)
           w == IF same THEN World ELSE x
           u == InitEntries(w, w.map[m])
           p == [owner EXCEPT ![m] = g]
<1>1. (same \/ MayNumber(t)) /\ Become(u) /\ owner' = p
  BY DEF AttachMap
<1>2. /\ World.graph = graph /\ World.table = table /\ World.data = data /\ World.map = map
      /\ WorldSound(World) /\ owner \in [Maps -> Graphs \cup {None}] /\ Registration(World, owner)
  BY Invariants DEF IndInv
<1>3. graph \in [Graphs -> Tables] /\ map \in [Maps -> Datas \cup {None}] /\ t \in Tables /\ None \notin Tables
  BY <1>2, SoundParts
<1>4. p \in [Maps -> Graphs \cup {None}] /\ p[m] = g /\ \A k \in Maps \ {m} : p[k] = owner[k]
  BY <1>2
<1> HIDE DEF p, t
<1>5. WorldSound(u) /\ OthersStay(World, u, m) /\ u.map[m] \in Datas /\ u.data[u.map[m]].table = t
  <2>1. CASE same
    <3>1. map[m] \in Datas /\ data[map[m]].table = t /\ t # None
      BY <1>3, <2>1
    <3>2. u = World
      <4>1. u = InitEntries(World, map[m])
        BY <1>2, <2>1
      <4> HIDE DEF u
      <4> QED BY <1>2, <3>1, <4>1, InitialisedAgain
    <3> HIDE DEF u
    <3> QED BY <1>2, <3>1, <3>2 DEF OthersStay
  <2>2. CASE ~same
    <3>1. w = x
      BY <2>2
    <3>2. World.table[t].free = <<>>
      BY <1>1, <1>2, <2>2 DEF MayNumber
    <3>3. World.graph[g] = t
      BY <1>2 DEF t
    <3>4. LET v == AttachedAnew(World, m, t) IN
          /\ WorldSound(v) /\ OthersStay(World, v, m)
          /\ v.map[m] \in Datas /\ v.data[v.map[m]].table = t
      BY <1>2, <1>3, <3>2, <3>3, AttachSound
    <3>5. u = AttachedAnew(World, m, t)
      BY <3>1 DEF AttachedAnew
    <3> HIDE DEF u
    <3> QED BY <3>4, <3>5
  <2> QED BY <2>1, <2>2
<1> HIDE DEF u
<1>6. OnlyAt(u, m, World.graph[p[m]])
  BY <1>2, <1>4, <1>5 DEF OnlyAt, t
<1>7. StepDone(World, u, p)
  BY <1>2, <1>4, <1>5, <1>6, MapChanged
<1> QED BY <1>1, <1>7

(* SharedMap::operator=.                                                                 *)
LEMMA AssignMapSound ==
  ASSUME IndInv, NEW m \in Maps, NEW k \in Maps, AssignMap(m, k)
  PROVE  \E u : Become(u) /\ owner' = owner /\ StepDone(World, u, owner)
<1> DEFINE w == Leave(World, m)
           u == IF map[m] = map[k] THEN World ELSE Hosting(w, m, map[k])
<1>1. /\ m # k /\ map[k] # None /\ Become(u) /\ owner' = owner
      /\ owner[m] # None => data[map[k]].table = graph[owner[m]]
  BY DEF AssignMap
<1>2. /\ World.graph = graph /\ World.table = table /\ World.data = data /\ World.map = map
      /\ WorldSound(World) /\ owner \in [Maps -> Graphs \cup {None}] /\ Registration(World, owner)
  BY Invariants DEF IndInv
<1>3. map \in [Maps -> Datas \cup {None}] /\ map[k] \in Datas
  BY <1>1, <1>2, SoundParts
<1>4. CASE map[m] = map[k]
  <2>1. u = World
    BY <1>4
  <2>2. OthersStay(World, World, m) /\ \A j \in Maps \ {m} : owner[j] = owner[j]
    BY DEF OthersStay
  <2>3. owner[m] # None => OnlyAt(World, m, World.graph[owner[m]])
    BY <1>2 DEF Registration
  <2>4. StepDone(World, World, owner)
    BY <1>2, <2>2, <2>3, MapChanged
  <2> HIDE DEF u
  <2> QED BY <1>1, <2>1, <2>4
<1>5. CASE map[m] # map[k]
  <2> DEFINE x == Hosting(w, m, map[k])
  <2>1. u = x
    BY <1>5
  <2>2. WorldSound(w) /\ OthersKept(World, w, m) /\ w.map = [map EXCEPT ![m] = None]
    BY <1>2, LeaveSound
  <2> HIDE DEF w
  <2>3. w.map[m] = None
    BY <1>3, <2>2
  <2>4. /\ WorldSound(x) /\ x.graph = w.graph /\ x.table = w.table /\ x.data = w.data
        /\ x.map = [w.map EXCEPT ![m] = map[k]]
    <3> DEFINE d == map[k]
    <3>1. d \in Datas \cup {None}
      BY <1>3
    <3>2. x = Hosting(w, m, d)
      OBVIOUS
    <3> HIDE DEF d, x
    <3>3. WorldSound(x) /\ x.graph = w.graph /\ x.table = w.table /\ x.data = w.data
      <4>1. WorldSound(w)
        BY <2>2
      <4>2. w.map[m] # None => \E j \in Maps \ {m} : w.map[j] = w.map[m]
        BY <2>3
      <4>3. LET y == Hosting(w, m, d) IN
            WorldSound(y) /\ y.graph = w.graph /\ y.table = w.table /\ y.data = w.data
        BY ONLY <4>1, <4>2, <3>1, m \in Maps, HostingSound
      <4> QED BY <3>2, <4>3
    <3>4. x.map = [w.map EXCEPT ![m] = d]
      BY <3>2, WorldOfParts DEF Hosting
    <3> QED BY <3>3, <3>4 DEF d
  <2> HIDE DEF x
  <2>5. x.map[m] = map[k] /\ \A j \in Maps \ {m} : x.map[j] = map[j]
    BY <1>3, <2>2, <2>4
  <2>6. OthersStay(World, x, m)
    <3>1. OthersStay(World, w, m)
      BY <2>2, KeptStay
    <3> QED BY <1>2, <2>4, <2>5, <3>1 DEF OthersStay
  <2>7. x.data[map[k]].table = data[map[k]].table
    BY <1>1, <1>2, <2>2, <2>4 DEF OthersKept
  <2>8. owner[m] # None => OnlyAt(x, m, World.graph[owner[m]])
    BY <1>1, <1>2, <2>5, <2>7 DEF OnlyAt
  <2>9. \A j \in Maps \ {m} : owner[j] = owner[j]
    OBVIOUS
  <2>10. StepDone(World, x, owner)
    BY <1>2, <2>4, <2>6, <2>8, <2>9, MapChanged
  <2> HIDE DEF u
  <2> QED BY <1>1, <2>1, <2>10
<1> QED BY <1>4, <1>5

(* ~SharedMap.                                                                           *)
LEMMA DropMapSound ==
  ASSUME IndInv, NEW m \in Maps, DropMap(m)
  PROVE  \E u : Become(u) /\ StepDone(World, u, owner')
<1> DEFINE u == Leave(World, m)
           p == [owner EXCEPT ![m] = None]
<1>1. Become(u) /\ owner' = p
  BY DEF DropMap
<1>2. /\ World.graph = graph /\ World.table = table /\ World.data = data /\ World.map = map
      /\ WorldSound(World) /\ owner \in [Maps -> Graphs \cup {None}] /\ Registration(World, owner)
  BY Invariants DEF IndInv
<1>3. WorldSound(u) /\ OthersKept(World, u, m)
  BY <1>2, LeaveSound
<1>4. p \in [Maps -> Graphs \cup {None}] /\ p[m] = None /\ \A k \in Maps \ {m} : p[k] = owner[k]
  BY <1>2
<1> HIDE DEF u, p
<1>5. OthersStay(World, u, m)
  BY <1>3, KeptStay
<1>6. StepDone(World, u, p)
  BY <1>2, <1>3, <1>4, <1>5, MapChanged
<1> QED BY <1>1, <1>6

(* A map that is written to has data of its own.                                         *)
LEMMA PrivateSound ==
  ASSUME IndInv, Allowed = {}, NEW m \in Maps, Attached(m), MayWrite(m)
  PROVE  LET u == Private(m) IN
         /\ StepDone(World, u, owner) /\ OthersStay(World, u, m) /\ u.map[m] \in Datas
         /\ data[map[m]].table \in Tables /\ u.data[u.map[m]].table = data[map[m]].table
<1> DEFINE u == Private(m)
           t == data[map[m]].table
<1>1. /\ World.graph = graph /\ World.table = table /\ World.data = data /\ World.map = map
      /\ WorldSound(World) /\ owner \in [Maps -> Graphs \cup {None}] /\ Registration(World, owner)
  BY Invariants DEF IndInv
<1>2. /\ map[m] # None /\ t # None /\ map[m] \in Datas /\ t \in Tables
      /\ Attachment(World, map[m]) /\ map[m] \in table[t].maps
  <2>1. map[m] # None /\ t # None
    BY DEF Attached
  <2>2. map[m] \in Datas
    BY <1>1, <2>1, SoundParts
  <2>3. t \in Tables /\ Attachment(World, map[m])
    BY <1>1, <2>1, <2>2, SoundParts
  <2> QED BY <1>1, <2>1, <2>2, <2>3, SoundParts
<1>3. WorldSound(u) /\ OthersStay(World, u, m) /\ u.map[m] \in Datas /\ u.data[u.map[m]].table = t
  <2>1. CASE ~(Refc(World, map[m]) > 1)
    <3>1. u = World
      BY <2>1 DEF Private
    <3> HIDE DEF u
    <3> QED BY <1>1, <1>2, <3>1 DEF OthersStay
  <2>2. CASE Refc(World, map[m]) > 1
    <3>1. u = CopyData(World, m, t)
      BY <2>2 DEF Private
    <3> HIDE DEF u, t
    <3>2. PICK k \in Maps \ {m} : World.map[k] = World.map[m]
      BY <1>1, <2>2, RefcShared
    <3>3. PICK h \in Graphs : World.graph[h] = t
      BY <1>1, <1>2 DEF Attachment, t
    <3>4. Enumerable(World.table[t])
      <4>1. table[t].free = <<>>
        BY <2>2 DEF MayWrite, MayNumber, t
      <4>2. table[t].agent
        BY <1>1, <1>2, SoundParts
      <4> QED BY <1>1, <4>1, <4>2 DEF Enumerable
    <3>5. World.data[World.map[m]].table = t /\ World.map[m] # None
      BY <1>1, <1>2 DEF t
    <3>6. WorldSound(u) /\ CopiedTo(World, u, m, t)
      BY <1>1, <1>2, <3>1, <3>2, <3>3, <3>4, <3>5, CopySound
    <3>7. OthersStay(World, u, m)
      BY <3>6, KeptStay DEF CopiedTo
    <3> QED BY <3>6, <3>7 DEF CopiedTo
  <2> QED BY <2>1, <2>2
<1> HIDE DEF u, t
<1>4. owner[m] # None => OnlyAt(u, m, World.graph[owner[m]])
  <2>1. owner[m] # None => OnlyAt(World, m, World.graph[owner[m]])
    BY <1>1 DEF Registration
  <2> QED BY <1>1, <1>2, <1>3, <2>1 DEF OnlyAt, t
<1>5. \A j \in Maps \ {m} : owner[j] = owner[j]
  OBVIOUS
<1>6. StepDone(World, u, owner)
  BY <1>1, <1>3, <1>4, <1>5, MapChanged
<1> QED BY <1>2, <1>3, <1>6 DEF u, t

(* EdgeMap::operator[].                                                                  *)
LEMMA WriteMapSound ==
  ASSUME IndInv, Allowed = {}, NEW m \in Maps, WriteMap(m)
  PROVE  \E u : Become(u) /\ owner' = owner /\ StepDone(World, u, owner)
<1>1. Become(Private(m)) /\ owner' = owner /\ Attached(m) /\ MayWrite(m)
  BY DEF WriteMap
<1>2. StepDone(World, Private(m), owner)
  BY <1>1, PrivateSound
<1> QED BY <1>1, <1>2

(* EdgeMap::operator().                                                                  *)
LEMMA WriteEdgeSound ==
  ASSUME IndInv, Allowed = {}, NEW m \in Maps, NEW e \in Edges, WriteEdge(m, e)
  PROVE  \E u : Become(u) /\ owner' = owner /\ StepDone(World, u, owner)
<1> DEFINE t == data[map[m]].table
           w == Private(m)
           u == Added(w, t, e)
<1>1. Become(u) /\ owner' = owner /\ Attached(m) /\ MayWrite(m) /\ Cardinality(Hosts(World, t)) = 1
  BY DEF WriteEdge
<1>2. /\ World.graph = graph /\ World.table = table /\ World.data = data /\ World.map = map
      /\ WorldSound(World)
  BY Invariants
<1>3. StepDone(World, w, owner) /\ OthersStay(World, w, m) /\ t \in Tables
  BY <1>1, PrivateSound
<1> HIDE DEF w, t
<1>4. OnlyTable(w, u, t)
  BY <1>3, AddedSound DEF StepDone
<1> HIDE DEF u
<1>5. /\ WorldSound(u) /\ u.graph = w.graph /\ u.map = w.map
      /\ \A d \in Datas : u.data[d].table = w.data[d].table
      /\ \A y \in Tables \ {t} : u.table[y] = w.table[y]
  BY <1>4 DEF OnlyTable
<1>6. /\ w.graph = graph /\ w.graph \in [Graphs -> Tables] /\ w.map \in [Maps -> Datas \cup {None}]
      /\ \A y \in Tables : EdgesOf(w.table[y]) = EdgesOf(table[y])
      /\ Registration(w, owner)
  BY <1>2, <1>3, SoundParts DEF StepDone, OthersStay
<1>7. Registration(u, owner)
  BY <1>5, <1>6 DEF Registration, OnlyAt
<1>8. \E g : \A h \in Graphs \ {g} : graph[h] # t
  <2>1. IsFiniteSet(Hosts(World, t))
    BY ObjectsAssumption, FS_Subset DEF Hosts
  <2>2. PICK g : Hosts(World, t) = {g}
    <3> DEFINE H == Hosts(World, t)
    <3> HIDE DEF H
    <3>1. IsFiniteSet(H) /\ Cardinality(H) = 1
      BY <1>1, <2>1 DEF H
    <3>2. \E g : H = {g}
      BY <3>1, FS_Singleton
    <3> QED BY <3>2 DEF H
  <2> QED BY <1>2, <2>2 DEF Hosts
<1>9. PICK g : \A h \in Graphs \ {g} : graph[h] # t
  BY <1>8
<1>10. \A h \in Graphs \ {g} : EdgesOf(u.table[u.graph[h]]) = EdgesOf(World.table[World.graph[h]])
  BY <1>2, <1>5, <1>6, <1>9
<1>11. StepDone(World, u, owner)
  BY <1>5, <1>7, <1>10 DEF StepDone
<1> QED BY <1>1, <1>11

(***************************************************************************)
(* The theorems.                                                           *)
(***************************************************************************)

(* Graphs start with empty tables of their own, and maps with nothing.                  *)
LEMMA InitSound ==
  ASSUME Init
  PROVE  IndInv
<1>1. /\ graph \in [Graphs -> Tables] /\ table = [t \in Tables |-> EmptyTable] /\ data = [d \in Datas |-> NoData]
      /\ map = [m \in Maps |-> None] /\ owner = [m \in Maps |-> None]
  BY DEF Init
<1>2. /\ World.graph = graph /\ World.table = table /\ World.data = data /\ World.map = map
  BY WorldOfParts DEF World
<1>3. /\ EmptyTable \in TableType /\ NoData \in DataType /\ EmptyTable.free = <<>> /\ EmptyTable.agent = FALSE
      /\ EmptyTable.maps = {} /\ NoData.table = None
  BY Nothing
<1>4. World \in WorldType
  <2>1. table \in [Tables -> TableType] /\ data \in [Datas -> DataType] /\ map \in [Maps -> Datas \cup {None}]
    BY <1>1, <1>3
  <2> QED BY <1>1, <2>1, WorldOfParts DEF World
<1>5. WorldSound(World)
  <2>1. \A t \in Tables : TableSound(table[t])
    BY <1>1, <1>3 DEF TableSound
  <2>2. \A d \in Datas : data[d].table = None
    BY <1>1, <1>3
  <2>3. \A t \in Tables, d \in Datas : d \in table[t].maps <=> data[d].table = t
    BY <1>1, <1>3, <2>2, ObjectsAssumption
  <2> QED BY <1>2, <1>4, <2>1, <2>2, <2>3 DEF WorldSound
<1>6. Registration(World, owner)
  BY <1>1 DEF Registration
<1> QED BY <1>5, <1>6 DEF IndInv

\* What GraphsIndependent says of a step.
OneGraphChanges ==
  \A g, h \in Graphs :
    /\ EdgesOf(table[graph[g]])' # EdgesOf(table[graph[g]])
    /\ EdgesOf(table[graph[h]])' # EdgesOf(table[graph[h]])
    => g = h

(* What follows when the variables have taken the values of a sound world.               *)
LEMMA BecomeSound ==
  ASSUME NEW u, Become(u), StepDone(World, u, owner')
  PROVE  IndInv' /\ OneGraphChanges
<1>1. /\ WorldSound(u) /\ Registration(u, owner')
      /\ \E g : \A h \in Graphs \ {g} : EdgesOf(u.table[u.graph[h]]) = EdgesOf(World.table[World.graph[h]])
  BY DEF StepDone
<1>2. graph' = u.graph /\ table' = u.table /\ data' = u.data /\ map' = u.map
  BY DEF Become
<1>3. World' = u
  <2>1. u = WorldOf(u.graph, u.table, u.data, u.map)
    BY <1>1, SoundParts, WorldParts
  <2>2. World' = WorldOf(graph', table', data', map')
    BY DEF World
  <2> QED BY <1>2, <2>1, <2>2
<1>4. IndInv'
  <2>1. WorldSound(World') /\ Registration(World', owner')
    BY <1>1, <1>3
  <2> QED BY <2>1 DEF IndInv
<1>5. OneGraphChanges
  <2>1. PICK z : \A h \in Graphs \ {z} : EdgesOf(u.table[u.graph[h]]) = EdgesOf(World.table[World.graph[h]])
    BY <1>1
  <2>2. World.graph = graph /\ World.table = table
    BY WorldOfParts DEF World
  <2>3. \A h \in Graphs : EdgesOf(table'[graph'[h]]) # EdgesOf(table[graph[h]]) => h = z
    BY <1>2, <2>1, <2>2
  <2> QED BY <2>3 DEF OneGraphChanges
<1> QED BY <1>4, <1>5

(* Every step leads to a sound world.                                                    *)
LEMMA NextSound ==
  ASSUME IndInv, Allowed = {}, Next
  PROVE  \E u : Become(u) /\ StepDone(World, u, owner')
<1>1. ASSUME NEW g \in Graphs, NEW e \in Edges, AddEdge(g, e)
      PROVE  \E u : Become(u) /\ StepDone(World, u, owner')
  <2> DEFINE w == Unshare(World, g)
             u == Added(w, w.graph[g], e)
  <2>1. MayDivorce(g) /\ Become(u) /\ owner' = owner
    BY <1>1 DEF AddEdge
  <2>2. StepDone(World, u, owner)
    BY <2>1, AddEdgeSound
  <2> HIDE DEF u
  <2> QED BY <2>1, <2>2
<1>2. ASSUME NEW g \in Graphs, NEW e \in Edges, DeleteEdge(g, e)
      PROVE  \E u : Become(u) /\ StepDone(World, u, owner')
  <2> DEFINE w == Unshare(World, g)
             u == Removed(w, w.graph[g], e)
  <2>1. MayDivorce(g) /\ Become(u) /\ owner' = owner
    BY <1>2 DEF DeleteEdge
  <2>2. StepDone(World, u, owner)
    BY <2>1, DeleteEdgeSound
  <2> HIDE DEF u
  <2> QED BY <2>1, <2>2
<1>3. ASSUME NEW g \in Graphs, ClearGraph(g)
      PROVE  \E u : Become(u) /\ StepDone(World, u, owner')
  BY <1>3, ClearGraphSound
<1>4. ASSUME NEW g \in Graphs, EnumerateEdges(g)
      PROVE  \E u : Become(u) /\ StepDone(World, u, owner')
  <2> DEFINE u == WorldOf(graph, [table EXCEPT ![graph[g]] = WithAgent(table[graph[g]], FALSE)], data, map)
  <2>1. Become(u) /\ owner' = owner
    BY <1>4 DEF EnumerateEdges
  <2>2. StepDone(World, u, owner)
    BY EnumerateEdgesSound
  <2> HIDE DEF u
  <2> QED BY <2>1, <2>2
<1>5. ASSUME NEW g \in Graphs, SqueezeEdges(g)
      PROVE  \E u : Become(u) /\ StepDone(World, u, owner')
  BY <1>5, SqueezeEdgesSound
<1>6. ASSUME NEW g \in Graphs, NEW h \in Graphs, AssignGraph(g, h)
      PROVE  \E u : Become(u) /\ StepDone(World, u, owner')
  BY <1>6, AssignGraphSound
<1>7. ASSUME NEW m \in Maps, NEW g \in Graphs, AttachMap(m, g)
      PROVE  \E u : Become(u) /\ StepDone(World, u, owner')
  BY <1>7, AttachMapSound
<1>8. ASSUME NEW m \in Maps, NEW k \in Maps, AssignMap(m, k)
      PROVE  \E u : Become(u) /\ StepDone(World, u, owner')
  BY <1>8, AssignMapSound
<1>9. ASSUME NEW m \in Maps, NEW e \in Edges, WriteEdge(m, e)
      PROVE  \E u : Become(u) /\ StepDone(World, u, owner')
  BY <1>9, WriteEdgeSound
<1>10. ASSUME NEW m \in Maps, DropMap(m)
       PROVE  \E u : Become(u) /\ StepDone(World, u, owner')
  BY <1>10, DropMapSound
<1>11. ASSUME NEW m \in Maps, WriteMap(m)
       PROVE  \E u : Become(u) /\ StepDone(World, u, owner')
  BY <1>11, WriteMapSound
<1> QED BY <1>1, <1>2, <1>3, <1>4, <1>5, <1>6, <1>7, <1>8, <1>9, <1>10, <1>11 DEF Next

(* Without the steps of KnownFaults the worlds that occur are sound.                     *)
THEOREM GraphsSound ==
  ASSUME Allowed = {}
  PROVE  Spec => []IndInv
<1>1. Init => IndInv
  BY InitSound
<1>2. IndInv /\ [Next]_vars => IndInv'
  <2> SUFFICES ASSUME IndInv, [Next]_vars PROVE IndInv'
    OBVIOUS
  <2>1. CASE Next
    <3>1. PICK u : Become(u) /\ StepDone(World, u, owner')
      BY <2>1, NextSound
    <3> QED BY <3>1, BecomeSound
  <2>2. CASE UNCHANGED vars
    BY <2>2 DEF vars, IndInv, World
  <2> QED BY <2>1, <2>2
<1> QED BY <1>1, <1>2, PTL DEF Spec

(* What the invariant says of the numbers of the edges.                                  *)
LEMMA SoundNumbers ==
  ASSUME IndInv
  PROVE  NumbersExact
<1>1. \A t \in Tables : /\ table[t] \in TableType /\ TableSound(table[t])
                        /\ table[t].maps # {} => table[t].agent
  BY Invariants, SoundParts
<1>2. IdsUnique
  BY <1>1 DEF IdsUnique, TableSound, Numbered, Exact
<1>3. FreeIdsExact
  <2> SUFFICES ASSUME NEW t \in Tables, table[t].agent
               PROVE  /\ IsInjective(table[t].free)
                      /\ Range(table[t].free) \cup Range(table[t].ids) = 0 .. NEdges(table[t]) + Len(table[t].free) - 1
                      /\ Range(table[t].free) \cap Range(table[t].ids) = {}
    BY DEF FreeIdsExact
  <2>1. Exact(table[t].ids, table[t].free, Total(table[t]))
    BY <1>1 DEF TableSound, Numbered
  <2>2. Total(table[t]) = NEdges(table[t]) + Len(table[t].free)
    BY DEF Total
  <2>3. Exact(table[t].ids, table[t].free, NEdges(table[t]) + Len(table[t].free))
    BY <2>1, <2>2, Zenon
  <2>4. (NEdges(table[t]) + Len(table[t].free)) - 1 = NEdges(table[t]) + (Len(table[t].free) - 1)
    <3>1. NEdges(table[t]) \in Nat /\ Len(table[t].free) \in Nat
      BY <1>1, TableParts
    <3> QED BY ONLY <3>1
  <2>5. /\ IsInjective(table[t].free)
        /\ Range(table[t].free) \cup Range(table[t].ids) = 0 .. ((NEdges(table[t]) + Len(table[t].free)) - 1)
        /\ Range(table[t].free) \cap Range(table[t].ids) = {}
    BY <2>3, Zenon DEF Exact
  <2> QED BY ONLY <2>4, <2>5, Zenon
<1> QED BY <1>2, <1>3 DEF NumbersExact

(* What it says of the entries of the maps.                                              *)
LEMMA SoundEntries ==
  ASSUME IndInv
  PROVE  EntriesExact
<1> SUFFICES ASSUME NEW d \in Live
             PROVE  /\ DOMAIN data[d].val = Range(IdsOf(d))
                    /\ \A i \in DOMAIN data[d].val : i \div BucketSize \in data[d].buckets
                    /\ \A b \in data[d].buckets : b < data[d].n_alloc
                    /\ \A e \in DOMAIN IdsOf(d) : data[d].val[IdsOf(d)[e]] = e
  BY DEF EntriesExact
<1> DEFINE t == data[d].table
<1>1. World.graph = graph /\ World.table = table /\ World.data = data /\ World.map = map /\ WorldSound(World)
  BY Invariants
<1>2. d \in Datas /\ t # None
  BY DEF Live
<1>3. t \in Tables /\ DataSound(data[d], table[t]) /\ d \in table[t].maps
  <2>1. t \in Tables /\ Attachment(World, d)
    BY <1>1, <1>2, SoundParts
  <2> QED BY <1>1, <1>2, <2>1, SoundParts DEF Attachment
<1> HIDE DEF t
<1>4. table[t] \in TableType /\ TableSound(table[t]) /\ table[t].agent
  BY <1>1, <1>3, SoundParts
<1>5. \A i \in Range(table[t].ids) : i \in 0 .. Total(table[t]) - 1
  BY <1>4 DEF TableSound, Numbered, Exact
<1>6. IdsOf(d) = table[t].ids
  BY DEF IdsOf, t
<1> QED BY <1>3, <1>5, <1>6 DEF DataSound, EdgesOf

(* What it says of the maps and their graphs.                                            *)
LEMMA SoundMaps ==
  ASSUME IndInv
  PROVE  MapsStayWithGraph
<1>1. /\ World.graph = graph /\ World.table = table /\ World.data = data /\ World.map = map /\ WorldSound(World)
      /\ \A m \in Maps : owner[m] # None /\ map[m] # None /\ data[map[m]].table # None => data[map[m]].table = graph[owner[m]]
  BY Invariants
<1>2. \A t \in Tables : table[t].maps = {d \in Datas : data[d].table = t}
  <2>1. \A t \in Tables : table[t].maps \in SUBSET Datas /\ \A d \in Datas : d \in table[t].maps <=> data[d].table = t
    BY <1>1, SoundParts
  <2> QED BY <2>1
<1>3. ASSUME NEW d \in Live PROVE Refc(World, d) > 0 /\ Hosts(World, data[d].table) # {}
  <2>1. d \in Datas /\ data[d].table # None
    BY DEF Live
  <2>2. Attachment(World, d)
    BY <1>1, <2>1, SoundParts
  <2>3. PICK m \in Maps, g \in Graphs : map[m] = d /\ graph[g] = data[d].table
    BY <1>1, <2>2 DEF Attachment
  <2> DEFINE S == {k \in Maps : World.map[k] = d}
  <2>4. m \in S /\ IsFiniteSet(S)
    BY <1>1, <2>3, ObjectsAssumption, FS_Subset
  <2>5. Cardinality(S) \in Nat /\ Cardinality(S) # 0
    <3> HIDE DEF S
    <3> QED BY <2>4, FS_CardinalityType, FS_EmptySet
  <2>6. g \in Hosts(World, data[d].table)
    BY <1>1, <2>3 DEF Hosts
  <2> QED BY <2>5, <2>6 DEF Refc
<1> QED BY <1>1, <1>2, <1>3 DEF MapsStayWithGraph, Attached

(* Numbers are given once, and what is missing among them is on the free list, for every *)
(* number of graphs, maps and edges.                                                     *)
THEOREM NumbersStayExact ==
  ASSUME Allowed = {}
  PROVE  Spec => []NumbersExact
<1>1. IndInv => NumbersExact
  BY SoundNumbers
<1> QED BY <1>1, GraphsSound, PTL

(* No access to a map goes astray, and no number leads one edge to the value of another. *)
THEOREM EntriesStayExact ==
  ASSUME Allowed = {}
  PROVE  Spec => []EntriesExact
<1>1. IndInv => EntriesExact
  BY SoundEntries
<1> QED BY <1>1, GraphsSound, PTL

(* A map registered with a graph is attached to the table of that graph.                 *)
THEOREM MapsAlwaysStayWithGraph ==
  ASSUME Allowed = {}
  PROVE  Spec => []MapsStayWithGraph
<1>1. IndInv => MapsStayWithGraph
  BY SoundMaps
<1> QED BY <1>1, GraphsSound, PTL

(* No step changes the edges of two graphs.                                              *)
THEOREM GraphsStayIndependent ==
  ASSUME Allowed = {}
  PROVE  Spec => GraphsIndependent
<1>1. IndInv /\ [Next]_vars => [OneGraphChanges]_vars
  <2> SUFFICES ASSUME IndInv, Next PROVE OneGraphChanges
    OBVIOUS
  <2>1. PICK u : Become(u) /\ StepDone(World, u, owner')
    BY NextSound
  <2> QED BY <2>1, BecomeSound
<1>2. [OneGraphChanges]_vars =>
        [\A g, h \in Graphs :
           /\ EdgesOf(table[graph[g]])' # EdgesOf(table[graph[g]])
           /\ EdgesOf(table[graph[h]])' # EdgesOf(table[graph[h]])
           => g = h]_vars
  BY DEF OneGraphChanges
<1> QED BY <1>1, <1>2, GraphsSound, PTL DEF Spec, GraphsIndependent
=============================================================================
