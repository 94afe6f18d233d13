--------------------------- MODULE Library_proofs ---------------------------
(***************************************************************************)
(* Proofs about two parts of the C++ library: the heap with the search for *)
(* shortest paths that uses it (Heap, Dijkstra), and shared objects with   *)
(* their aliases (SharedObject).  They share nothing, and each has an      *)
(* invariant of its own: Inv and IInv.                                     *)
(***************************************************************************)
EXTENDS Dijkstra, SharedObject, Folding

(***************************************************************************)
(* Proofs about Heap and Dijkstra, for every graph and number of elements. *)
(*                                                                         *)
(* While an operation of the queue runs, one cell is free, or holds what   *)
(* does not belong there: Holed, Rising, Sinking and Gap describe such a   *)
(* queue, and each turn of the loops keeps them.  Sound is a whole queue.  *)
(*                                                                         *)
(* Inv is the inductive invariant: a Sound queue, and for a search the     *)
(* labels as a tree (OneEach, Tallied, PredsDone, NoCycle, Rooted), settled*)
(* in the order of their keys (InOrder), whose arcs have been followed     *)
(* (Relaxed).  Grown is the step that adds a label, with or without one it *)
(* replaces.  The walks of ShortestFound are built in rounds, and what     *)
(* each round keeps is shown by Rounds.                                    *)
(*                                                                         *)
(* The theorems assume Allowed = {}: no key of a queued element is made    *)
(* greater, and solve() is called once.  A greater key breaks HeapSound, a *)
(* second call ShortestFound and LabelsCounted.                            *)
(***************************************************************************)
-----------------------------------------------------------------------------
(* Turns of a loop                                                         *)

\* f[s] is what as many turns as s has elements make of base.
Repeated(f, S, base, turn) ==
  f = [s \in SUBSET S |-> IF s = {} THEN base ELSE turn[f[s \ {CHOOSE x \in s : TRUE}]]]

\* The turns lessen a rank as long as they change something.
Lessening(S, D, base, turn, rank) ==
  /\ base \in D /\ turn \in [D -> D] /\ rank \in [D -> Nat]
  /\ \A v \in D : turn[v] = v \/ rank[turn[v]] < rank[v]
  /\ rank[base] < Cardinality(S)

(* A loop whose turns lessen a rank as long as they change something has come to its end *)
(* after more turns than the rank it started with.                                       *)
LEMMA RepeatedStops ==
  ASSUME NEW S, IsFiniteSet(S), NEW D, NEW base, NEW turn, NEW rank, Lessening(S, D, base, turn, rank)
  PROVE  \E f : Repeated(f, S, base, turn) /\ (\A s \in SUBSET S : f[s] \in D) /\ turn[f[S]] = f[S]
<1> DEFINE next == [s \in SUBSET S |-> CHOOSE x \in s : TRUE]
           step == [q \in S \X D |-> turn[q[2]]]
           Good == {z \in (SUBSET S) \X D : Cardinality(z[1]) + rank[z[2]] <= rank[base] \/ turn[z[2]] = z[2]}
<1>0. /\ base \in D /\ turn \in [D -> D] /\ rank \in [D -> Nat]
      /\ \A v \in D : turn[v] = v \/ rank[turn[v]] < rank[v]
  BY DEF Lessening
<1>1. \A s \in SUBSET S : s # {} => next[s] \in s
  OBVIOUS
<1>2. <<{}, base>> \in Good
  <2>1. Cardinality({}) = 0
    BY FS_EmptySet
  <2> QED BY <1>0, <2>1
<1>3. ASSUME NEW s \in SUBSET S, NEW v, s # {}, <<s \ {next[s]}, v>> \in Good
      PROVE  <<s, step[<<next[s], v>>]>> \in Good
  <2>1. v \in D /\ next[s] \in s /\ next[s] \in S
    BY <1>1, <1>3
  <2>2. step[<<next[s], v>>] = turn[v]
    BY <2>1
  <2>3. Cardinality(s \ {next[s]}) + rank[v] <= rank[base] \/ turn[v] = v
    BY <1>3
  <2>4. IsFiniteSet(s)
    BY FS_Subset
  <2>5. Cardinality(s \ {next[s]}) = Cardinality(s) - 1 /\ Cardinality(s) \in Nat
    BY <2>1, <2>4, OneLess
  <2>6. turn[v] \in D /\ rank[turn[v]] \in Nat /\ rank[v] \in Nat /\ rank[base] \in Nat
    BY <1>0, <2>1
  <2>7. turn[v] = v \/ rank[turn[v]] < rank[v]
    BY <1>0, <2>1
  <2>8. turn[v] # v => Cardinality(s) + rank[turn[v]] <= rank[base]
    BY <2>3, <2>5, <2>6, <2>7
  <2>9. turn[v] = v => turn[turn[v]] = turn[v]
    OBVIOUS
  <2> HIDE DEF next, step
  <2> QED BY <2>2, <2>6, <2>8, <2>9
<1>4. Invariant(S, next, base, step, Good)
  <2> HIDE DEF next, step, Good
  <2> QED BY <1>1, <1>2, <1>3 DEF Invariant
<1>5. PICK f : Folded(f, S, next, base, step) /\ \A s \in SUBSET S : <<s, f[s]>> \in Good
  <2> HIDE DEF next, step, Good
  <2> QED BY <1>4, FoldedGood
<1>6. \A s \in SUBSET S : f[s] \in D
  BY <1>5
<1>7. \A s \in SUBSET S : s # {} => <<next[s], f[s \ {next[s]}]>> \in S \X D
  BY <1>1, <1>6
<1>8. f = [s \in SUBSET S |-> IF s = {} THEN base ELSE turn[f[s \ {next[s]}]]]
  <2> HIDE DEF next, Good
  <2> QED BY <1>5, <1>7 DEF Folded
<1>9. Repeated(f, S, base, turn)
  BY <1>8 DEF Repeated
<1>10. turn[f[S]] = f[S]
  <2>1. Cardinality(S) + rank[f[S]] <= rank[base] \/ turn[f[S]] = f[S]
    BY <1>5
  <2>2. Cardinality(S) \in Nat /\ rank[f[S]] \in Nat /\ rank[base] \in Nat
    BY <1>0, <1>6, FS_CardinalityType
  <2>3. rank[base] < Cardinality(S)
    BY DEF Lessening
  <2> QED BY <2>1, <2>2, <2>3
<1> QED BY <1>6, <1>9, <1>10
-----------------------------------------------------------------------------
(* The binary tree                                                         *)

Cells(n) == 0 .. n - 1
Bodies(n) == [queue : [Cells(n) -> Element], position : [Element -> Int]]
Loops(n) == [h : Bodies(n), pos : Cells(n)]

\* None of the first n cells has a smaller key than the one above.
Ordered(q, k, n) == \A i \in 1 .. n - 1 : k[q[parent(i)]] <= k[q[i]]

(* Halves of integers.                                                                   *)
LEMMA Halves ==
  ASSUME NEW i \in Int
  PROVE  i \div 2 \in Int /\ (i = 2 * (i \div 2) \/ i = 2 * (i \div 2) + 1)
OBVIOUS

(* The cell above, and the two below.                                                    *)
LEMMA Parents ==
  /\ parent(0) < 0 /\ parent(0) \in Int
  /\ \A i \in Nat \ {0} : parent(i) \in Nat /\ parent(i) < i /\ (i = 2 * parent(i) + 1 \/ i = 2 * parent(i) + 2)
  /\ \A i \in Nat : parent(2 * i + 1) = i /\ parent(2 * i + 2) = i
<1>1. ASSUME NEW i \in Int
      PROVE  parent(i) \in Int /\ (i = 2 * parent(i) + 1 \/ i = 2 * parent(i) + 2)
  <2> DEFINE j == i - 1
  <2>1. j \in Int /\ parent(i) = j \div 2
    BY DEF parent
  <2>2. j \div 2 \in Int /\ (j = 2 * (j \div 2) \/ j = 2 * (j \div 2) + 1)
    <3> HIDE DEF j
    <3> QED BY <2>1, Halves
  <2>3. parent(i) \in Int /\ (j = 2 * parent(i) \/ j = 2 * parent(i) + 1)
    <3> HIDE DEF j
    <3> QED BY <2>1, <2>2
  <2> QED BY <2>3
<1>2. parent(0) < 0 /\ parent(0) \in Int
  BY <1>1
<1>3. ASSUME NEW i \in Nat \ {0}
      PROVE  parent(i) \in Nat /\ parent(i) < i /\ (i = 2 * parent(i) + 1 \/ i = 2 * parent(i) + 2)
  BY <1>1
<1>4. ASSUME NEW i \in Nat
      PROVE  parent(2 * i + 1) = i /\ parent(2 * i + 2) = i
  <2>1. 2 * i + 1 \in Int /\ 2 * i + 2 \in Int
    OBVIOUS
  <2>2. \A d \in Int : (2 * i + 1 = 2 * d + 1 \/ 2 * i + 1 = 2 * d + 2 => d = i)
                      /\ (2 * i + 2 = 2 * d + 1 \/ 2 * i + 2 = 2 * d + 2 => d = i)
    OBVIOUS
  <2> QED BY <1>1, <2>1, <2>2
<1> QED BY <1>2, <1>3, <1>4

(* The number of cells.                                                                  *)
LEMMA SizeOf ==
  ASSUME NEW n \in Nat, NEW h, DOMAIN h.queue = Cells(n)
  PROVE  size(h) = n /\ IsFiniteSet(Cells(n)) /\ Cardinality(Cells(n)) = n
<1> DEFINE m == n - 1
<1>1. IsFiniteSet(0 .. m) /\ Cardinality(0 .. m) = IF 0 > m THEN 0 ELSE m - 0 + 1
  <2>1. 0 \in Int /\ m \in Int
    OBVIOUS
  <2> HIDE DEF m
  <2> QED BY ONLY <2>1, FS_Interval
<1>2. Cardinality(0 .. n - 1) = n
  BY <1>1
<1> QED BY <1>1, <1>2 DEF size, Cells

(* The root has the least key.                                                           *)
LEMMA RootLeast ==
  ASSUME NEW n \in Nat, NEW q, NEW k, \A i \in Cells(n) : k[q[i]] \in Int, Ordered(q, k, n)
  PROVE  \A i \in Cells(n) : k[q[0]] <= k[q[i]]
<1> DEFINE Bad == {i \in Cells(n) : ~(k[q[0]] <= k[q[i]])}
<1> SUFFICES ASSUME Bad # {} PROVE FALSE
  OBVIOUS
<1>1. Bad \subseteq Nat
  BY DEF Cells
<1>2. PICK i \in Bad : \A j \in Bad : ~(<<j, i>> \in OpToRel(<, Nat))
  <2> HIDE DEF Bad
  <2> QED BY <1>1, NatLessThanWellFounded, WFMin
<1>3. i \in Cells(n) /\ i \in Nat /\ i # 0 /\ ~(k[q[0]] <= k[q[i]])
  BY DEF Cells
<1>4. parent(i) \in Nat /\ parent(i) < i
  BY <1>3, Parents
<1>5. parent(i) \notin Bad
  BY <1>1, <1>2, <1>3, <1>4 DEF OpToRel
<1>6. parent(i) \in Cells(n) /\ 0 \in Cells(n) /\ i \in 1 .. n - 1
  BY <1>3, <1>4 DEF Cells
<1>7. k[q[0]] <= k[q[parent(i)]] /\ k[q[parent(i)]] <= k[q[i]]
  BY <1>5, <1>6 DEF Ordered
<1>8. k[q[0]] \in Int /\ k[q[i]] \in Int /\ k[q[parent(i)]] \in Int
  BY <1>3, <1>6
<1> QED BY <1>3, <1>7, <1>8
-----------------------------------------------------------------------------
(* The two loops come to an end                                            *)

(* bubble_up ends where no turn moves the free place.                                    *)
LEMMA RiseEnds ==
  ASSUME NEW n \in Nat, NEW h, DOMAIN h.queue = Cells(n), NEW pos \in Cells(n), NEW k, NEW x, NEW stop,
         NEW Inv \in SUBSET Loops(n), [h |-> h, pos |-> pos] \in Inv,
         \A v \in Inv : /\ rise(v, k, x, stop) \in Inv
                        /\ rise(v, k, x, stop) = v \/ rise(v, k, x, stop).pos < v.pos
  PROVE  /\ bubble_up(h, k, pos, x, stop) \in Inv
         /\ rise(bubble_up(h, k, pos, x, stop), k, x, stop) = bubble_up(h, k, pos, x, stop)
<1> DEFINE S == DOMAIN h.queue
           base == [h |-> h, pos |-> pos]
           turn == [v \in Inv |-> rise(v, k, x, stop)]
           rank == [v \in Inv |-> v.pos]
           next == [s \in SUBSET S |-> CHOOSE y \in s : TRUE]
           Eq(g) == g = [s \in SUBSET S |-> IF s = {} THEN base
                                            ELSE rise(g[s \ {CHOOSE y \in s : TRUE}], k, x, stop)]
           f == CHOOSE g : Eq(g)
<1>0. IsFiniteSet(S) /\ Cardinality(S) = n
  BY SizeOf
<1>1. turn \in [Inv -> Inv] /\ rank \in [Inv -> Nat] /\ rank[base] = pos /\ base \in Inv
  BY DEF Loops, Cells
<1>2. \A v \in Inv : turn[v] = v \/ rank[turn[v]] < rank[v]
  OBVIOUS
<1>3. rank[base] < Cardinality(S)
  BY <1>0, <1>1 DEF Cells
<1>l. Lessening(S, Inv, base, turn, rank)
  <2> HIDE DEF S, base, turn, rank
  <2> QED BY <1>1, <1>2, <1>3 DEF Lessening
<1>4. PICK g : Repeated(g, S, base, turn) /\ (\A s \in SUBSET S : g[s] \in Inv) /\ turn[g[S]] = g[S]
  <2> HIDE DEF S, base, turn, rank
  <2> QED BY <1>0, <1>l, RepeatedStops
<1>5. \A s \in SUBSET S : s # {} => turn[g[s \ {next[s]}]] = rise(g[s \ {next[s]}], k, x, stop)
  <2> HIDE DEF S
  <2> QED BY <1>4
<1>6. Eq(g)
  <2> HIDE DEF S, base
  <2> QED BY <1>4, <1>5 DEF Repeated
<1>7. Eq(f)
  <2> HIDE DEF Eq
  <2> QED BY <1>6
<1>8. bubble_up(h, k, pos, x, stop) = f[S]
  BY DEF bubble_up, FoldSet, MapThenFoldSet
<1>9. f[S] = g[S]
  <2> DEFINE Q == {s \in SUBSET S : f[s] = g[s]}
  <2> HIDE DEF f, S
  <2>1. {} \in Q
    BY <1>6, <1>7
  <2>2. \A s \in SUBSET S : s # {} => f[s] = rise(f[s \ {next[s]}], k, x, stop) /\ g[s] = rise(g[s \ {next[s]}], k, x, stop)
    BY <1>6, <1>7
  <2>3. \A s \in SUBSET S : s # {} /\ s \ {next[s]} \in Q => s \in Q
    <3> HIDE DEF next, Eq
    <3> QED BY <2>2
  <2>4. \A s \in SUBSET S : s # {} => next[s] \in s
    OBVIOUS
  <2>5. Inductive(S, next, Q)
    <3> HIDE DEF Q, next
    <3> QED BY <2>1, <2>3, <2>4 DEF Inductive
  <2>6. S \in Q
    <3> HIDE DEF Q, next
    <3> QED BY <1>0, <2>5, SubsetInductive
  <2> QED BY <2>6
<1>10. g[S] \in Inv /\ rise(g[S], k, x, stop) = g[S]
  <2> HIDE DEF S, base
  <2> QED BY <1>4
<1> HIDE DEF f, S
<1> QED BY <1>8, <1>9, <1>10

(* bubble_down ends where no turn moves the free place.                                  *)
LEMMA SinkEnds ==
  ASSUME NEW n \in Nat, NEW h, DOMAIN h.queue = Cells(n), NEW pos \in Cells(n), NEW k, NEW x, NEW limit,
         NEW Inv \in SUBSET Loops(n), [h |-> h, pos |-> pos] \in Inv,
         \A v \in Inv : /\ sink(v, k, x, limit) \in Inv
                        /\ sink(v, k, x, limit) = v \/ sink(v, k, x, limit).pos > v.pos
  PROVE  /\ bubble_down(h, k, pos, x, limit) \in Inv
         /\ sink(bubble_down(h, k, pos, x, limit), k, x, limit) = bubble_down(h, k, pos, x, limit)
<1> DEFINE S == DOMAIN h.queue
           base == [h |-> h, pos |-> pos]
           turn == [v \in Inv |-> sink(v, k, x, limit)]
           rank == [v \in Inv |-> (n - 1) - v.pos]
           next == [s \in SUBSET S |-> CHOOSE y \in s : TRUE]
           Eq(g) == g = [s \in SUBSET S |-> IF s = {} THEN base
                                            ELSE sink(g[s \ {CHOOSE y \in s : TRUE}], k, x, limit)]
           f == CHOOSE g : Eq(g)
<1>0. IsFiniteSet(S) /\ Cardinality(S) = n
  BY SizeOf
<1>p. \A v \in Inv : v.pos \in Int /\ 0 <= v.pos /\ v.pos <= n - 1
  BY DEF Loops, Cells
<1>1. turn \in [Inv -> Inv] /\ rank \in [Inv -> Nat] /\ rank[base] = (n - 1) - pos /\ base \in Inv
  <2>1. \A v \in Inv : (n - 1) - v.pos \in Nat
    BY <1>p
  <2> QED BY <2>1
<1>2. \A v \in Inv : turn[v] = v \/ rank[turn[v]] < rank[v]
  <2> SUFFICES ASSUME NEW v \in Inv, turn[v] # v PROVE rank[turn[v]] < rank[v]
    OBVIOUS
  <2>1. turn[v] \in Inv /\ turn[v].pos > v.pos
    OBVIOUS
  <2>2. rank[turn[v]] = (n - 1) - turn[v].pos /\ rank[v] = (n - 1) - v.pos
    BY <2>1
  <2>3. turn[v].pos \in Int /\ v.pos \in Int
    BY <1>p, <2>1
  <2> HIDE DEF turn, rank
  <2> QED BY <2>1, <2>2, <2>3
<1>3. rank[base] < Cardinality(S)
  BY <1>0, <1>1 DEF Cells
<1>l. Lessening(S, Inv, base, turn, rank)
  <2> HIDE DEF S, base, turn, rank
  <2> QED BY <1>1, <1>2, <1>3 DEF Lessening
<1>4. PICK g : Repeated(g, S, base, turn) /\ (\A s \in SUBSET S : g[s] \in Inv) /\ turn[g[S]] = g[S]
  <2> HIDE DEF S, base, turn, rank
  <2> QED BY <1>0, <1>l, RepeatedStops
<1>5. \A s \in SUBSET S : s # {} => turn[g[s \ {next[s]}]] = sink(g[s \ {next[s]}], k, x, limit)
  <2> HIDE DEF S
  <2> QED BY <1>4
<1>6. Eq(g)
  <2> HIDE DEF S, base
  <2> QED BY <1>4, <1>5 DEF Repeated
<1>7. Eq(f)
  <2> HIDE DEF Eq
  <2> QED BY <1>6
<1>8. bubble_down(h, k, pos, x, limit) = f[S]
  BY DEF bubble_down, FoldSet, MapThenFoldSet
<1>9. f[S] = g[S]
  <2> DEFINE Q == {s \in SUBSET S : f[s] = g[s]}
  <2> HIDE DEF f, S
  <2>1. {} \in Q
    BY <1>6, <1>7
  <2>2. \A s \in SUBSET S : s # {} => f[s] = sink(f[s \ {next[s]}], k, x, limit) /\ g[s] = sink(g[s \ {next[s]}], k, x, limit)
    BY <1>6, <1>7
  <2>3. \A s \in SUBSET S : s # {} /\ s \ {next[s]} \in Q => s \in Q
    <3> HIDE DEF next, Eq
    <3> QED BY <2>2
  <2>4. \A s \in SUBSET S : s # {} => next[s] \in s
    OBVIOUS
  <2>5. Inductive(S, next, Q)
    <3> HIDE DEF Q, next
    <3> QED BY <2>1, <2>3, <2>4 DEF Inductive
  <2>6. S \in Q
    <3> HIDE DEF Q, next
    <3> QED BY <1>0, <2>5, SubsetInductive
  <2> QED BY <2>6
<1>10. g[S] \in Inv /\ sink(g[S], k, x, limit) = g[S]
  <2> HIDE DEF S, base
  <2> QED BY <1>4
<1> HIDE DEF f, S
<1> QED BY <1>8, <1>9, <1>10
-----------------------------------------------------------------------------
(* A free place among the cells                                            *)

\* The elements of S are in the first m of n cells, except the free one; nothing else has
\* been done to the heap g.
Holed(b, g, n, m, S) ==
  /\ b \in Loops(n) /\ m \in 0 .. n
  /\ \A i \in Cells(m) \ {b.pos} : b.h.queue[i] \in S /\ b.h.position[b.h.queue[i]] = i
  /\ \A e \in S : b.h.position[e] \in Cells(m) \ {b.pos} /\ b.h.queue[b.h.position[e]] = e
  /\ \A e \in Element \ S : b.h.position[e] = g.position[e]
  /\ \A i \in Cells(n) \ Cells(m) : b.h.queue[i] = g.queue[i]

\* The order of the elements around the free place.
Around(q, k, m, pos) ==
  \A i \in 1 .. m - 1 :
    /\ i # pos /\ parent(i) # pos => k[q[parent(i)]] <= k[q[i]]
    /\ parent(i) = pos /\ pos > 0 => k[q[parent(pos)]] <= k[q[i]]

Above(q, k, pos, x) == pos > 0 => k[q[parent(pos)]] <= x
Below(q, k, m, pos, x) == \A i \in 1 .. m - 1 : parent(i) = pos => x <= k[q[i]]

(* Another element is put into the free place, and leaves its own.                       *)
LEMMA HoleMoves ==
  ASSUME NEW n \in Nat, NEW m, NEW g, NEW S \in SUBSET Element, NEW b, Holed(b, g, n, m, S),
         b.pos \in Cells(m), NEW c \in Cells(m), c # b.pos,
         NEW w, w = [h |-> Placed(b.h, b.h.queue[c], b.pos), pos |-> c]
  PROVE  /\ Holed(w, g, n, m, S)
         /\ w.h.queue = [b.h.queue EXCEPT ![b.pos] = b.h.queue[c]]
<1> DEFINE y == b.h.queue[c]
<1>1. /\ b.h \in Bodies(n) /\ b.pos \in Cells(n) /\ c \in Cells(n) /\ m \in 0 .. n
      /\ Cells(m) \subseteq Cells(n)
  BY DEF Holed, Loops, Cells
<1>2. y \in S /\ y \in Element /\ b.h.position[y] = c
  BY DEF Holed
<1>3. w.h.queue = [b.h.queue EXCEPT ![b.pos] = y] /\ w.h.position = [b.h.position EXCEPT ![y] = b.pos]
      /\ w.pos = c /\ w = [h |-> [queue |-> w.h.queue, position |-> w.h.position], pos |-> w.pos]
  <2>1. b.h.queue \in [Cells(n) -> Element] /\ b.h.position \in [Element -> Int]
    BY <1>1 DEF Bodies
  <2>2. With(b.h.queue, b.pos, y) = [b.h.queue EXCEPT ![b.pos] = y]
    BY <1>1, <2>1 DEF With
  <2>3. With(b.h.position, y, b.pos) = [b.h.position EXCEPT ![y] = b.pos]
    BY <1>2, <2>1 DEF With
  <2> QED BY <2>2, <2>3 DEF Placed
<1>4. w \in Loops(n)
  <2>0. b.h.queue \in [Cells(n) -> Element] /\ b.h.position \in [Element -> Int] /\ b.pos \in Int
    BY <1>1 DEF Bodies, Cells
  <2>1. w.h.queue \in [Cells(n) -> Element] /\ w.h.position \in [Element -> Int]
    <3> HIDE DEF y
    <3> QED BY <1>1, <1>2, <1>3, <2>0
  <2> QED BY <1>1, <1>3, <2>1 DEF Loops, Bodies
<1>5. /\ \A i \in Cells(n) : w.h.queue[i] = IF i = b.pos THEN y ELSE b.h.queue[i]
      /\ \A e \in Element : w.h.position[e] = IF e = y THEN b.pos ELSE b.h.position[e]
  BY <1>1, <1>2, <1>3 DEF Bodies
<1>6. ASSUME NEW i \in Cells(m) \ {w.pos} PROVE w.h.queue[i] \in S /\ w.h.position[w.h.queue[i]] = i
  <2>1. CASE i = b.pos
    BY <1>1, <1>2, <1>5, <2>1
  <2>2. CASE i # b.pos
    <3>1. b.h.queue[i] \in S /\ b.h.position[b.h.queue[i]] = i
      BY <2>2 DEF Holed
    <3>2. b.h.queue[i] # y
      BY <1>2, <1>3, <3>1
    <3> QED BY <1>1, <1>5, <2>2, <3>1, <3>2
  <2> QED BY <2>1, <2>2
<1>7. ASSUME NEW e \in S PROVE w.h.position[e] \in Cells(m) \ {w.pos} /\ w.h.queue[w.h.position[e]] = e
  <2>1. CASE e = y
    BY <1>1, <1>3, <1>5, <2>1
  <2>2. CASE e # y
    <3>1. b.h.position[e] \in Cells(m) \ {b.pos} /\ b.h.queue[b.h.position[e]] = e
      BY DEF Holed
    <3>2. b.h.position[e] # c
      BY <2>2, <3>1
    <3> QED BY <1>1, <1>3, <1>5, <2>2, <3>1, <3>2
  <2> QED BY <2>1, <2>2
<1>8. \A e \in Element \ S : w.h.position[e] = g.position[e]
  BY <1>2, <1>5 DEF Holed
<1>9. \A i \in Cells(n) \ Cells(m) : w.h.queue[i] = g.queue[i]
  BY <1>5 DEF Holed
<1>10. Holed(w, g, n, m, S)
  BY <1>1, <1>4, <1>6, <1>7, <1>8, <1>9 DEF Holed
<1> QED BY <1>3, <1>10

\* All of the first m of n cells are in use, by S.
Sealed(h, g, k, n, m, S) ==
  /\ h \in Bodies(n) /\ m \in 0 .. n
  /\ \A i \in Cells(m) : h.queue[i] \in S /\ h.position[h.queue[i]] = i
  /\ \A e \in S : h.position[e] \in Cells(m) /\ h.queue[h.position[e]] = e
  /\ \A e \in Element \ S : h.position[e] = g.position[e]
  /\ Ordered(h.queue, k, m)

(* An element that fits is put into the free place.                                      *)
LEMMA HoleFilled ==
  ASSUME NEW n \in Nat, NEW m, NEW g, NEW k, NEW S \in SUBSET Element, NEW b, Holed(b, g, n, m, S),
         b.pos \in Cells(m), NEW e \in Element \ S,
         Around(b.h.queue, k, m, b.pos), Above(b.h.queue, k, b.pos, k[e]), Below(b.h.queue, k, m, b.pos, k[e])
  PROVE  Sealed(Placed(b.h, e, b.pos), g, k, n, m, S \cup {e})
<1> DEFINE w == Placed(b.h, e, b.pos)
<1>1. /\ b.h \in Bodies(n) /\ b.pos \in Cells(n) /\ m \in 0 .. n
      /\ Cells(m) \subseteq Cells(n)
  BY DEF Holed, Loops, Cells
<1>2. w.queue = [b.h.queue EXCEPT ![b.pos] = e] /\ w.position = [b.h.position EXCEPT ![e] = b.pos]
      /\ w = [queue |-> w.queue, position |-> w.position]
  <2>1. b.h.queue \in [Cells(n) -> Element] /\ b.h.position \in [Element -> Int]
    BY <1>1 DEF Bodies
  <2>2. With(b.h.queue, b.pos, e) = [b.h.queue EXCEPT ![b.pos] = e]
    BY <1>1, <2>1 DEF With
  <2>3. With(b.h.position, e, b.pos) = [b.h.position EXCEPT ![e] = b.pos]
    BY <2>1 DEF With
  <2> QED BY <2>2, <2>3 DEF Placed
<1>3. w \in Bodies(n)
  <2>1. w.queue \in [Cells(n) -> Element] /\ w.position \in [Element -> Int]
    BY <1>1, <1>2 DEF Bodies, Cells
  <2> QED BY <1>2, <2>1 DEF Bodies
<1>4. /\ \A i \in Cells(n) : w.queue[i] = IF i = b.pos THEN e ELSE b.h.queue[i]
      /\ \A f \in Element : w.position[f] = IF f = e THEN b.pos ELSE b.h.position[f]
  BY <1>1, <1>2 DEF Bodies
<1> HIDE DEF w
<1>5. \A i \in Cells(m) : w.queue[i] \in S \cup {e} /\ w.position[w.queue[i]] = i
  BY <1>1, <1>4 DEF Holed
<1>6. \A f \in S \cup {e} : w.position[f] \in Cells(m) /\ w.queue[w.position[f]] = f
  BY <1>1, <1>4 DEF Holed
<1>7. \A f \in Element \ (S \cup {e}) : w.position[f] = g.position[f]
  BY <1>4 DEF Holed
<1>8. Ordered(w.queue, k, m)
  <2> SUFFICES ASSUME NEW i \in 1 .. m - 1 PROVE k[w.queue[parent(i)]] <= k[w.queue[i]]
    BY DEF Ordered
  <2>1. i \in Cells(n) /\ i \in Cells(m) /\ parent(i) \in Cells(n) /\ parent(i) # i
    <3>1. i \in Nat \ {0} /\ i < m /\ m <= n /\ m \in Nat
      BY <1>1
    <3>2. parent(i) \in Nat /\ parent(i) < i
      BY <3>1, Parents
    <3> QED BY <3>1, <3>2 DEF Cells
  <2>2. CASE i = b.pos
    <3>1. k[b.h.queue[parent(i)]] <= k[e]
      BY <2>2 DEF Above
    <3> QED BY <1>4, <2>1, <2>2, <3>1
  <2>3. CASE i # b.pos /\ parent(i) = b.pos
    <3>1. k[e] <= k[b.h.queue[i]]
      BY <2>3 DEF Below
    <3> QED BY <1>4, <2>1, <2>3, <3>1
  <2>4. CASE i # b.pos /\ parent(i) # b.pos
    <3>1. k[b.h.queue[parent(i)]] <= k[b.h.queue[i]]
      BY <2>4 DEF Around
    <3> QED BY <1>4, <2>1, <2>4, <3>1
  <2> QED BY <2>2, <2>3, <2>4
<1>9. Sealed(w, g, k, n, m, S \cup {e})
  BY <1>1, <1>3, <1>5, <1>6, <1>7, <1>8 DEF Sealed
<1> QED BY <1>9 DEF w
-----------------------------------------------------------------------------
(* Moving up                                                               *)

\* The free place of b has come up from pos in g; an element with key x belongs there or above.
Rising(b, g, k, n, m, S, pos, x, stop) ==
  /\ Holed(b, g, n, m, S) /\ b.pos \in Cells(m)
  /\ Around(b.h.queue, k, m, b.pos)
  /\ b = [h |-> g, pos |-> pos] \/ (b.pos < pos /\ Below(b.h.queue, k, m, b.pos, x))
  /\ stop = 1 /\ b.pos > 0 => k[b.h.queue[0]] <= x

(* One turn.                                                                             *)
LEMMA RiseStep ==
  ASSUME NEW n \in Nat, NEW m, NEW g, NEW k, NEW S \in SUBSET Element, \A e \in S : k[e] \in Int,
         NEW pos \in Int, NEW x \in Int, NEW stop \in {0, 1},
         NEW b, Rising(b, g, k, n, m, S, pos, x, stop),
         NEW w, w = rise(b, k, x, stop)
  PROVE  /\ Rising(w, g, k, n, m, S, pos, x, stop)
         /\ w = b \/ w.pos < b.pos
         /\ w = b => Above(b.h.queue, k, b.pos, x)
<1> DEFINE above == parent(b.pos)
           y == b.h.queue[above]
<1>1. /\ Holed(b, g, n, m, S) /\ b.pos \in Cells(m) /\ Around(b.h.queue, k, m, b.pos)
      /\ b = [h |-> g, pos |-> pos] \/ (b.pos < pos /\ Below(b.h.queue, k, m, b.pos, x))
      /\ stop = 1 /\ b.pos > 0 => k[b.h.queue[0]] <= x
  BY DEF Rising
<1>2. b.pos \in Nat /\ m \in Nat /\ m <= n /\ b.pos < m
  BY <1>1 DEF Holed, Cells
<1>3. b.pos > 0 => above \in Nat /\ above < b.pos /\ above \in Cells(m)
  BY <1>2, Parents DEF Cells
<1>4. \A i \in Cells(m) \ {b.pos} : b.h.queue[i] \in S /\ k[b.h.queue[i]] \in Int
  BY <1>1 DEF Holed
<1>5. CASE above >= stop /\ k[y] > x
  <2>1. w = [h |-> Placed(b.h, y, b.pos), pos |-> above] /\ w.pos = above
    BY <1>5 DEF rise
  <2>2. b.pos > 0
    BY <1>2, <1>5, Parents
  <2>3. Holed(w, g, n, m, S) /\ w.h.queue = [b.h.queue EXCEPT ![b.pos] = y]
    <3>1. above \in Cells(m) /\ above # b.pos
      BY <1>2, <1>3, <2>2
    <3> HIDE DEF above
    <3> QED BY <1>1, <2>1, <3>1, HoleMoves
  <2>4. \A i \in Cells(m) : w.h.queue[i] = IF i = b.pos THEN y ELSE b.h.queue[i]
    <3>1. b.h.queue \in [Cells(n) -> Element] /\ Cells(m) \subseteq Cells(n)
      BY <1>1 DEF Holed, Loops, Bodies, Cells
    <3> HIDE DEF y
    <3> QED BY <2>3, <3>1
  <2> DEFINE q == b.h.queue
             r == w.h.queue
  <2>5. /\ k[y] \in Int /\ above \in Cells(m) /\ above # b.pos /\ above < b.pos /\ above \in Nat
    BY <1>2, <1>3, <1>4, <2>2
  <2>6. ASSUME NEW i \in 1 .. m - 1
        PROVE  /\ i \in Cells(m) /\ parent(i) \in Cells(m) /\ parent(i) < i /\ parent(i) \in Nat /\ i \in Nat
               /\ i # b.pos => k[q[i]] \in Int
               /\ i # b.pos /\ parent(i) # b.pos => k[q[parent(i)]] <= k[q[i]]
               /\ parent(i) = b.pos => k[y] <= k[q[i]]
    <3>1. i \in Nat \ {0} /\ i \in Cells(m)
      BY <1>2 DEF Cells
    <3>2. parent(i) \in Nat /\ parent(i) < i /\ parent(i) \in Cells(m)
      BY <1>2, <3>1, Parents DEF Cells
    <3>3. i # b.pos => k[q[i]] \in Int
      BY <1>4, <3>1
    <3>4. i # b.pos /\ parent(i) # b.pos => k[q[parent(i)]] <= k[q[i]]
      BY <1>1 DEF Around
    <3>5. parent(i) = b.pos => k[y] <= k[q[i]]
      BY <1>1, <2>2 DEF Around
    <3> QED BY <3>1, <3>2, <3>3, <3>4, <3>5
  <2>7. ASSUME NEW i \in 1 .. m - 1, parent(i) = above
        PROVE  k[y] <= k[r[i]]
    <3>1. CASE i = b.pos
      <4>1. r[i] = y
        BY <2>4, <2>6, <3>1
      <4> QED BY <2>5, <4>1
    <3>2. CASE i # b.pos
      <4>1. r[i] = q[i]
        BY <2>4, <2>6, <3>2
      <4>2. k[q[above]] <= k[q[i]]
        BY <2>5, <2>6, <2>7, <3>2
      <4> QED BY <4>1, <4>2
    <3> QED BY <3>1, <3>2
  <2>8. Below(r, k, m, above, x)
    <3> SUFFICES ASSUME NEW i \in 1 .. m - 1, parent(i) = above PROVE x <= k[r[i]]
      BY DEF Below
    <3>1. k[y] <= k[r[i]]
      BY <2>7
    <3>2. k[r[i]] \in Int
      BY <2>4, <2>5, <2>6
    <3> QED BY <1>5, <2>5, <3>1, <3>2
  <2>9. Around(r, k, m, above)
    <3>1. ASSUME NEW i \in 1 .. m - 1, i # above, parent(i) # above
          PROVE  k[r[parent(i)]] <= k[r[i]]
      <4>1. i # b.pos
        BY <3>1
      <4>2. r[i] = q[i]
        BY <2>4, <2>6, <4>1
      <4>3. CASE parent(i) = b.pos
        <5>1. r[parent(i)] = y
          BY <2>4, <2>6, <4>3
        <5> QED BY <2>6, <4>2, <4>3, <5>1
      <4>4. CASE parent(i) # b.pos
        <5>1. r[parent(i)] = q[parent(i)]
          BY <2>4, <2>6, <4>4
        <5> QED BY <2>6, <4>1, <4>2, <4>4, <5>1
      <4> QED BY <4>3, <4>4
    <3>2. ASSUME NEW i \in 1 .. m - 1, parent(i) = above, above > 0
          PROVE  k[r[parent(above)]] <= k[r[i]]
      <4>1. above \in 1 .. m - 1
        BY <1>2, <2>5, <3>2
      <4>2. parent(above) \in Cells(m) /\ parent(above) < above /\ parent(above) \in Nat
        BY <2>6, <4>1
      <4>3. parent(above) # b.pos /\ r[parent(above)] = q[parent(above)]
        BY <1>2, <2>4, <2>5, <4>2
      <4>4. k[q[parent(above)]] <= k[q[above]]
        BY <2>5, <2>6, <4>1, <4>3
      <4>5. k[y] <= k[r[i]]
        BY <2>7, <3>2
      <4>6. k[r[i]] \in Int /\ k[q[parent(above)]] \in Int
        BY <1>4, <2>4, <2>5, <2>6, <4>2, <4>3
      <4> QED BY <2>5, <4>3, <4>4, <4>5, <4>6
    <3> HIDE DEF above, r
    <3> QED BY <3>1, <3>2 DEF Around
  <2>10. stop = 1 /\ w.pos > 0 => k[r[0]] <= x
    <3>1. 0 \in Cells(m)
      BY <1>2 DEF Cells
    <3>2. r[0] = q[0]
      BY <2>2, <2>4, <3>1
    <3> QED BY <1>1, <2>2, <3>2
  <2>11. w.pos < pos
    BY <1>1, <1>2, <2>1, <2>5
  <2>12. Rising(w, g, k, n, m, S, pos, x, stop)
    <3> HIDE DEF above
    <3> QED BY <2>1, <2>3, <2>5, <2>8, <2>9, <2>10, <2>11 DEF Rising
  <2> QED BY <2>1, <2>5, <2>12
<1>6. CASE ~(above >= stop /\ k[y] > x)
  <2>1. w = b
    BY <1>6 DEF rise
  <2>2. ASSUME b.pos > 0 PROVE k[b.h.queue[parent(b.pos)]] <= x
    <3>1. above \in Cells(m) /\ above \in Nat /\ above # b.pos /\ k[y] \in Int
      BY <1>2, <1>3, <1>4, <2>2
    <3>2. CASE above >= stop
      BY <1>6, <3>1, <3>2
    <3>3. CASE ~(above >= stop)
      <4>1. stop = 1 /\ above = 0
        BY <3>1, <3>3
      <4> QED BY <1>1, <2>2, <4>1
    <3> QED BY <3>2, <3>3
  <2> QED BY <2>1, <2>2 DEF Above
<1> QED BY <1>5, <1>6

(* The whole way up.                                                                     *)
LEMMA BubbleUp ==
  ASSUME NEW n \in Nat, NEW m, NEW g, NEW k, NEW S \in SUBSET Element, \A e \in S : k[e] \in Int,
         NEW pos \in Int, NEW x \in Int, NEW stop \in {0, 1},
         Rising([h |-> g, pos |-> pos], g, k, n, m, S, pos, x, stop),
         NEW b, b = bubble_up(g, k, pos, x, stop)
  PROVE  /\ Rising(b, g, k, n, m, S, pos, x, stop)
         /\ Above(b.h.queue, k, b.pos, x)
<1> DEFINE base == [h |-> g, pos |-> pos]
           Inv == {v \in Loops(n) : Rising(v, g, k, n, m, S, pos, x, stop)}
<1>1. \A v : Rising(v, g, k, n, m, S, pos, x, stop) => v \in Inv
  BY DEF Rising, Holed
<1>2. base \in Inv /\ base \in Loops(n)
  BY <1>1
<1>3. DOMAIN g.queue = Cells(n) /\ pos \in Cells(n)
  BY <1>2 DEF Loops, Bodies
<1>4. \A v \in Inv : /\ rise(v, k, x, stop) \in Inv
                     /\ rise(v, k, x, stop) = v \/ rise(v, k, x, stop).pos < v.pos
  <2> SUFFICES ASSUME NEW v \in Inv
               PROVE  /\ rise(v, k, x, stop) \in Inv
                      /\ rise(v, k, x, stop) = v \/ rise(v, k, x, stop).pos < v.pos
    OBVIOUS
  <2>1. Rising(v, g, k, n, m, S, pos, x, stop)
    OBVIOUS
  <2> HIDE DEF Inv
  <2> QED BY ZenonT(30), <1>1, <2>1, RiseStep
<1>5. b \in Inv /\ rise(b, k, x, stop) = b
  <2>1. Inv \in SUBSET Loops(n)
    OBVIOUS
  <2>2. n \in Nat /\ [h |-> g, pos |-> pos] \in Inv
    BY <1>2
  <2> HIDE DEF Inv, base
  <2>3. /\ bubble_up(g, k, pos, x, stop) \in Inv
        /\ rise(bubble_up(g, k, pos, x, stop), k, x, stop) = bubble_up(g, k, pos, x, stop)
    BY ONLY <1>3, <1>4, <2>1, <2>2, RiseEnds
  <2> QED BY <2>3
<1>6. Rising(b, g, k, n, m, S, pos, x, stop)
  BY <1>5
<1> HIDE DEF Inv
<1> QED BY ZenonT(30), <1>5, <1>6, RiseStep
-----------------------------------------------------------------------------
(* Moving down                                                             *)

\* The free place of b has come down from pos in g; an element with key x belongs there or below.
Sinking(b, g, k, n, m, S, pos, x) ==
  /\ Holed(b, g, n, m, S) /\ (m > 0 => b.pos \in Cells(m))
  /\ Around(b.h.queue, k, m, b.pos) /\ Above(b.h.queue, k, b.pos, x)
  /\ b = [h |-> g, pos |-> pos] \/ b.pos > pos

(* One turn.                                                                             *)
LEMMA SinkStep ==
  ASSUME NEW n \in Nat, NEW m, NEW g, NEW k, NEW S \in SUBSET Element, \A e \in S : k[e] \in Int,
         NEW pos \in Int, NEW x \in Int,
         NEW b, Sinking(b, g, k, n, m, S, pos, x),
         NEW w, w = sink(b, k, x, m)
  PROVE  /\ Sinking(w, g, k, n, m, S, pos, x)
         /\ w = b \/ w.pos > b.pos
         /\ w = b => Below(b.h.queue, k, m, b.pos, x)
<1> DEFINE left == 2 * b.pos + 1
           q == b.h.queue
           child == IF left + 1 < m /\ k[q[left + 1]] < k[q[left]] THEN left + 1 ELSE left
           y == q[child]
<1>1. /\ Holed(b, g, n, m, S) /\ (m > 0 => b.pos \in Cells(m)) /\ Around(q, k, m, b.pos)
      /\ Above(q, k, b.pos, x)
      /\ b = [h |-> g, pos |-> pos] \/ b.pos > pos
  BY DEF Sinking
<1>2. b.pos \in Nat /\ m \in Nat /\ m <= n
  BY <1>1 DEF Holed, Loops, Cells
<1>3. child \in Nat /\ child > b.pos /\ parent(child) = b.pos /\ (left < m => child \in Cells(m))
  <2>1. left \in Nat /\ left > b.pos /\ parent(left) = b.pos
    BY <1>2, Parents
  <2>2. left + 1 \in Nat /\ left + 1 > b.pos /\ parent(left + 1) = b.pos
    <3>1. left + 1 = 2 * b.pos + 2
      BY <1>2
    <3> QED BY <1>2, <3>1, Parents
  <2> HIDE DEF left
  <2> QED BY <1>2, <2>1, <2>2 DEF Cells
<1>4. \A i \in Cells(m) \ {b.pos} : q[i] \in S /\ k[q[i]] \in Int
  BY <1>1 DEF Holed
<1>5. ASSUME NEW i \in 1 .. m - 1
      PROVE  /\ i \in Cells(m) /\ parent(i) \in Cells(m) /\ parent(i) < i /\ parent(i) \in Nat /\ i \in Nat
             /\ i # b.pos => k[q[i]] \in Int
             /\ i # b.pos /\ parent(i) # b.pos => k[q[parent(i)]] <= k[q[i]]
             /\ parent(i) = b.pos => i # b.pos /\ left < m /\ k[y] <= k[q[i]]
  <2>1. i \in Nat \ {0} /\ i \in Cells(m) /\ i < m
    BY <1>2 DEF Cells
  <2>2. parent(i) \in Nat /\ parent(i) < i /\ parent(i) \in Cells(m) /\ (i = 2 * parent(i) + 1 \/ i = 2 * parent(i) + 2)
    BY <1>2, <2>1, Parents DEF Cells
  <2>3. i # b.pos => k[q[i]] \in Int
    BY <1>4, <2>1
  <2>4. i # b.pos /\ parent(i) # b.pos => k[q[parent(i)]] <= k[q[i]]
    BY <1>1 DEF Around
  <2>5. ASSUME parent(i) = b.pos PROVE i # b.pos /\ left < m /\ k[y] <= k[q[i]]
    <3>1. i # b.pos /\ (i = left \/ i = left + 1) /\ left \in Nat
      BY <1>2, <2>2, <2>5
    <3>2. left < m /\ left \in Cells(m) /\ left # b.pos
      BY <1>2, <2>1, <3>1 DEF Cells
    <3>3. k[q[left]] \in Int /\ k[q[i]] \in Int
      BY <1>4, <2>3, <3>1, <3>2
    <3>4. k[y] <= k[q[left]]
      BY SMTT(30), <3>3, <1>4, <1>3, <3>2
    <3>5. i = left + 1 => left + 1 < m
      BY <2>1
    <3>6. i = left + 1 => k[y] <= k[q[i]]
      BY SMTT(30), <3>3, <3>5
    <3> QED BY <3>1, <3>2, <3>4, <3>6
  <2> QED BY <2>1, <2>2, <2>3, <2>4, <2>5
<1>6. w = IF left < m /\ k[y] < x THEN [h |-> Placed(b.h, y, b.pos), pos |-> child] ELSE b
  BY DEF sink
<1>7. CASE left < m /\ k[y] < x
  <2>1. w = [h |-> Placed(b.h, y, b.pos), pos |-> child] /\ w.pos = child
    <3> HIDE DEF y, child, left
    <3> QED BY <1>6, <1>7
  <2>2. child \in Cells(m) /\ child # b.pos /\ b.pos \in Cells(m) /\ child \in 1 .. m - 1
    BY SMTT(30), <1>1, <1>2, <1>3, <1>7 DEF Cells
  <2>3. Holed(w, g, n, m, S) /\ w.h.queue = [b.h.queue EXCEPT ![b.pos] = y]
    <3> HIDE DEF child
    <3> QED BY <1>1, <2>1, <2>2, HoleMoves
  <2>4. \A i \in Cells(m) : w.h.queue[i] = IF i = b.pos THEN y ELSE b.h.queue[i]
    <3>1. b.h.queue \in [Cells(n) -> Element] /\ Cells(m) \subseteq Cells(n)
      BY <1>1 DEF Holed, Loops, Bodies, Cells
    <3> HIDE DEF y
    <3> QED BY <2>3, <3>1
  <2> DEFINE r == w.h.queue
  <2>5. k[y] \in Int
    BY <1>4, <2>2
  <2>6. Around(r, k, m, child)
    <3>1. ASSUME NEW i \in 1 .. m - 1, i # child, parent(i) # child
          PROVE  k[r[parent(i)]] <= k[r[i]]
      <4>1. CASE parent(i) = b.pos
        <5>1. r[parent(i)] = y /\ r[i] = q[i]
          BY <1>5, <2>4, <4>1
        <5> QED BY <1>5, <4>1, <5>1
      <4>2. CASE i = b.pos
        <5>1. r[parent(i)] = q[parent(i)] /\ r[i] = y
          BY <1>5, <2>4, <4>2
        <5>2. k[q[parent(i)]] <= k[y]
          <6>1. b.pos > 0
            BY SMTT(30), <1>2, <1>5, <4>2
          <6> HIDE DEF child
          <6> QED BY <1>1, <1>3, <2>2, <4>2, <6>1 DEF Around
        <5> QED BY <5>1, <5>2
      <4>3. CASE parent(i) # b.pos /\ i # b.pos
        <5>1. r[parent(i)] = q[parent(i)] /\ r[i] = q[i]
          BY <1>5, <2>4, <4>3
        <5> QED BY <1>5, <4>3, <5>1
      <4> QED BY <4>1, <4>2, <4>3
    <3>2. ASSUME NEW i \in 1 .. m - 1, parent(i) = child
          PROVE  k[r[parent(child)]] <= k[r[i]]
      <4>1. r[b.pos] = y /\ parent(child) = b.pos
        BY <1>3, <2>2, <2>4
      <4>2. i > child /\ i # b.pos /\ i \in Nat
        <5>1. parent(i) < i /\ parent(i) \in Nat /\ i \in Nat
          BY <1>5
        <5> HIDE DEF child
        <5> QED BY <1>2, <1>3, <3>2, <5>1
      <4>3. r[i] = q[i]
        BY <1>5, <2>4, <4>2
      <4>4. k[q[child]] <= k[q[i]]
        BY <1>5, <2>2, <3>2, <4>2
      <4> QED BY <4>1, <4>3, <4>4
    <3> HIDE DEF child, r
    <3> QED BY <3>1, <3>2 DEF Around
  <2>7. Above(r, k, child, x)
    <3>1. r[parent(child)] = y
      BY <1>3, <2>2, <2>4
    <3>2. k[y] <= x
      BY SMTT(30), <1>7, <2>5
    <3> HIDE DEF child, r, y
    <3> QED BY <3>1, <3>2 DEF Above
  <2>8. w.pos > pos
    BY SMTT(30), <1>1, <1>2, <1>3, <2>1
  <2>9. Sinking(w, g, k, n, m, S, pos, x)
    <3> HIDE DEF child
    <3> QED BY <2>1, <2>2, <2>3, <2>6, <2>7, <2>8 DEF Sinking
  <2>10. w.pos > b.pos
    <3> HIDE DEF child
    <3> QED BY <1>3, <2>1
  <2> QED BY <1>2, <2>9, <2>10
<1>8. CASE ~(left < m /\ k[y] < x)
  <2>1. w = b
    BY <1>6, <1>8
  <2>2. ASSUME NEW i \in 1 .. m - 1, parent(i) = b.pos PROVE x <= k[q[i]]
    <3>1. left < m /\ k[y] <= k[q[i]] /\ k[q[i]] \in Int
      BY <1>5, <2>2
    <3>2. k[y] \in Int
      BY SMTT(30), <1>2, <1>3, <1>4, <3>1
    <3>3. x <= k[y]
      <4> HIDE DEF left, y
      <4> QED BY <1>8, <3>1, <3>2
    <3> QED BY SMTT(30), <3>1, <3>2, <3>3
  <2> QED BY <2>1, <2>2 DEF Below
<1> QED BY <1>7, <1>8

(* The whole way down.                                                                   *)
LEMMA BubbleDown ==
  ASSUME NEW n \in Nat, NEW m, NEW g, NEW k, NEW S \in SUBSET Element, \A e \in S : k[e] \in Int,
         NEW pos \in Int, NEW x \in Int,
         Sinking([h |-> g, pos |-> pos], g, k, n, m, S, pos, x),
         NEW b, b = bubble_down(g, k, pos, x, m)
  PROVE  /\ Sinking(b, g, k, n, m, S, pos, x)
         /\ Below(b.h.queue, k, m, b.pos, x)
<1> DEFINE base == [h |-> g, pos |-> pos]
           Inv == {v \in Loops(n) : Sinking(v, g, k, n, m, S, pos, x)}
<1>1. \A v : Sinking(v, g, k, n, m, S, pos, x) => v \in Inv
  BY DEF Sinking, Holed
<1>2. base \in Inv /\ base \in Loops(n)
  BY <1>1
<1>3. DOMAIN g.queue = Cells(n) /\ pos \in Cells(n)
  BY <1>2 DEF Loops, Bodies
<1>4. \A v \in Inv : /\ sink(v, k, x, m) \in Inv
                     /\ sink(v, k, x, m) = v \/ sink(v, k, x, m).pos > v.pos
  <2> SUFFICES ASSUME NEW v \in Inv
               PROVE  /\ sink(v, k, x, m) \in Inv
                      /\ sink(v, k, x, m) = v \/ sink(v, k, x, m).pos > v.pos
    OBVIOUS
  <2>1. Sinking(v, g, k, n, m, S, pos, x)
    OBVIOUS
  <2> HIDE DEF Inv
  <2> QED BY <1>1, <2>1, SinkStep
<1>5. b \in Inv /\ sink(b, k, x, m) = b
  <2>1. Inv \in SUBSET Loops(n)
    OBVIOUS
  <2> HIDE DEF Inv
  <2> QED BY SMTT(30), <1>2, <1>3, <1>4, <2>1, SinkEnds
<1>6. Sinking(b, g, k, n, m, S, pos, x)
  BY <1>5
<1> HIDE DEF Inv
<1> QED BY <1>5, <1>6, SinkStep
-----------------------------------------------------------------------------
(* The operations of the queue                                             *)

In(h) == {e \in Element : h.position[e] >= 0}

\* A heap of n elements.
Sound(h, k, n) ==
  /\ h \in Bodies(n) /\ n \in Nat
  /\ \A i \in Cells(n) : h.position[h.queue[i]] = i /\ k[h.queue[i]] \in Int
  /\ \A e \in Element : h.position[e] \in Cells(n) \cup {-1}
  /\ \A e \in In(h) : h.queue[h.position[e]] = e
  /\ Ordered(h.queue, k, n)

(* What is meant by a heap, element by element.                                          *)
LEMMA SoundIn ==
  ASSUME NEW h, NEW k, NEW n, Sound(h, k, n)
  PROVE  /\ \A i \in Cells(n) : h.queue[i] \in In(h)
         /\ \A e \in In(h) : e \in Element /\ h.position[e] \in Cells(n) /\ k[e] \in Int
         /\ \A e \in Element \ In(h) : h.position[e] = -1
<1>1. \A i \in Cells(n) : h.queue[i] \in Element /\ h.position[h.queue[i]] = i /\ i >= 0
  BY DEF Sound, Bodies, Cells
<1>2. \A e \in Element : h.position[e] \in Cells(n) \/ h.position[e] = -1
  BY DEF Sound
<1>3. \A i \in Cells(n) : i >= 0
  BY DEF Cells
<1>4. ASSUME NEW e \in In(h) PROVE e \in Element /\ h.position[e] \in Cells(n) /\ k[e] \in Int
  <2>1. e \in Element /\ h.position[e] \in Cells(n)
    BY <1>2, <1>4 DEF In
  <2>2. h.queue[h.position[e]] = e /\ k[h.queue[h.position[e]]] \in Int
    BY <1>4, <2>1 DEF Sound
  <2> QED BY <2>1, <2>2
<1> QED BY <1>1, <1>2, <1>3, <1>4 DEF In

(* The elements of a heap are as many as its cells.                                      *)
LEMMA SoundCounted ==
  ASSUME NEW h, NEW k, NEW n, Sound(h, k, n)
  PROVE  size(h) = n /\ IsFiniteSet(In(h)) /\ Cardinality(In(h)) = n
<1>1. h.queue \in [Cells(n) -> Element] /\ n \in Nat
  BY DEF Sound, Bodies
<1>2. size(h) = n /\ IsFiniteSet(Cells(n)) /\ Cardinality(Cells(n)) = n
  BY <1>1, SizeOf
<1> DEFINE f == [i \in Cells(n) |-> h.queue[i]]
<1>3. f \in Bijection(Cells(n), In(h))
  <2>1. f \in [Cells(n) -> In(h)]
    BY SoundIn
  <2>2. \A i, j \in Cells(n) : f[i] = f[j] => i = j
    BY DEF Sound
  <2>3. \A e \in In(h) : \E i \in Cells(n) : f[i] = e
    BY SoundIn DEF Sound
  <2> HIDE DEF f
  <2> QED BY <2>1, <2>2, <2>3 DEF Bijection, Injection, Surjection, IsInjective
<1>4. ExistsBijection(Cells(n), In(h))
  <2> HIDE DEF f
  <2> QED BY <1>3 DEF ExistsBijection
<1>5. IsFiniteSet(In(h)) /\ Cardinality(In(h)) = n
  <2>1. \E m \in Nat : ExistsBijection(1 .. m, Cells(n))
    BY <1>2, FS_NatBijection
  <2> QED BY <1>2, <1>4, FS_Bijection
<1> QED BY <1>2, <1>5

(* Keys of other elements do not matter.                                                 *)
LEMMA OtherKeys ==
  ASSUME NEW h, NEW k, NEW n, Sound(h, k, n), NEW j, \A e \in In(h) : j[e] = k[e]
  PROVE  Sound(h, j, n)
<1>1. \A i \in Cells(n) : j[h.queue[i]] = k[h.queue[i]]
  BY SoundIn
<1>2. \A i \in 1 .. n - 1 : i \in Cells(n) /\ parent(i) \in Cells(n)
  <2>1. ASSUME NEW i \in 1 .. n - 1 PROVE i \in Cells(n) /\ parent(i) \in Cells(n)
    <3>1. n \in Nat
      BY DEF Sound
    <3>2. i \in Nat \ {0} /\ i < n
      BY <3>1
    <3>3. parent(i) \in Nat /\ parent(i) < i
      BY <3>2, Parents
    <3> QED BY <3>1, <3>2, <3>3 DEF Cells
  <2> QED BY <2>1
<1>3. Ordered(h.queue, j, n)
  BY <1>1, <1>2 DEF Ordered, Sound
<1> QED BY <1>1, <1>3 DEF Sound

(* A heap has been put together again.                                                   *)
LEMMA SealedSound ==
  ASSUME NEW n \in Nat, NEW g, NEW h, NEW k, NEW S \in SUBSET Element, Sealed(h, g, k, n, n, S),
         \A e \in S : k[e] \in Int, \A e \in Element \ S : g.position[e] = -1
  PROVE  Sound(h, k, n) /\ In(h) = S
<1>1. \A e \in S : h.position[e] \in Cells(n) /\ h.queue[h.position[e]] = e
  BY DEF Sealed
<1>2. \A e \in Element \ S : h.position[e] = -1
  BY DEF Sealed
<1>3. In(h) = S
  <2>1. \A i \in Cells(n) : i >= 0
    BY DEF Cells
  <2> QED BY <1>1, <1>2, <2>1 DEF In
<1>4. \A e \in Element : h.position[e] \in Cells(n) \cup {-1}
  BY <1>1, <1>2
<1>5. \A i \in Cells(n) : h.position[h.queue[i]] = i /\ k[h.queue[i]] \in Int
  BY DEF Sealed
<1>6. Sound(h, k, n)
  BY <1>1, <1>3, <1>4, <1>5 DEF Sound, Sealed
<1> QED BY <1>3, <1>6

(* An element is new in the queue.                                                       *)
LEMMA PushSound ==
  ASSUME NEW h, NEW k, NEW n, Sound(h, k, n), NEW e \in Element, e \notin In(h), k[e] \in Int
  PROVE  Sound(push(h, k, e), k, n + 1) /\ In(push(h, k, e)) = In(h) \cup {e}
<1> DEFINE N == n + 1
           g == [h EXCEPT !.queue = With(@, n, e)]
           S == In(h)
           base == [h |-> g, pos |-> n]
           b == bubble_up(g, k, n, k[e], 0)
<1>1. h.queue \in [Cells(n) -> Element] /\ h.position \in [Element -> Int] /\ n \in Nat /\ N \in Nat
      /\ h = [queue |-> h.queue, position |-> h.position]
  BY DEF Sound, Bodies
<1>2. size(h) = n /\ h.position[e] = -1
  BY SoundCounted, SoundIn
<1>3. /\ g = [queue |-> g.queue, position |-> g.position] /\ g.position = h.position
      /\ g.queue \in [Cells(N) -> Element] /\ \A i \in Cells(n) : g.queue[i] = h.queue[i]
  <2>1. g.queue = With(h.queue, n, e) /\ g.position = h.position /\ g = [queue |-> g.queue, position |-> g.position]
    BY <1>1
  <2>2. Cells(n) \cup {n} = Cells(N) /\ n \notin Cells(n)
    BY <1>1 DEF Cells
  <2>3. With(h.queue, n, e) = [i \in Cells(N) |-> IF i = n THEN e ELSE h.queue[i]]
    BY <1>1, <2>2 DEF With
  <2> HIDE DEF g
  <2>4. \A i \in Cells(N) : g.queue[i] = IF i = n THEN e ELSE h.queue[i]
    BY <2>1, <2>3
  <2>5. \A i \in Cells(N) : g.queue[i] \in Element
    BY <1>1, <2>2, <2>4
  <2>6. g.queue = [i \in Cells(N) |-> g.queue[i]]
    BY <2>1, <2>3
  <2>7. g.queue \in [Cells(N) -> Element]
    BY <2>5, <2>6
  <2> QED BY <2>1, <2>2, <2>4, <2>7
<1> HIDE DEF g
<1>4. Cells(N) \ {n} = Cells(n) /\ n \in Cells(N) /\ Cells(N) \ Cells(N) = {}
  BY <1>1 DEF Cells
<1>5. Holed(base, g, N, N, S)
  <2>1. base \in Loops(N) /\ N \in 0 .. N
    BY <1>1, <1>3, <1>4 DEF Loops, Bodies
  <2>2. \A i \in Cells(N) \ {n} : g.queue[i] \in S /\ g.position[g.queue[i]] = i
    BY <1>3, <1>4, SoundIn DEF Sound
  <2>3. \A f \in S : g.position[f] \in Cells(N) \ {n} /\ g.queue[g.position[f]] = f
    BY <1>3, <1>4, SoundIn DEF Sound
  <2> QED BY <1>4, <2>1, <2>2, <2>3 DEF Holed
<1>6. \A i \in 1 .. N - 1 : parent(i) \in Nat /\ parent(i) < i /\ i <= n /\ i \in Nat
  BY <1>1, Parents
<1>7. Around(g.queue, k, N, n)
  <2>1. ASSUME NEW i \in 1 .. N - 1, i # n PROVE k[g.queue[parent(i)]] <= k[g.queue[i]]
    <3>1. i \in 1 .. n - 1 /\ i \in Cells(n) /\ parent(i) \in Cells(n)
      BY <1>1, <1>6, <2>1 DEF Cells
    <3> QED BY <1>3, <3>1 DEF Sound, Ordered
  <2>2. \A i \in 1 .. N - 1 : parent(i) # n
    BY <1>1, <1>6
  <2> QED BY <2>1, <2>2 DEF Around
<1>8. Rising(base, g, k, N, N, S, n, k[e], 0)
  BY <1>4, <1>5, <1>7 DEF Rising
<1>9. Rising(b, g, k, N, N, S, n, k[e], 0) /\ Above(b.h.queue, k, b.pos, k[e])
  <2>1. \A f \in S : k[f] \in Int
    BY SoundIn
  <2>2. S \in SUBSET Element
    BY DEF In
  <2> HIDE DEF S, N, b
  <2> QED BY <1>1, <1>8, <2>1, <2>2, BubbleUp DEF b
<1>10. Below(b.h.queue, k, N, b.pos, k[e])
  <2>1. \A i \in 1 .. N - 1 : parent(i) # n
    BY <1>1, <1>6
  <2>2. b = base => b.pos = n
    OBVIOUS
  <2> HIDE DEF b
  <2> QED BY <1>9, <2>1, <2>2 DEF Rising, Below
<1>11. push(h, k, e) = Placed(b.h, e, b.pos)
  BY <1>2 DEF push, g
<1>12. Sealed(Placed(b.h, e, b.pos), g, k, N, N, S \cup {e})
  <2>1. e \in Element \ S /\ S \in SUBSET Element
    BY DEF In
  <2> HIDE DEF S, N, b
  <2> QED BY <1>1, <1>9, <1>10, <2>1, HoleFilled DEF Rising
<1>13. Sound(Placed(b.h, e, b.pos), k, N) /\ In(Placed(b.h, e, b.pos)) = S \cup {e}
  <2>1. S \cup {e} \in SUBSET Element
    BY DEF In
  <2>2. \A f \in S \cup {e} : k[f] \in Int
    BY SoundIn
  <2>3. \A f \in Element \ (S \cup {e}) : g.position[f] = -1
    BY <1>3, SoundIn
  <2> HIDE DEF S, N, b
  <2> QED BY <1>1, <1>12, <2>1, <2>2, <2>3, SealedSound
<1> QED BY <1>11, <1>13
(* An element whose key has become less belongs where it is or above.                    *)
LEMMA Lowered ==
  ASSUME NEW h, NEW j, NEW n, Sound(h, j, n), NEW pos \in Cells(n), NEW e, e = h.queue[pos],
         NEW k, k[e] \in Int, k[e] <= j[e], \A f \in In(h) \ {e} : k[f] = j[f]
  PROVE  /\ Holed([h |-> h, pos |-> pos], h, n, n, In(h) \ {e})
         /\ Around(h.queue, k, n, pos) /\ Below(h.queue, k, n, pos, k[e])
         /\ \A f \in In(h) : k[f] \in Int
         /\ Above(h.queue, k, pos, k[e]) => Sound(h, k, n)
<1> DEFINE q == h.queue
<1>1. /\ n \in Nat /\ h \in Bodies(n) /\ pos \in Nat /\ pos < n
      /\ e \in In(h) /\ h.position[e] = pos /\ j[e] \in Int
  <2>1. n \in Nat /\ h \in Bodies(n) /\ h.position[e] = pos /\ j[e] \in Int
    BY DEF Sound
  <2> QED BY <2>1, SoundIn DEF Cells
<1>2. \A i \in Cells(n) : /\ i # pos => q[i] \in In(h) \ {e}
                          /\ h.position[q[i]] = i /\ k[q[i]] \in Int /\ j[q[i]] \in Int
                          /\ i # pos => k[q[i]] = j[q[i]]
  <2> SUFFICES ASSUME NEW i \in Cells(n)
               PROVE  /\ i # pos => q[i] \in In(h) \ {e}
                      /\ h.position[q[i]] = i /\ k[q[i]] \in Int /\ j[q[i]] \in Int
                      /\ i # pos => k[q[i]] = j[q[i]]
    OBVIOUS
  <2>1. h.position[q[i]] = i /\ q[i] \in In(h) /\ j[q[i]] \in Int
    BY SoundIn DEF Sound
  <2>2. i # pos => q[i] # e
    BY <1>1, <2>1
  <2> QED BY <2>1, <2>2
<1>3. Holed([h |-> h, pos |-> pos], h, n, n, In(h) \ {e})
  <2>1. [h |-> h, pos |-> pos] \in Loops(n) /\ n \in 0 .. n
    BY <1>1 DEF Loops
  <2>2. \A f \in In(h) \ {e} : h.position[f] \in Cells(n) \ {pos} /\ q[h.position[f]] = f
    BY SoundIn DEF Sound
  <2> QED BY <1>2, <2>1, <2>2 DEF Holed
<1>4. ASSUME NEW i \in 1 .. n - 1
      PROVE  /\ i \in Cells(n) /\ parent(i) \in Cells(n) /\ parent(i) < i /\ i \in Nat /\ parent(i) \in Nat
             /\ j[q[parent(i)]] <= j[q[i]]
  <2>1. i \in Nat \ {0} /\ i < n
    BY <1>1
  <2>2. parent(i) \in Nat /\ parent(i) < i
    BY <2>1, Parents
  <2> QED BY <1>1, <2>1, <2>2 DEF Cells, Sound, Ordered
<1>5. Around(q, k, n, pos)
  <2>1. ASSUME NEW i \in 1 .. n - 1, i # pos, parent(i) # pos PROVE k[q[parent(i)]] <= k[q[i]]
    BY <1>2, <1>4, <2>1
  <2>2. ASSUME NEW i \in 1 .. n - 1, parent(i) = pos, pos > 0 PROVE k[q[parent(pos)]] <= k[q[i]]
    <3>1. pos \in 1 .. n - 1 /\ i # pos
      BY <1>1, <1>4, <2>2
    <3>2. j[q[parent(pos)]] <= j[q[pos]] /\ j[q[pos]] <= j[q[i]] /\ parent(pos) # pos /\ parent(pos) \in Cells(n)
      BY <1>1, <1>4, <2>2, <3>1
    <3>3. k[q[parent(pos)]] = j[q[parent(pos)]] /\ k[q[i]] = j[q[i]]
      BY <1>2, <1>4, <3>1, <3>2
    <3>4. j[q[parent(pos)]] \in Int /\ j[q[pos]] \in Int /\ j[q[i]] \in Int
      BY <1>2, <1>4, <3>2
    <3> QED BY <3>2, <3>3, <3>4
  <2> QED BY <2>1, <2>2 DEF Around
<1>6. Below(q, k, n, pos, k[e])
  <2> SUFFICES ASSUME NEW i \in 1 .. n - 1, parent(i) = pos PROVE k[e] <= k[q[i]]
    BY DEF Below
  <2>1. j[e] <= j[q[i]] /\ i # pos /\ i \in Cells(n)
    BY <1>4
  <2>2. k[q[i]] = j[q[i]] /\ j[q[i]] \in Int
    BY <1>2, <2>1
  <2> QED BY <1>1, <2>1, <2>2
<1>7. \A f \in In(h) : k[f] \in Int
  BY SoundIn
<1>8. ASSUME Above(q, k, pos, k[e]) PROVE Sound(h, k, n)
  <2>1. ASSUME NEW i \in 1 .. n - 1 PROVE k[q[parent(i)]] <= k[q[i]]
    <3>1. CASE i = pos
      BY <1>1, <1>4, <1>8, <3>1 DEF Above
    <3>2. CASE parent(i) = pos
      BY <1>6, <3>2 DEF Below
    <3>3. CASE i # pos /\ parent(i) # pos
      BY <1>5, <3>3 DEF Around
    <3> QED BY <3>1, <3>2, <3>3
  <2>2. Ordered(q, k, n)
    BY <2>1 DEF Ordered
  <2> QED BY <1>2, <2>2 DEF Sound
<1> QED BY <1>3, <1>5, <1>6, <1>7, <1>8

(* Nothing moves up from a place below which no key is less.                             *)
LEMMA Stays ==
  ASSUME NEW n \in Nat, NEW m \in 0 .. n, NEW h \in Bodies(n), NEW pos \in Cells(n), NEW k, NEW x \in Int,
         \A i \in Cells(n) : k[h.queue[i]] \in Int, Below(h.queue, k, m, pos, x)
  PROVE  bubble_down(h, k, pos, x, m) = [h |-> h, pos |-> pos]
<1> DEFINE base == [h |-> h, pos |-> pos]
           q == h.queue
           left == 2 * pos + 1
           child == IF left + 1 < m /\ k[q[left + 1]] < k[q[left]] THEN left + 1 ELSE left
<1>1. DOMAIN h.queue = Cells(n) /\ base \in Loops(n)
  BY DEF Bodies, Loops
<1>2. ASSUME left < m PROVE ~(k[q[child]] < x)
  <2>1. left \in Nat /\ parent(left) = pos /\ left + 1 = 2 * pos + 2 /\ parent(left + 1) = pos /\ pos \in Nat
    <3>1. pos \in Nat /\ left \in Nat /\ left + 1 = 2 * pos + 2
      BY DEF Cells
    <3> QED BY <3>1, Parents
  <2>2. child \in 1 .. m - 1 /\ child \in Cells(n) /\ parent(child) = pos
    <3>1. left >= 1
      BY <2>1
    <3> HIDE DEF left
    <3> QED BY <1>2, <2>1, <3>1 DEF Cells
  <2> HIDE DEF child
  <2>3. x <= k[q[child]] /\ k[q[child]] \in Int
    BY <2>2 DEF Below
  <2> QED BY <2>3
<1>3. sink(base, k, x, m) = base
  <2>1. sink(base, k, x, m) = IF left < m /\ k[q[child]] < x
                              THEN [h |-> Placed(h, q[child], pos), pos |-> child] ELSE base
    BY DEF sink
  <2> HIDE DEF left, child, base
  <2> QED BY <1>2, <2>1
<1> DEFINE Inv == {base}
<1>4. Inv \in SUBSET Loops(n) /\ base \in Inv
  BY <1>1
<1>5. \A v \in Inv : sink(v, k, x, m) \in Inv /\ (sink(v, k, x, m) = v \/ sink(v, k, x, m).pos > v.pos)
  BY <1>3
<1>6. bubble_down(h, k, pos, x, m) \in Inv
  <2> HIDE DEF Inv
  <2> QED BY <1>1, <1>4, <1>5, SinkEnds
<1> QED BY <1>6

(* update_top, after the key of the first element has become less.                       *)
LEMMA UpdateTopSound ==
  ASSUME NEW h, NEW j, NEW n, Sound(h, j, n), n > 0, NEW e, e = h.queue[0],
         NEW k, k[e] \in Int, k[e] <= j[e], \A f \in In(h) \ {e} : k[f] = j[f]
  PROVE  Sound(h, k, n) /\ update_top(h, k) = h
<1>1. n \in Nat /\ h \in Bodies(n) /\ 0 \in Cells(n) /\ size(h) = n /\ n - 0 = n
  BY SoundCounted DEF Sound, Cells
<1>2. PICK pos : pos = 0
  OBVIOUS
<1>3. pos \in Cells(n) /\ e = h.queue[pos] /\ Above(h.queue, k, pos, k[e])
  BY <1>1, <1>2 DEF Above
<1>4. /\ Holed([h |-> h, pos |-> pos], h, n, n, In(h) \ {e})
      /\ Below(h.queue, k, n, pos, k[e]) /\ \A f \in In(h) : k[f] \in Int
      /\ Sound(h, k, n)
  BY <1>3, Lowered
<1>5. \A i \in Cells(n) : k[h.queue[i]] \in Int
  BY <1>4, SoundIn
<1>6. bubble_down(h, k, pos, k[e], n) = [h |-> h, pos |-> pos]
  BY <1>1, n \in 0 .. n, <1>3, <1>4, <1>5, Stays
<1>7. update_top(h, k) = h
  BY <1>1, <1>2, <1>6 DEF update_top, sift_down
<1> QED BY <1>4, <1>7

(* push of an element that is there, after its key has become less.                      *)
LEMMA PushAgainSound ==
  ASSUME NEW h, NEW j, NEW n, Sound(h, j, n), NEW e \in In(h),
         NEW k, k[e] \in Int, k[e] <= j[e], \A f \in In(h) \ {e} : k[f] = j[f]
  PROVE  Sound(push(h, k, e), k, n) /\ In(push(h, k, e)) = In(h)
<1> DEFINE pos == h.position[e]
           S == In(h) \ {e}
           base == [h |-> h, pos |-> pos]
           b == bubble_up(h, k, pos, k[e], 0)
<1>1. /\ n \in Nat /\ h \in Bodies(n) /\ pos \in Cells(n) /\ pos \in Nat /\ h.queue[pos] = e /\ size(h) = n
      /\ e \in Element /\ S \in SUBSET Element
  <2>1. n \in Nat /\ h \in Bodies(n) /\ h.queue[pos] = e
    BY DEF Sound
  <2>2. pos \in Cells(n) /\ e \in Element
    BY SoundIn
  <2>3. pos \in Nat
    BY <2>2 DEF Cells
  <2>4. size(h) = n
    BY SoundCounted
  <2>5. S \in SUBSET Element
    BY DEF In
  <2> QED BY <2>1, <2>2, <2>3, <2>4, <2>5
<1>2. /\ Holed(base, h, n, n, S) /\ Around(h.queue, k, n, pos) /\ Below(h.queue, k, n, pos, k[e])
      /\ \A f \in In(h) : k[f] \in Int
      /\ Above(h.queue, k, pos, k[e]) => Sound(h, k, n)
  BY <1>1, Lowered
<1>3. Rising(base, h, k, n, n, S, pos, k[e], 0)
  BY <1>1, <1>2 DEF Rising
<1>4. Rising(b, h, k, n, n, S, pos, k[e], 0) /\ Above(b.h.queue, k, b.pos, k[e])
  <2>1. \A f \in S : k[f] \in Int
    BY <1>2
  <2> HIDE DEF S, pos, b
  <2> QED BY <1>1, <1>3, <2>1, BubbleUp DEF b
<1>5. push(h, k, e) = IF b.pos # pos THEN Placed(b.h, e, b.pos) ELSE sift_down(h, k, pos, pos, 0)
  BY <1>1 DEF push
<1>6. CASE b.pos # pos
  <2>1. Below(b.h.queue, k, n, b.pos, k[e])
    BY <1>4, <1>6 DEF Rising
  <2>2. Sealed(Placed(b.h, e, b.pos), h, k, n, n, S \cup {e})
    <3>1. e \in Element \ S
      BY <1>1
    <3> HIDE DEF S, pos, b
    <3> QED BY <1>1, <1>4, <2>1, <3>1, HoleFilled DEF Rising
  <2>3. S \cup {e} = In(h) /\ In(h) \in SUBSET Element /\ \A f \in Element \ In(h) : h.position[f] = -1
    BY SoundIn DEF In
  <2>4. Sealed(Placed(b.h, e, b.pos), h, k, n, n, In(h))
    BY <2>2, <2>3
  <2>5. Sound(Placed(b.h, e, b.pos), k, n) /\ In(Placed(b.h, e, b.pos)) = In(h)
    <3> HIDE DEF S, pos, b
    <3> QED BY <1>1, <1>2, <2>3, <2>4, SealedSound
  <2> HIDE DEF S, pos, b
  <2> QED BY <1>5, <1>6, <2>5
<1>7. CASE b.pos = pos
  <2>1. b = base
    BY <1>1, <1>4, <1>7 DEF Rising
  <2>2. Sound(h, k, n)
    BY <1>2, <1>4, <2>1
  <2>3. \A i \in Cells(n) : k[h.queue[i]] \in Int
    BY <1>2, SoundIn
  <2>4. bubble_down(h, k, pos, k[e], n) = base
    BY <1>1, n \in 0 .. n, <1>2, <2>3, Stays
  <2>5. sift_down(h, k, pos, pos, 0) = h
    <3>1. n - 0 = n
      BY <1>1
    <3> QED BY <1>1, <2>4, <3>1 DEF sift_down
  <2> QED BY <1>5, <1>7, <2>2, <2>5
<1> QED BY <1>6, <1>7

(* The last element is forgotten.                                                        *)
LEMMA LastForgotten ==
  ASSUME NEW h, NEW k, NEW n, Sound(h, k, n), n > 0, NEW e, e = h.queue[n - 1]
  PROVE  /\ Sound(PopBack(Forgotten(h, e)), k, n - 1) /\ In(PopBack(Forgotten(h, e))) = In(h) \ {e}
         /\ Forgotten(PopBack(h), e) = PopBack(Forgotten(h, e))
<1> DEFINE N == n - 1
           w == PopBack(Forgotten(h, e))
           q == h.queue
<1>1. /\ n \in Nat /\ N \in Nat /\ N \in Cells(n) /\ Cells(N) = Cells(n) \ {N} /\ Cells(N) = 0 .. n - 2
      /\ h = [queue |-> q, position |-> h.position]
      /\ q \in [Cells(n) -> Element] /\ h.position \in [Element -> Int] /\ e \in Element
      /\ size(h) = n /\ size(Forgotten(h, e)) = n
  <2>1. n \in Nat /\ h \in Bodies(n)
    BY DEF Sound
  <2>2. N \in Nat /\ N \in Cells(n) /\ Cells(N) = Cells(n) \ {N} /\ Cells(N) = 0 .. n - 2
    BY <2>1 DEF Cells
  <2>3. h = [queue |-> q, position |-> h.position] /\ q \in [Cells(n) -> Element] /\ h.position \in [Element -> Int]
    BY <2>1 DEF Bodies
  <2>4. size(h) = n
    BY SoundCounted
  <2>5. Forgotten(h, e).queue = q
    BY <2>3 DEF Forgotten
  <2> QED BY <2>1, <2>2, <2>3, <2>4, <2>5 DEF size
<1>2. /\ w = [queue |-> [i \in Cells(N) |-> q[i]], position |-> [h.position EXCEPT ![e] = -1]]
      /\ Forgotten(PopBack(h), e) = w
  <2> DEFINE g == Forgotten(h, e)
             r == [i \in Cells(N) |-> q[i]]
  <2>1. g.queue = q /\ g.position = [h.position EXCEPT ![e] = -1] /\ g = [queue |-> g.queue, position |-> g.position]
    BY <1>1 DEF Forgotten
  <2>2. w = [g EXCEPT !.queue = [i \in 0 .. n - 2 |-> g.queue[i]]]
    BY <1>1 DEF PopBack
  <2>3. w = [g EXCEPT !.queue = r]
    <3> HIDE DEF g, w
    <3> QED BY <1>1, <2>1, <2>2
  <2>4. w = [queue |-> r, position |-> g.position]
    <3> HIDE DEF g, w, r
    <3> QED BY <2>1, <2>3
  <2>5. PopBack(h) = [h EXCEPT !.queue = [i \in 0 .. n - 2 |-> q[i]]]
    BY <1>1 DEF PopBack
  <2>6. PopBack(h) = [h EXCEPT !.queue = r]
    BY <1>1, <2>5
  <2>7. PopBack(h) = [queue |-> r, position |-> h.position]
    <3> HIDE DEF r
    <3> QED BY <1>1, <2>6
  <2>8. Forgotten(PopBack(h), e) = [queue |-> r, position |-> [h.position EXCEPT ![e] = -1]]
    <3> HIDE DEF r
    <3> QED BY <2>7 DEF Forgotten
  <2> QED BY <2>1, <2>4, <2>8
<1>3. w.queue = [i \in Cells(N) |-> q[i]] /\ w.position = [h.position EXCEPT ![e] = -1]
      /\ w = [queue |-> w.queue, position |-> w.position]
  BY <1>2
<1> HIDE DEF w
<1>4. /\ w \in Bodies(N)
      /\ \A i \in Cells(N) : w.queue[i] = q[i]
      /\ \A f \in Element : w.position[f] = IF f = e THEN -1 ELSE h.position[f]
  <2>1. w.queue \in [Cells(N) -> Element] /\ w.position \in [Element -> Int]
    BY <1>1, <1>3
  <2> QED BY <1>1, <1>3, <2>1 DEF Bodies
<1>5. h.position[e] = N
  BY <1>1 DEF Sound
<1>6. \A i \in Cells(N) : w.position[w.queue[i]] = i /\ k[w.queue[i]] \in Int
  <2> SUFFICES ASSUME NEW i \in Cells(N) PROVE w.position[w.queue[i]] = i /\ k[w.queue[i]] \in Int
    OBVIOUS
  <2>1. i \in Cells(n) /\ i # N
    BY <1>1
  <2>2. h.position[q[i]] = i /\ k[q[i]] \in Int /\ q[i] \in Element
    BY <1>1, <2>1 DEF Sound
  <2>3. q[i] # e
    BY <1>5, <2>1, <2>2
  <2> QED BY <1>4, <2>2, <2>3
<1>7. In(w) = In(h) \ {e}
  <2>1. ~(-1 >= 0)
    OBVIOUS
  <2> QED BY <1>4, <2>1 DEF In
<1>8. \A f \in In(w) : w.queue[w.position[f]] = f /\ w.position[f] \in Cells(N)
  <2> SUFFICES ASSUME NEW f \in In(w) PROVE w.queue[w.position[f]] = f /\ w.position[f] \in Cells(N)
    OBVIOUS
  <2>1. f \in In(h) /\ f # e /\ f \in Element
    BY <1>7 DEF In
  <2>2. h.position[f] \in Cells(n) /\ q[h.position[f]] = f
    BY <2>1, SoundIn DEF Sound
  <2>3. h.position[f] # N
    BY <2>1, <2>2
  <2> QED BY <1>1, <1>4, <2>1, <2>2, <2>3
<1>9. \A f \in Element : w.position[f] \in Cells(N) \cup {-1}
  BY <1>4, <1>7, <1>8, SoundIn
<1>10. Ordered(w.queue, k, N)
  <2> SUFFICES ASSUME NEW i \in 1 .. N - 1 PROVE k[w.queue[parent(i)]] <= k[w.queue[i]]
    BY DEF Ordered
  <2>1. i \in Nat \ {0} /\ i < N
    BY <1>1
  <2>2. parent(i) \in Nat /\ parent(i) < i
    BY <2>1, Parents
  <2>3. i \in Cells(N) /\ parent(i) \in Cells(N) /\ i \in 1 .. n - 1
    BY <1>1, <2>1, <2>2 DEF Cells
  <2> QED BY <1>4, <2>3 DEF Sound, Ordered
<1>11. Sound(w, k, N)
  BY <1>1, <1>4, <1>6, <1>8, <1>9, <1>10 DEF Sound
<1> QED BY <1>2, <1>7, <1>11 DEF w

\* The element at pos is to be replaced by l, the last one.
Gap(g, k, n, pos, S, l) ==
  /\ n \in Nat /\ n >= 2 /\ g \in Bodies(n) /\ pos \in Cells(n - 1)
  /\ S \in SUBSET Element /\ l \in Element \ S /\ l = g.queue[n - 1]
  /\ \A e \in S \cup {l} : k[e] \in Int
  /\ Holed([h |-> g, pos |-> pos], g, n, n - 1, S)
  /\ Around(g.queue, k, n - 1, pos)

(* An element other than the last one leaves a gap.                                      *)
LEMMA GapLeft ==
  ASSUME NEW h, NEW k, NEW n, Sound(h, k, n), NEW pos \in Cells(n), pos # n - 1,
         NEW e, e = h.queue[pos], NEW l, l = h.queue[n - 1],
         NEW g \in Bodies(n), g.queue = h.queue, \A f \in Element \ {e} : g.position[f] = h.position[f],
         NEW S, S = In(h) \ {e, l}
  PROVE  Gap(g, k, n, pos, S, l) /\ S \cup {l} = In(h) \ {e} /\ e # l /\ e \in In(h)
<1> DEFINE q == h.queue
<1>1. n \in Nat /\ pos \in Nat /\ pos < n
  BY DEF Sound, Cells
<1>2. n >= 2 /\ n - 1 \in 0 .. n /\ n - 1 \in Cells(n) /\ pos \in Cells(n - 1)
      /\ Cells(n - 1) = Cells(n) \ {n - 1} /\ Cells(n) \ Cells(n - 1) = {n - 1}
  BY <1>1 DEF Cells
<1>3. \A i \in Cells(n) : q[i] \in In(h) /\ q[i] \in Element /\ h.position[q[i]] = i
  BY SoundIn DEF Sound
<1>4. e \in In(h) /\ l \in In(h) /\ e # l /\ e \in Element /\ l \in Element
  BY <1>2, <1>3
<1>5. S \in SUBSET Element /\ S \cup {l} = In(h) \ {e} /\ l \notin S
  BY <1>4 DEF In
<1>6. \A f \in S \cup {l} : k[f] \in Int
  BY <1>5, SoundIn
<1>7. Holed([h |-> g, pos |-> pos], g, n, n - 1, S)
  <2>1. [h |-> g, pos |-> pos] \in Loops(n)
    BY DEF Loops
  <2>2. \A i \in Cells(n - 1) \ {pos} : q[i] \in S /\ g.position[q[i]] = i
    <3> SUFFICES ASSUME NEW i \in Cells(n - 1) \ {pos} PROVE q[i] \in S /\ g.position[q[i]] = i
      OBVIOUS
    <3>1. i \in Cells(n) /\ i # n - 1 /\ i # pos
      BY <1>2
    <3>2. q[i] \in In(h) /\ h.position[q[i]] = i /\ q[i] \in Element
      BY <1>3, <3>1
    <3>3. q[i] # e /\ q[i] # l
      BY <1>2, <1>3, <3>1, <3>2
    <3> QED BY <3>2, <3>3
  <2>3. \A f \in S : g.position[f] \in Cells(n - 1) \ {pos} /\ q[g.position[f]] = f
    <3> SUFFICES ASSUME NEW f \in S PROVE g.position[f] \in Cells(n - 1) \ {pos} /\ q[g.position[f]] = f
      OBVIOUS
    <3>1. f \in In(h) /\ f # e /\ f # l /\ f \in Element
      BY <1>5
    <3>2. h.position[f] \in Cells(n) /\ q[h.position[f]] = f /\ g.position[f] = h.position[f]
      BY <3>1, SoundIn DEF Sound
    <3> QED BY <1>2, <3>1, <3>2
  <2> HIDE DEF q
  <2> QED BY <1>2, <2>1, <2>2, <2>3 DEF Holed, q
<1>8. Around(q, k, n - 1, pos)
  <2>1. ASSUME NEW i \in 1 .. (n - 1) - 1
        PROVE  /\ i \in 1 .. n - 1 /\ k[q[parent(i)]] <= k[q[i]] /\ i \in Cells(n) /\ parent(i) \in Cells(n)
               /\ i \in Nat
    <3>1. i \in Nat \ {0} /\ i < n - 1 /\ i \in 1 .. n - 1
      BY <1>1
    <3>2. parent(i) \in Nat /\ parent(i) < i
      BY <3>1, Parents
    <3>3. i \in Cells(n) /\ parent(i) \in Cells(n)
      BY <1>1, <3>1, <3>2 DEF Cells
    <3> QED BY <3>1, <3>3 DEF Sound, Ordered
  <2>2. ASSUME NEW i \in 1 .. (n - 1) - 1, parent(i) = pos, pos > 0
        PROVE  k[q[parent(pos)]] <= k[q[i]]
    <3>1. pos \in 1 .. (n - 1) - 1
      BY <1>1, <1>2, <2>2 DEF Cells
    <3>2. k[q[parent(pos)]] <= k[q[pos]] /\ k[q[pos]] <= k[q[i]] /\ parent(pos) \in Cells(n) /\ i \in Cells(n)
      BY <2>1, <2>2, <3>1
    <3>3. k[q[parent(pos)]] \in Int /\ k[q[pos]] \in Int /\ k[q[i]] \in Int
      BY <3>2 DEF Sound
    <3> QED BY <3>2, <3>3
  <2> QED BY <2>1, <2>2 DEF Around
<1> QED BY <1>1, <1>2, <1>4, <1>5, <1>6, <1>7, <1>8 DEF Gap

\* Without its last cell, h is a heap of S and l; nothing else has been done to g.
Closed(h, g, k, n, S, l) ==
  Sealed(PopBack(h), g, k, n - 1, n - 1, S \cup {l}) /\ PopBack(h).position = h.position

(* The last cell is given up.                                                            *)
LEMMA CellGone ==
  ASSUME NEW h, NEW g, NEW k, NEW n \in Nat, n >= 2, NEW S, NEW l, Sealed(h, g, k, n, n - 1, S \cup {l})
  PROVE  Closed(h, g, k, n, S, l)
<1> DEFINE N == n - 1
           w == PopBack(h)
           q == h.queue
<1>1. /\ N \in Nat /\ Cells(N) \subseteq Cells(n) /\ Cells(N) = 0 .. n - 2 /\ N \in 0 .. N
      /\ h = [queue |-> q, position |-> h.position]
      /\ q \in [Cells(n) -> Element] /\ h.position \in [Element -> Int]
      /\ size(h) = n
  <2>1. h \in Bodies(n)
    BY DEF Sealed
  <2>2. h = [queue |-> q, position |-> h.position] /\ q \in [Cells(n) -> Element] /\ h.position \in [Element -> Int]
    BY <2>1 DEF Bodies
  <2>3. size(h) = n
    BY <2>2, SizeOf
  <2>4. N \in Nat /\ Cells(N) \subseteq Cells(n) /\ Cells(N) = 0 .. n - 2 /\ N \in 0 .. N
    BY DEF Cells
  <2> QED BY <2>2, <2>3, <2>4
<1>2. w = [queue |-> [i \in Cells(N) |-> q[i]], position |-> h.position]
  <2>1. w = [h EXCEPT !.queue = [i \in 0 .. n - 2 |-> q[i]]]
    BY <1>1 DEF PopBack
  <2>2. w = [h EXCEPT !.queue = [i \in Cells(N) |-> q[i]]]
    BY <1>1, <2>1
  <2> HIDE DEF w, N
  <2> QED BY <1>1, <2>2
<1>3. w.queue = [i \in Cells(N) |-> q[i]] /\ w.position = h.position /\ w = [queue |-> w.queue, position |-> w.position]
  BY <1>2
<1> HIDE DEF w
<1>4. w \in Bodies(N) /\ \A i \in Cells(N) : w.queue[i] = q[i]
  <2>1. w.queue \in [Cells(N) -> Element] /\ w.position \in [Element -> Int]
    BY <1>1, <1>3
  <2> QED BY <1>3, <2>1 DEF Bodies
<1>5. Ordered(w.queue, k, N)
  <2> SUFFICES ASSUME NEW i \in 1 .. N - 1 PROVE k[w.queue[parent(i)]] <= k[w.queue[i]]
    BY DEF Ordered
  <2>1. i \in Nat \ {0} /\ i < N
    BY <1>1
  <2>2. parent(i) \in Nat /\ parent(i) < i
    BY <2>1, Parents
  <2>3. i \in Cells(N) /\ parent(i) \in Cells(N)
    BY <1>1, <2>1, <2>2 DEF Cells
  <2> QED BY <1>4, <2>3 DEF Sealed, Ordered
<1>6. Sealed(w, g, k, N, N, S \cup {l})
  <2> HIDE DEF q
  <2> QED BY <1>1, <1>3, <1>4, <1>5 DEF Sealed, q
<1> QED BY <1>3, <1>6 DEF Closed, w

(* The last element moves down from the gap.                                             *)
LEMMA GapSunk ==
  ASSUME NEW g, NEW k, NEW n, NEW pos, NEW S, NEW l, Gap(g, k, n, pos, S, l), Above(g.queue, k, pos, k[l])
  PROVE  Closed(sift_down(g, k, n - 1, pos, 1), g, k, n, S, l)
<1> DEFINE m == n - 1
           base == [h |-> g, pos |-> pos]
           b == bubble_down(g, k, pos, k[l], m)
<1>1. /\ n \in Nat /\ n >= 2 /\ g \in Bodies(n) /\ pos \in Cells(m) /\ pos \in Int /\ m > 0 /\ m \in Nat
      /\ S \in SUBSET Element /\ l \in Element \ S /\ l = g.queue[m]
      /\ \A e \in S \cup {l} : k[e] \in Int
      /\ Holed(base, g, n, m, S) /\ Around(g.queue, k, m, pos)
  BY DEF Gap, Cells
<1>2. Sinking(base, g, k, n, m, S, pos, k[l])
  <2> HIDE DEF m
  <2> QED BY <1>1 DEF Sinking
<1>3. Sinking(b, g, k, n, m, S, pos, k[l]) /\ Below(b.h.queue, k, m, b.pos, k[l])
  <2> HIDE DEF m, b
  <2> QED BY <1>1, <1>2, BubbleDown DEF b
<1>4. size(g) = n
  BY <1>1, SizeOf DEF Bodies
<1>5. b.pos \in Cells(m) /\ b.pos # m
  BY SMTT(30), <1>1, <1>3 DEF Sinking, Cells
<1>6. b.h.queue[m] = l
  <2>1. m \in Cells(n) \ Cells(m)
    BY <1>1 DEF Cells
  <2> HIDE DEF b, m
  <2> QED BY <1>1, <1>3, <2>1 DEF Sinking, Holed
<1>7. sift_down(g, k, m, pos, 1) = Placed(b.h, l, b.pos)
  <2>1. sift_down(g, k, m, pos, 1) = IF b.pos # m THEN Placed(b.h, b.h.queue[m], b.pos) ELSE b.h
    BY <1>1, <1>4 DEF sift_down
  <2> HIDE DEF b, m
  <2> QED BY <1>5, <1>6, <2>1
<1>8. Sealed(Placed(b.h, l, b.pos), g, k, n, m, S \cup {l})
  <2> HIDE DEF b, m
  <2> QED BY <1>1, <1>3, <1>5, HoleFilled DEF Sinking
<1> QED BY <1>1, <1>7, <1>8, CellGone

(* The last element moves up from the gap, but not to the root; or it stays.             *)
LEMMA GapRisen ==
  ASSUME NEW g, NEW k, NEW n, NEW pos, NEW S, NEW l, Gap(g, k, n, pos, S, l), pos > 0 => k[g.queue[0]] <= k[l],
         NEW b, b = bubble_up(g, k, pos, k[l], 1)
  PROVE  /\ b.pos # pos => Closed(Placed(b.h, l, b.pos), g, k, n, S, l)
         /\ b.pos = pos => Above(g.queue, k, pos, k[l])
<1> DEFINE m == n - 1
           base == [h |-> g, pos |-> pos]
<1>1. /\ n \in Nat /\ n >= 2 /\ g \in Bodies(n) /\ pos \in Cells(m) /\ pos \in Int /\ m > 0 /\ m \in Nat
      /\ S \in SUBSET Element /\ l \in Element \ S
      /\ \A e \in S \cup {l} : k[e] \in Int
      /\ Holed(base, g, n, m, S) /\ Around(g.queue, k, m, pos)
  BY DEF Gap, Cells
<1>2. Rising(base, g, k, n, m, S, pos, k[l], 1)
  <2> HIDE DEF m
  <2> QED BY <1>1 DEF Rising
<1>3. Rising(b, g, k, n, m, S, pos, k[l], 1) /\ Above(b.h.queue, k, b.pos, k[l])
  <2>1. 1 \in {0, 1} /\ k[l] \in Int /\ \A e \in S : k[e] \in Int
    BY <1>1
  <2> HIDE DEF m
  <2> QED BY <1>1, <1>2, <2>1, BubbleUp
<1>4. b.pos # pos => Below(b.h.queue, k, m, b.pos, k[l])
  BY <1>3 DEF Rising
<1>5. b.pos # pos => Sealed(Placed(b.h, l, b.pos), g, k, n, m, S \cup {l})
  <2> HIDE DEF m
  <2> QED BY <1>1, <1>3, <1>4, HoleFilled DEF Rising
<1>6. b.pos = pos => b.h = g
  BY <1>1, <1>3 DEF Rising
<1> QED BY <1>1, <1>3, <1>5, <1>6, CellGone

(* What is left after an element has gone from the middle.                               *)
LEMMA ClosedSound ==
  ASSUME NEW n, NEW g, NEW h, NEW k, NEW pos, NEW S, NEW l, Gap(g, k, n, pos, S, l), Closed(h, g, k, n, S, l),
         \A f \in Element \ (S \cup {l}) : g.position[f] = -1
  PROVE  Sound(PopBack(h), k, n - 1) /\ In(PopBack(h)) = S \cup {l}
<1>1. n - 1 \in Nat /\ S \cup {l} \in SUBSET Element /\ \A f \in S \cup {l} : k[f] \in Int
  BY DEF Gap
<1> QED BY <1>1, SealedSound DEF Closed

(* erase_at.                                                                             *)
LEMMA EraseSound ==
  ASSUME NEW h, NEW k, NEW n, Sound(h, k, n), NEW e \in In(h), NEW w, w = erase_at(h, k, h.position[e])
  PROVE  Sound(w, k, n - 1) /\ In(w) = In(h) \ {e}
<1> DEFINE pos == h.position[e]
           l == h.queue[n - 1]
           g == Forgotten(h, e)
           S == In(h) \ {e, l}
           b == bubble_up(g, k, pos, k[l], 1)
<1>1. /\ n \in Nat /\ h \in Bodies(n) /\ pos \in Cells(n) /\ pos \in Nat /\ pos < n /\ h.queue[pos] = e /\ size(h) = n
      /\ e \in Element
  <2>1. n \in Nat /\ h \in Bodies(n) /\ h.queue[pos] = e
    BY DEF Sound
  <2>2. pos \in Cells(n) /\ e \in Element
    BY SoundIn
  <2>3. pos \in Nat /\ pos < n
    BY <2>1, <2>2 DEF Cells
  <2> QED BY <2>1, <2>2, <2>3, SoundCounted
<1>2. back(h) = l
  BY <1>1 DEF back
<1>3. w = CASE pos = n - 1 -> PopBack(g)
            [] pos < n - 1 /\ b.pos # pos -> PopBack(Placed(b.h, l, b.pos))
            [] OTHER -> PopBack(sift_down(g, k, n - 1, pos, 1))
  BY <1>1, <1>2 DEF erase_at
<1>4. CASE pos = n - 1
  <2>1. w = PopBack(g)
    <3>1. ~(pos < n - 1)
      BY <1>1, <1>4
    <3> HIDE DEF g, b, l, pos
    <3> QED BY <1>3, <1>4, <3>1
  <2>2. n > 0 /\ e = h.queue[n - 1]
    BY <1>1, <1>4
  <2> QED BY <2>1, <2>2, LastForgotten
<1>5. CASE pos # n - 1
  <2>1. /\ g.queue = h.queue /\ g \in Bodies(n) /\ g.position[e] = -1
        /\ \A f \in Element \ {e} : g.position[f] = h.position[f]
    <3>1. h.queue \in [Cells(n) -> Element] /\ h.position \in [Element -> Int]
          /\ h = [queue |-> h.queue, position |-> h.position]
      BY <1>1 DEF Bodies
    <3>2. g.queue = h.queue /\ g.position = [h.position EXCEPT ![e] = -1] /\ g = [queue |-> g.queue, position |-> g.position]
      BY <3>1 DEF Forgotten
    <3> HIDE DEF g
    <3>3. g.position \in [Element -> Int]
      BY <1>1, <3>1, <3>2
    <3> QED BY <1>1, <3>1, <3>2, <3>3 DEF Bodies
  <2>2. Gap(g, k, n, pos, S, l) /\ S \cup {l} = In(h) \ {e}
    <3>1. e = h.queue[pos] /\ S = In(h) \ {e, l}
      BY <1>1
    <3> HIDE DEF g, S, pos
    <3> QED BY <1>1, <1>5, <2>1, <3>1, GapLeft
  <2>3. \A f \in Element \ (S \cup {l}) : g.position[f] = -1
    <3> HIDE DEF g, S
    <3> QED BY <2>1, <2>2, SoundIn
  <2>4. pos > 0 => k[g.queue[0]] <= k[l]
    <3>1. \A i \in Cells(n) : k[h.queue[i]] \in Int
      BY DEF Sound
    <3>2. k[h.queue[0]] <= k[h.queue[n - 1]]
      <4>1. n - 1 \in Cells(n)
        BY <1>1 DEF Cells
      <4> QED BY <1>1, <3>1, <4>1, RootLeast DEF Sound
    <3> HIDE DEF g
    <3> QED BY <2>1, <3>2
  <2>5. /\ b.pos # pos => Closed(Placed(b.h, l, b.pos), g, k, n, S, l)
        /\ b.pos = pos => Above(g.queue, k, pos, k[l])
    <3> HIDE DEF g, S, pos, l, b
    <3> QED BY <2>2, <2>4, GapRisen DEF b
  <2>6. pos < n - 1
    BY <1>1, <1>5
  <2> HIDE DEF g, S, pos, l, b
  <2>7. CASE b.pos # pos
    <3>1. w = PopBack(Placed(b.h, l, b.pos))
      BY <1>3, <1>5, <2>6, <2>7
    <3> QED BY <2>2, <2>3, <2>5, <2>7, <3>1, ClosedSound
  <2>8. CASE b.pos = pos
    <3>1. w = PopBack(sift_down(g, k, n - 1, pos, 1))
      BY <1>3, <1>5, <2>8
    <3>2. Closed(sift_down(g, k, n - 1, pos, 1), g, k, n, S, l)
      BY <2>2, <2>5, <2>8, GapSunk
    <3> QED BY <2>2, <2>3, <3>1, <3>2, ClosedSound
  <2> QED BY <2>7, <2>8
<1> QED BY <1>4, <1>5

\* The element e, one with the least key, has left the heap h.
Popped(w, h, k, n, e) ==
  /\ Sound(w, k, n - 1) /\ In(w) = In(h) \ {e}
  /\ e \in In(h) /\ \A f \in In(h) : k[e] <= k[f]

(* pop: an element with the least key leaves.                                            *)
LEMMA PopSound ==
  ASSUME NEW h, NEW k, NEW n, Sound(h, k, n), n > 0, NEW e, e = h.queue[0], NEW w, w = pop(h, k)
  PROVE  Popped(w, h, k, n, e)
<1> DEFINE m == n - 1
           l == h.queue[m]
           S == In(h) \ {e, l}
           d == sift_down(h, k, m, 0, 1)
<1>1. n \in Nat /\ h \in Bodies(n) /\ 0 \in Cells(n) /\ size(h) = n /\ m \in Nat /\ m \in 0 .. n
  BY SoundCounted DEF Sound, Cells
<1>2. w = Forgotten(PopBack(d), e)
  BY <1>1 DEF pop
<1>3. e \in In(h) /\ \A f \in In(h) : k[e] <= k[f]
  <2>1. \A i \in Cells(n) : k[h.queue[i]] \in Int
    BY DEF Sound
  <2>2. \A i \in Cells(n) : k[h.queue[0]] <= k[h.queue[i]]
    BY <1>1, <2>1, RootLeast DEF Sound
  <2>3. \A f \in In(h) : h.position[f] \in Cells(n) /\ h.queue[h.position[f]] = f
    BY SoundIn DEF Sound
  <2> QED BY <1>1, <2>2, <2>3, SoundIn
<1>4. CASE n = 1
  <2>1. m = 0 /\ e = h.queue[n - 1]
    BY <1>4
  <2> DEFINE b == bubble_down(h, k, 0, k[e], 0)
  <2>2. b = [h |-> h, pos |-> 0]
    <3>1. Below(h.queue, k, 0, 0, k[e])
      BY DEF Below
    <3>2. 0 \in 0 .. n /\ k[e] \in Int /\ \A i \in Cells(n) : k[h.queue[i]] \in Int
      BY <1>1, <1>3, SoundIn DEF Cells
    <3>3. PICK pos : pos = 0
      OBVIOUS
    <3>4. PICK none : none = 0
      OBVIOUS
    <3>5. pos \in Cells(n) /\ none \in 0 .. n /\ Below(h.queue, k, none, pos, k[e])
          /\ \A i \in Cells(n) : k[h.queue[i]] \in Int
      BY <1>1, <3>1, <3>2, <3>3, <3>4
    <3>6. bubble_down(h, k, pos, k[e], none) = [h |-> h, pos |-> pos]
      <4>1. n \in Nat /\ h \in Bodies(n) /\ k[e] \in Int
        BY <1>1, <3>2
      <4> QED BY ONLY <3>5, <4>1, Stays
    <3> QED BY <3>3, <3>4, <3>6
  <2>3. d = h
    <3>1. d = LET c == bubble_down(h, k, 0, k[h.queue[0]], size(h) - 1)
              IN  IF c.pos # 0 THEN Placed(c.h, c.h.queue[0], c.pos) ELSE c.h
      BY <2>1 DEF sift_down
    <3>2. size(h) - 1 = 0
      BY <1>1, <1>4
    <3> HIDE DEF d
    <3> QED BY <2>2, <3>1, <3>2
  <2>4. w = Forgotten(PopBack(h), e)
    BY <1>2, <2>3
  <2>5. Sound(w, k, n - 1) /\ In(w) = In(h) \ {e}
    BY <1>3, <2>1, <2>4, LastForgotten
  <2> QED BY <1>3, <2>5 DEF Popped
<1>5. CASE n # 1
  <2>1. 0 # n - 1
    BY <1>5
  <2>2. Gap(h, k, n, 0, S, l) /\ S \cup {l} = In(h) \ {e}
    <3>0. PICK pos : pos = 0
      OBVIOUS
    <3>1. e = h.queue[pos] /\ S = In(h) \ {e, l} /\ l = h.queue[n - 1] /\ pos \in Cells(n) /\ pos # n - 1
      BY <1>1, <2>1, <3>0
    <3>2. PICK g : g = h
      OBVIOUS
    <3>3. g \in Bodies(n) /\ g.queue = h.queue /\ \A f \in Element \ {e} : g.position[f] = h.position[f]
      BY <1>1, <3>2
    <3>4. Gap(g, k, n, pos, S, l) /\ S \cup {l} = In(h) \ {e} /\ e # l /\ e \in In(h)
      <4> HIDE DEF S, l
      <4> QED BY <1>1, <3>1, <3>3, GapLeft
    <3> QED BY <3>0, <3>2, <3>4
  <2>3. Closed(d, h, k, n, S, l)
    <3>1. Above(h.queue, k, 0, k[l])
      BY DEF Above
    <3> HIDE DEF S, l, d
    <3> QED BY <2>2, <3>1, GapSunk DEF d
  <2> DEFINE r == PopBack(d)
             g == Forgotten(h, e)
  <2>4. Sealed(r, h, k, m, m, S \cup {l})
    BY <2>3 DEF Closed
  <2> HIDE DEF d, r, S, l, m
  <2>5. /\ e \in Element /\ r \in Bodies(m)
    BY <1>3, <2>4 DEF Sealed, In
  <2>6. w = Forgotten(r, e)
    BY <1>2 DEF r
  <2>7. /\ w.queue = r.queue /\ w \in Bodies(m) /\ w.position[e] = -1
        /\ \A f \in Element \ {e} : w.position[f] = r.position[f]
    <3>1. r.queue \in [Cells(m) -> Element] /\ r.position \in [Element -> Int]
          /\ r = [queue |-> r.queue, position |-> r.position]
      BY <2>5 DEF Bodies
    <3>2. w.queue = r.queue /\ w.position = [r.position EXCEPT ![e] = -1] /\ w = [queue |-> w.queue, position |-> w.position]
      BY <2>6, <3>1 DEF Forgotten
    <3>3. w.position \in [Element -> Int]
      BY <2>5, <3>1, <3>2
    <3> QED BY <2>5, <3>1, <3>2, <3>3 DEF Bodies
  <2>8. \A f \in Element : g.position[f] = IF f = e THEN -1 ELSE h.position[f]
    <3>1. h.queue \in [Cells(n) -> Element] /\ h.position \in [Element -> Int]
          /\ h = [queue |-> h.queue, position |-> h.position]
      BY <1>1 DEF Bodies
    <3>2. g.position = [h.position EXCEPT ![e] = -1]
      BY <3>1 DEF Forgotten
    <3> QED BY <3>1, <3>2
  <2>9. Sealed(w, g, k, m, m, S \cup {l})
    <3> HIDE DEF g
    <3>1. \A i \in Cells(m) : w.queue[i] \in S \cup {l} /\ w.position[w.queue[i]] = i
      <4>1. S \cup {l} \subseteq Element \ {e}
        BY <2>2 DEF Gap
      <4> QED BY <2>4, <2>7, <4>1 DEF Sealed
    <3>2. \A f \in S \cup {l} : w.position[f] \in Cells(m) /\ w.queue[w.position[f]] = f
      <4>1. S \cup {l} \subseteq Element \ {e}
        BY <2>2 DEF Gap
      <4> QED BY <2>4, <2>7, <4>1 DEF Sealed
    <3>3. \A f \in Element \ (S \cup {l}) : w.position[f] = g.position[f]
      BY <2>4, <2>7, <2>8 DEF Sealed
    <3> QED BY <2>4, <2>7, <3>1, <3>2, <3>3 DEF Sealed
  <2>10. \A f \in Element \ (S \cup {l}) : g.position[f] = -1
    <3> HIDE DEF g
    <3> QED BY <2>2, <2>8, SoundIn
  <2>11. S \cup {l} \in SUBSET Element /\ \A f \in S \cup {l} : k[f] \in Int
    BY <2>2 DEF Gap
  <2>12. Sound(w, k, m) /\ In(w) = S \cup {l}
    <3> HIDE DEF g
    <3> QED BY <1>1, <2>9, <2>10, <2>11, SealedSound
  <2>13. Sound(w, k, n - 1) /\ In(w) = In(h) \ {e}
    BY <2>2, <2>12 DEF m
  <2> QED BY <1>3, <2>13 DEF Popped
<1> QED BY <1>4, <1>5
-----------------------------------------------------------------------------
(* The labels of a search                                                  *)

Labels == DOMAIN label
Nodes == request.graph.nodes
Arcs == request.graph.arcs
Pred(l) == label[l].predecessor
NodeOf(l) == label[l].node
\* The labels that go on from l.
After(l) == {m \in Labels : Pred(m) = l}
\* Their nodes are settled.
Done == Labels \ Queued

SearchTyped ==
  /\ request.graph \in Graphs /\ request \in Requests(request.graph)
  /\ Labels \in SUBSET Element /\ IsFiniteSet(Labels)
  /\ label \in [Labels -> [node : Nodes, predecessor : Labels \cup {NoLabel}, refc : Int]]
  /\ key \in [Labels -> Nat]
  /\ labels_on_node \in [Nodes -> Labels \cup {NoLabel}]
  /\ Queued \subseteq Labels
  /\ result \in {NotStarted, NoResult, NoLabel} \cup Done

\* Each label is the label of its node.
OneEach ==
  /\ \A l \in Labels : labels_on_node[NodeOf(l)] = l
  /\ \A n \in Nodes : labels_on_node[n] # NoLabel => NodeOf(labels_on_node[n]) = n

Tallied == \A l \in Labels : label[l].refc = 1 + Cardinality(After(l))

\* Predecessors are settled, and lead out of every set of labels.
PredsDone == \A l \in Labels : Pred(l) # NoLabel => Pred(l) \in Done
NoCycle == \A T \in SUBSET Labels : T # {} => \E l \in T : Pred(l) \notin T

\* Following a label back.
Leads(a, l, m) == From(a) = NodeOf(m) /\ To(a) = NodeOf(l) /\ key[l] = key[m] + a[3]
Rooted ==
  \A l \in Labels : IF Pred(l) = NoLabel THEN NodeOf(l) = request.source /\ key[l] = 0
                    ELSE \E a \in Arcs : Leads(a, l, Pred(l))

\* Settled labels cost no more than the current one, which costs no more than the others.
InOrder ==
  /\ Done # {} => current \in Done
  /\ \A s \in Done : key[s] <= key[current] /\ \A l \in Queued : key[s] <= key[l]

\* The arc a has been followed from the label s.
Followed(a, s) ==
  LET n == To(a) IN labels_on_node[n] # NoLabel /\ key[labels_on_node[n]] <= key[s] + a[3]
Relaxed ==
  \A s \in Done, a \in Arcs :
    From(a) = NodeOf(s) /\ s # result /\ ~(s = current /\ a \in todo) => Followed(a, s)

Stage ==
  /\ result = NotStarted => Labels = {} /\ todo = {}
  /\ result # NotStarted => labels_on_node[request.source] # NoLabel /\ key[labels_on_node[request.source]] = 0
  /\ result = NoLabel => Queued = {} /\ todo = {}
  /\ result \in Labels => result = current /\ NodeOf(result) = request.target /\ todo = {}
  /\ todo # {} => current \in Done /\ todo \subseteq {a \in Arcs : From(a) = NodeOf(current)}
  /\ \A s \in Done : NodeOf(s) = request.target => s = result

SearchInv ==
  /\ SearchTyped /\ OneEach /\ Tallied /\ PredsDone /\ NoCycle /\ Rooted /\ InOrder /\ Relaxed /\ Stage

Inv ==
  /\ Sound(heap, key, size(heap)) /\ Queued \subseteq DOMAIN key
  /\ request.kind \in {"queue", "search"}
  /\ request.kind = "queue" => todo = {}
  /\ request.kind = "search" => SearchInv

(* The queue of the state.                                                               *)
LEMMA QueuedIn == Queued = In(heap) /\ Queued' = In(heap')
BY DEF Queued, In

(* A heap in the state, however many elements it has.                                    *)
LEMMA SoundSize ==
  ASSUME NEW h, NEW k, NEW n, Sound(h, k, n)
  PROVE  Sound(h, k, size(h))
BY SoundCounted

(* The invariant at the beginning.                                                       *)
LEMMA InvInit ==
  ASSUME DijkstraInit
  PROVE  Inv
<1>1. heap = [queue |-> [i \in {} |-> 0], position |-> [e \in Element |-> -1]] /\ key = [e \in {} |-> 0]
  BY DEF DijkstraInit, HeapInit
<1>2. Sound(heap, key, 0) /\ Queued = {}
  <2>1. Cells(0) = {} /\ ~(-1 >= 0)
    BY DEF Cells
  <2>2. heap.queue \in [Cells(0) -> Element] /\ heap.position \in [Element -> Int]
        /\ \A e \in Element : heap.position[e] = -1
    BY <1>1, <2>1
  <2>3. heap \in Bodies(0)
    BY <1>1, <2>2 DEF Bodies
  <2>4. In(heap) = {}
    BY <2>1, <2>2 DEF In
  <2>5. Ordered(heap.queue, key, 0)
    BY DEF Ordered
  <2>6. Sound(heap, key, 0)
    BY <2>1, <2>2, <2>3, <2>4, <2>5 DEF Sound
  <2> QED BY <2>4, <2>6, QueuedIn
<1>3. Sound(heap, key, size(heap))
  BY <1>2, SoundSize
<1>4. /\ \/ \E g \in Graphs : request \in Requests(g)
         \/ request = [kind |-> "queue", graph |-> [nodes |-> {}, arcs |-> {}]]
      /\ label = [l \in {} |-> NoLabel] /\ labels_on_node = [n \in Nodes |-> NoLabel]
      /\ current = NoLabel /\ todo = {} /\ result = NotStarted
  BY DEF DijkstraInit, Nodes
<1>5. request.kind = "search" => request.graph \in Graphs /\ request \in Requests(request.graph)
  BY <1>4 DEF Requests
<1>6. request.kind \in {"queue", "search"}
  BY <1>4 DEF Requests
<1>7. Labels = {} /\ IsFiniteSet(Labels) /\ Done = {}
  <2>1. Labels = {}
    BY <1>4 DEF Labels
  <2> QED BY <2>1, FS_EmptySet DEF Done
<1>8. ASSUME request.kind = "search" PROVE SearchInv
  <2>1. SearchTyped
    <3>1. label \in [Labels -> [node : Nodes, predecessor : Labels \cup {NoLabel}, refc : Int]]
      BY <1>4, <1>7
    <3>2. key \in [Labels -> Nat]
      BY <1>1, <1>7
    <3>3. labels_on_node \in [Nodes -> Labels \cup {NoLabel}]
      BY <1>4
    <3> QED BY <1>2, <1>4, <1>5, <1>7, <1>8, <3>1, <3>2, <3>3 DEF SearchTyped
  <2>2. OneEach /\ Tallied /\ PredsDone /\ NoCycle /\ Rooted
    BY <1>4, <1>7 DEF OneEach, Tallied, PredsDone, NoCycle, Rooted
  <2>3. InOrder /\ Relaxed
    BY <1>7 DEF InOrder, Relaxed
  <2>4. Stage
    BY <1>4, <1>7, LabelAssumption DEF Stage
  <2> QED BY <2>1, <2>2, <2>3, <2>4 DEF SearchInv
<1> QED BY <1>2, <1>3, <1>4, <1>6, <1>8 DEF Inv
-----------------------------------------------------------------------------
(* A client of the queue                                                   *)

(* Its steps keep the heap, when keys only become less.                                  *)
LEMMA ClientStep ==
  ASSUME Allowed = {}, Inv, HeapNext, request.kind = "queue", UNCHANGED searchVars
  PROVE  Inv'
<1> DEFINE n == size(heap)
<1>1. /\ Sound(heap, key, n) /\ Queued \subseteq DOMAIN key /\ Queued = In(heap) /\ Queued' = In(heap')
      /\ todo = {} /\ request' = request /\ todo' = todo
  BY QueuedIn DEF Inv, searchVars
<1>2. SUFFICES \E m : Sound(heap', key', m) /\ Queued' \subseteq DOMAIN key'
  BY <1>1, SoundSize DEF Inv
<1>3. n \in Nat /\ \A e \in Element : e \notin In(heap) <=> heap.position[e] < 0
  <2>1. n \in Nat /\ \A e \in Element : heap.position[e] \in Int
    BY <1>1 DEF Sound, Bodies
  <2> QED BY <2>1 DEF In
<1> HIDE DEF n
<1>4. ASSUME NEW e \in Element, NEW x \in Key, Push(e, x)
      PROVE  \E m : Sound(heap', key', m) /\ Queued' \subseteq DOMAIN key'
  <2>1. e \notin In(heap) /\ key' = With(key, e, x) /\ heap' = push(heap, key', e) /\ x \in Int
    BY <1>3, <1>4, ElementAssumption DEF Push
  <2>2. key'[e] = x /\ \A f \in In(heap) : key'[f] = key[f]
    BY <1>1, <2>1 DEF With
  <2>3. DOMAIN key' = DOMAIN key \cup {e}
    BY <2>1 DEF With
  <2>4. Sound(heap, key', n)
    BY <1>1, <2>2, OtherKeys
  <2>5. Sound(heap', key', n + 1) /\ In(heap') = In(heap) \cup {e}
    BY <2>1, <2>2, <2>4, PushSound
  <2> QED BY <1>1, <2>3, <2>5
<1>5. ASSUME NEW e \in Element, NEW x \in Key, PushAgain(e, x)
      PROVE  \E m : Sound(heap', key', m) /\ Queued' \subseteq DOMAIN key'
  <2>1. e \in In(heap) /\ x <= key[e] /\ key' = [key EXCEPT ![e] = x] /\ heap' = push(heap, key', e) /\ x \in Int
    <3>1. key' = [key EXCEPT ![e] = x] /\ heap' = push(heap, key', e) /\ ~(x > key[e]) /\ heap.position[e] >= 0
      BY <1>5 DEF PushAgain
    <3>2. e \in In(heap)
      BY <3>1 DEF In
    <3>3. key[e] \in Int /\ x \in Int
      BY <1>1, <3>2, SoundIn, ElementAssumption
    <3> QED BY <3>1, <3>2, <3>3
  <2>2. key'[e] = x /\ (\A f \in In(heap) \ {e} : key'[f] = key[f]) /\ DOMAIN key' = DOMAIN key
    BY <1>1, <2>1
  <2>3. Sound(heap', key', n) /\ In(heap') = In(heap)
    <3>1. PICK k : k = key'
      OBVIOUS
    <3>2. k[e] \in Int /\ k[e] <= key[e] /\ \A f \in In(heap) \ {e} : k[f] = key[f]
      BY <2>1, <2>2, <3>1
    <3>3. Sound(push(heap, k, e), k, n) /\ In(push(heap, k, e)) = In(heap)
      BY <1>1, <2>1, <3>2, PushAgainSound
    <3> QED BY <2>1, <3>1, <3>3
  <2> QED BY <1>1, <2>2, <2>3
<1>6. ASSUME NEW x \in Key, UpdateTop(x)
      PROVE  \E m : Sound(heap', key', m) /\ Queued' \subseteq DOMAIN key'
  <2>0. PICK e : e = heap.queue[0]
    OBVIOUS
  <2>1. key' = [key EXCEPT ![e] = x] /\ heap' = update_top(heap, key') /\ ~(x > key[e]) /\ n > 0
    BY <1>6, <2>0 DEF UpdateTop, n
  <2>2. e \in In(heap) /\ key[e] \in Int /\ x \in Int
    <3>1. 0 \in Cells(n)
      BY <1>3, <2>1 DEF Cells
    <3> QED BY <1>1, <2>0, <3>1, SoundIn, ElementAssumption
  <2>3. key'[e] = x /\ key'[e] <= key[e] /\ (\A f \in In(heap) \ {e} : key'[f] = key[f]) /\ DOMAIN key' = DOMAIN key
    BY <1>1, <2>1, <2>2
  <2>4. Sound(heap, key', n) /\ update_top(heap, key') = heap
    <3>1. PICK k : k = key'
      OBVIOUS
    <3>2. k[e] \in Int /\ k[e] <= key[e] /\ \A f \in In(heap) \ {e} : k[f] = key[f]
      BY <2>2, <2>3, <3>1
    <3>3. Sound(heap, k, n) /\ update_top(heap, k) = heap
      BY <1>1, <2>0, <2>1, <3>2, UpdateTopSound
    <3> QED BY <3>1, <3>3
  <2> QED BY <1>1, <2>1, <2>3, <2>4
<1>7. ASSUME Pop
      PROVE  \E m : Sound(heap', key', m) /\ Queued' \subseteq DOMAIN key'
  <2>0. PICK e : e = heap.queue[0]
    OBVIOUS
  <2>1. n > 0 /\ heap' = pop(heap, key) /\ key' = [f \in DOMAIN key \ {e} |-> key[f]]
    BY <1>7, <2>0 DEF Pop, n
  <2>2. Sound(heap', key, n - 1) /\ In(heap') = In(heap) \ {e}
    BY <1>1, <2>0, <2>1, PopSound DEF Popped
  <2>3. \A f \in In(heap') : key'[f] = key[f] /\ f \in DOMAIN key'
    BY <1>1, <2>1, <2>2
  <2>4. Sound(heap', key', n - 1)
    BY <2>2, <2>3, OtherKeys
  <2> QED BY <1>1, <2>3, <2>4
<1>8. ASSUME NEW e \in Element, Erase(e)
      PROVE  \E m : Sound(heap', key', m) /\ Queued' \subseteq DOMAIN key'
  <2>1. e \in In(heap) /\ heap' = erase_at(heap, key, heap.position[e]) /\ key' = [f \in DOMAIN key \ {e} |-> key[f]]
    BY <1>8 DEF Erase, In
  <2>2. Sound(heap', key, n - 1) /\ In(heap') = In(heap) \ {e}
    BY <1>1, <2>1, EraseSound
  <2>3. \A f \in In(heap') : key'[f] = key[f] /\ f \in DOMAIN key'
    BY <1>1, <2>1, <2>2
  <2>4. Sound(heap', key', n - 1)
    BY <2>2, <2>3, OtherKeys
  <2> QED BY <1>1, <2>3, <2>4
<1> QED BY <1>4, <1>5, <1>6, <1>7, <1>8 DEF HeapNext
-----------------------------------------------------------------------------
(* The search starts, takes labels from the queue and ends                 *)

(* There are no more labels than nodes.                                                  *)
LEMMA LabelsFew ==
  ASSUME SearchInv
  PROVE  /\ IsFiniteSet(Labels) /\ IsFiniteSet(Nodes) /\ Cardinality(Labels) <= Cardinality(Nodes)
         /\ Cardinality(Labels) \in Nat /\ Cardinality(Nodes) \in Nat
<1>1. /\ IsFiniteSet(Labels) /\ request.graph \in Graphs
      /\ \A l \in Labels : NodeOf(l) \in Nodes /\ labels_on_node[NodeOf(l)] = l
  BY DEF SearchInv, SearchTyped, OneEach, NodeOf
<1>2. IsFiniteSet(Nodes)
  BY <1>1, GraphAssumption DEF Nodes
<1> DEFINE f == [l \in Labels |-> NodeOf(l)]
<1>3. f \in Injection(Labels, Nodes)
  <2>1. f \in [Labels -> Nodes] /\ \A l, m \in Labels : f[l] = f[m] => l = m
    BY <1>1
  <2> HIDE DEF f
  <2> QED BY <2>1 DEF Injection, IsInjective
<1>4. Cardinality(Labels) <= Cardinality(Nodes)
  <2> HIDE DEF f
  <2> QED BY <1>2, <1>3, FS_Injection
<1> QED BY <1>1, <1>2, <1>4, FS_CardinalityType

(* There is memory for a new label.                                                      *)
LEMMA AllocatedFresh ==
  ASSUME SearchInv
  PROVE  Allocated \in Element \ Labels
<1> DEFINE Free == Element \ Labels
<1>1. /\ Labels \in SUBSET Element /\ (IsFiniteSet(Element) => Cardinality(Element) > Cardinality(Nodes))
  BY MemoryAssumption DEF SearchInv, SearchTyped, Nodes
<1>2. Free # {}
  <2> SUFFICES ASSUME Free = {} PROVE FALSE
    OBVIOUS
  <2>1. Element = Labels
    BY <1>1
  <2> QED BY <1>1, <2>1, LabelsFew
<1>3. Free \subseteq Nat
  BY ElementAssumption
<1>4. PICK l \in Free : \A m \in Free : ~(<<m, l>> \in OpToRel(<, Nat))
  <2> HIDE DEF Free
  <2> QED BY <1>2, <1>3, NatLessThanWellFounded, WFMin
<1>5. \A m \in Free : l <= m
  <2> SUFFICES ASSUME NEW m \in Free PROVE l <= m
    OBVIOUS
  <2>1. l \in Nat /\ m \in Nat
    BY <1>3
  <2>2. ~(m < l)
    BY <1>4, <2>1 DEF OpToRel
  <2> QED BY <2>1, <2>2
<1> QED BY <1>5 DEF Allocated, Labels

(* An element that is not in the queue has no place.                                     *)
LEMMA Unplaced ==
  ASSUME NEW h, NEW k, NEW n, Sound(h, k, n), NEW e \in Element, e \notin In(h)
  PROVE  [h EXCEPT !.position[e] = -1] = h
<1>1. h.position[e] = -1
  BY SoundIn
<1>2. h = [queue |-> h.queue, position |-> h.position] /\ h.position \in [Element -> Int]
  BY DEF Sound, Bodies
<1>3. [h.position EXCEPT ![e] = -1] = h.position
  BY <1>1, <1>2
<1> QED BY <1>2, <1>3

(* solve() puts the first label into the queue.                                          *)
LEMMA StartStep ==
  ASSUME Allowed = {}, Inv, start_search
  PROVE  Inv'
<1>1. SearchInv /\ request.kind = "search" /\ Sound(heap, key, size(heap))
  BY DEF Inv, start_search
<1>2. result = NotStarted
  BY DEF start_search, Ready
<1>3. Labels = {} /\ todo = {} /\ Queued = {} /\ In(heap) = {} /\ Done = {}
  BY <1>1, <1>2, QueuedIn DEF SearchInv, Stage, SearchTyped, Done
<1>4. PICK l : l = Allocated
  OBVIOUS
<1>5. /\ request' = request /\ label' = With(label, l, [node |-> request.source, predecessor |-> NoLabel, refc |-> 1])
      /\ key' = With(key, l, 0) /\ labels_on_node' = [labels_on_node EXCEPT ![request.source] = l]
      /\ heap' = push([heap EXCEPT !.position[l] = -1], key', l)
      /\ result' = NoResult /\ current' = current /\ todo' = todo
  BY <1>2, <1>4 DEF start_search
<1>6. l \in Element /\ l # NoLabel
  BY <1>1, <1>4, AllocatedFresh, LabelAssumption
<1>7. DOMAIN label = {} /\ DOMAIN key = {} /\ \A n \in Nodes : labels_on_node[n] = NoLabel
  BY <1>1, <1>3 DEF SearchInv, SearchTyped, Labels
<1>8. /\ Labels' = {l} /\ label' = [m \in {l} |-> [node |-> request.source, predecessor |-> NoLabel, refc |-> 1]]
      /\ key' = [m \in {l} |-> 0] /\ key'[l] = 0 /\ label'[l] = [node |-> request.source, predecessor |-> NoLabel, refc |-> 1]
  BY <1>5, <1>7 DEF With, Labels
<1>9. \E m : Sound(heap', key', m) /\ In(heap') = {l}
  <2>1. [heap EXCEPT !.position[l] = -1] = heap
    BY <1>1, <1>3, <1>6, Unplaced
  <2>2. PICK k : k = key'
    OBVIOUS
  <2>3. Sound(heap, k, size(heap))
    BY <1>1, <1>3, OtherKeys
  <2>4. Sound(push(heap, k, l), k, size(heap) + 1) /\ In(push(heap, k, l)) = In(heap) \cup {l}
    BY <1>3, <1>6, <1>8, <2>2, <2>3, PushSound
  <2> QED BY <1>3, <1>5, <2>1, <2>2, <2>4
<1>10. Sound(heap', key', size(heap')) /\ Queued' = {l} /\ Done' = {}
  BY <1>8, <1>9, SoundSize, QueuedIn DEF Done
<1>11. Nodes' = Nodes /\ Arcs' = Arcs /\ request.source \in Nodes
  BY <1>1, <1>5 DEF Nodes, Arcs, SearchInv, SearchTyped, Requests
<1>12. \A n \in Nodes : labels_on_node'[n] = IF n = request.source THEN l ELSE NoLabel
  BY <1>1, <1>5, <1>7 DEF SearchInv, SearchTyped
<1>13. SearchTyped'
  <2>1. label' \in [{l} -> [node : Nodes, predecessor : {l} \cup {NoLabel}, refc : Int]]
    BY <1>8, <1>11
  <2>2. labels_on_node' \in [Nodes -> {l} \cup {NoLabel}]
    <3>1. DOMAIN labels_on_node = Nodes
      BY <1>1 DEF SearchInv, SearchTyped
    <3> QED BY <1>5, <1>12, <3>1
  <2>3. IsFiniteSet({l})
    BY FS_Singleton
  <2> QED BY <1>1, <1>5, <1>6, <1>8, <1>10, <1>11, <2>1, <2>2, <2>3 DEF SearchInv, SearchTyped
<1>14. NodeOf(l)' = request.source /\ Pred(l)' = NoLabel /\ label'[l].refc = 1
  BY <1>8 DEF NodeOf, Pred
<1>15. OneEach' /\ PredsDone' /\ NoCycle' /\ Rooted'
  <2>1. OneEach'
    BY <1>6, <1>8, <1>11, <1>12, <1>14 DEF OneEach
  <2>2. PredsDone' /\ Rooted'
    BY <1>5, <1>8, <1>14 DEF PredsDone, Rooted
  <2>3. NoCycle'
    BY <1>6, <1>8, <1>14 DEF NoCycle
  <2> QED BY <2>1, <2>2, <2>3
<1>16. Tallied'
  <2>1. After(l)' = {}
    BY <1>6, <1>8, <1>14 DEF After
  <2> QED BY <1>8, <1>14, <2>1, FS_EmptySet DEF Tallied
<1>17. InOrder' /\ Relaxed'
  BY <1>10 DEF InOrder, Relaxed
<1>18. Stage'
  BY <1>3, <1>5, <1>6, <1>8, <1>10, <1>11, <1>12, LabelAssumption DEF Stage
<1>19. SearchInv'
  BY <1>13, <1>15, <1>16, <1>17, <1>18 DEF SearchInv
<1>20. (Queued \subseteq DOMAIN key)'
  BY <1>8, <1>10
<1> QED BY <1>1, <1>5, <1>10, <1>19, <1>20 DEF Inv

(* A label with the least cost is settled; its arcs are to be followed, unless it is on  *)
(* the target.                                                                           *)
LEMMA PopLabelStep ==
  ASSUME Inv, PopLabel
  PROVE  Inv'
<1>1. SearchInv /\ request.kind = "search" /\ Sound(heap, key, size(heap)) /\ todo = {} /\ size(heap) > 0
      /\ result = NoResult /\ key' = key /\ request' = request /\ label' = label /\ labels_on_node' = labels_on_node
  BY DEF Inv, PopLabel
<1>2. PICK c : c = heap.queue[0]
  OBVIOUS
<1>3. /\ heap' = pop(heap, key) /\ current' = c
      /\ IF label[c].node = request.target THEN result' = c /\ todo' = {}
         ELSE todo' = {a \in Arcs : From(a) = label[c].node} /\ result' = NoResult
  BY <1>1, <1>2 DEF PopLabel, Arcs
<1>4. PICK h : h = heap'
  OBVIOUS
<1>5. /\ Sound(h, key, size(heap) - 1) /\ In(h) = In(heap) \ {c}
      /\ c \in In(heap) /\ \A f \in In(heap) : key[c] <= key[f]
  <2>1. PICK n, k, g : n = size(heap) /\ k = key /\ g = heap
    OBVIOUS
  <2>2. Sound(g, k, n) /\ n > 0 /\ h = pop(g, k) /\ c = g.queue[0]
    BY <1>1, <1>2, <1>3, <1>4, <2>1
  <2>3. Popped(h, g, k, n, c)
    BY <2>2, PopSound
  <2> QED BY <2>1, <2>3 DEF Popped
<1>6. /\ Sound(heap', key', size(heap')) /\ Queued' = Queued \ {c} /\ c \in Queued
      /\ \A l \in Queued : key[c] <= key[l]
  BY <1>1, <1>4, <1>5, SoundSize, QueuedIn
<1>7. Labels' = Labels /\ Nodes' = Nodes /\ Arcs' = Arcs /\ Done' = Done \cup {c} /\ c \in Labels /\ c \notin Done
  BY <1>1, <1>6 DEF Labels, Nodes, Arcs, Done, SearchInv, SearchTyped
<1>8. /\ \A l : NodeOf(l)' = NodeOf(l) /\ Pred(l)' = Pred(l)
      /\ \A a : From(a)' = From(a) /\ To(a)' = To(a)
  BY <1>1 DEF NodeOf, Pred, From, To
<1>9. c \in Element /\ c # NoResult /\ c # NotStarted /\ c # NoLabel /\ NoResult \notin Labels
  BY <1>1, <1>7, LabelAssumption DEF SearchInv, SearchTyped
<1>10. result' \in {NoResult, c}
  BY <1>3
<1>11. SearchTyped'
  BY <1>1, <1>6, <1>7, <1>10 DEF SearchInv, SearchTyped
<1>12. OneEach' /\ PredsDone' /\ NoCycle'
  <2>1. OneEach'
    BY <1>1, <1>7, <1>8 DEF SearchInv, OneEach
  <2>2. PredsDone'
    BY <1>1, <1>7, <1>8 DEF SearchInv, PredsDone
  <2>3. NoCycle'
    BY <1>1, <1>7, <1>8 DEF SearchInv, NoCycle
  <2> QED BY <2>1, <2>2, <2>3
<1>13. Tallied'
  <2>1. \A l : After(l)' = After(l)
    BY <1>7, <1>8 DEF After
  <2> QED BY <1>1, <1>7, <2>1 DEF SearchInv, Tallied
<1>14. Rooted'
  BY <1>1, <1>7, <1>8 DEF SearchInv, Rooted, Leads
<1>15. InOrder'
  <2>1. \A l \in Labels : key[l] \in Int
    BY <1>1 DEF SearchInv, SearchTyped
  <2>2. \A s \in Done : key[s] <= key[c]
    BY <1>1, <1>6 DEF SearchInv, InOrder
  <2> QED BY <1>1, <1>3, <1>6, <1>7, <2>1, <2>2 DEF InOrder, SearchInv
<1>16. Relaxed'
  <2> SUFFICES ASSUME NEW s \in Done', NEW a \in Arcs, From(a) = NodeOf(s), s # result', ~(s = current' /\ a \in todo')
               PROVE  Followed(a, s)'
    BY <1>7, <1>8 DEF Relaxed
  <2>1. Followed(a, s)' = Followed(a, s)
    BY <1>1, <1>8 DEF Followed
  <2>2. s # c
    BY <1>3 DEF NodeOf
  <2>3. s \in Done /\ s # result
    BY <1>1, <1>7, <1>9, <2>2 DEF Done
  <2> QED BY <1>1, <2>1, <2>3 DEF SearchInv, Relaxed
<1>17. Stage'
  <2>1. (result = NotStarted => Labels = {} /\ todo = {})'
    BY <1>9, <1>10, LabelAssumption
  <2>2. (result # NotStarted => labels_on_node[request.source] # NoLabel /\ key[labels_on_node[request.source]] = 0)'
    BY <1>1, LabelAssumption DEF SearchInv, Stage
  <2>3. (result = NoLabel => Queued = {} /\ todo = {})'
    BY <1>9, <1>10, LabelAssumption
  <2>4. (result \in Labels => result = current /\ NodeOf(result) = request.target /\ todo = {})'
    BY <1>1, <1>3, <1>7, <1>9 DEF NodeOf
  <2>5. (todo # {} => current \in Done /\ todo \subseteq {a \in Arcs : From(a) = NodeOf(current)})'
    BY <1>1, <1>3, <1>7, <1>8 DEF NodeOf
  <2>6. (\A s \in Done : NodeOf(s) = request.target => s = result)'
    <3> SUFFICES ASSUME NEW s \in Done', NodeOf(s) = request.target PROVE s = result'
      BY <1>1, <1>8
    <3>1. CASE s = c
      BY <1>3, <3>1 DEF NodeOf
    <3>2. CASE s # c
      <4>1. s \in Done /\ s \in Labels
        BY <1>7, <3>2 DEF Done
      <4>2. s = result
        BY <1>1, <4>1 DEF SearchInv, Stage
      <4> QED BY <1>1, <1>9, <4>1, <4>2
    <3> QED BY <3>1, <3>2
  <2> QED BY <2>1, <2>2, <2>3, <2>4, <2>5, <2>6 DEF Stage
<1>18. SearchInv'
  BY <1>11, <1>12, <1>13, <1>14, <1>15, <1>16, <1>17 DEF SearchInv
<1>19. (Queued \subseteq DOMAIN key)'
  BY <1>1, <1>6 DEF Inv
<1> QED BY <1>1, <1>6, <1>18, <1>19 DEF Inv

(* The queue has run out.                                                                *)
LEMMA NoMoreStep ==
  ASSUME Inv, NoMoreLabels
  PROVE  Inv'
<1>1. SearchInv /\ request.kind = "search" /\ Sound(heap, key, size(heap)) /\ todo = {} /\ size(heap) = 0
      /\ result = NoResult /\ key' = key /\ request' = request /\ label' = label /\ labels_on_node' = labels_on_node
      /\ heap' = heap /\ current' = current /\ todo' = todo /\ result' = NoLabel
  BY DEF Inv, NoMoreLabels, heapVars
<1>2. Queued = {}
  <2>1. IsFiniteSet(In(heap)) /\ Cardinality(In(heap)) = 0
    BY <1>1, SoundCounted
  <2> QED BY <2>1, FS_EmptySet, QueuedIn
<1>3. Labels' = Labels /\ Nodes' = Nodes /\ Arcs' = Arcs /\ Queued' = Queued /\ Done' = Done
  BY <1>1 DEF Labels, Nodes, Arcs, Done, Queued
<1>4. /\ \A l : NodeOf(l)' = NodeOf(l) /\ Pred(l)' = Pred(l) /\ After(l)' = After(l)
      /\ \A a : From(a)' = From(a) /\ To(a)' = To(a)
  BY <1>1 DEF NodeOf, Pred, From, To, After, Labels
<1>5. \A s \in Labels : s # NoLabel /\ s # NoResult
  BY <1>1, LabelAssumption DEF SearchInv, SearchTyped
<1>6. SearchTyped' /\ OneEach' /\ Tallied' /\ PredsDone' /\ NoCycle'
  BY <1>1, <1>3, <1>4 DEF SearchInv, SearchTyped, OneEach, Tallied, PredsDone, NoCycle
<1>7. Rooted' /\ InOrder'
  BY <1>1, <1>3, <1>4 DEF SearchInv, Rooted, Leads, InOrder
<1>8. Relaxed'
  <2>1. \A a, s : Followed(a, s)' = Followed(a, s)
    BY <1>1, <1>4 DEF Followed
  <2>2. Done \subseteq Labels
    BY DEF Done
  <2> QED BY <1>1, <1>3, <1>4, <1>5, <2>1, <2>2 DEF SearchInv, Relaxed
<1>9. Stage'
  <2>1. Done \subseteq Labels
    BY DEF Done
  <2> QED BY <1>1, <1>2, <1>3, <1>4, <1>5, <2>1, LabelAssumption DEF SearchInv, Stage
<1>10. (Queued \subseteq DOMAIN key)' /\ (Sound(heap, key, size(heap)))'
  BY <1>1, <1>2, <1>3
<1> QED BY <1>1, <1>6, <1>7, <1>8, <1>9, <1>10 DEF Inv, SearchInv
-----------------------------------------------------------------------------
(* The search follows an arc                                               *)

\* A new label on the node the arc a leads to takes the place of the labels of X, at most one.
Grown(a, X, new) ==
  LET n == To(a)
      cost == key[current] + a[3]
  IN  /\ X = {l \in Labels : labels_on_node[n] = l} /\ X \subseteq Queued
      /\ \A l \in X : cost < key[l]
      /\ new \in Element \ Labels
      /\ Labels' = (Labels \ X) \cup {new}
      /\ label' = [m \in Labels' |->
                     IF m = new THEN [node |-> n, predecessor |-> current, refc |-> 1]
                     ELSE [node |-> NodeOf(m), predecessor |-> Pred(m),
                           refc |-> (label[m].refc - (IF \E l \in X : Pred(l) = m THEN 1 ELSE 0))
                                      + (IF m = current THEN 1 ELSE 0)]]
      /\ key' = [m \in Labels' |-> IF m = new THEN cost ELSE key[m]]
      /\ labels_on_node' = [labels_on_node EXCEPT ![n] = new]
      /\ Queued' = (Queued \ X) \cup {new}
      /\ todo' = todo \ {a}
      /\ request' = request /\ current' = current /\ result' = result

(* What is known of an arc that is still to be followed.                                 *)
LEMMA ArcKnown ==
  ASSUME SearchInv, NEW a \in todo
  PROVE  /\ a \in Arcs /\ From(a) = NodeOf(current) /\ To(a) \in Nodes /\ a[3] \in Nat
         /\ current \in Done /\ current \in Labels /\ current \in Element /\ key[current] \in Nat
         /\ result = NoResult
<1>1. current \in Done /\ a \in Arcs /\ From(a) = NodeOf(current)
  BY DEF SearchInv, Stage
<1>2. current \in Labels /\ current \in Element /\ key[current] \in Nat
  BY <1>1 DEF Done, SearchInv, SearchTyped
<1>3. request.graph \in Graphs /\ Arcs \subseteq Nodes \X Nodes \X Nat
  BY GraphAssumption DEF SearchInv, SearchTyped, Arcs, Nodes
<1>4. a[1] \in Nodes /\ a[2] \in Nodes /\ a[3] \in Nat
  BY <1>1, <1>3
<1>5. result = NoResult
  BY DEF SearchInv, Stage, SearchTyped, Done
<1> QED BY <1>1, <1>2, <1>4, <1>5 DEF To

(* The labels with the new one.                                                          *)
LEMMA GrownLabels ==
  ASSUME SearchInv, NEW a \in todo, NEW X, NEW new, Grown(a, X, new)
  PROVE  /\ new \in Element /\ new \notin Labels /\ new \in Labels' /\ new # NoLabel
         /\ Labels' = (Labels \ X) \cup {new} /\ Done' = Done /\ Done \subseteq Labels \ X
         /\ Nodes' = Nodes /\ Arcs' = Arcs
         /\ \A b : From(b)' = From(b) /\ To(b)' = To(b)
         /\ NodeOf(new)' = To(a) /\ Pred(new)' = current /\ key'[new] = key[current] + a[3]
         /\ \A m \in Labels \ X : NodeOf(m)' = NodeOf(m) /\ Pred(m)' = Pred(m) /\ key'[m] = key[m] /\ m # new
         /\ \A n \in Nodes : labels_on_node'[n] = IF n = To(a) THEN new ELSE labels_on_node[n]
<1>1. /\ new \in Element \ Labels /\ Labels' = (Labels \ X) \cup {new} /\ X \subseteq Queued
      /\ Queued' = (Queued \ X) \cup {new} /\ request' = request
      /\ labels_on_node' = [labels_on_node EXCEPT ![To(a)] = new]
      /\ key' = [m \in Labels' |-> IF m = new THEN key[current] + a[3] ELSE key[m]]
  BY DEF Grown
<1>2. Done' = Done /\ Done \subseteq Labels \ X
  BY <1>1 DEF Done
<1>3. Nodes' = Nodes /\ Arcs' = Arcs /\ \A b : From(b)' = From(b) /\ To(b)' = To(b)
  BY <1>1 DEF Nodes, Arcs, From, To
<1>4. /\ label'[new].node = To(a) /\ label'[new].predecessor = current
      /\ \A m \in Labels \ X : label'[m].node = NodeOf(m) /\ label'[m].predecessor = Pred(m)
  BY <1>1 DEF Grown
<1>5. /\ NodeOf(new)' = To(a) /\ Pred(new)' = current
      /\ \A m \in Labels \ X : NodeOf(m)' = NodeOf(m) /\ Pred(m)' = Pred(m) /\ key'[m] = key[m] /\ m # new
  BY <1>1, <1>4 DEF NodeOf, Pred
<1>6. \A n \in Nodes : labels_on_node'[n] = IF n = To(a) THEN new ELSE labels_on_node[n]
  BY <1>1 DEF SearchInv, SearchTyped
<1> QED BY <1>1, <1>2, <1>3, <1>5, <1>6, LabelAssumption

(* Types, labels of nodes and predecessors with the new label.                           *)
LEMMA GrownTree ==
  ASSUME SearchInv, NEW a \in todo, NEW X, NEW new, Grown(a, X, new)
  PROVE  SearchTyped' /\ OneEach' /\ PredsDone' /\ NoCycle' /\ Rooted'
<1> DEFINE n == To(a)
           cost == key[current] + a[3]
<1>1. /\ new \in Element /\ new \notin Labels /\ new \in Labels' /\ new # NoLabel
      /\ Labels' = (Labels \ X) \cup {new} /\ Done' = Done /\ Done \subseteq Labels \ X
      /\ Nodes' = Nodes /\ Arcs' = Arcs
      /\ \A b : From(b)' = From(b) /\ To(b)' = To(b)
      /\ NodeOf(new)' = n /\ Pred(new)' = current /\ key'[new] = cost
      /\ \A m \in Labels \ X : NodeOf(m)' = NodeOf(m) /\ Pred(m)' = Pred(m) /\ key'[m] = key[m] /\ m # new
      /\ \A i \in Nodes : labels_on_node'[i] = IF i = n THEN new ELSE labels_on_node[i]
  BY GrownLabels
<1>2. /\ a \in Arcs /\ From(a) = NodeOf(current) /\ n \in Nodes /\ a[3] \in Nat
      /\ current \in Done /\ current \in Labels /\ current \in Element /\ key[current] \in Nat
      /\ result = NoResult
  BY ArcKnown
<1>3. cost \in Nat
  BY <1>2
<1>4. /\ X = {l \in Labels : labels_on_node[n] = l} /\ X \subseteq Queued
      /\ label' = [m \in Labels' |->
                     IF m = new THEN [node |-> n, predecessor |-> current, refc |-> 1]
                     ELSE [node |-> NodeOf(m), predecessor |-> Pred(m),
                           refc |-> (label[m].refc - (IF \E l \in X : Pred(l) = m THEN 1 ELSE 0))
                                      + (IF m = current THEN 1 ELSE 0)]]
      /\ key' = [m \in Labels' |-> IF m = new THEN cost ELSE key[m]]
      /\ labels_on_node' = [labels_on_node EXCEPT ![n] = new]
      /\ Queued' = (Queued \ X) \cup {new}
      /\ request' = request /\ current' = current /\ result' = result
  BY DEF Grown
<1>5. \A m \in Labels : /\ label[m].refc \in Int /\ NodeOf(m) \in Nodes /\ Pred(m) \in Done \cup {NoLabel}
                        /\ key[m] \in Nat /\ labels_on_node[NodeOf(m)] = m
  BY DEF SearchInv, SearchTyped, OneEach, PredsDone, NodeOf, Pred
<1>6. \A i \in Nodes : labels_on_node[i] # NoLabel => labels_on_node[i] \in Labels /\ NodeOf(labels_on_node[i]) = i
  BY DEF SearchInv, SearchTyped, OneEach
<1> HIDE DEF n, cost
<1>7. SearchTyped'
  <2>1. label' \in [Labels' -> [node : Nodes, predecessor : Labels' \cup {NoLabel}, refc : Int]]
    <3> DEFINE R == [node : Nodes, predecessor : Labels' \cup {NoLabel}, refc : Int]
               lab(m) == IF m = new THEN [node |-> n, predecessor |-> current, refc |-> 1]
                         ELSE [node |-> NodeOf(m), predecessor |-> Pred(m),
                               refc |-> (label[m].refc - (IF \E l \in X : Pred(l) = m THEN 1 ELSE 0))
                                          + (IF m = current THEN 1 ELSE 0)]
    <3>1. current \in Labels' /\ Done \subseteq Labels'
      BY <1>1, <1>2
    <3>2. lab(new) \in R
      BY <1>2, <3>1
    <3>3. \A m \in Labels \ X : lab(m) \in R
      <4> SUFFICES ASSUME NEW m \in Labels \ X PROVE lab(m) \in R
        OBVIOUS
      <4>1. lab(m) = [node |-> NodeOf(m), predecessor |-> Pred(m),
                      refc |-> (label[m].refc - (IF \E l \in X : Pred(l) = m THEN 1 ELSE 0))
                                 + (IF m = current THEN 1 ELSE 0)]
        BY <1>1
      <4>2. (label[m].refc - (IF \E l \in X : Pred(l) = m THEN 1 ELSE 0)) + (IF m = current THEN 1 ELSE 0) \in Int
        BY <1>5
      <4> HIDE DEF lab
      <4> QED BY <1>5, <3>1, <4>1, <4>2
    <3>4. \A m \in Labels' : lab(m) \in R
      <4> HIDE DEF lab, R
      <4> QED BY <1>1, <3>2, <3>3
    <3>5. label' = [m \in Labels' |-> lab(m)]
      BY <1>4
    <3> HIDE DEF lab, R
    <3>6. label' \in [Labels' -> R]
      BY <3>4, <3>5
    <3> QED BY <3>6 DEF R
  <2>2. key' \in [Labels' -> Nat]
    BY <1>1, <1>3, <1>4, <1>5
  <2>3. labels_on_node' \in [Nodes -> Labels' \cup {NoLabel}]
    <3>1. DOMAIN labels_on_node = Nodes
      BY DEF SearchInv, SearchTyped
    <3>2. \A i \in Nodes : labels_on_node'[i] \in Labels' \cup {NoLabel}
      <4> SUFFICES ASSUME NEW i \in Nodes, i # n, labels_on_node[i] # NoLabel
                   PROVE  labels_on_node'[i] \in Labels'
        BY <1>1
      <4>1. labels_on_node[i] \in Labels /\ NodeOf(labels_on_node[i]) = i
        BY <1>6
      <4>2. \A m \in X : NodeOf(m) = n
        BY <1>2, <1>4, <1>6, LabelAssumption DEF SearchInv, SearchTyped
      <4> QED BY <1>1, <4>1, <4>2
    <3> QED BY <1>4, <3>1, <3>2
  <2>4. Labels' \in SUBSET Element /\ IsFiniteSet(Labels') /\ Queued' \subseteq Labels'
    <3>1. Labels \in SUBSET Element /\ IsFiniteSet(Labels) /\ Queued \subseteq Labels
      BY DEF SearchInv, SearchTyped
    <3>2. IsFiniteSet(Labels \ X)
      BY <3>1, FS_Subset
    <3>3. IsFiniteSet((Labels \ X) \cup {new})
      BY <3>2, FS_AddElement
    <3> QED BY <1>1, <1>4, <3>1, <3>3
  <2>5. (request.graph \in Graphs /\ request \in Requests(request.graph))'
    <3>1. request.graph \in Graphs /\ request \in Requests(request.graph)
      BY DEF SearchInv, SearchTyped
    <3>2. Requests(request.graph)' = Requests(request.graph)
      BY <1>4 DEF Requests
    <3> QED BY <1>4, <3>1, <3>2
  <2> QED BY <1>1, <1>2, <1>4, <2>1, <2>2, <2>3, <2>4, <2>5 DEF SearchTyped
<1>8. OneEach'
  <2>1. \A m \in Labels \ X : labels_on_node'[NodeOf(m)] = m
    BY <1>1, <1>4, <1>5
  <2>2. \A l \in Labels' : labels_on_node'[NodeOf(l)'] = l
    BY <1>1, <1>2, <2>1
  <2>3. ASSUME NEW i \in Nodes, labels_on_node'[i] # NoLabel
        PROVE  NodeOf(labels_on_node[i])' = i
    <3>1. CASE i = n
      <4>1. labels_on_node'[i] = new
        BY <1>1, <3>1
      <4> QED BY <1>1, <3>1, <4>1 DEF NodeOf
    <3>2. CASE i # n
      <4>1. PICK m : m = labels_on_node[i]
        OBVIOUS
      <4>2. m \in Labels /\ NodeOf(m) = i /\ labels_on_node'[i] = m
        BY <1>1, <1>6, <2>3, <3>2, <4>1
      <4>3. m \notin X
        <5>1. n \in Nodes /\ (m \in X => labels_on_node[n] = m)
          BY <1>2, <1>4
        <5>2. m # NoLabel
          BY <2>3, <4>2
        <5> QED BY <1>6, <3>2, <4>2, <5>1, <5>2
      <4>4. NodeOf(m)' = i
        BY <1>1, <4>2, <4>3
      <4> QED BY <4>2, <4>4 DEF NodeOf
    <3> QED BY <3>1, <3>2
  <2> QED BY <1>1, <2>2, <2>3 DEF OneEach
<1>9. PredsDone'
  BY <1>1, <1>2, <1>5 DEF PredsDone
<1>10. NoCycle'
  <2> SUFFICES ASSUME NEW T \in SUBSET Labels', T # {} PROVE \E l \in T : Pred(l)' \notin T
    BY DEF NoCycle
  <2> DEFINE U == T \ {new}
  <2>1. CASE U = {}
    <3>1. T = {new}
      BY <2>1
    <3> QED BY <1>1, <1>2, <3>1
  <2>2. CASE U # {}
    <3>1. U \in SUBSET Labels /\ U \subseteq Labels \ X
      BY <1>1
    <3>2. PICK l \in U : Pred(l) \notin U
      BY <2>2, <3>1 DEF SearchInv, NoCycle
    <3>3. Pred(l)' = Pred(l) /\ Pred(l) # new
      BY <1>1, <1>5, <3>1
    <3> QED BY <3>2, <3>3
  <2> QED BY <2>1, <2>2
<1>11. Rooted'
  <2> SUFFICES ASSUME NEW l \in Labels'
               PROVE  IF Pred(l)' = NoLabel THEN NodeOf(l)' = request.source /\ key'[l] = 0
                      ELSE \E b \in Arcs : Leads(b, l, Pred(l))'
    BY <1>1, <1>4 DEF Rooted
  <2>1. CASE l = new
    <3>1. Pred(l)' = current /\ current # NoLabel
      BY <1>1, <1>2, <2>1, LabelAssumption
    <3>2. NodeOf(current)' = NodeOf(current) /\ key'[current] = key[current]
      <4>1. PICK c : c = current
        OBVIOUS
      <4>2. NodeOf(c)' = NodeOf(c) /\ key'[c] = key[c]
        BY <1>1, <1>2, <4>1
      <4>3. NodeOf(current)' = NodeOf(c)'
        BY <1>4, <4>1 DEF NodeOf
      <4> QED BY <4>1, <4>2, <4>3
    <3>3. From(a)' = NodeOf(current)' /\ To(a)' = NodeOf(l)' /\ key'[l] = key'[current] + a[3]
      BY <1>1, <1>2, <2>1, <3>2 DEF n, cost
    <3>4. label'[l].predecessor = current
      BY <3>1 DEF Pred
    <3>5. NodeOf(Pred(l))' = NodeOf(current)'
      BY <1>4, <3>4 DEF NodeOf, Pred
    <3>6. key'[Pred(l)'] = key'[current]
      BY <3>1
    <3>7. Leads(a, l, Pred(l))'
      BY <3>3, <3>5, <3>6 DEF Leads
    <3> QED BY <1>2, <3>1, <3>7
  <2>2. CASE l # new
    <3>1. l \in Labels \ X
      BY <1>1, <2>2
    <3>2. Pred(l)' = Pred(l) /\ NodeOf(l)' = NodeOf(l) /\ key'[l] = key[l]
      BY <1>1, <3>1
    <3>3. CASE Pred(l) = NoLabel
      BY <3>1, <3>2, <3>3 DEF SearchInv, Rooted
    <3>4. CASE Pred(l) # NoLabel
      <4>1. PICK p : p = Pred(l)
        OBVIOUS
      <4>2. p \in Labels \ X
        BY <1>1, <1>5, <3>1, <3>4, <4>1
      <4>3. NodeOf(p)' = NodeOf(p) /\ key'[p] = key[p]
        BY <1>1, <4>2
      <4>4. PICK b \in Arcs : Leads(b, l, p)
        BY <3>1, <3>4, <4>1 DEF SearchInv, Rooted
      <4>5. NodeOf(Pred(l))' = NodeOf(p)'
        BY <3>2, <4>1 DEF NodeOf
      <4>6. Leads(b, l, Pred(l))'
        BY <1>1, <3>2, <4>1, <4>3, <4>4, <4>5 DEF Leads
      <4> QED BY <3>2, <3>4, <4>6
    <3> QED BY <3>3, <3>4
  <2> QED BY <2>1, <2>2
<1> QED BY <1>7, <1>8, <1>9, <1>10, <1>11

(* Reference counts with the new label.                                                  *)
LEMMA GrownCounts ==
  ASSUME SearchInv, NEW a \in todo, NEW X, NEW new, Grown(a, X, new)
  PROVE  Tallied'
<1>1. /\ new \in Element /\ new \notin Labels /\ new \in Labels' /\ new # NoLabel
      /\ Labels' = (Labels \ X) \cup {new} /\ Done' = Done /\ Done \subseteq Labels \ X
      /\ NodeOf(new)' = To(a) /\ Pred(new)' = current
      /\ \A m \in Labels \ X : Pred(m)' = Pred(m) /\ m # new
  BY GrownLabels
<1>2. current \in Done /\ current \in Labels
  BY ArcKnown
<1>3. /\ X = {l \in Labels : labels_on_node[To(a)] = l}
      /\ label' = [m \in Labels' |->
                     IF m = new THEN [node |-> To(a), predecessor |-> current, refc |-> 1]
                     ELSE [node |-> NodeOf(m), predecessor |-> Pred(m),
                           refc |-> (label[m].refc - (IF \E l \in X : Pred(l) = m THEN 1 ELSE 0))
                                      + (IF m = current THEN 1 ELSE 0)]]
  BY DEF Grown
<1>4. IsFiniteSet(Labels) /\ \A m \in Labels : Pred(m) \in Done \cup {NoLabel} /\ label[m].refc = 1 + Cardinality(After(m))
  BY DEF SearchInv, SearchTyped, PredsDone, Tallied, Pred
<1>5. \A l, m \in X : l = m
  BY <1>3
<1> SUFFICES ASSUME NEW m \in Labels' PROVE label'[m].refc = 1 + Cardinality(After(m)')
  BY DEF Tallied
<1>6. CASE m = new
  <2>1. \A l \in Labels' : Pred(l)' \in Done \cup {NoLabel}
    BY <1>1, <1>2, <1>4
  <2>2. After(m)' = {}
    BY <1>1, <1>6, <2>1 DEF After
  <2>3. label'[m].refc = 1
    BY <1>1, <1>3, <1>6
  <2> QED BY <2>2, <2>3, FS_EmptySet
<1>7. CASE m # new
  <2> DEFINE A == After(m)
             B == A \ X
  <2>1. m \in Labels \ X
    BY <1>1, <1>7
  <2>2. IsFiniteSet(A) /\ IsFiniteSet(B) /\ Cardinality(A) \in Nat /\ Cardinality(B) \in Nat
    <3>1. A \in SUBSET Labels
      BY DEF After
    <3>2. IsFiniteSet(A)
      <4> HIDE DEF A
      <4> QED BY <1>4, <3>1, FS_Subset
    <3>3. IsFiniteSet(B)
      <4> HIDE DEF A
      <4> QED BY <3>2, FS_Subset
    <3> HIDE DEF A, B
    <3> QED BY <3>2, <3>3, FS_CardinalityType
  <2>3. After(m)' = B \cup (IF m = current THEN {new} ELSE {})
    BY <1>1, <1>7 DEF After
  <2>4. Cardinality(B) = Cardinality(A) - (IF \E l \in X : Pred(l) = m THEN 1 ELSE 0)
    <3>1. CASE \E l \in X : Pred(l) = m
      <4>1. PICK l \in X : Pred(l) = m
        BY <3>1
      <4>2. X = {l} /\ l \in A
        BY <1>3, <1>5, <4>1 DEF After
      <4>3. Cardinality(A \ {l}) = Cardinality(A) - 1
        <5> HIDE DEF A
        <5> QED BY <2>2, <4>2, FS_RemoveElement
      <4> QED BY <3>1, <4>2, <4>3
    <3>2. CASE ~\E l \in X : Pred(l) = m
      <4>1. B = A
        BY <3>2 DEF After
      <4> HIDE DEF A, B
      <4> QED BY <2>2, <3>2, <4>1
    <3> QED BY <3>1, <3>2
  <2>5. Cardinality(After(m)') = Cardinality(B) + (IF m = current THEN 1 ELSE 0)
    <3>1. CASE m = current
      <4>1. new \notin B
        BY <1>1 DEF After
      <4>2. Cardinality(B \cup {new}) = Cardinality(B) + 1
        <5> HIDE DEF B
        <5> QED BY <2>2, <4>1, FS_AddElement
      <4> HIDE DEF B
      <4> QED BY <2>3, <3>1, <4>2
    <3>2. CASE m # current
      <4> HIDE DEF B
      <4> QED BY <2>2, <2>3, <3>2
    <3> QED BY <3>1, <3>2
  <2>6. label'[m].refc = (label[m].refc - (IF \E l \in X : Pred(l) = m THEN 1 ELSE 0)) + (IF m = current THEN 1 ELSE 0)
    BY <1>3, <1>7
  <2>7. label[m].refc = 1 + Cardinality(A)
    BY <1>4, <2>1
  <2> HIDE DEF A, B
  <2> QED BY <2>2, <2>4, <2>5, <2>6, <2>7
<1> QED BY <1>6, <1>7

(* The order of the search with the new label.                                           *)
LEMMA GrownOrder ==
  ASSUME SearchInv, NEW a \in todo, NEW X, NEW new, Grown(a, X, new)
  PROVE  InOrder' /\ Relaxed' /\ Stage'
<1> DEFINE n == To(a)
           cost == key[current] + a[3]
<1>1. /\ new \in Element /\ new \notin Labels /\ new \in Labels' /\ new # NoLabel
      /\ Labels' = (Labels \ X) \cup {new} /\ Done' = Done /\ Done \subseteq Labels \ X
      /\ Nodes' = Nodes /\ Arcs' = Arcs
      /\ \A b : From(b)' = From(b) /\ To(b)' = To(b)
      /\ NodeOf(new)' = n /\ key'[new] = cost
      /\ \A m \in Labels \ X : NodeOf(m)' = NodeOf(m) /\ key'[m] = key[m] /\ m # new
      /\ \A i \in Nodes : labels_on_node'[i] = IF i = n THEN new ELSE labels_on_node[i]
  BY GrownLabels
<1>2. /\ a \in Arcs /\ From(a) = NodeOf(current) /\ n \in Nodes /\ a[3] \in Nat
      /\ current \in Done /\ current \in Labels /\ current \in Element /\ key[current] \in Nat
      /\ result = NoResult
  BY ArcKnown
<1>3. cost \in Nat /\ cost >= key[current]
  BY <1>2
<1>4. /\ X = {l \in Labels : labels_on_node[n] = l} /\ X \subseteq Queued
      /\ \A l \in X : cost < key[l]
      /\ Queued' = (Queued \ X) \cup {new} /\ todo' = todo \ {a}
      /\ request' = request /\ current' = current /\ result' = result
  BY DEF Grown
<1>5. \A m \in Labels : key[m] \in Nat
  BY DEF SearchInv, SearchTyped
<1>6. \A i \in Nodes : labels_on_node[i] # NoLabel => labels_on_node[i] \in Labels /\ NodeOf(labels_on_node[i]) = i
  BY DEF SearchInv, SearchTyped, OneEach
<1>7. /\ \A s \in Done : key[s] <= key[current] /\ \A l \in Queued : key[s] <= key[l]
      /\ \A s \in Done, b \in Arcs : From(b) = NodeOf(s) /\ s # result /\ ~(s = current /\ b \in todo) => Followed(b, s)
  BY DEF SearchInv, InOrder, Relaxed
<1>8. Queued \subseteq Labels /\ request.source \in Nodes
  BY DEF SearchInv, SearchTyped, Requests, Nodes
<1>9. \A s \in Done : key'[s] = key[s] /\ NodeOf(s)' = NodeOf(s) /\ key[s] \in Nat /\ s # NoResult /\ s \in Labels
  BY <1>1, <1>5, LabelAssumption DEF SearchInv, SearchTyped
<1> HIDE DEF n, cost
<1>10. InOrder'
  <2>1. (Done # {} => current \in Done)'
    BY <1>1, <1>2, <1>4
  <2>2. \A s \in Done : key'[s] <= key'[current] /\ \A l \in Queued' : key'[s] <= key'[l]
    <3> SUFFICES ASSUME NEW s \in Done
                 PROVE  key'[s] <= key'[current] /\ \A l \in Queued' : key'[s] <= key'[l]
      OBVIOUS
    <3>1. key'[s] <= key'[current]
      BY <1>2, <1>7, <1>9
    <3>2. key'[s] <= key'[new]
      BY <1>1, <1>2, <1>3, <1>7, <1>9
    <3>3. \A l \in Queued \ X : key'[s] <= key'[l]
      BY <1>1, <1>7, <1>8, <1>9
    <3> QED BY <1>4, <3>1, <3>2, <3>3
  <2> QED BY <1>1, <1>4, <2>1, <2>2 DEF InOrder
<1>11. Relaxed'
  <2> SUFFICES ASSUME NEW s \in Done, NEW b \in Arcs, From(b) = NodeOf(s), ~(s = current /\ b \in todo /\ b # a)
               PROVE  Followed(b, s)'
    BY <1>1, <1>2, <1>4, <1>9 DEF Relaxed
  <2> DEFINE i == To(b)
  <2>1. i \in Nodes /\ b[3] \in Nat
    <3>1. Arcs \subseteq Nodes \X Nodes \X Nat
      BY GraphAssumption DEF SearchInv, SearchTyped, Arcs, Nodes
    <3>2. b[1] \in Nodes /\ b[2] \in Nodes /\ b[3] \in Nat
      BY <3>1
    <3> QED BY <3>2 DEF To
  <2>2. To(b)' = i
    BY <1>1
  <2>3. SUFFICES labels_on_node'[i] # NoLabel /\ key'[labels_on_node'[i]] <= key[s] + b[3]
    BY <1>9, <2>2 DEF Followed
  <2>4. CASE s = current /\ b = a
    BY <1>1, <1>2, <1>3, <2>1, <2>4 DEF n, cost
  <2>5. CASE ~(s = current /\ b = a)
    <3>1. Followed(b, s)
      BY <1>2, <1>7, <1>9, <2>5
    <3>2. labels_on_node[i] # NoLabel /\ key[labels_on_node[i]] <= key[s] + b[3]
      BY <3>1 DEF Followed
    <3>3. labels_on_node[i] \in Labels /\ NodeOf(labels_on_node[i]) = i
      BY <1>6, <2>1, <3>2
    <3> HIDE DEF i
    <3>4. CASE i = n
      <4>1. labels_on_node[i] \in X
        BY <1>4, <3>3, <3>4
      <4>2. cost < key[labels_on_node[i]] /\ key[labels_on_node[i]] \in Nat
        BY <1>4, <1>5, <3>3, <4>1
      <4>3. labels_on_node'[i] = new
        BY <1>1, <2>1, <3>4
      <4> QED BY <1>1, <1>3, <1>9, <2>1, <3>2, <4>2, <4>3
    <3>5. CASE i # n
      <4>1. labels_on_node'[i] = labels_on_node[i]
        BY <1>1, <2>1, <3>5
      <4>2. labels_on_node[i] \notin X
        BY <1>2, <1>4, <1>6, <3>2, <3>3, <3>5
      <4> QED BY <1>1, <3>2, <3>3, <4>1, <4>2
    <3> QED BY <3>4, <3>5
  <2> QED BY <2>4, <2>5
<1>12. Stage'
  <2>1. NoResult # NotStarted /\ NoResult # NoLabel /\ NoResult \notin Labels' /\ result' = NoResult
    BY <1>1, <1>2, <1>4, LabelAssumption DEF SearchInv, SearchTyped
  <2>2. (labels_on_node[request.source] # NoLabel /\ key[labels_on_node[request.source]] = 0)'
    <3> DEFINE i == request.source
    <3>1. labels_on_node[i] # NoLabel /\ key[labels_on_node[i]] = 0 /\ labels_on_node[i] \in Labels /\ i \in Nodes
          /\ NodeOf(labels_on_node[i]) = i
      BY <1>2, <1>6, <1>8, LabelAssumption DEF SearchInv, Stage
    <3>2. i # n
      <4> SUFFICES ASSUME i = n PROVE FALSE
        OBVIOUS
      <4>1. labels_on_node[i] \in X
        BY <1>4, <3>1
      <4>2. cost < 0
        BY <1>4, <3>1, <4>1
      <4> QED BY <1>3, <4>2
    <3>3. labels_on_node'[i] = labels_on_node[i] /\ labels_on_node[i] \notin X
      <4>1. labels_on_node[i] \notin X
        BY <1>2, <1>4, <1>6, <3>1, <3>2
      <4> QED BY <1>1, <3>1, <3>2, <4>1
    <3> HIDE DEF i
    <3>4. labels_on_node'[i] # NoLabel /\ key'[labels_on_node'[i]] = 0
      BY <1>1, <3>1, <3>3
    <3> QED BY <1>4, <3>4 DEF i
  <2>3. (todo # {} => current \in Done /\ todo \subseteq {b \in Arcs : From(b) = NodeOf(current)})'
    <3>1. todo \subseteq {b \in Arcs : From(b) = NodeOf(current)}
      BY DEF SearchInv, Stage
    <3>2. NodeOf(current)' = NodeOf(current)
      <4>1. PICK c : c = current
        OBVIOUS
      <4>2. NodeOf(c)' = NodeOf(c)
        BY <1>2, <1>9, <4>1
      <4> QED BY <1>4, <4>1, <4>2 DEF NodeOf
    <3> QED BY <1>1, <1>2, <1>4, <3>1, <3>2
  <2>4. (\A s \in Done : NodeOf(s) = request.target => s = result)'
    BY <1>1, <1>4, <1>9 DEF SearchInv, Stage
  <2> QED BY <2>1, <2>2, <2>3, <2>4 DEF Stage
<1> QED BY <1>10, <1>11, <1>12

(* All that is true of a search, with the new label.                                     *)
LEMMA GrownInv ==
  ASSUME SearchInv, NEW a \in todo, NEW X, NEW new, Grown(a, X, new)
  PROVE  SearchInv'
BY GrownTree, GrownCounts, GrownOrder DEF SearchInv

(* A new label gets into the queue h.                                                    *)
LEMMA NewInQueue ==
  ASSUME NEW h, NEW j, NEW n, Sound(h, j, n), NEW new \in Element, new \notin In(h),
         NEW k, k[new] \in Int, \A e \in In(h) : k[e] = j[e],
         NEW w, w = push([h EXCEPT !.position[new] = -1], k, new)
  PROVE  Sound(w, k, n + 1) /\ In(w) = In(h) \cup {new}
<1>1. [h EXCEPT !.position[new] = -1] = h
  BY Unplaced
<1>2. Sound(h, k, n)
  BY OtherKeys
<1> QED BY <1>1, <1>2, PushSound

IsLabels(labels, L, N, P) == labels \in [L -> [node : N, predecessor : P, refc : Int]]

\* The labels of L with one that goes on from pred.
Joined(labels, L, new, pred, n) ==
  [m \in L \cup {new} |->
       IF m = new THEN [node |-> n, predecessor |-> pred, refc |-> 1]
       ELSE [node |-> labels[m].node, predecessor |-> labels[m].predecessor,
             refc |-> labels[m].refc + (IF m = pred THEN 1 ELSE 0)]]

(* A label that goes on from pred.                                                       *)
LEMMA SetPredecessor ==
  ASSUME NEW L, NEW N, NEW P, NEW labels, IsLabels(labels, L, N, P), NEW pred \in L,
         NEW new, new \notin L, NEW n
  PROVE  set_predecessor(labels, new, pred, n) = Joined(labels, L, new, pred, n)
<1> DEFINE more == [labels EXCEPT ![pred].refc = @ + 1]
           as(m) == [node |-> labels[m].node, predecessor |-> labels[m].predecessor,
                     refc |-> labels[m].refc + (IF m = pred THEN 1 ELSE 0)]
<1>0. labels \in [L -> [node : N, predecessor : P, refc : Int]]
  BY DEF IsLabels
<1>1. DOMAIN more = L /\ DOMAIN labels = L
  BY <1>0
<1>2. ASSUME NEW m \in L PROVE more[m] = as(m)
  <2>1. /\ labels[m] = [node |-> labels[m].node, predecessor |-> labels[m].predecessor, refc |-> labels[m].refc]
        /\ labels[m].refc \in Int
    BY <1>0
  <2>2. more[m] = IF m = pred THEN [labels[m] EXCEPT !.refc = @ + 1] ELSE labels[m]
    BY <1>0
  <2> HIDE DEF more
  <2>3. CASE m = pred
    <3>1. [labels[m] EXCEPT !.refc = @ + 1] = [node |-> labels[m].node, predecessor |-> labels[m].predecessor, refc |-> labels[m].refc + 1]
      BY <2>1
    <3> QED BY <2>2, <2>3, <3>1
  <2>4. CASE m # pred
    <3>1. labels[m].refc + 0 = labels[m].refc
      BY <2>1
    <3> QED BY <2>1, <2>2, <2>4, <3>1
  <2> QED BY <2>3, <2>4
<1> HIDE DEF more
<1>3. set_predecessor(labels, new, pred, n) =
        [m \in L \cup {new} |-> IF m = new THEN [node |-> n, predecessor |-> pred, refc |-> 1] ELSE more[m]]
  <2>1. set_predecessor(labels, new, pred, n) = With(more, new, [node |-> n, predecessor |-> pred, refc |-> 1])
    BY DEF set_predecessor, more
  <2> QED BY <1>1, <2>1 DEF With
<1>4. \A m \in (L \cup {new}) : m # new => more[m] = as(m)
  BY <1>2
<1> HIDE DEF as
<1>5. set_predecessor(labels, new, pred, n) =
        [m \in L \cup {new} |-> IF m = new THEN [node |-> n, predecessor |-> pred, refc |-> 1] ELSE as(m)]
  BY <1>3, <1>4
<1> QED BY <1>5 DEF as, Joined

(* The queue holds all labels that are not settled, when one has been added.             *)
LEMMA GrownEnd ==
  ASSUME Inv, request.kind = "search", NEW a \in todo, NEW X, NEW new, Grown(a, X, new),
         NEW m, Sound(heap', key', m)
  PROVE  Inv'
<1>1. SearchInv'
  BY GrownInv DEF Inv
<1>2. Sound(heap', key', size(heap'))
  BY SoundSize
<1>3. request' = request
  BY DEF Grown
<1>4. (Queued \subseteq DOMAIN key)'
  BY <1>1 DEF SearchInv, SearchTyped
<1> QED BY <1>1, <1>2, <1>3, <1>4 DEF Inv

(* The arc leads to a node that had no label.                                            *)
LEMMA NewNode ==
  ASSUME Inv, request.kind = "search", NEW a \in todo, todo' = todo \ {a}, labels_on_node[To(a)] = NoLabel,
         push_new_label(label, heap, Allocated, current, To(a), key[current] + a[3]),
         UNCHANGED <<request, current, result>>
  PROVE  Inv'
<1> DEFINE n == To(a)
           cost == key[current] + a[3]
<1>1. SearchInv /\ Sound(heap, key, size(heap)) /\ Queued = In(heap) /\ Queued' = In(heap')
  BY QueuedIn DEF Inv
<1>2. PICK new : new = Allocated
  OBVIOUS
<1>3. new \in Element \ Labels
  BY <1>1, <1>2, AllocatedFresh
<1>4. n \in Nodes /\ current \in Labels /\ cost \in Nat
  BY <1>1, ArcKnown
<1>5. /\ Labels = DOMAIN label /\ Queued \subseteq Labels /\ key \in [Labels -> Nat]
      /\ label \in [Labels -> [node : Nodes, predecessor : Labels \cup {NoLabel}, refc : Int]]
  BY <1>1 DEF SearchInv, SearchTyped, Labels
<1>6. /\ label' = set_predecessor(label, new, current, n)
      /\ key' = With(Keep(key, DOMAIN label), new, cost)
      /\ labels_on_node' = [labels_on_node EXCEPT ![n] = new]
      /\ heap' = push([heap EXCEPT !.position[new] = -1], key', new)
  BY <1>2 DEF push_new_label
<1> HIDE DEF n, cost
<1>7. label' = [m \in Labels \cup {new} |->
                  IF m = new THEN [node |-> n, predecessor |-> current, refc |-> 1]
                  ELSE [node |-> label[m].node, predecessor |-> label[m].predecessor,
                        refc |-> label[m].refc + (IF m = current THEN 1 ELSE 0)]]
  <2>1. new \notin Labels
    BY <1>3
  <2>2. PICK L, N, P, w, c, i : L = Labels /\ N = Nodes /\ P = Labels \cup {NoLabel} /\ w = label /\ c = current /\ i = n
    OBVIOUS
  <2>3. IsLabels(w, L, N, P) /\ c \in L /\ new \notin L
    BY <1>4, <1>5, <2>1, <2>2 DEF IsLabels
  <2>4. set_predecessor(w, new, c, i) = Joined(w, L, new, c, i)
    BY <2>3, SetPredecessor
  <2> QED BY <1>6, <2>2, <2>4 DEF Joined
<1>8. Labels' = Labels \cup {new}
  BY <1>7 DEF Labels
<1>9. key' = [m \in Labels' |-> IF m = new THEN cost ELSE key[m]]
  <2>1. key' = [m \in Labels \cup {new} |-> IF m = new THEN cost ELSE Keep(key, Labels)[m]]
    BY <1>5, <1>6 DEF With, Keep
  <2>2. \A m \in Labels : Keep(key, Labels)[m] = key[m]
    BY DEF Keep
  <2> QED BY <1>8, <2>1, <2>2
<1>10. {l \in Labels : labels_on_node[n] = l} = {}
  BY <1>1, LabelAssumption DEF SearchInv, SearchTyped, n
<1>11. label' = [m \in Labels' |->
                   IF m = new THEN [node |-> n, predecessor |-> current, refc |-> 1]
                   ELSE [node |-> NodeOf(m), predecessor |-> Pred(m),
                         refc |-> (label[m].refc - (IF \E l \in {} : Pred(l) = m THEN 1 ELSE 0))
                                    + (IF m = current THEN 1 ELSE 0)]]
  <2>1. \A m \in Labels : label[m].refc - 0 = label[m].refc
    BY <1>5
  <2>2. \A m : ~\E l \in {} : Pred(l) = m
    OBVIOUS
  <2>3. \A m \in Labels : (label[m].refc - (IF \E l \in {} : Pred(l) = m THEN 1 ELSE 0))
                            + (IF m = current THEN 1 ELSE 0) = label[m].refc + (IF m = current THEN 1 ELSE 0)
    BY <2>1, <2>2
  <2> QED BY <1>7, <1>8, <2>3 DEF NodeOf, Pred
<1>12. \E m : Sound(heap', key', m) /\ In(heap') = In(heap) \cup {new}
  <2>1. PICK k : k = key'
    OBVIOUS
  <2>2. k[new] \in Int /\ \A e \in In(heap) : k[e] = key[e]
    BY <1>1, <1>3, <1>4, <1>5, <1>8, <1>9, <2>1
  <2>3. PICK h : h = heap'
    OBVIOUS
  <2>4. Sound(h, k, size(heap) + 1) /\ In(h) = In(heap) \cup {new}
    BY <1>1, <1>3, <1>5, <1>6, <2>1, <2>2, <2>3, NewInQueue
  <2> QED BY <2>1, <2>3, <2>4
<1>13. Grown(a, {}, new)
  <2>1. Queued' = (Queued \ {}) \cup {new} /\ Labels' = (Labels \ {}) \cup {new}
    BY <1>1, <1>8, <1>12
  <2> QED BY <1>3, <1>6, <1>9, <1>10, <1>11, <2>1 DEF Grown, n, cost
<1> QED BY <1>12, <1>13, GrownEnd

(* A label in the queue is given back at once, as no other goes on from it.              *)
LEMMA EraseLabel ==
  ASSUME SearchInv, NEW l \in Queued
  PROVE  /\ l \in Labels
         /\ erase_label(l) =
              [m \in Labels \ {l} |->
                 [node |-> NodeOf(m), predecessor |-> Pred(m),
                  refc |-> label[m].refc - (IF Pred(l) = m THEN 1 ELSE 0)]]
<1> DEFINE p == Pred(l)
           less == [label EXCEPT ![p].refc = @ - 1]
           as(m) == [node |-> NodeOf(m), predecessor |-> Pred(m),
                     refc |-> label[m].refc - (IF p = m THEN 1 ELSE 0)]
<1>1. /\ l \in Labels /\ Labels = DOMAIN label
      /\ label \in [Labels -> [node : Nodes, predecessor : Labels \cup {NoLabel}, refc : Int]]
  BY DEF SearchInv, SearchTyped, Labels
<1>2. After(l) = {}
  <2>1. l \notin Done /\ l # NoLabel
    BY <1>1, LabelAssumption DEF Done, SearchInv, SearchTyped
  <2> QED BY <2>1 DEF After, SearchInv, PredsDone
<1>3. label[l].refc = 1
  BY <1>1, <1>2, FS_EmptySet DEF SearchInv, Tallied
<1>4. erase_label(l) = Keep(less, Labels \ {l})
  BY <1>1, <1>3 DEF erase_label, Pred
<1>5. ASSUME NEW m \in Labels \ {l} PROVE less[m] = as(m)
  <2>1. /\ label[m] = [node |-> NodeOf(m), predecessor |-> Pred(m), refc |-> label[m].refc]
        /\ label[m].refc \in Int
    BY <1>1 DEF NodeOf, Pred
  <2>2. less[m] = IF m = p THEN [label[m] EXCEPT !.refc = @ - 1] ELSE label[m]
    BY <1>1
  <2> HIDE DEF less, p
  <2>3. CASE m = p
    <3>1. [label[m] EXCEPT !.refc = @ - 1] = [node |-> NodeOf(m), predecessor |-> Pred(m), refc |-> label[m].refc - 1]
      BY <2>1
    <3> QED BY <2>2, <2>3, <3>1
  <2>4. CASE m # p
    <3>1. label[m].refc - 0 = label[m].refc
      BY <2>1
    <3> QED BY <2>1, <2>2, <2>4, <3>1
  <2> QED BY <2>3, <2>4
<1> HIDE DEF less, as
<1>6. erase_label(l) = [m \in Labels \ {l} |-> as(m)]
  BY <1>4, <1>5 DEF Keep
<1> QED BY <1>1, <1>6 DEF as

(* The arc leads to a node with a label that costs more, which the new one replaces.     *)
LEMMA NewIsBetter ==
  ASSUME Inv, request.kind = "search", NEW a \in todo, todo' = todo \ {a},
         NEW cur, cur = labels_on_node[To(a)], cur # NoLabel, ~Settled(cur),
         key[current] + a[3] < key[cur],
         push_new_label(erase_label(cur), drop_label(cur), Allocated, current, To(a), key[current] + a[3]),
         UNCHANGED <<request, current, result>>
  PROVE  Inv'
<1> DEFINE n == To(a)
           cost == key[current] + a[3]
           X == {cur}
           L == Labels \ X
           P == Labels \cup {NoLabel}
<1>1. SearchInv /\ Sound(heap, key, size(heap)) /\ Queued = In(heap) /\ Queued' = In(heap')
  BY QueuedIn DEF Inv
<1>2. PICK new : new = Allocated
  OBVIOUS
<1>3. new \in Element \ Labels
  BY <1>1, <1>2, AllocatedFresh
<1>4. n \in Nodes /\ current \in Done /\ current \in Labels /\ cost \in Nat
  BY <1>1, ArcKnown
<1>5. /\ Labels = DOMAIN label /\ Queued \subseteq Labels /\ key \in [Labels -> Nat] /\ Labels \in SUBSET Element
      /\ label \in [Labels -> [node : Nodes, predecessor : P, refc : Int]]
  BY <1>1 DEF SearchInv, SearchTyped, Labels
<1>6. cur \in Labels /\ NodeOf(cur) = n /\ cur \in Queued /\ current # cur
  <2>1. cur \in Labels /\ NodeOf(cur) = n
    BY <1>1, <1>4 DEF SearchInv, SearchTyped, OneEach
  <2>2. heap.position[cur] \in Int /\ cur \in Element
    BY <1>1, <1>5, <2>1 DEF Sound, Bodies
  <2>3. cur \in Queued
    BY <2>2 DEF Settled, Queued
  <2> QED BY <1>4, <2>1, <2>3 DEF Done
<1>7. PICK labels, h, k : labels = erase_label(cur) /\ h = drop_label(cur) /\ k = key'
  OBVIOUS
<1>8. /\ label' = set_predecessor(labels, new, current, n)
      /\ key' = With(Keep(key, DOMAIN labels), new, cost)
      /\ labels_on_node' = [labels_on_node EXCEPT ![n] = new]
      /\ heap' = push([h EXCEPT !.position[new] = -1], k, new)
  BY <1>2, <1>7 DEF push_new_label
<1> HIDE DEF n, cost
<1>9. labels = [m \in L |-> [node |-> NodeOf(m), predecessor |-> Pred(m),
                             refc |-> label[m].refc - (IF Pred(cur) = m THEN 1 ELSE 0)]]
  BY <1>1, <1>6, <1>7, EraseLabel
<1>10. label' = [m \in L \cup {new} |->
                   IF m = new THEN [node |-> n, predecessor |-> current, refc |-> 1]
                   ELSE [node |-> NodeOf(m), predecessor |-> Pred(m),
                         refc |-> (label[m].refc - (IF Pred(cur) = m THEN 1 ELSE 0)) + (IF m = current THEN 1 ELSE 0)]]
  <2>1. \A m \in L : /\ NodeOf(m) \in Nodes /\ Pred(m) \in P
                     /\ label[m].refc - (IF Pred(cur) = m THEN 1 ELSE 0) \in Int
    BY <1>5 DEF NodeOf, Pred
  <2>2. PICK M, N, Q, c, i : M = L /\ N = Nodes /\ Q = P /\ c = current /\ i = n
    OBVIOUS
  <2>3. c \in M /\ new \notin M
    BY <1>3, <1>4, <1>6, <2>2
  <2> HIDE DEF L, P
  <2>4. IsLabels(labels, M, N, Q)
    BY <1>9, <2>1, <2>2 DEF IsLabels
  <2>5. set_predecessor(labels, new, c, i) = Joined(labels, M, new, c, i)
    BY <2>3, <2>4, SetPredecessor
  <2>6. label' = [m \in L \cup {new} |->
                    IF m = new THEN [node |-> n, predecessor |-> current, refc |-> 1]
                    ELSE [node |-> labels[m].node, predecessor |-> labels[m].predecessor,
                          refc |-> labels[m].refc + (IF m = current THEN 1 ELSE 0)]]
    BY <1>8, <2>2, <2>5 DEF Joined
  <2>7. \A m \in L : /\ labels[m].node = NodeOf(m) /\ labels[m].predecessor = Pred(m)
                     /\ labels[m].refc = label[m].refc - (IF Pred(cur) = m THEN 1 ELSE 0)
    BY <1>9
  <2> QED BY <2>6, <2>7
<1>11. Labels' = (Labels \ X) \cup {new}
  BY <1>10 DEF Labels
<1>12. key' = [m \in Labels' |-> IF m = new THEN cost ELSE key[m]]
  <2>1. DOMAIN labels = L
    BY <1>9
  <2> HIDE DEF L
  <2>2. key' = [m \in L \cup {new} |-> IF m = new THEN cost ELSE Keep(key, L)[m]]
    BY <1>8, <2>1 DEF With, Keep
  <2>3. \A m \in L : Keep(key, L)[m] = key[m]
    BY DEF Keep
  <2>4. Labels' = L \cup {new}
    BY <1>11 DEF L
  <2> QED BY <2>2, <2>3, <2>4
<1>13. X = {l \in Labels : labels_on_node[n] = l} /\ X \subseteq Queued
  BY <1>6 DEF n
<1>14. label' = [m \in Labels' |->
                   IF m = new THEN [node |-> n, predecessor |-> current, refc |-> 1]
                   ELSE [node |-> NodeOf(m), predecessor |-> Pred(m),
                         refc |-> (label[m].refc - (IF \E l \in X : Pred(l) = m THEN 1 ELSE 0))
                                    + (IF m = current THEN 1 ELSE 0)]]
  <2>1. \A m : (\E l \in X : Pred(l) = m) <=> Pred(cur) = m
    OBVIOUS
  <2>2. Labels' = L \cup {new}
    BY <1>11
  <2> HIDE DEF X, L
  <2>3. \A m : (IF \E l \in X : Pred(l) = m THEN 1 ELSE 0) = IF Pred(cur) = m THEN 1 ELSE 0
    BY <2>1
  <2> QED BY <1>10, <2>2, <2>3
<1>15. \E m : Sound(heap', key', m) /\ In(heap') = (In(heap) \ X) \cup {new}
  <2>1. h = erase_at(heap, key, heap.position[cur])
    <3>1. heap.position[cur] >= 0
      BY <1>6 DEF Queued
    <3> QED BY <1>7, <3>1 DEF drop_label
  <2>2. Sound(h, key, size(heap) - 1) /\ In(h) = In(heap) \ X
    BY <1>1, <1>6, <2>1, EraseSound
  <2>3. k[new] \in Int /\ \A e \in In(h) : k[e] = key[e]
    BY <1>1, <1>3, <1>4, <1>5, <1>7, <1>11, <1>12, <2>2
  <2>4. PICK w : w = heap'
    OBVIOUS
  <2>5. new \notin In(h)
    BY <1>1, <1>3, <1>5, <2>2
  <2>6. Sound(w, k, (size(heap) - 1) + 1) /\ In(w) = In(h) \cup {new}
    BY <1>3, <1>8, <2>2, <2>3, <2>4, <2>5, NewInQueue
  <2> QED BY <1>7, <2>2, <2>4, <2>6
<1>16. Grown(a, X, new)
  <2>1. Queued' = (Queued \ X) \cup {new}
    BY <1>1, <1>15
  <2>2. \A l \in X : cost < key[l]
    BY DEF cost
  <2> HIDE DEF X
  <2> QED BY <1>3, <1>8, <1>11, <1>12, <1>13, <1>14, <2>1, <2>2 DEF Grown, n, cost
<1> HIDE DEF X
<1> QED BY <1>15, <1>16, GrownEnd

(* The arc leads to a node with a label that is as good.                                 *)
LEMMA OldIsKept ==
  ASSUME Inv, request.kind = "search", NEW a \in todo, todo' = todo \ {a},
         NEW cur, cur = labels_on_node[To(a)], cur # NoLabel,
         Settled(cur) \/ ~(key[current] + a[3] < key[cur]),
         UNCHANGED <<heapVars, label, labels_on_node>>, UNCHANGED <<request, current, result>>
  PROVE  Inv'
<1>1. /\ SearchInv /\ Sound(heap, key, size(heap)) /\ Queued \subseteq DOMAIN key
      /\ heap' = heap /\ key' = key /\ label' = label /\ labels_on_node' = labels_on_node
      /\ request' = request /\ current' = current /\ result' = result
  BY DEF Inv, heapVars
<1>2. Labels' = Labels /\ Nodes' = Nodes /\ Arcs' = Arcs /\ Queued' = Queued /\ Done' = Done
  BY <1>1 DEF Labels, Nodes, Arcs, Done, Queued
<1>3. /\ \A l : NodeOf(l)' = NodeOf(l) /\ Pred(l)' = Pred(l) /\ After(l)' = After(l)
      /\ \A b : From(b)' = From(b) /\ To(b)' = To(b)
  BY <1>1 DEF NodeOf, Pred, From, To, After, Labels
<1>4. /\ a \in Arcs /\ From(a) = NodeOf(current) /\ To(a) \in Nodes /\ a[3] \in Nat
      /\ current \in Done /\ key[current] \in Nat /\ result = NoResult
  BY <1>1, ArcKnown
<1>5. SearchTyped' /\ OneEach' /\ Tallied' /\ PredsDone' /\ NoCycle'
  BY <1>1, <1>2, <1>3 DEF SearchInv, SearchTyped, OneEach, Tallied, PredsDone, NoCycle
<1>6. Rooted' /\ InOrder'
  BY <1>1, <1>2, <1>3 DEF SearchInv, Rooted, Leads, InOrder
<1>7. Followed(a, current)
  <2>1. cur \in Labels /\ key[cur] \in Nat /\ cur \in Element
    BY <1>1, <1>4 DEF SearchInv, SearchTyped
  <2>2. CASE Settled(cur)
    <3>1. cur \in Done
      <4>1. heap.position[cur] \in Int
        BY <1>1, <2>1 DEF Sound, Bodies
      <4> QED BY <2>1, <2>2, <4>1 DEF Settled, Done, Queued
    <3>2. key[cur] <= key[current]
      BY <1>1, <3>1 DEF SearchInv, InOrder
    <3> QED BY <1>4, <2>1, <3>2 DEF Followed
  <2>3. CASE ~(key[current] + a[3] < key[cur])
    BY <1>4, <2>1, <2>3 DEF Followed
  <2> QED BY <2>2, <2>3
<1>8. Relaxed'
  <2>1. \A b, s : Followed(b, s)' = Followed(b, s)
    BY <1>1, <1>3 DEF Followed
  <2>2. ASSUME NEW s \in Done, NEW b \in Arcs, From(b) = NodeOf(s), s # result, ~(s = current /\ b \in todo')
        PROVE  Followed(b, s)
    <3>1. CASE s = current /\ b = a
      BY <1>7, <3>1
    <3>2. CASE ~(s = current /\ b = a)
      <4>1. ~(s = current /\ b \in todo)
        BY <2>2, <3>2
      <4> QED BY <1>1, <2>2, <4>1 DEF SearchInv, Relaxed
    <3> QED BY <3>1, <3>2
  <2> QED BY <1>1, <1>2, <1>3, <2>1, <2>2 DEF Relaxed
<1>9. Stage'
  <2>1. todo' \subseteq todo
    OBVIOUS
  <2> QED BY <1>1, <1>2, <1>3, <1>4, <2>1 DEF SearchInv, Stage
<1>10. (Queued \subseteq DOMAIN key)' /\ (Sound(heap, key, size(heap)))'
  BY <1>1, <1>2
<1> QED BY <1>1, <1>5, <1>6, <1>8, <1>9, <1>10 DEF Inv, SearchInv

(* The search follows an arc.                                                            *)
LEMMA PropagateStep ==
  ASSUME Inv, propagate
  PROVE  Inv'
<1>1. PICK a \in todo :
        /\ todo' = todo \ {a}
        /\ \/ /\ labels_on_node[To(a)] = NoLabel
              /\ push_new_label(label, heap, Allocated, current, To(a), key[current] + a[3])
           \/ \E cur : /\ cur = labels_on_node[To(a)] /\ cur # NoLabel /\ ~Settled(cur)
                       /\ key[current] + a[3] < key[cur]
                       /\ push_new_label(erase_label(cur), drop_label(cur), Allocated, current, To(a), key[current] + a[3])
           \/ \E cur : /\ cur = labels_on_node[To(a)] /\ cur # NoLabel
                       /\ Settled(cur) \/ ~(key[current] + a[3] < key[cur])
                       /\ UNCHANGED <<heapVars, label, labels_on_node>>
  BY DEF propagate, NewLabelIsBetter
<1>2. request.kind = "search" /\ UNCHANGED <<request, current, result>>
  BY DEF Inv, propagate
<1> QED BY <1>1, <1>2, NewNode, NewIsBetter, OldIsKept
-----------------------------------------------------------------------------
(* All steps                                                               *)

(* The invariant is kept by every step.                                                  *)
LEMMA InvNext ==
  ASSUME Allowed = {}, Inv, [DijkstraNext]_dijkstraVars
  PROVE  Inv'
<1>1. CASE start_search
  BY <1>1, StartStep
<1>2. CASE PopLabel
  BY <1>2, PopLabelStep
<1>3. CASE NoMoreLabels
  BY <1>3, NoMoreStep
<1>4. CASE propagate
  BY <1>4, PropagateStep
<1>5. CASE request.kind = "queue" /\ HeapNext /\ UNCHANGED searchVars
  BY <1>5, ClientStep
<1>6. CASE UNCHANGED dijkstraVars
  <2>1. /\ heap' = heap /\ key' = key /\ label' = label /\ labels_on_node' = labels_on_node
        /\ request' = request /\ current' = current /\ result' = result /\ todo' = todo
    BY <1>6 DEF dijkstraVars, heapVars, searchVars
  <2>2. Labels' = Labels /\ Nodes' = Nodes /\ Arcs' = Arcs /\ Queued' = Queued /\ Done' = Done
    BY <2>1 DEF Labels, Nodes, Arcs, Done, Queued
  <2>3. /\ \A l : NodeOf(l)' = NodeOf(l) /\ Pred(l)' = Pred(l) /\ After(l)' = After(l)
        /\ \A b : From(b)' = From(b) /\ To(b)' = To(b)
    BY <2>1 DEF NodeOf, Pred, From, To, After, Labels
  <2>4. \A b, s : Followed(b, s)' = Followed(b, s)
    BY <2>1, <2>3 DEF Followed
  <2>5. SearchInv => (SearchTyped /\ OneEach /\ Tallied /\ PredsDone /\ NoCycle)'
    BY <2>1, <2>2, <2>3 DEF SearchInv, SearchTyped, OneEach, Tallied, PredsDone, NoCycle
  <2>6. SearchInv => (Rooted /\ InOrder)'
    BY <2>1, <2>2, <2>3 DEF SearchInv, Rooted, Leads, InOrder
  <2>7. SearchInv => (Relaxed /\ Stage)'
    BY <2>1, <2>2, <2>3, <2>4 DEF SearchInv, Relaxed, Stage
  <2>8. SearchInv => SearchInv'
    BY <2>5, <2>6, <2>7 DEF SearchInv
  <2> QED BY <2>1, <2>2, <2>8 DEF Inv
<1> QED BY <1>1, <1>2, <1>3, <1>4, <1>5, <1>6 DEF DijkstraNext, Search

(* It is true of every state.                                                            *)
LEMMA InvHolds ==
  ASSUME Allowed = {}
  PROVE  DijkstraSpec => []Inv
<1>1. DijkstraInit => Inv
  BY InvInit
<1>2. Inv /\ [DijkstraNext]_dijkstraVars => Inv'
  BY InvNext
<1> QED BY <1>1, <1>2, PTL DEF DijkstraSpec
-----------------------------------------------------------------------------
(* Queue and labels                                                        *)

(* Whatever the client of a queue pushes, erases and pops, and however a search uses it, *)
(* the elements are where they think they are, and none is above one with a smaller key  *)
(* - as long as keys of queued elements are only made smaller.                           *)
THEOREM HeapIsSound ==
  ASSUME Allowed = {}
  PROVE  DijkstraSpec => []HeapSound
<1>1. ASSUME Inv PROVE HeapSound
  <2> DEFINE n == size(heap)
  <2>1. Sound(heap, key, n) /\ Queued = In(heap)
    BY <1>1, QueuedIn DEF Inv
  <2>2. n \in Nat /\ DOMAIN heap.queue = Cells(n) /\ Cardinality(Queued) = n
    BY <2>1, SoundCounted DEF Sound, Bodies
  <2>3. \A i \in Cells(n) : heap.position[heap.queue[i]] = i
    BY <2>1 DEF Sound
  <2>4. \A i \in Cells(n) : i > 0 => key[heap.queue[parent(i)]] <= key[heap.queue[i]]
    <3>1. \A i \in Cells(n) : i > 0 => i \in 1 .. n - 1
      BY <2>2 DEF Cells
    <3> QED BY <2>1, <3>1 DEF Sound, Ordered
  <2> QED BY <2>2, <2>3, <2>4 DEF HeapSound, Cells
<1>2. Inv => HeapSound
  BY <1>1
<1> QED BY <1>2, InvHolds, PTL

(* Through all a search does - labels replaced while they are queued, and given back in  *)
(* the middle of the search - the labels that exist are those of the nodes, and each     *)
(* counts exactly those that go on from it.                                              *)
THEOREM LabelsAreCounted ==
  ASSUME Allowed = {}
  PROVE  DijkstraSpec => []LabelsCounted
<1>1. ASSUME Inv PROVE LabelsCounted
  <2> SUFFICES ASSUME request.kind = "search"
               PROVE  /\ {labels_on_node[n] : n \in DOMAIN labels_on_node} \ {NoLabel} = DOMAIN label
                      /\ Queued \subseteq DOMAIN label
                      /\ \A l \in DOMAIN label :
                           /\ label[l].predecessor \in DOMAIN label \cup {NoLabel}
                           /\ labels_on_node[label[l].node] = l
                           /\ label[l].refc = 1 + Cardinality({m \in DOMAIN label : label[m].predecessor = l})
    BY DEF LabelsCounted
  <2>1. /\ Labels = DOMAIN label /\ Queued \subseteq Labels /\ Labels \in SUBSET Element
        /\ labels_on_node \in [Nodes -> Labels \cup {NoLabel}]
        /\ \A l \in Labels : /\ label[l].node \in Nodes /\ label[l].predecessor \in Labels \cup {NoLabel}
                             /\ labels_on_node[label[l].node] = l
                             /\ label[l].refc = 1 + Cardinality(After(l))
    BY <1>1 DEF Inv, SearchInv, SearchTyped, OneEach, Tallied, Labels, NodeOf
  <2>2. \A l : After(l) = {m \in DOMAIN label : label[m].predecessor = l}
    BY DEF After, Pred, Labels
  <2>3. {labels_on_node[n] : n \in DOMAIN labels_on_node} \ {NoLabel} = DOMAIN label
    <3>1. NoLabel \notin Labels
      BY <2>1, LabelAssumption
    <3> QED BY SMTT(30), <2>1, <3>1
  <2> QED BY <2>1, <2>2, <2>3
<1>2. Inv => LabelsCounted
  BY <1>1
<1> QED BY <1>2, InvHolds, PTL
-----------------------------------------------------------------------------
(* Walks                                                                   *)

\* Costs of walks to each node, and what is kept from round to round.
Tables == [Nodes -> SUBSET Nat]
KeptByRounds(Good) ==
  /\ Good \subseteq Nat \X Tables
  /\ <<0, Start>> \in Good
  /\ \A i \in Nat, costs \in Tables : <<i, costs>> \in Good => <<i + 1, Extended(costs)>> \in Good

(* What every round keeps is true of WalkCosts.                                          *)
LEMMA Rounds ==
  ASSUME SearchInv, NEW Good, KeptByRounds(Good)
  PROVE  <<Cardinality(Nodes), WalkCosts>> \in Good
<1> DEFINE S == 1 .. Cardinality(Nodes)
           next == [s \in SUBSET S |-> CHOOSE y \in s : TRUE]
           step == [q \in S \X Tables |-> Extended(q[2])]
           Best == {z \in (SUBSET S) \X Tables : <<Cardinality(z[1]), z[2]>> \in Good}
           Eq(g) == g = [s \in SUBSET S |-> IF s = {} THEN Start
                                            ELSE Extended(g[s \ {CHOOSE y \in s : TRUE}])]
           f == CHOOSE g : Eq(g)
<1>0. IsFiniteSet(S) /\ Cardinality(S) = Cardinality(Nodes)
  BY LabelsFew, FS_Interval
<1>1. \A s \in SUBSET S : s # {} => next[s] \in s
  OBVIOUS
<1>2. <<{}, Start>> \in Best
  <2>1. Cardinality({}) = 0
    BY FS_EmptySet
  <2> QED BY <2>1 DEF KeptByRounds
<1>3. ASSUME NEW s \in SUBSET S, NEW v, s # {}, <<s \ {next[s]}, v>> \in Best
      PROVE  <<s, step[<<next[s], v>>]>> \in Best
  <2>1. v \in Tables /\ next[s] \in s /\ next[s] \in S /\ <<Cardinality(s \ {next[s]}), v>> \in Good
    BY <1>1, <1>3
  <2>2. step[<<next[s], v>>] = Extended(v)
    BY <2>1
  <2>3. IsFiniteSet(s)
    BY <1>0, FS_Subset
  <2>4. Cardinality(s \ {next[s]}) + 1 = Cardinality(s) /\ Cardinality(s \ {next[s]}) \in Nat
    <3>1. PICK y : y = next[s]
      OBVIOUS
    <3>2. Cardinality(s \ {y}) = Cardinality(s) - 1 /\ Cardinality(s \ {y}) \in Nat /\ Cardinality(s) \in Nat
      BY <2>1, <2>3, <3>1, OneLess
    <3> QED BY <3>1, <3>2
  <2>5. <<Cardinality(s), Extended(v)>> \in Good
    BY <2>1, <2>4 DEF KeptByRounds
  <2>6. Extended(v) \in Tables
    BY <2>5 DEF KeptByRounds
  <2> HIDE DEF next, step
  <2> QED BY <2>2, <2>5, <2>6
<1>4. Invariant(S, next, Start, step, Best)
  <2> HIDE DEF next, step, Best
  <2> QED BY <1>1, <1>2, <1>3 DEF Invariant
<1>5. PICK g : Folded(g, S, next, Start, step) /\ \A s \in SUBSET S : <<s, g[s]>> \in Best
  <2> HIDE DEF S, next, step, Best
  <2> QED BY <1>0, <1>4, FoldedGood
<1>6. \A s \in SUBSET S : s # {} => step[<<next[s], g[s \ {next[s]}]>>] = Extended(g[s \ {next[s]}])
  <2> SUFFICES ASSUME NEW s \in SUBSET S, s # {}
               PROVE  step[<<next[s], g[s \ {next[s]}]>>] = Extended(g[s \ {next[s]}])
    OBVIOUS
  <2>1. PICK v : v = g[s \ {next[s]}]
    OBVIOUS
  <2>2. v \in Tables /\ next[s] \in S
    BY <1>1, <1>5, <2>1
  <2>3. step[<<next[s], v>>] = Extended(v)
    BY <2>2
  <2> QED BY <2>1, <2>3
<1>7. Eq(g)
  <2>1. g = [s \in SUBSET S |-> IF s = {} THEN Start ELSE step[<<next[s], g[s \ {next[s]}]>>]]
    BY <1>5 DEF Folded
  <2>2. g = [s \in SUBSET S |-> IF s = {} THEN Start ELSE Extended(g[s \ {next[s]}])]
    <3> HIDE DEF S, next, step
    <3> QED BY <1>6, <2>1
  <2>3. \A s \in SUBSET S : next[s] = CHOOSE y \in s : TRUE
    OBVIOUS
  <2> HIDE DEF S, next
  <2> QED BY <2>2, <2>3
<1>8. Eq(f)
  <2> HIDE DEF Eq
  <2> QED BY <1>7
<1>9. WalkCosts = f[S]
  BY DEF WalkCosts, FoldSet, MapThenFoldSet, Nodes
<1>10. f[S] = g[S]
  <2> DEFINE Q == {s \in SUBSET S : f[s] = g[s]}
  <2> HIDE DEF f, S
  <2>1. {} \in Q
    BY <1>7, <1>8
  <2>2. \A s \in SUBSET S : s # {} => f[s] = Extended(f[s \ {next[s]}]) /\ g[s] = Extended(g[s \ {next[s]}])
    BY <1>7, <1>8
  <2>3. \A s \in SUBSET S : s # {} /\ s \ {next[s]} \in Q => s \in Q
    <3> HIDE DEF next, Eq
    <3> QED BY <2>2
  <2>4. Inductive(S, next, Q)
    <3> HIDE DEF Q, next
    <3> QED BY <1>1, <2>1, <2>3 DEF Inductive
  <2>5. S \in Q
    <3> HIDE DEF Q, next
    <3> QED BY <1>0, <2>4, SubsetInductive
  <2> QED BY <2>5
<1>11. <<S, g[S]>> \in Best
  BY <1>5
<1>12. <<Cardinality(S), g[S]>> \in Good
  <2> HIDE DEF S
  <2> QED BY <1>11
<1> HIDE DEF f, S
<1> QED BY <1>0, <1>9, <1>10, <1>12

(* Arcs lead from nodes to nodes.                                                        *)
LEMMA ArcsOfGraph ==
  ASSUME SearchInv, NEW a \in Arcs
  PROVE  From(a) \in Nodes /\ To(a) \in Nodes /\ a[3] \in Nat
<1>1. Arcs \subseteq Nodes \X Nodes \X Nat
  BY GraphAssumption DEF SearchInv, SearchTyped, Arcs, Nodes
<1>2. a[1] \in Nodes /\ a[2] \in Nodes /\ a[3] \in Nat
  BY <1>1
<1> QED BY <1>2 DEF From, To

(* A round keeps the walks there are and adds an arc to each.                            *)
LEMMA OneRound ==
  ASSUME SearchInv, NEW costs \in Tables
  PROVE  /\ Extended(costs) \in Tables
         /\ \A n \in Nodes : costs[n] \subseteq Extended(costs)[n]
         /\ \A n \in Nodes, c \in Nat :
              c \in Extended(costs)[n] =>
                c \in costs[n] \/ \E a \in Arcs, b \in Nat : To(a) = n /\ b \in costs[From(a)] /\ c = b + a[3]
         /\ \A a \in Arcs, c \in Nat : c \in costs[From(a)] => c + a[3] \in Extended(costs)[To(a)]
<1> DEFINE more(n) == UNION {{c + a[3] : c \in costs[From(a)]} : a \in {b \in Arcs : To(b) = n}}
<1>1. Extended(costs) = [n \in Nodes |-> costs[n] \cup more(n)]
  BY DEF Extended, Nodes, Arcs
<1>2. \A n, c : c \in more(n) <=> \E a \in Arcs : To(a) = n /\ \E b \in costs[From(a)] : c = b + a[3]
  OBVIOUS
<1>3. \A a \in Arcs : From(a) \in Nodes /\ To(a) \in Nodes /\ a[3] \in Nat
  BY ArcsOfGraph
<1>4. \A n \in Nodes : costs[n] \subseteq Nat
  BY DEF Tables
<1> HIDE DEF more
<1>5. \A n \in Nodes : more(n) \subseteq Nat
  BY <1>2, <1>3, <1>4
<1>6. Extended(costs) \in Tables
  BY <1>1, <1>4, <1>5 DEF Tables
<1>7. \A n \in Nodes, c \in Nat :
        c \in Extended(costs)[n] =>
          c \in costs[n] \/ \E a \in Arcs, b \in Nat : To(a) = n /\ b \in costs[From(a)] /\ c = b + a[3]
  BY <1>1, <1>2, <1>3, <1>4
<1>8. \A a \in Arcs, c \in Nat : c \in costs[From(a)] => c + a[3] \in Extended(costs)[To(a)]
  BY <1>1, <1>2, <1>3
<1> QED BY <1>1, <1>6, <1>7, <1>8

(* The first table.                                                                      *)
LEMMA FirstTable ==
  ASSUME SearchInv
  PROVE  /\ Start \in Tables /\ request.source \in Nodes /\ 0 \in Start[request.source]
         /\ \A n \in Nodes, c \in Nat : c \in Start[n] => n = request.source /\ c = 0
<1>1. request.source \in Nodes
  BY DEF SearchInv, SearchTyped, Requests, Nodes
<1>2. Start = [n \in Nodes |-> IF n = request.source THEN {0} ELSE {}]
  BY DEF Start, Nodes
<1> QED BY <1>1, <1>2 DEF Tables

\* At the end a walk of cost c to n costs no less than the result, or than a settled label of n.
Reached(n, c) ==
  \/ result # NoLabel /\ key[result] <= c
  \/ \E s \in Done : s # result /\ NodeOf(s) = n /\ key[s] <= c

(* So it is when there is a label on n that costs no more, in the queue or not.          *)
LEMMA LabelReaches ==
  ASSUME SearchInv, Finished, NEW n \in Nodes, NEW c \in Nat,
         labels_on_node[n] # NoLabel, key[labels_on_node[n]] <= c
  PROVE  Reached(n, c)
<1>1. PICK l : l = labels_on_node[n]
  OBVIOUS
<1>2. l \in Labels /\ NodeOf(l) = n /\ key[l] \in Nat /\ key[l] <= c /\ l # NoLabel
  BY <1>1, LabelAssumption DEF SearchInv, SearchTyped, OneEach
<1>3. CASE l \in Done
  BY <1>2, <1>3 DEF Reached
<1>4. CASE l \in Queued
  <2>1. result \in Done /\ result # NoLabel
    <3>1. result \in Done \cup {NoLabel}
      BY LabelAssumption DEF SearchInv, SearchTyped, Finished
    <3>2. result # NoLabel
      BY <1>4 DEF SearchInv, Stage
    <3> QED BY <3>1, <3>2
  <2>2. result = current /\ key[result] \in Nat
    BY <2>1 DEF SearchInv, SearchTyped, Stage, Done
  <2>3. key[result] <= key[l]
    BY <1>4, <2>1 DEF SearchInv, InOrder
  <2> QED BY <1>2, <2>1, <2>2, <2>3 DEF Reached
<1> QED BY <1>2, <1>3, <1>4 DEF Done

(* No walk is cheaper than what the search has found.                                    *)
LEMMA WalksReached ==
  ASSUME SearchInv, Finished
  PROVE  \A n \in Nodes, c \in Nat : c \in WalkCosts[n] => Reached(n, c)
<1> DEFINE Fine(costs) == \A n \in Nodes, c \in Nat : c \in costs[n] => Reached(n, c)
           Good == {z \in Nat \X Tables : Fine(z[2])}
<1>1. Fine(Start)
  <2>1. /\ labels_on_node[request.source] # NoLabel /\ key[labels_on_node[request.source]] = 0
        /\ request.source \in Nodes /\ 0 \in Nat /\ 0 <= 0
    BY FirstTable, LabelAssumption DEF SearchInv, Stage, Finished
  <2>2. Reached(request.source, 0)
    <3>1. PICK n, z : n = request.source /\ z = 0
      OBVIOUS
    <3>2. n \in Nodes /\ z \in Nat /\ labels_on_node[n] # NoLabel /\ key[labels_on_node[n]] <= z
      BY <2>1, <3>1
    <3>3. Reached(n, z)
      BY <3>2, LabelReaches
    <3> QED BY <3>1, <3>3
  <2> QED BY <2>2, FirstTable
<1>2. ASSUME NEW costs \in Tables, Fine(costs) PROVE Fine(Extended(costs))
  <2> SUFFICES ASSUME NEW n \in Nodes, NEW c \in Nat, c \in Extended(costs)[n] PROVE Reached(n, c)
    OBVIOUS
  <2>1. CASE c \in costs[n]
    BY <1>2, <2>1
  <2>2. ASSUME NEW a \in Arcs, NEW b \in Nat, To(a) = n, b \in costs[From(a)], c = b + a[3]
        PROVE  Reached(n, c)
    <3>1. From(a) \in Nodes /\ a[3] \in Nat
      BY ArcsOfGraph
    <3>2. Reached(From(a), b)
      BY <1>2, <2>2, <3>1
    <3>3. result # NoLabel => result \in Done /\ key[result] \in Nat
      BY LabelAssumption DEF SearchInv, SearchTyped, Finished, Done
    <3>4. CASE result # NoLabel /\ key[result] <= b
      BY <2>2, <3>1, <3>3, <3>4 DEF Reached
    <3>5. CASE \E s \in Done : s # result /\ NodeOf(s) = From(a) /\ key[s] <= b
      <4>1. PICK s \in Done : s # result /\ NodeOf(s) = From(a) /\ key[s] <= b
        BY <3>5
      <4>2. todo = {}
        <5>1. result \in Labels \/ result = NoLabel
          BY <3>3 DEF Done
        <5> QED BY <5>1 DEF SearchInv, Stage
      <4>3. Followed(a, s)
        BY <4>1, <4>2 DEF SearchInv, Relaxed
      <4>4. labels_on_node[n] # NoLabel /\ key[labels_on_node[n]] <= key[s] + a[3]
        BY <2>2, <4>3 DEF Followed
      <4>5. key[s] \in Nat /\ key[labels_on_node[n]] \in Nat
        BY <4>1, <4>4 DEF SearchInv, SearchTyped, Done
      <4>6. key[labels_on_node[n]] <= c
        BY <2>2, <3>1, <4>1, <4>4, <4>5
      <4> QED BY <4>4, <4>6, LabelReaches
    <3> QED BY <3>2, <3>4, <3>5 DEF Reached
  <2> QED BY <2>1, <2>2, OneRound
<1> HIDE DEF Fine
<1>3. KeptByRounds(Good)
  <2>1. Good \subseteq Nat \X Tables
    OBVIOUS
  <2>2. <<0, Start>> \in Good
    BY <1>1, FirstTable
  <2>3. ASSUME NEW i \in Nat, NEW costs \in Tables, <<i, costs>> \in Good
        PROVE  <<i + 1, Extended(costs)>> \in Good
    <3>1. Fine(Extended(costs))
      BY <1>2, <2>3
    <3>2. Extended(costs) \in Tables /\ i + 1 \in Nat
      BY OneRound
    <3> QED BY <3>1, <3>2
  <2> HIDE DEF Good
  <2> QED BY <2>1, <2>2, <2>3 DEF KeptByRounds
<1>4. <<Cardinality(Nodes), WalkCosts>> \in Good
  <2> HIDE DEF Good
  <2> QED BY <1>3, Rounds
<1>5. Fine(WalkCosts)
  BY <1>4
<1> QED BY <1>5 DEF Fine

(* The costs of all labels are costs of walks: after each round one more of them is.     *)
LEMMA LabelsAreWalks ==
  ASSUME SearchInv
  PROVE  \A l \in Labels : key[l] \in WalkCosts[NodeOf(l)]
<1> DEFINE Covered(costs) == {m \in Labels : key[m] \in costs[NodeOf(m)]}
           Fine(i, costs) == /\ 0 \in costs[request.source]
                             /\ Covered(costs) = Labels \/ Cardinality(Covered(costs)) >= i
           Good == {z \in Nat \X Tables : Fine(z[1], z[2])}
<1>1. \A l \in Labels : NodeOf(l) \in Nodes /\ key[l] \in Nat
  BY DEF SearchInv, SearchTyped, NodeOf
<1>2. /\ IsFiniteSet(Labels) /\ Cardinality(Labels) <= Cardinality(Nodes)
      /\ Cardinality(Labels) \in Nat /\ Cardinality(Nodes) \in Nat
  BY LabelsFew
<1>3. \A costs : /\ Covered(costs) \subseteq Labels /\ IsFiniteSet(Covered(costs))
                 /\ Cardinality(Covered(costs)) \in Nat /\ Cardinality(Covered(costs)) <= Cardinality(Labels)
                 /\ Cardinality(Covered(costs)) = Cardinality(Labels) => Covered(costs) = Labels
  <2> SUFFICES ASSUME NEW costs
               PROVE  /\ Covered(costs) \subseteq Labels /\ IsFiniteSet(Covered(costs))
                      /\ Cardinality(Covered(costs)) \in Nat /\ Cardinality(Covered(costs)) <= Cardinality(Labels)
                      /\ Cardinality(Covered(costs)) = Cardinality(Labels) => Covered(costs) = Labels
    OBVIOUS
  <2> DEFINE C == Covered(costs)
  <2>1. C \in SUBSET Labels
    OBVIOUS
  <2> HIDE DEF C
  <2> QED BY <1>2, <2>1, FS_Subset, FS_CardinalityType DEF C
<1>4. Fine(0, Start)
  <2>1. 0 \in Start[request.source]
    BY FirstTable
  <2>2. Cardinality(Covered(Start)) >= 0
    <3> HIDE DEF Covered
    <3> QED BY <1>3
  <2> HIDE DEF Covered
  <2> QED BY <2>1, <2>2
<1>5. ASSUME NEW i \in Nat, NEW costs \in Tables, Fine(i, costs) PROVE Fine(i + 1, Extended(costs))
  <2> DEFINE more == Extended(costs)
             C == Covered(costs)
             D == Covered(more)
  <2>1. \A n \in Nodes : costs[n] \subseteq more[n]
    BY OneRound
  <2>2. 0 \in more[request.source]
    BY <1>5, <2>1, FirstTable
  <2>3. C \subseteq D
    <3> HIDE DEF more
    <3> QED BY <1>1, <2>1
  <2>4. CASE C = Labels
    <3>1. D = Labels
      BY <2>3, <2>4
    <3> QED BY <2>2, <3>1
  <2>5. CASE C # Labels
    <3>1. PICK l \in Labels \ C : Pred(l) \notin Labels \ C
      <4> DEFINE T == Labels \ C
      <4>1. T \in SUBSET Labels /\ T # {}
        BY <2>5
      <4> HIDE DEF T
      <4>2. \E l \in T : Pred(l) \notin T
        BY <4>1 DEF SearchInv, NoCycle
      <4> QED BY <4>2 DEF T
    <3>2. l \in D
      <4>1. CASE Pred(l) = NoLabel
        <5>1. NodeOf(l) = request.source /\ key[l] = 0
          BY <4>1 DEF SearchInv, Rooted
        <5> HIDE DEF more
        <5> QED BY <2>2, <5>1
      <4>2. CASE Pred(l) # NoLabel
        <5>1. PICK p : p = Pred(l)
          OBVIOUS
        <5>2. p \in Labels
          BY <4>2, <5>1 DEF SearchInv, SearchTyped, Pred
        <5>3. PICK a \in Arcs : Leads(a, l, p)
          BY <4>2, <5>1 DEF SearchInv, Rooted
        <5>4. From(a) = NodeOf(p) /\ To(a) = NodeOf(l) /\ key[l] = key[p] + a[3]
          BY <5>3 DEF Leads
        <5>5. key[p] \in costs[From(a)] /\ key[p] \in Nat
          BY <1>1, <3>1, <5>1, <5>2, <5>4
        <5>6. key[l] \in more[NodeOf(l)]
          BY <5>4, <5>5, OneRound
        <5> HIDE DEF more
        <5> QED BY <5>6
      <4> QED BY <4>1, <4>2
    <3>3. Cardinality(D) >= i + 1
      <4>1. /\ IsFiniteSet(C) /\ IsFiniteSet(D) /\ Cardinality(C) >= i
            /\ Cardinality(C) \in Nat /\ Cardinality(D) \in Nat
        <5> HIDE DEF Covered, more
        <5> QED BY <1>3, <1>5, <2>5
      <4>2. C \cup {l} \in SUBSET D /\ l \notin C
        BY <2>3, <3>1, <3>2
      <4> HIDE DEF C, D
      <4>3. Cardinality(C \cup {l}) = Cardinality(C) + 1
        BY <4>1, <4>2, FS_AddElement
      <4>4. Cardinality(C \cup {l}) <= Cardinality(D)
        BY <4>1, <4>2, FS_Subset
      <4> QED BY <4>1, <4>3, <4>4
    <3> QED BY <2>2, <3>3
  <2> QED BY <2>4, <2>5
<1> HIDE DEF Fine
<1>6. KeptByRounds(Good)
  <2>1. Good \subseteq Nat \X Tables
    OBVIOUS
  <2>2. <<0, Start>> \in Good
    BY <1>4, FirstTable
  <2>3. ASSUME NEW i \in Nat, NEW costs \in Tables, <<i, costs>> \in Good
        PROVE  <<i + 1, Extended(costs)>> \in Good
    <3>1. Fine(i + 1, Extended(costs))
      BY <1>5, <2>3
    <3>2. Extended(costs) \in Tables /\ i + 1 \in Nat
      BY OneRound
    <3> QED BY <3>1, <3>2
  <2> HIDE DEF Good
  <2> QED BY <2>1, <2>2, <2>3 DEF KeptByRounds
<1>7. <<Cardinality(Nodes), WalkCosts>> \in Good
  <2> HIDE DEF Good
  <2> QED BY <1>6, Rounds
<1>8. Fine(Cardinality(Nodes), WalkCosts)
  BY <1>7
<1>9. Covered(WalkCosts) = Labels
  <2> HIDE DEF Covered
  <2> QED BY <1>2, <1>3, <1>8 DEF Fine
<1> QED BY <1>9

(* The label solve() returns is the end of a path of the least cost, whatever graph, arc *)
(* order and labels replaced in the queue; it returns none only when there is no walk.   *)
THEOREM ShortestIsFound ==
  ASSUME Allowed = {}
  PROVE  DijkstraSpec => []ShortestFound
<1>1. ASSUME Inv PROVE ShortestFound
  <2> SUFFICES ASSUME request.kind = "search", Finished
               PROVE  /\ result = NoLabel => WalkCosts[request.target] = {}
                      /\ result # NoLabel =>
                           /\ label[result].node = request.target /\ key[result] \in WalkCosts[request.target]
                           /\ \A c \in WalkCosts[request.target] : key[result] <= c
                           /\ \A l \in DOMAIN label :
                                LET pred == label[l].predecessor
                                IN  IF pred = NoLabel THEN label[l].node = request.source /\ key[l] = 0
                                    ELSE \E a \in request.graph.arcs :
                                           /\ From(a) = label[pred].node /\ To(a) = label[l].node
                                           /\ key[l] = key[pred] + a[3]
    BY DEF ShortestFound
  <2>1. SearchInv
    BY <1>1 DEF Inv
  <2>2. request.target \in Nodes
    BY <2>1 DEF SearchInv, SearchTyped, Requests, Nodes
  <2>3. WalkCosts[request.target] \subseteq Nat
    <3> DEFINE All == Nat \X Tables
    <3>1. KeptByRounds(All)
      BY <2>1, OneRound, FirstTable DEF KeptByRounds
    <3>2. <<Cardinality(Nodes), WalkCosts>> \in All
      <4> HIDE DEF All
      <4> QED BY <2>1, <3>1, Rounds
    <3> QED BY <2>2, <3>2 DEF Tables
  <2>4. \A s \in Done : NodeOf(s) = request.target => s = result
    BY <2>1 DEF SearchInv, Stage
  <2>5. \A c \in WalkCosts[request.target] : result # NoLabel /\ key[result] <= c
    <3> SUFFICES ASSUME NEW c \in WalkCosts[request.target] PROVE result # NoLabel /\ key[result] <= c
      OBVIOUS
    <3>1. Reached(request.target, c)
      BY <2>1, <2>2, <2>3, WalksReached
    <3> QED BY <2>4, <3>1 DEF Reached
  <2>6. ASSUME result # NoLabel
        PROVE  label[result].node = request.target /\ key[result] \in WalkCosts[request.target]
    <3>1. result \in Labels
      BY <2>1, <2>6, LabelAssumption DEF SearchInv, SearchTyped, Finished, Done
    <3>2. NodeOf(result) = request.target
      BY <2>1, <3>1 DEF SearchInv, Stage
    <3> QED BY <2>1, <3>1, <3>2, LabelsAreWalks DEF NodeOf
  <2>7. \A l \in DOMAIN label :
          LET pred == label[l].predecessor
          IN  IF pred = NoLabel THEN label[l].node = request.source /\ key[l] = 0
              ELSE \E a \in request.graph.arcs :
                     From(a) = label[pred].node /\ To(a) = label[l].node /\ key[l] = key[pred] + a[3]
    BY <2>1 DEF SearchInv, Rooted, Leads, Labels, Pred, NodeOf, Arcs
  <2> QED BY <2>5, <2>6, <2>7
<1>2. Inv => ShortestFound
  BY <1>1
<1> QED BY <1>2, InvHolds, PTL

-----------------------------------------------------------------------------
(***************************************************************************)
(* Proofs about SharedObject for any set of handles, bodies and values and *)
(* any behaviour of the clients.                                           *)
(***************************************************************************)

Static(b) == IF b = EmptyRep THEN 1 ELSE 0

\* A counter never falls behind the number of hosts; without exceptions it is exact.
RefcountCovers == \A b \in Body :
  /\ refc[b] >= Cardinality(Hosts(b)) + Static(b)
  /\ ~Throwing => refc[b] = Cardinality(Hosts(b)) + Static(b)

(***************************************************************************)
(* The inductive invariant.  TypeOK alone is not inductive: that counting  *)
(* down stays in Nat needs the counters to cover the hosts, and that a     *)
(* fresh body has no hosts needs NoDanglingHost.                           *)
(***************************************************************************)
IInv ==
  /\ TypeOK
  /\ RefcountCovers
  /\ NoDanglingHost
  /\ obj[EmptyRep] # None

USE HandleAssumption, BodyAssumption, ValueAssumption, ClientAssumption

-----------------------------------------------------------------------------
(* Counting hosts *)

\* Any set of handles is finite.
LEMMA HandlesFinite ==
  ASSUME NEW S \in SUBSET Handle
  PROVE  IsFiniteSet(S) /\ Cardinality(S) \in Nat
BY FS_Subset, FS_CardinalityType

\* A body whose storage is free has no hosts.
LEMMA FreshUnattached ==
  ASSUME IInv, NEW b \in Body, Fresh(b)
  PROVE  Hosts(b) = {} /\ b # EmptyRep
BY DEF IInv, Fresh, NoDanglingHost, Hosts, Live

\* The change of the counters that goes with moving a handle from body d to body c; a fresh
\* body starts with 1.
Moved(b, d, c) ==
  (IF c = b THEN (IF Fresh(b) THEN 1 ELSE refc[b] + 1) ELSE refc[b])
    - (IF d = b THEN 1 ELSE 0)

\* One handle is moved, or created, or destroyed: the invariant is preserved if the counters
\* follow and no storage is given back before its counter is zero.
LEMMA MoveStep ==
  ASSUME IInv,
         NEW h \in Handle, NEW c \in Body \cup {None},
         body' = [body EXCEPT ![h] = c],
         refc' \in [Body -> Int],
         obj' \in [Body -> Value \cup {None}],
         owner' \in [Handle -> Handle \cup {None, Orphan}],
         aliases' \in [Handle -> SUBSET Handle],
         \A b \in Body : /\ refc'[b] >= Moved(b, body[h], c)
                         /\ ~Throwing => refc'[b] = Moved(b, body[h], c),
         \A b \in Body : obj'[b] = None => refc'[b] = 0 \/ (obj[b] = None /\ b # c)
  PROVE  IInv'
<1>. DEFINE N(b) == Cardinality(Hosts(b))
            NN(b) == Cardinality({g \in Handle : body'[g] = b})
<1>1. TypeOK /\ RefcountCovers /\ NoDanglingHost /\ obj[EmptyRep] # None BY DEF IInv
<1>2. ASSUME NEW b \in Body
      PROVE  /\ N(b) \in Nat /\ NN(b) \in Nat
             /\ NN(b) = (N(b) + (IF c = b THEN 1 ELSE 0)) - (IF body[h] = b THEN 1 ELSE 0)
  <2>. DEFINE A == Hosts(b)
              C == {g \in Handle : body'[g] = b}
  <2>0. body \in [Handle -> Body \cup {None}] BY <1>1 DEF TypeOK
  <2>1. A \in SUBSET Handle /\ C \in SUBSET Handle BY DEF Hosts
  <2>2. IsFiniteSet(A) /\ Cardinality(A) \in Nat /\ Cardinality(C) \in Nat
    <3>. HIDE DEF A, C
    <3>. QED BY <2>1, HandlesFinite
  <2>3. body[h] = b <=> h \in A BY DEF Hosts
  <2>4. CASE c = b
    <3>1. C = A \cup {h} BY <2>0, <2>4 DEF Hosts
    <3>2. Cardinality(C) = IF h \in A THEN Cardinality(A) ELSE Cardinality(A) + 1
      <4>. HIDE DEF A, C
      <4>. QED BY <2>2, <3>1, FS_AddElement
    <3>. HIDE DEF A
    <3>. QED BY <2>2, <2>3, <2>4, <3>2 DEF A
  <2>5. CASE c # b
    <3>1. C = A \ {h} BY <2>0, <2>5 DEF Hosts
    <3>2. Cardinality(C) = IF h \in A THEN Cardinality(A) - 1 ELSE Cardinality(A)
      <4>. HIDE DEF A, C
      <4>. QED BY <2>2, <3>1, FS_RemoveElement
    <3>. QED BY <2>2, <2>3, <2>5, <3>2
  <2>. QED BY <2>4, <2>5
<1>3. ASSUME NEW b \in Body
      PROVE  /\ refc'[b] >= NN(b) + Static(b)
             /\ ~Throwing => refc'[b] = NN(b) + Static(b)
  <2>1. refc[b] \in Nat /\ refc'[b] \in Int BY <1>1 DEF TypeOK
  <2>2. refc[b] >= N(b) + Static(b) /\ (~Throwing => refc[b] = N(b) + Static(b))
    BY <1>1 DEF RefcountCovers
  <2>3. Static(b) \in {0, 1} BY DEF Static
  <2>4. CASE c = b /\ Fresh(b)
    <3>1. Hosts(b) = {} /\ b # EmptyRep BY <2>4, FreshUnattached
    <3>2. N(b) = 0 /\ Static(b) = 0 BY <3>1, FS_EmptySet DEF Static
    <3>3. body[h] # b BY <3>1 DEF Hosts
    <3>4. NN(b) = 1 BY <1>2, <2>4, <3>2, <3>3
    <3>5. Moved(b, body[h], c) = 1 BY <2>4, <3>3 DEF Moved
    <3>. QED BY <3>2, <3>4, <3>5
  <2>5. CASE ~(c = b /\ Fresh(b))
    <3>1. Moved(b, body[h], c) = (refc[b] + (IF c = b THEN 1 ELSE 0)) - (IF body[h] = b THEN 1 ELSE 0)
      BY <2>1, <2>5 DEF Moved
    <3>. HIDE DEF N, NN
    <3>. QED BY <1>2, <2>1, <2>2, <2>3, <3>1
  <2>. QED BY <2>4, <2>5
<1>4. RefcountCovers'
  <2>1. \A b \in Body : Hosts(b)' = {g \in Handle : body'[g] = b} BY DEF Hosts
  <2>2. \A b \in Body : Static(b)' = Static(b) BY DEF Static
  <2>. QED BY <1>3, <2>1, <2>2 DEF RefcountCovers
<1>5. refc' \in [Body -> Nat]
  <2>1. \A b \in Body : Static(b) \in Nat BY DEF Static
  <2>2. \A b \in Body : refc'[b] \in Nat
    <3>. HIDE DEF NN
    <3>. QED BY <1>2, <1>3, <2>1
  <2>. QED BY <2>2
<1>6. TypeOK' BY <1>1, <1>5 DEF TypeOK
<1>7. ASSUME NEW b \in Body, refc'[b] = 0
      PROVE  b # EmptyRep /\ \A g \in Handle : body'[g] # b
  <2>1. NN(b) \in Nat /\ Static(b) \in {0, 1} /\ 0 >= NN(b) + Static(b)
    BY <1>2, <1>3, <1>7 DEF Static
  <2>2. NN(b) = 0 /\ Static(b) = 0
    <3>. HIDE DEF NN
    <3>. QED BY <2>1
  <2>3. IsFiniteSet({g \in Handle : body'[g] = b})
    <3>1. {g \in Handle : body'[g] = b} \in SUBSET Handle OBVIOUS
    <3>. QED BY <3>1, FS_Subset
  <2>4. {g \in Handle : body'[g] = b} = {} BY <2>2, <2>3, FS_EmptySet
  <2>. QED BY <2>2, <2>4 DEF Static
<1>8. NoDanglingHost'
  <2>. SUFFICES ASSUME NEW g \in Handle, body'[g] # None, obj'[body'[g]] = None
                PROVE  FALSE
    BY DEF NoDanglingHost, Live
  <2>1. body'[g] \in Body BY <1>6 DEF TypeOK
  <2>2. obj[body'[g]] = None /\ body'[g] # c BY <1>7, <2>1
  <2>3. body'[g] = body[g] BY <1>1, <2>2 DEF TypeOK
  <2>. QED BY <1>1, <2>1, <2>2, <2>3 DEF NoDanglingHost, Live
<1>9. obj'[EmptyRep] # None BY <1>1, <1>7
<1>. QED BY <1>4, <1>6, <1>8, <1>9 DEF IInv

\* Only contents change: the invariant is preserved if no storage is given back.
LEMMA StayStep ==
  ASSUME IInv, UNCHANGED <<body, refc, owner, aliases>>,
         obj' \in [Body -> Value \cup {None}],
         \A b \in Body : obj'[b] = None => obj[b] = None
  PROVE  IInv'
<1>1. TypeOK' BY DEF IInv, TypeOK
<1>2. RefcountCovers' BY DEF IInv, RefcountCovers, Hosts, Static
<1>3. NoDanglingHost' BY DEF IInv, NoDanglingHost, Live, TypeOK
<1>. QED BY <1>1, <1>2, <1>3 DEF IInv

\* A family is moved to a fresh body as a whole.
LEMMA FamilyStep ==
  ASSUME IInv, NEW h \in Handle, NEW v \in Value, IsAlias(h), DivorceFamily(h, v)
  PROVE  IInv'
<1>. DEFINE F == Family(h)
<1>1. TypeOK /\ RefcountCovers /\ NoDanglingHost /\ obj[EmptyRep] # None BY DEF IInv
<1>2. F \in SUBSET Handle BY <1>1 DEF TypeOK, IsAlias, Family
<1>3. PICK b \in Body :
        /\ Fresh(b)
        /\ body' = [g \in Handle |-> IF g \in F THEN b ELSE body[g]]
        /\ refc' = [c \in Body |-> IF c = b THEN Cardinality(F)
                                            ELSE refc[c] - Cardinality(Hosts(c) \cap F)]
        /\ obj' = [obj EXCEPT ![b] = v]
        /\ UNCHANGED <<owner, aliases>>
  BY DEF DivorceFamily
<1>. HIDE DEF F
<1>4. Hosts(b) = {} /\ b # EmptyRep BY <1>3, FreshUnattached
<1>5. Cardinality(F) \in Nat BY <1>2, HandlesFinite
<1>6. Hosts(b)' = F /\ Static(b)' = 0 BY <1>2, <1>3, <1>4 DEF Hosts, Static
<1>7. ASSUME NEW c \in Body, c # b
      PROVE  /\ Cardinality(Hosts(c)') \in Nat
             /\ refc'[c] \in Int
             /\ refc'[c] >= Cardinality(Hosts(c)') + Static(c)
             /\ ~Throwing => refc'[c] = Cardinality(Hosts(c)') + Static(c)
  <2>. DEFINE A == Hosts(c)
              C == Hosts(c)'
              I == Hosts(c) \cap F
  <2>1. C = A \ F BY <1>3, <1>7 DEF Hosts
  <2>2. A \in SUBSET Handle /\ C \in SUBSET Handle /\ I \in SUBSET Handle BY DEF Hosts
  <2>3. refc'[c] = refc[c] - Cardinality(I) BY <1>3, <1>7
  <2>4. /\ refc[c] >= Cardinality(A) + Static(c)
        /\ ~Throwing => refc[c] = Cardinality(A) + Static(c)
        /\ refc[c] \in Nat
    BY <1>1 DEF RefcountCovers, TypeOK
  <2>5. Static(c) \in Nat BY DEF Static
  <2>6. I = A \cap F OBVIOUS
  <2>. HIDE DEF A, C, I
  <2>7. IsFiniteSet(A) /\ Cardinality(A) \in Nat /\ Cardinality(C) \in Nat /\ Cardinality(I) \in Nat
    BY <2>2, HandlesFinite
  <2>8. Cardinality(C) = Cardinality(A) - Cardinality(I) BY <2>1, <2>6, <2>7, FS_Difference
  <2>. QED BY <2>3, <2>4, <2>5, <2>7, <2>8 DEF C
<1>8. RefcountCovers'
  <2>1. refc'[b] = Cardinality(F) BY <1>3
  <2>2. ASSUME NEW c \in Body
        PROVE  /\ refc'[c] >= Cardinality(Hosts(c)') + Static(c)'
               /\ ~Throwing => refc'[c] = Cardinality(Hosts(c)') + Static(c)'
    <3>1. CASE c = b BY <1>5, <1>6, <2>1, <3>1
    <3>2. CASE c # b
      <4>1. Static(c)' = Static(c) BY DEF Static
      <4>. QED BY <1>7, <3>2, <4>1
    <3>. QED BY <3>1, <3>2
  <2>. QED BY <2>2 DEF RefcountCovers
<1>9. TypeOK'
  <2>1. ASSUME NEW c \in Body PROVE refc'[c] \in Nat
    <3>1. CASE c = b BY <1>3, <1>5, <3>1
    <3>2. CASE c # b
      <4>1. Static(c) \in Nat BY DEF Static
      <4>. QED BY <1>7, <3>2, <4>1
    <3>. QED BY <3>1, <3>2
  <2>2. refc' \in [Body -> Nat] BY <1>3, <2>1
  <2>. QED BY <1>1, <1>3, <2>2 DEF TypeOK
<1>10. NoDanglingHost' BY <1>1, <1>3 DEF NoDanglingHost, Live, TypeOK
<1>11. obj'[EmptyRep] # None BY <1>1, <1>3, <1>4 DEF TypeOK
<1>. QED BY <1>8, <1>9, <1>10, <1>11 DEF IInv

\* Two handles trade places: every body keeps the number of its hosts.
LEMMA ExchangeStep ==
  ASSUME IInv, NEW f \in Handle, NEW g \in Handle, Exchange(f, g)
  PROVE  IInv'
<1>. DEFINE R(h) == Renamed(h, f, g)
<1>1. TypeOK /\ RefcountCovers /\ NoDanglingHost /\ obj[EmptyRep] # None BY DEF IInv
<1>2. \A h \in Handle : R(h) \in Handle /\ R(R(h)) = h BY DEF Renamed
<1>3. /\ body' = [h \in Handle |-> body[R(h)]]
      /\ owner' = [h \in Handle |-> IF owner[R(h)] \in Handle THEN R(owner[R(h)])
                                                               ELSE owner[R(h)]]
      /\ aliases' = [h \in Handle |-> {R(a) : a \in aliases[R(h)]}]
      /\ UNCHANGED <<refc, obj>>
  BY DEF Exchange
<1>. HIDE DEF R
<1>4. TypeOK'
  <2>1. body' \in [Handle -> Body \cup {None}] BY <1>1, <1>2, <1>3 DEF TypeOK
  <2>2. owner' \in [Handle -> Handle \cup {None, Orphan}] BY <1>1, <1>2, <1>3 DEF TypeOK
  <2>3. aliases' \in [Handle -> SUBSET Handle] BY <1>1, <1>2, <1>3 DEF TypeOK
  <2>. QED BY <1>1, <1>3, <2>1, <2>2, <2>3 DEF TypeOK
<1>5. ASSUME NEW b \in Body PROVE Cardinality(Hosts(b)') = Cardinality(Hosts(b))
  <2>. DEFINE A == Hosts(b)
              C == Hosts(b)'
              r == [h \in A |-> R(h)]
  <2>1. \A h \in Handle : h \in C <=> R(h) \in A BY <1>2, <1>3 DEF Hosts
  <2>2. A \in SUBSET Handle /\ C \in SUBSET Handle BY DEF Hosts
  <2>. HIDE DEF A, C
  <2>3. r \in [A -> C] BY <1>2, <2>1, <2>2
  <2>4. \A h, k \in A : r[h] = r[k] => h = k BY <1>2, <2>2
  <2>5. \A k \in C : \E h \in A : r[h] = k BY <1>2, <2>1, <2>2
  <2>6. r \in Bijection(A, C) BY <2>3, <2>4, <2>5 DEF Bijection, Injection, Surjection, IsInjective
  <2>7. ExistsBijection(A, C) BY <2>6 DEF ExistsBijection
  <2>8. Cardinality(C) = Cardinality(A) BY <2>2, <2>7, HandlesFinite, FS_Bijection
  <2>. QED BY <2>8 DEF A, C
<1>6. RefcountCovers' BY <1>1, <1>3, <1>5 DEF RefcountCovers, Static
<1>7. NoDanglingHost' BY <1>1, <1>2, <1>3 DEF NoDanglingHost, Live
<1>. QED BY <1>1, <1>3, <1>4, <1>6, <1>7 DEF IInv

-----------------------------------------------------------------------------
(* The actions *)

LinksTyped ==
  /\ owner' \in [Handle -> Handle \cup {None, Orphan}]
  /\ aliases' \in [Handle -> SUBSET Handle]

\* The operations of AliasSet keep the types of the links.
LEMMA LinksKeepTypes ==
  ASSUME TypeOK, NEW h \in Handle, NEW g \in Handle
  PROVE  /\ Enter(h, g) => LinksTyped
         /\ Forget(h) => LinksTyped
         /\ CopyLinks(h, g) => LinksTyped
         /\ UNCHANGED <<owner, aliases>> => LinksTyped
<1>1. Enter(h, g) => LinksTyped BY DEF TypeOK, Enter, LinksTyped
<1>2. Forget(h) => LinksTyped BY DEF TypeOK, Forget, LinksTyped
<1>3. CopyLinks(h, g) => LinksTyped BY DEF TypeOK, CopyLinks, Enter, LinksTyped, IsAlias
<1>4. UNCHANGED <<owner, aliases>> => LinksTyped BY DEF TypeOK, LinksTyped
<1>. QED BY <1>1, <1>2, <1>3, <1>4

\* A live handle moves to a fresh body.
LEMMA NewBodyStep ==
  ASSUME IInv, NEW h \in Handle, NEW v \in Value, Live(h), NewBody(h, v), LinksTyped
  PROVE  IInv'
<1>1. TypeOK /\ NoDanglingHost BY DEF IInv
<1>2. PICK b \in Body :
        /\ Fresh(b)
        /\ body' = [body EXCEPT ![h] = b]
        /\ refc' = [refc EXCEPT ![body[h]] = @ - 1, ![b] = 1]
        /\ obj' = [Left(body[h], refc') EXCEPT ![b] = v]
  BY DEF NewBody
<1>3. body[h] \in Body /\ body[h] # b BY <1>1, <1>2 DEF TypeOK, Live, NoDanglingHost, Fresh
<1>4. refc' \in [Body -> Int] BY <1>1, <1>2, <1>3 DEF TypeOK
<1>5. obj' \in [Body -> Value \cup {None}] BY <1>1, <1>2, <1>3 DEF TypeOK, Left
<1>6. \A c \in Body : refc'[c] = Moved(c, body[h], b)
  BY <1>1, <1>2, <1>3 DEF TypeOK, Moved
<1>7. \A c \in Body : Moved(c, body[h], b) \in Int BY <1>1 DEF TypeOK, Moved
<1>8. \A c \in Body : obj'[c] = None => refc'[c] = 0 \/ (obj[c] = None /\ c # b)
  BY <1>1, <1>2, <1>3 DEF TypeOK, Left
<1>9. \A c \in Body : /\ refc'[c] >= Moved(c, body[h], b)
                      /\ ~Throwing => refc'[c] = Moved(c, body[h], b)
  BY <1>6, <1>7
<1>10. body' = [body EXCEPT ![h] = b] /\ b \in Body \cup {None} BY <1>2
<1>. QED BY <1>10, <1>4, <1>5, <1>8, <1>9, MoveStep DEF LinksTyped

\* A handle is attached to the body c that exists already, possibly without being counted off
\* its old body d.
LEMMA AttachStep ==
  ASSUME IInv, NEW h \in Handle, NEW c \in Body, obj[c] # None,
         body' = [body EXCEPT ![h] = c],
         refc' \in [Body -> Int], LinksTyped,
         obj' = obj \/ (Live(h) /\ obj' = Left(body[h], refc')),
         \A b \in Body :
           LET n == (IF c = b THEN refc[b] + 1 ELSE refc[b]) - (IF body[h] = b THEN 1 ELSE 0)
           IN  refc'[b] >= n /\ (~Throwing => refc'[b] = n)
  PROVE  IInv'
<1>1. TypeOK BY DEF IInv
<1>2. obj' \in [Body -> Value \cup {None}] BY <1>1 DEF TypeOK, Left
<1>3. \A b \in Body : obj'[b] = None => refc'[b] = 0 \/ (obj[b] = None /\ b # c)
  BY <1>1 DEF TypeOK, Left
<1>4. \A b \in Body : /\ refc'[b] >= Moved(b, body[h], c)
                      /\ ~Throwing => refc'[b] = Moved(b, body[h], c)
  BY DEF Moved, Fresh
<1>5. c \in Body \cup {None} /\ body' = [body EXCEPT ![h] = c] OBVIOUS
<1>6. LinksTyped /\ refc' \in [Body -> Int] OBVIOUS
<1>. QED BY <1>2, <1>3, <1>4, <1>5, <1>6, MoveStep DEF LinksTyped

\* Every operation preserves the invariant.
LEMMA NextStep ==
  ASSUME IInv, Next
  PROVE  IInv'
<1>1. TypeOK /\ NoDanglingHost /\ obj[EmptyRep] # None BY DEF IInv
<1>2. ASSUME NEW h \in Handle, Live(h)
      PROVE  body[h] \in Body /\ obj[body[h]] \in Value
  BY <1>1, <1>2 DEF TypeOK, Live, NoDanglingHost
<1>3. ASSUME NEW h \in Handle, NEW v \in Value, Construct(h, v) PROVE IInv'
  <2>0. LinksTyped /\ body[h] = None BY <1>1, <1>3, LinksKeepTypes DEF Construct, Live
  <2>1. PICK b \in Body :
          /\ IF v = EmptyValue THEN b = EmptyRep ELSE Fresh(b)
          /\ body' = [body EXCEPT ![h] = b]
          /\ refc' = [refc EXCEPT ![b] = IF v = EmptyValue THEN @ + 1 ELSE 1]
          /\ obj' = [obj EXCEPT ![b] = v]
    BY <1>3 DEF Construct
  <2>2. refc' \in [Body -> Int] BY <1>1, <2>1 DEF TypeOK
  <2>3. obj' \in [Body -> Value \cup {None}] BY <1>1, <2>1 DEF TypeOK
  <2>4. \A c \in Body : refc'[c] = Moved(c, body[h], b)
    BY <1>1, <2>0, <2>1 DEF TypeOK, Moved, Fresh
  <2>5. \A c \in Body : Moved(c, body[h], b) \in Int BY <1>1 DEF TypeOK, Moved
  <2>6. \A c \in Body : /\ refc'[c] >= Moved(c, body[h], b)
                        /\ ~Throwing => refc'[c] = Moved(c, body[h], b)
    BY <2>4, <2>5
  <2>7. \A c \in Body : obj'[c] = None => refc'[c] = 0 \/ (obj[c] = None /\ c # b)
    BY <1>1, <2>1 DEF TypeOK
  <2>8. b \in Body \cup {None} /\ body' = [body EXCEPT ![h] = b] BY <2>1
  <2>. QED BY <2>0, <2>2, <2>3, <2>6, <2>7, <2>8, MoveStep DEF LinksTyped
<1>4. ASSUME NEW h \in Handle, NEW g \in Handle, Copy(h, g) \/ MakeAlias(h, g) PROVE IInv'
  <2>1. LinksTyped BY <1>1, <1>4, LinksKeepTypes DEF Copy, MakeAlias
  <2>2. Live(g) /\ body[h] = None /\ ShareBody(h, g) BY <1>4 DEF Copy, MakeAlias, Live
  <2>3. body[g] \in Body /\ obj[body[g]] # None BY <1>2, <2>2
  <2>4. refc' \in [Body -> Int] BY <1>1, <2>2, <2>3 DEF TypeOK, ShareBody
  <2>5. \A b \in Body :
          LET n == (IF body[g] = b THEN refc[b] + 1 ELSE refc[b]) - (IF body[h] = b THEN 1 ELSE 0)
          IN  refc'[b] >= n /\ (~Throwing => refc'[b] = n)
    BY <1>1, <2>2, <2>3 DEF TypeOK, ShareBody
  <2>6. body' = [body EXCEPT ![h] = body[g]] /\ obj' = obj BY <2>2 DEF ShareBody
  <2>. QED BY <2>1, <2>3, <2>4, <2>5, <2>6, AttachStep
<1>5. ASSUME NEW h \in Handle, Destroy(h) PROVE IInv'
  <2>0. Live(h) /\ body[h] \in Body /\ body[h] # None BY <1>2, <1>5 DEF Destroy, Live
  <2>1. LinksTyped
    <3>1. CASE IsOwner(h) BY <1>1, <1>5, <3>1, LinksKeepTypes DEF Destroy
    <3>2. CASE ~IsOwner(h) BY <1>1, <1>5, <3>2 DEF Destroy, TypeOK, LinksTyped
    <3>. QED BY <3>1, <3>2
  <2>2. /\ body' = [body EXCEPT ![h] = None]
        /\ refc' = [refc EXCEPT ![body[h]] = @ - 1]
        /\ obj' = Left(body[h], refc')
    BY <1>5 DEF Destroy
  <2>3. refc' \in [Body -> Int] BY <1>1, <2>0, <2>2 DEF TypeOK
  <2>4. obj' \in [Body -> Value \cup {None}] BY <1>1, <2>2 DEF TypeOK, Left
  <2>5. \A c \in Body : /\ refc'[c] >= Moved(c, body[h], None)
                        /\ ~Throwing => refc'[c] = Moved(c, body[h], None)
    BY <1>1, <2>0, <2>2 DEF TypeOK, Moved
  <2>6. \A c \in Body : obj'[c] = None => refc'[c] = 0 \/ (obj[c] = None /\ c # None)
    BY <1>1, <2>0, <2>2 DEF TypeOK, Left
  <2>7. body' = [body EXCEPT ![h] = None] /\ None \in Body \cup {None} BY <2>2
  <2>. QED BY <2>1, <2>3, <2>4, <2>5, <2>6, <2>7, MoveStep DEF LinksTyped
<1>6. ASSUME NEW h \in Handle, NEW g \in Handle, Assign(h, g) PROVE IInv'
  <2>1. LinksTyped BY <1>1, <1>6, LinksKeepTypes DEF Assign
  <2>2. /\ body[h] \in Body /\ body[g] \in Body /\ obj[body[g]] # None /\ Live(h)
        /\ body' = [body EXCEPT ![h] = body[g]]
        /\ refc' = [refc EXCEPT ![body[g]] = @ + 1, ![body[h]] = @ - 1]
        /\ obj' = Left(body[h], refc')
    BY <1>2, <1>6 DEF Assign
  <2>3. refc' \in [Body -> Int] BY <1>1, <2>2 DEF TypeOK
  <2>4. \A b \in Body :
          LET n == (IF body[g] = b THEN refc[b] + 1 ELSE refc[b]) - (IF body[h] = b THEN 1 ELSE 0)
          IN  refc'[b] >= n /\ (~Throwing => refc'[b] = n)
    BY <1>1, <2>2 DEF TypeOK
  <2>. QED BY ZenonT(30), <2>1, <2>2, <2>3, <2>4, AttachStep
<1>7. ASSUME NEW h \in Handle, NEW v \in Value, Live(h), CopyOnWrite(h, v) PROVE IInv'
  <2>1. CASE IsOwner(h) /\ NewBody(h, v) /\ Forget(h)
    BY <1>1, <1>7, <2>1, LinksKeepTypes, NewBodyStep
  <2>2. CASE IsAlias(h) /\ DivorceFamily(h, v) BY <2>2, FamilyStep
  <2>. QED BY <1>7, <2>1, <2>2 DEF CopyOnWrite
<1>8. ASSUME NEW h \in Handle, NEW v \in Value, Live(h),
             obj' = [obj EXCEPT ![body[h]] = v], UNCHANGED <<body, refc, owner, aliases>>
      PROVE  IInv'
  <2>1. obj' \in [Body -> Value \cup {None}] BY <1>1, <1>8 DEF TypeOK
  <2>2. \A b \in Body : obj'[b] = None => obj[b] = None BY <1>1, <1>8 DEF TypeOK
  <2>. QED BY <1>8, <2>1, <2>2, StayStep
<1>9. ASSUME NEW h \in Handle, NEW v \in Value, Write(h, v) PROVE IInv'
  BY <1>7, <1>8, <1>9 DEF Write, InPlace
<1>10. ASSUME NEW h \in Handle, NEW v \in Value, Live(h), NewBody(h, v), UNCHANGED <<owner, aliases>>
       PROVE  IInv'
  BY <1>1, <1>10, LinksKeepTypes, NewBodyStep
<1>11. ASSUME NEW h \in Handle, NEW v \in Value, AssignValues(h, v) PROVE IInv'
  BY <1>7, <1>10, <1>11 DEF AssignValues
<1>12. ASSUME NEW h \in Handle, NEW v \in Value, Replace(h, v) PROVE IInv'
  BY <1>8, <1>10, <1>12 DEF Replace
<1>13. ASSUME NEW h \in Handle, NEW v \in Value, Resize(h, v) PROVE IInv'
  BY <1>10, <1>13 DEF Resize
<1>14. ASSUME NEW h \in Handle, NEW v \in Value, Extend(h, v) PROVE IInv'
  <2>1. Live(h) /\ NewBody(h, v) /\ Forget(h) BY <1>14 DEF Extend
  <2>2. LinksTyped BY <1>1, <2>1, LinksKeepTypes
  <2>. QED BY <2>1, <2>2, NewBodyStep
<1>15. ASSUME NEW h \in Handle, Clear(h) PROVE IInv'
  <2>1. LinksTyped BY <1>1, <1>15, LinksKeepTypes DEF Clear
  <2>2. /\ body[h] \in Body /\ Live(h)
        /\ body' = [body EXCEPT ![h] = EmptyRep]
        /\ refc' = [refc EXCEPT ![body[h]] = @ - 1, ![EmptyRep] = @ + 1]
        /\ obj' = Left(body[h], refc')
    BY <1>2, <1>15 DEF Clear
  <2>3. refc' \in [Body -> Int] BY <1>1, <2>2 DEF TypeOK
  <2>4. \A b \in Body :
          LET n == (IF EmptyRep = b THEN refc[b] + 1 ELSE refc[b]) - (IF body[h] = b THEN 1 ELSE 0)
          IN  refc'[b] >= n /\ (~Throwing => refc'[b] = n)
    BY <1>1, <2>2 DEF TypeOK
  <2>5. body' = [body EXCEPT ![h] = EmptyRep] /\ (obj' = obj \/ (Live(h) /\ obj' = Left(body[h], refc')))
    BY <2>2
  <2>. QED BY <1>1, <2>1, <2>3, <2>4, <2>5, AttachStep
<1>16. ASSUME NEW h \in Handle, NEW g \in Handle, Swap(h, g) \/ Relocate(h, g) PROVE IInv'
  BY <1>16, ExchangeStep DEF Swap, Relocate
<1>17. ASSUME NEW h \in Handle, Throwing, Live(h), UNCHANGED <<owner, aliases>>,
              obj' = obj \/ obj' = Left(body[h], refc'),
              \/ Emptied(h, [refc EXCEPT ![body[h]] = @ - 1])
              \/ Emptied(h, refc)
       PROVE  IInv'
  <2>1. LinksTyped BY <1>1, <1>17, LinksKeepTypes
  <2>2. body[h] \in Body BY <1>2, <1>17
  <2>3. PICK rc : /\ rc = refc \/ rc = [refc EXCEPT ![body[h]] = @ - 1]
                  /\ body' = [body EXCEPT ![h] = EmptyRep]
                  /\ refc' = [rc EXCEPT ![EmptyRep] = @ + 1]
    BY <1>17 DEF Emptied
  <2>4. rc \in [Body -> Int] /\ \A b \in Body : rc[b] >= refc[b] - (IF body[h] = b THEN 1 ELSE 0)
    BY <1>1, <2>2, <2>3 DEF TypeOK
  <2>5. refc' \in [Body -> Int] BY <2>3, <2>4
  <2>6. \A b \in Body :
          LET n == (IF EmptyRep = b THEN refc[b] + 1 ELSE refc[b]) - (IF body[h] = b THEN 1 ELSE 0)
          IN  refc'[b] >= n /\ (~Throwing => refc'[b] = n)
    BY <1>1, <1>17, <2>3, <2>4 DEF TypeOK
  <2>7. obj' = obj \/ (Live(h) /\ obj' = Left(body[h], refc')) BY <1>17
  <2>8. body' = [body EXCEPT ![h] = EmptyRep] BY <2>3
  <2>. QED BY <1>1, <2>1, <2>5, <2>6, <2>7, <2>8, AttachStep
<1>18. ASSUME NEW h \in Handle, NEW v \in Value,
              WriteThrows(h) \/ ReplaceThrows(h) \/ AssignThrows(h, v) \/ ResizeThrows(h, v)
       PROVE  IInv'
  BY <1>17, <1>18 DEF WriteThrows, ReplaceThrows, AssignThrows, ResizeThrows
<1>. QED
  BY <1>3, <1>4, <1>5, <1>6, <1>9, <1>11, <1>12, <1>13, <1>14, <1>15, <1>16, <1>18 DEF Next

\* The inductive invariant holds in every reachable state.
LEMMA IsInductive == Spec => []IInv
<1>1. Init => IInv
  <2>. SUFFICES ASSUME Init PROVE IInv OBVIOUS
  <2>1. TypeOK BY DEF Init, TypeOK
  <2>2. ASSUME NEW b \in Body PROVE Cardinality(Hosts(b)) = 0
    <3>1. Hosts(b) = {} BY DEF Init, Hosts
    <3>. QED BY <3>1, FS_EmptySet
  <2>3. RefcountCovers BY <2>2 DEF Init, RefcountCovers, Static
  <2>4. NoDanglingHost /\ obj[EmptyRep] # None BY DEF Init, NoDanglingHost, Live
  <2>. QED BY <2>1, <2>3, <2>4 DEF IInv
<1>2. IInv /\ [Next]_vars => IInv'
  <2>1. CASE Next BY <2>1, NextStep
  <2>2. ASSUME IInv, UNCHANGED vars PROVE IInv'
    <3>1. UNCHANGED <<body, refc, owner, aliases>> /\ obj' = obj BY <2>2 DEF vars
    <3>2. obj' \in [Body -> Value \cup {None}] BY <2>2, <3>1 DEF IInv, TypeOK
    <3>. QED BY <2>2, <3>1, <3>2, StayStep
  <2>. QED BY <2>1, <2>2
<1>. QED BY <1>1, <1>2, PTL DEF Spec

\* The counters, storage and links are typed in every reachable state; in particular no
\* counter is ever decremented below zero.
THEOREM TypeCorrect == Spec => []TypeOK
<1>1. IInv => TypeOK BY DEF IInv
<1>. QED BY <1>1, IsInductive, PTL

\* Whatever clients do, and even when constructors throw, no handle is attached to a body
\* whose storage has been given back: leave() and divorce() never free too early.
THEOREM NoHostDangles == Spec => []NoDanglingHost
<1>1. IInv => NoDanglingHost BY DEF IInv
<1>. QED BY <1>1, IsInductive, PTL

\* As long as no constructor throws, every counter is the number of hosts of its body.
THEOREM CountersExact == ~Throwing /\ Spec => []RefcountExact
<1>1. ~Throwing /\ IInv => RefcountExact BY DEF IInv, RefcountCovers, RefcountExact, Static
<1>2. CASE Throwing BY <1>2, PTL
<1>3. CASE ~Throwing
  <2>1. IInv => RefcountExact BY <1>1, <1>3
  <2>. QED BY <2>1, IsInductive, PTL
<1>. QED BY <1>2, <1>3
-----------------------------------------------------------------------------
(* Alias links *)

\* No live handle dies and no link changes.
LEMMA LinksStay ==
  ASSUME AliasLinks, UNCHANGED <<owner, aliases>>, \A h \in Handle : Live(h) => Live(h)'
  PROVE  AliasLinks'
BY DEF AliasLinks, IsAlias, IsOwner

\* An owner lets its aliases go, other handles stay alive.
LEMMA LinksForgotten ==
  ASSUME TypeOK, AliasLinks, NEW h \in Handle, IsOwner(h), Forget(h),
         \A g \in Handle \ {h} : Live(g) => Live(g)'
  PROVE  AliasLinks'
<1>1. \A a, o \in Handle : a \in aliases'[o] <=> owner'[a] = o
  BY DEF TypeOK, AliasLinks, Forget
<1>2. \A g \in Handle : Live(g)' \/ (owner'[g] = None /\ aliases'[g] = {})
  BY DEF TypeOK, AliasLinks, Forget, IsOwner, IsAlias
<1>3. \A a \in Handle : IsAlias(a)' => Live(owner[a])' /\ IsOwner(owner[a])'
  BY DEF TypeOK, AliasLinks, Forget, IsOwner, IsAlias
<1>. QED BY <1>1, <1>2, <1>3 DEF AliasLinks

\* A handle that has just come to life is linked to an owner.
LEMMA LinkEntered ==
  ASSUME TypeOK, AliasLinks, NEW h \in Handle, NEW o \in Handle,
         ~Live(h), Live(o), IsOwner(o), Enter(h, o),
         Live(h)', \A g \in Handle : Live(g) => Live(g)'
  PROVE  AliasLinks'
<1>1. owner[h] = None /\ aliases[h] = {} /\ o # h BY DEF AliasLinks
<1>2. \A a, p \in Handle : a \in aliases'[p] <=> owner'[a] = p
  BY <1>1 DEF TypeOK, AliasLinks, Enter
<1>3. \A g \in Handle : Live(g)' \/ (owner'[g] = None /\ aliases'[g] = {})
  BY <1>1 DEF TypeOK, AliasLinks, Enter
<1>4. \A a \in Handle : IsAlias(a)' => Live(owner[a])' /\ IsOwner(owner[a])'
  BY <1>1 DEF TypeOK, AliasLinks, Enter, IsOwner, IsAlias
<1>. QED BY <1>2, <1>3, <1>4 DEF AliasLinks

\* What the copy constructor does to the links.
LEMMA LinksCopied ==
  ASSUME TypeOK, AliasLinks, NEW h \in Handle, NEW g \in Handle,
         ~Live(h), Live(g), CopyLinks(h, g),
         Live(h)', \A k \in Handle : Live(k) => Live(k)'
  PROVE  AliasLinks'
<1>1. CASE IsAlias(g) /\ Enter(h, owner[g])
  <2>1. owner[g] \in Handle /\ Live(owner[g]) /\ IsOwner(owner[g]) BY <1>1 DEF AliasLinks, IsAlias
  <2>. QED BY <1>1, <2>1, LinkEntered
<1>2. CASE ~IsAlias(g) /\ owner' = [owner EXCEPT ![h] = owner[g]] /\ UNCHANGED aliases
  <2>1. owner[h] = None /\ aliases[h] = {} BY DEF AliasLinks
  <2>2. \A a, p \in Handle : a \in aliases'[p] <=> owner'[a] = p
    BY <1>2, <2>1 DEF TypeOK, AliasLinks, IsAlias
  <2>3. \A k \in Handle : Live(k)' \/ (owner'[k] = None /\ aliases'[k] = {})
    BY <1>2, <2>1 DEF TypeOK, AliasLinks
  <2>4. \A a \in Handle : IsAlias(a)' => Live(owner[a])' /\ IsOwner(owner[a])'
    BY <1>2, <2>1 DEF TypeOK, AliasLinks, IsOwner, IsAlias
  <2>. QED BY <2>2, <2>3, <2>4 DEF AliasLinks
<1>. QED BY <1>1, <1>2 DEF CopyLinks

\* The links follow two handles that trade places.
LEMMA LinksExchanged ==
  ASSUME TypeOK, AliasLinks, NEW f \in Handle, NEW g \in Handle, Exchange(f, g)
  PROVE  AliasLinks'
<1>. DEFINE R(h) == Renamed(h, f, g)
<1>1. \A h \in Handle : R(h) \in Handle /\ R(R(h)) = h BY DEF Renamed
<1>2. /\ body' = [h \in Handle |-> body[R(h)]]
      /\ owner' = [h \in Handle |-> IF owner[R(h)] \in Handle THEN R(owner[R(h)])
                                                               ELSE owner[R(h)]]
      /\ aliases' = [h \in Handle |-> {R(a) : a \in aliases[R(h)]}]
  BY DEF Exchange
<1>. HIDE DEF R
<1>3. ASSUME NEW a \in Handle, NEW o \in Handle PROVE a \in aliases'[o] <=> owner'[a] = o
  <2>1. a \in aliases'[o] <=> R(a) \in aliases[R(o)] BY <1>1, <1>2 DEF TypeOK
  <2>2. R(a) \in aliases[R(o)] <=> owner[R(a)] = R(o) BY <1>1 DEF AliasLinks
  <2>3. owner[R(a)] = R(o) <=> owner'[a] = o BY <1>1, <1>2 DEF TypeOK
  <2>. QED BY <2>1, <2>2, <2>3
<1>4. \A h \in Handle : Live(h)' \/ (owner'[h] = None /\ aliases'[h] = {})
  BY <1>1, <1>2 DEF AliasLinks, Live
<1>5. \A a \in Handle : IsAlias(a)' => Live(owner[a])' /\ IsOwner(owner[a])'
  BY <1>1, <1>2 DEF TypeOK, AliasLinks, IsAlias, IsOwner, Live
<1>. QED BY <1>3, <1>4, <1>5 DEF AliasLinks

\* Every operation preserves the links.
LEMMA LinksStep ==
  ASSUME IInv, AliasLinks, Next
  PROVE  AliasLinks'
<1>1. TypeOK BY DEF IInv
<1>2. ASSUME NEW h \in Handle, NEW c \in Body, body' = [body EXCEPT ![h] = c]
      PROVE  Live(h)' /\ \A g \in Handle : Live(g) => Live(g)'
  BY <1>1, <1>2 DEF TypeOK, Live
<1>3. ASSUME NEW h \in Handle, NEW v \in Value, NewBody(h, v)
      PROVE  Live(h)' /\ \A g \in Handle : Live(g) => Live(g)'
  BY <1>2, <1>3 DEF NewBody
<1>4. ASSUME NEW h \in Handle, NEW v \in Value, DivorceFamily(h, v)
      PROVE  \A g \in Handle : Live(g) => Live(g)'
  BY <1>1, <1>4 DEF DivorceFamily, TypeOK, Live
<1>5. ASSUME NEW h \in Handle, NEW v \in Value, Construct(h, v) PROVE AliasLinks'
  <2>1. \A g \in Handle : Live(g) => Live(g)' BY <1>2, <1>5 DEF Construct
  <2>2. UNCHANGED <<owner, aliases>> BY <1>5 DEF Construct
  <2>. QED BY <2>1, <2>2, LinksStay
<1>6. ASSUME NEW h \in Handle, NEW g \in Handle, Copy(h, g) \/ MakeAlias(h, g) PROVE AliasLinks'
  <2>1. ~Live(h) /\ Live(g) /\ ShareBody(h, g) BY <1>6 DEF Copy, MakeAlias
  <2>2. body[g] \in Body BY <1>1, <2>1 DEF TypeOK, Live
  <2>3. Live(h)' /\ \A k \in Handle : Live(k) => Live(k)' BY <1>2, <2>1, <2>2 DEF ShareBody
  <2>4. CASE CopyLinks(h, g) BY <1>1, <2>1, <2>3, <2>4, LinksCopied
  <2>5. CASE IsOwner(g) /\ Enter(h, g) BY <1>1, <2>1, <2>3, <2>5, LinkEntered
  <2>. QED BY <1>6, <2>4, <2>5 DEF Copy, MakeAlias
<1>7. ASSUME NEW h \in Handle, Destroy(h) PROVE AliasLinks'
  <2>1. body' = [body EXCEPT ![h] = None] BY <1>7 DEF Destroy
  <2>2. \A g \in Handle \ {h} : Live(g)' <=> Live(g) BY <1>1, <2>1 DEF TypeOK, Live
  <2>3. CASE IsOwner(h)
    <3>1. Forget(h) BY <1>7, <2>3 DEF Destroy
    <3>. QED BY <1>1, <2>2, <2>3, <3>1, LinksForgotten
  <2>4. CASE ~IsOwner(h)
    <3>1. /\ owner' = [owner EXCEPT ![h] = None]
          /\ aliases' = [o \in Handle |-> aliases[o] \ {h}]
      BY <1>7, <2>4 DEF Destroy
    <3>2. aliases[h] = {} BY <1>1, <2>4 DEF TypeOK, AliasLinks, IsOwner, IsAlias
    <3>3. \A a, o \in Handle : a \in aliases'[o] <=> owner'[a] = o
      BY <1>1, <3>1 DEF TypeOK, AliasLinks
    <3>4. \A g \in Handle : Live(g)' \/ (owner'[g] = None /\ aliases'[g] = {})
      BY <1>1, <2>2, <3>1, <3>2 DEF TypeOK, AliasLinks
    <3>5. \A a \in Handle : IsAlias(a)' => Live(owner[a])' /\ IsOwner(owner[a])'
      BY <1>1, <2>2, <2>4, <3>1 DEF TypeOK, AliasLinks, IsAlias, IsOwner
    <3>. QED BY <3>3, <3>4, <3>5 DEF AliasLinks
  <2>. QED BY <2>3, <2>4
<1>8. ASSUME NEW h \in Handle, NEW g \in Handle, Assign(h, g) PROVE AliasLinks'
  <2>1. body[g] \in Body /\ body' = [body EXCEPT ![h] = body[g]] /\ UNCHANGED <<owner, aliases>>
    BY <1>1, <1>8 DEF Assign, TypeOK, Live
  <2>2. \A k \in Handle : Live(k) => Live(k)' BY <1>2, <2>1
  <2>. QED BY <2>1, <2>2, LinksStay
<1>9. ASSUME NEW h \in Handle, NEW v \in Value, CopyOnWrite(h, v) PROVE AliasLinks'
  <2>1. CASE IsOwner(h) /\ NewBody(h, v) /\ Forget(h)
    <3>1. \A g \in Handle \ {h} : Live(g) => Live(g)' BY <1>3, <2>1
    <3>. QED BY <1>1, <2>1, <3>1, LinksForgotten
  <2>2. CASE IsAlias(h) /\ DivorceFamily(h, v)
    <3>1. UNCHANGED <<owner, aliases>> BY <2>2 DEF DivorceFamily
    <3>. QED BY <1>4, <2>2, <3>1, LinksStay
  <2>. QED BY <1>9, <2>1, <2>2 DEF CopyOnWrite
<1>10. ASSUME UNCHANGED <<body, owner, aliases>> PROVE AliasLinks'
  <2>1. \A k \in Handle : Live(k) => Live(k)' BY <1>10 DEF Live
  <2>. QED BY <1>10, <2>1, LinksStay
<1>11. ASSUME NEW h \in Handle, NEW v \in Value, NewBody(h, v), UNCHANGED <<owner, aliases>>
       PROVE  AliasLinks'
  BY <1>3, <1>11, LinksStay
<1>12. ASSUME NEW h \in Handle, NEW v \in Value,
              Write(h, v) \/ AssignValues(h, v) \/ Replace(h, v) \/ Resize(h, v)
       PROVE  AliasLinks'
  BY <1>9, <1>10, <1>11, <1>12 DEF Write, InPlace, AssignValues, Replace, Resize
<1>13. ASSUME NEW h \in Handle, NEW v \in Value, Extend(h, v) PROVE AliasLinks'
  <2>1. IsOwner(h) /\ NewBody(h, v) /\ Forget(h) BY <1>13 DEF Extend
  <2>2. \A g \in Handle \ {h} : Live(g) => Live(g)' BY <1>3, <2>1
  <2>. QED BY <1>1, <2>1, <2>2, LinksForgotten
<1>14. ASSUME NEW h \in Handle, NEW v \in Value,
              \/ Clear(h) \/ WriteThrows(h) \/ ReplaceThrows(h)
              \/ AssignThrows(h, v) \/ ResizeThrows(h, v)
       PROVE  AliasLinks'
  <2>1. body' = [body EXCEPT ![h] = EmptyRep] /\ UNCHANGED <<owner, aliases>>
    BY <1>14 DEF Clear, WriteThrows, ReplaceThrows, AssignThrows, ResizeThrows, Emptied
  <2>2. \A k \in Handle : Live(k) => Live(k)' BY <1>2, <2>1
  <2>. QED BY <2>1, <2>2, LinksStay
<1>15. ASSUME NEW h \in Handle, NEW g \in Handle, Swap(h, g) \/ Relocate(h, g) PROVE AliasLinks'
  BY <1>1, <1>15, LinksExchanged DEF Swap, Relocate
<1>16. EmptyValue \in Value BY ValueAssumption
<1>. QED
  BY <1>5, <1>6, <1>7, <1>8, <1>12, <1>13, <1>14, <1>15, <1>16 DEF Next

\* The two sides of an alias link always agree and link living handles: the destructor of
\* AliasSet and relocated() find what they look for.
THEOREM LinksAgree == Spec => []AliasLinks
<1>1. Init => AliasLinks BY DEF Init, AliasLinks, IsAlias
<1>2. IInv /\ AliasLinks /\ [Next]_vars => AliasLinks'
  <2>1. CASE Next BY <2>1, LinksStep
  <2>2. CASE UNCHANGED vars BY <2>2 DEF vars, AliasLinks, IsAlias, IsOwner, Live
  <2>. QED BY <2>1, <2>2
<1>. QED BY <1>1, <1>2, IsInductive, PTL DEF Spec
-----------------------------------------------------------------------------
(* Alias families *)

\* A handle without a family is given another body.
LEMMA LonerMoves ==
  ASSUME TypeOK, AliasLinks, FamilyCoherent, NEW h \in Handle, ~IsAlias(h), aliases[h] = {},
         NEW c, body' = [body EXCEPT ![h] = c], UNCHANGED <<owner, aliases>>
  PROVE  FamilyCoherent'
BY DEF TypeOK, AliasLinks, FamilyCoherent, IsAlias

\* An owner lets its aliases go and is given another body, or dies.
LEMMA OwnerMoves ==
  ASSUME TypeOK, AliasLinks, FamilyCoherent, NEW h \in Handle, IsOwner(h), Forget(h),
         NEW c, body' = [body EXCEPT ![h] = c]
  PROVE  FamilyCoherent'
BY DEF TypeOK, AliasLinks, FamilyCoherent, Forget, IsAlias, IsOwner

\* A new alias shares the body of its owner.
LEMMA AliasEnters ==
  ASSUME TypeOK, AliasLinks, FamilyCoherent, NEW h \in Handle, NEW o \in Handle,
         ~Live(h), Live(o), Enter(h, o), body' = [body EXCEPT ![h] = body[o]]
  PROVE  FamilyCoherent'
<1>1. owner[h] = None /\ aliases[h] = {} /\ o # h BY DEF AliasLinks
<1>2. \A a \in Handle : owner[a] # h BY <1>1 DEF AliasLinks
<1>. QED BY <1>1, <1>2 DEF TypeOK, FamilyCoherent, Enter, IsAlias

\* The owner and all its aliases get the same new body.
LEMMA FamilyMoves ==
  ASSUME TypeOK, AliasLinks, FamilyCoherent, NEW h \in Handle, IsAlias(h),
         NEW v \in Value, DivorceFamily(h, v)
  PROVE  FamilyCoherent'
<1>1. PICK b \in Body : body' = [g \in Handle |-> IF g \in Family(h) THEN b ELSE body[g]]
  BY DEF DivorceFamily
<1>2. UNCHANGED <<owner, aliases>> BY DEF DivorceFamily
<1>3. ASSUME NEW a \in Handle, IsAlias(a)
      PROVE  owner[a] \in Handle /\ (a \in Family(h) <=> owner[a] \in Family(h))
  <2>1. owner[a] \in Handle /\ IsOwner(owner[a]) /\ ~IsOwner(a) BY <1>3 DEF AliasLinks, IsAlias, IsOwner
  <2>2. owner[h] \in Handle /\ IsOwner(owner[h]) BY DEF AliasLinks, IsAlias
  <2>3. \A g \in Handle : g \in aliases[owner[h]] <=> owner[g] = owner[h] BY <2>2 DEF AliasLinks
  <2>4. a \in Family(h) <=> owner[a] = owner[h] BY <2>1, <2>2, <2>3 DEF Family
  <2>5. owner[a] \in Family(h) <=> owner[a] = owner[h] BY <2>1, <2>2, <2>3 DEF Family, IsOwner
  <2>. QED BY <2>1, <2>4, <2>5
<1>. QED BY <1>1, <1>2, <1>3 DEF FamilyCoherent, IsAlias

\* Two handles trade places.
LEMMA FamilyExchanged ==
  ASSUME TypeOK, FamilyCoherent, NEW f \in Handle, NEW g \in Handle, Exchange(f, g)
  PROVE  FamilyCoherent'
<1>. DEFINE R(h) == Renamed(h, f, g)
<1>1. \A h \in Handle : R(h) \in Handle /\ R(R(h)) = h BY DEF Renamed
<1>2. /\ body' = [h \in Handle |-> body[R(h)]]
      /\ owner' = [h \in Handle |-> IF owner[R(h)] \in Handle THEN R(owner[R(h)])
                                                               ELSE owner[R(h)]]
  BY DEF Exchange
<1>. HIDE DEF R
<1>3. ASSUME NEW a \in Handle, owner'[a] \in Handle PROVE body'[a] = body'[owner'[a]]
  <2>1. owner[R(a)] \in Handle /\ owner'[a] = R(owner[R(a)]) BY <1>1, <1>2, <1>3 DEF TypeOK
  <2>2. body[R(a)] = body[owner[R(a)]] BY <1>1, <2>1 DEF FamilyCoherent, IsAlias
  <2>. QED BY <1>1, <1>2, <2>1, <2>2
<1>. QED BY <1>3 DEF FamilyCoherent, IsAlias

\* No operation separates a family, unless clients do or constructors throw.
LEMMA FamilyKept ==
  ASSUME ~Rebinding, ~Throwing, TypeOK, AliasLinks, FamilyCoherent, Next
  PROVE  FamilyCoherent'
<1>1. ASSUME NEW h \in Handle, NEW v \in Value, NewBody(h, v)
      PROVE  \E c : body' = [body EXCEPT ![h] = c]
  BY <1>1 DEF NewBody
<1>2. ASSUME NEW h \in Handle, NEW v \in Value, NewBody(h, v), MayRebind(h), UNCHANGED <<owner, aliases>>
      PROVE  FamilyCoherent'
  BY <1>1, <1>2, LonerMoves DEF MayRebind
<1>3. ASSUME NEW h \in Handle, NEW v \in Value, NewBody(h, v), IsOwner(h), Forget(h)
      PROVE  FamilyCoherent'
  BY <1>1, <1>3, OwnerMoves
<1>4. ASSUME UNCHANGED <<body, owner, aliases>> PROVE FamilyCoherent'
  BY <1>4 DEF FamilyCoherent, IsAlias
<1>5. ASSUME NEW h \in Handle, NEW v \in Value, Construct(h, v) PROVE FamilyCoherent'
  <2>1. owner[h] = None /\ aliases[h] = {} BY <1>5 DEF Construct, AliasLinks
  <2>2. \E c : body' = [body EXCEPT ![h] = c] BY <1>5 DEF Construct
  <2>3. UNCHANGED <<owner, aliases>> BY <1>5 DEF Construct
  <2>. QED BY <2>1, <2>2, <2>3, LonerMoves DEF IsAlias
<1>6. ASSUME NEW h \in Handle, NEW g \in Handle, Copy(h, g) \/ MakeAlias(h, g) PROVE FamilyCoherent'
  <2>1. ~Live(h) /\ Live(g) /\ body' = [body EXCEPT ![h] = body[g]] BY <1>6 DEF Copy, MakeAlias, ShareBody
  <2>2. CASE IsAlias(g) /\ Enter(h, owner[g])
    <3>1. owner[g] \in Handle /\ Live(owner[g]) /\ body[g] = body[owner[g]]
      BY <2>2 DEF AliasLinks, FamilyCoherent, IsAlias
    <3>. QED BY <2>1, <2>2, <3>1, AliasEnters
  <2>3. CASE ~IsAlias(g) /\ owner' = [owner EXCEPT ![h] = owner[g]] /\ UNCHANGED aliases
    <3>1. owner[h] = None /\ aliases[h] = {} BY <2>1 DEF AliasLinks
    <3>2. \A a \in Handle : owner[a] # h BY <3>1 DEF AliasLinks
    <3>. QED BY <2>1, <2>3, <3>1, <3>2 DEF TypeOK, FamilyCoherent, IsAlias
  <2>4. CASE IsOwner(g) /\ Enter(h, g) BY <2>1, <2>4, AliasEnters
  <2>. QED BY <1>6, <2>2, <2>3, <2>4 DEF Copy, MakeAlias, CopyLinks
<1>7. ASSUME NEW h \in Handle, Destroy(h) PROVE FamilyCoherent'
  <2>1. body' = [body EXCEPT ![h] = None] BY <1>7 DEF Destroy
  <2>2. CASE IsOwner(h) BY <1>7, <2>1, <2>2, OwnerMoves DEF Destroy
  <2>3. CASE ~IsOwner(h)
    <3>1. owner' = [owner EXCEPT ![h] = None] BY <1>7, <2>3 DEF Destroy
    <3>2. \A a \in Handle : owner[a] # h BY <2>3 DEF AliasLinks, IsAlias
    <3>. QED BY <2>1, <3>1, <3>2, HandleAssumption DEF TypeOK, FamilyCoherent, IsAlias
  <2>. QED BY <2>2, <2>3
<1>8. ASSUME NEW h \in Handle, NEW g \in Handle, Assign(h, g) PROVE FamilyCoherent'
  BY <1>8, LonerMoves DEF Assign, MayRebind
<1>9. ASSUME NEW h \in Handle, NEW v \in Value, CopyOnWrite(h, v) PROVE FamilyCoherent'
  BY <1>3, <1>9, FamilyMoves DEF CopyOnWrite
<1>10. ASSUME NEW h \in Handle, NEW v \in Value,
              Write(h, v) \/ AssignValues(h, v) \/ Replace(h, v) \/ Resize(h, v)
       PROVE  FamilyCoherent'
  BY <1>2, <1>4, <1>9, <1>10 DEF Write, InPlace, AssignValues, Replace, Resize
<1>11. ASSUME NEW h \in Handle, NEW v \in Value, Extend(h, v) PROVE FamilyCoherent'
  BY <1>3, <1>11 DEF Extend
<1>12. ASSUME NEW h \in Handle, Clear(h) PROVE FamilyCoherent'
  BY <1>12, LonerMoves DEF Clear, MayRebind
<1>13. ASSUME NEW h \in Handle, NEW g \in Handle, Swap(h, g) \/ Relocate(h, g) PROVE FamilyCoherent'
  BY <1>13, FamilyExchanged DEF Swap, Relocate
<1>14. ASSUME NEW h \in Handle, NEW v \in Value
       PROVE  ~(WriteThrows(h) \/ ReplaceThrows(h) \/ AssignThrows(h, v) \/ ResizeThrows(h, v))
  BY DEF WriteThrows, ReplaceThrows, AssignThrows, ResizeThrows
<1>15. EmptyValue \in Value BY ValueAssumption
<1>. QED
  BY <1>5, <1>6, <1>7, <1>8, <1>10, <1>11, <1>12, <1>13, <1>14, <1>15 DEF Next

\* When no member of a family is given another body on its own and nothing throws, an alias
\* and its owner are attached to the same body in every reachable state: divorce_aliases()
\* takes along everyone it has to.
THEOREM FamiliesStayTogether == ~Rebinding /\ ~Throwing /\ Spec => []FamilyCoherent
<1>1. Init => FamilyCoherent BY DEF Init, FamilyCoherent, IsAlias
<1>2. CASE Rebinding \/ Throwing BY <1>2, PTL
<1>3. CASE ~Rebinding /\ ~Throwing
  <2>1. TypeOK /\ AliasLinks /\ FamilyCoherent /\ [Next]_vars => FamilyCoherent'
    <3>1. CASE Next BY <1>3, <3>1, FamilyKept
    <3>2. CASE UNCHANGED vars BY <3>2 DEF vars, FamilyCoherent, IsAlias
    <3>. QED BY <3>1, <3>2
  <2>. QED BY <1>1, <2>1, TypeCorrect, LinksAgree, PTL DEF Spec
<1>. QED BY <1>2, <1>3
-----------------------------------------------------------------------------
(* Nothing is left behind *)

\* Allocated storage is counted.  With exact counters this is DestroyedWithLastHost.
Counted == \A b \in Body : obj[b] # None => refc[b] > 0

\* A family that somebody else shares its body with leaves that body in use.
LEMMA FamilyLeavesCounted ==
  ASSUME IInv, AliasLinks, FamilyCoherent, Counted, NEW h \in Handle, NEW v \in Value, Live(h),
         NeedsCopy(h), IsAlias(h), DivorceFamily(h, v)
  PROVE  Counted'
<1>. DEFINE F == Family(h)
            A == aliases[owner[h]]
<1>1. TypeOK BY DEF IInv
<1>2. owner[h] \in Handle /\ A \in SUBSET Handle /\ body[h] \in Body
  BY <1>1 DEF TypeOK, IsAlias, Live
<1>3. F = A \cup {owner[h]} /\ F \in SUBSET Handle BY <1>2 DEF Family
<1>4. owner[h] \notin A
  BY <1>2, HandleAssumption DEF AliasLinks, IsAlias, IsOwner
<1>5. \A g \in F : body[g] = body[h]
  <2>1. body[h] = body[owner[h]] BY DEF FamilyCoherent
  <2>2. \A a \in A : a \in Handle /\ owner[a] = owner[h] BY <1>2 DEF AliasLinks
  <2>. QED BY <1>2, <1>3, <2>1, <2>2 DEF FamilyCoherent, IsAlias
<1>6. refc[body[h]] > Cardinality(A) + 1 BY HandleAssumption DEF NeedsCopy, IsAlias, IsOwner
<1>7. PICK b \in Body :
        /\ refc' = [c \in Body |-> IF c = b THEN Cardinality(F)
                                            ELSE refc[c] - Cardinality(Hosts(c) \cap F)]
        /\ obj' = [obj EXCEPT ![b] = v]
  BY DEF DivorceFamily
<1>8. \A c \in Body \ {body[h]} : Hosts(c) \cap F = {} BY <1>5 DEF Hosts
<1>9. Hosts(body[h]) \cap F = F BY <1>3, <1>5 DEF Hosts
<1>. HIDE DEF F, A
<1>10. IsFiniteSet(A) /\ Cardinality(A) \in Nat BY <1>2, HandlesFinite
<1>11. Cardinality(F) = Cardinality(A) + 1 BY <1>3, <1>4, <1>10, FS_AddElement
<1>. SUFFICES ASSUME NEW c \in Body, obj'[c] # None PROVE refc'[c] > 0 BY DEF Counted
<1>12. CASE c = b BY <1>7, <1>10, <1>11, <1>12
<1>13. CASE c # b
  <2>1. obj[c] # None /\ refc[c] \in Nat BY <1>1, <1>7, <1>13 DEF TypeOK
  <2>2. refc[c] > 0 BY <2>1 DEF Counted
  <2>3. refc'[c] = refc[c] - Cardinality(Hosts(c) \cap F) BY <1>7, <1>13
  <2>4. CASE c = body[h]
    <3>1. Hosts(c) \cap F = F BY <1>9, <2>4
    <3>2. refc'[c] = refc[c] - Cardinality(F) BY <2>3, <3>1
    <3>3. refc[c] > Cardinality(A) + 1 BY <1>6, <2>4
    <3>. QED BY <1>10, <1>11, <2>1, <3>2, <3>3
  <2>5. CASE c # body[h]
    <3>1. Hosts(c) \cap F = {} BY <1>8, <2>5
    <3>2. Cardinality(Hosts(c) \cap F) = 0 BY <3>1, FS_EmptySet
    <3>. QED BY <2>1, <2>2, <2>3, <3>2
  <2>. QED BY <2>4, <2>5
<1>. QED BY <1>12, <1>13

\* Every operation keeps the allocated storage counted.
LEMMA CountedStep ==
  ASSUME ~Rebinding, ~Throwing, IInv, IInv', AliasLinks, FamilyCoherent, Counted, Next
  PROVE  Counted'
<1>1. TypeOK /\ TypeOK' BY DEF IInv
<1>2. ASSUME NEW h \in Handle, Live(h)
      PROVE  body[h] \in Body /\ obj[body[h]] # None /\ refc[body[h]] > 0
  BY <1>1, <1>2 DEF IInv, TypeOK, NoDanglingHost, Live, Counted
<1>3. ASSUME NEW d \in Body, obj' = Left(d, refc'), \A c \in Body \ {d} : refc'[c] >= refc[c]
      PROVE  Counted'
  <2>. SUFFICES ASSUME NEW c \in Body, obj'[c] # None PROVE refc'[c] > 0 BY DEF Counted
  <2>1. refc[c] \in Nat /\ refc'[c] \in Nat BY <1>1 DEF TypeOK
  <2>2. CASE c = d BY <1>1, <1>3, <2>1, <2>2 DEF Left, TypeOK
  <2>3. CASE c # d
    <3>1. obj[c] # None /\ refc'[c] >= refc[c] BY <1>1, <1>3, <2>3 DEF Left, TypeOK
    <3>. QED BY <2>1, <3>1 DEF Counted
  <2>. QED BY <2>2, <2>3
<1>4. ASSUME NEW h \in Handle, NEW v \in Value, Live(h), NewBody(h, v) PROVE Counted'
  <2>1. PICK b \in Body :
          /\ Fresh(b)
          /\ refc' = [refc EXCEPT ![body[h]] = @ - 1, ![b] = 1]
          /\ obj' = [Left(body[h], refc') EXCEPT ![b] = v]
    BY <1>4 DEF NewBody
  <2>. SUFFICES ASSUME NEW c \in Body, obj'[c] # None PROVE refc'[c] > 0 BY DEF Counted
  <2>2. refc[c] \in Nat /\ refc'[c] \in Nat /\ body[h] \in Body BY <1>1, <1>2, <1>4 DEF TypeOK
  <2>3. CASE c = b BY <1>1, <2>1, <2>3 DEF TypeOK
  <2>4. CASE c # b /\ c = body[h] BY <1>1, <2>1, <2>2, <2>4 DEF Left, TypeOK
  <2>5. CASE c # b /\ c # body[h]
    <3>1. obj[c] # None /\ refc'[c] = refc[c] BY <1>1, <2>1, <2>5 DEF Left, TypeOK
    <3>. QED BY <3>1 DEF Counted
  <2>. QED BY <2>3, <2>4, <2>5
<1>5. ASSUME \A c \in Body : obj'[c] = None <=> obj[c] = None, \A c \in Body : refc'[c] >= refc[c]
      PROVE  Counted'
  <2>1. \A c \in Body : refc[c] \in Nat /\ refc'[c] \in Nat BY <1>1 DEF TypeOK
  <2>. QED BY <1>5, <2>1 DEF Counted
<1>6. ASSUME NEW h \in Handle, NEW v \in Value, Live(h), obj' = [obj EXCEPT ![body[h]] = v],
             UNCHANGED refc
      PROVE  Counted'
  BY <1>1, <1>2, <1>6, ValueAssumption DEF TypeOK, Counted
<1>7. ASSUME NEW h \in Handle, NEW v \in Value, Construct(h, v) PROVE Counted'
  <2>1. PICK b \in Body :
          /\ IF v = EmptyValue THEN b = EmptyRep ELSE Fresh(b)
          /\ refc' = [refc EXCEPT ![b] = IF v = EmptyValue THEN @ + 1 ELSE 1]
          /\ obj' = [obj EXCEPT ![b] = v]
    BY <1>7 DEF Construct
  <2>2. ASSUME NEW c \in Body, obj'[c] # None PROVE refc'[c] > 0
    <3>1. refc[c] \in Nat BY <1>1 DEF TypeOK
    <3>2. CASE c = b BY <1>1, <2>1, <3>1, <3>2 DEF TypeOK
    <3>3. CASE c # b
      <4>1. obj[c] # None /\ refc'[c] = refc[c] BY <1>1, <2>1, <2>2, <3>3 DEF TypeOK
      <4>. QED BY <4>1 DEF Counted
    <3>. QED BY <3>2, <3>3
  <2>. QED BY <2>2 DEF Counted
<1>8. ASSUME NEW h \in Handle, NEW g \in Handle, Copy(h, g) \/ MakeAlias(h, g) PROVE Counted'
  <2>1. obj' = obj /\ refc' = [refc EXCEPT ![body[g]] = @ + 1] BY <1>8 DEF Copy, MakeAlias, ShareBody
  <2>2. \A c \in Body : refc'[c] >= refc[c] BY <1>1, <2>1 DEF TypeOK
  <2>. QED BY <1>5, <2>1, <2>2
<1>9. ASSUME NEW h \in Handle, NEW g \in Handle, Destroy(h) \/ Assign(h, g) \/ Clear(h) PROVE Counted'
  <2>1. Live(h) /\ body[h] \in Body /\ obj' = Left(body[h], refc')
    BY <1>2, <1>9 DEF Destroy, Assign, Clear
  <2>2. \A c \in Body \ {body[h]} : refc'[c] >= refc[c]
    BY <1>1, <1>9, <2>1 DEF Destroy, Assign, Clear, TypeOK
  <2>. QED BY <1>3, <2>1, <2>2
<1>10. ASSUME NEW h \in Handle, NEW v \in Value, Live(h), CopyOnWrite(h, v) PROVE Counted'
  BY <1>4, <1>10, FamilyLeavesCounted DEF CopyOnWrite
<1>11. ASSUME NEW h \in Handle, NEW v \in Value,
              Write(h, v) \/ AssignValues(h, v) \/ Replace(h, v) \/ Resize(h, v) \/ Extend(h, v)
       PROVE  Counted'
  BY <1>4, <1>6, <1>10, <1>11 DEF Write, InPlace, AssignValues, Replace, Resize, Extend
<1>12. ASSUME NEW h \in Handle, NEW g \in Handle, Swap(h, g) \/ Relocate(h, g) PROVE Counted'
  BY <1>12 DEF Swap, Relocate, Exchange, Counted
<1>13. ASSUME NEW h \in Handle, NEW v \in Value
       PROVE  ~(WriteThrows(h) \/ ReplaceThrows(h) \/ AssignThrows(h, v) \/ ResizeThrows(h, v))
  BY DEF WriteThrows, ReplaceThrows, AssignThrows, ResizeThrows
<1>14. EmptyValue \in Value BY ValueAssumption
<1>. QED BY <1>7, <1>8, <1>9, <1>11, <1>12, <1>13, <1>14 DEF Next

\* "The data instance is destroyed together with the last host": when no member of a family
\* is given another body on its own and nothing throws, no body without hosts stays allocated.
\* divorce_aliases(), which counts bodies down without ever destructing one, needs both.
THEOREM LastHostDestroys == ~Rebinding /\ ~Throwing /\ Spec => []DestroyedWithLastHost
<1>1. Init => Counted BY DEF Init, Counted
<1>2. CASE Rebinding \/ Throwing BY <1>2, PTL
<1>3. CASE ~Rebinding /\ ~Throwing
  <2>1. /\ IInv /\ IInv' /\ AliasLinks /\ FamilyCoherent /\ Counted /\ [Next]_vars
        => Counted'
    <3>1. CASE Next BY <1>3, <3>1, CountedStep
    <3>2. CASE UNCHANGED vars BY <3>2 DEF vars, Counted
    <3>. QED BY <3>1, <3>2
  <2>2. IInv /\ Counted => DestroyedWithLastHost
    <3>. SUFFICES ASSUME IInv, Counted, NEW b \in Body \ {EmptyRep}, obj[b] # None, Hosts(b) = {}
                  PROVE  FALSE
      BY DEF DestroyedWithLastHost
    <3>1. refc[b] = 0 BY <1>3, FS_EmptySet DEF IInv, RefcountCovers, Static
    <3>. QED BY <3>1 DEF Counted
  <2>. QED BY <1>1, <1>3, <2>1, <2>2, IsInductive, LinksAgree, FamiliesStayTogether, PTL DEF Spec
<1>. QED BY <1>2, <1>3
-----------------------------------------------------------------------------
(* SharedObject implements AliasedValues for clients that keep to the discipline: they   *)
(* do not rebind members of alias families, do not write through orphaned aliases, and   *)
(* have element types that do not throw.                                                 *)
Disciplined == ~Rebinding /\ ~OrphanWrites /\ ~Throwing

\* What the steps of the refinement need to know of the state.
RInv == IInv /\ AliasLinks /\ FamilyCoherent

-----------------------------------------------------------------------------
(* What the handles see *)

LEMMA ContentsOf ==
  ASSUME IInv, NEW h \in Handle
  PROVE  /\ Live(h) => body[h] \in Body /\ Contents(h) = obj[body[h]] /\ Contents(h) \in Value
         /\ Contents(h) # None <=> Live(h)
BY DEF IInv, TypeOK, NoDanglingHost, Contents, Live

\* Handles that are not moved see no change when storage is only given back or handed out.
LEMMA OthersKeep ==
  ASSUME IInv, IInv', NEW g \in Handle, body'[g] = body[g],
         \A b \in Body : obj'[b] = obj[b] \/ obj'[b] = None \/ obj[b] = None
  PROVE  Contents(g)' = Contents(g)
<1>1. CASE Live(g)
  <2>1. body[g] \in Body /\ obj[body[g]] # None BY <1>1 DEF IInv, TypeOK, NoDanglingHost, Live
  <2>2. obj'[body[g]] # None BY <1>1 DEF IInv, NoDanglingHost, Live
  <2>. QED BY <1>1, <2>1, <2>2 DEF Contents, Live
<1>2. CASE ~Live(g) BY <1>2 DEF Contents, Live
<1>. QED BY <1>1, <1>2

\* Exactly the reader of h notices the step, and finds v.
Seen(h, v) == \A g \in Handle : Contents(g)' = IF g = h THEN v ELSE Contents(g)

\* A handle is moved to another body, or dies.
LEMMA MovedSeen ==
  ASSUME IInv, IInv', NEW h \in Handle, NEW c \in Body \cup {None}, body' = [body EXCEPT ![h] = c],
         \A b \in Body : obj'[b] = obj[b] \/ obj'[b] = None \/ obj[b] = None
  PROVE  Seen(h, IF c = None THEN None ELSE obj'[c])
<1>1. body'[h] = c /\ \A g \in Handle \ {h} : body'[g] = body[g] BY DEF IInv, TypeOK
<1>2. Contents(h)' = IF c = None THEN None ELSE obj'[c] BY <1>1 DEF Contents, Live
<1>3. \A g \in Handle \ {h} : Contents(g)' = Contents(g) BY <1>1, OthersKeep
<1>. QED BY <1>2, <1>3 DEF Seen

LEMMA NewBodySeen ==
  ASSUME IInv, IInv', NEW h \in Handle, NEW v \in Value, NewBody(h, v)
  PROVE  Seen(h, v)
<1>1. PICK b \in Body :
        /\ obj[b] = None
        /\ body' = [body EXCEPT ![h] = b]
        /\ obj' = [Left(body[h], refc') EXCEPT ![b] = v]
  BY DEF NewBody, Fresh
<1>2. TypeOK /\ b \in Body \cup {None} /\ b # None BY BodyAssumption DEF IInv
<1>3. \A c \in Body : obj'[c] = obj[c] \/ obj'[c] = None \/ obj[c] = None
  BY <1>1, <1>2 DEF TypeOK, Left
<1>4. obj'[b] = v BY <1>1, <1>2 DEF TypeOK, Left
<1>. QED BY <1>1, <1>2, <1>3, <1>4, MovedSeen

\* A set of handles that contains A and one more handle, and counts no more, is just that.
LEMMA NobodyElse ==
  ASSUME NEW A \in SUBSET Handle, NEW o \in Handle \ A, A # {},
         NEW H \in SUBSET Handle, A \cup {o} \subseteq H,
         NEW n \in Nat, n >= Cardinality(H), n =< 1 \/ n =< Cardinality(A) + 1
  PROVE  H = A \cup {o}
<1>. DEFINE F == A \cup {o}
<1>1. IsFiniteSet(A) /\ Cardinality(A) \in Nat /\ IsFiniteSet(H) /\ Cardinality(H) \in Nat
  BY HandlesFinite
<1>2. Cardinality(A) # 0 BY <1>1, FS_EmptySet
<1>3. Cardinality(F) = Cardinality(A) + 1 BY <1>1, FS_AddElement
<1>4. F \in SUBSET H OBVIOUS
<1>. HIDE DEF F
<1>5. Cardinality(F) =< Cardinality(H) /\ (Cardinality(F) = Cardinality(H) => H = F)
  BY <1>1, <1>4, FS_Subset
<1>6. Cardinality(F) = Cardinality(H) BY <1>1, <1>2, <1>3, <1>5
<1>. QED BY <1>5, <1>6 DEF F

\* The only hosts of a body that an alias changes in place are its family.
LEMMA InPlaceIsPrivate ==
  ASSUME RInv, NEW h \in Handle, Live(h), ~NeedsCopy(h), IsAlias(h)
  PROVE  Hosts(body[h]) = Family(h)
<1>1. body[h] \in Body /\ owner[h] \in Handle /\ aliases[owner[h]] \in SUBSET Handle /\ refc[body[h]] \in Nat
  BY DEF RInv, IInv, TypeOK, Live, IsAlias
<1>2. Hosts(body[h]) \in SUBSET Handle BY DEF Hosts
<1>3. Cardinality(Hosts(body[h])) \in Nat BY <1>2, HandlesFinite
<1>4. refc[body[h]] >= Cardinality(Hosts(body[h]))
  <2>1. refc[body[h]] >= Cardinality(Hosts(body[h])) + Static(body[h])
    BY <1>1 DEF RInv, IInv, RefcountCovers
  <2>2. Static(body[h]) \in Nat BY DEF Static
  <2>. QED BY <1>1, <1>3, <2>1, <2>2
<1>5. \A a \in Handle : a \in aliases[owner[h]] <=> owner[a] = owner[h]
  BY <1>1 DEF RInv, AliasLinks
<1>6. owner[h] \notin aliases[owner[h]] /\ h \in aliases[owner[h]]
  BY <1>1, <1>5, HandleAssumption DEF RInv, AliasLinks, IsAlias, IsOwner
<1>7. aliases[owner[h]] \cup {owner[h]} \subseteq Hosts(body[h])
  <2>1. body[h] = body[owner[h]] BY DEF RInv, FamilyCoherent
  <2>2. \A a \in aliases[owner[h]] : body[a] = body[owner[h]]
    BY <1>1, <1>5 DEF RInv, FamilyCoherent, IsAlias
  <2>. QED BY <1>1, <2>1, <2>2 DEF Hosts
<1>8. refc[body[h]] =< 1 \/ refc[body[h]] =< Cardinality(aliases[owner[h]]) + 1
  <2>1. Cardinality(aliases[owner[h]]) \in Nat BY <1>1, HandlesFinite
  <2>. QED BY <1>1, <2>1 DEF NeedsCopy
<1>9. Hosts(body[h]) = aliases[owner[h]] \cup {owner[h]}
  BY <1>1, <1>2, <1>4, <1>6, <1>7, <1>8, NobodyElse
<1>. QED BY <1>9 DEF Family

\* A handle without aliases that may change its body in place is its only host.
LEMMA AloneInPlace ==
  ASSUME RInv, NEW h \in Handle, Live(h), refc[body[h]] =< 1
  PROVE  Hosts(body[h]) = {h}
<1>. DEFINE H == Hosts(body[h])
<1>1. body[h] \in Body /\ refc[body[h]] \in Nat BY DEF RInv, IInv, TypeOK, Live
<1>2. H \in SUBSET Handle /\ h \in H BY DEF Hosts
<1>3. refc[body[h]] >= Cardinality(H) + Static(body[h]) /\ Static(body[h]) \in {0, 1}
  BY <1>1 DEF RInv, IInv, RefcountCovers, Static
<1>. HIDE DEF H
<1>4. IsFiniteSet(H) /\ Cardinality(H) \in Nat BY <1>2, HandlesFinite
<1>5. Cardinality(H) =< 1 BY <1>1, <1>3, <1>4
<1>6. Cardinality({h}) = 1 /\ {h} \in SUBSET H BY <1>2, FS_Singleton
<1>7. Cardinality({h}) =< Cardinality(H) BY <1>4, <1>6, FS_Subset
<1>8. {h} = H BY <1>4, <1>5, <1>6, <1>7, FS_Subset
<1>. QED BY <1>8 DEF H

-----------------------------------------------------------------------------
(* Steps of the implementation as steps of the abstract specification *)

\* A handle that is no alias gets a value of its own, and its aliases, if any, are cut off.
LEMMA OwnIsSet ==
  ASSUME TypeOK, AliasLinks, NEW h \in Handle, NEW v \in Value, Live(h), Contents(h) # None,
         ~IsAlias(h), Seen(h, v), Forget(h) \/ (aliases[h] = {} /\ UNCHANGED owner)
  PROVE  Values!SetOwn(h, v)
<1>1. owner' = [a \in Handle |-> IF owner[a] = h THEN Orphan ELSE owner[a]]
  BY DEF TypeOK, AliasLinks, Forget
<1>2. owner' = Values!CutOff(h) BY <1>1 DEF Values!CutOff, Values!AliasesOf
<1>. QED BY <1>2 DEF Values!SetOwn, Values!Alive, Seen, IsAlias

\* A handle comes to life.
LEMMA BirthSeen ==
  ASSUME NEW h \in Handle, NEW v, Seen(h, v), Contents(h) = None
  PROVE  /\ [g \in Handle |-> Contents(g)]' = [[g \in Handle |-> Contents(g)] EXCEPT ![h] = v]
         /\ ~Values!Alive(h)
BY DEF Seen, Values!Alive

\* All members of the family of an alias get a value, and nobody else notices.
LEMMA FamilyIsSet ==
  ASSUME TypeOK, AliasLinks, NEW h \in Handle, NEW v \in Value, IsAlias(h), UNCHANGED owner,
         \A g \in Handle : Contents(g)' = IF g \in Family(h) THEN v ELSE Contents(g)
  PROVE  Values!SetFamily(h, v)
<1>1. \A g \in Handle : g \in Family(h) <=> g = owner[h] \/ owner[g] = owner[h]
  BY DEF AliasLinks, IsAlias, Family
<1>. QED BY <1>1 DEF Values!SetFamily, IsAlias

\* divorce() and divorce_aliases().
LEMMA DivorceSets ==
  ASSUME RInv, IInv', NEW h \in Handle, NEW v \in Value, IsAlias(h), DivorceFamily(h, v)
  PROVE  Values!SetFamily(h, v)
<1>1. TypeOK /\ AliasLinks /\ IInv BY DEF RInv, IInv
<1>2. PICK b \in Body :
        /\ obj[b] = None
        /\ body' = [g \in Handle |-> IF g \in Family(h) THEN b ELSE body[g]]
        /\ obj' = [obj EXCEPT ![b] = v]
        /\ UNCHANGED <<owner, aliases>>
  BY DEF DivorceFamily, Fresh
<1>3. \A c \in Body : obj'[c] = obj[c] \/ obj'[c] = None \/ obj[c] = None
  BY <1>1, <1>2 DEF TypeOK
<1>4. ASSUME NEW g \in Handle, g \notin Family(h) PROVE Contents(g)' = Contents(g)
  <2>1. body'[g] = body[g] BY <1>2, <1>4
  <2>. QED BY <1>1, <1>3, <2>1, OthersKeep
<1>5. ASSUME NEW g \in Handle, g \in Family(h) PROVE Contents(g)' = v
  BY <1>1, <1>2, <1>5, BodyAssumption DEF TypeOK, Contents, Live
<1>. QED BY <1>1, <1>2, <1>4, <1>5, FamilyIsSet

\* The contents of a body are changed in place.
LEMMA HostsSee ==
  ASSUME IInv, NEW h \in Handle, NEW v \in Value, Live(h), UNCHANGED body,
         obj' = [obj EXCEPT ![body[h]] = v]
  PROVE  \A g \in Handle : Contents(g)' = IF g \in Hosts(body[h]) THEN v ELSE Contents(g)
BY DEF IInv, TypeOK, Contents, Live, Hosts

\* In-place changes through a handle that is no alias: nobody else is attached to the body.
LEMMA AloneSets ==
  ASSUME RInv, NEW h \in Handle, NEW v \in Value, Live(h), ~IsAlias(h), refc[body[h]] =< 1,
         obj' = [obj EXCEPT ![body[h]] = v], UNCHANGED <<body, owner, aliases>>
  PROVE  Values!SetOwn(h, v)
<1>1. TypeOK /\ AliasLinks /\ IInv /\ Contents(h) # None BY ContentsOf DEF RInv, IInv
<1>2. Hosts(body[h]) = {h} BY AloneInPlace
<1>3. Seen(h, v) BY <1>1, <1>2, HostsSee DEF Seen
<1>4. aliases[h] = {}
  <2>. SUFFICES ASSUME NEW a \in aliases[h] PROVE FALSE OBVIOUS
  <2>1. a \in Handle /\ owner[a] = h /\ IsAlias(a) BY <1>1 DEF TypeOK, AliasLinks, IsAlias
  <2>2. IsOwner(h) /\ body[a] = body[h] BY <2>1 DEF RInv, AliasLinks, FamilyCoherent
  <2>3. a = h BY <1>2, <2>1, <2>2 DEF Hosts
  <2>. QED BY <2>1, <2>2, <2>3, HandleAssumption DEF IsOwner
<1>. QED BY <1>1, <1>3, <1>4, OwnIsSet

\* In-place changes through an alias reach its family and nobody else.
LEMMA AliasSets ==
  ASSUME RInv, NEW h \in Handle, NEW v \in Value, Live(h), IsAlias(h), InPlace(h, v)
  PROVE  Values!SetFamily(h, v)
<1>1. TypeOK /\ AliasLinks /\ IInv BY DEF RInv, IInv
<1>2. Hosts(body[h]) = Family(h) BY InPlaceIsPrivate DEF InPlace
<1>3. \A g \in Handle : Contents(g)' = IF g \in Family(h) THEN v ELSE Contents(g)
  BY <1>1, <1>2, HostsSee DEF InPlace
<1>. QED BY <1>1, <1>3, FamilyIsSet DEF InPlace

-----------------------------------------------------------------------------
(* The static empty body *)

\* Nobody changes the contents of the static empty body: changes in place keep the number of
\* elements, or have the body for themselves.
LEMMA EmptyStays ==
  ASSUME IInv, IInv', obj[EmptyRep] = EmptyValue, Next
  PROVE  obj'[EmptyRep] = EmptyValue
<1>1. TypeOK /\ obj'[EmptyRep] # None BY DEF IInv
<1>2. ASSUME NEW h \in Handle, NEW v \in Value, NewBody(h, v) \/ DivorceFamily(h, v)
      PROVE  obj'[EmptyRep] = EmptyValue
  BY <1>1, <1>2, ValueAssumption, BodyAssumption DEF NewBody, DivorceFamily, Fresh, Left, TypeOK
<1>3. ASSUME NEW h \in Handle, NEW v \in Value, Write(h, v) PROVE obj'[EmptyRep] = EmptyValue
  <2>1. CASE CopyOnWrite(h, v) BY <1>2, <2>1 DEF CopyOnWrite
  <2>2. CASE InPlace(h, v)
    <3>1. body[h] = EmptyRep => v = EmptyValue BY <1>3, ValueAssumption DEF Write
    <3>. QED BY <1>1, <2>2, <3>1 DEF InPlace, TypeOK
  <2>. QED BY <1>3, <2>1, <2>2 DEF Write
<1>4. ASSUME NEW h \in Handle, NEW v \in Value, Replace(h, v) PROVE obj'[EmptyRep] = EmptyValue
  <2>1. CASE NewBody(h, v) BY <1>2, <2>1
  <2>2. CASE ~(refc[body[h]] > 1) /\ obj' = [obj EXCEPT ![body[h]] = v]
    <3>1. body[h] # EmptyRep
      <4>. SUFFICES ASSUME body[h] = EmptyRep PROVE FALSE OBVIOUS
      <4>1. Hosts(EmptyRep) \in SUBSET Handle /\ h \in Hosts(EmptyRep) BY DEF Hosts
      <4>2. Cardinality(Hosts(EmptyRep)) \in Nat /\ Cardinality(Hosts(EmptyRep)) # 0
        BY <4>1, HandlesFinite, FS_EmptySet
      <4>3. refc[EmptyRep] >= Cardinality(Hosts(EmptyRep)) + 1 /\ refc[EmptyRep] \in Nat
        BY BodyAssumption DEF IInv, RefcountCovers, TypeOK, Static
      <4>. QED BY <2>2, <4>2, <4>3
    <3>. QED BY <1>1, <2>2, <3>1 DEF TypeOK
  <2>. QED BY <1>4, <2>1, <2>2 DEF Replace
<1>5. ASSUME NEW h \in Handle, NEW v \in Value,
             AssignValues(h, v) \/ Resize(h, v) \/ Extend(h, v)
      PROVE  obj'[EmptyRep] = EmptyValue
  BY <1>2, <1>5 DEF AssignValues, CopyOnWrite, Resize, Extend
<1>6. ASSUME NEW h \in Handle, NEW v \in Value, Construct(h, v) PROVE obj'[EmptyRep] = EmptyValue
  BY <1>1, <1>6, BodyAssumption DEF Construct, Fresh, TypeOK
<1>7. ASSUME UNCHANGED obj \/ \E b \in Body : obj' = Left(b, refc') PROVE obj'[EmptyRep] = EmptyValue
  BY <1>1, <1>7 DEF Left, TypeOK
<1>8. ASSUME NEW h \in Handle, NEW v \in Value,
             \/ Destroy(h) \/ Clear(h) \/ WriteThrows(h) \/ ReplaceThrows(h)
             \/ AssignThrows(h, v) \/ ResizeThrows(h, v)
      PROVE  obj'[EmptyRep] = EmptyValue
  <2>1. Live(h) => body[h] \in Body BY <1>1 DEF TypeOK, Live
  <2>2. UNCHANGED obj \/ \E b \in Body : obj' = Left(b, refc')
    BY <1>8, <2>1 DEF Destroy, Clear, WriteThrows, ReplaceThrows, AssignThrows, ResizeThrows
  <2>. QED BY <1>7, <2>2
<1>9. ASSUME NEW h \in Handle, NEW g \in Handle,
             Copy(h, g) \/ MakeAlias(h, g) \/ Assign(h, g) \/ Swap(h, g) \/ Relocate(h, g)
      PROVE  obj'[EmptyRep] = EmptyValue
  <2>1. Live(h) => body[h] \in Body BY <1>1 DEF TypeOK, Live
  <2>2. UNCHANGED obj \/ \E b \in Body : obj' = Left(b, refc')
    BY <1>9, <2>1 DEF Copy, MakeAlias, ShareBody, Assign, Swap, Relocate, Exchange
  <2>. QED BY <1>7, <2>2
<1>10. EmptyValue \in Value BY ValueAssumption
<1>. QED BY <1>3, <1>4, <1>5, <1>6, <1>8, <1>9, <1>10 DEF Next

\* Arrays attached to the static empty body are empty.
LEMMA EmptyIsEmpty == Spec => [](obj[EmptyRep] = EmptyValue)
<1>1. Init => obj[EmptyRep] = EmptyValue BY BodyAssumption DEF Init
<1>2. IInv /\ IInv' /\ obj[EmptyRep] = EmptyValue /\ [Next]_vars => (obj[EmptyRep] = EmptyValue)'
  <2>1. CASE Next BY <2>1, EmptyStays
  <2>2. CASE UNCHANGED vars BY <2>2 DEF vars
  <2>. QED BY <2>1, <2>2
<1>. QED BY <1>1, <1>2, IsInductive, PTL DEF Spec

-----------------------------------------------------------------------------
(* The refinement *)

LEMMA StepSimulated ==
  ASSUME Disciplined, RInv, IInv', obj[EmptyRep] = EmptyValue, obj'[EmptyRep] = EmptyValue, Next
  PROVE  Values!ANext
<1>1. TypeOK /\ AliasLinks /\ IInv BY DEF RInv, IInv
<1>2. ASSUME NEW h \in Handle, Live(h)
      PROVE  /\ body[h] \in Body /\ Contents(h) = obj[body[h]] /\ Contents(h) \in Value
             /\ Contents(h) # None
  BY <1>1, <1>2, ContentsOf
<1>3. ASSUME NEW h \in Handle, ~Live(h)
      PROVE  Contents(h) = None /\ owner[h] = None /\ aliases[h] = {} /\ \A a \in Handle : owner[a] # h
  BY <1>1, <1>3 DEF Contents, AliasLinks
<1>4. ASSUME NEW h \in Handle, MayRebind(h) PROVE ~IsAlias(h) /\ aliases[h] = {}
  BY <1>4 DEF Disciplined, MayRebind
<1>5. ASSUME NEW h \in Handle, NEW v \in Value, Construct(h, v) PROVE Values!New(h, v)
  <2>1. PICK b \in Body :
          /\ IF v = EmptyValue THEN b = EmptyRep ELSE Fresh(b)
          /\ body' = [body EXCEPT ![h] = b]
          /\ obj' = [obj EXCEPT ![b] = v]
    BY <1>5 DEF Construct
  <2>2. b \in Body \cup {None} /\ b # None /\ obj'[b] = v BY <1>1, <2>1, BodyAssumption DEF TypeOK
  <2>3. \A c \in Body : obj'[c] = obj[c] \/ obj'[c] = None \/ obj[c] = None
    BY <1>1, <2>1 DEF TypeOK, Fresh
  <2>4. Seen(h, v) BY <1>1, <2>1, <2>2, <2>3, MovedSeen
  <2>5. Contents(h) = None /\ UNCHANGED owner BY <1>3, <1>5 DEF Construct
  <2>. QED BY <2>4, <2>5, BirthSeen DEF Values!New
<1>6. ASSUME NEW h \in Handle, NEW g \in Handle, Copy(h, g) \/ MakeAlias(h, g)
      PROVE  /\ Seen(h, Contents(g)) /\ Contents(h) = None
             /\ Values!Alive(g) /\ Contents(g) = [k \in Handle |-> Contents(k)][g]
  <2>1. ~Live(h) /\ Live(g) /\ body' = [body EXCEPT ![h] = body[g]] /\ obj' = obj
    BY <1>6 DEF Copy, MakeAlias, ShareBody
  <2>2. body[g] \in Body \cup {None} /\ body[g] # None /\ obj'[body[g]] = Contents(g)
    BY <1>2, <2>1, BodyAssumption
  <2>3. \A c \in Body : obj'[c] = obj[c] \/ obj'[c] = None \/ obj[c] = None BY <2>1
  <2>4. Seen(h, IF body[g] = None THEN None ELSE obj'[body[g]])
    BY <1>1, <2>1, <2>2, <2>3, MovedSeen
  <2>5. Contents(g) # None /\ Contents(h) = None BY <1>2, <1>3, <2>1
  <2>. QED BY <2>1, <2>2, <2>4, <2>5 DEF Values!Alive
<1>7. ASSUME NEW h \in Handle, NEW g \in Handle, Copy(h, g) PROVE Values!CopyOf(h, g)
  <2>1. owner' = [owner EXCEPT ![h] = owner[g]] BY <1>7 DEF Copy, CopyLinks, Enter
  <2>2. [k \in Handle |-> Contents(k)]' = [[k \in Handle |-> Contents(k)] EXCEPT ![h] = Contents(g)]
        /\ ~Values!Alive(h)
    BY <1>6, <1>7, BirthSeen
  <2>. QED BY <1>6, <1>7, <2>1, <2>2 DEF Values!CopyOf
<1>8. ASSUME NEW h \in Handle, NEW g \in Handle, MakeAlias(h, g) PROVE Values!AliasOf(h, g)
  <2>1. owner' = [owner EXCEPT ![h] = IF owner[g] = None THEN g ELSE owner[g]]
    BY <1>8, HandleAssumption DEF MakeAlias, CopyLinks, Enter, IsOwner, IsAlias
  <2>2. [k \in Handle |-> Contents(k)]' = [[k \in Handle |-> Contents(k)] EXCEPT ![h] = Contents(g)]
        /\ ~Values!Alive(h)
    BY <1>6, <1>8, BirthSeen
  <2>. QED BY <1>6, <1>8, <2>1, <2>2 DEF Values!AliasOf
<1>9. ASSUME NEW h \in Handle, Destroy(h) PROVE Values!Drop(h)
  <2>1. Live(h) /\ body' = [body EXCEPT ![h] = None] /\ obj' = Left(body[h], refc')
    BY <1>9 DEF Destroy
  <2>2. \A c \in Body : obj'[c] = obj[c] \/ obj'[c] = None \/ obj[c] = None
    BY <1>1, <2>1 DEF TypeOK, Left
  <2>3. Seen(h, None) BY <1>1, <2>1, <2>2, MovedSeen
  <2>4. owner' = [[a \in Handle |-> IF owner[a] = h THEN Orphan ELSE owner[a]] EXCEPT ![h] = None]
    <3>1. CASE IsOwner(h)
      <4>1. Forget(h) BY <1>9, <3>1 DEF Destroy
      <4>. QED BY <1>1, <3>1, <4>1, HandleAssumption DEF TypeOK, AliasLinks, Forget, IsOwner
    <3>2. CASE ~IsOwner(h)
      <4>1. owner' = [owner EXCEPT ![h] = None] BY <1>9, <3>2 DEF Destroy
      <4>2. \A a \in Handle : owner[a] # h BY <1>1, <3>2 DEF AliasLinks, IsAlias
      <4>. QED BY <1>1, <4>1, <4>2 DEF TypeOK
    <3>. QED BY <3>1, <3>2
  <2>5. owner' = [Values!CutOff(h) EXCEPT ![h] = None]
    BY <2>4 DEF Values!CutOff, Values!AliasesOf
  <2>. QED BY <1>2, <2>1, <2>3, <2>5 DEF Values!Drop, Values!Alive, Seen
<1>10. ASSUME NEW h \in Handle, NEW g \in Handle, Assign(h, g) PROVE Values!SetOwn(h, Contents(g))
  <2>1. /\ Live(h) /\ Live(g) /\ MayRebind(h) /\ UNCHANGED <<owner, aliases>>
        /\ body' = [body EXCEPT ![h] = body[g]]
        /\ obj' = Left(body[h], refc')
    BY <1>10 DEF Assign
  <2>2. body[g] \in Body \cup {None} /\ body[g] # None BY <1>2, <2>1, BodyAssumption
  <2>3. \A c \in Body : obj'[c] = obj[c] \/ obj'[c] = None \/ obj[c] = None
    BY <1>1, <2>1 DEF TypeOK, Left
  <2>4. body'[h] = body[g] /\ Live(h)' BY <1>1, <2>1, <2>2 DEF TypeOK, Live
  <2>5. obj'[body[g]] # None BY <2>4 DEF IInv, NoDanglingHost
  <2>6. obj'[body[g]] = Contents(g) BY <1>1, <1>2, <2>1, <2>5 DEF TypeOK, Left
  <2>7. Seen(h, Contents(g)) BY <1>1, <2>1, <2>2, <2>3, <2>6, MovedSeen
  <2>. QED BY <1>1, <1>2, <1>4, <2>1, <2>7, OwnIsSet
<1>11. ASSUME NEW h \in Handle, NEW v \in Value, Live(h), CopyOnWrite(h, v)
       PROVE  Values!SetOwn(h, v) \/ Values!SetFamily(h, v)
  <2>1. CASE IsOwner(h) /\ NewBody(h, v) /\ Forget(h)
    <3>1. ~IsAlias(h) BY <2>1, HandleAssumption DEF IsOwner, IsAlias
    <3>2. Seen(h, v) BY <1>1, <2>1, NewBodySeen
    <3>. QED BY <1>1, <1>2, <1>11, <2>1, <3>1, <3>2, OwnIsSet
  <2>2. CASE IsAlias(h) /\ DivorceFamily(h, v) BY <2>2, DivorceSets
  <2>. QED BY <1>11, <2>1, <2>2 DEF CopyOnWrite
<1>12. ASSUME NEW h \in Handle, NEW v \in Value, Live(h), MayRebind(h), NewBody(h, v),
              UNCHANGED <<owner, aliases>>
       PROVE  Values!SetOwn(h, v)
  BY <1>1, <1>2, <1>4, <1>12, NewBodySeen, OwnIsSet
<1>13. ASSUME NEW h \in Handle, NEW v \in Value, Write(h, v)
       PROVE  Values!SetOwn(h, v) \/ Values!SetFamily(h, v)
  <2>1. Live(h) /\ owner[h] # Orphan BY <1>13 DEF Write, MayWrite, Disciplined
  <2>2. CASE InPlace(h, v) /\ IsAlias(h) BY <2>1, <2>2, AliasSets
  <2>3. CASE InPlace(h, v) /\ ~IsAlias(h)
    <3>1. IsOwner(h) BY <1>1, <2>1, <2>3 DEF TypeOK, IsAlias, IsOwner
    <3>2. refc[body[h]] =< 1 BY <1>1, <1>2, <2>1, <2>3, <3>1 DEF InPlace, NeedsCopy, TypeOK
    <3>. QED BY <2>1, <2>3, <3>2, AloneSets DEF InPlace
  <2>. QED BY <1>11, <1>13, <2>1, <2>2, <2>3 DEF Write
<1>14. ASSUME NEW h \in Handle, NEW v \in Value, AssignValues(h, v)
       PROVE  Values!SetOwn(h, v) \/ Values!SetFamily(h, v)
  BY <1>11, <1>12, <1>14 DEF AssignValues
<1>15. ASSUME NEW h \in Handle, NEW v \in Value, Replace(h, v) PROVE Values!SetOwn(h, v)
  <2>1. Live(h) /\ MayRebind(h) /\ UNCHANGED <<owner, aliases>> BY <1>15 DEF Replace
  <2>2. CASE NewBody(h, v) BY <1>12, <2>1, <2>2
  <2>3. CASE ~(refc[body[h]] > 1) /\ obj' = [obj EXCEPT ![body[h]] = v] /\ UNCHANGED <<body, refc>>
    <3>1. refc[body[h]] =< 1 BY <1>1, <1>2, <2>1, <2>3 DEF TypeOK
    <3>. QED BY <1>4, <2>1, <2>3, <3>1, AloneSets
  <2>. QED BY <1>15, <2>2, <2>3 DEF Replace
<1>16. ASSUME NEW h \in Handle, NEW v \in Value, Resize(h, v) PROVE Values!SetOwn(h, v)
  BY <1>12, <1>16 DEF Resize
<1>17. ASSUME NEW h \in Handle, NEW v \in Value, Extend(h, v) PROVE Values!SetOwn(h, v)
  <2>1. Live(h) /\ IsOwner(h) /\ NewBody(h, v) /\ Forget(h) BY <1>17 DEF Extend
  <2>2. ~IsAlias(h) BY <2>1, HandleAssumption DEF IsOwner, IsAlias
  <2>. QED BY <1>1, <1>2, <2>1, <2>2, NewBodySeen, OwnIsSet
<1>18. ASSUME NEW h \in Handle, Clear(h) PROVE Values!SetOwn(h, EmptyValue)
  <2>1. /\ Live(h) /\ MayRebind(h) /\ UNCHANGED <<owner, aliases>>
        /\ body' = [body EXCEPT ![h] = EmptyRep]
        /\ obj' = Left(body[h], refc')
    BY <1>18 DEF Clear
  <2>2. EmptyRep \in Body \cup {None} /\ EmptyRep # None BY BodyAssumption
  <2>3. \A c \in Body : obj'[c] = obj[c] \/ obj'[c] = None \/ obj[c] = None
    BY <1>1, <2>1 DEF TypeOK, Left
  <2>4. Seen(h, EmptyValue) BY <1>1, <2>1, <2>2, <2>3, MovedSeen
  <2>. QED BY <1>1, <1>2, <1>4, <2>1, <2>4, ValueAssumption, OwnIsSet
<1>19. ASSUME NEW f \in Handle, NEW g \in Handle, Swap(f, g) \/ Relocate(f, g) PROVE Values!Trade(f, g)
  <2>1. Live(f) /\ Exchange(f, g) BY <1>19 DEF Swap, Relocate
  <2>2. owner[f] # g /\ owner[g] # f
    BY <1>3, <1>19, HandleAssumption DEF Swap, Relocate
  <2>3. \A h \in Handle : Contents(h)' = Contents(Renamed(h, f, g))
    BY <2>1 DEF Exchange, Contents, Live
  <2>4. owner' = [h \in Handle |-> IF owner[Renamed(h, f, g)] \in Handle
                                     THEN Renamed(owner[Renamed(h, f, g)], f, g)
                                     ELSE owner[Renamed(h, f, g)]]
    BY <2>1 DEF Exchange
  <2>. QED BY <1>2, <2>1, <2>2, <2>3, <2>4 DEF Values!Trade, Values!Alive, Renamed
<1>20. ASSUME NEW h \in Handle, NEW v \in Value
       PROVE  ~(WriteThrows(h) \/ ReplaceThrows(h) \/ AssignThrows(h, v) \/ ResizeThrows(h, v))
  BY DEF Disciplined, WriteThrows, ReplaceThrows, AssignThrows, ResizeThrows
<1>21. ASSUME NEW h \in Handle, NEW v \in Value,
              Values!New(h, v) \/ Values!SetOwn(h, v) \/ Values!SetFamily(h, v)
       PROVE  Values!ANext
  BY <1>21 DEF Values!ANext
<1>22. ASSUME NEW h \in Handle, NEW g \in Handle,
              Values!CopyOf(h, g) \/ Values!AliasOf(h, g) \/ Values!Trade(h, g)
       PROVE  Values!ANext
  BY <1>22 DEF Values!ANext
<1>23. ASSUME NEW h \in Handle, Values!Drop(h) PROVE Values!ANext
  BY <1>23 DEF Values!ANext
<1>24. ASSUME NEW h \in Handle, NEW g \in Handle, Assign(h, g) PROVE Values!ANext
  <2>1. Contents(g) \in Value BY <1>2, <1>24 DEF Assign
  <2>. QED BY <1>10, <1>21, <1>24, <2>1
<1>25. EmptyValue \in Value BY ValueAssumption
<1>26. CASE \E h \in Handle, v \in Value :
              \/ Construct(h, v) \/ Write(h, v) \/ AssignValues(h, v) \/ Replace(h, v)
              \/ Resize(h, v) \/ Extend(h, v) \/ AssignThrows(h, v) \/ ResizeThrows(h, v)
  BY <1>5, <1>13, <1>14, <1>15, <1>16, <1>17, <1>20, <1>21, <1>26
<1>27. CASE \E h, g \in Handle :
              Copy(h, g) \/ MakeAlias(h, g) \/ Assign(h, g) \/ Swap(h, g) \/ Relocate(h, g)
  BY <1>7, <1>8, <1>19, <1>22, <1>24, <1>27
<1>28. CASE \E h \in Handle : Destroy(h) \/ Clear(h) \/ WriteThrows(h) \/ ReplaceThrows(h)
  BY <1>9, <1>18, <1>20, <1>21, <1>23, <1>25, <1>28
<1>. QED BY <1>26, <1>27, <1>28 DEF Next

\* For clients that keep to the discipline, shared bodies cannot be told from one value per
\* handle and family: copying early or late, sharing and counting are never seen.
THEOREM SharingInvisible == Disciplined /\ Spec => ImplementsAliasedValues
<1>1. Init => Values!AInit BY DEF Init, Values!AInit, Contents, Live
<1>2. CASE ~Disciplined BY <1>2, PTL
<1>3. CASE Disciplined
  <2>1. /\ RInv /\ IInv' /\ obj[EmptyRep] = EmptyValue /\ (obj[EmptyRep] = EmptyValue)'
        /\ [Next]_vars
        => [Values!ANext]_(Values!avars)
    <3>1. CASE Next BY <1>3, <3>1, StepSimulated
    <3>2. CASE UNCHANGED vars BY <3>2 DEF vars, Values!avars, Contents, Live
    <3>. QED BY <3>1, <3>2
  <2>2. ~Rebinding /\ ~Throwing BY <1>3 DEF Disciplined
  <2>3. RInv <=> IInv /\ AliasLinks /\ FamilyCoherent BY DEF RInv
  <2>. QED
    BY <1>1, <2>1, <2>2, <2>3, IsInductive, LinksAgree, FamiliesStayTogether, EmptyIsEmpty, PTL
    DEF Spec, ImplementsAliasedValues, Values!Spec
<1>. QED BY <1>2, <1>3
=============================================================================
