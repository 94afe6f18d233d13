--------------------------- MODULE RuleGraph_proofs ---------------------------
(***************************************************************************)
(* Proofs about one rule chain and the arcs in it, for any finite sets of  *)
(* rules, preconditions and properties.  eliminate() and                   *)
(* add_scheduled_rule() update counters one arc at a time while nodes wait *)
(* on a queue to be eliminated; in between the counters of the queued      *)
(* nodes are wrong.  Sound says what stays right.  Carry says what the     *)
(* counters do not: a node loses a supplier only to another one that       *)
(* serves the same input, and its consumers are told when it is scheduled. *)
(* Folds are reasoned about as functions on the sets of elements already   *)
(* visited (module Folding).                                               *)
(***************************************************************************)
EXTENDS RuleGraph, Folding

\* The sets of arcs a graph can have.
ArcsAmong == SUBSET (Node \X Node)

\* States of a chain, and work records, over a fixed set of arcs.
GraphOver(D) == [arc: [D -> Nat], pending: [Node -> Int], out: [Node -> Int],
                 alive: SUBSET Node, flagged: SUBSET Node, sched: SUBSET Node, ready: SUBSET Node]
WorkOver(D) == [g: GraphOver(D), marked: SUBSET Node, queue: SUBSET Node, ok: BOOLEAN]

(* There are finitely many nodes.                                                        *)
LEMMA NodeFinite == IsFiniteSet(Node)
<1>1. IsFiniteSet(Production \cup Precondition)
  BY NodesFinite, FS_Union
<1>2. IsFiniteSet(Rule \cup Property)
  BY <1>1, NodesFinite, FS_Union DEF Rule
<1> QED BY <1>2, FS_AddElement DEF Node

\* What an iteration over node n decides: the suppliers that lose a consumer, those for which it
\* was the last one, and the nodes that go on the queue.
Needed(w, n, maxopt) ==
  {s \in Suppliers(w.g, n) \ (w.marked \cup Starved(w, n, maxopt)) : w.g.arc[<<s, n>>] > Optional}
Useless(w, n, maxopt) == {s \in Needed(w, n, maxopt) : w.g.out[s] = 1}
Doomed(w, n, maxopt) ==
  Starved(w, n, maxopt) \cup {s \in Useless(w, n, maxopt) : s \in Property \/ s \notin w.g.sched}

(* What an iteration of eliminate() changes, component by component, and when it gives
   up. *)
LEMMA EliminateNodeParts ==
  ASSUME NEW D \in ArcsAmong, NEW w \in WorkOver(D), w.ok, NEW n \in Node, NEW maxopt
  PROVE  LET v == EliminateNode(w, n, maxopt)
             N == Needed(w, n, maxopt)
             X == Doomed(w, n, maxopt)
         IN  /\ v \in WorkOver(D)
             /\ v.ok <=> ~(Final \in Starved(w, n, maxopt) \/ Useless(w, n, maxopt) \cap w.g.sched \cap Production # {})
             /\ v.ok => /\ v.marked = w.marked \cup X
                        /\ v.queue = (w.queue \ {n}) \cup X
                        /\ v.g.alive = w.g.alive \ {n} /\ v.g.flagged = w.g.flagged \ {n}
                        /\ v.g.sched = w.g.sched \ {n} /\ v.g.ready = w.g.ready \ {n}
                        /\ \A a \in D : v.g.arc[a] = IF n \in {a[1], a[2]} THEN Inactive ELSE w.g.arc[a]
                        /\ \A m \in Node : m # n =>
                             v.g.pending[m] = IF m \in Consumers(w.g, n) THEN w.g.pending[m] - 1 ELSE w.g.pending[m]
                        /\ \A m \in Node : m # n =>
                             v.g.out[m] = IF m \in N THEN w.g.out[m] - 1 ELSE w.g.out[m]
             /\ ~v.ok => v.g = w.g /\ v.marked = w.marked /\ v.queue = w.queue
<1> DEFINE v == EliminateNode(w, n, maxopt)
           N == Needed(w, n, maxopt)
           X == Doomed(w, n, maxopt)
           S == Starved(w, n, maxopt)
           bad == Final \in S \/ Useless(w, n, maxopt) \cap w.g.sched \cap Production # {}
           arc2 == [a \in DOMAIN w.g.arc |-> IF n \in {a[1], a[2]} THEN Inactive ELSE w.g.arc[a]]
           pending2 == [m \in Node |-> CASE m = n -> 0
                                         [] m \in Consumers(w.g, n) -> w.g.pending[m] - 1
                                         [] OTHER -> w.g.pending[m]]
           out2 == [m \in Node |-> CASE m = n -> 0
                                             [] m \in N -> w.g.out[m] - 1
                                             [] OTHER -> w.g.out[m]]
           g2 == [arc |-> arc2, pending |-> pending2, out |-> out2,
                  alive |-> w.g.alive \ {n}, flagged |-> w.g.flagged \ {n},
                   sched |-> w.g.sched \ {n}, ready |-> w.g.ready \ {n}]
<1>1. v = IF bad THEN [w EXCEPT !.ok = FALSE]
          ELSE [ok |-> TRUE, marked |-> w.marked \cup X, queue |-> (w.queue \ {n}) \cup X, g |-> g2]
  BY DEF EliminateNode, Needed, Useless, Doomed
<1>2. w.g \in GraphOver(D) /\ w.marked \subseteq Node /\ w.queue \subseteq Node
  BY DEF WorkOver
<1>3. w.g.arc \in [D -> Nat] /\ w.g.pending \in [Node -> Int] /\ w.g.out \in [Node -> Int]
      /\ w.g.alive \subseteq Node /\ w.g.flagged \subseteq Node /\ w.g.sched \subseteq Node /\ w.g.ready \subseteq Node
  BY <1>2 DEF GraphOver
<1>4. arc2 \in [D -> Nat]
  BY <1>3 DEF Inactive
<1>5. pending2 \in [Node -> Int]
  BY <1>3
<1>6. out2 \in [Node -> Int]
  <2> HIDE DEF N
  <2> QED BY <1>3
<1>7. X \subseteq Node
  BY DEF Doomed, Useless, Needed, Starved, Consumers, Suppliers
<1>8. \A m \in Node : m # n =>
         pending2[m] = IF m \in Consumers(w.g, n) THEN w.g.pending[m] - 1 ELSE w.g.pending[m]
  OBVIOUS
<1>9. \A m \in Node : m # n => out2[m] = IF m \in N THEN w.g.out[m] - 1 ELSE w.g.out[m]
  <2> HIDE DEF N
  <2> QED OBVIOUS
<1>10. \A a \in D : arc2[a] = IF n \in {a[1], a[2]} THEN Inactive ELSE w.g.arc[a]
  BY <1>3
<1> HIDE DEF v, N, X, S, bad, arc2, pending2, out2
<1>11. g2 \in GraphOver(D)
  BY <1>3, <1>4, <1>5, <1>6 DEF GraphOver
<1>12. CASE bad
  <2>1. v = [w EXCEPT !.ok = FALSE]
    BY <1>1, <1>12
  <2>2. v \in WorkOver(D) /\ ~v.ok /\ v.g = w.g /\ v.marked = w.marked /\ v.queue = w.queue
    BY <2>1 DEF WorkOver
  <2> QED BY <2>2, <1>12 DEF v, bad, S
<1>13. CASE ~bad
  <2>1. v = [ok |-> TRUE, marked |-> w.marked \cup X, queue |-> (w.queue \ {n}) \cup X, g |-> g2]
    BY <1>1, <1>13
  <2>2. v \in WorkOver(D)
    <3> HIDE DEF g2
    <3> QED BY <2>1, <1>2, <1>7, <1>11 DEF WorkOver
  <2> QED BY <2>1, <2>2, <1>8, <1>9, <1>10, <1>13 DEF v, bad, S, N, X
<1> QED BY <1>12, <1>13

(***************************************************************************)
(* The invariant of elimination.                                           *)
(***************************************************************************)

\* The suppliers a node waits for.
Open(g, m) == {s \in Suppliers(g, m) : g.arc[<<s, m>>] # Resolved}

\* Active arcs connect nodes that are alive, of the right kinds, and an arc is resolved by
\* scheduling its source.
Linked(g) == \A m \in Node : \A n \in Consumers(g, m) :
  /\ m \in g.alive /\ n \in g.alive
  /\ \/ m \in Property /\ n \in Rule \cup {Final} /\ (g.arc[<<m, n>>] = Resolved \/ g.arc[<<m, n>>] >= Source)
     \/ m \in Production /\ n \in Property /\ g.arc[<<m, n>>] \in {Resolved, Source}
     \/ m \in Precondition /\ n \in Production /\ g.arc[<<m, n>>] \in {Resolved, Unique}
  /\ g.arc[<<m, n>>] = Resolved => m \in g.sched

\* Nodes not on the queue wait for exactly the suppliers that are open.
Waiting(w) == \A m \in w.g.alive \ w.marked : w.g.pending[m] = Cardinality(Open(w.g, m))
\* ... and are kept for exactly their consumers; a scheduled rule may be kept for its own sake.
Demanded(w) == \A m \in w.g.alive \ w.marked :
  /\ w.g.out[m] >= Cardinality(Consumers(w.g, m))
  /\ m \in Property \/ m \notin w.g.sched => w.g.out[m] = Cardinality(Consumers(w.g, m))
\* What is scheduled does not wait.
Served(w) == \A m \in (w.g.sched \cap w.g.alive) \ w.marked : Open(w.g, m) = {}
\* What is marked is on the queue or gone.
Queued(w) == w.g.alive \cap w.marked \subseteq w.queue /\ w.queue \subseteq w.marked
\* Nothing on the queue has been used by a node that stays.
Unused(w) == \A n \in w.queue : \A c \in Consumers(w.g, n) \ w.marked : w.g.arc[<<n, c>>] # Resolved

Sound(w) == Linked(w.g) /\ Waiting(w) /\ Demanded(w) /\ Served(w) /\ Queued(w) /\ Unused(w)

\* The ready rules are those that wait for nothing; the ready list is part of them.
Flags(w) ==
  /\ w.g.flagged \subseteq w.g.alive \ (w.g.sched \cup Property)
  /\ w.g.ready \subseteq w.g.flagged
  /\ \A m \in w.g.alive \ (w.g.sched \cup Property \cup w.marked) : m \in w.g.flagged <=> w.g.pending[m] = 0

\* All scheduled production rules are kept for their own sake.
Enforced(w) == \A m \in (w.g.sched \cap w.g.alive \cap Production) \ w.marked : w.g.out[m] > Cardinality(Consumers(w.g, m))

\* code is what the arcs meant when they were gathered.  An arc keeps its code until it is
\* resolved or cut, and a node that stays keeps a supplier for each input it was gathered with.
Fed(code, w) ==
  /\ \A a \in DOMAIN w.g.arc : w.g.arc[a] \in {code[a], Resolved, Inactive}
  /\ \A a \in DOMAIN w.g.arc : a[2] \in w.g.alive \ w.marked =>
       \E b \in DOMAIN w.g.arc : /\ b[2] = a[2] /\ code[b] = code[a] /\ (b = a \/ code[a] >= Source)
                                 /\ w.g.arc[b] # Inactive
\* The consumers of a scheduled node that stay have got it; those of the nodes in X are being told.
Told(w, X) == \A s \in w.g.sched \ X : \A c \in Consumers(w.g, s) \ w.marked : w.g.arc[<<s, c>>] = Resolved
\* The rules S are scheduled for good.
Settled(w, S) == S \subseteq Rule /\ S \subseteq (w.g.sched \cap w.g.alive) \ w.queue
\* The consumers of n among T know of it.
Heard(w, n, T) == \A c \in (T \cap Consumers(w.g, n)) \ w.marked : w.g.arc[<<n, c>>] = Resolved

\* What is handed on from one work record to the next while the counters are right.
Carry(code, S, X, w) == Fed(code, w) /\ Told(w, X) /\ Settled(w, S)
Carries(w, v) == \A code, S, X : Carry(code, S, X, w) => Carry(code, S, X, v)

(* The kinds of nodes.                                                                   *)
LEMMA NodeKinds ==
  /\ Rule \subseteq Node /\ Property \subseteq Node /\ Final \in Node
  /\ Production \subseteq Rule /\ Precondition \subseteq Rule
  /\ Rule \cap Property = {} /\ Final \notin Rule /\ Final \notin Property
  BY NodesDisjoint DEF Node, Rule

(* The neighbours of a node are finitely many, so they can be counted.                   *)
LEMMA ArcsFinite ==
  ASSUME NEW g, NEW m
  PROVE  /\ Consumers(g, m) \subseteq Node /\ Suppliers(g, m) \subseteq Node /\ Open(g, m) \subseteq Suppliers(g, m)
         /\ IsFiniteSet(Consumers(g, m)) /\ Cardinality(Consumers(g, m)) \in Nat
         /\ IsFiniteSet(Suppliers(g, m)) /\ Cardinality(Suppliers(g, m)) \in Nat
         /\ IsFiniteSet(Open(g, m)) /\ Cardinality(Open(g, m)) \in Nat
<1>1. Consumers(g, m) \subseteq Node /\ Suppliers(g, m) \subseteq Node /\ Open(g, m) \subseteq Suppliers(g, m)
  BY DEF Consumers, Suppliers, Open
<1>2. Open(g, m) \subseteq Node
  BY <1>1
<1> QED BY <1>1, <1>2, NodeFinite, FS_Subset, FS_CardinalityType

(* Consumers and suppliers are the two ends of an active arc.                            *)
LEMMA ArcFacts ==
  ASSUME NEW g, NEW m \in Node, NEW n \in Node
  PROVE  /\ n \in Consumers(g, m) <=> m \in Suppliers(g, n)
         /\ n \in Consumers(g, m) <=> <<m, n>> \in DOMAIN g.arc /\ g.arc[<<m, n>>] # Inactive
  BY DEF Consumers, Suppliers

(* What the kinds of its ends say of an active arc: rules reach rules only through
   properties, except for preconditions. *)
LEMMA LinkedFacts ==
  ASSUME NEW D \in ArcsAmong, NEW g \in GraphOver(D), Linked(g), NEW m \in Node, NEW n \in Consumers(g, m)
  PROVE  /\ m \in g.alive /\ n \in g.alive /\ n \in Node /\ m # n /\ m # Final
         /\ g.arc[<<m, n>>] > Optional
         /\ g.arc[<<m, n>>] # Resolved /\ g.arc[<<m, n>>] < Source => g.arc[<<m, n>>] = Unique
         /\ g.arc[<<m, n>>] = Resolved => m \in g.sched
         /\ m \in Production => n \in Property
         /\ m \in Precondition => n \in Production
         /\ m \in Property => n \in Rule \cup {Final}
         /\ n \in Property => m \in Production
         /\ n \in Rule \cup {Final} => m \in Property \/ (m \in Precondition /\ n \in Production)
<1>1. n \in Node
  BY DEF Consumers
<1>2. g.arc[<<m, n>>] \in Nat
  BY DEF Consumers, GraphOver
<1>3. /\ m \in g.alive /\ n \in g.alive
      /\ \/ m \in Property /\ n \in Rule \cup {Final} /\ (g.arc[<<m, n>>] = Resolved \/ g.arc[<<m, n>>] >= Source)
         \/ m \in Production /\ n \in Property /\ g.arc[<<m, n>>] \in {Resolved, Source}
         \/ m \in Precondition /\ n \in Production /\ g.arc[<<m, n>>] \in {Resolved, Unique}
      /\ g.arc[<<m, n>>] = Resolved => m \in g.sched
  BY DEF Linked
<1>4. g.arc[<<m, n>>] > Optional /\ (g.arc[<<m, n>>] # Resolved /\ g.arc[<<m, n>>] < Source => g.arc[<<m, n>>] = Unique)
  BY <1>2, <1>3 DEF Optional, Initial, Unique, Resolved, Source
<1> QED BY <1>1, <1>3, <1>4, NodeKinds, NodesDisjoint

\* v is w without the arcs of n.
Detached(w, n, v) == \A a \in DOMAIN w.g.arc : v.g.arc[a] = IF n \in {a[1], a[2]} THEN Inactive ELSE w.g.arc[a]

(* Cutting the arcs of n takes n from the neighbours of all other nodes and leaves the
   other arcs alone. *)
LEMMA EliminateNodeArcs ==
  ASSUME NEW D \in ArcsAmong, NEW w \in WorkOver(D), NEW n \in Node, NEW v \in WorkOver(D),
         Detached(w, n, v)
  PROVE  /\ \A m \in Node : m # n => /\ Consumers(v.g, m) = Consumers(w.g, m) \ {n}
                                     /\ Suppliers(v.g, m) = Suppliers(w.g, m) \ {n}
                                     /\ Open(v.g, m) = Open(w.g, m) \ {n}
         /\ Consumers(v.g, n) = {} /\ Suppliers(v.g, n) = {}
         /\ \A m \in Node : \A c \in Consumers(v.g, m) : v.g.arc[<<m, c>>] = w.g.arc[<<m, c>>]
<1>1. DOMAIN v.g.arc = D /\ DOMAIN w.g.arc = D
  BY DEF WorkOver, GraphOver
<1>2. \A m, c \in Node : <<m, c>> \in D => v.g.arc[<<m, c>>] = IF n \in {m, c} THEN Inactive ELSE w.g.arc[<<m, c>>]
  BY <1>1 DEF Detached
<1>3. \A m \in Node : m # n => Consumers(v.g, m) = Consumers(w.g, m) \ {n}
  BY <1>1, <1>2 DEF Consumers
<1>4. \A m \in Node : m # n => Suppliers(v.g, m) = Suppliers(w.g, m) \ {n}
  BY <1>1, <1>2 DEF Suppliers
<1>5. Consumers(v.g, n) = {} /\ Suppliers(v.g, n) = {}
  BY <1>1, <1>2 DEF Consumers, Suppliers
<1>6. \A m \in Node : \A c \in Consumers(v.g, m) : v.g.arc[<<m, c>>] = w.g.arc[<<m, c>>]
  BY <1>1, <1>2 DEF Consumers
<1>7. \A m \in Node : m # n => Open(v.g, m) = Open(w.g, m) \ {n}
  <2> SUFFICES ASSUME NEW m \in Node, m # n PROVE Open(v.g, m) = Open(w.g, m) \ {n}
    OBVIOUS
  <2>1. \A s \in Suppliers(v.g, m) : v.g.arc[<<s, m>>] = w.g.arc[<<s, m>>]
    BY <1>6, ArcFacts, ArcsFinite
  <2> QED BY <1>4, <2>1 DEF Open
<1> QED BY <1>3, <1>4, <1>5, <1>6, <1>7

(* The consumers of a queued node that are not on their way out themselves wait for it. *)
LEMMA StarvedFacts ==
  ASSUME NEW D \in ArcsAmong, NEW w \in WorkOver(D), Sound(w), NEW n \in w.queue,
         NEW maxopt \in {Weak, Initial}
  PROVE  /\ Starved(w, n, maxopt) \subseteq Consumers(w.g, n) \ w.marked
         /\ \A c \in Consumers(w.g, n) \ w.marked : n \in Open(w.g, c) /\ c \notin w.g.sched
         /\ \A c \in Consumers(w.g, n) \ (w.marked \cup Starved(w, n, maxopt)) : Open(w.g, c) \ {n} # {}
         /\ Needed(w, n, maxopt) = Suppliers(w.g, n) \ (w.marked \cup Starved(w, n, maxopt))
         /\ \A s \in Useless(w, n, maxopt) : s \in Property \/ s \notin w.g.sched => Consumers(w.g, s) = {n}
<1>0. n \in Node /\ w.g \in GraphOver(D) /\ w.queue \subseteq Node
  BY DEF WorkOver
<1>1. Starved(w, n, maxopt) \subseteq Consumers(w.g, n) \ w.marked
  BY DEF Starved
<1>2. \A c \in Consumers(w.g, n) \ w.marked : n \in Open(w.g, c) /\ c \notin w.g.sched
  <2> SUFFICES ASSUME NEW c \in Consumers(w.g, n) \ w.marked PROVE n \in Open(w.g, c) /\ c \notin w.g.sched
    OBVIOUS
  <2>1. c \in Node /\ c \in w.g.alive
    BY <1>0, LinkedFacts DEF Sound
  <2>2. w.g.arc[<<n, c>>] # Resolved
    BY DEF Sound, Unused
  <2>3. n \in Open(w.g, c)
    BY <1>0, <2>1, <2>2, ArcFacts DEF Open
  <2> QED BY <2>1, <2>3 DEF Sound, Served
<1>3. \A c \in Consumers(w.g, n) \ (w.marked \cup Starved(w, n, maxopt)) : Open(w.g, c) \ {n} # {}
  <2> SUFFICES ASSUME NEW c \in Consumers(w.g, n) \ w.marked, c \notin Starved(w, n, maxopt)
               PROVE Open(w.g, c) \ {n} # {}
    OBVIOUS
  <2>0. c \in Node /\ w.g.arc[<<n, c>>] > Optional
    BY <1>0, LinkedFacts DEF Sound
  <2>1. c \in Node /\ w.g.arc[<<n, c>>] > maxopt
    <3>1. w.g.arc[<<n, c>>] \in Nat
      BY <1>0 DEF Consumers, GraphOver
    <3> QED BY <2>0, <3>1 DEF Optional, Initial, Weak
  <2>2. Group(w.g, n, c) # {n}
    BY <2>1 DEF Starved
  <2>3. /\ w.g.arc[<<n, c>>] >= Source
        /\ {s \in Suppliers(w.g, c) : w.g.arc[<<s, c>>] = w.g.arc[<<n, c>>]} # {n}
    BY <2>2 DEF Group
  <2>4. n \in Suppliers(w.g, c)
    BY <1>0, <2>1, ArcFacts
  <2>5. PICK s \in Suppliers(w.g, c) : s # n /\ w.g.arc[<<s, c>>] = w.g.arc[<<n, c>>]
    BY <2>3, <2>4
  <2>6. w.g.arc[<<s, c>>] # Resolved
    BY <2>3, <2>5 DEF Resolved, Source
  <2> QED BY <2>5, <2>6 DEF Open
<1>4. Needed(w, n, maxopt) = Suppliers(w.g, n) \ (w.marked \cup Starved(w, n, maxopt))
  <2>1. \A s \in Suppliers(w.g, n) : w.g.arc[<<s, n>>] > Optional
    <3> SUFFICES ASSUME NEW s \in Suppliers(w.g, n) PROVE w.g.arc[<<s, n>>] > Optional
      OBVIOUS
    <3>1. s \in Node /\ n \in Consumers(w.g, s)
      BY <1>0, ArcFacts, ArcsFinite
    <3> QED BY <1>0, <3>1, LinkedFacts DEF Sound
  <2> QED BY <2>1 DEF Needed
<1>5. ASSUME NEW s \in Useless(w, n, maxopt), s \in Property \/ s \notin w.g.sched
      PROVE  Consumers(w.g, s) = {n}
  <2>1. s \in Suppliers(w.g, n) /\ s \notin w.marked /\ w.g.out[s] = 1
    BY DEF Useless, Needed
  <2>2. s \in Node /\ n \in Consumers(w.g, s)
    BY <1>0, <2>1, ArcFacts, ArcsFinite
  <2>3. s \in w.g.alive
    BY <1>0, <2>2, LinkedFacts DEF Sound
  <2>4. Cardinality(Consumers(w.g, s)) = 1
    BY <2>1, <2>3, <1>5 DEF Sound, Demanded
  <2>5. \E x : Consumers(w.g, s) = {x}
    BY <2>4, ArcsFinite, FS_Singleton
  <2> QED BY <2>2, <2>5
<1> QED BY <1>1, <1>2, <1>3, <1>4, <1>5

(* An iteration of eliminate() keeps the counters exact for the nodes that are not on
   the queue. *)
LEMMA EliminateNodeSound ==
  ASSUME NEW D \in ArcsAmong, NEW w \in WorkOver(D), Sound(w), w.ok, NEW n \in w.queue,
         NEW maxopt \in {Weak, Initial}, EliminateNode(w, n, maxopt).ok
  PROVE  LET v == EliminateNode(w, n, maxopt)
         IN  Sound(v) /\ (Flags(w) => Flags(v)) /\ (Enforced(w) => Enforced(v))
<1> DEFINE v == EliminateNode(w, n, maxopt)
           N == Needed(w, n, maxopt)
           X == Doomed(w, n, maxopt)
           S == Starved(w, n, maxopt)
<1>0. n \in Node /\ w.g \in GraphOver(D) /\ w.queue \subseteq Node
  BY DEF WorkOver
<1>1. /\ v \in WorkOver(D)
      /\ v.marked = w.marked \cup X
      /\ v.queue = (w.queue \ {n}) \cup X
      /\ v.g.alive = w.g.alive \ {n} /\ v.g.flagged = w.g.flagged \ {n}
      /\ v.g.sched = w.g.sched \ {n} /\ v.g.ready = w.g.ready \ {n}
      /\ \A a \in D : v.g.arc[a] = IF n \in {a[1], a[2]} THEN Inactive ELSE w.g.arc[a]
      /\ \A m \in Node : m # n =>
           v.g.pending[m] = IF m \in Consumers(w.g, n) THEN w.g.pending[m] - 1 ELSE w.g.pending[m]
      /\ \A m \in Node : m # n =>
           v.g.out[m] = IF m \in N THEN w.g.out[m] - 1 ELSE w.g.out[m]
  <2> HIDE DEF N
  <2> QED BY <1>0, EliminateNodeParts DEF N
<1> HIDE DEF v
<1>2. /\ \A m \in Node : m # n => /\ Consumers(v.g, m) = Consumers(w.g, m) \ {n}
                                  /\ Suppliers(v.g, m) = Suppliers(w.g, m) \ {n}
                                  /\ Open(v.g, m) = Open(w.g, m) \ {n}
      /\ Consumers(v.g, n) = {} /\ Suppliers(v.g, n) = {}
      /\ \A m \in Node : \A c \in Consumers(v.g, m) : v.g.arc[<<m, c>>] = w.g.arc[<<m, c>>]
  <2>1. v \in WorkOver(D) /\ Detached(w, n, v)
    BY <1>0, <1>1 DEF Detached, GraphOver
  <2> QED BY ONLY SMTT(30), <1>0, <2>1, D \in ArcsAmong, w \in WorkOver(D), EliminateNodeArcs
<1>3. /\ S \subseteq Consumers(w.g, n) \ w.marked
      /\ \A c \in Consumers(w.g, n) \ w.marked : n \in Open(w.g, c) /\ c \notin w.g.sched
      /\ \A c \in Consumers(w.g, n) \ (w.marked \cup S) : Open(w.g, c) \ {n} # {}
      /\ N = Suppliers(w.g, n) \ (w.marked \cup S)
      /\ \A s \in Useless(w, n, maxopt) : s \in Property \/ s \notin w.g.sched => Consumers(w.g, s) = {n}
  BY StarvedFacts
<1>4. S \subseteq X /\ X \subseteq S \cup Useless(w, n, maxopt)
      /\ \A s \in X \ S : s \in Useless(w, n, maxopt) /\ (s \in Property \/ s \notin w.g.sched)
  BY DEF Doomed
<1>5. w.g.pending \in [Node -> Int] /\ w.g.out \in [Node -> Int] /\ w.g.alive \subseteq Node
  BY <1>0 DEF GraphOver
<1> HIDE DEF N, X, S
<1>6. ASSUME NEW m \in w.g.alive \ (w.marked \cup X), m # n
      PROVE  /\ m \in Consumers(w.g, n) <=> n \in Open(w.g, m)
             /\ m \in N <=> n \in Consumers(w.g, m)
             /\ Cardinality(Open(v.g, m)) = IF m \in Consumers(w.g, n) THEN Cardinality(Open(w.g, m)) - 1
                                                                      ELSE Cardinality(Open(w.g, m))
             /\ Cardinality(Consumers(v.g, m)) = IF m \in N THEN Cardinality(Consumers(w.g, m)) - 1
                                                            ELSE Cardinality(Consumers(w.g, m))
  <2>1. m \in Node
    BY <1>5
  <2>2. m \in Consumers(w.g, n) <=> n \in Open(w.g, m)
    BY <1>0, <1>3, <1>6, <2>1, ArcFacts, ArcsFinite
  <2>3. m \in N <=> n \in Consumers(w.g, m)
    BY <1>0, <1>3, <1>4, <1>6, <2>1, ArcFacts
  <2>4. Open(v.g, m) = Open(w.g, m) \ {n} /\ Consumers(v.g, m) = Consumers(w.g, m) \ {n}
    BY <1>2, <1>6, <2>1
  <2>5. IsFiniteSet(Open(w.g, m)) /\ IsFiniteSet(Consumers(w.g, m))
    BY ArcsFinite
  <2>6. Cardinality(Open(v.g, m)) = IF n \in Open(w.g, m) THEN Cardinality(Open(w.g, m)) - 1
                                                          ELSE Cardinality(Open(w.g, m))
    BY <2>4, <2>5, FS_RemoveElement
  <2>7. Cardinality(Consumers(v.g, m)) = IF n \in Consumers(w.g, m) THEN Cardinality(Consumers(w.g, m)) - 1
                                                                  ELSE Cardinality(Consumers(w.g, m))
    BY <2>4, <2>5, FS_RemoveElement
  <2> QED BY <2>2, <2>3, <2>6, <2>7
<1>7. Linked(v.g)
  <2> SUFFICES ASSUME NEW m \in Node, NEW c \in Consumers(v.g, m)
               PROVE  /\ m \in v.g.alive /\ c \in v.g.alive
                      /\ v.g.arc[<<m, c>>] = w.g.arc[<<m, c>>] /\ c \in Consumers(w.g, m)
                      /\ m \in w.g.sched => m \in v.g.sched
    BY ZenonT(30) DEF Linked, Sound
  <2>1. m # n /\ c \in Consumers(w.g, m) \ {n} /\ v.g.arc[<<m, c>>] = w.g.arc[<<m, c>>]
    BY <1>2
  <2>2. m \in w.g.alive /\ c \in w.g.alive
    BY <2>1, <1>0, LinkedFacts DEF Sound
  <2> QED BY <2>1, <2>2, <1>1
<1>8. Waiting(v)
  <2> SUFFICES ASSUME NEW m \in v.g.alive \ v.marked PROVE v.g.pending[m] = Cardinality(Open(v.g, m))
    BY DEF Waiting
  <2>1. m \in w.g.alive \ (w.marked \cup X) /\ m # n /\ m \in Node
    BY <1>1, <1>5
  <2>2. w.g.pending[m] = Cardinality(Open(w.g, m))
    BY <2>1 DEF Sound, Waiting
  <2> QED BY <2>1, <2>2, <1>1, <1>6
<1>9. Demanded(v)
  <2> SUFFICES ASSUME NEW m \in v.g.alive \ v.marked
               PROVE  /\ v.g.out[m] >= Cardinality(Consumers(v.g, m))
                      /\ m \in Property \/ m \notin v.g.sched => v.g.out[m] = Cardinality(Consumers(v.g, m))
    BY DEF Demanded
  <2>1. m \in w.g.alive \ (w.marked \cup X) /\ m # n /\ m \in Node
    BY <1>1, <1>5
  <2>2. /\ w.g.out[m] >= Cardinality(Consumers(w.g, m))
        /\ m \in Property \/ m \notin w.g.sched => w.g.out[m] = Cardinality(Consumers(w.g, m))
    BY <2>1 DEF Sound, Demanded
  <2>3. Cardinality(Consumers(w.g, m)) \in Nat /\ w.g.out[m] \in Int
    BY ArcsFinite, <2>1, <1>5
  <2> QED BY <2>1, <2>2, <2>3, <1>1, <1>6
<1>10. Served(v)
  BY <1>1, <1>2, <1>5 DEF Sound, Served
<1>11. Queued(v)
  BY <1>1 DEF Sound, Queued
<1>12. Unused(v)
  <2> SUFFICES ASSUME NEW q \in v.queue, NEW c \in Consumers(v.g, q) \ v.marked
               PROVE  v.g.arc[<<q, c>>] # Resolved
    BY DEF Unused
  <2>1. q \in Node
    BY <1>1 DEF WorkOver
  <2>2. q # n /\ c \in Consumers(w.g, q) \ {n} /\ c \notin w.marked /\ v.g.arc[<<q, c>>] = w.g.arc[<<q, c>>]
    BY <1>1, <1>2, <2>1
  <2>3. CASE q \in w.queue
    BY <2>2, <2>3 DEF Sound, Unused
  <2>4. CASE q \in S
    <3>1. q \notin w.g.sched
      BY <1>3, <2>4
    <3> QED BY <3>1, <2>1, <2>2, <1>0, LinkedFacts DEF Sound
  <2>5. CASE q \in X \ S
    BY <2>2, <2>5, <1>3, <1>4
  <2> QED BY <2>2, <2>3, <2>4, <2>5, <1>1
<1>13. Flags(w) => Flags(v)
  <2> SUFFICES ASSUME Flags(w), NEW m \in v.g.alive \ (v.g.sched \cup Property \cup v.marked)
               PROVE  m \in v.g.flagged <=> v.g.pending[m] = 0
    BY <1>1 DEF Flags
  <2>1. m \in w.g.alive \ (w.marked \cup X) /\ m # n /\ m \in Node /\ m \notin w.g.sched \cup Property
    BY <1>1, <1>5
  <2>2. m \in w.g.flagged <=> w.g.pending[m] = 0
    BY <2>1 DEF Flags
  <2>3. CASE m \notin Consumers(w.g, n)
    BY <2>1, <2>2, <2>3, <1>1
  <2>4. CASE m \in Consumers(w.g, n)
    <3>1. Open(w.g, m) # {} /\ Open(v.g, m) # {}
      BY <2>1, <2>4, <1>2, <1>3, <1>4
    <3>2. w.g.pending[m] = Cardinality(Open(w.g, m)) /\ v.g.pending[m] = Cardinality(Open(v.g, m))
      BY <2>1, <1>8 DEF Sound, Waiting
    <3>3. w.g.pending[m] # 0 /\ v.g.pending[m] # 0
      BY <3>1, <3>2, ArcsFinite, FS_EmptySet
    <3> QED BY <3>3, <2>2, <1>1
  <2> QED BY <2>3, <2>4
<1>14. Enforced(w) => Enforced(v)
  <2> SUFFICES ASSUME Enforced(w), NEW m \in (v.g.sched \cap v.g.alive \cap Production) \ v.marked
               PROVE  v.g.out[m] > Cardinality(Consumers(v.g, m))
    BY DEF Enforced
  <2>1. m \in w.g.alive \ (w.marked \cup X) /\ m # n /\ m \in Node /\ m \in w.g.sched
    BY <1>1, <1>5
  <2>2. w.g.out[m] > Cardinality(Consumers(w.g, m))
    BY <2>1 DEF Enforced
  <2>3. Cardinality(Consumers(w.g, m)) \in Nat /\ w.g.out[m] \in Int
    BY ArcsFinite, <2>1, <1>5
  <2> QED BY <2>1, <2>2, <2>3, <1>1, <1>6
<1> QED BY <1>7, <1>8, <1>9, <1>10, <1>11, <1>12, <1>13, <1>14 DEF Sound, v

(* An iteration of eliminate() takes no input away from a node that stays: what has no
   other supplier is taken along.  Scheduled rules stay. *)
LEMMA EliminateNodeCarries ==
  ASSUME NEW D \in ArcsAmong, NEW w \in WorkOver(D), w.ok, Sound(w), NEW n \in w.queue,
         NEW maxopt \in {Weak, Initial}
  PROVE  Carries(w, EliminateNode(w, n, maxopt))
<1> DEFINE v == EliminateNode(w, n, maxopt)
           N == Needed(w, n, maxopt)
           X == Doomed(w, n, maxopt)
           S == Starved(w, n, maxopt)
<1> SUFFICES ASSUME NEW code, NEW R, NEW T, Carry(code, R, T, w) PROVE Carry(code, R, T, v)
  BY DEF Carries
<1>0. n \in Node /\ w.g \in GraphOver(D) /\ w.queue \subseteq Node /\ Linked(w.g)
  BY DEF WorkOver, Sound
<1>1. /\ v \in WorkOver(D)
      /\ v.ok => /\ v.marked = w.marked \cup X /\ v.queue = (w.queue \ {n}) \cup X
                 /\ v.g.alive = w.g.alive \ {n} /\ v.g.sched = w.g.sched \ {n}
                 /\ \A a \in D : v.g.arc[a] = IF n \in {a[1], a[2]} THEN Inactive ELSE w.g.arc[a]
      /\ ~v.ok => v.g = w.g /\ v.marked = w.marked /\ v.queue = w.queue
  <2> HIDE DEF N, X, S
  <2> QED BY <1>0, EliminateNodeParts DEF X, S
<1>2. /\ \A c \in Consumers(w.g, n) \ w.marked : c \notin w.g.sched
      /\ S \subseteq Consumers(w.g, n) \ w.marked
  BY StarvedFacts
<1>3. S \subseteq X /\ \A s \in X : s \in S \/ s \in Property \/ s \notin w.g.sched
  BY DEF Doomed
<1>4. DOMAIN w.g.arc = D /\ DOMAIN v.g.arc = D /\ \A a \in D : w.g.arc[a] \in Nat /\ a = <<a[1], a[2]>> /\ a[1] \in Node /\ a[2] \in Node
  BY <1>0, <1>1 DEF WorkOver, GraphOver, ArcsAmong
<1>5. ASSUME NEW c \in Consumers(w.g, n) \ (w.marked \cup S)
      PROVE  w.g.arc[<<n, c>>] >= Source /\ \E s \in Suppliers(w.g, c) : s # n /\ w.g.arc[<<s, c>>] = w.g.arc[<<n, c>>]
  <2>1. w.g.arc[<<n, c>>] > Optional /\ c \in Node /\ n \in Suppliers(w.g, c)
    BY <1>0, LinkedFacts, ArcFacts
  <2>2. w.g.arc[<<n, c>>] > maxopt /\ w.g.arc[<<n, c>>] \in Nat
    BY <1>4, <1>5, <2>1 DEF Weak, Optional, Initial, Consumers
  <2>3. Group(w.g, n, c) # {n}
    BY <1>5, <2>2 DEF Starved
  <2> QED BY <2>1, <2>3 DEF Group
<1>6. CASE ~v.ok
  BY <1>1, <1>6 DEF Carry, Fed, Told, Settled
<1>7. CASE v.ok
  <2> HIDE DEF v, X, S
  <2>1. Fed(code, w) /\ Told(w, T) /\ Settled(w, R)
    BY DEF Carry
  <2>2. \A a \in D : v.g.arc[a] \in {code[a], Resolved, Inactive}
    BY <1>1, <1>4, <1>7, <2>1 DEF Fed
  <2>3. ASSUME NEW a \in D, a[2] \in v.g.alive \ v.marked
        PROVE  \E b \in D : b[2] = a[2] /\ code[b] = code[a] /\ (b = a \/ code[a] >= Source) /\ v.g.arc[b] # Inactive
    <3>1. a[2] \in w.g.alive \ w.marked /\ a[2] # n /\ a[2] \notin S
      BY <1>1, <1>3, <1>7, <2>3
    <3>2. PICK b \in D : b[2] = a[2] /\ code[b] = code[a] /\ (b = a \/ code[a] >= Source) /\ w.g.arc[b] # Inactive
      BY <1>4, <2>1, <3>1 DEF Fed
    <3>3. CASE b[1] # n
      BY <1>1, <1>7, <3>1, <3>2, <3>3
    <3>4. CASE b[1] = n
      <4> DEFINE c == a[2]
      <4>1. b = <<n, c>> /\ c \in Node
        BY <1>4, <3>2, <3>4
      <4>2. c \in Consumers(w.g, n) \ (w.marked \cup S)
        BY <1>0, <1>4, <3>1, <3>2, <4>1, ArcFacts
      <4>3. PICK s \in Suppliers(w.g, c) : s # n /\ w.g.arc[<<s, c>>] = w.g.arc[<<n, c>>] /\ w.g.arc[<<n, c>>] >= Source
        BY <1>5, <4>2
      <4>4. <<s, c>> \in D /\ s \in Node
        BY <1>4, <4>3 DEF Suppliers
      <4>5. w.g.arc[<<s, c>>] = code[<<s, c>>] /\ w.g.arc[<<n, c>>] = code[<<n, c>>]
        <5>1. w.g.arc[<<s, c>>] # Resolved /\ w.g.arc[<<s, c>>] # Inactive
          BY <4>3 DEF Source, Resolved, Inactive
        <5>2. w.g.arc[<<s, c>>] \in {code[<<s, c>>], Resolved, Inactive} /\ w.g.arc[b] \in {code[b], Resolved, Inactive}
          BY <1>4, <2>1, <3>2, <4>4 DEF Fed
        <5> QED BY <4>1, <4>3, <5>1, <5>2
      <4>6. v.g.arc[<<s, c>>] # Inactive
        <5>1. v.g.arc[<<s, c>>] = w.g.arc[<<s, c>>]
          BY <1>1, <1>7, <3>1, <4>3, <4>4
        <5> QED BY <5>1, <4>3 DEF Source, Inactive
      <4>7. code[<<s, c>>] = code[a] /\ code[a] >= Source
        BY <3>2, <4>1, <4>3, <4>5
      <4> QED BY <4>4, <4>6, <4>7
    <3> QED BY <3>3, <3>4
  <2>4. Told(v, T)
    <3> SUFFICES ASSUME NEW s \in v.g.sched \ T, NEW c \in Consumers(v.g, s) \ v.marked PROVE v.g.arc[<<s, c>>] = Resolved
      BY DEF Told
    <3>1. s \in w.g.sched \ T /\ c \notin w.marked /\ s \in Node
      BY <1>0, <1>1, <1>7 DEF GraphOver
    <3>2. c \in Consumers(w.g, s) /\ v.g.arc[<<s, c>>] = w.g.arc[<<s, c>>]
      <4>1. <<s, c>> \in D /\ v.g.arc[<<s, c>>] # Inactive /\ c \in Node
        BY <1>4 DEF Consumers
      <4>2. v.g.arc[<<s, c>>] = w.g.arc[<<s, c>>]
        BY <1>1, <1>7, <4>1
      <4> QED BY <1>4, <3>1, <4>1, <4>2, ArcFacts
    <3> QED BY <2>1, <3>1, <3>2 DEF Told
  <2>5. Settled(v, R)
    <3>1. R \cap Property = {}
      BY <2>1, NodeKinds DEF Settled
    <3> QED BY <1>1, <1>2, <1>3, <1>7, <2>1, <3>1 DEF Settled
  <2> QED BY <1>4, <2>2, <2>3, <2>4, <2>5 DEF Carry, Fed
<1> QED BY <1>6, <1>7

(* Nobody outside the queue depends on it. *)
Loose(w) == \A n \in w.queue : Consumers(w.g, n) \subseteq w.marked

\* The nodes of K keep one another in the graph.
Held(w, K) ==
  /\ w.queue \cap K = {}
  /\ \A s \in (K \cap Node) \ {Final} : Consumers(w.g, s) \cap K # {}

\* h is g without some nodes.
Shrunk(g, h) == \E E \in SUBSET Node :
  /\ h.alive = g.alive \ E /\ h.flagged = g.flagged \ E /\ h.sched = g.sched \ E /\ h.ready = g.ready \ E
  /\ \A a \in DOMAIN g.arc : h.arc[a] = IF a[1] \in E \/ a[2] \in E THEN Inactive ELSE g.arc[a]

\* v is w some iterations over the queue later; K are nodes to be kept.
Drained(w, v, K) ==
  /\ Linked(v.g) /\ Shrunk(w.g, v.g) /\ Carries(w, v)
  /\ v.ok => /\ Sound(v) /\ w.marked \subseteq v.marked
             /\ Flags(w) => Flags(v)
             /\ Enforced(w) => Enforced(v)
             /\ Loose(w) => Loose(v)
             /\ Loose(w) /\ Held(w, K) => Held(v, K) /\ K \cap w.g.alive \subseteq v.g.alive
  /\ Loose(w) /\ Enforced(w) => v.ok

(* Eliminating nothing.                                                                  *)
LEMMA ShrunkReflexive ==
  ASSUME NEW g PROVE Shrunk(g, g)
<1> DEFINE P(E) == /\ g.alive = g.alive \ E /\ g.flagged = g.flagged \ E /\ g.sched = g.sched \ E /\ g.ready = g.ready \ E
                   /\ \A a \in DOMAIN g.arc : g.arc[a] = IF a[1] \in E \/ a[2] \in E THEN Inactive ELSE g.arc[a]
<1>1. {} \in SUBSET Node /\ P({})
  OBVIOUS
<1> HIDE DEF P
<1>2. \E E \in SUBSET Node : P(E)
  BY <1>1
<1> QED BY <1>2 DEF P, Shrunk

(* Eliminating some nodes, and then more.                                                *)
LEMMA ShrunkStep ==
  ASSUME NEW D, NEW g \in GraphOver(D), NEW h \in GraphOver(D), NEW k \in GraphOver(D),
         Shrunk(g, h), Shrunk(h, k)
  PROVE  Shrunk(g, k)
<1>1. DOMAIN g.arc = D /\ DOMAIN h.arc = D
  BY DEF GraphOver
<1>2. PICK E \in SUBSET Node :
        /\ h.alive = g.alive \ E /\ h.flagged = g.flagged \ E /\ h.sched = g.sched \ E /\ h.ready = g.ready \ E
        /\ \A a \in D : h.arc[a] = IF a[1] \in E \/ a[2] \in E THEN Inactive ELSE g.arc[a]
  BY <1>1 DEF Shrunk
<1>3. PICK F \in SUBSET Node :
        /\ k.alive = h.alive \ F /\ k.flagged = h.flagged \ F /\ k.sched = h.sched \ F /\ k.ready = h.ready \ F
        /\ \A a \in D : k.arc[a] = IF a[1] \in F \/ a[2] \in F THEN Inactive ELSE h.arc[a]
  BY <1>1 DEF Shrunk
<1> DEFINE H == E \cup F
<1>4. k.alive = g.alive \ H /\ k.flagged = g.flagged \ H /\ k.sched = g.sched \ H /\ k.ready = g.ready \ H
  BY <1>2, <1>3
<1>5. \A a \in D : k.arc[a] = IF a[1] \in H \/ a[2] \in H THEN Inactive ELSE g.arc[a]
  BY <1>2, <1>3
<1>6. H \in SUBSET Node
  OBVIOUS
<1> HIDE DEF H
<1> QED BY <1>1, <1>4, <1>5, <1>6 DEF Shrunk

(* One iteration of the loop over the queue. *)
LEMMA DrainStep ==
  ASSUME NEW D \in ArcsAmong, NEW w \in WorkOver(D), NEW K, NEW maxopt \in {Weak, Initial},
         NEW v \in WorkOver(D), Drained(w, v, K), v.ok, NEW n \in v.queue
  PROVE  LET u == EliminateNode(v, n, maxopt)
         IN  /\ u \in WorkOver(D) /\ Drained(w, u, K)
             /\ u.ok => (Node \ u.marked) \cup u.queue = ((Node \ v.marked) \cup v.queue) \ {n}
<1> DEFINE u == EliminateNode(v, n, maxopt)
           N == Needed(v, n, maxopt)
           X == Doomed(v, n, maxopt)
           S == Starved(v, n, maxopt)
           Z == Useless(v, n, maxopt)
<1>0. n \in Node /\ v.g \in GraphOver(D) /\ w.g \in GraphOver(D) /\ v.queue \subseteq Node /\ v.marked \subseteq Node
  BY DEF WorkOver
<1>1. Sound(v) /\ Shrunk(w.g, v.g)
  BY DEF Drained
<1>2. /\ u \in WorkOver(D)
      /\ u.ok <=> ~(Final \in S \/ Z \cap v.g.sched \cap Production # {})
      /\ u.ok => /\ u.marked = v.marked \cup X
                 /\ u.queue = (v.queue \ {n}) \cup X
                 /\ u.g.alive = v.g.alive \ {n} /\ u.g.flagged = v.g.flagged \ {n}
                 /\ u.g.sched = v.g.sched \ {n} /\ u.g.ready = v.g.ready \ {n}
                 /\ \A a \in D : u.g.arc[a] = IF n \in {a[1], a[2]} THEN Inactive ELSE v.g.arc[a]
      /\ ~u.ok => u.g = v.g
  <2> HIDE DEF N, X, S
  <2> QED BY <1>0, EliminateNodeParts DEF X, S
<1>3. /\ S \subseteq Consumers(v.g, n) \ v.marked
      /\ \A s \in Z : s \in Property \/ s \notin v.g.sched => Consumers(v.g, s) = {n}
      /\ N = Suppliers(v.g, n) \ (v.marked \cup S)
  <2> HIDE DEF u, N, X, S, Z
  <2> QED BY <1>1, StarvedFacts DEF N, S, Z
<1>4. X \subseteq S \cup Z /\ Z \subseteq N /\ X \cap v.marked = {} /\ X \subseteq Node
  BY <1>3, ArcsFinite DEF Doomed, Useless
<1>5. n \in v.marked
  BY <1>1 DEF Sound, Queued
<1>6. u.ok => Sound(u) /\ (Flags(v) => Flags(u)) /\ (Enforced(v) => Enforced(u))
  <2> HIDE DEF N, X, S, Z
  <2> QED BY <1>1, EliminateNodeSound
<1>7. Loose(v) => S = {} /\ \A s \in X : s \in Z /\ Consumers(v.g, s) = {n}
  <2>1. Loose(v) => Consumers(v.g, n) \subseteq v.marked
    BY DEF Loose
  <2> QED BY <2>1, <1>3 DEF Doomed
<1> HIDE DEF N, X, S, u
<1>8. u.ok => /\ \A m \in Node : m # n => Consumers(u.g, m) = Consumers(v.g, m) \ {n}
              /\ Consumers(u.g, n) = {}
  <2> SUFFICES ASSUME u.ok PROVE /\ \A m \in Node : m # n => Consumers(u.g, m) = Consumers(v.g, m) \ {n}
                                 /\ Consumers(u.g, n) = {}
    OBVIOUS
  <2>1. Detached(v, n, u)
    BY <1>0, <1>2 DEF Detached, GraphOver
  <2> QED BY ONLY <1>0, <1>2, <2>1, D \in ArcsAmong, v \in WorkOver(D), EliminateNodeArcs
<1>9. u.ok => (Node \ u.marked) \cup u.queue = ((Node \ v.marked) \cup v.queue) \ {n}
  BY <1>2, <1>4, <1>5
<1>10. u.ok => Shrunk(w.g, u.g)
  <2> SUFFICES ASSUME u.ok PROVE Shrunk(v.g, u.g)
    <3>1. u.g \in GraphOver(D)
      BY <1>2 DEF WorkOver
    <3> QED BY <1>0, <1>1, <3>1, ShrunkStep
  <2>1. {n} \in SUBSET Node /\ DOMAIN v.g.arc = D
    BY <1>0 DEF GraphOver
  <2>2. \A a \in D : u.g.arc[a] = IF a[1] \in {n} \/ a[2] \in {n} THEN Inactive ELSE v.g.arc[a]
    BY <1>2
  <2> DEFINE E == {n}
  <2>3. \A a \in D : u.g.arc[a] = IF a[1] \in E \/ a[2] \in E THEN Inactive ELSE v.g.arc[a]
    BY <2>2
  <2>4. E \in SUBSET Node /\ u.g.alive = v.g.alive \ E /\ u.g.flagged = v.g.flagged \ E
        /\ u.g.sched = v.g.sched \ E /\ u.g.ready = v.g.ready \ E
    BY <2>1, <1>2
  <2> HIDE DEF E
  <2> QED BY <2>1, <2>3, <2>4 DEF Shrunk
<1>11. u.ok => (Loose(v) => Loose(u))
  <2> SUFFICES ASSUME u.ok, Loose(v), NEW q \in u.queue PROVE Consumers(u.g, q) \subseteq u.marked
    BY DEF Loose
  <2>1. q \in Node /\ (q \in v.queue \/ q \in X)
    BY <1>0, <1>2, <1>4
  <2>2. Consumers(v.g, q) \subseteq v.marked
    BY <2>1, <1>5, <1>7 DEF Loose
  <2> QED BY <1>2, <1>8, <2>1, <2>2
<1>12. Loose(v) /\ Enforced(v) => u.ok
  <2> SUFFICES ASSUME Loose(v), Enforced(v), NEW s \in Z \cap v.g.sched \cap Production PROVE FALSE
    BY <1>2, <1>7
  <2>1. s \in Suppliers(v.g, n) /\ s \notin v.marked /\ v.g.out[s] = 1
    BY <1>3, <1>4 DEF Useless
  <2>2. s \in Node /\ n \in Consumers(v.g, s)
    BY <1>0, <2>1, ArcFacts, ArcsFinite
  <2>3. s \in v.g.alive
    BY <1>0, <1>1, <2>2, LinkedFacts DEF Sound
  <2>4. 1 > Cardinality(Consumers(v.g, s))
    BY <2>1, <2>3 DEF Enforced
  <2>5. Cardinality(Consumers(v.g, s)) # 0
    BY <2>2, ArcsFinite, FS_EmptySet
  <2> QED BY <2>4, <2>5, ArcsFinite
<1>13. u.ok /\ Loose(v) /\ Held(v, K) => Held(u, K) /\ K \cap v.g.alive \subseteq u.g.alive
  <2> SUFFICES ASSUME u.ok, Loose(v), Held(v, K) PROVE Held(u, K) /\ K \cap v.g.alive \subseteq u.g.alive
    OBVIOUS
  <2>1. n \notin K
    BY DEF Held
  <2>2. ASSUME NEW s \in X \cap K PROVE FALSE
    <3>1. s \in Suppliers(v.g, n) /\ Consumers(v.g, s) = {n}
      BY <1>3, <1>4, <1>7
    <3>2. s \in Node /\ n \in Consumers(v.g, s)
      BY <1>0, <3>1, ArcFacts, ArcsFinite
    <3>3. s # Final
      BY <1>0, <1>1, <3>2, LinkedFacts DEF Sound
    <3> QED BY <2>1, <3>1, <3>2, <3>3 DEF Held
  <2>3. \A s \in (K \cap Node) \ {Final} : Consumers(u.g, s) \cap K # {}
    BY <1>8, <2>1 DEF Held
  <2> QED BY <1>2, <2>1, <2>2, <2>3 DEF Held
<1>14. Drained(w, u, K)
  <2>1. Loose(w) /\ Enforced(w) => Loose(v) /\ Enforced(v)
    BY DEF Drained
  <2>2. u.ok => w.marked \subseteq u.marked
    BY <1>2 DEF Drained
  <2>3. Linked(u.g) /\ Shrunk(w.g, u.g)
    BY <1>1, <1>2, <1>6, <1>10 DEF Sound
  <2>4. Carries(w, u)
    <3>1. Carries(w, v)
      BY DEF Drained
    <3>2. Carries(v, u)
      BY <1>1, EliminateNodeCarries DEF u
    <3> QED BY <3>1, <3>2 DEF Carries
  <2> QED BY <1>6, <1>11, <1>12, <1>13, <2>1, <2>2, <2>3, <2>4 DEF Drained
<1> QED BY <1>2, <1>9, <1>14 DEF u

(* Eliminating stops with an empty queue, or because it failed. *)
LEMMA DrainEmpties ==
  ASSUME NEW D \in ArcsAmong, NEW w \in WorkOver(D), w.ok, Sound(w), NEW K, NEW maxopt \in {Weak, Initial}
  PROVE  LET v == Drain(w, maxopt)
         IN  v \in WorkOver(D) /\ Drained(w, v, K) /\ (v.ok => v.queue = {})
<1> DEFINE S == 1..Cardinality(Node)
           E == WorkOver(D)
           op(i, v) == IF v.queue = {} \/ ~v.ok THEN v ELSE EliminateNode(v, CHOOSE n \in v.queue : TRUE, maxopt)
           next == [s \in SUBSET S |-> CHOOSE x \in s : TRUE]
           step == [p \in S \X E |-> op(p[1], p[2])]
           Eq(h) == h = [s \in SUBSET S |-> IF s = {} THEN w
                                            ELSE op(CHOOSE x \in s : TRUE, h[s \ {CHOOSE x \in s : TRUE}])]
           g == CHOOSE h : Eq(h)
           U(v) == (Node \ v.marked) \cup v.queue
           Good(s, v) == /\ v \in E /\ Drained(w, v, K)
                         /\ v.ok /\ v.queue # {} => Cardinality(U(v)) + Cardinality(s) <= Cardinality(Node)
           Q == {s \in SUBSET S : Good(s, g[s])}
<1>0. IsFiniteSet(S) /\ Cardinality(Node) \in Nat /\ Cardinality(S) = Cardinality(Node)
  BY NodeFinite, FS_CardinalityType, FS_Interval
<1>1. \A s \in SUBSET S : s # {} => next[s] \in s
  OBVIOUS
<1>2. \A i : \A v \in E : op(i, v) \in E
  <2> SUFFICES ASSUME NEW v \in E, v.queue # {}, v.ok PROVE EliminateNode(v, CHOOSE n \in v.queue : TRUE, maxopt) \in E
    OBVIOUS
  <2> DEFINE n == CHOOSE n \in v.queue : TRUE
  <2>1. n \in Node
    BY DEF WorkOver
  <2> HIDE DEF n
  <2>2. EliminateNode(v, n, maxopt) \in E
    BY <2>1, EliminateNodeParts
  <2> QED BY <2>2 DEF n
<1>3. step \in [S \X E -> E]
  <2> HIDE DEF op, E, S
  <2> QED BY <1>2
<1>4. PICK f : Folded(f, S, next, w, step) /\ \A s \in SUBSET S : f[s] \in E
  <2> HIDE DEF next, step
  <2>1. w \in E
    OBVIOUS
  <2> HIDE DEF E, S
  <2> QED BY ONLY <1>0, <1>1, <1>3, <2>1, FoldedWithin
<1>5. Eq(f)
  <2> HIDE DEF op, E, S
  <2>1. \A s \in SUBSET S : s # {} => <<next[s], f[s \ {next[s]}]>> \in S \X E
    BY <1>1, <1>4
  <2>2. f = [s \in SUBSET S |-> IF s = {} THEN w ELSE op(next[s], f[s \ {next[s]}])]
    <3> HIDE DEF next
    <3> QED BY <2>1, <1>4 DEF Folded
  <2> QED BY <2>2
<1>6. Eq(g)
  <2> HIDE DEF Eq
  <2> QED BY <1>5
<1>7. Drain(w, maxopt) = g[S]
  BY DEF Drain, FoldSet, MapThenFoldSet
<1> HIDE DEF g
<1>8. \A s \in SUBSET S : s # {} => g[s] = op(next[s], g[s \ {next[s]}])
  <2> HIDE DEF op, S
  <2> QED BY <1>6
<1>9. {} \in Q
  <2>1. g[{}] = w
    <3> HIDE DEF op, S
    <3> QED BY <1>6
  <2>2. Drained(w, w, K)
    BY ShrunkReflexive DEF Drained, Sound, Carries
  <2>3. Cardinality(U(w)) + Cardinality({}) <= Cardinality(Node)
    <3>1. U(w) \in SUBSET Node
      BY DEF WorkOver
    <3> QED BY <3>1, <1>0, NodeFinite, FS_Subset, FS_EmptySet, FS_CardinalityType
  <2> QED BY <2>1, <2>2, <2>3
<1>10. ASSUME NEW s \in SUBSET S, s # {}, s \ {next[s]} \in Q PROVE s \in Q
  <2> DEFINE v == g[s \ {next[s]}]
             n == CHOOSE n \in v.queue : TRUE
             u == EliminateNode(v, n, maxopt)
  <2>1. Good(s \ {next[s]}, v)
    BY <1>10
  <2>2. g[s] = op(next[s], v)
    BY <1>8, <1>10
  <2>3. Cardinality(s \ {next[s]}) = Cardinality(s) - 1 /\ Cardinality(s) \in Nat
    <3> HIDE DEF next, S, Q
    <3>1. IsFiniteSet(s) /\ next[s] \in s
      BY <1>0, <1>1, <1>10, FS_Subset
    <3> QED BY ONLY <3>1, OneLess
  <2> HIDE DEF v, next, E
  <2>4. CASE v.queue = {} \/ ~v.ok
    BY <2>1, <2>2, <2>4
  <2>5. CASE v.queue # {} /\ v.ok
    <3>1. n \in v.queue /\ v \in WorkOver(D) /\ Drained(w, v, K)
      BY <2>1, <2>5 DEF E
    <3>2. g[s] = u
      BY <2>2, <2>5
    <3> HIDE DEF n
    <3>3. /\ u \in WorkOver(D) /\ Drained(w, u, K)
          /\ u.ok => (Node \ u.marked) \cup u.queue = ((Node \ v.marked) \cup v.queue) \ {n}
      BY ONLY SMTT(30), D \in ArcsAmong, w \in WorkOver(D), maxopt \in {Weak, Initial}, <2>5, <3>1, DrainStep
    <3> HIDE DEF u
    <3>4. U(v) \in SUBSET Node /\ n \in U(v)
      BY <3>1 DEF WorkOver
    <3>5. u.ok => U(u) = U(v) \ {n}
      BY <3>3
    <3>6. IsFiniteSet(U(v)) /\ Cardinality(U(v)) \in Nat
      <4> HIDE DEF U
      <4> QED BY <3>4, NodeFinite, FS_Subset, FS_CardinalityType
    <3>7. u.ok => Cardinality(U(u)) = Cardinality(U(v)) - 1
      <4> HIDE DEF U
      <4> QED BY <3>4, <3>5, <3>6, FS_RemoveElement
    <3>8. Cardinality(U(v)) + Cardinality(s \ {next[s]}) <= Cardinality(Node)
      BY <2>1, <2>5
    <3>9. u.ok => Cardinality(U(u)) + Cardinality(s) <= Cardinality(Node)
      <4> HIDE DEF U
      <4> QED BY <3>6, <3>7, <3>8, <2>3, <1>0
    <3> HIDE DEF U
    <3> QED BY <3>2, <3>3, <3>9 DEF E
  <2> QED BY <2>4, <2>5
<1>11. S \in Q
  <2> HIDE DEF Q, next
  <2>0. \A s \in SUBSET S : s # {} /\ s \ {next[s]} \in Q => s \in Q
    BY <1>10
  <2> HIDE DEF S
  <2>1. \A s \in SUBSET S : s \in Q
    BY ONLY <1>0, <1>1, <1>9, <2>0, SubsetInduction
  <2> QED BY <2>1
<1>12. Good(S, g[S])
  BY <1>11
<1> DEFINE v == g[S]
<1>13. v.ok => v.queue = {}
  <2> HIDE DEF v
  <2> SUFFICES ASSUME v.ok, v.queue # {} PROVE FALSE
    OBVIOUS
  <2>1. U(v) \in SUBSET Node /\ U(v) # {}
    BY <1>12 DEF v, WorkOver
  <2>2. Cardinality(U(v)) + Cardinality(S) <= Cardinality(Node)
    BY <1>12 DEF v
  <2>3. Cardinality(U(v)) \in Nat /\ Cardinality(U(v)) # 0
    <3> HIDE DEF U
    <3> QED BY <2>1, NodeFinite, FS_Subset, FS_CardinalityType, FS_EmptySet
  <2> HIDE DEF U, S
  <2> QED BY <2>2, <2>3, <1>0
<1> QED BY <1>7, <1>12, <1>13

(***************************************************************************)
(* The reverse search finds the least set that holds the final rule and    *)
(* the suppliers of all its members that are not scheduled.                *)
(***************************************************************************)
\* The turns of the loop, the element a fold takes next, and what a turn finds.
Rounds == 1..Cardinality(Node)
Chosen(s) == CHOOSE x \in s : TRUE
More(g, R) == UNION {Suppliers(g, m) : m \in R \ g.sched}

\* f are the nodes found after a set of turns.
Grows(g, f) ==
  /\ f[{}] = {Final}
  /\ \A s \in SUBSET Rounds : f[s] \subseteq Node
  /\ \A s \in SUBSET Rounds : s # {} => f[s] = f[s \ {Chosen(s)}] \cup More(g, f[s \ {Chosen(s)}])

(* The rounds of the reverse search can be counted.                                      *)
LEMMA RoundsFinite ==
  /\ IsFiniteSet(Rounds) /\ Cardinality(Rounds) = Cardinality(Node) /\ Cardinality(Node) \in Nat
  /\ \A s \in SUBSET Rounds : s # {} => Chosen(s) \in s
<1>1. Cardinality(Node) \in Nat
  BY NodeFinite, FS_CardinalityType
<1> QED BY <1>1, FS_Interval DEF Rounds, Chosen

(* The reverse search as a function on the sets of rounds that are over.                 *)
LEMMA ReachedGrows ==
  ASSUME NEW g PROVE \E f : Grows(g, f) /\ Reached(g) = f[Rounds]
<1> DEFINE S == Rounds
           E == SUBSET Node
           op(i, R) == R \cup UNION {Suppliers(g, m) : m \in R \ g.sched}
           next == [s \in SUBSET S |-> CHOOSE x \in s : TRUE]
           step == [p \in S \X E |-> op(p[1], p[2])]
           Eq(h) == h = [s \in SUBSET S |-> IF s = {} THEN {Final}
                                            ELSE op(CHOOSE x \in s : TRUE, h[s \ {CHOOSE x \in s : TRUE}])]
           f == CHOOSE h : Eq(h)
           Q == {s \in SUBSET S : f[s] \in E}
<1>0. IsFiniteSet(S)
  BY RoundsFinite
<1>1. \A s \in SUBSET S : s # {} => next[s] \in s
  OBVIOUS
<1>2. \A i : \A R \in E : op(i, R) \in E
  BY ArcsFinite
<1>3. step \in [S \X E -> E]
  <2> HIDE DEF op, E, S
  <2> QED BY <1>2
<1>4. PICK h : Folded(h, S, next, {Final}, step) /\ \A s \in SUBSET S : h[s] \in E
  <2> HIDE DEF next, step
  <2>1. {Final} \in E
    BY NodeKinds
  <2> HIDE DEF E, S
  <2> QED BY ONLY <1>0, <1>1, <1>3, <2>1, FoldedWithin
<1>5. Eq(h)
  <2> HIDE DEF op, E, S
  <2>1. \A s \in SUBSET S : s # {} => <<next[s], h[s \ {next[s]}]>> \in S \X E
    BY <1>1, <1>4
  <2>2. h = [s \in SUBSET S |-> IF s = {} THEN {Final} ELSE op(next[s], h[s \ {next[s]}])]
    <3> HIDE DEF next
    <3> QED BY <2>1, <1>4 DEF Folded
  <2> QED BY <2>2
<1>6. Eq(f)
  <2> HIDE DEF Eq
  <2> QED BY <1>5
<1>7. Reached(g) = f[S]
  BY DEF Reached, FoldSet, MapThenFoldSet, Rounds
<1> HIDE DEF f
<1>8. \A s \in SUBSET S : s # {} => f[s] = op(next[s], f[s \ {next[s]}])
  <2> HIDE DEF op, S
  <2> QED BY <1>6
<1>9. f[{}] = {Final}
  <2> HIDE DEF op, S
  <2> QED BY <1>6
<1>10. {} \in Q
  BY <1>9, NodeKinds
<1>11. \A s \in SUBSET S : s # {} /\ s \ {next[s]} \in Q => s \in Q
  <2> SUFFICES ASSUME NEW s \in SUBSET S, s # {}, f[s \ {next[s]}] \in E PROVE f[s] \in E
    OBVIOUS
  <2> HIDE DEF next, E, op
  <2> QED BY <1>2, <1>8
<1>12. \A s \in SUBSET S : s \in Q
  <2> HIDE DEF Q, next, S
  <2> QED BY ONLY <1>0, <1>1, <1>10, <1>11, SubsetInduction
<1>13. \A s \in SUBSET S : s # {} => f[s] = f[s \ {Chosen(s)}] \cup More(g, f[s \ {Chosen(s)}])
  BY <1>8 DEF Chosen, More
<1>14. Grows(g, f)
  BY <1>9, <1>12, <1>13 DEF Grows
<1> QED BY <1>7, <1>14

(* What holds before the search and is kept by every round holds after the last.         *)
LEMMA RoundsInduction ==
  ASSUME NEW Q, {} \in Q, \A s \in SUBSET Rounds : s # {} /\ s \ {Chosen(s)} \in Q => s \in Q
  PROVE  Rounds \in Q
<1> DEFINE next == [s \in SUBSET Rounds |-> Chosen(s)]
<1>1. \A s \in SUBSET Rounds : s # {} => next[s] \in s
  BY RoundsFinite
<1>2. \A s \in SUBSET Rounds : s # {} /\ s \ {next[s]} \in Q => s \in Q
  OBVIOUS
<1>3. \A s \in SUBSET Rounds : s \in Q
  <2> HIDE DEF next
  <2> QED BY ONLY RoundsFinite, {} \in Q, <1>1, <1>2, SubsetInduction
<1> QED BY <1>3

(* The reverse search of eliminate() finds nothing superfluous: every set that holds
   the final rule and, with a node that is not scheduled, its suppliers contains what
   it finds. *)
THEOREM ReachedLeast ==
  ASSUME NEW g, NEW R, Final \in R, \A m \in R \ g.sched : Suppliers(g, m) \subseteq R
  PROVE  Reached(g) \subseteq R
<1>1. PICK f : Grows(g, f) /\ Reached(g) = f[Rounds]
  BY ReachedGrows
<1> DEFINE Q == {s \in SUBSET Rounds : f[s] \subseteq R}
<1>2. {} \in Q
  BY <1>1 DEF Grows
<1>3. \A s \in SUBSET Rounds : s # {} /\ s \ {Chosen(s)} \in Q => s \in Q
  <2> SUFFICES ASSUME NEW s \in SUBSET Rounds, s # {}, f[s \ {Chosen(s)}] \subseteq R PROVE f[s] \subseteq R
    OBVIOUS
  <2>1. f[s] = f[s \ {Chosen(s)}] \cup More(g, f[s \ {Chosen(s)}])
    BY <1>1 DEF Grows
  <2>2. More(g, f[s \ {Chosen(s)}]) \subseteq R
    BY DEF More
  <2> QED BY <2>1, <2>2
<1> HIDE DEF Q
<1>4. Rounds \in Q
  BY <1>2, <1>3, RoundsInduction
<1> QED BY <1>1, <1>4 DEF Q

(* The reverse search of eliminate() is complete after as many rounds as there are
   nodes: with a node that is not scheduled it has found all suppliers. *)
THEOREM ReachedClosed ==
  ASSUME NEW g
  PROVE  /\ Final \in Reached(g) /\ Reached(g) \subseteq Node
         /\ \A m \in Reached(g) \ g.sched : Suppliers(g, m) \subseteq Reached(g)
<1>1. PICK f : Grows(g, f) /\ Reached(g) = f[Rounds]
  BY ReachedGrows
<1> DEFINE Closed(R) == More(g, R) \subseteq R
           Q == {s \in SUBSET Rounds : /\ Final \in f[s]
                                       /\ Closed(f[s]) \/ Cardinality(f[s]) > Cardinality(s)}
<1>2. {} \in Q
  <2>1. f[{}] = {Final}
    BY <1>1 DEF Grows
  <2>2. Cardinality({}) = 0 /\ Cardinality({Final}) = 1
    BY FS_EmptySet, FS_Singleton
  <2> QED BY <2>1, <2>2
<1>3. ASSUME NEW s \in SUBSET Rounds, s # {}, s \ {Chosen(s)} \in Q PROVE s \in Q
  <2> DEFINE t == s \ {Chosen(s)}
  <2>1. t \in SUBSET Rounds /\ f[s] = f[t] \cup More(g, f[t]) /\ f[s] \subseteq Node /\ f[t] \subseteq Node
    BY <1>1, <1>3 DEF Grows
  <2>2. Cardinality(t) = Cardinality(s) - 1 /\ Cardinality(s) \in Nat
    <3>1. IsFiniteSet(s) /\ Chosen(s) \in s
      BY <1>3, RoundsFinite, FS_Subset
    <3> QED BY <3>1, OneLess
  <2>3. IsFiniteSet(f[s]) /\ IsFiniteSet(f[t]) /\ Cardinality(f[s]) \in Nat /\ Cardinality(f[t]) \in Nat
    BY <2>1, NodeFinite, FS_Subset, FS_CardinalityType
  <2>4. Final \in f[s]
    BY <1>3, <2>1
  <2>5. CASE Closed(f[t])
    <3>1. f[s] = f[t]
      BY <2>1, <2>5
    <3> HIDE DEF t
    <3> QED BY <2>5, <3>1, <2>4
  <2>6. CASE ~Closed(f[t])
    <3>1. f[t] \subseteq f[s] /\ f[t] # f[s]
      BY <2>1, <2>6
    <3>2. Cardinality(f[t]) <= Cardinality(f[s]) /\ Cardinality(f[t]) # Cardinality(f[s])
      BY <2>3, <3>1, FS_Subset
    <3>3. Cardinality(f[t]) > Cardinality(t)
      BY <1>3, <2>6
    <3> HIDE DEF t
    <3>4. Cardinality(f[s]) > Cardinality(s)
      BY <3>2, <3>3, <2>2, <2>3
    <3> QED BY <3>4, <2>4
  <2> QED BY <2>5, <2>6
<1>4. Rounds \in Q
  <2>1. \A s \in SUBSET Rounds : s # {} /\ s \ {Chosen(s)} \in Q => s \in Q
    BY <1>3
  <2> HIDE DEF Q
  <2> QED BY <1>2, <2>1, RoundsInduction
<1>5. Reached(g) \subseteq Node
  BY <1>1 DEF Grows
<1>6. Cardinality(Reached(g)) <= Cardinality(Rounds) /\ Cardinality(Reached(g)) \in Nat /\ Cardinality(Rounds) \in Nat
  BY <1>5, NodeFinite, FS_Subset, RoundsFinite, FS_CardinalityType
<1>7. Final \in Reached(g) /\ (Closed(Reached(g)) \/ Cardinality(Reached(g)) > Cardinality(Rounds))
  BY <1>1, <1>4
<1>8. Closed(Reached(g))
  <2> HIDE DEF Closed
  <2> QED BY <1>6, <1>7
<1> QED BY <1>5, <1>7, <1>8 DEF More

(* Whatever is found besides the final rule is asked for by something found.             *)
LEMMA ReachedWanted ==
  ASSUME NEW g, NEW s \in Reached(g), s # Final
  PROVE  \E m \in Reached(g) \ g.sched : m \in Consumers(g, s)
<1> DEFINE R == {x \in Reached(g) : x = Final \/ \E m \in Reached(g) \ g.sched : x \in Suppliers(g, m)}
<1>1. Final \in R
  BY ReachedClosed
<1>2. \A m \in R \ g.sched : Suppliers(g, m) \subseteq R
  BY ReachedClosed
<1>3. Reached(g) \subseteq R
  <2> HIDE DEF R
  <2> QED BY <1>1, <1>2, ReachedLeast
<1>4. PICK m \in Reached(g) \ g.sched : s \in Suppliers(g, m)
  BY <1>3
<1>5. s \in Node /\ m \in Node
  BY ReachedClosed
<1> QED BY <1>4, <1>5, ArcFacts

(***************************************************************************)
(* eliminate(): both rounds.                                               *)
(***************************************************************************)
\* Nothing is left that the request does not need.
Clean(g) == IsComplete(g) \/ Unreached(g) = {}

\* What the second round starts from.
SecondRound(v) == [v EXCEPT !.marked = Node \ (Reached(v.g) \cup v.g.sched), !.queue = Unreached(v.g)]

(* The second round of eliminate() starts from exact counters, and no node on its queue
   is needed by one that is kept. *)
LEMMA SecondRoundSound ==
  ASSUME NEW D \in ArcsAmong, NEW v \in WorkOver(D), v.ok, Sound(v), v.queue = {}
  PROVE  LET u == SecondRound(v)
         IN  /\ u \in WorkOver(D) /\ u.ok /\ u.g = v.g /\ u.queue = Unreached(v.g)
             /\ u.marked = Node \ (Reached(v.g) \cup v.g.sched)
             /\ Sound(u) /\ Loose(u) /\ Held(u, Reached(v.g))
             /\ Flags(v) => Flags(u)
             /\ Enforced(v) => Enforced(u)
             /\ Carries(v, u)
<1> DEFINE u == SecondRound(v)
           R == Reached(v.g)
<1>0. v.g \in GraphOver(D) /\ v.g.alive \subseteq Node /\ v.g.sched \subseteq Node
  BY DEF WorkOver, GraphOver
<1>1. u \in WorkOver(D) /\ u.ok /\ u.g = v.g /\ u.queue = Unreached(v.g) /\ u.marked = Node \ (R \cup v.g.sched)
  BY <1>0 DEF SecondRound, WorkOver, Unreached
<1>2. Unreached(v.g) = (v.g.alive \ v.g.sched) \ R
  BY DEF Unreached
<1>3. v.g.alive \cap v.marked = {}
  BY DEF Sound, Queued
<1> HIDE DEF u, R
<1>4. Loose(u)
  <2> SUFFICES ASSUME NEW n \in Unreached(v.g), NEW c \in Consumers(v.g, n), c \in R \cup v.g.sched PROVE FALSE
    BY <1>1, ArcsFinite DEF Loose
  <2>1. n \in Node /\ c \in Node /\ c \in v.g.alive /\ n \in Suppliers(v.g, c)
    BY <1>0, <1>2, ArcsFinite, ArcFacts, LinkedFacts DEF Sound
  <2>2. CASE c \in v.g.sched
    <3>1. Open(v.g, c) = {}
      BY <2>1, <2>2, <1>3 DEF Sound, Served
    <3>2. v.g.arc[<<n, c>>] = Resolved
      BY <2>1, <3>1 DEF Open
    <3>3. n \in v.g.sched
      BY <2>1, <3>2, <1>0, LinkedFacts DEF Sound
    <3> QED BY <3>3, <1>2
  <2>3. CASE c \in R \ v.g.sched
    BY <2>1, <2>3, <1>2, ReachedClosed DEF R
  <2> QED BY <2>2, <2>3
<1>5. Held(u, R)
  <2>1. \A s \in R \ {Final} : Consumers(v.g, s) \cap R # {}
    BY ReachedWanted DEF R
  <2> QED BY <1>1, <1>2, <2>1 DEF Held
<1>6. Waiting(u) /\ Demanded(u) /\ Served(u)
  BY <1>1, <1>3 DEF Sound, Waiting, Demanded, Served
<1>7. Queued(u)
  BY <1>0, <1>1, <1>2 DEF Queued
<1>8. Unused(u)
  BY <1>4 DEF Unused, Loose
<1>9. Flags(v) => Flags(u)
  BY <1>1, <1>3 DEF Flags
<1>10. Enforced(v) => Enforced(u)
  BY <1>1, <1>3 DEF Enforced
<1>11. Carries(v, u)
  <2> SUFFICES ASSUME NEW code, NEW S, NEW X, Carry(code, S, X, v) PROVE Carry(code, S, X, u)
    BY DEF Carries
  <2>1. Fed(code, v) /\ Told(v, X) /\ Settled(v, S)
    BY DEF Carry
  <2>2. Fed(code, u)
    BY <1>1, <1>3, <2>1 DEF Fed
  <2>3. Told(u, X)
    <3> SUFFICES ASSUME NEW s \in v.g.sched \ X, NEW c \in Consumers(v.g, s) PROVE v.g.arc[<<s, c>>] = Resolved
      BY <1>1 DEF Told
    <3>1. c \in v.g.alive
      BY <1>0, LinkedFacts DEF Sound
    <3> QED BY <1>3, <2>1, <3>1 DEF Told
  <2>4. Settled(u, S)
    BY <1>1, <1>2, <2>1 DEF Settled
  <2> QED BY <2>2, <2>3, <2>4 DEF Carry
<1> QED BY <1>1, <1>4, <1>5, <1>6, <1>7, <1>8, <1>9, <1>10, <1>11 DEF Sound, u, R

(* After the second round nothing is left that the request does not need.                *)
LEMMA SecondRoundClean ==
  ASSUME NEW D \in ArcsAmong, NEW g \in GraphOver(D), NEW h \in GraphOver(D), Linked(g), Shrunk(g, h),
         Reached(g) \cap g.alive \subseteq h.alive, h.alive \cap Unreached(g) = {}
  PROVE  Unreached(h) = {}
<1>1. PICK E \in SUBSET Node :
        /\ h.alive = g.alive \ E /\ h.sched = g.sched \ E
        /\ \A a \in D : h.arc[a] = IF a[1] \in E \/ a[2] \in E THEN Inactive ELSE g.arc[a]
  BY DEF Shrunk, GraphOver
<1> DEFINE R == Reached(g) \cap Reached(h)
<1>2. Final \in R
  BY ReachedClosed
<1>3. ASSUME NEW m \in R \ g.sched, NEW x \in Suppliers(g, m) PROVE x \in R
  <2>1. m \in Node /\ x \in Node /\ m \in Consumers(g, x)
    BY ReachedClosed, ArcsFinite, ArcFacts
  <2>2. x \in Reached(g)
    BY ReachedClosed
  <2>3. m \notin E /\ x \notin E
    BY <1>1, <2>1, <2>2, LinkedFacts
  <2>4. <<x, m>> \in D /\ g.arc[<<x, m>>] # Inactive /\ DOMAIN h.arc = D
    BY <2>1 DEF Consumers, GraphOver
  <2>5. h.arc[<<x, m>>] # Inactive
    BY <1>1, <2>3, <2>4
  <2>6. x \in Suppliers(h, m)
    BY <2>1, <2>4, <2>5 DEF Suppliers
  <2>7. m \in Reached(h) \ h.sched
    BY <1>1
  <2> QED BY <2>2, <2>6, <2>7, ReachedClosed
<1>4. Reached(g) \subseteq R
  <2>1. \A m \in R \ g.sched : Suppliers(g, m) \subseteq R
    BY <1>3
  <2> HIDE DEF R
  <2> QED BY <1>2, <2>1, ReachedLeast
<1> QED BY <1>1, <1>4 DEF Unreached

\* What a call of eliminate() from w leaves behind.
Eliminated(w, v) ==
  /\ Linked(v.g) /\ Shrunk(w.g, v.g) /\ Carries(w, v)
  /\ v.ok => /\ Sound(v) /\ v.queue = {}
             /\ v.g.alive \cap w.marked = {}
             /\ Clean(v.g)
             /\ Flags(w) => Flags(v)
             /\ Enforced(w) => Enforced(v)
  /\ Loose(w) /\ Enforced(w) => v.ok

(* eliminate(), both rounds: counters and flags stay exact, the queued nodes are gone,
   and what is left is needed by the request or already complete; when all scheduled
   rules are enforced and nothing depends on the queue, it cannot fail. *)
THEOREM EliminateSound ==
  ASSUME NEW D \in ArcsAmong, NEW w \in WorkOver(D), w.ok, Sound(w), NEW maxopt \in {Weak, Initial}
  PROVE  Eliminate(w, maxopt) \in WorkOver(D) /\ Eliminated(w, Eliminate(w, maxopt))
<1> DEFINE first == Drain(w, maxopt)
           second == Drain(SecondRound(first), maxopt)
           K == Reached(first.g)
<1>1. first \in WorkOver(D) /\ Drained(w, first, {}) /\ (first.ok => first.queue = {})
  BY DrainEmpties
<1>2. Eliminate(w, maxopt) = IF ~first.ok \/ IsComplete(first.g) THEN first ELSE second
  BY DEF Eliminate, SecondRound
<1> HIDE DEF first
<1>3. first.g \in GraphOver(D) /\ w.g \in GraphOver(D)
  BY <1>1 DEF WorkOver
<1>4. first.ok => first.g.alive \cap first.marked = {} /\ first.g.alive \cap w.marked = {}
  BY <1>1 DEF Drained, Sound, Queued
<1>5. CASE ~first.ok
  BY <1>1, <1>2, <1>5 DEF Drained, Eliminated
<1>6. CASE first.ok /\ IsComplete(first.g)
  <2> HIDE DEF second
  <2>1. Eliminate(w, maxopt) = first
    BY <1>2, <1>6
  <2> QED BY <1>1, <1>4, <1>6, <2>1 DEF Drained, Eliminated, Clean
<1>7. CASE first.ok /\ ~IsComplete(first.g)
  <2> DEFINE u == SecondRound(first)
  <2>1. Sound(first)
    BY <1>1, <1>7 DEF Drained
  <2>2. /\ u \in WorkOver(D) /\ u.ok /\ u.g = first.g /\ u.queue = Unreached(first.g)
        /\ u.marked = Node \ (Reached(first.g) \cup first.g.sched)
        /\ Sound(u) /\ Loose(u) /\ Held(u, K)
        /\ Flags(first) => Flags(u)
        /\ Enforced(first) => Enforced(u)
        /\ Carries(first, u)
    BY <1>1, <1>7, <2>1, SecondRoundSound
  <2>3. second \in WorkOver(D) /\ Drained(u, second, K) /\ (second.ok => second.queue = {})
    <3> HIDE DEF u, K
    <3> QED BY <2>2, DrainEmpties DEF u
  <2> HIDE DEF u, second
  <2>4. second.g \in GraphOver(D)
    BY <2>3 DEF WorkOver
  <2>5. /\ Linked(second.g) /\ Shrunk(first.g, second.g)
        /\ second.ok => /\ Sound(second) /\ u.marked \subseteq second.marked
                        /\ K \cap first.g.alive \subseteq second.g.alive
                        /\ second.queue = {}
    BY <2>2, <2>3 DEF Drained
  <2>6. Shrunk(w.g, second.g)
    BY <1>1, <1>3, <1>7, <2>4, <2>5, ShrunkStep DEF Drained
  <2>7. second.ok => second.g.alive \cap second.marked = {} /\ second.g.alive \subseteq first.g.alive
    BY <2>5 DEF Sound, Queued, Shrunk
  <2>8. second.ok => Unreached(second.g) = {}
    <3> SUFFICES ASSUME second.ok PROVE Unreached(second.g) = {}
      OBVIOUS
    <3>1. u.queue \subseteq u.marked
      BY <2>2 DEF Sound, Queued
    <3>2. second.g.alive \cap Unreached(first.g) = {}
      BY <2>2, <2>5, <2>7, <3>1
    <3> QED BY <1>3, <2>1, <2>4, <2>5, <3>2, SecondRoundClean DEF Sound, K
  <2>9. Eliminate(w, maxopt) = second
    BY <1>2, <1>7
  <2>10. second.ok => (Flags(w) => Flags(second)) /\ (Enforced(w) => Enforced(second))
    BY <1>1, <1>7, <2>2, <2>3 DEF Drained
  <2>11. Loose(w) /\ Enforced(w) => second.ok
    BY <1>1, <1>7, <2>2, <2>3 DEF Drained
  <2>12. second.ok => second.g.alive \cap w.marked = {}
    BY <1>4, <1>7, <2>7
  <2>13. Carries(w, second)
    <3>1. Carries(w, first) /\ Carries(u, second)
      BY <1>1, <2>3 DEF Drained
    <3> QED BY <2>2, <3>1 DEF Carries
  <2> QED BY <2>3, <2>5, <2>6, <2>8, <2>9, <2>10, <2>11, <2>12, <2>13 DEF Eliminated, Clean
<1> QED BY <1>5, <1>6, <1>7

(***************************************************************************)
(* Scheduling.                                                             *)
(***************************************************************************)
\* The competitors of n for c, and those nobody else needs.
Losers(w, n, c) == Group(w.g, n, c) \ ({n} \cup w.marked)
Superfluous(w, n, c) == {s \in Losers(w, n, c) : w.g.out[s] = 1}

(* The suppliers a node competes with.                                                   *)
LEMMA GroupNodes ==
  ASSUME NEW g, NEW n \in Node, NEW c
  PROVE  Group(g, n, c) \subseteq Node /\ IsFiniteSet(Group(g, n, c)) /\ Cardinality(Group(g, n, c)) \in Nat
<1>1. Group(g, n, c) \subseteq Node
  BY ArcsFinite DEF Group
<1> QED BY <1>1, NodeFinite, FS_Subset, FS_CardinalityType

(* What resolving an arc changes, component by component.                                *)
LEMMA ResolveParts ==
  ASSUME NEW D \in ArcsAmong, NEW w \in WorkOver(D), NEW n \in Node, NEW c \in Node
  PROVE  LET v == Resolve(w, n, c)
             Z == Superfluous(w, n, c)
         IN  /\ v \in WorkOver(D) /\ v.ok = w.ok
             /\ v.marked = w.marked \cup Z /\ v.queue = w.queue \cup Z
             /\ v.g.alive = w.g.alive /\ v.g.flagged = w.g.flagged
             /\ v.g.sched = w.g.sched /\ v.g.ready = w.g.ready
             /\ \A a \in D : v.g.arc[a] = IF a = <<n, c>> THEN Resolved
                                          ELSE IF a[2] = c /\ a[1] \in Group(w.g, n, c) \ {n} THEN Inactive
                                          ELSE w.g.arc[a]
             /\ \A m \in Node : v.g.out[m] = IF m \in Losers(w, n, c) THEN w.g.out[m] - 1 ELSE w.g.out[m]
             /\ \A m \in Node : v.g.pending[m] = IF m = c THEN w.g.pending[m] - Cardinality(Group(w.g, n, c))
                                                 ELSE w.g.pending[m]
<1> DEFINE v == Resolve(w, n, c)
           Z == Superfluous(w, n, c)
           G == Group(w.g, n, c)
           L == Losers(w, n, c)
           arc2 == [a \in DOMAIN w.g.arc |-> CASE a = <<n, c>> -> Resolved
                                               [] a[2] = c /\ a[1] \in G \ {n} -> Inactive
                                               [] OTHER -> w.g.arc[a]]
           out2 == [m \in Node |-> IF m \in L THEN w.g.out[m] - 1 ELSE w.g.out[m]]
           pending2 == [w.g.pending EXCEPT ![c] = @ - Cardinality(G)]
           g2 == [w.g EXCEPT !.arc = arc2, !.out = out2, !.pending = pending2]
<1>1. w.g \in GraphOver(D) /\ w.marked \subseteq Node /\ w.queue \subseteq Node /\ w.ok \in BOOLEAN
  BY DEF WorkOver
<1>2. w.g.arc \in [D -> Nat] /\ w.g.pending \in [Node -> Int] /\ w.g.out \in [Node -> Int]
      /\ w.g.alive \subseteq Node /\ w.g.flagged \subseteq Node /\ w.g.sched \subseteq Node /\ w.g.ready \subseteq Node
  BY <1>1 DEF GraphOver
<1>3. v = [w EXCEPT !.marked = w.marked \cup Z, !.queue = w.queue \cup Z, !.g.arc = arc2, !.g.out = out2,
                    !.g.pending[c] = @ - Cardinality(G)]
  BY DEF Resolve, Superfluous, Losers
<1>4. G \subseteq Node /\ Cardinality(G) \in Nat
  BY GroupNodes
<1>5. L \subseteq Node /\ Z \subseteq Node
  BY <1>4 DEF Losers, Superfluous
<1>6. arc2 \in [D -> Nat]
  <2> HIDE DEF G
  <2> QED BY <1>2 DEF Inactive, Resolved
<1>7. out2 \in [Node -> Int]
  <2> HIDE DEF L
  <2> QED BY <1>2
<1>8. pending2 \in [Node -> Int] /\ \A m \in Node : pending2[m] = IF m = c THEN w.g.pending[m] - Cardinality(G)
                                                 ELSE w.g.pending[m]
  <2> HIDE DEF G
  <2> QED BY <1>2, <1>4
<1>9. \A a \in D : arc2[a] = IF a = <<n, c>> THEN Resolved
                             ELSE IF a[2] = c /\ a[1] \in G \ {n} THEN Inactive ELSE w.g.arc[a]
  <2> HIDE DEF G
  <2> QED BY <1>2
<1>10. \A m \in Node : out2[m] = IF m \in L THEN w.g.out[m] - 1 ELSE w.g.out[m]
  <2> HIDE DEF L
  <2> QED OBVIOUS
<1>11. g2 \in GraphOver(D) /\ g2.arc = arc2 /\ g2.out = out2 /\ g2.pending = pending2
       /\ g2.alive = w.g.alive /\ g2.flagged = w.g.flagged /\ g2.sched = w.g.sched /\ g2.ready = w.g.ready
  <2> HIDE DEF arc2, out2, pending2
  <2> QED BY <1>1, <1>6, <1>7, <1>8 DEF GraphOver
<1>12. v = [w EXCEPT !.marked = w.marked \cup Z, !.queue = w.queue \cup Z, !.g = g2]
  <2> HIDE DEF arc2, out2, Z, G, v
  <2> QED BY <1>3, <1>1 DEF WorkOver, GraphOver
<1> HIDE DEF v, Z, G, L, g2, arc2, out2, pending2
<1>13. v.marked = w.marked \cup Z /\ v.queue = w.queue \cup Z /\ v.g = g2 /\ v.ok = w.ok /\ v \in WorkOver(D)
  BY <1>1, <1>5, <1>11, <1>12 DEF WorkOver
<1> QED BY <1>8, <1>9, <1>10, <1>11, <1>13 DEF v, Z, G, L

(* The suppliers n competes with are the ones c still waits for.                          *)
LEMMA GroupOpen ==
  ASSUME NEW D \in ArcsAmong, NEW g \in GraphOver(D), Linked(g), NEW n \in Node, NEW c \in Consumers(g, n),
         g.arc[<<n, c>>] # Resolved
  PROVE  n \in Group(g, n, c) /\ Group(g, n, c) \subseteq Open(g, c)
<1>1. c \in Node /\ n \in Suppliers(g, c)
  BY ArcsFinite, ArcFacts
<1>2. n \in Open(g, c)
  BY <1>1 DEF Open
<1>3. CASE g.arc[<<n, c>>] >= Source
  <2>1. Group(g, n, c) = {s \in Suppliers(g, c) : g.arc[<<s, c>>] = g.arc[<<n, c>>]}
    BY <1>3 DEF Group
  <2> QED BY <1>1, <2>1 DEF Open
<1>4. CASE ~(g.arc[<<n, c>>] >= Source)
  BY <1>2, <1>4 DEF Group
<1> QED BY <1>3, <1>4

\* The arcs of v after n has become available to c in w.
ResolvedFor(w, n, c, v) == \A a \in DOMAIN w.g.arc :
  v.g.arc[a] = IF a = <<n, c>> THEN Resolved
               ELSE IF a[2] = c /\ a[1] \in Group(w.g, n, c) \ {n} THEN Inactive
               ELSE w.g.arc[a]

\* ... and what this means for the neighbours.
LinksResolved(w, n, c, v) ==
  /\ \A m \in Node : m # c => Suppliers(v.g, m) = Suppliers(w.g, m) /\ Open(v.g, m) = Open(w.g, m)
  /\ Open(v.g, c) = Open(w.g, c) \ Group(w.g, n, c)
  /\ \A m \in Node : Consumers(v.g, m) = IF m \in Group(w.g, n, c) \ {n} THEN Consumers(w.g, m) \ {c}
                                                                       ELSE Consumers(w.g, m)
  /\ \A m \in Node : \A x \in Consumers(v.g, m) :
       v.g.arc[<<m, x>>] = IF m = n /\ x = c THEN Resolved ELSE w.g.arc[<<m, x>>]

(* Resolving the arc from n to c takes c from the consumers of the competitors of n.     *)
LEMMA ResolveArcs ==
  ASSUME NEW D \in ArcsAmong, NEW w \in WorkOver(D), Linked(w.g), NEW v \in WorkOver(D), NEW n \in Node,
         NEW c \in Consumers(w.g, n), w.g.arc[<<n, c>>] # Resolved, ResolvedFor(w, n, c, v)
  PROVE  LinksResolved(w, n, c, v)
<1> DEFINE G == Group(w.g, n, c)
<1>1. DOMAIN v.g.arc = D /\ DOMAIN w.g.arc = D /\ w.g \in GraphOver(D) /\ c \in Node /\ n \in Suppliers(w.g, c)
  BY ArcsFinite, ArcFacts DEF WorkOver, GraphOver
<1>2. \A m, x \in Node : <<m, x>> \in D =>
         v.g.arc[<<m, x>>] = IF m = n /\ x = c THEN Resolved
                             ELSE IF x = c /\ m \in G \ {n} THEN Inactive ELSE w.g.arc[<<m, x>>]
  BY <1>1 DEF ResolvedFor
<1>3. n \in G /\ G \subseteq Open(w.g, c) /\ G \subseteq Suppliers(w.g, c)
  BY <1>1, GroupOpen DEF Open
<1>4. <<n, c>> \in D /\ w.g.arc[<<n, c>>] # Inactive
  BY <1>1 DEF Consumers
<1> HIDE DEF G
<1>5. \A m, x \in Node : <<m, x>> \in D => (v.g.arc[<<m, x>>] # Inactive <=> w.g.arc[<<m, x>>] # Inactive /\ ~(x = c /\ m \in G \ {n}))
  BY <1>2, <1>4 DEF Resolved, Inactive
<1>6. \A m \in Node : m # c => Suppliers(v.g, m) = Suppliers(w.g, m)
  BY <1>1, <1>5 DEF Suppliers
<1>7. Suppliers(v.g, c) = Suppliers(w.g, c) \ (G \ {n})
  BY <1>1, <1>5 DEF Suppliers
<1>8. \A m \in Node : Consumers(v.g, m) = IF m \in G \ {n} THEN Consumers(w.g, m) \ {c} ELSE Consumers(w.g, m)
  BY <1>1, <1>5 DEF Consumers
<1>9. \A m \in Node : \A x \in Consumers(v.g, m) :
        v.g.arc[<<m, x>>] = IF m = n /\ x = c THEN Resolved ELSE w.g.arc[<<m, x>>]
  BY <1>1, <1>2 DEF Consumers
<1>10. \A x \in Node : \A m \in Suppliers(v.g, x) :
        v.g.arc[<<m, x>>] = IF m = n /\ x = c THEN Resolved ELSE w.g.arc[<<m, x>>]
  BY <1>9, ArcFacts, ArcsFinite
<1>11. \A m \in Node : m # c => Open(v.g, m) = Open(w.g, m)
  BY <1>6, <1>10 DEF Open
<1>12. Open(v.g, c) = Open(w.g, c) \ G
  <2>1. \A m \in Suppliers(v.g, c) : v.g.arc[<<m, c>>] # Resolved <=> m # n /\ w.g.arc[<<m, c>>] # Resolved
    BY <1>1, <1>10
  <2> QED BY <1>3, <1>7, <2>1 DEF Open
<1> QED BY <1>6, <1>8, <1>9, <1>11, <1>12 DEF G, LinksResolved

(* What a scheduled node does for one of its consumers.                                   *)
LEMMA ResolveSound ==
  ASSUME NEW D \in ArcsAmong, NEW w \in WorkOver(D), Sound(w), Loose(w), NEW n \in Node, n \in w.g.sched,
         NEW c \in Consumers(w.g, n), c \notin w.marked, w.g.arc[<<n, c>>] # Resolved
  PROVE  LET v == Resolve(w, n, c)
         IN  /\ Sound(v) /\ Loose(v)
             /\ Enforced(w) => Enforced(v)
             /\ Flags(w) =>
                  /\ c \notin w.g.flagged
                  /\ \A m \in v.g.alive \ (v.g.sched \cup Property \cup v.marked) :
                       m # c => (m \in v.g.flagged <=> v.g.pending[m] = 0)
             /\ c \in v.g.alive \ v.marked /\ c \notin v.g.sched
             /\ n \in Precondition => v.queue = w.queue /\ \A m \in Node : Suppliers(v.g, m) = Suppliers(w.g, m)
<1> DEFINE v == Resolve(w, n, c)
           G == Group(w.g, n, c)
           L == Losers(w, n, c)
           Z == Superfluous(w, n, c)
<1>0. w.g \in GraphOver(D) /\ Linked(w.g) /\ c \in Node /\ w.g.pending \in [Node -> Int]
      /\ w.g.out \in [Node -> Int] /\ w.g.alive \subseteq Node
  BY ArcsFinite DEF WorkOver, Sound, GraphOver
<1>1. /\ v \in WorkOver(D) /\ v.ok = w.ok
      /\ v.marked = w.marked \cup Z /\ v.queue = w.queue \cup Z
      /\ v.g.alive = w.g.alive /\ v.g.flagged = w.g.flagged
      /\ v.g.sched = w.g.sched /\ v.g.ready = w.g.ready
      /\ \A a \in D : v.g.arc[a] = IF a = <<n, c>> THEN Resolved
                                   ELSE IF a[2] = c /\ a[1] \in G \ {n} THEN Inactive
                                   ELSE w.g.arc[a]
      /\ \A m \in Node : v.g.out[m] = IF m \in L THEN w.g.out[m] - 1 ELSE w.g.out[m]
      /\ \A m \in Node : v.g.pending[m] = IF m = c THEN w.g.pending[m] - Cardinality(G) ELSE w.g.pending[m]
  <2> HIDE DEF G, L, Z
  <2> QED BY <1>0, ResolveParts DEF G, L, Z
<1> HIDE DEF v
<1>2. ResolvedFor(w, n, c, v)
  BY <1>0, <1>1 DEF ResolvedFor, GraphOver
<1>3. /\ \A m \in Node : m # c => Suppliers(v.g, m) = Suppliers(w.g, m) /\ Open(v.g, m) = Open(w.g, m)
      /\ Open(v.g, c) = Open(w.g, c) \ G
      /\ \A m \in Node : Consumers(v.g, m) = IF m \in G \ {n} THEN Consumers(w.g, m) \ {c} ELSE Consumers(w.g, m)
      /\ \A m \in Node : \A x \in Consumers(v.g, m) :
           v.g.arc[<<m, x>>] = IF m = n /\ x = c THEN Resolved ELSE w.g.arc[<<m, x>>]
  <2>1. v \in WorkOver(D) /\ Linked(w.g)
    BY <1>0, <1>1
  <2>2. LinksResolved(w, n, c, v)
    BY ONLY <2>1, <1>2, ResolveArcs, D \in ArcsAmong, w \in WorkOver(D), n \in Node, c \in Consumers(w.g, n),
            w.g.arc[<<n, c>>] # Resolved
  <2> QED BY <2>2 DEF LinksResolved
<1>4. n \in G /\ G \subseteq Open(w.g, c)
  BY <1>0, GroupOpen
<1>5. n \in w.g.alive /\ c \in w.g.alive /\ n # c
  BY <1>0, LinkedFacts
<1>6. \A s \in G : s \in Node /\ c \in Consumers(w.g, s) /\ s \in w.g.alive /\ s # c
  <2> SUFFICES ASSUME NEW s \in G PROVE s \in Node /\ c \in Consumers(w.g, s) /\ s \in w.g.alive /\ s # c
    OBVIOUS
  <2>1. s \in Node /\ s \in Suppliers(w.g, c)
    BY <1>4, ArcsFinite
  <2>2. c \in Consumers(w.g, s)
    BY <2>1, <1>0, ArcFacts
  <2> QED BY <2>1, <2>2, <1>0, LinkedFacts
<1>7. L = G \ ({n} \cup w.marked) /\ Z \subseteq L /\ \A s \in Z : w.g.out[s] = 1
  BY DEF Losers, Superfluous
<1>8. c \notin w.g.sched
  BY <1>0, <1>4, <1>5 DEF Sound, Served
<1>9. n \notin w.queue /\ n \notin w.marked
  BY <1>5 DEF Loose, Sound, Queued
<1> HIDE DEF G, L, Z
<1>10. \A s \in Z : Consumers(w.g, s) = {c} /\ Consumers(v.g, s) = {}
  <2> SUFFICES ASSUME NEW s \in Z PROVE Consumers(w.g, s) = {c} /\ Consumers(v.g, s) = {}
    OBVIOUS
  <2>1. s \in Node /\ c \in Consumers(w.g, s) /\ s \in w.g.alive /\ s \notin w.marked /\ s \in G \ {n} /\ w.g.out[s] = 1
    BY <1>6, <1>7
  <2>2. 1 >= Cardinality(Consumers(w.g, s))
    BY <2>1 DEF Sound, Demanded
  <2>3. Cardinality(Consumers(w.g, s)) = 1
    BY <2>1, <2>2, ArcsFinite, FS_EmptySet
  <2>4. \E x : Consumers(w.g, s) = {x}
    BY <2>3, ArcsFinite, FS_Singleton
  <2> QED BY <2>1, <2>4, <1>3
<1>11. c \notin Z
  BY <1>6, <1>7
<1>12. Linked(v.g)
  <2>0. ASSUME NEW m \in Node, NEW x \in Consumers(v.g, m)
        PROVE  /\ x \in Consumers(w.g, m)
               /\ v.g.arc[<<m, x>>] = Resolved \/ v.g.arc[<<m, x>>] = w.g.arc[<<m, x>>]
               /\ v.g.arc[<<m, x>>] = Resolved => m \in v.g.sched
    <3>1. x \in Consumers(w.g, m) /\ v.g.arc[<<m, x>>] = IF m = n /\ x = c THEN Resolved ELSE w.g.arc[<<m, x>>]
      BY <1>3
    <3> QED BY <3>1, <1>0, <1>1, LinkedFacts
  <2> SUFFICES ASSUME NEW m \in Node, NEW x \in Consumers(v.g, m)
               PROVE  /\ m \in v.g.alive /\ x \in v.g.alive
                      /\ \/ m \in Property /\ x \in Rule \cup {Final} /\ (v.g.arc[<<m, x>>] = Resolved \/ v.g.arc[<<m, x>>] >= Source)
                         \/ m \in Production /\ x \in Property /\ v.g.arc[<<m, x>>] \in {Resolved, Source}
                         \/ m \in Precondition /\ x \in Production /\ v.g.arc[<<m, x>>] \in {Resolved, Unique}
                      /\ v.g.arc[<<m, x>>] = Resolved => m \in v.g.sched
    BY DEF Linked
  <2>1. x \in Consumers(w.g, m)
    BY <2>0
  <2>2. /\ m \in w.g.alive /\ x \in w.g.alive
        /\ \/ m \in Property /\ x \in Rule \cup {Final} /\ (w.g.arc[<<m, x>>] = Resolved \/ w.g.arc[<<m, x>>] >= Source)
           \/ m \in Production /\ x \in Property /\ w.g.arc[<<m, x>>] \in {Resolved, Source}
           \/ m \in Precondition /\ x \in Production /\ w.g.arc[<<m, x>>] \in {Resolved, Unique}
    BY <2>1, <1>0 DEF Linked
  <2> QED BY <2>0, <2>2, <1>1
<1>13. Waiting(v)
  <2> SUFFICES ASSUME NEW m \in v.g.alive \ v.marked PROVE v.g.pending[m] = Cardinality(Open(v.g, m))
    BY DEF Waiting
  <2>1. m \in w.g.alive \ w.marked /\ m \in Node
    BY <1>0, <1>1
  <2>2. w.g.pending[m] = Cardinality(Open(w.g, m))
    BY <2>1 DEF Sound, Waiting
  <2>3. CASE m # c
    BY <2>1, <2>2, <2>3, <1>1, <1>3
  <2>4. CASE m = c
    <3>1. Cardinality(Open(w.g, c) \ G) = Cardinality(Open(w.g, c)) - Cardinality(G)
      <4>1. Open(w.g, c) \cap G = G
        BY <1>4
      <4> QED BY <4>1, ArcsFinite, FS_Difference
    <3> QED BY <2>1, <2>2, <2>4, <3>1, <1>1, <1>3
  <2> QED BY <2>3, <2>4
<1>14. ASSUME NEW m \in v.g.alive \ v.marked
       PROVE  /\ m \in Node /\ m \in w.g.alive \ w.marked
              /\ \/ m \in L /\ v.g.out[m] = w.g.out[m] - 1 /\ Cardinality(Consumers(v.g, m)) = Cardinality(Consumers(w.g, m)) - 1
                 \/ m \notin L /\ v.g.out[m] = w.g.out[m] /\ Consumers(v.g, m) = Consumers(w.g, m)
  <2>1. m \in w.g.alive \ w.marked /\ m \in Node
    BY <1>0, <1>1
  <2>2. CASE m \in L
    <3>1. Consumers(v.g, m) = Consumers(w.g, m) \ {c} /\ c \in Consumers(w.g, m)
      BY <2>1, <2>2, <1>3, <1>6, <1>7
    <3>2. Cardinality(Consumers(v.g, m)) = Cardinality(Consumers(w.g, m)) - 1
      BY <3>1, ArcsFinite, OneLess
    <3> QED BY <2>1, <2>2, <3>2, <1>1
  <2>3. CASE m \notin L
    BY <2>1, <2>3, <1>1, <1>3, <1>7
  <2> QED BY <2>1, <2>2, <2>3
<1>15. Demanded(v)
  <2> SUFFICES ASSUME NEW m \in v.g.alive \ v.marked
               PROVE  /\ v.g.out[m] >= Cardinality(Consumers(v.g, m))
                      /\ m \in Property \/ m \notin v.g.sched => v.g.out[m] = Cardinality(Consumers(v.g, m))
    BY DEF Demanded
  <2>1. m \in Node /\ m \in w.g.alive \ w.marked
    BY <1>14
  <2>2. /\ w.g.out[m] >= Cardinality(Consumers(w.g, m))
        /\ m \in Property \/ m \notin w.g.sched => w.g.out[m] = Cardinality(Consumers(w.g, m))
    BY <2>1 DEF Sound, Demanded
  <2>3. Cardinality(Consumers(w.g, m)) \in Nat /\ w.g.out[m] \in Int
    BY ArcsFinite, <2>1, <1>0
  <2> QED BY <2>2, <2>3, <1>1, <1>14
<1>16. Enforced(w) => Enforced(v)
  <2> SUFFICES ASSUME Enforced(w), NEW m \in (v.g.sched \cap v.g.alive \cap Production) \ v.marked
               PROVE  v.g.out[m] > Cardinality(Consumers(v.g, m))
    BY DEF Enforced
  <2>1. m \in Node /\ m \in w.g.alive \ w.marked
    BY <1>14
  <2>2. w.g.out[m] > Cardinality(Consumers(w.g, m))
    BY <2>1, <1>1 DEF Enforced
  <2>3. Cardinality(Consumers(w.g, m)) \in Nat /\ w.g.out[m] \in Int
    BY ArcsFinite, <2>1, <1>0
  <2> QED BY <2>2, <2>3, <1>1, <1>14
<1>17. Served(v)
  <2> SUFFICES ASSUME NEW m \in (v.g.sched \cap v.g.alive) \ v.marked PROVE Open(v.g, m) = {}
    BY DEF Served
  <2>1. m \in Node /\ m \in (w.g.sched \cap w.g.alive) \ w.marked /\ m # c
    BY <1>0, <1>1, <1>8
  <2> QED BY <2>1, <1>3 DEF Sound, Served
<1>18. Queued(v)
  BY <1>1 DEF Sound, Queued
<1>19. Loose(v)
  <2> SUFFICES ASSUME NEW q \in v.queue PROVE Consumers(v.g, q) \subseteq v.marked
    BY DEF Loose
  <2>1. CASE q \in Z
    BY <2>1, <1>10
  <2>2. CASE q \in w.queue
    <3>1. q \in Node /\ Consumers(w.g, q) \subseteq w.marked
      BY <2>2 DEF Loose, WorkOver
    <3> QED BY <3>1, <1>1, <1>3
  <2> QED BY <2>1, <2>2, <1>1
<1>20. Unused(v)
  BY <1>19 DEF Unused, Loose
<1>21. Flags(w) => /\ c \notin w.g.flagged
                   /\ \A m \in v.g.alive \ (v.g.sched \cup Property \cup v.marked) :
                        m # c => (m \in v.g.flagged <=> v.g.pending[m] = 0)
  <2> SUFFICES ASSUME Flags(w) PROVE  /\ c \notin w.g.flagged
                   /\ \A m \in v.g.alive \ (v.g.sched \cup Property \cup v.marked) :
                        m # c => (m \in v.g.flagged <=> v.g.pending[m] = 0)
    OBVIOUS
  <2>1. c \notin w.g.flagged
    <3>1. w.g.pending[c] = Cardinality(Open(w.g, c)) /\ Open(w.g, c) # {}
      BY <1>4, <1>5 DEF Sound, Waiting
    <3>2. w.g.pending[c] # 0
      BY <3>1, ArcsFinite, FS_EmptySet
    <3> QED BY <3>2, <1>5, <1>8 DEF Flags
  <2>2. ASSUME NEW m \in v.g.alive \ (v.g.sched \cup Property \cup v.marked), m # c
        PROVE  m \in v.g.flagged <=> v.g.pending[m] = 0
    <3>1. m \in Node /\ m \in w.g.alive \ (w.g.sched \cup Property \cup w.marked)
      BY <1>0, <1>1
    <3> QED BY <2>2, <3>1, <1>1 DEF Flags
  <2> QED BY <2>1, <2>2
<1>22. n \in Precondition => v.queue = w.queue /\ \A m \in Node : Suppliers(v.g, m) = Suppliers(w.g, m)
  <2> SUFFICES ASSUME n \in Precondition
               PROVE  v.queue = w.queue /\ \A m \in Node : Suppliers(v.g, m) = Suppliers(w.g, m)
    OBVIOUS
  <2>1. w.g.arc[<<n, c>>] \in {Resolved, Unique}
    BY <1>0, NodesDisjoint DEF Linked
  <2>2. G = {n}
    BY <2>1 DEF G, Group, Resolved, Unique, Source
  <2>3. Z = {} /\ \A m \in Node : Consumers(v.g, m) = Consumers(w.g, m)
    BY <2>2, <1>3, <1>7
  <2>4. ASSUME NEW m \in Node PROVE Suppliers(v.g, m) = Suppliers(w.g, m)
    <3>1. \A x \in Node : x \in Suppliers(v.g, m) <=> x \in Suppliers(w.g, m)
      BY <2>3, ArcFacts
    <3> QED BY <3>1, ArcsFinite
  <2> QED BY <2>3, <2>4, <1>1
<1> QED BY <1>1, <1>5, <1>8, <1>11, <1>12, <1>13, <1>15, <1>16, <1>17, <1>18, <1>19, <1>20, <1>21, <1>22 DEF Sound, v

(* When n becomes available to c, c loses suppliers only for what n provides, and they
   are not scheduled themselves: c would have got it from them. *)
LEMMA ResolveCarries ==
  ASSUME NEW D \in ArcsAmong, NEW w \in WorkOver(D), Sound(w), NEW n \in Rule \cup Property, n \in w.g.sched,
         NEW c \in Consumers(w.g, n), c \notin w.marked, w.g.arc[<<n, c>>] # Resolved,
         NEW code, NEW S, NEW X, Carry(code, S, X, w), n \in X, n \in Property \/ X \cap Rule \subseteq {n}
  PROVE  Carry(code, S, X, Resolve(w, n, c))
<1> DEFINE v == Resolve(w, n, c)
           G == Group(w.g, n, c)
           Z == Superfluous(w, n, c)
<1>0. w.g \in GraphOver(D) /\ Linked(w.g) /\ c \in Node /\ n \in Node /\ n \in Suppliers(w.g, c)
  BY ArcsFinite, NodeKinds, ArcFacts DEF WorkOver, Sound
<1>1. /\ v \in WorkOver(D)
      /\ v.marked = w.marked \cup Z /\ v.queue = w.queue \cup Z
      /\ v.g.alive = w.g.alive /\ v.g.sched = w.g.sched
      /\ \A a \in D : v.g.arc[a] = IF a = <<n, c>> THEN Resolved
                                   ELSE IF a[2] = c /\ a[1] \in G \ {n} THEN Inactive
                                   ELSE w.g.arc[a]
  <2> HIDE DEF G, Z
  <2> QED BY <1>0, ResolveParts DEF G, Z
<1>2. DOMAIN w.g.arc = D /\ DOMAIN v.g.arc = D
      /\ \A a \in D : w.g.arc[a] \in Nat /\ a = <<a[1], a[2]>> /\ a[1] \in Node /\ a[2] \in Node
  BY <1>0, <1>1 DEF WorkOver, GraphOver, ArcsAmong
<1>3. Fed(code, w) /\ Told(w, X) /\ Settled(w, S)
  BY DEF Carry
<1>4. n \in G /\ G \subseteq Open(w.g, c) /\ <<n, c>> \in D /\ w.g.arc[<<n, c>>] # Inactive
  BY <1>0, <1>2, GroupOpen, ArcFacts
<1>5. \A s \in G : s \in Node /\ <<s, c>> \in D /\ w.g.arc[<<s, c>>] # Resolved /\ w.g.arc[<<s, c>>] # Inactive
                    /\ c \in Consumers(w.g, s)
                    /\ (s # n => w.g.arc[<<s, c>>] = w.g.arc[<<n, c>>] /\ w.g.arc[<<n, c>>] >= Source)
  <2>1. \A s \in G : s \in Suppliers(w.g, c) /\ w.g.arc[<<s, c>>] # Resolved /\ s \in Node
    BY <1>4, ArcsFinite DEF Open
  <2>2. \A s \in G : s # n => w.g.arc[<<s, c>>] = w.g.arc[<<n, c>>] /\ w.g.arc[<<n, c>>] >= Source
    BY DEF Group
  <2> QED BY ZenonT(30), <1>0, <1>2, <2>1, <2>2, ArcFacts
<1>6. Z \subseteq G \ ({n} \cup w.marked)
  BY DEF Superfluous, Losers
<1> HIDE DEF v, G, Z
<1>7. \A a \in D : v.g.arc[a] \in {code[a], Resolved, Inactive}
  BY <1>1, <1>2, <1>3 DEF Fed
<1>8. ASSUME NEW a \in D, a[2] \in v.g.alive \ v.marked
      PROVE  \E b \in D : b[2] = a[2] /\ code[b] = code[a] /\ (b = a \/ code[a] >= Source) /\ v.g.arc[b] # Inactive
  <2>1. PICK b \in D : b[2] = a[2] /\ code[b] = code[a] /\ (b = a \/ code[a] >= Source) /\ w.g.arc[b] # Inactive
    BY <1>1, <1>2, <1>3, <1>8 DEF Fed
  <2>2. CASE ~(b[2] = c /\ b[1] \in G \ {n})
    <3>1. v.g.arc[b] = Resolved \/ v.g.arc[b] = w.g.arc[b]
      BY <1>1, <2>2
    <3>2. v.g.arc[b] # Inactive
      BY <2>1, <3>1 DEF Resolved, Inactive
    <3> QED BY <2>1, <3>2
  <2>3. CASE b[2] = c /\ b[1] \in G \ {n}
    <3>1. b = <<b[1], c>>
      BY <1>2, <2>3
    <3>2. w.g.arc[b] = w.g.arc[<<n, c>>] /\ w.g.arc[b] >= Source /\ w.g.arc[b] # Resolved
      BY <1>5, <2>3, <3>1
    <3>3. code[b] = code[<<n, c>>] /\ code[b] >= Source
      BY <1>3, <1>2, <1>4, <1>5, <3>2 DEF Fed
    <3>4. v.g.arc[<<n, c>>] # Inactive
      BY <1>1, <1>4 DEF Resolved, Inactive
    <3> QED BY <1>4, <2>1, <2>3, <3>3, <3>4
  <2> QED BY <2>2, <2>3
<1>9. Told(v, X)
  <2> SUFFICES ASSUME NEW s \in w.g.sched \ X, NEW x \in Consumers(v.g, s) \ w.marked PROVE v.g.arc[<<s, x>>] = Resolved
    BY <1>1 DEF Told
  <2>1. s \in Node /\ x \in Node /\ s # n /\ <<s, x>> \in D /\ v.g.arc[<<s, x>>] # Inactive
    BY <1>0, <1>2 DEF Consumers, GraphOver
  <2>2. v.g.arc[<<s, x>>] = w.g.arc[<<s, x>>]
    BY <1>1, <2>1
  <2>3. x \in Consumers(w.g, s)
    BY <1>2, <2>1, <2>2, ArcFacts
  <2> QED BY <1>3, <2>2, <2>3 DEF Told
<1>10. Settled(v, S)
  <2> SUFFICES ASSUME NEW s \in S, s \in Z PROVE FALSE
    BY <1>1, <1>3 DEF Settled
  <2>1. s \in Rule /\ s \in w.g.sched /\ s \in G /\ s # n
    BY <1>3, <1>6 DEF Settled
  <2>2. CASE n \in Property
    <3>1. c \in Rule \cup {Final}
      BY <1>0, <2>2, LinkedFacts
    <3>2. s \in Precondition
      BY <1>0, <1>5, <2>1, <3>1, LinkedFacts, NodeKinds
    <3>3. w.g.arc[<<s, c>>] \in {Resolved, Unique}
      BY <1>0, <1>5, <2>1, <3>2, NodesDisjoint DEF Linked
    <3> QED BY <1>5, <2>1, <3>3 DEF Unique, Source
  <2>3. CASE n \notin Property
    <3>1. s \notin X
      BY <2>1, <2>3
    <3> QED BY <1>3, <1>5, <2>1, <3>1 DEF Told
  <2> QED BY <2>2, <2>3
<1> QED BY <1>2, <1>7, <1>8, <1>9, <1>10 DEF Carry, Fed, v

\* v is w on the way to having n scheduled.
Progress(w, v, n) ==
  /\ v.ok = w.ok /\ v.g.alive = w.g.alive /\ w.marked \subseteq v.marked
  /\ w.g.sched \cup {n} \subseteq v.g.sched /\ v.g.sched \subseteq w.g.sched \cup {n} \cup Property
  /\ w.g.flagged \ {n} \subseteq v.g.flagged /\ v.g.ready \cap (w.g.flagged \ {n}) \subseteq w.g.ready
  /\ \A a \in DOMAIN w.g.arc :
       \/ v.g.arc[a] \in {w.g.arc[a], Inactive}
       \/ v.g.arc[a] = Resolved /\ w.g.arc[a] # Inactive /\ (a[1] = n \/ a[1] \in Property)
  /\ n \in Precondition => /\ v.queue = w.queue /\ v.g.sched = w.g.sched \cup {n}
                           /\ \A m \in Node : Suppliers(v.g, m) = Suppliers(w.g, m)

\* ... and nobody has lost an input, while the consumers of n are being told.
Carrying(w, v, n) == \A code, S, X :
  Carry(code, S, X, w) /\ (n \in Property \/ X \cap Rule = {})
    => Carry(code, S \cup ({n} \cap Rule \cap w.g.alive), X \cup {n}, v)

\* ... with exact counters; e says whether all scheduled rules are enforced.
Serving(w, v, n, e) ==
  Sound(v) /\ Loose(v) /\ Flags(v) /\ (e => Enforced(v)) /\ Progress(w, v, n) /\ Carrying(w, v, n)

\* What becomes of a rule that has got its last input.
Readied(u, c) == IF u.g.pending[c] = 0 /\ c \notin u.g.flagged \cup u.g.sched THEN MakeReady(u, c) ELSE u

(* What flagging a rule as ready changes.                                                *)
LEMMA MakeReadyParts ==
  ASSUME NEW D, NEW w \in WorkOver(D), NEW c \in Node
  PROVE  LET v == MakeReady(w, c)
         IN  /\ v \in WorkOver(D) /\ v.ok = w.ok /\ v.marked = w.marked /\ v.queue = w.queue
             /\ v.g.arc = w.g.arc /\ v.g.pending = w.g.pending /\ v.g.out = w.g.out /\ v.g.alive = w.g.alive
             /\ v.g.sched = w.g.sched /\ v.g.flagged = w.g.flagged \cup {c} /\ v.g.ready = w.g.ready \cup {c}
<1> DEFINE g2 == [w.g EXCEPT !.flagged = @ \cup {c}, !.ready = @ \cup {c}]
<1>1. w.g \in GraphOver(D)
  BY DEF WorkOver
<1>2. /\ g2 \in GraphOver(D)
      /\ g2.arc = w.g.arc /\ g2.pending = w.g.pending /\ g2.out = w.g.out /\ g2.alive = w.g.alive
      /\ g2.sched = w.g.sched /\ g2.flagged = w.g.flagged \cup {c} /\ g2.ready = w.g.ready \cup {c}
  BY <1>1 DEF GraphOver
<1>3. MakeReady(w, c) = [w EXCEPT !.g = g2]
  BY <1>1 DEF MakeReady, WorkOver, GraphOver
<1> HIDE DEF g2
<1> QED BY <1>2, <1>3 DEF WorkOver

(* Neighbours depend on the arcs alone.                                                  *)
LEMMA SameArcs ==
  ASSUME NEW g, NEW h, h.arc = g.arc
  PROVE  \A m : Consumers(h, m) = Consumers(g, m) /\ Suppliers(h, m) = Suppliers(g, m) /\ Open(h, m) = Open(g, m)
  BY DEF Consumers, Suppliers, Open

(* Telling one consumer of a scheduled node keeps the counters and, once it has been
   flagged when it is ready, the flags exact. *)
LEMMA ResolveServes ==
  ASSUME NEW D \in ArcsAmong, NEW w \in WorkOver(D), NEW v \in WorkOver(D), NEW n \in Rule \cup Property,
         NEW e \in BOOLEAN, Serving(w, v, n, e),
         NEW c \in Consumers(v.g, n), c \notin v.marked, v.g.arc[<<n, c>>] # Resolved
  PROVE  LET u == Resolve(v, n, c)
         IN  /\ u \in WorkOver(D)
             /\ c \in Property => Serving(w, u, n, e)
             /\ c \in Property => c \in u.g.alive \ u.marked
             /\ c \notin Property => Readied(u, c) \in WorkOver(D) /\ Serving(w, Readied(u, c), n, e)
             /\ \A x \in Node : x # c /\ <<n, x>> \in D /\ v.g.arc[<<n, x>>] # Resolved =>
                  u.g.arc[<<n, x>>] # Resolved /\ Readied(u, c).g.arc[<<n, x>>] # Resolved
             /\ \A T : Heard(v, n, T) => Heard(u, n, T \cup {c}) /\ Heard(Readied(u, c), n, T \cup {c})
<1> DEFINE u == Resolve(v, n, c)
           r == Readied(u, c)
<1>0. n \in Node /\ c \in Node /\ n \in v.g.sched /\ v.g \in GraphOver(D) /\ w.g \in GraphOver(D)
  BY NodeKinds, ArcsFinite DEF Serving, Progress, WorkOver
<1>1. /\ u \in WorkOver(D) /\ u.ok = v.ok
      /\ v.marked \subseteq u.marked
      /\ u.g.alive = v.g.alive /\ u.g.flagged = v.g.flagged
      /\ u.g.sched = v.g.sched /\ u.g.ready = v.g.ready
      /\ \A a \in D : u.g.arc[a] = IF a = <<n, c>> THEN Resolved
                                   ELSE IF a[2] = c /\ a[1] \in Group(v.g, n, c) \ {n} THEN Inactive
                                   ELSE v.g.arc[a]
  BY <1>0, ResolveParts
<1>2. /\ Sound(u) /\ Loose(u)
      /\ Enforced(v) => Enforced(u)
      /\ c \notin v.g.flagged
      /\ \A m \in u.g.alive \ (u.g.sched \cup Property \cup u.marked) :
           m # c => (m \in u.g.flagged <=> u.g.pending[m] = 0)
      /\ c \in u.g.alive \ u.marked /\ c \notin u.g.sched
      /\ n \in Precondition => u.queue = v.queue /\ \A m \in Node : Suppliers(u.g, m) = Suppliers(v.g, m)
  <2> HIDE DEF u
  <2> QED BY <1>0, ResolveSound DEF Serving, u
<1> HIDE DEF u
<1>3. Progress(w, u, n)
  <2>1. \A a \in D : u.g.arc[a] \in {v.g.arc[a], Inactive} \/ (u.g.arc[a] = Resolved /\ a[1] = n)
    BY <1>1
  <2>2. <<n, c>> \in D /\ v.g.arc[<<n, c>>] # Inactive
    BY <1>0 DEF Consumers, GraphOver
  <2>3. w.g.arc[<<n, c>>] # Inactive
    BY <2>2, <1>0 DEF Serving, Progress, GraphOver
  <2>4. \A a \in D : u.g.arc[a] \in {v.g.arc[a], Inactive} \/ (u.g.arc[a] = Resolved /\ w.g.arc[a] # Inactive /\ a[1] = n)
    BY <1>1, <2>3
  <2>5. \A a \in D : \/ u.g.arc[a] \in {w.g.arc[a], Inactive}
                     \/ u.g.arc[a] = Resolved /\ w.g.arc[a] # Inactive /\ (a[1] = n \/ a[1] \in Property)
    BY <2>4, <1>0 DEF Serving, Progress, GraphOver
  <2> QED BY <2>5, <1>0, <1>1, <1>2 DEF Serving, Progress, GraphOver
<1>30. Carrying(w, u, n)
  <2> SUFFICES ASSUME NEW code, NEW S, NEW X, Carry(code, S, X, w), n \in Property \/ X \cap Rule = {}
               PROVE  Carry(code, S \cup ({n} \cap Rule \cap w.g.alive), X \cup {n}, u)
    BY DEF Carrying
  <2> DEFINE S2 == S \cup ({n} \cap Rule \cap w.g.alive)
             X2 == X \cup {n}
  <2>1. Carry(code, S2, X2, v)
    BY DEF Serving, Carrying
  <2>2. n \in X2 /\ (n \in Property \/ X2 \cap Rule \subseteq {n})
    OBVIOUS
  <2> HIDE DEF S2, X2
  <2>3. Carry(code, S2, X2, u)
    BY <1>0, <2>1, <2>2, ResolveCarries DEF u, Serving
  <2> QED BY <2>3 DEF S2, X2
<1>31. \A T : Heard(v, n, T) => Heard(u, n, T \cup {c})
  <2> SUFFICES ASSUME NEW T, Heard(v, n, T), NEW x \in ((T \cup {c}) \cap Consumers(u.g, n)) \ u.marked
               PROVE  u.g.arc[<<n, x>>] = Resolved
    BY DEF Heard
  <2>1. x \in Node /\ <<n, x>> \in D /\ u.g.arc[<<n, x>>] # Inactive
    BY <1>1 DEF Consumers, WorkOver, GraphOver
  <2>2. CASE x = c
    BY <1>1, <2>1, <2>2
  <2>3. CASE x # c
    <3>1. u.g.arc[<<n, x>>] = v.g.arc[<<n, x>>]
      BY <1>1, <2>1, <2>3
    <3>2. x \in (T \cap Consumers(v.g, n)) \ v.marked
      BY <1>0, <1>1, <2>1, <2>3, <3>1, ArcFacts DEF GraphOver
    <3> QED BY <3>1, <3>2 DEF Heard
  <2> QED BY <2>2, <2>3
<1>4. c \in Property => Serving(w, u, n, e)
  <2> SUFFICES ASSUME c \in Property PROVE Flags(u)
    BY <1>2, <1>3, <1>30 DEF Serving
  <2> QED BY <1>1, <1>2 DEF Flags, Serving
<1>5. ASSUME c \notin Property PROVE r \in WorkOver(D) /\ Serving(w, r, n, e)
  <2>1. CASE u.g.pending[c] = 0 /\ c \notin u.g.flagged \cup u.g.sched
    <3> DEFINE x == MakeReady(u, c)
    <3>1. /\ x \in WorkOver(D) /\ x.ok = u.ok /\ x.marked = u.marked /\ x.queue = u.queue
          /\ x.g.arc = u.g.arc /\ x.g.pending = u.g.pending /\ x.g.out = u.g.out /\ x.g.alive = u.g.alive
          /\ x.g.sched = u.g.sched /\ x.g.flagged = u.g.flagged \cup {c} /\ x.g.ready = u.g.ready \cup {c}
      BY <1>0, <1>1, MakeReadyParts
    <3>2. r = x
      BY <2>1 DEF Readied
    <3> HIDE DEF x, r
    <3>3. \A m : Consumers(x.g, m) = Consumers(u.g, m) /\ Suppliers(x.g, m) = Suppliers(u.g, m) /\ Open(x.g, m) = Open(u.g, m)
      BY <3>1, SameArcs
    <3>4. Linked(x.g)
      BY ZenonT(30), <1>2, <3>1, <3>3 DEF Sound, Linked
    <3>5. Waiting(x) /\ Demanded(x) /\ Served(x) /\ Queued(x) /\ Unused(x) /\ Loose(x) /\ (Enforced(u) => Enforced(x))
      BY <1>2, <3>1, <3>3 DEF Sound, Waiting, Demanded, Served, Queued, Unused, Loose, Enforced
    <3>6. Flags(x)
      <4>1. x.g.flagged \subseteq x.g.alive \ (x.g.sched \cup Property) /\ x.g.ready \subseteq x.g.flagged
        BY <1>1, <1>2, <1>5, <3>1 DEF Serving, Flags
      <4>2. \A m \in x.g.alive \ (x.g.sched \cup Property \cup x.marked) : m \in x.g.flagged <=> x.g.pending[m] = 0
        BY <1>2, <2>1, <3>1
      <4> QED BY <4>1, <4>2 DEF Flags
    <3>7. Progress(w, x, n)
      BY <1>3, <2>1, <3>1, <3>3 DEF Progress
    <3>8. \A code, S, X : Carry(code, S, X, u) => Carry(code, S, X, x)
      BY <3>1, <3>3 DEF Carry, Fed, Told, Settled
    <3>9. Carrying(w, x, n)
      BY <1>30, <3>8 DEF Carrying
    <3> QED BY <1>2, <3>1, <3>2, <3>4, <3>5, <3>6, <3>7, <3>9 DEF Serving, Sound
  <2>2. CASE ~(u.g.pending[c] = 0 /\ c \notin u.g.flagged \cup u.g.sched)
    <3>1. r = u
      BY <2>2 DEF Readied
    <3>2. u.g.pending[c] # 0 /\ c \notin u.g.flagged
      BY <1>1, <1>2, <2>2
    <3>3. Flags(u)
      BY <1>1, <1>2, <3>2 DEF Flags, Serving
    <3> HIDE DEF r
    <3> QED BY <1>1, <1>2, <1>3, <1>30, <3>1, <3>3 DEF Serving
  <2> QED BY <2>1, <2>2
<1>6. r.g.arc = u.g.arc /\ r.marked = u.marked
  BY <1>0, <1>1, MakeReadyParts DEF Readied
<1>60. \A T : Heard(u, n, T) => Heard(r, n, T)
  <2> HIDE DEF r
  <2> QED BY <1>6, SameArcs DEF Heard
<1>7. \A x \in Node : x # c /\ <<n, x>> \in D /\ v.g.arc[<<n, x>>] # Resolved => u.g.arc[<<n, x>>] # Resolved
  <2> SUFFICES ASSUME NEW x \in Node, x # c, <<n, x>> \in D PROVE u.g.arc[<<n, x>>] = v.g.arc[<<n, x>>]
    OBVIOUS
  <2>1. <<n, x>> # <<n, c>> /\ <<n, x>>[2] # c
    OBVIOUS
  <2> QED BY <2>1, <1>1
<1> HIDE DEF r
<1> QED BY <1>1, <1>2, <1>4, <1>5, <1>6, <1>7, <1>31, <1>60 DEF u, r

\* The work record with n scheduled, before any of its consumers has been told.
Start(w, n, enforced) == [w EXCEPT !.g.flagged = @ \ {n}, !.g.sched = @ \cup {n}, !.g.out[n] = @ + enforced]

(* What entering a node among the scheduled ones changes.                                *)
LEMMA StartParts ==
  ASSUME NEW D, NEW w \in WorkOver(D), NEW n \in Node, NEW enforced \in Nat
  PROVE  LET v == Start(w, n, enforced)
         IN  /\ v \in WorkOver(D) /\ v.ok = w.ok /\ v.marked = w.marked /\ v.queue = w.queue
             /\ v.g.arc = w.g.arc /\ v.g.pending = w.g.pending /\ v.g.alive = w.g.alive
             /\ v.g.sched = w.g.sched \cup {n} /\ v.g.flagged = w.g.flagged \ {n} /\ v.g.ready = w.g.ready
             /\ \A m \in Node : v.g.out[m] = IF m = n THEN w.g.out[n] + enforced ELSE w.g.out[m]
<1> DEFINE out2 == [w.g.out EXCEPT ![n] = @ + enforced]
           g2 == [w.g EXCEPT !.flagged = @ \ {n}, !.sched = @ \cup {n}, !.out = out2]
<1>1. w.g \in GraphOver(D) /\ w.g.out \in [Node -> Int]
  BY DEF WorkOver, GraphOver
<1>20. out2 \in [Node -> Int] /\ \A m \in Node : out2[m] = IF m = n THEN w.g.out[n] + enforced ELSE w.g.out[m]
  BY <1>1
<1> HIDE DEF out2
<1>2. /\ g2 \in GraphOver(D)
      /\ g2.arc = w.g.arc /\ g2.pending = w.g.pending /\ g2.alive = w.g.alive
      /\ g2.sched = w.g.sched \cup {n} /\ g2.flagged = w.g.flagged \ {n} /\ g2.ready = w.g.ready
      /\ g2.out = out2
  BY <1>1, <1>20 DEF GraphOver
<1>3. Start(w, n, enforced) = [w EXCEPT !.g = g2]
  BY <1>1 DEF Start, WorkOver, GraphOver, out2
<1> HIDE DEF g2
<1> QED BY <1>2, <1>20, <1>3 DEF WorkOver

\* n can be scheduled: it is ready, or a property somebody has just created, or nobody's.
Due(w, n) ==
  /\ n \notin w.g.ready /\ n \notin w.g.sched
  /\ n \in w.g.alive => n \notin w.marked /\ Open(w.g, n) = {}

(* A node whose inputs are all resolved can be scheduled.                                *)
LEMMA StartServes ==
  ASSUME NEW D \in ArcsAmong, NEW w \in WorkOver(D), NEW n \in Rule \cup Property, NEW enforced \in {0, 1},
         Sound(w), Loose(w), Flags(w), Due(w, n), n \in Property => enforced = 0,
         NEW e \in BOOLEAN, e => Enforced(w) /\ (n \in Production => enforced = 1)
  PROVE  Start(w, n, enforced) \in WorkOver(D) /\ Serving(w, Start(w, n, enforced), n, e)
<1> DEFINE v == Start(w, n, enforced)
<1>0. n \in Node /\ w.g \in GraphOver(D)
  BY NodeKinds DEF WorkOver
<1>1. /\ v \in WorkOver(D) /\ v.ok = w.ok /\ v.marked = w.marked /\ v.queue = w.queue
      /\ v.g.arc = w.g.arc /\ v.g.pending = w.g.pending /\ v.g.alive = w.g.alive
      /\ v.g.sched = w.g.sched \cup {n} /\ v.g.flagged = w.g.flagged \ {n} /\ v.g.ready = w.g.ready
      /\ \A m \in Node : v.g.out[m] = IF m = n THEN w.g.out[n] + enforced ELSE w.g.out[m]
  <2>1. enforced \in Nat
    OBVIOUS
  <2> QED BY ONLY <1>0, <2>1, w \in WorkOver(D), StartParts
<1> HIDE DEF v
<1>2. \A m : Consumers(v.g, m) = Consumers(w.g, m) /\ Suppliers(v.g, m) = Suppliers(w.g, m) /\ Open(v.g, m) = Open(w.g, m)
  BY <1>1, SameArcs
<1>3. w.g.out \in [Node -> Int] /\ w.g.alive \subseteq Node
  BY <1>0 DEF GraphOver
<1>4. \A m \in w.g.alive \ w.marked : w.g.out[m] \in Int /\ Cardinality(Consumers(w.g, m)) \in Nat
  BY <1>3, ArcsFinite
<1>5. Linked(v.g)
  <2>1. Linked(w.g) /\ v.g.arc = w.g.arc /\ v.g.alive = w.g.alive /\ w.g.sched \subseteq v.g.sched
    BY <1>1 DEF Sound
  <2> QED BY ONLY ZenonT(30), <1>2, <2>1 DEF Linked
<1>6. Waiting(v) /\ Queued(v) /\ Unused(v) /\ Loose(v)
  BY <1>1, <1>2 DEF Sound, Waiting, Queued, Unused, Loose
<1>7. Served(v)
  BY <1>1, <1>2 DEF Sound, Served, Due
<1>8. Demanded(v)
  <2> SUFFICES ASSUME NEW m \in w.g.alive \ w.marked
               PROVE  /\ v.g.out[m] >= Cardinality(Consumers(w.g, m))
                      /\ m \in Property \/ m \notin v.g.sched => v.g.out[m] = Cardinality(Consumers(w.g, m))
    BY <1>1, <1>2 DEF Demanded
  <2>1. /\ w.g.out[m] >= Cardinality(Consumers(w.g, m))
        /\ m \in Property \/ m \notin w.g.sched => w.g.out[m] = Cardinality(Consumers(w.g, m))
    BY DEF Sound, Demanded
  <2>2. v.g.out[m] = IF m = n THEN w.g.out[n] + enforced ELSE w.g.out[m]
    BY <1>1, <1>3
  <2> QED BY <1>1, <1>4, <2>1, <2>2
<1>9. e => Enforced(v)
  <2> SUFFICES ASSUME e, NEW m \in (v.g.sched \cap w.g.alive \cap Production) \ w.marked
               PROVE  v.g.out[m] > Cardinality(Consumers(w.g, m))
    BY <1>1, <1>2 DEF Enforced
  <2>1. v.g.out[m] = IF m = n THEN w.g.out[n] + enforced ELSE w.g.out[m]
    BY <1>1, <1>3
  <2>2. CASE m = n
    <3>1. w.g.out[m] >= Cardinality(Consumers(w.g, m))
      BY DEF Sound, Demanded
    <3> QED BY <1>4, <2>1, <2>2, <3>1
  <2>3. CASE m # n
    BY <1>1, <2>1, <2>3 DEF Enforced
  <2> QED BY <2>2, <2>3
<1>10. Flags(v)
  <2>1. v.g.flagged \subseteq v.g.alive \ (v.g.sched \cup Property) /\ v.g.ready \subseteq v.g.flagged
    BY <1>1 DEF Flags, Due
  <2>2. \A m \in v.g.alive \ (v.g.sched \cup Property \cup v.marked) : m \in v.g.flagged <=> v.g.pending[m] = 0
    BY <1>1 DEF Flags
  <2> QED BY <2>1, <2>2 DEF Flags
<1>11. Progress(w, v, n)
  BY <1>1, <1>2 DEF Progress
<1>12. Carrying(w, v, n)
  <2> SUFFICES ASSUME NEW code, NEW S, NEW X, Carry(code, S, X, w)
               PROVE  Carry(code, S \cup ({n} \cap Rule \cap w.g.alive), X \cup {n}, v)
    BY DEF Carrying
  <2>1. Fed(code, v)
    BY <1>1 DEF Carry, Fed
  <2>2. Told(v, X \cup {n})
    <3> SUFFICES ASSUME NEW s \in v.g.sched \ (X \cup {n}), NEW c \in Consumers(v.g, s) \ v.marked
                 PROVE  v.g.arc[<<s, c>>] = Resolved
      BY DEF Told
    <3>1. s \in w.g.sched \ X /\ c \in Consumers(w.g, s) \ w.marked
      BY <1>1, <1>2
    <3>2. w.g.arc[<<s, c>>] = Resolved
      BY <3>1 DEF Carry, Told
    <3> QED BY <1>1, <3>2
  <2>3. n \in w.g.alive => n \notin w.queue
    BY DEF Due, Sound, Queued
  <2>4. Settled(v, S \cup ({n} \cap Rule \cap w.g.alive))
    BY <1>1, <2>3 DEF Carry, Settled
  <2> QED BY <2>1, <2>2, <2>4 DEF Carry
<1> QED BY <1>1, <1>5, <1>6, <1>7, <1>8, <1>9, <1>10, <1>11, <1>12 DEF Serving, Sound, v

(* Induction over a finite set whose elements are taken one at a time.                   *)
LEMMA ChosenInduction ==
  ASSUME NEW S, IsFiniteSet(S), NEW Q, {} \in Q, \A s \in SUBSET S : s # {} /\ s \ {Chosen(s)} \in Q => s \in Q
  PROVE  S \in Q
<1> DEFINE next == [s \in SUBSET S |-> Chosen(s)]
<1>1. \A s \in SUBSET S : s # {} => next[s] \in s
  BY DEF Chosen
<1>2. \A s \in SUBSET S : s # {} /\ s \ {next[s]} \in Q => s \in Q
  OBVIOUS
<1>3. \A s \in SUBSET S : s \in Q
  <2> HIDE DEF next
  <2> QED BY ONLY IsFiniteSet(S), {} \in Q, <1>1, <1>2, SubsetInduction
<1> QED BY <1>3

(* Scheduling a property: what add_rule does for it.                                      *)
PropertyStep(p, c, v) ==
  IF c \in v.marked \/ v.g.arc[<<p, c>>] = Inactive THEN v ELSE Readied(Resolve(v, p, c), c)

\* f are the work records after a set of consumers has been told.
SuppliesProperty(w, p, f) ==
  LET C == Consumers(w.g, p)
  IN  /\ f[{}] = Start(w, p, 0)
      /\ \A s \in SUBSET C : s # {} => f[s] = PropertyStep(p, Chosen(s), f[s \ {Chosen(s)}])

(* Telling a consumer of a property yields a work record.                                *)
LEMMA PropertyStepType ==
  ASSUME NEW D \in ArcsAmong, NEW v \in WorkOver(D), NEW p \in Node, NEW c \in Node
  PROVE  PropertyStep(p, c, v) \in WorkOver(D)
<1>1. Resolve(v, p, c) \in WorkOver(D)
  BY ResolveParts
<1>2. Readied(Resolve(v, p, c), c) \in WorkOver(D)
  BY <1>1, MakeReadyParts DEF Readied
<1> QED BY <1>2 DEF PropertyStep

(* Scheduling a property as a function on the sets of consumers that have been told.     *)
LEMMA SupplyPropertyFold ==
  ASSUME NEW D \in ArcsAmong, NEW w \in WorkOver(D), NEW p \in Node
  PROVE  \E f : SuppliesProperty(w, p, f) /\ Supply(w, p, 0, MakeReady) = f[Consumers(w.g, p)]
<1> DEFINE S == Consumers(w.g, p)
           E == WorkOver(D)
           base == Start(w, p, 0)
           op(c, v) == IF c \in v.marked \/ v.g.arc[<<p, c>>] = Inactive THEN v
                       ELSE LET u == Resolve(v, p, c)
                            IN  IF u.g.pending[c] = 0 /\ c \notin u.g.flagged \cup u.g.sched
                                  THEN MakeReady(u, c) ELSE u
           next == [s \in SUBSET S |-> CHOOSE x \in s : TRUE]
           step == [q \in S \X E |-> op(q[1], q[2])]
           Eq(h) == h = [s \in SUBSET S |-> IF s = {} THEN base
                                            ELSE op(CHOOSE x \in s : TRUE, h[s \ {CHOOSE x \in s : TRUE}])]
           f == CHOOSE h : Eq(h)
<1>0. IsFiniteSet(S) /\ S \subseteq Node
  BY ArcsFinite
<1>1. \A s \in SUBSET S : s # {} => next[s] \in s
  OBVIOUS
<1>2. \A c \in S : \A v \in E : op(c, v) \in E /\ op(c, v) = PropertyStep(p, c, v)
  BY <1>0, PropertyStepType DEF PropertyStep, Readied
<1>3. step \in [S \X E -> E]
  <2> HIDE DEF op, E, S
  <2> QED BY <1>2
<1>4. PICK h : Folded(h, S, next, base, step) /\ \A s \in SUBSET S : h[s] \in E
  <2> HIDE DEF next, step
  <2>1. base \in E
    BY StartParts
  <2> HIDE DEF E, S, base
  <2> QED BY ONLY <1>0, <1>1, <1>3, <2>1, FoldedWithin
<1>5. Eq(h)
  <2> HIDE DEF op, E, S, base
  <2>1. \A s \in SUBSET S : s # {} => <<next[s], h[s \ {next[s]}]>> \in S \X E
    BY <1>1, <1>4
  <2>2. h = [s \in SUBSET S |-> IF s = {} THEN base ELSE op(next[s], h[s \ {next[s]}])]
    <3> HIDE DEF next
    <3> QED BY <2>1, <1>4 DEF Folded
  <2> QED BY <2>2
<1>6. Eq(f)
  <2> HIDE DEF Eq
  <2> QED BY <1>5
<1>7. Supply(w, p, 0, MakeReady) = f[S]
  BY DEF Supply, FoldSet, MapThenFoldSet, Start
<1> HIDE DEF f
<1>8. \A s \in SUBSET S : s # {} => f[s] = op(next[s], f[s \ {next[s]}])
  <2> HIDE DEF op, S, base
  <2> QED BY <1>6
<1>9. f[{}] = base
  <2> HIDE DEF op, S, base
  <2> QED BY <1>6
<1>10. \A s \in SUBSET S : s # {} => f[s] = PropertyStep(p, Chosen(s), f[s \ {Chosen(s)}])
  BY ZenonT(30), <1>8 DEF Chosen, PropertyStep, Readied
<1> QED BY <1>7, <1>9, <1>10 DEF SuppliesProperty

(* Scheduling a property yields a work record.                                           *)
LEMMA SupplyPropertyType ==
  ASSUME NEW D \in ArcsAmong, NEW w \in WorkOver(D), NEW p \in Node
  PROVE  Supply(w, p, 0, MakeReady) \in WorkOver(D)
<1> DEFINE C == Consumers(w.g, p)
<1>1. PICK f : SuppliesProperty(w, p, f) /\ Supply(w, p, 0, MakeReady) = f[C]
  BY SupplyPropertyFold
<1> DEFINE Q == {s \in SUBSET C : f[s] \in WorkOver(D)}
<1>2. IsFiniteSet(C) /\ C \subseteq Node
  BY ArcsFinite
<1>3. {} \in Q
  <2>1. Start(w, p, 0) \in WorkOver(D)
    BY StartParts
  <2> QED BY <1>1, <2>1 DEF SuppliesProperty
<1>4. ASSUME NEW s \in SUBSET C, s # {}, s \ {Chosen(s)} \in Q PROVE s \in Q
  <2>1. Chosen(s) \in Node
    BY <1>2, <1>4 DEF Chosen
  <2>2. f[s] = PropertyStep(p, Chosen(s), f[s \ {Chosen(s)}])
    BY <1>1, <1>4 DEF SuppliesProperty
  <2>3. f[s \ {Chosen(s)}] \in WorkOver(D)
    BY <1>4
  <2> QED BY <2>1, <2>2, <2>3, PropertyStepType
<1>5. C \in Q
  <2>1. \A s \in SUBSET C : s # {} /\ s \ {Chosen(s)} \in Q => s \in Q
    BY <1>4
  <2> HIDE DEF Q, C
  <2> QED BY <1>2, <1>3, <2>1, ChosenInduction
<1> QED BY <1>1, <1>5

\* The consumers still to be told have not got anything from n.
Untold(v, n, C) == \A x \in C : v.g.arc[<<n, x>>] # Resolved

(* No arc from a node is resolved before the node is scheduled.                          *)
LEMMA StartUntold ==
  ASSUME NEW D \in ArcsAmong, NEW w \in WorkOver(D), Sound(w), NEW n \in Node, n \notin w.g.sched,
         NEW enforced \in Nat
  PROVE  Untold(Start(w, n, enforced), n, Consumers(w.g, n))
<1>1. Start(w, n, enforced).g.arc = w.g.arc
  BY StartParts
<1>2. \A x \in Consumers(w.g, n) : w.g.arc[<<n, x>>] # Resolved
  BY DEF Sound, Linked
<1> QED BY <1>1, <1>2 DEF Untold

\* The consumers of n have been told.
Carried(w, v, n) == \A code, S, X :
  Carry(code, S, X, w) /\ (n \in Property \/ X \cap Rule = {}) => Carry(code, S \cup ({n} \cap Rule \cap w.g.alive), X, v)

(* Once all consumers of n know of it nobody has to wait for n any more.                 *)
LEMMA AllHeard ==
  ASSUME NEW D \in ArcsAmong, NEW w \in WorkOver(D), NEW v \in WorkOver(D), NEW n \in Node,
         Progress(w, v, n), Carrying(w, v, n), Heard(v, n, Consumers(w.g, n))
  PROVE  Carried(w, v, n)
<1> SUFFICES ASSUME NEW code, NEW S, NEW X, Carry(code, S, X, w), n \in Property \/ X \cap Rule = {}
             PROVE  Carry(code, S \cup ({n} \cap Rule \cap w.g.alive), X, v)
  BY DEF Carried
<1> DEFINE S2 == S \cup ({n} \cap Rule \cap w.g.alive)
<1>1. Carry(code, S2, X \cup {n}, v)
  BY DEF Carrying
<1> HIDE DEF S2
<1>2. Consumers(v.g, n) \subseteq Consumers(w.g, n)
  <2> SUFFICES ASSUME NEW x \in Consumers(v.g, n) PROVE x \in Consumers(w.g, n)
    OBVIOUS
  <2>1. x \in Node /\ <<n, x>> \in D /\ v.g.arc[<<n, x>>] # Inactive /\ DOMAIN w.g.arc = D
    BY DEF Consumers, WorkOver, GraphOver
  <2>2. w.g.arc[<<n, x>>] # Inactive
    BY <2>1 DEF Progress
  <2> QED BY <2>1, <2>2 DEF Consumers
<1>3. Told(v, X)
  <2> SUFFICES ASSUME NEW s \in v.g.sched \ X, NEW x \in Consumers(v.g, s) \ v.marked PROVE v.g.arc[<<s, x>>] = Resolved
    BY DEF Told
  <2>1. CASE s = n
    BY <1>2, <2>1 DEF Heard
  <2>2. CASE s # n
    BY <1>1, <2>2 DEF Carry, Told
  <2> QED BY <2>1, <2>2
<1> QED BY <1>1, <1>3 DEF Carry, S2

(* A property is scheduled with its first producer: counters and flags stay exact.       *)
LEMMA SupplyPropertySound ==
  ASSUME NEW D \in ArcsAmong, NEW w \in WorkOver(D), NEW p \in Property,
         Sound(w), Loose(w), Flags(w), Due(w, p), NEW e \in BOOLEAN, e => Enforced(w)
  PROVE  /\ Supply(w, p, 0, MakeReady) \in WorkOver(D)
         /\ Serving(w, Supply(w, p, 0, MakeReady), p, e)
         /\ Carries(w, Supply(w, p, 0, MakeReady))
<1> DEFINE C == Consumers(w.g, p)
<1>1. PICK f : SuppliesProperty(w, p, f) /\ Supply(w, p, 0, MakeReady) = f[C]
  BY NodeKinds, SupplyPropertyFold
<1> DEFINE Q == {s \in SUBSET C : f[s] \in WorkOver(D) /\ Serving(w, f[s], p, e) /\ Untold(f[s], p, C \ s) /\ Heard(f[s], p, s)}
<1>2. IsFiniteSet(C) /\ C \subseteq Node /\ p \in Node /\ w.g \in GraphOver(D)
  BY ArcsFinite, NodeKinds DEF WorkOver
<1>3. {} \in Q
  <2>1. Start(w, p, 0) \in WorkOver(D) /\ Serving(w, Start(w, p, 0), p, e)
    <3>1. p \notin Production
      BY NodesDisjoint
    <3> QED BY <3>1, StartServes
  <2>2. Untold(Start(w, p, 0), p, C)
    BY <1>2, StartUntold DEF Due
  <2>3. f[{}] = Start(w, p, 0) /\ C \ {} = C
    BY <1>1 DEF SuppliesProperty
  <2>4. Heard(f[{}], p, {})
    BY DEF Heard
  <2> HIDE DEF C
  <2> QED BY <2>1, <2>2, <2>3, <2>4
<1>4. ASSUME NEW s \in SUBSET C, s # {}, s \ {Chosen(s)} \in Q PROVE s \in Q
  <2> DEFINE c == Chosen(s)
             v == f[s \ {c}]
  <2>1. c \in Node /\ c \in s /\ c \in C
    BY <1>2, <1>4 DEF Chosen
  <2>2. f[s] = PropertyStep(p, c, v)
    BY <1>1, <1>4 DEF SuppliesProperty
  <2>3. v \in WorkOver(D) /\ Serving(w, v, p, e) /\ Untold(v, p, C \ (s \ {c})) /\ Heard(v, p, s \ {c})
    BY <1>4
  <2> HIDE DEF c, v
  <2>4. CASE c \in v.marked \/ v.g.arc[<<p, c>>] = Inactive
    <3>1. f[s] = v
      BY <2>2, <2>4 DEF PropertyStep
    <3>2. c \notin Consumers(v.g, p) \ v.marked
      BY <2>4 DEF Consumers
    <3>3. Heard(v, p, s)
      BY <2>3, <3>2 DEF Heard
    <3> QED BY <2>3, <3>1, <3>3 DEF Untold
  <2>5. CASE c \notin v.marked /\ v.g.arc[<<p, c>>] # Inactive
    <3> DEFINE r == Readied(Resolve(v, p, c), c)
    <3>1. f[s] = r
      BY <2>2, <2>5 DEF PropertyStep
    <3>2. v.g \in GraphOver(D) /\ \A x \in C : <<p, x>> \in D
      BY <2>3, <1>2 DEF WorkOver, GraphOver, Consumers
    <3>3. c \in Consumers(v.g, p)
      BY <2>1, <2>5, <3>2 DEF Consumers, GraphOver
    <3>4. c \notin Property
      BY <2>3, <3>2, <3>3, <1>2, LinkedFacts, NodeKinds DEF Serving, Sound
    <3>5. v.g.arc[<<p, c>>] # Resolved
      BY <2>1, <2>3 DEF Untold
    <3>6. /\ r \in WorkOver(D) /\ Serving(w, r, p, e)
          /\ \A x \in Node : x # c /\ <<p, x>> \in D /\ v.g.arc[<<p, x>>] # Resolved => r.g.arc[<<p, x>>] # Resolved
          /\ \A T : Heard(v, p, T) => Heard(r, p, T \cup {c})
      BY <2>3, <2>5, <3>3, <3>4, <3>5, ResolveServes
    <3> HIDE DEF r
    <3>8. (s \ {c}) \cup {c} = s
      BY <2>1
    <3>9. Heard(r, p, s)
      BY <2>3, <3>6, <3>8
    <3>7. Untold(r, p, C \ s)
      BY <1>2, <2>1, <2>3, <3>2, <3>6 DEF Untold
    <3> QED BY <3>1, <3>6, <3>7, <3>9
  <2> QED BY <2>4, <2>5
<1>5. C \in Q
  <2>1. \A s \in SUBSET C : s # {} /\ s \ {Chosen(s)} \in Q => s \in Q
    BY <1>4
  <2> HIDE DEF Q, C
  <2> QED BY <1>2, <1>3, <2>1, ChosenInduction
<1>6. Carries(w, f[C])
  <2>1. f[C] \in WorkOver(D) /\ Serving(w, f[C], p, e) /\ Heard(f[C], p, C)
    BY <1>5
  <2>2. Carried(w, f[C], p)
    BY <1>2, <2>1, AllHeard DEF Serving
  <2>3. {p} \cap Rule = {}
    BY NodeKinds
  <2>4. \A S : S \cup ({p} \cap Rule \cap w.g.alive) = S
    BY <2>3
  <2> QED BY <2>2, <2>4 DEF Carried, Carries
<1> QED BY <1>1, <1>5, <1>6

(* Scheduling a property in the course of scheduling its producer.                       *)
LEMMA ProgressNested ==
  ASSUME NEW D \in ArcsAmong, NEW w \in WorkOver(D), NEW u \in WorkOver(D), NEW v \in WorkOver(D),
         NEW n \in Production, NEW p \in Property, Progress(w, u, n), Progress(u, v, p), p \notin u.g.flagged
  PROVE  Progress(w, v, n)
<1>1. DOMAIN w.g.arc = D /\ DOMAIN u.g.arc = D
  BY DEF WorkOver, GraphOver
<1>2. \A a \in D : \/ v.g.arc[a] \in {w.g.arc[a], Inactive}
                   \/ v.g.arc[a] = Resolved /\ (a[1] = n \/ a[1] \in Property)
  BY <1>1 DEF Progress
<1>3. n \notin Precondition
  BY NodesDisjoint
<1> QED BY <1>1, <1>2, <1>3 DEF Progress

(* Scheduling a rule.                                                                     *)
RuleStep(r, c, v) ==
  IF c \in v.marked \/ v.g.arc[<<r, c>>] = Inactive THEN v
  ELSE LET u == Resolve(v, r, c)
       IN  IF c \in Property
             THEN IF u.g.pending[c] = 0 /\ c \notin u.g.flagged \cup u.g.sched THEN Supply(u, c, 0, MakeReady) ELSE u
             ELSE Readied(u, c)

\* f are the work records after a set of consumers has been told.
SuppliesRule(w, r, enforced, f) ==
  LET C == Consumers(w.g, r)
  IN  /\ f[{}] = Start(w, r, enforced)
      /\ \A s \in SUBSET C : s # {} => f[s] = RuleStep(r, Chosen(s), f[s \ {Chosen(s)}])

(* Telling a consumer of a rule yields a work record.                                    *)
LEMMA RuleStepType ==
  ASSUME NEW D \in ArcsAmong, NEW v \in WorkOver(D), NEW r \in Node, NEW c \in Node
  PROVE  RuleStep(r, c, v) \in WorkOver(D)
<1>1. Resolve(v, r, c) \in WorkOver(D)
  BY ResolveParts
<1>2. Readied(Resolve(v, r, c), c) \in WorkOver(D)
  BY <1>1, MakeReadyParts DEF Readied
<1>3. Supply(Resolve(v, r, c), c, 0, MakeReady) \in WorkOver(D)
  BY <1>1, SupplyPropertyType
<1> QED BY <1>1, <1>2, <1>3 DEF RuleStep

(* Scheduling a rule as a function on the sets of consumers that have been told.         *)
LEMMA SupplyRuleFold ==
  ASSUME NEW D \in ArcsAmong, NEW w \in WorkOver(D), NEW r \in Node, NEW enforced \in Nat
  PROVE  \E f : SuppliesRule(w, r, enforced, f) /\ SupplyRule(w, r, enforced) = f[Consumers(w.g, r)]
<1> DEFINE S == Consumers(w.g, r)
           E == WorkOver(D)
           base == Start(w, r, enforced)
           op(c, v) == IF c \in v.marked \/ v.g.arc[<<r, c>>] = Inactive THEN v
                       ELSE LET u == Resolve(v, r, c)
                            IN  IF u.g.pending[c] = 0 /\ c \notin u.g.flagged \cup u.g.sched
                                  THEN IF c \in Property THEN Supply(u, c, 0, MakeReady) ELSE MakeReady(u, c)
                                  ELSE u
           next == [s \in SUBSET S |-> CHOOSE x \in s : TRUE]
           step == [q \in S \X E |-> op(q[1], q[2])]
           Eq(h) == h = [s \in SUBSET S |-> IF s = {} THEN base
                                            ELSE op(CHOOSE x \in s : TRUE, h[s \ {CHOOSE x \in s : TRUE}])]
           f == CHOOSE h : Eq(h)
<1>0. IsFiniteSet(S) /\ S \subseteq Node
  BY ArcsFinite
<1>1. \A s \in SUBSET S : s # {} => next[s] \in s
  OBVIOUS
<1>20. \A c, v : op(c, v) = RuleStep(r, c, v)
  BY DEF RuleStep, Readied
<1>2. \A c \in S : \A v \in E : op(c, v) \in E
  <2> HIDE DEF op
  <2> QED BY <1>0, <1>20, RuleStepType
<1>3. step \in [S \X E -> E]
  <2> HIDE DEF op, E, S
  <2> QED BY <1>2
<1>4. PICK h : Folded(h, S, next, base, step) /\ \A s \in SUBSET S : h[s] \in E
  <2> HIDE DEF next, step
  <2>1. base \in E
    BY StartParts
  <2> HIDE DEF E, S, base
  <2> QED BY ONLY <1>0, <1>1, <1>3, <2>1, FoldedWithin
<1>5. Eq(h)
  <2> HIDE DEF op, E, S, base
  <2>1. \A s \in SUBSET S : s # {} => <<next[s], h[s \ {next[s]}]>> \in S \X E
    BY <1>1, <1>4
  <2>2. h = [s \in SUBSET S |-> IF s = {} THEN base ELSE op(next[s], h[s \ {next[s]}])]
    <3> HIDE DEF next
    <3> QED BY <2>1, <1>4 DEF Folded
  <2> QED BY <2>2
<1>6. Eq(f)
  <2> HIDE DEF Eq
  <2> QED BY <1>5
<1>7. SupplyRule(w, r, enforced) = f[S]
  BY DEF SupplyRule, Supply, FoldSet, MapThenFoldSet, Start
<1> HIDE DEF f
<1>8. \A s \in SUBSET S : s # {} => f[s] = op(next[s], f[s \ {next[s]}])
  <2> HIDE DEF op, S, base
  <2> QED BY <1>6
<1>9. f[{}] = base
  <2> HIDE DEF op, S, base
  <2> QED BY <1>6
<1>10. \A s \in SUBSET S : s # {} => f[s] = RuleStep(r, Chosen(s), f[s \ {Chosen(s)}])
  <2> HIDE DEF op
  <2> QED BY <1>8, <1>20 DEF Chosen
<1> QED BY <1>7, <1>9, <1>10 DEF SuppliesRule

(* Telling one consumer of a rule, which may be a property that is scheduled at once,
   keeps counters and flags exact. *)
LEMMA RuleStepServes ==
  ASSUME NEW D \in ArcsAmong, NEW w \in WorkOver(D), NEW v \in WorkOver(D), NEW r \in Rule,
         NEW e \in BOOLEAN, Serving(w, v, r, e),
         NEW c \in Consumers(v.g, r), c \notin v.marked, v.g.arc[<<r, c>>] # Resolved
  PROVE  LET z == RuleStep(r, c, v)
         IN  /\ z \in WorkOver(D) /\ Serving(w, z, r, e)
             /\ \A x \in Node : x # c /\ <<r, x>> \in D /\ v.g.arc[<<r, x>>] # Resolved => z.g.arc[<<r, x>>] # Resolved
             /\ \A T : Heard(v, r, T) => Heard(z, r, T \cup {c})
<1> DEFINE u == Resolve(v, r, c)
           z == RuleStep(r, c, v)
<1>0. r \in Node /\ c \in Node /\ r \notin Property /\ v.g \in GraphOver(D) /\ Linked(v.g)
      /\ v.g.arc[<<r, c>>] # Inactive
  BY ArcsFinite, NodeKinds DEF WorkOver, Serving, Sound, Consumers
<1>1. /\ u \in WorkOver(D)
      /\ c \in Property => Serving(w, u, r, e)
      /\ c \in Property => c \in u.g.alive \ u.marked
      /\ c \notin Property => Readied(u, c) \in WorkOver(D) /\ Serving(w, Readied(u, c), r, e)
      /\ \A x \in Node : x # c /\ <<r, x>> \in D /\ v.g.arc[<<r, x>>] # Resolved =>
           u.g.arc[<<r, x>>] # Resolved /\ Readied(u, c).g.arc[<<r, x>>] # Resolved
      /\ \A T : Heard(v, r, T) => Heard(u, r, T \cup {c}) /\ Heard(Readied(u, c), r, T \cup {c})
  BY ResolveServes
<1> HIDE DEF u
<1>2. CASE c \notin Property
  <2>1. z = Readied(u, c)
    BY <1>0, <1>2 DEF RuleStep, u
  <2> HIDE DEF z
  <2> QED BY <1>1, <1>2, <2>1 DEF z
<1>3. CASE c \in Property /\ ~(u.g.pending[c] = 0 /\ c \notin u.g.flagged \cup u.g.sched)
  <2>1. z = u
    BY <1>0, <1>3 DEF RuleStep, u
  <2> HIDE DEF z
  <2> QED BY <1>1, <1>3, <2>1 DEF z
<1>4. CASE c \in Property /\ u.g.pending[c] = 0 /\ c \notin u.g.flagged \cup u.g.sched
  <2> DEFINE y == Supply(u, c, 0, MakeReady)
  <2>1. z = y
    BY <1>0, <1>4 DEF RuleStep, u
  <2>2. Sound(u) /\ Loose(u) /\ Flags(u) /\ (e => Enforced(u)) /\ Progress(w, u, r) /\ Carrying(w, u, r)
    BY <1>1, <1>4 DEF Serving
  <2>3. Open(u.g, c) = {}
    <3>1. u.g.pending[c] = Cardinality(Open(u.g, c))
      BY <1>1, <1>4, <2>2 DEF Sound, Waiting
    <3> QED BY <3>1, <1>4, ArcsFinite, FS_EmptySet
  <2>4. Due(u, c)
    BY <1>1, <1>4, <2>2, <2>3 DEF Due, Flags
  <2>5. y \in WorkOver(D) /\ Serving(u, y, c, e) /\ Carries(u, y)
    BY <1>1, <1>4, <2>2, <2>4, SupplyPropertySound
  <2> HIDE DEF y, z
  <2>6. r \in Production
    <3>1. r \in Precondition => c \in Production
      BY <1>0, LinkedFacts
    <3> QED BY <3>1, <1>4, NodesDisjoint DEF Rule
  <2>7. Progress(w, y, r)
    BY <1>1, <1>4, <2>2, <2>5, <2>6, ProgressNested DEF Serving
  <2>8. \A x \in Node : x # c /\ <<r, x>> \in D /\ v.g.arc[<<r, x>>] # Resolved => y.g.arc[<<r, x>>] # Resolved
    <3> SUFFICES ASSUME NEW x \in Node, x # c, <<r, x>> \in D, v.g.arc[<<r, x>>] # Resolved
                 PROVE  y.g.arc[<<r, x>>] # Resolved
      OBVIOUS
    <3>1. u.g.arc[<<r, x>>] # Resolved
      BY <1>1
    <3>2. \/ y.g.arc[<<r, x>>] \in {u.g.arc[<<r, x>>], Inactive}
          \/ y.g.arc[<<r, x>>] = Resolved /\ (<<r, x>>[1] = c \/ <<r, x>>[1] \in Property)
      BY <1>1, <2>5 DEF Serving, Progress, WorkOver, GraphOver
    <3>3. <<r, x>>[1] = r /\ r # c
      BY <1>0, <1>4
    <3> QED BY <1>0, <3>1, <3>2, <3>3 DEF Inactive, Resolved
  <2>9. Serving(w, y, r, e)
    <3>1. Carrying(w, y, r)
      BY <2>2, <2>5 DEF Carrying, Carries
    <3> QED BY <2>5, <2>7, <3>1 DEF Serving
  <2>10. \A T : Heard(u, r, T) => Heard(y, r, T)
    <3> SUFFICES ASSUME NEW T, Heard(u, r, T), NEW x \in (T \cap Consumers(y.g, r)) \ y.marked
                 PROVE  y.g.arc[<<r, x>>] = Resolved
      BY DEF Heard
    <3>1. x \in Node /\ <<r, x>> \in D /\ y.g.arc[<<r, x>>] # Inactive /\ DOMAIN u.g.arc = D
      BY <1>1, <2>5 DEF Consumers, WorkOver, GraphOver
    <3>2. \/ y.g.arc[<<r, x>>] \in {u.g.arc[<<r, x>>], Inactive}
          \/ y.g.arc[<<r, x>>] = Resolved /\ u.g.arc[<<r, x>>] # Inactive
      BY <2>5, <3>1 DEF Serving, Progress
    <3>3. x \in (T \cap Consumers(u.g, r)) \ u.marked
      BY <2>5, <3>1, <3>2 DEF Serving, Progress, Consumers
    <3>4. u.g.arc[<<r, x>>] = Resolved
      BY <3>3 DEF Heard
    <3> QED BY <3>1, <3>2, <3>4
  <2> QED BY <1>1, <2>1, <2>5, <2>8, <2>9, <2>10 DEF z
<1> QED BY <1>2, <1>3, <1>4

(* add_rule, before useless suppliers are eliminated: counters and flags are exact for
   all nodes that are not on the queue. *)
LEMMA SupplyRuleSound ==
  ASSUME NEW D \in ArcsAmong, NEW w \in WorkOver(D), NEW r \in Rule, NEW enforced \in {0, 1},
         Sound(w), Loose(w), Flags(w), Due(w, r),
         NEW e \in BOOLEAN, e => Enforced(w) /\ (r \in Production => enforced = 1)
  PROVE  /\ SupplyRule(w, r, enforced) \in WorkOver(D)
         /\ Serving(w, SupplyRule(w, r, enforced), r, e)
         /\ Carried(w, SupplyRule(w, r, enforced), r)
<1> DEFINE C == Consumers(w.g, r)
<1>0. enforced \in Nat
  OBVIOUS
<1>1. PICK f : SuppliesRule(w, r, enforced, f) /\ SupplyRule(w, r, enforced) = f[C]
  BY <1>0, NodeKinds, SupplyRuleFold
<1> DEFINE Q == {s \in SUBSET C : f[s] \in WorkOver(D) /\ Serving(w, f[s], r, e) /\ Untold(f[s], r, C \ s) /\ Heard(f[s], r, s)}
<1>2. IsFiniteSet(C) /\ C \subseteq Node /\ r \in Node /\ w.g \in GraphOver(D)
  BY ArcsFinite, NodeKinds DEF WorkOver
<1>3. {} \in Q
  <2>1. Start(w, r, enforced) \in WorkOver(D) /\ Serving(w, Start(w, r, enforced), r, e)
    <3>1. r \notin Property
      BY NodeKinds
    <3> QED BY <3>1, StartServes
  <2>2. Untold(Start(w, r, enforced), r, C)
    BY <1>0, <1>2, StartUntold DEF Due
  <2>3. f[{}] = Start(w, r, enforced) /\ C \ {} = C
    BY <1>1 DEF SuppliesRule
  <2>4. Heard(f[{}], r, {})
    BY DEF Heard
  <2> HIDE DEF C
  <2> QED BY <2>1, <2>2, <2>3, <2>4
<1>4. ASSUME NEW s \in SUBSET C, s # {}, s \ {Chosen(s)} \in Q PROVE s \in Q
  <2> DEFINE c == Chosen(s)
             v == f[s \ {c}]
  <2>1. c \in Node /\ c \in s /\ c \in C
    BY <1>2, <1>4 DEF Chosen
  <2>2. f[s] = RuleStep(r, c, v)
    BY <1>1, <1>4 DEF SuppliesRule
  <2>3. v \in WorkOver(D) /\ Serving(w, v, r, e) /\ Untold(v, r, C \ (s \ {c})) /\ Heard(v, r, s \ {c})
    BY <1>4
  <2> HIDE DEF c, v
  <2>4. CASE c \in v.marked \/ v.g.arc[<<r, c>>] = Inactive
    <3>1. f[s] = v
      BY <2>2, <2>4 DEF RuleStep
    <3>2. c \notin Consumers(v.g, r) \ v.marked
      BY <2>4 DEF Consumers
    <3>3. Heard(v, r, s)
      BY <2>3, <3>2 DEF Heard
    <3> QED BY <2>3, <3>1, <3>3 DEF Untold
  <2>5. CASE c \notin v.marked /\ v.g.arc[<<r, c>>] # Inactive
    <3> DEFINE z == RuleStep(r, c, v)
    <3>2. v.g \in GraphOver(D) /\ \A x \in C : <<r, x>> \in D
      BY <2>3, <1>2 DEF WorkOver, GraphOver, Consumers
    <3>3. c \in Consumers(v.g, r)
      BY <2>1, <2>5, <3>2 DEF Consumers, GraphOver
    <3>5. v.g.arc[<<r, c>>] # Resolved
      BY <2>1, <2>3 DEF Untold
    <3>6. /\ z \in WorkOver(D) /\ Serving(w, z, r, e)
          /\ \A x \in Node : x # c /\ <<r, x>> \in D /\ v.g.arc[<<r, x>>] # Resolved => z.g.arc[<<r, x>>] # Resolved
          /\ \A T : Heard(v, r, T) => Heard(z, r, T \cup {c})
      BY <2>3, <2>5, <3>3, <3>5, RuleStepServes
    <3>1. f[s] = z
      BY <2>2
    <3> HIDE DEF z
    <3>7. Untold(z, r, C \ s)
      BY <1>2, <2>1, <2>3, <3>2, <3>6 DEF Untold
    <3>8. (s \ {c}) \cup {c} = s
      BY <2>1
    <3>9. Heard(z, r, s)
      BY <2>3, <3>6, <3>8
    <3> QED BY <3>1, <3>6, <3>7, <3>9
  <2> QED BY <2>4, <2>5
<1>5. C \in Q
  <2>1. \A s \in SUBSET C : s # {} /\ s \ {Chosen(s)} \in Q => s \in Q
    BY <1>4
  <2> HIDE DEF Q, C
  <2> QED BY <1>2, <1>3, <2>1, ChosenInduction
<1>6. Carried(w, f[C], r)
  <2>1. f[C] \in WorkOver(D) /\ Serving(w, f[C], r, e) /\ Heard(f[C], r, C)
    BY <1>5
  <2> QED BY <1>2, <2>1, AllHeard DEF Serving
<1> QED BY <1>1, <1>5, <1>6

(***************************************************************************)
(* add_scheduled_rule, eliminate and init_state, as the scheduler calls    *)
(* them: a chain between two calls has no marked nodes and no queue.       *)
(***************************************************************************)

\* What is true of the graph of a chain.
Exact(g) == Sound(Work(g, {})) /\ Flags(Work(g, {}))

\* Every scheduled rule is kept, whether anybody needs it or not.
Kept(g) == Enforced(Work(g, {}))

\* Every node has a supplier, still active, for each input it was gathered with, consumers of
\* scheduled nodes have got it, and the rules S are scheduled for good.
Grounded(code, S, g) == Carry(code, S, {}, Work(g, {}))

(* A graph with nothing left to eliminate.                                               *)
LEMMA WorkDone ==
  ASSUME NEW D, NEW v \in WorkOver(D), v.queue = {}, Sound(v)
  PROVE  /\ Sound(Work(v.g, {})) /\ (Flags(v) => Flags(Work(v.g, {}))) /\ (Enforced(v) => Kept(v.g))
         /\ \A code, S : Carry(code, S, {}, v) => Grounded(code, S, v.g)
<1> DEFINE w == Work(v.g, {})
<1>1. w.g = v.g /\ w.marked = {} /\ w.queue = {}
  BY DEF Work
<1>2. v.g.alive \cap v.marked = {}
  BY DEF Sound, Queued
<1> HIDE DEF w
<1>3. Linked(w.g) /\ Waiting(w) /\ Demanded(w) /\ Served(w) /\ Queued(w) /\ Unused(w)
  BY <1>1, <1>2 DEF Sound, Waiting, Demanded, Served, Queued, Unused
<1>4. Flags(v) => Flags(w)
  BY <1>1, <1>2 DEF Flags
<1>5. Enforced(v) => Enforced(w)
  BY <1>1, <1>2 DEF Enforced
<1>6. ASSUME NEW code, NEW S, Carry(code, S, {}, v) PROVE Carry(code, S, {}, w)
  <2>1. Fed(code, w)
    BY <1>1, <1>2, <1>6 DEF Carry, Fed
  <2>2. Told(w, {})
    <3> SUFFICES ASSUME NEW s \in v.g.sched, NEW c \in Consumers(v.g, s) PROVE v.g.arc[<<s, c>>] = Resolved
      BY <1>1 DEF Told
    <3>1. c \in v.g.alive
      BY <1>1, <1>3 DEF Linked, WorkOver, GraphOver
    <3> QED BY <1>2, <1>6, <3>1 DEF Carry, Told
  <2>3. Settled(w, S)
    BY <1>1, <1>6 DEF Carry, Settled
  <2> QED BY <2>1, <2>2, <2>3 DEF Carry
<1> QED BY <1>3, <1>4, <1>5, <1>6 DEF Sound, Kept, Grounded, w

(* Between two calls the counters and the flags are what CountersExact says.             *)
THEOREM ExactCounters ==
  ASSUME NEW D \in ArcsAmong, NEW g \in GraphOver(D), Exact(g)
  PROVE  /\ \A n \in g.alive :
              /\ g.pending[n] = Cardinality({s \in Suppliers(g, n) : g.arc[<<s, n>>] # Resolved})
              /\ n \notin g.sched =>
                   g.out[n] = Cardinality({c \in Consumers(g, n) : g.arc[<<n, c>>] > Optional})
         /\ \A n \in Node \ g.alive : Consumers(g, n) = {} /\ Suppliers(g, n) = {}
         /\ g.flagged = {n \in g.alive \ (g.sched \cup Property) : g.pending[n] = 0}
<1> DEFINE w == Work(g, {})
<1>1. w.g = g /\ w.marked = {} /\ w.queue = {}
  BY DEF Work
<1>2. Sound(w) /\ Flags(w)
  BY DEF Exact
<1>3. Linked(g) /\ g.alive \subseteq Node
  BY <1>1, <1>2 DEF Sound, GraphOver
<1> HIDE DEF w
<1>4. \A n \in g.alive : g.pending[n] = Cardinality({s \in Suppliers(g, n) : g.arc[<<s, n>>] # Resolved})
  BY <1>1, <1>2 DEF Sound, Waiting, Open
<1>5. ASSUME NEW n \in g.alive, n \notin g.sched
      PROVE  g.out[n] = Cardinality({c \in Consumers(g, n) : g.arc[<<n, c>>] > Optional})
  <2>1. \A c \in Consumers(g, n) : g.arc[<<n, c>>] > Optional
    BY <1>3, LinkedFacts
  <2>2. {c \in Consumers(g, n) : g.arc[<<n, c>>] > Optional} = Consumers(g, n)
    BY <2>1
  <2>3. g.out[n] = Cardinality(Consumers(g, n))
    BY <1>1, <1>2, <1>5 DEF Sound, Demanded
  <2> QED BY <2>2, <2>3
<1>6. ASSUME NEW n \in Node \ g.alive PROVE Consumers(g, n) = {} /\ Suppliers(g, n) = {}
  <2>1. Consumers(g, n) = {}
    BY <1>3, LinkedFacts
  <2>2. ASSUME NEW s \in Suppliers(g, n) PROVE FALSE
    <3>1. s \in Node /\ n \in Consumers(g, s)
      BY ArcsFinite, ArcFacts
    <3> QED BY <1>3, <3>1, LinkedFacts
  <2> QED BY <2>1, <2>2
<1>7. g.flagged = {n \in g.alive \ (g.sched \cup Property) : g.pending[n] = 0}
  BY <1>1, <1>2 DEF Flags
<1> QED BY <1>4, <1>5, <1>6, <1>7

(* Without a queue nothing is eliminated.                                                *)
LEMMA DrainIdle ==
  ASSUME NEW w, w.queue = {}, NEW maxopt PROVE Drain(w, maxopt) = w
<1> DEFINE S == 1..Cardinality(Node)
           E == {w}
           op(i, v) == IF v.queue = {} \/ ~v.ok THEN v ELSE EliminateNode(v, CHOOSE n \in v.queue : TRUE, maxopt)
           next == [s \in SUBSET S |-> CHOOSE x \in s : TRUE]
           step == [p \in S \X E |-> op(p[1], p[2])]
           Eq(h) == h = [s \in SUBSET S |-> IF s = {} THEN w
                                            ELSE op(CHOOSE x \in s : TRUE, h[s \ {CHOOSE x \in s : TRUE}])]
           g == CHOOSE h : Eq(h)
           Q == {s \in SUBSET S : g[s] = w}
<1>0. IsFiniteSet(S)
  BY NodeFinite, FS_CardinalityType, FS_Interval
<1>1. \A s \in SUBSET S : s # {} => next[s] \in s
  OBVIOUS
<1>2. \A i : \A v \in E : op(i, v) = w
  OBVIOUS
<1>3. step \in [S \X E -> E]
  <2> HIDE DEF op, S
  <2> QED BY <1>2
<1>4. PICK f : Folded(f, S, next, w, step) /\ \A s \in SUBSET S : f[s] \in E
  <2> HIDE DEF next, step
  <2>1. w \in E
    OBVIOUS
  <2> HIDE DEF E, S
  <2> QED BY ONLY <1>0, <1>1, <1>3, <2>1, FoldedWithin
<1>5. Eq(f)
  <2> HIDE DEF op, E, S
  <2>1. \A s \in SUBSET S : s # {} => <<next[s], f[s \ {next[s]}]>> \in S \X E
    BY <1>1, <1>4
  <2>2. f = [s \in SUBSET S |-> IF s = {} THEN w ELSE op(next[s], f[s \ {next[s]}])]
    <3> HIDE DEF next
    <3> QED BY <2>1, <1>4 DEF Folded
  <2> QED BY <2>2
<1>6. Eq(g)
  <2> HIDE DEF Eq
  <2> QED BY <1>5
<1>7. Drain(w, maxopt) = g[S]
  BY DEF Drain, FoldSet, MapThenFoldSet
<1> HIDE DEF g
<1>8. \A s \in SUBSET S : s # {} => g[s] = op(next[s], g[s \ {next[s]}])
  <2> HIDE DEF op, S
  <2> QED BY <1>6
<1>9. {} \in Q
  <2> HIDE DEF op, S
  <2> QED BY <1>6
<1>10. \A s \in SUBSET S : s # {} /\ s \ {next[s]} \in Q => s \in Q
  <2> HIDE DEF next, op, S
  <2> QED BY <1>2, <1>8
<1>11. \A s \in SUBSET S : s \in Q
  <2> HIDE DEF Q, next, S
  <2> QED BY ONLY <1>0, <1>1, <1>9, <1>10, SubsetInduction
<1> QED BY <1>7, <1>11

\* h is what became of g when r was added to the chain.
Added(g, r, h) ==
  /\ h.alive \subseteq g.alive
  /\ (g.sched \cup {r}) \cap h.alive \subseteq h.sched /\ h.sched \cap Rule \subseteq g.sched \cup {r}
  /\ (g.flagged \cap h.alive) \ {r} \subseteq h.flagged
  /\ h.ready \cap (g.flagged \ {r}) \subseteq g.ready
  /\ \A a \in DOMAIN g.arc : g.arc[a] = Inactive => h.arc[a] = Inactive
  /\ \A code, S : Grounded(code, S, g) => Grounded(code, S \cup ({r} \cap g.alive), h)

(* add_scheduled_rule leaves exact counters behind, with nothing in the graph that the   *)
(* request does not need.  When every rule scheduled so far is kept for its own sake, or *)
(* when the graph was clean and only a precondition is added, it cannot fail.            *)
THEOREM AddScheduledRuleSound ==
  ASSUME NEW D \in ArcsAmong, NEW g \in GraphOver(D), Exact(g), NEW r \in Rule, NEW enforced \in {0, 1},
         r \notin g.ready, r \notin g.sched, r \in g.alive => r \in g.flagged,
         NEW e \in BOOLEAN, e => Kept(g) /\ (r \in Production => enforced = 1)
  PROVE  LET w == AddScheduledRule(g, r, enforced)
         IN  /\ w \in WorkOver(D)
             /\ e \/ (r \in Precondition /\ Clean(g)) => w.ok
             /\ w.ok => Exact(w.g) /\ Clean(w.g) /\ Added(g, r, w.g) /\ (e => Kept(w.g))
<1> DEFINE w0 == Work(g, {})
           s == SupplyRule(w0, r, enforced)
           w == Eliminate(s, Optional)
<1>0. w = AddScheduledRule(g, r, enforced)
  BY DEF AddScheduledRule
<1>1. w0 \in WorkOver(D) /\ w0.g = g /\ w0.ok /\ w0.marked = {} /\ w0.queue = {}
  BY DEF Work, WorkOver
<1>2. Sound(w0) /\ Flags(w0) /\ Loose(w0)
  BY <1>1 DEF Exact, Loose
<1> HIDE DEF w0
<1>3. Due(w0, r)
  <2> SUFFICES ASSUME r \in g.alive PROVE Open(g, r) = {}
    BY <1>1 DEF Due
  <2>1. g.pending[r] = 0
    BY <1>1, <1>2, NodeKinds DEF Flags
  <2>2. g.pending[r] = Cardinality(Open(g, r))
    BY <1>1, <1>2 DEF Sound, Waiting
  <2> QED BY <2>1, <2>2, ArcsFinite, FS_EmptySet
<1>4. s \in WorkOver(D) /\ Serving(w0, s, r, e) /\ Carried(w0, s, r)
  <2>1. e => Enforced(w0) /\ (r \in Production => enforced = 1)
    BY DEF Kept, w0
  <2> QED BY ONLY <1>1, <1>2, <1>3, <2>1, D \in ArcsAmong, r \in Rule, enforced \in {0, 1}, e \in BOOLEAN, SupplyRuleSound
<1> HIDE DEF s
<1>5. s.ok /\ Sound(s) /\ Loose(s) /\ Flags(s) /\ (e => Enforced(s)) /\ Progress(w0, s, r)
  BY <1>1, <1>4 DEF Serving, Progress
<1>6. w \in WorkOver(D) /\ Eliminated(s, w)
  BY <1>4, <1>5, EliminateSound DEF Optional
<1>7. e => w.ok
  BY <1>5, <1>6 DEF Eliminated
<1>8. ASSUME r \in Precondition, Clean(g) PROVE w.ok
  <2>1. s.queue = {} /\ s.g.sched = g.sched \cup {r} /\ s.g.alive = g.alive
        /\ \A m \in Node : Suppliers(s.g, m) = Suppliers(g, m)
    BY <1>1, <1>5, <1>8 DEF Progress
  <2>2. Drain(s, Optional) = s
    BY <2>1, DrainIdle
  <2>3. CASE IsComplete(g)
    <3>1. Final \in s.g.flagged
      BY <1>1, <1>5, <2>3, NodeKinds DEF Progress, IsComplete
    <3>2. w = s
      BY <2>2, <3>1 DEF Eliminate, IsComplete
    <3> QED BY <3>2, <1>5
  <2>4. CASE Unreached(g) = {}
    <3> DEFINE R == Reached(s.g) \cup s.g.sched
    <3>1. ASSUME NEW m \in R \ g.sched PROVE Suppliers(g, m) \subseteq R
      <4>1. CASE m \in s.g.sched
        <5>1. m = r
          BY <2>1, <3>1, <4>1
        <5>2. ASSUME NEW x \in Suppliers(g, m) PROVE x \in g.sched
          <6>1. x \in Node /\ m \in Node /\ m \in Consumers(g, x) /\ Linked(g)
            BY <1>1, <1>2, <5>1, NodeKinds, ArcsFinite, ArcFacts DEF Sound
          <6>2. m \in g.alive
            BY <6>1, LinkedFacts
          <6>3. g.arc[<<x, m>>] = Resolved
            BY <1>1, <1>3, <5>1, <6>2 DEF Due, Open
          <6> QED BY <6>1, <6>3, LinkedFacts
        <5> QED BY <2>1, <5>2
      <4>2. CASE m \notin s.g.sched
        <5>1. m \in Reached(s.g) \ s.g.sched /\ m \in Node
          BY <3>1, <4>2, ReachedClosed
        <5> QED BY <2>1, <5>1, ReachedClosed
      <4> QED BY <4>1, <4>2
    <3>2. Reached(g) \subseteq R
      <4>1. Final \in R
        BY ReachedClosed
      <4> HIDE DEF R
      <4> QED BY <3>1, <4>1, ReachedLeast
    <3>3. Unreached(s.g) = {}
      BY <2>1, <2>4, <3>2 DEF Unreached
    <3>4. Drain(SecondRound(s), Optional) = SecondRound(s) /\ SecondRound(s).ok
      <4>1. SecondRound(s).queue = {} /\ SecondRound(s).ok
        BY <1>4, <1>5, <3>3 DEF SecondRound, WorkOver
      <4> QED BY <4>1, DrainIdle
    <3>5. w = IF ~s.ok \/ IsComplete(s.g) THEN s ELSE Drain(SecondRound(s), Optional)
      BY <2>2 DEF Eliminate, SecondRound
    <3> QED BY <1>5, <3>4, <3>5
  <2> QED BY <1>8, <2>3, <2>4 DEF Clean
<1>9. ASSUME w.ok PROVE Exact(w.g) /\ Clean(w.g) /\ (e => Kept(w.g))
  <2>1. Sound(w) /\ w.queue = {} /\ Clean(w.g) /\ Flags(w) /\ (e => Enforced(w))
    BY <1>5, <1>6, <1>9 DEF Eliminated
  <2> QED BY <1>6, <2>1, WorkDone DEF Exact
<1>10. ASSUME w.ok PROVE Added(g, r, w.g)
  <2>1. PICK E \in SUBSET Node : /\ w.g.alive = s.g.alive \ E /\ w.g.flagged = s.g.flagged \ E
                                 /\ w.g.sched = s.g.sched \ E /\ w.g.ready = s.g.ready \ E
    BY <1>6, <1>10 DEF Eliminated, Shrunk
  <2>2. /\ s.g.alive = g.alive /\ g.sched \cup {r} \subseteq s.g.sched
        /\ s.g.sched \subseteq g.sched \cup {r} \cup Property /\ g.flagged \ {r} \subseteq s.g.flagged
        /\ s.g.ready \cap (g.flagged \ {r}) \subseteq g.ready
    BY <1>1, <1>5 DEF Progress
  <2>3. \A a \in D : g.arc[a] = Inactive => w.g.arc[a] = Inactive
    <3>1. \A a \in D : g.arc[a] = Inactive => s.g.arc[a] = Inactive
      BY <1>1, <1>5 DEF Progress, GraphOver
    <3>2. \A a \in D : s.g.arc[a] = Inactive => w.g.arc[a] = Inactive
      BY <1>4, <1>6 DEF Eliminated, Shrunk, WorkOver, GraphOver
    <3> QED BY <3>1, <3>2
  <2>4. ASSUME NEW code, NEW S, Grounded(code, S, g) PROVE Grounded(code, S \cup ({r} \cap g.alive), w.g)
    <3> DEFINE S2 == S \cup ({r} \cap g.alive)
    <3>1. Carry(code, S, {}, w0)
      BY <2>4 DEF Grounded, w0
    <3>2. S \cup ({r} \cap Rule \cap w0.g.alive) = S2
      BY <1>1
    <3>3. Carry(code, S2, {}, s)
      BY <1>4, <3>1, <3>2 DEF Carried
    <3> HIDE DEF S2
    <3>4. Carry(code, S2, {}, w)
      BY <1>6, <3>3 DEF Eliminated, Carries
    <3>5. Grounded(code, S2, w.g)
      BY <1>5, <1>6, <1>10, <3>4, WorkDone DEF Eliminated
    <3> QED BY <3>5 DEF S2
  <2> HIDE DEF w
  <2> QED BY <2>1, <2>2, <2>3, <2>4, NodeKinds DEF Added, GraphOver
<1> HIDE DEF w
<1> QED BY <1>0, <1>6, <1>7, <1>8, <1>9, <1>10
(* The work record for rules to be eliminated, none of them scheduled.                   *)
LEMMA WorkSound ==
  ASSUME NEW D \in ArcsAmong, NEW g \in GraphOver(D), Sound(Work(g, {})), NEW rules \in SUBSET Node, rules \cap g.sched = {}
  PROVE  /\ Work(g, rules) \in WorkOver(D) /\ Work(g, rules).ok /\ Work(g, rules).g = g
         /\ Work(g, rules).marked = rules
         /\ Sound(Work(g, rules))
         /\ Flags(Work(g, {})) => Flags(Work(g, rules))
         /\ Kept(g) => Enforced(Work(g, rules))
         /\ \A code, S : Grounded(code, S, g) /\ S \cap rules = {} => Carry(code, S, {}, Work(g, rules))
<1> DEFINE w == Work(g, {})
           v == Work(g, rules)
<1>1. w.g = g /\ w.marked = {} /\ w.queue = {}
  BY DEF Work
<1>2. v.g = g /\ v.marked = rules /\ v.queue = rules /\ v.ok /\ v \in WorkOver(D)
  BY DEF Work, WorkOver
<1> HIDE DEF v, w
<1>3. Linked(v.g) /\ Waiting(v) /\ Demanded(v) /\ Served(v) /\ Queued(v)
  BY <1>1, <1>2 DEF Sound, Waiting, Demanded, Served, Queued, w
<1>4. Unused(v)
  <2> SUFFICES ASSUME NEW n \in rules, NEW c \in Consumers(g, n), g.arc[<<n, c>>] = Resolved PROVE FALSE
    BY <1>2 DEF Unused
  <2>1. n \in g.sched
    BY <1>2, <1>3, LinkedFacts
  <2> QED BY <2>1
<1>5. Flags(w) => Flags(v)
  BY <1>1, <1>2 DEF Flags
<1>6. Kept(g) => Enforced(v)
  <2>1. Kept(g) => Enforced(w)
    BY DEF Kept, w
  <2> QED BY <1>1, <1>2, <2>1 DEF Enforced
<1>7. ASSUME NEW code, NEW S, Grounded(code, S, g), S \cap rules = {} PROVE Carry(code, S, {}, v)
  <2>1. Carry(code, S, {}, w)
    BY <1>7 DEF Grounded, w
  <2> QED BY <1>1, <1>2, <1>7, <2>1 DEF Carry, Fed, Told, Settled
<1> QED BY <1>2, <1>3, <1>4, <1>5, <1>6, <1>7 DEF Sound, v, w

(* eliminate, called for rules that have failed or are not wanted, leaves exact counters *)
(* when it succeeds, without these rules and with nothing the request does not need.     *)
THEOREM EliminateRulesSound ==
  ASSUME NEW D \in ArcsAmong, NEW g \in GraphOver(D), Sound(Work(g, {})),
         NEW rules \in SUBSET Node, rules \cap g.sched = {}, NEW maxopt \in {Weak, Initial}
  PROVE  LET w == EliminateRules(g, rules, maxopt)
         IN  /\ w \in WorkOver(D) /\ Linked(w.g) /\ Shrunk(g, w.g)
             /\ w.ok => /\ Sound(Work(w.g, {})) /\ Clean(w.g) /\ rules \cap w.g.alive = {}
                        /\ Flags(Work(g, {})) => Flags(Work(w.g, {}))
                        /\ Kept(g) => Kept(w.g)
                        /\ \A code, S : Grounded(code, S, g) /\ S \cap rules = {} => Grounded(code, S, w.g)
<1> DEFINE v == Work(g, rules)
           w == Eliminate(v, maxopt)
<1>1. /\ v \in WorkOver(D) /\ v.ok /\ v.g = g /\ v.marked = rules
      /\ Sound(v)
      /\ Flags(Work(g, {})) => Flags(v)
      /\ Kept(g) => Enforced(v)
      /\ \A code, S : Grounded(code, S, g) /\ S \cap rules = {} => Carry(code, S, {}, v)
  BY WorkSound
<1>2. w = EliminateRules(g, rules, maxopt)
  BY DEF EliminateRules
<1> HIDE DEF v
<1>3. w \in WorkOver(D) /\ Eliminated(v, w)
  BY <1>1, EliminateSound
<1> HIDE DEF w
<1>4. Linked(w.g) /\ Shrunk(g, w.g)
  BY <1>1, <1>3 DEF Eliminated
<1>5. ASSUME w.ok
      PROVE  /\ Sound(Work(w.g, {})) /\ Clean(w.g) /\ rules \cap w.g.alive = {}
             /\ Flags(Work(g, {})) => Flags(Work(w.g, {}))
             /\ Kept(g) => Kept(w.g)
             /\ \A code, S : Grounded(code, S, g) /\ S \cap rules = {} => Grounded(code, S, w.g)
  <2>1. /\ Sound(w) /\ w.queue = {} /\ w.g.alive \cap v.marked = {} /\ Clean(w.g)
        /\ Flags(v) => Flags(w)
        /\ Enforced(v) => Enforced(w)
        /\ Carries(v, w)
    BY <1>3, <1>5 DEF Eliminated
  <2>2. /\ Sound(Work(w.g, {})) /\ (Flags(w) => Flags(Work(w.g, {}))) /\ (Enforced(w) => Kept(w.g))
        /\ \A code, S : Carry(code, S, {}, w) => Grounded(code, S, w.g)
    BY <1>3, <2>1, WorkDone
  <2> QED BY <1>1, <2>1, <2>2 DEF Carries
<1> QED BY <1>2, <1>3, <1>4, <1>5

\* Nodes and arcs init_state can start from: an arc leads from a property to a rule that
\* reads it, from a rule to a property it creates, or from a precondition to its rule.
Gathered(nodes, arc) ==
  /\ nodes \subseteq Node
  /\ \A a \in DOMAIN arc : arc[a] # Inactive =>
       /\ a[1] \in nodes /\ a[2] \in nodes
       /\ \/ a[1] \in Property /\ a[2] \in Rule \cup {Final} /\ arc[a] >= Source
          \/ a[1] \in Production /\ a[2] \in Property /\ arc[a] = Source
          \/ a[1] \in Precondition /\ a[2] \in Production /\ arc[a] = Unique

(* Counting the arcs at a node counts its neighbours.                                    *)
LEMMA ArcsCounted ==
  ASSUME NEW D \in ArcsAmong, NEW g \in GraphOver(D), NEW n \in Node
  PROVE  /\ Cardinality({a \in D : g.arc[a] # Inactive /\ a[2] = n}) = Cardinality(Suppliers(g, n))
         /\ Cardinality({a \in D : g.arc[a] # Inactive /\ a[1] = n}) = Cardinality(Consumers(g, n))
<1> DEFINE S == Suppliers(g, n)
           C == Consumers(g, n)
           In == {a \in D : g.arc[a] # Inactive /\ a[2] = n}
           Out == {a \in D : g.arc[a] # Inactive /\ a[1] = n}
           into == [s \in S |-> <<s, n>>]
           from == [c \in C |-> <<n, c>>]
<1>0. DOMAIN g.arc = D /\ \A a \in D : a \in Node \X Node
  BY DEF GraphOver, ArcsAmong
<1>1. IsFiniteSet(S) /\ IsFiniteSet(C)
  BY ArcsFinite
<1>2. into \in [S -> In] /\ from \in [C -> Out]
  BY <1>0 DEF Suppliers, Consumers
<1>3. \A a \in In : \E s \in S : into[s] = a
  <2> SUFFICES ASSUME NEW a \in In PROVE \E s \in S : into[s] = a
    OBVIOUS
  <2>1. a = <<a[1], n>> /\ a[1] \in S
    BY <1>0 DEF Suppliers
  <2> QED BY <2>1
<1>4. \A a \in Out : \E c \in C : from[c] = a
  <2> SUFFICES ASSUME NEW a \in Out PROVE \E c \in C : from[c] = a
    OBVIOUS
  <2>1. a = <<n, a[2]>> /\ a[2] \in C
    BY <1>0 DEF Consumers
  <2> QED BY <2>1
<1>5. \A s, t \in S : into[s] = into[t] => s = t
  OBVIOUS
<1>6. \A s, t \in C : from[s] = from[t] => s = t
  OBVIOUS
<1> HIDE DEF S, C, In, Out, into, from
<1>7. into \in Bijection(S, In) /\ from \in Bijection(C, Out)
  BY <1>2, <1>3, <1>4, <1>5, <1>6 DEF Bijection, Injection, Surjection, IsInjective
<1>8. ExistsBijection(S, In) /\ ExistsBijection(C, Out)
  BY <1>7 DEF ExistsBijection
<1>9. Cardinality(In) = Cardinality(S) /\ Cardinality(Out) = Cardinality(C)
  BY <1>1, <1>8, FS_Bijection
<1> QED BY <1>9 DEF S, C, In, Out

(* init_state: the counters are exact from the beginning.                                *)
THEOREM InitStateExact ==
  ASSUME NEW D \in ArcsAmong, NEW arc \in [D -> Nat], NEW nodes, Gathered(nodes, arc)
  PROVE  LET g == InitState(nodes, arc)
         IN  g \in GraphOver(D) /\ Exact(g) /\ Kept(g) /\ g.arc = arc /\ g.alive = nodes /\ g.sched = {}
<1> DEFINE g == InitState(nodes, arc)
           w == Work(g, {})
           active == {a \in DOMAIN arc : arc[a] # Inactive}
           pending == [n \in Node |-> Cardinality({a \in active : a[2] = n})]
           ready == {n \in nodes \ Property : pending[n] = 0}
           out == [n \in Node |-> Cardinality({a \in active : a[1] = n /\ arc[a] > Optional})]
<1>1. /\ g.arc = arc /\ g.alive = nodes /\ g.sched = {} /\ g.flagged = ready /\ g.ready = ready
      /\ g.pending = pending /\ g.out = out
      /\ g = [arc |-> arc, pending |-> pending, out |-> out,
              alive |-> nodes, flagged |-> ready, sched |-> {}, ready |-> ready]
  BY DEF InitState
<1>2. nodes \subseteq Node /\ ready \subseteq nodes \ Property
  BY DEF Gathered
<1>3. \A n \in Node : /\ {a \in active : a[2] = n} = {a \in D : arc[a] # Inactive /\ a[2] = n}
                      /\ {a \in active : a[1] = n /\ arc[a] > Optional} = {a \in D : arc[a] # Inactive /\ a[1] = n}
  <2>1. \A a \in D : arc[a] # Inactive => arc[a] > Optional
    BY DEF Gathered, Unique, Source, Optional, Initial
  <2> QED BY <2>1
<1> DEFINE h == [arc |-> arc, pending |-> [n \in Node |-> 0], out |-> [n \in Node |-> 0],
                 alive |-> nodes, flagged |-> ready, sched |-> {}, ready |-> ready]
<1>4. h \in GraphOver(D) /\ h.arc = arc
  <2> HIDE DEF pending, out, ready, g
  <2> QED BY <1>1, <1>2 DEF GraphOver
<1>5. \A n : Suppliers(h, n) = Suppliers(g, n) /\ Consumers(h, n) = Consumers(g, n)
  BY <1>1, <1>4 DEF Suppliers, Consumers
<1>6. \A n \in Node : /\ pending[n] = Cardinality(Suppliers(g, n)) /\ pending[n] \in Nat
                      /\ out[n] = Cardinality(Consumers(g, n)) /\ out[n] \in Nat
  <2> SUFFICES ASSUME NEW n \in Node
               PROVE  /\ pending[n] = Cardinality(Suppliers(g, n)) /\ pending[n] \in Nat
                      /\ out[n] = Cardinality(Consumers(g, n)) /\ out[n] \in Nat
    OBVIOUS
  <2>1. /\ pending[n] = Cardinality({a \in D : arc[a] # Inactive /\ a[2] = n})
        /\ out[n] = Cardinality({a \in D : arc[a] # Inactive /\ a[1] = n})
    BY <1>3
  <2> HIDE DEF pending, out, g, h
  <2> QED BY <2>1, <1>4, <1>5, ArcsCounted, ArcsFinite
<1> HIDE DEF pending, out
<1>7. pending \in [Node -> Int] /\ out \in [Node -> Int]
  <2>1. pending = [n \in Node |-> pending[n]] /\ out = [n \in Node |-> out[n]]
    BY DEF pending, out
  <2> QED BY <2>1, <1>6
<1>8. g \in GraphOver(D)
  <2> HIDE DEF g, ready
  <2> QED BY <1>1, <1>2, <1>7 DEF GraphOver
<1>9. w.g = g /\ w.marked = {} /\ w.queue = {}
  BY DEF Work
<1> HIDE DEF g, h, w
<1>10. Linked(g)
  <2> SUFFICES ASSUME NEW m \in Node, NEW n \in Consumers(g, m)
               PROVE  /\ m \in g.alive /\ n \in g.alive
                      /\ \/ m \in Property /\ n \in Rule \cup {Final} /\ (g.arc[<<m, n>>] = Resolved \/ g.arc[<<m, n>>] >= Source)
                         \/ m \in Production /\ n \in Property /\ g.arc[<<m, n>>] \in {Resolved, Source}
                         \/ m \in Precondition /\ n \in Production /\ g.arc[<<m, n>>] \in {Resolved, Unique}
                      /\ g.arc[<<m, n>>] = Resolved => m \in g.sched
    BY DEF Linked
  <2>1. <<m, n>> \in DOMAIN arc /\ arc[<<m, n>>] # Inactive
    BY <1>1 DEF Consumers
  <2>2. /\ m \in nodes /\ n \in nodes
        /\ \/ m \in Property /\ n \in Rule \cup {Final} /\ arc[<<m, n>>] >= Source
           \/ m \in Production /\ n \in Property /\ arc[<<m, n>>] = Source
           \/ m \in Precondition /\ n \in Production /\ arc[<<m, n>>] = Unique
    BY <2>1 DEF Gathered
  <2>3. arc[<<m, n>>] # Resolved
    BY <2>1, <2>2 DEF Source, Unique, Resolved
  <2> QED BY <1>1, <2>2, <2>3
<1>11. \A n \in Node : Open(g, n) = Suppliers(g, n)
  <2> SUFFICES ASSUME NEW n \in Node, NEW s \in Suppliers(g, n), g.arc[<<s, n>>] = Resolved PROVE FALSE
    BY DEF Open
  <2>1. s \in Node /\ n \in Consumers(g, s)
    BY ArcsFinite, ArcFacts
  <2>2. s \in g.sched
    BY <1>8, <1>10, <2>1, LinkedFacts
  <2> QED BY <1>1, <2>2
<1>12. Waiting(w) /\ Demanded(w)
  <2>1. \A m \in nodes : pending[m] = Cardinality(Open(g, m)) /\ out[m] = Cardinality(Consumers(g, m)) /\ out[m] \in Nat
    BY <1>2, <1>6, <1>11
  <2> QED BY <1>1, <1>9, <2>1 DEF Waiting, Demanded
<1>13. Served(w) /\ Queued(w) /\ Unused(w)
  BY <1>1, <1>9 DEF Served, Queued, Unused
<1>14. Flags(w)
  BY <1>1, <1>9 DEF Flags
<1>15. Enforced(w)
  BY <1>1, <1>9 DEF Enforced
<1> QED BY <1>1, <1>8, <1>9, <1>10, <1>12, <1>13, <1>14, <1>15 DEF Sound, Exact, Kept, g, w

(* In the graph as gathered every node has all its suppliers.                            *)
LEMMA InitStateGrounded ==
  ASSUME NEW D \in ArcsAmong, NEW arc \in [D -> Nat], NEW nodes, \A a \in D : arc[a] # Inactive
  PROVE  Grounded(arc, {}, InitState(nodes, arc))
<1> DEFINE w == Work(InitState(nodes, arc), {})
<1>1. w.g.arc = arc /\ w.g.sched = {}
  BY DEF Work, InitState
<1> HIDE DEF w
<1>2. Fed(arc, w)
  BY <1>1 DEF Fed
<1>3. Told(w, {}) /\ Settled(w, {})
  BY <1>1 DEF Told, Settled
<1> QED BY <1>2, <1>3 DEF Grounded, Carry, w

(* What is known of the suppliers depends on the arcs and on what is scheduled.          *)
LEMMA GroundedSame ==
  ASSUME NEW g, NEW h, h.arc = g.arc, h.alive = g.alive, h.sched \subseteq g.sched,
         NEW code, NEW S, S \subseteq h.sched, Grounded(code, S, g)
  PROVE  Grounded(code, S, h)
<1> DEFINE w == Work(g, {})
           v == Work(h, {})
<1>1. w.g = g /\ w.marked = {} /\ w.queue = {} /\ v.g = h /\ v.marked = {} /\ v.queue = {}
  BY DEF Work
<1>2. Carry(code, S, {}, w)
  BY DEF Grounded
<1> HIDE DEF w, v
<1>3. \A m : Consumers(h, m) = Consumers(g, m)
  BY SameArcs
<1>4. Carry(code, S, {}, v)
  BY <1>1, <1>2, <1>3 DEF Carry, Fed, Told, Settled
<1> QED BY <1>4 DEF Grounded, v

(* Fewer rules are scheduled for good, too.                                              *)
LEMMA GroundedSome ==
  ASSUME NEW g, NEW code, NEW S, NEW T, T \subseteq S, Grounded(code, S, g)
  PROVE  Grounded(code, T, g)
BY DEF Grounded, Carry, Settled

\* What is cut in g is cut in h, and h gives all nodes that stay the suppliers they had in g.
Continues(g, h) ==
  /\ \A a \in DOMAIN g.arc : g.arc[a] = Inactive => h.arc[a] = Inactive
  /\ \A code, S : Grounded(code, S, g) => Grounded(code, S, h)

(* During finalize_gather there is no ready list yet.                                    *)
LEMMA BareSound ==
  ASSUME NEW D \in ArcsAmong, NEW g \in GraphOver(D), Sound(Work(g, {}))
  PROVE  LET h == [g EXCEPT !.flagged = {}, !.ready = {}]
         IN  h \in GraphOver(D) /\ Sound(Work(h, {})) /\ h.arc = g.arc /\ h.alive = g.alive /\ h.sched = g.sched
<1> DEFINE h == [g EXCEPT !.flagged = {}, !.ready = {}]
           w == Work(g, {})
           v == Work(h, {})
<1>1. /\ h \in GraphOver(D) /\ h.arc = g.arc /\ h.alive = g.alive /\ h.sched = g.sched
      /\ h.pending = g.pending /\ h.out = g.out
  BY DEF GraphOver
<1>2. w.g = g /\ w.marked = {} /\ w.queue = {} /\ v.g = h /\ v.marked = {} /\ v.queue = {}
  BY DEF Work
<1> HIDE DEF h, v, w
<1>3. \A m : Consumers(h, m) = Consumers(g, m) /\ Suppliers(h, m) = Suppliers(g, m) /\ Open(h, m) = Open(g, m)
  BY <1>1, SameArcs
<1>4. Sound(w)
  BY DEF w
<1>5. Linked(h)
  <2>1. Linked(g)
    BY <1>2, <1>4 DEF Sound
  <2> QED BY ONLY <1>1, <1>3, <2>1 DEF Linked
<1>6. Waiting(v) /\ Demanded(v) /\ Served(v) /\ Queued(v) /\ Unused(v)
  BY <1>1, <1>2, <1>3, <1>4 DEF Sound, Waiting, Demanded, Served, Queued, Unused
<1> QED BY <1>1, <1>2, <1>5, <1>6 DEF Sound, h, v

\* Folding add_scheduled_rule over preconditions: q is scheduled after the others.
ScheduleNext(q, v) == IF v.ok THEN AddScheduledRule(v.g, q, 1) ELSE v

\* h is g with the preconditions of X scheduled, those of Y still being ready.
Prepared(g, h, X, Y) ==
  /\ Exact(h) /\ (Clean(h) \/ Kept(h)) /\ (Kept(g) => Kept(h))
  /\ h.alive \subseteq g.alive /\ g.sched \cap h.alive \subseteq h.sched /\ h.sched \cap Rule \subseteq g.sched \cup X
  /\ \A q \in Y : q \notin h.ready /\ (q \in h.alive => q \in h.flagged)
  /\ Continues(g, h)

(* One precondition out of several that hold is added to the chain; the others stay
   available. *)
LEMMA ScheduleNextPrepares ==
  ASSUME NEW D \in ArcsAmong, NEW g \in GraphOver(D), NEW v \in WorkOver(D), v.ok,
         NEW X, NEW q \in Precondition, NEW Y \in SUBSET Precondition,
         Prepared(g, v.g, X, Y), q \in Y, q \notin g.sched, q \notin X
  PROVE  LET u == ScheduleNext(q, v)
         IN  u \in WorkOver(D) /\ u.ok /\ Prepared(g, u.g, X \cup {q}, Y \ {q})
<1> DEFINE u == AddScheduledRule(v.g, q, 1)
<1>1. v.g \in GraphOver(D) /\ Exact(v.g) /\ q \in Rule /\ q \notin Production
  BY NodeKinds, NodesDisjoint DEF WorkOver, Prepared
<1>2. q \notin v.g.ready /\ q \notin v.g.sched /\ (q \in v.g.alive => q \in v.g.flagged)
  BY <1>1 DEF Prepared
<1> DEFINE e == IF Kept(v.g) THEN TRUE ELSE FALSE
<1>3. e \in BOOLEAN /\ (e <=> Kept(v.g)) /\ 1 \in {0, 1}
  OBVIOUS
<1> HIDE DEF e, u
<1>4. /\ u \in WorkOver(D)
      /\ e \/ (q \in Precondition /\ Clean(v.g)) => u.ok
      /\ u.ok => Exact(u.g) /\ Clean(u.g) /\ Added(v.g, q, u.g) /\ (e => Kept(u.g))
  BY <1>1, <1>2, <1>3, AddScheduledRuleSound DEF u
<1>5. u.ok
  BY <1>3, <1>4 DEF Prepared
<1>6. Prepared(g, u.g, X \cup {q}, Y \ {q})
  <2>1. Exact(u.g) /\ Clean(u.g) /\ (Kept(g) => Kept(u.g))
    BY <1>3, <1>4, <1>5 DEF Prepared
  <2>2. u.g.alive \subseteq g.alive /\ g.sched \cap u.g.alive \subseteq u.g.sched
        /\ u.g.sched \cap Rule \subseteq g.sched \cup (X \cup {q})
    BY <1>4, <1>5 DEF Prepared, Added
  <2>3. ASSUME NEW p \in Y \ {q} PROVE p \notin u.g.ready /\ (p \in u.g.alive => p \in u.g.flagged)
    <3>1. p \notin v.g.ready /\ (p \in v.g.alive => p \in v.g.flagged)
      BY DEF Prepared
    <3>2. p \in u.g.alive => p \in u.g.flagged
      BY <3>1, <1>4, <1>5 DEF Added
    <3>3. p \in u.g.ready => p \in u.g.flagged /\ p \in u.g.alive
      BY <2>1 DEF Exact, Flags, Work
    <3>4. p \notin u.g.ready
      BY <3>1, <3>3, <1>4, <1>5 DEF Added
    <3> QED BY <3>2, <3>4
  <2>4. Continues(g, u.g)
    <3>1. DOMAIN g.arc = D /\ DOMAIN v.g.arc = D
      BY <1>1 DEF GraphOver
    <3>2. \A a \in D : g.arc[a] = Inactive => u.g.arc[a] = Inactive
      BY <3>1, <1>4, <1>5 DEF Prepared, Added, Continues
    <3>3. ASSUME NEW code, NEW S, Grounded(code, S, g) PROVE Grounded(code, S, u.g)
      <4>1. Grounded(code, S, v.g)
        BY <3>3 DEF Prepared, Continues
      <4> DEFINE T == S \cup ({q} \cap v.g.alive)
      <4>2. Grounded(code, T, u.g)
        BY <1>4, <1>5, <4>1 DEF Added
      <4>3. S \subseteq T
        OBVIOUS
      <4> HIDE DEF T
      <4> QED BY <4>2, <4>3, GroundedSome
    <3> QED BY <3>1, <3>2, <3>3 DEF Continues
  <2> QED BY <2>1, <2>2, <2>3, <2>4 DEF Prepared
<1>7. ScheduleNext(q, v) = u
  BY DEF ScheduleNext, u
<1> QED BY <1>4, <1>5, <1>6, <1>7

\* The preconditions X of the ready list, scheduled one after the other.
ScheduleAll(g, X) ==
  FoldSet(LAMBDA q, v : IF v.ok THEN AddScheduledRule(v.g, q, 1) ELSE v,
          Work([g EXCEPT !.ready = @ \ X], {}), X)

(* A graph with a shorter ready list.                                                    *)
LEMMA ReadyTaken ==
  ASSUME NEW D \in ArcsAmong, NEW g \in GraphOver(D), Exact(g), NEW X
  PROVE  LET h == [g EXCEPT !.ready = @ \ X]
         IN  /\ h \in GraphOver(D) /\ Exact(h) /\ (Clean(h) <=> Clean(g)) /\ (Kept(h) <=> Kept(g))
             /\ h.arc = g.arc /\ h.alive = g.alive /\ h.flagged = g.flagged /\ h.sched = g.sched
             /\ h.ready = g.ready \ X
<1> DEFINE h == [g EXCEPT !.ready = @ \ X]
           w == Work(g, {})
           v == Work(h, {})
<1>1. /\ h \in GraphOver(D) /\ h.arc = g.arc /\ h.alive = g.alive /\ h.sched = g.sched
      /\ h.pending = g.pending /\ h.out = g.out /\ h.flagged = g.flagged /\ h.ready = g.ready \ X
  BY DEF GraphOver
<1>2. w.g = g /\ w.marked = {} /\ w.queue = {} /\ v.g = h /\ v.marked = {} /\ v.queue = {}
  BY DEF Work
<1> HIDE DEF h, v, w
<1>3. \A m : Consumers(h, m) = Consumers(g, m) /\ Suppliers(h, m) = Suppliers(g, m) /\ Open(h, m) = Open(g, m)
  BY <1>1, SameArcs
<1>4. Sound(w) /\ Flags(w)
  BY DEF w, Exact
<1>5. Linked(h)
  <2>1. Linked(g)
    BY <1>2, <1>4 DEF Sound
  <2> QED BY ONLY <1>1, <1>3, <2>1 DEF Linked
<1>6. Waiting(v) /\ Demanded(v) /\ Served(v) /\ Queued(v) /\ Unused(v)
  BY <1>1, <1>2, <1>3, <1>4 DEF Sound, Waiting, Demanded, Served, Queued, Unused
<1>7. Flags(v)
  BY <1>1, <1>2, <1>4 DEF Flags
<1>8. Enforced(v) <=> Enforced(w)
  BY <1>1, <1>2, <1>3 DEF Enforced
<1>9. Reached(h) = Reached(g)
  <2>1. Reached(h) \subseteq Reached(g)
    <3>1. \A m \in Reached(g) \ h.sched : Suppliers(h, m) \subseteq Reached(g)
      BY <1>1, <1>3, ReachedClosed
    <3> QED BY <3>1, ReachedLeast, ReachedClosed
  <2>2. Reached(g) \subseteq Reached(h)
    <3>1. \A m \in Reached(h) \ g.sched : Suppliers(g, m) \subseteq Reached(h)
      BY <1>1, <1>3, ReachedClosed
    <3> QED BY <3>1, ReachedLeast, ReachedClosed
  <2> QED BY <2>1, <2>2
<1>10. Clean(h) <=> Clean(g)
  BY <1>1, <1>9 DEF Clean, IsComplete, Unreached
<1> QED BY <1>1, <1>2, <1>5, <1>6, <1>7, <1>8, <1>10 DEF Sound, Exact, Kept, h, v, w

(* Scheduling the preconditions that hold cannot fail.                                   *)
THEOREM ScheduleAllPrepares ==
  ASSUME NEW D \in ArcsAmong, NEW g \in GraphOver(D), Exact(g), Clean(g) \/ Kept(g),
         NEW X \in SUBSET (g.ready \cap Precondition)
  PROVE  LET w == ScheduleAll(g, X)
         IN  /\ w \in WorkOver(D) /\ w.ok /\ Prepared(g, w.g, X, {})
             /\ X = {} => w.g.ready = g.ready
<1> DEFINE g0 == [g EXCEPT !.ready = @ \ X]
           base == Work(g0, {})
           E == WorkOver(D)
           next == [s \in SUBSET X |-> CHOOSE x \in s : TRUE]
           step == [p \in X \X E |-> ScheduleNext(p[1], p[2])]
           Eq(h) == h = [s \in SUBSET X |-> IF s = {} THEN base
                                            ELSE ScheduleNext(CHOOSE x \in s : TRUE, h[s \ {CHOOSE x \in s : TRUE}])]
           f == CHOOSE h : Eq(h)
           Good == {p \in (SUBSET X) \X E : p[2].ok /\ Prepared(g, p[2].g, p[1], X \ p[1])}
<1>0. IsFiniteSet(X) /\ X \subseteq Precondition /\ X \cap g.sched = {} /\ X \subseteq g.flagged
  <2>1. IsFiniteSet(X)
    BY NodesFinite, FS_Subset
  <2>2. g.ready \subseteq g.flagged /\ g.flagged \cap g.sched = {}
    BY DEF Exact, Flags, Work
  <2> QED BY <2>1, <2>2
<1>1. \A s \in SUBSET X : s # {} => next[s] \in s
  OBVIOUS
<1>2. /\ g0 \in GraphOver(D) /\ Exact(g0) /\ (Clean(g0) <=> Clean(g)) /\ (Kept(g0) <=> Kept(g))
      /\ g0.alive = g.alive /\ g0.flagged = g.flagged /\ g0.sched = g.sched /\ g0.ready = g.ready \ X
      /\ g0.arc = g.arc
  BY ReadyTaken
<1> HIDE DEF g0
<1>3. base \in E /\ base.g = g0 /\ base.ok
  BY <1>2 DEF Work, WorkOver
<1> HIDE DEF base
<1>4. <<{}, base>> \in Good
  <2>0. Continues(g, g0)
    <3>1. \A code, S : Grounded(code, S, g) => S \subseteq g.sched
      BY DEF Grounded, Carry, Settled, Work
    <3> QED BY <1>2, <3>1, GroundedSame DEF Continues
  <2>1. Prepared(g, g0, {}, X)
    BY <1>0, <1>2, <2>0 DEF Prepared
  <2> QED BY <1>3, <2>1
<1>5. ASSUME NEW s \in SUBSET X, NEW v, s # {}, <<s \ {next[s]}, v>> \in Good
      PROVE  v \in E /\ <<next[s], v>> \in X \X E /\ <<s, ScheduleNext(next[s], v)>> \in Good
  <2> DEFINE q == next[s]
             Y == X \ (s \ {q})
  <2>1. q \in s /\ v \in E /\ v.ok /\ Prepared(g, v.g, s \ {q}, Y)
    BY <1>1, <1>5
  <2> HIDE DEF next, q, E
  <2>2. q \in X /\ q \in Precondition /\ q \notin g.sched /\ q \notin s \ {q} /\ q \in Y /\ Y \in SUBSET Precondition
    BY <1>0, <2>1
  <2> HIDE DEF Y
  <2>3. LET u == ScheduleNext(q, v)
        IN  u \in WorkOver(D) /\ u.ok /\ Prepared(g, u.g, (s \ {q}) \cup {q}, Y \ {q})
    BY <2>1, <2>2, ScheduleNextPrepares DEF E
  <2>4. (s \ {q}) \cup {q} = s /\ Y \ {q} = X \ s
    BY <2>1 DEF Y
  <2> QED BY <2>1, <2>2, <2>3, <2>4 DEF E, q
<1>6. \A s \in SUBSET X : \A v : s # {} /\ <<s \ {next[s]}, v>> \in Good => <<s, step[<<next[s], v>>]>> \in Good
  <2> HIDE DEF Good, next, E
  <2> QED BY <1>5
<1>7. PICK h : Folded(h, X, next, base, step) /\ \A s \in SUBSET X : <<s, h[s]>> \in Good
  <2>1. IsFiniteSet(X)
    BY <1>0
  <2> HIDE DEF next, step, Good, Eq, f, E
  <2>2. Invariant(X, next, base, step, Good)
    BY <1>1, <1>4, <1>6 DEF Invariant
  <2> QED BY ONLY <2>1, <2>2, FoldedGood
<1>8. \A s \in SUBSET X : s # {} => h[s] = ScheduleNext(next[s], h[s \ {next[s]}])
  <2> HIDE DEF Good, next, E
  <2>1. \A s \in SUBSET X : s # {} => <<s \ {next[s]}, h[s \ {next[s]}]>> \in Good
    BY <1>7
  <2>2. \A s \in SUBSET X : s # {} => <<next[s], h[s \ {next[s]}]>> \in X \X E
    BY <1>5, <2>1
  <2> QED BY <1>7, <2>2 DEF Folded
<1>9. Eq(h)
  <2>1. h = [s \in SUBSET X |-> IF s = {} THEN base ELSE ScheduleNext(next[s], h[s \ {next[s]}])]
    <3> HIDE DEF next, Good
    <3> QED BY <1>7, <1>8 DEF Folded
  <2> QED BY <2>1
<1>10. Eq(f)
  <2> HIDE DEF Eq
  <2> QED BY <1>9
<1>11. ScheduleAll(g, X) = f[X]
  BY DEF ScheduleAll, FoldSet, MapThenFoldSet, ScheduleNext, base, g0
<1> HIDE DEF f
<1> DEFINE Q == {s \in SUBSET X : f[s] = h[s]}
<1>12. {} \in Q
  BY <1>9, <1>10
<1>13. \A s \in SUBSET X : s # {} /\ s \ {next[s]} \in Q => s \in Q
  <2>1. \A s \in SUBSET X : s # {} => f[s] = ScheduleNext(next[s], f[s \ {next[s]}])
    BY <1>10
  <2> HIDE DEF next
  <2> QED BY <1>8, <2>1
<1>14. \A s \in SUBSET X : s \in Q
  <2> HIDE DEF Q, next
  <2> QED BY ONLY SMTT(30), <1>0, <1>1, <1>12, <1>13, SubsetInduction
<1>15. <<X, f[X]>> \in Good
  <2> HIDE DEF Good
  <2> QED BY <1>7, <1>14
<1>16. X \ X = {}
  OBVIOUS
<1>17. X = {} => f[X].g.ready = g.ready
  BY <1>2, <1>3, <1>10
<1> QED BY <1>11, <1>15, <1>16, <1>17
===============================================================================
