-------------------------- MODULE Scheduler_proofs --------------------------
(***************************************************************************)
(* Proofs about the scheduler, for any finite sets of rules, preconditions *)
(* and properties, any weights, objects and requests.                      *)
(*                                                                         *)
(* The first part: the counters of every chain stay exact from the first   *)
(* elimination to the last replay.  What has to be known beyond the        *)
(* counters: that the rules executed last, and those that failed, are not  *)
(* part of the initial chain (otherwise eliminating them would leave       *)
(* resolved arcs without a source), that a chain contains all the initial  *)
(* chain does, and that the initial chain keeps every rule in it for its   *)
(* own sake, so that the replay cannot fail.                               *)
(*                                                                         *)
(* The second part is about the rules that are executed.  A node loses a   *)
(* supplier only to another one that serves the same input (Grounded, kept *)
(* by every operation of a chain), so a rule that waits for nothing has    *)
(* scheduled producers for all it needs; these stand before it in the      *)
(* chain (Ordered), and the object has what those executed have made.      *)
(***************************************************************************)
EXTENDS Scheduler, RuleGraph_proofs

(***************************************************************************)
(* Lists.                                                                  *)
(***************************************************************************)

(* The maximum of a set of positions is one of them.                                     *)
LEMMA MaxIn ==
  ASSUME NEW n \in Nat, NEW s \in SUBSET (1..n), s # {}
  PROVE  Max(s) \in s
BY GreatestIn DEF Max

(* Folding from the left visits the positions of a list.                                 *)
LEMMA ListFolded ==
  ASSUME NEW S, NEW list \in Seq(S)
  PROVE  /\ DOMAIN list = 1..Len(list) /\ Len(list) \in Nat /\ IsFiniteSet(DOMAIN list)
         /\ \A s \in SUBSET (DOMAIN list) : s # {} => Max(s) \in s
         /\ \A i \in DOMAIN list : list[i] \in S
         /\ ToSet(list) \subseteq S /\ \A i \in DOMAIN list : list[i] \in ToSet(list)
<1>1. DOMAIN list = 1..Len(list) /\ Len(list) \in Nat
  OBVIOUS
<1>2. IsFiniteSet(1..Len(list))
  BY <1>1, FS_Interval
<1>3. \A s \in SUBSET (1..Len(list)) : s # {} => Max(s) \in s
  BY <1>1, MaxIn
<1>4. \A i \in DOMAIN list : list[i] \in S
  OBVIOUS
<1> QED BY <1>1, <1>2, <1>3, <1>4 DEF ToSet

(* Lists and the sets of their elements.                                                 *)
LEMMA ListSets ==
  ASSUME NEW S, NEW a \in Seq(S), NEW b \in Seq(S), NEW x \in S
  PROVE  /\ ToSet(<<>>) = {} /\ ToSet(Append(a, x)) = ToSet(a) \cup {x}
         /\ a \o b \in Seq(S) /\ ToSet(a \o b) = ToSet(a) \cup ToSet(b)
         /\ a # <<>> => /\ Head(a) \in ToSet(a) /\ Head(a) \in S
                        /\ Tail(a) \in Seq(S) /\ ToSet(Tail(a)) \subseteq ToSet(a)
<1>1. ToSet(<<>>) = {}
  BY DEF ToSet
<1>2. ToSet(Append(a, x)) = ToSet(a) \cup {x}
  <2>1. \A i \in 1..Len(a) : Append(a, x)[i] = a[i]
    OBVIOUS
  <2>2. Append(a, x)[Len(a) + 1] = x /\ DOMAIN Append(a, x) = 1..(Len(a) + 1) /\ DOMAIN a = 1..Len(a)
    OBVIOUS
  <2>3. \A i \in 1..(Len(a) + 1) : i \in 1..Len(a) \/ i = Len(a) + 1
    OBVIOUS
  <2> QED BY <2>1, <2>2, <2>3 DEF ToSet
<1>3. a \o b \in Seq(S)
  OBVIOUS
<1>4. ToSet(a \o b) = ToSet(a) \cup ToSet(b)
  <2> DEFINE c == a \o b
  <2>1. /\ DOMAIN c = 1..(Len(a) + Len(b)) /\ DOMAIN a = 1..Len(a) /\ DOMAIN b = 1..Len(b)
        /\ Len(a) \in Nat /\ Len(b) \in Nat
    OBVIOUS
  <2>2. \A i \in 1..Len(a) : c[i] = a[i] /\ i \in 1..(Len(a) + Len(b))
    OBVIOUS
  <2>3. \A i \in 1..Len(b) : c[Len(a) + i] = b[i] /\ Len(a) + i \in 1..(Len(a) + Len(b))
    OBVIOUS
  <2>4. \A i \in 1..(Len(a) + Len(b)) : i \in 1..Len(a) \/ (i - Len(a) \in 1..Len(b) /\ i = Len(a) + (i - Len(a)))
    BY <2>1
  <2> HIDE DEF c
  <2>5. \A i \in DOMAIN c : c[i] \in ToSet(a) \cup ToSet(b)
    BY <2>1, <2>2, <2>3, <2>4 DEF ToSet
  <2>6. \A i \in DOMAIN a : a[i] \in ToSet(c)
    BY <2>1, <2>2 DEF ToSet
  <2>7. \A i \in DOMAIN b : b[i] \in ToSet(c)
    BY <2>1, <2>3 DEF ToSet
  <2>8. ToSet(c) = ToSet(a) \cup ToSet(b)
    BY <2>5, <2>6, <2>7 DEF ToSet
  <2> QED BY <2>8 DEF c
<1>5. ASSUME a # <<>>
      PROVE  /\ Head(a) \in ToSet(a) /\ Head(a) \in S
             /\ Tail(a) \in Seq(S) /\ ToSet(Tail(a)) \subseteq ToSet(a)
  <2>1. Head(a) = a[1] /\ 1 \in DOMAIN a /\ Head(a) \in S /\ Tail(a) \in Seq(S)
    BY <1>5
  <2>2. /\ DOMAIN Tail(a) = 1..(Len(a) - 1) /\ DOMAIN a = 1..Len(a) /\ Len(a) \in Nat
        /\ \A i \in 1..(Len(a) - 1) : Tail(a)[i] = a[i + 1] /\ i + 1 \in 1..Len(a)
    BY <1>5
  <2> QED BY <2>1, <2>2 DEF ToSet
<1> QED BY <1>1, <1>2, <1>3, <1>4, <1>5

(* grep keeps elements of the list that are in the set.                                  *)
LEMMA OnlySome ==
  ASSUME NEW T, NEW rules \in Seq(T), NEW S
  PROVE  Only(rules, S) \in Seq(T) /\ ToSet(Only(rules, S)) \subseteq ToSet(rules) \cap S
<1> DEFINE P == DOMAIN rules
           E == {l \in Seq(T) : ToSet(l) \subseteq ToSet(rules) \cap S}
           op(i, l) == IF rules[i] \in S THEN Append(l, rules[i]) ELSE l
           next == [s \in SUBSET P |-> Max(s)]
           step == [p \in P \X E |-> op(p[1], p[2])]
           Eq(h) == h = [s \in SUBSET P |-> IF s = {} THEN <<>> ELSE op(Max(s), h[s \ {Max(s)}])]
           f == CHOOSE h : Eq(h)
           Q == {s \in SUBSET P : f[s] \in E}
<1>0. IsFiniteSet(P) /\ \A i \in P : rules[i] \in T /\ rules[i] \in ToSet(rules)
  BY ListFolded
<1>1. \A s \in SUBSET P : s # {} => next[s] \in s
  BY ListFolded
<1>2. \A i \in P : \A l \in E : op(i, l) \in E
  <2> SUFFICES ASSUME NEW i \in P, NEW l \in E, rules[i] \in S PROVE Append(l, rules[i]) \in E
    OBVIOUS
  <2>1. l \in Seq(T) /\ rules[i] \in T /\ rules[i] \in ToSet(rules)
    BY <1>0
  <2>2. ToSet(Append(l, rules[i])) = ToSet(l) \cup {rules[i]} /\ Append(l, rules[i]) \in Seq(T)
    BY <2>1, ListSets
  <2> QED BY <2>1, <2>2
<1>3. step \in [P \X E -> E]
  <2> HIDE DEF op, E, P
  <2> QED BY <1>2
<1>4. <<>> \in E
  BY ListSets DEF ToSet
<1>5. PICK h : Folded(h, P, next, <<>>, step) /\ \A s \in SUBSET P : h[s] \in E
  <2>1. IsFiniteSet(P)
    BY <1>0
  <2> HIDE DEF next, step, E, P
  <2> QED BY ONLY <2>1, <1>1, <1>3, <1>4, FoldedWithin
<1>6. Eq(h)
  <2> HIDE DEF op, E, P
  <2>1. \A s \in SUBSET P : s # {} => <<next[s], h[s \ {next[s]}]>> \in P \X E
    BY <1>1, <1>5
  <2>2. h = [s \in SUBSET P |-> IF s = {} THEN <<>> ELSE op(next[s], h[s \ {next[s]}])]
    <3> HIDE DEF next
    <3> QED BY <2>1, <1>5 DEF Folded
  <2> QED BY <2>2
<1>7. Eq(f)
  <2> HIDE DEF Eq
  <2> QED BY <1>6
<1>8. Only(rules, S) = f[P]
  BY DEF Only, FoldLeft, MapThenFoldSet
<1> HIDE DEF f
<1>9. {} \in Q
  <2> HIDE DEF op, E, P
  <2> QED BY <1>4, <1>7
<1>10. \A s \in SUBSET P : s # {} /\ s \ {next[s]} \in Q => s \in Q
  <2>1. \A s \in SUBSET P : s # {} => next[s] \in P /\ f[s] = op(next[s], f[s \ {next[s]}])
    <3> HIDE DEF op, E, P
    <3> QED BY <1>1, <1>7
  <2> HIDE DEF next, E, op, P
  <2> QED BY ZenonT(30), <1>2, <2>1
<1>11. P \in Q
  <2>1. IsFiniteSet(P)
    BY <1>0
  <2> HIDE DEF Q, next, P
  <2>2. Inductive(P, next, Q)
    BY ONLY <1>1, <1>9, <1>10 DEF Inductive
  <2> QED BY ONLY <2>1, <2>2, SubsetInductive
<1> QED BY <1>8, <1>11

(* What is known of a problem.                                                           *)
LEMMA ProblemFacts ==
  ASSUME problem \in Problem
  PROVE  /\ \A r \in Production : Output(r) \subseteq Property /\ Pre(r) \in Seq(Precondition) /\ Weight(r) \in Nat
         /\ \A r \in Rule \cup {Final} : Input(r) \in Seq(SUBSET Property)
  BY ProblemAssumption DEF Output, Pre, Weight, Input

(* The elements of a finite set as a list.                                               *)
LEMMA ListOfSet ==
  ASSUME NEW S, IsFiniteSet(S)
  PROVE  SetToSeq(S) \in Seq(S)
<1>1. Cardinality(S) \in Nat /\ ExistsBijection(1..Cardinality(S), S)
  BY FS_CardinalityType
<1>2. \E f \in [1..Cardinality(S) -> S] : IsInjective(f)
  BY <1>1 DEF ExistsBijection, Bijection, Injection
<1>3. SetToSeq(S) \in [1..Cardinality(S) -> S]
  BY <1>2 DEF SetToSeq
<1> QED BY <1>1, <1>3

\* The preconditions that weave_preconditions inserts before r.
Inserted(r, list) ==
  Only(Pre(r), {q \in Precondition : run[q] = "none" /\ ~(q \in problem.shared /\ q \in ToSet(list))})

(* A chain is executed together with preconditions that have not been checked.           *)
LEMMA WeaveSome ==
  ASSUME problem \in Problem, NEW rules \in Seq(Production)
  PROVE  /\ Weave(rules) \in Seq(Rule)
         /\ ToSet(Weave(rules)) \subseteq ToSet(rules) \cup {q \in Precondition : run[q] = "none"}
<1> DEFINE P == DOMAIN rules
           U == ToSet(rules) \cup {q \in Precondition : run[q] = "none"}
           E == {l \in Seq(Rule) : ToSet(l) \subseteq U}
           op(i, l) == l \o Inserted(rules[i], l) \o <<rules[i]>>
           next == [s \in SUBSET P |-> Max(s)]
           step == [p \in P \X E |-> op(p[1], p[2])]
           Eq(h) == h = [s \in SUBSET P |-> IF s = {} THEN <<>> ELSE op(Max(s), h[s \ {Max(s)}])]
           f == CHOOSE h : Eq(h)
           Q == {s \in SUBSET P : f[s] \in E}
<1>0. IsFiniteSet(P) /\ \A i \in P : rules[i] \in Production /\ rules[i] \in ToSet(rules)
  BY ListFolded
<1>1. \A s \in SUBSET P : s # {} => next[s] \in s
  BY ListFolded
<1>2. \A i \in P : \A l \in E : op(i, l) \in E
  <2> SUFFICES ASSUME NEW i \in P, NEW l \in E PROVE op(i, l) \in E
    OBVIOUS
  <2> DEFINE r == rules[i]
             new == Inserted(r, l)
  <2>1. r \in Production /\ r \in ToSet(rules) /\ r \in Rule
    BY <1>0, NodeKinds
  <2> HIDE DEF r
  <2>2. new \in Seq(Precondition) /\ ToSet(new) \subseteq {q \in Precondition : run[q] = "none"}
    BY <2>1, ProblemFacts, OnlySome DEF Inserted
  <2> HIDE DEF new
  <2>3. new \in Seq(Rule) /\ l \in Seq(Rule) /\ <<r>> \in Seq(Rule) /\ ToSet(l) \subseteq U
    BY <2>1, <2>2, NodeKinds
  <2>4. l \o new \in Seq(Rule) /\ ToSet(l \o new) \subseteq U
    BY <2>1, <2>2, <2>3, ListSets
  <2>5. ToSet(<<r>>) = {r}
    BY <2>1 DEF ToSet
  <2>6. (l \o new) \o <<r>> \in Seq(Rule) /\ ToSet((l \o new) \o <<r>>) = ToSet(l \o new) \cup {r}
    <3> DEFINE a == l \o new
               b == <<r>>
    <3>1. a \in Seq(Rule) /\ b \in Seq(Rule) /\ r \in Rule
      BY <2>1, <2>3, <2>4
    <3> HIDE DEF a, b
    <3>2. a \o b \in Seq(Rule) /\ ToSet(a \o b) = ToSet(a) \cup ToSet(b)
      BY ONLY <3>1, ListSets
    <3> QED BY <3>2, <2>5 DEF a, b
  <2> QED BY <2>1, <2>4, <2>6 DEF r, new
<1>3. step \in [P \X E -> E]
  <2> HIDE DEF op, E, P
  <2> QED BY <1>2
<1>4. <<>> \in E
  BY DEF ToSet
<1>5. PICK h : Folded(h, P, next, <<>>, step) /\ \A s \in SUBSET P : h[s] \in E
  <2>1. IsFiniteSet(P)
    BY <1>0
  <2> HIDE DEF next, step, E, P
  <2> QED BY ONLY <2>1, <1>1, <1>3, <1>4, FoldedWithin
<1>6. Eq(h)
  <2> HIDE DEF op, E, P
  <2>1. \A s \in SUBSET P : s # {} => <<next[s], h[s \ {next[s]}]>> \in P \X E
    BY <1>1, <1>5
  <2>2. h = [s \in SUBSET P |-> IF s = {} THEN <<>> ELSE op(next[s], h[s \ {next[s]}])]
    <3> HIDE DEF next
    <3> QED BY <2>1, <1>5 DEF Folded
  <2> QED BY <2>2
<1>7. Eq(f)
  <2> HIDE DEF Eq
  <2> QED BY <1>6
<1>8. Weave(rules) = f[P]
  BY DEF Weave, Inserted, FoldLeft, MapThenFoldSet
<1> HIDE DEF f
<1>9. {} \in Q
  <2> HIDE DEF op, E, P
  <2> QED BY <1>4, <1>7
<1>10. \A s \in SUBSET P : s # {} /\ s \ {next[s]} \in Q => s \in Q
  <2>1. \A s \in SUBSET P : s # {} => next[s] \in P /\ f[s] = op(next[s], f[s \ {next[s]}])
    <3> HIDE DEF op, E, P
    <3> QED BY <1>1, <1>7
  <2> HIDE DEF next, E, op, P
  <2> QED BY <1>2, <2>1
<1>11. P \in Q
  <2>1. IsFiniteSet(P)
    BY <1>0
  <2> HIDE DEF Q, next, P
  <2>2. Inductive(P, next, Q)
    BY ONLY <1>1, <1>9, <1>10 DEF Inductive
  <2> QED BY ONLY <2>1, <2>2, SubsetInductive
<1> QED BY <1>8, <1>11

(***************************************************************************)
(* Gathering: what init_state will start from.                             *)
(***************************************************************************)
ArcStates == UNION {[D -> Nat] : D \in ArcsAmong}

\* Nodes and arcs gathered so far.
Sketched(nodes, arc) == arc \in ArcStates /\ Gathered(nodes, arc)

(* The arcs of two sketches taken together, and those of a larger set of nodes.          *)
LEMMA SketchesMerge ==
  ASSUME NEW nodes, NEW f, NEW g, Sketched(nodes, f), Sketched(nodes, g)
  PROVE  Sketched(nodes, Joined(f, g))
<1> DEFINE h == Joined(f, g)
<1>1. PICK D \in ArcsAmong : f \in [D -> Nat]
  BY DEF Sketched, ArcStates
<1>2. PICK E \in ArcsAmong : g \in [E -> Nat]
  BY DEF Sketched, ArcStates
<1>3. h = [x \in D \cup E |-> IF x \in D THEN f[x] ELSE g[x]]
  <2>1. DOMAIN f = D /\ DOMAIN g = E
    BY <1>1, <1>2
  <2> QED BY <2>1 DEF Joined
<1>4. D \cup E \in ArcsAmong
  BY DEF ArcsAmong
<1>5. h \in [D \cup E -> Nat]
  BY <1>1, <1>2, <1>3
<1>6. \A x \in D \cup E : h[x] = IF x \in D THEN f[x] ELSE g[x]
  BY <1>3
<1> HIDE DEF h
<1>7. h \in ArcStates
  BY <1>4, <1>5 DEF ArcStates
<1>8. Gathered(nodes, h)
  BY <1>1, <1>2, <1>5, <1>6 DEF Sketched, Gathered
<1> QED BY <1>7, <1>8 DEF Sketched, h

(* A sketch with more nodes.                                                             *)
LEMMA SketchGrows ==
  ASSUME NEW nodes, NEW more \in SUBSET Node, NEW arc, Sketched(nodes, arc)
  PROVE  Sketched(nodes \cup more, arc)
  BY DEF Sketched, Gathered

(* The missing inputs of a rule and their producers.                                     *)
LEMMA WithInputsSketched ==
  ASSUME problem \in Problem, Sketched(graph.nodes, graph.arc),
         NEW r \in Rule \cup {Final}, NEW nodes \in SUBSET Node, r \in graph.nodes \cup nodes
  PROVE  LET h == WithInputs(r, nodes)
         IN  /\ Sketched(h.nodes, h.arc) /\ graph.nodes \cup nodes \subseteq h.nodes
             /\ DOMAIN h = {"nodes", "arc"}
<1> DEFINE examined == {k \in Missing(r) : \A j \in Unsuppliable(r) : k <= j}
           wanted == {p \in UNION {Input(r)[k] : k \in examined} : Producers(p) # {}}
           last(p) == Max({k \in examined : p \in Input(r)[k]})
           made == UNION {Producers(p) : p \in wanted}
           all == graph.nodes \cup nodes \cup wanted \cup made
           A == {<<p, r>> : p \in wanted}
           B == UNION {{<<s, p>> : s \in Producers(p)} : p \in wanted}
           f == [a \in A |-> Source + last(a[1]) - 1]
           g == [a \in B |-> Source]
           h == WithInputs(r, nodes)
<1>1. h = [nodes |-> all, arc |-> Joined(f, Joined(g, graph.arc))]
  BY DEF WithInputs
<1>2. Input(r) \in Seq(SUBSET Property) /\ r \in Node
  BY ProblemFacts, NodeKinds
<1>3. examined \subseteq 1..Len(Input(r)) /\ Len(Input(r)) \in Nat
  BY <1>2 DEF Missing
<1>4. \A k \in examined : Input(r)[k] \subseteq Property
  BY <1>2, <1>3
<1>5. wanted \subseteq Property /\ made \subseteq Production
  BY <1>4 DEF Producers
<1>6. \A p \in wanted : last(p) \in Nat /\ last(p) >= 1
  <2> SUFFICES ASSUME NEW p \in wanted PROVE last(p) \in Nat /\ last(p) >= 1
    OBVIOUS
  <2> DEFINE K == {k \in examined : p \in Input(r)[k]}
  <2>1. K \in SUBSET (1..Len(Input(r))) /\ K # {}
    BY <1>3
  <2>2. Max(K) \in K
    <3> HIDE DEF K
    <3> QED BY <1>3, <2>1, MaxIn
  <2>3. Max(K) \in 1..Len(Input(r))
    BY <2>1, <2>2
  <2> QED BY <1>3, <2>3
<1> HIDE DEF examined, last
<1>7. wanted \subseteq Node /\ made \subseteq Node /\ all \subseteq Node /\ graph.nodes \subseteq Node
  BY <1>5, NodeKinds DEF Sketched, Gathered
<1>8. A \in ArcsAmong /\ B \in ArcsAmong
  <2>1. \A a \in A : a \in Node \X Node
    BY <1>2, <1>7
  <2>2. \A b \in B : b \in Node \X Node
    BY <1>7
  <2> QED BY <2>1, <2>2 DEF ArcsAmong
<1> HIDE DEF wanted
<1>9. Sketched(all, f)
  <2>1. \A a \in A : a[1] \in wanted /\ a[2] = r
    OBVIOUS
  <2>2. \A a \in A : f[a] = Source + last(a[1]) - 1 /\ last(a[1]) \in Nat /\ last(a[1]) >= 1
    BY <2>1, <1>6
  <2>3. f \in [A -> Nat] /\ \A a \in A : f[a] >= Source
    <3>1. \A a \in A : f[a] \in Nat /\ f[a] >= Source
      <4> SUFFICES ASSUME NEW a \in A PROVE f[a] \in Nat /\ f[a] >= Source
        OBVIOUS
      <4> DEFINE l == last(a[1])
      <4>1. f[a] = Source + l - 1 /\ l \in Nat /\ l >= 1
        BY <2>2
      <4> HIDE DEF l, f
      <4> QED BY <4>1 DEF Source
    <3>2. f = [a \in A |-> f[a]]
      OBVIOUS
    <3> HIDE DEF f, A
    <3> QED BY <3>1, <3>2
  <2>4. DOMAIN f = A
    OBVIOUS
  <2> HIDE DEF f, A
  <2>5. f \in ArcStates
    BY <1>8, <2>3 DEF ArcStates
  <2>6. r \in all /\ wanted \subseteq all
    OBVIOUS
  <2> HIDE DEF all
  <2>7. Gathered(all, f)
    BY <1>5, <1>7, <2>1, <2>3, <2>4, <2>6 DEF Gathered
  <2> QED BY <2>5, <2>7 DEF Sketched
<1>10. Sketched(all, g)
  <2>1. \A b \in B : b[1] \in made /\ b[2] \in wanted
    OBVIOUS
  <2>2. g \in [B -> Nat] /\ (\A b \in B : g[b] = Source) /\ DOMAIN g = B
    BY DEF Source
  <2> HIDE DEF g, B
  <2>3. g \in ArcStates
    BY <1>8, <2>2 DEF ArcStates
  <2>4. made \subseteq all /\ wanted \subseteq all
    OBVIOUS
  <2> HIDE DEF all, made
  <2>5. Gathered(all, g)
    BY <1>5, <1>7, <2>1, <2>2, <2>4 DEF Gathered
  <2> QED BY <2>3, <2>5 DEF Sketched
<1>11. Sketched(all, graph.arc)
  <2>1. all = graph.nodes \cup (nodes \cup wanted \cup made) /\ nodes \cup wanted \cup made \in SUBSET Node
    BY <1>7
  <2> HIDE DEF all, made
  <2> QED BY <2>1, SketchGrows
<1> HIDE DEF f, g, all
<1>12. Sketched(all, Joined(f, Joined(g, graph.arc)))
  BY <1>9, <1>10, <1>11, SketchesMerge
<1> QED BY <1>1, <1>12 DEF all

(***************************************************************************)
(* The invariant.                                                          *)
(***************************************************************************)
Results == {"none", "OK", "failed", "infeasible"}
States == UNION {GraphOver(D) : D \in ArcsAmong}
ChainType == [g : States, rules : Seq(Production), weight : Nat, verts : SUBSET Property]
AgentType == [weight : Nat, verts : SUBSET Property, chain : ChainType, queued : BOOLEAN]

TypeInv ==
  /\ problem \in Problem
  /\ run \in [Rule -> Results]
  /\ self \in ChainType /\ top \in ChainType /\ heap \subseteq AgentType

Gathering == phase \in {"gather", "consider"}
Searching == phase \in {"build", "suppliers", "trivial", "split", "pop", "execute"}

\* While rules are gathered there are no chains, and the arcs have the right ends.
GatherInv == Gathering =>
  /\ DOMAIN graph = {"nodes", "arc"} /\ Sketched(graph.nodes, graph.arc)
  /\ todo \in Seq(graph.nodes \cap (Production \cup {Final}))
  /\ cur \in [rule : graph.nodes \cap (Production \cup {Final}), pre : Seq(Precondition)]
  /\ cur.pre # <<>> => cur.rule \in Production
  /\ failed \subseteq Rule
  /\ self = NoChain /\ top = NoChain

HeapInv == (Gathering \/ phase = "replay") => heap = {}

\* The chains that are extended, or may be later.
Drafts == {top} \cup {a.chain : a \in heap}

\* All chains are exact.  In the initial chain every rule is kept; in the others nothing is
\* left that the request does not need.
GraphsInv ==
  /\ \A c \in Chains : Exact(c.g)
  /\ Kept(self.g)
  /\ \A c \in Drafts : Clean(c.g) \/ Kept(c.g)

\* What is scheduled in the initial chain is not added to another one.
Behind(g, h) == g.sched \cap Rule \cap h.alive \subseteq h.sched
DraftsInv == Searching => \A c \in Drafts : Behind(self.g, c.g) /\ ToSet(c.rules) \cap self.g.sched = {}

\* A precondition in the initial chain has been evaluated.
KnownInv == \A q \in self.g.sched \cap Precondition : run[q] # "none"

\* The rules to be executed, and those that have failed, are not in the initial chain.
StepsInv ==
  /\ phase = "suppliers" => /\ todo \in Seq(Production) /\ checks \subseteq Precondition /\ failed \subseteq Rule
                            /\ (ToSet(todo) \cup checks \cup failed) \cap self.g.sched = {}
  /\ phase = "execute" => todo \in Seq(Rule) /\ ToSet(todo) \cap self.g.sched = {}
  /\ phase \in {"suppliers", "execute"} => worked \in Seq(Rule)
  /\ phase = "replay" => todo \in Seq(Production)

Inv == TypeInv /\ GatherInv /\ HeapInv /\ GraphsInv /\ DraftsInv /\ KnownInv /\ StepsInv

\* The preconditions that failed were needed for every chain, and the loop goes on with a
\* chain that is no longer valid.
Lost == /\ phase = "suppliers" /\ todo = <<>> /\ checks = {} /\ failed # {}
        /\ ~EliminateRules(self.g, failed, Initial).ok

(* The chain before anything is gathered.                                                *)
LEMMA NoChainExact ==
  NoChain \in ChainType /\ Exact(NoChain.g) /\ Kept(NoChain.g) /\ NoChain.g.sched = {} /\ NoChain.rules = <<>>
<1> DEFINE none == <<>>
<1>1. {} \in ArcsAmong /\ DOMAIN none = {} /\ none \in [{} -> Nat]
  BY DEF ArcsAmong
<1>2. Gathered({}, none)
  BY <1>1 DEF Gathered
<1> DEFINE g == InitState({}, none)
<1>3. g \in GraphOver({}) /\ Exact(g) /\ Kept(g) /\ g.sched = {}
  <2> HIDE DEF none
  <2> QED BY <1>1, <1>2, InitStateExact
<1>4. g \in States
  BY <1>1, <1>3 DEF States
<1>5. NoChain = [g |-> g, rules |-> <<>>, weight |-> 0, verts |-> {}]
  BY DEF NoChain
<1> HIDE DEF g
<1>6. NoChain \in ChainType
  BY <1>4, <1>5 DEF ChainType
<1> QED BY <1>3, <1>5, <1>6

(* resolve() starts without chains.                                                      *)
LEMMA InitInv == Init => Inv
<1> SUFFICES ASSUME Init PROVE Inv
  OBVIOUS
<1>1. TypeInv
  BY NoChainExact DEF Init, TypeInv, Results
<1>2. GatherInv
  <2> DEFINE none == <<>>
  <2>1. {} \in ArcsAmong /\ DOMAIN none = {} /\ none \in [{} -> Nat]
    BY DEF ArcsAmong
  <2>2. Gathered({Final}, none)
    BY <2>1, NodeKinds DEF Gathered
  <2>3. graph = [nodes |-> {Final}, arc |-> none] /\ todo = <<Final>> /\ cur = [rule |-> Final, pre |-> <<>>]
        /\ failed = {} /\ self = NoChain /\ top = NoChain
    BY DEF Init
  <2> HIDE DEF none
  <2>4. Sketched(graph.nodes, graph.arc) /\ DOMAIN graph = {"nodes", "arc"}
    BY <2>1, <2>2, <2>3 DEF Sketched, ArcStates
  <2> QED BY <2>3, <2>4 DEF GatherInv
<1>3. HeapInv /\ DraftsInv /\ StepsInv
  BY DEF Init, HeapInv, DraftsInv, StepsInv, Searching
<1>4. GraphsInv
  <2>1. Chains = {NoChain} /\ Drafts = {NoChain}
    BY DEF Init, Chains, Drafts
  <2> QED BY <2>1, NoChainExact DEF GraphsInv, Init
<1>5. KnownInv
  BY NoChainExact DEF Init, KnownInv
<1> QED BY <1>1, <1>2, <1>3, <1>4, <1>5 DEF Inv

(***************************************************************************)
(* Gathering does not touch the chains.                                    *)
(***************************************************************************)

\* Results are never forgotten.
Remembers == \A r \in Rule : run[r] # "none" => run'[r] # "none"

\* A step that keeps the graphs of all chains.
Idles == UNCHANGED <<self, top, heap>> /\ problem' = problem /\ run' \in [Rule -> Results] /\ Remembers

(* A step that keeps the graphs and forgets no result keeps what is known of the
   graphs. *)
LEMMA IdleKeeps ==
  ASSUME TypeInv, GraphsInv, KnownInv, Idles
  PROVE  TypeInv' /\ GraphsInv' /\ KnownInv'
<1>1. self' = self /\ top' = top /\ heap' = heap /\ problem' = problem /\ run' \in [Rule -> Results] /\ Remembers
  BY DEF Idles
<1>2. TypeInv'
  BY <1>1 DEF TypeInv
<1>3. GraphsInv'
  BY <1>1 DEF GraphsInv, Chains, Drafts
<1>4. KnownInv'
  BY <1>1, NodeKinds DEF KnownInv, Remembers
<1> QED BY <1>2, <1>3, <1>4

(* The rules of a new graph that have not been looked at before are rules of the graph.  *)
LEMMA ConsideredSome ==
  ASSUME NEW g, g.nodes \subseteq Node
  PROVE  Considered(g) \in Seq(g.nodes \cap (Production \cup {Final}))
<1> DEFINE S == (g.nodes \cap Production) \ graph.nodes
<1>1. IsFiniteSet(S)
  BY NodeFinite, FS_Subset
<1>2. SetToSeq(S) \in Seq(S)
  <2> HIDE DEF S
  <2> QED BY <1>1, ListOfSet
<1>3. S \subseteq g.nodes \cap (Production \cup {Final})
  OBVIOUS
<1> HIDE DEF S
<1>4. SetToSeq(S) \in Seq(g.nodes \cap (Production \cup {Final}))
  BY <1>2, <1>3
<1> QED BY <1>4 DEF Considered, S

(* Gathering rules and looking at their preconditions adds arcs with the right ends,
   and nothing else the chains depend on. *)
LEMMA GatherSteps ==
  ASSUME Inv,
         \/ GatherRule \/ ConsiderInputs
         \/ \E q \in Precondition : DismissRule(q) \/ SkipSatisfied(q) \/ RejectPre(q) \/ EvaluatePre(q) \/ PostponePre(q)
  PROVE  Inv'
<1> DEFINE R == Production \cup {Final}
<1>0. TypeInv /\ GatherInv /\ HeapInv /\ GraphsInv /\ KnownInv
  BY DEF Inv
<1>1. Gathering
  BY DEF GatherRule, ConsiderInputs, DismissRule, SkipSatisfied, RejectPre, EvaluatePre, PostponePre, ConsiderPre, Gathering
<1>2. /\ DOMAIN graph = {"nodes", "arc"} /\ Sketched(graph.nodes, graph.arc)
      /\ todo \in Seq(graph.nodes \cap R)
      /\ cur \in [rule : graph.nodes \cap R, pre : Seq(Precondition)]
      /\ cur.pre # <<>> => cur.rule \in Production
      /\ failed \subseteq Rule
      /\ self = NoChain /\ top = NoChain /\ heap = {}
      /\ problem \in Problem /\ run \in [Rule -> Results] /\ graph.nodes \subseteq Node
  BY <1>0, <1>1 DEF GatherInv, HeapInv, TypeInv, Sketched, Gathered
<1>3. cur.rule \in graph.nodes /\ cur.rule \in R /\ cur.pre \in Seq(Precondition) /\ cur = [rule |-> cur.rule, pre |-> cur.pre]
  BY <1>2
\* What is left to show.
<1> DEFINE Goal == /\ Idles /\ phase' \in {"gather", "consider", "done"}
                   /\ phase' # "done" =>
                        /\ DOMAIN graph' = {"nodes", "arc"} /\ Sketched(graph'.nodes, graph'.arc)
                        /\ todo' \in Seq(graph'.nodes \cap R)
                        /\ cur' \in [rule : graph'.nodes \cap R, pre : Seq(Precondition)]
                        /\ cur'.pre # <<>> => cur'.rule \in Production
                        /\ failed' \subseteq Rule
<1>4. Goal => Inv'
  <2> SUFFICES ASSUME Goal PROVE Inv'
    OBVIOUS
  <2>1. TypeInv' /\ GraphsInv' /\ KnownInv'
    BY <1>0, IdleKeeps
  <2>2. self' = NoChain /\ top' = NoChain /\ heap' = {}
    BY <1>2 DEF Idles
  <2>3. GatherInv' /\ HeapInv' /\ DraftsInv' /\ StepsInv'
    BY <2>2 DEF GatherInv, HeapInv, DraftsInv, StepsInv, Gathering, Searching
  <2> QED BY <2>1, <2>3 DEF Inv
<1>5. ASSUME GatherRule PROVE Goal
  <2>1. /\ todo # <<>> /\ cur' = [rule |-> Head(todo), pre |-> IF Head(todo) = Final THEN <<>> ELSE Pre(Head(todo))]
        /\ todo' = Tail(todo) /\ phase' = "consider" /\ graph' = graph /\ failed' = failed
        /\ UNCHANGED <<self, top, heap, problem, run>>
    BY <1>5 DEF GatherRule
  <2>2. Head(todo) \in graph.nodes \cap R /\ Tail(todo) \in Seq(graph.nodes \cap R)
    BY <1>2, <2>1
  <2>3. Head(todo) # Final => Pre(Head(todo)) \in Seq(Precondition) /\ Head(todo) \in Production
    BY <1>2, <2>2, ProblemFacts
  <2>4. Idles
    BY <1>2, <2>1 DEF Idles, Remembers
  <2> QED BY <1>2, <2>1, <2>2, <2>3, <2>4
\* A precondition is considered.
<1>6. ASSUME NEW q \in Precondition, ConsiderPre(q)
      PROVE  /\ cur.rule \in Production /\ cur.rule \in Rule /\ q \in Rule
             /\ Tail(cur.pre) \in Seq(Precondition) /\ UNCHANGED <<self, top, heap, problem>>
  <2>1. cur.pre # <<>>
    BY <1>6 DEF ConsiderPre
  <2> QED BY <1>2, <1>3, <1>6, <2>1, NodeKinds DEF ConsiderPre
<1>7. ASSUME NEW q \in Precondition, NextPre
      PROVE  cur' = [rule |-> cur.rule, pre |-> Tail(cur.pre)]
  BY <1>3, <1>7 DEF NextPre
<1>8. ASSUME NEW q \in Precondition, DismissRule(q) PROVE Goal
  <2>1. /\ ConsiderPre(q) /\ run' = [run EXCEPT ![cur.rule] = "infeasible"] /\ phase' = "gather"
        /\ UNCHANGED <<graph, todo, cur, failed>>
    BY <1>8 DEF DismissRule
  <2>2. Idles
    BY <1>2, <1>6, <2>1 DEF Idles, Remembers, Results
  <2> QED BY <1>2, <2>1, <2>2
<1>9. ASSUME NEW q \in Precondition, SkipSatisfied(q) PROVE Goal
  <2>1. ConsiderPre(q) /\ NextPre /\ phase = "consider" /\ UNCHANGED <<run, phase, graph, todo, failed>>
    BY <1>9 DEF SkipSatisfied, ConsiderPre
  <2>2. Idles
    BY <1>2, <1>6, <2>1 DEF Idles, Remembers
  <2>3. cur' = [rule |-> cur.rule, pre |-> Tail(cur.pre)] /\ cur.rule \in Production /\ Tail(cur.pre) \in Seq(Precondition)
    BY <1>6, <1>7, <2>1
  <2> QED BY <1>2, <1>3, <2>1, <2>2, <2>3
\* The graph with the inputs of a rule, and the list of rules that are new in it.
<1>10. ASSUME NEW r \in Rule \cup {Final}, NEW nodes \in SUBSET Node, r \in graph.nodes \cup nodes
       PROVE  LET h == WithInputs(r, nodes)
              IN  /\ DOMAIN h = {"nodes", "arc"} /\ Sketched(h.nodes, h.arc) /\ graph.nodes \cup nodes \subseteq h.nodes
                  /\ h.nodes \subseteq Node
                  /\ todo \o Considered(h) \in Seq(h.nodes \cap R)
                  /\ cur.rule \in h.nodes \cap R
  <2> DEFINE h == WithInputs(r, nodes)
  <2>1. DOMAIN h = {"nodes", "arc"} /\ Sketched(h.nodes, h.arc) /\ graph.nodes \cup nodes \subseteq h.nodes
    BY <1>2, <1>10, WithInputsSketched
  <2> HIDE DEF h
  <2>2. h.nodes \subseteq Node
    BY <2>1 DEF Sketched, Gathered
  <2>3. Considered(h) \in Seq(h.nodes \cap R)
    BY <2>2, ConsideredSome
  <2>4. todo \in Seq(h.nodes \cap R)
    BY <1>2, <2>1
  <2>5. todo \o Considered(h) \in Seq(h.nodes \cap R)
    BY <2>3, <2>4
  <2> QED BY <1>3, <2>1, <2>2, <2>5 DEF h
<1>11. ASSUME NEW q \in Precondition, RejectPre(q) PROVE Goal
  <2>1. /\ ConsiderPre(q) /\ graph' = WithInputs(q, {q}) /\ todo' = todo \o Considered(graph')
        /\ failed' = failed \cup {cur.rule, q}
        /\ run' = [run EXCEPT ![cur.rule] = "infeasible", ![q] = "infeasible"]
        /\ phase' = "gather" /\ cur' = cur
    BY <1>11 DEF RejectPre
  <2>2. Idles
    BY <1>2, <1>6, <2>1 DEF Idles, Remembers, Results
  <2>3. q \in Rule \cup {Final} /\ {q} \in SUBSET Node /\ q \in graph.nodes \cup {q}
    BY NodeKinds
  <2>4. /\ DOMAIN graph' = {"nodes", "arc"} /\ Sketched(graph'.nodes, graph'.arc)
        /\ todo' \in Seq(graph'.nodes \cap R) /\ cur.rule \in graph'.nodes \cap R
    BY <2>1, <2>3, <1>10
  <2> QED BY <1>2, <1>3, <1>6, <2>1, <2>2, <2>4
<1>12. ASSUME NEW q \in Precondition, EvaluatePre(q) PROVE Goal
  <2>1. ConsiderPre(q) /\ phase = "consider" /\ graph' = graph /\ todo' = todo
    BY <1>12 DEF EvaluatePre, ConsiderPre
  <2>2. CASE Run(q, TRUE) /\ NextPre /\ UNCHANGED <<phase, failed>>
    <3>1. run' = [run EXCEPT ![q] = "OK"]
      BY <2>2 DEF Run
    <3>2. Idles
      BY <1>2, <1>6, <2>1, <3>1 DEF Idles, Remembers, Results
    <3>3. cur' = [rule |-> cur.rule, pre |-> Tail(cur.pre)] /\ cur.rule \in Production /\ Tail(cur.pre) \in Seq(Precondition)
      BY <1>6, <1>7, <2>1, <2>2
    <3> QED BY <1>2, <1>3, <2>1, <2>2, <3>2, <3>3
  <2>3. CASE /\ run' = [run EXCEPT ![q] = "failed", ![cur.rule] = "infeasible"]
             /\ failed' = failed \cup {cur.rule} /\ phase' = "gather" /\ cur' = cur
    <3>1. Idles
      BY <1>2, <1>6, <2>1, <2>3 DEF Idles, Remembers, Results
    <3> QED BY <1>2, <1>6, <2>1, <2>3, <3>1
  <2> QED BY <1>12, <2>2, <2>3 DEF EvaluatePre
<1>13. ASSUME NEW q \in Precondition, PostponePre(q) PROVE Goal
  <2> DEFINE g == IF q \in graph.nodes THEN graph ELSE WithInputs(q, {q})
             new == [a \in {<<q, cur.rule>>} |-> Unique]
  <2>1. /\ ConsiderPre(q) /\ NextPre /\ phase = "consider" /\ UNCHANGED <<run, phase, failed>>
        /\ graph' = [g EXCEPT !.arc = Joined(@, new)] /\ todo' = todo \o Considered(g)
    BY <1>13 DEF PostponePre, ConsiderPre
  <2>2. Idles
    BY <1>2, <1>6, <2>1 DEF Idles, Remembers
  <2>3. cur' = [rule |-> cur.rule, pre |-> Tail(cur.pre)] /\ cur.rule \in Production /\ Tail(cur.pre) \in Seq(Precondition)
    BY <1>6, <1>7, <2>1
  <2>4. /\ DOMAIN g = {"nodes", "arc"} /\ Sketched(g.nodes, g.arc) /\ q \in g.nodes /\ g.nodes \subseteq Node
        /\ todo \o Considered(g) \in Seq(g.nodes \cap R) /\ cur.rule \in g.nodes \cap R
    <3>1. CASE q \in graph.nodes
      <4>1. g = graph
        BY <3>1
      <4>2. Considered(graph) \in Seq(graph.nodes \cap R)
        BY <1>2, ConsideredSome
      <4>3. todo \o Considered(graph) \in Seq(graph.nodes \cap R)
        BY <1>2, <4>2
      <4> QED BY <1>2, <1>3, <3>1, <4>1, <4>3
    <3>2. CASE q \notin graph.nodes
      <4>1. g = WithInputs(q, {q})
        BY <3>2
      <4>2. q \in Rule \cup {Final} /\ {q} \in SUBSET Node /\ q \in graph.nodes \cup {q}
        BY NodeKinds
      <4> HIDE DEF g
      <4> QED BY <1>10, <4>1, <4>2
    <3> QED BY <3>1, <3>2
  <2> HIDE DEF g
  <2>5. Sketched(g.nodes, new)
    <3>1. {<<q, cur.rule>>} \in ArcsAmong
      BY <1>6, <2>1, NodeKinds DEF ArcsAmong
    <3>2. new \in ArcStates
      BY <3>1 DEF ArcStates, Unique
    <3>3. Gathered(g.nodes, new)
      BY <2>3, <2>4 DEF Gathered
    <3> QED BY <3>2, <3>3 DEF Sketched
  <2> HIDE DEF new
  <2>6. Sketched(g.nodes, Joined(g.arc, new))
    BY <2>4, <2>5, SketchesMerge
  <2>7. graph'.nodes = g.nodes /\ graph'.arc = Joined(g.arc, new) /\ DOMAIN graph' = {"nodes", "arc"}
    BY <2>1, <2>4
  <2> QED BY <1>2, <2>1, <2>2, <2>3, <2>4, <2>6, <2>7
<1>14. ASSUME ConsiderInputs PROVE Goal
  <2>1. /\ cur.pre = <<>> /\ UNCHANGED <<problem, cur, self, top, heap>>
        /\ graph' = WithInputs(cur.rule, {}) /\ todo' = todo \o Considered(graph')
    BY <1>14 DEF ConsiderInputs
  <2>2. cur.rule \in Rule \cup {Final} /\ {} \in SUBSET Node /\ cur.rule \in graph.nodes \cup {}
    BY <1>3, NodeKinds
  <2>3. /\ DOMAIN graph' = {"nodes", "arc"} /\ Sketched(graph'.nodes, graph'.arc)
        /\ todo' \in Seq(graph'.nodes \cap R) /\ cur.rule \in graph'.nodes \cap R
    BY <2>1, <2>2, <1>10
  <2>4. \/ phase' \in {"gather", "done"} /\ UNCHANGED <<run, failed>>
        \/ /\ cur.rule # Final /\ run' = [run EXCEPT ![cur.rule] = "infeasible"]
           /\ failed' = failed \cup {cur.rule} /\ phase' = "gather"
    BY <1>14 DEF ConsiderInputs, Answer
  <2>5. Idles
    BY <1>2, <1>3, <2>1, <2>4, NodeKinds DEF Idles, Remembers, Results
  <2>6. failed' \subseteq Rule
    BY <1>2, <1>3, <2>4, NodeKinds
  <2> QED BY <1>2, <1>3, <2>1, <2>3, <2>4, <2>5, <2>6
<1> HIDE DEF Goal
<1> QED BY <1>4, <1>5, <1>8, <1>9, <1>11, <1>12, <1>13, <1>14

(***************************************************************************)
(* The chains after a step.                                                *)
(***************************************************************************)

\* A chain that may be extended or executed, and the initial chain.
GoodDraft(c) == c \in ChainType /\ Exact(c.g) /\ (Clean(c.g) \/ Kept(c.g))
GoodSelf(c) == c \in ChainType /\ Exact(c.g) /\ Kept(c.g)
GoodHeap(agents) == \A a \in agents : a \in AgentType /\ GoodDraft(a.chain)

\* Nothing that is scheduled in the initial chain is left to be added to chain c, or has been.
Follows(c, s) == Behind(s.g, c.g) /\ ToSet(c.rules) \cap s.g.sched = {}
FollowingHeap(agents, s) == \A a \in agents : Follows(a.chain, s)

(* The invariant, chain by chain.                                                        *)
LEMMA ChainsNow ==
  ASSUME Inv
  PROVE  /\ problem \in Problem /\ run \in [Rule -> Results]
         /\ GoodSelf(self) /\ GoodDraft(top) /\ GoodHeap(heap)
         /\ Searching => Follows(top, self) /\ FollowingHeap(heap, self)
<1>1. TypeInv /\ GraphsInv /\ DraftsInv
  BY DEF Inv
<1>2. top \in Drafts /\ top \in Chains /\ self \in Chains
  BY DEF Drafts, Chains
<1>3. \A a \in heap : a.chain \in Drafts /\ a.chain \in Chains
  BY DEF Drafts, Chains
<1>4. GoodHeap(heap)
  <2> SUFFICES ASSUME NEW a \in heap PROVE a \in AgentType /\ GoodDraft(a.chain)
    BY DEF GoodHeap
  <2>1. a \in AgentType /\ a.chain \in ChainType
    BY <1>1 DEF TypeInv, AgentType
  <2> QED BY <1>1, <1>3, <2>1 DEF GoodDraft, GraphsInv
<1>5. GoodSelf(self) /\ GoodDraft(top)
  BY <1>1, <1>2 DEF GoodSelf, GoodDraft, GraphsInv, TypeInv
<1>6. Searching => Follows(top, self) /\ FollowingHeap(heap, self)
  BY <1>1, <1>2, <1>3 DEF DraftsInv, Follows, FollowingHeap
<1> QED BY <1>1, <1>4, <1>5, <1>6 DEF TypeInv

(* What remains to be shown of a step for the chains.                                    *)
LEMMA ChainsNext ==
  ASSUME problem' \in Problem, run' \in [Rule -> Results],
         GoodSelf(self'), GoodDraft(top'), GoodHeap(heap'),
         Searching' => Follows(top', self') /\ FollowingHeap(heap', self'),
         \A q \in self'.g.sched \cap Precondition : run'[q] # "none"
  PROVE  TypeInv' /\ GraphsInv' /\ DraftsInv' /\ KnownInv'
<1>1. \A a \in heap' : a \in AgentType /\ GoodDraft(a.chain)
  BY DEF GoodHeap
<1>2. TypeInv'
  BY <1>1 DEF TypeInv, GoodSelf, GoodDraft
<1>3. \A c \in Drafts' : GoodDraft(c)
  <2>1. \A c \in Drafts' : c = top' \/ \E a \in heap' : c = a.chain
    BY DEF Drafts
  <2> QED BY <1>1, <2>1
<1>4. \A c \in Chains' : c = self' \/ c \in Drafts'
  BY DEF Chains, Drafts
<1>5. GraphsInv'
  BY <1>3, <1>4 DEF GraphsInv, GoodSelf, GoodDraft
<1>6. DraftsInv'
  <2> SUFFICES ASSUME Searching' PROVE \A c \in Drafts' : Behind(self'.g, c.g) /\ ToSet(c.rules) \cap self'.g.sched = {}
    BY DEF DraftsInv
  <2>1. \A c \in Drafts' : c = top' \/ \E a \in heap' : c = a.chain
    BY DEF Drafts
  <2>2. \A c \in Drafts' : Follows(c, self')
    BY <2>1 DEF FollowingHeap
  <2> QED BY <2>2 DEF Follows
<1>7. KnownInv'
  BY DEF KnownInv
<1> QED BY <1>2, <1>5, <1>6, <1>7

(* The parts of a chain.                                                                 *)
LEMMA ChainParts ==
  ASSUME NEW c \in ChainType
  PROVE  /\ c = [g |-> c.g, rules |-> c.rules, weight |-> c.weight, verts |-> c.verts]
         /\ c.g \in States /\ c.rules \in Seq(Production) /\ c.weight \in Nat /\ c.verts \subseteq Property
         /\ \E D \in ArcsAmong : c.g \in GraphOver(D)
  BY DEF ChainType, States

(* A list whose elements are of a certain kind.                                          *)
LEMMA ListOf ==
  ASSUME NEW T, NEW list \in Seq(T), NEW S, ToSet(list) \subseteq S
  PROVE  list \in Seq(S)
<1>1. \A i \in DOMAIN list : list[i] \in S
  BY ListFolded
<1>2. DOMAIN list = 1..Len(list) /\ Len(list) \in Nat /\ list = [i \in 1..Len(list) |-> list[i]]
  OBVIOUS
<1>3. list \in [1..Len(list) -> S]
  BY <1>1, <1>2
<1> QED BY <1>2, <1>3

(* A rule that could be added to a chain is not in the initial chain.                    *)
LEMMA ReadyNew ==
  ASSUME NEW c, NEW s, GoodDraft(c), Follows(c, s), NEW r \in Rule, r \in c.g.ready \cup c.g.flagged
  PROVE  r \in c.g.flagged /\ r \in c.g.alive /\ r \notin c.g.sched /\ r \notin s.g.sched
<1>1. c.g.flagged \subseteq c.g.alive \ (c.g.sched \cup Property) /\ c.g.ready \subseteq c.g.flagged
  BY DEF GoodDraft, Exact, Flags, Work
<1> QED BY <1>1 DEF Follows, Behind

(* The ready list does not matter for what is known of a chain.                          *)
LEMMA ReadyDropped ==
  ASSUME NEW c, GoodDraft(c), NEW X
  PROVE  LET d == [c EXCEPT !.g.ready = @ \ X]
         IN  /\ GoodDraft(d) /\ d.g = [c.g EXCEPT !.ready = @ \ X] /\ d.rules = c.rules
             /\ \A s : Follows(c, s) => Follows(d, s)
<1> DEFINE h == [c.g EXCEPT !.ready = @ \ X]
           d == [c EXCEPT !.g.ready = @ \ X]
<1>1. c \in ChainType /\ Exact(c.g) /\ (Clean(c.g) \/ Kept(c.g))
  BY DEF GoodDraft
<1>2. c = [g |-> c.g, rules |-> c.rules, weight |-> c.weight, verts |-> c.verts]
  BY <1>1, ChainParts
<1>3. PICK D \in ArcsAmong : c.g \in GraphOver(D)
  BY <1>1, ChainParts
<1>4. d = [g |-> h, rules |-> c.rules, weight |-> c.weight, verts |-> c.verts]
  BY <1>2
<1>5. /\ h \in GraphOver(D) /\ Exact(h) /\ (Clean(h) <=> Clean(c.g)) /\ (Kept(h) <=> Kept(c.g))
      /\ h.alive = c.g.alive /\ h.sched = c.g.sched
  BY <1>1, <1>3, ReadyTaken
<1> HIDE DEF h, d
<1>6. d \in ChainType /\ d.g = h /\ d.rules = c.rules
  BY <1>1, <1>3, <1>4, <1>5 DEF ChainType, States
<1>7. GoodDraft(d)
  BY <1>1, <1>5, <1>6 DEF GoodDraft
<1>8. \A s : Follows(c, s) => Follows(d, s)
  BY <1>5, <1>6 DEF Follows, Behind
<1> QED BY <1>6, <1>7, <1>8 DEF d, h

(***************************************************************************)
(* The initial chain.                                                      *)
(***************************************************************************)

(* What is left of a sketch after an elimination is a sketch.                            *)
LEMMA ShrunkGathered ==
  ASSUME NEW D \in ArcsAmong, NEW g \in GraphOver(D), NEW h \in GraphOver(D),
         Gathered(g.alive, g.arc), Shrunk(g, h), Linked(h)
  PROVE  Gathered(h.alive, h.arc)
<1>1. PICK E \in SUBSET Node :
        /\ h.alive = g.alive \ E
        /\ \A a \in DOMAIN g.arc : h.arc[a] = IF a[1] \in E \/ a[2] \in E THEN Inactive ELSE g.arc[a]
  BY DEF Shrunk
<1>2. DOMAIN g.arc = D /\ DOMAIN h.arc = D /\ g.alive \subseteq Node /\ h.alive \subseteq Node
  BY DEF GraphOver
<1> SUFFICES ASSUME NEW a \in D, h.arc[a] # Inactive
             PROVE  /\ a[1] \in h.alive /\ a[2] \in h.alive
                    /\ \/ a[1] \in Property /\ a[2] \in Rule \cup {Final} /\ h.arc[a] >= Source
                       \/ a[1] \in Production /\ a[2] \in Property /\ h.arc[a] = Source
                       \/ a[1] \in Precondition /\ a[2] \in Production /\ h.arc[a] = Unique
  BY <1>2 DEF Gathered
<1>3. h.arc[a] = g.arc[a] /\ a[1] \notin E /\ a[2] \notin E
  BY <1>1, <1>2
<1> QED BY <1>1, <1>2, <1>3 DEF Gathered

(* finalize_gather: the initial chain is exact, whether the elimination succeeds or not.  *)
LEMMA InitialChain ==
  ASSUME Sketched(graph.nodes, graph.arc), failed \subseteq Rule
  PROVE  LET bare == [InitState(graph.nodes, graph.arc) EXCEPT !.flagged = {}, !.ready = {}]
             done == IF failed = {} THEN Work(bare, {}) ELSE EliminateRules(bare, failed, Optional)
             c == [NoChain EXCEPT !.g = InitState(done.g.alive, done.g.arc)]
         IN  GoodSelf(c) /\ c.g.sched = {} /\ c.rules = <<>>
<1> DEFINE first == InitState(graph.nodes, graph.arc)
           bare == [first EXCEPT !.flagged = {}, !.ready = {}]
           done == IF failed = {} THEN Work(bare, {}) ELSE EliminateRules(bare, failed, Optional)
           g == InitState(done.g.alive, done.g.arc)
           c == [NoChain EXCEPT !.g = g]
<1>1. PICK D \in ArcsAmong : graph.arc \in [D -> Nat] /\ Gathered(graph.nodes, graph.arc)
  BY DEF Sketched, ArcStates
<1>2. /\ first \in GraphOver(D) /\ Exact(first) /\ first.arc = graph.arc
      /\ first.alive = graph.nodes /\ first.sched = {}
  BY <1>1, InitStateExact
<1> HIDE DEF first
<1>3. /\ bare \in GraphOver(D) /\ Sound(Work(bare, {})) /\ bare.arc = graph.arc
      /\ bare.alive = graph.nodes /\ bare.sched = {}
  BY <1>2, BareSound DEF Exact
<1> HIDE DEF bare
<1>4. done.g \in GraphOver(D) /\ Gathered(done.g.alive, done.g.arc)
  <2>1. CASE failed = {}
    <3>1. done.g = bare
      BY <2>1 DEF Work
    <3> HIDE DEF done
    <3> QED BY <1>1, <1>3, <3>1
  <2>2. CASE failed # {}
    <3>1. done = EliminateRules(bare, failed, Initial)
      BY <2>2 DEF Optional
    <3>2. failed \in SUBSET Node /\ failed \cap bare.sched = {} /\ Initial \in {Weak, Initial}
      BY <1>3, NodeKinds
    <3>3. done \in WorkOver(D) /\ Linked(done.g) /\ Shrunk(bare, done.g)
      <4> HIDE DEF done
      <4> QED BY <1>3, <3>1, <3>2, EliminateRulesSound
    <3> HIDE DEF done
    <3>4. done.g \in GraphOver(D)
      BY <3>3 DEF WorkOver
    <3> QED BY <1>1, <1>3, <3>3, <3>4, ShrunkGathered
  <2> QED BY <2>1, <2>2
<1> HIDE DEF done
<1>5. g \in GraphOver(D) /\ Exact(g) /\ Kept(g) /\ g.sched = {}
  <2>1. done.g.arc \in [D -> Nat]
    BY <1>4 DEF GraphOver
  <2> QED BY <1>4, <2>1, InitStateExact
<1> HIDE DEF g
<1>6. NoChain \in ChainType /\ NoChain.rules = <<>>
  BY NoChainExact
<1>7. c = [g |-> g, rules |-> NoChain.rules, weight |-> NoChain.weight, verts |-> NoChain.verts] /\ c \in ChainType
  <2>1. c = [g |-> g, rules |-> NoChain.rules, weight |-> NoChain.weight, verts |-> NoChain.verts]
    BY <1>6, ChainParts
  <2>2. g \in States
    BY <1>5 DEF States
  <2> QED BY <1>6, <2>1, <2>2, ChainParts DEF ChainType
<1>8. c.g = g /\ c.rules = <<>>
  BY <1>6, <1>7
<1> HIDE DEF c
<1>9. GoodSelf(c) /\ c.g.sched = {} /\ c.rules = <<>>
  BY <1>5, <1>7, <1>8 DEF GoodSelf
<1> QED BY <1>9 DEF c, g, done, bare, first

(* The search starts with an exact chain.                                                *)
LEMMA FinalizeGatherStep ==
  ASSUME Inv, FinalizeGather PROVE Inv'
<1>1. Gathering /\ problem \in Problem /\ run \in [Rule -> Results]
  BY DEF Inv, TypeInv, FinalizeGather, Gathering
<1>2. Sketched(graph.nodes, graph.arc) /\ failed \subseteq Rule /\ heap = {}
  BY <1>1 DEF Inv, GatherInv, HeapInv
<1>3. GoodSelf(self') /\ self'.g.sched = {} /\ self'.rules = <<>> /\ top' = self'
      /\ phase' \in {"done", "build"} /\ heap' = heap /\ problem' = problem /\ run' = run
  BY <1>2, InitialChain DEF FinalizeGather, Answer
<1>4. GoodDraft(top') /\ GoodHeap(heap') /\ FollowingHeap(heap', self')
  BY <1>2, <1>3 DEF GoodSelf, GoodDraft, GoodHeap, FollowingHeap
<1>5. Follows(top', self')
  BY <1>3 DEF Follows, Behind
<1>6. TypeInv' /\ GraphsInv' /\ DraftsInv' /\ KnownInv'
  BY <1>1, <1>3, <1>4, <1>5, ChainsNext
<1>7. GatherInv' /\ HeapInv' /\ StepsInv'
  BY <1>3 DEF GatherInv, HeapInv, StepsInv, Gathering
<1> QED BY <1>6, <1>7 DEF Inv

(***************************************************************************)
(* Steps that leave the graphs of all chains alone.                        *)
(***************************************************************************)

(* The chains stay as they are, and no result is forgotten.                              *)
LEMMA IdleChains ==
  ASSUME Inv, Idles, Searching' => Searching
  PROVE  TypeInv' /\ GraphsInv' /\ DraftsInv' /\ KnownInv'
<1>1. TypeInv' /\ GraphsInv' /\ KnownInv'
  BY IdleKeeps DEF Inv
<1>2. self' = self /\ top' = top /\ heap' = heap
  BY DEF Idles
<1>3. DraftsInv'
  BY <1>2 DEF Inv, DraftsInv, Drafts
<1> QED BY <1>1, <1>3

(* Running a rule.                                                                       *)
LEMMA RunIdles ==
  ASSUME Inv, NEW r \in Rule, NEW ok \in BOOLEAN, Run(r, ok)
  PROVE  run' \in [Rule -> Results] /\ Remembers
<1>1. run \in [Rule -> Results] /\ run' = [run EXCEPT ![r] = IF ok THEN "OK" ELSE "failed"]
  BY DEF Inv, TypeInv, Run
<1> QED BY <1>1 DEF Results, Remembers

(* Choosing the preconditions to be checked, checking them, and running their suppliers. *)
LEMMA CheckSteps ==
  ASSUME Inv, CheckPending \/ ExecuteSupplier \/ \E q \in Precondition : CheckPre(q)
  PROVE  Inv'
<1>1. /\ problem \in Problem /\ run \in [Rule -> Results] /\ top \in ChainType
      /\ Searching => Follows(top, self) /\ FollowingHeap(heap, self)
  BY ChainsNow DEF GoodDraft
\* What is left to show.
<1> DEFINE Goal == /\ Idles /\ phase' = "suppliers" /\ phase \in {"build", "suppliers"}
                   /\ todo' \in Seq(Production) /\ checks' \subseteq Precondition /\ failed' \subseteq Rule
                   /\ (ToSet(todo') \cup checks' \cup failed') \cap self.g.sched = {}
                   /\ worked' \in Seq(Rule)
<1>2. Goal => Inv'
  <2> SUFFICES ASSUME Goal PROVE Inv'
    OBVIOUS
  <2>1. TypeInv' /\ GraphsInv' /\ DraftsInv' /\ KnownInv'
    BY IdleChains DEF Searching
  <2>2. GatherInv' /\ HeapInv' /\ StepsInv'
    BY DEF GatherInv, HeapInv, StepsInv, Gathering, Idles
  <2> QED BY <2>1, <2>2 DEF Inv
<1>3. ASSUME CheckPending PROVE Goal
  <2>1. PICK now : /\ now = Pending \ TooExpensive /\ phase = "build" /\ phase' = "suppliers"
                   /\ todo' = Only(top.rules, SuppliersToRun(now)) /\ checks' = now
                   /\ failed' = {} /\ worked' = <<>> /\ UNCHANGED <<problem, run, self, top, heap>>
    BY <1>3 DEF CheckPending
  <2>2. Idles
    BY <1>1, <2>1 DEF Idles, Remembers
  <2>3. todo' \in Seq(Production) /\ ToSet(todo') \subseteq ToSet(top.rules)
    BY <1>1, <2>1, ChainParts, OnlySome
  <2>4. ToSet(todo') \cap self.g.sched = {}
    BY <1>1, <2>1, <2>3 DEF Searching, Follows
  <2>5. checks' \subseteq Precondition /\ checks' \cap self.g.sched = {}
    BY <2>1 DEF Pending, ReadyPre, Inv, KnownInv
  <2>6. worked' \in Seq(Rule) /\ failed' \subseteq Rule /\ failed' \cap self.g.sched = {}
    BY <2>1
  <2>7. phase' = "suppliers" /\ phase \in {"build", "suppliers"}
    BY <2>1
  <2>8. (ToSet(todo') \cup checks' \cup failed') \cap self.g.sched = {}
    BY <2>4, <2>5, <2>6
  <2> QED BY ONLY <2>2, <2>3, <2>5, <2>6, <2>7, <2>8
<1>4. phase = "suppliers" =>
        /\ todo \in Seq(Production) /\ checks \subseteq Precondition /\ failed \subseteq Rule
        /\ (ToSet(todo) \cup checks \cup failed) \cap self.g.sched = {} /\ worked \in Seq(Rule)
  BY DEF Inv, StepsInv
<1>5. ASSUME ExecuteSupplier PROVE Goal
  <2> DEFINE r == Head(todo)
  <2>1. /\ phase = "suppliers" /\ phase' = phase /\ todo # <<>> /\ UNCHANGED <<problem, self, top, heap>>
        /\ \/ /\ Run(r, TRUE) /\ worked' = Append(worked, r) /\ todo' = Tail(todo)
              /\ UNCHANGED <<checks, failed>>
           \/ /\ Run(r, FALSE) /\ failed' = {r} /\ todo' = <<>> /\ checks' = {} /\ worked' = worked
    BY <1>5 DEF ExecuteSupplier
  <2>2. /\ r \in Production /\ r \in ToSet(todo) /\ Tail(todo) \in Seq(Production)
        /\ ToSet(Tail(todo)) \subseteq ToSet(todo)
    BY <1>4, <2>1, ListSets
  <2> HIDE DEF r
  <2>3. r \in Rule
    BY <2>2, NodeKinds
  <2>4. Idles
    BY <2>1, <2>3, RunIdles, <1>1 DEF Idles
  <2>5. ToSet(<<>>) = {}
    BY DEF ToSet
  <2>6. CASE Run(r, TRUE) /\ worked' = Append(worked, r) /\ todo' = Tail(todo) /\ UNCHANGED <<checks, failed>>
    BY <1>4, <2>1, <2>2, <2>3, <2>4, <2>6
  <2>7. CASE Run(r, FALSE) /\ failed' = {r} /\ todo' = <<>> /\ checks' = {} /\ worked' = worked
    BY <1>4, <2>1, <2>2, <2>3, <2>4, <2>5, <2>7
  <2> QED BY <2>1, <2>6, <2>7
<1>6. ASSUME NEW q \in Precondition, CheckPre(q) PROVE Goal
  <2>1. /\ phase = "suppliers" /\ phase' = phase /\ q \in checks /\ checks' = checks \ {q}
        /\ UNCHANGED <<problem, todo, worked, self, top, heap>>
        /\ \/ Run(q, TRUE) /\ failed' = failed
           \/ Run(q, FALSE) /\ failed' = failed \cup {q}
    BY <1>6 DEF CheckPre
  <2>2. q \in Rule
    BY NodeKinds
  <2>3. Idles
    BY <2>1, <2>2, RunIdles, <1>1 DEF Idles
  <2> QED BY <1>4, <2>1, <2>2, <2>3
<1> HIDE DEF Goal
<1> QED BY <1>2, <1>3, <1>5, <1>6

(***************************************************************************)
(* Steps of the search.                                                    *)
(***************************************************************************)

(* A step that changes the chain at hand or the heap, and may start the execution.       *)
LEMMA DraftStep ==
  ASSUME Inv, UNCHANGED <<problem, run, self>>,
         GoodDraft(top'), GoodHeap(heap'), Follows(top', self), FollowingHeap(heap', self),
         \/ phase' \in {"build", "trivial", "split", "pop", "done", "died"}
         \/ phase' = "execute" /\ worked' = <<>> /\ todo' = Weave(top'.rules)
  PROVE  Inv'
<1>1. /\ problem \in Problem /\ run \in [Rule -> Results] /\ GoodSelf(self)
      /\ \A q \in self.g.sched \cap Precondition : run[q] # "none"
  BY ChainsNow DEF Inv, KnownInv
<1>2. TypeInv' /\ GraphsInv' /\ DraftsInv' /\ KnownInv'
  BY <1>1, ChainsNext
<1>3. GatherInv' /\ HeapInv'
  BY DEF GatherInv, HeapInv, Gathering
<1>4. StepsInv'
  <2>1. CASE phase' = "execute" /\ worked' = <<>> /\ todo' = Weave(top'.rules)
    <3> DEFINE rules == top'.rules
    <3>1. rules \in Seq(Production) /\ ToSet(rules) \cap self.g.sched = {}
      BY ChainParts DEF GoodDraft, Follows
    <3> HIDE DEF rules
    <3>2. Weave(rules) \in Seq(Rule) /\ ToSet(Weave(rules)) \subseteq ToSet(rules) \cup {q \in Precondition : run[q] = "none"}
      BY <1>1, <3>1, WeaveSome
    <3>3. ToSet(Weave(rules)) \cap self.g.sched = {}
      BY <1>1, <3>1, <3>2
    <3>4. todo' = Weave(rules) /\ self' = self
      BY <2>1 DEF rules
    <3>5. todo' \in Seq(Rule) /\ ToSet(todo') \cap self'.g.sched = {} /\ worked' \in Seq(Rule)
      BY <2>1, <3>2, <3>3, <3>4
    <3> QED BY <2>1, <3>5 DEF StepsInv
  <2>2. CASE phase' \in {"build", "trivial", "split", "pop", "done", "died"}
    BY <2>2 DEF StepsInv
  <2> QED BY <2>1, <2>2
<1> QED BY <1>2, <1>3, <1>4 DEF Inv

(* Steps that only change the phase; the search ends or goes on.                         *)
LEMMA PhaseSteps ==
  ASSUME Inv, EndOfTrivial \/ EndOfSplit \/ PopNone \/ Succeed
  PROVE  Inv'
<1>1. /\ Searching /\ UNCHANGED <<problem, run, self, top, heap>>
      /\ phase' \in {"build", "split", "pop", "done"}
  BY DEF EndOfTrivial, EndOfSplit, PopNone, GiveUp, Succeed, Answer, Searching
<1>2. GoodDraft(top) /\ GoodHeap(heap) /\ Follows(top, self) /\ FollowingHeap(heap, self)
  BY <1>1, ChainsNow
<1>3. GoodDraft(top') /\ GoodHeap(heap') /\ Follows(top', self) /\ FollowingHeap(heap', self)
  BY <1>1, <1>2
<1> QED BY <1>1, <1>3, DraftStep

(* The next chain is taken from the heap.                                                *)
LEMMA PopStep ==
  ASSUME Inv, NEW a \in heap, Pop(a) PROVE Inv'
<1> DEFINE b == [a EXCEPT !.queued = FALSE]
<1>1. /\ phase = "pop" /\ heap' = (heap \ {a}) \cup {b} /\ top' = a.chain /\ UNCHANGED <<problem, run, self>>
      /\ \/ phase' = "build"
         \/ phase' = "execute" /\ worked' = <<>> /\ todo' = Weave(top'.rules)
  BY DEF Pop, StartExecution
<1>2. GoodHeap(heap) /\ FollowingHeap(heap, self)
  BY <1>1, ChainsNow DEF Searching
<1>3. a \in AgentType /\ GoodDraft(a.chain) /\ Follows(a.chain, self)
  BY <1>2 DEF GoodHeap, FollowingHeap
<1>4. b \in AgentType /\ b.chain = a.chain
  BY <1>3 DEF AgentType
<1> HIDE DEF b
<1>5. GoodHeap(heap') /\ FollowingHeap(heap', self)
  BY <1>1, <1>2, <1>3, <1>4 DEF GoodHeap, FollowingHeap
<1>6. GoodDraft(top') /\ Follows(top', self)
  BY <1>1, <1>3
<1> QED BY <1>1, <1>5, <1>6, DraftStep

(* Preconditions are added to the chain at hand.                                         *)
LEMMA SchedulePreStep ==
  ASSUME Inv, SchedulePre PROVE Inv'
<1> DEFINE w == ScheduleAll(top.g, ReadyPre)
           c == [top EXCEPT !.g = w.g]
<1>1. Searching /\ UNCHANGED <<problem, run, self, heap>> /\ phase' \in {"died", "trivial"}
  BY DEF SchedulePre, Searching
<1>2. top' = [top EXCEPT !.g = IF w.ok THEN w.g ELSE [w.g EXCEPT !.ready = {}]]
  BY DEF SchedulePre, ScheduleAll
<1>3. GoodDraft(top) /\ GoodHeap(heap) /\ Follows(top, self) /\ FollowingHeap(heap, self)
      /\ \A q \in self.g.sched \cap Precondition : run[q] # "none"
  BY <1>1, ChainsNow DEF Inv, KnownInv
<1>4. PICK D \in ArcsAmong : top.g \in GraphOver(D)
  BY <1>3, ChainParts DEF GoodDraft
<1>5. ReadyPre \in SUBSET (top.g.ready \cap Precondition)
  BY DEF ReadyPre
<1> HIDE DEF w
<1>6. w \in WorkOver(D) /\ w.ok /\ Prepared(top.g, w.g, ReadyPre, {})
  BY <1>3, <1>4, <1>5, ScheduleAllPrepares DEF GoodDraft, w
<1>7. top \in ChainType /\ w.g \in States
  BY <1>3, <1>6 DEF GoodDraft, WorkOver, States
<1>8. top' = c
  BY <1>2, <1>6
<1>9. c = [g |-> w.g, rules |-> top.rules, weight |-> top.weight, verts |-> top.verts]
  BY <1>7, ChainParts
<1> HIDE DEF c
<1>10. c \in ChainType /\ c.g = w.g /\ c.rules = top.rules
  BY <1>7, <1>9, ChainParts DEF ChainType
<1>11. GoodDraft(c)
  BY <1>6, <1>10 DEF GoodDraft, Prepared
<1>12. Follows(c, self)
  <2>1. w.g.alive \subseteq top.g.alive /\ top.g.sched \cap w.g.alive \subseteq w.g.sched
    BY <1>6 DEF Prepared
  <2> QED BY <1>3, <1>10, <2>1 DEF Follows, Behind
<1>13. GoodDraft(top') /\ Follows(top', self) /\ GoodHeap(heap') /\ FollowingHeap(heap', self)
  BY <1>1, <1>3, <1>8, <1>11, <1>12
<1> QED BY <1>1, <1>13, DraftStep

(* A chain that has been extended by one rule.                                           *)
LEMMA Extended ==
  ASSUME NEW c, GoodDraft(c), NEW s, Follows(c, s), NEW r \in Production, r \in c.g.flagged, r \notin c.g.ready,
         NEW enforced \in {0, 1}, AddScheduledRule(c.g, r, enforced).ok,
         NEW weight \in Nat, NEW verts \in SUBSET Property
  PROVE  LET w == AddScheduledRule(c.g, r, enforced)
             d == [g |-> w.g, rules |-> Append(c.rules, r), weight |-> weight, verts |-> verts]
         IN  GoodDraft(d) /\ Follows(d, s)
<1> DEFINE w == AddScheduledRule(c.g, r, enforced)
           d == [g |-> w.g, rules |-> Append(c.rules, r), weight |-> weight, verts |-> verts]
<1>1. r \in Rule
  BY NodeKinds
<1>2. r \in c.g.alive /\ r \notin c.g.sched /\ r \notin s.g.sched
  BY <1>1, ReadyNew
<1>3. PICK D \in ArcsAmong : c.g \in GraphOver(D)
  BY ChainParts DEF GoodDraft
<1> HIDE DEF w
<1>4. w \in WorkOver(D) /\ Exact(w.g) /\ Clean(w.g) /\ Added(c.g, r, w.g)
  <2>1. FALSE \in BOOLEAN /\ Exact(c.g) /\ w.ok
    BY DEF GoodDraft, w
  <2> QED BY <1>1, <1>2, <1>3, <2>1, AddScheduledRuleSound DEF w
<1>5. w.g \in States
  BY <1>4 DEF WorkOver, States
<1>6. c.rules \in Seq(Production) /\ Append(c.rules, r) \in Seq(Production)
      /\ ToSet(Append(c.rules, r)) = ToSet(c.rules) \cup {r}
  BY ChainParts, ListSets DEF GoodDraft
<1>7. d \in ChainType
  BY <1>5, <1>6 DEF ChainType
<1>8. GoodDraft(d)
  BY <1>4, <1>7 DEF GoodDraft
<1>9. Follows(d, s)
  <2>1. Behind(s.g, w.g)
    BY <1>4 DEF Follows, Behind, Added
  <2>2. ToSet(d.rules) \cap s.g.sched = {}
    BY <1>2, <1>6 DEF Follows
  <2> QED BY <2>1, <2>2 DEF Follows
<1> QED BY <1>8, <1>9 DEF w

(* A rule of minimal weight is added to the chain at hand.                               *)
LEMMA ScheduleTrivialStep ==
  ASSUME Inv, NEW r \in Production, ScheduleTrivial(r) PROVE Inv'
<1> DEFINE stem == [top EXCEPT !.g.ready = @ \ {r}]
           w == AddScheduledRule([top.g EXCEPT !.ready = @ \ {r}], r, 1)
           chain == [top EXCEPT !.g = w.g, !.rules = Append(@, r)]
           bare == [top EXCEPT !.g.ready = {}]
<1>1. /\ phase = "trivial" /\ r \in top.g.ready /\ UNCHANGED <<problem, run, self, heap>>
      /\ \/ w.ok /\ top' = chain /\ phase' = "execute" /\ worked' = <<>> /\ todo' = Weave(top'.rules)
         \/ w.ok /\ top' = chain /\ phase' = phase
         \/ top' = bare /\ phase' = phase
  BY DEF ScheduleTrivial, StartExecution
<1>2. GoodDraft(top) /\ GoodHeap(heap) /\ Follows(top, self) /\ FollowingHeap(heap, self)
  BY <1>1, ChainsNow DEF Searching
<1>3. r \in Rule /\ r \in top.g.flagged
  BY <1>1, <1>2, NodeKinds, ReadyNew
<1>4. top \in ChainType
  BY <1>2 DEF GoodDraft
<1>5. PICK D \in ArcsAmong : top.g \in GraphOver(D)
  BY <1>4, ChainParts
<1>6. /\ GoodDraft(stem) /\ Follows(stem, self) /\ stem.rules = top.rules
      /\ stem.g = [top.g EXCEPT !.ready = @ \ {r}]
  BY <1>2, ReadyDropped
<1>7. r \in stem.g.flagged /\ r \notin stem.g.ready
  BY <1>3, <1>5, <1>6 DEF GraphOver
<1> HIDE DEF stem
<1>8. w = AddScheduledRule(stem.g, r, 1)
  BY <1>6
<1>9. chain = [g |-> w.g, rules |-> Append(stem.rules, r), weight |-> top.weight, verts |-> top.verts]
  <2> HIDE DEF w
  <2>1. top = [g |-> top.g, rules |-> top.rules, weight |-> top.weight, verts |-> top.verts]
    BY <1>4, ChainParts
  <2>2. chain = [g |-> w.g, rules |-> Append(top.rules, r), weight |-> top.weight, verts |-> top.verts]
    <3> DEFINE moved == [top EXCEPT !.g = w.g]
    <3>1. chain = [moved EXCEPT !.rules = Append(@, r)]
      OBVIOUS
    <3>2. moved = [g |-> w.g, rules |-> top.rules, weight |-> top.weight, verts |-> top.verts]
      BY <2>1
    <3> HIDE DEF moved, chain
    <3> QED BY <3>1, <3>2
  <2> HIDE DEF chain
  <2> QED BY ONLY <1>6, <2>2
<1>10. top.weight \in Nat /\ top.verts \in SUBSET Property
  BY <1>4, ChainParts
<1> HIDE DEF w, chain
<1>11. w.ok => GoodDraft(chain) /\ Follows(chain, self)
  <2> SUFFICES ASSUME w.ok PROVE GoodDraft(chain) /\ Follows(chain, self)
    OBVIOUS
  <2>1. 1 \in {0, 1} /\ AddScheduledRule(stem.g, r, 1).ok
    BY <1>8
  <2> QED BY ONLY <1>6, <1>7, <1>8, <1>9, <1>10, <2>1, Extended
<1>12. GoodDraft(bare) /\ Follows(bare, self)
  <2> DEFINE d == [top EXCEPT !.g.ready = @ \ top.g.ready]
  <2>1. GoodDraft(d) /\ Follows(d, self)
    BY <1>2, ReadyDropped
  <2>2. d = bare
    OBVIOUS
  <2> HIDE DEF d, bare
  <2> QED BY <2>1, <2>2
<1> HIDE DEF bare
<1>13. GoodDraft(top') /\ Follows(top', self) /\ GoodHeap(heap') /\ FollowingHeap(heap', self)
  BY <1>1, <1>2, <1>11, <1>12
<1>14. \/ phase' \in {"build", "trivial", "split", "pop", "done", "died"}
       \/ phase' = "execute" /\ worked' = <<>> /\ todo' = Weave(top'.rules)
  BY <1>1
<1> QED BY <1>1, <1>13, <1>14, DraftStep

(* The rule to be considered next is ready.                                              *)
LEMMA SelectedReady ==
  ASSUME NEW g, NEW weight, NEW r \in SelectReady(g, weight)
  PROVE  r \in g.ready \cup g.flagged
<1> DEFINE products(s) == {p \in Consumers(g, s) : g.arc[<<s, p>>] = Source}
           producers(p) == {s \in Suppliers(g, p) : g.arc[<<s, p>>] = Source}
           readyProducers(p) == producers(p) \cap g.flagged
           direct == {s \in g.ready : Final \in products(s)}
<1>1. r \in direct \/ \E best : r \in UNION {readyProducers(p) : p \in best}
  BY DEF SelectReady
<1> QED BY <1>1

(* The parts of the heap after a push.                                                   *)
LEMMA PushedHeap ==
  ASSUME GoodHeap(heap), NEW s, FollowingHeap(heap, s), NEW chain, GoodDraft(chain), Follows(chain, s), NEW ancestor
  PROVE  GoodHeap(Pushed(chain, ancestor)) /\ FollowingHeap(Pushed(chain, ancestor), s)
<1>1. Pushed(chain, ancestor) \subseteq heap \cup {Agent(chain)}
  BY DEF Pushed
<1>2. Agent(chain) \in AgentType /\ Agent(chain).chain = chain
  BY ChainParts DEF Agent, AgentType, GoodDraft
<1> QED BY <1>1, <1>2 DEF GoodHeap, FollowingHeap

(* A variant with the rule goes to the heap, the chain at hand goes on without it.       *)
LEMMA SplitStep ==
  ASSUME Inv, NEW r \in Production, Split(r) PROVE Inv'
<1> DEFINE stem == [top EXCEPT !.g.ready = @ \ {r}]
           w == AddScheduledRule(stem.g, r, 0)
           variant == [g |-> w.g, rules |-> Append(top.rules, r),
                       weight |-> TentativeWeight(top, r), verts |-> TentativeVerts(top, r)]
           rest == EliminateRules(stem.g, {r}, Weak)
           left == [top EXCEPT !.g = rest.g]
<1>1. /\ phase = "split" /\ UNCHANGED <<problem, run, self>>
      /\ r \in top.g.ready \/ r \in SelectReady(top.g, problem.weight)
      /\ heap' = heap \/ (w.ok /\ heap' = Pushed(variant, top))
      /\ \/ top' = stem /\ phase' = "pop"
         \/ rest.ok /\ top' = left /\ phase' = phase
  BY DEF Split
<1>2. /\ GoodDraft(top) /\ GoodHeap(heap) /\ Follows(top, self) /\ FollowingHeap(heap, self)
      /\ problem \in Problem
  BY <1>1, ChainsNow DEF Searching
<1>3. r \in Rule /\ r \in top.g.ready \cup top.g.flagged
  BY <1>1, NodeKinds, SelectedReady
<1>4. r \in top.g.flagged /\ r \notin top.g.sched
  BY <1>2, <1>3, ReadyNew
<1>5. top \in ChainType
  BY <1>2 DEF GoodDraft
<1>6. PICK D \in ArcsAmong : top.g \in GraphOver(D)
  BY <1>5, ChainParts
<1>7. /\ GoodDraft(stem) /\ Follows(stem, self) /\ stem.rules = top.rules
      /\ stem.g = [top.g EXCEPT !.ready = @ \ {r}]
  BY <1>2, ReadyDropped
<1>8. r \in stem.g.flagged /\ r \notin stem.g.ready /\ r \notin stem.g.sched /\ stem.g \in GraphOver(D)
  BY <1>4, <1>6, <1>7 DEF GraphOver
<1> HIDE DEF stem, w, rest
<1>9. TentativeWeight(top, r) \in Nat /\ TentativeVerts(top, r) \in SUBSET Property
  BY <1>2, <1>5, ProblemFacts, ChainParts DEF TentativeWeight, TentativeVerts, NewVerts
<1>10. w.ok => GoodDraft(variant) /\ Follows(variant, self)
  <2> SUFFICES ASSUME w.ok PROVE GoodDraft(variant) /\ Follows(variant, self)
    OBVIOUS
  <2>1. 0 \in {0, 1} /\ AddScheduledRule(stem.g, r, 0).ok
    BY DEF w
  <2>2. variant = [g |-> AddScheduledRule(stem.g, r, 0).g, rules |-> Append(stem.rules, r),
                   weight |-> TentativeWeight(top, r), verts |-> TentativeVerts(top, r)]
    BY <1>7 DEF w
  <2> HIDE DEF variant
  <2> QED BY ONLY <1>7, <1>8, <1>9, <2>1, <2>2, Extended
<1> HIDE DEF variant
<1>11. GoodHeap(heap') /\ FollowingHeap(heap', self)
  BY <1>1, <1>2, <1>10, PushedHeap
<1>12. rest.ok => GoodDraft(left) /\ Follows(left, self)
  <2> SUFFICES ASSUME rest.ok PROVE GoodDraft(left) /\ Follows(left, self)
    OBVIOUS
  <2>1. {r} \in SUBSET Node /\ {r} \cap stem.g.sched = {} /\ Weak \in {Weak, Initial}
    BY <1>3, <1>8, NodeKinds
  <2>2. Sound(Work(stem.g, {})) /\ Flags(Work(stem.g, {}))
    BY <1>7 DEF GoodDraft, Exact
  <2>3. /\ rest \in WorkOver(D) /\ Shrunk(stem.g, rest.g)
        /\ Sound(Work(rest.g, {})) /\ Flags(Work(rest.g, {})) /\ Clean(rest.g)
    BY <1>8, <2>1, <2>2, EliminateRulesSound DEF rest
  <2>4. rest.g \in States
    BY <2>3 DEF WorkOver, States
  <2>5. left = [g |-> rest.g, rules |-> top.rules, weight |-> top.weight, verts |-> top.verts]
    BY <1>5, ChainParts
  <2>6. left \in ChainType /\ left.g = rest.g /\ left.rules = top.rules
    <3> HIDE DEF left
    <3> QED BY <1>5, <2>4, <2>5, ChainParts DEF ChainType
  <2> HIDE DEF left
  <2>7. GoodDraft(left)
    BY <2>3, <2>6 DEF GoodDraft, Exact
  <2>8. Follows(left, self)
    BY <1>7, <2>3, <2>6 DEF Follows, Behind, Shrunk
  <2> QED BY <2>7, <2>8
<1> HIDE DEF left
<1>13. GoodDraft(top') /\ Follows(top', self)
  BY <1>1, <1>7, <1>12
<1>14. phase' \in {"build", "trivial", "split", "pop", "done", "died"}
  BY <1>1
<1> QED BY ONLY <1>1, <1>11, <1>13, <1>14, DraftStep, Inv

(***************************************************************************)
(* Elimination from the initial chain, and replay.                         *)
(***************************************************************************)

(* The initial chain with another graph.                                                 *)
LEMMA SelfWith ==
  ASSUME NEW s, GoodSelf(s), NEW D \in ArcsAmong, NEW g \in GraphOver(D), Exact(g), Kept(g)
  PROVE  LET t == [s EXCEPT !.g = g] IN GoodSelf(t) /\ t.g = g /\ t.rules = s.rules
<1> DEFINE t == [s EXCEPT !.g = g]
<1>1. s \in ChainType /\ g \in States
  BY DEF GoodSelf, States
<1>2. t = [g |-> g, rules |-> s.rules, weight |-> s.weight, verts |-> s.verts]
  BY <1>1, ChainParts
<1> HIDE DEF t
<1>3. t \in ChainType /\ t.g = g /\ t.rules = s.rules
  BY <1>1, <1>2, ChainParts DEF ChainType
<1> QED BY <1>3 DEF GoodSelf, t

(* Rules that are not in the initial chain are eliminated from it.                       *)
LEMMA SelfEliminated ==
  ASSUME NEW s, GoodSelf(s), NEW rules \in SUBSET Rule, rules \cap s.g.sched = {},
         EliminateRules(s.g, rules, Initial).ok
  PROVE  LET e == EliminateRules(s.g, rules, Initial)
         IN  GoodSelf([s EXCEPT !.g = e.g]) /\ [s EXCEPT !.g = e.g].g = e.g /\ e.g.sched \subseteq s.g.sched
<1> DEFINE e == EliminateRules(s.g, rules, Initial)
<1>1. PICK D \in ArcsAmong : s.g \in GraphOver(D)
  BY ChainParts DEF GoodSelf
<1>2. rules \in SUBSET Node /\ Initial \in {Weak, Initial}
  BY NodeKinds
<1>3. Sound(Work(s.g, {})) /\ Flags(Work(s.g, {})) /\ Kept(s.g)
  BY DEF GoodSelf, Exact
<1>4. /\ e \in WorkOver(D) /\ Shrunk(s.g, e.g) /\ Kept(e.g)
      /\ Sound(Work(e.g, {})) /\ Flags(Work(e.g, {}))
  BY <1>1, <1>2, <1>3, EliminateRulesSound
<1> HIDE DEF e
<1>5. e.g \in GraphOver(D) /\ Exact(e.g)
  BY <1>4 DEF WorkOver, Exact
<1>6. GoodSelf([s EXCEPT !.g = e.g]) /\ [s EXCEPT !.g = e.g].g = e.g
  BY <1>4, <1>5, SelfWith
<1>7. e.g.sched \subseteq s.g.sched
  BY <1>4 DEF Shrunk
<1> QED BY <1>6, <1>7 DEF e

(* What was executed is replayed in an initial chain that has lost some rules.           *)
LEMMA ReplayStarts ==
  ASSUME Inv, NEW g, GoodSelf([self EXCEPT !.g = g]), [self EXCEPT !.g = g].g = g, g.sched \subseteq self.g.sched,
         NEW rules \in Seq(Rule), StartReplay(g, rules), top' = top,
         problem' = problem, run' \in [Rule -> Results], Remembers
  PROVE  Inv'
<1>1. /\ problem' \in Problem /\ GoodDraft(top)
      /\ \A q \in self.g.sched \cap Precondition : run[q] # "none"
  BY ChainsNow DEF Inv, KnownInv
<1>2. /\ self' = [self EXCEPT !.g = g] /\ heap' = {} /\ phase' = "replay"
      /\ todo' = Only(rules, Production \cap g.alive)
  BY DEF StartReplay
<1>3. GoodSelf(self') /\ self'.g = g /\ GoodDraft(top') /\ GoodHeap(heap') /\ ~Searching'
  BY <1>1, <1>2 DEF GoodHeap, Searching
<1>4. \A q \in self'.g.sched \cap Precondition : run'[q] # "none"
  BY <1>1, <1>3, NodeKinds DEF Remembers
<1>5. TypeInv' /\ GraphsInv' /\ DraftsInv' /\ KnownInv'
  BY <1>1, <1>3, <1>4, ChainsNext
<1>6. todo' \in Seq(Production)
  <2>1. todo' \in Seq(Rule) /\ ToSet(todo') \subseteq Production
    BY <1>2, OnlySome
  <2> QED BY <2>1, ListOf
<1>7. GatherInv' /\ HeapInv' /\ StepsInv'
  BY <1>2, <1>6 DEF GatherInv, HeapInv, StepsInv, Gathering
<1> QED BY <1>5, <1>7 DEF Inv

(* The preconditions that failed are eliminated, unless all chains needed them.          *)
LEMMA EndOfChecksStep ==
  ASSUME Inv, EndOfChecks, ~Lost PROVE Inv'
<1> DEFINE e == EliminateRules(self.g, failed, Initial)
<1>1. /\ phase = "suppliers" /\ UNCHANGED <<problem, run>>
      /\ \/ failed # {} /\ e.ok /\ StartReplay(e.g, worked) /\ top' = top
         \/ failed = {} /\ StartReplay(self.g, worked) /\ top' = top
  BY DEF EndOfChecks, Lost
<1>2. failed \subseteq Rule /\ failed \cap self.g.sched = {} /\ worked \in Seq(Rule)
  BY <1>1 DEF Inv, StepsInv
<1>3. GoodSelf(self) /\ run \in [Rule -> Results]
  BY ChainsNow
<1>4. problem' = problem /\ run' \in [Rule -> Results] /\ Remembers
  BY <1>1, <1>3 DEF Remembers
<1>5. CASE e.ok /\ StartReplay(e.g, worked) /\ top' = top
  <2>1. GoodSelf([self EXCEPT !.g = e.g]) /\ [self EXCEPT !.g = e.g].g = e.g /\ e.g.sched \subseteq self.g.sched
    BY <1>2, <1>3, <1>5, SelfEliminated
  <2> HIDE DEF e
  <2> QED BY <1>2, <1>4, <1>5, <2>1, ReplayStarts
<1>6. CASE StartReplay(self.g, worked) /\ top' = top
  <2>1. PICK D \in ArcsAmong : self.g \in GraphOver(D)
    BY <1>3, ChainParts DEF GoodSelf
  <2>2. GoodSelf([self EXCEPT !.g = self.g]) /\ [self EXCEPT !.g = self.g].g = self.g
    BY <1>3, <2>1, SelfWith DEF GoodSelf
  <2> QED BY <1>2, <1>4, <1>6, <2>2, ReplayStarts
<1> QED BY <1>1, <1>5, <1>6

(* A rule of the chain is executed; when it fails the next attempt is prepared.          *)
LEMMA ExecuteStep ==
  ASSUME Inv, Execute PROVE Inv'
<1> DEFINE r == Head(todo)
           e == EliminateRules(self.g, {r}, Initial)
<1>1. /\ phase = "execute" /\ todo # <<>> /\ UNCHANGED <<problem, top>>
      /\ \/ /\ Run(r, TRUE) /\ worked' = Append(worked, r) /\ todo' = Tail(todo)
            /\ UNCHANGED <<phase, self, heap>>
         \/ /\ Run(r, FALSE)
            /\ \/ e.ok /\ StartReplay(e.g, worked)
               \/ phase' = "done" /\ UNCHANGED <<self, heap>>
  BY DEF Execute, GiveUp, Answer
<1>2. todo \in Seq(Rule) /\ ToSet(todo) \cap self.g.sched = {} /\ worked \in Seq(Rule)
  BY <1>1 DEF Inv, StepsInv
<1>3. r \in Rule /\ r \in ToSet(todo) /\ Tail(todo) \in Seq(Rule) /\ ToSet(Tail(todo)) \subseteq ToSet(todo)
  BY <1>1, <1>2, ListSets
<1> HIDE DEF r, e
<1>4. run' \in [Rule -> Results] /\ Remembers /\ problem' = problem
  BY <1>1, <1>3, RunIdles
<1>5. CASE worked' = Append(worked, r) /\ todo' = Tail(todo) /\ UNCHANGED <<phase, self, heap>>
  <2>1. Idles /\ Searching
    BY <1>1, <1>4, <1>5 DEF Idles, Searching
  <2>2. TypeInv' /\ GraphsInv' /\ DraftsInv' /\ KnownInv'
    BY <2>1, IdleChains
  <2>3. worked' \in Seq(Rule) /\ todo' \in Seq(Rule) /\ ToSet(todo') \cap self'.g.sched = {} /\ phase' = "execute"
    BY <1>1, <1>2, <1>3, <1>5
  <2>4. GatherInv' /\ HeapInv' /\ StepsInv'
    BY <2>3 DEF GatherInv, HeapInv, StepsInv, Gathering
  <2> QED BY <2>2, <2>4 DEF Inv
<1>6. CASE e.ok /\ StartReplay(e.g, worked)
  <2>1. GoodSelf(self) /\ {r} \in SUBSET Rule /\ {r} \cap self.g.sched = {}
    BY <1>2, <1>3, ChainsNow
  <2>2. GoodSelf([self EXCEPT !.g = e.g]) /\ [self EXCEPT !.g = e.g].g = e.g /\ e.g.sched \subseteq self.g.sched
    BY <1>6, <2>1, SelfEliminated DEF e
  <2> QED BY <1>1, <1>2, <1>4, <1>6, <2>2, ReplayStarts
<1>7. CASE phase' = "done" /\ UNCHANGED <<self, heap>>
  <2>1. Idles /\ ~Searching'
    BY <1>1, <1>4, <1>7 DEF Idles, Searching
  <2>2. TypeInv' /\ GraphsInv' /\ DraftsInv' /\ KnownInv'
    BY <2>1, IdleChains
  <2>3. GatherInv' /\ HeapInv' /\ StepsInv'
    BY <1>7 DEF GatherInv, HeapInv, StepsInv, Gathering
  <2> QED BY <2>2, <2>3 DEF Inv
<1> QED BY <1>1, <1>5, <1>6, <1>7

(* A rule that has been executed is added to the initial chain.                          *)
LEMMA SelfExtended ==
  ASSUME NEW s, GoodSelf(s), NEW D \in ArcsAmong, NEW g \in GraphOver(D), Exact(g), Kept(g),
         NEW r \in Production, r \in g.ready
  PROVE  LET w == AddScheduledRule([g EXCEPT !.ready = @ \ {r}], r, 1)
             t == [s EXCEPT !.g = w.g, !.rules = IF w.ok THEN Append(@, r) ELSE @]
         IN  GoodSelf(t) /\ t.g = w.g /\ w.g.sched \cap Rule \subseteq g.sched \cup {r}
<1> DEFINE h == [g EXCEPT !.ready = @ \ {r}]
<1>1. /\ h \in GraphOver(D) /\ Exact(h) /\ Kept(h) /\ h.alive = g.alive /\ h.flagged = g.flagged
      /\ h.sched = g.sched /\ h.ready = g.ready \ {r}
  <2> DEFINE X == {r}
             k == [g EXCEPT !.ready = @ \ X]
  <2> HIDE DEF X
  <2>1. /\ k \in GraphOver(D) /\ Exact(k) /\ Kept(k) /\ k.alive = g.alive /\ k.flagged = g.flagged
        /\ k.sched = g.sched /\ k.ready = g.ready \ X
    BY ReadyTaken
  <2>2. k = h
    BY DEF X
  <2> HIDE DEF k
  <2> QED BY <2>1, <2>2 DEF X
<1> DEFINE w == AddScheduledRule(h, r, 1)
           t == [s EXCEPT !.g = w.g, !.rules = IF w.ok THEN Append(@, r) ELSE @]
           moved == [s EXCEPT !.g = w.g]
<1>2. r \in g.flagged /\ r \notin g.sched /\ r \in Rule
  BY NodeKinds DEF Exact, Flags, Work
<1> HIDE DEF h
<1>3. w \in WorkOver(D) /\ w.ok /\ Exact(w.g) /\ Added(h, r, w.g) /\ Kept(w.g)
  <2>1. 1 \in {0, 1} /\ TRUE \in BOOLEAN /\ r \notin h.ready /\ r \notin h.sched /\ r \in h.flagged
    BY <1>1, <1>2
  <2> QED BY <1>1, <1>2, <2>1, AddScheduledRuleSound
<1> HIDE DEF w
<1>4. w.g \in GraphOver(D)
  BY <1>3 DEF WorkOver
<1>5. GoodSelf(moved) /\ moved.g = w.g /\ moved.rules = s.rules
  BY <1>3, <1>4, SelfWith
<1>6. t = [moved EXCEPT !.rules = Append(s.rules, r)]
  BY <1>3
<1> HIDE DEF moved, t
<1>7. moved = [g |-> moved.g, rules |-> moved.rules, weight |-> moved.weight, verts |-> moved.verts]
      /\ moved \in ChainType
  BY <1>5, ChainParts DEF GoodSelf
<1>8. t = [g |-> moved.g, rules |-> Append(s.rules, r), weight |-> moved.weight, verts |-> moved.verts]
  BY <1>6, <1>7
<1>9. Append(s.rules, r) \in Seq(Production)
  BY <1>5, <1>7, ChainParts
<1>10. t \in ChainType /\ t.g = w.g
  BY <1>5, <1>7, <1>8, <1>9, ChainParts DEF ChainType
<1>11. GoodSelf(t)
  BY <1>3, <1>10 DEF GoodSelf
<1>12. w.g.sched \cap Rule \subseteq g.sched \cup {r}
  BY <1>1, <1>3 DEF Added
<1> QED BY <1>10, <1>11, <1>12 DEF t, w, h

(* One turn of replay_rules.                                                             *)
LEMMA ReplayRuleStep ==
  ASSUME Inv, ReplayRule PROVE Inv'
<1> DEFINE satisfied == {q \in self.g.ready \cap Precondition : run[q] = "OK"}
           pre == ScheduleAll(self.g, satisfied)
           r == Head(todo)
           w == AddScheduledRule([pre.g EXCEPT !.ready = @ \ {r}], r, 1)
           one == [self EXCEPT !.g = pre.g]
           two == [self EXCEPT !.g = w.g, !.rules = IF w.ok THEN Append(@, r) ELSE @]
<1>1. /\ phase = "replay" /\ todo # <<>> /\ UNCHANGED <<problem, run, top, heap>>
      /\ phase' \in {"replay", "died"}
      /\ todo' = Tail(todo) \/ todo' = <<>>
      /\ \/ self' = one
         \/ r \in pre.g.ready /\ self' = two
  BY DEF ReplayRule, ScheduleAll
<1>2. /\ problem \in Problem /\ run \in [Rule -> Results] /\ GoodSelf(self) /\ GoodDraft(top)
      /\ (\A q \in self.g.sched \cap Precondition : run[q] # "none") /\ heap = {}
  BY <1>1, ChainsNow DEF Inv, KnownInv, HeapInv
<1>3. r \in Production /\ Tail(todo) \in Seq(Production)
  <2>1. todo \in Seq(Production)
    BY <1>1 DEF Inv, StepsInv
  <2> QED BY <1>1, <2>1, ListSets
<1> HIDE DEF r
<1>4. PICK D \in ArcsAmong : self.g \in GraphOver(D)
  BY <1>2, ChainParts DEF GoodSelf
<1>5. satisfied \in SUBSET (self.g.ready \cap Precondition) /\ \A q \in satisfied : run[q] # "none"
  OBVIOUS
<1> HIDE DEF satisfied
<1>6. pre \in WorkOver(D) /\ Prepared(self.g, pre.g, satisfied, {})
  BY <1>2, <1>4, <1>5, ScheduleAllPrepares DEF GoodSelf
<1> HIDE DEF pre
<1>7. /\ pre.g \in GraphOver(D) /\ Exact(pre.g) /\ Kept(pre.g)
      /\ pre.g.sched \cap Rule \subseteq self.g.sched \cup satisfied
  BY <1>2, <1>6 DEF WorkOver, Prepared, GoodSelf
<1>8. GoodSelf(one) /\ one.g = pre.g
  BY <1>2, <1>7, SelfWith
<1>9. r \in pre.g.ready => GoodSelf(two) /\ two.g = w.g /\ w.g.sched \cap Rule \subseteq pre.g.sched \cup {r}
  BY <1>2, <1>3, <1>7, SelfExtended
<1> HIDE DEF one, two, w
<1>10. /\ GoodSelf(self')
       /\ \A q \in self'.g.sched \cap Precondition : q \in self.g.sched \cup satisfied \cup {r}
  <2>1. \A q \in Precondition : q \in Rule
    BY NodeKinds
  <2> QED BY <1>1, <1>7, <1>8, <1>9, <2>1
<1>11. \A q \in self'.g.sched \cap Precondition : run'[q] # "none"
  <2>1. \A q \in Precondition : q # r
    BY <1>3, NodesDisjoint
  <2> QED BY <1>1, <1>2, <1>5, <1>10, <2>1
<1>12. GoodDraft(top') /\ GoodHeap(heap') /\ ~Searching'
  BY <1>1, <1>2 DEF GoodHeap, Searching
<1>13. TypeInv' /\ GraphsInv' /\ DraftsInv' /\ KnownInv'
  BY <1>1, <1>2, <1>10, <1>11, <1>12, ChainsNext
<1>14. todo' \in Seq(Production)
  <2>1. <<>> \in Seq(Production)
    OBVIOUS
  <2> QED BY <1>1, <1>3, <2>1
<1>15. GatherInv' /\ HeapInv' /\ StepsInv'
  BY <1>1, <1>2, <1>14 DEF GatherInv, HeapInv, StepsInv, Gathering
<1> QED BY <1>13, <1>15 DEF Inv

(* The search goes on from the initial chain.                                            *)
LEMMA EndOfReplayStep ==
  ASSUME Inv, EndOfReplay PROVE Inv'
<1> DEFINE c == [self EXCEPT !.rules = <<>>]
<1>1. /\ phase = "replay" /\ UNCHANGED <<problem, run, heap>> /\ self' = c /\ top' = c
      /\ phase' \in {"build", "died"}
  BY DEF EndOfReplay
<1>2. /\ problem \in Problem /\ run \in [Rule -> Results] /\ GoodSelf(self)
      /\ (\A q \in self.g.sched \cap Precondition : run[q] # "none") /\ heap = {}
  BY <1>1, ChainsNow DEF Inv, KnownInv, HeapInv
<1>3. self \in ChainType /\ Exact(self.g) /\ Kept(self.g)
  BY <1>2 DEF GoodSelf
<1>4. c = [g |-> self.g, rules |-> <<>>, weight |-> self.weight, verts |-> self.verts]
  BY <1>3, ChainParts
<1> HIDE DEF c
<1>5. c \in ChainType /\ c.g = self.g /\ c.rules = <<>>
  BY <1>3, <1>4, ChainParts DEF ChainType
<1>6. GoodSelf(c) /\ GoodDraft(c) /\ Follows(c, c)
  BY <1>3, <1>5 DEF GoodSelf, GoodDraft, Follows, Behind, ToSet
<1>7. /\ GoodSelf(self') /\ GoodDraft(top') /\ Follows(top', self')
      /\ GoodHeap(heap') /\ FollowingHeap(heap', self')
  BY <1>1, <1>2, <1>6 DEF GoodHeap, FollowingHeap
<1>8. TypeInv' /\ GraphsInv' /\ DraftsInv' /\ KnownInv'
  BY <1>1, <1>2, <1>5, <1>7, ChainsNext
<1>9. GatherInv' /\ HeapInv' /\ StepsInv'
  BY <1>1 DEF GatherInv, HeapInv, StepsInv, Gathering
<1> QED BY <1>8, <1>9 DEF Inv

(***************************************************************************)
(* The theorems.                                                           *)
(***************************************************************************)

(* Every step of the scheduler keeps the invariant, unless failed preconditions that every
   chain needs have just been found.                                                      *)
LEMMA StepInv ==
  ASSUME Inv, [Next \/ Idle]_vars, ~Lost PROVE Inv'
<1>1. CASE Next
  <2>1. CASE \/ GatherRule \/ ConsiderInputs
             \/ \E q \in Precondition :
                  DismissRule(q) \/ SkipSatisfied(q) \/ RejectPre(q) \/ EvaluatePre(q) \/ PostponePre(q)
    BY <2>1, GatherSteps
  <2>2. CASE FinalizeGather
    BY <2>2, FinalizeGatherStep
  <2>3. CASE CheckPending \/ ExecuteSupplier \/ \E q \in Precondition : CheckPre(q)
    BY <2>3, CheckSteps
  <2>4. CASE EndOfChecks
    BY <2>4, EndOfChecksStep
  <2>5. CASE SchedulePre
    BY <2>5, SchedulePreStep
  <2>6. CASE \E r \in Production : ScheduleTrivial(r) \/ Split(r)
    BY <2>6, ScheduleTrivialStep, SplitStep
  <2>7. CASE EndOfTrivial \/ EndOfSplit \/ PopNone \/ Succeed
    BY <2>7, PhaseSteps
  <2>8. CASE \E a \in heap : Pop(a)
    BY <2>8, PopStep
  <2>9. CASE Execute
    BY <2>9, ExecuteStep
  <2>10. CASE ReplayRule
    BY <2>10, ReplayRuleStep
  <2>11. CASE EndOfReplay
    BY <2>11, EndOfReplayStep
  <2> QED BY <1>1, <2>1, <2>2, <2>3, <2>4, <2>5, <2>6, <2>7, <2>8, <2>9, <2>10, <2>11 DEF Next
<1>2. CASE UNCHANGED vars
  <2>1. Idles /\ phase' = phase /\ UNCHANGED <<graph, todo, cur, checks, failed, worked>>
    BY <1>2 DEF vars, Idles, Remembers, Inv, TypeInv
  <2>2. TypeInv' /\ GraphsInv' /\ DraftsInv' /\ KnownInv'
    BY <2>1, IdleChains DEF Searching
  <2>3. self' = self /\ top' = top /\ heap' = heap
    BY <2>1 DEF Idles
  <2>4. GatherInv' /\ HeapInv' /\ StepsInv'
    BY <2>1, <2>3 DEF Inv, GatherInv, HeapInv, StepsInv, Gathering
  <2> QED BY <2>2, <2>4 DEF Inv
<1> QED BY <1>1, <1>2 DEF Idle

\* What CountersExact says of the graph of one chain.
Counted(g) ==
  /\ \A n \in g.alive :
       /\ g.pending[n] = Cardinality({s \in Suppliers(g, n) : g.arc[<<s, n>>] # Resolved})
       /\ n \notin g.sched =>
            g.out[n] = Cardinality({c \in Consumers(g, n) : g.arc[<<n, c>>] > Optional})
  /\ \A n \in Node \ g.alive : Consumers(g, n) = {} /\ Suppliers(g, n) = {}
  /\ g.flagged = {n \in g.alive \ (g.sched \cup Property) : g.pending[n] = 0}

(* An exact graph has the counters the code relies on.                                   *)
LEMMA InvCounters == Inv => CountersExact
<1> SUFFICES ASSUME Inv PROVE CountersExact
  OBVIOUS
<1>1. \A c \in Chains : c \in ChainType /\ Exact(c.g)
  <2> SUFFICES ASSUME NEW c \in Chains PROVE c \in ChainType /\ Exact(c.g)
    OBVIOUS
  <2>1. c = self \/ c = top \/ \E a \in heap : c = a.chain
    BY DEF Chains
  <2> QED BY <2>1, ChainsNow DEF GoodSelf, GoodDraft, GoodHeap
<1>2. \A g \in {c.g : c \in Chains} : Counted(g)
  <2> SUFFICES ASSUME NEW c \in Chains PROVE Counted(c.g)
    OBVIOUS
  <2>1. PICK D \in ArcsAmong : c.g \in GraphOver(D)
    BY <1>1, ChainParts
  <2> QED BY <1>1, <2>1, ExactCounters DEF Counted
<1> QED BY <1>2 DEF CountersExact, Counted

(* Through gathering, elimination, scheduling, the heap, failures and replay the counters of
   every chain agree with its arcs, in every execution in which no set of preconditions is
   found to fail that every chain needs: then build_cheapest_chain goes on with the graph
   eliminate() has abandoned half way.                                                     *)
THEOREM CountersStayExact == Spec /\ []~Lost => []CountersExact
<1>1. Inv /\ [Next \/ Idle]_vars /\ ~Lost => Inv'
  BY StepInv
<1>2. Spec /\ []~Lost => []Inv
  BY <1>1, InitInv, PTL DEF Spec
<1> QED BY <1>2, InvCounters, PTL

-----------------------------------------------------------------------------
(* A set of positions with 0 that holds the successor of each position in it.            *)
LEMMA PrefixInduction ==
  ASSUME NEW n \in Nat, NEW Q, 0 \in Q, \A i \in 1..n : i - 1 \in Q => i \in Q
  PROVE  \A i \in 0..n : i \in Q
<1> SUFFICES ASSUME (0..n) \ Q # {} PROVE FALSE
  OBVIOUS
<1> DEFINE bad == (0..n) \ Q
           S == 1..n
           T == {1..i : i \in bad}
<1>1. T \subseteq SUBSET S /\ T # {}
  <2>1. \A i \in bad : 1..i \in SUBSET (1..n)
    OBVIOUS
  <2> QED BY <2>1
<1>2. IsFiniteSet(S)
  BY FS_Interval
<1>3. PICK t \in T : \A u \in T : u \subseteq t => u = t
  <2> HIDE DEF T, S
  <2> QED BY <1>1, <1>2, MinimalSubset
<1>4. PICK m \in bad : t = 1..m
  OBVIOUS
<1>5. m \in 1..n /\ m - 1 \in bad
  OBVIOUS
<1>6. 1..(m - 1) \in T /\ 1..(m - 1) \subseteq t /\ m \in t /\ m \notin 1..(m - 1)
  BY <1>4, <1>5
<1> QED BY <1>3, <1>6

(* The last of a set of positions.                                                       *)
LEMMA MaxLast ==
  ASSUME NEW n \in Nat, NEW k \in 1..n
  PROVE  Max(1..k) = k /\ (1..k) \ {k} = 1..(k - 1)
<1>1. \E z \in 1..k : \A y \in 1..k : z >= y
  <2>1. k \in 1..k /\ \A y \in 1..k : k >= y
    OBVIOUS
  <2> QED BY <2>1
<1>2. Max(1..k) \in 1..k /\ \A y \in 1..k : Max(1..k) >= y
  BY <1>1 DEF Max
<1>3. Max(1..k) >= k
  BY <1>2
<1> QED BY <1>2, <1>3

(***************************************************************************)
(* When a rule is due.                                                     *)
(***************************************************************************)

\* What an arc between two nodes stands for: an alternative of an input of a rule, for which
\* there is a producer; an output; a precondition.
Labelled(arc, a) ==
  \/ /\ a[1] \in Property /\ a[2] \in Rule \cup {Final}
     /\ \E k \in DOMAIN Input(a[2]) : a[1] \in Input(a[2])[k] /\ arc[a] = (Source + k) - 1
     /\ \E s \in Production : <<s, a[1]>> \in DOMAIN arc
  \/ a[1] \in Production /\ a[2] \in Property /\ a[2] \in Output(a[1]) /\ arc[a] = Source
  \/ a[1] \in Precondition /\ a[2] \in Production /\ a[1] \in ToSet(Pre(a[2])) /\ arc[a] = Unique
Labels(arc) == \A a \in DOMAIN arc : Labelled(arc, a)

Bad(r) == run[r] \in {"failed", "infeasible"}
Finished == {r \in Rule : run[r] = "OK"}

\* No property is asked for by two inputs of r.
Plain(r) == \A j, k \in DOMAIN Input(r) : j # k => Input(r)[j] \cap Input(r)[k] = {}

\* Whatever r needs is there or has been looked for.
Analysed(r) ==
  /\ \A k \in DOMAIN Input(r) : Input(r)[k] \cap have # {} \/ \E p \in Input(r)[k] : <<p, r>> \in DOMAIN graph.arc
  /\ r \in Production => \A q \in ToSet(Pre(r)) : run[q] = "OK" \/ <<q, r>> \in DOMAIN graph.arc

\* The rules whose results r and its preconditions use.
Needs(g, r) ==
  ResolvedSuppliers(g, r) \cup UNION {ResolvedSuppliers(g, q) : q \in ResolvedSuppliers(g, r) \cap Precondition}

\* What the rules of S add to the object, and whether this suffices for r.
Made(S) == have \cup UNION {Output(r) : r \in S \cap Production}
Met(r, X) == \A k \in DOMAIN Input(r) : Input(r)[k] \cap X # {}

(* The inputs and preconditions of the rules.                                            *)
LEMMA RuleFacts ==
  ASSUME problem \in Problem
  PROVE  /\ \A r \in Production : Output(r) \subseteq Property /\ Pre(r) \in Seq(Precondition) /\ IsInjective(Pre(r))
         /\ \A r, s \in Production : r # s => ToSet(Pre(r)) \cap ToSet(Pre(s)) \subseteq problem.shared
         /\ \A r \in Rule \cup {Final} : \A k \in DOMAIN Input(r) : k \in Nat \ {0} /\ Input(r)[k] \subseteq Property
         /\ \A r \in Rule : Plain(r)
<1>1. \A r \in Rule \cup {Final} : Input(r) \in Seq(SUBSET Property)
  BY ProblemFacts
<1>2. \A r \in Rule \cup {Final} : \A k \in DOMAIN Input(r) : k \in Nat \ {0} /\ Input(r)[k] \subseteq Property
  <2> TAKE r \in Rule \cup {Final}
  <2> DEFINE l == Input(r)
  <2>1. l \in Seq(SUBSET Property)
    BY <1>1
  <2> HIDE DEF l
  <2>2. \A k \in DOMAIN l : k \in Nat \ {0} /\ l[k] \in SUBSET Property
    BY <2>1
  <2> QED BY <2>2 DEF l
<1>3. \A r \in Rule : Plain(r)
  BY ProblemAssumption DEF Plain, Input
<1>4. \A r \in Production : IsInjective(Pre(r))
  BY ProblemAssumption DEF Pre
<1>5. \A r, s \in Production : r # s => ToSet(Pre(r)) \cap ToSet(Pre(s)) \subseteq problem.shared
  BY ProblemAssumption DEF Pre
<1> QED BY <1>2, <1>3, <1>4, <1>5, ProblemFacts

(* A node that has got everything has it from scheduled nodes.                           *)
LEMMA ArcsUsed ==
  ASSUME NEW D \in ArcsAmong, NEW g \in GraphOver(D), Exact(g), NEW n \in Node, Open(g, n) = {},
         NEW m, <<m, n>> \in D, g.arc[<<m, n>>] # Inactive
  PROVE  /\ m \in Node /\ Via(g, m, n) /\ m \in g.sched /\ m \in g.alive /\ n \in g.alive
         /\ Open(g, m) = {}
<1>1. m \in Node /\ DOMAIN g.arc = D
  BY DEF GraphOver, ArcsAmong
<1>2. m \in Suppliers(g, n) /\ n \in Consumers(g, m)
  BY <1>1 DEF Suppliers, Consumers
<1>3. g.arc[<<m, n>>] = Resolved
  BY <1>2 DEF Open
<1>4. Linked(g) /\ Served(Work(g, {}))
  BY DEF Exact, Sound, Work
<1>5. m \in g.sched /\ m \in g.alive /\ n \in g.alive
  BY <1>1, <1>2, <1>3, <1>4 DEF Linked
<1>6. Open(g, m) = {}
  BY <1>4, <1>5 DEF Served, Work
<1> QED BY <1>1, <1>3, <1>5, <1>6 DEF Via

(* A rule that has got everything has a scheduled producer for each input the object does
   not have. *)
LEMMA InputSupplied ==
  ASSUME problem \in Problem, NEW g \in GraphOver(DOMAIN graph.arc), DOMAIN graph.arc \in ArcsAmong,
         Exact(g), Labels(graph.arc), NEW S, Grounded(graph.arc, S, g),
         NEW r \in Rule \cup {Final}, r \in g.alive, Open(g, r) = {}, Plain(r), Analysed(r),
         NEW k \in DOMAIN Input(r), Input(r)[k] \cap have = {}
  PROVE  \E p \in Input(r)[k] : \E s \in Production :
           p \in Output(s) /\ s \in g.sched /\ Via(g, s, p) /\ Via(g, p, r)
<1> DEFINE D == DOMAIN graph.arc
<1>0. DOMAIN g.arc = D /\ Work(g, {}).g = g /\ Work(g, {}).marked = {}
  BY DEF GraphOver, Work
<1>1. \A a \in D : a[2] \in g.alive =>
        \E b \in D : /\ b[2] = a[2] /\ graph.arc[b] = graph.arc[a] /\ (b = a \/ graph.arc[a] >= Source)
                     /\ g.arc[b] # Inactive
  BY <1>0 DEF Grounded, Carry, Fed
<1>2. \A a \in D : a = <<a[1], a[2]>> /\ a[1] \in Node /\ a[2] \in Node
  BY DEF ArcsAmong
<1>3. r \in Node /\ r \notin Property
  BY NodeKinds
<1>4. PICK p0 \in Input(r)[k] : <<p0, r>> \in D
  BY DEF Analysed
<1>5. k \in Nat \ {0} /\ Input(r)[k] \subseteq Property
  BY RuleFacts
<1>6. graph.arc[<<p0, r>>] = (Source + k) - 1
  <2>1. p0 \in Property /\ p0 \notin Production /\ p0 \notin Precondition
    BY <1>5, NodesDisjoint
  <2>2. PICK j \in DOMAIN Input(r) : p0 \in Input(r)[j] /\ graph.arc[<<p0, r>>] = (Source + j) - 1
    BY <1>4, <2>1 DEF Labels, Labelled
  <2>3. j = k
    BY <2>2 DEF Plain
  <2> QED BY <2>2, <2>3
<1>7. PICK b \in D : b[2] = r /\ graph.arc[b] = (Source + k) - 1 /\ g.arc[b] # Inactive
  BY <1>1, <1>4, <1>6
<1>8. b[1] \in Property /\ b[1] \in Input(r)[k] /\ \E s \in Production : <<s, b[1]>> \in D
  <2>1. graph.arc[b] # Unique /\ r \notin Property
    BY <1>3, <1>5, <1>7 DEF Unique, Source
  <2>2. /\ b[1] \in Property /\ \E s \in Production : <<s, b[1]>> \in D
        /\ \E j \in DOMAIN Input(r) : b[1] \in Input(r)[j] /\ graph.arc[b] = (Source + j) - 1
    BY <1>7, <2>1 DEF Labels, Labelled
  <2>3. PICK j \in DOMAIN Input(r) : b[1] \in Input(r)[j] /\ graph.arc[b] = (Source + j) - 1
    BY <2>2
  <2>4. j \in Nat
    BY RuleFacts
  <2>5. j = k
    BY <1>5, <1>7, <2>3, <2>4 DEF Source
  <2> QED BY <2>2, <2>3, <2>5
<1>9. Via(g, b[1], r) /\ b[1] \in g.alive /\ Open(g, b[1]) = {}
  <2>1. b = <<b[1], r>>
    BY <1>2, <1>7
  <2> QED BY <1>3, <1>7, <2>1, ArcsUsed
<1>10. PICK s0 \in Production : <<s0, b[1]>> \in D
  BY <1>8
<1>11. PICK e \in D : e[2] = b[1] /\ g.arc[e] # Inactive
  <2>1. <<s0, b[1]>>[2] \in g.alive
    BY <1>9
  <2> QED BY <1>1, <1>10, <2>1
<1>12. e[1] \in Production /\ b[1] \in Output(e[1])
  <2>1. b[1] \notin Rule \cup {Final} /\ b[1] \notin Production
    BY <1>8, NodeKinds
  <2> QED BY <1>11, <2>1 DEF Labels, Labelled
<1>13. e = <<e[1], b[1]>> /\ b[1] \in Node
  BY <1>2, <1>11, <1>8
<1>14. Via(g, e[1], b[1]) /\ e[1] \in g.sched
  BY <1>9, <1>11, <1>13, ArcsUsed
<1> QED BY <1>8, <1>9, <1>12, <1>14

(* ... and its preconditions are scheduled or were satisfied from the beginning.         *)
LEMMA PreSupplied ==
  ASSUME problem \in Problem, NEW g \in GraphOver(DOMAIN graph.arc), DOMAIN graph.arc \in ArcsAmong,
         Exact(g), Labels(graph.arc), NEW S, Grounded(graph.arc, S, g),
         NEW r \in Production, r \in g.alive, Open(g, r) = {}, Analysed(r),
         NEW q \in ToSet(Pre(r)), run[q] # "OK"
  PROVE  q \in Precondition /\ Via(g, q, r) /\ q \in g.sched /\ q \in g.alive /\ Open(g, q) = {}
<1> DEFINE D == DOMAIN graph.arc
           a == <<q, r>>
<1>0. DOMAIN g.arc = D /\ Work(g, {}).g = g /\ Work(g, {}).marked = {}
  BY DEF GraphOver, Work
<1>1. a \in D
  BY DEF Analysed
<1>2. q \in Precondition /\ r \in Node
  BY ProblemFacts, ListFolded, NodeKinds
<1>3. graph.arc[a] = Unique
  <2>1. q \notin Property /\ q \notin Production
    BY <1>2, NodesDisjoint
  <2> QED BY <1>1, <2>1 DEF Labels, Labelled
<1>4. PICK b \in D : b = a /\ g.arc[b] # Inactive
  <2>1. a[2] \in Work(g, {}).g.alive \ Work(g, {}).marked
    BY <1>0
  <2>2. \E b \in D : /\ graph.arc[b] = graph.arc[a] /\ (b = a \/ graph.arc[a] >= Source)
                     /\ g.arc[b] # Inactive
    BY <1>0, <1>1, <2>1 DEF Grounded, Carry, Fed
  <2> QED BY <1>3, <2>2 DEF Unique, Source
<1> QED BY <1>1, <1>2, <1>4, ArcsUsed

(* What a rule that has got everything uses does not change any more.                    *)
LEMMA NeedsFixed ==
  ASSUME NEW D \in ArcsAmong, NEW g \in GraphOver(D), Exact(g), NEW h \in GraphOver(D),
         \A a \in D : g.arc[a] = Inactive => h.arc[a] = Inactive,
         NEW r \in Rule, Open(g, r) = {}
  PROVE  Needs(h, r) \subseteq Needs(g, r) /\ Needs(g, r) \subseteq g.sched
<1>0. DOMAIN g.arc = D /\ DOMAIN h.arc = D
  BY DEF GraphOver
<1>1. ASSUME NEW n \in Node, Open(g, n) = {}, NEW m, Via(h, m, n)
      PROVE  Via(g, m, n) /\ Open(g, m) = {} /\ m \in Node
  BY <1>0, <1>1, ArcsUsed DEF Via, Resolved, Inactive
<1>2. ASSUME NEW n \in Rule, Open(g, n) = {}
      PROVE  ResolvedSuppliers(h, n) \subseteq ResolvedSuppliers(g, n)
  <2>1. n \in Node
    BY NodeKinds
  <2> QED BY <1>1, <1>2, <2>1 DEF ResolvedSuppliers
<1>3. ASSUME NEW n \in Rule, Open(g, n) = {}
      PROVE  /\ ResolvedSuppliers(g, n) \subseteq g.sched
             /\ \A q \in ResolvedSuppliers(g, n) : Open(g, q) = {}
  <2>1. n \in Node
    BY NodeKinds
  <2>2. \A x \in Node : \A m : Open(g, x) = {} /\ Via(g, m, x) => m \in Node /\ m \in g.sched /\ Open(g, m) = {}
    BY <1>0, ArcsUsed DEF Via, Resolved, Inactive
  <2> QED BY <1>3, <2>1, <2>2 DEF ResolvedSuppliers
<1>4. \A q \in ResolvedSuppliers(g, r) : q \in Rule /\ Open(g, q) = {}
  BY <1>3 DEF ResolvedSuppliers
<1>5. ResolvedSuppliers(h, r) \subseteq ResolvedSuppliers(g, r)
  BY <1>2
<1>6. \A q \in ResolvedSuppliers(g, r) :
        ResolvedSuppliers(h, q) \subseteq ResolvedSuppliers(g, q) /\ ResolvedSuppliers(g, q) \subseteq g.sched
  BY <1>2, <1>3, <1>4
<1> QED BY <1>3, <1>5, <1>6 DEF Needs

\* A chain lists a rule after those whose results it uses.
Ordered(c) == \A i, j \in DOMAIN c.rules : c.rules[j] \in Needs(c.g, c.rules[i]) => j < i

\* What the initial chain s is built on: all that remains in it has been analysed, and the rules
\* in it are those executed.
Rooted(s) ==
  /\ s.g \in GraphOver(DOMAIN graph.arc) /\ Grounded(graph.arc, {}, s.g)
  /\ \A r \in s.g.alive \cap (Rule \cup {Final}) : Analysed(r)
  /\ s.g.sched \cap Production \subseteq Finished

\* What any other chain is built on.
Backed(c, s) ==
  /\ c.g \in GraphOver(DOMAIN graph.arc) /\ Grounded(graph.arc, ToSet(c.rules), c.g)
  /\ c.g.alive \subseteq s.g.alive
  /\ c.g.sched \cap Production \subseteq ToSet(c.rules) \cup Finished
  /\ IsInjective(c.rules) /\ Ordered(c)
BackedHeap(agents, s) == \A a \in agents : Backed(a.chain, s)

\* All rules executed are in the initial chain s, but those of X; all that failed have been
\* eliminated from it, but those of X.
Fresh(s, X) == \A r \in Production \cap s.g.alive : run[r] = "OK" => r \in s.g.sched \cup X
Sifted(s, X) == \A r \in Rule \cap s.g.alive : Bad(r) => r \in X

\* What does not depend on a chain.
Basis ==
  /\ problem \in Problem /\ run \in [Rule -> Results]
  /\ DOMAIN graph.arc \in ArcsAmong /\ Labels(graph.arc)
  /\ \A r \in Production : run[r] = "OK" => Output(r) \subseteq have

\* A list of rules that can be executed one after another, unless one fails.
Before(list, i) == {list[j] : j \in 1..(i - 1)}
DueList(list) ==
  /\ IsInjective(list)
  /\ \A i \in DOMAIN list :
       /\ run[list[i]] = "none" /\ Met(list[i], Made(Before(list, i)))
       /\ list[i] \in Production => \A q \in ToSet(Pre(list[i])) : run[q] = "OK" \/ q \in Before(list, i)

(* A rule that has got everything in a chain can be executed after the rules of the chain
   it uses. *)
LEMMA RuleMet ==
  ASSUME Basis, NEW c, GoodDraft(c), NEW s, Rooted(s), Backed(c, s),
         NEW r \in Rule \cup {Final}, r \in c.g.alive, Open(c.g, r) = {}, Plain(r),
         NEW X, ResolvedSuppliers(c.g, r) \cap ToSet(c.rules) \subseteq X
  PROVE  Met(r, Made(X))
<1> SUFFICES ASSUME NEW k \in DOMAIN Input(r), Input(r)[k] \cap Made(X) = {} PROVE FALSE
  BY DEF Met
<1>1. Input(r)[k] \cap have = {}
  BY DEF Made
<1>2. Analysed(r)
  BY DEF Rooted, Backed
<1>3. Exact(c.g) /\ Grounded(graph.arc, ToSet(c.rules), c.g) /\ c.g \in GraphOver(DOMAIN graph.arc)
  BY DEF GoodDraft, Backed
<1>4. PICK p \in Input(r)[k] : \E t \in Production :
           p \in Output(t) /\ t \in c.g.sched /\ Via(c.g, t, p) /\ Via(c.g, p, r)
  BY <1>1, <1>2, <1>3, InputSupplied DEF Basis
<1>5. PICK t \in Production : p \in Output(t) /\ t \in c.g.sched /\ Via(c.g, t, p) /\ Via(c.g, p, r)
  BY <1>4
<1>6. p \in Property
  BY RuleFacts DEF Basis
<1>7. t \in ResolvedSuppliers(c.g, r)
  BY <1>5, <1>6, NodeKinds DEF ResolvedSuppliers
<1>8. t \in ToSet(c.rules) \/ t \in Finished
  BY <1>5 DEF Backed
<1>9. CASE t \in ToSet(c.rules)
  BY <1>4, <1>5, <1>7, <1>9 DEF Made
<1>10. CASE t \in Finished
  BY <1>1, <1>5, <1>10 DEF Finished, Basis
<1> QED BY <1>8, <1>9, <1>10

(* The rules of a chain have not been executed.                                          *)
LEMMA RulesNew ==
  ASSUME Basis, NEW c, GoodDraft(c), NEW s, Rooted(s), Backed(c, s), Follows(c, s), Fresh(s, {}), Sifted(s, {})
  PROVE  /\ c.rules \in Seq(Production)
         /\ \A r \in ToSet(c.rules) :
              r \in Production /\ r \in c.g.sched /\ r \in c.g.alive /\ Open(c.g, r) = {} /\ run[r] = "none"
         /\ \A r \in Rule \cap c.g.alive : run[r] \in {"none", "OK"}
<1>1. c.rules \in Seq(Production)
  BY DEF GoodDraft, ChainType
<1>2. ToSet(c.rules) \subseteq Production
  BY <1>1, ListFolded
<1>3. ToSet(c.rules) \subseteq c.g.sched \cap c.g.alive
  BY DEF Backed, Grounded, Carry, Settled, Work
<1>4. \A r \in Rule \cap c.g.alive : run[r] \in {"none", "OK"}
  BY DEF Basis, Results, Sifted, Bad, Backed
<1>5. \A r \in ToSet(c.rules) : run[r] # "OK"
  BY <1>2, <1>3 DEF Follows, Fresh, Backed
<1>6. \A r \in ToSet(c.rules) : Open(c.g, r) = {}
  <2>1. Served(Work(c.g, {}))
    BY DEF GoodDraft, Exact, Sound
  <2> QED BY <1>3, <2>1 DEF Served, Work
<1>7. Production \subseteq Rule
  BY NodeKinds
<1> QED BY <1>1, <1>2, <1>3, <1>4, <1>5, <1>6, <1>7

(* A longer list makes more.                                                             *)
LEMMA MadeMore ==
  ASSUME NEW X, NEW Y, X \subseteq Y, NEW r, Met(r, Made(X))
  PROVE  Met(r, Made(Y))
<1>1. Made(X) \subseteq Made(Y)
  BY DEF Made
<1> QED BY <1>1 DEF Met

(* Lists without repetition that are joined.                                             *)
LEMMA ListsJoined ==
  ASSUME NEW S, NEW a \in Seq(S), NEW b \in Seq(S)
  PROVE  /\ a \o b \in Seq(S) /\ DOMAIN (a \o b) = 1..(Len(a) + Len(b))
         /\ \A i \in DOMAIN a : i \in DOMAIN (a \o b) /\ (a \o b)[i] = a[i] /\ Before(a \o b, i) = Before(a, i)
         /\ \A i \in DOMAIN (a \o b) \ DOMAIN a :
              i - Len(a) \in DOMAIN b /\ (a \o b)[i] = b[i - Len(a)] /\ ToSet(a) \subseteq Before(a \o b, i)
         /\ IsInjective(a) /\ IsInjective(b) /\ ToSet(a) \cap ToSet(b) = {} => IsInjective(a \o b)
<1> DEFINE c == a \o b
           m == Len(a)
           n == Len(b)
<1>1. m \in Nat /\ n \in Nat /\ DOMAIN a = 1..m /\ DOMAIN b = 1..n /\ DOMAIN c = 1..(m + n) /\ c \in Seq(S)
  OBVIOUS
<1>2. \A i \in 1..m : i \in 1..(m + n) /\ c[i] = a[i]
  OBVIOUS
<1>3. \A i \in (1..(m + n)) \ (1..m) : i - m \in 1..n /\ c[i] = b[i - m]
  OBVIOUS
<1> HIDE DEF c, m, n
<1>4. \A i \in 1..m : Before(c, i) = Before(a, i)
  <2>1. \A i \in 1..m : \A j \in 1..(i - 1) : j \in 1..m
    BY <1>1
  <2> QED BY <1>2, <2>1 DEF Before
<1>5. \A i \in (1..(m + n)) \ (1..m) : ToSet(a) \subseteq Before(c, i)
  <2>1. \A i \in (1..(m + n)) \ (1..m) : \A j \in 1..m : j \in 1..(i - 1)
    BY <1>1
  <2> QED BY <1>1, <1>2, <2>1 DEF Before, ToSet
<1>6. ASSUME IsInjective(a), IsInjective(b), ToSet(a) \cap ToSet(b) = {}
      PROVE  IsInjective(c)
  <2> SUFFICES ASSUME NEW i \in 1..(m + n), NEW j \in 1..(m + n), c[i] = c[j] PROVE i = j
    BY <1>1 DEF IsInjective
  <2>1. \A x \in 1..m : a[x] \in ToSet(a)
    BY <1>1 DEF ToSet
  <2>2. \A x \in 1..n : b[x] \in ToSet(b)
    BY <1>1 DEF ToSet
  <2>3. CASE i \in 1..m /\ j \in 1..m
    BY <1>1, <1>2, <1>6, <2>3 DEF IsInjective
  <2>4. CASE i \notin 1..m /\ j \notin 1..m
    <3>1. i - m = j - m
      BY <1>1, <1>3, <1>6, <2>4 DEF IsInjective
    <3> QED BY <1>1, <3>1
  <2>5. CASE i \in 1..m /\ j \notin 1..m
    BY <1>2, <1>3, <1>6, <2>1, <2>2, <2>5
  <2>6. CASE i \notin 1..m /\ j \in 1..m
    BY <1>2, <1>3, <1>6, <2>1, <2>2, <2>6
  <2> QED BY <2>3, <2>4, <2>5, <2>6
<1> QED BY <1>1, <1>2, <1>3, <1>4, <1>5, <1>6 DEF c, m, n

\* A list that can be executed after the rules of X have been.
DueAfter(m, X) ==
  /\ IsInjective(m) /\ ToSet(m) \cap X = {}
  /\ \A x \in ToSet(m) : /\ run[x] = "none" /\ Met(x, Made(X))
                         /\ x \in Production => \A q \in ToSet(Pre(x)) : run[q] = "OK" \/ q \in X

(* Rules that depend on the list only are put at its end.                                *)
LEMMA DueJoined ==
  ASSUME NEW a \in Seq(Rule), NEW b \in Seq(Rule), DueList(a), DueAfter(b, ToSet(a))
  PROVE  DueList(a \o b)
<1> DEFINE c == a \o b
<1>1. /\ \A i \in DOMAIN a : c[i] = a[i] /\ Before(c, i) = Before(a, i)
      /\ \A i \in DOMAIN c \ DOMAIN a : i - Len(a) \in DOMAIN b /\ c[i] = b[i - Len(a)] /\ ToSet(a) \subseteq Before(c, i)
      /\ IsInjective(c)
  BY ListsJoined DEF DueList, DueAfter
<1> HIDE DEF c
<1>2. ASSUME NEW i \in DOMAIN c, i \notin DOMAIN a
      PROVE  /\ run[c[i]] = "none" /\ Met(c[i], Made(Before(c, i)))
             /\ c[i] \in Production => \A q \in ToSet(Pre(c[i])) : run[q] = "OK" \/ q \in Before(c, i)
  <2>1. c[i] \in ToSet(b) /\ ToSet(a) \subseteq Before(c, i)
    BY <1>1, <1>2 DEF ToSet
  <2>2. Met(c[i], Made(ToSet(a)))
    BY <2>1 DEF DueAfter
  <2>3. Met(c[i], Made(Before(c, i)))
    BY <2>1, <2>2, MadeMore
  <2> QED BY <2>1, <2>3 DEF DueAfter
<1>3. ASSUME NEW i \in DOMAIN a
      PROVE  /\ run[c[i]] = "none" /\ Met(c[i], Made(Before(c, i)))
             /\ c[i] \in Production => \A q \in ToSet(Pre(c[i])) : run[q] = "OK" \/ q \in Before(c, i)
  BY <1>1, <1>3 DEF DueList
<1>4. DueList(c)
  BY <1>1, <1>2, <1>3 DEF DueList
<1> QED BY <1>4 DEF c

(* A single rule as a list.                                                              *)
LEMMA SingleList ==
  ASSUME NEW S, NEW r \in S
  PROVE  <<r>> \in Seq(S) /\ ToSet(<<r>>) = {r} /\ IsInjective(<<r>>) /\ DOMAIN <<r>> = {1} /\ <<r>>[1] = r
<1>1. DOMAIN <<r>> = {1} /\ <<r>>[1] = r
  OBVIOUS
<1> QED BY <1>1 DEF ToSet, IsInjective

(* grep goes through the list rule by rule.                                              *)
LEMMA OnlyTurns ==
  ASSUME NEW T, NEW rules \in Seq(T), NEW S
  PROVE  \E a : /\ a[0] = <<>> /\ Only(rules, S) = a[Len(rules)]
                /\ \A k \in 1..Len(rules) : a[k] = IF rules[k] \in S THEN Append(a[k - 1], rules[k]) ELSE a[k - 1]
<1> DEFINE P == DOMAIN rules
           n == Len(rules)
           E == Seq(T)
           op(i, v) == IF rules[i] \in S THEN Append(v, rules[i]) ELSE v
           next == [s \in SUBSET P |-> Max(s)]
           step == [p \in P \X E |-> op(p[1], p[2])]
           Eq(h) == h = [s \in SUBSET P |-> IF s = {} THEN <<>> ELSE op(Max(s), h[s \ {Max(s)}])]
           f == CHOOSE h : Eq(h)
           a == [k \in 0..n |-> f[1..k]]
<1>0. IsFiniteSet(P) /\ P = 1..n /\ n \in Nat /\ \A s \in SUBSET P : s # {} => next[s] \in s
  BY ListFolded
<1>1. \A i \in P : \A v \in E : op(i, v) \in E
  <2>1. \A i \in P : rules[i] \in T
    BY ListFolded
  <2> HIDE DEF P
  <2> QED BY <2>1
<1>2. step \in [P \X E -> E]
  <2> HIDE DEF op, E, P
  <2> QED BY <1>1
<1>3. <<>> \in E
  OBVIOUS
<1>4. PICK h : Folded(h, P, next, <<>>, step) /\ \A s \in SUBSET P : h[s] \in E
  <2> HIDE DEF next, step, E, P
  <2> QED BY ONLY <1>0, <1>2, <1>3, FoldedWithin
<1>5. Eq(h)
  <2> HIDE DEF op, E, P
  <2>1. \A s \in SUBSET P : s # {} => <<next[s], h[s \ {next[s]}]>> \in P \X E
    BY <1>0, <1>4
  <2>2. h = [s \in SUBSET P |-> IF s = {} THEN <<>> ELSE op(next[s], h[s \ {next[s]}])]
    <3> HIDE DEF next
    <3> QED BY <2>1, <1>4 DEF Folded
  <2> QED BY <2>2
<1>6. Eq(f)
  <2> HIDE DEF Eq
  <2> QED BY <1>5
<1>7. Only(rules, S) = f[P]
  BY DEF Only, FoldLeft, MapThenFoldSet
<1> HIDE DEF f
<1>8. f[{}] = <<>> /\ \A s \in SUBSET P : s # {} => f[s] = op(Max(s), f[s \ {Max(s)}])
  <2> HIDE DEF op, P
  <2> QED BY <1>6
<1>9. \A k \in 1..n : 1..k \in SUBSET P /\ 1..k # {} /\ Max(1..k) = k /\ (1..k) \ {k} = 1..(k - 1)
  BY <1>0, MaxLast
<1>10. \A k \in 1..n : f[1..k] = op(k, f[1..(k - 1)])
  <2> TAKE k \in 1..n
  <2> DEFINE s == 1..k
  <2>1. s \in SUBSET P /\ s # {} /\ Max(s) = k /\ s \ {k} = 1..(k - 1)
    BY <1>9
  <2> HIDE DEF s, op, P
  <2>2. f[s] = op(Max(s), f[s \ {Max(s)}])
    BY <1>8, <2>1
  <2>3. f[s] = op(k, f[1..(k - 1)])
    BY <2>1, <2>2
  <2> QED BY <2>3 DEF s
<1>11. a[0] = <<>> /\ Only(rules, S) = a[n]
  <2>1. 1..0 = {} /\ 0 \in 0..n /\ n \in 0..n
    BY <1>0
  <2> HIDE DEF n, P
  <2> QED BY <1>0, <1>7, <1>8, <2>1
<1>12. \A k \in 1..n : a[k] = op(k, a[k - 1])
  <2>1. \A k \in 1..n : k \in 0..n /\ k - 1 \in 0..n
    BY <1>0
  <2> HIDE DEF op, P, n
  <2>2. \A k \in 1..n : a[k] = f[1..k] /\ a[k - 1] = f[1..(k - 1)]
    BY <2>1
  <2> HIDE DEF a
  <2> QED BY <1>10, <2>2
<1> HIDE DEF a
<1> QED BY <1>11, <1>12

(* weave_preconditions goes through the chain rule by rule.                              *)
LEMMA WeaveTurns ==
  ASSUME problem \in Problem, NEW rules \in Seq(Production)
  PROVE  \E a : /\ a[0] = <<>> /\ Weave(rules) = a[Len(rules)]
                /\ \A k \in 1..Len(rules) : a[k] = a[k - 1] \o Inserted(rules[k], a[k - 1]) \o <<rules[k]>>
<1> DEFINE P == DOMAIN rules
           n == Len(rules)
           E == Seq(Rule)
           op(i, v) == v \o Inserted(rules[i], v) \o <<rules[i]>>
           next == [s \in SUBSET P |-> Max(s)]
           step == [p \in P \X E |-> op(p[1], p[2])]
           Eq(h) == h = [s \in SUBSET P |-> IF s = {} THEN <<>> ELSE op(Max(s), h[s \ {Max(s)}])]
           f == CHOOSE h : Eq(h)
           a == [k \in 0..n |-> f[1..k]]
<1>0. IsFiniteSet(P) /\ P = 1..n /\ n \in Nat /\ \A s \in SUBSET P : s # {} => next[s] \in s
  BY ListFolded
<1>1. \A i \in P : \A v \in E : op(i, v) \in E
  <2> SUFFICES ASSUME NEW i \in P, NEW v \in E PROVE op(i, v) \in E
    OBVIOUS
  <2> DEFINE r == rules[i]
             new == Inserted(r, v)
  <2>1. r \in Production /\ r \in Rule
    BY ListFolded, NodeKinds
  <2> HIDE DEF r
  <2>2. new \in Seq(Rule)
    BY <2>1, ProblemFacts, OnlySome, NodeKinds DEF Inserted
  <2> HIDE DEF new
  <2>3. v \o new \o <<r>> \in Seq(Rule)
    BY <2>1, <2>2
  <2> QED BY <2>3 DEF new, r
<1>2. step \in [P \X E -> E]
  <2> HIDE DEF op, E, P
  <2> QED BY <1>1
<1>3. <<>> \in E
  OBVIOUS
<1>4. PICK h : Folded(h, P, next, <<>>, step) /\ \A s \in SUBSET P : h[s] \in E
  <2> HIDE DEF next, step, E, P
  <2> QED BY ONLY <1>0, <1>2, <1>3, FoldedWithin
<1>5. Eq(h)
  <2> HIDE DEF op, E, P
  <2>1. \A s \in SUBSET P : s # {} => <<next[s], h[s \ {next[s]}]>> \in P \X E
    BY <1>0, <1>4
  <2>2. h = [s \in SUBSET P |-> IF s = {} THEN <<>> ELSE op(next[s], h[s \ {next[s]}])]
    <3> HIDE DEF next
    <3> QED BY <2>1, <1>4 DEF Folded
  <2> QED BY <2>2
<1>6. Eq(f)
  <2> HIDE DEF Eq
  <2> QED BY <1>5
<1>7. Weave(rules) = f[P]
  BY DEF Weave, Inserted, FoldLeft, MapThenFoldSet
<1> HIDE DEF f
<1>8. f[{}] = <<>> /\ \A s \in SUBSET P : s # {} => f[s] = op(Max(s), f[s \ {Max(s)}])
  <2> HIDE DEF op, P
  <2> QED BY <1>6
<1>9. \A k \in 1..n : 1..k \in SUBSET P /\ 1..k # {} /\ Max(1..k) = k /\ (1..k) \ {k} = 1..(k - 1)
  BY <1>0, MaxLast
<1>10. \A k \in 1..n : f[1..k] = op(k, f[1..(k - 1)])
  <2> TAKE k \in 1..n
  <2> DEFINE s == 1..k
  <2>1. s \in SUBSET P /\ s # {} /\ Max(s) = k /\ s \ {k} = 1..(k - 1)
    BY <1>9
  <2> HIDE DEF s, op, P
  <2>2. f[s] = op(Max(s), f[s \ {Max(s)}])
    BY <1>8, <2>1
  <2>3. f[s] = op(k, f[1..(k - 1)])
    BY <2>1, <2>2
  <2> QED BY <2>3 DEF s
<1>11. a[0] = <<>> /\ Weave(rules) = a[n]
  <2>1. 1..0 = {} /\ 0 \in 0..n /\ n \in 0..n
    BY <1>0
  <2> HIDE DEF n, P
  <2> QED BY <1>0, <1>7, <1>8, <2>1
<1>12. \A k \in 1..n : a[k] = op(k, a[k - 1])
  <2>1. \A k \in 1..n : k \in 0..n /\ k - 1 \in 0..n
    BY <1>0
  <2> HIDE DEF op, P, n
  <2>2. \A k \in 1..n : a[k] = f[1..k] /\ a[k - 1] = f[1..(k - 1)]
    BY <2>1
  <2> HIDE DEF a
  <2> QED BY <1>10, <2>2
<1> HIDE DEF a
<1> QED BY <1>11, <1>12

\* The first rules that are too expensive.
Costly == {r \in ToSet(top.rules) : \/ run[r] = "none" /\ Weight(r) >= Expensive
                                    \/ \E q \in ToSet(Pre(r)) : run[q] = "none"}

(* What is too expensive spreads along the chain.                                        *)
LEMMA ExpensiveTurns ==
  ASSUME NEW rules \in Seq(Rule), top.rules = rules
  PROVE  \E a : /\ a[0] = Costly /\ TooExpensive = a[Len(rules)]
                /\ \A k \in 1..Len(rules) :
                     a[k] = IF rules[k] \in a[k - 1] THEN a[k - 1] \cup ResolvedConsumers(top.g, rules[k]) ELSE a[k - 1]
<1> DEFINE P == DOMAIN rules
           n == Len(rules)
           E == SUBSET Rule
           op(i, v) == IF rules[i] \in v THEN v \cup ResolvedConsumers(top.g, rules[i]) ELSE v
           next == [s \in SUBSET P |-> Max(s)]
           step == [p \in P \X E |-> op(p[1], p[2])]
           Eq(h) == h = [s \in SUBSET P |-> IF s = {} THEN Costly ELSE op(Max(s), h[s \ {Max(s)}])]
           f == CHOOSE h : Eq(h)
           a == [k \in 0..n |-> f[1..k]]
<1>0. IsFiniteSet(P) /\ P = 1..n /\ n \in Nat /\ \A s \in SUBSET P : s # {} => next[s] \in s
  BY ListFolded
<1>1. \A i \in P : \A v \in E : op(i, v) \in E
  BY DEF ResolvedConsumers
<1>2. step \in [P \X E -> E]
  <2> HIDE DEF op, E, P
  <2> QED BY <1>1
<1>3. Costly \in E
  BY ListFolded DEF Costly
<1>4. PICK h : Folded(h, P, next, Costly, step) /\ \A s \in SUBSET P : h[s] \in E
  <2> HIDE DEF next, step, E, P
  <2> QED BY ONLY <1>0, <1>2, <1>3, FoldedWithin
<1>5. Eq(h)
  <2> HIDE DEF op, E, P
  <2>1. \A s \in SUBSET P : s # {} => <<next[s], h[s \ {next[s]}]>> \in P \X E
    BY <1>0, <1>4
  <2>2. h = [s \in SUBSET P |-> IF s = {} THEN Costly ELSE op(next[s], h[s \ {next[s]}])]
    <3> HIDE DEF next
    <3> QED BY <2>1, <1>4 DEF Folded
  <2> QED BY <2>2
<1>6. Eq(f)
  <2> HIDE DEF Eq
  <2> QED BY <1>5
<1>7. TooExpensive = f[P]
  BY DEF TooExpensive, Costly, FoldLeft, MapThenFoldSet
<1> HIDE DEF f
<1>8. f[{}] = Costly /\ \A s \in SUBSET P : s # {} => f[s] = op(Max(s), f[s \ {Max(s)}])
  <2> HIDE DEF op, P
  <2> QED BY <1>6
<1>9. \A k \in 1..n : 1..k \in SUBSET P /\ 1..k # {} /\ Max(1..k) = k /\ (1..k) \ {k} = 1..(k - 1)
  BY <1>0, MaxLast
<1>10. \A k \in 1..n : f[1..k] = op(k, f[1..(k - 1)])
  <2> TAKE k \in 1..n
  <2> DEFINE s == 1..k
  <2>1. s \in SUBSET P /\ s # {} /\ Max(s) = k /\ s \ {k} = 1..(k - 1)
    BY <1>9
  <2> HIDE DEF s, op, P
  <2>2. f[s] = op(Max(s), f[s \ {Max(s)}])
    BY <1>8, <2>1
  <2>3. f[s] = op(k, f[1..(k - 1)])
    BY <2>1, <2>2
  <2> QED BY <2>3 DEF s
<1>11. a[0] = Costly /\ TooExpensive = a[n]
  <2>1. 1..0 = {} /\ 0 \in 0..n /\ n \in 0..n
    BY <1>0
  <2> HIDE DEF n, P
  <2> QED BY <1>0, <1>7, <1>8, <2>1
<1>12. \A k \in 1..n : a[k] = op(k, a[k - 1])
  <2>1. \A k \in 1..n : k \in 0..n /\ k - 1 \in 0..n
    BY <1>0
  <2> HIDE DEF op, P, n
  <2>2. \A k \in 1..n : a[k] = f[1..k] /\ a[k - 1] = f[1..(k - 1)]
    BY <2>1
  <2> HIDE DEF a
  <2> QED BY <1>10, <2>2
<1> HIDE DEF a
<1> QED BY <1>11, <1>12

\* The rules not executed yet whose results r uses.
Direct(r) == {s \in ResolvedSuppliers(top.g, r) : run[s] = "none"}
Directs(pre) == UNION {Direct(q) : q \in pre}
FoundBy(a, rules, pre) ==
  /\ a[0] = Directs(pre) /\ SuppliersToRun(pre) = a[Len(rules)]
  /\ \A k \in 1..Len(rules) : a[k] = IF rules[k] \in a[k - 1] THEN a[k - 1] \cup Direct(rules[k]) ELSE a[k - 1]

(* Suppliers are found going through the chain from its end.                             *)
LEMMA SuppliersTurns ==
  ASSUME NEW rules \in Seq(Rule), Reverse(top.rules) = rules, NEW pre
  PROVE  \E a : FoundBy(a, rules, pre)
<1> DEFINE P == DOMAIN rules
           n == Len(rules)
           E == SUBSET Rule
           op(i, v) == IF rules[i] \in v THEN v \cup Direct(rules[i]) ELSE v
           next == [s \in SUBSET P |-> Max(s)]
           step == [p \in P \X E |-> op(p[1], p[2])]
           Eq(h) == h = [s \in SUBSET P |-> IF s = {} THEN Directs(pre) ELSE op(Max(s), h[s \ {Max(s)}])]
           f == CHOOSE h : Eq(h)
           a == [k \in 0..n |-> f[1..k]]
<1>0. IsFiniteSet(P) /\ P = 1..n /\ n \in Nat /\ \A s \in SUBSET P : s # {} => next[s] \in s
  BY ListFolded
<1>1. \A i \in P : \A v \in E : op(i, v) \in E
  BY DEF Direct, ResolvedSuppliers
<1>2. step \in [P \X E -> E]
  <2> HIDE DEF op, E, P
  <2> QED BY <1>1
<1>3. Directs(pre) \in E
  BY DEF Directs, Direct, ResolvedSuppliers
<1>4. PICK h : Folded(h, P, next, Directs(pre), step) /\ \A s \in SUBSET P : h[s] \in E
  <2> HIDE DEF next, step, E, P
  <2> QED BY ONLY <1>0, <1>2, <1>3, FoldedWithin
<1>5. Eq(h)
  <2> HIDE DEF op, E, P
  <2>1. \A s \in SUBSET P : s # {} => <<next[s], h[s \ {next[s]}]>> \in P \X E
    BY <1>0, <1>4
  <2>2. h = [s \in SUBSET P |-> IF s = {} THEN Directs(pre) ELSE op(next[s], h[s \ {next[s]}])]
    <3> HIDE DEF next
    <3> QED BY <2>1, <1>4 DEF Folded
  <2> QED BY <2>2
<1>6. Eq(f)
  <2> HIDE DEF Eq
  <2> QED BY <1>5
<1>7. SuppliersToRun(pre) = f[P]
  BY DEF SuppliersToRun, Directs, Direct, FoldLeft, MapThenFoldSet
<1> HIDE DEF f
<1>8. f[{}] = Directs(pre) /\ \A s \in SUBSET P : s # {} => f[s] = op(Max(s), f[s \ {Max(s)}])
  <2> HIDE DEF op, P
  <2> QED BY <1>6
<1>9. \A k \in 1..n : 1..k \in SUBSET P /\ 1..k # {} /\ Max(1..k) = k /\ (1..k) \ {k} = 1..(k - 1)
  BY <1>0, MaxLast
<1>10. \A k \in 1..n : f[1..k] = op(k, f[1..(k - 1)])
  <2> TAKE k \in 1..n
  <2> DEFINE s == 1..k
  <2>1. s \in SUBSET P /\ s # {} /\ Max(s) = k /\ s \ {k} = 1..(k - 1)
    BY <1>9
  <2> HIDE DEF s, op, P
  <2>2. f[s] = op(Max(s), f[s \ {Max(s)}])
    BY <1>8, <2>1
  <2>3. f[s] = op(k, f[1..(k - 1)])
    BY <2>1, <2>2
  <2> QED BY <2>3 DEF s
<1>11. a[0] = Directs(pre) /\ SuppliersToRun(pre) = a[n]
  <2>1. 1..0 = {} /\ 0 \in 0..n /\ n \in 0..n
    BY <1>0
  <2> HIDE DEF n, P
  <2> QED BY <1>0, <1>7, <1>8, <2>1
<1>12. \A k \in 1..n : a[k] = op(k, a[k - 1])
  <2>1. \A k \in 1..n : k \in 0..n /\ k - 1 \in 0..n
    BY <1>0
  <2> HIDE DEF op, P, n
  <2>2. \A k \in 1..n : a[k] = f[1..k] /\ a[k - 1] = f[1..(k - 1)]
    BY <2>1
  <2> HIDE DEF a
  <2> QED BY <1>10, <2>2
<1> HIDE DEF a
<1> QED BY <1>11, <1>12 DEF FoundBy

\* The first k elements of a list.
Upto(list, k) == {list[j] : j \in 1..k}

(* The elements of a list, one after another.                                            *)
LEMMA UptoFacts ==
  ASSUME NEW S, NEW list \in Seq(S)
  PROVE  /\ Upto(list, 0) = {} /\ Upto(list, Len(list)) = ToSet(list)
         /\ \A k \in 1..Len(list) :
              /\ k \in DOMAIN list /\ list[k] \in S /\ list[k] \in ToSet(list)
              /\ Upto(list, k) = Upto(list, k - 1) \cup {list[k]}
              /\ IsInjective(list) => list[k] \notin Upto(list, k - 1)
              /\ Upto(list, k) \subseteq S
<1> DEFINE n == Len(list)
<1>1. n \in Nat /\ DOMAIN list = 1..n
  OBVIOUS
<1>2. \A k \in 1..n : list[k] \in S
  OBVIOUS
<1> HIDE DEF n
<1>3. Upto(list, 0) = {}
  BY DEF Upto
<1>4. Upto(list, n) = ToSet(list)
  BY <1>1 DEF Upto, ToSet
<1>5. ASSUME NEW k \in 1..n
      PROVE  /\ Upto(list, k) = Upto(list, k - 1) \cup {list[k]}
             /\ IsInjective(list) => list[k] \notin Upto(list, k - 1)
             /\ Upto(list, k) \subseteq S
  <2>1. \A j \in 1..k : j = k \/ j \in 1..(k - 1)
    BY <1>1
  <2>2. \A j \in 1..(k - 1) : j \in 1..k /\ j \in 1..n /\ j # k
    BY <1>1
  <2>3. k \in 1..k /\ 1..k \subseteq 1..n
    BY <1>1
  <2>4. Upto(list, k) = Upto(list, k - 1) \cup {list[k]}
    BY <2>1, <2>2, <2>3 DEF Upto
  <2>5. IsInjective(list) => list[k] \notin Upto(list, k - 1)
    BY <1>1, <2>2 DEF Upto, IsInjective
  <2>6. Upto(list, k) \subseteq S
    BY <1>2, <2>3 DEF Upto
  <2> QED BY <2>4, <2>5, <2>6
<1> QED BY <1>1, <1>2, <1>3, <1>4, <1>5 DEF n, ToSet

(* grep keeps the elements of the list that are in the set, each once.                   *)
LEMMA OnlyExact ==
  ASSUME NEW T, NEW rules \in Seq(T), NEW S
  PROVE  /\ Only(rules, S) \in Seq(T) /\ ToSet(Only(rules, S)) = ToSet(rules) \cap S
         /\ IsInjective(rules) => IsInjective(Only(rules, S))
<1> DEFINE n == Len(rules)
<1>1. PICK a : /\ a[0] = <<>> /\ Only(rules, S) = a[n]
               /\ \A k \in 1..n : a[k] = IF rules[k] \in S THEN Append(a[k - 1], rules[k]) ELSE a[k - 1]
  BY OnlyTurns
<1>2. n \in Nat
  OBVIOUS
<1> DEFINE Q == {k \in 0..n : /\ a[k] \in Seq(T) /\ ToSet(a[k]) = Upto(rules, k) \cap S
                              /\ IsInjective(rules) => IsInjective(a[k])}
<1>3. 0 \in Q
  <2>1. <<>> \in Seq(T) /\ ToSet(<<>>) = {} /\ IsInjective(<<>>)
    BY DEF ToSet, IsInjective
  <2>2. Upto(rules, 0) = {}
    BY UptoFacts
  <2> DEFINE e == a[0]
  <2>3. e = <<>> /\ 0 \in 0..n
    BY <1>1, <1>2
  <2> HIDE DEF e, n
  <2> SUFFICES e \in Seq(T) /\ ToSet(e) = Upto(rules, 0) \cap S /\ (IsInjective(rules) => IsInjective(e))
    BY <2>3 DEF e
  <2> QED BY <2>1, <2>2, <2>3
<1>4. ASSUME NEW k \in 1..n, k - 1 \in Q PROVE k \in Q
  <2> DEFINE b == a[k - 1]
             x == rules[k]
  <2>1. b \in Seq(T) /\ ToSet(b) = Upto(rules, k - 1) \cap S /\ (IsInjective(rules) => IsInjective(b))
    BY <1>4
  <2>2. /\ x \in T /\ Upto(rules, k) = Upto(rules, k - 1) \cup {x}
        /\ IsInjective(rules) => x \notin Upto(rules, k - 1)
    BY UptoFacts
  <2> DEFINE e == a[k]
  <2>3. e = IF x \in S THEN Append(b, x) ELSE b
    BY <1>1
  <2>0. k \in 0..n
    BY <1>2
  <2> HIDE DEF b, x, e, n
  <2> SUFFICES e \in Seq(T) /\ ToSet(e) = Upto(rules, k) \cap S /\ (IsInjective(rules) => IsInjective(e))
    BY <2>0 DEF e
  <2>4. CASE x \notin S
    BY <2>1, <2>2, <2>3, <2>4
  <2>5. CASE x \in S
    <3> DEFINE y == <<x>>
    <3>1. y \in Seq(T) /\ ToSet(y) = {x} /\ IsInjective(y)
      BY <2>2, SingleList
    <3>2. Append(b, x) = b \o y
      BY <2>1, <2>2
    <3> HIDE DEF y
    <3>3. b \o y \in Seq(T) /\ ToSet(b \o y) = ToSet(b) \cup {x}
      BY <2>1, <2>2, <3>1, ListSets
    <3>4. IsInjective(rules) => IsInjective(b \o y)
      BY <2>1, <2>2, <3>1, ListsJoined
    <3> QED BY <2>1, <2>2, <2>3, <2>5, <3>2, <3>3, <3>4
  <2> QED BY <2>4, <2>5
<1>5. n \in Q
  <2> HIDE DEF Q, n
  <2>1. \A i \in 0..n : i \in Q
    BY <1>2, <1>3, <1>4, PrefixInduction
  <2> QED BY <1>2, <2>1
<1>6. Upto(rules, n) = ToSet(rules)
  BY UptoFacts
<1> QED BY <1>1, <1>5, <1>6

(* Part of a chain, in its order, can be executed when each of its rules uses others of
   this part only. *)
LEMMA DueOnly ==
  ASSUME NEW rules \in Seq(Production), IsInjective(rules), NEW X,
         \A k \in DOMAIN rules : rules[k] \in X =>
           /\ run[rules[k]] = "none" /\ Met(rules[k], Made(Upto(rules, k - 1) \cap X))
           /\ \A q \in ToSet(Pre(rules[k])) : run[q] = "OK"
  PROVE  DueList(Only(rules, X))
<1> DEFINE n == Len(rules)
<1>1. PICK a : /\ a[0] = <<>> /\ Only(rules, X) = a[n]
               /\ \A k \in 1..n : a[k] = IF rules[k] \in X THEN Append(a[k - 1], rules[k]) ELSE a[k - 1]
  BY OnlyTurns
<1>2. n \in Nat
  OBVIOUS
<1> DEFINE Q == {k \in 0..n : a[k] \in Seq(Rule) /\ ToSet(a[k]) = Upto(rules, k) \cap X /\ DueList(a[k])}
<1>3. 0 \in Q
  <2>1. <<>> \in Seq(Rule) /\ ToSet(<<>>) = {} /\ DueList(<<>>)
    BY DEF ToSet, IsInjective, DueList
  <2>2. Upto(rules, 0) = {}
    BY UptoFacts
  <2> DEFINE e == a[0]
  <2>3. e = <<>> /\ 0 \in 0..n
    BY <1>1, <1>2
  <2> HIDE DEF e, n
  <2> SUFFICES e \in Seq(Rule) /\ ToSet(e) = Upto(rules, 0) \cap X /\ DueList(e)
    BY <2>3 DEF e
  <2> QED BY <2>1, <2>2, <2>3
<1>4. ASSUME NEW k \in 1..n, k - 1 \in Q PROVE k \in Q
  <2> DEFINE b == a[k - 1]
             x == rules[k]
  <2>1. b \in Seq(Rule) /\ ToSet(b) = Upto(rules, k - 1) \cap X /\ DueList(b)
    BY <1>4
  <2>2. k \in DOMAIN rules /\ x \in Rule /\ Upto(rules, k) = Upto(rules, k - 1) \cup {x} /\ x \notin Upto(rules, k - 1)
    BY UptoFacts, NodeKinds
  <2> DEFINE e == a[k]
  <2>3. e = IF x \in X THEN Append(b, x) ELSE b
    BY <1>1
  <2>4. x \in X => /\ run[x] = "none" /\ Met(x, Made(ToSet(b)))
                   /\ \A q \in ToSet(Pre(x)) : run[q] = "OK"
    BY <2>1, <2>2
  <2>0. k \in 0..n
    BY <1>2
  <2> HIDE DEF b, x, e, n
  <2> SUFFICES e \in Seq(Rule) /\ ToSet(e) = Upto(rules, k) \cap X /\ DueList(e)
    BY <2>0 DEF e
  <2>5. CASE x \notin X
    BY <2>1, <2>2, <2>3, <2>5
  <2>6. CASE x \in X
    <3> DEFINE y == <<x>>
    <3>1. y \in Seq(Rule) /\ ToSet(y) = {x} /\ IsInjective(y)
      BY <2>2, SingleList
    <3>2. Append(b, x) = b \o y
      BY <2>1, <2>2
    <3> HIDE DEF y
    <3>3. b \o y \in Seq(Rule) /\ ToSet(b \o y) = ToSet(b) \cup {x}
      BY <2>1, <2>2, <3>1, ListSets
    <3>4. DueAfter(y, ToSet(b))
      BY <2>1, <2>2, <2>4, <2>6, <3>1 DEF DueAfter
    <3>5. DueList(b \o y)
      BY <2>1, <3>1, <3>4, DueJoined
    <3> QED BY <2>1, <2>2, <2>3, <2>6, <3>2, <3>3, <3>5
  <2> QED BY <2>5, <2>6
<1>5. n \in Q
  <2> HIDE DEF Q, n
  <2>1. \A i \in 0..n : i \in Q
    BY <1>2, <1>3, <1>4, PrefixInduction
  <2> QED BY <1>2, <2>1
<1> QED BY <1>1, <1>5

(* A chain each of whose rules uses earlier ones only can be executed with the
   preconditions that have not been evaluated. *)
LEMMA WeaveDue ==
  ASSUME problem \in Problem, NEW rules \in Seq(Production), IsInjective(rules),
         \A k \in DOMAIN rules :
           /\ run[rules[k]] = "none" /\ Met(rules[k], Made(Upto(rules, k - 1)))
           /\ \A q \in ToSet(Pre(rules[k])) : \/ run[q] = "OK"
                                              \/ run[q] = "none" /\ Met(q, Made(Upto(rules, k - 1)))
  PROVE  DueList(Weave(rules)) /\ ToSet(rules) \subseteq ToSet(Weave(rules))
<1> DEFINE n == Len(rules)
           pre(k) == UNION {ToSet(Pre(y)) : y \in Upto(rules, k)}
<1>1. PICK a : /\ a[0] = <<>> /\ Weave(rules) = a[n]
               /\ \A k \in 1..n : a[k] = a[k - 1] \o Inserted(rules[k], a[k - 1]) \o <<rules[k]>>
  BY WeaveTurns
<1>2. n \in Nat
  OBVIOUS
<1> DEFINE Q == {k \in 0..n : /\ a[k] \in Seq(Rule) /\ Upto(rules, k) \subseteq ToSet(a[k])
                              /\ ToSet(a[k]) \subseteq Upto(rules, k) \cup pre(k) /\ DueList(a[k])}
<1>3. 0 \in Q
  <2>1. <<>> \in Seq(Rule) /\ ToSet(<<>>) = {} /\ DueList(<<>>)
    BY DEF ToSet, IsInjective, DueList
  <2>2. Upto(rules, 0) = {}
    BY UptoFacts
  <2> DEFINE e == a[0]
  <2>3. e = <<>> /\ 0 \in 0..n
    BY <1>1, <1>2
  <2> HIDE DEF e, n
  <2> SUFFICES /\ e \in Seq(Rule) /\ Upto(rules, 0) \subseteq ToSet(e)
              /\ ToSet(e) \subseteq Upto(rules, 0) \cup pre(0) /\ DueList(e)
    BY <2>3 DEF e
  <2> QED BY <2>1, <2>2, <2>3
<1>4. ASSUME NEW k \in 1..n, k - 1 \in Q PROVE k \in Q
  <2> DEFINE l == a[k - 1]
             r == rules[k]
             m == Inserted(r, l)
             done == Upto(rules, k - 1)
  <2>1. /\ l \in Seq(Rule) /\ done \subseteq ToSet(l) /\ DueList(l)
        /\ ToSet(l) \subseteq done \cup UNION {ToSet(Pre(y)) : y \in done}
    BY <1>4
  <2>2. k \in DOMAIN rules /\ r \in Production /\ Upto(rules, k) = done \cup {r} /\ r \notin done
        /\ Upto(rules, k) \subseteq Production
    BY UptoFacts
  <2>3. a[k] = (l \o m) \o <<r>>
    BY <1>1
  <2>4. /\ run[r] = "none" /\ Met(r, Made(done))
        /\ \A q \in ToSet(Pre(r)) : run[q] = "OK" \/ (run[q] = "none" /\ Met(q, Made(done)))
    BY <2>2
  <2> HIDE DEF l, r, done
  <2>5. Pre(r) \in Seq(Precondition) /\ IsInjective(Pre(r)) /\ ToSet(Pre(r)) \subseteq Precondition
    BY <2>2, RuleFacts, ListFolded
  <2>6. /\ m \in Seq(Precondition) /\ IsInjective(m)
        /\ ToSet(m) = ToSet(Pre(r)) \cap {q \in Precondition : run[q] = "none" /\ ~(q \in problem.shared /\ q \in ToSet(l))}
    BY <2>5, OnlyExact DEF Inserted
  <2> HIDE DEF m
  <2>7. m \in Seq(Rule) /\ Precondition \cap Production = {} /\ r \in Rule
    BY <2>2, <2>6, NodeKinds, NodesDisjoint
  <2>8. \A y \in done : ToSet(Pre(r)) \cap ToSet(Pre(y)) \subseteq problem.shared
    BY <2>2, RuleFacts
  <2>9. ToSet(m) \cap ToSet(l) = {}
    <3> SUFFICES ASSUME NEW x \in ToSet(m), x \in ToSet(l) PROVE FALSE
      OBVIOUS
    <3>1. x \in Precondition /\ x \in ToSet(Pre(r)) /\ x \notin problem.shared
      BY <2>6
    <3>2. x \notin done
      BY <2>2, <2>7, <3>1
    <3>3. PICK y \in done : x \in ToSet(Pre(y))
      BY <2>1, <3>2
    <3> QED BY <2>8, <3>1, <3>3
  <2>10. DueAfter(m, ToSet(l))
    <3>1. \A x \in ToSet(m) : x \notin Production /\ run[x] = "none" /\ Met(x, Made(done))
      BY <2>4, <2>6, <2>7
    <3>2. \A x \in ToSet(m) : Met(x, Made(ToSet(l)))
      BY <2>1, <3>1, MadeMore
    <3> QED BY <2>6, <2>9, <3>1, <3>2 DEF DueAfter
  <2> DEFINE c == l \o m
  <2>11. c \in Seq(Rule) /\ DueList(c) /\ ToSet(c) = ToSet(l) \cup ToSet(m)
    <3>1. c \in Seq(Rule) /\ ToSet(c) = ToSet(l) \cup ToSet(m)
      BY <2>1, <2>7, ListSets
    <3> QED BY <2>1, <2>7, <2>10, <3>1, DueJoined
  <2> HIDE DEF c
  <2> DEFINE z == <<r>>
  <2>12. z \in Seq(Rule) /\ ToSet(z) = {r} /\ IsInjective(z)
    BY <2>7, SingleList
  <2> DEFINE e == a[k]
  <2>15. e = c \o z
    BY <2>3 DEF c
  <2>17. k \in 0..n
    BY <1>2
  <2> HIDE DEF e, n
  <2> SUFFICES /\ e \in Seq(Rule) /\ Upto(rules, k) \subseteq ToSet(e)
              /\ ToSet(e) \subseteq Upto(rules, k) \cup pre(k) /\ DueList(e)
    BY <2>17 DEF e
  <2> HIDE DEF z
  <2>13. DueAfter(z, ToSet(c))
    <3>1. r \notin ToSet(c)
      <4>1. r \notin ToSet(m)
        BY <2>2, <2>6, <2>7
      <4>2. \A y \in done : ToSet(Pre(y)) \subseteq Precondition
        BY <2>2, RuleFacts, ListFolded
      <4> QED BY <2>1, <2>2, <2>7, <2>11, <4>1, <4>2
    <3>2. Met(r, Made(ToSet(c)))
      BY <2>1, <2>4, <2>11, MadeMore
    <3>3. \A q \in ToSet(Pre(r)) : run[q] = "OK" \/ q \in ToSet(c)
      BY <2>4, <2>5, <2>6, <2>11
    <3> QED BY <2>4, <2>12, <3>1, <3>2, <3>3 DEF DueAfter
  <2>14. c \o z \in Seq(Rule) /\ DueList(c \o z) /\ ToSet(c \o z) = ToSet(c) \cup {r}
    <3>1. c \o z \in Seq(Rule) /\ ToSet(c \o z) = ToSet(c) \cup {r}
      BY <2>7, <2>11, <2>12, ListSets
    <3> QED BY <2>11, <2>12, <2>13, <3>1, DueJoined
  <2>16. ToSet(m) \subseteq ToSet(Pre(r))
    BY <2>6
  <2> QED BY <2>1, <2>2, <2>11, <2>14, <2>15, <2>16
<1>5. n \in Q
  <2> HIDE DEF Q, n
  <2>1. \A i \in 0..n : i \in Q
    BY <1>2, <1>3, <1>4, PrefixInduction
  <2> QED BY <1>2, <2>1
<1>6. Upto(rules, n) = ToSet(rules)
  BY UptoFacts
<1> QED BY <1>1, <1>5, <1>6

(* A flagged rule has got everything.                                                    *)
LEMMA FlaggedOpen ==
  ASSUME NEW D \in ArcsAmong, NEW g \in GraphOver(D), Exact(g), NEW r \in g.flagged
  PROVE  r \in g.alive /\ r \in Node /\ r \notin g.sched /\ Open(g, r) = {}
<1>1. Flags(Work(g, {})) /\ Waiting(Work(g, {}))
  BY DEF Exact, Sound
<1>2. r \in g.alive /\ r \notin g.sched /\ r \notin Property /\ r \in Node
  BY <1>1 DEF Flags, Work, GraphOver
<1>3. g.pending[r] = 0
  BY <1>1, <1>2 DEF Flags, Work
<1>4. g.pending[r] = Cardinality(Open(g, r))
  BY <1>1, <1>2 DEF Waiting, Work
<1>5. IsFiniteSet(Open(g, r))
  BY ArcsFinite
<1>6. Open(g, r) = {}
  BY <1>3, <1>4, <1>5, FS_EmptySet
<1> QED BY <1>2, <1>6

(* Each rule of a chain can be executed when those before it have been, and their
   preconditions. *)
LEMMA ChainDue ==
  ASSUME Basis, NEW c, GoodDraft(c), NEW s, Rooted(s), Backed(c, s), Follows(c, s), Fresh(s, {}), Sifted(s, {}),
         NEW k \in DOMAIN c.rules
  PROVE  /\ run[c.rules[k]] = "none" /\ Met(c.rules[k], Made(Upto(c.rules, k - 1)))
         /\ \A q \in ToSet(Pre(c.rules[k])) : \/ run[q] = "OK"
                                              \/ run[q] = "none" /\ Met(q, Made(Upto(c.rules, k - 1)))
<1> DEFINE rules == c.rules
           r == rules[k]
           U == Upto(rules, k - 1)
           g == c.g
<1>1. /\ rules \in Seq(Production)
      /\ \A x \in ToSet(rules) : x \in Production /\ x \in g.sched /\ x \in g.alive /\ Open(g, x) = {} /\ run[x] = "none"
      /\ \A x \in Rule \cap g.alive : run[x] \in {"none", "OK"}
  BY RulesNew
<1>2. r \in ToSet(rules) /\ DOMAIN rules = 1..Len(rules) /\ Len(rules) \in Nat /\ k \in 1..Len(rules)
  BY <1>1, ListFolded
<1>3. r \in Production /\ r \in g.alive /\ Open(g, r) = {} /\ run[r] = "none" /\ r \in Rule
  BY <1>1, <1>2, NodeKinds
<1>4. Needs(g, r) \cap ToSet(rules) \subseteq U
  <2> SUFFICES ASSUME NEW j \in DOMAIN rules, rules[j] \in Needs(g, r) PROVE rules[j] \in U
    BY DEF ToSet
  <2>1. j < k
    BY DEF Backed, Ordered
  <2>2. j \in 1..(k - 1)
    BY <1>2, <2>1
  <2> QED BY <2>2 DEF Upto
<1>5. Exact(g) /\ Grounded(graph.arc, ToSet(rules), g) /\ g \in GraphOver(DOMAIN graph.arc) /\ Analysed(r)
  BY <1>3, NodeKinds DEF GoodDraft, Backed, Rooted
<1>6. Met(r, Made(U))
  <2>1. ResolvedSuppliers(g, r) \cap ToSet(rules) \subseteq U
    BY <1>4 DEF Needs
  <2>2. Plain(r)
    BY <1>3, RuleFacts DEF Basis
  <2> QED BY <1>3, <2>1, <2>2, RuleMet
<1>7. ASSUME NEW q \in ToSet(Pre(r)), run[q] # "OK"
      PROVE  run[q] = "none" /\ Met(q, Made(U))
  <2>1. q \in Precondition /\ Via(g, q, r) /\ q \in g.alive /\ Open(g, q) = {}
    BY <1>3, <1>5, <1>7, PreSupplied DEF Basis
  <2>2. q \in Rule
    BY <2>1, NodeKinds
  <2>3. q \in ResolvedSuppliers(g, r) \cap Precondition
    BY <2>1, <2>2 DEF ResolvedSuppliers
  <2>4. ResolvedSuppliers(g, q) \cap ToSet(rules) \subseteq U
    BY <1>4, <2>3 DEF Needs
  <2>5. Plain(q)
    BY <2>2, RuleFacts DEF Basis
  <2>6. Met(q, Made(U))
    BY <2>1, <2>2, <2>4, <2>5, RuleMet
  <2> QED BY <1>1, <1>7, <2>1, <2>2, <2>6
<1> QED BY <1>3, <1>6, <1>7

(* A complete chain leads to the request.                                                *)
LEMMA ExecutionDue ==
  ASSUME Basis, NEW c, GoodDraft(c), NEW s, Rooted(s), Backed(c, s), Follows(c, s), Fresh(s, {}), Sifted(s, {}),
         IsComplete(c.g)
  PROVE  DueList(Weave(c.rules)) /\ (Plain(Final) => Met(Final, Made(ToSet(Weave(c.rules)))))
<1>1. c.rules \in Seq(Production)
  BY RulesNew
<1>2. \A k \in DOMAIN c.rules :
        /\ run[c.rules[k]] = "none" /\ Met(c.rules[k], Made(Upto(c.rules, k - 1)))
        /\ \A q \in ToSet(Pre(c.rules[k])) : \/ run[q] = "OK"
                                             \/ run[q] = "none" /\ Met(q, Made(Upto(c.rules, k - 1)))
  BY ChainDue
<1>3. IsInjective(c.rules) /\ problem \in Problem
  BY DEF Backed, Basis
<1>4. DueList(Weave(c.rules)) /\ ToSet(c.rules) \subseteq ToSet(Weave(c.rules))
  <2> DEFINE rules == c.rules
  <2> HIDE DEF rules
  <2>1. DueList(Weave(rules)) /\ ToSet(rules) \subseteq ToSet(Weave(rules))
    BY <1>1, <1>2, <1>3, WeaveDue DEF rules
  <2> QED BY <2>1 DEF rules
<1>5. ASSUME Plain(Final) PROVE Met(Final, Made(ToSet(Weave(c.rules))))
  <2>1. Final \in c.g.alive /\ Open(c.g, Final) = {}
    <3>1. Exact(c.g) /\ c.g \in GraphOver(DOMAIN graph.arc) /\ DOMAIN graph.arc \in ArcsAmong /\ Final \in c.g.flagged
      BY DEF GoodDraft, Backed, Basis, IsComplete
    <3> QED BY <3>1, FlaggedOpen
  <2>2. Met(Final, Made(ToSet(c.rules)))
    BY <1>5, <2>1, RuleMet
  <2> QED BY <1>4, <2>2, MadeMore
<1> QED BY <1>4, <1>5

(* What is too expensive takes all that depends on it along.                             *)
LEMMA ExpensiveSpreads ==
  ASSUME top.rules \in Seq(Production), Ordered(top)
  PROVE  /\ Costly \subseteq TooExpensive
         /\ \A r \in ToSet(top.rules) \cap TooExpensive : ResolvedConsumers(top.g, r) \subseteq TooExpensive
<1> DEFINE rules == top.rules
           n == Len(rules)
<1>0. rules \in Seq(Rule) /\ n \in Nat /\ DOMAIN rules = 1..n /\ \A i \in 1..n : rules[i] \in Rule
  <2>1. rules \in Seq(Rule)
    BY NodeKinds
  <2> HIDE DEF rules
  <2> QED BY <2>1
<1>1. PICK a : /\ a[0] = Costly /\ TooExpensive = a[n]
               /\ \A k \in 1..n :
                    a[k] = IF rules[k] \in a[k - 1] THEN a[k - 1] \cup ResolvedConsumers(top.g, rules[k]) ELSE a[k - 1]
  BY <1>0, ExpensiveTurns
<1> DEFINE Q == {k \in 0..n : /\ Costly \subseteq a[k]
                              /\ \A i \in 1..k : rules[i] \in a[k] => ResolvedConsumers(top.g, rules[i]) \subseteq a[k]}
<1>2. 0 \in Q
  BY <1>0, <1>1
<1>3. \A i, k \in 1..n : rules[i] \in ResolvedConsumers(top.g, rules[k]) => k < i
  <2> SUFFICES ASSUME NEW i \in 1..n, NEW k \in 1..n, rules[i] \in ResolvedConsumers(top.g, rules[k]) PROVE k < i
    OBVIOUS
  <2>1. rules[k] \in ResolvedSuppliers(top.g, rules[i])
    BY <1>0 DEF ResolvedConsumers, ResolvedSuppliers
  <2>2. rules[k] \in Needs(top.g, rules[i])
    BY <2>1 DEF Needs
  <2> QED BY <1>0, <2>2 DEF Ordered
<1>4. ASSUME NEW k \in 1..n, k - 1 \in Q PROVE k \in Q
  <2> DEFINE new == ResolvedConsumers(top.g, rules[k])
             b == a[k - 1]
  <2>1. a[k] = IF rules[k] \in b THEN b \cup new ELSE b
    BY <1>1
  <2>2. /\ Costly \subseteq b
        /\ \A i \in 1..(k - 1) : rules[i] \in b => ResolvedConsumers(top.g, rules[i]) \subseteq b
    BY <1>4
  <2>3. \A i \in 1..k : i \in 1..n /\ (i = k \/ i \in 1..(k - 1)) /\ rules[i] \notin new
    <3>1. \A i \in 1..k : i \in 1..n /\ (i = k \/ i \in 1..(k - 1)) /\ ~(k < i)
      BY <1>0
    <3> QED BY <1>3, <3>1
  <2> HIDE DEF b
  <2>4. \A i \in 1..k : rules[i] \in a[k] => ResolvedConsumers(top.g, rules[i]) \subseteq a[k]
    BY <2>1, <2>2, <2>3
  <2> HIDE DEF new
  <2>5. Costly \subseteq a[k] /\ k \in 0..n
    BY <1>0, <2>1, <2>2
  <2> QED BY <2>4, <2>5
<1>5. n \in Q
  <2> HIDE DEF Q, n
  <2>1. \A i \in 0..n : i \in Q
    BY <1>0, <1>2, <1>4, PrefixInduction
  <2> QED BY <1>0, <2>1
<1> QED BY <1>0, <1>1, <1>5 DEF ToSet

(* The suppliers to be executed include those of each other, and nothing else.           *)
LEMMA SuppliersFound ==
  ASSUME top.rules \in Seq(Production), Ordered(top), NEW pre,
         NEW Z, \A q \in pre : Direct(q) \subseteq Z, \A r \in Z : Direct(r) \subseteq Z
  PROVE  /\ SuppliersToRun(pre) \subseteq Z
         /\ \A q \in pre : Direct(q) \subseteq SuppliersToRun(pre)
         /\ \A r \in ToSet(top.rules) \cap SuppliersToRun(pre) : Direct(r) \subseteq SuppliersToRun(pre)
<1> DEFINE list == top.rules
           rules == Reverse(list)
           n == Len(list)
<1>0. list \in Seq(Rule) /\ n \in Nat /\ DOMAIN list = 1..n
  <2>1. list \in Seq(Rule)
    BY NodeKinds
  <2> HIDE DEF list
  <2> QED BY <2>1
<1>00. /\ rules \in Seq(Rule) /\ Len(rules) = n
       /\ \A i \in 1..n : rules[i] = list[(n - i) + 1] /\ (n - i) + 1 \in 1..n
       /\ \A j \in 1..n : (n - j) + 1 \in 1..n /\ list[j] = rules[(n - j) + 1]
  <2> HIDE DEF list
  <2>1. \A i \in 1..n : (n - i) + 1 \in 1..n /\ list[(n - i) + 1] \in Rule
    BY <1>0
  <2>2. rules = [i \in 1..n |-> list[(n - i) + 1]]
    BY <1>0 DEF Reverse
  <2>3. rules \in [1..n -> Rule]
    BY <2>1, <2>2
  <2>4. rules \in Seq(Rule) /\ Len(rules) = n
    BY <1>0, <2>3
  <2>5. \A j \in 1..n : (n - ((n - j) + 1)) + 1 = j
    BY <1>0
  <2> QED BY <2>1, <2>2, <2>4, <2>5
<1> HIDE DEF rules
<1>1. PICK a : /\ a[0] = Directs(pre) /\ SuppliersToRun(pre) = a[n]
               /\ \A k \in 1..n : a[k] = IF rules[k] \in a[k - 1] THEN a[k - 1] \cup Direct(rules[k]) ELSE a[k - 1]
  <2>1. Reverse(top.rules) = rules
    BY DEF rules
  <2>2. Len(rules) = n /\ rules \in Seq(Rule)
    BY <1>00
  <2> HIDE DEF n
  <2>3. \E a : FoundBy(a, rules, pre)
    BY <2>1, <2>2, SuppliersTurns
  <2> QED BY <2>2, <2>3 DEF FoundBy
<1> DEFINE Q == {k \in 0..n : /\ a[0] \subseteq a[k] /\ a[k] \subseteq Z
                              /\ \A i \in 1..k : rules[i] \in a[k] => Direct(rules[i]) \subseteq a[k]}
<1>2. 0 \in Q
  BY <1>0, <1>1 DEF Directs
<1>3. \A i, k \in 1..n : rules[i] \in Direct(rules[k]) => k < i
  <2> SUFFICES ASSUME NEW i \in 1..n, NEW k \in 1..n, rules[i] \in Direct(rules[k]) PROVE k < i
    OBVIOUS
  <2>1. rules[i] \in Needs(top.g, rules[k])
    BY DEF Direct, Needs
  <2>2. /\ rules[i] = list[(n - i) + 1] /\ (n - i) + 1 \in DOMAIN list
        /\ rules[k] = list[(n - k) + 1] /\ (n - k) + 1 \in DOMAIN list
    BY <1>0, <1>00
  <2>3. (n - i) + 1 < (n - k) + 1
    BY <2>1, <2>2 DEF Ordered
  <2> QED BY <1>0, <2>3
<1>4. ASSUME NEW k \in 1..n, k - 1 \in Q PROVE k \in Q
  <2> DEFINE new == Direct(rules[k])
             b == a[k - 1]
  <2>1. a[k] = IF rules[k] \in b THEN b \cup new ELSE b
    BY <1>1
  <2>2. /\ a[0] \subseteq b /\ b \subseteq Z
        /\ \A i \in 1..(k - 1) : rules[i] \in b => Direct(rules[i]) \subseteq b
    BY <1>4
  <2>3. \A i \in 1..k : i \in 1..n /\ (i = k \/ i \in 1..(k - 1)) /\ rules[i] \notin new
    <3>1. \A i \in 1..k : i \in 1..n /\ (i = k \/ i \in 1..(k - 1)) /\ ~(k < i)
      BY <1>0
    <3> QED BY <1>3, <3>1
  <2> HIDE DEF b
  <2>4. \A i \in 1..k : rules[i] \in a[k] => Direct(rules[i]) \subseteq a[k]
    BY <2>1, <2>2, <2>3
  <2>5. a[0] \subseteq a[k] /\ a[k] \subseteq Z /\ k \in 0..n
    BY <1>0, <2>1, <2>2
  <2> QED BY <2>4, <2>5
<1>5. n \in Q
  <2> HIDE DEF Q, n
  <2>1. \A i \in 0..n : i \in Q
    BY <1>0, <1>2, <1>4, PrefixInduction
  <2> QED BY <1>0, <2>1
<1>6. \A r \in ToSet(list) : \E i \in 1..n : r = rules[i]
  BY <1>0, <1>00 DEF ToSet
<1> QED BY <1>0, <1>1, <1>5, <1>6 DEF Directs

(* Preconditions are checked when what they need, and can be had cheaply, is there.      *)
LEMMA ChecksDue ==
  ASSUME Basis, GoodDraft(top), Rooted(self), Backed(top, self), Follows(top, self), Fresh(self, {}), Sifted(self, {})
  PROVE  LET now == Pending \ TooExpensive
             list == Only(top.rules, SuppliersToRun(now))
         IN  /\ DueList(list)
             /\ \A q \in now : run[q] = "none" /\ Met(q, Made(ToSet(list)))
<1> DEFINE now == Pending \ TooExpensive
           X == SuppliersToRun(now)
           rules == top.rules
           g == top.g
           Z == ToSet(rules) \ TooExpensive
<1>1. /\ rules \in Seq(Production)
      /\ \A x \in ToSet(rules) : x \in Production /\ x \in g.sched /\ x \in g.alive /\ Open(g, x) = {} /\ run[x] = "none"
      /\ \A x \in Rule \cap g.alive : run[x] \in {"none", "OK"}
  BY RulesNew
<1>2. /\ g \in GraphOver(DOMAIN graph.arc) /\ DOMAIN graph.arc \in ArcsAmong /\ Exact(g) /\ Labels(graph.arc)
      /\ g.sched \cap Production \subseteq ToSet(rules) \cup Finished /\ IsInjective(rules) /\ Ordered(top)
      /\ Grounded(graph.arc, ToSet(rules), g)
  BY DEF GoodDraft, Backed, Basis
<1>3. \A q \in now : /\ q \in Precondition /\ q \in Rule /\ run[q] = "none" /\ q \notin TooExpensive
                     /\ q \in g.flagged /\ q \in g.alive /\ Open(g, q) = {}
  <2>1. \A q \in now : q \in Precondition /\ q \in g.ready /\ run[q] = "none" /\ q \notin TooExpensive
    BY DEF Pending, ReadyPre
  <2>2. g.ready \subseteq g.flagged
    BY <1>2 DEF Exact, Flags, Work
  <2> QED BY <1>2, <2>1, <2>2, FlaggedOpen, NodeKinds
<1>4. /\ Costly \subseteq TooExpensive
      /\ \A r \in ToSet(rules) \cap TooExpensive : ResolvedConsumers(g, r) \subseteq TooExpensive
  BY <1>1, <1>2, ExpensiveSpreads
<1>5. \A x \in Z : \A q \in ToSet(Pre(x)) : run[q] # "none"
  BY <1>4 DEF Costly
<1>6. ASSUME NEW r \in Rule, r \notin TooExpensive, Open(g, r) = {}, r \in g.flagged \cup g.sched,
             r \in Production => \A q \in ToSet(Pre(r)) : run[q] # "none",
             NEW s \in Direct(r)
      PROVE  s \in Z
  <2>1. s \in ResolvedSuppliers(g, r) /\ run[s] = "none" /\ s \in Rule
    BY <1>6 DEF Direct, ResolvedSuppliers
  <2>2. s \in g.sched
    BY <1>2, <1>6, <2>1, NeedsFixed DEF Needs
  <2>3. s \in Production
    <3>1. CASE Via(g, s, r)
      <4>1. <<s, r>> \in DOMAIN graph.arc
        BY <1>2, <3>1 DEF Via, GraphOver
      <4>2. s \notin Property /\ r \notin Property
        BY <1>6, <2>1, NodeKinds
      <4>3. r \in Production /\ s \in ToSet(Pre(r))
        BY <1>2, <4>1, <4>2 DEF Labels, Labelled
      <4> QED BY <1>6, <2>1, <4>3
    <3>2. CASE \E p \in Property : Via(g, s, p) /\ Via(g, p, r)
      <4>1. PICK p \in Property : Via(g, s, p)
        BY <3>2
      <4>2. <<s, p>> \in DOMAIN graph.arc
        BY <1>2, <4>1 DEF Via, GraphOver
      <4>3. p \notin Rule \cup {Final} /\ p \notin Production
        BY <4>1, NodeKinds
      <4> QED BY <1>2, <4>2, <4>3 DEF Labels, Labelled
    <3> QED BY <2>1, <3>1, <3>2 DEF ResolvedSuppliers
  <2>4. s \in ToSet(rules)
    BY <1>2, <2>1, <2>2, <2>3 DEF Finished
  <2>5. r \in ResolvedConsumers(g, s)
    BY <1>6, <2>1 DEF ResolvedSuppliers, ResolvedConsumers
  <2> QED BY <1>4, <1>6, <2>4, <2>5
<1>7. \A q \in now : Direct(q) \subseteq Z
  <2>1. Precondition \cap Production = {}
    BY NodesDisjoint
  <2> QED BY <1>3, <1>6, <2>1
<1>8. \A r \in Z : Direct(r) \subseteq Z
  BY <1>1, <1>5, <1>6, NodeKinds
<1>9. /\ X \subseteq Z
      /\ \A q \in now : Direct(q) \subseteq X
      /\ \A r \in ToSet(rules) \cap X : Direct(r) \subseteq X
  <2> HIDE DEF now, Z
  <2> QED BY <1>1, <1>2, <1>7, <1>8, SuppliersFound
<1>10. \A r : ResolvedSuppliers(g, r) \cap ToSet(rules) \subseteq Direct(r)
  BY <1>1 DEF Direct
<1> HIDE DEF now, X, Z
<1>11. ASSUME NEW k \in DOMAIN rules, rules[k] \in X
       PROVE  /\ run[rules[k]] = "none" /\ Met(rules[k], Made(Upto(rules, k - 1) \cap X))
              /\ \A q \in ToSet(Pre(rules[k])) : run[q] = "OK"
  <2> DEFINE r == rules[k]
  <2>1. r \in ToSet(rules) /\ DOMAIN rules = 1..Len(rules) /\ Len(rules) \in Nat
    BY <1>1, ListFolded
  <2>2. r \in Production /\ r \in Rule /\ r \in g.alive /\ Open(g, r) = {} /\ run[r] = "none" /\ r \in Z
    BY <1>1, <1>9, <1>11, <2>1, NodeKinds
  <2>3. ResolvedSuppliers(g, r) \cap ToSet(rules) \subseteq Upto(rules, k - 1) \cap X
    <3> SUFFICES ASSUME NEW j \in DOMAIN rules, rules[j] \in ResolvedSuppliers(g, r)
                 PROVE  rules[j] \in Upto(rules, k - 1) /\ rules[j] \in X
      BY DEF ToSet
    <3>1. j < k
      BY <1>2 DEF Ordered, Needs
    <3>2. j \in 1..(k - 1)
      BY <2>1, <3>1
    <3>3. rules[j] \in ToSet(rules)
      BY DEF ToSet
    <3> QED BY <1>9, <1>10, <1>11, <2>1, <3>2, <3>3 DEF Upto
  <2>4. Plain(r)
    BY <2>2, RuleFacts DEF Basis
  <2>5. Met(r, Made(Upto(rules, k - 1) \cap X))
    BY <2>2, <2>3, <2>4, RuleMet
  <2>6. Analysed(r)
    BY <2>2 DEF Rooted, Backed
  <2>7. ASSUME NEW q \in ToSet(Pre(r)), run[q] # "OK" PROVE FALSE
    <3>1. q \in Precondition /\ q \in g.alive
      BY <1>2, <2>2, <2>6, <2>7, PreSupplied DEF Basis
    <3>2. run[q] = "none"
      BY <1>1, <2>7, <3>1, NodeKinds
    <3> QED BY <1>5, <2>2, <2>7, <3>2
  <2> QED BY <2>2, <2>5, <2>7
<1>12. DueList(Only(rules, X))
  <2>1. \A k \in DOMAIN rules : rules[k] \in X =>
           /\ run[rules[k]] = "none" /\ Met(rules[k], Made(Upto(rules, k - 1) \cap X))
           /\ \A q \in ToSet(Pre(rules[k])) : run[q] = "OK"
    BY <1>11
  <2> HIDE DEF rules
  <2> QED BY <1>1, <1>2, <2>1, DueOnly
<1>13. ASSUME NEW q \in now PROVE run[q] = "none" /\ Met(q, Made(ToSet(Only(rules, X))))
  <2>1. ToSet(Only(rules, X)) = ToSet(rules) \cap X
    <3> HIDE DEF rules
    <3> QED BY <1>1, OnlyExact
  <2>2. ResolvedSuppliers(g, q) \cap ToSet(rules) \subseteq ToSet(rules) \cap X
    BY <1>9, <1>10
  <2>3. Plain(q) /\ q \in Rule /\ q \in g.alive /\ Open(g, q) = {} /\ run[q] = "none"
    BY <1>3, RuleFacts DEF Basis
  <2>4. Met(q, Made(ToSet(rules) \cap X))
    BY <2>2, <2>3, RuleMet
  <2> QED BY <2>1, <2>3, <2>4
<1> QED BY <1>12, <1>13 DEF now, X

(***************************************************************************)
(* What is known of a chain when it is extended.                           *)
(***************************************************************************)

(* The rules in a chain are scheduled for good and wait for nothing.                     *)
LEMMA RulesSettled ==
  ASSUME NEW D \in ArcsAmong, NEW c, c \in ChainType, c.g \in GraphOver(D), Exact(c.g),
         NEW code, Grounded(code, ToSet(c.rules), c.g)
  PROVE  /\ c.rules \in Seq(Production) /\ DOMAIN c.rules = 1..Len(c.rules) /\ Len(c.rules) \in Nat
         /\ \A i \in DOMAIN c.rules : /\ c.rules[i] \in ToSet(c.rules) /\ c.rules[i] \in Rule
                                      /\ c.rules[i] \in c.g.sched /\ Open(c.g, c.rules[i]) = {}
<1>1. c.rules \in Seq(Production) /\ DOMAIN c.rules = 1..Len(c.rules) /\ Len(c.rules) \in Nat
  BY ChainParts, ListFolded
<1> SUFFICES ASSUME NEW i \in DOMAIN c.rules
             PROVE  /\ c.rules[i] \in ToSet(c.rules) /\ c.rules[i] \in Rule
                    /\ c.rules[i] \in c.g.sched /\ Open(c.g, c.rules[i]) = {}
  BY <1>1
<1> DEFINE r == c.rules[i]
<1>2. r \in ToSet(c.rules) /\ r \in Production
  BY <1>1, ListFolded
<1> HIDE DEF r
<1>3. r \in c.g.sched /\ r \in c.g.alive
  BY <1>2 DEF Grounded, Carry, Settled, Work
<1>4. Open(c.g, r) = {}
  BY <1>3 DEF Exact, Sound, Served, Work
<1> QED BY <1>2, <1>3, <1>4, NodeKinds DEF r

\* h is a later graph of a chain with graph g and rules S.
Later(g, h, S) ==
  /\ h \in GraphOver(DOMAIN graph.arc) /\ Grounded(graph.arc, S, h)
  /\ \A a \in DOMAIN g.arc : g.arc[a] = Inactive => h.arc[a] = Inactive
  /\ h.alive \subseteq g.alive

(* A chain whose graph has changed.                                                      *)
LEMMA BackedGraph ==
  ASSUME DOMAIN graph.arc \in ArcsAmong, NEW c, GoodDraft(c), NEW s, Backed(c, s),
         NEW d, d.rules = c.rules, Later(c.g, d.g, ToSet(c.rules)), d.g.sched \cap Production \subseteq c.g.sched
  PROVE  Backed(d, s)
<1>1. c.g \in GraphOver(DOMAIN graph.arc) /\ c \in ChainType /\ Exact(c.g) /\ Grounded(graph.arc, ToSet(c.rules), c.g)
  BY DEF Backed, GoodDraft
<1>2. DOMAIN c.g.arc = DOMAIN graph.arc /\ d.g \in GraphOver(DOMAIN graph.arc)
  BY <1>1 DEF GraphOver, Later
<1>3. \A i \in DOMAIN c.rules : Needs(d.g, c.rules[i]) \subseteq Needs(c.g, c.rules[i])
  <2> SUFFICES ASSUME NEW i \in DOMAIN c.rules PROVE Needs(d.g, c.rules[i]) \subseteq Needs(c.g, c.rules[i])
    OBVIOUS
  <2> DEFINE r == c.rules[i]
  <2>1. r \in Rule /\ Open(c.g, r) = {}
    BY <1>1, RulesSettled
  <2> HIDE DEF r
  <2>2. \A a \in DOMAIN graph.arc : c.g.arc[a] = Inactive => d.g.arc[a] = Inactive
    BY <1>2 DEF Later
  <2>3. Needs(d.g, r) \subseteq Needs(c.g, r)
    BY <1>1, <1>2, <2>1, <2>2, NeedsFixed
  <2> QED BY <2>3 DEF r
<1>4. Ordered(d)
  BY <1>3 DEF Ordered, Backed
<1>5. d.g.alive \subseteq s.g.alive /\ d.g.sched \cap Production \subseteq ToSet(d.rules) \cup Finished
  BY DEF Later, Backed
<1> QED BY <1>4, <1>5 DEF Backed, Later

(* A chain with one more rule.                                                           *)
LEMMA BackedExtended ==
  ASSUME DOMAIN graph.arc \in ArcsAmong, NEW c, GoodDraft(c), NEW s, Backed(c, s),
         NEW r \in Production, r \notin c.g.sched, Open(c.g, r) = {},
         NEW d, d.rules = Append(c.rules, r), Later(c.g, d.g, ToSet(c.rules) \cup {r}),
         d.g.sched \cap Production \subseteq c.g.sched \cup {r}
  PROVE  Backed(d, s)
<1>1. c.g \in GraphOver(DOMAIN graph.arc) /\ c \in ChainType /\ Exact(c.g) /\ Grounded(graph.arc, ToSet(c.rules), c.g)
  BY DEF Backed, GoodDraft
<1>2. DOMAIN c.g.arc = DOMAIN graph.arc /\ d.g \in GraphOver(DOMAIN graph.arc)
  BY <1>1 DEF GraphOver, Later
<1>3. \A a \in DOMAIN graph.arc : c.g.arc[a] = Inactive => d.g.arc[a] = Inactive
  BY <1>2 DEF Later
<1>4. /\ c.rules \in Seq(Production) /\ DOMAIN c.rules = 1..Len(c.rules) /\ Len(c.rules) \in Nat
      /\ \A i \in DOMAIN c.rules : /\ c.rules[i] \in ToSet(c.rules) /\ c.rules[i] \in Rule
                                   /\ c.rules[i] \in c.g.sched /\ Open(c.g, c.rules[i]) = {}
  BY <1>1, RulesSettled
<1>5. ToSet(d.rules) = ToSet(c.rules) \cup {r}
  BY <1>4, ListSets
<1> DEFINE n == Len(c.rules) + 1
<1>6. /\ DOMAIN d.rules = 1..n /\ n \in Nat /\ d.rules[n] = r
      /\ \A i \in DOMAIN c.rules : i \in DOMAIN d.rules /\ d.rules[i] = c.rules[i] /\ i < n
      /\ \A i \in DOMAIN d.rules : i = n \/ i \in DOMAIN c.rules
  BY <1>4
<1> HIDE DEF n
<1>7. \A i \in DOMAIN c.rules : Needs(d.g, c.rules[i]) \subseteq Needs(c.g, c.rules[i])
                                /\ Needs(c.g, c.rules[i]) \subseteq c.g.sched
  <2> SUFFICES ASSUME NEW i \in DOMAIN c.rules
               PROVE Needs(d.g, c.rules[i]) \subseteq Needs(c.g, c.rules[i]) /\ Needs(c.g, c.rules[i]) \subseteq c.g.sched
    OBVIOUS
  <2> DEFINE m == c.rules[i]
  <2>1. m \in Rule /\ Open(c.g, m) = {}
    BY <1>4
  <2> HIDE DEF m
  <2>2. Needs(d.g, m) \subseteq Needs(c.g, m) /\ Needs(c.g, m) \subseteq c.g.sched
    BY <1>1, <1>2, <1>3, <2>1, NeedsFixed
  <2> QED BY <2>2 DEF m
<1>8. Needs(d.g, r) \subseteq c.g.sched
  <2>1. r \in Rule
    BY NodeKinds
  <2>2. Needs(d.g, r) \subseteq Needs(c.g, r) /\ Needs(c.g, r) \subseteq c.g.sched
    BY <1>1, <1>2, <1>3, <2>1, NeedsFixed
  <2> QED BY <2>2
<1>9. Ordered(d)
  <2> SUFFICES ASSUME NEW i \in DOMAIN d.rules, NEW j \in DOMAIN d.rules, d.rules[j] \in Needs(d.g, d.rules[i])
               PROVE  j < i
    BY DEF Ordered
  <2>1. CASE i \in DOMAIN c.rules /\ j \in DOMAIN c.rules
    <3>1. c.rules[j] \in Needs(c.g, c.rules[i])
      BY <1>6, <1>7, <2>1
    <3> QED BY <2>1, <3>1 DEF Backed, Ordered
  <2>2. CASE i \in DOMAIN c.rules /\ j = n
    <3>1. r \in c.g.sched
      BY <1>6, <1>7, <2>2
    <3> QED BY <3>1
  <2>3. CASE i = n
    <3>1. d.rules[j] \in c.g.sched
      BY <1>6, <1>8, <2>3
    <3>2. j # n
      BY <1>6, <3>1
    <3> QED BY <1>6, <2>3, <3>2
  <2> QED BY <1>6, <2>1, <2>2, <2>3
<1>10. IsInjective(d.rules)
  <2>1. \A i, j \in DOMAIN c.rules : c.rules[i] = c.rules[j] => i = j
    BY DEF Backed, IsInjective
  <2>2. \A i \in DOMAIN c.rules : c.rules[i] # r
    BY <1>4
  <2> QED BY <1>6, <2>1, <2>2 DEF IsInjective
<1>11. d.g.alive \subseteq s.g.alive /\ d.g.sched \cap Production \subseteq ToSet(d.rules) \cup Finished
  BY <1>5 DEF Later, Backed
<1> QED BY <1>5, <1>9, <1>10, <1>11 DEF Backed, Later

(* The ready list does not matter.                                                       *)
LEMMA BackedReady ==
  ASSUME DOMAIN graph.arc \in ArcsAmong, NEW c, GoodDraft(c), NEW s, Backed(c, s), NEW X,
         NEW d, d.g = [c.g EXCEPT !.ready = @ \ X], d.rules = c.rules
  PROVE  Backed(d, s)
<1>1. c.g \in GraphOver(DOMAIN graph.arc) /\ Exact(c.g) /\ Grounded(graph.arc, ToSet(c.rules), c.g)
  BY DEF Backed, GoodDraft
<1>2. d.g \in GraphOver(DOMAIN graph.arc) /\ d.g.arc = c.g.arc /\ d.g.alive = c.g.alive /\ d.g.sched = c.g.sched
  BY <1>1, ReadyTaken
<1>3. ToSet(c.rules) \subseteq d.g.sched
  BY <1>1, <1>2 DEF Grounded, Carry, Settled, Work
<1>4. Grounded(graph.arc, ToSet(c.rules), d.g)
  BY <1>1, <1>2, <1>3, GroundedSame
<1>5. Later(c.g, d.g, ToSet(c.rules)) /\ d.g.sched \cap Production \subseteq c.g.sched
  BY <1>2, <1>4 DEF Later
<1> QED BY <1>5, BackedGraph

(* A ready rule is added.                                                                *)
LEMMA BackedAdded ==
  ASSUME DOMAIN graph.arc \in ArcsAmong, NEW c, GoodDraft(c), NEW s, Backed(c, s),
         NEW r \in Production, r \in c.g.flagged, r \notin c.g.ready, NEW enforced \in {0, 1},
         AddScheduledRule(c.g, r, enforced).ok,
         NEW d, d.g = AddScheduledRule(c.g, r, enforced).g, d.rules = Append(c.rules, r)
  PROVE  Backed(d, s)
<1> DEFINE w == AddScheduledRule(c.g, r, enforced)
<1>1. c.g \in GraphOver(DOMAIN graph.arc) /\ Exact(c.g) /\ Grounded(graph.arc, ToSet(c.rules), c.g)
  BY DEF Backed, GoodDraft
<1>2. r \in c.g.alive /\ r \notin c.g.sched /\ Open(c.g, r) = {}
  BY <1>1, FlaggedOpen
<1>3. w \in WorkOver(DOMAIN graph.arc) /\ Added(c.g, r, w.g)
  <2>1. r \in Rule /\ FALSE \in BOOLEAN
    BY NodeKinds
  <2> QED BY <1>1, <1>2, <2>1, AddScheduledRuleSound
<1>4. d.g = w.g
  OBVIOUS
<1> HIDE DEF w
<1>5. Grounded(graph.arc, ToSet(c.rules) \cup ({r} \cap c.g.alive), w.g)
  BY <1>1, <1>3 DEF Added
<1>6. {r} \cap c.g.alive = {r}
  BY <1>2
<1>7. Later(c.g, d.g, ToSet(c.rules) \cup {r})
  BY <1>3, <1>4, <1>5, <1>6 DEF Later, Added, WorkOver
<1>8. d.g.sched \cap Production \subseteq c.g.sched \cup {r}
  BY <1>3, <1>4, NodeKinds DEF Added
<1> QED BY <1>2, <1>7, <1>8, BackedExtended

(* Preconditions are added.                                                              *)
LEMMA BackedPrepared ==
  ASSUME DOMAIN graph.arc \in ArcsAmong, NEW c, GoodDraft(c), NEW s, Backed(c, s),
         NEW d, d.g \in GraphOver(DOMAIN graph.arc), d.rules = c.rules,
         NEW X \in SUBSET Precondition, Prepared(c.g, d.g, X, {})
  PROVE  Backed(d, s)
<1>1. Grounded(graph.arc, ToSet(c.rules), c.g)
  BY DEF Backed
<1>2. Later(c.g, d.g, ToSet(c.rules))
  BY <1>1 DEF Later, Prepared, Continues
<1>3. d.g.sched \cap Production \subseteq c.g.sched
  BY NodeKinds, NodesDisjoint DEF Prepared
<1> QED BY <1>2, <1>3, BackedGraph

(* Rules that have not been scheduled are eliminated.                                    *)
LEMMA BackedShrunk ==
  ASSUME DOMAIN graph.arc \in ArcsAmong, NEW c, GoodDraft(c), NEW s, Backed(c, s),
         NEW rules \in SUBSET Node, rules \cap c.g.sched = {}, NEW maxopt \in {Weak, Initial},
         EliminateRules(c.g, rules, maxopt).ok,
         NEW d, d.g = EliminateRules(c.g, rules, maxopt).g, d.rules = c.rules
  PROVE  Backed(d, s)
<1> DEFINE w == EliminateRules(c.g, rules, maxopt)
<1>1. c.g \in GraphOver(DOMAIN graph.arc) /\ Sound(Work(c.g, {})) /\ Grounded(graph.arc, ToSet(c.rules), c.g)
  BY DEF Backed, GoodDraft, Exact
<1>2. ToSet(c.rules) \cap rules = {}
  BY <1>1 DEF Grounded, Carry, Settled, Work
<1>3. /\ w \in WorkOver(DOMAIN graph.arc) /\ Shrunk(c.g, w.g)
      /\ \A code, S : Grounded(code, S, c.g) /\ S \cap rules = {} => Grounded(code, S, w.g)
  BY <1>1, EliminateRulesSound
<1>4. d.g = w.g
  OBVIOUS
<1> HIDE DEF w
<1>5. /\ w.g \in GraphOver(DOMAIN graph.arc) /\ w.g.alive \subseteq c.g.alive /\ w.g.sched \subseteq c.g.sched
      /\ \A a \in DOMAIN c.g.arc : c.g.arc[a] = Inactive => w.g.arc[a] = Inactive
  BY <1>3 DEF WorkOver, Shrunk
<1>6. Grounded(graph.arc, ToSet(c.rules), w.g)
  BY <1>1, <1>2, <1>3
<1>7. Later(c.g, d.g, ToSet(c.rules)) /\ d.g.sched \cap Production \subseteq c.g.sched
  BY <1>4, <1>5, <1>6 DEF Later
<1> QED BY <1>7, BackedGraph

(* The initial chain with another graph.                                                 *)
LEMMA RootedGraph ==
  ASSUME NEW s, Rooted(s), NEW t, t.g \in GraphOver(DOMAIN graph.arc), Grounded(graph.arc, {}, t.g),
         t.g.alive \subseteq s.g.alive, t.g.sched \cap Production \subseteq s.g.sched \cup Finished
  PROVE  Rooted(t)
  BY DEF Rooted

(* The search starts from the initial chain.                                             *)
LEMMA BackedSelf ==
  ASSUME NEW s, Rooted(s), NEW c, c.g = s.g, c.rules = <<>>
  PROVE  Backed(c, s)
<1>1. ToSet(c.rules) = {} /\ IsInjective(c.rules) /\ DOMAIN c.rules = {}
  BY DEF ToSet, IsInjective
<1> QED BY <1>1 DEF Backed, Rooted, Ordered

(* Rules are eliminated from the initial chain.                                          *)
LEMMA RootedShrunk ==
  ASSUME NEW s, GoodSelf(s), Rooted(s), DOMAIN graph.arc \in ArcsAmong,
         NEW rules \in SUBSET Rule, rules \cap s.g.sched = {}, EliminateRules(s.g, rules, Initial).ok,
         NEW t, t.g = EliminateRules(s.g, rules, Initial).g
  PROVE  /\ Rooted(t) /\ t.g.alive \subseteq s.g.alive \ rules /\ s.g.sched \cap t.g.alive \subseteq t.g.sched
<1> DEFINE w == EliminateRules(s.g, rules, Initial)
<1>1. s.g \in GraphOver(DOMAIN graph.arc) /\ Sound(Work(s.g, {})) /\ Grounded(graph.arc, {}, s.g)
  BY DEF Rooted, GoodSelf, Exact
<1>2. rules \in SUBSET Node /\ Initial \in {Weak, Initial} /\ {} \cap rules = {}
  BY NodeKinds
<1>3. /\ w \in WorkOver(DOMAIN graph.arc) /\ Shrunk(s.g, w.g) /\ rules \cap w.g.alive = {}
      /\ \A code, S : Grounded(code, S, s.g) /\ S \cap rules = {} => Grounded(code, S, w.g)
  BY <1>1, <1>2, EliminateRulesSound
<1>4. t.g = w.g
  OBVIOUS
<1> HIDE DEF w
<1>5. /\ w.g \in GraphOver(DOMAIN graph.arc) /\ w.g.alive \subseteq s.g.alive /\ w.g.sched \subseteq s.g.sched
      /\ s.g.sched \cap w.g.alive \subseteq w.g.sched
  BY <1>3 DEF WorkOver, Shrunk
<1>6. Grounded(graph.arc, {}, w.g)
  BY <1>1, <1>2, <1>3
<1>7. Rooted(t)
  BY <1>4, <1>5, <1>6, RootedGraph
<1> QED BY <1>3, <1>4, <1>5, <1>7

(***************************************************************************)
(* When rules are executed: the invariant.                                 *)
(***************************************************************************)

Choosing == phase \in {"build", "trivial", "split", "pop"}
Working == Searching \/ phase = "replay"

\* The replay has used up the request: the search ends without looking at a chain.
Spent == top.g.ready = {} /\ heap = {}

\* What has been done has left its properties in the object.
Delivered == \A r \in Production : run[r] = "OK" => Output(r) \subseteq have

\* What becomes of a rule that has been found while gathering.
Handled(r) ==
  \/ r \in ToSet(todo) \/ (phase = "consider" /\ r = cur.rule) \/ r \in failed \/ Analysed(r)
  \/ r \in Production /\ run[r] = "infeasible"

GatherDue == Gathering =>
  /\ Labels(graph.arc) /\ Final \in graph.nodes
  /\ \A r \in graph.nodes \cap (Rule \cup {Final}) : Handled(r)
  /\ phase = "consider" /\ cur.rule # Final =>
       /\ ToSet(cur.pre) \subseteq ToSet(Pre(cur.rule))
       /\ \A q \in ToSet(Pre(cur.rule)) : q \in ToSet(cur.pre) \/ run[q] = "OK" \/ <<q, cur.rule>> \in DOMAIN graph.arc
  /\ \A q \in Precondition : Bad(q) => q \in failed \/ (q \notin graph.nodes /\ Missing(q) = {})
  /\ \A r \in Production : run[r] \in {"none", "infeasible"}

\* The rules that may fail are not in the initial chain any more, or about to be eliminated.
SelfDue == Working =>
  /\ DOMAIN graph.arc \in ArcsAmong /\ Labels(graph.arc)
  /\ Rooted(self) /\ Sifted(self, IF phase = "suppliers" THEN failed ELSE {})

DraftsDue == Searching => Backed(top, self) /\ BackedHeap(heap, self)

ChoiceDue == Choosing => Spent \/ Fresh(self, {})

\* The rules that are executed, one after another, and what for.
ListDue == phase \in {"suppliers", "execute"} =>
  /\ DueList(todo)
  /\ Fresh(self, ToSet(worked)) /\ ToSet(worked) \subseteq Finished
  /\ phase = "execute" /\ Plain(Final) => Met(Final, Made(ToSet(todo)))
  /\ phase = "suppliers" => /\ \A q \in checks : run[q] = "none" /\ Met(q, Made(ToSet(todo)))
                            /\ todo # <<>> => failed = {}

ReplayDue == phase = "replay" =>
  /\ ToSet(todo) \subseteq Finished
  /\ (self.g.ready = {} /\ todo = <<>>) \/ Fresh(self, ToSet(todo))

DueInv == Delivered /\ GatherDue /\ SelfDue /\ DraftsDue /\ ChoiceDue /\ ListDue /\ ReplayDue

\* A rule dismissed because of a precondition that had been found infeasible for another one
\* is still part of the initial chain.
Overlooked == Working /\ \E r \in Production \cap self.g.alive : run[r] = "infeasible"

(* What the lemmas on chains are based on.                                               *)
LEMMA DueBasis ==
  ASSUME Inv, DueInv, Working PROVE Basis
<1>1. problem \in Problem /\ run \in [Rule -> Results]
  BY DEF Inv, TypeInv
<1> QED BY <1>1 DEF DueInv, Delivered, SelfDue, Basis

\* A step that forgets nothing that has been done.
Adds == /\ problem' = problem /\ have \subseteq have'
        /\ \A r \in Rule : run[r] = "OK" => run'[r] = "OK"

(* Whatever was there, is.                                                               *)
LEMMA AddsKeeps ==
  ASSUME problem \in Problem, Adds, graph' = graph
  PROVE  /\ \A r : Input(r)' = Input(r) /\ Output(r)' = Output(r) /\ Pre(r)' = Pre(r)
         /\ Finished \subseteq Finished'
         /\ \A r \in Rule \cup {Final} : Analysed(r) => Analysed(r)'
         /\ Rooted(self') => Rooted(self)'
         /\ Backed(top', self') => Backed(top, self)'
         /\ BackedHeap(heap', self') => BackedHeap(heap, self)'
<1>1. \A r : Input(r)' = Input(r) /\ Output(r)' = Output(r) /\ Pre(r)' = Pre(r)
  BY DEF Adds, Input, Output, Pre
<1>2. Finished \subseteq Finished'
  BY DEF Adds, Finished
<1>3. ASSUME NEW r \in Rule \cup {Final}, Analysed(r) PROVE Analysed(r)'
  <2>1. ASSUME NEW k \in DOMAIN Input(r)
        PROVE  Input(r)[k] \cap have' # {} \/ \E p \in Input(r)[k] : <<p, r>> \in DOMAIN graph.arc
    BY <1>3 DEF Analysed, Adds
  <2>2. ASSUME r \in Production, NEW q \in ToSet(Pre(r))
        PROVE  run'[q] = "OK" \/ <<q, r>> \in DOMAIN graph.arc
    <3>1. run[q] = "OK" \/ <<q, r>> \in DOMAIN graph.arc
      BY <1>3, <2>2 DEF Analysed
    <3>2. Pre(r) \in Seq(Precondition)
      BY <2>2, RuleFacts
    <3>3. q \in Rule
      BY <3>2, ListFolded, NodeKinds
    <3> QED BY <3>1, <3>3 DEF Adds
  <2> QED BY <1>1, <2>1, <2>2 DEF Analysed
<1>4. Rooted(self') => Rooted(self)'
  <2> SUFFICES ASSUME Rooted(self') PROVE Rooted(self)'
    OBVIOUS
  <2>1. /\ self'.g \in GraphOver(DOMAIN graph'.arc) /\ Grounded(graph'.arc, {}, self'.g)
        /\ self'.g.sched \cap Production \subseteq Finished'
    BY <1>2 DEF Rooted
  <2>2. \A r \in self'.g.alive \cap (Rule \cup {Final}) : Analysed(r)'
    BY <1>3 DEF Rooted
  <2> QED BY <2>1, <2>2 DEF Rooted
<1>5. Backed(top', self') => Backed(top, self)'
  BY <1>2 DEF Backed, Ordered
<1>6. BackedHeap(heap', self') => BackedHeap(heap, self)'
  BY <1>2 DEF BackedHeap, Backed, Ordered
<1> QED BY <1>1, <1>2, <1>3, <1>4, <1>5, <1>6

(* The next rule of a list succeeds.                                                     *)
LEMMA RunAdds ==
  ASSUME problem' = problem, run \in [Rule -> Results], NEW r \in Rule, NEW ok \in BOOLEAN, run[r] # "OK", Run(r, ok)
  PROVE  /\ Adds /\ (Delivered => Delivered')
         /\ run' = [run EXCEPT ![r] = IF ok THEN "OK" ELSE "failed"]
         /\ \A x \in Rule : x # r => run'[x] = run[x]
         /\ have' = IF ok /\ r \in Production THEN have \cup Output(r) ELSE have
<1>1. /\ run' = [run EXCEPT ![r] = IF ok THEN "OK" ELSE "failed"]
      /\ have' = IF ok /\ r \in Production THEN have \cup Output(r) ELSE have
  BY DEF Run
<1>2. Adds
  BY <1>1 DEF Adds
<1>3. ASSUME Delivered, NEW x \in Production, run'[x] = "OK" PROVE Output(x)' \subseteq have'
  <2>1. Output(x)' = Output(x) /\ x \in Rule
    BY NodeKinds DEF Output
  <2>2. CASE x = r
    <3>1. ok
      BY <1>1, <1>3, <2>2
    <3> QED BY <1>1, <2>1, <2>2, <3>1
  <2>3. CASE x # r
    <3>1. run[x] = "OK"
      BY <1>1, <1>3, <2>1, <2>3
    <3> QED BY <1>1, <1>3, <2>1, <3>1 DEF Delivered
  <2> QED BY <2>2, <2>3
<1> QED BY <1>1, <1>2, <1>3 DEF Delivered

(* What is known of the rest of a list when its first rule has succeeded.                *)
LEMMA DueTail ==
  ASSUME problem' = problem, run \in [Rule -> Results], NEW r, r = Head(todo), todo \in Seq(Rule), todo # <<>>,
         DueList(todo), Run(r, TRUE), todo' = Tail(todo)
  PROVE  /\ DueList(todo)'
         /\ \A x \in Rule \cup {Final} : Met(x, Made(ToSet(todo))) => Met(x, Made(ToSet(todo)))'
<1>0. PICK T : T = Tail(todo)
  OBVIOUS
<1>1. /\ T \in Seq(Rule) /\ DOMAIN T = 1..Len(T) /\ DOMAIN todo = 1..Len(todo) /\ Len(todo) = Len(T) + 1 /\ Len(T) \in Nat
      /\ 1 \in DOMAIN todo /\ todo[1] = r /\ r \in Rule
      /\ \A i \in DOMAIN T : T[i] = todo[i + 1] /\ i + 1 \in DOMAIN todo /\ i # 0 /\ i \in Nat /\ T[i] \in Rule
  BY <1>0
<1>2. todo' = T
  BY <1>0
<1>3. IsInjective(todo) /\ \A i \in DOMAIN T : T[i] # r
  <2>1. IsInjective(todo)
    BY DEF DueList
  <2> QED BY <1>1, <2>1 DEF IsInjective
<1>4. IsInjective(T)
  BY <1>1, <1>3 DEF IsInjective
<1>5. run[r] = "none"
  BY <1>1 DEF DueList
<1>6. /\ Adds /\ \A x \in Rule : x # r => run'[x] = run[x]
      /\ run' = [run EXCEPT ![r] = "OK"]
      /\ have' = IF r \in Production THEN have \cup Output(r) ELSE have
  <2>1. TRUE \in BOOLEAN /\ run[r] # "OK"
    BY <1>5
  <2> QED BY <1>1, <2>1, RunAdds
<1>7. run'[r] = "OK"
  BY <1>1, <1>6
<1>8. \A x : Input(x)' = Input(x) /\ Output(x)' = Output(x) /\ Pre(x)' = Pre(x)
  BY DEF Input, Output, Pre
<1>9. ASSUME NEW X, NEW Y, X \subseteq Y \cup {r} PROVE Made(X) \subseteq have' \cup UNION {Output(x) : x \in Y \cap Production}
  BY <1>6, <1>9 DEF Made
<1>10. ASSUME NEW x, NEW X, NEW Y, X \subseteq Y \cup {r}, Met(x, Made(X))
       PROVE  \A k \in DOMAIN Input(x) : Input(x)[k] \cap (have' \cup UNION {Output(z) : z \in Y \cap Production}) # {}
  <2> DEFINE M == have' \cup UNION {Output(z) : z \in Y \cap Production}
  <2>1. Made(X) \subseteq M
    BY <1>9, <1>10
  <2> HIDE DEF M
  <2>2. \A k \in DOMAIN Input(x) : Input(x)[k] \cap M # {}
    BY <1>10, <2>1 DEF Met
  <2> QED BY <2>2 DEF M
<1>11. ASSUME NEW i \in DOMAIN T
       PROVE  /\ run'[T[i]] = "none"
              /\ \A k \in DOMAIN Input(T[i]) :
                    Input(T[i])[k] \cap (have' \cup UNION {Output(z) : z \in Before(T, i) \cap Production}) # {}
              /\ T[i] \in Production => \A q \in ToSet(Pre(T[i])) : run'[q] = "OK" \/ q \in Before(T, i)
  <2>1. /\ run[T[i]] = "none" /\ Met(T[i], Made(Before(todo, i + 1)))
        /\ T[i] \in Production => \A q \in ToSet(Pre(T[i])) : run[q] = "OK" \/ q \in Before(todo, i + 1)
    BY <1>1 DEF DueList
  <2>2. Before(todo, i + 1) \subseteq Before(T, i) \cup {r}
    <3> SUFFICES ASSUME NEW j \in 1..((i + 1) - 1), todo[j] # r PROVE todo[j] \in Before(T, i)
      BY DEF Before
    <3>1. j # 1 /\ i \in 1..Len(T)
      BY <1>1
    <3>2. j - 1 \in 1..(i - 1) /\ j - 1 \in DOMAIN T
      BY <1>1, <3>1
    <3>3. (j - 1) + 1 = j
      OBVIOUS
    <3>4. T[j - 1] = todo[j]
      BY <1>1, <3>2, <3>3
    <3> QED BY <3>2, <3>4 DEF Before
  <2>3. run'[T[i]] = "none"
    BY <1>1, <1>3, <1>6, <2>1
  <2>4. ASSUME T[i] \in Production, NEW q \in ToSet(Pre(T[i])) PROVE run'[q] = "OK" \/ q \in Before(T, i)
    <3>1. run[q] = "OK" \/ q \in Before(T, i) \/ q = r
      BY <2>1, <2>2, <2>4
    <3>2. run[q] = "OK" => run'[q] = "OK"
      BY <1>5, <1>6, <1>7
    <3> QED BY <1>7, <3>1, <3>2
  <2> QED BY <1>10, <2>1, <2>2, <2>3, <2>4
<1>12. DueList(todo)'
  <2>1. ASSUME NEW i \in DOMAIN T PROVE Met(T[i], Made(Before(T, i)))'
    BY <1>8, <1>11, <2>1 DEF Met, Made
  <2>2. \A i \in DOMAIN T : T[i] \in Production => \A q \in ToSet(Pre(T[i])') : run'[q] = "OK" \/ q \in Before(T, i)
    BY <1>8, <1>11
  <2>3. DueList(T)'
    BY <1>4, <1>11, <2>1, <2>2 DEF DueList
  <2> QED BY ONLY <1>2, <2>3 DEF DueList, Met, Made, Before, ToSet, Input, Output, Pre, IsInjective
<1>13. ASSUME NEW x \in Rule \cup {Final}, Met(x, Made(ToSet(todo))) PROVE Met(x, Made(ToSet(todo)))'
  <2>1. ToSet(todo) \subseteq ToSet(T) \cup {r}
    <3> SUFFICES ASSUME NEW j \in DOMAIN todo, todo[j] # r PROVE todo[j] \in ToSet(T)
      BY DEF ToSet
    <3>1. j - 1 \in DOMAIN T
      BY <1>1
    <3>2. (j - 1) + 1 = j
      BY <1>1
    <3>3. T[j - 1] = todo[j]
      BY <1>1, <3>1, <3>2
    <3> QED BY <3>1, <3>3 DEF ToSet
  <2>2. \A k \in DOMAIN Input(x) : Input(x)[k] \cap (have' \cup UNION {Output(z) : z \in ToSet(T) \cap Production}) # {}
    BY <1>10, <1>13, <2>1
  <2> QED BY <1>2, <1>8, <2>2 DEF Met, Made, ToSet
<1> QED BY <1>12, <1>13

(* Nothing has been done since the list was made.                                        *)
LEMMA DueSame ==
  ASSUME UNCHANGED <<problem, have, run>>
  PROVE  /\ DueList(todo') => DueList(todo)'
         /\ \A x : Met(x, Made(ToSet(todo'))) => Met(x, Made(ToSet(todo)))'
         /\ \A r : Bad(r) <=> Bad(r)'
<1>1. \A x : Input(x)' = Input(x) /\ Output(x)' = Output(x) /\ Pre(x)' = Pre(x)
  BY DEF Input, Output, Pre
<1>2. ASSUME NEW x, NEW X, Met(x, Made(X))
      PROVE  \A k \in DOMAIN Input(x) : Input(x)[k] \cap (have' \cup UNION {Output(z) : z \in X \cap Production}) # {}
  BY <1>2 DEF Met, Made
<1>3. ASSUME NEW x, Met(x, Made(ToSet(todo'))) PROVE Met(x, Made(ToSet(todo)))'
  <2>1. \A k \in DOMAIN Input(x) : Input(x)[k] \cap (have' \cup UNION {Output(z) : z \in ToSet(todo') \cap Production}) # {}
    BY <1>2, <1>3
  <2> QED BY <1>1, <2>1 DEF Met, Made, ToSet
<1>4. ASSUME DueList(todo') PROVE DueList(todo)'
  <2>1. PICK T : T = todo'
    OBVIOUS
  <2>2. DueList(T)
    BY <1>4, <2>1
  <2>3. DueList(T)'
    BY <1>1, <2>2 DEF DueList, Met, Made
  <2> QED BY <2>1, <2>3 DEF DueList, Met, Made, Before, ToSet, Input, Output, Pre, IsInjective
<1> QED BY <1>3, <1>4 DEF Bad

(* A step that changes the chain at hand or the heap, and may start the execution.       *)
LEMMA DraftDue ==
  ASSUME Inv, DueInv, Choosing, UNCHANGED <<problem, have, run, graph, self>>,
         Backed(top', self), BackedHeap(heap', self),
         \/ phase' \in {"done", "died"}
         \/ phase' \in {"build", "trivial", "split", "pop"} /\ ((top'.g.ready = {} /\ heap' = {}) \/ Fresh(self, {}))
         \/ /\ phase' = "execute" /\ worked' = <<>> /\ todo' = Weave(top'.rules)
            /\ IsComplete(top'.g) /\ GoodDraft(top') /\ Follows(top', self) /\ Fresh(self, {})
  PROVE  DueInv'
<1>1. Working /\ Searching /\ phase # "suppliers" /\ problem \in Problem
  BY DEF Choosing, Working, Searching, Inv, TypeInv
<1>2. Basis
  BY <1>1, DueBasis
<1>3. Rooted(self) /\ Sifted(self, {}) /\ DOMAIN graph.arc \in ArcsAmong /\ Labels(graph.arc)
  BY <1>1 DEF DueInv, SelfDue
<1>4. Adds /\ graph' = graph
  BY DEF Adds
<1>5. Delivered'
  <2>1. \A r : Output(r)' = Output(r)
    BY DEF Output
  <2> QED BY <2>1 DEF DueInv, Delivered
<1>6. GatherDue' /\ ReplayDue'
  BY DEF GatherDue, ReplayDue, Gathering
<1>7. Rooted(self)' /\ Backed(top, self)' /\ BackedHeap(heap, self)'
  <2>1. Rooted(self') /\ Backed(top', self') /\ BackedHeap(heap', self')
    BY <1>3
  <2> QED BY <1>1, <1>4, <2>1, AddsKeeps
<1>8. Sifted(self, {})'
  BY <1>3, DueSame DEF Sifted
<1>9. (Labels(graph.arc))'
  BY <1>3 DEF Labels, Labelled, Input, Output, Pre
<1>10. SelfDue' /\ DraftsDue'
  <2>1. phase' # "suppliers"
    OBVIOUS
  <2>2. DOMAIN graph'.arc \in ArcsAmong
    BY <1>3
  <2> QED BY <1>7, <1>8, <1>9, <2>1, <2>2 DEF SelfDue, DraftsDue
<1>11. Fresh(self, {}) => Fresh(self, {})'
  BY DEF Fresh
<1>12. ChoiceDue'
  BY <1>11 DEF ChoiceDue, Choosing, Spent
<1>13. ListDue'
  <2> SUFFICES ASSUME phase' = "execute"
               PROVE  /\ DueList(todo)' /\ Fresh(self, ToSet(worked))' /\ ToSet(worked') \subseteq Finished'
                      /\ Plain(Final)' => Met(Final, Made(ToSet(todo)))'
    BY DEF ListDue
  <2>1. PICK c : c = top'
    OBVIOUS
  <2>2. DueList(Weave(c.rules)) /\ (Plain(Final) => Met(Final, Made(ToSet(Weave(c.rules)))))
    BY <1>2, <1>3, <2>1, ExecutionDue
  <2>3. todo' = Weave(c.rules)
    BY <2>1
  <2>4. DueList(todo)' /\ (Plain(Final) => Met(Final, Made(ToSet(todo)))')
    BY <2>2, <2>3, DueSame
  <2>5. Plain(Final)' => Plain(Final)
    BY DEF Plain, Input
  <2>6. ToSet(worked') = {}
    BY DEF ToSet
  <2>7. Fresh(self, ToSet(worked))'
    BY <2>6 DEF Fresh
  <2> QED BY <2>4, <2>5, <2>6, <2>7
<1> QED BY <1>5, <1>6, <1>10, <1>12, <1>13 DEF DueInv

(* What is known of the chains while rules are chosen.                                   *)
LEMMA ChoosingNow ==
  ASSUME Inv, DueInv, Choosing
  PROVE  /\ DOMAIN graph.arc \in ArcsAmong /\ problem \in Problem
         /\ GoodDraft(top) /\ Follows(top, self) /\ Backed(top, self)
         /\ GoodHeap(heap) /\ FollowingHeap(heap, self) /\ BackedHeap(heap, self)
         /\ Rooted(self) /\ Sifted(self, {})
         /\ top.g.ready # {} \/ heap # {} => Fresh(self, {})
<1>1. Working /\ Searching /\ phase # "suppliers"
  BY DEF Choosing, Working, Searching
<1>2. Spent \/ Fresh(self, {})
  BY DEF DueInv, ChoiceDue
<1> QED BY <1>1, <1>2, ChainsNow DEF DueInv, SelfDue, DraftsDue, Spent

(* Steps that only change the phase.                                                     *)
LEMMA PhaseDue ==
  ASSUME Inv, DueInv, EndOfTrivial \/ EndOfSplit \/ PopNone
  PROVE  DueInv'
<1>1. /\ Choosing /\ UNCHANGED <<problem, have, run, graph, self, top, heap>>
      /\ phase' \in {"build", "split", "pop", "done"}
  BY DEF EndOfTrivial, EndOfSplit, PopNone, GiveUp, Answer, Choosing
<1>2. Backed(top, self) /\ BackedHeap(heap, self) /\ ((top.g.ready = {} /\ heap = {}) \/ Fresh(self, {}))
  BY <1>1, ChoosingNow
<1>3. Backed(top', self) /\ BackedHeap(heap', self) /\ ((top'.g.ready = {} /\ heap' = {}) \/ Fresh(self, {}))
  BY <1>1, <1>2
<1>4. \/ phase' \in {"done", "died"}
      \/ phase' \in {"build", "trivial", "split", "pop"} /\ ((top'.g.ready = {} /\ heap' = {}) \/ Fresh(self, {}))
  BY <1>1, <1>3
<1> QED BY <1>1, <1>3, <1>4, DraftDue

(* The next chain is taken from the heap.                                                *)
LEMMA PopDue ==
  ASSUME Inv, DueInv, NEW a \in heap, Pop(a) PROVE DueInv'
<1> DEFINE b == [a EXCEPT !.queued = FALSE]
<1>1. /\ Choosing /\ heap' = (heap \ {a}) \cup {b} /\ top' = a.chain /\ UNCHANGED <<problem, have, run, graph, self>>
      /\ \/ phase' = "build"
         \/ phase' = "execute" /\ worked' = <<>> /\ todo' = Weave(top'.rules) /\ IsComplete(top'.g)
  BY DEF Pop, StartExecution, Choosing
<1>2. GoodHeap(heap) /\ FollowingHeap(heap, self) /\ BackedHeap(heap, self) /\ Fresh(self, {})
  BY <1>1, ChoosingNow
<1>3. a \in AgentType /\ GoodDraft(a.chain) /\ Follows(a.chain, self) /\ Backed(a.chain, self)
  BY <1>2 DEF GoodHeap, FollowingHeap, BackedHeap
<1>4. b.chain = a.chain
  BY <1>3 DEF AgentType
<1> HIDE DEF b
<1>5. BackedHeap(heap', self)
  BY <1>1, <1>2, <1>3, <1>4 DEF BackedHeap
<1>6. GoodDraft(top') /\ Follows(top', self) /\ Backed(top', self)
  BY <1>1, <1>3
<1>7. \/ phase' \in {"build", "trivial", "split", "pop"} /\ ((top'.g.ready = {} /\ heap' = {}) \/ Fresh(self, {}))
      \/ /\ phase' = "execute" /\ worked' = <<>> /\ todo' = Weave(top'.rules)
         /\ IsComplete(top'.g) /\ GoodDraft(top') /\ Follows(top', self) /\ Fresh(self, {})
  BY <1>1, <1>2, <1>6
<1> QED BY <1>1, <1>5, <1>6, <1>7, DraftDue

(* Preconditions are added to the chain at hand.                                         *)
LEMMA SchedulePreDue ==
  ASSUME Inv, DueInv, SchedulePre PROVE DueInv'
<1> DEFINE w == ScheduleAll(top.g, ReadyPre)
           c == [top EXCEPT !.g = w.g]
<1>1. Choosing /\ UNCHANGED <<problem, have, run, graph, self, heap>> /\ phase' \in {"died", "trivial"}
  BY DEF SchedulePre, Choosing
<1>2. top' = [top EXCEPT !.g = IF w.ok THEN w.g ELSE [w.g EXCEPT !.ready = {}]]
  BY DEF SchedulePre, ScheduleAll
<1>3. /\ DOMAIN graph.arc \in ArcsAmong /\ GoodDraft(top) /\ Backed(top, self) /\ BackedHeap(heap, self)
      /\ (top.g.ready = {} /\ heap = {}) \/ Fresh(self, {})
  BY <1>1, ChoosingNow
<1>4. top.g \in GraphOver(DOMAIN graph.arc) /\ Exact(top.g) /\ (Clean(top.g) \/ Kept(top.g)) /\ top \in ChainType
  BY <1>3 DEF Backed, GoodDraft
<1>5. ReadyPre \in SUBSET (top.g.ready \cap Precondition)
  BY DEF ReadyPre
<1> HIDE DEF w
<1>6. w \in WorkOver(DOMAIN graph.arc) /\ w.ok /\ Prepared(top.g, w.g, ReadyPre, {})
      /\ (ReadyPre = {} => w.g.ready = top.g.ready)
  BY <1>3, <1>4, <1>5, ScheduleAllPrepares DEF w
<1>7. top' = c
  BY <1>2, <1>6
<1>8. c = [g |-> w.g, rules |-> top.rules, weight |-> top.weight, verts |-> top.verts]
  BY <1>4, ChainParts
<1> HIDE DEF c
<1>9. c.g = w.g /\ c.rules = top.rules /\ w.g \in GraphOver(DOMAIN graph.arc) /\ ReadyPre \in SUBSET Precondition
  BY <1>5, <1>6, <1>8 DEF WorkOver
<1>10. Backed(c, self)
  BY <1>3, <1>6, <1>9, BackedPrepared
<1>11. top.g.ready = {} => c.g.ready = {}
  BY <1>6, <1>9 DEF ReadyPre
<1>12. Backed(top', self) /\ BackedHeap(heap', self) /\ ((top'.g.ready = {} /\ heap' = {}) \/ Fresh(self, {}))
  BY <1>1, <1>3, <1>7, <1>10, <1>11
<1> QED BY <1>1, <1>12, DraftDue

(* The invariant of the chains after a step.                                             *)
LEMMA TopNext ==
  ASSUME Inv', Searching'
  PROVE  GoodDraft(top') /\ Follows(top', self')
<1>1. TypeInv' /\ GraphsInv' /\ DraftsInv'
  BY DEF Inv
<1>2. top' \in Drafts' /\ top' \in Chains'
  BY DEF Drafts, Chains
<1>3. GoodDraft(top')
  BY <1>1, <1>2 DEF TypeInv, GraphsInv, GoodDraft
<1>4. Follows(top', self')
  BY <1>1, <1>2 DEF DraftsInv, Follows
<1> QED BY <1>3, <1>4

(* A rule of minimal weight is added to the chain at hand.                               *)
LEMMA ScheduleTrivialDue ==
  ASSUME Inv, DueInv, NEW r \in Production, ScheduleTrivial(r) PROVE DueInv'
<1> DEFINE stem == [top EXCEPT !.g.ready = @ \ {r}]
           w == AddScheduledRule([top.g EXCEPT !.ready = @ \ {r}], r, 1)
           chain == [top EXCEPT !.g = w.g, !.rules = Append(@, r)]
           bare == [top EXCEPT !.g.ready = {}]
<1>1. /\ phase = "trivial" /\ r \in top.g.ready /\ UNCHANGED <<problem, have, run, graph, self, heap>>
      /\ \/ /\ w.ok /\ top' = chain /\ phase' = "execute" /\ worked' = <<>> /\ todo' = Weave(top'.rules)
            /\ IsComplete(w.g)
         \/ w.ok /\ top' = chain /\ phase' = phase
         \/ top' = bare /\ phase' = phase
  BY DEF ScheduleTrivial, StartExecution
<1>2. Choosing
  BY <1>1 DEF Choosing
<1>3. /\ DOMAIN graph.arc \in ArcsAmong /\ GoodDraft(top) /\ Follows(top, self)
      /\ Backed(top, self) /\ BackedHeap(heap, self) /\ Fresh(self, {})
  BY <1>1, <1>2, ChoosingNow
<1>4. r \in Rule /\ r \in top.g.flagged /\ top \in ChainType /\ top.g \in GraphOver(DOMAIN graph.arc)
  BY <1>1, <1>3, NodeKinds, ReadyNew DEF GoodDraft, Backed
<1>5. /\ GoodDraft(stem) /\ stem.rules = top.rules /\ stem.g = [top.g EXCEPT !.ready = @ \ {r}]
  BY <1>3, ReadyDropped
<1>6. r \in stem.g.flagged /\ r \notin stem.g.ready
  BY <1>4, <1>5 DEF GraphOver
<1>7. w = AddScheduledRule(stem.g, r, 1)
  BY <1>5
<1> HIDE DEF stem
<1>8. Backed(stem, self)
  <2> DEFINE X == {r}
  <2>1. stem.g = [top.g EXCEPT !.ready = @ \ X]
    BY <1>5
  <2> HIDE DEF X
  <2> QED BY <1>3, <1>5, <2>1, BackedReady
<1>9. chain.g = w.g /\ chain.rules = Append(stem.rules, r)
  <2> HIDE DEF w
  <2>1. top = [g |-> top.g, rules |-> top.rules, weight |-> top.weight, verts |-> top.verts]
    BY <1>4, ChainParts
  <2>2. chain.g = w.g /\ chain.rules = Append(top.rules, r)
    BY <2>1
  <2> HIDE DEF chain
  <2> QED BY <1>5, <2>2
<1> HIDE DEF w, chain
<1>10. w.ok => Backed(chain, self)
  <2> SUFFICES ASSUME w.ok PROVE Backed(chain, self)
    OBVIOUS
  <2>1. 1 \in {0, 1} /\ AddScheduledRule(stem.g, r, 1).ok /\ chain.g = AddScheduledRule(stem.g, r, 1).g
    BY <1>7, <1>9
  <2> QED BY <1>3, <1>5, <1>6, <1>8, <1>9, <2>1, BackedAdded
<1>11. Backed(bare, self)
  <2> DEFINE X == top.g.ready
  <2>1. top = [g |-> top.g, rules |-> top.rules, weight |-> top.weight, verts |-> top.verts]
    BY <1>4, ChainParts
  <2>2. bare.rules = top.rules /\ bare.g = [top.g EXCEPT !.ready = {}]
    BY <2>1
  <2>3. [top.g EXCEPT !.ready = {}] = [top.g EXCEPT !.ready = @ \ X]
    OBVIOUS
  <2>4. bare.g = [top.g EXCEPT !.ready = @ \ X]
    BY <2>2, <2>3
  <2> HIDE DEF X, bare
  <2> QED BY <1>3, <2>2, <2>4, BackedReady
<1> HIDE DEF bare
<1>12. Backed(top', self) /\ BackedHeap(heap', self)
  BY <1>1, <1>3, <1>10, <1>11
<1>13. CASE phase' = "execute" /\ worked' = <<>> /\ todo' = Weave(top'.rules) /\ IsComplete(w.g) /\ top' = chain
  <2>1. Inv' /\ Searching'
    BY <1>13, ScheduleTrivialStep DEF Searching
  <2>2. GoodDraft(top') /\ Follows(top', self)
    BY <1>1, <2>1, TopNext
  <2>3. IsComplete(top'.g)
    BY <1>9, <1>13
  <2> QED BY <1>1, <1>2, <1>3, <1>12, <1>13, <2>2, <2>3, DraftDue
<1>14. CASE phase' = phase
  BY <1>1, <1>2, <1>3, <1>12, <1>14, DraftDue
<1> QED BY <1>1, <1>13, <1>14

(* A variant with the rule goes to the heap, the chain at hand goes on without it.       *)
LEMMA SplitDue ==
  ASSUME Inv, DueInv, NEW r \in Production, Split(r) PROVE DueInv'
<1> DEFINE stem == [top EXCEPT !.g.ready = @ \ {r}]
           w == AddScheduledRule(stem.g, r, 0)
           variant == [g |-> w.g, rules |-> Append(top.rules, r),
                       weight |-> TentativeWeight(top, r), verts |-> TentativeVerts(top, r)]
           rest == EliminateRules(stem.g, {r}, Weak)
           left == [top EXCEPT !.g = rest.g]
<1>1. /\ phase = "split" /\ top.g.ready # {} /\ UNCHANGED <<problem, have, run, graph, self>>
      /\ r \in top.g.ready \/ r \in SelectReady(top.g, problem.weight)
      /\ heap' = heap \/ (w.ok /\ heap' = Pushed(variant, top))
      /\ \/ top' = stem /\ phase' = "pop"
         \/ rest.ok /\ top' = left /\ phase' = phase
  BY DEF Split
<1>2. Choosing
  BY <1>1 DEF Choosing
<1>3. /\ DOMAIN graph.arc \in ArcsAmong /\ GoodDraft(top) /\ Follows(top, self)
      /\ Backed(top, self) /\ BackedHeap(heap, self) /\ Fresh(self, {})
  BY <1>1, <1>2, ChoosingNow
<1>4. r \in Rule /\ r \in top.g.ready \cup top.g.flagged
  BY <1>1, NodeKinds, SelectedReady
<1>5. r \in top.g.flagged /\ r \notin top.g.sched /\ top \in ChainType /\ top.g \in GraphOver(DOMAIN graph.arc)
  BY <1>3, <1>4, ReadyNew DEF GoodDraft, Backed
<1>6. GoodDraft(stem) /\ stem.rules = top.rules /\ stem.g = [top.g EXCEPT !.ready = @ \ {r}]
  BY <1>3, ReadyDropped
<1>7. r \in stem.g.flagged /\ r \notin stem.g.ready /\ r \notin stem.g.sched
  BY <1>5, <1>6 DEF GraphOver
<1> HIDE DEF stem
<1>8. Backed(stem, self)
  <2> DEFINE X == {r}
  <2>1. stem.g = [top.g EXCEPT !.ready = @ \ X]
    BY <1>6
  <2> HIDE DEF X
  <2> QED BY <1>3, <1>6, <2>1, BackedReady
<1>9. variant.g = w.g /\ variant.rules = Append(stem.rules, r)
  BY <1>6
<1> HIDE DEF variant
<1>10. w.ok => Backed(variant, self)
  <2> SUFFICES ASSUME w.ok PROVE Backed(variant, self)
    OBVIOUS
  <2>1. 0 \in {0, 1} /\ AddScheduledRule(stem.g, r, 0).ok /\ variant.g = AddScheduledRule(stem.g, r, 0).g
    BY <1>9
  <2> HIDE DEF w
  <2> QED BY <1>3, <1>6, <1>7, <1>8, <1>9, <2>1, BackedAdded
<1> HIDE DEF w
<1>11. BackedHeap(heap', self)
  <2>1. Pushed(variant, top) \subseteq heap \cup {Agent(variant)} /\ Agent(variant).chain = variant
    BY DEF Pushed, Agent
  <2> QED BY <1>1, <1>3, <1>10, <2>1 DEF BackedHeap
<1>12. left.g = rest.g /\ left.rules = stem.rules
  <2> HIDE DEF rest
  <2>1. top = [g |-> top.g, rules |-> top.rules, weight |-> top.weight, verts |-> top.verts]
    BY <1>5, ChainParts
  <2>2. left.g = rest.g /\ left.rules = top.rules
    BY <2>1
  <2> HIDE DEF left
  <2> QED BY <1>6, <2>2
<1> HIDE DEF left
<1>13. rest.ok => Backed(left, self)
  <2> SUFFICES ASSUME rest.ok PROVE Backed(left, self)
    OBVIOUS
  <2> DEFINE X == {r}
  <2>1. X \in SUBSET Node /\ X \cap stem.g.sched = {} /\ Weak \in {Weak, Initial}
    BY <1>4, <1>7, NodeKinds
  <2>2. EliminateRules(stem.g, X, Weak).ok /\ left.g = EliminateRules(stem.g, X, Weak).g
    BY <1>12
  <2> HIDE DEF X, rest
  <2> QED BY <1>3, <1>6, <1>8, <1>12, <2>1, <2>2, BackedShrunk
<1> HIDE DEF rest
<1>14. Backed(top', self)
  BY <1>1, <1>8, <1>13
<1>15. phase' \in {"build", "trivial", "split", "pop"}
  BY <1>1
<1> QED BY <1>1, <1>2, <1>3, <1>11, <1>14, <1>15, DraftDue

(* A step of the search that keeps the chains.                                           *)
LEMMA KeepsChains ==
  ASSUME Inv, DueInv, Searching, Searching', Adds, Delivered', UNCHANGED <<graph, self, top, heap>>,
         Sifted(self, IF phase = "suppliers" THEN failed ELSE {})', ~Choosing', ListDue'
  PROVE  DueInv'
<1>1. Working /\ problem \in Problem
  BY DEF Working, Inv, TypeInv
<1>2. /\ DOMAIN graph.arc \in ArcsAmong /\ Labels(graph.arc) /\ Rooted(self)
      /\ Backed(top, self) /\ BackedHeap(heap, self)
  BY <1>1 DEF DueInv, SelfDue, DraftsDue
<1>3. Rooted(self)' /\ Backed(top, self)' /\ BackedHeap(heap, self)'
  <2>1. Rooted(self') /\ Backed(top', self') /\ BackedHeap(heap', self')
    BY <1>2
  <2> QED BY <1>1, <2>1, AddsKeeps
<1>4. (Labels(graph.arc))'
  BY <1>2 DEF Labels, Labelled, Input, Output, Pre, Adds
<1>5. SelfDue' /\ DraftsDue'
  <2>1. DOMAIN graph'.arc \in ArcsAmong
    BY <1>2
  <2> QED BY <1>3, <1>4, <2>1 DEF SelfDue, DraftsDue
<1>6. GatherDue' /\ ReplayDue' /\ ChoiceDue'
  BY DEF GatherDue, ReplayDue, ChoiceDue, Gathering, Searching
<1> QED BY <1>5, <1>6 DEF DueInv

(* Preconditions are chosen to be checked.                                               *)
LEMMA CheckPendingDue ==
  ASSUME Inv, DueInv, CheckPending PROVE DueInv'
<1>1. PICK now : now = Pending \ TooExpensive
  OBVIOUS
<1>2. /\ phase = "build" /\ now # {} /\ phase' = "suppliers"
      /\ todo' = Only(top.rules, SuppliersToRun(now)) /\ checks' = now
      /\ failed' = {} /\ worked' = <<>> /\ UNCHANGED <<problem, have, run, graph, self, top, heap>>
  BY <1>1 DEF CheckPending
<1>3. Choosing /\ Searching /\ Searching' /\ ~Choosing' /\ Working
  BY <1>2 DEF Choosing, Searching, Working
<1>4. top.g.ready # {}
  BY <1>1, <1>2 DEF Pending, ReadyPre
<1>5. /\ GoodDraft(top) /\ Follows(top, self) /\ Backed(top, self) /\ Rooted(self) /\ Sifted(self, {}) /\ Fresh(self, {})
      /\ Basis
  BY <1>3, <1>4, ChoosingNow, DueBasis
<1>6. DueList(todo') /\ \A q \in now : run[q] = "none" /\ Met(q, Made(ToSet(todo')))
  BY <1>1, <1>2, <1>5, ChecksDue
<1>7. Adds /\ Delivered'
  <2>1. \A r : Output(r)' = Output(r)
    BY <1>2 DEF Output
  <2> QED BY <1>2, <2>1 DEF Adds, DueInv, Delivered
<1>8. DueList(todo)' /\ \A q \in now : run'[q] = "none" /\ Met(q, Made(ToSet(todo)))'
  BY <1>2, <1>6, DueSame
<1>9. Fresh(self, {})' /\ Sifted(self, {})'
  BY <1>2, <1>5, DueSame DEF Fresh, Sifted
<1>10. ToSet(worked') = {}
  BY <1>2 DEF ToSet
<1>11. ListDue'
  BY <1>2, <1>8, <1>9, <1>10 DEF ListDue, Fresh
<1>12. Sifted(self, IF phase = "suppliers" THEN failed ELSE {})'
  BY <1>2, <1>9 DEF Sifted
<1> QED BY <1>2, <1>3, <1>7, <1>11, <1>12, KeepsChains

(* What is known of the rules to be executed.                                            *)
LEMMA ListNow ==
  ASSUME Inv, DueInv, phase \in {"suppliers", "execute"}
  PROVE  /\ Basis /\ Searching /\ ~Choosing /\ problem \in Problem /\ run \in [Rule -> Results] /\ DueList(todo)
         /\ Fresh(self, ToSet(worked)) /\ ToSet(worked) \subseteq Finished /\ worked \in Seq(Rule)
         /\ Sifted(self, IF phase = "suppliers" THEN failed ELSE {}) /\ Rooted(self) /\ GoodSelf(self)
         /\ todo \in Seq(Rule)
         /\ todo # <<>> =>
              /\ Head(todo) \in Rule /\ Head(todo) \in ToSet(todo) /\ run[Head(todo)] = "none"
              /\ phase = "suppliers" => Head(todo) \in Production
<1>1. Searching /\ ~Choosing /\ Working
  BY DEF Searching, Choosing, Working
<1>2. Basis /\ run \in [Rule -> Results] /\ GoodSelf(self)
  BY <1>1, DueBasis, ChainsNow
<1>3. worked \in Seq(Rule) /\ todo \in Seq(Rule) /\ (phase = "suppliers" => todo \in Seq(Production))
  <2>1. \A s \in Seq(Production) : s \in Seq(Rule)
    BY NodeKinds
  <2> QED BY <2>1 DEF Inv, StepsInv
<1>4. /\ DueList(todo) /\ Fresh(self, ToSet(worked)) /\ ToSet(worked) \subseteq Finished
      /\ Sifted(self, IF phase = "suppliers" THEN failed ELSE {}) /\ Rooted(self)
  BY <1>1 DEF DueInv, ListDue, SelfDue
<1>5. ASSUME todo # <<>>
      PROVE  /\ Head(todo) \in Rule /\ Head(todo) \in ToSet(todo) /\ run[Head(todo)] = "none"
             /\ phase = "suppliers" => Head(todo) \in Production
  <2>1. 1 \in DOMAIN todo /\ Head(todo) = todo[1]
    BY <1>3, <1>5
  <2>2. run[Head(todo)] = "none"
    BY <1>4, <2>1 DEF DueList
  <2> QED BY <1>3, <1>5, <2>2, ListSets
<1> QED BY <1>1, <1>2, <1>3, <1>4, <1>5 DEF Basis

(* Who has succeeded and who has failed after a rule has been run.                       *)
LEMMA RunSorted ==
  ASSUME run \in [Rule -> Results], NEW r \in Rule, NEW ok \in BOOLEAN, run[r] = "none", Run(r, ok), self' = self,
         NEW W, Fresh(self, W), W \subseteq Finished, NEW F, Sifted(self, F)
  PROVE  /\ ok => Fresh(self, W \cup {r})' /\ W \cup {r} \subseteq Finished' /\ Sifted(self, F)'
         /\ ~ok => Fresh(self, W)' /\ W \subseteq Finished' /\ Sifted(self, F \cup {r})'
<1>1. run' = [run EXCEPT ![r] = IF ok THEN "OK" ELSE "failed"]
  BY DEF Run
<1>2. run'[r] = (IF ok THEN "OK" ELSE "failed") /\ \A x \in Rule : x # r => run'[x] = run[x]
  BY <1>1
<1>3. \A x \in Production : x \in Rule
  BY NodeKinds
<1>4. ok => Fresh(self, W \cup {r})' /\ W \cup {r} \subseteq Finished' /\ Sifted(self, F)'
  BY <1>2, <1>3 DEF Fresh, Finished, Sifted, Bad
<1>5. ~ok => Fresh(self, W)' /\ W \subseteq Finished' /\ Sifted(self, F \cup {r})'
  BY <1>2, <1>3 DEF Fresh, Finished, Sifted, Bad
<1> QED BY <1>4, <1>5

(* An empty list.                                                                        *)
LEMMA EmptyDue ==
  todo = <<>> => DueList(todo) /\ ToSet(todo) = {}
  BY DEF DueList, ToSet, IsInjective

(* A list that is kept while properties are added.                                       *)
LEMMA MetAdds ==
  ASSUME Adds, todo' = todo, NEW x, Met(x, Made(ToSet(todo)))
  PROVE  Met(x, Made(ToSet(todo)))'
<1>1. Input(x)' = Input(x) /\ \A r : Output(r)' = Output(r)
  BY DEF Adds, Input, Output
<1>2. Made(ToSet(todo)) \subseteq Made(ToSet(todo))'
  BY <1>1 DEF Adds, Made, ToSet
<1>3. ASSUME NEW k \in DOMAIN Input(x) PROVE Input(x)[k] \cap Made(ToSet(todo))' # {}
  BY <1>2 DEF Met
<1> QED BY <1>1, <1>3 DEF Met

(* A supplier of the preconditions to be checked is executed.                            *)
LEMMA ExecuteSupplierDue ==
  ASSUME Inv, DueInv, ExecuteSupplier PROVE DueInv'
<1> DEFINE r == Head(todo)
<1>1. /\ phase = "suppliers" /\ phase' = phase /\ todo # <<>> /\ UNCHANGED <<problem, graph, self, top, heap>>
      /\ \/ /\ Run(r, TRUE) /\ worked' = Append(worked, r) /\ todo' = Tail(todo)
            /\ UNCHANGED <<checks, failed>>
         \/ /\ Run(r, FALSE) /\ failed' = {r} /\ todo' = <<>> /\ checks' = {} /\ worked' = worked
  BY DEF ExecuteSupplier
<1> HIDE DEF r
<1>2. /\ Basis /\ Searching /\ ~Choosing /\ run \in [Rule -> Results] /\ DueList(todo)
      /\ Fresh(self, ToSet(worked)) /\ ToSet(worked) \subseteq Finished /\ worked \in Seq(Rule)
      /\ Sifted(self, failed) /\ todo \in Seq(Rule)
      /\ r \in Rule /\ r \in Production /\ run[r] = "none"
  BY <1>1, ListNow DEF r
<1>3. Searching' /\ ~Choosing'
  BY <1>1, <1>2 DEF Searching, Choosing
<1>4. /\ \A q \in checks : run[q] = "none" /\ Met(q, Made(ToSet(todo)))
      /\ failed = {} /\ checks \subseteq Precondition /\ DueInv
  BY <1>1 DEF DueInv, ListDue, Inv, StepsInv
<1>7. PICK V : V = ToSet(worked)
  OBVIOUS
<1>8. Fresh(self, V) /\ V \subseteq Finished /\ Sifted(self, {}) /\ self' = self
  BY <1>1, <1>2, <1>4, <1>7
<1>5. CASE Run(r, TRUE) /\ worked' = Append(worked, r) /\ todo' = Tail(todo) /\ UNCHANGED <<checks, failed>>
  <2>1. /\ Adds /\ (Delivered => Delivered') /\ \A x \in Rule : x # r => run'[x] = run[x]
    BY <1>1, <1>2, <1>5, RunAdds
  <2>2. PICK z : z = r
    OBVIOUS
  <2>9. Fresh(self, V \cup {z})' /\ V \cup {z} \subseteq Finished' /\ Sifted(self, {})'
    <3>1. z \in Rule /\ run[z] = "none" /\ Run(z, TRUE) /\ TRUE \in BOOLEAN
      BY <1>2, <1>5, <2>2
    <3> QED BY ONLY <1>2, <1>8, <3>1, RunSorted
  <2>3. ToSet(worked') = V \cup {z}
    BY <1>2, <1>5, <1>7, <2>2, ListSets
  <2>4. /\ DueList(todo)'
        /\ \A x \in Rule \cup {Final} : Met(x, Made(ToSet(todo))) => Met(x, Made(ToSet(todo)))'
    BY <1>1, <1>2, <1>5, DueTail DEF r
  <2>5. ASSUME NEW q \in checks PROVE run'[q] = "none" /\ Met(q, Made(ToSet(todo)))'
    <3>1. q \in Rule /\ q # r
      BY <1>2, <1>4, NodeKinds, NodesDisjoint
    <3> QED BY <1>4, <2>1, <2>4, <3>1
  <2>6. Fresh(self, ToSet(worked))' /\ Sifted(self, IF phase = "suppliers" THEN failed ELSE {})'
    BY <1>1, <1>4, <1>5, <2>9, <2>3 DEF Fresh, Sifted
  <2>7. ListDue'
    BY <1>1, <1>4, <1>5, <2>9, <2>3, <2>4, <2>5, <2>6 DEF ListDue
  <2>8. Delivered'
    BY <2>1 DEF DueInv
  <2> QED BY <1>1, <1>2, <1>3, <2>1, <2>6, <2>7, <2>8, KeepsChains
<1>6. CASE Run(r, FALSE) /\ failed' = {r} /\ todo' = <<>> /\ checks' = {} /\ worked' = worked
  <2>1. Adds /\ (Delivered => Delivered')
    BY <1>1, <1>2, <1>6, RunAdds
  <2>9. PICK z : z = r
    OBVIOUS
  <2>7. Fresh(self, V)' /\ V \subseteq Finished' /\ Sifted(self, {} \cup {z})'
    <3>1. z \in Rule /\ run[z] = "none" /\ Run(z, FALSE) /\ FALSE \in BOOLEAN
      BY <1>2, <1>6, <2>9
    <3> QED BY ONLY <1>2, <1>8, <3>1, RunSorted
  <2>2. Fresh(self, ToSet(worked))' /\ ToSet(worked') \subseteq Finished' /\ Sifted(self, failed)'
    BY <1>6, <1>7, <2>7, <2>9 DEF Fresh, Sifted
  <2>3. DueList(todo)' /\ ToSet(todo') = {}
    BY <1>6 DEF DueList, ToSet, IsInjective
  <2>4. Sifted(self, IF phase = "suppliers" THEN failed ELSE {})'
    BY <1>1, <1>4, <1>6, <2>2 DEF Sifted
  <2>5. ListDue'
    BY <1>1, <1>6, <2>2, <2>3 DEF ListDue
  <2>6. Delivered'
    BY <2>1 DEF DueInv
  <2> QED BY <1>1, <1>2, <1>3, <2>1, <2>4, <2>5, <2>6, KeepsChains
<1> QED BY <1>1, <1>5, <1>6

(* A precondition is checked.                                                            *)
LEMMA CheckPreDue ==
  ASSUME Inv, DueInv, NEW q \in Precondition, CheckPre(q) PROVE DueInv'
<1>1. /\ phase = "suppliers" /\ phase' = phase /\ todo = <<>> /\ todo' = todo /\ q \in checks /\ checks' = checks \ {q}
      /\ worked' = worked /\ UNCHANGED <<problem, graph, self, top, heap>>
      /\ \/ Run(q, TRUE) /\ failed' = failed
         \/ Run(q, FALSE) /\ failed' = failed \cup {q}
  BY DEF CheckPre
<1>2. /\ Basis /\ Searching /\ ~Choosing /\ run \in [Rule -> Results] /\ DueList(todo)
      /\ Fresh(self, ToSet(worked)) /\ ToSet(worked) \subseteq Finished
      /\ Sifted(self, failed)
  BY <1>1, ListNow
<1>3. Searching' /\ ~Choosing'
  BY <1>1, <1>2 DEF Searching, Choosing
<1>4. /\ \A x \in checks : run[x] = "none" /\ Met(x, Made(ToSet(todo)))
      /\ checks \subseteq Precondition
  BY <1>1 DEF DueInv, ListDue, Inv, StepsInv
<1>5. PICK V : V = ToSet(worked)
  OBVIOUS
<1>6. PICK F : F = failed
  OBVIOUS
<1>7. q \in Rule /\ q \notin Production /\ run[q] = "none"
  BY <1>1, <1>4, NodeKinds, NodesDisjoint
<1>8. Fresh(self, V) /\ V \subseteq Finished /\ Sifted(self, F) /\ self' = self
  BY <1>1, <1>2, <1>5, <1>6
<1>9. /\ Adds /\ (Delivered => Delivered') /\ \A x \in Rule : x # q => run'[x] = run[x]
  <2>1. CASE Run(q, TRUE)
    BY <1>1, <1>2, <1>7, <2>1, RunAdds
  <2>2. CASE Run(q, FALSE)
    BY <1>1, <1>2, <1>7, <2>2, RunAdds
  <2> QED BY <1>1, <2>1, <2>2
<1>10. Fresh(self, V)' /\ V \subseteq Finished' /\ Sifted(self, failed)'
  <2>1. PICK z : z = q
    OBVIOUS
  <2>2. z \in Rule /\ run[z] = "none" /\ z \notin Production
    BY <1>7, <2>1
  <2>3. CASE Run(q, TRUE) /\ failed' = failed
    <3>1. Run(z, TRUE) /\ TRUE \in BOOLEAN
      BY <2>1, <2>3
    <3>2. Fresh(self, V \cup {z})' /\ V \cup {z} \subseteq Finished' /\ Sifted(self, F)'
      BY ONLY <1>2, <1>8, <2>2, <3>1, RunSorted
    <3>3. failed' = F
      BY <1>6, <2>3
    <3> QED BY <2>2, <3>2, <3>3 DEF Fresh, Sifted
  <2>4. CASE Run(q, FALSE) /\ failed' = failed \cup {q}
    <3>1. Run(z, FALSE) /\ FALSE \in BOOLEAN
      BY <2>1, <2>4
    <3>2. Fresh(self, V)' /\ V \subseteq Finished' /\ Sifted(self, F \cup {z})'
      BY ONLY <1>2, <1>8, <2>2, <3>1, RunSorted
    <3>3. failed' = F \cup {z}
      BY <1>6, <2>1, <2>4
    <3> QED BY <3>2, <3>3 DEF Sifted
  <2> QED BY <1>1, <2>3, <2>4
<1>11. \A x \in checks' : run'[x] = "none" /\ Met(x, Made(ToSet(todo)))'
  <2> SUFFICES ASSUME NEW x \in checks, x # q PROVE run'[x] = "none" /\ Met(x, Made(ToSet(todo)))'
    BY <1>1
  <2>1. run'[x] = "none"
    BY <1>4, <1>9, NodeKinds
  <2>2. PICK z : z = x
    OBVIOUS
  <2>3. Met(z, Made(ToSet(todo)))
    BY <1>4, <2>2
  <2>4. Met(z, Made(ToSet(todo)))'
    BY <1>1, <1>9, <2>3, MetAdds
  <2> QED BY <2>1, <2>2, <2>4
<1>12. DueList(todo)'
  BY <1>1 DEF DueList, ToSet, IsInjective
<1>13. Fresh(self, ToSet(worked))' /\ ToSet(worked') \subseteq Finished'
  BY <1>1, <1>5, <1>10 DEF Fresh
<1>14. ListDue'
  BY <1>1, <1>11, <1>12, <1>13 DEF ListDue
<1>15. Sifted(self, IF phase = "suppliers" THEN failed ELSE {})'
  BY <1>1, <1>10 DEF Sifted
<1>16. Delivered'
  BY <1>9 DEF DueInv
<1> QED BY <1>1, <1>2, <1>3, <1>9, <1>14, <1>15, <1>16, KeepsChains

(* Nothing is known of a scheduler that has stopped but what it has done.                *)
LEMMA StoppedDue ==
  ASSUME Delivered', phase' \in {"done", "died"} PROVE DueInv'
  BY DEF DueInv, GatherDue, SelfDue, DraftsDue, ChoiceDue, ListDue, ReplayDue, Gathering, Searching, Working, Choosing

(* The replay starts from an initial chain that has lost the rules R.                    *)
LEMMA ReplayBegins ==
  ASSUME Inv, DueInv, Working, Adds, Delivered', graph' = graph, worked \in Seq(Rule),
         NEW g, StartReplay(g, worked), self'.g = g, Rooted(self'),
         NEW R, g.alive \subseteq self.g.alive \ R, self.g.sched \cap g.alive \subseteq g.sched,
         \A r \in Production \cap self.g.alive : run'[r] = "OK" => r \in self.g.sched \cup ToSet(worked),
         \A r \in Rule \cap self.g.alive : run'[r] \in {"failed", "infeasible"} => r \in R,
         ToSet(worked) \subseteq Finished'
  PROVE  DueInv'
<1>1. phase' = "replay" /\ todo' = Only(worked, Production \cap g.alive)
  BY DEF StartReplay
<1>2. problem \in Problem /\ DOMAIN graph.arc \in ArcsAmong /\ Labels(graph.arc)
  BY DEF Inv, TypeInv, DueInv, SelfDue
<1>3. GatherDue' /\ DraftsDue' /\ ChoiceDue' /\ ListDue'
  BY <1>1 DEF GatherDue, DraftsDue, ChoiceDue, ListDue, Gathering, Searching, Choosing
<1>4. ToSet(todo') = ToSet(worked) \cap (Production \cap g.alive)
  BY <1>1, OnlyExact
<1>5. Fresh(self, ToSet(todo))'
  <2> SUFFICES ASSUME NEW r \in Production \cap g.alive, run'[r] = "OK" PROVE r \in g.sched \cup ToSet(todo')
    BY DEF Fresh, ToSet
  <2>1. r \in self.g.sched \cup ToSet(worked)
    OBVIOUS
  <2> QED BY <1>4, <2>1
<1>6. ReplayDue'
  <2>1. ToSet(todo') \subseteq Finished'
    BY <1>4
  <2> QED BY <1>5, <2>1 DEF ReplayDue, ToSet
<1>7. Rooted(self)'
  BY <1>2, AddsKeeps
<1>8. Sifted(self, {})'
  BY DEF Sifted, Bad
<1>9. (Labels(graph.arc))'
  BY <1>2 DEF Labels, Labelled, Input, Output, Pre, Adds
<1>10. DOMAIN graph'.arc \in ArcsAmong
  BY <1>2
<1>11. SelfDue'
  BY <1>1, <1>7, <1>8, <1>9, <1>10 DEF SelfDue, Sifted
<1> QED BY <1>3, <1>6, <1>11 DEF DueInv

(* All preconditions have been checked.                                                  *)
LEMMA EndOfChecksDue ==
  ASSUME Inv, DueInv, EndOfChecks, ~Lost PROVE DueInv'
<1> DEFINE e == EliminateRules(self.g, failed, Initial)
<1>1. /\ phase = "suppliers" /\ UNCHANGED <<problem, have, run, graph>>
      /\ \/ failed # {} /\ e.ok /\ StartReplay(e.g, worked)
         \/ failed = {} /\ StartReplay(self.g, worked)
  BY DEF EndOfChecks, Lost
<1>2. failed \subseteq Rule /\ failed \cap self.g.sched = {}
  BY <1>1 DEF Inv, StepsInv
<1>3. /\ Basis /\ Searching /\ Working /\ DueList(todo)
      /\ Fresh(self, ToSet(worked)) /\ ToSet(worked) \subseteq Finished /\ worked \in Seq(Rule)
      /\ Sifted(self, failed) /\ Rooted(self) /\ GoodSelf(self)
  BY <1>1, ListNow DEF Working
<1>4. Adds /\ Delivered'
  <2>1. \A r : Output(r)' = Output(r)
    BY <1>1 DEF Output
  <2> QED BY <1>1, <2>1 DEF Adds, DueInv, Delivered
<1>5. /\ \A r \in Production \cap self.g.alive : run'[r] = "OK" => r \in self.g.sched \cup ToSet(worked)
      /\ \A r \in Rule \cap self.g.alive : run'[r] \in {"failed", "infeasible"} => r \in failed
      /\ ToSet(worked) \subseteq Finished'
  BY <1>1, <1>3 DEF Fresh, Sifted, Bad, Finished
<1>6. CASE failed # {} /\ e.ok /\ StartReplay(e.g, worked)
  <2>1. self' = [self EXCEPT !.g = e.g]
    BY <1>6 DEF StartReplay
  <2>2. self'.g = e.g
    BY <1>2, <1>3, <1>6, <2>1, SelfEliminated
  <2>3. Rooted(self') /\ self'.g.alive \subseteq self.g.alive \ failed /\ self.g.sched \cap self'.g.alive \subseteq self'.g.sched
    BY <1>2, <1>3, <1>6, <2>2, RootedShrunk DEF Basis
  <2> HIDE DEF e
  <2>4. PICK g : g = e.g
    OBVIOUS
  <2>5. StartReplay(g, worked) /\ self'.g = g
    BY <1>6, <2>2, <2>4
  <2>6. PICK R : R = failed
    OBVIOUS
  <2> QED BY <1>1, <1>3, <1>4, <1>5, <2>3, <2>5, <2>6, ReplayBegins
<1>7. CASE failed = {} /\ StartReplay(self.g, worked)
  <2>1. self' = [self EXCEPT !.g = self.g]
    BY <1>7 DEF StartReplay
  <2>2. PICK D \in ArcsAmong : self.g \in GraphOver(D)
    BY <1>3, ChainParts DEF GoodSelf
  <2>3. self'.g = self.g
    BY <1>3, <2>1, <2>2, SelfWith DEF GoodSelf
  <2>4. Rooted(self')
    BY <1>3, <2>3 DEF Rooted
  <2>5. PICK g : g = self.g
    OBVIOUS
  <2>6. StartReplay(g, worked) /\ self'.g = g
    BY <1>7, <2>3, <2>5
  <2>7. PICK R : R = failed
    OBVIOUS
  <2>8. g.alive \subseteq self.g.alive \ R /\ self.g.sched \cap g.alive \subseteq g.sched
    BY <1>7, <2>5, <2>7
  <2> QED BY <1>1, <1>3, <1>4, <1>5, <2>4, <2>6, <2>7, <2>8, ReplayBegins
<1> QED BY <1>1, <1>6, <1>7

(* A rule of the chain is executed.                                                      *)
LEMMA ExecuteDue ==
  ASSUME Inv, DueInv, Execute PROVE DueInv'
<1> DEFINE r == Head(todo)
           e == EliminateRules(self.g, {r}, Initial)
<1>1. /\ phase = "execute" /\ todo # <<>> /\ UNCHANGED <<problem, graph, top>>
      /\ \/ /\ Run(r, TRUE) /\ worked' = Append(worked, r) /\ todo' = Tail(todo)
            /\ UNCHANGED <<phase, self, heap>>
         \/ /\ Run(r, FALSE)
            /\ \/ e.ok /\ StartReplay(e.g, worked)
               \/ phase' = "done"
  BY DEF Execute, GiveUp, Answer
<1>2. todo \in Seq(Rule) /\ ToSet(todo) \cap self.g.sched = {}
  BY <1>1 DEF Inv, StepsInv
<1> HIDE DEF r
<1>3. /\ Basis /\ Searching /\ Working /\ ~Choosing /\ run \in [Rule -> Results] /\ DueList(todo)
      /\ Fresh(self, ToSet(worked)) /\ ToSet(worked) \subseteq Finished /\ worked \in Seq(Rule)
      /\ Sifted(self, {}) /\ Rooted(self) /\ GoodSelf(self)
      /\ r \in Rule /\ r \in ToSet(todo) /\ run[r] = "none"
  BY <1>1, ListNow DEF r, Working
<1>4. PICK V : V = ToSet(worked)
  OBVIOUS
<1>5. PICK z : z = r
  OBVIOUS
<1>6. z \in Rule /\ run[z] = "none"
  BY <1>3, <1>5
<1>7. CASE Run(r, TRUE) /\ worked' = Append(worked, r) /\ todo' = Tail(todo) /\ UNCHANGED <<phase, self, heap>>
  <2>1. Adds /\ (Delivered => Delivered')
    BY <1>1, <1>3, <1>7, RunAdds
  <2>2. Fresh(self, V \cup {z})' /\ V \cup {z} \subseteq Finished' /\ Sifted(self, {})'
    <3>1. Run(z, TRUE) /\ TRUE \in BOOLEAN /\ Fresh(self, V) /\ V \subseteq Finished /\ self' = self
      BY <1>3, <1>4, <1>5, <1>7
    <3> QED BY ONLY <1>3, <1>6, <3>1, RunSorted
  <2>3. ToSet(worked') = V \cup {z}
    BY <1>3, <1>4, <1>5, <1>7, ListSets
  <2>4. /\ DueList(todo)'
        /\ \A x \in Rule \cup {Final} : Met(x, Made(ToSet(todo))) => Met(x, Made(ToSet(todo)))'
    BY <1>1, <1>2, <1>3, <1>7, DueTail DEF r
  <2>5. Fresh(self, ToSet(worked))' /\ ToSet(worked') \subseteq Finished'
    BY <2>2, <2>3 DEF Fresh
  <2>6. Plain(Final)' => Met(Final, Made(ToSet(todo)))'
    <3>1. Plain(Final)' => Plain(Final)
      BY <1>1 DEF Plain, Input
    <3>2. Plain(Final) => Met(Final, Made(ToSet(todo)))
      BY <1>1 DEF DueInv, ListDue
    <3> QED BY <2>4, <3>1, <3>2
  <2>7. phase' = "execute" /\ Searching' /\ ~Choosing'
    BY <1>1, <1>7 DEF Searching, Choosing
  <2>8. ListDue'
    BY <2>4, <2>5, <2>6, <2>7 DEF ListDue
  <2>9. Sifted(self, IF phase = "suppliers" THEN failed ELSE {})'
    BY <2>2, <2>7 DEF Sifted
  <2>10. Delivered'
    BY <2>1 DEF DueInv
  <2> QED BY <1>1, <1>3, <1>7, <2>1, <2>7, <2>8, <2>9, <2>10, KeepsChains
<1>8. ASSUME Run(r, FALSE)
      PROVE  /\ Adds /\ Delivered'
             /\ Fresh(self, ToSet(worked)) /\ \A x \in Rule : x # r => run'[x] = run[x]
             /\ run' = [run EXCEPT ![r] = "failed"]
  <2>1. Adds /\ (Delivered => Delivered') /\ run' = [run EXCEPT ![r] = "failed"]
    BY <1>1, <1>3, <1>8, RunAdds
  <2> QED BY <1>3, <2>1 DEF DueInv
<1>9. CASE Run(r, FALSE) /\ e.ok /\ StartReplay(e.g, worked)
  <2> DEFINE R == {r}
  <2>1. R \in SUBSET Rule /\ R \cap self.g.sched = {}
    BY <1>2, <1>3
  <2>2. self' = [self EXCEPT !.g = e.g] /\ e = EliminateRules(self.g, R, Initial)
    BY <1>9 DEF StartReplay
  <2> HIDE DEF R, e
  <2>3. self'.g = e.g
    BY <1>3, <1>9, <2>1, <2>2, SelfEliminated
  <2>4. Rooted(self') /\ self'.g.alive \subseteq self.g.alive \ R /\ self.g.sched \cap self'.g.alive \subseteq self'.g.sched
    <3>1. EliminateRules(self.g, R, Initial).ok /\ self'.g = EliminateRules(self.g, R, Initial).g
      BY <1>9, <2>2, <2>3
    <3> QED BY ONLY <1>3, <2>1, <3>1, RootedShrunk DEF Basis
  <2>5. run'[r] = "failed"
    BY <1>3, <1>8, <1>9
  <2>6. \A x \in Production \cap self.g.alive : run'[x] = "OK" => x \in self.g.sched \cup ToSet(worked)
    <3>1. \A x \in Production : x \in Rule
      BY NodeKinds
    <3> QED BY <1>3, <1>8, <1>9, <2>5, <3>1 DEF Fresh
  <2>7. \A x \in Rule \cap self.g.alive : run'[x] \in {"failed", "infeasible"} => x \in R
    BY <1>3, <1>8, <1>9 DEF R, Sifted, Bad
  <2>8. ToSet(worked) \subseteq Finished'
    BY <1>3, <1>8, <1>9 DEF Finished
  <2>9. PICK g : g = e.g
    OBVIOUS
  <2>10. PICK Q : Q = R
    OBVIOUS
  <2> QED BY <1>1, <1>3, <1>8, <1>9, <2>3, <2>4, <2>6, <2>7, <2>8, <2>9, <2>10, ReplayBegins
<1>10. CASE Run(r, FALSE) /\ phase' = "done"
  BY <1>8, <1>10, StoppedDue
<1> QED BY <1>1, <1>7, <1>9, <1>10

(* The chain has been executed.                                                          *)
LEMMA SucceedDue ==
  ASSUME Inv, DueInv, Succeed PROVE DueInv'
<1>1. phase' = "done" /\ UNCHANGED <<problem, have, run>>
  BY DEF Succeed, Answer
<1>2. \A r : Output(r)' = Output(r)
  BY <1>1 DEF Output
<1> QED BY <1>1, <1>2, StoppedDue DEF DueInv, Delivered

(* A list is its head and its tail.                                                      *)
LEMMA ListSplit ==
  ASSUME NEW S, NEW list \in Seq(S), list # <<>>
  PROVE  ToSet(list) \subseteq ToSet(Tail(list)) \cup {Head(list)} /\ Head(list) \in ToSet(list)
                                                                   /\ ToSet(Tail(list)) \subseteq ToSet(list)
<1> DEFINE T == Tail(list)
<1>1. DOMAIN T = 1..Len(T) /\ DOMAIN list = 1..Len(list) /\ Len(list) = Len(T) + 1 /\ Len(T) \in Nat /\ Head(list) = list[1]
  OBVIOUS
<1>2. \A i \in DOMAIN T : T[i] = list[i + 1] /\ i + 1 \in DOMAIN list
  OBVIOUS
<1> HIDE DEF T
<1>3. ASSUME NEW j \in DOMAIN list, list[j] # Head(list) PROVE list[j] \in ToSet(T)
  <2>1. j - 1 \in DOMAIN T
    BY <1>1, <1>3
  <2>2. (j - 1) + 1 = j
    BY <1>1
  <2>3. T[j - 1] = list[j]
    BY <1>2, <2>1, <2>2
  <2> QED BY <2>1, <2>3 DEF ToSet
<1>4. 1 \in DOMAIN list
  BY <1>1
<1> QED BY <1>1, <1>2, <1>3, <1>4 DEF ToSet, T

(* A ready rule is added to a graph in which all rules are kept.                          *)
LEMMA ReplayAdds ==
  ASSUME NEW D \in ArcsAmong, NEW g \in GraphOver(D), Exact(g), Kept(g), NEW code, Grounded(code, {}, g),
         NEW r \in Production, r \in g.ready
  PROVE  LET w == AddScheduledRule([g EXCEPT !.ready = @ \ {r}], r, 1)
         IN  /\ w.ok /\ w.g \in GraphOver(D) /\ w.g.alive \subseteq g.alive
             /\ (g.sched \cup {r}) \cap w.g.alive \subseteq w.g.sched /\ w.g.sched \cap Rule \subseteq g.sched \cup {r}
             /\ Grounded(code, {}, w.g)
<1> DEFINE h == [g EXCEPT !.ready = @ \ {r}]
<1>1. /\ h \in GraphOver(D) /\ Exact(h) /\ Kept(h) /\ h.alive = g.alive /\ h.flagged = g.flagged
      /\ h.sched = g.sched /\ h.ready = g.ready \ {r} /\ h.arc = g.arc
  <2> DEFINE X == {r}
             k == [g EXCEPT !.ready = @ \ X]
  <2> HIDE DEF X
  <2>1. /\ k \in GraphOver(D) /\ Exact(k) /\ Kept(k) /\ k.alive = g.alive /\ k.flagged = g.flagged
        /\ k.sched = g.sched /\ k.ready = g.ready \ X /\ k.arc = g.arc
    BY ReadyTaken
  <2>2. k = h
    BY DEF X
  <2> HIDE DEF k
  <2> QED BY <2>1, <2>2 DEF X
<1> DEFINE w == AddScheduledRule(h, r, 1)
<1>2. r \in g.flagged /\ r \notin g.sched /\ r \in Rule
  BY NodeKinds DEF Exact, Flags, Work
<1> HIDE DEF h
<1>3. w \in WorkOver(D) /\ w.ok /\ Added(h, r, w.g)
  <2>1. 1 \in {0, 1} /\ TRUE \in BOOLEAN /\ r \notin h.ready /\ r \notin h.sched /\ r \in h.flagged
    BY <1>1, <1>2
  <2> QED BY <1>1, <1>2, <2>1, AddScheduledRuleSound
<1> HIDE DEF w
<1>4. Grounded(code, {}, h)
  <2>1. {} \subseteq h.sched /\ h.sched \subseteq g.sched
    BY <1>1
  <2> QED BY <1>1, <2>1, GroundedSame
<1>5. Grounded(code, {} \cup ({r} \cap h.alive), w.g)
  BY <1>3, <1>4 DEF Added
<1>6. Grounded(code, {}, w.g)
  BY <1>5, GroundedSome
<1>7. w.g \in GraphOver(D)
  BY <1>3 DEF WorkOver
<1> QED BY <1>1, <1>3, <1>6, <1>7 DEF Added, w, h

(* One turn of replay_rules.                                                             *)
LEMMA ReplayRuleDue ==
  ASSUME Inv, DueInv, ReplayRule PROVE DueInv'
<1> DEFINE satisfied == {q \in self.g.ready \cap Precondition : run[q] = "OK"}
           pre == ScheduleAll(self.g, satisfied)
           r == Head(todo)
           w == AddScheduledRule([pre.g EXCEPT !.ready = @ \ {r}], r, 1)
           one == [self EXCEPT !.g = pre.g]
           two == [self EXCEPT !.g = w.g, !.rules = IF w.ok THEN Append(@, r) ELSE @]
<1>1. /\ phase = "replay" /\ todo # <<>> /\ UNCHANGED <<problem, have, run, graph>>
      /\ phase' \in {"replay", "died"}
      /\ \/ /\ phase' = "replay" => pre.ok /\ r \notin pre.g.alive
            /\ self' = one /\ todo' = Tail(todo)
         \/ /\ r \in pre.g.ready /\ self' = two
            /\ todo' = Tail(todo) \/ (todo' = <<>> /\ ~(w.ok /\ w.g.ready # {}))
  BY DEF ReplayRule, ScheduleAll
<1>2. Working /\ problem \in Problem /\ GoodSelf(self) /\ todo \in Seq(Production)
  BY <1>1, ChainsNow DEF Working, Inv, StepsInv
<1>3. /\ DOMAIN graph.arc \in ArcsAmong /\ Labels(graph.arc) /\ Rooted(self) /\ Sifted(self, {})
      /\ ToSet(todo) \subseteq Finished /\ Fresh(self, ToSet(todo))
  BY <1>1, <1>2 DEF DueInv, SelfDue, ReplayDue, Sifted
<1>4. r \in Production /\ r \in ToSet(todo) /\ ToSet(todo) \subseteq ToSet(Tail(todo)) \cup {r} /\ ToSet(Tail(todo)) \subseteq ToSet(todo)
  <2>1. ToSet(todo) \subseteq Production
    BY <1>2, ListFolded
  <2>2. todo # <<>> /\ todo \in Seq(Production)
    BY <1>1, <1>2
  <2> QED BY ONLY <2>1, <2>2, ListSplit
<1> HIDE DEF r
<1>5. satisfied \in SUBSET (self.g.ready \cap Precondition)
  OBVIOUS
<1>6. self.g \in GraphOver(DOMAIN graph.arc) /\ Exact(self.g) /\ Kept(self.g) /\ Grounded(graph.arc, {}, self.g)
  BY <1>2, <1>3 DEF Rooted, GoodSelf
<1> HIDE DEF satisfied
<1>7. pre \in WorkOver(DOMAIN graph.arc) /\ pre.ok /\ Prepared(self.g, pre.g, satisfied, {})
  BY <1>3, <1>5, <1>6, ScheduleAllPrepares
<1> HIDE DEF pre
<1>8. /\ pre.g \in GraphOver(DOMAIN graph.arc) /\ Exact(pre.g) /\ Kept(pre.g) /\ Grounded(graph.arc, {}, pre.g)
      /\ pre.g.alive \subseteq self.g.alive /\ self.g.sched \cap pre.g.alive \subseteq pre.g.sched
      /\ pre.g.sched \cap Production \subseteq self.g.sched
  <2>1. pre.g.sched \cap Rule \subseteq self.g.sched \cup satisfied
    BY <1>7 DEF Prepared
  <2>2. pre.g.sched \cap Production \subseteq self.g.sched
    BY <1>5, <2>1, NodeKinds, NodesDisjoint
  <2> QED BY <1>6, <1>7, <2>2 DEF WorkOver, Prepared, Continues
<1>9. one.g = pre.g
  BY <1>2, <1>3, <1>8, SelfWith
<1>14. PICK D \in ArcsAmong : pre.g \in GraphOver(D)
  BY <1>3, <1>8
<1>15. GoodSelf(self) /\ Exact(pre.g) /\ Kept(pre.g) /\ r \in Production
  BY <1>2, <1>4, <1>8
<1>16. r \in pre.g.ready => GoodSelf(two) /\ two.g = w.g /\ w.g.sched \cap Rule \subseteq pre.g.sched \cup {r}
  BY <1>14, <1>15, SelfExtended
<1>10. ASSUME r \in pre.g.ready
       PROVE  /\ w.ok /\ w.g \in GraphOver(DOMAIN graph.arc) /\ w.g.alive \subseteq pre.g.alive
              /\ (pre.g.sched \cup {r}) \cap w.g.alive \subseteq w.g.sched /\ w.g.sched \cap Rule \subseteq pre.g.sched \cup {r}
              /\ Grounded(graph.arc, {}, w.g) /\ two.g = w.g
  <2>1. /\ w.ok /\ w.g \in GraphOver(DOMAIN graph.arc) /\ w.g.alive \subseteq pre.g.alive
        /\ (pre.g.sched \cup {r}) \cap w.g.alive \subseteq w.g.sched /\ w.g.sched \cap Rule \subseteq pre.g.sched \cup {r}
        /\ Grounded(graph.arc, {}, w.g)
    BY <1>3, <1>4, <1>8, <1>10, ReplayAdds
  <2>2. two.g = w.g
    BY <1>10, <1>16
  <2> HIDE DEF w, two
  <2> QED BY <2>1, <2>2
<1> HIDE DEF one, two, w
<1>11. Adds /\ Delivered'
  <2>1. \A x : Output(x)' = Output(x)
    BY <1>1 DEF Output
  <2> QED BY <1>1, <2>1 DEF Adds, DueInv, Delivered
<1>12. CASE phase' = "died"
  BY <1>11, <1>12, StoppedDue
<1>13. CASE phase' = "replay"
  <2>1. /\ self'.g \in GraphOver(DOMAIN graph.arc) /\ Grounded(graph.arc, {}, self'.g) /\ self'.g.alive \subseteq self.g.alive
        /\ self'.g.sched \cap Production \subseteq self.g.sched \cup Finished
        /\ (self'.g.ready = {} /\ todo' = <<>>)
             \/ \A x \in Production \cap self'.g.alive : run[x] = "OK" => x \in self'.g.sched \cup ToSet(Tail(todo))
        /\ todo' = <<>> \/ todo' = Tail(todo)
        /\ todo' = Tail(todo) \/ self'.g.ready = {}
    <3>1. CASE pre.ok /\ r \notin pre.g.alive /\ self' = one /\ todo' = Tail(todo)
      <4>1. \A x \in Production \cap pre.g.alive : run[x] = "OK" => x \in pre.g.sched \cup ToSet(Tail(todo))
        BY <1>3, <1>4, <1>8, <3>1 DEF Fresh
      <4> QED BY <1>8, <1>9, <3>1, <4>1
    <3>2. CASE r \in pre.g.ready /\ self' = two /\ (todo' = Tail(todo) \/ (todo' = <<>> /\ ~(w.ok /\ w.g.ready # {})))
      <4>1. /\ w.ok /\ w.g \in GraphOver(DOMAIN graph.arc) /\ w.g.alive \subseteq pre.g.alive
            /\ (pre.g.sched \cup {r}) \cap w.g.alive \subseteq w.g.sched /\ w.g.sched \cap Rule \subseteq pre.g.sched \cup {r}
            /\ Grounded(graph.arc, {}, w.g) /\ two.g = w.g
        BY <1>10, <3>2
      <4>2. \A x \in Production \cap w.g.alive : run[x] = "OK" => x \in w.g.sched \cup ToSet(Tail(todo))
        BY <1>3, <1>4, <1>8, <4>1 DEF Fresh
      <4>3. w.g.sched \cap Production \subseteq self.g.sched \cup Finished
        BY <1>3, <1>4, <1>8, <4>1, NodeKinds
      <4>4. w.g.alive \subseteq self.g.alive
        BY <1>8, <4>1
      <4> QED BY <3>2, <4>1, <4>2, <4>3, <4>4
    <3> QED BY <1>1, <1>13, <3>1, <3>2
  <2>2. Rooted(self')
    BY <1>3, <2>1, RootedGraph
  <2>3. Rooted(self)'
    BY <1>1, <1>2, <1>11, <2>2, AddsKeeps
  <2>4. Sifted(self, {})'
    BY <1>1, <1>3, <2>1 DEF Sifted, Bad
  <2>5. (Labels(graph.arc))' /\ DOMAIN graph'.arc \in ArcsAmong
    BY <1>1, <1>3 DEF Labels, Labelled, Input, Output, Pre
  <2>6. SelfDue'
    BY <1>13, <2>3, <2>4, <2>5 DEF SelfDue, Sifted
  <2>7. ToSet(<<>>) = {}
    BY DEF ToSet
  <2>8. ToSet(todo') \subseteq Finished'
    BY <1>1, <1>3, <1>4, <2>1, <2>7 DEF Finished
  <2>9. (self'.g.ready = {} /\ todo' = <<>>) \/ Fresh(self, ToSet(todo))'
    BY <1>1, <2>1 DEF Fresh, ToSet
  <2>10. ReplayDue'
    BY <2>8, <2>9 DEF ReplayDue, ToSet
  <2>11. GatherDue' /\ DraftsDue' /\ ChoiceDue' /\ ListDue'
    BY <1>13 DEF GatherDue, DraftsDue, ChoiceDue, ListDue, Gathering, Searching, Choosing
  <2> QED BY <1>11, <2>6, <2>10, <2>11 DEF DueInv
<1> QED BY <1>1, <1>12, <1>13

(* The search goes on from the initial chain.                                            *)
LEMMA EndOfReplayDue ==
  ASSUME Inv, DueInv, EndOfReplay PROVE DueInv'
<1> DEFINE c == [self EXCEPT !.rules = <<>>]
<1>1. /\ phase = "replay" /\ todo = <<>> /\ UNCHANGED <<problem, have, run, graph, heap>> /\ self' = c /\ top' = c
      /\ phase' \in {"build", "died"}
  BY DEF EndOfReplay
<1>2. Working /\ problem \in Problem /\ GoodSelf(self) /\ heap = {}
  BY <1>1, ChainsNow DEF Working, Inv, HeapInv
<1>3. /\ DOMAIN graph.arc \in ArcsAmong /\ Labels(graph.arc) /\ Rooted(self) /\ Sifted(self, {})
      /\ self.g.ready = {} \/ Fresh(self, {})
  BY <1>1, <1>2 DEF DueInv, SelfDue, ReplayDue, Sifted, ToSet, Fresh
<1>4. c = [g |-> self.g, rules |-> <<>>, weight |-> self.weight, verts |-> self.verts]
  BY <1>2, ChainParts DEF GoodSelf
<1> HIDE DEF c
<1>5. c.g = self.g /\ c.rules = <<>>
  BY <1>4
<1>6. Rooted(c)
  BY <1>3, <1>5 DEF Rooted
<1>7. Backed(c, c)
  BY <1>5, <1>6, BackedSelf
<1>8. Adds /\ Delivered'
  <2>1. \A x : Output(x)' = Output(x)
    BY <1>1 DEF Output
  <2> QED BY <1>1, <2>1 DEF Adds, DueInv, Delivered
<1>9. CASE phase' = "died"
  BY <1>8, <1>9, StoppedDue
<1>10. CASE phase' = "build"
  <2>1. Rooted(self)' /\ Backed(top, self)'
    <3>1. Rooted(self') /\ Backed(top', self')
      BY <1>1, <1>6, <1>7
    <3> QED BY <1>1, <1>2, <1>8, <3>1, AddsKeeps
  <2>2. Sifted(self, {})'
    BY <1>1, <1>3, <1>5 DEF Sifted, Bad
  <2>3. (Labels(graph.arc))' /\ DOMAIN graph'.arc \in ArcsAmong
    BY <1>1, <1>3 DEF Labels, Labelled, Input, Output, Pre
  <2>4. SelfDue'
    BY <1>10, <2>1, <2>2, <2>3 DEF SelfDue, Sifted
  <2>5. BackedHeap(heap, self)'
    BY <1>1, <1>2 DEF BackedHeap
  <2>6. Spent' \/ Fresh(self, {})'
    BY <1>1, <1>2, <1>3, <1>5 DEF Spent, Fresh
  <2>7. DraftsDue' /\ ChoiceDue'
    BY <2>1, <2>5, <2>6 DEF DraftsDue, ChoiceDue
  <2>8. GatherDue' /\ ListDue' /\ ReplayDue'
    BY <1>10 DEF GatherDue, ListDue, ReplayDue, Gathering
  <2> QED BY <1>8, <2>4, <2>7, <2>8 DEF DueInv
<1> QED BY <1>1, <1>9, <1>10

(***************************************************************************)
(* Gathering: every rule found is looked at.                               *)
(***************************************************************************)

(* The elements of a finite set as a list: all of them.                                  *)
LEMMA AllOfSet ==
  ASSUME NEW S, IsFiniteSet(S)
  PROVE  SetToSeq(S) \in Seq(S) /\ ToSet(SetToSeq(S)) = S
<1> DEFINE n == Cardinality(S)
           f == SetToSeq(S)
<1>1. n \in Nat /\ ExistsBijection(1..n, S)
  BY FS_CardinalityType
<1>2. \E g \in [1..n -> S] : IsInjective(g)
  BY <1>1 DEF ExistsBijection, Bijection, Injection
<1>3. f \in [1..n -> S] /\ IsInjective(f)
  BY <1>2 DEF SetToSeq
<1> HIDE DEF f
<1>4. f \in Injection(1..n, S)
  BY <1>3 DEF Injection, IsInjective
<1>5. IsFiniteSet(1..n) /\ Cardinality(1..n) = n
  BY <1>1, FS_Interval
<1>6. f \in Surjection(1..n, S)
  BY <1>4, <1>5, FS_Injection
<1>7. ToSet(f) = S
  BY <1>3, <1>6 DEF ToSet, Surjection
<1> QED BY <1>1, <1>3, <1>7 DEF f

(* The rules of a new graph are all put on the list.                                     *)
LEMMA ConsideredAll ==
  ASSUME NEW g, g.nodes \subseteq Node, NEW N, graph.nodes \subseteq N, NEW list \in Seq(N)
  PROVE  /\ ToSet(list \o Considered(g)) = ToSet(list) \cup ((g.nodes \cap Production) \ graph.nodes)
<1> DEFINE S == (g.nodes \cap Production) \ graph.nodes
<1>1. IsFiniteSet(S)
  BY NodeFinite, FS_Subset
<1>2. Considered(g) = SetToSeq(S)
  BY DEF Considered
<1> HIDE DEF S
<1>3. Considered(g) \in Seq(S) /\ ToSet(Considered(g)) = S
  BY <1>1, <1>2, AllOfSet
<1> DEFINE B == N \cup S
<1>4. list \in Seq(B) /\ Considered(g) \in Seq(B)
  BY <1>3
<1> HIDE DEF B
<1>5. PICK c : c = Considered(g)
  OBVIOUS
<1>6. ToSet(list \o c) = ToSet(list) \cup ToSet(c)
  <2>1. /\ DOMAIN list = 1..Len(list) /\ DOMAIN c = 1..Len(c) /\ Len(list) \in Nat /\ Len(c) \in Nat
        /\ list \in Seq(B) /\ c \in Seq(B)
    BY <1>4, <1>5
  <2>2. DOMAIN (list \o c) = 1..(Len(list) + Len(c))
    BY <2>1
  <2>3. \A i \in 1..(Len(list) + Len(c)) : (list \o c)[i] = IF i <= Len(list) THEN list[i] ELSE c[i - Len(list)]
    BY <2>1
  <2> DEFINE l == list \o c
  <2>4. \A i \in DOMAIN l : l[i] \in ToSet(list) \cup ToSet(c)
    <3> SUFFICES ASSUME NEW i \in DOMAIN l PROVE l[i] \in ToSet(list) \cup ToSet(c)
      OBVIOUS
    <3>1. CASE i <= Len(list)
      BY <2>1, <2>2, <2>3, <3>1 DEF ToSet
    <3>2. CASE ~(i <= Len(list))
      <4>1. i - Len(list) \in DOMAIN c /\ l[i] = c[i - Len(list)]
        BY <2>1, <2>2, <2>3, <3>2
      <4> QED BY <4>1 DEF ToSet
    <3> QED BY <3>1, <3>2
  <2>5. \A i \in DOMAIN list : list[i] \in ToSet(l)
    BY <2>1, <2>2, <2>3 DEF ToSet
  <2>6. ASSUME NEW j \in DOMAIN c PROVE c[j] \in ToSet(l)
    <3>1. j + Len(list) \in DOMAIN l /\ ~(j + Len(list) <= Len(list)) /\ (j + Len(list)) - Len(list) = j
      BY <2>1, <2>2
    <3>2. l[j + Len(list)] = c[j]
      BY <2>2, <2>3, <3>1
    <3> QED BY <3>1, <3>2 DEF ToSet
  <2> QED BY <2>4, <2>5, <2>6 DEF ToSet
<1> QED BY <1>3, <1>5, <1>6 DEF S

(* The missing inputs of a rule: the new arcs are labelled, and unless an input cannot be
   supplied each of them has got one.                                                    *)
LEMMA WithInputsLabels ==
  ASSUME problem \in Problem, Labels(graph.arc), NEW r \in Rule \cup {Final}, NEW nodes \in SUBSET Node
  PROVE  LET h == WithInputs(r, nodes)
         IN  /\ Labels(h.arc) /\ DOMAIN graph.arc \subseteq DOMAIN h.arc
             /\ Unsuppliable(r) = {} => \A k \in Missing(r) : \E p \in Input(r)[k] : <<p, r>> \in DOMAIN h.arc
             /\ h.nodes \cap (Rule \cup {Final}) \subseteq graph.nodes \cup nodes \cup Production
<1> DEFINE examined == {k \in Missing(r) : \A j \in Unsuppliable(r) : k <= j}
           wanted == {p \in UNION {Input(r)[k] : k \in examined} : Producers(p) # {}}
           last(p) == Max({k \in examined : p \in Input(r)[k]})
           made == UNION {Producers(p) : p \in wanted}
           all == graph.nodes \cup nodes \cup wanted \cup made
           A == {<<p, r>> : p \in wanted}
           B == UNION {{<<s, p>> : s \in Producers(p)} : p \in wanted}
           f == [a \in A |-> Source + last(a[1]) - 1]
           g == [a \in B |-> Source]
           h == WithInputs(r, nodes)
<1>1. h.nodes = all /\ h.arc = Joined(f, Joined(g, graph.arc))
  BY DEF WithInputs
<1>2. examined \subseteq DOMAIN Input(r) /\ (Unsuppliable(r) = {} => examined = Missing(r))
  BY DEF Missing
<1>3. \A k \in DOMAIN Input(r) : k \in Nat \ {0} /\ Input(r)[k] \subseteq Property
  BY RuleFacts
<1>4. wanted \subseteq Property /\ \A p \in wanted : \E k \in examined : p \in Input(r)[k]
  BY <1>2, <1>3
<1>5. \A p \in wanted : last(p) \in DOMAIN Input(r) /\ p \in Input(r)[last(p)]
  <2> SUFFICES ASSUME NEW p \in wanted PROVE last(p) \in DOMAIN Input(r) /\ p \in Input(r)[last(p)]
    OBVIOUS
  <2> DEFINE K == {k \in examined : p \in Input(r)[k]}
  <2>0. DOMAIN Input(r) = 1..Len(Input(r)) /\ Len(Input(r)) \in Nat
    BY ProblemFacts
  <2>1. K \in SUBSET (1..Len(Input(r))) /\ K # {}
    BY <1>2, <1>4, <2>0
  <2>2. Max(K) \in K
    <3> HIDE DEF K
    <3> QED BY <2>0, <2>1, MaxIn
  <2> QED BY <1>2, <2>2
<1>6. \A p \in wanted : Producers(p) # {} /\ \A s \in Producers(p) : s \in Production /\ p \in Output(s)
  <2> SUFFICES ASSUME NEW p \in wanted, NEW s \in Producers(p) PROVE s \in Production /\ p \in Output(s)
    OBVIOUS
  <2>1. s \in Production
    BY DEF Producers
  <2>2. CASE p \in graph.nodes
    <3> DEFINE a == <<s, p>>
    <3>1. a \in DOMAIN graph.arc /\ a[1] = s /\ a[2] = p
      BY <2>2 DEF Producers
    <3> HIDE DEF a
    <3>2. Labelled(graph.arc, a)
      BY <3>1 DEF Labels
    <3>3. s \notin Property /\ s \notin Precondition
      BY <2>1, NodesDisjoint, NodeKinds
    <3> QED BY <2>1, <3>1, <3>2, <3>3 DEF Labelled
  <2>3. CASE p \notin graph.nodes
    BY <2>3 DEF Producers
  <2> QED BY <2>1, <2>2, <2>3
<1>7. Unsuppliable(r) = {} => \A k \in Missing(r) : \E p \in Input(r)[k] : p \in wanted
  <2> SUFFICES ASSUME Unsuppliable(r) = {}, NEW k \in Missing(r) PROVE \E p \in Input(r)[k] : p \in wanted
    OBVIOUS
  <2>1. \E p \in Input(r)[k] : Producers(p) # {}
    BY DEF Unsuppliable
  <2> QED BY <1>2, <2>1
<1>8. made \subseteq Production
  BY <1>6
<1> HIDE DEF examined, last
<1>9. \A a \in A : /\ a[1] \in wanted /\ a[2] = r
                   /\ \E k \in DOMAIN Input(a[2]) : a[1] \in Input(a[2])[k] /\ f[a] = (Source + k) - 1
                   /\ \E s \in Production : <<s, a[1]>> \in B
  <2> SUFFICES ASSUME NEW a \in A
               PROVE /\ a[1] \in wanted /\ a[2] = r
                     /\ \E k \in DOMAIN Input(r) : a[1] \in Input(r)[k] /\ f[a] = (Source + k) - 1
                     /\ \E s \in Production : <<s, a[1]>> \in B
    OBVIOUS
  <2>1. a[1] \in wanted /\ a[2] = r
    OBVIOUS
  <2>2. f[a] = Source + (last(a[1]) - 1)
    OBVIOUS
  <2>3. PICK p \in wanted : p = a[1]
    BY <2>1
  <2>4. PICK s \in Producers(p) : TRUE
    BY <1>6
  <2>5. s \in Production /\ <<s, p>> \in B
    BY <1>6, <2>4
  <2>6. last(p) \in DOMAIN Input(r) /\ p \in Input(r)[last(p)] /\ f[a] = Source + (last(p) - 1)
    BY <1>5, <2>2, <2>3
  <2>7. last(p) \in Nat
    BY <1>3, <2>6
  <2> DEFINE l == last(p)
  <2>8. f[a] = (Source + l) - 1 /\ l \in DOMAIN Input(r) /\ p \in Input(r)[l]
    <3>1. f[a] = Source + (l - 1) /\ l \in Nat /\ l \in DOMAIN Input(r) /\ p \in Input(r)[l]
      BY <2>6, <2>7
    <3> HIDE DEF l, f, A
    <3> QED BY ONLY <3>1 DEF Source
  <2> QED BY <2>1, <2>3, <2>5, <2>8
<1>10. \A b \in B : b[1] \in Production /\ b[2] \in wanted /\ b[2] \in Output(b[1]) /\ g[b] = Source
  BY <1>6
<1>11. DOMAIN f = A /\ DOMAIN g = B
  OBVIOUS
<1>12. \A p \in wanted : <<p, r>> \in A
  OBVIOUS
<1> HIDE DEF A, B, f, g
<1> DEFINE arc == Joined(f, Joined(g, graph.arc))
<1>13. /\ DOMAIN arc = A \cup B \cup DOMAIN graph.arc
       /\ \A a \in DOMAIN arc : arc[a] = IF a \in A THEN f[a] ELSE IF a \in B THEN g[a] ELSE graph.arc[a]
  <2>1. /\ DOMAIN Joined(g, graph.arc) = B \cup DOMAIN graph.arc
        /\ \A a \in B \cup DOMAIN graph.arc : Joined(g, graph.arc)[a] = IF a \in B THEN g[a] ELSE graph.arc[a]
    BY <1>11 DEF Joined
  <2> QED BY <1>11, <2>1 DEF Joined
<1> HIDE DEF arc
<1>14. \A a \in DOMAIN arc : Labelled(arc, a)
  <2> SUFFICES ASSUME NEW a \in DOMAIN arc PROVE Labelled(arc, a)
    OBVIOUS
  <2>1. CASE a \in A
    <3>1. a[1] \in Property /\ a[2] \in Rule \cup {Final}
      BY <1>4, <1>9, <2>1
    <3>2. arc[a] = f[a]
      BY <1>13, <2>1
    <3>3. \E s \in Production : <<s, a[1]>> \in DOMAIN arc
      BY <1>9, <1>13, <2>1
    <3>4. \E k \in DOMAIN Input(a[2]) : a[1] \in Input(a[2])[k] /\ arc[a] = (Source + k) - 1
      BY <1>9, <2>1, <3>2
    <3> QED BY <3>1, <3>3, <3>4 DEF Labelled
  <2>2. CASE a \notin A /\ a \in B
    <3>1. arc[a] = g[a]
      BY <1>13, <2>2
    <3> QED BY <1>4, <1>10, <2>2, <3>1 DEF Labelled
  <2>3. CASE a \notin A /\ a \notin B
    <3>1. a \in DOMAIN graph.arc /\ arc[a] = graph.arc[a]
      BY <1>13, <2>3
    <3>2. Labelled(graph.arc, a)
      BY <3>1 DEF Labels
    <3>3. DOMAIN graph.arc \subseteq DOMAIN arc
      BY <1>13
    <3> QED BY ONLY <3>1, <3>2, <3>3 DEF Labelled
  <2> QED BY <2>1, <2>2, <2>3
<1>15. Labels(arc) /\ DOMAIN graph.arc \subseteq DOMAIN arc
  BY <1>13, <1>14 DEF Labels
<1>16. Unsuppliable(r) = {} => \A k \in Missing(r) : \E p \in Input(r)[k] : <<p, r>> \in DOMAIN arc
  BY <1>7, <1>12, <1>13
<1>17. all \cap (Rule \cup {Final}) \subseteq graph.nodes \cup nodes \cup Production
  <2>1. wanted \cap (Rule \cup {Final}) = {}
    BY <1>4, NodesDisjoint, NodeKinds
  <2> QED BY <1>8, <2>1
<1> HIDE DEF all, wanted
<1>18. h.arc = arc
  BY <1>1 DEF arc
<1> HIDE DEF h
<1> QED BY <1>1, <1>15, <1>16, <1>17, <1>18 DEF h

(* What is known while rules are gathered.                                               *)
LEMMA GatherNow ==
  ASSUME Inv, DueInv, Gathering
  PROVE  /\ problem \in Problem /\ run \in [Rule -> Results] /\ graph.nodes \subseteq Node
         /\ Sketched(graph.nodes, graph.arc) /\ DOMAIN graph = {"nodes", "arc"} /\ Labels(graph.arc) /\ Final \in graph.nodes
         /\ todo \in Seq(graph.nodes \cap (Production \cup {Final}))
         /\ cur.rule \in graph.nodes \cap (Production \cup {Final}) /\ cur.pre \in Seq(Precondition)
         /\ cur = [rule |-> cur.rule, pre |-> cur.pre]
         /\ failed \subseteq Rule
         /\ \A r \in graph.nodes \cap (Rule \cup {Final}) : Handled(r)
         /\ \A q \in Precondition : Bad(q) => q \in failed \/ (q \notin graph.nodes /\ Missing(q) = {})
         /\ \A r \in Production : run[r] \in {"none", "infeasible"}
<1>1. /\ DOMAIN graph = {"nodes", "arc"} /\ Sketched(graph.nodes, graph.arc)
      /\ todo \in Seq(graph.nodes \cap (Production \cup {Final}))
      /\ cur \in [rule : graph.nodes \cap (Production \cup {Final}), pre : Seq(Precondition)]
      /\ failed \subseteq Rule
  BY DEF Inv, GatherInv
<1>2. problem \in Problem /\ run \in [Rule -> Results] /\ graph.nodes \subseteq Node
  BY <1>1 DEF Inv, TypeInv, Sketched, Gathered
<1> QED BY <1>1, <1>2 DEF DueInv, GatherDue

(* What is left to show of a step while gathering.                                       *)
LEMMA GatherNext ==
  ASSUME Inv, DueInv, Gathering, phase' \in {"gather", "consider"}, UNCHANGED <<problem, have>>,
         Labels(graph'.arc), DOMAIN graph.arc \subseteq DOMAIN graph'.arc, graph.nodes \subseteq graph'.nodes,
         \A x \in Rule : run[x] = "OK" => run'[x] = "OK",
         \A x \in Production : run'[x] \in {"none", "infeasible"} /\ (run[x] = "infeasible" => run'[x] = "infeasible"),
         ToSet(todo) \subseteq ToSet(todo') \/ (phase' = "consider" /\ ToSet(todo) \subseteq ToSet(todo') \cup {cur'.rule}),
         failed \subseteq failed',
         phase = "consider" => \/ phase' = "consider" /\ cur'.rule = cur.rule
                               \/ cur.rule \in failed' \/ (cur.rule \in Production /\ run'[cur.rule] = "infeasible")
                               \/ \A x \in {cur.rule} : Analysed(x)',
         \A x \in graph'.nodes \cap (Rule \cup {Final}) : x \in graph.nodes \/ x \in ToSet(todo') \/ x \in failed' \/ Analysed(x)',
         phase' = "consider" /\ cur'.rule # Final =>
           /\ ToSet(cur'.pre) \subseteq ToSet(Pre(cur'.rule))
           /\ \A q \in ToSet(Pre(cur'.rule)) :
                q \in ToSet(cur'.pre) \/ run'[q] = "OK" \/ <<q, cur'.rule>> \in DOMAIN graph'.arc,
         \A q \in Precondition : run'[q] \in {"failed", "infeasible"} =>
           q \in failed' \/ (q \notin graph'.nodes /\ Missing(q) = {})
  PROVE  DueInv'
<1>0. /\ problem \in Problem /\ Final \in graph.nodes
      /\ \A r \in graph.nodes \cap (Rule \cup {Final}) : Handled(r)
  BY GatherNow
<1>1. \A r : Input(r)' = Input(r) /\ Output(r)' = Output(r) /\ Pre(r)' = Pre(r)
  BY DEF Input, Output, Pre
<1>2. ASSUME NEW r \in Rule \cup {Final}, Analysed(r) PROVE Analysed(r)'
  <2>1. ASSUME NEW k \in DOMAIN Input(r)
        PROVE  Input(r)[k] \cap have' # {} \/ \E p \in Input(r)[k] : <<p, r>> \in DOMAIN graph'.arc
    BY <1>2 DEF Analysed
  <2>2. ASSUME r \in Production, NEW q \in ToSet(Pre(r))
        PROVE  run'[q] = "OK" \/ <<q, r>> \in DOMAIN graph'.arc
    <3>1. run[q] = "OK" \/ <<q, r>> \in DOMAIN graph.arc
      BY <1>2, <2>2 DEF Analysed
    <3>2. Pre(r) \in Seq(Precondition)
      BY <1>0, <2>2, RuleFacts
    <3>3. q \in Rule
      BY <3>2, ListFolded, NodeKinds
    <3> QED BY <3>1, <3>3
  <2> QED BY <1>1, <2>1, <2>2 DEF Analysed
<1>3. ASSUME NEW r \in graph'.nodes \cap (Rule \cup {Final}) PROVE Handled(r)'
  <2>1. CASE r \notin graph.nodes
    BY <1>3, <2>1 DEF Handled, ToSet
  <2>2. CASE r \in graph.nodes
    <3>1. \/ r \in ToSet(todo) \/ (phase = "consider" /\ r = cur.rule) \/ r \in failed \/ Analysed(r)
          \/ r \in Production /\ run[r] = "infeasible"
      BY <1>0, <2>2 DEF Handled
    <3>2. CASE r \in ToSet(todo)
      BY <3>2 DEF Handled, ToSet
    <3>3. CASE phase = "consider" /\ r = cur.rule
      BY <3>3 DEF Handled
    <3>4. CASE r \in failed \/ (r \in Production /\ run[r] = "infeasible")
      BY <3>4 DEF Handled
    <3>5. CASE Analysed(r)
      <4>1. r \in Rule \cup {Final}
        BY <1>3
      <4>2. Analysed(r)'
        BY <1>2, <3>5, <4>1
      <4> QED BY <4>2 DEF Handled
    <3> QED BY <3>1, <3>2, <3>3, <3>4, <3>5
  <2> QED BY <2>1, <2>2
<1>4. (Labels(graph.arc))'
  BY DEF Labels, Labelled, Input, Output, Pre
<1>5. \A q : Missing(q)' = Missing(q)
  BY DEF Missing, Input
<1>6. phase' = "consider" /\ cur'.rule # Final =>
        /\ ToSet(cur'.pre) \subseteq ToSet(Pre(cur.rule)')
        /\ \A q \in ToSet(Pre(cur.rule)') : q \in ToSet(cur'.pre) \/ run'[q] = "OK" \/ <<q, cur'.rule>> \in DOMAIN graph'.arc
  BY DEF Pre
<1>7. \A q \in Precondition : Bad(q)' => q \in failed' \/ (q \notin graph'.nodes /\ Missing(q)' = {})
  BY <1>5 DEF Bad
<1>8. GatherDue'
  BY <1>0, <1>3, <1>4, <1>6, <1>7 DEF GatherDue, ToSet
<1>9. Delivered'
  BY DEF Delivered
<1> QED BY <1>8, <1>9 DEF DueInv, SelfDue, DraftsDue, ChoiceDue, ListDue, ReplayDue, Searching, Working, Choosing

(* The next rule is looked at.                                                           *)
LEMMA GatherRuleDue ==
  ASSUME Inv, DueInv, GatherRule PROVE DueInv'
<1>1. /\ phase = "gather" /\ todo # <<>> /\ phase' = "consider" /\ todo' = Tail(todo)
      /\ cur' = [rule |-> Head(todo), pre |-> IF Head(todo) = Final THEN <<>> ELSE Pre(Head(todo))]
      /\ UNCHANGED <<problem, have, run, graph, failed>>
  BY DEF GatherRule
<1>2. Gathering
  BY <1>1 DEF Gathering
<1>3. /\ todo \in Seq(graph.nodes \cap (Production \cup {Final})) /\ Labels(graph.arc)
      /\ \A q \in Precondition : Bad(q) => q \in failed \/ (q \notin graph.nodes /\ Missing(q) = {})
      /\ \A r \in Production : run[r] \in {"none", "infeasible"}
  BY <1>2, GatherNow
<1>4. ToSet(todo) \subseteq ToSet(todo') \cup {cur'.rule}
  <2>1. cur'.rule = Head(todo)
    BY <1>1
  <2> QED BY <1>1, <1>3, <2>1, ListSplit
<1>5. cur'.rule # Final => cur'.pre = Pre(cur'.rule)
  BY <1>1
<1>6. \A q \in Precondition : run'[q] \in {"failed", "infeasible"} =>
        q \in failed' \/ (q \notin graph'.nodes /\ Missing(q) = {})
  BY <1>1, <1>3 DEF Bad
<1> QED BY <1>1, <1>2, <1>3, <1>4, <1>5, <1>6, GatherNext

(* A precondition of the rule at hand.                                                   *)
LEMMA ConsiderNow ==
  ASSUME Inv, DueInv, NEW q \in Precondition, ConsiderPre(q)
  PROVE  /\ Gathering /\ phase = "consider" /\ problem' = problem
         /\ cur.rule \in Production /\ cur.rule # Final /\ cur.rule \in Rule /\ q \in Rule /\ q \notin Production /\ q # Final
         /\ q \in ToSet(Pre(cur.rule)) /\ q \in ToSet(cur.pre)
         /\ ToSet(cur.pre) \subseteq ToSet(Tail(cur.pre)) \cup {q} /\ ToSet(Tail(cur.pre)) \subseteq ToSet(cur.pre)
         /\ ToSet(cur.pre) \subseteq ToSet(Pre(cur.rule))
         /\ \A x \in ToSet(Pre(cur.rule)) : x \in ToSet(cur.pre) \/ run[x] = "OK" \/ <<x, cur.rule>> \in DOMAIN graph.arc
         /\ NextPre => cur'.rule = cur.rule /\ cur'.pre = Tail(cur.pre)
<1>1. phase = "consider" /\ cur.pre # <<>> /\ q = Head(cur.pre) /\ problem' = problem
  BY DEF ConsiderPre
<1>2. Gathering
  BY <1>1 DEF Gathering
<1>3. cur.pre \in Seq(Precondition) /\ cur = [rule |-> cur.rule, pre |-> cur.pre] /\ problem \in Problem
  BY <1>2, GatherNow
<1>4. cur.rule \in Production
  BY <1>1, <1>2 DEF Inv, GatherInv
<1>5. cur.rule # Final /\ cur.rule \in Rule /\ q \in Rule /\ q \notin Production /\ q # Final
  BY <1>4, NodeKinds, NodesDisjoint
<1>6. /\ ToSet(cur.pre) \subseteq ToSet(Pre(cur.rule))
      /\ \A x \in ToSet(Pre(cur.rule)) : x \in ToSet(cur.pre) \/ run[x] = "OK" \/ <<x, cur.rule>> \in DOMAIN graph.arc
  BY <1>1, <1>2, <1>5 DEF DueInv, GatherDue
<1>7. /\ ToSet(cur.pre) \subseteq ToSet(Tail(cur.pre)) \cup {q} /\ q \in ToSet(cur.pre)
      /\ ToSet(Tail(cur.pre)) \subseteq ToSet(cur.pre)
  BY <1>1, <1>3, ListSplit
<1>8. NextPre => cur'.rule = cur.rule /\ cur'.pre = Tail(cur.pre)
  BY <1>3 DEF NextPre
<1> QED BY <1>1, <1>2, <1>4, <1>5, <1>6, <1>7, <1>8

(* The rule is dismissed.                                                                *)
LEMMA DismissRuleDue ==
  ASSUME Inv, DueInv, NEW q \in Precondition, DismissRule(q) PROVE DueInv'
<1>1. /\ ConsiderPre(q) /\ run' = [run EXCEPT ![cur.rule] = "infeasible"] /\ phase' = "gather"
      /\ UNCHANGED <<have, graph, todo, cur, failed>>
  BY DEF DismissRule
<1>2. Gathering /\ problem' = problem /\ cur.rule \in Production /\ cur.rule \in Rule
  BY <1>1, ConsiderNow
<1>3. /\ Labels(graph.arc) /\ run \in [Rule -> Results]
      /\ \A x \in Precondition : Bad(x) => x \in failed \/ (x \notin graph.nodes /\ Missing(x) = {})
      /\ \A r \in Production : run[r] \in {"none", "infeasible"}
  BY <1>2, GatherNow
<1>4. run'[cur.rule] = "infeasible" /\ \A x \in Rule : x # cur.rule => run'[x] = run[x]
  BY <1>1, <1>2, <1>3
<1>5. \A x \in Rule : run[x] = "OK" => run'[x] = "OK"
  BY <1>2, <1>3, <1>4
<1>6. \A x \in Production : run'[x] \in {"none", "infeasible"} /\ (run[x] = "infeasible" => run'[x] = "infeasible")
  BY <1>3, <1>4, NodeKinds
<1>7. \A x \in Precondition : run'[x] \in {"failed", "infeasible"} => x \in failed' \/ (x \notin graph'.nodes /\ Missing(x) = {})
  <2>1. \A x \in Precondition : x \in Rule /\ x # cur.rule
    BY <1>2, NodeKinds, NodesDisjoint
  <2> QED BY <1>1, <1>3, <1>4, <2>1 DEF Bad
<1> QED BY <1>1, <1>2, <1>3, <1>4, <1>5, <1>6, <1>7, GatherNext

(* The precondition is known to hold.                                                    *)
LEMMA SkipSatisfiedDue ==
  ASSUME Inv, DueInv, NEW q \in Precondition, SkipSatisfied(q) PROVE DueInv'
<1>1. /\ ConsiderPre(q) /\ run[q] = "OK" /\ NextPre /\ UNCHANGED <<have, run, phase, graph, todo, failed>>
  BY DEF SkipSatisfied
<1>2. /\ Gathering /\ phase = "consider" /\ problem' = problem /\ cur'.rule = cur.rule /\ cur'.pre = Tail(cur.pre)
      /\ ToSet(cur.pre) \subseteq ToSet(Tail(cur.pre)) \cup {q} /\ ToSet(Tail(cur.pre)) \subseteq ToSet(cur.pre)
      /\ ToSet(cur.pre) \subseteq ToSet(Pre(cur.rule))
      /\ \A x \in ToSet(Pre(cur.rule)) : x \in ToSet(cur.pre) \/ run[x] = "OK" \/ <<x, cur.rule>> \in DOMAIN graph.arc
  BY <1>1, ConsiderNow
<1>3. /\ Labels(graph.arc)
      /\ \A x \in Precondition : Bad(x) => x \in failed \/ (x \notin graph.nodes /\ Missing(x) = {})
      /\ \A r \in Production : run[r] \in {"none", "infeasible"}
  BY <1>2, GatherNow
<1>4. /\ ToSet(cur'.pre) \subseteq ToSet(Pre(cur'.rule))
      /\ \A x \in ToSet(Pre(cur'.rule)) : x \in ToSet(cur'.pre) \/ run'[x] = "OK" \/ <<x, cur'.rule>> \in DOMAIN graph'.arc
  BY <1>1, <1>2
<1>5. \A x \in Precondition : run'[x] \in {"failed", "infeasible"} => x \in failed' \/ (x \notin graph'.nodes /\ Missing(x) = {})
  BY <1>1, <1>3 DEF Bad
<1> QED BY <1>1, <1>2, <1>3, <1>4, <1>5, GatherNext

(* What the graph with the inputs of a rule brings along.                                *)
LEMMA WithInputsNow ==
  ASSUME Inv, DueInv, Gathering, NEW r \in Rule \cup {Final}, NEW nodes \in SUBSET Node, r \in graph.nodes \cup nodes
  PROVE  LET h == WithInputs(r, nodes)
         IN  /\ Labels(h.arc) /\ DOMAIN graph.arc \subseteq DOMAIN h.arc /\ graph.nodes \cup nodes \subseteq h.nodes
             /\ DOMAIN h = {"nodes", "arc"}
             /\ Unsuppliable(r) = {} => \A k \in Missing(r) : \E p \in Input(r)[k] : <<p, r>> \in DOMAIN h.arc
             /\ ToSet(todo) \subseteq ToSet(todo \o Considered(h))
             /\ \A x \in h.nodes \cap (Rule \cup {Final}) : x \in graph.nodes \cup nodes \/ x \in ToSet(todo \o Considered(h))
<1> DEFINE h == WithInputs(r, nodes)
<1>1. /\ problem \in Problem /\ graph.nodes \subseteq Node /\ Sketched(graph.nodes, graph.arc) /\ Labels(graph.arc)
      /\ todo \in Seq(graph.nodes \cap (Production \cup {Final}))
  BY GatherNow
<1>2. /\ Labels(h.arc) /\ DOMAIN graph.arc \subseteq DOMAIN h.arc
      /\ Unsuppliable(r) = {} => \A k \in Missing(r) : \E p \in Input(r)[k] : <<p, r>> \in DOMAIN h.arc
      /\ h.nodes \cap (Rule \cup {Final}) \subseteq graph.nodes \cup nodes \cup Production
  BY <1>1, WithInputsLabels
<1>3. Sketched(h.nodes, h.arc) /\ graph.nodes \cup nodes \subseteq h.nodes /\ DOMAIN h = {"nodes", "arc"}
  BY <1>1, WithInputsSketched
<1> HIDE DEF h
<1>4. h.nodes \subseteq Node
  BY <1>3 DEF Sketched, Gathered
<1>5. todo \in Seq(graph.nodes)
  BY <1>1
<1>6. ToSet(todo \o Considered(h)) = ToSet(todo) \cup ((h.nodes \cap Production) \ graph.nodes)
  BY <1>4, <1>5, ConsideredAll
<1> QED BY <1>2, <1>3, <1>6 DEF h

(* The precondition cannot be supplied.                                                  *)
LEMMA RejectPreDue ==
  ASSUME Inv, DueInv, NEW q \in Precondition, RejectPre(q) PROVE DueInv'
<1>1. /\ ConsiderPre(q) /\ run[q] # "OK" /\ graph' = WithInputs(q, {q}) /\ todo' = todo \o Considered(graph')
      /\ failed' = failed \cup {cur.rule, q} /\ run' = [run EXCEPT ![cur.rule] = "infeasible", ![q] = "infeasible"]
      /\ phase' = "gather" /\ UNCHANGED <<have, cur>>
  BY DEF RejectPre
<1>2. /\ Gathering /\ problem' = problem /\ cur.rule \in Production /\ cur.rule \in Rule
      /\ q \in Rule /\ q \notin Production
  BY <1>1, ConsiderNow
<1>3. /\ Labels(graph.arc) /\ run \in [Rule -> Results] /\ graph.nodes \subseteq Node
      /\ \A x \in Precondition : Bad(x) => x \in failed \/ (x \notin graph.nodes /\ Missing(x) = {})
      /\ \A r \in Production : run[r] \in {"none", "infeasible"}
  BY <1>2, GatherNow
<1>4. /\ Labels(graph'.arc) /\ DOMAIN graph.arc \subseteq DOMAIN graph'.arc /\ graph.nodes \cup {q} \subseteq graph'.nodes
      /\ ToSet(todo) \subseteq ToSet(todo')
      /\ \A x \in graph'.nodes \cap (Rule \cup {Final}) : x \in graph.nodes \cup {q} \/ x \in ToSet(todo')
      /\ \A x \in graph'.nodes \cap Precondition : x \in graph.nodes \cup {q}
  <2>1. q \in Rule \cup {Final} /\ {q} \in SUBSET Node /\ q \in graph.nodes \cup {q}
    BY <1>2, NodeKinds
  <2>2. PICK h : h = WithInputs(q, {q})
    OBVIOUS
  <2>3. h.nodes \cap (Rule \cup {Final}) \subseteq graph.nodes \cup {q} \cup Production
    BY <1>2, <1>3, <2>1, <2>2, WithInputsLabels DEF Inv, TypeInv
  <2>4. /\ Labels(h.arc) /\ DOMAIN graph.arc \subseteq DOMAIN h.arc /\ graph.nodes \cup {q} \subseteq h.nodes
        /\ ToSet(todo) \subseteq ToSet(todo \o Considered(h))
        /\ \A x \in h.nodes \cap (Rule \cup {Final}) : x \in graph.nodes \cup {q} \/ x \in ToSet(todo \o Considered(h))
    BY <1>2, <2>1, <2>2, WithInputsNow
  <2>5. graph' = h /\ todo' = todo \o Considered(h)
    BY <1>1, <2>2
  <2>6. \A x \in Precondition : x \in Rule /\ x \notin Production
    BY NodeKinds, NodesDisjoint
  <2> QED BY <2>3, <2>4, <2>5, <2>6
<1>5. /\ run'[cur.rule] = "infeasible" /\ run'[q] = "infeasible"
      /\ \A x \in Rule : x # cur.rule /\ x # q => run'[x] = run[x]
  BY <1>1, <1>2, <1>3
<1>6. \A x \in Rule : run[x] = "OK" => run'[x] = "OK"
  BY <1>1, <1>2, <1>3, <1>5
<1>7. \A x \in Production : run'[x] \in {"none", "infeasible"} /\ (run[x] = "infeasible" => run'[x] = "infeasible")
  BY <1>2, <1>3, <1>5, NodeKinds
<1>8. \A x \in Precondition : run'[x] \in {"failed", "infeasible"} => x \in failed' \/ (x \notin graph'.nodes /\ Missing(x) = {})
  <2>1. \A x \in Precondition : x \in Rule /\ x # cur.rule
    BY <1>2, NodeKinds, NodesDisjoint
  <2> QED BY <1>1, <1>3, <1>4, <1>5, <2>1 DEF Bad
<1>9. cur.rule \in failed' /\ failed \subseteq failed' /\ q \in failed'
  BY <1>1
<1>10. \A x \in graph'.nodes \cap (Rule \cup {Final}) : x \in graph.nodes \/ x \in ToSet(todo') \/ x \in failed' \/ Analysed(x)'
  BY <1>4, <1>9
<1>11. graph.nodes \subseteq graph'.nodes
  BY <1>4
<1> QED BY <1>1, <1>2, <1>4, <1>6, <1>7, <1>8, <1>9, <1>10, <1>11, GatherNext

(* The precondition is evaluated at once.                                                *)
LEMMA EvaluatePreDue ==
  ASSUME Inv, DueInv, NEW q \in Precondition, EvaluatePre(q) PROVE DueInv'
<1>1. /\ ConsiderPre(q) /\ run[q] # "OK" /\ q \notin graph.nodes /\ Missing(q) = {} /\ UNCHANGED <<graph, todo>>
      /\ \/ Run(q, TRUE) /\ NextPre /\ UNCHANGED <<phase, failed>>
         \/ /\ run' = [run EXCEPT ![q] = "failed", ![cur.rule] = "infeasible"]
            /\ failed' = failed \cup {cur.rule} /\ phase' = "gather" /\ UNCHANGED <<have, cur>>
  BY DEF EvaluatePre
<1>2. /\ Gathering /\ phase = "consider" /\ problem' = problem /\ cur.rule \in Production /\ cur.rule \in Rule
      /\ q \in Rule /\ q \notin Production
      /\ ToSet(cur.pre) \subseteq ToSet(Tail(cur.pre)) \cup {q} /\ ToSet(Tail(cur.pre)) \subseteq ToSet(cur.pre)
      /\ ToSet(cur.pre) \subseteq ToSet(Pre(cur.rule))
      /\ \A x \in ToSet(Pre(cur.rule)) : x \in ToSet(cur.pre) \/ run[x] = "OK" \/ <<x, cur.rule>> \in DOMAIN graph.arc
      /\ NextPre => cur'.rule = cur.rule /\ cur'.pre = Tail(cur.pre)
  BY <1>1, ConsiderNow
<1>3. /\ Labels(graph.arc) /\ run \in [Rule -> Results] /\ problem \in Problem
      /\ \A x \in Precondition : Bad(x) => x \in failed \/ (x \notin graph.nodes /\ Missing(x) = {})
      /\ \A r \in Production : run[r] \in {"none", "infeasible"}
  BY <1>2, GatherNow
<1>4. CASE Run(q, TRUE) /\ NextPre /\ UNCHANGED <<phase, failed>>
  <2>1. run' = [run EXCEPT ![q] = "OK"] /\ have' = have
    BY <1>2, <1>4 DEF Run
  <2>2. run'[q] = "OK" /\ \A x \in Rule : x # q => run'[x] = run[x]
    BY <1>2, <1>3, <2>1
  <2>3. \A x \in Rule : run[x] = "OK" => run'[x] = "OK"
    BY <2>2
  <2>4. \A x \in Production : run'[x] \in {"none", "infeasible"} /\ (run[x] = "infeasible" => run'[x] = "infeasible")
    BY <1>2, <1>3, <2>2, NodeKinds
  <2>5. \A x \in Precondition : x \in Rule
    BY NodeKinds
  <2>6. \A x \in Precondition : run'[x] \in {"failed", "infeasible"} => x \in failed' \/ (x \notin graph'.nodes /\ Missing(x) = {})
    BY <1>1, <1>3, <1>4, <2>2, <2>5 DEF Bad
  <2>7. cur'.rule = cur.rule /\ cur'.pre = Tail(cur.pre) /\ phase' = "consider"
    BY <1>2, <1>4
  <2>8. ToSet(Pre(cur.rule)) \subseteq Rule
    <3>1. Pre(cur.rule) \in Seq(Precondition)
      BY <1>2, <1>3, RuleFacts
    <3> QED BY <2>5, <3>1, ListFolded
  <2>9. /\ ToSet(cur'.pre) \subseteq ToSet(Pre(cur'.rule))
        /\ \A x \in ToSet(Pre(cur'.rule)) : x \in ToSet(cur'.pre) \/ run'[x] = "OK" \/ <<x, cur'.rule>> \in DOMAIN graph'.arc
    BY <1>1, <1>2, <2>2, <2>3, <2>7, <2>8
  <2>10. UNCHANGED <<problem, have>> /\ failed \subseteq failed' /\ graph' = graph /\ todo' = todo
    BY <1>1, <1>2, <1>4, <2>1
  <2> QED BY <1>2, <1>3, <2>3, <2>4, <2>6, <2>7, <2>9, <2>10, GatherNext
<1>5. CASE /\ run' = [run EXCEPT ![q] = "failed", ![cur.rule] = "infeasible"]
           /\ failed' = failed \cup {cur.rule} /\ phase' = "gather" /\ UNCHANGED <<have, cur>>
  <2>1. /\ run'[cur.rule] = "infeasible" /\ run'[q] = "failed" /\ \A x \in Rule : x # cur.rule /\ x # q => run'[x] = run[x]
    BY <1>2, <1>3, <1>5
  <2>2. \A x \in Rule : run[x] = "OK" => run'[x] = "OK"
    BY <1>1, <1>2, <1>3, <2>1
  <2>3. \A x \in Production : run'[x] \in {"none", "infeasible"} /\ (run[x] = "infeasible" => run'[x] = "infeasible")
    BY <1>2, <1>3, <2>1, NodeKinds
  <2>4. \A x \in Precondition : run'[x] \in {"failed", "infeasible"} => x \in failed' \/ (x \notin graph'.nodes /\ Missing(x) = {})
    <3>1. \A x \in Precondition : x \in Rule /\ x # cur.rule
      BY <1>2, NodeKinds, NodesDisjoint
    <3> QED BY <1>1, <1>3, <1>5, <2>1, <3>1 DEF Bad
  <2>5. UNCHANGED <<problem, have>> /\ failed \subseteq failed' /\ graph' = graph /\ todo' = todo /\ cur.rule \in failed'
    BY <1>1, <1>2, <1>5
  <2> QED BY <1>2, <1>3, <1>5, <2>2, <2>3, <2>4, <2>5, GatherNext
<1> QED BY <1>1, <1>4, <1>5

(* The precondition becomes a supplier of its rule.                                      *)
LEMMA PostponePreDue ==
  ASSUME Inv, DueInv, NEW q \in Precondition, PostponePre(q) PROVE DueInv'
<1> DEFINE g == IF q \in graph.nodes THEN graph ELSE WithInputs(q, {q})
           new == [a \in {<<q, cur.rule>>} |-> Unique]
<1>1. /\ ConsiderPre(q) /\ NextPre /\ UNCHANGED <<have, run, phase, failed>>
      /\ q \in graph.nodes \/ (Missing(q) # {} /\ Unsuppliable(q) = {})
      /\ graph' = [g EXCEPT !.arc = Joined(@, new)] /\ todo' = todo \o Considered(g)
  BY DEF PostponePre
<1>2. /\ Gathering /\ phase = "consider" /\ problem' = problem /\ cur.rule \in Production /\ cur.rule \in Rule
      /\ q \in Rule /\ q \notin Production /\ q \in ToSet(Pre(cur.rule))
      /\ ToSet(cur.pre) \subseteq ToSet(Tail(cur.pre)) \cup {q} /\ ToSet(Tail(cur.pre)) \subseteq ToSet(cur.pre)
      /\ ToSet(cur.pre) \subseteq ToSet(Pre(cur.rule))
      /\ \A x \in ToSet(Pre(cur.rule)) : x \in ToSet(cur.pre) \/ run[x] = "OK" \/ <<x, cur.rule>> \in DOMAIN graph.arc
      /\ cur'.rule = cur.rule /\ cur'.pre = Tail(cur.pre)
  BY <1>1, ConsiderNow
<1>3. /\ Labels(graph.arc) /\ problem \in Problem /\ graph.nodes \subseteq Node /\ DOMAIN graph = {"nodes", "arc"}
      /\ todo \in Seq(graph.nodes \cap (Production \cup {Final}))
      /\ \A x \in Precondition : Bad(x) => x \in failed \/ (x \notin graph.nodes /\ Missing(x) = {})
      /\ \A r \in Production : run[r] \in {"none", "infeasible"}
  BY <1>2, GatherNow
<1>4. /\ Labels(g.arc) /\ DOMAIN graph.arc \subseteq DOMAIN g.arc /\ graph.nodes \cup {q} \subseteq g.nodes
      /\ DOMAIN g = {"nodes", "arc"} /\ ToSet(todo) \subseteq ToSet(todo \o Considered(g))
      /\ \A x \in g.nodes \cap (Rule \cup {Final}) : x \in graph.nodes \cup {q} \/ x \in ToSet(todo \o Considered(g))
      /\ \A x \in g.nodes \cap Precondition : x \in graph.nodes \cup {q}
      /\ q \notin graph.nodes => \A k \in Missing(q) : \E p \in Input(q)[k] : <<p, q>> \in DOMAIN g.arc
  <2>1. q \in Rule \cup {Final} /\ {q} \in SUBSET Node /\ q \in graph.nodes \cup {q}
    BY <1>2, NodeKinds
  <2>2. CASE q \in graph.nodes
    <3>1. g = graph
      BY <2>2
    <3>2. ToSet(todo \o Considered(graph)) = ToSet(todo) \cup ((graph.nodes \cap Production) \ graph.nodes)
      <4>1. todo \in Seq(graph.nodes)
        BY <1>3
      <4> QED BY <1>3, <4>1, ConsideredAll
    <3> HIDE DEF g
    <3> QED BY <1>3, <2>2, <3>1, <3>2
  <2>3. CASE q \notin graph.nodes
    <3>1. g = WithInputs(q, {q})
      BY <2>3
    <3>2. Unsuppliable(q) = {}
      BY <1>1, <2>3
    <3> HIDE DEF g
    <3>3. g.nodes \cap (Rule \cup {Final}) \subseteq graph.nodes \cup {q} \cup Production
      BY <1>3, <2>1, <3>1, WithInputsLabels
    <3>4. /\ Labels(g.arc) /\ DOMAIN graph.arc \subseteq DOMAIN g.arc /\ graph.nodes \cup {q} \subseteq g.nodes
          /\ DOMAIN g = {"nodes", "arc"} /\ ToSet(todo) \subseteq ToSet(todo \o Considered(g))
          /\ \A x \in g.nodes \cap (Rule \cup {Final}) : x \in graph.nodes \cup {q} \/ x \in ToSet(todo \o Considered(g))
          /\ \A k \in Missing(q) : \E p \in Input(q)[k] : <<p, q>> \in DOMAIN g.arc
      BY <1>2, <2>1, <3>1, <3>2, WithInputsNow
    <3>5. \A x \in Precondition : x \in Rule /\ x \notin Production
      BY NodeKinds, NodesDisjoint
    <3> QED BY <3>3, <3>4, <3>5
  <2> QED BY <2>2, <2>3
<1> HIDE DEF g
<1> DEFINE b == <<q, cur.rule>>
<1>5. DOMAIN new = {b} /\ new[b] = Unique /\ b[1] = q /\ b[2] = cur.rule
  OBVIOUS
<1> HIDE DEF new, b
<1>6. graph'.nodes = g.nodes /\ graph'.arc = Joined(g.arc, new)
  BY <1>1, <1>4
<1>7. /\ DOMAIN graph'.arc = DOMAIN g.arc \cup {b} /\ graph'.nodes = g.nodes
      /\ \A a \in DOMAIN graph'.arc : (a \in DOMAIN g.arc /\ graph'.arc[a] = g.arc[a]) \/ (a = b /\ graph'.arc[a] = Unique)
  BY <1>5, <1>6 DEF Joined
<1>8. Labels(graph'.arc)
  <2> SUFFICES ASSUME NEW a \in DOMAIN graph'.arc PROVE Labelled(graph'.arc, a)
    BY DEF Labels
  <2>1. CASE a = b /\ graph'.arc[a] = Unique
    BY <1>2, <1>5, <2>1 DEF Labelled
  <2>2. CASE a \in DOMAIN g.arc /\ graph'.arc[a] = g.arc[a]
    <3>1. Labelled(g.arc, a)
      BY <1>4, <2>2 DEF Labels
    <3>2. DOMAIN g.arc \subseteq DOMAIN graph'.arc
      BY <1>7
    <3>3. PICK arc : arc = graph'.arc
      OBVIOUS
    <3>4. Labelled(arc, a)
      BY ONLY <2>2, <3>1, <3>2, <3>3 DEF Labelled
    <3> QED BY <3>3, <3>4
  <2> QED BY <1>7, <2>1, <2>2
<1>9. \A x \in Precondition : run'[x] \in {"failed", "infeasible"} => x \in failed' \/ (x \notin graph'.nodes /\ Missing(x) = {})
  <2> SUFFICES ASSUME NEW x \in Precondition, Bad(x), x \notin failed
               PROVE  x \notin g.nodes /\ Missing(x) = {}
    BY <1>1, <1>7 DEF Bad
  <2>1. x \notin graph.nodes /\ Missing(x) = {}
    BY <1>3
  <2>2. x # q
    BY <1>1, <2>1
  <2> QED BY <1>4, <2>1, <2>2
<1>10. /\ ToSet(cur'.pre) \subseteq ToSet(Pre(cur'.rule))
       /\ \A x \in ToSet(Pre(cur'.rule)) : x \in ToSet(cur'.pre) \/ run'[x] = "OK" \/ <<x, cur'.rule>> \in DOMAIN graph'.arc
  <2>1. <<q, cur.rule>> \in DOMAIN graph'.arc
    BY <1>7 DEF b
  <2>2. DOMAIN graph.arc \subseteq DOMAIN graph'.arc
    BY <1>4, <1>7
  <2> QED BY <1>1, <1>2, <2>1, <2>2
<1>11. q \notin graph.nodes => Analysed(q)'
  <2> SUFFICES ASSUME q \notin graph.nodes PROVE Analysed(q)'
    OBVIOUS
  <2>1. Input(q)' = Input(q) /\ have' = have
    BY <1>1, <1>2 DEF Input
  <2>2. \A k \in DOMAIN Input(q) : Input(q)[k] \cap have # {} \/ \E p \in Input(q)[k] : <<p, q>> \in DOMAIN graph'.arc
    BY <1>4, <1>7 DEF Missing
  <2> QED BY <1>2, <2>1, <2>2 DEF Analysed
<1>12. \A x \in graph'.nodes \cap (Rule \cup {Final}) : x \in graph.nodes \/ x \in ToSet(todo') \/ x \in failed' \/ Analysed(x)'
  BY <1>1, <1>4, <1>7, <1>11
<1>13. /\ DOMAIN graph.arc \subseteq DOMAIN graph'.arc /\ graph.nodes \subseteq graph'.nodes
       /\ ToSet(todo) \subseteq ToSet(todo') /\ phase' = "consider" /\ UNCHANGED <<problem, have>> /\ failed' = failed
       /\ run' = run
  BY <1>1, <1>2, <1>4, <1>7
<1> QED BY <1>2, <1>3, <1>8, <1>9, <1>10, <1>12, <1>13, GatherNext

(* The inputs of the rule at hand.                                                       *)
LEMMA ConsiderInputsDue ==
  ASSUME Inv, DueInv, ConsiderInputs PROVE DueInv'
<1>1. /\ phase = "consider" /\ cur.pre = <<>> /\ UNCHANGED <<problem, have, cur>>
      /\ graph' = WithInputs(cur.rule, {}) /\ todo' = todo \o Considered(graph')
      /\ \/ Unsuppliable(cur.rule) = {} /\ phase' = "gather" /\ UNCHANGED <<run, failed>>
         \/ phase' = "done" /\ UNCHANGED run
         \/ /\ cur.rule # Final /\ phase' = "gather"
            /\ run' = [run EXCEPT ![cur.rule] = "infeasible"] /\ failed' = failed \cup {cur.rule}
  BY DEF ConsiderInputs, Answer
<1>2. Gathering
  BY <1>1 DEF Gathering
<1>3. /\ problem \in Problem /\ Labels(graph.arc) /\ run \in [Rule -> Results] /\ graph.nodes \subseteq Node
      /\ cur.rule \in graph.nodes /\ cur.rule \in Production \cup {Final}
      /\ \A x \in Precondition : Bad(x) => x \in failed \/ (x \notin graph.nodes /\ Missing(x) = {})
      /\ \A r \in Production : run[r] \in {"none", "infeasible"}
  BY <1>2, GatherNow
<1>4. /\ Labels(graph'.arc) /\ DOMAIN graph.arc \subseteq DOMAIN graph'.arc /\ graph.nodes \subseteq graph'.nodes
      /\ ToSet(todo) \subseteq ToSet(todo')
      /\ \A x \in graph'.nodes \cap (Rule \cup {Final}) : x \in graph.nodes \/ x \in ToSet(todo')
      /\ \A x \in graph'.nodes \cap Precondition : x \in graph.nodes
      /\ Unsuppliable(cur.rule) = {} => \A k \in Missing(cur.rule) : \E p \in Input(cur.rule)[k] : <<p, cur.rule>> \in DOMAIN graph'.arc
  <2>1. cur.rule \in Rule \cup {Final} /\ {} \in SUBSET Node /\ cur.rule \in graph.nodes \cup {}
    BY <1>3, NodeKinds
  <2>2. PICK r : r = cur.rule
    OBVIOUS
  <2>3. PICK h : h = WithInputs(r, {})
    OBVIOUS
  <2>4. h.nodes \cap (Rule \cup {Final}) \subseteq graph.nodes \cup {} \cup Production
    BY <1>3, <2>1, <2>2, <2>3, WithInputsLabels
  <2>5. /\ Labels(h.arc) /\ DOMAIN graph.arc \subseteq DOMAIN h.arc /\ graph.nodes \cup {} \subseteq h.nodes
        /\ Unsuppliable(r) = {} => \A k \in Missing(r) : \E p \in Input(r)[k] : <<p, r>> \in DOMAIN h.arc
        /\ ToSet(todo) \subseteq ToSet(todo \o Considered(h))
        /\ \A x \in h.nodes \cap (Rule \cup {Final}) : x \in graph.nodes \cup {} \/ x \in ToSet(todo \o Considered(h))
    BY <1>2, <2>1, <2>2, <2>3, WithInputsNow
  <2>6. graph' = h /\ todo' = todo \o Considered(h)
    BY <1>1, <2>2, <2>3
  <2>7. \A x \in Precondition : x \in Rule /\ x \notin Production
    BY NodeKinds, NodesDisjoint
  <2> QED BY <2>2, <2>4, <2>5, <2>6, <2>7
<1>5. CASE phase' = "done" /\ UNCHANGED run
  <2>1. Delivered'
    BY <1>1, <1>5 DEF DueInv, Delivered, Output
  <2> QED BY <1>5, <2>1, StoppedDue
<1>6. CASE Unsuppliable(cur.rule) = {} /\ phase' = "gather" /\ UNCHANGED <<run, failed>>
  <2>1. \A x \in {cur.rule} : Analysed(x)'
    <3> SUFFICES ASSUME NEW x, x = cur.rule PROVE Analysed(x)'
      OBVIOUS
    <3>1. Input(x)' = Input(x) /\ Pre(x)' = Pre(x) /\ have' = have /\ run' = run
      BY <1>1, <1>6 DEF Input, Pre
    <3>2. \A k \in DOMAIN Input(x) : Input(x)[k] \cap have # {} \/ \E p \in Input(x)[k] : <<p, x>> \in DOMAIN graph'.arc
      BY <1>4, <1>6 DEF Missing
    <3>3. x \in Production => \A q \in ToSet(Pre(x)) : run[q] = "OK" \/ <<q, x>> \in DOMAIN graph'.arc
      <4> SUFFICES ASSUME x \in Production, NEW q \in ToSet(Pre(x))
                   PROVE  run[q] = "OK" \/ <<q, x>> \in DOMAIN graph'.arc
        OBVIOUS
      <4>1. x # Final
        BY NodesDisjoint
      <4>2. q \in ToSet(cur.pre) \/ run[q] = "OK" \/ <<q, x>> \in DOMAIN graph.arc
        BY <1>1, <1>2, <4>1 DEF DueInv, GatherDue
      <4>3. ToSet(cur.pre) = {}
        BY <1>1 DEF ToSet
      <4> QED BY <1>4, <4>2, <4>3
    <3> QED BY <3>1, <3>2, <3>3 DEF Analysed
  <2>2. \A x \in Precondition : run'[x] \in {"failed", "infeasible"} => x \in failed' \/ (x \notin graph'.nodes /\ Missing(x) = {})
    BY <1>3, <1>4, <1>6 DEF Bad
  <2> QED BY <1>1, <1>2, <1>3, <1>4, <1>6, <2>1, <2>2, GatherNext
<1>7. CASE /\ cur.rule # Final /\ phase' = "gather"
           /\ run' = [run EXCEPT ![cur.rule] = "infeasible"] /\ failed' = failed \cup {cur.rule}
  <2>1. cur.rule \in Production /\ cur.rule \in Rule /\ cur.rule \notin Precondition
    BY <1>3, <1>7, NodeKinds, NodesDisjoint
  <2>2. run'[cur.rule] = "infeasible" /\ \A x \in Rule : x # cur.rule => run'[x] = run[x]
    BY <1>3, <1>7, <2>1
  <2>3. \A x \in Rule : run[x] = "OK" => run'[x] = "OK"
    BY <1>3, <2>1, <2>2
  <2>4. \A x \in Production : run'[x] \in {"none", "infeasible"} /\ (run[x] = "infeasible" => run'[x] = "infeasible")
    BY <1>3, <2>2, NodeKinds
  <2>5. \A x \in Precondition : run'[x] \in {"failed", "infeasible"} => x \in failed' \/ (x \notin graph'.nodes /\ Missing(x) = {})
    <3>1. \A x \in Precondition : x \in Rule /\ x # cur.rule
      BY <2>1, NodeKinds
    <3> QED BY <1>3, <1>4, <1>7, <2>2, <3>1 DEF Bad
  <2>6. failed \subseteq failed' /\ cur.rule \in failed'
    BY <1>7
  <2> QED BY <1>1, <1>2, <1>4, <1>7, <2>3, <2>4, <2>5, <2>6, GatherNext
<1> QED BY <1>1, <1>5, <1>6, <1>7

(* What the search starts from: all that is left has been analysed.                      *)
LEMMA FirstChain ==
  ASSUME Inv, DueInv, phase = "gather", todo = <<>>
  PROVE  LET bare == [InitState(graph.nodes, graph.arc) EXCEPT !.flagged = {}, !.ready = {}]
             done == IF failed = {} THEN Work(bare, {}) ELSE EliminateRules(bare, failed, Optional)
             g == InitState(done.g.alive, done.g.arc)
         IN  /\ DOMAIN graph.arc \in ArcsAmong
             /\ done.ok =>
                  /\ g \in GraphOver(DOMAIN graph.arc) /\ Exact(g) /\ Grounded(graph.arc, {}, g) /\ g.sched = {}
                  /\ \A r \in g.alive \cap (Rule \cup {Final}) : Analysed(r) \/ (r \in Production /\ run[r] = "infeasible")
                  /\ \A q \in Precondition \cap g.alive : ~Bad(q)
<1> DEFINE first == InitState(graph.nodes, graph.arc)
           bare == [first EXCEPT !.flagged = {}, !.ready = {}]
           done == IF failed = {} THEN Work(bare, {}) ELSE EliminateRules(bare, failed, Optional)
           g == InitState(done.g.alive, done.g.arc)
<1>1. /\ Sketched(graph.nodes, graph.arc) /\ Labels(graph.arc) /\ failed \subseteq Rule /\ problem \in Problem
      /\ \A r \in graph.nodes \cap (Rule \cup {Final}) : Handled(r)
      /\ \A x \in Precondition : Bad(x) => x \in failed \/ (x \notin graph.nodes /\ Missing(x) = {})
  BY GatherNow DEF Gathering
<1> DEFINE D == DOMAIN graph.arc
<1>2. D \in ArcsAmong /\ graph.arc \in [D -> Nat] /\ Gathered(graph.nodes, graph.arc)
  BY <1>1 DEF Sketched, ArcStates
<1>3. \A a \in D : graph.arc[a] # Inactive
  <2> SUFFICES ASSUME NEW a \in D PROVE graph.arc[a] # Inactive
    OBVIOUS
  <2>1. Labelled(graph.arc, a)
    BY <1>1 DEF Labels
  <2>2. \A r \in Rule \cup {Final} : \A k \in DOMAIN Input(r) : k \in Nat \ {0}
    BY <1>1, RuleFacts
  <2> QED BY <2>1, <2>2 DEF Labelled, Source, Unique, Inactive
<1> HIDE DEF D
<1>4. /\ first \in GraphOver(D) /\ Exact(first) /\ first.arc = graph.arc
      /\ first.alive = graph.nodes /\ first.sched = {}
  BY <1>2, InitStateExact
<1>5. Grounded(graph.arc, {}, first)
  BY <1>2, <1>3, InitStateGrounded
<1> HIDE DEF first
<1>6. /\ bare \in GraphOver(D) /\ Sound(Work(bare, {})) /\ bare.arc = graph.arc
      /\ bare.alive = graph.nodes /\ bare.sched = {}
  BY <1>2, <1>4, BareSound DEF Exact
<1> HIDE DEF bare
<1>7. Grounded(graph.arc, {}, bare)
  BY <1>4, <1>5, <1>6, GroundedSame
<1>8. done.ok => /\ done.g \in GraphOver(D) /\ Gathered(done.g.alive, done.g.arc)
                 /\ Grounded(graph.arc, {}, done.g) /\ done.g.alive \subseteq graph.nodes \ failed
  <2>1. CASE failed = {}
    <3>1. done.g = bare
      BY <2>1 DEF Work
    <3> HIDE DEF done
    <3> QED BY <1>2, <1>6, <1>7, <2>1, <3>1
  <2>2. CASE failed # {}
    <3>1. done = EliminateRules(bare, failed, Initial)
      BY <2>2 DEF Optional
    <3>2. failed \in SUBSET Node /\ failed \cap bare.sched = {} /\ Initial \in {Weak, Initial}
      BY <1>1, <1>6, NodeKinds
    <3> HIDE DEF done
    <3>3. /\ done \in WorkOver(D) /\ Linked(done.g) /\ Shrunk(bare, done.g)
          /\ done.ok => failed \cap done.g.alive = {} /\ Grounded(graph.arc, {}, done.g)
      BY <1>2, <1>6, <1>7, <3>1, <3>2, EliminateRulesSound
    <3>4. done.g \in GraphOver(D)
      BY <3>3 DEF WorkOver
    <3>5. Gathered(done.g.alive, done.g.arc)
      BY <1>2, <1>6, <3>3, <3>4, ShrunkGathered
    <3>6. done.g.alive \subseteq graph.nodes
      BY <1>6, <3>3 DEF Shrunk
    <3> QED BY <3>3, <3>4, <3>5, <3>6
  <2> QED BY <2>1, <2>2
<1> HIDE DEF done
<1>9. ASSUME done.ok
      PROVE  /\ g \in GraphOver(D) /\ Exact(g) /\ Grounded(graph.arc, {}, g) /\ g.sched = {}
             /\ \A r \in g.alive \cap (Rule \cup {Final}) : Analysed(r) \/ (r \in Production /\ run[r] = "infeasible")
             /\ \A q \in Precondition \cap g.alive : ~Bad(q)
  <2>1. done.g.arc \in [D -> Nat]
    BY <1>8, <1>9 DEF GraphOver
  <2>2. g \in GraphOver(D) /\ Exact(g) /\ g.arc = done.g.arc /\ g.alive = done.g.alive /\ g.sched = {}
    BY SMTT(30), <1>2, <1>8, <1>9, <2>1, InitStateExact
  <2> HIDE DEF g
  <2>3. Grounded(graph.arc, {}, g)
    BY <1>8, <1>9, <2>2, GroundedSame
  <2>4. \A r \in g.alive \cap (Rule \cup {Final}) : Analysed(r) \/ (r \in Production /\ run[r] = "infeasible")
    <3> SUFFICES ASSUME NEW r \in g.alive \cap (Rule \cup {Final}) PROVE Analysed(r) \/ (r \in Production /\ run[r] = "infeasible")
      OBVIOUS
    <3>1. r \in graph.nodes /\ r \notin failed
      BY <1>8, <1>9, <2>2
    <3>2. r \notin ToSet(todo)
      BY EmptyDue
    <3> QED BY <1>1, <3>1, <3>2 DEF Handled
  <2>5. \A q \in Precondition \cap g.alive : ~Bad(q)
    BY <1>1, <1>8, <1>9, <2>2
  <2> QED BY <2>2, <2>3, <2>4, <2>5
<1> HIDE DEF g
<1> QED BY <1>2, <1>9 DEF g, done, bare, first, D

(* The search begins, or is not needed.                                                  *)
LEMMA FinalizeGatherDue ==
  ASSUME Inv, DueInv, FinalizeGather, ~Overlooked'
  PROVE  DueInv' /\ (phase' = "done" /\ result' = "OK" => Missing(Final) = {})
<1> DEFINE bare == [InitState(graph.nodes, graph.arc) EXCEPT !.flagged = {}, !.ready = {}]
           done == IF failed = {} THEN Work(bare, {}) ELSE EliminateRules(bare, failed, Optional)
           g == InitState(done.g.alive, done.g.arc)
<1>1. /\ phase = "gather" /\ todo = <<>> /\ UNCHANGED <<problem, have, run, graph, todo, heap>>
      /\ self' = [NoChain EXCEPT !.g = g] /\ top' = self'
      /\ \/ phase' = "done" /\ result' = "nothing"
         \/ done.ok /\ IsComplete(g) /\ phase' = "done" /\ result' = "OK"
         \/ done.ok /\ phase' = "build"
  BY DEF FinalizeGather, Answer
<1>2. /\ DOMAIN graph.arc \in ArcsAmong
      /\ done.ok =>
           /\ g \in GraphOver(DOMAIN graph.arc) /\ Exact(g) /\ Grounded(graph.arc, {}, g) /\ g.sched = {}
           /\ \A r \in g.alive \cap (Rule \cup {Final}) : Analysed(r) \/ (r \in Production /\ run[r] = "infeasible")
           /\ \A q \in Precondition \cap g.alive : ~Bad(q)
  BY <1>1, FirstChain
<1> HIDE DEF done, g
<1>3. /\ problem \in Problem /\ run \in [Rule -> Results] /\ Labels(graph.arc) /\ Delivered /\ heap = {}
      /\ \A r \in Production : run[r] \in {"none", "infeasible"}
  BY <1>1, GatherNow DEF Gathering, DueInv, Inv, HeapInv
<1>4. self'.g = g /\ self'.rules = <<>>
  <2>1. NoChain.rules = <<>> /\ NoChain = [g |-> NoChain.g, rules |-> NoChain.rules, weight |-> NoChain.weight, verts |-> NoChain.verts]
    BY NoChainExact, ChainParts
  <2> QED BY <1>1, <2>1
<1>5. Delivered'
  BY <1>1, <1>3 DEF Delivered, Output
<1>6. CASE phase' = "done" /\ result' = "nothing"
  BY <1>5, <1>6, StoppedDue
<1>7. CASE done.ok /\ IsComplete(g) /\ phase' = "done" /\ result' = "OK"
  <2>1. DueInv'
    BY <1>5, <1>7, StoppedDue
  <2>2. Final \in g.alive /\ Final \in Node /\ Open(g, Final) = {}
    BY <1>2, <1>7, FlaggedOpen DEF IsComplete
  <2>3. \A a \in DOMAIN graph.arc : a[2] # Final
    <3> SUFFICES ASSUME NEW a \in DOMAIN graph.arc, a[2] = Final PROVE FALSE
      OBVIOUS
    <3>1. Fed(graph.arc, Work(g, {})) /\ DOMAIN g.arc = DOMAIN graph.arc
      BY <1>2, <1>7 DEF Grounded, Carry, GraphOver
    <3>2. PICK b \in DOMAIN g.arc : b[2] = Final /\ g.arc[b] # Inactive
      BY <2>2, <3>1 DEF Fed, Work
    <3>3. b = <<b[1], Final>> /\ b[1] \in Node
      BY <1>2, <3>1, <3>2 DEF ArcsAmong
    <3>4. b[1] \in g.sched
      BY <1>2, <1>7, <2>2, <3>1, <3>2, <3>3, ArcsUsed
    <3> QED BY <1>2, <1>7, <3>4
  <2>4. Analysed(Final)
    BY <1>2, <1>7, <2>2, NodesDisjoint
  <2>5. Missing(Final) = {}
    BY <2>3, <2>4 DEF Analysed, Missing
  <2> QED BY <2>1, <2>5
<1>8. CASE done.ok /\ phase' = "build"
  <2>1. \A r \in Production \cap g.alive : run[r] # "infeasible"
    BY <1>1, <1>4, <1>8 DEF Overlooked, Working, Searching
  <2>2. PICK s : s = self'
    OBVIOUS
  <2>3. Rooted(s)
    <3>1. \A r \in s.g.alive \cap (Rule \cup {Final}) : Analysed(r)
      BY <1>2, <1>4, <1>8, <2>1, <2>2
    <3> QED BY <1>2, <1>4, <1>8, <2>2, <3>1 DEF Rooted
  <2>4. Backed(s, s)
    BY <1>4, <2>2, <2>3, BackedSelf
  <2>5. Adds /\ graph' = graph /\ heap' = {}
    BY <1>1, <1>3 DEF Adds
  <2>6. Rooted(self)' /\ Backed(top, self)'
    BY <1>1, <1>3, <2>2, <2>3, <2>4, <2>5, AddsKeeps
  <2>7. BackedHeap(heap, self)'
    BY <2>5 DEF BackedHeap
  <2>8. \A r \in Rule \cap g.alive : ~Bad(r)
    <3> SUFFICES ASSUME NEW r \in Rule \cap g.alive, Bad(r) PROVE FALSE
      OBVIOUS
    <3>1. r \in Production \/ r \in Precondition
      BY DEF Rule
    <3> QED BY <1>2, <1>3, <1>8, <2>1, <3>1 DEF Bad
  <2>9. Sifted(self, {})'
    BY <1>1, <1>4, <2>8 DEF Sifted, Bad
  <2>10. Fresh(self, {})'
    BY <1>1, <1>3 DEF Fresh
  <2>11. DOMAIN graph'.arc \in ArcsAmong /\ Labels(graph.arc)'
    BY <1>1, <1>2, <1>3 DEF Labels, Labelled, Input, Output, Pre
  <2>12. SelfDue'
    BY <1>8, <2>6, <2>9, <2>11 DEF SelfDue
  <2>13. ChoiceDue' /\ DraftsDue'
    BY <2>6, <2>7, <2>10 DEF ChoiceDue, DraftsDue
  <2>14. GatherDue' /\ ListDue' /\ ReplayDue'
    BY <1>8 DEF GatherDue, ListDue, ReplayDue, Gathering
  <2>15. DueInv'
    BY <1>5, <2>12, <2>13, <2>14 DEF DueInv
  <2> QED BY <1>8, <2>15
<1> QED BY <1>1, <1>6, <1>7, <1>8

(* Nothing has been run at the beginning.                                                *)
LEMMA InitDue == Init => DueInv
<1> SUFFICES ASSUME Init PROVE DueInv
  OBVIOUS
<1>1. /\ problem \in Problem /\ run = [r \in Rule |-> "none"] /\ phase = "gather"
      /\ graph = [nodes |-> {Final}, arc |-> <<>>] /\ todo = <<Final>>
  BY DEF Init
<1>2. \A r \in Rule : run[r] = "none"
  BY <1>1
<1>3. Delivered
  BY <1>2, NodeKinds DEF Delivered
<1>4. Labels(graph.arc)
  BY <1>1 DEF Labels
<1>5. \A r \in graph.nodes : r \in ToSet(todo)
  <2>1. ToSet(<<Final>>) = {Final}
    <3>1. Final \in Node
      BY NodeKinds
    <3> QED BY <3>1, SingleList
  <2> QED BY <1>1, <2>1
<1>6. GatherDue
  BY <1>1, <1>2, <1>4, <1>5, NodeKinds DEF GatherDue, Handled, Bad
<1> QED BY <1>1, <1>3, <1>6 DEF DueInv, SelfDue, DraftsDue, ChoiceDue, ListDue, ReplayDue, Working, Searching, Choosing

(* Nothing changes when nothing happens.                                                 *)
LEMMA IdleDue ==
  ASSUME problem \in Problem, DueInv, UNCHANGED vars PROVE DueInv'
<1>1. UNCHANGED <<problem, have, run, phase, graph, todo, cur, checks, failed, worked, self, top, heap>>
  BY DEF vars
<1>2. Adds
  BY <1>1 DEF Adds
<1>3. \A r : Input(r)' = Input(r) /\ Output(r)' = Output(r) /\ Pre(r)' = Pre(r)
  BY <1>1 DEF Input, Output, Pre
<1>4. Delivered'
  BY <1>1, <1>3 DEF DueInv, Delivered
<1>5. Labels(graph.arc) => Labels(graph.arc)'
  BY <1>1 DEF Labels, Labelled, Input, Output, Pre
<1>6. \A r \in Rule \cup {Final} : Analysed(r) => Analysed(r)'
  BY <1>1, <1>2, AddsKeeps
<1>7. GatherDue'
  <2>1. Gathering' => Gathering
    BY <1>1 DEF Gathering
  <2>2. ASSUME Gathering, NEW r \in graph.nodes \cap (Rule \cup {Final}) PROVE Handled(r)'
    <3>1. Handled(r)
      BY <2>2 DEF DueInv, GatherDue
    <3> QED BY <1>1, <1>6, <3>1 DEF Handled, ToSet
  <2>3. ASSUME Gathering, phase = "consider", cur.rule # Final
        PROVE  /\ ToSet(cur.pre)' \subseteq ToSet(Pre(cur.rule))'
               /\ \A q \in ToSet(Pre(cur.rule))' : q \in ToSet(cur.pre)' \/ run'[q] = "OK" \/ <<q, cur'.rule>> \in DOMAIN graph'.arc
    BY <1>1, <2>3 DEF DueInv, GatherDue, Pre, ToSet
  <2>4. Gathering => \A q \in Precondition : Bad(q)' => q \in failed' \/ (q \notin graph'.nodes /\ Missing(q)' = {})
    BY <1>1 DEF DueInv, GatherDue, Bad, Missing, Input
  <2>5. Gathering => Labels(graph.arc)' /\ Final \in graph'.nodes /\ \A r \in Production : run'[r] \in {"none", "infeasible"}
    BY <1>1, <1>5 DEF DueInv, GatherDue
  <2> QED BY <1>1, <2>1, <2>2, <2>3, <2>4, <2>5 DEF GatherDue
<1>8. SelfDue'
  <2>1. Working' => Working
    BY <1>1 DEF Working, Searching
  <2>2. Rooted(self) => Rooted(self)'
    BY <1>1, <1>2, AddsKeeps
  <2>3. ASSUME Working PROVE Sifted(self, IF phase = "suppliers" THEN failed ELSE {})'
    BY <1>1, <2>3 DEF DueInv, SelfDue, Sifted, Bad
  <2> QED BY <1>1, <1>5, <2>1, <2>2, <2>3 DEF DueInv, SelfDue
<1>9. DraftsDue'
  <2>1. Searching' => Searching
    BY <1>1 DEF Searching
  <2>2. Backed(top, self) /\ BackedHeap(heap, self) => Backed(top, self)' /\ BackedHeap(heap, self)'
    BY <1>1, <1>2, AddsKeeps
  <2> QED BY <2>1, <2>2 DEF DueInv, DraftsDue
<1>10. ChoiceDue'
  BY <1>1 DEF DueInv, ChoiceDue, Choosing, Spent, Fresh
<1>11. ListDue'
  <2>1. ASSUME phase \in {"suppliers", "execute"} PROVE ListDue'
    <3>1. DueList(todo)' /\ \A x : Met(x, Made(ToSet(todo))) => Met(x, Made(ToSet(todo)))'
      BY <1>1, <2>1, DueSame DEF DueInv, ListDue
    <3>2. Fresh(self, ToSet(worked))' /\ (ToSet(worked) \subseteq Finished)'
      BY <1>1, <2>1 DEF DueInv, ListDue, Fresh, ToSet, Finished
    <3>3. Plain(Final)' => Plain(Final)
      BY <1>1 DEF Plain, Input
    <3>4. phase = "execute" /\ Plain(Final) => Met(Final, Made(ToSet(todo)))
      BY <2>1 DEF DueInv, ListDue
    <3>5. phase = "suppliers" => /\ \A q \in checks : run[q] = "none" /\ Met(q, Made(ToSet(todo)))
                                 /\ todo # <<>> => failed = {}
      BY <2>1 DEF DueInv, ListDue
    <3> QED BY <1>1, <3>1, <3>2, <3>3, <3>4, <3>5 DEF ListDue
  <2>2. CASE phase \notin {"suppliers", "execute"}
    BY <1>1, <2>2 DEF ListDue
  <2> QED BY <2>1, <2>2
<1>12. ReplayDue'
  BY <1>1 DEF DueInv, ReplayDue, Fresh, ToSet, Finished
<1> QED BY <1>4, <1>7, <1>8, <1>9, <1>10, <1>11, <1>12 DEF DueInv

(* Every step of the scheduler.                                                          *)
LEMMA StepDue ==
  ASSUME Inv, Inv', DueInv, [Next \/ Idle]_vars, ~Lost, ~Overlooked' PROVE DueInv'
<1>1. CASE Next
  <2>1. CASE GatherRule
    BY <2>1, GatherRuleDue
  <2>2. CASE ConsiderInputs
    BY <2>2, ConsiderInputsDue
  <2>3. CASE FinalizeGather
    BY <2>3, FinalizeGatherDue
  <2>4. ASSUME NEW q \in Precondition,
               DismissRule(q) \/ SkipSatisfied(q) \/ RejectPre(q) \/ EvaluatePre(q) \/ PostponePre(q)
        PROVE  DueInv'
    BY <2>4, DismissRuleDue, SkipSatisfiedDue, RejectPreDue, EvaluatePreDue, PostponePreDue
  <2>5. CASE CheckPending
    BY <2>5, CheckPendingDue
  <2>6. CASE ExecuteSupplier
    BY <2>6, ExecuteSupplierDue
  <2>7. CASE EndOfChecks
    BY <2>7, EndOfChecksDue
  <2>8. CASE SchedulePre
    BY <2>8, SchedulePreDue
  <2>9. ASSUME NEW q \in Precondition, CheckPre(q) PROVE DueInv'
    BY <2>9, CheckPreDue
  <2>10. ASSUME NEW r \in Production, ScheduleTrivial(r) \/ Split(r) PROVE DueInv'
    BY <2>10, ScheduleTrivialDue, SplitDue
  <2>11. CASE EndOfTrivial \/ EndOfSplit \/ PopNone
    BY <2>11, PhaseDue
  <2>12. ASSUME NEW a \in heap, Pop(a) PROVE DueInv'
    BY <2>12, PopDue
  <2>13. CASE Execute
    BY <2>13, ExecuteDue
  <2>14. CASE Succeed
    BY <2>14, SucceedDue
  <2>15. CASE ReplayRule
    BY <2>15, ReplayRuleDue
  <2>16. CASE EndOfReplay
    BY <2>16, EndOfReplayDue
  <2> QED BY <1>1, <2>1, <2>2, <2>3, <2>4, <2>5, <2>6, <2>7, <2>8, <2>9, <2>10, <2>11, <2>12, <2>13, <2>14,
             <2>15, <2>16 DEF Next
<1>2. CASE UNCHANGED vars
  BY <1>2, IdleDue DEF Inv, TypeInv
<1> QED BY <1>1, <1>2 DEF Idle

(* The rule at the head of the list is due.                                              *)
LEMMA HeadDue ==
  ASSUME Inv, DueInv PROVE RunsOnlyWhenDue
<1>1. ASSUME phase \in {"execute", "suppliers"}, todo # <<>>
      PROVE  /\ run[Head(todo)] = "none" /\ Provided(Head(todo))
             /\ Head(todo) \in Production => \A q \in ToSet(Pre(Head(todo))) : run[q] = "OK"
  <2>1. DueList(todo) /\ todo \in Seq(Rule)
    BY <1>1, ListNow
  <2>2. 1 \in DOMAIN todo /\ Head(todo) = todo[1]
    BY <1>1, <2>1
  <2>3. Before(todo, 1) = {}
    BY DEF Before
  <2>4. Made({}) = have
    BY DEF Made
  <2>5. run[todo[1]] = "none" /\ Met(todo[1], have)
    BY <2>1, <2>2, <2>3, <2>4 DEF DueList
  <2>6. todo[1] \in Production => \A q \in ToSet(Pre(todo[1])) : run[q] = "OK"
    BY <2>1, <2>2, <2>3 DEF DueList
  <2> QED BY <2>2, <2>5, <2>6 DEF Provided, Met
<1>2. ASSUME phase = "suppliers", todo = <<>>, NEW q \in checks PROVE Provided(q)
  <2>1. Met(q, Made(ToSet(todo)))
    BY <1>2 DEF DueInv, ListDue
  <2>2. Made(ToSet(todo)) = have
    BY <1>2, EmptyDue DEF Made
  <2> QED BY <2>1, <2>2 DEF Provided, Met
<1> QED BY <1>1, <1>2 DEF RunsOnlyWhenDue

(* However many chains are tried, whichever rules fail, and for whatever sake a rule is executed:
   its inputs exist, its preconditions have been found to hold and it has not been executed or
   found infeasible before.  The executions excluded are those in which every chain needs a
   failed precondition, and those that begin to search with a rule dismissed while gathering.    *)
THEOREM RulesRunWhenDue == Spec /\ []~Lost /\ []~Overlooked => []RunsOnlyWhenDue
<1>1. Init => Inv /\ DueInv
  BY InitInv, InitDue
<1>2. Inv /\ DueInv /\ [Next \/ Idle]_vars /\ ~Lost /\ ~Overlooked' => Inv' /\ DueInv'
  <2> SUFFICES ASSUME Inv, DueInv, [Next \/ Idle]_vars, ~Lost, ~Overlooked' PROVE Inv' /\ DueInv'
    OBVIOUS
  <2>1. Inv'
    BY StepInv
  <2> QED BY <2>1, StepDue
<1>3. Inv /\ DueInv => RunsOnlyWhenDue
  BY HeadDue
<1> QED BY <1>1, <1>2, <1>3, PTL DEF Spec

\* No property is requested twice.
DistinctRequests == \A p \in Problem : \A j, k \in DOMAIN p.input[Final] :
                      j # k => p.input[Final][j] \cap p.input[Final][k] = {}

(* What has been provided stays provided.                                                *)
LEMMA ProvidedStays ==
  ASSUME UNCHANGED problem, have \subseteq have', Missing(Final) = {} PROVE Missing(Final)' = {}
BY DEF Missing, Input

(* Success is declared only when all requested properties are there.                     *)
LEMMA StepProvides ==
  ASSUME Inv, DueInv, DistinctRequests, SuccessMeansProvided, [Next \/ Idle]_vars, ~Overlooked'
  PROVE  SuccessMeansProvided'
<1>1. problem \in Problem
  BY DEF Inv, TypeInv
<1>2. ASSUME UNCHANGED <<problem, result>>, have \subseteq have' PROVE SuccessMeansProvided'
  BY <1>2, ProvidedStays DEF SuccessMeansProvided
<1>3. ASSUME NEW r \in Rule, NEW ok \in BOOLEAN, Run(r, ok) PROVE have \subseteq have'
  BY <1>3 DEF Run
<1>4. ASSUME result' # "OK" PROVE SuccessMeansProvided'
  BY <1>4 DEF SuccessMeansProvided
<1>5. CASE Next
  <2>1. CASE \/ GatherRule \/ CheckPending \/ EndOfChecks \/ SchedulePre \/ EndOfTrivial \/ EndOfSplit
             \/ ReplayRule \/ EndOfReplay
    BY <1>2, <2>1 DEF GatherRule, CheckPending, EndOfChecks, SchedulePre, EndOfTrivial, EndOfSplit, ReplayRule, EndOfReplay
  <2>2. CASE ConsiderInputs
    <3>1. UNCHANGED <<problem, have>> /\ (result' = result \/ result' = "nothing")
      BY <2>2 DEF ConsiderInputs, Answer
    <3> QED BY <1>2, <1>4, <3>1
  <2>3. CASE FinalizeGather
    <3>1. UNCHANGED <<problem, have>> /\ (result' = result \/ result' = "nothing" \/ (result' = "OK" /\ phase' = "done"))
      BY <2>3 DEF FinalizeGather, Answer
    <3>2. phase' = "done" /\ result' = "OK" => Missing(Final) = {}
      BY <2>3, FinalizeGatherDue
    <3>3. Missing(Final) = {} => Missing(Final)' = {}
      BY <3>1, ProvidedStays
    <3> QED BY <1>2, <1>4, <3>1, <3>2, <3>3 DEF SuccessMeansProvided
  <2>4. ASSUME NEW q \in Precondition,
               DismissRule(q) \/ SkipSatisfied(q) \/ RejectPre(q) \/ EvaluatePre(q) \/ PostponePre(q)
        PROVE  SuccessMeansProvided'
    <3>1. UNCHANGED <<problem, result>>
      BY <2>4 DEF DismissRule, SkipSatisfied, RejectPre, EvaluatePre, PostponePre, ConsiderPre
    <3>2. q \in Rule
      BY NodeKinds
    <3>3. have' = have \/ Run(q, TRUE)
      BY <2>4 DEF DismissRule, SkipSatisfied, RejectPre, EvaluatePre, PostponePre
    <3> QED BY <1>2, <1>3, <3>1, <3>2, <3>3
  <2>5. CASE ExecuteSupplier
    <3>1. phase = "suppliers" /\ todo # <<>> /\ UNCHANGED <<problem, result>>
          /\ (Run(Head(todo), TRUE) \/ Run(Head(todo), FALSE))
      BY <2>5 DEF ExecuteSupplier
    <3>2. Head(todo) \in Rule
      BY <3>1, ListNow
    <3> QED BY <1>2, <1>3, <3>1, <3>2
  <2>6. ASSUME NEW q \in Precondition, CheckPre(q) PROVE SuccessMeansProvided'
    <3>1. UNCHANGED <<problem, result>> /\ (Run(q, TRUE) \/ Run(q, FALSE)) /\ q \in Rule
      BY <2>6, NodeKinds DEF CheckPre
    <3> QED BY <1>2, <1>3, <3>1
  <2>7. ASSUME NEW r \in Production, ScheduleTrivial(r) \/ Split(r) PROVE SuccessMeansProvided'
    BY <1>2, <2>7 DEF ScheduleTrivial, Split
  <2>8. CASE PopNone
    <3>1. result' # "OK"
      BY <2>8 DEF PopNone, GiveUp, Answer
    <3> QED BY <1>4, <3>1
  <2>9. ASSUME NEW a \in heap, Pop(a) PROVE SuccessMeansProvided'
    BY <1>2, <2>9 DEF Pop
  <2>10. CASE Execute
    <3>1. phase = "execute" /\ todo # <<>> /\ problem' = problem
          /\ (Run(Head(todo), TRUE) \/ Run(Head(todo), FALSE))
          /\ (result' = result \/ result' # "OK")
      BY <2>10 DEF Execute, GiveUp, Answer
    <3>2. Head(todo) \in Rule
      BY <3>1, ListNow
    <3> QED BY <1>2, <1>3, <1>4, <3>1, <3>2
  <2>11. CASE Succeed
    <3>1. phase = "execute" /\ todo = <<>> /\ UNCHANGED <<problem, have>>
      BY <2>11 DEF Succeed
    <3>2. Plain(Final)
      BY <1>1 DEF DistinctRequests, Plain, Input
    <3>3. Met(Final, Made(ToSet(todo)))
      BY <3>1, <3>2 DEF DueInv, ListDue
    <3>4. Made(ToSet(todo)) = have
      BY <3>1, EmptyDue DEF Made
    <3>5. Missing(Final) = {}
      BY <3>3, <3>4 DEF Met, Missing
    <3> QED BY <3>1, <3>5, ProvidedStays DEF SuccessMeansProvided
  <2> QED BY <1>5, <2>1, <2>2, <2>3, <2>4, <2>5, <2>6, <2>7, <2>8, <2>9, <2>10, <2>11 DEF Next
<1>6. CASE UNCHANGED vars
  <2>1. UNCHANGED <<problem, have, result>>
    BY <1>6 DEF vars
  <2> QED BY <1>2, <2>1
<1> QED BY <1>5, <1>6 DEF Idle

(* When the scheduler answers that a request has been resolved, the object has all properties
   asked for, whatever rules failed on the way and whichever preconditions were checked early, in
   the executions of RulesRunWhenDue and for requests that ask for no property twice.            *)
THEOREM SuccessProvides ==
  ASSUME DistinctRequests
  PROVE  Spec /\ []~Lost /\ []~Overlooked => []SuccessMeansProvided
<1>1. Init => Inv /\ DueInv /\ SuccessMeansProvided
  BY InitInv, InitDue DEF Init, SuccessMeansProvided
<1>2. Inv /\ DueInv /\ SuccessMeansProvided /\ [Next \/ Idle]_vars /\ ~Lost /\ ~Overlooked'
        => Inv' /\ DueInv' /\ SuccessMeansProvided'
  <2> SUFFICES ASSUME Inv, DueInv, SuccessMeansProvided, [Next \/ Idle]_vars, ~Lost, ~Overlooked'
               PROVE  Inv' /\ DueInv' /\ SuccessMeansProvided'
    OBVIOUS
  <2>1. Inv'
    BY StepInv
  <2> QED BY <2>1, StepDue, StepProvides
<1> QED BY <1>1, <1>2, PTL DEF Spec
=============================================================================
