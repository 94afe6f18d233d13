----------------------------- MODULE RuleGraph -----------------------------
(***************************************************************************)
(* The graph of production rules, preconditions and properties the         *)
(* scheduler searches for a rule chain: lib/core/src/perl/RuleGraph.xxs.   *)
(*                                                                         *)
(* Rules are connected through property nodes: an arc leads from a rule to *)
(* each property it creates and from a property to each rule that reads    *)
(* it; a precondition has an arc to its rule.  Every rule chain under      *)
(* construction has a state of its own, a record g:                        *)
(*   arc      state of each arc, a code from Inactive upwards              *)
(*   pending  number of unresolved suppliers of a node                     *)
(*   out      number of consumers that still need a node                   *)
(*   alive, flagged, sched   nodes that are not eliminated, have the       *)
(*            flag ready_node, are scheduled                               *)
(*   ready    the rules on the list of rules to schedule next              *)
(* Permutations and new instances of multiple subobjects are not modelled: *)
(* no arc is exclusive, and none is activated later.                       *)
(***************************************************************************)
EXTENDS Integers, Sequences, FiniteSets, FiniteSetsExt

CONSTANTS Production,    \* production rules
          Precondition,  \* preconditions of production rules
          Property,      \* property nodes
          Final          \* the final rule, which stands for the request

ASSUME NodesDisjoint ==
  /\ Production \cap Precondition = {} /\ Production \cap Property = {}
  /\ Precondition \cap Property = {} /\ Final \notin Production \cup Precondition \cup Property
ASSUME NodesFinite == IsFiniteSet(Production) /\ IsFiniteSet(Precondition) /\ IsFiniteSet(Property)

Rule == Production \cup Precondition
Node == Rule \cup Property \cup {Final}

\* Arc states.  An input of a rule is a group of alternative properties: the arcs of its
\* k-th input all have the state Source + k - 1.
Inactive == 0
Weak == 1
Initial == 2
Optional == Initial
Unique == 4
Resolved == 5
Source == 6

\* Consumers and suppliers along the arcs that are still active.
Consumers(g, n) == {m \in Node : <<n, m>> \in DOMAIN g.arc /\ g.arc[<<n, m>>] # Inactive}
Suppliers(g, n) == {m \in Node : <<m, n>> \in DOMAIN g.arc /\ g.arc[<<m, n>>] # Inactive}

\* The suppliers of c that n competes with, n included.
Group(g, n, c) ==
  IF g.arc[<<n, c>>] >= Source
    THEN {s \in Suppliers(g, c) : g.arc[<<s, c>>] = g.arc[<<n, c>>]}
    ELSE {n}

\* init_state: the counters for a graph with the given nodes and arcs.
InitState(nodes, arc) ==
  LET active == {a \in DOMAIN arc : arc[a] # Inactive}
      pending == [n \in Node |-> Cardinality({a \in active : a[2] = n})]
      ready == {n \in nodes \ Property : pending[n] = 0}
  IN  [arc |-> arc,
       pending |-> pending,
       out |-> [n \in Node |-> Cardinality({a \in active : a[1] = n /\ arc[a] > Optional})],
       alive |-> nodes, flagged |-> ready, sched |-> {}, ready |-> ready]

IsComplete(g) == Final \in g.flagged

-----------------------------------------------------------------------------
(* Elimination.  A work record w holds the state w.g, the marked nodes and  *)
(* the queue of nodes to eliminate; w.ok is the result of eliminate().      *)

\* Mutant of Starved: alternative suppliers are forgotten.
Starved_NoAlternative(w, n, maxopt) ==
  {c \in Consumers(w.g, n) \ w.marked : w.g.arc[<<n, c>>] > maxopt}

\* Consumers of n that become infeasible without it: there is no other supplier for the same
\* input.  A supplier on the queue still counts; it takes the consumer along later.
Starved(w, n, maxopt) ==
  {c \in Consumers(w.g, n) \ w.marked :
     w.g.arc[<<n, c>>] > maxopt /\ Group(w.g, n, c) = {n}}

\* One iteration of the loop over the queue.  A useless node takes its own suppliers along,
\* except for scheduled rules: a production rule scheduled in vain invalidates the variant,
\* a precondition is tolerated.
EliminateNode(w, n, maxopt) ==
  LET g == w.g
      starved == Starved(w, n, maxopt)
      needed == {s \in Suppliers(g, n) \ (w.marked \cup starved) : g.arc[<<s, n>>] > Optional}
      useless == {s \in needed : g.out[s] = 1}
      doomed == starved \cup {s \in useless : s \in Property \/ s \notin g.sched}
  IN  IF Final \in starved \/ useless \cap g.sched \cap Production # {}
      THEN [w EXCEPT !.ok = FALSE]
      ELSE [ok |-> TRUE,
            marked |-> w.marked \cup doomed,
            queue |-> (w.queue \ {n}) \cup doomed,
            g |-> [arc |-> [a \in DOMAIN g.arc |-> IF n \in {a[1], a[2]} THEN Inactive ELSE g.arc[a]],
                   pending |-> [m \in Node |-> CASE m = n -> 0
                                                 [] m \in Consumers(g, n) -> g.pending[m] - 1
                                                 [] OTHER -> g.pending[m]],
                   out |-> [m \in Node |-> CASE m = n -> 0
                                             [] m \in needed -> g.out[m] - 1
                                             [] OTHER -> g.out[m]],
                   alive |-> g.alive \ {n}, flagged |-> g.flagged \ {n},
                   sched |-> g.sched \ {n}, ready |-> g.ready \ {n}]]

\* Every node is queued at most once per round, so Node iterations empty the queue.
Drain(w, maxopt) ==
  FoldSet(LAMBDA i, v : IF v.queue = {} \/ ~v.ok THEN v
                        ELSE EliminateNode(v, CHOOSE n \in v.queue : TRUE, maxopt),
          w, 1..Cardinality(Node))

\* The nodes found by the reverse search from the final rule, which stops at scheduled rules.
Reached(g) ==
  FoldSet(LAMBDA i, R : R \cup UNION {Suppliers(g, m) : m \in R \ g.sched}, {Final}, 1..Cardinality(Node))

Unreached(g) == (g.alive \ g.sched) \ Reached(g)

\* The second round, for the nodes without a path to the request.
Eliminate(w, maxopt) ==
  LET first == Drain(w, maxopt)
  IN  IF ~first.ok \/ IsComplete(first.g) THEN first
      ELSE Drain([first EXCEPT !.marked = Node \ (Reached(first.g) \cup first.g.sched),
                               !.queue = Unreached(first.g)], maxopt)

Work(g, queue) == [g |-> g, marked |-> queue, queue |-> queue, ok |-> TRUE]

\* eliminate(), as the scheduler calls it for failed and skipped rules.
EliminateRules(g, rules, maxopt) == Eliminate(Work(g, rules), maxopt)

-----------------------------------------------------------------------------
(* Scheduling *)

\* Mutant of Resolve: the suppliers of an input count as one.
Resolve_CountsOne(w, n, c) ==
  LET g == w.g
      group == Group(g, n, c)
      losers == group \ ({n} \cup w.marked)
      useless == {s \in losers : g.out[s] = 1}
  IN  [w EXCEPT
        !.marked = @ \cup useless,
        !.queue = @ \cup useless,
        !.g.arc = [a \in DOMAIN g.arc |-> CASE a = <<n, c>> -> Resolved
                                            [] a[2] = c /\ a[1] \in group \ {n} -> Inactive
                                            [] OTHER -> g.arc[a]],
        !.g.out = [m \in Node |-> IF m \in losers THEN g.out[m] - 1 ELSE g.out[m]],
        !.g.pending[c] = @ - 1]

\* n has become available to its consumer c: the other suppliers of the same input are not
\* needed any more.
Resolve(w, n, c) ==
  LET g == w.g
      group == Group(g, n, c)
      losers == group \ ({n} \cup w.marked)
      useless == {s \in losers : g.out[s] = 1}
  IN  [w EXCEPT
        !.marked = @ \cup useless,
        !.queue = @ \cup useless,
        !.g.arc = [a \in DOMAIN g.arc |-> CASE a = <<n, c>> -> Resolved
                                            [] a[2] = c /\ a[1] \in group \ {n} -> Inactive
                                            [] OTHER -> g.arc[a]],
        !.g.out = [m \in Node |-> IF m \in losers THEN g.out[m] - 1 ELSE g.out[m]],
        !.g.pending[c] = @ - Cardinality(group)]

\* add_rule: n is scheduled, WhenReady says what happens to a consumer all of whose inputs
\* are resolved.
Supply(w, n, enforced, WhenReady(_, _)) ==
  LET start == [w EXCEPT !.g.flagged = @ \ {n}, !.g.sched = @ \cup {n}, !.g.out[n] = @ + enforced]
      one(c, v) ==
        IF c \in v.marked \/ v.g.arc[<<n, c>>] = Inactive THEN v
        ELSE LET u == Resolve(v, n, c)
             IN  IF u.g.pending[c] = 0 /\ c \notin u.g.flagged \cup u.g.sched
                   THEN WhenReady(u, c) ELSE u
  IN  FoldSet(one, start, Consumers(w.g, n))

MakeReady(w, c) == [w EXCEPT !.g.flagged = @ \cup {c}, !.g.ready = @ \cup {c}]

\* Properties are scheduled together with the first rule that creates them.
SupplyRule(w, r, enforced) ==
  LET property(v, p) == Supply(v, p, 0, MakeReady)
  IN  Supply(w, r, enforced, LAMBDA v, c : IF c \in Property THEN property(v, c) ELSE MakeReady(v, c))

AddScheduledRule(g, r, enforced) == Eliminate(SupplyRule(Work(g, {}), r, enforced), Optional)

\* select_ready_rule: prefer a property whose producers are all ready, and few; otherwise one
\* with few consumers; take the most expensive of its ready producers.
SelectReady(g, weight) ==
  LET products(r) == {p \in Consumers(g, r) : g.arc[<<r, p>>] = Source}
      producers(p) == {r \in Suppliers(g, p) : g.arc[<<r, p>>] = Source}
      readyProducers(p) == producers(p) \cap g.flagged
      direct == {r \in g.ready : Final \in products(r)}
      candidates == UNION {products(r) : r \in g.ready}
      exclusive == {p \in candidates : producers(p) = readyProducers(p)}
      rank(p) == IF exclusive # {} THEN <<0, Cardinality(readyProducers(p))>>
                                   ELSE <<g.out[p], Cardinality(readyProducers(p))>>
      pool == IF exclusive # {} THEN exclusive ELSE candidates
      better(p, q) == rank(p)[1] < rank(q)[1] \/ (rank(p)[1] = rank(q)[1] /\ rank(p)[2] < rank(q)[2])
      best == {p \in pool : ~\E q \in pool : better(q, p)}
      heirs == UNION {readyProducers(p) : p \in best}
  IN  IF direct # {} THEN direct
      ELSE {r \in heirs : \A s \in heirs : weight[s] <= weight[r]}

-----------------------------------------------------------------------------
(* Rules linked through resolved arcs, with property nodes skipped *)

Via(g, n, m) == <<n, m>> \in DOMAIN g.arc /\ g.arc[<<n, m>>] = Resolved

ResolvedConsumers(g, r) ==
  {c \in Rule \cap (g.flagged \cup g.sched) :
     Via(g, r, c) \/ \E p \in Property : Via(g, r, p) /\ Via(g, p, c)}
ResolvedSuppliers(g, r) ==
  {s \in Rule : Via(g, s, r) \/ \E p \in Property : Via(g, s, p) /\ Via(g, p, r)}
=============================================================================
