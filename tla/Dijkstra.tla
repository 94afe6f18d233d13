------------------------------ MODULE Dijkstra ------------------------------
(***************************************************************************)
(* Shortest paths in a weighted graph (apps/graph/include/                 *)
(* DijkstraShortestPathBase.h and DijkstraShortestPathWithScalarWeights.h) *)
(* on top of the priority queue Heap, which is also used on its own.       *)
(*                                                                         *)
(* A label is a path from the source to a node: its last edge and its      *)
(* cost.  Labels are allocated, compared, taken out of the queue and given *)
(* back while the search runs; they count the labels that go on from them. *)
(* One label per node is kept, as there are no secondary criteria.         *)
(***************************************************************************)
EXTENDS Heap

CONSTANTS
  Graphs,      \* [nodes, directed, arcs |-> a set of <<from, to, weight>>]; an edge of an
               \* undirected graph is there in both directions
  NoLabel,     \* a null pointer
  NotStarted,  \* solve() has not been called
  NoResult     \* it has not returned

ASSUME GraphAssumption ==
  \A g \in Graphs :
    /\ IsFiniteSet(g.nodes) /\ g.directed \in BOOLEAN
    /\ g.arcs \subseteq g.nodes \X g.nodes \X Nat
ASSUME LabelAssumption ==
  /\ {NoLabel, NotStarted, NoResult} \cap Element = {}
  /\ NoLabel # NotStarted /\ NoLabel # NoResult /\ NotStarted # NoResult
\* There is always memory for one label more than there are nodes.
ASSUME MemoryAssumption ==
  \A g \in Graphs : IsFiniteSet(Element) => Cardinality(Element) > Cardinality(g.nodes)

VARIABLES
  request,          \* the graph, source and target, and whether arcs are followed backwards;
                    \* or a client of the queue that is no search
  label,            \* label[l]: node, predecessor and refc of the labels that exist
  labels_on_node,   \* the label of each node
  current,          \* the label popped last, whose arcs are followed
  todo,             \* the arcs still to be followed
  result            \* what solve() returns: a label on the target or NoLabel

searchVars == <<request, label, labels_on_node, current, todo, result>>
dijkstraVars == <<heapVars, searchVars>>

From(a) == IF request.backward THEN a[2] ELSE a[1]
To(a)   == IF request.backward THEN a[1] ELSE a[2]

\* Only the edges of directed graphs can be followed backwards.
Requests(g) ==
  {q \in [kind : {"search"}, graph : {g}, source : g.nodes, target : g.nodes, backward : BOOLEAN] :
     q.backward => g.directed}

DijkstraInit ==
  /\ HeapInit
  /\ \/ \E g \in Graphs : request \in Requests(g)
     \/ request = [kind |-> "queue", graph |-> [nodes |-> {}, arcs |-> {}]]
  /\ label = [l \in {} |-> NoLabel]
  /\ labels_on_node = [n \in request.graph.nodes |-> NoLabel]
  /\ current = NoLabel
  /\ todo = {}
  /\ result = NotStarted

\* The memory a label gets: reclaimed labels are used again.
Allocated == CHOOSE l \in Element \ DOMAIN label : \A m \in Element \ DOMAIN label : l <= m
Keep(f, S) == [x \in S |-> f[x]]

Ready == {NotStarted} \cup IF "again" \in Allowed THEN Element \cup {NoLabel} ELSE {}

\* solve() starts.  It does not clear the labels an earlier call may have left.
start_search ==
  LET l == Allocated
  IN  /\ request.kind = "search" /\ result \in Ready
      /\ request' \in IF result = NotStarted THEN {request} ELSE Requests(request.graph)
      /\ label' = With(label, l, [node |-> request'.source, predecessor |-> NoLabel, refc |-> 1])
      /\ key' = With(key, l, 0)
      /\ labels_on_node' = [labels_on_node EXCEPT ![request'.source] = l]
      /\ heap' = push([heap EXCEPT !.position[l] = -1], key', l)
      /\ result' = NoResult
      /\ UNCHANGED <<current, todo>>

\* One turn of the loop of do_search(): the next label is on the target, or its arcs are to
\* be followed.
PopLabel ==
  /\ request.kind = "search" /\ result = NoResult /\ todo = {} /\ size(heap) > 0
  /\ heap' = pop(heap, key)
  /\ current' = heap.queue[0]
  /\ IF label[current'].node = request.target
     THEN result' = current' /\ UNCHANGED todo
     ELSE /\ todo' = {a \in request.graph.arcs : From(a) = label[current'].node}
          /\ UNCHANGED result
  /\ UNCHANGED <<key, request, label, labels_on_node>>

NoMoreLabels ==
  /\ request.kind = "search" /\ result = NoResult /\ todo = {} /\ size(heap) = 0
  /\ result' = NoLabel
  /\ UNCHANGED <<heapVars, request, label, labels_on_node, current, todo>>

\* Mutant of NewLabelIsBetter: the label a node has is kept.
NewLabelIsBetter_Never(new_cost, cur_label) == FALSE

NewLabelIsBetter(new_cost, cur_label) == new_cost < key[cur_label]

drop_label(l) == IF heap.position[l] >= 0 THEN erase_at(heap, key, heap.position[l]) ELSE heap

\* Mutant of erase_label: the predecessor is not told.
erase_label_Silent(l) ==
  IF label[l].refc > 1 THEN [label EXCEPT ![l].refc = @ - 1] ELSE Keep(label, DOMAIN label \ {l})

\* The labels without l, which nobody goes on from.
erase_label(l) ==
  LET pred == label[l].predecessor
  IN  IF label[l].refc > 1 THEN [label EXCEPT ![l].refc = @ - 1]
      ELSE Keep([label EXCEPT ![pred].refc = @ - 1], DOMAIN label \ {l})

\* Labels with the new one, which goes on from pred.
set_predecessor(labels, new, pred, n) ==
  With([labels EXCEPT ![pred].refc = @ + 1], new, [node |-> n, predecessor |-> pred, refc |-> 1])

push_new_label(labels, h, new, pred, n, cost) ==
  /\ label' = set_predecessor(labels, new, pred, n)
  /\ key' = With(Keep(key, DOMAIN labels), new, cost)
  /\ labels_on_node' = [labels_on_node EXCEPT ![n] = new]
  /\ heap' = push([h EXCEPT !.position[new] = -1], key', new)

Settled(l) == l # NoLabel /\ heap.position[l] < 0

\* An arc of the current label, in any order.  The new label is made while the old one is
\* still there.
propagate ==
  /\ \E a \in todo :
       LET n == To(a)
           cost == key[current] + a[3]
           cur_label == labels_on_node[n]
       IN  /\ todo' = todo \ {a}
           /\ \/ /\ cur_label = NoLabel
                 /\ push_new_label(label, heap, Allocated, current, n, cost)
              \/ /\ cur_label # NoLabel /\ ~Settled(cur_label) /\ NewLabelIsBetter(cost, cur_label)
                 /\ push_new_label(erase_label(cur_label), drop_label(cur_label), Allocated, current, n, cost)
              \/ /\ cur_label # NoLabel
                 /\ Settled(cur_label) \/ ~NewLabelIsBetter(cost, cur_label)
                 /\ UNCHANGED <<heapVars, label, labels_on_node>>
  /\ UNCHANGED <<request, current, result>>

Search == start_search \/ PopLabel \/ NoMoreLabels \/ propagate

DijkstraNext ==
  \/ Search
  \/ request.kind = "queue" /\ HeapNext /\ UNCHANGED searchVars

DijkstraSpec == DijkstraInit /\ [][DijkstraNext]_dijkstraVars
-----------------------------------------------------------------------------
(* Properties                                                              *)

\* The costs of the walks from the source to each node of at most as many arcs as rounds were made.
Start == [n \in request.graph.nodes |-> IF n = request.source THEN {0} ELSE {}]
Extended(costs) ==
  [n \in request.graph.nodes |->
     costs[n] \cup UNION {{c + a[3] : c \in costs[From(a)]} : a \in {b \in request.graph.arcs : To(b) = n}}]
WalkCosts == FoldSet(LAMBDA i, costs : Extended(costs), Start, 1 .. Cardinality(request.graph.nodes))

Finished == result \in Element \cup {NoLabel}

\* What solve() returns has the least cost of all walks to the target, and following the
\* predecessors gives such a path back to the source; it returns nothing only when there is
\* no walk.  Cheaper labels have replaced others in the queue on the way.
ShortestFound ==
  request.kind = "search" /\ Finished =>
    /\ result = NoLabel => WalkCosts[request.target] = {}
    /\ result # NoLabel =>
         /\ label[result].node = request.target /\ key[result] \in WalkCosts[request.target]
         /\ \A c \in WalkCosts[request.target] : key[result] <= c
         /\ \A l \in DOMAIN label :
              LET pred == label[l].predecessor
              IN  IF pred = NoLabel THEN label[l].node = request.source /\ key[l] = 0
                  ELSE \E a \in request.graph.arcs :
                         /\ From(a) = label[pred].node /\ To(a) = label[l].node
                         /\ key[l] = key[pred] + a[3]

\* No label is given back while a node, the queue or another label points to it, none is
\* leaked, and refc is the number of those who do.
LabelsCounted ==
  request.kind = "search" =>
    /\ {labels_on_node[n] : n \in DOMAIN labels_on_node} \ {NoLabel} = DOMAIN label
    /\ Queued \subseteq DOMAIN label
    /\ \A l \in DOMAIN label :
         /\ label[l].predecessor \in DOMAIN label \cup {NoLabel}
         /\ labels_on_node[label[l].node] = l
         /\ label[l].refc = 1 + Cardinality({m \in DOMAIN label : label[m].predecessor = l})
=============================================================================
