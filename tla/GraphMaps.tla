----------------------------- MODULE GraphMaps -----------------------------
(***************************************************************************)
(* Graphs and the edge maps attached to them (src/lib/core/include/Graph.h). *)
(* A Graph is a host of a reference-counted Table; an EdgeMap is a host of *)
(* reference-counted map data, which the table knows and keeps up to date. *)
(* The edges are numbered when the first map arrives (the edge agent), and *)
(* the entries of a map live in buckets addressed by these numbers.  A     *)
(* graph that must not change a shared table copies it and takes the maps  *)
(* registered with it along.                                               *)
(*                                                                         *)
(* An edge is a natural number, its place in the order of iteration.  The  *)
(* value of a map's entry is abstracted to the edge the entry was created  *)
(* for.                                                                    *)
(***************************************************************************)
EXTENDS Naturals, FiniteSets, Sequences, FiniteSetsExt, SequencesExt, Functions

CONSTANTS
  Graphs,       \* the Graph objects
  Maps,         \* the EdgeMap objects
  Edges,        \* the edges that may exist, naturals
  BucketSize,   \* edge_agent_base::bucket_size
  MinBuckets,   \* what min_buckets adds at least
  None,         \* no map, no table
  Junk,         \* what an uninitialised entry holds
  Allowed       \* the steps of KnownFaults that may be taken

ASSUME SizesAssumption == /\ BucketSize \in Nat \ {0}
                          /\ MinBuckets \in Nat \ {0}
                          /\ Edges \subseteq Nat

KnownFaults == {"follow", "gaps", "squeeze", "through"}
ASSUME AllowedAssumption == Allowed \subseteq KnownFaults

Tables == 1 .. Cardinality(Graphs) + 1   \* one more than hosts: a copy is made before the old is left
Datas == 1 .. Cardinality(Maps) + 1

ASSUME ObjectsAssumption == /\ IsFiniteSet(Graphs) /\ IsFiniteSet(Maps)
                            /\ None \notin Graphs \cup Tables \cup Datas

VARIABLES
  graph,    \* graph[g]: the table of g, Graph::data
  table,    \* table[t]: ids of the edges, free_edge_ids, the agent and the attached maps
  data,     \* data[d]: the table it is attached to, its buckets and entries
  map,      \* map[m]: the data of m, SharedMap::map
  owner     \* owner[m]: the graph m is registered with, al_set.owner

vars == <<graph, table, data, map, owner>>

WorldOf(g, t, d, m) == [graph |-> g, table |-> t, data |-> d, map |-> m]
World == WorldOf(graph, table, data, map)

Become(w) == /\ graph' = w.graph
             /\ table' = w.table
             /\ data'  = w.data
             /\ map'   = w.map

NoEntries == [x \in {} |-> x]
EmptyTable == [ids |-> NoEntries, free |-> <<>>, agent |-> FALSE, n_alloc |-> 0, maps |-> {}]
NoData == [table |-> None, n_alloc |-> 0, buckets |-> {}, val |-> NoEntries]

EdgesOf(t) == DOMAIN t.ids
NEdges(t) == Cardinality(EdgesOf(t))
Position(S, e) == Cardinality({x \in S : x < e})
InOrder(S) == [k \in 1 .. Cardinality(S) |-> CHOOSE e \in S : Position(S, e) = k - 1]
With(f, x, v) == [y \in DOMAIN f \cup {x} |-> IF y = x THEN v ELSE f[y]]
Without(f, S) == Restrict(f, DOMAIN f \ S)
FreeOf(used, all) == CHOOSE x \in all \ used : \A y \in all \ used : x <= y
CeilDiv(n) == (n + BucketSize - 1) \div BucketSize
AtLeast(b) == IF b >= MinBuckets THEN b ELSE MinBuckets

Hosting(w, m, d) == WorldOf(w.graph, w.table, w.data, [w.map EXCEPT ![m] = d])
Refc(w, d) == Cardinality({m \in Maps : w.map[m] = d})
Hosts(w, t) == {g \in Graphs : w.graph[g] = t}
Attached(m) == map[m] # None /\ data[map[m]].table # None
Registered(g) == {m \in Maps : owner[m] = g}

-----------------------------------------------------------------------------
(* Maps and tables *)

\* Table::attach
AttachData(w, d, t) ==
  WorldOf(w.graph, [w.table EXCEPT ![t].maps = @ \cup {d}], [w.data EXCEPT ![d].table = t], w.map)

\* Table::detach: the last map takes the numbering along.
DetachData(w, d) ==
  LET t == w.data[d].table
      r == w.table[t]
      left == r.maps \ {d}
      s == IF left = {} THEN [r EXCEPT !.maps = {}, !.agent = FALSE, !.n_alloc = 0, !.free = <<>>]
                        ELSE [r EXCEPT !.maps = left]
  IN  WorldOf(w.graph, [w.table EXCEPT ![t] = s], w.data, w.map)

\* Table::get_edge_agent and edge_agent::init
WithAgent(r, for_copy) ==
  IF r.agent THEN r
  ELSE [r EXCEPT !.agent = TRUE, !.n_alloc = AtLeast(CeilDiv(NEdges(r))),
                 !.ids = IF for_copy THEN r.ids ELSE [e \in EdgesOf(r) |-> Position(EdgesOf(r), e)]]

\* prepare_attach and EdgeMapData::first_alloc: m becomes the host of new data.
NewData(w, m, t, for_copy) ==
  LET d == FreeOf({w.map[k] : k \in Maps}, Datas)
      r == WithAgent(w.table[t], for_copy)
      D == [table |-> t, n_alloc |-> r.n_alloc, buckets |-> 0 .. CeilDiv(NEdges(r)) - 1, val |-> NoEntries]
  IN  WorldOf(w.graph, [w.table EXCEPT ![t] = [r EXCEPT !.maps = r.maps \cup {d}]],
              [w.data EXCEPT ![d] = D], [w.map EXCEPT ![m] = d])

\* EdgeMapData::init
Initialised(val, ids) ==
  [i \in Range(ids) \cup DOMAIN val |-> IF i \in Range(ids) THEN CHOOSE e \in DOMAIN ids : ids[e] = i ELSE val[i]]
InitEntries(w, d) ==
  WorldOf(w.graph, w.table,
          [w.data EXCEPT ![d].val = Initialised(w.data[d].val, w.table[w.data[d].table].ids)], w.map)

\* EdgeMapData::copy: two iterators run in step over the edges of the two tables.
Copied(val, from, to) ==
  LET src == InOrder(DOMAIN from)
      dst == InOrder(DOMAIN to)
      Read(k) == IF k <= Len(src) /\ from[src[k]] \in DOMAIN val THEN val[from[src[k]]] ELSE Junk
  IN  [i \in Range(to) |-> Read(Max({k \in DOMAIN dst : to[dst[k]] = i}))]

\* SharedMap::copy
CopyData(w, m, t) ==
  LET old == w.data[w.map[m]]
      w1 == NewData(Hosting(w, m, None), m, t, TRUE)
      val == Copied(old.val, w.table[old.table].ids, w1.table[t].ids)
  IN  WorldOf(w1.graph, w1.table, [w1.data EXCEPT ![w1.map[m]].val = val], w1.map)

\* SharedMap::divorce(t)
DivorceMap(w, m, t) ==
  LET d == w.map[m]
  IN  IF Refc(w, d) > 1 THEN CopyData(w, m, t) ELSE AttachData(DetachData(w, d), d, t)

\* SharedMap::leave and ~EdgeMapData
Leave(w, m) ==
  LET d == w.map[m]
      w1 == Hosting(w, m, None)
      w2 == IF w.data[d].table = None THEN w1 ELSE DetachData(w1, d)
  IN  IF d = None \/ Refc(w, d) > 1 THEN w1
      ELSE WorldOf(w2.graph, w2.table, [w2.data EXCEPT ![d] = NoData], w2.map)

-----------------------------------------------------------------------------
(* Copy on write of the graph *)

\* g gets the table t, which is made from r.
Moved(w, g, t, r) == WorldOf([w.graph EXCEPT ![g] = t], [w.table EXCEPT ![t] = r], w.data, w.map)

NewBody_MapsLeft(w, g, r) ==
  LET t == FreeOf({w.graph[h] : h \in Graphs}, Tables) IN Moved(w, g, t, r)

\* shared_object::divorce, its divorce_hook divorce_maps: g gets table r.
NewBody(w, g, r) ==
  LET t == FreeOf({w.graph[h] : h \in Graphs}, Tables)
  IN  FoldSet(LAMBDA m, v : DivorceMap(v, m, t),
              Moved(w, g, t, r),
              {m \in Registered(g) : w.map[m] # None})

Unshare_Never(w, g) == w

IsShared(w, g) == Cardinality(Hosts(w, w.graph[g])) > 1

\* The copy constructor of Table keeps the numbers of the edges in the cells.
TableCopy(r) == [EmptyTable EXCEPT !.ids = r.ids]

Unshare(w, g) == IF IsShared(w, g) THEN NewBody(w, g, TableCopy(w.table[w.graph[g]])) ELSE w

\* ~Table, when the last host has left: the maps are emptied and detached.
Abandon(w, t) ==
  IF Hosts(w, t) # {} THEN w
  ELSE WorldOf(w.graph, [w.table EXCEPT ![t] = EmptyTable],
               [d \in Datas |-> IF d \in w.table[t].maps THEN NoData ELSE w.data[d]], w.map)

\* What a run leaves out: the steps of KnownFaults not allowed, and those
\* that follow the null table of a map whose table is gone.
MayNumber(t) == "gaps" \notin Allowed => table[t].free = <<>>

MayDivorce(g) ==
  IsShared(World, g) =>
    /\ \A m \in Registered(g) : map[m] # None => Attached(m)
    /\ "follow" \notin Allowed =>
         \A m \in Registered(g) : map[m] # None => \E k \in Maps \ Registered(g) : map[k] = map[m]
    /\ MayNumber(graph[g])


-----------------------------------------------------------------------------
(* Edges *)

\* A number given back is taken from the end of free_edge_ids, which holds
\* the others; the entry of a removed edge is destroyed.
LeftFree_All(free) == free
LeftFree(free) == IF free = <<>> THEN free ELSE Front(free)

Emptied_Kept(D, id) == D
Emptied(D, id) == [D EXCEPT !.val = Without(D.val, {id})]

\* edge_agent_base::extend_maps: the next number opens a bucket, for which
\* the arrays of buckets may have to grow.
Extends(r) == r.free = <<>> /\ NEdges(r) % BucketSize = 0
GrownTo(r) == IF NEdges(r) \div BucketSize >= r.n_alloc THEN r.n_alloc + AtLeast(r.n_alloc \div 5)
                                                       ELSE r.n_alloc
Extended(D, r) ==
  LET n_alloc == GrownTo(r)
  IN  [D EXCEPT !.buckets = D.buckets \cup {NEdges(r) \div BucketSize},
                !.n_alloc = IF n_alloc > r.n_alloc /\ n_alloc > D.n_alloc THEN n_alloc ELSE D.n_alloc]

NextId(r) == IF r.free = <<>> THEN NEdges(r) ELSE Last(r.free)
EdgeAdded(r, e) ==
  IF ~r.agent THEN [r EXCEPT !.ids = With(r.ids, e, 0), !.n_alloc = 0]
  ELSE [r EXCEPT !.ids = With(r.ids, e, NextId(r)), !.free = LeftFree(r.free),
                 !.n_alloc = IF Extends(r) THEN GrownTo(r) ELSE r.n_alloc]
EntryAdded(D, r, e) ==
  LET E == IF Extends(r) THEN Extended(D, r) ELSE D IN [E EXCEPT !.val = With(E.val, NextId(r), e)]

\* edge_agent::added, Table::edge_added
Added(w, t, e) ==
  LET r == w.table[t]
  IN  IF e \in EdgesOf(r) THEN w
      ELSE WorldOf(w.graph, [w.table EXCEPT ![t] = EdgeAdded(r, e)],
                   [d \in Datas |-> IF r.agent /\ d \in r.maps THEN EntryAdded(w.data[d], r, e) ELSE w.data[d]],
                   w.map)

EdgeRemoved(r, e) ==
  IF ~r.agent THEN [r EXCEPT !.ids = Without(r.ids, {e}), !.n_alloc = 0]
  ELSE [r EXCEPT !.ids = Without(r.ids, {e}), !.free = Append(r.free, r.ids[e])]

\* edge_agent::removed, Table::edge_removed
Removed(w, t, e) ==
  LET r == w.table[t]
  IN  IF e \notin EdgesOf(r) THEN w
      ELSE WorldOf(w.graph, [w.table EXCEPT ![t] = EdgeRemoved(r, e)],
                   [d \in Datas |-> IF r.agent /\ d \in r.maps THEN Emptied(w.data[d], r.ids[e]) ELSE w.data[d]],
                   w.map)

\* Graph::edge
AddEdge(g, e) ==
  /\ MayDivorce(g)
  /\ LET w == Unshare(World, g) IN Become(Added(w, w.graph[g], e))
  /\ UNCHANGED owner

\* Graph::delete_edge
DeleteEdge(g, e) ==
  /\ MayDivorce(g)
  /\ LET w == Unshare(World, g) IN Become(Removed(w, w.graph[g], e))
  /\ UNCHANGED owner

\* Table::clear keeps the maps attached, and the agent when there are any.
EmptyWith(maps) == [EmptyTable EXCEPT !.maps = maps, !.agent = (maps # {})]

ClearGraph_FreeKept(g) ==
  LET t == graph[g]
      maps == table[t].maps
  IN  /\ MayDivorce(g)
      /\ Become(IF IsShared(World, g) THEN NewBody(World, g, EmptyTable)
                ELSE WorldOf(graph, [table EXCEPT ![t] = [EmptyWith(maps) EXCEPT !.free = table[t].free]],
                             [d \in Datas |-> IF d \in maps THEN [NoData EXCEPT !.table = t] ELSE data[d]], map))
      /\ UNCHANGED owner

\* Graph::clear, Table::clear
ClearGraph(g) ==
  LET t == graph[g]
      maps == table[t].maps
  IN  /\ MayDivorce(g)
      /\ Become(IF IsShared(World, g) THEN NewBody(World, g, EmptyTable)
                ELSE WorldOf(graph, [table EXCEPT ![t] = EmptyWith(maps)],
                             [d \in Datas |-> IF d \in maps THEN [NoData EXCEPT !.table = t] ELSE data[d]], map))
      /\ UNCHANGED owner

\* Graph::operator=: the maps registered with g are forgotten.
AssignGraph(g, h) ==
  /\ g # h
  /\ Become(Abandon(WorldOf([graph EXCEPT ![g] = graph[h]], table, data, map), graph[g]))
  /\ owner' = [m \in Maps |-> IF owner[m] = g THEN None ELSE owner[m]]

\* Graph::enumerate_edges
EnumerateEdges(g) ==
  /\ Become(WorldOf(graph, [table EXCEPT ![graph[g]] = WithAgent(table[graph[g]], FALSE)], data, map))
  /\ UNCHANGED owner

\* edge_agent::renumber.  The maps are emptied and detached, and the last one
\* takes the agent and free_edge_ids along.
Renumbered(r) ==
  LET renumbered == WithAgent([r EXCEPT !.agent = FALSE], FALSE)
  IN  IF r.maps = {} THEN [renumbered EXCEPT !.n_alloc = r.n_alloc] ELSE TableCopy(renumbered)

\* Graph::squeeze_edges: without an agent it follows a null pointer.
SqueezeEdges(g) ==
  /\ MayDivorce(g)
  /\ LET w == Unshare(World, g)
         t == w.graph[g]
         r == w.table[t]
     IN  /\ r.agent
         /\ "squeeze" \notin Allowed /\ r.maps = {} => r.free = <<>>
         /\ Become(WorldOf(w.graph, [w.table EXCEPT ![t] = Renumbered(r)],
                           [d \in Datas |-> IF d \in r.maps THEN NoData ELSE w.data[d]], w.map))
  /\ UNCHANGED owner

-----------------------------------------------------------------------------
(* Maps *)

\* Graph::attach, SharedMap::attach_to and EdgeMapData::init
AttachMap(m, g) ==
  LET t == graph[g]
      same == map[m] # None /\ data[map[m]].table = t
      w == IF same THEN World ELSE NewData(Leave(World, m), m, t, FALSE)
  IN  /\ same \/ MayNumber(t)
      /\ Become(InitEntries(w, w.map[m]))
      /\ owner' = [owner EXCEPT ![m] = g]

\* SharedMap::operator= leaves the registration alone, so a map registered
\* with a graph is only given data of a map of that graph.
AssignMap(m, k) ==
  /\ m # k /\ map[k] # None
  /\ owner[m] # None => data[map[k]].table = graph[owner[m]]
  /\ LET w == Leave(World, m)
     IN  Become(IF map[m] = map[k] THEN World ELSE Hosting(w, m, map[k]))
  /\ UNCHANGED owner

\* ~SharedMap
DropMap(m) ==
  /\ map[m] # None
  /\ Become(Leave(World, m))
  /\ owner' = [owner EXCEPT ![m] = None]

\* SharedMap::mutable_access and divorce()
Private(m) == IF Refc(World, map[m]) > 1 THEN CopyData(World, m, data[map[m]].table) ELSE World
MayWrite(m) == Refc(World, map[m]) > 1 => MayNumber(data[map[m]].table)

\* EdgeMap::operator[]
WriteMap(m) ==
  /\ Attached(m) /\ MayWrite(m)
  /\ Become(Private(m))
  /\ UNCHANGED owner

\* EdgeMap::operator(), which creates the edge in the table of the map.
WriteEdge(m, e) ==
  /\ Attached(m) /\ MayWrite(m)
  /\ LET t == data[map[m]].table
     IN  /\ "through" \notin Allowed => Cardinality(Hosts(World, t)) = 1
         /\ Become(Added(Private(m), t, e))
  /\ UNCHANGED owner

-----------------------------------------------------------------------------
Init ==
  /\ \E f \in [Graphs -> Tables] : IsInjective(f) /\ graph = f
                                   /\ \A t \in Tables \ Range(f), u \in Range(f) : u < t
  /\ table = [t \in Tables |-> EmptyTable]
  /\ data  = [d \in Datas |-> NoData]
  /\ map   = [m \in Maps |-> None]
  /\ owner = [m \in Maps |-> None]

Next ==
  \/ \E g \in Graphs : \/ \E e \in Edges : AddEdge(g, e) \/ DeleteEdge(g, e)
                       \/ ClearGraph(g)
                       \/ EnumerateEdges(g)
                       \/ SqueezeEdges(g)
                       \/ \E h \in Graphs : AssignGraph(g, h)
  \/ \E m \in Maps :   \/ \E g \in Graphs : AttachMap(m, g)
                       \/ \E k \in Maps : AssignMap(m, k)
                       \/ \E e \in Edges : WriteEdge(m, e)
                       \/ DropMap(m)
                       \/ WriteMap(m)

Spec == Init /\ [][Next]_vars

-----------------------------------------------------------------------------
(* Properties *)

Live == {d \in Datas : data[d].table # None}
IdsOf(d) == table[data[d].table].ids

\* "Provide each edge with a unique integer id": no two edges of a graph that
\* has been enumerated or has maps share a number, nor an entry of a map.
IdsUnique ==
  \A t \in Tables : table[t].agent \/ table[t].maps # {} => IsInjective(table[t].ids)

\* The numbers given back are exactly those missing among the numbers given.
FreeIdsExact ==
  \A t \in Tables : table[t].agent =>
    LET r == table[t] IN
    /\ IsInjective(r.free)
    /\ Range(r.free) \cup Range(r.ids) = 0 .. NEdges(r) + Len(r.free) - 1
    /\ Range(r.free) \cap Range(r.ids) = {}

\* Numbers are given once, and what is missing among them is on the free list.
NumbersExact == IdsUnique /\ FreeIdsExact

\* A map holds a constructed entry for every edge and for nothing else, in a
\* bucket that is allocated: no access goes astray, and the destructor of the
\* map, which walks the edges, destroys exactly what was constructed.  What it
\* holds for an edge was created for that edge: numbers that are reused, copied
\* or given anew never lead one edge to the value of another.
EntriesExact ==
  \A d \in Live : /\ DOMAIN data[d].val = Range(IdsOf(d))
                  /\ \A i \in DOMAIN data[d].val : i \div BucketSize \in data[d].buckets
                  /\ \A b \in data[d].buckets : b < data[d].n_alloc
                  /\ \A e \in DOMAIN IdsOf(d) : data[d].val[IdsOf(d)[e]] = e

\* A map registered with a graph is attached to the table of that graph,
\* however often the graph or the map has been copied or parted; and the tables
\* in use know exactly the data attached to them.
MapsStayWithGraph ==
  /\ \A m \in Maps : owner[m] # None /\ Attached(m) => data[map[m]].table = graph[owner[m]]
  /\ \A t \in Tables : table[t].maps = {d \in Datas : data[d].table = t}
  /\ \A d \in Live : Refc(World, d) > 0 /\ Hosts(World, data[d].table) # {}

\* A graph changes alone: no step changes the edges of two graphs.
GraphsIndependent ==
  [][\A g, h \in Graphs :
       /\ EdgesOf(table[graph[g]])' # EdgesOf(table[graph[g]])
       /\ EdgesOf(table[graph[h]])' # EdgesOf(table[graph[h]])
       => g = h]_vars

=============================================================================
