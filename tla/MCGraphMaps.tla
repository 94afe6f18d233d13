---------------------------- MODULE MCGraphMaps ----------------------------
(* Instances of GraphMaps for TLC.  Graphs and maps are interchangeable: the *)
(* order in which a divorce visits the maps only decides which of the equal *)
(* numbers in Datas each gets.                                             *)
EXTENDS GraphMaps, TLC

Symmetry == Permutations(Graphs) \cup Permutations(Maps)

\* The bound of the run: a table with numbers on its free list is seen beside
\* others with none and, the more are free, the fewer edges.
FewGaps ==
  \A t, u \in Tables : t # u /\ table[t].free # <<>> =>
    /\ table[u].free = <<>>
    /\ Len(table[t].free) + NEdges(table[u]) <= Cardinality(Edges)
=============================================================================
