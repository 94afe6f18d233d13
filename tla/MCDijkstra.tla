----------------------------- MODULE MCDijkstra -----------------------------
(* Small graphs for TLC; all the weights of the arcs are tried.               *)
EXTENDS Dijkstra, Sequences

CONSTANT MaxWeight

Weighted(directed, nodes, ends) ==
  {[nodes |-> nodes, directed |-> directed,
    arcs |-> {Append(ends[i], w[i]) : i \in DOMAIN ends}] : w \in [DOMAIN ends -> 0 .. MaxWeight]}

\* Every edge of an undirected graph in both directions.
Undirected(nodes, ends) ==
  {[nodes |-> nodes, directed |-> FALSE,
    arcs |-> UNION {{Append(ends[i], w[i]), <<ends[i][2], ends[i][1], w[i]>>} : i \in DOMAIN ends}] :
   w \in [DOMAIN ends -> 0 .. MaxWeight]}

\* Two ways round with a short cut: a label in the queue is replaced, and replaced again.
Detours == Weighted(TRUE, 1 .. 4, <<<<1, 2>>, <<1, 3>>, <<3, 2>>, <<2, 4>>, <<3, 4>>>>)
\* Four labels in the queue, of which the others are replaced one by one; a way back and a loop.
Fan == {[nodes |-> 1 .. 5, directed |-> TRUE,
         arcs |-> {<<1, 2, 2>>, <<1, 3, w>>, <<1, 4, 6>>, <<1, 5, 8>>, <<2, 3, 1>>, <<3, 4, 1>>, <<3, 5, 4>>,
                    <<4, 5, v>>, <<5, 1, 0>>, <<2, 2, 1>>}] : w \in {2, 4, 7}, v \in {0, 2}}
Triangle == Undirected(1 .. 4, <<<<1, 2>>, <<2, 3>>, <<3, 1>>, <<3, 4>>>>)
MCGraphs == Detours \cup Fan \cup Triangle
=============================================================================
