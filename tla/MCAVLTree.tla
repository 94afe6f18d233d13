----------------------------- MODULE MCAVLTree -----------------------------
(* Small trees for TLC: trees with single keys; with keys that occur several   *)
(* times; and trees of eleven and twelve nodes, the smallest where a removal   *)
(* rotates twice.                                                              *)
EXTENDS AVLTree

Tree(n, twins, start, least) == [keys |-> 1 .. n, twins |-> twins, start |-> start, least |-> least]
Tall == <<8, 5, 11, 3, 7, 10, 12, 2, 4, 6, 9, 1>>
MCTraits == {Tree(8, 1, <<>>, 0), Tree(2, 3, <<>>, 0), Tree(12, 1, Tall, 11)}

\* States that differ only in the operation called last have the same successors.
MCView == <<traits, head, link, n_elem>>
=============================================================================
