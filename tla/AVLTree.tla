------------------------------ MODULE AVLTree ------------------------------
(***************************************************************************)
(* The search tree behind Set, Map and SparseVector                        *)
(* (src/lib/core/include/internal/AVL.h): nodes with three links, threads  *)
(* to the neighbours in place of missing children, and the balance kept in *)
(* flag bits of the links.  A tree filled in order stays a doubly linked   *)
(* list of threads until the first search in its middle, which links the   *)
(* same nodes up to a tree - in a const method.                            *)
(*                                                                         *)
(* The links of all nodes are one function of node and direction.  A node  *)
(* is named by its key and a number that tells equal keys apart; data      *)
(* attached to the keys is left out.                                       *)
(***************************************************************************)
EXTENDS Integers, FiniteSets, Sequences, TLC, FiniteSetsExt, SequencesExt

CONSTANTS
  Traits,    \* kinds of trees: the keys (a set of integers), the nodes there may be with equal
             \* keys (twins), the keys inserted before the model starts (start), and the number
             \* of nodes from which on none is erased (least)
  Heads,     \* places where the tree object may be
  Null,      \* no node
  Allowed    \* the steps of KnownFaults that may be taken

KnownFaults == {"listupdate", "freshhint"}
ASSUME AllowedAssumption == Allowed \subseteq KnownFaults
ASSUME TraitsAssumption ==
  \A t \in Traits : /\ t.keys \subseteq Int
                    /\ t.twins \in Nat \ {0}
                    /\ t.start \in Seq(t.keys)
                    /\ t.least \in Nat

VARIABLES
  traits,   \* the kind of this tree
  head,     \* where it is: head_node()
  link,     \* link[n, X], also of the head; its domain shows the nodes that exist
  n_elem,
  call      \* the operation called last and its arguments: written, never read

vars == <<traits, head, link, n_elem, call>>

allow_multiple == traits.twins > 1

L == -1
P == 0
R == 1

(* Flags of a link to a child or a thread; in a P link the flags are the direction.     *)
NONE == 0
SKEW == 1   \* the subtree under this link is taller than the opposite one
LEAF == 2   \* a thread, not a child
END  == 3   \* a thread to the head

Ptr(n, fl) == [node |-> n, flags |-> fl]
nullptr    == Ptr(Null, NONE)
end_node   == Ptr(head, END)

leaf(p) == p.flags \in {LEAF, END}
skew(p) == p.flags \in {SKEW, END}
skew_strict(p) == p.flags = SKEW
end(p)  == p.flags = END
Unskewed(p) == Ptr(p.node, p.flags - SKEW)     \* clear(SKEW)
Onto(p, n)  == Ptr(n, p.flags)                 \* set(n): the flags stay

key(n) == n[1]
Nodes(t) == {x[1] : x \in DOMAIN t} \ {head}
tree_form(t) == t[head, P] # nullptr
root(t) == t[head, P].node
NoLinks == [x \in {} |-> nullptr]
EmptyLinks == <<head, L>> :> end_node @@ <<head, P>> :> nullptr @@ <<head, R>> :> end_node
NewNode(t, n) == (<<n, L>> :> nullptr @@ <<n, P>> :> nullptr @@ <<n, R>> :> nullptr) @@ t
Without(t, n) == [x \in {y \in DOMAIN t : y[1] # n} |-> t[x]]
Free(k) == {<<k, i>> : i \in 1 .. traits.twins} \ Nodes(link)
Fresh(k) == <<k, IF Free(k) = {} THEN 1 ELSE Min({n[2] : n \in Free(k)})>>

Compare(j, k) == IF j < k THEN L ELSE IF j > k THEN R ELSE P

-----------------------------------------------------------------------------
(* Moving through the tree                                                 *)

RECURSIVE traverse_to_leaf(_, _, _)
traverse_to_leaf(t, p, X) ==
  IF leaf(t[p.node, X]) THEN p ELSE traverse_to_leaf(t, t[p.node, X], X)

\* The next (R) or previous (L) node of n.
traverse(t, n, X) == IF leaf(t[n, X]) THEN t[n, X] ELSE traverse_to_leaf(t, t[n, X], -X)

\* Links the size nodes to the right of left up to a subtree.
RECURSIVE treeify_part(_, _, _)
treeify_part(t, left, size) ==
  LET one == t[left, R].node
      two == t[one, R].node
  IN  CASE size = 1 -> [t |-> t, root |-> one, last |-> one]
        [] size = 2 -> [t |-> <<two, L>> :> Ptr(one, SKEW) @@ <<one, P>> :> Ptr(two, L) @@ t,
                        root |-> two, last |-> two]
        [] OTHER ->
             LET l == treeify_part(t, left, (size - 1) \div 2)
                 top == l.t[l.last, R].node
                 r == treeify_part(<<top, L>> :> Ptr(l.root, NONE) @@ <<l.root, P>> :> Ptr(top, L) @@ l.t,
                                   top, size \div 2)
                 power == \E i \in 0 .. size : 2 ^ i = size
             IN  [t |-> <<top, R>> :> Ptr(r.root, IF power THEN SKEW ELSE NONE)
                          @@ <<r.root, P>> :> Ptr(top, R) @@ r.t,
                  root |-> top, last |-> r.last]

treeify(t, size) ==
  LET all == treeify_part(t, head, size)
  IN  <<head, P>> :> Ptr(all.root, NONE) @@ <<all.root, P>> :> Ptr(head, P) @@ all.t

RECURSIVE descend(_, _, _)
descend(t, cur, k) ==
  LET Down == Compare(k, key(cur))
  IN  IF Down = P \/ leaf(t[cur, Down]) THEN [t |-> t, at |-> cur, dir |-> Down]
      ELSE descend(t, t[cur, Down].node, k)

\* Where k is (dir = P) or would be attached.  A list whose ends do not tell becomes a tree.
find_descend(t, size, k) ==
  LET first == t[head, R].node
      last == t[head, L].node
  IN  CASE tree_form(t) -> descend(t, root(t), k)
        [] ~tree_form(t) /\ (k >= key(last) \/ size = 1) ->
             [t |-> t, at |-> last, dir |-> Compare(k, key(last))]
        [] ~tree_form(t) /\ k < key(last) /\ size > 1 /\ k <= key(first) ->
             [t |-> t, at |-> first, dir |-> Compare(k, key(first))]
        [] OTHER -> LET up == treeify(t, size) IN descend(up, root(up), k)

find_node(t, size, k) ==
  IF size = 0 THEN end_node
  ELSE LET f == find_descend(t, size, k) IN IF f.dir = P THEN Ptr(f.at, NONE) ELSE end_node

-----------------------------------------------------------------------------
(* Rebalancing                                                             *)

\* n, the X child of parent, takes its place; parent adopts n's child on the inner side.
single_rotation(t, parent, n, X) ==
  LET up == t[parent, P]
      inner == t[n, -X]
  IN  (IF leaf(inner) THEN <<parent, X>> :> Ptr(n, LEAF)
       ELSE <<parent, X>> :> Ptr(inner.node, NONE) @@ <<inner.node, P>> :> Ptr(parent, X))
      @@ <<up.node, up.flags>> :> Onto(t[up.node, up.flags], n) @@ <<n, P>> :> up
      @@ <<parent, P>> :> Ptr(n, -X) @@ <<n, -X>> :> Ptr(parent, NONE) @@ t

\* The inner child n2 of n takes the place of parent; its children are shared out.
double_rotation(t, parent, n, X) ==
  LET up == t[parent, P]
      n2 == t[n, -X].node
      toN == t[n2, X]
      toParent == t[n2, -X]
  IN  (IF leaf(toN) THEN <<n, -X>> :> Ptr(n2, LEAF)
       ELSE <<n, -X>> :> Ptr(toN.node, NONE) @@ <<toN.node, P>> :> Ptr(n, -X)
              @@ <<parent, -X>> :> Ptr(t[parent, -X].node, IF skew(toN) THEN SKEW ELSE NONE))
      @@ (IF leaf(toParent) THEN <<parent, X>> :> Ptr(n2, LEAF)
          ELSE <<parent, X>> :> Ptr(toParent.node, NONE) @@ <<toParent.node, P>> :> Ptr(parent, X)
                 @@ <<n, X>> :> Ptr(t[n, X].node, IF skew(toParent) THEN SKEW ELSE NONE))
      @@ <<up.node, up.flags>> :> Onto(t[up.node, up.flags], n2) @@ <<n2, P>> :> up
      @@ <<n2, X>> :> Ptr(n, NONE) @@ <<n, P>> :> Ptr(n2, X)
      @@ <<n2, -X>> :> Ptr(parent, NONE) @@ <<parent, P>> :> Ptr(n2, -X) @@ t

\* The subtree at n has become taller.
RECURSIVE grown(_, _)
grown(t, n) ==
  LET parent == t[n, P].node
      X == t[n, P].flags
  IN  CASE n = root(t) -> t
        [] n # root(t) /\ skew(t[parent, X]) ->
             IF skew_strict(t[n, X])
             THEN LET s == single_rotation(t, parent, n, X) IN <<n, X>> :> Unskewed(t[n, X]) @@ s
             ELSE double_rotation(t, parent, n, X)
        [] n # root(t) /\ ~skew(t[parent, X]) /\ skew(t[parent, -X]) ->
             <<parent, -X>> :> Unskewed(t[parent, -X]) @@ t
        [] OTHER -> grown(<<parent, X>> :> Ptr(n, SKEW) @@ t, parent)

\* The new node n becomes the neighbour of parent in direction X, where parent has a thread.
insert_rebalance(t, n, parent, X) ==
  LET next == t[parent, X]
      linked == <<n, -X>> :> Ptr(parent, LEAF) @@ <<n, X>> :> next @@ t
      child == <<n, P>> :> Ptr(parent, X)
                 @@ (IF end(next) THEN <<head, -X>> :> Ptr(n, LEAF) ELSE NoLinks) @@ linked
  IN  CASE ~tree_form(t) -> <<next.node, -X>> :> Ptr(n, LEAF) @@ <<parent, X>> :> Ptr(n, LEAF) @@ linked
        [] tree_form(t) /\ skew_strict(t[parent, -X]) ->
             <<parent, -X>> :> Unskewed(t[parent, -X]) @@ <<parent, X>> :> Ptr(n, NONE) @@ child
        [] OTHER -> grown(<<parent, X>> :> Ptr(n, SKEW) @@ child, parent)

\* The subtree of cur in direction X has become lower.
RECURSIVE lowered(_, _, _)
lowered(t, cur, X) ==
  LET up == t[cur, P]
      n1 == t[cur, -X].node
      rotated == single_rotation(t, cur, n1, -X)
  IN  IF cur = head THEN t
      ELSE CASE skew_strict(t[cur, X]) -> lowered(<<cur, X>> :> Unskewed(t[cur, X]) @@ t, up.node, up.flags)
             [] skew_strict(t[cur, -X]) /\ skew(t[n1, X]) ->
                  lowered(double_rotation(t, cur, n1, -X), up.node, up.flags)
             [] skew_strict(t[cur, -X]) /\ ~skew(t[n1, X]) /\ skew_strict(t[n1, -X]) ->
                  lowered(<<n1, -X>> :> Unskewed(t[n1, -X]) @@ rotated, up.node, up.flags)
             [] skew_strict(t[cur, -X]) /\ ~skew(t[n1, X]) /\ ~skew_strict(t[n1, -X]) ->
                  <<n1, X>> :> Ptr(cur, SKEW) @@ <<cur, -X>> :> Ptr(rotated[cur, -X].node, SKEW) @@ rotated
             [] ~skew_strict(t[cur, X]) /\ ~skew_strict(t[cur, -X]) /\ ~leaf(t[cur, -X]) ->
                  <<cur, -X>> :> Ptr(n1, SKEW) @@ t
             [] OTHER -> lowered(t, up.node, up.flags)

\* n has both subtrees: its neighbour lf in the taller one, or in the right one, takes its place.
remove_inner(t, n) ==
  LET Descend == IF skew(t[n, L]) THEN L ELSE R
      Oppos == -Descend
      neighbor_leaf == traverse(t, n, Oppos).node
      lf == traverse(t, n, Descend).node
      up == t[n, P]
      lf_parent == t[lf, P].node
      below == t[lf, Descend]
      replaced == <<neighbor_leaf, Descend>> :> Ptr(lf, LEAF)
                    @@ <<up.node, up.flags>> :> Onto(t[up.node, up.flags], lf) @@ <<lf, P>> :> up
                    @@ <<lf, Oppos>> :> t[n, Oppos] @@ <<t[n, Oppos].node, P>> :> Ptr(lf, Oppos) @@ t
  IN  IF lf_parent = n
      THEN lowered((IF ~skew(t[n, Descend]) /\ skew_strict(below)
                    THEN <<lf, Descend>> :> Unskewed(below) ELSE NoLinks) @@ replaced, lf, Descend)
      ELSE lowered((IF leaf(below) THEN <<lf_parent, Oppos>> :> Ptr(lf, LEAF)
                    ELSE <<lf_parent, Oppos>> :> Onto(t[lf_parent, Oppos], below.node)
                           @@ <<below.node, P>> :> Ptr(lf_parent, Oppos))
                   @@ <<lf, Descend>> :> t[n, Descend] @@ <<t[n, Descend].node, P>> :> Ptr(lf, Descend)
                   @@ replaced, lf_parent, Oppos)

remove_outer(t, n) ==
  LET Toleaf == IF leaf(t[n, L]) THEN L ELSE R
      Oppos == -Toleaf
      up == t[n, P]
      n2 == t[n, Oppos].node
  IN  IF leaf(t[n, Oppos])
      THEN lowered(<<up.node, up.flags>> :> t[n, up.flags]
                   @@ (IF end(t[n, up.flags]) THEN <<head, -up.flags>> :> Ptr(up.node, LEAF) ELSE NoLinks)
                   @@ t, up.node, up.flags)
      ELSE lowered(<<up.node, up.flags>> :> Onto(t[up.node, up.flags], n2) @@ <<n2, P>> :> up
                   @@ <<n2, Toleaf>> :> t[n, Toleaf]
                   @@ (IF end(t[n, Toleaf]) THEN <<head, Oppos>> :> Ptr(n2, LEAF) ELSE NoLinks)
                   @@ t, up.node, up.flags)

\* size is the number of nodes without n.
remove_rebalance(t, size, n) ==
  IF size = 0 THEN EmptyLinks @@ t
  ELSE IF ~leaf(t[n, L]) /\ ~leaf(t[n, R]) THEN remove_inner(t, n) ELSE remove_outer(t, n)

remove_node(t, size, n) ==
  IF tree_form(t) THEN remove_rebalance(t, size, n)
  ELSE <<t[n, R].node, L>> :> t[n, L] @@ <<t[n, L].node, R>> :> t[n, R] @@ t

-----------------------------------------------------------------------------
(* Operations on whole trees                                               *)

insert_first(t, n) ==
  <<head, L>> :> Ptr(n, LEAF) @@ <<head, R>> :> Ptr(n, LEAF)
    @@ <<n, L>> :> end_node @@ <<n, R>> :> end_node @@ NewNode(t, n)

\* n goes before (X = L) or after (X = R) the position next.
insert_node_at(t, next, X, n) ==
  LET new == NewNode(t, n)
      other == t[next.node, X]
  IN  CASE ~tree_form(t) ->
             <<n, X>> :> other @@ <<n, -X>> :> next
               @@ <<other.node, -X>> :> Ptr(n, LEAF) @@ <<next.node, X>> :> Ptr(n, LEAF) @@ new
        [] tree_form(t) /\ end(next) -> insert_rebalance(new, n, other.node, -X)
        [] tree_form(t) /\ ~end(next) /\ ~leaf(other) ->
             insert_rebalance(new, n, traverse(t, next.node, X).node, -X)
        [] OTHER -> insert_rebalance(new, n, next.node, X)

\* Beside an equal key, where there is a thread.
beside_equal(f) ==
  LET t == f.t
      at == f.at
  IN  CASE f.dir # P -> f
        [] f.dir = P /\ (~tree_form(t) \/ (~leaf(t[at, L]) /\ leaf(t[at, R]))) -> [f EXCEPT !.dir = R]
        [] f.dir = P /\ tree_form(t) /\ leaf(t[at, L]) -> [f EXCEPT !.dir = L]
        [] OTHER -> LET X == IF skew(t[at, L]) THEN R ELSE L
                    IN  [f EXCEPT !.at = traverse(t, at, X).node, !.dir = -X]

insert_node(t, size, n) ==
  IF size = 0 THEN insert_first(t, n)
  ELSE LET f == beside_equal(find_descend(t, size, key(n)))
       IN  insert_rebalance(NewNode(f.t, n), n, f.at, f.dir)

\* n is attached unless its key is there.
find_insert(t, size, n) ==
  LET f == find_descend(t, size, key(n))
  IN  CASE size = 0 -> insert_first(t, n)
        [] size > 0 /\ f.dir = P -> f.t
        [] OTHER -> insert_rebalance(NewNode(f.t, n), n, f.at, f.dir)

\* From p on in direction X over the keys k belongs behind, in list form.
RECURSIVE along(_, _, _, _)
along(t, p, X, k) ==
  IF end(p) \/ Compare(k, key(p.node)) # X THEN p ELSE along(t, t[p.node, X], X, k)

misplaced(t, n) ==
  LET l == traverse(t, n, L)
      r == traverse(t, n, R)
  IN  (~end(l) /\ key(l.node) > key(n)) \/ (~end(r) /\ key(r.node) < key(n))

\* The key of n has been changed.
update_node(t, size, n) ==
  LET old_prev == t[n, L]
      old_next == t[n, R]
      lower == along(t, old_prev, L, key(n))
      upper == along(t, old_next, R, key(n))
      relinked(prev, next) ==
        <<n, L>> :> prev @@ <<n, R>> :> next
          @@ <<next.node, L>> :> Ptr(n, NONE) @@ <<prev.node, R>> :> Ptr(n, NONE)
          @@ <<old_next.node, L>> :> old_prev @@ <<old_prev.node, R>> :> old_next @@ t
  IN  CASE size <= 1 -> t
        [] size > 1 /\ tree_form(t) ->
             IF misplaced(t, n) THEN insert_node(remove_rebalance(t, size - 1, n), size - 1, n) ELSE t
        [] size > 1 /\ ~tree_form(t) /\ lower # old_prev -> relinked(lower, t[lower.node, R])
        [] size > 1 /\ ~tree_form(t) /\ lower = old_prev /\ upper # old_next ->
             relinked(t[upper.node, L], upper)
        [] OTHER -> t

\* Copies the subtree at n into g, between the threads th; the copy of a node has its name.
RECURSIVE clone_tree(_, _, _, _)
clone_tree(t, g, n, th) ==
  LET side(h, X) ==
        LET c == t[n, X]
        IN  CASE leaf(c) /\ th[X] = nullptr ->
                   <<n, X>> :> end_node @@ <<head, -X>> :> Ptr(n, LEAF) @@ h
              [] leaf(c) /\ th[X] # nullptr -> <<n, X>> :> th[X] @@ h
              [] OTHER -> <<n, X>> :> Ptr(c.node, IF skew(c) THEN SKEW ELSE NONE)
                            @@ <<c.node, P>> :> Ptr(n, X)
                            @@ clone_tree(t, h, c.node, [th EXCEPT ![-X] = Ptr(n, LEAF)])
  IN  side(side(NewNode(g, n), L), R)

\* What moving in direction X meets first, second, ...: the nodes, and the end.
walk(t, X, size) ==
  LET Pointer == [node : Nodes(t) \cup {head}, flags : NONE .. END]
      from[p \in Pointer, m \in 0 .. size + 1] ==
        IF m = 0 THEN <<>> ELSE <<p>> \o from[traverse(t, p.node, X), m - 1]
  IN  from[t[head, X], size + 1]
InOrder(t, size) == LET w == walk(t, R, size) IN [i \in 1 .. size |-> w[i].node]

\* Mutant of cloned: the copy of the root does not know its new parent.
cloned_Orphan(t, size) ==
  IF tree_form(t)
  THEN <<head, P>> :> Ptr(root(t), NONE) @@ clone_tree(t, EmptyLinks, root(t), L :> nullptr @@ R :> nullptr)
  ELSE FoldLeft(LAMBDA g, n : insert_node_at(g, end_node, L, n), EmptyLinks, InOrder(t, size))

\* The copy of a tree or a list.
cloned(t, size) ==
  IF tree_form(t)
  THEN <<head, P>> :> Ptr(root(t), NONE) @@ <<root(t), P>> :> Ptr(head, P)
         @@ clone_tree(t, EmptyLinks, root(t), L :> nullptr @@ R :> nullptr)
  ELSE FoldLeft(LAMBDA g, n : insert_node_at(g, end_node, L, n), EmptyLinks, InOrder(t, size))

\* Destroys the nodes from p on down to the first.
RECURSIVE destroy_nodes(_, _)
destroy_nodes(t, p) ==
  IF end(p) THEN t ELSE destroy_nodes(Without(t, p.node), traverse(t, p.node, L))

\* Mutant of find_last_equal: any of the equal nodes.
find_last_equal_Any(t, n, X) == n

\* The results of find_nearest for the relations <, <=, >= and >.
RelOps == {"lt", "le", "ge", "gt"}
RECURSIVE find_last_equal(_, _, _)
find_last_equal(t, n, X) ==
  LET next == traverse(t, n, X)
  IN  IF end(t[n, X]) \/ key(next.node) # key(n) THEN n ELSE find_last_equal(t, next.node, X)

find_nearest_node(t, size, k, op) ==
  LET f == find_descend(t, size, k)
      Far == IF op \in {"ge", "gt"} THEN R ELSE L
      equal == IF allow_multiple THEN find_last_equal(f.t, f.at, Far) ELSE f.at
  IN  CASE size = 0 -> end_node
        [] size > 0 /\ f.dir = P ->
             IF op \in {"lt", "gt"} THEN traverse(f.t, equal, Far) ELSE Ptr(equal, NONE)
        [] size > 0 /\ f.dir # P /\ f.dir = Far -> traverse(f.t, f.at, Far)
        [] OTHER -> Ptr(f.at, NONE)

Satisfies(k, op, x) == CASE op = "lt" -> x < k [] op = "le" -> x <= k [] op = "ge" -> x >= k [] op = "gt" -> x > k

\* The same with a comparator of the caller, which the equal keys must not be told apart by.
RECURSIVE nearest_below(_, _, _, _, _)
nearest_below(t, p, k, op, found) ==
  LET good == Satisfies(k, op, key(p.node))
      Left == IF op \in {"ge", "gt"} THEN L ELSE R
      next == t[p.node, IF good THEN Left ELSE -Left]
      best == IF good THEN Ptr(p.node, NONE) ELSE found
  IN  IF leaf(next) THEN best ELSE nearest_below(t, next, k, op, best)

find_nearest_by(t, size, k, op) ==
  LET Left == IF op \in {"ge", "gt"} THEN L ELSE R
      front == t[head, -Left]
      back == t[head, Left]
  IN  CASE size = 0 -> end_node
        [] size > 0 /\ ~tree_form(t) /\ Satisfies(k, op, key(front.node)) -> front
        [] size > 0 /\ ~tree_form(t) /\ ~Satisfies(k, op, key(front.node))
             /\ (size = 1 \/ ~Satisfies(k, op, key(back.node))) -> end_node
        [] OTHER -> LET up == IF tree_form(t) THEN t ELSE treeify(t, size)
                    IN  nearest_below(up, up[head, P], k, op, end_node)
-----------------------------------------------------------------------------
(* The operations                                                          *)

Init ==
  /\ traits \in Traits
  /\ head \in Heads
  /\ link = FoldLeft(LAMBDA t, k : find_insert(t, Cardinality(Nodes(t)), <<k, 1>>), EmptyLinks, traits.start)
  /\ n_elem = Cardinality(Nodes(link))
  /\ call = [op |-> "none"]

Become(t, size) ==
  /\ link' = t
  /\ n_elem' = size
  /\ UNCHANGED <<traits, head>>

(* find_insert: an equal key is found, and its data assigned, or a node attached.       *)
Inserted(k) ==
  LET t == find_insert(link, n_elem, Fresh(k)) IN Become(t, Cardinality(Nodes(t)))

Insert(k) == Inserted(k) /\ call' = [op |-> "Insert", key |-> k]

(* insert_new of a tree with multiple keys.                                             *)
InsertNew(k) ==
  /\ allow_multiple
  /\ Free(k) # {}
  /\ Become(insert_node(link, n_elem, Fresh(k)), n_elem + 1)
  /\ call' = [op |-> "InsertNew", key |-> k]

(* The key fits between the position and its neighbour: the caller's duty, asserted.    *)
Fits(t, next, X, k) ==
  LET other == traverse(t, next.node, X)
      lft == IF X = L THEN other ELSE next
      rgt == IF X = L THEN next ELSE other
      before(j, m) == IF allow_multiple THEN j <= m ELSE j < m
  IN  (~end(lft) => before(key(lft.node), k)) /\ (~end(rgt) => before(k, key(rgt.node)))

(* insert at an iterator, push_front and push_back.                                     *)
InsertBeside(next, X, k) ==
  /\ Free(k) # {}
  /\ Fits(link, next, X, k)
  /\ Become(insert_node_at(link, next, X, Fresh(k)), n_elem + 1)
  /\ call' = [op |-> "InsertBeside", key |-> k, dir |-> X,
               at |-> IF end(next) THEN <<>> ELSE next.node]

(* The iterators there may be: a search, and an insertion, return one without flags.    *)
Positions ==
  LET nodes(fl) == {Ptr(n, fl) : n \in Nodes(link)}
  IN  {end_node} \cup (IF tree_form(link) THEN nodes(NONE) ELSE nodes(LEAF))
        \cup (IF "freshhint" \in Allowed THEN nodes(NONE) ELSE {})

Erased(t, n) == Become(Without(remove_node(t, n_elem - 1, n), n), n_elem - 1)

\* Mutant of Erase: the node the search ends at goes, whether it has the key or not.
Erase_Nearest(k) ==
  LET f == find_descend(link, n_elem, k)
  IN  n_elem > traits.least /\ Erased(f.t, f.at) /\ call' = [op |-> "Erase", key |-> k]

Erase(k) ==
  LET f == find_descend(link, n_elem, k)
  IN  /\ n_elem > traits.least
      /\ IF f.dir = P THEN Erased(f.t, f.at) ELSE Become(f.t, n_elem)
      /\ call' = [op |-> "Erase", key |-> k]

(* erase at an iterator, pop_front and pop_back.                                        *)
EraseAt(n) == n_elem > traits.least /\ Erased(link, n) /\ call' = [op |-> "EraseAt", at |-> n]

Toggle(k) ==
  LET f == find_descend(link, n_elem, k)
  IN  /\ IF n_elem > 0 /\ f.dir = P THEN n_elem > traits.least /\ Erased(f.t, f.at) ELSE Inserted(k)
      /\ call' = [op |-> "Toggle", key |-> k]

Find(k) ==
  /\ n_elem > 0
  /\ Become(find_descend(link, n_elem, k).t, n_elem)
  /\ call' = [op |-> "Find", key |-> k]

(* The node n gets the key of m: the caller has changed it.                             *)
Renamed(t, n, m) ==
  LET new(x) == IF x = n THEN m ELSE x
      old(x) == IF x = m THEN n ELSE x
  IN  [y \in {<<new(x[1]), x[2]>> : x \in DOMAIN t} |->
         Ptr(new(t[old(y[1]), y[2]].node), t[old(y[1]), y[2]].flags)]

Update(n, k) ==
  LET t == Renamed(link, n, Fresh(k))
      moved == update_node(t, n_elem, Fresh(k))
  IN  /\ Free(k) # {}
      /\ (~tree_form(link) /\ moved # t) => "listupdate" \in Allowed
      /\ Become(moved, n_elem)
      /\ call' = [op |-> "Update", at |-> n, key |-> k]

Clear ==
  /\ n_elem > 0 /\ traits.least = 0
  /\ Become(EmptyLinks @@ destroy_nodes(link, link[head, L]), 0)
  /\ call' = [op |-> "Clear"]

(* The tree is copied and the original forgotten.                                       *)
Copy == Become(cloned(link, n_elem), n_elem) /\ call' = [op |-> "Copy"]

(* The tree is moved to another place.                                                  *)
Move(h) ==
  LET there(x) == IF x = h THEN head ELSE x
      moved == [x \in {<<IF y[1] = head THEN h ELSE y[1], y[2]>> : y \in DOMAIN link} |->
                  link[there(x[1]), x[2]]]
      first == moved[h, R].node
      last == moved[h, L].node
  IN  /\ h # head
      /\ head' = h
      /\ link' = IF n_elem = 0
                 THEN <<h, L>> :> Ptr(h, END) @@ <<h, P>> :> nullptr @@ <<h, R>> :> Ptr(h, END)
                 ELSE (IF tree_form(link) THEN <<root(link), P>> :> Ptr(h, P) ELSE NoLinks)
                        @@ <<first, L>> :> Ptr(h, END) @@ <<last, R>> :> Ptr(h, END) @@ moved
      /\ call' = [op |-> "Move"]
      /\ UNCHANGED <<traits, n_elem>>

Next ==
  \/ \E k \in traits.keys : Insert(k) \/ InsertNew(k) \/ Erase(k) \/ Toggle(k) \/ Find(k)
  \/ \E next \in Positions, X \in {L, R}, k \in traits.keys : InsertBeside(next, X, k)
  \/ \E n \in Nodes(link) : EraseAt(n)
  \/ \E n \in Nodes(link), k \in traits.keys : Update(n, k)
  \/ Clear
  \/ Copy
  \/ \E h \in Heads : Move(h)

Spec == Init /\ [][Next]_vars
-----------------------------------------------------------------------------
(* Properties                                                              *)

Ordered(j, k) == IF allow_multiple THEN j <= k ELSE j < k

RECURSIVE height(_, _)
height(t, p) == IF leaf(p) THEN 0 ELSE 1 + Max({height(t, t[p.node, X]) : X \in {L, R}})

\* In list form, all links of nodes are threads.
ListLinks(t) == \A n \in Nodes(t), X \in {L, R} : leaf(t[n, X])

\* In tree form, children know their parents, the heights of the subtrees of a node differ by
\* at most one, and the link to the taller one is marked.
TreeLinks(t) ==
  /\ t[root(t), P] = Ptr(head, P)
  /\ \A n \in Nodes(t) :
       LET h == [X \in {L, R} |-> height(t, t[n, X])]
       IN  \A X \in {L, R} : /\ ~leaf(t[n, X]) => t[t[n, X].node, P] = Ptr(n, X)
                             /\ h[X] <= h[-X] + 1
                             /\ skew_strict(t[n, X]) = (h[X] > h[-X])

\* The tree is what tree::check() tests: moving to the next and to the previous node runs
\* through all nodes in the order of their keys, both ways, whatever was inserted, erased,
\* copied or moved, and the links make up a list or a balanced tree.
TreeSound ==
  LET s == InOrder(link, n_elem)
      back == walk(link, L, n_elem)
  IN  /\ ToSet(s) = Nodes(link)
      /\ Cardinality(Nodes(link)) = n_elem
      /\ \A i \in 1 .. n_elem : back[i].node = s[n_elem + 1 - i]
      /\ end(back[n_elem + 1]) /\ end(walk(link, R, n_elem)[n_elem + 1])
      /\ \A i \in 1 .. n_elem - 1 : Ordered(key(s[i]), key(s[i + 1]))
      /\ \A n \in Nodes(link), X \in {L, R} : end(link[n, X]) => link[n, X].node = head
      /\ IF tree_form(link) THEN TreeLinks(link) ELSE ListLinks(link)

KeysOf(t) == {key(n) : n \in Nodes(t)}
Best(S, op) == IF op \in {"lt", "le"} THEN Max(S) ELSE Min(S)

\* A search finds a key exactly if it is there, and the nearest key is the nearest one, from
\* whichever of the two forms and ends the search starts.
LookupsExact ==
  \A k \in traits.keys :
    /\ end(find_node(link, n_elem, k)) = (k \notin KeysOf(link))
    /\ \A op \in RelOps :
         LET S == {x \in KeysOf(link) : Satisfies(k, op, x)}
             Right(p) == IF S = {} THEN end(p) ELSE ~end(p) /\ key(p.node) = Best(S, op)
         IN  Right(find_nearest_node(link, n_elem, k, op)) /\ Right(find_nearest_by(link, n_elem, k, op))

\* To its user the tree is a sorted sequence of entries, and every operation does to it what it is
\* called for and nothing else: a search, a copy and a move leave each entry where it is, an
\* insertion adds the one entry, at the place asked for, erasing takes away the one entry and none
\* if the key is not there, and a node whose key was changed moves and no other does - however the
\* links were rebalanced, relinked from list to tree or copied on the way.
OrderedKeysSpec ==
  INSTANCE OrderedKeys WITH entries <- InOrder(link, n_elem), multiple <- allow_multiple
ImplementsOrderedKeys == OrderedKeysSpec!Spec
=============================================================================
