-------------------------------- MODULE Heap --------------------------------
(***************************************************************************)
(* The priority queue of src/lib/core/include/Heap.h: an array ordered as  *)
(* a binary tree, whose elements know their places in it.  The keys belong *)
(* to the client, who changes them and then calls push again.              *)
(*                                                                         *)
(* A heap is a record of queue, a function on 0 .. size - 1 as the array,  *)
(* and position, what the elements have stored; k gives their keys.        *)
(***************************************************************************)
EXTENDS Integers, FiniteSets, FiniteSetsExt

CONSTANTS
  Element,    \* natural numbers
  Key,        \* integers
  Allowed     \* the steps of KnownFaults that may be taken

KnownFaults == {"increase", "again"}
ASSUME AllowedAssumption == Allowed \subseteq KnownFaults
ASSUME ElementAssumption == Element \subseteq Nat /\ Key \subseteq Int

VARIABLES
  heap,   \* the queue and the positions of the elements
  key     \* the keys of the elements that exist

heapVars == <<heap, key>>

size(h) == Cardinality(DOMAIN h.queue)
parent(pos) == (pos - 1) \div 2
back(h) == h.queue[size(h) - 1]

\* f with the value y at x.
With(f, x, y) == [z \in DOMAIN f \cup {x} |-> IF z = x THEN y ELSE f[z]]

\* The element e is at pos: the array cell and update_position.
Placed(h, e, pos) == [queue |-> With(h.queue, pos, e), position |-> With(h.position, e, pos)]
Forgotten(h, e) == [h EXCEPT !.position[e] = -1]
PopBack(h) == [h EXCEPT !.queue = [i \in 0 .. size(h) - 2 |-> h.queue[i]]]

\* One turn of the loop with b.pos as the free place, for an element with key x: the element above
\* moves down, unless it is above stop; or the lesser one below moves up, among the first limit.
rise(b, k, x, stop) ==
  LET above == parent(b.pos)
  IN  IF above >= stop /\ k[b.h.queue[above]] > x
      THEN [h |-> Placed(b.h, b.h.queue[above], b.pos), pos |-> above]
      ELSE b
sink(b, k, x, limit) ==
  LET left == 2 * b.pos + 1
      child == IF left + 1 < limit /\ k[b.h.queue[left + 1]] < k[b.h.queue[left]] THEN left + 1 ELSE left
  IN  IF left < limit /\ k[b.h.queue[child]] < x
      THEN [h |-> Placed(b.h, b.h.queue[child], b.pos), pos |-> child]
      ELSE b

\* The loops: there are no more turns than cells, and turns after the last one change nothing.
bubble_up(h, k, pos, x, stop) ==
  FoldSet(LAMBDA i, b : rise(b, k, x, stop), [h |-> h, pos |-> pos], DOMAIN h.queue)
bubble_down(h, k, pos, x, limit) ==
  FoldSet(LAMBDA i, b : sink(b, k, x, limit), [h |-> h, pos |-> pos], DOMAIN h.queue)

\* What is at old_pos in the end is put where the element that was there belongs.
sift_down(h, k, old_pos, pos, shrinking) ==
  LET b == bubble_down(h, k, pos, k[h.queue[old_pos]], size(h) - shrinking)
  IN  IF b.pos # old_pos THEN Placed(b.h, b.h.queue[old_pos], b.pos) ELSE b.h

push(h, k, e) ==
  LET old_pos == h.position[e]
      start == IF old_pos < 0 THEN size(h) ELSE old_pos
      grown == IF old_pos < 0 THEN [h EXCEPT !.queue = With(@, start, e)] ELSE h
      b == bubble_up(grown, k, start, k[e], 0)
  IN  IF b.pos # start \/ old_pos < 0 THEN Placed(b.h, e, b.pos)
      ELSE sift_down(grown, k, old_pos, old_pos, 0)

pop(h, k) == Forgotten(PopBack(sift_down(h, k, size(h) - 1, 0, 1)), h.queue[0])

update_top(h, k) == sift_down(h, k, 0, 0, 0)

\* Mutant of erase_at: the last element is only moved down from the gap.
erase_at_Down(h, k, pos) ==
  LET last_q == size(h) - 1
      g == Forgotten(h, h.queue[pos])
  IN  IF pos = last_q THEN PopBack(g) ELSE PopBack(sift_down(g, k, last_q, pos, 1))

\* The last element takes the place, or one above or below.
erase_at(h, k, pos) ==
  LET last_q == size(h) - 1
      g == Forgotten(h, h.queue[pos])
      b == bubble_up(g, k, pos, k[back(h)], 1)
  IN  CASE pos = last_q -> PopBack(g)
        [] pos < last_q /\ b.pos # pos -> PopBack(Placed(b.h, back(h), b.pos))
        [] OTHER -> PopBack(sift_down(g, k, last_q, pos, 1))
-----------------------------------------------------------------------------
(* A client that pushes, erases and pops elements in any order             *)

HeapInit ==
  /\ heap = [queue |-> [i \in {} |-> 0], position |-> [e \in Element |-> -1]]
  /\ key = [e \in {} |-> 0]

Push(e, x) ==
  /\ heap.position[e] < 0
  /\ key' = With(key, e, x)
  /\ heap' = push(heap, key', e)

(* The key of an element in the queue has changed; push, or update_top, is told so.     *)
PushAgain(e, x) ==
  /\ heap.position[e] >= 0
  /\ x > key[e] => "increase" \in Allowed
  /\ key' = [key EXCEPT ![e] = x]
  /\ heap' = push(heap, key', e)

UpdateTop(x) ==
  /\ size(heap) > 0
  /\ LET top == heap.queue[0]
     IN  /\ x > key[top] => "increase" \in Allowed
         /\ key' = [key EXCEPT ![top] = x]
  /\ heap' = update_top(heap, key')

Pop ==
  /\ size(heap) > 0
  /\ heap' = pop(heap, key)
  /\ key' = [e \in DOMAIN key \ {heap.queue[0]} |-> key[e]]

Erase(e) ==
  /\ heap.position[e] >= 0
  /\ heap' = erase_at(heap, key, heap.position[e])
  /\ key' = [f \in DOMAIN key \ {e} |-> key[f]]

HeapNext ==
  \/ \E e \in Element, x \in Key : Push(e, x) \/ PushAgain(e, x)
  \/ \E x \in Key : UpdateTop(x)
  \/ Pop
  \/ \E e \in Element : Erase(e)

Queued == {e \in Element : heap.position[e] >= 0}

\* As sanity_check() asks: each element is where it thinks it is, none is there twice or lost,
\* and none is above one with a smaller key - after keys have changed and elements have left
\* from the middle, too.
HeapSound ==
  /\ DOMAIN heap.queue = 0 .. size(heap) - 1
  /\ Cardinality(Queued) = size(heap)
  /\ \A i \in DOMAIN heap.queue : /\ heap.position[heap.queue[i]] = i
                                  /\ i > 0 => key[heap.queue[parent(i)]] <= key[heap.queue[i]]
=============================================================================
